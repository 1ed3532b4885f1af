SPECIFICATION OneSpec
CONSTANTS
  RTypes = {"Worker"}
  Order <- MCOrder
  Replicas <- OneEach
  MaxReplicas = 2
  RestartPolicy <- AllExitCode
  AllWorkers = FALSE
  CleanPodPolicy = "Running"
  BackoffLimit <- NotSet
  ActiveDeadline <- NotSet
  TTL <- NotSet
  Sidecars = FALSE
  Evictions = TRUE
  MaxRestarts = 0
  MaxRetries = 0
  MaxTime = 1
  MaxLag = 1
  MaxFaults = 1
  MaxCrashes = 1
  MaxEdits = 0
  MaxKills = 0
  MayDelete = FALSE
  LongWaits = TRUE
CHECK_DEADLOCK FALSE
PROPERTY ReplicasAreProvided
 
PROPERTY StatusCatchesUp
PROPERTY SurplusPodsGo
PROPERTY FinishedJobIsCollected
