SPECIFICATION FairSpec
CONSTANTS
  RTypes = {"Worker"}
  Order <- MCOrder
  Replicas <- OneEach
  MaxReplicas = 1
  RestartPolicy <- AllExitCode
  AllWorkers = FALSE
  CleanPodPolicy = "Running"
  BackoffLimit = 0
  ActiveDeadline <- NotSet
  TTL = 1
  Sidecars = FALSE
  Evictions = TRUE
  MaxRestarts = 0
  MaxRetries = 0
  MaxTime = 2
  MaxLag = 1
  MaxFaults = 0
  MaxCrashes = 0
  MaxEdits = 0
  MaxKills = 0
  MayDelete = FALSE
  LongWaits = FALSE
CHECK_DEADLOCK FALSE
PROPERTY LimitIsEnforced
