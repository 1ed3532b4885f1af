SPECIFICATION HSpec
CONSTANTS
  RTypes = {"Chief","Worker"}
  Order <- MCOrder
  Replicas <- OneEach
  MaxReplicas = 1
  RestartPolicy <- AllExitCode
  AllWorkers = TRUE
  CleanPodPolicy = "Running"
  BackoffLimit <- NotSet
  ActiveDeadline <- NotSet
  TTL <- NotSet
  Sidecars = FALSE
  Evictions = TRUE
  MaxRestarts = 0
  MaxRetries = 0
  MaxTime = 1
  MaxLag = 1
  MaxFaults = 0
  MaxCrashes = 0
  MaxEdits = 0
  MaxKills = 0
  MayDelete = FALSE
  LongWaits = FALSE
CHECK_DEADLOCK FALSE
PROPERTY VerdictIsEarned
PROPERTY FailOverIsEarned
