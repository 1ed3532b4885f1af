SPECIFICATION AnySpec
CONSTANTS
  RTypes = {"Worker"}
  Order <- MCOrder
  Replicas <- OneEach
  MaxReplicas = 2
  RestartPolicy <- AllExitCode
  AllWorkers = FALSE
  CleanPodPolicy = "Running"
  BackoffLimit <- NotSet
  ActiveDeadline <- NotSet
  TTL <- NotSet
  Sidecars = TRUE
  Evictions = TRUE
  MaxRestarts = 1
  MaxRetries = 1
  MaxTime = 2
  MaxLag = 1
  MaxFaults = 1
  MaxCrashes = 1
  MaxEdits = 0
  MaxKills = 0
  MayDelete = FALSE
  LongWaits = FALSE
CHECK_DEADLOCK FALSE
INVARIANT TypeOK
PROPERTY VerdictIsFinal
PROPERTY NoPodAfterVerdict
