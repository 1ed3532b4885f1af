SPECIFICATION Spec
CONSTANTS
  Jobs <- MCJobs
  MaxReplicas = 2
  MaxFailures = 2
  MaxFaults = 1
CHECK_DEADLOCK FALSE
INVARIANT RanksAreDistinct
 
PROPERTY EveryReplicaStarts
PROPERTY VerdictFollows
