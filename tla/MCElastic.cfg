SPECIFICATION FairSpec
CONSTANTS
  MaxWorkers = 2
  InitWorkers = 1
  HasAIMaster = TRUE
  CacheLags = FALSE
  MaxScales = 1
  MaxPreempts = 1
  MaxFaults = 1
  MaxFailedCRRs = 1
CHECK_DEADLOCK FALSE
INVARIANT CheckpointVersionIsBounded
PROPERTY VictimsLeaveAfterCheckpoint
 
PROPERTY RoundsEnd
