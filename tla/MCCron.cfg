SPECIFICATION FairSpec
CONSTANTS
  Policies = {"Allow", "Forbid", "Replace"}
  Named = FALSE
  Schedule <- Regular
  Deadline = 9
  HistoryLimit = 1
  MaxTime = 5
  MaxStarts = 3
  MaxEdits = 1
  MaxDeletes = 1
  MaxFaults = 1
CHECK_DEADLOCK FALSE
INVARIANT ForbidHolds
INVARIANT StartsAreTicks
 
 
