SPECIFICATION OneSpec
CONSTANTS
  Jobs <- TwoJobs
  Tenants = {"a"}
  Queue <- OneQueue
  Request <- TwoPods
  Priority <- TwoPriorities
  Hard = 3
  Period = 1
  MaxLag = 1
  MaxEdits = 0
  MaxFaults = 1
  MaxCrashes = 0
  MayDelete = FALSE
  MayMove = FALSE
  Slow = FALSE
CHECK_DEADLOCK FALSE
INVARIANT HandedOverUnitsHaveOwners
