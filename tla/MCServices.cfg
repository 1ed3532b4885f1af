SPECIFICATION PartSpec
CONSTANTS
  None = None
  s1 = s1
  Jobs = {"j"}
  Pods = {"p"}
  Kind <- OfTFJob
  Namespace = "ns"
  UIDs = {1, 2}
  MaxVersion = 4
  MaxFaults = 1
CHECK_DEADLOCK FALSE
INVARIANT AnswersAreTrue
 
PROPERTY BuildsAreTrue
 
PROPERTY RecordsAreTrue
PROPERTY RecordsSettle
 
