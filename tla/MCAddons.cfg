SPECIFICATION PartSpec
CONSTANTS
  None = None
  j1 = j1
  j2 = j2
  d1 = d1
  d2 = d2
  s1 = s1
  s2 = s2
CHECK_DEADLOCK FALSE
INVARIANT ConditionsAreConsistent
PROPERTY ImplementsView
PROPERTY EngineNeverReenqueues
PROPERTY DecisionsStay
PROPERTY OwnersAreRespected
PROPERTY SourcesAreSerial
 
PROPERTY NobodyWaits
