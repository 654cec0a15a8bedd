SPECIFICATION Spec
CONSTANTS
  a = a
  b = b
  w1 = w1
  w2 = w2
  Agents <- TwoAgents
  Writes <- TwoWrites
  Reads <- NoReads
  Ids <- OneId
  Asks <- Asked
  MaxCrashes = 1
INVARIANT DataSafe
PROPERTY NeverReplayed
PROPERTY StopsItsOwn
PROPERTY Collected
CHECK_DEADLOCK FALSE
