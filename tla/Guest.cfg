SPECIFICATION MCSpec
CONSTANTS
  MaxCounter = 3
  MaxRequests = 2
  MaxLate = 1
  Workers = {w1, w2}
  Ops = {"a", "b"}
  Wanted <- TwoRequests
  MaxLaunch = 3
  MaxCrashes = 1
  Procs = {"p1", "p2"}
  Plans = {"one", "two"}
  Devices = {1, 2}
  MaxFaults = 4
  Controls = {"k", "m"}
  Owners = {"agent", "user"}
  MaxGeneration = 2
  MaxOps = 3
  Paused = {"r1", "r2"}
  MaxFetching = 1
INVARIANT FreshSequence
INVARIANT SavedStateOpens
INVARIANT HoldsAuthority
PROPERTY Recovers
INVARIANT OperationsContained
INVARIANT DataKept
INVARIANT PageHeld
CHECK_DEADLOCK FALSE
