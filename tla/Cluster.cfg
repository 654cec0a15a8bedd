SPECIFICATION MCSpec
CONSTANTS
  a = a
  b = b
  Callers <- Two
  Kinds <- AllKinds
  MaxUid = 2
  MaxVersion = 3
  NDocs = 3
  ObjectNames = {"n1", "n2", "n3"}
  Versions = {"v1", "v2"}
  MaxOther = 1
  Charts = {"c1", "c2"}
  MaxRev = 3
  InfKinds = {"pods"}
  MaxSeen = 3
  Buffer = 2
  NPods = 2
  DefaultTail = 2
  Times = {1, 2, 3}
  Long = {3}
  MaxEntries = 3
  MaxSources = 3
  Budget = 5
  LogWorkers = 2
SYMMETRY Symmetry
PROPERTY OwnedUntouched
PROPERTY NoLostUpdate
PROPERTY ActsOnWhatWasSeen
INVARIANT DocumentsReported
PROPERTY ReleasesGuarded
INVARIANT ReadsAreTrue
CHECK_DEADLOCK FALSE
