SPECIFICATION MCSpec
CONSTANTS
  p1 = p1
  p2 = p2
  v1 = v1
  v2 = v2
  r1 = r1
  r2 = r2
  None = None
  Provider <- BothProviders
  Version <- BothVersions
  Run <- TwoRuns
  MaxRevision = 3
  Lists <- ThreeLists
  Drains <- FirstDrains
  Refused <- NothingRefused
  Unsteady <- NewVersionUnsteady
  MaxRollbacks = 2
  Callers = {"c1", "c2"}
  LeaseIds = {"i1", "i2"}
  MaxAcquire = 3
  Batch = 1
SYMMETRY TwoRunsSymmetry
INVARIANT CountsExact
INVARIANT RunningVersionKept
INVARIANT LastKnownGood
INVARIANT LeasesAccounted
CHECK_DEADLOCK FALSE
