\* Does "canceled" mean that the cleanup was confirmed?
SPECIFICATION Spec
CONSTANTS
  b1 = b1
  b2 = b2
  Tasks <- TwoBuilds
  MaxCrashes = 1
INVARIANT CancellationMeansCleanup
CHECK_DEADLOCK FALSE
