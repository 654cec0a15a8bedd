SPECIFICATION MCSpec
CONSTANTS
  Kinds <- AllKinds
  MaxAttempts = 2
  Parts <- AllParts
  Ops <- TwoOps
  OpKinds <- KindsOfPairs
  Projects <- PairsOfKinds
  MaxHead = 2
  MaxRetry = 1
  MaxCrash = 1
  Checks = {"c1"}
  MaxLease = 3
  MaxBad = 2
INVARIANT AckMeansStopped
INVARIANT CanceledOnlyIfAsked
INVARIANT ProjectKept
PROPERTY OutpostGuarded
PROPERTY ControlPlaneAnswered
CHECK_DEADLOCK FALSE
