SPECIFICATION MCSpec
CONSTANTS
  Kinds <- JustChat
  MaxAttempts = 2
  Parts <- JustWork
  Ops <- TwoOps
  OpKinds <- KindsOfPairs
  Projects <- PairsOfKinds
  MaxHead = 2
  MaxRetry = 1
  MaxCrash = 1
  Checks = {"c1"}
  MaxLease = 3
  MaxBad = 2
PROPERTY ChatCancelAnswered
CHECK_DEADLOCK FALSE
