SPECIFICATION Spec
CONSTANTS
  Tasks = {t1, t2}
  Urls = {"u"}
  Branches = {"main"}
  Default = "main"
  Specs <- Builds
  MaxPushes = 1
INVARIANT DigestReported
CHECK_DEADLOCK FALSE
