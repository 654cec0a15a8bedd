SPECIFICATION MCSpec
CONSTANTS
  c1 = c1
  t1 = t1
  Builds = {b1, b2}
  Urls = {"u", "v"}
  Branches = {"main", "dev"}
  Default = "main"
  Wanted <- WorkspaceSpecs
  MaxPushes = 1
  MaxCrashes = 1
  Kinds = {"helm", "manifest", "ssh"}
  SourceCommits = {"c1", "c2"}
  Names = {1, 2}
  Tree <- Entries
  Modules <- Declared
  Lists <- Checkouts
  NeedsKey = {"lib"}
  CacheNames = {"build", "launch"}
  Caches <- Volumes
  CacheLimit = 1
  NoClaim = NoClaim
  MaxAttempts = 2
  Claims <- OneClaim
  Tasks <- OneTask
  TaskOf <- OneClaimOf
  CommandCount <- TwoCommands
INVARIANT OneVerdict
INVARIANT CanceledOnlyIfAsked
INVARIANT CancelIsReported
PROPERTY NothingStartsAfterStop
PROPERTY KeepsLifecycle
INVARIANT BuildsContained
PROPERTY NoClaimWhileBlocked
INVARIANT VerdictIsTrue
PROPERTY WorkEnds
CHECK_DEADLOCK FALSE
