SPECIFICATION MCSpec
CONSTANTS
  execution = execution
  agentRuntime = agentRuntime
  e1 = e1
  e2 = e2
  a1 = a1
  a2 = a2
  MaxConcurrency = 2
  Loops <- BothLoops
  Work <- FourPieces
  LoopOf <- ForLoop
  SshIds = {"i1", "i2"}
  SshStreams = {"s1", "s2", "s3"}
  SshLimit = 2
  ShellChunks = 2
  LogSources = {"i1", "i2"}
  MaxLines = 1
  MaxInput = 2
  Room = 1
  Forwards = {"f1", "f2"}
  Tunnels = {"t1"}
  StreamIds = {"s1", "s2", "s3"}
  MaxStreams = 2
  MaxConnects = 2
  DockerChunks = 2
  DockerInput = 2
  PipeRoom = 1
  Targets <- Mounts
  Inner <- Paths
  MaxRequests = 2
INVARIANT SlotsAccounted
PROPERTY Drains
INVARIANT NothingLeaks
INVARIANT OutputComplete
PROPERTY StreamsEnd
CHECK_DEADLOCK FALSE
