CONSTANTS
  Server = server
  Client = client
  InfoLen = 2
  AfterExchange = "setup"
  FaultyPeers = {server, client}
  SignalInterval = 3
  SqDepth = 12
  PollBatch = 5
  QpCount = 1
  Warmup = 11
  Iterations = 26
  MayBreak = TRUE
SPECIFICATION ProgramSpec
INVARIANTS NoOverflow WaitsArePaid WiredBothWays MemoryOutlivesAllButTail
PROPERTIES ServerEndsUnlessClientStuck
CHECK_DEADLOCK FALSE
