SPECIFICATION SafetySpec
CONSTANTS
  Assignments = {}
  StartAt <- Starts
  DeadlineAt <- Deadlines
  Relay = "relay"
  ChainWindow = 3
  CommitWindows = {2}
  CommitStartBuffer = 1
  RevealSlack = 2
  RetryBackoff = 1
  RoundInterval = 60
  DrandGenesis = 0
  DrandPeriod = 1
  DrandOffset = 1
  Ranks = {2, 3}
  RelayStagger = 1
  RelayMaxDelay = 3
  MaxLag = 0
  MaxTime = 62
  MaxNonces = 1
  MaxCrashes = 0
INVARIANT FallbackHadItsTurn
