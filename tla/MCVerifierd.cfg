SPECIFICATION Spec
CONSTANTS
  Assignments = {"a"}
  StartAt <- Starts
  DeadlineAt <- Deadlines
  Relay = "relay"
  ChainWindow = 3
  CommitWindows = {2, 3, 6}
  CommitStartBuffer = 1
  RevealSlack = 2
  RetryBackoff = 1
  RoundInterval = 5
  DrandGenesis = 0
  DrandPeriod = 1
  DrandOffset = 2
  Ranks = {0, 1}
  RelayStagger = 1
  RelayMaxDelay = 2
  MaxLag = 1
  MaxTime = 7
  MaxNonces = 2
  MaxCrashes = 1
INVARIANTS DaemonTypeOK CommittedVoteKept OneVote RevealAfterCommits
PROPERTIES JobsEnd PollReturns
