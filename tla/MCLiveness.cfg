SPECIFICATION Spec
CONSTANTS
  a = a
  b = b
  l = l
  v1 = v1
  v2 = v2
  NoOwner = NoOwner
  Domains = {1}
  PrimaryDomain <- OwnPrimary
  Owners = {a}
  Lessees = {l}
  GenesisSites <- SiteA
  Verifiers = {v1}
  MinBond = 1
  Wallet = 1
  BondAmounts = {}
  GenesisBonds <- Bonded1
  GenesisDeposits <- Deposits
  RoundInterval = 3
  DrandGenesis = 0
  DrandPeriod = 1
  DrandOffset = 1
  MinVerifierCount = 1
  DelayMax = 1
  CommitWindow = 1
  SubmissionWindow = 2
  RevokeThreshold = 2
  SuspendThreshold = 2
  SuspendSeconds = 4
  CooldownBase = 4
  DrandEnabled = FALSE
  FundedRounds = 1
  LeaseLeads = {0}
  LeaseDurations = {1}
  GenesisTime = 2
  BlockGaps = {1, 2}
  MaxTime = 8
  MaxSlots = 1
  MaxLeases = 1
INVARIANTS OnlyExhaustionHalts
PROPERTIES RoundsSettle LeasesClose
