SPECIFICATION SafetySpec
CONSTANTS
  a = a
  b = b
  l = l
  v1 = v1
  v2 = v2
  NoOwner = NoOwner
  Domains = {1}
  PrimaryDomain <- OwnPrimary
  Owners = {a}
  Lessees = {l}
  GenesisSites <- SiteA
  Verifiers = {v1, v2}
  MinBond = 1
  Wallet = 1
  BondAmounts = {1}
  GenesisBonds <- Bonded1
  GenesisDeposits <- Deposits
  RoundInterval = 3
  DrandGenesis = 0
  DrandPeriod = 2
  DrandOffset = 2
  MinVerifierCount = 1
  DelayMax = 1
  CommitWindow = 1
  SubmissionWindow = 2
  RevokeThreshold = 2
  SuspendThreshold = 1
  SuspendSeconds = 3
  CooldownBase = 4
  DrandEnabled = TRUE
  FundedRounds = 9
  LeaseLeads = {0}
  LeaseDurations = {2}
  GenesisTime = 2
  BlockGaps = {1}
  MaxTime = 7
  MaxSlots = 0
  MaxLeases = 0
INVARIANTS AuditableDraw BondTypeOK BondsCovered NothingStranded
