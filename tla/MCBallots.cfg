SPECIFICATION SafetySpec
CONSTANTS
  a = a
  b = b
  l = l
  v1 = v1
  v2 = v2
  NoOwner = NoOwner
  Domains = {1, 2}
  PrimaryDomain <- OwnPrimary
  Owners = {a}
  Lessees = {l}
  GenesisSites <- SitesA
  Verifiers = {v1, v2}
  MinBond = 1
  Wallet = 1
  BondAmounts = {}
  GenesisBonds <- Bonded12
  GenesisDeposits <- Deposits
  RoundInterval = 4
  DrandGenesis = 0
  DrandPeriod = 1
  DrandOffset = 1
  MinVerifierCount = 2
  DelayMax = 2
  CommitWindow = 1
  SubmissionWindow = 2
  RevokeThreshold = 2
  SuspendThreshold = 2
  SuspendSeconds = 4
  CooldownBase = 4
  DrandEnabled = FALSE
  FundedRounds = 9
  LeaseLeads = {0}
  LeaseDurations = {2}
  GenesisTime = 3
  BlockGaps = {1}
  MaxTime = 7
  MaxSlots = 0
  MaxLeases = 0
SYMMETRY VerifierSymmetry
INVARIANTS TypeOK VerdictJustified PaidOnce
PROPERTIES CommitsPrecedeReveals
