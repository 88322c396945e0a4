SPECIFICATION BondSpec
CONSTANTS
  v1 = v1
  v2 = v2
  Verifiers = {v1, v2}
  MinBond = 2
  Wallet = 12
  BondAmounts = {1, 2, 3}
  GenesisBonds <- Bonded1
  GenesisDeposits <- Deposits
INVARIANT NothingStranded
