SPECIFICATION Spec
CONSTANTS
  Trimmed <- TrimmedTexts
  Lowered <- LoweredTexts
  Decimal <- DecimalTexts
  DayOf <- DayTexts
  GridLike = {"grid1a", "grid1b", "grid1v"}
  MantissaBits = 4
  TicksPerSecond = 2
  DayTicks = 2
  GraceTicks = 2
  Accounts = {"grid1a", "grid1b"}
  Configs <- PageConfigs
  Inputs <- FormInputs
  Badges <- HomeBadges
  MaxHandlers = 2
  Times = {3, 5}
INVARIANTS PageTypeOK OneImport ChainSeesForm RegisteredWalletVerified BegunDayAccepted
PROPERTIES SubmissionKept HandlersSettle
CHECK_DEADLOCK FALSE
