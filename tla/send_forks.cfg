SPECIFICATION FairSpec
CONSTANTS
  Window = 1
  StartHeight = 1
  MaxHeight = 4
  MaxAttempts = 2
  MaxRounds = 1
  MaxPolls = 2
  Routes = {"alchemy", "koraSponsor", "koraSpl", "selfPay", "fixedBytes"}
  Expected = {"wrongStatus"}
  ExtraSigners = FALSE
  BoundGiven = TRUE
  RpcReasons = {"other", "lag"}
  Forks = TRUE
  StickyReads = TRUE
INVARIANTS SuccessIsConfirmed ExpiredIsFinal
PROPERTY Terminates
CHECK_DEADLOCK FALSE
