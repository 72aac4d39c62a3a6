SPECIFICATION Spec
CONSTANTS
  Window = 1
  StartHeight = 1
  MaxHeight = 3
  MaxAttempts = 2
  MaxRounds = 2
  MaxPolls = 2
  Routes = {"alchemy", "koraSponsor", "koraSpl", "selfPay", "fixedBytes"}
  Expected = {"wrongStatus"}
  ExtraSigners = FALSE
  BoundGiven = TRUE
  RpcReasons = {"other"}
  Forks = FALSE
  StickyReads = TRUE
INVARIANTS TypeOK AtMostOnce DefiniteFailure Inductive
PROPERTY KeepsContract
CHECK_DEADLOCK FALSE
