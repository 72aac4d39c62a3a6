SPECIFICATION Spec
CONSTANTS
  Window = 1
  StartHeight = 1
  MaxHeight = 4
  MaxAttempts = 1
  MaxRounds = 2
  MaxPolls = 2
  Routes = {"alchemy"}
  Expected = {"wrongStatus"}
  ExtraSigners = FALSE
  BoundGiven = TRUE
  RpcReasons = {"other"}
  Forks = TRUE
  StickyReads = TRUE
INVARIANT ResendIsSafe
CHECK_DEADLOCK FALSE
