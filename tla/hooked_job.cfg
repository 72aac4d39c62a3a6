SPECIFICATION Spec
CONSTANTS
  Hooks <- AllHooks
  Budgets <- ZeroOrOne
  Transfers <- AllKinds
  MoreSponsors <- OneWallet
  MaxBudgets = 1
INVARIANTS TypeOK FreshCallsLand PullsAuthorised EachItsSlice PinnedRentGoesHome
CHECK_DEADLOCK FALSE
