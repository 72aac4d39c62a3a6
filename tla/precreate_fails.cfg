SPECIFICATION Spec
CONSTANTS
  Hooks <- RouterOnly
  Budgets <- ZeroOrOne
  Transfers <- UnderOnly
  MoreSponsors <- OneWallet
  MaxBudgets = 1
INVARIANTS FreshCompletesLand
CHECK_DEADLOCK FALSE
