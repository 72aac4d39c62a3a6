SPECIFICATION FairSpec
CONSTANTS
  Budgets = {1}
  Deliverables = {"d1"}
  Setups <- AllSetups
  SelfEval = TRUE
  Faults = {"crash", "request", "send", "deadline"}
  MaxFaults = 1
  MaxMessages = 1
  MaxPosts = 2
INVARIANTS TypeOK SubmittedIsPosted RequirementFollowsHooks ToolsKeepUp
PROPERTY Finishes
CHECK_DEADLOCK FALSE
