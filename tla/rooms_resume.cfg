SPECIFICATION Spec
CONSTANTS
  j1 = j1
  j2 = j2
  Jobs = {j1}
  Party <- BuyerParty
  Kinds = {"job.created", "budget.set", "message", "own"}
  MaxEntries = 3
  MaxStarts = 1
  MaxDrops = 0
  Early = 2
  Replays = TRUE
  Simultaneous = FALSE
INVARIANT ResumesAll
CHECK_DEADLOCK FALSE
