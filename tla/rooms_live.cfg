SPECIFICATION FairSpec
CONSTANTS
  j1 = j1
  j2 = j2
  Jobs = {j1}
  Party <- BuyerParty
  Kinds = {"job.created", "budget.set", "job.rejected", "message", "own"}
  MaxEntries = 3
  MaxStarts = 1
  MaxDrops = 1
  Early = 2
  Replays = TRUE
  Simultaneous = FALSE
PROPERTIES StartSettles Converges
CHECK_DEADLOCK FALSE
