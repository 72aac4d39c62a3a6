SPECIFICATION Spec
CONSTANTS
  j1 = j1
  j2 = j2
  Jobs = {j1, j2}
  Party <- MixedParty
  Kinds = {"job.created", "budget.set", "job.rejected", "message", "own"}
  MaxEntries = 3
  MaxStarts = 1
  MaxDrops = 2
  Early = 2
  Replays = TRUE
  Simultaneous = FALSE
INVARIANTS TypeOK RolesKnown OneOverlap TwiceAtMost Follows ResumesRooted
CHECK_DEADLOCK FALSE
