SPECIFICATION FairSpec
CONSTANTS
  Calls = {c1, c2, c3}
  Ids = {a1, a2}
  NoCall = NoCall
  NoId = NoId
  Shared = TRUE
  Replays = TRUE
INVARIANTS WaitersArePending DecisionHonoured HeardIsHonoured Inductive
PROPERTIES EveryCallEnds
CHECK_DEADLOCK FALSE
