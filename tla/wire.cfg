SPECIFICATION Spec
INVARIANTS ReadsBack GuardFindsJob
CHECK_DEADLOCK FALSE
