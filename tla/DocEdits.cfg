SPECIFICATION Spec
CONSTANTS
    Procs = {p1, p2, p3}
    Docs = {d1}
    MaxWrites = 2
    ClockTicks = TRUE
SYMMETRY Symmetry
INVARIANTS TypeOK NoLostIncrement
PROPERTIES SubmittedTextFrozen MatchedWriteIsFresh
CHECK_DEADLOCK FALSE
