SPECIFICATION Spec
CONSTANTS
    Procs = {p1, p2}
    Ids = {i1, i2}
    Modes = {template, demo}
    Kinds <- AppWrites
    WipeFails = FALSE
    None = None
INVARIANTS TypeOK NoSelfWait StagedIsCounted
PROPERTIES NothingLandsAfterWipe CleanSlate ResetEnds EveryCallAnswered
CHECK_DEADLOCK FALSE
