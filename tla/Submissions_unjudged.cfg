SPECIFICATION Spec
CONSTANTS
    Procs = {p1, p2}
    Docs = {d1}
    Periods = {k1}
    Years = {y1, y2}
    FirstYear = y1
    BandStates = {}
    Stamps = TRUE
    MaxWrites = 1
    Users = {"boss", "clerk"}
    Writers = {"boss"}
    Admins = {}
    States <- MCStates
    StateDef <- MCStateDef
    Transitions <- MCTransitions
    AnyState = "*"
    BlockOn = {"submit", "post_submit_update"}
    None = None
SYMMETRY Symmetry
CHECK_DEADLOCK FALSE
PROPERTY WritesAreCleared
