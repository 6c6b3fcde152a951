SPECIFICATION Spec
CONSTANTS
    Procs = {p1, p2}
    Docs = {d1, d2, d3}
    Counter = Counter
    Shared = Shared
    MaxNumber = 4
    MaxSkips = 2
    HookWrites = TRUE
SYMMETRY Symmetry
INVARIANTS NumbersUnique
CHECK_DEADLOCK FALSE
