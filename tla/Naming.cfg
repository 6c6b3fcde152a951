SPECIFICATION Spec
CONSTANTS
    Procs = {p1, p2, p3}
    Docs = {d1, d2, d3, d4}
    Counter = Counter
    Shared = Shared
    MaxNumber = 6
    MaxSkips = 2
    HookWrites = TRUE
SYMMETRY Symmetry
INVARIANTS TypeOK DrawnUnique
PROPERTIES NumbersAscend
CHECK_DEADLOCK FALSE
