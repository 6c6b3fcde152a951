SPECIFICATION Spec
CONSTANTS
    Procs = {p1, p2}
    Nodes = {n1, n2, n3, n4}
    KindSet = {k1, k2}
    MaxDepth = 3
    MaxCalls = 3
    None = None
SYMMETRY Symmetry
INVARIANTS TypeOK DepthBound OneKindPerTree AncestorsFaithful NoCycle
CHECK_DEADLOCK FALSE
