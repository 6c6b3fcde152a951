SPECIFICATION FilesSpec
CONSTANTS
    Requests = {p1, p2, p3}
    Files = {f1, f2, f3}
    Keys = {k1, k2}
    Verbs <- AllVerbs
    PutFails = TRUE
SYMMETRY Symmetry
INVARIANTS FilesTypeOK MissingIsExplained
CHECK_DEADLOCK FALSE
