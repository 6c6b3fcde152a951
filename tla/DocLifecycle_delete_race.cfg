SPECIFICATION Spec
CONSTANTS
    Procs = {p1, p2}
    Docs = {d1, d2}
    None = None
    Verbs <- AllVerbs
    BandLink = FALSE
    HooksCancelTargets = FALSE
SYMMETRY Symmetry
PROPERTIES NoSubmittedDelete
CHECK_DEADLOCK FALSE
