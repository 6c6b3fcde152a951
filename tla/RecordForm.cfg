SPECIFICATION Spec
CONSTANTS
    Tabs = {"tab"}
    Calls = {"c1", "c2"}
    MaxWrites = 2
    MaxBreaks = 1
INVARIANTS TypeOK NoWriteLost
PROPERTIES CatchesUp
CHECK_DEADLOCK FALSE
