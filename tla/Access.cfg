SPECIFICATION Spec
CONSTANTS
    Fields = {"margin"}
    Table = "lines"
    Cells = {"qty", "done"}
    RowIds = {"row"}
    Level <- MCLevel
    LockCell = "qty"
    DoneCell = "done"
    Values = {"x", "y"}
    Done = "y"
    Blank = "blank"
    User = "user"
    Admin = "admin"
    GrantTables <- MCGrantTables
    MaxSaves = 2
INVARIANTS TypeOK
PROPERTIES FiltersReadableOnly HiddenKept LocksHoldOut
