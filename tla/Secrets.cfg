SPECIFICATION Spec
CONSTANTS
    Entries = {e1, e2}
    ClearAfter = 1
    MaxActs = 4
    MaxTasks = 2
    MaxTicks = 2
    Foreign = Foreign
    Blank = Blank
    None = None
INVARIANTS TypeOK ShownBounded CopiedBounded
PROPERTIES EditKeepsValue
CHECK_DEADLOCK FALSE
