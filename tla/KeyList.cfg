SPECIFICATION Spec
CONSTANTS
    Entries = {1, 2, 3}
    MaxOps = 2
    MaxOthers = 1
    MaxMounts = 2
    Filters = {{1, 2, 3}, {1, 3}}
    None = None
INVARIANTS TypeOK InStep DropAsPreviewed
CHECK_DEADLOCK FALSE
