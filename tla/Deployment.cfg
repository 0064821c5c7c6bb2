SPECIFICATION Spec
CONSTANTS
    Updaters = {u1, u2}
    MaxImage = 2
    MaxWrites = 1
    MaxProbes = 1
    MaxSignals = 1
    Overlap = FALSE
    Downgrades = FALSE
    Null = Null
INVARIANTS TypeOK DataKept OldNeverOpensNew CopiesMatch ServiceComesBack OneUpdateAtATime
CHECK_DEADLOCK FALSE
