SPECIFICATION Spec
CONSTANTS
    Slot = {s1, s2}
    Operations = {"setup", "login", "claim", "reset", "change", "regenerate", "cancel", "refresh", "lock", "back"}
    Quiet = Quiet
INVARIANTS TypeOK NoDeadEnd
PROPERTIES CodesStay WorkingEnds
CHECK_DEADLOCK FALSE
