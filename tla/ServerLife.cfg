SPECIFICATION Spec
CONSTANTS
    Migrations = 2
    Timeouts = {1, 2}
    Default = 1
    Absolute = 3
    TouchEvery = 1
    Retention = 1
    TokenTtl = 2
    MaxSessions = 2
    MaxTime = 4
    MaxCrashes = 2
    MaxFaults = 1
    Unset = Unset
INVARIANTS TypeOK RefusedForGood ListeningMeansReady
PROPERTIES ClaimedInTime ServerReturns
CHECK_DEADLOCK FALSE
