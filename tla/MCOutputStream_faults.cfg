SPECIFICATION Spec
CONSTANTS
    MaxOut = 3
    MaxSockets = 3
    MaxBreaks = 3
    MaxTimeouts = 2
    MaxCrashes = 2
    MaxAttempts = 2
CHECK_DEADLOCK FALSE
INVARIANTS
    TypeOK
    NoHole
    Exact
PROPERTIES
    EndReported
