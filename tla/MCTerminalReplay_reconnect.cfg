SPECIFICATION Spec
CONSTANTS
    MaxConns = 2
    MaxOut = 2
    MaxIn = 1
    MaxResumes = 1
    MaxListeners = 1
    MaxReconnects = 1
    TailOuts = 1
    Faults = {}
CHECK_DEADLOCK FALSE
INVARIANTS
    TypeOK
    ScreenInOrder
    CursorShown
    HistoryRepeats
    NothingStuck
    SubscribersLeave
PROPERTIES
    ExitLast
    CaughtUp
