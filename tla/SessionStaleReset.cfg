SPECIFICATION Spec
CONSTANTS
    Procs = {p1, p2}
    NoProc = NoProc
    RemovalAttempts = 1
    ReclaimLimit = 1
    MaxConnects = 2
    MaxRenewals = 0
    MaxFaults = 0
    MaxForeign = 1
    Concurrent = FALSE
    Prompt = TRUE
    RadioMay = {}
PROPERTIES
    JournalKept
CHECK_DEADLOCK FALSE
