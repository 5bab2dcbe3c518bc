SPECIFICATION Spec
CONSTANTS
    Procs = {p1, p2}
    Solo = q1
    NoProc = NoProc
INVARIANTS
    TypeOK
    JournalCoversSession
    LiveSessionsUntouched
    RemovalsInOrder
    ShutdownNeverWaits
PROPERTIES
    JournalKept
    ClosingStaysClosed
CHECK_DEADLOCK FALSE
SYMMETRY Symmetry
