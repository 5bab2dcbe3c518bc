SPECIFICATION Spec
CONSTANTS
    Keys = {meter, scope}
    Event = Event
    Commands = {c1, c2}
    QueueDepth = 1
    MaxPending = 2
    MaxSessions = 2
    MaxValues = 3
    MaxCommands = 2
INVARIANTS
    TypeOK
    DrainPosted
    NothingKept
    OrderKept
PROPERTIES
    Implements
CHECK_DEADLOCK FALSE
