SPECIFICATION Spec
INVARIANTS
    TypesOK
    StreamIntact
    ReadyIsTrue
    AudioIsCurrent
    ReceiversAsRequested
    ScopeIntact
    MemoriesTrue
    OperatorMeant
PROPERTIES
    SessionsAsWanted
    RoundTrip
CHECK_DEADLOCK FALSE
