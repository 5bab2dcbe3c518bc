\* Both receivers metered, every act of the operator, two events in all.
SPECIFICATION Spec
CONSTANTS
    Identity = {"freq"}
    MaxDeferred = 2
    MaxScheduled = 2
    MaxStreak = 1
    MaxRetries = 1
    Steady = TRUE
    Metered = {"main", "sub"}
    Acts = {"set", "tune", "select", "exchange", "transmit"}
    MaxUnread = 0
    MaxEvents = 2
INVARIANTS
    TypeOK
    RepliesMeetTheirRead
    TransactionsMeetTheirReceiver
PROPERTIES
    RadioIsHeld
    ConfirmationsAreFresh
CHECK_DEADLOCK FALSE
