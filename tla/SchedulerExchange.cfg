\* SUB is selected, then MAIN and SUB are exchanged; nothing is lost or late.
SPECIFICATION Spec
CONSTANTS
    Identity = {"freq", "mode"}
    MaxDeferred = 1
    MaxScheduled = 2
    MaxStreak = 1
    MaxRetries = 1
    Steady = FALSE
    Metered = {}
    Acts = {"select", "exchange"}
    MaxUnread = 0
    MaxEvents = 2
INVARIANTS
    VfosAgree
CHECK_DEADLOCK FALSE
