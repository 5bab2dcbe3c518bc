\* The operator may press while an earlier status read is outstanding.
SPECIFICATION Spec
CONSTANTS
    SwrLimit = 3
    MaxPresses = 1
    MaxSessions = 1
    MaxFaults = 0
    MaxInFlight = 2
    Unhurried = FALSE
INVARIANTS
    ReleasePathArmed
CHECK_DEADLOCK FALSE
