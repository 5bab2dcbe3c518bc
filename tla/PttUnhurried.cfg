\* No loss, and neither the operator nor the long timeouts overtake a status
\* read: the release path always ends with the radio in receive.
SPECIFICATION FairSpec
CONSTANTS
    SwrLimit = 2
    MaxPresses = 2
    MaxSessions = 2
    MaxFaults = 0
    MaxInFlight = 1
    Unhurried = TRUE
INVARIANTS
    ReleasePathArmed
PROPERTIES
    LetGoEnds
    ViewSettles
CHECK_DEADLOCK FALSE
