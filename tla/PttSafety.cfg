\* Two sessions, a lost frame, queues of two: every safety property that needs
\* no assumption on timing.
SPECIFICATION Spec
CONSTANTS
    SwrLimit = 2
    MaxPresses = 1
    MaxSessions = 2
    MaxFaults = 1
    MaxInFlight = 2
    Unhurried = FALSE
INVARIANTS
    TypeOK
    UnkeyIsPursued
    TransmissionSupervised
    SessionEndUnkeys
CHECK_DEADLOCK FALSE
