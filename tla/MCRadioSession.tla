--------------------------- MODULE MCRadioSession ---------------------------
(* RadioSession in four scenarios, one of them chosen at the start:         *)
(*   crash    two processes connect, crash and recover each other's session  *)
(*            in turn, with a lost or duplicated datagram;                    *)
(*   sharing  a second process connects while the first is live, logins may  *)
(*            be denied, and nobody crashes;                                  *)
(*   expiry   one process's renewals, a radio that forgets tokens, and a     *)
(*            lost datagram;                                                 *)
(*   station  the same with another station instead of the loss.             *)
(* The processes of a scenario are interchangeable.  The instances are of    *)
(* RadioSessionProofs, which extends RadioSession, so that its lemmas are    *)
(* about them.                                                              *)
EXTENDS TLC

CONSTANTS Procs,   \* the two processes of crash and sharing
          Solo,    \* the process of expiry and station
          NoProc

VARIABLES scenario, h, journal, net, names, tokens, session, foreign, granted,
          connects, renewals, faults, takes

Crash == INSTANCE RadioSessionProofs WITH
    RemovalAttempts <- 2, ReclaimLimit <- 2, MaxConnects <- 2, MaxRenewals <- 0,
    MaxFaults <- 1, MaxForeign <- 0, Concurrent <- FALSE, Prompt <- TRUE,
    RadioMay <- {}

Sharing == INSTANCE RadioSessionProofs WITH
    RemovalAttempts <- 1, ReclaimLimit <- 1, MaxConnects <- 2, MaxRenewals <- 0,
    MaxFaults <- 0, MaxForeign <- 0, Concurrent <- TRUE, Prompt <- TRUE,
    RadioMay <- {"deny"}

Expiry == INSTANCE RadioSessionProofs WITH
    Procs <- {Solo}, RemovalAttempts <- 1, ReclaimLimit <- 0, MaxConnects <- 1,
    MaxRenewals <- 1, MaxFaults <- 1, MaxForeign <- 0, Concurrent <- FALSE,
    Prompt <- TRUE, RadioMay <- {"forget"}

Station == INSTANCE RadioSessionProofs WITH
    Procs <- {Solo}, RemovalAttempts <- 1, ReclaimLimit <- 0, MaxConnects <- 1,
    MaxRenewals <- 1, MaxFaults <- 0, MaxForeign <- 1, Concurrent <- FALSE,
    Prompt <- TRUE, RadioMay <- {"forget"}

ASSUME ScenariosAssumption ==
    /\ Crash!SessionAssumption /\ Sharing!SessionAssumption
    /\ Expiry!SessionAssumption /\ Station!SessionAssumption

Symmetry == Permutations(Procs)

vars == <<scenario, Crash!vars>>

Init == \/ scenario = "crash" /\ Crash!Init
        \/ scenario = "sharing" /\ Sharing!Init
        \/ scenario = "expiry" /\ Expiry!Init
        \/ scenario = "station" /\ Station!Init

\* The bound of the sharing scenario: deaths belong to the crash scenario.
NobodyDies == \A p \in Procs : h'[p].phase # "dead"

CrashStep   == scenario = "crash" /\ Crash!Next /\ UNCHANGED scenario
SharingStep == scenario = "sharing" /\ Sharing!Next /\ NobodyDies /\ UNCHANGED scenario
ExpiryStep  == scenario = "expiry" /\ Expiry!Next /\ UNCHANGED scenario
StationStep == scenario = "station" /\ Station!Next /\ UNCHANGED scenario

Next == CrashStep \/ SharingStep \/ ExpiryStep \/ StationStep

Spec == Init /\ [][Next]_vars

-----------------------------------------------------------------------------
Alone == scenario \in {"expiry", "station"}

\* The fields of a handler, of the journal and of a datagram have their types.
TypeOK ==
    /\ scenario = "crash" => Crash!TypeOK
    /\ scenario = "expiry" => Expiry!TypeOK
    /\ scenario = "station" => Station!TypeOK

\* A live process that owns the radio's session has it in the journal, so that
\* a crash at any moment leaves a record that can retire it.
JournalCoversSession ==
    /\ scenario = "crash" => Crash!JournalCoversSession
    /\ Alone => Expiry!JournalCoversSession

\* The journal record of a session is given up only when the radio has ended
\* that session.
JournalKept == [][scenario = "crash" => Crash!RecordKept]_vars

\* Shutdown never restarts anything: no login, renewal or stream request
\* leaves a handler that is closing, and its streams stay closed.
ClosingStaysClosed == [][Alone => Expiry!StaysClosed]_vars

\* No process removes the identity under which another live one owns the
\* session.
LiveSessionsUntouched == scenario = "sharing" => Sharing!LiveSessionsUntouched

\* Removals of tokens: with one process at a time, that of a predecessor's is not
\* overlapped by a login, and the radio's answer to it counts however late; and
\* those of the teardown at shutdown name only an identity that was granted the
\* streams.
RemovalsInOrder ==
    scenario = "crash" => /\ Crash!LoginAfterRemoval /\ Crash!RecoveryAckCounts
                          /\ Crash!TeardownOnlyOfGranted

\* A shutdown, which runs on the handler's own thread, never waits for an
\* answer of the radio: whatever was lost or forgotten, it has a next step.
ShutdownNeverWaits == scenario = "crash" => Crash!ShutdownNeverWaits
=============================================================================
