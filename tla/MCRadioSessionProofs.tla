------------------------ MODULE MCRadioSessionProofs ------------------------
(***************************************************************************)
(* What the theorems of RadioSessionProofs say of the four scenarios that  *)
(* TLC runs, for any processes in them.                                    *)
(***************************************************************************)
EXTENDS MCRadioSession, TLAPS

\* The inductive invariant of each scenario.  Nobody dies in sharing.
Living == \A p \in Procs : h[p].phase # "dead"
IInv ==
    /\ scenario \in {"crash", "sharing", "expiry", "station"}
    /\ scenario = "crash" => Crash!TypeInv
    /\ scenario = "sharing" => Sharing!TypeInv /\ Sharing!OwnInv /\ Living
    /\ scenario = "expiry" => Expiry!TypeInv /\ Expiry!OwnInv
    /\ scenario = "station" => Station!TypeInv /\ Station!OwnInv

LEMMA InitHolds == Init => IInv
<1> USE ScenariosAssumption
<1>1. ASSUME scenario = "crash", Crash!Init PROVE IInv
  BY <1>1, Crash!InitTyped DEF IInv
<1>2. ASSUME scenario = "sharing", Sharing!Init PROVE IInv
  <2>1. Living
    BY <1>2 DEF Living, Sharing!Init, Sharing!Handler
  <2> QED
    BY <1>2, <2>1, Sharing!InitTyped, Sharing!InitOwned DEF IInv
<1>3. ASSUME scenario = "expiry", Expiry!Init PROVE IInv
  BY <1>3, Expiry!InitTyped, Expiry!InitOwned DEF IInv
<1>4. ASSUME scenario = "station", Station!Init PROVE IInv
  BY <1>4, Station!InitTyped, Station!InitOwned DEF IInv
<1> QED
  BY <1>1, <1>2, <1>3, <1>4 DEF Init

\* A step of the model is a step, or a stutter, of the scenario at hand.
LEMMA StepOfScenario ==
    ASSUME [Next]_vars
    PROVE  /\ scenario' = scenario
           /\ scenario = "crash" => [Crash!Next]_Crash!vars
           /\ scenario = "sharing" =>
                 [Sharing!Next]_Sharing!vars /\ (NobodyDies \/ UNCHANGED h)
           /\ scenario = "expiry" => [Expiry!Next]_Expiry!vars
           /\ scenario = "station" => [Station!Next]_Station!vars
<1>1. CASE Next
  BY <1>1 DEF Next, CrashStep, SharingStep, ExpiryStep, StationStep
<1>2. CASE UNCHANGED vars
  BY <1>2 DEF vars, Crash!vars, Crash!radio, Crash!bounds,
              Sharing!vars, Sharing!radio, Sharing!bounds,
              Expiry!vars, Expiry!radio, Expiry!bounds,
              Station!vars, Station!radio, Station!bounds
<1> QED
  BY <1>1, <1>2

LEMMA StepHolds == IInv /\ [Next]_vars => IInv'
<1> SUFFICES ASSUME IInv, [Next]_vars PROVE IInv'
  OBVIOUS
<1> USE ScenariosAssumption
<1>1. scenario' = scenario /\ scenario \in {"crash", "sharing", "expiry", "station"}
  BY StepOfScenario DEF IInv
<1>2. ASSUME scenario = "crash" PROVE Crash!TypeInv'
  BY <1>2, StepOfScenario, Crash!StepTyped DEF IInv
<1>3. ASSUME scenario = "sharing" PROVE (Sharing!TypeInv /\ Sharing!OwnInv /\ Living)'
  <2>1. "reissue" \notin {"deny"}
    OBVIOUS
  <2>2. Living'
    BY <1>3, StepOfScenario DEF IInv, Living, NobodyDies
  <2> QED
    BY <1>3, <2>1, <2>2, StepOfScenario, Sharing!StepTyped, Sharing!StepOwned DEF IInv
<1>4. "reissue" \notin {"forget"}
  OBVIOUS
<1>5. ASSUME scenario = "expiry" PROVE (Expiry!TypeInv /\ Expiry!OwnInv)'
  BY <1>4, <1>5, StepOfScenario, Expiry!StepTyped, Expiry!StepOwned DEF IInv
<1>6. ASSUME scenario = "station" PROVE (Station!TypeInv /\ Station!OwnInv)'
  BY <1>4, <1>6, StepOfScenario, Station!StepTyped, Station!StepOwned DEF IInv
<1> QED
  BY <1>1, <1>2, <1>3, <1>5, <1>6 DEF IInv

\* Whatever the scenario, the fields of a handler, of the journal and of a
\* datagram have their types.
THEOREM ScenariosTyped == Spec => []TypeOK
<1>1. IInv => TypeOK
  BY Crash!TypesMatch, Expiry!TypesMatch, Station!TypesMatch DEF IInv, TypeOK
<1> QED
  BY <1>1, InitHolds, StepHolds, PTL DEF Spec

\* While both live, no process removes the identity under which another one
\* owns the session.
THEOREM SharingUntouched == Spec => []LiveSessionsUntouched
<1>1. IInv => LiveSessionsUntouched
  BY Sharing!NobodyDead, ScenariosAssumption DEF IInv, Living, LiveSessionsUntouched
<1> QED
  BY <1>1, InitHolds, StepHolds, PTL DEF Spec

\* Shutdown never restarts anything, even if the radio has forgotten the
\* authentication or another station has come.
THEOREM AloneStaysClosed == Spec => ClosingStaysClosed
<1>1. ASSUME IInv, [Next]_vars, scenario = "expiry" PROVE Expiry!StaysClosed
  <2>1. \A p, q \in {Solo} : p = q
    OBVIOUS
  <2> QED
    BY <1>1, <2>1, StepOfScenario, ScenariosAssumption, Expiry!OnlyTheDeadPrecede DEF IInv
<1>2. ASSUME IInv, [Next]_vars, scenario = "station" PROVE Expiry!StaysClosed
  <2>1. \A p, q \in {Solo} : p = q
    OBVIOUS
  <2>2. Station!StaysClosed
    BY <1>2, <2>1, StepOfScenario, ScenariosAssumption, Station!OnlyTheDeadPrecede DEF IInv
  <2> QED
    BY <2>2 DEF Station!StaysClosed, Expiry!StaysClosed, Station!Fresh, Expiry!Fresh,
                Station!Kinds, Expiry!Kinds
<1>3. IInv /\ [Next]_vars => (Alone => Expiry!StaysClosed)
  BY <1>1, <1>2 DEF Alone
<1> QED
  BY <1>3, InitHolds, StepHolds, PTL DEF Spec, ClosingStaysClosed

-----------------------------------------------------------------------------
(* In the crash scenario the processes take turns.                         *)

\* A process that is not connected exits only while nobody is connected.
CrashExitsApart == [][scenario = "crash" => Crash!Apart]_vars

CrashInv == scenario = "crash" => Crash!TypeInv /\ Crash!OwnInv /\ Crash!TurnInv

LEMMA CrashInit == Init => CrashInv
<1> SUFFICES ASSUME scenario = "crash", Crash!Init
             PROVE  Crash!TypeInv /\ Crash!OwnInv /\ Crash!TurnInv
  BY DEF Init, CrashInv
<1> QED
  BY ScenariosAssumption, Crash!InitTyped, Crash!InitOwned, Crash!InitKept

LEMMA CrashStepHolds ==
    ASSUME CrashInv, [Next]_vars, [scenario = "crash" => Crash!Apart]_vars
    PROVE  CrashInv'
<1>1. scenario' = scenario
  BY StepOfScenario
<1>2. ASSUME scenario = "crash" PROVE (Crash!TypeInv /\ Crash!OwnInv /\ Crash!TurnInv)'
  <2>1. [Crash!Next]_Crash!vars
    BY <1>2, StepOfScenario
  <2>2. [Crash!Apart]_Crash!vars
    BY <1>2 DEF vars
  <2>3. Crash!Steadfast
    BY DEF Crash!Steadfast
  <2>4. "reissue" \notin {} /\ Crash!SessionAssumption
    BY ScenariosAssumption
  <2>5. Crash!TypeInv /\ Crash!OwnInv /\ Crash!TurnInv
    BY <1>2 DEF CrashInv
  <2> QED
    BY <2>1, <2>2, <2>3, <2>4, <2>5, Crash!StepTyped, Crash!StepOwned, Crash!StepKept
<1> QED
  BY <1>1, <1>2 DEF CrashInv

\* For any set of processes that crash and recover each other's sessions in turn:
\* no login overlaps the removal of a predecessor's token, the radio's answer to
\* that removal counts however late, and a teardown names an identity that was
\* granted the streams.
THEOREM CrashRemovalsInOrder == Spec /\ CrashExitsApart => []RemovalsInOrder
<1>1. CrashInv => RemovalsInOrder
  BY ScenariosAssumption, Crash!TurnsSafe DEF CrashInv, RemovalsInOrder
<1> QED
  BY <1>1, CrashInit, CrashStepHolds, PTL DEF Spec, CrashExitsApart

-----------------------------------------------------------------------------
(* The journal, in the crash scenario and where one process is alone.      *)

\* Alone, no renewal falls due while a login or its answer is on its way: the
\* token timer runs for a minute.
AloneRenewalsApart == [][Alone => Expiry!Calm]_vars

AloneInv == /\ scenario = "expiry" => Expiry!LoneInv
            /\ scenario = "station" => Station!LoneInv

LEMMA AloneInit == Init => AloneInv
BY Expiry!InitLone, Station!InitLone DEF Init, AloneInv

LEMMA AloneStepHolds ==
    ASSUME IInv, AloneInv, [Next]_vars, [Alone => Expiry!Calm]_vars
    PROVE  AloneInv'
<1>1. scenario' = scenario
  BY StepOfScenario
<1>2. "reissue" \notin {"forget"} /\ \A p, q \in {Solo} : p = q
  OBVIOUS
<1>3. ASSUME scenario = "expiry" PROVE Expiry!LoneInv'
  <2>1. [Expiry!Next]_Expiry!vars
    BY <1>3, StepOfScenario
  <2>2. [Expiry!Calm]_Expiry!vars
    BY <1>3 DEF vars, Alone, Crash!vars, Crash!radio, Crash!bounds,
                Expiry!vars, Expiry!radio, Expiry!bounds
  <2>3. Expiry!Lone /\ Expiry!SessionAssumption
    BY <1>2, ScenariosAssumption DEF Expiry!Lone
  <2>4. Expiry!TypeInv /\ Expiry!OwnInv /\ Expiry!LoneInv
    BY <1>3 DEF IInv, AloneInv
  <2> QED
    BY <1>2, <2>1, <2>2, <2>3, <2>4, Expiry!StepLone
<1>4. ASSUME scenario = "station" PROVE Station!LoneInv'
  <2>1. [Station!Next]_Station!vars
    BY <1>4, StepOfScenario
  <2>2. [Station!Calm]_Station!vars
    BY <1>4 DEF vars, Alone, Crash!vars, Crash!radio, Crash!bounds,
                Station!vars, Station!radio, Station!bounds, Station!Calm, Expiry!Calm
  <2>3. Station!Lone /\ Station!SessionAssumption
    BY <1>2, ScenariosAssumption DEF Station!Lone
  <2>4. Station!TypeInv /\ Station!OwnInv /\ Station!LoneInv
    BY <1>4 DEF IInv, AloneInv
  <2> QED
    BY <1>2, <2>1, <2>2, <2>3, <2>4, Station!StepLone
<1> QED
  BY <1>1, <1>3, <1>4 DEF AloneInv

\* For any set of processes that take turns, and for a process alone with a
\* radio that forgets tokens, ends sessions or gives way to another station: a
\* live process that owns the radio's session has it in the journal, so that a
\* crash at any moment leaves a record that can retire it.
THEOREM ScenariosJournaled ==
    Spec /\ CrashExitsApart /\ AloneRenewalsApart => []JournalCoversSession
<1>1. ASSUME IInv, CrashInv, AloneInv PROVE JournalCoversSession
  <2>1. scenario = "crash" => Crash!JournalCoversSession
    BY <1>1, ScenariosAssumption, Crash!TurnsSafe DEF CrashInv
  <2>2. scenario = "expiry" => Expiry!JournalCoversSession
    BY <1>1, Expiry!LoneSafe DEF IInv, AloneInv
  <2>3. scenario = "station" => Expiry!JournalCoversSession
    <3>1. scenario = "station" => Station!JournalCoversSession
      BY <1>1, Station!LoneSafe DEF IInv, AloneInv
    <3> QED
      BY <3>1 DEF Station!JournalCoversSession, Expiry!JournalCoversSession,
                  Station!Id, Expiry!Id
  <2> QED
    BY <2>1, <2>2, <2>3 DEF JournalCoversSession, Alone
<1>2. IInv /\ AloneInv /\ [Next]_vars /\ [Alone => Expiry!Calm]_vars => AloneInv'
  BY AloneStepHolds
<1>3. CrashInv /\ [Next]_vars /\ [scenario = "crash" => Crash!Apart]_vars => CrashInv'
  BY CrashStepHolds
<1> QED
  BY <1>1, <1>2, <1>3, InitHolds, StepHolds, CrashInit, AloneInit, PTL
     DEF Spec, CrashExitsApart, AloneRenewalsApart

-----------------------------------------------------------------------------
(* Whose record is given up, in the crash scenario.                        *)

\* A handler that starts over after a rejected stream request can meet the answer
\* to the removal it sent then at its shutdown.  Two connections are too few for
\* the stale token that the radio must keep for that.
CrashUnreset == [](scenario = "crash" => Crash!Unreset)

CrashHeld == scenario = "crash" => Crash!HeldInv

LEMMA CrashInitHeld == Init => CrashHeld
BY ScenariosAssumption, Crash!InitHeld DEF Init, CrashHeld

LEMMA CrashStepHeld ==
    ASSUME CrashInv, CrashHeld, [Next]_vars, [scenario = "crash" => Crash!Apart]_vars,
           (scenario = "crash" => Crash!Unreset)'
    PROVE  CrashHeld'
<1>1. scenario' = scenario
  BY StepOfScenario
<1>2. ASSUME scenario = "crash" PROVE Crash!HeldInv'
  <2>1. [Crash!Next]_Crash!vars /\ [Crash!Apart]_Crash!vars
    BY <1>2, StepOfScenario DEF vars
  <2>2. Crash!Steadfast /\ Crash!SessionAssumption
    BY ScenariosAssumption DEF Crash!Steadfast
  <2>3. Crash!TypeInv /\ Crash!OwnInv /\ Crash!TurnInv /\ Crash!HeldInv
    BY <1>2 DEF CrashInv, CrashHeld
  <2>4. Crash!TypeInv'
    BY <2>1, <2>2, <2>3, Crash!StepTyped
  <2>5. Crash!Unreset'
    BY <1>1, <1>2
  <2> QED
    BY <2>1, <2>2, <2>3, <2>4, <2>5, Crash!StepHeld
<1> QED
  BY <1>1, <1>2 DEF CrashHeld

\* For any set of processes that crash and recover each other's sessions in turn,
\* the journal's record of a session is given up only when the radio has ended
\* that session.
THEOREM CrashJournalKept == Spec /\ CrashExitsApart /\ CrashUnreset => JournalKept
<1>1. ASSUME CrashInv, CrashHeld, [Next]_vars, scenario = "crash"
      PROVE  Crash!RecordKept
  <2>1. [Crash!Next]_Crash!vars
    BY <1>1, StepOfScenario
  <2> QED
    BY <1>1, <2>1, ScenariosAssumption, Crash!StepKeepsRecord DEF CrashInv, CrashHeld
<1>2. CrashInv /\ CrashHeld /\ [Next]_vars => (scenario = "crash" => Crash!RecordKept)
  BY <1>1
<1>3. CrashInv /\ [Next]_vars /\ [scenario = "crash" => Crash!Apart]_vars => CrashInv'
  BY CrashStepHolds
<1>4. CrashInv /\ CrashHeld /\ [Next]_vars /\ [scenario = "crash" => Crash!Apart]_vars
          /\ (scenario = "crash" => Crash!Unreset)'
          => CrashHeld'
  BY CrashStepHeld
<1> QED
  BY <1>2, <1>3, <1>4, CrashInit, CrashInitHeld, PTL
     DEF Spec, CrashExitsApart, CrashUnreset, JournalKept
=============================================================================
