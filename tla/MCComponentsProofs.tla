------------------------- MODULE MCComponentsProofs -------------------------
(***************************************************************************)
(* What the theorems of AudioTransportProofs and SessionLifecycleProofs    *)
(* say of the behaviours that TLC runs for the audio transport and the     *)
(* session.                                                                *)
(***************************************************************************)
EXTENDS MCComponents, TLAPS

-----------------------------------------------------------------------------
(* The audio transport.                                                    *)

IInv == part = "audio" => Audio!IInv

\* No other component starts, or steps, as the audio transport.
LEMMA InitHolds == Init => IInv
<1> USE InstancesAssumption
<1> SUFFICES ASSUME Init, part = "audio" PROVE Audio!IInv
  BY DEF IInv
<1>1. Audio!Init
  BY DEF Init
<1> QED
  BY <1>1, Audio!InitHolds

LEMMA StepOfAudio ==
    ASSUME [Next]_vars
    PROVE  part' = part /\ (part = "audio" => [Audio!Next]_Audio!vars)
<1>1. CASE Next
  BY <1>1 DEF Next, CivStep, TxStep, LifeStep, TypoStep, AudioStep, ControlsStep,
              DualStep, CodecStep, SweepStep, GateStep, MemoryStep, RecordsStep,
              CsvStep, EncoderStep, BridgeStep, StoreStep, SelectionStep,
              TuningStep, FallStep, PacketsStep
<1>2. CASE UNCHANGED vars
  BY <1>2 DEF vars, Audio!vars
<1> QED
  BY <1>1, <1>2

LEMMA StepHolds == IInv /\ [Next]_vars => IInv'
<1> SUFFICES ASSUME IInv, [Next]_vars, part' = "audio" PROVE Audio!IInv'
  BY DEF IInv
<1>1. part = "audio" /\ [Audio!Next]_Audio!vars
  BY StepOfAudio
<1>2. Audio!IInv /\ Audio!AudioAssumption
  BY <1>1, InstancesAssumption DEF IInv
<1> QED
  BY <1>1, <1>2, Audio!StepHolds

\* In every behaviour of the audio transport: only microphone blocks of the
\* present press and device are sent, and a playback device that does not open
\* is tried once (UdpAudio.cpp).
THEOREM AudioCurrent == Spec => []AudioIsCurrent
<1>1. Init => IInv
  BY InitHolds
<1>2. IInv /\ [Next]_vars => IInv'
  BY StepHolds
<1>3. IInv => AudioIsCurrent
  BY DEF IInv, AudioIsCurrent, Audio!IInv, Audio!Moves, Audio!TriedOnce,
         Audio!PlaybackTriedOnce
<1> QED
  BY <1>1, <1>2, <1>3, PTL DEF Spec

-----------------------------------------------------------------------------
(* The session, with a radio that is there and with a mistyped address.    *)

SessionInv ==
    /\ part = "session" => Life!IInv
    /\ part = "typo" => Typo!IInv

LEMMA SessionInit == Init => SessionInv
<1> USE InstancesAssumption
<1> SUFFICES ASSUME Init PROVE SessionInv
  OBVIOUS
<1>1. CASE part = "session"
  <2>1. Life!Init
    BY <1>1 DEF Init
  <2> QED
    BY <1>1, <2>1, Life!InitHolds DEF SessionInv
<1>2. CASE part = "typo"
  <2>1. Typo!Init
    BY <1>2 DEF Init
  <2> QED
    BY <1>2, <2>1, Typo!InitHolds DEF SessionInv
<1> QED
  BY <1>1, <1>2 DEF SessionInv

\* No other component steps as the session, and it moves no other variable.
LEMMA StepOfSession ==
    ASSUME [Next]_vars
    PROVE  /\ part' = part
           /\ part = "session" => [Life!Next]_(Life!vars)
           /\ part = "typo" => [Typo!Next]_(Typo!vars)
           /\ part \in SessionParts => UNCHANGED Unused5
<1>1. CASE Next
  BY <1>1 DEF Next, CivStep, TxStep, LifeStep, TypoStep, AudioStep, ControlsStep,
              DualStep, CodecStep, SweepStep, GateStep, MemoryStep, RecordsStep,
              CsvStep, EncoderStep, BridgeStep, StoreStep, SelectionStep,
              TuningStep, FallStep, PacketsStep, SessionParts
<1>2. CASE UNCHANGED vars
  BY <1>2 DEF vars, Life!vars, Typo!vars, Unused5
<1> QED
  BY <1>1, <1>2

LEMMA SessionStep == SessionInv /\ [Next]_vars => SessionInv'
<1> SUFFICES ASSUME SessionInv, [Next]_vars PROVE SessionInv'
  OBVIOUS
<1>1. ASSUME part' = "session" PROVE Life!IInv'
  <2>1. part = "session" /\ [Life!Next]_(Life!vars)
    BY <1>1, StepOfSession
  <2>2. Life!IInv /\ Life!LifecycleAssumption
    BY <2>1, InstancesAssumption DEF SessionInv
  <2> QED
    BY <2>1, <2>2, Life!StepHolds
<1>2. ASSUME part' = "typo" PROVE Typo!IInv'
  <2>1. part = "typo" /\ [Typo!Next]_(Typo!vars)
    BY <1>2, StepOfSession
  <2>2. Typo!IInv /\ Typo!LifecycleAssumption
    BY <2>1, InstancesAssumption DEF SessionInv
  <2> QED
    BY <2>1, <2>2, Typo!StepHolds
<1> QED
  BY <1>1, <1>2 DEF SessionInv

\* In every behaviour of the session, whoever is silent and whichever address
\* was typed: ready means the identity of this session was read, the panel is
\* enabled exactly for a connected and ready radio, and a session whose command
\* plane answered is closed after the unkey commands (RadioBackend.cpp).
THEOREM SessionReady == Spec => []ReadyIsTrue
<1>1. SessionInv => ReadyIsTrue
  <2> SUFFICES ASSUME SessionInv, part \in SessionParts
               PROVE  /\ Life!ReadyFromThisSession /\ Life!PanelMatchesRadio
                      /\ Life!ProvenClosedSafely
    BY DEF ReadyIsTrue
  <2>1. CASE part = "session"
    <3>1. Life!Inv(v1)
      BY <2>1 DEF SessionInv, Life!IInv
    <3> QED
      BY <3>1, Life!ReadyTrue
  <2>2. CASE part = "typo"
    <3>1. Typo!Inv(v1)
      BY <2>2 DEF SessionInv, Typo!IInv
    <3>2. Typo!ReadyFromThisSession /\ Typo!PanelMatchesRadio /\ Typo!ProvenClosedSafely
      BY <3>1, Typo!ReadyTrue
    <3> QED
      BY <3>2 DEF Life!ReadyFromThisSession, Life!PanelMatchesRadio, Life!ProvenClosedSafely,
                  Typo!ReadyFromThisSession, Typo!PanelMatchesRadio, Typo!ProvenClosedSafely,
                  Life!Identity, Typo!Identity, Life!MainIdentity, Typo!MainIdentity,
                  Life!SubIdentity, Typo!SubIdentity
  <2> QED
    BY <2>1, <2>2 DEF SessionParts
<1> QED
  BY <1>1, SessionInit, SessionStep, PTL DEF Spec

\* In every behaviour of the session, one begins only when the operator wants it,
\* and one that reached the panel and was lost is followed by an attempt to
\* reconnect (MainWindow.cpp).
THEOREM SessionPursued == Spec => SessionsAsWanted
<1>1. SessionInv /\ [Next]_vars =>
        [/\ part = "session" => Life!StartsWanted /\ Life!Pursued
         /\ part = "typo" => Typo!StartsWanted /\ Typo!Pursued]_vars
  <2> SUFFICES ASSUME SessionInv, [Next]_vars, ~UNCHANGED vars
               PROVE  /\ part = "session" => Life!StartsWanted /\ Life!Pursued
                      /\ part = "typo" => Typo!StartsWanted /\ Typo!Pursued
    OBVIOUS
  <2>1. ASSUME part = "session" PROVE Life!StartsWanted /\ Life!Pursued
    <3>1. Life!IInv /\ Life!LifecycleAssumption /\ [Life!Next]_(Life!vars)
      BY <2>1, StepOfSession, InstancesAssumption DEF SessionInv
    <3>2. ~UNCHANGED Life!vars
      BY <2>1, StepOfSession DEF SessionParts, vars, Life!vars, Unused5
    <3>3. [Life!StartsWanted /\ Life!Pursued]_(Life!vars)
      BY <3>1, Life!ActionsHold
    <3> QED
      BY <3>2, <3>3
  <2>2. ASSUME part = "typo" PROVE Typo!StartsWanted /\ Typo!Pursued
    <3>1. Typo!IInv /\ Typo!LifecycleAssumption /\ [Typo!Next]_(Typo!vars)
      BY <2>2, StepOfSession, InstancesAssumption DEF SessionInv
    <3>2. ~UNCHANGED Typo!vars
      BY <2>2, StepOfSession DEF SessionParts, vars, Typo!vars, Unused5
    <3>3. [Typo!StartsWanted /\ Typo!Pursued]_(Typo!vars)
      BY <3>1, Typo!ActionsHold
    <3> QED
      BY <3>2, <3>3
  <2> QED
    BY <2>1, <2>2
<1> QED
  BY <1>1, SessionInit, SessionStep, PTL DEF Spec, SessionsAsWanted
=============================================================================
