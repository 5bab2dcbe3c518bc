----------------------------- MODULE MCProgress -----------------------------
(* The components around the session, each on a small instance, with the    *)
(* fairness their timers and the event loops justify.  A behaviour is one of *)
(* one component, chosen at the start, as in MCComponents.                   *)
EXTENDS Integers, Sequences

VARIABLES
    part,   \* the component this behaviour is about
    v1, v2, v3, v4, v5, v6, v7, v8, v9, v10, v11, v12, v13, v14, v15, v16, v17, v18, v19, v20   \* its variables; "-" where it has fewer

vars == <<part, v1, v2, v3, v4, v5, v6, v7, v8, v9, v10, v11, v12, v13, v14, v15, v16, v17, v18, v19, v20>>

Unused14 == <<v14, v15, v16, v17, v18, v19, v20>>
Unused13 == <<v13, v14, v15, v16, v17, v18, v19, v20>>
Unused10 == <<v10, v11, v12, v13, v14, v15, v16, v17, v18, v19, v20>>
Unused5 == <<v5, v6, v7, v8, v9, v10, v11, v12, v13, v14, v15, v16, v17, v18, v19, v20>>

NoVar14 == v14 = "-" /\ v15 = "-" /\ v16 = "-" /\ v17 = "-" /\ v18 = "-" /\ v19 = "-" /\ v20 = "-"
NoVar13 == v13 = "-" /\ NoVar14
NoVar10 == v10 = "-" /\ v11 = "-" /\ v12 = "-" /\ NoVar13
NoVar5 == v5 = "-" /\ v6 = "-" /\ v7 = "-" /\ v8 = "-" /\ v9 = "-" /\ NoVar10

Recovery == INSTANCE RadioSession WITH
    h <- v1, journal <- v2, net <- v3, names <- v4, tokens <- v5, session <- v6,
    foreign <- v7, granted <- v8, connects <- v9, renewals <- v10, faults <- v11,
    takes <- v12,
    Procs <- {"p1", "p2"}, NoProc <- "none", RemovalAttempts <- 1,
    ReclaimLimit <- 1, MaxConnects <- 2, MaxRenewals <- 0, MaxFaults <- 0,
    MaxForeign <- 0, Concurrent <- FALSE, Prompt <- TRUE, RadioMay <- {"reissue"}

Pipe == INSTANCE ValuePipeline WITH
    items <- v1, commands <- v2, wake <- v3, owed <- v4, worker <- v5, wbatch <- v6,
    wsession <- v7, aborted <- v8, pending <- v9, qsession <- v10, scheduled <- v11,
    drains <- v12, batch <- v13, routed <- v14, gui <- v15, conn <- v16,
    sessions <- v17, cmdr <- v18, parsed <- v19, added <- v20,
    Keys <- {}, Event <- "event", Commands <- {"c1", "c2"}, QueueDepth <- 2,
    MaxPending <- 1, MaxSessions <- 2, MaxValues <- 2, MaxCommands <- 1

Civ == INSTANCE CivStream WITH
    sent <- v1, net <- v2, asks <- v3, highest <- v4, order <- v5, known <- v6,
    missing <- v7, recent <- v8, got <- v9, seen <- v10, flushed <- v11,
    faults <- v12, purges <- v13,
    Numbers <- 10, First <- 8, MaxMissing <- 3, BufSize <- 3, Window <- 7,
    Attempts <- 2, RadioHold <- 4, Lag <- 3, MaxSent <- 4, MaxFaults <- 2,
    MaxPurges <- 0

Life == INSTANCE SessionLifecycle WITH
    app <- v1, connects <- v2, faults <- v3, silences <- v4,
    Hosts <- {1}, Bad <- {}, LateReply <- FALSE, MaxConnects <- 1, MaxFaults <- 1,
    MaxSilences <- 3, MaxRetries <- 1, MaxQueue <- 2, Spent <- {<<0, 1, 0>>, <<0, 0,
    2>>}

Controls == INSTANCE ReceiverControls WITH
    backend <- v1, radio <- v2, replies <- v3, panel <- v4, want <- v5,
    crossed <- v6, requests <- v7, changes <- v8, lost <- v9,
    Fields <- {"freq", "rfGain"}, Requests <- {"band", "vfoRfGain", "select"},
    MaxRequests <- 2, MaxPanel <- 1, MaxLost <- 1, MaxBacklog <- 1,
    Vfos <- {"MAIN"}, Spent <- {<<0, 1, 0>>, <<1, 0, 0>>}

Dual == INSTANCE DualWatch WITH
    dual <- v1, link <- v2, replies <- v3, policy <- v4, state <- v5,
    selection <- v6, requests <- v7, changes <- v8, faults <- v9,
    Retries <- 2, MaxRequests <- 1, MaxPanel <- 1, MaxFaults <- 1

Init ==
    \/ part = "recovery" /\ Recovery!Init /\ NoVar13
    \/ part = "pipeline" /\ Pipe!Init
    \/ part = "civ" /\ Civ!Init /\ NoVar14
    \/ part = "session" /\ Life!Init /\ NoVar5
    \/ part = "controls" /\ Controls!Init /\ NoVar10
    \/ part = "dual" /\ Dual!Init /\ NoVar10

\* The two processes of the recovery are interchangeable: p1 connects first.
FirstIsP1 == v9' = 1 => v1'["p2"].phase \in {"off", "dead"}

RecoveryStep == part = "recovery" /\ Recovery!Next /\ FirstIsP1 /\ UNCHANGED part /\ UNCHANGED Unused13
PipeStep == part = "pipeline" /\ Pipe!Next /\ UNCHANGED part
CivStep == part = "civ" /\ Civ!Next /\ UNCHANGED part /\ UNCHANGED Unused14
LifeStep == part = "session" /\ Life!Next /\ UNCHANGED part /\ UNCHANGED Unused5
ControlsStep == part = "controls" /\ Controls!Next /\ UNCHANGED part /\ UNCHANGED Unused10
DualStep == part = "dual" /\ Dual!Next /\ UNCHANGED part /\ UNCHANGED Unused10

Next ==
    \/ RecoveryStep \/ PipeStep \/ CivStep \/ LifeStep \/ ControlsStep \/ DualStep

Spec == Init /\ [][Next]_vars

civVars      == <<v1, v2, v3, v4, v5, v6, v7, v8, v9, v10, v11, v12, v13>>
sessionVars  == <<v1, v2, v3, v4>>
controlsVars == <<v1, v2, v3, v4, v5, v6, v7, v8, v9>>
dualVars     == controlsVars

\* In each component the timers, the event loop, the worker and the radio keep
\* running; the operator need not act, and nothing need fail.
recoveryVars == <<v1, v2, v3, v4, v5, v6, v7, v8, v9, v10, v11, v12>>
pipelineVars == <<v1, v2, v3, v4, v5, v6, v7, v8, v9, v10, v11, v12, v13, v14, v15, v16,
                  v17, v18, v19, v20>>

Fairness ==
    /\ \A p \in {"p1", "p2"} :
          /\ WF_recoveryVars(part = "recovery" /\ Recovery!Thread(p))
          /\ WF_recoveryVars(part = "recovery" /\ Recovery!RadioAdvertises(p))
          /\ \A kinds \in {Recovery!Statuses, Recovery!Replies \ Recovery!Statuses} :
                WF_recoveryVars(part = "recovery" /\ Recovery!ReplyArrives(p, kinds))
    /\ WF_recoveryVars(part = "recovery" /\ \E p \in {"p1", "p2", "none"} :
                                                  Recovery!RequestArrives(p))
    /\ WF_recoveryVars(part = "recovery" /\ Recovery!ForeignLeaves)
    /\ WF_pipelineVars(part = "pipeline" /\ Pipe!Worker)
    /\ \A t \in {"radio", "gui"} : WF_pipelineVars(part = "pipeline" /\ Pipe!Notify(t))
    /\ WF_pipelineVars(part = "pipeline" /\ \E s \in v12 : Pipe!Drain(s))
    /\ WF_pipelineVars(part = "pipeline" /\ (Pipe!NotifyRoom \/ Pipe!RouteValue))
    /\ WF_civVars(part = "civ" /\ \E n \in Civ!Packets : Civ!Receive(n) /\ Civ!Delivers)
    /\ WF_civVars(part = "civ" /\ Civ!sendRetransmitRequest)
    /\ WF_civVars(part = "civ" /\ Civ!RadioSend)
    /\ WF_civVars(part = "civ" /\ Civ!RadioRetransmit)
    /\ WF_sessionVars(part = "session" /\ Life!HandleEvent)
    /\ WF_sessionVars(part = "session" /\ Life!ReconnectTimer)
    /\ WF_sessionVars(part = "session" /\ Life!InitialDelay)
    /\ WF_sessionVars(part = "session" /\ Life!RetryTimer)
    /\ WF_sessionVars(part = "session" /\ Life!SnapshotDelay)
    /\ WF_sessionVars(part = "session" /\ Life!WatchdogTimer)
    /\ WF_sessionVars(part = "session" /\ Life!WakeTimer)
    /\ WF_sessionVars(part = "session" /\ Life!BootTimer)
    /\ WF_sessionVars(part = "session" /\ Life!SyncTimer)
    /\ WF_sessionVars(part = "session" /\ Life!StreamsOpen)
    /\ WF_sessionVars(part = "session" /\ (Life!IdentityReply \/ Life!ProbeTimeout))
    /\ WF_controlsVars(part = "controls" /\ Controls!dispatchNextScheduledCommand)
    /\ WF_controlsVars(part = "controls" /\ Controls!ImpliedReadback)
    /\ WF_controlsVars(part = "controls" /\ Controls!VfoStatePoll)
    /\ WF_controlsVars(part = "controls" /\ Controls!SubReadTimer)
    /\ WF_controlsVars(part = "controls" /\ Controls!route)
    /\ \A r \in {"MAIN", "SUB"} :
          WF_controlsVars(part = "controls" /\ (\/ Controls!BandSettles(r) \/ Controls!BandTimesOut(r)
                                                 \/ Controls!LevelTimesOut(r)))
    /\ WF_dualVars(part = "dual" /\ Dual!DualWatchRetry)
    /\ WF_dualVars(part = "dual" /\ Dual!RadioActs)
    /\ WF_dualVars(part = "dual" /\ Dual!radioReplyReceived)

FairSpec == Spec /\ Fairness

-----------------------------------------------------------------------------
\* One lost packet of the CI-V stream, with losses of its request or of its
\* retransmission, is in the end delivered (UdpBase.cpp, sendRetransmitRequest).
GapRepaired == []<>(part = "civ" => Civ!NoGap)

\* Every connection attempt ends: ready, failed or disconnected (RadioBackend.cpp).
AttemptSettles == []<>(part = "session" => ~Life!Attempting)

\* Whatever was requested, replaced, lost or turned at the radio, the panel of
\* the VFO in use comes to show the radio's settings and stays so (RadioBackend.cpp,
\* VfoController.cpp).
PanelBecomesTrue == <>[](part = "controls" => Controls!ActivePanelTrue)

\* A dual watch transition ends, confirmed or given up (DualWatchTransitionPolicy.h).
TransitionSettles == []<>(part = "dual" => ~Dual!Switching)

\* A connection attempt ends with the streams open, with an error reported, or
\* because somebody closed it; a lost datagram excuses it (UdpHandler.cpp).
NegotiationCompletes == []<>(part = "recovery" => Recovery!NobodyWaits)

\* Every value and command leaves the pipeline, the last ones before a quiet
\* period too, and when the program quits the queue's thread ends, so that
\* joining it never hangs (CachingQueue.cpp, RadioRouter.cpp).
PipelineDrains == []<>(part = "pipeline" => Pipe!Drained)
=============================================================================
