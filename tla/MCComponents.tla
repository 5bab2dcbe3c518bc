---------------------------- MODULE MCComponents ----------------------------
(* The components around the session, each on a small instance.  A          *)
(* behaviour of this module is one of one component, chosen at the start;    *)
(* the components share the variables v1, v2, ..., and their properties are  *)
(* stated for the behaviours they are about.                                 *)
EXTENDS MemoryInstance, RecordsInstance, TuningInstance, PacketInstance, Sequences

VARIABLES
    part,   \* the component this behaviour is about
    v1, v2, v3, v4, v5, v6, v7, v8, v9, v10, v11, v12, v13   \* its variables; "-" where it has fewer

vars == <<part, v1, v2, v3, v4, v5, v6, v7, v8, v9, v10, v11, v12, v13>>

Unused10 == <<v10, v11, v12, v13>>
Unused8 == <<v8, v9, v10, v11, v12, v13>>
Unused7 == <<v7, v8, v9, v10, v11, v12, v13>>
Unused6 == <<v6, v7, v8, v9, v10, v11, v12, v13>>
Unused5 == <<v5, v6, v7, v8, v9, v10, v11, v12, v13>>
Unused4 == <<v4, v5, v6, v7, v8, v9, v10, v11, v12, v13>>

NoVar10 == v10 = "-" /\ v11 = "-" /\ v12 = "-" /\ v13 = "-"
NoVar8 == v8 = "-" /\ v9 = "-" /\ NoVar10
NoVar7 == v7 = "-" /\ NoVar8
NoVar6 == v6 = "-" /\ NoVar7
NoVar5 == v5 = "-" /\ NoVar6
NoVar4 == v4 = "-" /\ NoVar5

Civ == INSTANCE CivStream WITH
    sent <- v1, net <- v2, asks <- v3, highest <- v4, order <- v5, known <- v6,
    missing <- v7, recent <- v8, got <- v9, seen <- v10, flushed <- v11,
    faults <- v12, purges <- v13,
    Numbers <- 10, First <- 8, MaxMissing <- 2, BufSize <- 3, Window <- 4,
    Attempts <- 2, RadioHold <- 2, Lag <- 2, MaxSent <- 6, MaxFaults <- 2,
    MaxPurges <- 1

Tx == INSTANCE TrackedSend WITH
    packets <- v1, sendSeq <- v2, txSeqBuf <- v3, aged <- v4, answer <- v5,
    Numbers <- 5, BufSize <- 2, MaxPackets <- 12

Life == INSTANCE SessionLifecycleProofs WITH
    app <- v1, connects <- v2, faults <- v3, silences <- v4,
    Hosts <- {1}, Bad <- {}, LateReply <- FALSE, MaxConnects <- 2, MaxFaults <- 1,
    MaxSilences <- 4, MaxRetries <- 1, MaxQueue <- 2, Spent <- {<<0, 0, 3>>, <<1, 0,
    0>>}

Typo == INSTANCE SessionLifecycleProofs WITH
    app <- v1, connects <- v2, faults <- v3, silences <- v4,
    Hosts <- {1, 2}, Bad <- {2}, LateReply <- FALSE, MaxConnects <- 2,
    MaxFaults <- 0, MaxSilences <- 0, MaxRetries <- 0, MaxQueue <- 2, Spent <- {<<0,
    0, 0>>}

Audio == INSTANCE AudioTransportProofs WITH
    udp <- v1, inbox <- v2, capture <- v3, sent <- v4,
    MaxEpoch <- 2, MaxWorkers <- 2, MaxBlocks <- 2, Backlog <- 1

Controls == INSTANCE ReceiverControls WITH
    backend <- v1, radio <- v2, replies <- v3, panel <- v4, want <- v5,
    crossed <- v6, requests <- v7, changes <- v8, lost <- v9,
    Fields <- {"freq", "att", "preamp"}, Requests <- {"tune", "vfoAtt",
    "vfoPreamp"}, MaxRequests <- 3, MaxPanel <- 0, MaxLost <- 0, MaxBacklog <- 1,
    Vfos <- {"MAIN"}, Spent <- {<<0, 0, 0>>}

Dual == INSTANCE DualWatch WITH
    dual <- v1, link <- v2, replies <- v3, policy <- v4, state <- v5,
    selection <- v6, requests <- v7, changes <- v8, faults <- v9,
    Retries <- 2, MaxRequests <- 2, MaxPanel <- 2, MaxFaults <- 0

Codec == INSTANCE CivCodec WITH
    item <- v1, mode <- v2, wire <- v3, value <- v4,
    Codes <- {670, 1273, 23}

Sweep == INSTANCE ScopeAssembly WITH
    expected <- v1, stored <- v2, clock <- v3, air <- v4, frame <- v5, faults <- v6,
    SeqMax <- 4, LenMax <- 3, MaxSweeps <- 2, MaxFaults <- 3

Gate == INSTANCE ScopeGate WITH
    gui <- v1, radio <- v2, link <- v3, router <- v4, acts <- v5, lost <- v6,
    MaxActs <- 3, MaxLost <- 2, MaxQueue <- 6

Memory == INSTANCE MemoryChannels WITH
    app <- v1, bus <- v2, radio <- v3, acts <- v4,
    Users <- UsersDef, Satellites <- SatellitesDef, Holdings <- HoldingsDef,
    Cached <- CachedDef, Uploads <- UploadPlain, Rounds <- 1, Attempts <- 2,
    MaxActs <- 3, Faults <- {"loss", "stall", "disk"}, Backlog <- 1

Records == INSTANCE MemoryRecords WITH
    radio <- v1, shown <- v2, form <- v3, file <- v4, job <- v5,
    Held <- RecordsHeldDef, Rows <- RecordsRowsDef, Bands <- {1, 2},
    Edits <- RecordsEditsDef, MaxEdits <- 1

Csv == INSTANCE CsvText WITH
    table <- v1, text <- v2, rows <- v3,
    Tables <- TablesDef

Encoder == INSTANCE RemoteEncoder WITH
    usb <- v1, hid <- v2, gui <- v3, radio <- v4, mode <- v5, bounds <- v6,
    Modes <- {"Momentary", "Latched", "Disabled"}, MaxActs <- 4, MaxPlugs <- 2,
    MaxChanges <- 1, MaxBacklog <- 2

Bridge == INSTANCE AutomationBridge WITH
    server <- v1, clients <- v2, peer <- v3, ui <- v4, ready <- v5, clicked <- v6,
    changes <- v7,
    Clients <- {1}, Objects <- {1, 2, 3}, Prohibited <- {3}, MaxClients <- 1,
    MaxPieces <- 1, MaxSent <- 3, MaxChanges <- 2

Store == INSTANCE SettingsStore WITH
    app <- v1, store <- v2, disk <- v3, saved <- v4, spent <- v5,
    Ids <- {1, 2}, Passwords <- {1, 2}, Levels <- {1}, Places <- {1},
    KeyFaults <- {"lost", "short"}, MaxActs <- 3, MaxFaults <- 2, MaxErrors <- 1

Selection == INSTANCE MemorySelection WITH
    win <- v1, vfo <- v2, backend <- v3, link <- v4, radio <- v5, spent <- v6,
    Memories <- SelectionMemoriesDef, Fields <- {"freq", "duplex"}, BandWidth <- 10,
    Start <- SelectionStartDef, SubBand <- 2, Elsewhere <- 17, MaxActs <- 3,
    MaxLost <- 0, MaxQueue <- 5

Tuning == INSTANCE ScopeTuning WITH
    scope <- v1, shown <- v2, link <- v3, radio <- v4, want <- v5, spent <- v6,
    Bands <- TuningBandsDef, Start <- TuningStartDef, Clicks <- {17}, StepHz <- 2,
    Sensitivity <- 2, SnapHz <- 5, EncoderOn <- {"main"}, SpanHz <- 3,
    Repeats <- FALSE, MaxActs <- 3, MaxLost <- 1, MaxQueue <- 5

Fall == INSTANCE Waterfall WITH
    wf <- v1, canvas <- v2, acts <- v3,
    Sizes <- WaterfallSizesDef, Views <- WaterfallViewsDef,
    DataRanges <- WaterfallDataDef, Points <- {0, 7}, MinRange <- 1, MaxActs <- 5

Packets == INSTANCE Ax25Decoder WITH
    decoder <- v1, frames <- v2, air <- v3,
    SamplesPerSymbol <- 2, Talks <- PacketTalksDef, Hearings <- PacketHearingsDef,
    MaxRawBits <- 250

Init ==
    \/ part = "civ" /\ Civ!Init
    \/ part = "send" /\ Tx!Init /\ NoVar6
    \/ part = "session" /\ Life!Init /\ NoVar5
    \/ part = "typo" /\ Typo!Init /\ NoVar5
    \/ part = "audio" /\ Audio!Init /\ NoVar5
    \/ part = "controls" /\ Controls!Init /\ NoVar10
    \/ part = "dual" /\ Dual!Init /\ NoVar10
    \/ part = "codec" /\ Codec!Init /\ NoVar5
    \/ part = "assembly" /\ Sweep!Init /\ NoVar7
    \/ part = "gate" /\ Gate!Init /\ NoVar7
    \/ part = "memory" /\ Memory!Init /\ NoVar5
    \/ part = "records" /\ Records!Init /\ NoVar6
    \/ part = "csv" /\ Csv!Init /\ NoVar4
    \/ part = "encoder" /\ Encoder!Init /\ NoVar7
    \/ part = "bridge" /\ Bridge!Init /\ NoVar8
    \/ part = "settings" /\ Store!Init /\ NoVar6
    \/ part = "selection" /\ Selection!Init /\ NoVar7
    \/ part = "tuning" /\ Tuning!Init /\ NoVar7
    \/ part = "waterfall" /\ Fall!Init /\ NoVar4
    \/ part = "packet" /\ Packets!Init /\ NoVar4

CivStep == part = "civ" /\ Civ!Next /\ UNCHANGED part
TxStep == part = "send" /\ Tx!Next /\ UNCHANGED part /\ UNCHANGED Unused6
LifeStep == part = "session" /\ Life!Next /\ UNCHANGED part /\ UNCHANGED Unused5
TypoStep == part = "typo" /\ Typo!Next /\ UNCHANGED part /\ UNCHANGED Unused5
AudioStep == part = "audio" /\ Audio!Next /\ UNCHANGED part /\ UNCHANGED Unused5
ControlsStep == part = "controls" /\ Controls!Next /\ UNCHANGED part /\ UNCHANGED Unused10
DualStep == part = "dual" /\ Dual!Next /\ UNCHANGED part /\ UNCHANGED Unused10
CodecStep == part = "codec" /\ Codec!Next /\ UNCHANGED part /\ UNCHANGED Unused5
SweepStep == part = "assembly" /\ Sweep!Next /\ UNCHANGED part /\ UNCHANGED Unused7
GateStep == part = "gate" /\ Gate!Next /\ UNCHANGED part /\ UNCHANGED Unused7
MemoryStep == part = "memory" /\ Memory!Next /\ UNCHANGED part /\ UNCHANGED Unused5
RecordsStep == part = "records" /\ Records!Next /\ UNCHANGED part /\ UNCHANGED Unused6
CsvStep == part = "csv" /\ Csv!Next /\ UNCHANGED part /\ UNCHANGED Unused4
EncoderStep == part = "encoder" /\ Encoder!Next /\ UNCHANGED part /\ UNCHANGED Unused7
BridgeStep == part = "bridge" /\ Bridge!Next /\ UNCHANGED part /\ UNCHANGED Unused8
StoreStep == part = "settings" /\ Store!Next /\ UNCHANGED part /\ UNCHANGED Unused6
SelectionStep == part = "selection" /\ Selection!Next /\ UNCHANGED part /\ UNCHANGED Unused7
TuningStep == part = "tuning" /\ Tuning!Next /\ UNCHANGED part /\ UNCHANGED Unused7
FallStep == part = "waterfall" /\ Fall!Next /\ UNCHANGED part /\ UNCHANGED Unused4
PacketsStep == part = "packet" /\ Packets!Next /\ UNCHANGED part /\ UNCHANGED Unused4

Next ==
    \/ CivStep \/ TxStep \/ LifeStep \/ TypoStep \/ AudioStep \/ ControlsStep
    \/ DualStep \/ CodecStep \/ SweepStep \/ GateStep \/ MemoryStep \/ RecordsStep
    \/ CsvStep \/ EncoderStep \/ BridgeStep \/ StoreStep \/ SelectionStep
    \/ TuningStep \/ FallStep \/ PacketsStep

Spec == Init /\ [][Next]_vars

-----------------------------------------------------------------------------
ASSUME InstancesAssumption ==
    /\ Civ!StreamAssumption /\ Tx!SendAssumption /\ Audio!AudioAssumption
    /\ Life!LifecycleAssumption /\ Typo!LifecycleAssumption
    /\ Controls!ControlsAssumption /\ Dual!DualAssumption
    /\ Sweep!AssemblyAssumption /\ Gate!GateAssumption
    /\ Records!RecordsAssumption /\ Encoder!EncoderAssumption
    /\ Bridge!BridgeAssumption /\ Store!StoreAssumption
    /\ Selection!SelectionAssumption /\ Tuning!TuningAssumption
    /\ Packets!PacketAssumption /\ Fall!WaterfallAssumption

SessionParts == {"session", "typo"}

\* The variables of every component keep their types; its queues, windows and
\* counters stay within their bounds.
TypesOK ==
    /\ part = "civ" => Civ!TypeOK
    /\ part = "send" => Tx!TypeOK
    /\ part = "session" => Life!TypeOK
    /\ part = "typo" => Typo!TypeOK
    /\ part = "audio" => Audio!TypeOK
    /\ part = "controls" => Controls!TypeOK
    /\ part = "dual" => Dual!TypeOK
    /\ part = "codec" => Codec!TypeOK
    /\ part = "assembly" => Sweep!TypeOK
    /\ part = "gate" => Gate!TypeOK
    /\ part = "memory" => Memory!TypeOK
    /\ part = "records" => Records!TypeOK
    /\ part = "encoder" => Encoder!TypeOK
    /\ part = "bridge" => Bridge!TypeOK
    /\ part = "settings" => Store!TypeOK
    /\ part = "selection" => Selection!TypeOK
    /\ part = "tuning" => Tuning!TypeOK
    /\ part = "waterfall" => Fall!TypeOK
    /\ part = "packet" => Packets!TypeOK

\* The CI-V stream hands every payload that arrives to Commander once, whatever
\* is lost, repeated or reset; and the packets the sender can repeat are its
\* most recent ones in an unbroken run (UdpCivData.cpp, UdpBase.cpp).  Likewise
\* an AX.25 packet is shown once, however many of the decoder's lanes hear it,
\* and none out of noise (Ax25Decoder.cpp).
StreamIntact ==
    /\ part = "civ" => Civ!DeliveredOnce
    /\ part = "send" => Tx!BufferIsRecentRun
    /\ part = "packet" => Packets!ReturnedOnce /\ Packets!CountedOnce

\* A radio is called ready only on readings of its own session, and the window
\* enables its controls exactly for a connected, ready radio (RadioBackend.cpp,
\* MainWindow.cpp).  A session whose command plane answered is closed only after
\* the commands that unkey the transmitter.
ReadyIsTrue ==
    part \in SessionParts =>
        Life!ReadyFromThisSession /\ Life!PanelMatchesRadio /\ Life!ProvenClosedSafely

\* Sessions begin because somebody wants them: none after the operator's
\* disconnect or after the attempts are spent, and a lost session that had
\* reached the panel is followed by an attempt to reconnect (MainWindow.cpp).
SessionsAsWanted ==
    [][/\ part = "session" => Life!StartsWanted /\ Life!Pursued
       /\ part = "typo" => Typo!StartsWanted /\ Typo!Pursued]_vars

\* Only microphone blocks of the present press and device are sent, and a
\* playback device that does not open is tried once (UdpAudio.cpp).
AudioIsCurrent == part = "audio" => Audio!SentIsThisPress /\ Audio!PlaybackTriedOnce

\* However requests replace one another in the schedule, the radio ends with
\* the operator's last one for every control (Commander.cpp, enqueueScheduledAction);
\* and a SUB receiver known to be off shows nothing (RadioState.cpp, applyRadioValue).
ReceiversAsRequested ==
    /\ part = "controls" => Controls!LatestRequestWins
    /\ part = "dual" => Dual!SubEmptyWhileOff

\* A whole reply is understood even behind a fragment of another, or with its
\* first byte missing, and publishes the value that was set (Commander.cpp,
\* parseData, appendSetCommandValue and the reply parsers).
RoundTrip == [][part = "codec" => Codec!Understood /\ Codec!ReadsBackAsSet']_vars

\* Every pixel of a published frame stands where its sweep put it; a click on
\* the scope tunes the receiver that was drawn; and unless a message was lost
\* the receiver controls come back (Commander.cpp, SpectrumScopeController.cpp).
\* The waterfall's rows stay in the order of their sweeps and at their
\* frequencies through pans, zooms and new sizes, and the texture shows them
\* (WaterfallController.cpp, WaterfallCanvas.cpp).
ScopeIntact ==
    /\ part = "assembly" => Sweep!PixelsInPlace
    /\ part = "gate" => Gate!ClicksMeetTheirReceiver /\ Gate!ControlsReturn
    /\ part = "waterfall" =>
          /\ Fall!HistoryInOrder /\ Fall!PixelsAtTheirFrequency
          /\ Fall!TextureFollows /\ Fall!NewestOnTop

\* A write counted as confirmed is in the radio, the live map is the committed
\* snapshot except while a sweep or a batch runs, and what an import or a
\* rollback announces is so (MemoryWriteController.cpp, MemoryCsvController.cpp).
\* A memory passes the check of its read-back exactly when the radio holds what
\* was to be written, in the fields that survive the radio's format; what was
\* exported can be imported; saving an editor nobody touched writes back what
\* was there (MemoryRecordHelpers.h, Commander.cpp, MemoryEditorForm.cpp); and
\* a file is read as it was written (MemoryStore.cpp).  The window keeps the
\* memory that was selected until somebody leaves it, and a manual change made
\* after the selection was sent leaves it (MainWindow.cpp).
MemoriesTrue ==
    /\ part = "memory" => Memory!CountedWritesHold /\ Memory!MapIsSnapshot /\ Memory!ClaimsAreTrue
    /\ part = "records" =>
          /\ Records!VerifiedMeansWanted /\ Records!AcceptedVerifies
          /\ Records!ExportImports /\ Records!EditorKeeps
    /\ part = "csv" => Csv!ReadAsWritten
    /\ part = "selection" => Selection!SelectionKept /\ Selection!LeavesMemory

\* What operators and their programs ask of the surroundings is what happens:
\* the transmitter is keyed from the RC-28 only while a button or a latch holds
\* it, and each press acts once (IcomRC28Controller.cpp); a client of the
\* automation server has its answer at once and clicks the control it was told
\* about (AutomationServer.cpp, AutomationUiDriver.cpp); settings, profiles and
\* passwords are what was last saved, also after a crash (AppSettings.cpp,
\* RadioProfile.cpp).  Tuning by wheel, click and encoder ends where the
\* requests add up to, on the band of the receiver it was meant for
\* (SpectrumScopeController.cpp).
OperatorMeant ==
    /\ part = "encoder" => Encoder!HeldBySomebody /\ Encoder!ActsOnce
    /\ part = "bridge" => Bridge!AnsweredAtOnce /\ Bridge!ClicksTheControlMeant
    /\ part = "settings" =>
          /\ Store!FileIsMemory /\ Store!ChooserIsSettings /\ Store!PasswordsKept
          /\ Store!PasswordsReadable /\ Store!DamagedKept
    /\ part = "tuning" => Tuning!TunedAsAsked /\ Tuning!StaysOnBand /\ Tuning!PendingWithdrawn
=============================================================================
