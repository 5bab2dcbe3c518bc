-------------------------- MODULE AutomationBridge --------------------------
(* The automation bridge: AutomationServer's clients and their lines,       *)
(* AutomationController's requests, and AutomationUiDriver's registry of    *)
(* the window's controls with the clicks it posts.                          *)
EXTENDS Integers, Sequences, FiniteSets, SequencesExt

CONSTANTS
    Clients,     \* programs that connect to the local socket
    Objects,     \* the window's controls, a new one for every dialog opened
    Prohibited,  \* the PTT button and the DTMF dialog's Send button
    MaxClients,  \* kMaximumClients, 4
    MaxPieces,   \* pieces of a line that exceed kMaximumRequestBytes
    MaxSent,     \* bound: pieces a client sends
    MaxChanges   \* bound: controls created, destroyed, enabled or disabled

BridgeAssumption ==
    /\ Prohibited \subseteq Objects /\ {MaxClients, MaxPieces, MaxSent, MaxChanges} \subseteq Nat

VARIABLES
    server,   \* listening, and the number of clients the status bar shows
    clients,  \* m_clients: what is buffered of each client's lines
    peer,     \* per client: pieces sent and not yet read, answers, identifiers it was told
    ui,       \* controls alive and usable, their identifiers, the next one, registry, clicks posted
    ready,    \* receiveControlReady: connected, ready, not transmitting, not locked
    clicked,  \* history: identifier and control of the last click
    changes

vars == <<server, clients, peer, ui, ready, clicked, changes>>

Nobody == [wire |-> <<>>, sent |-> 0, lines |-> 0, answers |-> <<>>, seen |-> {}]

Init ==
    /\ server = [listening |-> TRUE, shown |-> 0]
    /\ clients = << >>
    /\ peer = [c \in Clients |-> Nobody]
    /\ \E alive \in SUBSET Objects :
          ui = [alive |-> alive, usable |-> alive, id |-> [o \in Objects |-> 0], next |-> 1,
                registry |-> {}, posted |-> <<>>]
    /\ ready = TRUE
    /\ clicked = [id |-> 0, object |-> 0, told |-> TRUE]
    /\ changes = 0

Connected == DOMAIN clients
Without(f, c) == [d \in DOMAIN f \ {c} |-> f[d]]

\* A request names an operation, and a control where the operation needs one.
Operations == {"ping", "get_state", "ui_list", "set_frequency", "transmit", "damaged"}
Request(op, id) == [op |-> op, id |-> id]
Requests(c) == {Request(op, 0) : op \in Operations}
                  \cup {Request("ui_activate", p[1]) : p \in peer[c].seen}

-----------------------------------------------------------------------------
(* The clients                                                             *)

\* A line in one piece, or a piece of a line whose end comes later.
Send(c) ==
    /\ c \in Connected /\ peer[c].sent < MaxSent
    /\ \E r \in Requests(c), ends \in BOOLEAN :
          /\ ends \/ r.op = "ping"
          /\ peer' = [peer EXCEPT ![c].wire = Append(@, [request |-> r, ends |-> ends]),
                                  ![c].sent = @ + 1, ![c].lines = @ + (IF ends THEN 1 ELSE 0)]
    /\ UNCHANGED <<server, clients, ui, ready, clicked, changes>>

\* acceptPendingConnections: one client too many is told so and left.
acceptPendingConnections(c) ==
    /\ server.listening /\ c \notin Connected
    /\ IF Cardinality(Connected) >= MaxClients THEN UNCHANGED <<server, clients, peer>>
       ELSE /\ clients' = [d \in Connected \cup {c} |-> IF d = c THEN <<>> ELSE clients[d]]
            /\ server' = [server EXCEPT !.shown = Cardinality(Connected) + 1]
            /\ peer' = [peer EXCEPT ![c] = [Nobody EXCEPT !.sent = peer[c].sent, !.seen = peer[c].seen]]
    /\ UNCHANGED <<ui, ready, clicked, changes>>

\* removeClient
removeClient(c) ==
    /\ c \in Connected /\ clients' = Without(clients, c)
    /\ server' = [server EXCEPT !.shown = Cardinality(Connected) - 1]
    /\ UNCHANGED <<peer, ui, ready, clicked, changes>>

stop ==
    /\ server.listening /\ server' = [listening |-> FALSE, shown |-> 0]
    /\ clients' = << >>
    /\ UNCHANGED <<peer, ui, ready, clicked, changes>>

-----------------------------------------------------------------------------
(* AutomationUiDriver: operators from one registry to the next             *)

\* Bug for the mutation test: identifiers begin anew with every rebuild.
RebuiltAnew(u) ==
    LET order == SetToSeq(u.alive)
    IN  [u EXCEPT !.id = [o \in Objects |-> IF o \in u.alive THEN CHOOSE i \in 1 .. Len(order) : order[i] = o ELSE 0],
                  !.registry = {<<i, order[i]>> : i \in 1 .. Len(order)}]

\* rebuildRegistry: a control keeps the identifier it was given once.
rebuildRegistry(u) ==
    LET new == SetToSeq({o \in u.alive : u.id[o] = 0})
        id == [o \in Objects |-> IF o \in u.alive /\ u.id[o] = 0
                                 THEN u.next + (CHOOSE i \in 1 .. Len(new) : new[i] = o) - 1
                                 ELSE u.id[o]]
    IN  [u EXCEPT !.id = id, !.next = @ + Len(new), !.registry = {<<id[o], o>> : o \in u.alive}]

Alive(u, id) == {p \in u.registry : p[1] = id /\ p[2] \in u.alive}

\* resolve: the registry is rebuilt only for an identifier it does not hold.
Resolved(u, id) == IF Alive(u, id) # {} THEN u ELSE rebuildRegistry(u)

\* activate: checked now, clicked from the event loop.
Activated(u, id) ==
    LET known == Resolved(u, id)
        found == {p[2] : p \in Alive(known, id)}
    IN  IF found \subseteq Prohibited \/ found \cap u.usable = {} THEN known
        ELSE [known EXCEPT !.posted = Append(@, <<id, CHOOSE o \in found : TRUE>>)]

-----------------------------------------------------------------------------
(* AutomationController::execute and the lines of a client                 *)

\* The window's state while a client's lines are processed.
Now(c) == [ui |-> ui, peer |-> peer[c]]

Answered(s, result) == [s EXCEPT !.peer.answers = Append(@, result)]

execute(s, r) ==
    CASE r.op \in {"ping", "get_state"} -> Answered(s, "ok")
      [] r.op = "ui_list" ->
            LET rebuilt == rebuildRegistry(s.ui)
            IN  Answered([s EXCEPT !.ui = rebuilt, !.peer.seen = @ \cup rebuilt.registry], "ok")
      [] r.op = "ui_activate" -> Answered([s EXCEPT !.ui = Activated(@, r.id)], "checked")
      [] r.op = "set_frequency" /\ ready ->
            Answered(s, "ok")
      [] OTHER -> Answered(s, "error")

\* The lines that are complete, and what is left of the buffer.
Ends(buffer) == {i \in 1 .. Len(buffer) : buffer[i].ends}

\* Bug for the mutation test: one line for every time data arrives.
OneLine(buffer) == IF Ends(buffer) = {} THEN {} ELSE {CHOOSE i \in Ends(buffer) : \A j \in Ends(buffer) : i <= j}

Complete(buffer) == Ends(buffer)

\* A line in pieces is damaged: no request is sent in two here.
RequestOf(buffer, i) ==
    IF i > 1 /\ ~buffer[i - 1].ends THEN Request("damaged", 0) ELSE buffer[i].request

\* readClient and processLine
readClient(c) ==
    /\ c \in Connected /\ peer[c].wire # <<>>
    /\ LET buffer == clients[c] \o peer[c].wire
           lines == Complete(buffer)
           last == IF lines = {} THEN 0 ELSE CHOOSE i \in lines : \A j \in lines : j <= i
           requests == [n \in 1 .. Cardinality(lines) |->
                           RequestOf(buffer, CHOOSE i \in lines : Cardinality({j \in lines : j <= i}) = n)]
           After[n \in 0 .. Len(requests)] ==
               IF n = 0 THEN [Now(c) EXCEPT !.peer.wire = <<>>] ELSE execute(After[n - 1], requests[n])
           s == After[Len(requests)]
           tooLarge == lines = {} /\ Len(buffer) > MaxPieces
       IN  /\ ui' = s.ui
           /\ peer' = [peer EXCEPT ![c] = s.peer]
           /\ IF tooLarge
              THEN /\ clients' = Without(clients, c)
                   /\ server' = [server EXCEPT !.shown = Cardinality(Connected) - 1]
              ELSE /\ clients' = [clients EXCEPT ![c] = SubSeq(buffer, last + 1, Len(buffer))]
                   /\ UNCHANGED server
    /\ UNCHANGED <<ready, clicked, changes>>

\* The posted click of a guarded pointer: nothing for a control that is gone or
\* disabled meanwhile.
Click ==
    /\ ui.posted # <<>> /\ ui' = [ui EXCEPT !.posted = Tail(@)]
    /\ LET p == Head(ui.posted)
       IN  clicked' = IF p[2] \in ui.usable
                      THEN [id |-> p[1], object |-> p[2],
                            told |-> \E c \in Clients : p \in peer[c].seen]
                      ELSE clicked
    /\ UNCHANGED <<server, clients, peer, ready, changes>>

-----------------------------------------------------------------------------
\* Dialogs come and go, controls are enabled and disabled; the radio gets ready,
\* transmits or locks its controls.
WindowChanges ==
    /\ changes < MaxChanges /\ changes' = changes + 1
    /\ \/ \E o \in Objects \ ui.alive :
             /\ ui.id[o] = 0
             /\ ui' = [ui EXCEPT !.alive = @ \cup {o}, !.usable = @ \cup {o}] /\ UNCHANGED ready
       \/ \E o \in ui.alive :
             ui' = [ui EXCEPT !.alive = @ \ {o}, !.usable = @ \ {o}] /\ UNCHANGED ready
       \/ \E o \in ui.alive :
             ui' = [ui EXCEPT !.usable = (@ \cup {o}) \ (@ \cap {o})] /\ UNCHANGED ready
       \/ ready' = ~ready /\ UNCHANGED ui
    /\ UNCHANGED <<server, clients, peer, clicked>>

Next ==
    \/ \E c \in Clients : Send(c) \/ acceptPendingConnections(c) \/ removeClient(c) \/ readClient(c)
    \/ stop \/ Click \/ WindowChanges

Spec == Init /\ [][Next]_vars

-----------------------------------------------------------------------------
TypeOK ==
    /\ Connected \subseteq Clients /\ Cardinality(Connected) <= MaxClients
    /\ ui.usable \subseteq ui.alive /\ ui.alive \subseteq Objects

\* Every complete line that was read is answered, in order, before anything else
\* happens, and the status bar counts the clients that are there.
AnsweredAtOnce ==
    /\ server.shown = Cardinality(Connected)
    /\ \A c \in Connected :
          Len(peer[c].answers) + Cardinality(Ends(peer[c].wire)) = peer[c].lines

\* A click goes to the control a client was told that identifier for, however
\* dialogs came and went, and never to one that transmits.
ClicksTheControlMeant == clicked.id # 0 => clicked.told /\ clicked.object \notin Prohibited
=============================================================================
