------------------------- MODULE RadioSessionProofs -------------------------
(***************************************************************************)
(* Theorems about RadioSession, for every value of its constants: types,   *)
(* what a closing handler may do, whose sessions a removal can hit, what   *)
(* the journal holds while processes take turns or one is alone, and when  *)
(* its record is given up.                                                 *)
(***************************************************************************)
EXTENDS RadioSession, FiniteSetTheorems, TLAPS

-----------------------------------------------------------------------------
(* Types.                                                                  *)

Flags  == {"authed", "gotAuth", "ticking", "owned", "opened", "media", "radios",
           "ports", "reclaim", "resetTried", "relogin", "retired", "ack", "disc",
           "reported"}
Fields == Flags \cup Kinds \cup {"phase", "seq", "id", "reclaims", "attempts", "pred"}
Phases == {"off", "discover", "up", "settling", "removing", "dead"}
Live   == {"discover", "up", "settling", "removing"}

\* Identities of the first n logins, and the datagrams that name them.
Ids(n)  == (0 .. n) \X (0 .. n)
Mail(n) == [kind : Requests \cup Replies, p : Procs \cup {NoProc}, seq : Nat, id : Ids(n)]

\* HandlerOK of a record that has these fields and no others.
Sound(s, n) ==
    /\ DOMAIN s = Fields /\ s.phase \in Phases
    /\ s.seq \in Nat \ {0} /\ s.id \in Ids(n)
    /\ \A k \in Kinds : s[k] \in Request /\ s[k].id \in Ids(n) /\ s[k].seq < s.seq
    /\ \A b \in Flags : s[b] \in BOOLEAN
    /\ s.reclaims \in 0 .. (ReclaimLimit + 1) /\ s.attempts \in 0 .. RemovalAttempts
    /\ s.pred \in Procs \cup {NoProc}

\* A login that is pending was sent under a number of its own.
Numbered(s) == s.login.pending => s.login.id[1] # 0

HandlersSound == DOMAIN h = Procs /\ \A p \in Procs : Sound(h[p], Len(names)) /\ Numbered(h[p])
JournalSound  == /\ \A j, k \in journal : j = k
                 /\ \A j \in journal : j \in [owner : Procs, id : Ids(Len(names)), full : BOOLEAN]
RadioSound    == /\ tokens \subseteq 1 .. Len(names) /\ session \in tokens \cup {0}
                 /\ granted \subseteq 1 .. Len(names) /\ foreign \in BOOLEAN
BoundsSound   == /\ connects \in 0 .. MaxConnects /\ renewals \in 0 .. MaxRenewals
                 /\ faults \in 0 .. MaxFaults /\ takes \in 0 .. MaxForeign

\* Only open handlers are written to, and a login has a number.
Carried(m) == (m.p # NoProc => Open(m.p)) /\ (m.kind = "login" => m.id[1] # 0)
MailSound  == net \subseteq Mail(Len(names)) /\ \A m \in net : Carried(m)

TypeInv == /\ names \in Seq(Procs)
           /\ HandlersSound /\ JournalSound /\ RadioSound /\ BoundsSound /\ MailSound

\* A record t that a step of the handler s of process p may leave.
Follows(p, t) ==
    /\ t.phase \in Live /\ Numbered(t)
    /\ \/ Sound(t, Len(names))
       \/ Sound(t, Len(names) + 1) /\ "login" \in Fresh(p, t)

-----------------------------------------------------------------------------
(* What the functions of a handler do to its record.                       *)

\* A handler as its constructor leaves it.
LEMMA HandlerSound ==
    ASSUME SessionAssumption, NEW n \in Nat, NEW f \in Phases
    PROVE  Sound(Handler(f), n) /\ Numbered(Handler(f)) /\ Handler(f).phase = f
<1>1. NoRequest \in Request /\ NoRequest.id \in Ids(n) /\ NoRequest.seq = 0 /\ ~NoRequest.pending
  BY DEF NoRequest, Request, NoId, Ids
<1>2. NoId \in Ids(n)
  BY DEF NoId, Ids
<1> HIDE DEF NoRequest, NoId
<1>3. DOMAIN Handler(f) = Fields
  BY DEF Handler, Fields, Flags, Kinds
<1>4. \A k \in Kinds : Handler(f)[k] = NoRequest
  BY DEF Handler, Kinds
<1>5. \A b \in Flags : Handler(f)[b] = FALSE
  BY DEF Handler, Flags
<1>6. /\ Handler(f).phase = f /\ Handler(f).seq = 1 /\ Handler(f).id = NoId
      /\ Handler(f).reclaims = 0 /\ Handler(f).attempts = 0 /\ Handler(f).pred = NoProc
      /\ Handler(f).login = NoRequest
  BY DEF Handler
<1> HIDE DEF Handler
<1>7. \A k \in Kinds : /\ Handler(f)[k] \in Request /\ Handler(f)[k].id \in Ids(n)
                       /\ Handler(f)[k].seq < Handler(f).seq
  BY <1>1, <1>4, <1>6
<1>8. \A b \in Flags : Handler(f)[b] \in BOOLEAN
  BY <1>5
<1>9. 0 \in 0 .. (ReclaimLimit + 1) /\ 0 \in 0 .. RemovalAttempts
  BY DEF SessionAssumption
<1> QED
  BY <1>1, <1>2, <1>3, <1>6, <1>7, <1>8, <1>9 DEF Sound, Numbered

\* Beginning a request of the present identity.
LEMMA Beginning ==
    ASSUME NEW n \in Nat, NEW s, Sound(s, n), NEW k \in Kinds
    PROVE  Sound([s EXCEPT ![k] = Begun(s, s.id), !.seq = @ + 1], n)
<1> DEFINE b == Begun(s, s.id)
           t == [s EXCEPT ![k] = b, !.seq = @ + 1]
<1> SUFFICES Sound(t, n)
  OBVIOUS
<1>1. DOMAIN s = Fields /\ s.seq \in Nat \ {0} /\ s.id \in Ids(n)
  BY DEF Sound
<1>2. b \in Request /\ b.id \in Ids(n) /\ b.seq = s.seq
  BY <1>1 DEF Begun, Request, Ids
<1> HIDE DEF b
<1>3. DOMAIN t = Fields /\ t[k] = b /\ t.seq = s.seq + 1
  BY <1>1 DEF Fields, Kinds, Flags
<1>4. \A f \in Fields \ {k, "seq"} : t[f] = s[f]
  BY <1>1 DEF Fields
<1> HIDE DEF t
<1>5. \A f \in Flags \cup {"phase", "id", "reclaims", "attempts", "pred"} : t[f] = s[f]
  BY <1>4 DEF Fields, Flags, Kinds
<1>6. \A o \in Kinds : t[o] \in Request /\ t[o].id \in Ids(n) /\ t[o].seq < t.seq
  <2> SUFFICES ASSUME NEW o \in Kinds
               PROVE  t[o] \in Request /\ t[o].id \in Ids(n) /\ t[o].seq < t.seq
    OBVIOUS
  <2>1. CASE o = k
    BY <1>1, <1>2, <1>3, <2>1
  <2>2. CASE o # k
    <3>1. t[o] = s[o]
      BY <1>4, <2>2 DEF Fields, Kinds
    <3>2. s[o] \in Request /\ s[o].id \in Ids(n) /\ s[o].seq < s.seq
      BY DEF Sound
    <3> QED
      BY <1>1, <1>3, <3>1, <3>2 DEF Request
  <2> QED
    BY <2>1, <2>2
<1>7. \A f \in Flags : t[f] \in BOOLEAN
  BY <1>5, Zenon DEF Sound
<1>8. /\ t.phase = s.phase /\ t.id = s.id /\ t.reclaims = s.reclaims
      /\ t.attempts = s.attempts /\ t.pred = s.pred
  BY <1>5
<1>9. t.seq \in Nat \ {0}
  BY <1>1, <1>3
<1>10. /\ t.phase \in Phases /\ t.id \in Ids(n) /\ t.reclaims \in 0 .. (ReclaimLimit + 1)
       /\ t.attempts \in 0 .. RemovalAttempts /\ t.pred \in Procs \cup {NoProc}
  BY <1>8 DEF Sound
<1> QED
  BY <1>3, <1>6, <1>7, <1>9, <1>10 DEF Sound

LEMMA SendingSound ==
    ASSUME NEW n \in Nat, NEW s, Sound(s, n)
    PROVE  Sound(sendRemoval(s), n) /\ Sound(sendRenewal(s), n) /\ Sound(sendRequestStream(s), n)
BY Beginning DEF sendRemoval, sendRenewal, sendRequestStream, Kinds

LEMMA IdSound ==
    ASSUME NEW n \in Nat, NEW s, Sound(s, n), NEW id \in Ids(n)
    PROVE  Sound([s EXCEPT !.id = id], n)
BY DEF Sound, Fields, Flags, Kinds

LEMMA LoginSound ==
    ASSUME NEW n \in Nat, NEW s, Sound(s, n), NEW i \in Ids(n)
    PROVE  Sound([s EXCEPT !.id = i, !.login = Begun(s, i), !.seq = @ + 1], n)
<1> DEFINE x == [s EXCEPT !.id = i]
<1>1. Sound(x, n)
  BY IdSound
<1>2. DOMAIN s = Fields
  BY DEF Sound
<1>3. x.id = i /\ x.seq = s.seq
  BY <1>2 DEF Fields, Flags, Kinds
<1>4. Begun(x, x.id) = Begun(s, i)
  BY <1>3 DEF Begun
<1>5. Sound([x EXCEPT !["login"] = Begun(x, x.id), !.seq = @ + 1], n)
  BY <1>1, Beginning DEF Kinds
<1>6. Sound([x EXCEPT !.login = Begun(s, i), !.seq = x.seq + 1], n)
  BY <1>4, <1>5
<1>7. [x EXCEPT !.login = Begun(s, i), !.seq = x.seq + 1]
          = [s EXCEPT !.id = i, !.login = Begun(s, i), !.seq = @ + 1]
  BY <1>2, <1>3
<1> QED
  BY <1>6, <1>7

LEMMA ClearedSound ==
    ASSUME NEW n \in Nat, NEW s, Sound(s, n), NEW K \in SUBSET Kinds
    PROVE  Sound(Cleared(s, K), n)
<1> DEFINE t == Cleared(s, K)
<1> SUFFICES Sound(t, n)
  OBVIOUS
<1>1. DOMAIN s = Fields /\ DOMAIN t = Fields
  BY DEF Sound, Cleared
<1>2. \A f \in Fields \ K : t[f] = s[f]
  BY <1>1 DEF Cleared
<1>3. \A f \in K : t[f] = [s[f] EXCEPT !.pending = FALSE]
  BY <1>1 DEF Cleared, Fields
<1> HIDE DEF t
<1>4. \A f \in Flags \cup {"phase", "seq", "id", "reclaims", "attempts", "pred"} : t[f] = s[f]
  BY <1>2 DEF Fields, Flags, Kinds
<1>5. \A o \in Kinds : t[o] \in Request /\ t[o].id = s[o].id /\ t[o].seq = s[o].seq
  <2> SUFFICES ASSUME NEW o \in Kinds
               PROVE  t[o] \in Request /\ t[o].id = s[o].id /\ t[o].seq = s[o].seq
    OBVIOUS
  <2>1. s[o] \in Request
    BY DEF Sound
  <2>2. t[o] = s[o] \/ t[o] = [s[o] EXCEPT !.pending = FALSE]
    BY <1>2, <1>3 DEF Fields
  <2> QED
    BY <2>1, <2>2 DEF Request
<1>6. \A o \in Kinds : t[o] \in Request /\ t[o].id \in Ids(n) /\ t[o].seq < t.seq
  BY <1>4, <1>5 DEF Sound
<1>7. \A f \in Flags : t[f] \in BOOLEAN
  BY <1>4, Zenon DEF Sound
<1>8. /\ t.phase = s.phase /\ t.seq = s.seq /\ t.id = s.id /\ t.reclaims = s.reclaims
      /\ t.attempts = s.attempts /\ t.pred = s.pred
  BY <1>4
<1>9. /\ t.phase \in Phases /\ t.seq \in Nat \ {0} /\ t.id \in Ids(n)
      /\ t.reclaims \in 0 .. (ReclaimLimit + 1)
      /\ t.attempts \in 0 .. RemovalAttempts /\ t.pred \in Procs \cup {NoProc}
  BY <1>8 DEF Sound
<1> QED
  BY <1>1, <1>6, <1>7, <1>9 DEF Sound

LEMMA CloseStreamsSound ==
    ASSUME NEW n \in Nat, NEW s, Sound(s, n)
    PROVE  Sound(closeStreams(s), n)
BY DEF Sound, Fields, Flags, Kinds, closeStreams

\* setCurrentRadio and selectIfKnown.
LEMMA SelectSound ==
    ASSUME NEW n \in Nat, NEW s, Sound(s, n)
    PROVE  Sound(setCurrentRadio(s), n) /\ Sound(selectIfKnown(s), n)
<1> DEFINE x == closeStreams(s)
           c == [x EXCEPT !.ports = TRUE]
<1>1. Sound(x, n)
  BY CloseStreamsSound
<1> HIDE DEF x
<1>2. Sound(c, n)
  BY <1>1 DEF Sound, Fields, Flags, Kinds
<1> HIDE DEF c
<1>3. Sound(sendRequestStream(c), n)
  BY <1>2, SendingSound
<1> USE DEF x, c
<1>4. Sound(setCurrentRadio(s), n)
  BY <1>2, <1>3, Zenon DEF setCurrentRadio
<1> QED
  BY <1>4, Zenon DEF selectIfKnown

LEMMA SelectKeeps ==
    ASSUME NEW n \in Nat, NEW s, Sound(s, n)
    PROVE  /\ selectIfKnown(s).phase = s.phase /\ selectIfKnown(s).login = s.login
           /\ selectIfKnown(s).seq >= s.seq
           /\ setCurrentRadio(s).phase = s.phase /\ setCurrentRadio(s).login = s.login
<1>1. DOMAIN s = Fields /\ s.seq \in Nat
  BY DEF Sound
<1>2. /\ setCurrentRadio(s).phase = s.phase /\ setCurrentRadio(s).login = s.login
      /\ setCurrentRadio(s).seq >= s.seq
  BY <1>1 DEF setCurrentRadio, closeStreams, sendRequestStream, Fields, Flags, Kinds
<1> QED
  BY <1>1, <1>2 DEF selectIfKnown

\* A predecessor's identity is taken over to remove it.
LEMMA TakeoverSound ==
    ASSUME NEW n \in Nat, NEW s, Sound(s, n), SessionAssumption,
           NEW j \in [owner : Procs, id : Ids(n), full : BOOLEAN]
    PROVE  LET t == beginPredecessorTokenRemoval(s, j)
           IN  Sound(t, n) /\ t.phase = s.phase /\ t.login = s.login
<1> DEFINE x == sendRemoval([s EXCEPT !.id = j.id])
           q == j.owner
           b == j.full
           t == [x EXCEPT !.retired = @ \/ b, !.pred = q, !.attempts = 1,
                          !.ack = FALSE, !.disc = FALSE]
<1>1. Sound(x, n)
  BY IdSound, SendingSound
<1>2. DOMAIN s = Fields /\ DOMAIN x = Fields
  BY <1>1 DEF Sound
<1>3. x.phase = s.phase /\ x.login = s.login
  BY <1>2 DEF sendRemoval, Fields, Flags, Kinds
<1>4. t = beginPredecessorTokenRemoval(s, j)
  BY DEF beginPredecessorTokenRemoval
<1>5. q \in Procs /\ b \in BOOLEAN /\ RemovalAttempts \in Nat \ {0}
  BY DEF SessionAssumption
<1> HIDE DEF x, q, b
<1>6. Sound(t, n)
  BY <1>1, <1>5 DEF Sound, Fields, Flags, Kinds
<1>7. t.phase = x.phase /\ t.login = x.login
  BY <1>2 DEF Fields, Flags, Kinds
<1> QED
  BY <1>3, <1>4, <1>6, <1>7

\* The state in which completePredecessorTokenRemoval logs in.
Dropped(s) ==
    selectIfKnown([closeStreams(Cleared(s, Kinds)) EXCEPT
                      !.id = <<s.id[1], 0>>, !.gotAuth = FALSE, !.authed = FALSE,
                      !.pred = NoProc, !.retired = FALSE])

LEMMA DroppedSound ==
    ASSUME NEW n \in Nat, NEW s, Sound(s, n)
    PROVE  /\ completePredecessorTokenRemoval(s) = sendLogin(Dropped(s))
           /\ Sound(Dropped(s), n) /\ Dropped(s).phase = s.phase /\ Dropped(s).seq >= s.seq
<1> DEFINE x == closeStreams(Cleared(s, Kinds))
           i == <<s.id[1], 0>>
           c == [x EXCEPT !.id = i, !.gotAuth = FALSE, !.authed = FALSE,
                          !.pred = NoProc, !.retired = FALSE]
<1>1. Sound(x, n)
  BY ClearedSound, CloseStreamsSound
<1>2. DOMAIN s = Fields /\ DOMAIN x = Fields
  BY <1>1 DEF Sound
<1>3. x.phase = s.phase /\ x.seq = s.seq
  BY <1>2 DEF closeStreams, Cleared, Fields, Flags, Kinds
<1>4. i \in Ids(n)
  BY DEF Sound, Ids
<1>5. completePredecessorTokenRemoval(s) = sendLogin(selectIfKnown(c)) /\ Dropped(s) = selectIfKnown(c)
  BY Zenon DEF completePredecessorTokenRemoval, Dropped
<1> HIDE DEF x, i
<1>6. Sound(c, n)
  BY <1>1, <1>4 DEF Sound, Fields, Flags, Kinds
<1>7. c.phase = x.phase /\ c.seq = x.seq
  BY <1>2 DEF Fields, Flags, Kinds
<1> HIDE DEF c
<1> QED
  BY <1>3, <1>5, <1>6, <1>7, SelectSound, SelectKeeps

LEMMA ClearedKeeps ==
    ASSUME NEW n \in Nat, NEW s, Sound(s, n), NEW K \in SUBSET Kinds
    PROVE  LET c == Cleared(s, K)
           IN  /\ c.phase = s.phase /\ c.seq = s.seq /\ c.id = s.id
               /\ c.login.pending => c.login = s.login
               /\ "login" \in K => ~c.login.pending
<1> DEFINE c == Cleared(s, K)
<1>1. DOMAIN s = Fields /\ s.login \in Request
  BY DEF Sound, Kinds
<1>2. c.phase = s.phase /\ c.seq = s.seq /\ c.id = s.id
  BY <1>1 DEF Cleared, Fields, Flags, Kinds
<1>3. "login" \in K => c.login = [s.login EXCEPT !.pending = FALSE]
  BY <1>1 DEF Cleared, Fields, Kinds
<1>4. "login" \notin K => c.login = s.login
  BY <1>1 DEF Cleared, Fields, Kinds
<1> HIDE DEF c
<1>5. "login" \in K => ~c.login.pending
  BY <1>1, <1>3 DEF Request
<1> USE DEF c
<1> QED
  BY <1>2, <1>4, <1>5

-----------------------------------------------------------------------------
(* What a handler's step does to the state.                                *)

LEMMA MoreIds == ASSUME NEW n \in Nat, NEW k \in Nat, n <= k
                 PROVE  Ids(n) \subseteq Ids(k) /\ Mail(n) \subseteq Mail(k)
<1>1. Ids(n) \subseteq Ids(k)
  BY DEF Ids
<1> QED
  BY <1>1 DEF Mail

LEMMA Longer == ASSUME NEW n \in Nat, NEW k \in Nat, n <= k, NEW s, Sound(s, n)
                PROVE  Sound(s, k)
<1>1. \A x \in Ids(n) : x \in Ids(k)
  BY MoreIds
<1>2. \A o \in Kinds : s[o] \in Request /\ s[o].id \in Ids(k) /\ s[o].seq < s.seq
  BY <1>1 DEF Sound
<1> QED
  BY <1>1, <1>2 DEF Sound

\* The names after a step: as before, or one longer.
Grown == /\ names' \in Seq(Procs) /\ Len(names') \in {Len(names), Len(names) + 1}
         /\ \A n \in 1 .. Len(names) : names'[n] = names[n]

LEMMA BecomeNames ==
    ASSUME names \in Seq(Procs), NEW p \in Procs, NEW t, NEW rest, Become(p, t, rest)
    PROVE  /\ Grown
           /\ "login" \in Fresh(p, t) => Len(names') = Len(names) + 1 /\ names'[Len(names) + 1] = p
           /\ "login" \notin Fresh(p, t) => names' = names
<1>1. CASE "login" \in Fresh(p, t)
  <2>1. names' = Append(names, p)
    BY <1>1 DEF Become
  <2> QED
    BY <1>1, <2>1 DEF Grown
<1>2. CASE "login" \notin Fresh(p, t)
  <2>1. names' = names
    BY <1>2 DEF Become
  <2> QED
    BY <1>2, <2>1 DEF Grown
<1> QED
  BY <1>1, <1>2

LEMMA BecomeTyped ==
    ASSUME TypeInv, NEW p \in Procs, p # NoProc, NEW t, Follows(p, t), NEW rest, Become(p, t, rest),
           rest \subseteq Mail(Len(names)),
           \A m \in rest : Carried(m)
    PROVE  Grown /\ HandlersSound' /\ MailSound'
<1> DEFINE N == Len(names)
           M == Len(names')
           sent == {Msg(k, p, t[k].seq, t[k].id) : k \in Fresh(p, t)}
<1>1. Grown
  BY BecomeNames DEF TypeInv
<1>2. N \in Nat /\ M \in Nat /\ N <= M /\ ("login" \in Fresh(p, t) => M = N + 1)
  BY <1>1, BecomeNames DEF Grown, TypeInv
<1>3. Sound(t, M)
  BY <1>2, Longer DEF Follows
<1>4. DOMAIN h = Procs /\ h' = [h EXCEPT ![p] = t]
  BY DEF TypeInv, HandlersSound, Become
<1>5. HandlersSound'
  <2>1. ASSUME NEW q \in Procs
        PROVE  Sound(h'[q], M) /\ Numbered(h'[q])
    <3>1. CASE q = p
      BY <1>3, <1>4, <3>1, Zenon DEF Follows
    <3>2. CASE q # p
      <4>1. h'[q] = h[q]
        BY <1>4, <3>2
      <4>2. Sound(h[q], N) /\ Numbered(h[q])
        BY DEF TypeInv, HandlersSound
      <4>3. Sound(h[q], M)
        BY <1>2, <4>2, Longer
      <4> QED
        BY <4>1, <4>2, <4>3, Zenon
    <3> QED
      BY <3>1, <3>2
  <2>2. DOMAIN h' = Procs
    BY <1>4
  <2> QED
    BY <2>1, <2>2, Zenon DEF HandlersSound
<1>6. net' = rest \cup sent
  BY DEF Become
<1>7. sent \subseteq Mail(M)
  <2> SUFFICES ASSUME NEW k \in Fresh(p, t)
               PROVE  Msg(k, p, t[k].seq, t[k].id) \in Mail(M)
    OBVIOUS
  <2>1. k \in Kinds
    BY DEF Fresh
  <2>2. t[k].seq \in Nat /\ t[k].id \in Ids(M)
    BY <1>3, <2>1 DEF Sound, Request
  <2>3. k \in Requests
    BY <2>1 DEF Requests
  <2> QED
    BY <2>2, <2>3 DEF Mail, Msg
<1>8. rest \subseteq Mail(M)
  BY <1>2, MoreIds
<1>9. \A q : Open(q) \/ q = p => Open(q)'
  <2>1. h'[p] = t /\ \A q \in Procs \ {p} : h'[q] = h[q]
    BY <1>4
  <2> QED
    BY <1>4, <2>1 DEF Open, Follows, Live
<1>10. ASSUME NEW m \in net'
       PROVE  Carried(m)'
  <2>1. CASE m \in rest
    BY <1>9, <2>1 DEF Carried
  <2>2. CASE m \in sent
    <3>1. PICK k \in Fresh(p, t) : m = Msg(k, p, t[k].seq, t[k].id)
      BY <2>2
    <3>2. m.p = p /\ m.kind = k /\ m.id = t[k].id
      BY <3>1 DEF Msg
    <3>3. k = "login" => t[k].pending
      BY DEF Fresh
    <3> QED
      BY <1>9, <3>2, <3>3 DEF Carried, Follows, Numbered
  <2> QED
    BY <1>6, <1>10, <2>1, <2>2
<1> QED
  BY <1>1, <1>5, <1>6, <1>7, <1>8, <1>10 DEF MailSound

LEMMA ReceiveTyped ==
    ASSUME TypeInv, SessionAssumption, NEW m \in net, Open(m.p), NEW t, Follows(m.p, t), Receive(m, t),
           UNCHANGED <<connects, renewals, takes>>
    PROVE  Grown /\ HandlersSound' /\ MailSound' /\ BoundsSound'
<1>1. m \in Mail(Len(names)) /\ m.p \in Procs /\ m.p # NoProc
  BY DEF TypeInv, MailSound, Mail, Open
<1>2. PICK rest \in SUBSET net : Become(m.p, t, rest)
  BY DEF Receive
<1>3. Grown /\ HandlersSound' /\ MailSound'
  BY <1>1, <1>2, BecomeTyped DEF TypeInv, MailSound
<1>4. BoundsSound'
  BY DEF Receive, TypeInv, BoundsSound, SessionAssumption
<1> QED
  BY <1>3, <1>4

-----------------------------------------------------------------------------
(* The records that the steps of a handler leave.                          *)

LEMMA LoginFollows ==
    ASSUME TypeInv, NEW p \in Procs, NEW x, Sound(x, Len(names)), x.phase \in Live,
           x.seq >= h[p].seq
    PROVE  Follows(p, sendLogin(x))
<1> DEFINE N == Len(names)
           i == <<N + 1, x.id[2]>>
           t == [x EXCEPT !.id = i, !.login = Begun(x, i), !.seq = @ + 1]
<1>1. N \in Nat /\ N + 1 \in Nat /\ Sound(x, N + 1) /\ i \in Ids(N + 1)
  <2>1. N \in Nat
    BY DEF TypeInv
  <2>2. x.id \in Ids(N)
    BY DEF Sound
  <2> QED
    BY <2>1, <2>2, Longer DEF Ids
<1>2. t = sendLogin(x)
  BY DEF sendLogin
<1>3. Sound(t, N + 1)
  BY <1>1, LoginSound
<1>4. t.login = Begun(x, i) /\ t.phase = x.phase
  BY DEF Sound, Fields, Flags, Kinds
<1>5. t.login.pending /\ t.login.seq = x.seq /\ t.login.id[1] = N + 1
  BY <1>4 DEF Begun
<1> HIDE DEF t, i
<1>6. "login" \in Fresh(p, t)
  <2>1. "login" \in Kinds
    BY DEF Kinds
  <2>2. h[p].login.seq < h[p].seq /\ h[p].login.seq \in Nat /\ h[p].seq \in Nat /\ x.seq \in Nat
    BY <2>1 DEF TypeInv, HandlersSound, Sound, Request
  <2> QED
    BY <1>5, <2>1, <2>2 DEF Fresh
<1> HIDE DEF N
<1> QED
  BY <1>1, <1>2, <1>3, <1>4, <1>5, <1>6 DEF Follows, Numbered, N

LEMMA QuietFollows ==
    ASSUME TypeInv, NEW p \in Procs, NEW t, Sound(t, Len(names)), t.phase \in Live,
           t.login.pending => t.login = h[p].login
    PROVE  Follows(p, t)
BY DEF TypeInv, HandlersSound, Follows, Numbered

-----------------------------------------------------------------------------
(* Every step keeps the types.                                             *)

\* What a step may do to the journal: give the record up, or write one of p.
Journaled(p) ==
    \/ journal' \subseteq journal
    \/ \E id \in Ids(Len(names)), b \in BOOLEAN :
          journal' = {[owner |-> p, id |-> id, full |-> b]}

LEMMA JournalTyped ==
    ASSUME names \in Seq(Procs), JournalSound, Grown, NEW p \in Procs, Journaled(p)
    PROVE  JournalSound'
<1>1. \A x \in Ids(Len(names)) : x \in Ids(Len(names'))
  BY MoreIds DEF Grown
<1>2. CASE journal' \subseteq journal
  BY <1>1, <1>2 DEF JournalSound
<1>3. ASSUME NEW id \in Ids(Len(names)), NEW b \in BOOLEAN,
             journal' = {[owner |-> p, id |-> id, full |-> b]}
      PROVE  JournalSound'
  BY <1>1, <1>3 DEF JournalSound
<1> QED
  BY <1>2, <1>3 DEF Journaled

LEMMA RadioTyped ==
    ASSUME names \in Seq(Procs), RadioSound, Grown, UNCHANGED radio
    PROVE  RadioSound'
BY DEF RadioSound, Grown, radio

\* A handler that may act on a datagram.
LEMMA Addressed ==
    ASSUME TypeInv, NEW m \in net, Open(m.p)
    PROVE  /\ m \in Mail(Len(names)) /\ m.p \in Procs /\ m.p # NoProc /\ m.id \in Ids(Len(names))
           /\ Sound(h[m.p], Len(names)) /\ h[m.p].phase \in Live /\ DOMAIN h[m.p] = Fields
           /\ Len(names) \in Nat
<1>1. m \in Mail(Len(names)) /\ m.p \in Procs /\ m.p # NoProc /\ m.id \in Ids(Len(names))
  BY DEF TypeInv, MailSound, Mail, Open
<1>2. Sound(h[m.p], Len(names)) /\ Len(names) \in Nat
  BY <1>1 DEF TypeInv, HandlersSound
<1>3. DOMAIN h[m.p] = Fields /\ h[m.p].phase \in Phases
  BY <1>2 DEF Sound
<1>4. h[m.p].phase \in Live
  BY <1>3 DEF Open, Phases, Live
<1> QED
  BY <1>1, <1>2, <1>3, <1>4

LEMMA ReceiveKeepsTypes ==
    ASSUME TypeInv, SessionAssumption, NEW m \in net, Open(m.p), NEW t, Follows(m.p, t),
           Receive(m, t), Journaled(m.p), UNCHANGED <<radio, connects, renewals, takes>>
    PROVE  TypeInv'
<1>1. Grown /\ HandlersSound' /\ MailSound' /\ BoundsSound'
  BY ReceiveTyped
<1>2. m.p \in Procs
  BY Addressed
<1>3. JournalSound'
  BY <1>1, <1>2, JournalTyped DEF TypeInv
<1>4. RadioSound'
  BY <1>1, RadioTyped DEF TypeInv
<1> QED
  BY <1>1, <1>3, <1>4 DEF TypeInv, Grown

LEMMA OwnStepKeepsTypes ==
    ASSUME TypeInv, NEW p \in Procs, p # NoProc, NEW t, Follows(p, t), NEW rest, Become(p, t, rest),
           rest \subseteq Mail(Len(names)), \A m \in rest : Carried(m),
           Journaled(p), BoundsSound', UNCHANGED radio
    PROVE  TypeInv'
<1>1. Grown /\ HandlersSound' /\ MailSound'
  BY BecomeTyped
<1>2. JournalSound'
  BY <1>1, JournalTyped DEF TypeInv
<1>3. RadioSound'
  BY <1>1, RadioTyped DEF TypeInv
<1> QED
  BY <1>1, <1>2, <1>3 DEF TypeInv, Grown

LEMMA LoginResponseTyped ==
    ASSUME TypeInv, SessionAssumption, NEW m \in net, LoginResponse(m)
    PROVE  TypeInv'
<1> DEFINE N == Len(names)
           o == h[m.p]
           c == Cleared(o, {"login"})
           b == o.radios \/ Listening(o)
           s == [c EXCEPT !.radios = @ \/ Listening(o)]
           i == <<s.id[1], m.id[2]>>
           answered == [s EXCEPT !.id[2] = m.id[2]]
           taken == [sendRenewal(answered) EXCEPT !.authed = TRUE]
<1>1. Open(m.p)
  BY DEF LoginResponse, Arrives
<1>2. /\ m.p \in Procs /\ m.p # NoProc /\ m.id \in Ids(N) /\ N \in Nat
      /\ Sound(o, N) /\ o.phase \in Live /\ DOMAIN o = Fields
  BY <1>1, Addressed
<1>3. Sound(c, N) /\ c.phase = o.phase /\ ~c.login.pending /\ c.radios = o.radios
  <2>1. Sound(c, N)
    BY <1>2, ClearedSound DEF Kinds
  <2>2. c.phase = o.phase /\ c.radios = o.radios
    BY <1>2 DEF Cleared, Fields, Flags, Kinds
  <2>3. c.login = [o.login EXCEPT !.pending = FALSE]
    BY <1>2 DEF Cleared, Fields, Kinds
  <2>4. o.login \in Request
    BY <1>2 DEF Sound, Kinds
  <2> QED
    BY <2>1, <2>2, <2>3, <2>4 DEF Request
<1>4. (c.radios \/ Listening(o)) \in BOOLEAN
  OBVIOUS
<1> HIDE DEF c
<1>5. Sound(s, N) /\ s.phase = o.phase /\ ~s.login.pending
  BY <1>3, <1>4 DEF Sound, Fields, Flags, Kinds
<1>6. i \in Ids(N)
  BY <1>2, <1>5 DEF Sound, Ids
<1>7. answered = [s EXCEPT !.id = i]
  <2>1. s.id \in Nat \X Nat
    BY <1>2, <1>5 DEF Sound, Ids
  <2>2. [s.id EXCEPT ![2] = m.id[2]] = i
    BY <2>1
  <2> QED
    BY <2>2
<1> HIDE DEF s, i
<1>8. Sound(answered, N) /\ answered.phase = o.phase /\ ~answered.login.pending
  <2>1. DOMAIN s = Fields
    BY <1>5 DEF Sound
  <2> QED
    BY <1>5, <1>6, <1>7, <2>1, IdSound DEF Fields, Flags, Kinds
<1> HIDE DEF answered
<1>9. Sound(taken, N) /\ taken.phase = o.phase /\ ~taken.login.pending
  <2>1. Sound(sendRenewal(answered), N)
    BY <1>2, <1>8, SendingSound
  <2>2. Sound(taken, N)
    BY <2>1 DEF Sound, Fields, Flags, Kinds
  <2>3. DOMAIN answered = Fields
    BY <1>8 DEF Sound
  <2> QED
    BY <1>8, <2>2, <2>3 DEF sendRenewal, Fields, Flags, Kinds
<1>10. \A t \in {s, answered, taken} : Follows(m.p, t)
  BY <1>2, <1>5, <1>8, <1>9, QuietFollows
<1>11. PICK t \in {s, answered, taken} : Receive(m, t)
  BY DEF LoginResponse, s, c, answered, i
<1> QED
  BY <1>1, <1>10, <1>11, ReceiveKeepsTypes DEF LoginResponse, Journaled

LEMMA LoginDeniedTyped ==
    ASSUME TypeInv, SessionAssumption, NEW m \in net, LoginDenied(m)
    PROVE  TypeInv'
<1> DEFINE o == h[m.p]
           c == Cleared(o, {"login"})
           t == [c EXCEPT !.reported = TRUE]
<1>1. Open(m.p)
  BY DEF LoginDenied, Arrives
<1>2. m.p \in Procs /\ Len(names) \in Nat /\ Sound(o, Len(names)) /\ o.phase \in Live
  BY <1>1, Addressed
<1>3. Sound(c, Len(names)) /\ c.phase = o.phase /\ ~c.login.pending
  BY <1>2, ClearedSound, ClearedKeeps DEF Kinds
<1>4. Receive(m, t)
  BY DEF LoginDenied
<1> HIDE DEF c
<1>5. Sound(t, Len(names)) /\ t.phase = c.phase /\ t.login = c.login
  BY <1>3 DEF Sound, Fields, Flags, Kinds
<1>6. Follows(m.p, t)
  BY <1>2, <1>3, <1>5, QuietFollows
<1> QED
  BY <1>1, <1>4, <1>6, ReceiveKeepsTypes DEF LoginDenied, Journaled

LEMMA TokenRenewedTyped ==
    ASSUME TypeInv, SessionAssumption, NEW m \in net, TokenRenewed(m)
    PROVE  TypeInv'
<1> DEFINE N == Len(names)
           o == h[m.p]
           c == Cleared(o, {"renewal"})
           s == [c EXCEPT !.id = m.id, !.ticking = TRUE, !.gotAuth = TRUE]
           t == RequestWhenReady(s)
<1>1. Open(m.p)
  BY DEF TokenRenewed, Arrives
<1>2. m.p \in Procs /\ m.id \in Ids(N) /\ N \in Nat /\ Sound(o, N) /\ o.phase \in Live
  BY <1>1, Addressed
<1>3. Sound(c, N) /\ c.phase = o.phase /\ (c.login.pending => c.login = o.login)
  BY <1>2, ClearedSound, ClearedKeeps DEF Kinds
<1>4. Receive(m, t) /\ (journal' = journal \/ journal' = RenewedJournal(m.p, m.id))
  BY DEF TokenRenewed
<1> HIDE DEF c
<1>5. Sound(s, N) /\ s.phase = c.phase /\ s.login = c.login /\ DOMAIN s = Fields
  BY <1>2, <1>3 DEF Sound, Fields, Flags, Kinds
<1> HIDE DEF s
<1>6. Sound(t, N)
  BY <1>2, <1>5, SendingSound, Zenon DEF RequestWhenReady
<1>7. t.phase = s.phase /\ t.login = s.login
  BY <1>5 DEF RequestWhenReady, sendRequestStream, Fields, Flags, Kinds
<1>8. Follows(m.p, t)
  BY <1>2, <1>3, <1>5, <1>6, <1>7, QuietFollows
<1>9. Journaled(m.p)
  BY <1>2, <1>4 DEF Journaled, RenewedJournal
<1> QED
  BY <1>1, <1>4, <1>8, <1>9, ReceiveKeepsTypes DEF TokenRenewed

LEMMA TokenRefusedTyped ==
    ASSUME TypeInv, SessionAssumption, NEW m \in net, TokenRefused(m)
    PROVE  TypeInv'
<1> DEFINE N == Len(names)
           o == h[m.p]
           c == closeStreams(Cleared(o, {"renewal"}))
           s == [c EXCEPT !.id = m.id, !.gotAuth = FALSE, !.authed = FALSE]
<1>1. Open(m.p)
  BY DEF TokenRefused, Arrives
<1>2. m.p \in Procs /\ m.id \in Ids(N) /\ N \in Nat /\ Sound(o, N) /\ o.phase \in Live
  BY <1>1, Addressed
<1>3. Sound(c, N) /\ c.phase = o.phase /\ c.seq = o.seq
  <2>1. Sound(Cleared(o, {"renewal"}), N) /\ Cleared(o, {"renewal"}).phase = o.phase
        /\ Cleared(o, {"renewal"}).seq = o.seq
    BY <1>2, ClearedSound, ClearedKeeps DEF Kinds
  <2>2. DOMAIN Cleared(o, {"renewal"}) = Fields
    BY <2>1 DEF Sound
  <2> QED
    BY <1>2, <2>1, <2>2, CloseStreamsSound DEF closeStreams, Fields, Flags, Kinds
<1>4. Receive(m, sendLogin(s))
  BY DEF TokenRefused
<1> HIDE DEF c
<1>5. Sound(s, N) /\ s.phase = c.phase /\ s.seq = c.seq
  BY <1>2, <1>3 DEF Sound, Fields, Flags, Kinds
<1>6. o.seq \in Nat
  BY <1>2 DEF Sound
<1> HIDE DEF s
<1>7. Follows(m.p, sendLogin(s))
  BY <1>2, <1>3, <1>5, <1>6, LoginFollows
<1> QED
  BY <1>1, <1>4, <1>7, ReceiveKeepsTypes DEF TokenRefused, Journaled

LEMMA StreamGrantedTyped ==
    ASSUME TypeInv, SessionAssumption, NEW m \in net, StreamGranted(m)
    PROVE  TypeInv'
<1> DEFINE N == Len(names)
           o == h[m.p]
           c == Cleared(o, {"stream"})
           s == Acquired(c)
           t == [s EXCEPT !.reclaims = 0, !.reclaim = FALSE, !.opened = TRUE,
                          !.resetTried = FALSE, !.ports = FALSE]
<1>1. Open(m.p)
  BY DEF StreamGranted, Arrives
<1>2. m.p \in Procs /\ N \in Nat /\ Sound(o, N) /\ o.phase \in Live
  BY <1>1, Addressed
<1>3. /\ Sound(c, N) /\ c.phase = o.phase /\ c.id = o.id
      /\ c.login.pending => c.login = o.login
  BY <1>2, ClearedSound, ClearedKeeps DEF Kinds
<1>4. Receive(m, t) /\ journal' = {[owner |-> m.p, id |-> s.id, full |-> FALSE]}
  BY DEF StreamGranted, GrantJournal
<1> HIDE DEF c
<1>5. Sound(s, N) /\ s.phase = c.phase /\ s.login = c.login
  BY <1>3 DEF Acquired, Sound, Fields, Flags, Kinds
<1>6. s.id \in Ids(N)
  BY <1>5 DEF Sound
<1> HIDE DEF s
<1>7. 0 \in 0 .. (ReclaimLimit + 1)
  BY DEF SessionAssumption
<1>8. Sound(t, N) /\ t.phase = s.phase /\ t.login = s.login
  BY <1>5, <1>7 DEF Sound, Fields, Flags, Kinds
<1>9. Follows(m.p, t)
  BY <1>2, <1>3, <1>5, <1>8, QuietFollows
<1>10. Journaled(m.p)
  BY <1>4, <1>6 DEF Journaled
<1> QED
  BY <1>1, <1>4, <1>9, <1>10, ReceiveKeepsTypes DEF StreamGranted

LEMMA StreamRejectedTyped ==
    ASSUME TypeInv, SessionAssumption, NEW m \in net, StreamRejected(m)
    PROVE  TypeInv'
<1> DEFINE N == Len(names)
           o == h[m.p]
           s == Cleared(o, {"stream"})
           c == Cleared(sendRemoval(s), Kinds \ {"removal"})
           d == closeStreams(c)
           reset == [d EXCEPT !.resetTried = TRUE, !.ticking = FALSE, !.relogin = TRUE,
                              !.gotAuth = FALSE, !.authed = FALSE]
           failed == [s EXCEPT !.reported = TRUE]
<1>1. Open(m.p)
  BY DEF StreamRejected, Arrives
<1>2. m.p \in Procs /\ N \in Nat /\ Sound(o, N) /\ o.phase \in Live
  BY <1>1, Addressed
<1>3. Sound(s, N) /\ s.phase = o.phase /\ (s.login.pending => s.login = o.login)
  BY <1>2, ClearedSound, ClearedKeeps DEF Kinds
<1>4. Receive(m, reset) \/ Receive(m, failed)
  BY DEF StreamRejected
<1> HIDE DEF s
<1>5. Sound(failed, N) /\ failed.phase = s.phase /\ failed.login = s.login
  BY <1>3 DEF Sound, Fields, Flags, Kinds
<1>6. Sound(c, N) /\ c.phase = s.phase /\ ~c.login.pending
  <2>1. Sound(sendRemoval(s), N) /\ sendRemoval(s).phase = s.phase
    <3>1. DOMAIN s = Fields
      BY <1>3 DEF Sound
    <3> QED
      BY <1>2, <1>3, <3>1, SendingSound DEF sendRemoval, Fields, Flags, Kinds
  <2>2. Kinds \ {"removal"} \in SUBSET Kinds /\ "login" \in Kinds \ {"removal"}
    BY DEF Kinds
  <2> HIDE DEF c
  <2> USE DEF c
  <2> QED
    BY <1>2, <2>1, <2>2, ClearedSound, ClearedKeeps
<1> HIDE DEF c
<1>7. Sound(d, N) /\ d.phase = c.phase /\ d.login = c.login
  BY <1>2, <1>6, CloseStreamsSound DEF closeStreams, Sound, Fields, Flags, Kinds
<1> HIDE DEF d
<1>8. Sound(reset, N) /\ reset.phase = d.phase /\ reset.login = d.login
  BY <1>7 DEF Sound, Fields, Flags, Kinds
<1>9. Follows(m.p, reset) /\ Follows(m.p, failed)
  <2> HIDE DEF reset, failed
  <2> QED
    BY <1>2, <1>3, <1>5, <1>6, <1>7, <1>8, QuietFollows
<1> QED
  BY <1>1, <1>4, <1>9, ReceiveKeepsTypes DEF StreamRejected, Journaled

LEMMA InfoTyped ==
    ASSUME TypeInv, SessionAssumption, NEW m \in net,
           \/ GrantAdvertised(m) \/ InfoIgnored(m) \/ RadioAvailable(m)
           \/ BusyBySelf(m) \/ BusyByForeign(m)
    PROVE  TypeInv'
<1> DEFINE N == Len(names)
           o == h[m.p]
           taken == [o EXCEPT !.id = m.id]
           failed == [o EXCEPT !.reported = TRUE]
<1>1. Open(m.p)
  BY DEF GrantAdvertised, InfoIgnored, RadioAvailable, BusyBySelf, BusyByForeign, Noticed, Arrives
<1>2. m.p \in Procs /\ m.id \in Ids(N) /\ N \in Nat /\ Sound(o, N) /\ o.phase \in Live /\ DOMAIN o = Fields
  BY <1>1, Addressed
<1>3. Sound(taken, N) /\ taken.phase = o.phase /\ taken.login = o.login
  BY <1>2, IdSound DEF Fields, Flags, Kinds
<1>4. Sound(failed, N) /\ failed.phase = o.phase /\ failed.login = o.login
  BY <1>2 DEF Sound, Fields, Flags, Kinds
<1>5. /\ Sound(setCurrentRadio(o), N) /\ setCurrentRadio(o).phase = o.phase
      /\ setCurrentRadio(o).login = o.login
  BY <1>2, SelectSound, SelectKeeps
<1>6. \A t \in {o, taken, failed, setCurrentRadio(o)} : Follows(m.p, t)
  <2> HIDE DEF taken, failed
  <2> QED
    BY <1>2, <1>3, <1>4, <1>5, QuietFollows
<1>7. PICK t \in {o, taken, failed, setCurrentRadio(o)} : Receive(m, t)
  BY DEF GrantAdvertised, InfoIgnored, RadioAvailable, BusyBySelf, BusyByForeign
<1>8. UNCHANGED <<journal, radio, connects, renewals, takes>>
  BY DEF GrantAdvertised, InfoIgnored, RadioAvailable, BusyBySelf, BusyByForeign
<1> QED
  BY <1>1, <1>6, <1>7, <1>8, ReceiveKeepsTypes DEF Journaled

\* The datagrams of Departures.
LEMMA DeparturesCarried ==
    ASSUME TypeInv, NEW j \in journal, NEW s
    PROVE  Departures(s, j) \subseteq Mail(Len(names)) /\ \A m \in Departures(s, j) : Carried(m)
<1> DEFINE d == Msg("depart", NoProc, 0, j.id)
<1>1. j.id \in Ids(Len(names))
  BY DEF TypeInv, JournalSound
<1>2. d \in Mail(Len(names)) /\ d.p = NoProc /\ d.kind = "depart"
  BY <1>1 DEF Msg, Mail, Requests
<1>3. Carried(d)
  BY <1>2 DEF Carried
<1>4. Departures(s, j) \subseteq {d}
  BY DEF Departures
<1> QED
  BY <1>2, <1>3, <1>4

LEMMA BusyBySiblingTyped ==
    ASSUME TypeInv, SessionAssumption, NEW m \in net, BusyBySibling(m)
    PROVE  TypeInv'
<1> DEFINE N == Len(names)
           o == h[m.p]
           failed == [o EXCEPT !.reported = TRUE]
           x == [o EXCEPT !.reclaim = TRUE, !.ticking = FALSE, !.reclaims = @ + 1]
           known == {j \in Recoverable : j.owner = names[m.id[1]]}
<1>1. Open(m.p)
  BY DEF BusyBySibling, Noticed, Arrives
<1>2. /\ m.p \in Procs /\ m.p # NoProc /\ m.id \in Ids(N) /\ N \in Nat
      /\ Sound(o, N) /\ o.phase \in Live /\ DOMAIN o = Fields
  BY <1>1, Addressed
<1>3. UNCHANGED <<journal, radio, connects, renewals, takes>>
  BY DEF BusyBySibling
<1>4. CASE Receive(m, o) \/ Receive(m, failed)
  <2>1. Sound(failed, N) /\ failed.phase = o.phase /\ failed.login = o.login
    BY <1>2 DEF Sound, Fields, Flags, Kinds
  <2> HIDE DEF failed
  <2>2. Follows(m.p, o) /\ Follows(m.p, failed)
    BY <1>2, <2>1, QuietFollows
  <2> QED
    BY <1>1, <1>3, <1>4, <2>2, ReceiveKeepsTypes DEF Journaled
<1>5. ASSUME o.reclaims < ReclaimLimit, NEW j \in known,
             LET r == beginPredecessorTokenRemoval(x, j)
             IN  /\ h' = [h EXCEPT ![m.p] = r]
                 /\ net' = (net \ {m}) \cup Departures(o, j)
                            \cup {Msg("removal", m.p, r.removal.seq, r.removal.id)}
                 /\ UNCHANGED <<names, faults>>
      PROVE  TypeInv'
  <2> DEFINE r == beginPredecessorTokenRemoval(x, j)
             rest == (net \ {m}) \cup Departures(o, j)
                            \cup {Msg("removal", m.p, r.removal.seq, r.removal.id)}
  <2>1. j \in journal /\ j \in [owner : Procs, id : Ids(N), full : BOOLEAN]
    BY DEF Recoverable, TypeInv, JournalSound
  <2>2. Sound(x, N) /\ x.phase = o.phase /\ x.login = o.login
    <3>1. o.reclaims + 1 \in 0 .. (ReclaimLimit + 1)
      BY <1>2, <1>5 DEF Sound, SessionAssumption
    <3> QED
      BY <1>2, <3>1 DEF Sound, Fields, Flags, Kinds
  <2> HIDE DEF x
  <2>3. Sound(r, N) /\ r.phase = x.phase /\ r.login = x.login
    BY <1>2, <2>1, <2>2, TakeoverSound
  <2> HIDE DEF r
  <2>4. Msg("removal", m.p, r.removal.seq, r.removal.id) \in Mail(N)
    <3>1. r.removal.seq \in Nat /\ r.removal.id \in Ids(N)
      BY <2>3 DEF Sound, Kinds, Request
    <3> QED
      BY <1>2, <3>1 DEF Msg, Mail, Requests, Kinds
  <2>5. Carried(Msg("removal", m.p, r.removal.seq, r.removal.id))
    BY <1>1 DEF Carried, Msg
  <2>6. rest \subseteq Mail(N) /\ \A d \in rest : Carried(d)
    BY <2>1, <2>4, <2>5, DeparturesCarried DEF TypeInv, MailSound
  <2>7. h' = [h EXCEPT ![m.p] = r] /\ net' = rest /\ UNCHANGED <<names, faults>>
    BY <1>5 DEF r
  <2> HIDE DEF rest
  <2>8. Grown
    BY <2>7 DEF Grown, TypeInv
  <2>9. HandlersSound'
    BY <1>2, <2>2, <2>3, <2>7 DEF TypeInv, HandlersSound, Numbered
  <2>10. \A q : Open(q) => Open(q)'
    BY <1>2, <2>2, <2>3, <2>7 DEF TypeInv, HandlersSound, Open, Live
  <2>11. MailSound'
    BY <2>6, <2>7, <2>10 DEF MailSound, Carried
  <2>12. JournalSound' /\ RadioSound' /\ BoundsSound'
    BY <1>3, <2>7 DEF TypeInv, JournalSound, RadioSound, BoundsSound, radio
  <2> QED
    BY <2>7, <2>9, <2>11, <2>12 DEF TypeInv
<1>6. QED
  BY <1>4, <1>5 DEF BusyBySibling

LEMMA RecoveryEndTyped ==
    ASSUME TypeInv, SessionAssumption, NEW m \in net,
           RemovalAcknowledged(m) \/ SessionEnded(m)
    PROVE  TypeInv'
<1> DEFINE N == Len(names)
           o == h[m.p]
           c == Cleared(o, {"removal"})
           acked == [c EXCEPT !.ack = TRUE]
           told == [o EXCEPT !.disc = TRUE]
           d == closeStreams(told)
           over == [d EXCEPT !.owned = FALSE, !.reported = @ \/ ~told.reclaim]
<1>1. Open(m.p)
  BY DEF RemovalAcknowledged, SessionEnded, Arrives
<1>2. /\ m.p \in Procs /\ m.p # NoProc /\ m.id \in Ids(N) /\ N \in Nat
      /\ Sound(o, N) /\ o.phase \in Live /\ DOMAIN o = Fields
  BY <1>1, Addressed
<1>3. Sound(c, N) /\ c.phase = o.phase /\ c.seq = o.seq /\ (c.login.pending => c.login = o.login)
  BY <1>2, ClearedSound, ClearedKeeps DEF Kinds
<1>4. UNCHANGED <<radio, connects, renewals, takes>>
  BY DEF RemovalAcknowledged, SessionEnded
<1>5. Journaled(m.p)
  BY DEF RemovalAcknowledged, SessionEnded, Journaled, JournalWithout
<1>6. \/ Receive(m, acked) \/ Receive(m, completePredecessorTokenRemoval(acked))
      \/ Receive(m, completePredecessorTokenRemoval(told))
      \/ Receive(m, d) \/ Receive(m, over)
  BY DEF RemovalAcknowledged, SessionEnded
<1> HIDE DEF c
<1>7. Sound(acked, N) /\ acked.phase = c.phase /\ acked.seq = c.seq /\ acked.login = c.login
  BY <1>3 DEF Sound, Fields, Flags, Kinds
<1>8. Sound(told, N) /\ told.phase = o.phase /\ told.seq = o.seq /\ told.login = o.login
  BY <1>2 DEF Sound, Fields, Flags, Kinds
<1>9. (told.reclaim \in BOOLEAN) /\ DOMAIN told = Fields
  BY <1>8 DEF Sound, Flags
<1> HIDE DEF acked, told
<1>10. Sound(d, N) /\ d.phase = told.phase /\ d.login = told.login
  BY <1>2, <1>8, <1>9, CloseStreamsSound DEF closeStreams, Fields, Flags, Kinds
<1> HIDE DEF d
<1>11. Sound(over, N) /\ over.phase = d.phase /\ over.login = d.login
  BY <1>9, <1>10 DEF Sound, Fields, Flags, Kinds
<1> HIDE DEF over
<1>12. Follows(m.p, acked) /\ Follows(m.p, d) /\ Follows(m.p, over)
  BY <1>2, <1>3, <1>7, <1>8, <1>10, <1>11, QuietFollows
<1>13. ASSUME NEW x \in {acked, told}
       PROVE  Follows(m.p, completePredecessorTokenRemoval(x))
  <2>1. Sound(x, N) /\ x.phase = o.phase /\ x.seq = o.seq
    BY <1>3, <1>7, <1>8
  <2>2. /\ completePredecessorTokenRemoval(x) = sendLogin(Dropped(x))
        /\ Sound(Dropped(x), N) /\ Dropped(x).phase = o.phase /\ Dropped(x).seq >= o.seq
    BY <1>2, <2>1, DroppedSound
  <2> QED
    BY <1>2, <2>2, LoginFollows
<1> QED
  BY <1>1, <1>4, <1>5, <1>6, <1>12, <1>13, ReceiveKeepsTypes

LEMMA OfProcess ==
    ASSUME TypeInv, NEW p \in Procs
    PROVE  /\ Sound(h[p], Len(names)) /\ DOMAIN h[p] = Fields /\ Len(names) \in Nat
           /\ h[p].seq \in Nat /\ h[p].id \in Ids(Len(names)) /\ DOMAIN h = Procs
BY DEF TypeInv, HandlersSound, Sound

LEMMA ConnectTyped ==
    ASSUME TypeInv, SessionAssumption, NEW p \in Procs, Connect(p)
    PROVE  TypeInv'
<1> DEFINE N == Len(names)
           full == {j \in Recoverable : j.full}
           s == Handler("discover")
           b == full # {}
           t == [s EXCEPT !.retired = b]
           rest == net \cup UNION {Departures(s, j) : j \in full}
<1>1. Become(p, t, rest) /\ UNCHANGED <<journal, radio>> /\ BoundsSound'
  <2>1. connects' = connects + 1 /\ connects < MaxConnects /\ UNCHANGED <<renewals, faults, takes>>
    BY DEF Connect
  <2>2. BoundsSound'
    BY <2>1 DEF TypeInv, BoundsSound, SessionAssumption
  <2> QED
    BY <2>2 DEF Connect
<1>2. N \in Nat /\ p # NoProc
  BY OfProcess DEF SessionAssumption
<1>3. Sound(s, N) /\ Numbered(s) /\ s.phase = "discover" /\ ~s.login.pending
  <2>1. "discover" \in Phases
    BY DEF Phases
  <2>2. ~s.login.pending
    BY DEF Handler, NoRequest
  <2> HIDE DEF s
  <2> USE DEF s
  <2> QED
    BY <1>2, <2>1, <2>2, HandlerSound
<1> HIDE DEF s
<1>4. b \in BOOLEAN
  OBVIOUS
<1> HIDE DEF b
<1>5. Sound(t, N) /\ t.phase = s.phase /\ t.login = s.login
  BY <1>3, <1>4 DEF Sound, Fields, Flags, Kinds
<1> HIDE DEF t
<1>6. t.phase \in Live
  BY <1>3, <1>5 DEF Live
<1>7. Follows(p, t)
  BY <1>3, <1>5, <1>6, QuietFollows
<1>8. rest \subseteq Mail(N) /\ \A d \in rest : Carried(d)
  <2>1. full \subseteq journal
    BY DEF Recoverable
  <2> QED
    BY <2>1, DeparturesCarried DEF TypeInv, MailSound
<1> HIDE DEF rest
<1> QED
  BY <1>1, <1>2, <1>7, <1>8, OwnStepKeepsTypes DEF Journaled

LEMMA TransportReadyTyped ==
    ASSUME TypeInv, SessionAssumption, NEW p \in Procs, TransportReady(p)
    PROVE  TypeInv'
<1> DEFINE N == Len(names)
           o == h[p]
           s == [o EXCEPT !.phase = "up"]
           x == [s EXCEPT !.reclaim = TRUE, !.reclaims = 1]
<1>1. UNCHANGED <<journal, radio, bounds>> /\ p # NoProc
  BY DEF TransportReady, SessionAssumption
<1>2. BoundsSound' /\ Journaled(p)
  BY <1>1 DEF TypeInv, BoundsSound, bounds, Journaled
<1>3. Sound(o, N) /\ DOMAIN o = Fields /\ N \in Nat /\ o.seq \in Nat
  BY OfProcess
<1>4. Sound(s, N) /\ s.phase = "up" /\ s.seq = o.seq /\ s.login = o.login
  <2>1. "up" \in Phases
    BY DEF Phases
  <2> QED
    BY <1>3, <2>1 DEF Sound, Fields, Flags, Kinds
<1>5. net \subseteq Mail(N) /\ \A m \in net : Carried(m)
  BY DEF TypeInv, MailSound
<1> HIDE DEF s
<1>6. CASE Become(p, sendLogin(s), net)
  <2>1. Follows(p, sendLogin(s))
    BY <1>3, <1>4, LoginFollows DEF Live
  <2> QED
    BY <1>1, <1>2, <1>5, <1>6, <2>1, OwnStepKeepsTypes
<1>7. ASSUME NEW j \in Recoverable,
             Become(p, beginPredecessorTokenRemoval(x, j), net \cup Departures(s, j))
      PROVE  TypeInv'
  <2>1. j \in journal /\ j \in [owner : Procs, id : Ids(N), full : BOOLEAN]
    BY DEF Recoverable, TypeInv, JournalSound
  <2>2. 1 \in 0 .. (ReclaimLimit + 1)
    BY DEF SessionAssumption
  <2>3. Sound(x, N) /\ x.phase = s.phase /\ x.login = s.login
    BY <1>4, <2>2 DEF Sound, Fields, Flags, Kinds
  <2> HIDE DEF x
  <2> DEFINE r == beginPredecessorTokenRemoval(x, j)
  <2>4. Sound(r, N) /\ r.phase = x.phase /\ r.login = x.login
    BY <1>3, <2>1, <2>3, TakeoverSound
  <2> HIDE DEF r
  <2>5. Follows(p, r)
    BY <1>3, <1>4, <2>3, <2>4, QuietFollows DEF Live
  <2>6. /\ net \cup Departures(s, j) \subseteq Mail(N)
        /\ \A m \in net \cup Departures(s, j) : Carried(m)
    BY <1>5, <2>1, DeparturesCarried
  <2> QED
    BY <1>1, <1>2, <1>7, <2>5, <2>6, OwnStepKeepsTypes DEF r
<1> QED
  BY <1>6, <1>7 DEF TransportReady, s

LEMMA PredecessorRetryTyped ==
    ASSUME TypeInv, SessionAssumption, NEW p \in Procs, PredecessorRetry(p)
    PROVE  TypeInv'
<1> DEFINE N == Len(names)
           o == h[p]
           t == [o EXCEPT !.attempts = @ + 1]
           given == [o EXCEPT !.pred = NoProc, !.attempts = 0, !.reported = TRUE]
           d == Msg("removal", p, t.removal.seq, t.removal.id)
<1>1. UNCHANGED <<journal, radio, bounds>> /\ p # NoProc /\ o.phase = "up"
  BY DEF PredecessorRetry, SessionAssumption
<1>2. BoundsSound' /\ Journaled(p) /\ o.phase \in Live
  BY <1>1 DEF TypeInv, BoundsSound, bounds, Journaled, Live
<1>3. Sound(o, N) /\ DOMAIN o = Fields /\ N \in Nat
  BY OfProcess
<1>4. net \subseteq Mail(N) /\ \A m \in net : Carried(m)
  BY DEF TypeInv, MailSound
<1>5. CASE o.attempts < RemovalAttempts /\ Become(p, t, net \cup {d})
  <2>1. o.attempts + 1 \in 0 .. RemovalAttempts
    <3>1. o.attempts \in 0 .. RemovalAttempts
      BY <1>3 DEF Sound
    <3>2. RemovalAttempts \in Nat
      BY DEF SessionAssumption
    <3> QED
      BY <1>5, <3>1, <3>2
  <2>2. Sound(t, N) /\ t.phase = o.phase /\ t.login = o.login
    BY <1>3, <2>1 DEF Sound, Fields, Flags, Kinds
  <2> HIDE DEF t
  <2>3. Follows(p, t)
    BY <1>2, <2>2, QuietFollows
  <2>4. t.removal.seq \in Nat /\ t.removal.id \in Ids(N)
    BY <2>2 DEF Sound, Kinds, Request
  <2>5. d \in Mail(N) /\ d.p = p /\ d.kind = "removal"
    BY <2>4 DEF Msg, Mail, Requests, Kinds
  <2>6. Carried(d)
    BY <1>1, <2>5 DEF Carried, Open
  <2> QED
    BY <1>1, <1>2, <1>4, <1>5, <2>3, <2>5, <2>6, OwnStepKeepsTypes
<1>6. CASE Become(p, given, net)
  <2>1. 0 \in 0 .. RemovalAttempts
    BY DEF SessionAssumption
  <2>2. Sound(given, N) /\ given.phase = o.phase /\ given.login = o.login
    BY <1>3, <2>1 DEF Sound, Fields, Flags, Kinds
  <2> HIDE DEF given
  <2>3. Follows(p, given)
    BY <1>2, <2>2, QuietFollows
  <2> QED
    BY <1>1, <1>2, <1>4, <1>6, <2>3, OwnStepKeepsTypes
<1> QED
  BY <1>5, <1>6 DEF PredecessorRetry, Resent

LEMMA LoginAgainTyped ==
    ASSUME TypeInv, SessionAssumption, NEW p \in Procs, LoginAgain(p)
    PROVE  TypeInv'
<1> DEFINE N == Len(names)
           o == h[p]
           s == [o EXCEPT !.relogin = FALSE]
<1>1. UNCHANGED <<journal, radio, bounds>> /\ p # NoProc /\ o.phase = "up"
  BY DEF LoginAgain, SessionAssumption
<1>2. BoundsSound' /\ Journaled(p) /\ o.phase \in Live
  BY <1>1 DEF TypeInv, BoundsSound, bounds, Journaled, Live
<1>3. Sound(o, N) /\ DOMAIN o = Fields /\ N \in Nat /\ o.seq \in Nat
  BY OfProcess
<1>4. net \subseteq Mail(N) /\ \A m \in net : Carried(m)
  BY DEF TypeInv, MailSound
<1>5. Become(p, sendLogin(selectIfKnown(s)), net)
  BY DEF LoginAgain
<1>6. Sound(s, N) /\ s.phase = o.phase /\ s.seq = o.seq
  BY <1>3 DEF Sound, Fields, Flags, Kinds
<1> HIDE DEF s
<1>7. Sound(selectIfKnown(s), N) /\ selectIfKnown(s).phase = o.phase /\ selectIfKnown(s).seq >= o.seq
  BY <1>3, <1>6, SelectSound, SelectKeeps
<1>8. Follows(p, sendLogin(selectIfKnown(s)))
  BY <1>2, <1>7, LoginFollows
<1> QED
  BY <1>1, <1>2, <1>4, <1>5, <1>8, OwnStepKeepsTypes

LEMMA RunningTyped ==
    ASSUME TypeInv, SessionAssumption, NEW p \in Procs, MediaReady(p) \/ RenewalDue(p) \/ RemovalAttempt(p)
    PROVE  TypeInv'
<1> DEFINE N == Len(names)
           o == h[p]
           heard == [o EXCEPT !.media = TRUE]
           again == [o EXCEPT !.attempts = @ + 1]
<1>1. p # NoProc /\ o.phase \in Live
  BY DEF MediaReady, RenewalDue, RemovalAttempt, SessionAssumption, Live
<1>2. Sound(o, N) /\ DOMAIN o = Fields /\ N \in Nat /\ o.id \in Ids(N)
  BY OfProcess
<1>3. net \subseteq Mail(N) /\ \A m \in net : Carried(m)
  BY DEF TypeInv, MailSound
<1>4. UNCHANGED radio /\ BoundsSound'
  BY DEF MediaReady, RenewalDue, RemovalAttempt, bounds, TypeInv, BoundsSound, SessionAssumption
<1>5. CASE MediaReady(p)
  <2>1. Sound(heard, N) /\ heard.phase = o.phase /\ heard.login = o.login
    BY <1>2 DEF Sound, Fields, Flags, Kinds
  <2>2. Become(p, heard, net) /\ journal' = {[owner |-> p, id |-> o.id, full |-> TRUE]}
    BY <1>5 DEF MediaReady
  <2>3. Journaled(p)
    BY <1>2, <2>2 DEF Journaled
  <2> HIDE DEF heard
  <2>4. Follows(p, heard)
    BY <1>1, <2>1, QuietFollows
  <2> QED
    BY <1>1, <1>3, <1>4, <2>2, <2>3, <2>4, OwnStepKeepsTypes
<1>6. CASE RenewalDue(p)
  <2>1. Become(p, sendRenewal(o), net) /\ Journaled(p)
    BY <1>6 DEF RenewalDue, Journaled
  <2>2. Sound(sendRenewal(o), N) /\ sendRenewal(o).phase = o.phase /\ sendRenewal(o).login = o.login
    BY <1>2, SendingSound DEF sendRenewal, Fields, Flags, Kinds
  <2>3. Follows(p, sendRenewal(o))
    BY <1>1, <2>2, QuietFollows
  <2> QED
    BY <1>1, <1>3, <1>4, <2>1, <2>3, OwnStepKeepsTypes
<1>7. CASE RemovalAttempt(p)
  <2>1. Become(p, sendRemoval(again), net) /\ Journaled(p) /\ o.attempts < RemovalAttempts
    BY <1>7 DEF RemovalAttempt, Journaled
  <2>2. o.attempts + 1 \in 0 .. RemovalAttempts
    BY <1>2, <2>1 DEF Sound, SessionAssumption
  <2>3. Sound(again, N) /\ again.phase = o.phase /\ again.login = o.login /\ DOMAIN again = Fields
    BY <1>2, <2>2 DEF Sound, Fields, Flags, Kinds
  <2> HIDE DEF again
  <2>4. /\ Sound(sendRemoval(again), N) /\ sendRemoval(again).phase = o.phase
        /\ sendRemoval(again).login = o.login
    BY <1>2, <2>3, SendingSound DEF sendRemoval, Fields, Flags, Kinds
  <2>5. Follows(p, sendRemoval(again))
    BY <1>1, <2>4, QuietFollows
  <2> QED
    BY <1>1, <1>3, <1>4, <2>1, <2>5, OwnStepKeepsTypes
<1> QED
  BY <1>5, <1>6, <1>7

\* The handler of p closes or dies, and what names it is orphaned.
LEMMA GoneTyped ==
    ASSUME TypeInv, SessionAssumption, NEW p \in Procs, NEW f \in {"off", "dead"},
           h' = [h EXCEPT ![p] = Handler(f)], UNCHANGED <<names, radio, bounds>>,
           journal' \subseteq journal,
           net' = Orphaned(p) \/ net' = Orphaned(p) \cup {Msg("depart", NoProc, 0, h[p].id)}
    PROVE  TypeInv'
<1> DEFINE N == Len(names)
<1>1. /\ Sound(Handler(f), N) /\ Numbered(Handler(f)) /\ Handler(f).phase = f
      /\ h[p].id \in Ids(N) /\ DOMAIN h = Procs
  <2>1. f \in Phases
    BY DEF Phases
  <2> QED
    BY <2>1, HandlerSound, OfProcess
<1>2. HandlersSound'
  BY <1>1, Zenon DEF TypeInv, HandlersSound
<1>3. \A q : q # p /\ Open(q) => Open(q)'
  BY DEF Open
<1>4. ASSUME NEW m \in Orphaned(p)
      PROVE  m \in Mail(N) /\ Carried(m)'
  <2>1. CASE m \in net /\ m.p # p
    BY <1>3, <2>1 DEF TypeInv, MailSound, Carried
  <2>2. ASSUME NEW o \in net, o.p = p, o.kind \in Requests, m = [o EXCEPT !.p = NoProc]
        PROVE  m \in Mail(N) /\ Carried(m)'
    <3>1. o \in Mail(N) /\ Carried(o)
      BY DEF TypeInv, MailSound
    <3>2. m \in Mail(N) /\ m.p = NoProc /\ m.kind = o.kind /\ m.id = o.id
      BY <2>2, <3>1 DEF Mail
    <3> QED
      BY <3>1, <3>2 DEF Carried
  <2> QED
    BY <2>1, <2>2 DEF Orphaned
<1>5. ASSUME NEW d, d = Msg("depart", NoProc, 0, h[p].id)
      PROVE  d \in Mail(N) /\ Carried(d)'
  <2>1. d \in Mail(N) /\ d.p = NoProc /\ d.kind = "depart"
    BY <1>1, <1>5 DEF Msg, Mail, Requests
  <2> QED
    BY <2>1 DEF Carried
<1>6. MailSound'
  <2>1. \A m \in net' : m \in Mail(N) /\ Carried(m)'
    BY <1>4, <1>5
  <2>2. net' \subseteq Mail(Len(names'))
    BY <2>1
  <2> QED
    BY <2>1, <2>2 DEF MailSound
<1>7. JournalSound' /\ RadioSound' /\ BoundsSound' /\ names' \in Seq(Procs)
  BY DEF TypeInv, JournalSound, RadioSound, BoundsSound, radio, bounds
<1> QED
  BY <1>2, <1>6, <1>7 DEF TypeInv

LEMMA TeardownTyped ==
    ASSUME TypeInv, SessionAssumption, NEW p \in Procs,
           Shutdown(p) \/ SettleEnds(p) \/ ShutdownCompletes(p) \/ Crash(p)
    PROVE  TypeInv'
<1> DEFINE N == Len(names)
           o == h[p]
           closing == [o EXCEPT !.phase = "settling", !.ticking = FALSE,
                                !.ack = FALSE, !.disc = FALSE]
           removing == [o EXCEPT !.phase = "removing", !.attempts = 0, !.disc = FALSE]
           d == Msg("depart", NoProc, 0, o.id)
<1>1. /\ Sound(o, N) /\ DOMAIN o = Fields /\ N \in Nat /\ o.id \in Ids(N) /\ DOMAIN h = Procs
      /\ net \subseteq Mail(N) /\ \A m \in net : Carried(m)
  BY OfProcess DEF TypeInv, MailSound
<1>2. UNCHANGED <<radio, bounds>>
  BY DEF Shutdown, SettleEnds, ShutdownCompletes, Crash
<1>3. BoundsSound' /\ p # NoProc
  BY <1>2 DEF TypeInv, BoundsSound, bounds, SessionAssumption
<1>4. CASE Shutdown(p) /\ ~permitsRadioTeardown(o)
  BY <1>2, <1>4, GoneTyped DEF Shutdown, Closed
<1>5. CASE Shutdown(p) /\ permitsRadioTeardown(o)
  <2>1. PICK rest \in {net, net \cup {d}} : Become(p, closing, rest)
    BY <1>5 DEF Shutdown
  <2>2. d \in Mail(N) /\ Carried(d)
    <3>1. d \in Mail(N) /\ d.p = NoProc /\ d.kind = "depart"
      BY <1>1 DEF Msg, Mail, Requests
    <3> QED
      BY <3>1 DEF Carried
  <2>3. "settling" \in Phases /\ "settling" \in Live
    BY DEF Phases, Live
  <2>4. Sound(closing, N) /\ closing.phase = "settling" /\ closing.login = o.login
    BY <1>1, <2>3 DEF Sound, Fields, Flags, Kinds
  <2> HIDE DEF closing, d
  <2>5. Follows(p, closing)
    BY <2>3, <2>4, QuietFollows
  <2> QED
    BY <1>1, <1>2, <1>3, <1>5, <2>1, <2>2, <2>5, OwnStepKeepsTypes DEF Shutdown, Journaled
<1>6. CASE SettleEnds(p)
  <2>1. /\ h' = [h EXCEPT ![p] = removing] /\ UNCHANGED <<journal, net, names>>
        /\ o.phase = "settling"
    BY <1>1, <1>6 DEF SettleEnds
  <2>2. "removing" \in Phases /\ "removing" \in Live /\ 0 \in 0 .. RemovalAttempts
    BY DEF Phases, Live, SessionAssumption
  <2>3. Sound(removing, N) /\ removing.phase = "removing" /\ removing.login = o.login
    BY <1>1, <2>2 DEF Sound, Fields, Flags, Kinds
  <2> HIDE DEF removing
  <2>4. HandlersSound'
    BY <1>1, <2>1, <2>3 DEF TypeInv, HandlersSound, Numbered
  <2>5. \A q : Open(q) => Open(q)'
    BY <1>1, <2>1, <2>3 DEF Open
  <2>6. MailSound'
    BY <2>1, <2>5 DEF TypeInv, MailSound, Carried
  <2> QED
    BY <1>2, <1>3, <2>1, <2>4, <2>6 DEF TypeInv, JournalSound, RadioSound, radio
<1>7. CASE ShutdownCompletes(p)
  BY <1>2, <1>7, GoneTyped DEF ShutdownCompletes, Closed, ReleasedJournal, JournalWithout
<1>8. CASE Crash(p)
  BY <1>2, <1>8, GoneTyped DEF Crash
<1> QED
  BY <1>4, <1>5, <1>6, <1>7, <1>8

\* Steps of the radio and of the network leave handlers, journal and names.
LEMMA OutsideKeepsTypes ==
    ASSUME TypeInv, UNCHANGED <<h, journal, names>>,
           RadioSound', BoundsSound', net' \subseteq Mail(Len(names)),
           \A m \in net' : Carried(m)
    PROVE  TypeInv'
<1>1. HandlersSound' /\ JournalSound' /\ names' \in Seq(Procs)
  BY DEF TypeInv, HandlersSound, JournalSound
<1>2. MailSound'
  BY DEF MailSound, Carried, Open
<1> QED
  BY <1>1, <1>2 DEF TypeInv

LEMMA AnswerTyped ==
    ASSUME TypeInv, NEW m \in net, NEW kind \in Replies, NEW id \in Ids(Len(names))
    PROVE  LET d == Msg(kind, m.p, m.seq, id)
           IN  d \in Mail(Len(names)) /\ (Open(m.p) => Carried(d))
<1>1. m \in Mail(Len(names))
  BY DEF TypeInv, MailSound
<1>2. Msg(kind, m.p, m.seq, id) \in Mail(Len(names))
  BY <1>1 DEF Msg, Mail
<1>3. kind # "login"
  BY DEF Replies
<1> QED
  BY <1>2, <1>3 DEF Carried, Msg

LEMMA AtRadioTyped ==
    ASSUME TypeInv, SessionAssumption, NEW m \in net, AtRadio(m)
    PROVE  TypeInv'
<1> DEFINE N == Len(names)
           Sane(replies) == replies \subseteq Mail(N) /\ \A d \in replies : Open(m.p) => Carried(d)
<1>1. /\ m \in Mail(N) /\ m.id \in Ids(N) /\ N \in Nat /\ m.kind \in Requests \cup Replies
      /\ m.kind = "login" => m.id[1] # 0
  BY DEF TypeInv, MailSound, Mail, Carried
<1>2. m.id[1] \in 0 .. N
  BY <1>1 DEF Ids
<1>3. ASSUME NEW kind \in Replies, NEW id \in Ids(N)
      PROVE  Sane({Msg(kind, m.p, m.seq, id)})
  BY <1>3, AnswerTyped
<1>4. ASSUME NEW replies, Sane(replies), Answer(m, replies), RadioSound'
      PROVE  TypeInv'
  <2>1. net \subseteq Mail(N) /\ \A d \in net : Carried(d)
    BY DEF TypeInv, MailSound
  <2>2. UNCHANGED <<h, journal, names, bounds>> /\ net' \subseteq Mail(N) /\ \A d \in net' : Carried(d)
    BY <1>4, <2>1 DEF Answer
  <2>3. BoundsSound'
    BY <2>2 DEF TypeInv, BoundsSound, bounds
  <2> QED
    BY <1>4, <2>2, <2>3, OutsideKeepsTypes
<1>5. \A n \in 0 .. N : Id(n) \in Ids(N)
  BY DEF Id, Ids
<1> HIDE DEF Sane
<1>6. CASE RadioLogin(m)
  <2>1. m.id[1] \in 1 .. N
    BY <1>1, <1>2, <1>6 DEF RadioLogin, Sent
  <2>2. Sane({Msg("welcome", m.p, m.seq, Id(m.id[1]))}) /\ Sane({Msg("denied", m.p, m.seq, m.id)})
    BY <1>1, <1>2, <1>3, <1>5 DEF Replies
  <2>3. RadioSound'
    BY <1>6, <2>1 DEF RadioLogin, Answer, TypeInv, RadioSound
  <2> QED
    BY <1>4, <1>6, <2>2, <2>3 DEF RadioLogin
<1>7. CASE RadioRenews(m)
  <2>1. RadioSound'
    BY <1>7 DEF RadioRenews, Answer, radio, TypeInv, RadioSound
  <2>2. Sane({Msg("renewed", m.p, m.seq, m.id)}) /\ Sane({Msg("refused", m.p, m.seq, m.id)})
    BY <1>1, <1>3 DEF Replies
  <2>3. \A n \in tokens : Sane({Msg("refused", m.p, m.seq, Id(n))})
    <3>1. \A n \in tokens : n \in 0 .. N
      BY DEF TypeInv, RadioSound
    <3>2. "refused" \in Replies
      BY DEF Replies
    <3> QED
      BY <1>3, <1>5, <3>1, <3>2
  <2> QED
    BY <1>4, <1>7, <2>1, <2>2, <2>3 DEF RadioRenews
<1>8. CASE RadioRemoves(m)
  <2>1. Sane({Msg("removed", m.p, m.seq, m.id)})
    BY <1>1, <1>3 DEF Replies
  <2>2. RadioSound'
    BY <1>8 DEF RadioRemoves, Answer, TypeInv, RadioSound
  <2> QED
    BY <1>4, <1>8, <2>1, <2>2 DEF RadioRemoves
<1>9. CASE RadioGrants(m)
  <2>1. Sane({Msg("grant", m.p, m.seq, m.id)}) /\ Sane({Msg("advert", m.p, m.seq, m.id)})
    BY <1>1, <1>3 DEF Replies
  <2>2. Sane({Msg("grant", m.p, m.seq, m.id), Msg("advert", m.p, m.seq, m.id)})
    BY <2>1 DEF Sane
  <2>3. RadioSound'
    BY <1>9 DEF RadioGrants, Authentic, Answer, TypeInv, RadioSound
  <2> QED
    BY <1>4, <1>9, <2>2, <2>3 DEF RadioGrants
<1>10. CASE RadioRejects(m)
  <2>1. Sane({Msg("rejected", m.p, m.seq, m.id)})
    BY <1>1, <1>3 DEF Replies
  <2>2. RadioSound'
    BY <1>10 DEF RadioRejects, radio, Answer, TypeInv, RadioSound
  <2> QED
    BY <1>4, <1>10, <2>1, <2>2 DEF RadioRejects
<1>11. CASE RadioSeesDeparture(m)
  <2>1. Sane({})
    BY DEF Sane
  <2>2. RadioSound'
    BY <1>11 DEF RadioSeesDeparture, Answer, TypeInv, RadioSound
  <2> QED
    BY <1>4, <1>11, <2>1, <2>2 DEF RadioSeesDeparture
<1> QED
  BY <1>6, <1>7, <1>8, <1>9, <1>10, <1>11 DEF AtRadio

\* The status of the radio, and what befalls it.
LEMMA SurroundingsTyped ==
    ASSUME TypeInv, SessionAssumption,
           \/ \E p \in Procs : RadioAdvertises(p)
           \/ \E m \in net : Ignored(m) \/ Lose(m)
           \/ Environment
    PROVE  TypeInv'
<1> DEFINE N == Len(names)
<1>1. /\ net \subseteq Mail(N) /\ (\A d \in net : Carried(d)) /\ N \in Nat
      /\ session \in 0 .. N /\ Procs \subseteq Procs \cup {NoProc}
  BY DEF TypeInv, MailSound, RadioSound
<1>2. Id(session) \in Ids(N)
  BY <1>1 DEF Id, Ids
<1>3. ASSUME NEW p \in Procs, NEW kind \in {"free", "foreign", "busy", "ended"}, Open(p)
      PROVE  LET d == Msg(kind, p, 0, Id(session)) IN d \in Mail(N) /\ Carried(d)
  <2>1. Msg(kind, p, 0, Id(session)) \in Mail(N)
    BY <1>2 DEF Msg, Mail, Replies
  <2> QED
    BY <1>3, <2>1 DEF Carried, Msg
<1>4. CASE \E p \in Procs : RadioAdvertises(p)
  <2>1. PICK p \in Procs : RadioAdvertises(p)
    BY <1>4
  <2>2. PICK kind \in {"free", "foreign", "busy"} :
            Open(p) /\ net' = net \cup {Msg(kind, p, 0, Id(session))}
    BY <2>1 DEF RadioAdvertises
  <2>3. UNCHANGED <<h, journal, names, radio, bounds>> /\ RadioSound' /\ BoundsSound'
    BY <2>1 DEF RadioAdvertises, radio, bounds, TypeInv, RadioSound, BoundsSound
  <2>4. net' \subseteq Mail(N) /\ \A d \in net' : Carried(d)
    BY <1>1, <1>3, <2>2
  <2> QED
    BY <2>3, <2>4, OutsideKeepsTypes
<1>5. CASE \E m \in net : Ignored(m) \/ Lose(m)
  <2>1. /\ UNCHANGED <<h, journal, names, radio, connects, renewals, takes>> /\ net' \subseteq net
        /\ faults' = faults \/ (faults < MaxFaults /\ faults' = faults + 1)
    BY <1>5 DEF Ignored, Lose, radio, bounds
  <2>2. RadioSound'
    BY <2>1 DEF radio, TypeInv, RadioSound
  <2>3. BoundsSound'
    BY <2>1 DEF TypeInv, BoundsSound, SessionAssumption
  <2> QED
    BY <1>1, <2>1, <2>2, <2>3, OutsideKeepsTypes
<1>6. CASE RadioEnds
  <2>1. PICK p : p = names[session]
    OBVIOUS
  <2>2. UNCHANGED <<h, journal, names>> /\ RadioSound' /\ BoundsSound'
    BY <1>6 DEF RadioEnds, TypeInv, RadioSound, BoundsSound, SessionAssumption
  <2>3. p \in Procs
    BY <1>6, <2>1 DEF RadioEnds, TypeInv, RadioSound
  <2>4. \/ net' = net
        \/ Open(p) /\ net' = net \cup {Msg("ended", p, 0, Id(session))}
    BY <1>6, <2>1 DEF RadioEnds
  <2>5. net' \subseteq Mail(N) /\ \A d \in net' : Carried(d)
    BY <1>1, <1>3, <2>3, <2>4
  <2> QED
    BY <2>2, <2>5, OutsideKeepsTypes
<1>7. CASE RadioForgets \/ ForeignTakes \/ ForeignLeaves
  <2>1. UNCHANGED <<h, journal, names, net>>
    BY <1>7 DEF RadioForgets, ForeignTakes, ForeignLeaves
  <2>2. /\ granted' = granted /\ foreign' \in {foreign, TRUE, FALSE}
        /\ tokens' \subseteq tokens /\ session' \in tokens' \cup {0}
    BY <1>7 DEF RadioForgets, ForeignTakes, ForeignLeaves, TypeInv, RadioSound
  <2>3. RadioSound'
    BY <2>1, <2>2 DEF TypeInv, RadioSound
  <2>4. BoundsSound'
    BY <1>7 DEF RadioForgets, ForeignTakes, ForeignLeaves, bounds, TypeInv, BoundsSound,
                SessionAssumption
  <2> QED
    BY <1>1, <2>1, <2>3, <2>4, OutsideKeepsTypes
<1> QED
  BY <1>4, <1>5, <1>6, <1>7 DEF Environment

LEMMA InitTyped == ASSUME SessionAssumption, Init PROVE TypeInv
<1>1. "off" \in Phases
  BY DEF Phases
<1>2. Sound(Handler("off"), 0) /\ Numbered(Handler("off"))
  BY <1>1, HandlerSound
<1>3. names = <<>> /\ Len(names) = 0 /\ names \in Seq(Procs)
  BY DEF Init
<1>4. HandlersSound
  BY <1>2, <1>3 DEF Init, HandlersSound
<1>5. JournalSound /\ RadioSound /\ MailSound
  BY DEF Init, JournalSound, RadioSound, MailSound
<1>6. BoundsSound
  BY DEF Init, BoundsSound, SessionAssumption
<1> QED
  BY <1>3, <1>4, <1>5, <1>6 DEF TypeInv

LEMMA ArrivalTyped ==
    ASSUME TypeInv, SessionAssumption, NEW m \in net, Arrival(m)
    PROVE  TypeInv'
<1>1. CASE LoginResponse(m) BY <1>1, LoginResponseTyped
<1>2. CASE LoginDenied(m) BY <1>2, LoginDeniedTyped
<1>3. CASE TokenRenewed(m) BY <1>3, TokenRenewedTyped
<1>4. CASE TokenRefused(m) BY <1>4, TokenRefusedTyped
<1>5. CASE StreamGranted(m) BY <1>5, StreamGrantedTyped
<1>6. CASE StreamRejected(m) BY <1>6, StreamRejectedTyped
<1>7. CASE \/ GrantAdvertised(m) \/ InfoIgnored(m) \/ RadioAvailable(m)
           \/ BusyBySelf(m) \/ BusyByForeign(m)
  BY <1>7, InfoTyped
<1>8. CASE BusyBySibling(m) BY <1>8, BusyBySiblingTyped
<1>9. CASE RemovalAcknowledged(m) \/ SessionEnded(m) BY <1>9, RecoveryEndTyped
<1>10. CASE Ignored(m) BY <1>10, SurroundingsTyped
<1> QED
  BY <1>1, <1>2, <1>3, <1>4, <1>5, <1>6, <1>7, <1>8, <1>9, <1>10, Zenon DEF Arrival

LEMMA StepTyped == ASSUME TypeInv, SessionAssumption, [Next]_vars PROVE TypeInv'
<1>1. ASSUME NEW p \in Procs,
             Connect(p) \/ Shutdown(p) \/ Crash(p) \/ Teardown(p) \/ Timers(p) \/ RadioAdvertises(p)
      PROVE  TypeInv'
  <2>1. CASE Connect(p) BY <2>1, ConnectTyped
  <2>2. CASE Shutdown(p) \/ Crash(p) BY <2>2, TeardownTyped
  <2>3. CASE Teardown(p)
    BY <2>3, TeardownTyped, RunningTyped, Zenon DEF Teardown
  <2>4. CASE Timers(p)
    BY <2>4, TransportReadyTyped, PredecessorRetryTyped, LoginAgainTyped, RunningTyped, Zenon DEF Timers
  <2>5. CASE RadioAdvertises(p) BY <2>5, SurroundingsTyped
  <2> QED
    BY <1>1, <2>1, <2>2, <2>3, <2>4, <2>5
<1>2. ASSUME NEW m \in net, Arrival(m) \/ AtRadio(m) \/ Lose(m)
      PROVE  TypeInv'
  BY <1>2, ArrivalTyped, AtRadioTyped, SurroundingsTyped
<1>3. CASE Environment BY <1>3, SurroundingsTyped
<1>4. CASE UNCHANGED vars
  BY <1>4 DEF vars, radio, bounds, TypeInv, HandlersSound, JournalSound, RadioSound, BoundsSound,
              MailSound, Carried, Open
<1> QED
  BY <1>1, <1>2, <1>3, <1>4, Zenon DEF Next

-----------------------------------------------------------------------------
(* Whose identity a handler, a datagram and the journal may name.          *)

\* The login n was one of p's, or of a process that has died.
Whose(p, n) == n \in 1 .. Len(names) /\ (names[n] = p \/ h[names[n]].phase = "dead")

LoggedIn == {"up", "settling", "removing"}
Traced   == {"login", "renewal", "removal", "stream", "renewed", "refused", "removed",
             "grant", "rejected", "advert"}

\* A handler that has not heard from the radio.
Young(s) == s.phase = "discover" =>
    /\ \A k \in Kinds : ~s[k].pending
    /\ ~s.gotAuth /\ ~s.radios /\ ~s.owned /\ s.pred = NoProc /\ s.stream.id = NoId

\* Handlers, datagrams and records name a login of their own or of the dead,
\* and only the dead are predecessors.
Traceable(m) == m.p # NoProc /\ m.kind \in Traced => Whose(m.p, m.id[1])
OwnInv ==
    /\ \A p \in Procs : h[p].phase \in LoggedIn => Whose(p, h[p].id[1])
    /\ \A m \in net : Traceable(m)
    /\ \A j \in journal : Whose(j.owner, j.id[1])
    /\ \A p \in Procs : Young(h[p]) /\ (h[p].pred # NoProc => h[h[p].pred].phase = "dead")
    /\ \A p \in Procs : h[p].pred # NoProc => Whose(p, h[p].removal.id[1])

\* A record t that a step of p may leave.
Proper(p, t) ==
    /\ t.phase \in LoggedIn =>
          Whose(p, t.id[1]) \/ ("login" \in Fresh(p, t) /\ t.id[1] = Len(names) + 1)
    /\ \A k \in Fresh(p, t) : t[k].id[1] = t.id[1] \/ Whose(p, t[k].id[1])
    /\ Fresh(p, t) # {} => t.phase \in LoggedIn
    /\ Young(t) /\ (t.pred # NoProc => h[t.pred].phase = "dead" /\ Whose(p, t.removal.id[1]))

\* Deaths are final: what was named stays named.
DeadStayDead == \A q \in Procs : h[q].phase = "dead" => h'[q].phase = "dead"

LEMMA WhoseLasts ==
    ASSUME TypeInv, Grown, DeadStayDead
    PROVE  \A p, n : Whose(p, n) => Whose(p, n)'
BY DEF TypeInv, Grown, DeadStayDead, Whose

LEMMA BecomeOwned ==
    ASSUME TypeInv, OwnInv, NEW p \in Procs, h[p].phase # "dead", NEW t, Proper(p, t),
           TypeInv', NEW rest, Become(p, t, rest), \A m \in rest : Traceable(m),
           \A j \in journal' : j \in journal \/ Whose(j.owner, j.id[1])
    PROVE  OwnInv'
<1>1. Grown
  BY BecomeNames DEF TypeInv
<1>2. DOMAIN h = Procs /\ h' = [h EXCEPT ![p] = t]
  BY DEF TypeInv, HandlersSound, Become
<1>3. h'[p] = t /\ \A q \in Procs \ {p} : h'[q] = h[q]
  BY <1>2
<1>4. DeadStayDead
  BY <1>3 DEF DeadStayDead
<1>5. \A q, n : Whose(q, n) => Whose(q, n)'
  BY <1>1, <1>4, WhoseLasts
<1>6. ASSUME "login" \in Fresh(p, t)
      PROVE  \A n : n = Len(names) + 1 => Whose(p, n)'
  <2>1. Len(names) \in Nat
    BY DEF TypeInv
  <2>2. Len(names') = Len(names) + 1 /\ names'[Len(names) + 1] = p
    BY <1>6, BecomeNames DEF TypeInv
  <2> QED
    BY <2>1, <2>2 DEF Whose
<1>7. \A n : n = t.id[1] /\ t.phase \in LoggedIn => Whose(p, n)'
  BY <1>5, <1>6 DEF Proper
<1>8. ASSUME NEW q \in Procs, h'[q].phase \in LoggedIn
      PROVE  \A n : n = h'[q].id[1] => Whose(q, n)'
  <2>1. CASE q = p
    BY <1>3, <1>7, <1>8, <2>1
  <2>2. CASE q # p
    BY <1>3, <1>5, <1>8, <2>2 DEF OwnInv
  <2> QED
    BY <2>1, <2>2
<1>9. ASSUME NEW m \in net'
      PROVE  Traceable(m)'
  <2>1. CASE m \in rest
    BY <1>5, <2>1 DEF Traceable
  <2>2. ASSUME NEW k \in Fresh(p, t), m = Msg(k, p, t[k].seq, t[k].id)
        PROVE  Traceable(m)'
    <3>1. m.p = p /\ m.id = t[k].id
      BY <2>2 DEF Msg
    <3>2. \A n : n = t[k].id[1] => Whose(p, n)'
      BY <1>5, <1>7 DEF Proper
    <3> QED
      BY <3>1, <3>2 DEF Traceable
  <2> QED
    BY <2>1, <2>2 DEF Become
<1>10. \A j \in journal' : Whose(j.owner, j.id[1])'
  BY <1>5 DEF OwnInv
<1>11. \A q \in Procs : h'[q].pred # NoProc => h'[h'[q].pred].phase = "dead"
  <2>1. \A q \in Procs : h'[q].pred # NoProc => h[h'[q].pred].phase = "dead" /\ h'[q].pred \in Procs
    <3>1. \A q \in Procs : h'[q].pred # NoProc => h[h'[q].pred].phase = "dead"
      BY <1>3 DEF OwnInv, Proper
    <3>2. \A q \in Procs : h'[q].pred \in Procs \cup {NoProc}
      BY DEF TypeInv, HandlersSound, Sound
    <3> QED
      BY <3>1, <3>2
  <2> QED
    BY <1>4, <2>1 DEF DeadStayDead
<1>12. (\A q \in Procs : h[q].phase \in LoggedIn => Whose(q, h[q].id[1]))'
  BY <1>8 DEF Whose
<1>13. \A q \in Procs : Young(h'[q])
  BY <1>3 DEF OwnInv, Proper
<1>14. \A q \in Procs : h'[q].pred # NoProc => \A n : n = h'[q].removal.id[1] => Whose(q, n)'
  BY <1>3, <1>5 DEF OwnInv, Proper
<1>15. (\A q \in Procs : h[q].pred # NoProc => Whose(q, h[q].removal.id[1]))'
  BY <1>14 DEF Whose
<1> QED
  BY <1>9, <1>10, <1>11, <1>12, <1>13, <1>15, Zenon DEF OwnInv

LEMMA QuietProper ==
    ASSUME TypeInv, OwnInv, NEW p \in Procs, NEW t, h[p].phase \in LoggedIn,
           \A k \in Kinds : t[k].pending => t[k] = h[p][k] \/ t[k].id[1] \in {h[p].id[1], t.id[1]},
           t.phase \in LoggedIn, t.id[1] = h[p].id[1] \/ Whose(p, t.id[1]),
           t.pred \in {h[p].pred, NoProc},
           t.removal.id[1] \in {h[p].removal.id[1], h[p].id[1]}
    PROVE  Proper(p, t)
<1>1. Whose(p, t.id[1]) /\ Whose(p, h[p].id[1])
  BY DEF OwnInv
<1>2. \A k \in Fresh(p, t) : t[k].id[1] = t.id[1] \/ Whose(p, t[k].id[1])
  BY <1>1 DEF Fresh
<1>3. t.pred # NoProc => h[t.pred].phase = "dead" /\ Whose(p, t.removal.id[1])
  BY <1>1 DEF OwnInv
<1>4. Young(t)
  BY DEF Young, LoggedIn
<1> QED
  BY <1>1, <1>2, <1>3, <1>4 DEF Proper

LEMMA LoginProper ==
    ASSUME TypeInv, OwnInv, NEW p \in Procs, NEW x, Sound(x, Len(names)), x.seq >= h[p].seq,
           x.phase \in LoggedIn,
           x.pred = NoProc \/ (h[x.pred].phase = "dead" /\ Whose(p, x.removal.id[1])),
           \A k \in Kinds : x[k].pending => x[k] = h[p][k] \/ Whose(p, x[k].id[1])
    PROVE  Proper(p, sendLogin(x))
<1> DEFINE t == sendLogin(x)
<1>1. DOMAIN x = Fields /\ x.seq \in Nat
  BY DEF Sound
<1>2. /\ t.phase = x.phase /\ t.pred = x.pred /\ t.id[1] = Len(names) + 1
      /\ t.login.id[1] = Len(names) + 1 /\ t.login.pending /\ t.login.seq = x.seq
      /\ \A k \in Kinds \ {"login"} : t[k] = x[k]
  BY <1>1 DEF sendLogin, Begun, Fields, Flags, Kinds
<1> HIDE DEF t
<1>3. "login" \in Fresh(p, t)
  <2>1. "login" \in Kinds
    BY DEF Kinds
  <2>2. h[p].login.seq < h[p].seq /\ h[p].login.seq \in Nat /\ h[p].seq \in Nat
    BY <2>1 DEF TypeInv, HandlersSound, Sound, Request
  <2> QED
    BY <1>1, <1>2, <2>1, <2>2 DEF Fresh
<1>4. \A k \in Fresh(p, t) : t[k].id[1] = t.id[1] \/ Whose(p, t[k].id[1])
  BY <1>2 DEF Fresh
<1>5. Young(t)
  BY <1>2 DEF Young, LoggedIn
<1>6. t.removal = x.removal
  BY <1>2 DEF Kinds
<1>7. Proper(p, t)
  BY <1>2, <1>3, <1>4, <1>5, <1>6 DEF Proper
<1> QED
  BY <1>7 DEF t

LEMMA ReceiveOwned ==
    ASSUME TypeInv, OwnInv, TypeInv', NEW m \in net, Open(m.p), NEW t, Proper(m.p, t), Receive(m, t),
           \A j \in journal' : j \in journal \/ Whose(j.owner, j.id[1])
    PROVE  OwnInv'
<1>1. m.p \in Procs /\ h[m.p].phase # "dead"
  BY Addressed DEF Open
<1>2. PICK rest \in SUBSET net : Become(m.p, t, rest)
  BY DEF Receive
<1> QED
  BY <1>1, <1>2, BecomeOwned DEF OwnInv

\* A handler that has not heard from the radio acts on its status at most.
LEMMA ActsLoggedIn ==
    ASSUME TypeInv, OwnInv, NEW m \in net, NEW kind, Arrives(m, kind),
           kind \notin {"ended", "free", "foreign", "busy"}
    PROVE  /\ h[m.p].phase \in LoggedIn
           /\ kind \in Traced => Whose(m.p, m.id[1])
<1>1. /\ Open(m.p) /\ m.p \in Procs /\ m.p # NoProc /\ h[m.p].phase \in Live /\ m.kind = kind /\ Relevant(m)
      /\ DOMAIN h[m.p] = Fields
  BY Addressed DEF Arrives
<1>2. kind \in Traced => Whose(m.p, m.id[1])
  BY <1>1 DEF OwnInv, Traceable
<1>3. ASSUME h[m.p].phase = "discover"
      PROVE  FALSE
  <2>1. /\ \A k \in Kinds : ~h[m.p][k].pending
        /\ h[m.p].stream.id = NoId
    BY <1>1, <1>3 DEF OwnInv, Young
  <2>2. /\ ~h[m.p].login.pending /\ ~h[m.p].renewal.pending
        /\ ~h[m.p].removal.pending /\ ~h[m.p].stream.pending
    BY <2>1 DEF Kinds
  <2>3. kind = "advert" /\ m.id = h[m.p].stream.id
    BY <1>1, <2>2 DEF Relevant, Answers
  <2>4. Whose(m.p, m.id[1])
    BY <1>2, <2>3 DEF Traced
  <2> QED
    BY <2>1, <2>3, <2>4 DEF Whose, NoId
<1> QED
  BY <1>1, <1>2, <1>3 DEF Live, LoggedIn

\* A handler in a session, what it may become when it acts on a reply, and
\* what its cleared requests were.
LEMMA ClearedAsks ==
    ASSUME NEW n \in Nat, NEW s, Sound(s, n), NEW K \in SUBSET Kinds
    PROVE  LET c == Cleared(s, K)
           IN  /\ DOMAIN c = Fields
               /\ \A k \in Kinds : c[k].id = s[k].id /\ (c[k].pending => c[k] = s[k])
               /\ \A k \in K : ~c[k].pending
               /\ \A f \in Fields \ Kinds : c[f] = s[f]
<1> DEFINE c == Cleared(s, K)
<1>1. DOMAIN s = Fields /\ DOMAIN c = Fields
  BY DEF Sound, Cleared
<1>2. \A f \in Fields \ K : c[f] = s[f]
  BY <1>1 DEF Cleared
<1>3. \A k \in K : c[k] = [s[k] EXCEPT !.pending = FALSE] /\ s[k] \in Request
  BY <1>1 DEF Cleared, Fields, Sound
<1> HIDE DEF c
<1>4. \A k \in K : ~c[k].pending /\ c[k].id = s[k].id
  BY <1>3 DEF Request
<1>5. \A k \in Kinds \ K : c[k] = s[k]
  BY <1>2 DEF Fields
<1> USE DEF c
<1> QED
  BY <1>1, <1>2, <1>4, <1>5

LEMMA LoginResponseOwned ==
    ASSUME TypeInv, OwnInv, TypeInv', NEW m \in net, LoginResponse(m)
    PROVE  OwnInv'
<1> DEFINE o == h[m.p]
           c == Cleared(o, {"login"})
           s == [c EXCEPT !.radios = @ \/ Listening(o)]
           answered == [s EXCEPT !.id[2] = m.id[2]]
           taken == [sendRenewal(answered) EXCEPT !.authed = TRUE]
<1>1. /\ Open(m.p) /\ m.p \in Procs /\ Sound(o, Len(names)) /\ Len(names) \in Nat
      /\ o.phase \in LoggedIn
  BY Addressed, ActsLoggedIn DEF LoginResponse, Arrives
<1>2. /\ DOMAIN c = Fields /\ (\A k \in Kinds : c[k].id = o[k].id /\ (c[k].pending => c[k] = o[k]))
      /\ c.phase = o.phase /\ c.id = o.id /\ c.pred = o.pred
  BY <1>1, ClearedAsks DEF Fields, Flags, Kinds
<1>3. o.id \in Nat \X Nat
  BY <1>1 DEF Sound, Ids
<1> HIDE DEF c
<1>4. /\ DOMAIN s = Fields /\ (\A k \in Kinds : s[k] = c[k])
      /\ s.phase = o.phase /\ s.id = o.id /\ s.pred = o.pred
  BY <1>2 DEF Fields, Flags, Kinds
<1> HIDE DEF s
<1>5. /\ DOMAIN answered = Fields /\ (\A k \in Kinds : answered[k] = s[k])
      /\ answered.phase = o.phase /\ answered.id[1] = o.id[1] /\ answered.pred = o.pred
  BY <1>3, <1>4 DEF Fields, Flags, Kinds
<1> HIDE DEF answered
<1>6. /\ DOMAIN taken = Fields /\ (\A k \in Kinds \ {"renewal"} : taken[k] = answered[k])
      /\ taken.renewal.id[1] = o.id[1]
      /\ taken.phase = o.phase /\ taken.id[1] = o.id[1] /\ taken.pred = o.pred
  BY <1>5 DEF sendRenewal, Begun, Fields, Flags, Kinds
<1> HIDE DEF taken
<1>7. \A t \in {s, answered, taken} : Proper(m.p, t)
  <2>1. \A t \in {s, answered, taken} :
           /\ \A k \in Kinds : t[k].pending => t[k] = o[k] \/ t[k].id[1] = o.id[1]
           /\ t.phase = o.phase /\ t.id[1] = o.id[1] /\ t.pred = o.pred
           /\ t.removal.id = o.removal.id
    BY <1>2, <1>4, <1>5, <1>6 DEF Kinds
  <2> QED
    BY <1>1, <2>1, QuietProper
<1>8. \E t \in {s, answered, taken} : Receive(m, t)
  BY DEF LoginResponse, s, c, answered, taken
<1> QED
  BY <1>1, <1>7, <1>8, ReceiveOwned DEF LoginResponse

LEMMA TokenRenewedOwned ==
    ASSUME TypeInv, OwnInv, TypeInv', NEW m \in net, TokenRenewed(m)
    PROVE  OwnInv'
<1> DEFINE o == h[m.p]
           c == Cleared(o, {"renewal"})
           s == [c EXCEPT !.id = m.id, !.ticking = TRUE, !.gotAuth = TRUE]
           t == RequestWhenReady(s)
<1>1. /\ Open(m.p) /\ m.p \in Procs /\ Sound(o, Len(names)) /\ Len(names) \in Nat
      /\ o.phase \in LoggedIn /\ Whose(m.p, m.id[1])
  <2>1. PICK kind \in {"renewed", "refused"} : Arrives(m, kind)
    BY DEF TokenRenewed
  <2>2. kind \in Traced
    BY DEF Traced
  <2> QED
    BY <2>1, <2>2, Addressed, ActsLoggedIn DEF Arrives
<1>2. /\ DOMAIN c = Fields /\ (\A k \in Kinds : c[k].id = o[k].id /\ (c[k].pending => c[k] = o[k]))
      /\ c.phase = o.phase /\ c.pred = o.pred
  BY <1>1, ClearedAsks DEF Fields, Flags, Kinds
<1> HIDE DEF c
<1>3. /\ DOMAIN s = Fields /\ (\A k \in Kinds : s[k] = c[k])
      /\ s.phase = o.phase /\ s.id = m.id /\ s.pred = o.pred
  BY <1>2 DEF Fields, Flags, Kinds
<1> HIDE DEF s
<1>4. /\ \A k \in Kinds \ {"stream"} : t[k] = s[k]
      /\ t.stream = s.stream \/ t.stream.id = m.id
      /\ t.phase = o.phase /\ t.id = m.id /\ t.pred = o.pred
  BY <1>3 DEF RequestWhenReady, sendRequestStream, Begun, Fields, Flags, Kinds
<1> HIDE DEF t
<1>5. \A k \in Kinds : t[k].pending => t[k] = o[k] \/ t[k].id[1] = t.id[1]
  BY <1>2, <1>3, <1>4 DEF Kinds
<1>6. Proper(m.p, t)
  <2>1. t.removal.id = o.removal.id
    BY <1>2, <1>3, <1>4 DEF Kinds
  <2> QED
    BY <1>1, <1>4, <1>5, <2>1, QuietProper
<1>7. Receive(m, t)
  BY DEF TokenRenewed, t, s, c
<1>8. \A j \in journal' : j \in journal \/ Whose(j.owner, j.id[1])
  BY <1>1 DEF TokenRenewed, RenewedJournal
<1> QED
  BY <1>1, <1>6, <1>7, <1>8, ReceiveOwned

LEMMA TokenRefusedOwned ==
    ASSUME TypeInv, OwnInv, TypeInv', NEW m \in net, TokenRefused(m)
    PROVE  OwnInv'
<1> DEFINE o == h[m.p]
           c == Cleared(o, {"renewal"})
           d == closeStreams(c)
           x == [d EXCEPT !.id = m.id, !.gotAuth = FALSE, !.authed = FALSE]
<1>1. /\ Open(m.p) /\ m.p \in Procs /\ Sound(o, Len(names)) /\ Len(names) \in Nat
      /\ o.phase \in LoggedIn /\ m.id \in Ids(Len(names))
  BY Addressed, ActsLoggedIn DEF TokenRefused, Arrives
<1>2. /\ DOMAIN c = Fields /\ (\A k \in Kinds : c[k].id = o[k].id /\ (c[k].pending => c[k] = o[k]))
      /\ c.phase = o.phase /\ c.pred = o.pred /\ c.seq = o.seq /\ Sound(c, Len(names))
  BY <1>1, ClearedAsks, ClearedSound DEF Fields, Flags, Kinds
<1> HIDE DEF c
<1>3. /\ DOMAIN d = Fields /\ (\A k \in Kinds : d[k] = c[k])
      /\ d.phase = o.phase /\ d.pred = o.pred /\ d.seq = o.seq /\ Sound(d, Len(names))
  BY <1>1, <1>2, CloseStreamsSound DEF closeStreams, Fields, Flags, Kinds
<1> HIDE DEF d
<1>4. Sound(x, Len(names))
  BY <1>1, <1>3 DEF Sound, Fields, Flags, Kinds
<1>5. /\ (\A k \in Kinds : x[k] = d[k])
      /\ x.phase = o.phase /\ x.pred = o.pred /\ x.seq = o.seq
  BY <1>3 DEF Fields, Flags, Kinds
<1>6. x.seq >= o.seq
  BY <1>1, <1>5 DEF Sound
<1> HIDE DEF x
<1>7. x.pred = NoProc \/ (h[x.pred].phase = "dead" /\ Whose(m.p, x.removal.id[1]))
  <2>1. x.removal.id = o.removal.id
    BY <1>2, <1>3, <1>5 DEF Kinds
  <2> QED
    BY <1>1, <1>5, <2>1 DEF OwnInv
<1>8. Proper(m.p, sendLogin(x))
  BY <1>1, <1>2, <1>3, <1>4, <1>5, <1>6, <1>7, LoginProper
<1>9. Receive(m, sendLogin(x)) /\ journal' = journal
  BY DEF TokenRefused, x, d, c
<1> QED
  BY <1>1, <1>8, <1>9, ReceiveOwned

LEMMA StreamRepliesOwned ==
    ASSUME TypeInv, OwnInv, TypeInv', NEW m \in net, StreamGranted(m) \/ StreamRejected(m)
    PROVE  OwnInv'
<1> DEFINE o == h[m.p]
           s == Cleared(o, {"stream"})
           e == Acquired(s)
           granting == [e EXCEPT !.reclaims = 0, !.reclaim = FALSE, !.opened = TRUE,
                                 !.resetTried = FALSE, !.ports = FALSE]
           r == sendRemoval(s)
           c == Cleared(r, Kinds \ {"removal"})
           reset == [closeStreams(c) EXCEPT
                       !.resetTried = TRUE, !.ticking = FALSE, !.relogin = TRUE,
                       !.gotAuth = FALSE, !.authed = FALSE]
           failed == [s EXCEPT !.reported = TRUE]
<1>1. /\ Open(m.p) /\ m.p \in Procs /\ Sound(o, Len(names)) /\ Len(names) \in Nat
      /\ o.phase \in LoggedIn
  BY Addressed, ActsLoggedIn DEF StreamGranted, StreamRejected, Arrives
<1>2. /\ DOMAIN s = Fields /\ (\A k \in Kinds : s[k].id = o[k].id /\ (s[k].pending => s[k] = o[k]))
      /\ s.phase = o.phase /\ s.pred = o.pred /\ s.id = o.id /\ Sound(s, Len(names))
  BY <1>1, ClearedAsks, ClearedSound DEF Fields, Flags, Kinds
<1> HIDE DEF s
<1>3. /\ (\A k \in Kinds : granting[k] = s[k])
      /\ granting.phase = o.phase /\ granting.pred = o.pred /\ granting.id = o.id /\ e.id = o.id
  BY <1>2 DEF Acquired, Fields, Flags, Kinds
<1>4. /\ (\A k \in Kinds : failed[k] = s[k])
      /\ failed.phase = o.phase /\ failed.pred = o.pred /\ failed.id = o.id
  BY <1>2 DEF Fields, Flags, Kinds
<1>5. /\ \A k \in Kinds \ {"removal"} : r[k] = s[k]
      /\ r.removal.id = o.id /\ r.phase = o.phase /\ r.pred = o.pred /\ r.id = o.id
  BY <1>2 DEF sendRemoval, Begun, Fields, Flags, Kinds
<1>6. Sound(r, Len(names))
  BY <1>1, <1>2, SendingSound
<1> HIDE DEF r, granting, failed
<1>7. /\ DOMAIN c = Fields /\ (\A k \in Kinds : c[k].id = r[k].id /\ (c[k].pending => c[k] = r[k]))
      /\ c.phase = o.phase /\ c.pred = o.pred /\ c.id = o.id
  <2>1. Kinds \ {"removal"} \in SUBSET Kinds
    OBVIOUS
  <2> QED
    BY <1>1, <1>5, <1>6, <2>1, ClearedAsks DEF Fields, Flags, Kinds
<1> HIDE DEF c
<1>8. /\ (\A k \in Kinds : reset[k] = c[k])
      /\ reset.phase = o.phase /\ reset.pred = o.pred /\ reset.id = o.id
  BY <1>7 DEF closeStreams, Fields, Flags, Kinds
<1> HIDE DEF reset
<1>9. \A t \in {granting, reset, failed} :
           /\ \A k \in Kinds : t[k].pending => t[k] = o[k] \/ t[k].id[1] = o.id[1]
           /\ t.phase = o.phase /\ t.id[1] = o.id[1] /\ t.pred = o.pred
  <2>1. \A k \in Kinds \ {"removal"} : reset[k].pending => reset[k] = o[k]
    BY <1>2, <1>5, <1>7, <1>8
  <2>2. reset.removal.pending => reset.removal.id = o.id
    BY <1>5, <1>7, <1>8 DEF Kinds
  <2>3. \A k \in Kinds : reset[k].pending => reset[k] = o[k] \/ reset[k].id[1] = o.id[1]
    BY <2>1, <2>2
  <2> QED
    BY <1>2, <1>3, <1>4, <1>7, <1>8, <2>3
<1>10. \A t \in {granting, reset, failed} : Proper(m.p, t)
  <2>1. "removal" \in Kinds
    BY DEF Kinds
  <2>2. \A t \in {granting, reset, failed} : t.removal.id \in {o.removal.id, o.id}
    <3>1. granting.removal.id = o.removal.id /\ failed.removal.id = o.removal.id
      BY <1>2, <1>3, <1>4, <2>1
    <3>2. reset.removal.id = o.id
      BY <1>5, <1>7, <1>8, <2>1
    <3> QED
      BY <3>1, <3>2
  <2>3. ASSUME NEW t \in {granting, reset, failed}
        PROVE  Proper(m.p, t)
    <3>1. /\ \A k \in Kinds : t[k].pending => t[k] = o[k] \/ t[k].id[1] \in {o.id[1], t.id[1]}
          /\ t.phase = o.phase /\ t.id[1] = o.id[1] /\ t.pred = o.pred
      BY <1>9
    <3>2. t.removal.id[1] \in {o.removal.id[1], o.id[1]}
      BY <2>2
    <3> QED
      BY <1>1, <3>1, <3>2, QuietProper
  <2> QED
    BY <2>3
<1>11. \E t \in {granting, reset, failed} : Receive(m, t)
  BY DEF StreamGranted, StreamRejected, granting, reset, failed, c, r, s
<1>12. \A j \in journal' : j \in journal \/ Whose(j.owner, j.id[1])
  <2>1. Whose(m.p, o.id[1])
    BY <1>1 DEF OwnInv
  <2>2. journal' = journal \/ journal' = {[owner |-> m.p, id |-> e.id, full |-> FALSE]}
    BY DEF StreamGranted, StreamRejected, GrantJournal, s
  <2> QED
    BY <1>3, <2>1, <2>2
<1> QED
  BY <1>1, <1>10, <1>11, <1>12, ReceiveOwned

LEMMA InfoOwned ==
    ASSUME TypeInv, OwnInv, TypeInv', NEW m \in net,
           \/ LoginDenied(m) \/ GrantAdvertised(m) \/ InfoIgnored(m) \/ RadioAvailable(m)
           \/ BusyBySelf(m) \/ BusyByForeign(m)
    PROVE  OwnInv'
<1> DEFINE o == h[m.p]
           c == Cleared(o, {"login"})
           denied == [c EXCEPT !.reported = TRUE]
           taken == [o EXCEPT !.id = m.id]
           failed == [o EXCEPT !.reported = TRUE]
           asked == setCurrentRadio(o)
<1>1. /\ Open(m.p) /\ m.p \in Procs /\ Sound(o, Len(names)) /\ Len(names) \in Nat
      /\ o.phase \in Live /\ DOMAIN o = Fields
  <2>1. Open(m.p)
    BY DEF LoginDenied, GrantAdvertised, InfoIgnored, RadioAvailable, BusyBySelf, BusyByForeign,
           Noticed, Arrives
  <2> QED
    BY <2>1, Addressed
<1>2. UNCHANGED journal
  BY DEF LoginDenied, GrantAdvertised, InfoIgnored, RadioAvailable, BusyBySelf, BusyByForeign
<1>3. CASE InfoIgnored(m)
  <2>1. Receive(m, o)
    BY <1>3 DEF InfoIgnored
  <2>2. Fresh(m.p, o) = {}
    BY DEF Fresh
  <2>3. Proper(m.p, o)
    BY <1>1, <2>2 DEF OwnInv, Proper
  <2> QED
    BY <1>1, <1>2, <2>1, <2>3, ReceiveOwned
<1>4. CASE ~InfoIgnored(m)
  <2>1. o.phase \in LoggedIn /\ (GrantAdvertised(m) => Whose(m.p, m.id[1]))
    <3>1. CASE LoginDenied(m)
      BY <3>1, ActsLoggedIn DEF LoginDenied, GrantAdvertised, Arrives
    <3>2. CASE GrantAdvertised(m)
      <4>1. "advert" \in Traced
        BY DEF Traced
      <4> QED
        BY <3>2, <4>1, ActsLoggedIn DEF GrantAdvertised
    <3>3. CASE RadioAvailable(m) \/ BusyBySelf(m) \/ BusyByForeign(m)
      <4>1. o.radios /\ m.kind # "advert"
        BY <3>3 DEF RadioAvailable, BusyBySelf, BusyByForeign, Noticed, Arrives
      <4>2. o.phase # "discover"
        BY <1>1, <4>1 DEF OwnInv, Young
      <4> QED
        BY <1>1, <4>1, <4>2 DEF Live, LoggedIn, GrantAdvertised, Arrives
    <3> QED
      BY <1>4, <3>1, <3>2, <3>3
  <2>2. /\ DOMAIN c = Fields /\ (\A k \in Kinds : c[k].id = o[k].id /\ (c[k].pending => c[k] = o[k]))
        /\ c.phase = o.phase /\ c.pred = o.pred /\ c.id = o.id
    BY <1>1, ClearedAsks DEF Fields, Flags, Kinds
  <2> HIDE DEF c
  <2>3. /\ (\A k \in Kinds : denied[k] = c[k])
        /\ denied.phase = o.phase /\ denied.pred = o.pred /\ denied.id = o.id
    BY <2>2 DEF Fields, Flags, Kinds
  <2>4. /\ (\A k \in Kinds : taken[k] = o[k] /\ failed[k] = o[k])
        /\ taken.phase = o.phase /\ taken.pred = o.pred /\ taken.id = m.id
        /\ failed.phase = o.phase /\ failed.pred = o.pred /\ failed.id = o.id
    BY <1>1 DEF Fields, Flags, Kinds
  <2>5. /\ (\A k \in Kinds : asked[k].pending => asked[k] = o[k] \/ asked[k].id = o.id)
        /\ asked.phase = o.phase /\ asked.pred = o.pred /\ asked.id = o.id
        /\ asked.removal = o.removal
    BY <1>1 DEF setCurrentRadio, closeStreams, sendRequestStream, Begun, Fields, Flags, Kinds
  <2> HIDE DEF denied, taken, failed, asked
  <2>6. \A t \in {o, denied, failed, asked} :
           /\ \A k \in Kinds : t[k].pending => t[k] = o[k] \/ t[k].id[1] = o.id[1]
           /\ t.phase = o.phase /\ t.id[1] = o.id[1] /\ t.pred = o.pred
           /\ t.removal.id = o.removal.id
    BY <2>2, <2>3, <2>4, <2>5 DEF Kinds
  <2>7. \A t \in {o, denied, failed, asked} : Proper(m.p, t)
    BY <1>1, <2>1, <2>6, QuietProper
  <2>8. GrantAdvertised(m) => Proper(m.p, taken)
    <3>1. taken.removal = o.removal
      BY <2>4 DEF Kinds
    <3> QED
      BY <1>1, <2>1, <2>4, <3>1, QuietProper
  <2>9. \/ \E t \in {o, denied, failed, asked} : Receive(m, t)
        \/ GrantAdvertised(m) /\ Receive(m, taken)
    BY <1>4 DEF LoginDenied, GrantAdvertised, RadioAvailable, BusyBySelf, BusyByForeign,
                denied, taken, failed, asked, c
  <2> QED
    BY <1>1, <1>2, <2>7, <2>8, <2>9, ReceiveOwned
<1> QED
  BY <1>3, <1>4

\* Taking over a record of the dead.
LEMMA TakeoverProper ==
    ASSUME TypeInv, OwnInv, NEW p \in Procs, NEW x, DOMAIN x = Fields, x.phase \in LoggedIn,
           \A k \in Kinds : x[k].pending => x[k] = h[p][k],
           NEW j \in Recoverable
    PROVE  /\ Proper(p, beginPredecessorTokenRemoval(x, j)) /\ Whose(p, j.id[1])
           /\ beginPredecessorTokenRemoval(x, j).removal.id = j.id
<1> DEFINE t == beginPredecessorTokenRemoval(x, j)
           y == [x EXCEPT !.id = j.id]
           r == sendRemoval(y)
<1>1. /\ t.phase = x.phase /\ t.id = j.id /\ t.pred = j.owner
      /\ t.removal.id = j.id /\ \A k \in Kinds \ {"removal"} : t[k] = x[k]
  <2>1. DOMAIN y = Fields /\ y.phase = x.phase /\ y.id = j.id /\ \A k \in Kinds : y[k] = x[k]
    BY DEF Fields, Flags, Kinds
  <2> HIDE DEF y
  <2>2. /\ DOMAIN r = Fields /\ r.phase = y.phase /\ r.id = y.id /\ r.removal.id = y.id
        /\ \A k \in Kinds \ {"removal"} : r[k] = y[k]
    <3> DEFINE q == Begun(y, y.id)
    <3>1. r = [y EXCEPT !.removal = q, !.seq = @ + 1] /\ q.id = y.id
      BY DEF sendRemoval, Begun
    <3> HIDE DEF r, q
    <3> QED
      BY <2>1, <3>1 DEF Fields, Flags, Kinds
  <2> DEFINE b == r.retired \/ j.full
  <2>3. t = [r EXCEPT !.retired = b, !.pred = j.owner, !.attempts = 1,
                      !.ack = FALSE, !.disc = FALSE]
    BY DEF beginPredecessorTokenRemoval, y
  <2> HIDE DEF r, t, b
  <2>4. /\ t.phase = r.phase /\ t.id = r.id /\ t.pred = j.owner
        /\ \A k \in Kinds : t[k] = r[k]
    BY <2>2, <2>3 DEF Fields, Flags, Kinds
  <2> QED
    BY <2>1, <2>2, <2>4 DEF Kinds
<1>2. h[j.owner].phase = "dead" /\ Whose(j.owner, j.id[1])
  BY DEF Recoverable, OwnInv
<1>3. Whose(p, j.id[1])
  BY <1>2 DEF Whose
<1> HIDE DEF t
<1>4. \A k \in Fresh(p, t) : t[k].id[1] = t.id[1] \/ Whose(p, t[k].id[1])
  BY <1>1 DEF Fresh
<1>5. Young(t)
  BY <1>1 DEF Young, LoggedIn
<1>6. Proper(p, t)
  BY <1>1, <1>2, <1>3, <1>4, <1>5 DEF Proper
<1> QED
  BY <1>1, <1>3, <1>6 DEF t

LEMMA BusyBySiblingOwned ==
    ASSUME TypeInv, OwnInv, TypeInv', NEW m \in net, BusyBySibling(m)
    PROVE  OwnInv'
<1> DEFINE o == h[m.p]
           failed == [o EXCEPT !.reported = TRUE]
           x == [o EXCEPT !.reclaim = TRUE, !.ticking = FALSE, !.reclaims = @ + 1]
           known == {j \in Recoverable : j.owner = names[m.id[1]]}
<1>1. /\ Open(m.p) /\ m.p \in Procs /\ Sound(o, Len(names)) /\ Len(names) \in Nat
      /\ o.phase \in Live /\ DOMAIN o = Fields /\ o.radios /\ UNCHANGED journal
  BY Addressed DEF BusyBySibling, Noticed, Arrives
<1>2. o.phase \in LoggedIn
  <2>1. o.phase # "discover"
    BY <1>1 DEF OwnInv, Young
  <2> QED
    BY <1>1, <2>1 DEF Live, LoggedIn
<1>3. CASE Receive(m, o) \/ Receive(m, failed)
  <2>1. \A t \in {o, failed} :
           /\ \A k \in Kinds : t[k] = o[k]
           /\ t.phase = o.phase /\ t.id = o.id /\ t.pred = o.pred
           /\ t.removal = o.removal
    BY <1>1 DEF Fields, Flags, Kinds
  <2> HIDE DEF failed
  <2>2. \A t \in {o, failed} : Proper(m.p, t)
    BY <1>1, <1>2, <2>1, QuietProper
  <2> QED
    BY <1>1, <1>3, <2>2, ReceiveOwned
<1>4. ASSUME NEW j \in known,
             LET r == beginPredecessorTokenRemoval(x, j)
             IN  /\ h' = [h EXCEPT ![m.p] = r]
                 /\ net' = (net \ {m}) \cup Departures(o, j)
                            \cup {Msg("removal", m.p, r.removal.seq, r.removal.id)}
                 /\ UNCHANGED <<names, faults>>
      PROVE  OwnInv'
  <2> DEFINE r == beginPredecessorTokenRemoval(x, j)
  <2>1. DOMAIN x = Fields /\ x.phase = o.phase /\ \A k \in Kinds : x[k] = o[k]
    BY <1>1 DEF Fields, Flags, Kinds
  <2>2. j \in Recoverable
    OBVIOUS
  <2> HIDE DEF x
  <2>3. Proper(m.p, r) /\ Whose(m.p, j.id[1]) /\ r.removal.id = j.id
    BY <1>1, <1>2, <2>1, <2>2, TakeoverProper
  <2>4. r.phase = o.phase /\ r.id = j.id /\ r.pred = j.owner
    BY <2>1 DEF beginPredecessorTokenRemoval, sendRemoval, Fields, Flags, Kinds
  <2> HIDE DEF r
  <2>5. /\ h' = [h EXCEPT ![m.p] = r] /\ UNCHANGED names
        /\ net' = (net \ {m}) \cup Departures(o, j)
                            \cup {Msg("removal", m.p, r.removal.seq, r.removal.id)}
    BY <1>4 DEF r
  <2>6. h'[m.p] = r /\ \A q \in Procs \ {m.p} : h'[q] = h[q]
    BY <1>1, <2>5 DEF TypeInv, HandlersSound
  <2>7. Grown
    BY <2>5 DEF Grown, TypeInv
  <2>8. DeadStayDead
    BY <1>1, <2>6 DEF DeadStayDead, Open
  <2>9. \A q, n : Whose(q, n) => Whose(q, n)'
    BY <2>7, <2>8, WhoseLasts
  <2>10. ASSUME NEW q \in Procs, h'[q].phase \in LoggedIn
         PROVE  \A n : n = h'[q].id[1] => Whose(q, n)'
    <3>1. CASE q = m.p
      BY <2>3, <2>4, <2>6, <2>9, <3>1
    <3>2. CASE q # m.p
      BY <2>6, <2>9, <2>10, <3>2 DEF OwnInv
    <3> QED
      BY <3>1, <3>2
  <2>11. ASSUME NEW d \in net'
         PROVE  Traceable(d)'
    <3>1. CASE d \in net
      BY <2>9, <3>1 DEF OwnInv, Traceable
    <3>2. CASE d \in Departures(o, j)
      <4>1. d.p = NoProc
        BY <3>2 DEF Departures, Msg
      <4> QED
        BY <4>1 DEF Traceable
    <3>3. CASE d = Msg("removal", m.p, r.removal.seq, r.removal.id)
      <4>1. d.p = m.p /\ d.id = j.id
        BY <2>3, <3>3 DEF Msg
      <4> QED
        BY <2>3, <2>9, <4>1 DEF Traceable
    <3> QED
      BY <2>5, <3>1, <3>2, <3>3
  <2>12. \A i \in journal' : Whose(i.owner, i.id[1])'
    BY <1>1, <2>9 DEF OwnInv
  <2>13. \A q \in Procs : Young(h'[q]) /\ (h'[q].pred # NoProc => h'[h'[q].pred].phase = "dead")
    <3>1. \A q \in Procs : h'[q].pred # NoProc => h[h'[q].pred].phase = "dead"
      BY <2>3, <2>6 DEF OwnInv, Proper
    <3>2. \A q \in Procs : h'[q].pred \in Procs \cup {NoProc}
      BY DEF TypeInv, HandlersSound, Sound
    <3>3. \A q \in Procs : Young(h'[q])
      BY <2>3, <2>6 DEF OwnInv, Proper
    <3> QED
      BY <2>8, <3>1, <3>2, <3>3 DEF DeadStayDead
  <2>14. \A q \in Procs : h'[q].pred # NoProc => \A n : n = h'[q].removal.id[1] => Whose(q, n)'
    BY <2>3, <2>6, <2>9 DEF OwnInv, Proper
  <2>15. (\A q \in Procs : h[q].pred # NoProc => Whose(q, h[q].removal.id[1]))'
    BY <2>14 DEF Whose
  <2>16. (\A q \in Procs : h[q].phase \in LoggedIn => Whose(q, h[q].id[1]))'
    BY <2>10 DEF Whose
  <2> QED
    BY <2>11, <2>12, <2>13, <2>15, <2>16, Zenon DEF OwnInv
<1> QED
  BY <1>3, <1>4 DEF BusyBySibling

\* What completePredecessorTokenRemoval logs in with.
LEMMA DroppedAsks ==
    ASSUME NEW n \in Nat, NEW s, Sound(s, n)
    PROVE  /\ \A k \in Kinds : ~Dropped(s)[k].pending
           /\ Dropped(s).pred = NoProc
<1> DEFINE c == Cleared(s, Kinds)
           d == closeStreams(c)
           x == [d EXCEPT !.id = <<s.id[1], 0>>, !.gotAuth = FALSE, !.authed = FALSE,
                          !.pred = NoProc, !.retired = FALSE]
<1>1. Dropped(s) = selectIfKnown(x)
  BY Zenon DEF Dropped
<1>2. DOMAIN c = Fields /\ \A k \in Kinds : ~c[k].pending
  BY ClearedAsks
<1> HIDE DEF c
<1>3. DOMAIN d = Fields /\ \A k \in Kinds : d[k] = c[k]
  BY <1>2 DEF closeStreams, Fields, Flags, Kinds
<1> HIDE DEF d
<1>4. DOMAIN x = Fields /\ (\A k \in Kinds : x[k] = d[k]) /\ x.gotAuth = FALSE /\ x.pred = NoProc
  BY <1>3 DEF Fields, Flags, Kinds
<1> HIDE DEF x
<1>5. (\A k \in Kinds : selectIfKnown(x)[k] = x[k]) /\ selectIfKnown(x).pred = NoProc
  BY <1>4 DEF selectIfKnown, setCurrentRadio, closeStreams, Fields, Flags, Kinds
<1> QED
  BY <1>1, <1>2, <1>3, <1>4, <1>5

LEMMA RecoveryEndOwned ==
    ASSUME TypeInv, OwnInv, TypeInv', NEW m \in net,
           RemovalAcknowledged(m) \/ SessionEnded(m)
    PROVE  OwnInv'
<1> DEFINE o == h[m.p]
           c == Cleared(o, {"removal"})
           acked == [c EXCEPT !.ack = TRUE]
           told == [o EXCEPT !.disc = TRUE]
           d == closeStreams(told)
           over == [d EXCEPT !.owned = FALSE, !.reported = @ \/ ~told.reclaim]
<1>1. /\ Open(m.p) /\ m.p \in Procs /\ Sound(o, Len(names)) /\ Len(names) \in Nat
      /\ o.phase \in Live /\ DOMAIN o = Fields /\ o.seq \in Nat
  BY Addressed DEF RemovalAcknowledged, SessionEnded, Arrives, Sound
<1>2. \A j \in journal' : j \in journal
  BY DEF RemovalAcknowledged, SessionEnded, JournalWithout
<1>3. /\ DOMAIN c = Fields /\ (\A k \in Kinds : c[k].id = o[k].id /\ (c[k].pending => c[k] = o[k]))
      /\ c.phase = o.phase /\ c.pred = o.pred /\ c.id = o.id /\ c.seq = o.seq /\ Sound(c, Len(names))
  BY <1>1, ClearedAsks, ClearedSound DEF Fields, Flags, Kinds
<1> HIDE DEF c
<1>4. /\ \A k \in Kinds : acked[k].pending => acked[k] = o[k]
      /\ acked.phase = o.phase /\ acked.pred = o.pred /\ acked.id = o.id
      /\ acked.seq = o.seq /\ Sound(acked, Len(names)) /\ acked.removal.id = o.removal.id
  <2>1. Sound(acked, Len(names))
    BY <1>3 DEF Sound, Fields, Flags, Kinds
  <2> QED
    BY <1>3, <2>1 DEF Fields, Flags, Kinds
<1>5. /\ DOMAIN told = Fields /\ \A k \in Kinds : told[k] = o[k]
      /\ \A f \in Fields \ {"disc"} : told[f] = o[f]
  BY <1>1 DEF Fields, Flags, Kinds
<1>6. Sound(told, Len(names))
  BY <1>1 DEF Sound, Fields, Flags, Kinds
<1> HIDE DEF acked, told
<1>7. told.phase = o.phase /\ told.pred = o.pred /\ told.id = o.id /\ told.seq = o.seq
  BY <1>5 DEF Fields, Flags, Kinds
<1>8. ASSUME NEW t \in {d, over}
      PROVE  /\ \A k \in Kinds : t[k] = o[k]
             /\ t.phase = o.phase /\ t.pred = o.pred /\ t.id = o.id
             /\ t.owned => o.owned
             /\ t.radios = o.radios /\ t.gotAuth = o.gotAuth
  <2>1. /\ DOMAIN d = Fields /\ \A k \in Kinds : d[k] = o[k]
        /\ d.phase = o.phase /\ d.pred = o.pred /\ d.id = o.id
        /\ d.owned = o.owned /\ d.radios = o.radios /\ d.gotAuth = o.gotAuth
    BY <1>5 DEF closeStreams, Fields, Flags, Kinds
  <2> HIDE DEF d
  <2>2. /\ \A k \in Kinds : over[k] = d[k]
        /\ over.phase = d.phase /\ over.pred = d.pred /\ over.id = d.id
        /\ over.owned = FALSE /\ over.radios = d.radios /\ over.gotAuth = d.gotAuth
    BY <2>1 DEF Fields, Flags, Kinds
  <2> QED
    BY <2>1, <2>2
<1> HIDE DEF d, over
<1>9. CASE o.pred # NoProc
  <2>1. o.phase \in LoggedIn
    BY <1>1, <1>9 DEF OwnInv, Young, Live, LoggedIn
  <2>2. ASSUME NEW x \in {acked, told}
        PROVE  Proper(m.p, completePredecessorTokenRemoval(x))
    <3>1. Sound(x, Len(names)) /\ x.phase = o.phase /\ x.seq = o.seq
      BY <1>4, <1>6, <1>7
    <3>2. /\ completePredecessorTokenRemoval(x) = sendLogin(Dropped(x))
          /\ Sound(Dropped(x), Len(names)) /\ Dropped(x).phase = o.phase /\ Dropped(x).seq >= o.seq
          /\ \A k \in Kinds : ~Dropped(x)[k].pending
          /\ Dropped(x).pred = NoProc
      BY <1>1, <3>1, DroppedSound, DroppedAsks
    <3> QED
      BY <1>1, <2>1, <3>2, LoginProper
  <2>3. \E x \in {acked, told} : Receive(m, completePredecessorTokenRemoval(x))
    BY <1>4, <1>7, <1>9 DEF RemovalAcknowledged, SessionEnded, acked, told, c
  <2> QED
    BY <1>1, <1>2, <2>2, <2>3, ReceiveOwned
<1>10. CASE o.pred = NoProc
  <2>1. RemovalAcknowledged(m) => Receive(m, acked) /\ o.phase \in LoggedIn
    <3>1. ASSUME RemovalAcknowledged(m)
          PROVE  o.phase \in LoggedIn
      BY <3>1, ActsLoggedIn DEF RemovalAcknowledged
    <3> QED
      BY <1>4, <1>10, <3>1 DEF RemovalAcknowledged, acked, c
  <2>2. SessionEnded(m) => Receive(m, d) \/ Receive(m, over)
    BY <1>7, <1>10 DEF SessionEnded, told, d, over
  <2>3. o.phase \in LoggedIn => Proper(m.p, acked)
    BY <1>1, <1>4, QuietProper
  <2>4. ASSUME NEW t \in {d, over}
        PROVE  Proper(m.p, t)
    <3>1. Fresh(m.p, t) = {}
      BY <1>8 DEF Fresh
    <3>2. Young(o) /\ (o.phase \in LoggedIn => Whose(m.p, o.id[1])) /\ ("stream" \in Kinds)
      BY <1>1 DEF OwnInv, Kinds
    <3>3. t.stream = o.stream
      BY <1>8, <3>2
    <3>4. Young(t)
      BY <1>8, <3>2, <3>3, Zenon DEF Young
    <3> QED
      BY <1>8, <1>10, <3>1, <3>2, <3>4 DEF Proper
  <2> QED
    BY <1>1, <1>2, <2>1, <2>2, <2>3, <2>4, ReceiveOwned
<1> QED
  BY <1>9, <1>10

LEMMA ConnectingOwned ==
    ASSUME TypeInv, SessionAssumption, OwnInv, TypeInv', NEW p \in Procs,
           Connect(p) \/ TransportReady(p) \/ PredecessorRetry(p)
    PROVE  OwnInv'
<1> DEFINE o == h[p]
<1>1. /\ Sound(o, Len(names)) /\ DOMAIN o = Fields /\ Len(names) \in Nat /\ o.seq \in Nat
      /\ o.phase # "dead" /\ p # NoProc /\ journal' = journal
  BY OfProcess DEF Connect, TransportReady, PredecessorRetry, SessionAssumption
<1>2. ASSUME NEW s, NEW j
      PROVE  \A d \in Departures(s, j) : Traceable(d)
  BY DEF Departures, Msg, Traceable
<1>3. \A m \in net : Traceable(m)
  BY DEF OwnInv
<1>4. CASE Connect(p)
  <2> DEFINE s == Handler("discover")
             full == {j \in Recoverable : j.full}
             b == full # {}
             t == [s EXCEPT !.retired = b]
  <2>1. Become(p, t, net \cup UNION {Departures(s, j) : j \in full})
    BY <1>4 DEF Connect
  <2>2. /\ DOMAIN s = Fields /\ s.phase = "discover" /\ s.pred = NoProc
        /\ ~s.gotAuth /\ ~s.radios /\ ~s.owned /\ \A k \in Kinds : s[k] = NoRequest
    BY DEF Handler, Fields, Flags, Kinds
  <2> HIDE DEF s, b
  <2>3. /\ t.phase = "discover" /\ t.pred = NoProc
        /\ ~t.gotAuth /\ ~t.radios /\ ~t.owned /\ \A k \in Kinds : t[k] = NoRequest
    BY <2>2 DEF Fields, Flags, Kinds
  <2> HIDE DEF t
  <2>4. Young(t) /\ Fresh(p, t) = {}
    BY <2>3 DEF Young, Fresh, NoRequest, Kinds
  <2>5. Proper(p, t)
    BY <2>3, <2>4 DEF Proper, LoggedIn
  <2>6. \A m \in net \cup UNION {Departures(s, j) : j \in full} : Traceable(m)
    BY <1>2, <1>3
  <2> QED
    BY <1>1, <2>1, <2>5, <2>6, BecomeOwned
<1>5. CASE TransportReady(p)
  <2> DEFINE s == [o EXCEPT !.phase = "up"]
             x == [s EXCEPT !.reclaim = TRUE, !.reclaims = 1]
  <2>1. o.phase = "discover" /\ Young(o)
    BY <1>5 DEF TransportReady, OwnInv
  <2>2. \A k \in Kinds : ~o[k].pending
    BY <2>1 DEF Young
  <2>3. o.pred = NoProc
    BY <2>1 DEF Young
  <2>4. /\ DOMAIN s = Fields /\ s.phase = "up" /\ s.pred = NoProc /\ s.seq = o.seq
        /\ \A k \in Kinds : s[k] = o[k]
    BY <1>1, <2>3 DEF Fields, Flags, Kinds
  <2>5. Sound(s, Len(names))
    <3>1. "up" \in Phases
      BY DEF Phases
    <3> QED
      BY <1>1, <3>1 DEF Sound, Fields, Flags, Kinds
  <2> HIDE DEF s
  <2>6. CASE Become(p, sendLogin(s), net)
    <3>1. Proper(p, sendLogin(s))
      BY <1>1, <2>2, <2>4, <2>5, LoginProper DEF LoggedIn
    <3> QED
      BY <1>1, <1>3, <2>6, <3>1, BecomeOwned
  <2>7. ASSUME NEW j \in Recoverable,
               Become(p, beginPredecessorTokenRemoval(x, j), net \cup Departures(s, j))
        PROVE  OwnInv'
    <3>1. DOMAIN x = Fields /\ x.phase = "up" /\ \A k \in Kinds : x[k] = o[k]
      BY <2>4 DEF Fields, Flags, Kinds
    <3> HIDE DEF x
    <3>2. Proper(p, beginPredecessorTokenRemoval(x, j))
      BY <3>1, TakeoverProper DEF LoggedIn
    <3>3. \A m \in net \cup Departures(s, j) : Traceable(m)
      BY <1>2, <1>3
    <3> QED
      BY <1>1, <2>7, <3>2, <3>3, BecomeOwned
  <2> QED
    BY <1>5, <2>6, <2>7 DEF TransportReady, s
<1>6. CASE PredecessorRetry(p)
  <2> DEFINE again == [o EXCEPT !.attempts = @ + 1]
             given == [o EXCEPT !.pred = NoProc, !.attempts = 0, !.reported = TRUE]
             d == Msg("removal", p, again.removal.seq, again.removal.id)
  <2>1. /\ \A k \in Kinds : again[k] = o[k] /\ given[k] = o[k]
        /\ again.phase = o.phase /\ again.id = o.id /\ again.pred = o.pred
        /\ given.phase = o.phase /\ given.id = o.id /\ given.pred = NoProc
        /\ again.removal = o.removal /\ given.removal = o.removal
    BY <1>1 DEF Fields, Flags, Kinds
  <2>2. o.phase = "up" /\ o.pred # NoProc
    BY <1>6 DEF PredecessorRetry
  <2>3. Become(p, again, net \cup {d}) \/ Become(p, given, net)
    BY <1>6 DEF PredecessorRetry, Resent
  <2> HIDE DEF again, given
  <2>4. Proper(p, again) /\ Proper(p, given)
    BY <2>1, <2>2, QuietProper DEF LoggedIn
  <2>5. Traceable(d)
    <3>1. d.p = p /\ d.id = o.removal.id
      BY <2>1 DEF Msg, Kinds
    <3>2. Whose(p, o.removal.id[1])
      BY <2>2 DEF OwnInv
    <3> QED
      BY <3>1, <3>2 DEF Traceable
  <2> QED
    BY <1>1, <1>3, <2>3, <2>4, <2>5, BecomeOwned
<1> QED
  BY <1>4, <1>5, <1>6

LEMMA LoginAgainOwned ==
    ASSUME TypeInv, SessionAssumption, OwnInv, TypeInv', NEW p \in Procs, LoginAgain(p)
    PROVE  OwnInv'
<1> DEFINE o == h[p]
           s == [o EXCEPT !.relogin = FALSE]
           c == setCurrentRadio(s)
           x == selectIfKnown(s)
<1>1. /\ Sound(o, Len(names)) /\ DOMAIN o = Fields /\ Len(names) \in Nat /\ o.seq \in Nat
      /\ o.phase = "up" /\ journal' = journal
  BY OfProcess DEF LoginAgain
<1>2. /\ Sound(s, Len(names)) /\ DOMAIN s = Fields /\ s.phase = o.phase /\ s.seq = o.seq
      /\ s.id = o.id /\ s.pred = o.pred /\ \A k \in Kinds : s[k] = o[k]
  BY <1>1 DEF Sound, Fields, Flags, Kinds
<1> HIDE DEF s
<1>3. Sound(x, Len(names)) /\ x.phase = o.phase /\ x.seq >= o.seq
  BY <1>1, <1>2, SelectSound, SelectKeeps
<1>4. /\ c.pred = s.pred /\ c.removal = s.removal
      /\ \A k \in Kinds : c[k] = s[k] \/ c[k].id = s.id
  BY <1>2 DEF setCurrentRadio, closeStreams, sendRequestStream, Begun, Fields, Flags, Kinds
<1>5. x = c \/ x = s
  BY DEF selectIfKnown
<1> HIDE DEF c, x
<1>6. /\ x.pred = o.pred /\ x.removal = o.removal
      /\ \A k \in Kinds : x[k] = o[k] \/ x[k].id = o.id
  <2>1. "removal" \in Kinds
    BY DEF Kinds
  <2> QED
    BY <1>2, <1>4, <1>5, <2>1
<1>7. o.phase \in LoggedIn /\ Whose(p, o.id[1])
  BY <1>1 DEF OwnInv, LoggedIn
<1>8. x.pred = NoProc \/ (h[x.pred].phase = "dead" /\ Whose(p, x.removal.id[1]))
  BY <1>6 DEF OwnInv
<1>9. Proper(p, sendLogin(x))
  BY <1>3, <1>6, <1>7, <1>8, LoginProper
<1>10. Become(p, sendLogin(x), net)
  BY DEF LoginAgain, x, s
<1> QED
  BY <1>1, <1>9, <1>10, BecomeOwned DEF OwnInv

LEMMA RunningOwned ==
    ASSUME TypeInv, SessionAssumption, OwnInv, TypeInv', NEW p \in Procs,
           \/ MediaReady(p) \/ RenewalDue(p) \/ RemovalAttempt(p)
           \/ (Shutdown(p) /\ permitsRadioTeardown(h[p])) \/ SettleEnds(p)
    PROVE  OwnInv'
<1> DEFINE o == h[p]
           again == [o EXCEPT !.attempts = @ + 1]
           heard == [o EXCEPT !.media = TRUE]
           renewing == sendRenewal(o)
           asking == sendRemoval(again)
           closing == [o EXCEPT !.phase = "settling", !.ticking = FALSE,
                                !.ack = FALSE, !.disc = FALSE]
           ending == [o EXCEPT !.phase = "removing", !.attempts = 0, !.disc = FALSE]
           d == Msg("depart", NoProc, 0, o.id)
<1>1. DOMAIN o = Fields /\ DOMAIN h = Procs
  BY OfProcess
<1>2. o.phase \in LoggedIn
  <2>1. Young(o)
    BY DEF OwnInv
  <2> QED
    BY <2>1 DEF Young, MediaReady, RenewalDue, RemovalAttempt, Shutdown, SettleEnds, LoggedIn,
                permitsRadioTeardown
<1>3. ASSUME NEW t \in {heard, closing, ending}
      PROVE  /\ \A k \in Kinds : t[k] = o[k]
             /\ t.id = o.id /\ t.pred = o.pred /\ t.removal = o.removal /\ t.phase \in LoggedIn
  <2>1. /\ \A k \in Kinds : heard[k] = o[k] /\ closing[k] = o[k] /\ ending[k] = o[k]
        /\ heard.id = o.id /\ closing.id = o.id /\ ending.id = o.id
        /\ heard.pred = o.pred /\ closing.pred = o.pred /\ ending.pred = o.pred
        /\ heard.phase = o.phase /\ closing.phase = "settling" /\ ending.phase = "removing"
    BY <1>1 DEF Fields, Flags, Kinds
  <2> HIDE DEF heard, closing, ending
  <2> QED
    BY <1>2, <2>1 DEF LoggedIn, Kinds
<1>4. /\ renewing.renewal.id = o.id /\ \A k \in Kinds \ {"renewal"} : renewing[k] = o[k]
      /\ renewing.id = o.id /\ renewing.pred = o.pred /\ renewing.phase = o.phase
      /\ renewing.removal = o.removal
  BY <1>1 DEF sendRenewal, Begun, Fields, Flags, Kinds
<1>5. /\ asking.removal.id = o.id /\ \A k \in Kinds \ {"removal"} : asking[k] = o[k]
      /\ asking.id = o.id /\ asking.pred = o.pred /\ asking.phase = o.phase
  <2>1. /\ DOMAIN again = Fields /\ again.id = o.id /\ again.pred = o.pred
        /\ again.phase = o.phase /\ \A k \in Kinds : again[k] = o[k]
    BY <1>1 DEF Fields, Flags, Kinds
  <2> HIDE DEF again
  <2> QED
    BY <2>1 DEF sendRemoval, Begun, Fields, Flags, Kinds
<1> HIDE DEF heard, closing, ending, renewing, asking
<1>6. Proper(p, heard) /\ Proper(p, closing) /\ Proper(p, ending)
  <2>1. ASSUME NEW t \in {heard, closing, ending}
        PROVE  Proper(p, t)
    BY <1>2, <1>3, QuietProper
  <2> QED
    BY <2>1
<1>7. Proper(p, renewing)
  BY <1>2, <1>4, QuietProper
<1>8. Proper(p, asking)
  BY <1>2, <1>5, QuietProper
<1>9. Whose(p, o.id[1]) /\ o.phase # "dead" /\ \A m \in net : Traceable(m)
  BY <1>2 DEF OwnInv, LoggedIn
<1>10. Traceable(d)
  BY DEF Traceable, Msg
<1>11. CASE MediaReady(p)
  BY <1>6, <1>9, <1>11, BecomeOwned DEF MediaReady, heard
<1>12. CASE RenewalDue(p)
  BY <1>7, <1>9, <1>12, BecomeOwned DEF RenewalDue, renewing
<1>13. CASE RemovalAttempt(p)
  BY <1>8, <1>9, <1>13, BecomeOwned DEF RemovalAttempt, asking
<1>14. CASE Shutdown(p) /\ permitsRadioTeardown(h[p])
  <2>1. PICK rest \in {net, net \cup {d}} : Become(p, closing, rest)
    BY <1>14 DEF Shutdown, closing
  <2>2. UNCHANGED journal
    BY <1>14 DEF Shutdown
  <2> QED
    BY <1>6, <1>9, <1>10, <2>1, <2>2, BecomeOwned
<1>15. CASE SettleEnds(p)
  <2>1. UNCHANGED <<journal, net, names>> /\ h' = [h EXCEPT ![p] = ending]
    BY <1>1, <1>15 DEF SettleEnds, ending
  <2>2. Fresh(p, ending) = {}
    BY <1>3 DEF Fresh
  <2>3. Become(p, ending, net)
    BY <2>1, <2>2 DEF Become
  <2> QED
    BY <1>6, <1>9, <2>1, <2>3, BecomeOwned
<1> QED
  BY <1>11, <1>12, <1>13, <1>14, <1>15

\* A handler that is gone leaves what it named to the others.
LEMMA GoneOwned ==
    ASSUME TypeInv, OwnInv, TypeInv', NEW p \in Procs, NEW phase \in {"off", "dead"}, h[p].phase # "dead",
           h' = [h EXCEPT ![p] = Handler(phase)], UNCHANGED names,
           journal' \subseteq journal,
           \A m \in net' : m \in Orphaned(p) \/ m.p = NoProc
    PROVE  OwnInv'
<1> DEFINE t == Handler(phase)
<1>1. t.phase = phase /\ t.pred = NoProc
  BY DEF Handler
<1>2. h'[p] = t /\ \A q \in Procs \ {p} : h'[q] = h[q]
  BY OfProcess
<1> HIDE DEF t
<1>3. DeadStayDead
  BY <1>2 DEF DeadStayDead
<1>4. \A q, n : Whose(q, n) => Whose(q, n)'
  <2>1. Grown
    BY DEF Grown, TypeInv
  <2> QED
    BY <1>3, <2>1, WhoseLasts
<1>5. t.phase \notin LoggedIn /\ Young(t)
  BY <1>1 DEF LoggedIn, Young
<1>6. \A q \in Procs : h'[q].phase \in LoggedIn => \A n : n = h'[q].id[1] => Whose(q, n)'
  BY <1>2, <1>4, <1>5 DEF OwnInv
<1>7. \A q \in Procs : h'[q].pred # NoProc => \A n : n = h'[q].removal.id[1] => Whose(q, n)'
  BY <1>1, <1>2, <1>4 DEF OwnInv
<1>8. \A m \in net' : Traceable(m)'
  <2>1. \A m \in net : m.p # p => Traceable(m)'
    BY <1>4 DEF OwnInv, Traceable
  <2>2. \A m \in net' : m.p = NoProc \/ (m \in net /\ m.p # p)
    <3>1. ASSUME NEW m \in net' PROVE m.p = NoProc \/ (m \in net /\ m.p # p)
      <4>1. CASE m.p = NoProc \/ m \in {o \in net : o.p # p}
        BY <4>1
      <4>2. CASE m \in {[o EXCEPT !.p = NoProc] : o \in {u \in net : u.p = p /\ u.kind \in Requests}}
        <5>1. PICK o \in net : m = [o EXCEPT !.p = NoProc]
          BY <4>2
        <5>2. o \in Mail(Len(names))
          BY DEF TypeInv, MailSound
        <5> QED
          BY <5>1, <5>2 DEF Mail
      <4> QED
        BY <4>1, <4>2 DEF Orphaned
    <3> QED
      BY <3>1
  <2>3. \A m \in net' : m.p = NoProc => Traceable(m)'
    BY DEF Traceable
  <2> QED
    BY <2>1, <2>2, <2>3
<1>9. \A j \in journal' : Whose(j.owner, j.id[1])'
  BY <1>4 DEF OwnInv
<1>10. \A q \in Procs : Young(h'[q])
  BY <1>2, <1>5 DEF OwnInv
<1>11. \A q \in Procs : h'[q].pred # NoProc => h'[h'[q].pred].phase = "dead"
  <2>1. \A q \in Procs : h'[q].pred # NoProc => h[h'[q].pred].phase = "dead" /\ h'[q].pred \in Procs
    <3>1. \A q \in Procs : h'[q].pred # NoProc => h[h'[q].pred].phase = "dead"
      BY <1>1, <1>2 DEF OwnInv
    <3>2. \A q \in Procs : h'[q].pred \in Procs \cup {NoProc}
      BY DEF TypeInv, HandlersSound, Sound
    <3> QED
      BY <3>1, <3>2
  <2> QED
    BY <1>3, <2>1 DEF DeadStayDead
<1>12. /\ (\A q \in Procs : h[q].phase \in LoggedIn => Whose(q, h[q].id[1]))'
       /\ (\A q \in Procs : h[q].pred # NoProc => Whose(q, h[q].removal.id[1]))'
  BY <1>6, <1>7 DEF Whose
<1> QED
  BY <1>8, <1>9, <1>10, <1>11, <1>12, Zenon DEF OwnInv

LEMMA TeardownOwned ==
    ASSUME TypeInv, SessionAssumption, OwnInv, TypeInv', NEW p \in Procs,
           Shutdown(p) \/ ShutdownCompletes(p) \/ Crash(p)
    PROVE  OwnInv'
<1>1. CASE Shutdown(p) /\ permitsRadioTeardown(h[p])
  BY <1>1, RunningOwned
<1>2. CASE Shutdown(p) /\ ~permitsRadioTeardown(h[p])
  BY <1>2, GoneOwned DEF Shutdown, Closed
<1>3. CASE ShutdownCompletes(p)
  <2>1. \A m \in net' : m \in Orphaned(p) \/ m.p = NoProc
    BY <1>3 DEF ShutdownCompletes, Msg
  <2> QED
    BY <1>3, <2>1, GoneOwned DEF ShutdownCompletes, Closed, ReleasedJournal, JournalWithout
<1>4. CASE Crash(p)
  BY <1>4, GoneOwned DEF Crash
<1> QED
  BY <1>1, <1>2, <1>3, <1>4

\* Steps of the radio and of the network leave handlers, journal and names.
LEMMA OutsideOwned ==
    ASSUME TypeInv, OwnInv, UNCHANGED <<h, journal, names>>,
           \A m \in net' : m \in net \/ Traceable(m)
    PROVE  OwnInv'
<1>1. \A q, n : Whose(q, n) => Whose(q, n)'
  BY DEF Whose
<1>2. \A m \in net' : Traceable(m)'
  BY <1>1 DEF OwnInv, Traceable
<1>3. \A q \in Procs : h'[q] = h[q]
  OBVIOUS
<1>4. /\ (\A q \in Procs : h[q].phase \in LoggedIn => Whose(q, h[q].id[1]))'
      /\ (\A q \in Procs : h[q].pred # NoProc => Whose(q, h[q].removal.id[1]))'
      /\ (\A j \in journal : Whose(j.owner, j.id[1]))'
  BY <1>3 DEF OwnInv, Whose
<1>5. \A q \in Procs : Young(h'[q]) /\ (h'[q].pred # NoProc => h'[h'[q].pred].phase = "dead")
  BY <1>3 DEF OwnInv
<1> QED
  BY <1>2, <1>4, <1>5, Zenon DEF OwnInv

LEMMA AtRadioOwned ==
    ASSUME TypeInv, OwnInv, "reissue" \notin RadioMay, NEW m \in net, AtRadio(m)
    PROVE  OwnInv'
<1>1. ASSUME NEW replies, Answer(m, replies),
             \A d \in replies : d.p = m.p /\ d.id \in {m.id, Id(m.id[1])}, m.kind \in Traced
      PROVE  OwnInv'
  <2>1. Traceable(m)
    BY DEF OwnInv
  <2>2. \A d \in replies : d.id[1] = m.id[1]
    BY <1>1 DEF Id
  <2>3. \A d \in replies : Traceable(d)
    BY <1>1, <2>1, <2>2 DEF Traceable
  <2>4. UNCHANGED <<h, journal, names>> /\ \A d \in net' : d \in net \/ Traceable(d)
    BY <1>1, <2>3 DEF Answer
  <2> QED
    BY <2>4, OutsideOwned
<1>2. \A kind, id : Msg(kind, m.p, m.seq, id).p = m.p /\ Msg(kind, m.p, m.seq, id).id = id
  BY DEF Msg
<1>3. {"login", "renewal", "removal", "stream"} \subseteq Traced
  BY DEF Traced
<1>4. CASE RadioLogin(m)
  BY <1>1, <1>2, <1>3, <1>4 DEF RadioLogin, Sent
<1>5. CASE RadioRenews(m)
  BY <1>1, <1>2, <1>3, <1>5 DEF RadioRenews, Sent
<1>6. CASE RadioRemoves(m)
  BY <1>1, <1>2, <1>3, <1>6 DEF RadioRemoves, Sent
<1>7. CASE RadioGrants(m)
  <2>1. \A d \in {Msg("grant", m.p, m.seq, m.id), Msg("advert", m.p, m.seq, m.id)} :
            d.p = m.p /\ d.id \in {m.id, Id(m.id[1])}
    BY <1>2
  <2> QED
    BY <1>1, <1>3, <1>7, <2>1 DEF RadioGrants, Sent
<1>8. CASE RadioRejects(m)
  BY <1>1, <1>2, <1>3, <1>8 DEF RadioRejects, Sent
<1>9. CASE RadioSeesDeparture(m)
  BY <1>9, OutsideOwned DEF RadioSeesDeparture, Answer
<1> QED
  BY <1>4, <1>5, <1>6, <1>7, <1>8, <1>9 DEF AtRadio

LEMMA SurroundingsOwned ==
    ASSUME TypeInv, OwnInv,
           \/ \E p \in Procs : RadioAdvertises(p)
           \/ \E m \in net : Ignored(m) \/ Lose(m)
           \/ Environment
    PROVE  OwnInv'
<1>1. UNCHANGED <<h, journal, names>>
  BY DEF RadioAdvertises, Ignored, Lose, Environment, RadioEnds, RadioForgets, ForeignTakes, ForeignLeaves
<1>2. \A m \in net' : m \in net \/ m.kind \in {"free", "foreign", "busy", "ended"}
  <2>1. CASE \E p \in Procs : RadioAdvertises(p)
    BY <2>1 DEF RadioAdvertises, Msg
  <2>2. CASE \E m \in net : Ignored(m) \/ Lose(m)
    BY <2>2 DEF Ignored, Lose
  <2>3. CASE Environment
    BY <2>3 DEF Environment, RadioEnds, RadioForgets, ForeignTakes, ForeignLeaves, Msg
  <2> QED
    BY <2>1, <2>2, <2>3
<1>3. \A m \in net' : m \in net \/ Traceable(m)
  BY <1>2 DEF Traceable, Traced
<1> QED
  BY <1>1, <1>3, OutsideOwned

LEMMA InitOwned == ASSUME SessionAssumption, Init PROVE OwnInv
<1>1. \A p \in Procs : h[p].phase = "off" /\ h[p].pred = NoProc
  BY DEF Init, Handler
<1> QED
  BY <1>1 DEF Init, OwnInv, Young, LoggedIn

LEMMA StepOwned ==
    ASSUME TypeInv, SessionAssumption, OwnInv, "reissue" \notin RadioMay, [Next]_vars
    PROVE  OwnInv'
<1>1. TypeInv'
  BY StepTyped
<1>2. ASSUME NEW p \in Procs,
             Connect(p) \/ Shutdown(p) \/ Crash(p) \/ Teardown(p) \/ Timers(p) \/ RadioAdvertises(p)
      PROVE  OwnInv'
  <2>1. CASE Shutdown(p) \/ Crash(p) BY <1>1, <2>1, TeardownOwned
  <2>2. CASE Teardown(p)
    BY <1>1, <2>2, TeardownOwned, RunningOwned, Zenon DEF Teardown
  <2>3. CASE Connect(p) \/ Timers(p)
    BY <1>1, <2>3, ConnectingOwned, LoginAgainOwned, RunningOwned, Zenon DEF Timers
  <2>4. CASE RadioAdvertises(p) BY <2>4, SurroundingsOwned
  <2> QED
    BY <1>2, <2>1, <2>2, <2>3, <2>4
<1>3. ASSUME NEW m \in net, Arrival(m)
      PROVE  OwnInv'
  <2>1. CASE LoginResponse(m) \/ TokenRenewed(m) \/ TokenRefused(m)
    BY <1>1, <2>1, LoginResponseOwned, TokenRenewedOwned, TokenRefusedOwned
  <2>2. CASE StreamGranted(m) \/ StreamRejected(m) BY <1>1, <2>2, StreamRepliesOwned
  <2>3. CASE \/ LoginDenied(m) \/ GrantAdvertised(m) \/ InfoIgnored(m) \/ RadioAvailable(m)
             \/ BusyBySelf(m) \/ BusyByForeign(m)
    BY <1>1, <2>3, InfoOwned
  <2>4. CASE BusyBySibling(m) BY <1>1, <2>4, BusyBySiblingOwned
  <2>5. CASE RemovalAcknowledged(m) \/ SessionEnded(m) BY <1>1, <2>5, RecoveryEndOwned
  <2>6. CASE Ignored(m) BY <2>6, SurroundingsOwned
  <2> QED
    BY <1>3, <2>1, <2>2, <2>3, <2>4, <2>5, <2>6, Zenon DEF Arrival
<1>4. ASSUME NEW m \in net, AtRadio(m) \/ Lose(m)
      PROVE  OwnInv'
  BY <1>4, AtRadioOwned, SurroundingsOwned
<1>5. CASE Environment BY <1>5, SurroundingsOwned
<1>6. CASE UNCHANGED vars
  <2>1. UNCHANGED <<h, journal, names, net>>
    BY <1>6 DEF vars
  <2> QED
    BY <2>1, OutsideOwned
<1> QED
  BY <1>2, <1>3, <1>4, <1>5, <1>6, Zenon DEF Next

-----------------------------------------------------------------------------
(* What a closing handler may do.                                          *)

Closes == {"settling", "removing"}

\* A step that changes the handler of one process only.
Touches(q) == h' = h \/ \E t : h' = [h EXCEPT ![q] = t]

LEMMA ReceiveTouches == ASSUME NEW m, NEW t, Receive(m, t) PROVE Touches(m.p)
BY DEF Receive, Become, Touches

LEMMA ArrivalTouches == ASSUME NEW m, Arrival(m) PROVE Touches(m.p)
<1>1. CASE LoginResponse(m) BY <1>1, ReceiveTouches DEF LoginResponse
<1>2. CASE LoginDenied(m) BY <1>2, ReceiveTouches DEF LoginDenied
<1>3. CASE TokenRenewed(m) BY <1>3, ReceiveTouches DEF TokenRenewed
<1>4. CASE TokenRefused(m) BY <1>4, ReceiveTouches DEF TokenRefused
<1>5. CASE StreamGranted(m) BY <1>5, ReceiveTouches DEF StreamGranted
<1>6. CASE StreamRejected(m) BY <1>6, ReceiveTouches DEF StreamRejected
<1>7. CASE GrantAdvertised(m) \/ InfoIgnored(m) \/ RadioAvailable(m)
  BY <1>7, ReceiveTouches DEF GrantAdvertised, InfoIgnored, RadioAvailable
<1>8. CASE BusyBySelf(m) \/ BusyByForeign(m)
  BY <1>8, ReceiveTouches DEF BusyBySelf, BusyByForeign
<1>9. CASE BusyBySibling(m) BY <1>9, ReceiveTouches DEF BusyBySibling, Touches
<1>10. CASE RemovalAcknowledged(m)
  <2>1. \E t : Receive(m, t)
    BY <1>10 DEF RemovalAcknowledged
  <2> QED
    BY <2>1, ReceiveTouches
<1>11. CASE SessionEnded(m)
  <2>1. \E t : Receive(m, t)
    BY <1>11 DEF SessionEnded
  <2> QED
    BY <2>1, ReceiveTouches
<1>12. CASE Ignored(m) BY <1>12 DEF Ignored, Touches
<1> QED
  BY <1>1, <1>2, <1>3, <1>4, <1>5, <1>6, <1>7, <1>8, <1>9, <1>10, <1>11, <1>12, Zenon DEF Arrival

\* Closing: what p begins, and what becomes of its streams.
Quiet(p, t) == Fresh(p, t) \subseteq {"removal"} /\ (t.opened => h[p].opened)

LEMMA ClosingHears ==
    ASSUME TypeInv, NEW m \in net, Arrival(m), m.p \in Procs, h[m.p].phase \in Closes,
           h[m.p].pred = NoProc
    PROVE  Quiet(m.p, h'[m.p])
<1> DEFINE o == h[m.p]
<1>1. /\ Sound(o, Len(names)) /\ DOMAIN o = Fields /\ Len(names) \in Nat /\ DOMAIN h = Procs
      /\ ~Listening(o)
  BY OfProcess DEF Closes, Listening
<1>2. \A kind : Arrives(m, kind) => kind \in {"welcome", "removed", "ended"}
  BY <1>1 DEF Arrives, Relevant
<1>3. ASSUME NEW t, Receive(m, t) PROVE h'[m.p] = t
  BY <1>1, <1>3 DEF Receive, Become
<1>4. CASE LoginResponse(m)
  <2> DEFINE c == Cleared(o, {"login"})
             s == [c EXCEPT !.radios = @ \/ Listening(o)]
             answered == [s EXCEPT !.id[2] = m.id[2]]
  <2>1. /\ DOMAIN c = Fields /\ (\A k \in Kinds : c[k].id = o[k].id /\ (c[k].pending => c[k] = o[k]))
        /\ c.phase = o.phase /\ c.opened = o.opened
    BY <1>1, ClearedAsks DEF Fields, Flags, Kinds
  <2> HIDE DEF c
  <2>2. /\ DOMAIN s = Fields /\ (\A k \in Kinds : s[k] = c[k])
        /\ s.phase = o.phase /\ s.opened = o.opened
    BY <2>1 DEF Fields, Flags, Kinds
  <2>3. ~Listening(s)
    BY <1>1, <2>2 DEF Listening
  <2>4. (\A k \in Kinds : answered[k] = s[k]) /\ answered.opened = s.opened
    BY <2>2 DEF Fields, Flags, Kinds
  <2>5. Receive(m, answered)
    BY <1>4, <2>3 DEF LoginResponse, c
  <2> HIDE DEF s, answered
  <2>6. Fresh(m.p, answered) = {}
    BY <2>1, <2>2, <2>4 DEF Fresh
  <2> QED
    BY <1>3, <2>2, <2>4, <2>5, <2>6 DEF Quiet
<1>5. CASE RemovalAcknowledged(m)
  <2> DEFINE c == Cleared(o, {"removal"})
             s == [c EXCEPT !.ack = TRUE]
  <2>1. /\ DOMAIN c = Fields /\ (\A k \in Kinds : c[k].id = o[k].id /\ (c[k].pending => c[k] = o[k]))
        /\ c.opened = o.opened /\ c.pred = o.pred
    BY <1>1, ClearedAsks DEF Fields, Flags, Kinds
  <2> HIDE DEF c
  <2>2. (\A k \in Kinds : s[k] = c[k]) /\ s.opened = o.opened /\ s.pred = o.pred
    BY <2>1 DEF Fields, Flags, Kinds
  <2>3. Receive(m, s)
    BY <1>5, <2>2 DEF RemovalAcknowledged, c
  <2> HIDE DEF s
  <2>4. Fresh(m.p, s) = {}
    BY <2>1, <2>2 DEF Fresh
  <2> QED
    BY <1>3, <2>2, <2>3, <2>4 DEF Quiet
<1>6. CASE SessionEnded(m)
  <2> DEFINE s == [o EXCEPT !.disc = TRUE]
             t == closeStreams(s)
  <2>1. /\ DOMAIN s = Fields /\ (\A k \in Kinds : s[k] = o[k])
        /\ s.phase = o.phase /\ s.pred = o.pred
    BY <1>1 DEF Fields, Flags, Kinds
  <2>2. ~Listening(s)
    BY <1>1, <2>1 DEF Listening
  <2>3. Receive(m, t)
    BY <1>6, <2>1, <2>2 DEF SessionEnded
  <2> HIDE DEF s
  <2>4. (\A k \in Kinds : t[k] = s[k]) /\ ~t.opened
    BY <2>1 DEF closeStreams, Fields, Flags, Kinds
  <2> HIDE DEF t
  <2>5. Fresh(m.p, t) = {}
    BY <2>1, <2>4 DEF Fresh
  <2> QED
    BY <1>3, <2>3, <2>4, <2>5 DEF Quiet
<1>7. CASE Ignored(m)
  BY <1>7 DEF Ignored, Quiet, Fresh
<1>8. CASE \/ LoginDenied(m) \/ TokenRenewed(m) \/ TokenRefused(m) \/ StreamGranted(m)
           \/ StreamRejected(m) \/ GrantAdvertised(m) \/ InfoIgnored(m) \/ RadioAvailable(m)
           \/ BusyBySelf(m) \/ BusyByForeign(m) \/ BusyBySibling(m)
  <2>1. \E kind \in {"denied", "renewed", "refused", "grant", "rejected", "advert", "free",
                     "foreign", "busy"} : Arrives(m, kind)
    BY <1>8 DEF LoginDenied, TokenRenewed, TokenRefused, StreamGranted, StreamRejected,
                GrantAdvertised, InfoIgnored, RadioAvailable, BusyBySelf, BusyByForeign,
                BusyBySibling, Noticed
  <2> QED
    BY <1>2, <2>1, Zenon
<1> QED
  BY <1>4, <1>5, <1>6, <1>7, <1>8, Zenon DEF Arrival

\* A handler that closes, and goes on closing, begins nothing but removals.
LEMMA ClosingStep ==
    ASSUME TypeInv, SessionAssumption, [Next]_vars, NEW p \in Procs,
           h[p].phase \in Closes, h'[p].phase \in Closes, h[p].pred = NoProc
    PROVE  Quiet(p, h'[p])
<1> DEFINE o == h[p]
<1>1. DOMAIN o = Fields /\ DOMAIN h = Procs
  BY OfProcess
<1>2. ASSUME h'[p] = o PROVE Quiet(p, h'[p])
  <2>1. \A k \in Kinds : h'[p][k].seq = h[p][k].seq
    BY <1>2
  <2>2. Fresh(p, h'[p]) = {}
    BY <2>1 DEF Fresh
  <2> QED
    BY <1>2, <2>2 DEF Quiet
<1>3. ASSUME NEW q, q # p, Touches(q) PROVE h'[p] = o
  BY <1>1, <1>3 DEF Touches
<1>4. ASSUME NEW q \in Procs,
             Connect(q) \/ Shutdown(q) \/ Crash(q) \/ Teardown(q) \/ Timers(q)
      PROVE  Quiet(p, h'[p])
  <2>1. CASE q # p
    <3>1. Touches(q)
      <4>1. CASE Connect(q) BY <4>1 DEF Connect, Become, Touches
      <4>2. CASE Shutdown(q) \/ Crash(q) BY <4>2 DEF Shutdown, Crash, Closed, Become, Touches
      <4>3. CASE SettleEnds(q) BY <4>3 DEF SettleEnds, Touches
      <4>4. CASE RemovalAttempt(q) BY <4>4 DEF RemovalAttempt, Become, Touches
      <4>5. CASE ShutdownCompletes(q) BY <4>5 DEF ShutdownCompletes, Closed, Touches
      <4>6. CASE TransportReady(q) \/ PredecessorRetry(q)
        BY <4>6 DEF TransportReady, PredecessorRetry, Become, Touches
      <4>7. CASE LoginAgain(q) \/ MediaReady(q) \/ RenewalDue(q)
        BY <4>7 DEF LoginAgain, MediaReady, RenewalDue, Become, Touches
      <4> QED
        BY <1>4, <4>1, <4>2, <4>3, <4>4, <4>5, <4>6, <4>7, Zenon DEF Teardown, Timers
    <3> QED
      BY <1>2, <1>3, <2>1, <3>1
  <2>2. CASE q = p /\ RemovalAttempt(p)
    <3> DEFINE again == [o EXCEPT !.attempts = @ + 1]
               t == sendRemoval(again)
    <3>1. /\ DOMAIN again = Fields /\ again.opened = o.opened
          /\ \A k \in Kinds : again[k] = o[k]
      BY <1>1 DEF Fields, Flags, Kinds
    <3> HIDE DEF again
    <3>2. t.opened = o.opened /\ \A k \in Kinds \ {"removal"} : t[k] = o[k]
      BY <3>1 DEF sendRemoval, Fields, Flags, Kinds
    <3>3. h'[p] = t
      BY <1>1, <2>2 DEF RemovalAttempt, Become, again
    <3> HIDE DEF t
    <3> QED
      BY <3>2, <3>3 DEF Quiet, Fresh
  <2>3. CASE q = p /\ SettleEnds(p)
    <3> DEFINE t == [o EXCEPT !.phase = "removing", !.attempts = 0, !.disc = FALSE]
    <3>1. t.opened = o.opened /\ \A k \in Kinds : t[k] = o[k]
      BY <1>1 DEF Fields, Flags, Kinds
    <3>2. h'[p] = t
      BY <1>1, <2>3 DEF SettleEnds
    <3> HIDE DEF t
    <3> QED
      BY <3>1, <3>2 DEF Quiet, Fresh
  <2>4. CASE q = p /\ (ShutdownCompletes(p) \/ Crash(p))
    BY <1>1, <2>4 DEF ShutdownCompletes, Crash, Closed, Handler, Closes
  <2>5. CASE q = p /\ (Connect(p) \/ Shutdown(p) \/ Timers(p))
    BY <2>5 DEF Connect, Shutdown, Timers, TransportReady, PredecessorRetry, LoginAgain,
                MediaReady, RenewalDue, Closes
  <2> QED
    BY <1>4, <2>1, <2>2, <2>3, <2>4, <2>5, Zenon DEF Teardown
<1>5. ASSUME NEW m \in net, Arrival(m)
      PROVE  Quiet(p, h'[p])
  <2>1. CASE m.p = p
    BY <1>5, <2>1, ClosingHears
  <2>2. CASE m.p # p
    BY <1>2, <1>3, <1>5, <2>2, ArrivalTouches
  <2> QED
    BY <2>1, <2>2
<1>6. ASSUME NEW m \in net, AtRadio(m)
      PROVE  h' = h
  BY <1>6 DEF AtRadio, RadioLogin, RadioRenews, RadioRemoves, RadioGrants, RadioRejects,
              RadioSeesDeparture, Answer
<1>7. ASSUME \/ \E m \in net : Lose(m)
             \/ \E q \in Procs : RadioAdvertises(q)
             \/ Environment \/ UNCHANGED vars
      PROVE  h' = h
  BY <1>7 DEF Lose, RadioAdvertises, Environment, RadioEnds, RadioForgets, ForeignTakes,
              ForeignLeaves, vars
<1> QED
  BY <1>2, <1>4, <1>5, <1>6, <1>7, Zenon DEF Next

LEMMA TypesMatch == ASSUME TypeInv PROVE TypeOK
<1> DEFINE N == Len(names)
<1>1. Identity = Ids(N)
  BY DEF Identity, Ids
<1>2. ASSUME NEW p \in Procs
      PROVE  HandlerOK(h[p])
  <2> DEFINE s == h[p]
  <2>1. Sound(s, N)
    BY DEF TypeInv, HandlersSound
  <2> HIDE DEF s
  <2>2. s.phase \in {"off", "discover", "up", "settling", "removing", "dead"}
    BY <2>1 DEF Sound, Phases
  <2>3. \A k \in Kinds : s[k] \in Request /\ s[k].id \in Identity /\ s[k].seq < s.seq
    BY <1>1, <2>1, Zenon DEF Sound
  <2>4. \A b \in Flags : s[b] \in BOOLEAN
    BY <2>1, Zenon DEF Sound
  <2>5. s.seq \in Nat \ {0} /\ s.id \in Identity
    BY <1>1, <2>1 DEF Sound
  <2>6. /\ s.reclaims \in 0 .. (ReclaimLimit + 1) /\ s.attempts \in 0 .. RemovalAttempts
        /\ s.pred \in Procs \cup {NoProc}
    BY <2>1 DEF Sound
  <2> QED
    BY <2>2, <2>3, <2>4, <2>5, <2>6, Zenon DEF HandlerOK, Flags, s
<1>3. Cardinality(journal) <= 1
  <2>1. CASE journal = {}
    BY <2>1, FS_EmptySet
  <2>2. CASE journal # {}
    <3>1. PICK j \in journal : TRUE
      BY <2>2
    <3>2. journal = {j}
      BY <3>1 DEF TypeInv, JournalSound
    <3> QED
      BY <3>2, FS_Singleton
  <2> QED
    BY <2>1, <2>2
<1>4. \A j \in journal : j \in [owner : Procs, id : Identity, full : BOOLEAN]
  BY <1>1 DEF TypeInv, JournalSound
<1>5. \A m \in net : /\ m.kind \in Requests \cup Replies
                     /\ m.p \in Procs \cup {NoProc} /\ m.id \in Identity
  BY <1>1 DEF TypeInv, MailSound, Mail
<1> QED
  BY <1>2, <1>3, <1>4, <1>5 DEF TypeInv, TypeOK, RadioSound, BoundsSound

\* The fields of every handler, of the journal and of every datagram have their
\* types, and a reply or request names a login that was sent.
THEOREM Typed == ASSUME SessionAssumption PROVE Spec => []TypeOK
<1>1. Init => TypeInv
  BY InitTyped
<1>2. TypeInv /\ [Next]_vars => TypeInv'
  BY StepTyped
<1>3. TypeInv => TypeOK
  BY TypesMatch
<1> QED
  BY <1>1, <1>2, <1>3, PTL DEF Spec

-----------------------------------------------------------------------------
(* Theorems.                                                               *)

\* A handler that closes starts nothing, and its streams stay closed, unless it
\* is also recovering a predecessor, whose confirmation logs in whatever the
\* phase.
QuietUnlessRecovering ==
    \A p \in Procs : {h[p].phase, h'[p].phase} \subseteq Closes /\ h[p].pred = NoProc
        => Quiet(p, h'[p])

\* No login, renewal or stream request leaves a closing handler, and its
\* streams stay closed, while it has no predecessor to recover.
THEOREM ClosingStartsNothing ==
    ASSUME SessionAssumption
    PROVE  Spec => [][QuietUnlessRecovering]_vars
<1>1. TypeInv /\ [Next]_vars => QuietUnlessRecovering
  BY ClosingStep DEF QuietUnlessRecovering
<1>2. Init => TypeInv
  BY InitTyped
<1>3. TypeInv /\ [Next]_vars => TypeInv'
  BY StepTyped
<1> QED
  BY <1>1, <1>2, <1>3, PTL DEF Spec

LEMMA OnlyTheDeadPrecede ==
    ASSUME TypeInv, OwnInv, SessionAssumption, [Next]_vars, \A p, q \in Procs : p = q
    PROVE  StaysClosed
<1>1. \A p \in Procs : h[p].phase \in Closes => h[p].pred = NoProc
  <2>1. \A p \in Procs : h[p].pred \in Procs => h[p].phase = "dead"
    BY DEF OwnInv, SessionAssumption
  <2>2. \A p \in Procs : h[p].pred \in Procs \cup {NoProc}
    BY OfProcess DEF Sound
  <2> QED
    BY <2>1, <2>2 DEF Closes
<1>2. \A p \in Procs : {h[p].phase, h'[p].phase} \subseteq Closes => Quiet(p, h'[p])
  BY <1>1, ClosingStep
<1> QED
  BY <1>2 DEF StaysClosed, Quiet, Closes

\* The same without exception where one process uses the radio and the radio
\* reissues no identity of another login: only the dead are recovered.
THEOREM LoneClosingStaysClosed ==
    ASSUME SessionAssumption, \A p, q \in Procs : p = q, "reissue" \notin RadioMay
    PROVE  Spec => ClosingStaysClosed
<1>1. TypeInv /\ OwnInv /\ [Next]_vars => StaysClosed
  BY OnlyTheDeadPrecede
<1>2. Init => TypeInv /\ OwnInv
  BY InitTyped, InitOwned
<1>3. TypeInv /\ OwnInv /\ [Next]_vars => TypeInv' /\ OwnInv'
  BY StepTyped, StepOwned
<1> QED
  BY <1>1, <1>2, <1>3, PTL DEF Spec, ClosingStaysClosed

\* Two live processes at odds over an identity have it from the dead.
OnlyTheDeadAreShared ==
    \A m \in net : m.kind = "removal" /\ Open(m.p) =>
        \A q \in Procs \ {m.p} :
            h[q].phase \in LoggedIn /\ h[q].id = m.id => h[names[m.id[1]]].phase = "dead"

LEMMA RemovalsSpareTheLiving == ASSUME TypeInv, OwnInv PROVE OnlyTheDeadAreShared
<1> SUFFICES ASSUME NEW m \in net, m.kind = "removal", Open(m.p), NEW q \in Procs \ {m.p},
                    h[q].phase \in LoggedIn, h[q].id = m.id
             PROVE  h[names[m.id[1]]].phase = "dead"
  BY DEF OnlyTheDeadAreShared
<1>1. Traceable(m) /\ Whose(q, m.id[1])
  BY DEF OwnInv
<1>2. Whose(m.p, m.id[1])
  BY <1>1 DEF Traceable, Traced, Open
<1> QED
  BY <1>1, <1>2 DEF Whose

\* While a removal that p asked for is on its way, no other process uses the
\* identity that it names, unless the login was one of a process that has died
\* and whose session both recover.
THEOREM RemovalsAreOwn ==
    ASSUME SessionAssumption, "reissue" \notin RadioMay
    PROVE  Spec => []OnlyTheDeadAreShared
<1>1. Init => TypeInv /\ OwnInv
  BY InitTyped, InitOwned
<1>2. TypeInv /\ OwnInv /\ [Next]_vars => TypeInv' /\ OwnInv'
  BY StepTyped, StepOwned
<1>3. TypeInv /\ OwnInv => OnlyTheDeadAreShared
  BY RemovalsSpareTheLiving
<1> QED
  BY <1>1, <1>2, <1>3, PTL DEF Spec

\* Where nobody has died, nobody removes a live session.
LEMMA NobodyDead ==
    ASSUME TypeInv, OwnInv, \A p \in Procs : h[p].phase # "dead"
    PROVE  LiveSessionsUntouched
<1>1. OnlyTheDeadAreShared
  BY RemovalsSpareTheLiving
<1> SUFFICES ASSUME NEW m \in net, m.kind = "removal", Open(m.p), NEW q \in Procs \ {m.p},
                    Open(q), h[q].owned, h[q].id = m.id
             PROVE  FALSE
  BY DEF LiveSessionsUntouched
<1>2. h[q].phase \in LoggedIn
  BY OfProcess DEF OwnInv, Young, Open, Sound, Phases, LoggedIn
<1>3. h[names[m.id[1]]].phase = "dead"
  BY <1>1, <1>2 DEF OnlyTheDeadAreShared
<1>4. m.id[1] \in 1 .. Len(names)
  BY <1>2 DEF OwnInv, Whose
<1> QED
  BY <1>3, <1>4 DEF TypeInv

-----------------------------------------------------------------------------
(* Processes that take turns, and a radio that keeps the tokens it gave.   *)

Steadfast == ~Concurrent /\ RadioMay \subseteq {"deny"}

\* A process that is not connected exits only while nobody is connected.
Apart == \A p \in Procs : h[p].phase = "off" /\ h'[p].phase = "dead" => \A q \in Procs : ~Open(q)
ExitsApart == [][Apart]_vars

\* The order in which a handler gets on: login, authentication, streams.
Idle(s) == ~s.login.pending /\ ~s.authed /\ ~s.relogin
Ordered(s) ==
    /\ s.phase \in {"off", "discover", "dead"} => Idle(s) /\ ~s.reclaim /\ s.pred = NoProc
    /\ s.pred # NoProc => s.phase = "up" /\ Idle(s) /\ s.reclaim
    /\ s.login.pending => s.phase = "up" /\ ~s.authed /\ ~s.relogin
    /\ s.authed => ~s.relogin
    /\ s.gotAuth => s.authed
    /\ s.ticking => s.gotAuth
    /\ s.renewal.pending => s.authed /\ s.renewal.id = s.id
    /\ s.stream.pending => s.gotAuth /\ s.stream.id = s.id
    /\ s.owned => s.gotAuth /\ ~s.reclaim
    /\ s.opened => s.owned
    /\ s.phase = "up" /\ s.owned => s.opened
    /\ s.phase \in {"settling", "removing"} => s.owned

\* What is on its way to or from a handler belongs to its latest requests.
Letters == Kinds \cup {"welcome", "denied", "renewed", "refused", "removed", "grant", "rejected",
                       "advert"}
Told(p, m) ==
    /\ m.kind \in Letters => h[p].phase # "discover" /\ m.seq < h[p].seq
    /\ m.kind \in Kinds /\ m.seq = h[p][m.kind].seq => m.id = h[p][m.kind].id
    /\ m.kind = "welcome" /\ m.seq = h[p].login.seq /\ h[p].login.pending =>
          m.id = Id(h[p].login.id[1]) /\ h[p].login.id[1] \in tokens
    /\ m.seq = h[p].renewal.seq /\ h[p].renewal.pending /\ h[p].phase = "up" =>
          m.kind # "refused" /\ (m.kind = "renewed" => m.id = h[p].renewal.id)
    /\ m.kind = "grant" => m.id = Id(m.id[1]) /\ m.id[1] \in granted
    /\ m.kind \in {"removal", "removed"} /\ h[p].pred # NoProc => m.seq = h[p].removal.seq

\* A stream request is on its way, or granted, or rejected.
Excluded == {<<"stream", "advert">>, <<"stream", "rejected">>, <<"rejected", "advert">>}
Decided(p) ==
    \A m, o \in net : m.p = p /\ o.p = p /\ m.seq = h[p].stream.seq /\ o.seq = h[p].stream.seq
        => <<m.kind, o.kind>> \notin Excluded

\* Nothing is left of the last stream request of a handler t of p.
Silent(p, t) ==
    /\ ~t.stream.pending
    /\ \A m \in net : m.p = p /\ m.kind \in {"stream", "advert"} => m.seq # t.stream.seq
Asking(p, t) == (t.gotAuth /\ t.stream.id = t.id) \/ Silent(p, t)

\* The token is the radio's, and no removal of it is on its way.
Spared(id) == \A m \in net : m.kind = "removal" => m.id # id
Secure(id) == id = Id(id[1]) /\ id[1] \in tokens /\ Spared(id)
InUse(p) ==
    h[p].phase = "up" => /\ h[p].authed => Secure(h[p].id)
                         /\ h[p].login.pending => Spared(Id(h[p].login.id[1]))

\* The record of an owner is the only one.
Covers(records, ids, p, id) ==
    /\ records # {} /\ \A j \in records : j.owner = p /\ j.id = id
    /\ id = Id(id[1]) /\ id[1] \in ids
Recorded(p) == h[p].owned => Covers(journal, granted, p, h[p].id)

\* A connection that is not recovering finds nothing to recover.
Unneeded(p) == h[p].phase = "up" /\ ~h[p].reclaim => Recoverable = {}

Sole == \A p, q \in Procs : Open(p) /\ Open(q) => p = q
TurnInv ==
    /\ Sole
    /\ \A p \in Procs : Ordered(h[p])
    /\ \A p \in Procs : Open(p) =>
          /\ \A m \in net : m.p = p => Told(p, m)
          /\ Decided(p) /\ Asking(p, h[p]) /\ InUse(p) /\ Recorded(p) /\ Unneeded(p)

\* A record t that a step of the handler of p may leave, and the journal.
Onward(p, t) ==
    /\ Ordered(t) /\ t.phase \in Live /\ t.seq >= h[p].seq
    /\ t.phase = "discover" => h[p].phase = "discover" /\ Fresh(p, t) = {}
    /\ t.phase = "up" => h[p].phase \in {"discover", "up"}
    /\ \A k \in Kinds : \/ /\ t[k].seq = h[p][k].seq /\ t[k].id = h[p][k].id
                           /\ t[k].pending => h[p][k].pending
                        \/ t[k].seq >= h[p].seq
    /\ t.pred # NoProc => \/ h[p].phase = "discover"
                          \/ h[p].pred # NoProc /\ t.removal.seq = h[p].removal.seq
    /\ "removal" \in Fresh(p, t) /\ t.phase = "up" => ~t.authed /\ ~t.login.pending
    /\ t.phase = "up" /\ t.authed => Secure(t.id)
    /\ t.phase = "up" /\ t.login.pending => Spared(Id(t.login.id[1]))
    /\ Asking(p, t)
Journaling(p, t) ==
    /\ t.owned => Covers(journal', granted', p, t.id)
    /\ t.phase = "up" /\ ~t.reclaim => \A j \in journal' : h[j.owner].phase # "dead"

\* What else is on its way after a step of p: a removal may be sent again.
Residue(p, t, rest) ==
    \A m \in rest : \/ m \in net
                    \/ m.p # p /\ m.kind # "removal"
                    \/ m = Msg("removal", p, t.removal.seq, t.removal.id) /\ t.pred # NoProc

LEMMA Numbers ==
    ASSUME TypeInv, NEW p \in Procs, NEW k \in Kinds
    PROVE  /\ h[p][k].seq \in Nat /\ h[p].seq \in Nat /\ h[p][k].seq < h[p].seq
           /\ DOMAIN h = Procs
BY DEF TypeInv, HandlersSound, Sound, Request

LEMMA MailSeq == ASSUME TypeInv, NEW m \in net PROVE m.seq \in Nat
BY DEF TypeInv, MailSound, Mail

LEMMA BecomeTold ==
    ASSUME TypeInv, TypeInv', TurnInv, NEW p \in Procs, Open(p), NEW t, Onward(p, t), h'[p] = t,
           UNCHANGED <<tokens, granted>>, NEW m, m.p = p,
           \/ m \in net
           \/ m = Msg("removal", p, t.removal.seq, t.removal.id) /\ t.pred # NoProc
           \/ \E k \in Fresh(p, t) : m = Msg(k, p, t[k].seq, t[k].id)
    PROVE  Told(p, m)'
<1>1. \A k \in Kinds : /\ t[k].seq \in Nat /\ t.seq \in Nat /\ t[k].seq < t.seq
                       /\ h[p][k].seq \in Nat /\ h[p].seq \in Nat /\ h[p][k].seq < h[p].seq
  <2>1. \A k \in Kinds : h'[p][k].seq \in Nat /\ h'[p].seq \in Nat /\ h'[p][k].seq < h'[p].seq
    BY DEF TypeInv, HandlersSound, Sound, Request
  <2> QED
    BY <2>1, Numbers
<1>2. CASE m \in net
  <2>1. Told(p, m) /\ m.seq \in Nat
    BY <1>2, MailSeq DEF TurnInv
  <2>2. t.seq >= h[p].seq /\ t.seq \in Nat /\ h[p].seq \in Nat
    BY <1>1 DEF Onward, Kinds
  <2>3. m.kind \in Letters => t.phase # "discover" /\ m.seq < t.seq /\ m.seq < h[p].seq
    BY <2>1, <2>2 DEF Told, Onward
  <2>4. ASSUME NEW k \in Kinds, m.kind \in Letters, m.seq = t[k].seq
        PROVE  t[k].seq = h[p][k].seq /\ t[k].id = h[p][k].id /\ (t[k].pending => h[p][k].pending)
    <3>1. ~(t[k].seq >= h[p].seq)
      BY <1>1, <2>1, <2>3, <2>4
    <3> QED
      BY <3>1 DEF Onward
  <2>5. Kinds \subseteq Letters /\ {"welcome", "refused", "renewed", "removed"} \subseteq Letters
        /\ {"login", "renewal", "removal"} \subseteq Kinds
    BY DEF Letters, Kinds
  <2>6. m.kind \in Kinds /\ m.seq = t[m.kind].seq => m.id = t[m.kind].id
    BY <2>1, <2>4, <2>5 DEF Told
  <2>7. m.kind = "welcome" /\ m.seq = t.login.seq /\ t.login.pending =>
          m.id = Id(t.login.id[1]) /\ t.login.id[1] \in tokens
    BY <2>1, <2>4, <2>5 DEF Told
  <2>8. m.seq = t.renewal.seq /\ t.renewal.pending /\ t.phase = "up" =>
          m.kind # "refused" /\ (m.kind = "renewed" => m.id = t.renewal.id)
    <3> SUFFICES ASSUME m.seq = t.renewal.seq, t.renewal.pending, t.phase = "up",
                        m.kind \in {"refused", "renewed"}
                 PROVE  m.kind # "refused" /\ m.id = t.renewal.id
      OBVIOUS
    <3>1. /\ t.renewal.seq = h[p].renewal.seq /\ t.renewal.id = h[p].renewal.id
          /\ h[p].renewal.pending
      BY <2>4, <2>5
    <3>2. h[p].phase = "up"
      BY <2>1, <2>5 DEF Onward, Told
    <3> QED
      BY <2>1, <3>1, <3>2 DEF Told
  <2>9. m.kind \in {"removal", "removed"} /\ t.pred # NoProc => m.seq = t.removal.seq
    BY <2>1, <2>5 DEF Told, Onward
  <2>10. m.kind = "grant" => m.id = Id(m.id[1]) /\ m.id[1] \in granted
    BY <2>1 DEF Told
  <2> QED
    BY <2>3, <2>6, <2>7, <2>8, <2>9, <2>10 DEF Told
<1>3. ASSUME NEW k \in Kinds, m = Msg(k, p, t[k].seq, t[k].id), t.phase # "discover",
             k = "removal" \/ t[k].seq # h[p][k].seq
      PROVE  Told(p, m)'
  <2>1. m.kind = k /\ m.seq = t[k].seq /\ m.id = t[k].id
    BY <1>3 DEF Msg
  <2>2. k \notin {"welcome", "refused", "renewed", "grant", "removed"}
    BY DEF Kinds
  <2>3. m.seq < t.seq
    BY <1>1, <2>1
  <2> QED
    BY <1>3, <2>1, <2>2, <2>3 DEF Told
<1>4. CASE m = Msg("removal", p, t.removal.seq, t.removal.id) /\ t.pred # NoProc
  <2>1. "removal" \in Kinds /\ t.phase # "discover"
    BY <1>4 DEF Kinds, Onward, Ordered
  <2> QED
    BY <1>3, <1>4, <2>1
<1>5. ASSUME NEW k \in Fresh(p, t), m = Msg(k, p, t[k].seq, t[k].id)
      PROVE  Told(p, m)'
  <2>1. k \in Kinds /\ t[k].seq # h[p][k].seq /\ t.phase # "discover"
    BY <1>5 DEF Fresh, Onward
  <2> QED
    BY <1>3, <1>5, <2>1
<1> QED
  BY <1>2, <1>4, <1>5

LEMMA BecomeDecided ==
    ASSUME TypeInv, TypeInv', TurnInv, NEW p \in Procs, Open(p), NEW t, Onward(p, t),
           NEW rest, Residue(p, t, rest), Become(p, t, rest)
    PROVE  Decided(p)'
<1>1. h'[p] = t
  BY Numbers DEF Become, Kinds
<1>2. /\ t.stream.seq \in Nat /\ h[p].stream.seq \in Nat /\ h[p].seq \in Nat
  BY <1>1, Numbers DEF Kinds, TypeInv, HandlersSound, Sound, Request
<1> SUFFICES ASSUME NEW m \in net', NEW o \in net', m.p = p, o.p = p,
                    m.seq = t.stream.seq, o.seq = t.stream.seq,
                    <<m.kind, o.kind>> \in Excluded
             PROVE  FALSE
  BY <1>1 DEF Decided
<1>3. ASSUME NEW x \in net', x.p = p
      PROVE  \/ x \in net
             \/ x.kind \in Kinds /\ (x.kind = "stream" => t.stream.seq # h[p].stream.seq)
  <2>1. CASE x \in rest
    BY <1>3, <2>1 DEF Residue, Msg, Kinds
  <2>2. ASSUME NEW k \in Fresh(p, t), x = Msg(k, p, t[k].seq, t[k].id)
        PROVE  x.kind \in Kinds /\ (x.kind = "stream" => t.stream.seq # h[p].stream.seq)
    BY <2>2 DEF Fresh, Msg
  <2> QED
    BY <2>1, <2>2 DEF Become
<1>4. o.kind \in {"advert", "rejected"} /\ m.kind \in {"stream", "rejected"}
  BY DEF Excluded
<1>5. o \in net /\ o.kind \in Letters
  BY <1>3, <1>4 DEF Kinds, Letters
<1>6. o.seq \in Nat /\ o.seq < h[p].seq
  BY <1>5, MailSeq DEF TurnInv, Told
<1>7. t.stream.seq = h[p].stream.seq
  <2>1. ~(t.stream.seq >= h[p].seq)
    BY <1>2, <1>6
  <2> QED
    BY <2>1 DEF Onward, Kinds
<1>8. m \in net
  BY <1>3, <1>4, <1>7 DEF Kinds
<1> QED
  BY <1>5, <1>7, <1>8 DEF TurnInv, Decided

\* A step of the handler of p keeps the invariant.
LEMMA BecomeKept ==
    ASSUME TypeInv, TypeInv', TurnInv, NEW p \in Procs, Open(p), NEW t, Onward(p, t),
           Journaling(p, t), NEW rest, Residue(p, t, rest), Become(p, t, rest),
           UNCHANGED <<tokens, granted>>
    PROVE  TurnInv'
<1>1. /\ h'[p] = t /\ \A q \in Procs \ {p} : h'[q] = h[q]
      /\ t.phase \in Live /\ t.phase \notin {"off", "dead"} /\ Ordered(t)
  BY Numbers DEF Become, Kinds, Onward, Live
<1>2. \A q \in Procs : Open(q)' => q = p
  <2>1. \A q \in Procs \ {p} : ~Open(q)
    BY DEF TurnInv, Sole
  <2> QED
    BY <1>1, <2>1 DEF Open
<1>3. \A q \in Procs : Ordered(h'[q])
  BY <1>1, Zenon DEF TurnInv
<1>4. ASSUME NEW m \in net'
      PROVE  \/ m \in net
             \/ m.p # p /\ m.kind # "removal"
             \/ m = Msg("removal", p, t.removal.seq, t.removal.id) /\ t.pred # NoProc
             \/ \E k \in Fresh(p, t) : m = Msg(k, p, t[k].seq, t[k].id)
  BY <1>4 DEF Become, Residue
<1>5. \A m \in net' : m.p = p => Told(p, m)'
  BY <1>1, <1>4, BecomeTold
<1>6. Decided(p)'
  BY BecomeDecided
<1>7. Asking(p, h[p])'
  <2>1. CASE t.gotAuth /\ t.stream.id = t.id
    BY <1>1, <2>1 DEF Asking
  <2>2. CASE Silent(p, t)
    <3>1. \A m \in net' : m.p = p /\ m.kind \in {"stream", "advert"} => m \in net
      BY <1>4, <2>2 DEF Silent, Msg, Fresh, Kinds
    <3>2. Silent(p, h[p])'
      BY <1>1, <2>2, <3>1 DEF Silent
    <3> QED
      BY <3>2 DEF Asking
  <2> QED
    BY <2>1, <2>2 DEF Onward, Asking
<1>8. InUse(p)'
  <2>1. ASSUME NEW id, Spared(id), t.phase = "up", t.authed \/ t.login.pending
        PROVE  Spared(id)'
    <3>1. t.pred = NoProc /\ "removal" \notin Fresh(p, t)
      BY <2>1 DEF Onward, Ordered, Idle
    <3>2. \A m \in net' : m.kind = "removal" => m \in net
      BY <1>4, <3>1 DEF Msg
    <3> QED
      BY <2>1, <3>2 DEF Spared
  <2>2. t.phase = "up" /\ t.authed => Secure(t.id)'
    BY <2>1 DEF Onward, Secure
  <2>3. t.phase = "up" /\ t.login.pending => Spared(Id(t.login.id[1]))'
    BY <2>1 DEF Onward
  <2>4. Secure(t.id)' => Secure(h[p].id)'
    BY <1>1 DEF Secure, Spared
  <2>5. Spared(Id(t.login.id[1]))' => Spared(Id(h[p].login.id[1]))'
    BY <1>1 DEF Spared
  <2> QED
    BY <1>1, <2>2, <2>3, <2>4, <2>5 DEF InUse
<1>9. Recorded(p)'
  BY <1>1 DEF Journaling, Recorded
<1>10. Unneeded(p)'
  <2>1. \A j \in journal' : j.owner \in Procs
    BY DEF TypeInv, JournalSound
  <2>2. t.phase = "up" /\ ~t.reclaim => \A j \in journal' : h'[j.owner].phase # "dead"
    BY <1>1, <2>1 DEF Journaling
  <2> QED
    BY <1>1, <2>2 DEF Unneeded, Recoverable
<1> QED
  BY <1>2, <1>3, <1>5, <1>6, <1>7, <1>8, <1>9, <1>10 DEF TurnInv, Sole

\* The same of a reply that is acted on.
LEMMA ReceiveKept ==
    ASSUME TypeInv, TypeInv', TurnInv, NEW m \in net, Open(m.p), NEW t, Onward(m.p, t),
           Journaling(m.p, t), Receive(m, t), UNCHANGED <<tokens, granted>>
    PROVE  TurnInv'
<1>1. m.p \in Procs
  BY Addressed
<1>2. PICK rest : rest \subseteq net /\ Become(m.p, t, rest)
  BY DEF Receive
<1>3. Residue(m.p, t, rest)
  BY <1>2 DEF Residue
<1> QED
  BY <1>1, <1>2, <1>3, BecomeKept

-----------------------------------------------------------------------------
(* Steps of a handler that begin nothing.                                  *)

LEMMA Quieter ==
    ASSUME TypeInv, TurnInv, NEW p \in Procs, Open(p), NEW t, Ordered(t), t.phase \in Live,
           t.phase = "discover" => h[p].phase = "discover", t.phase = "up" => h[p].phase = "up",
           t.seq = h[p].seq,
           \A k \in Kinds : /\ t[k].seq = h[p][k].seq /\ t[k].id = h[p][k].id
                            /\ t[k].pending => h[p][k].pending,
           t.pred \in {h[p].pred, NoProc}, t.authed => h[p].authed, t.id = h[p].id,
           h[p].gotAuth => t.gotAuth
    PROVE  Onward(p, t) /\ Fresh(p, t) = {}
<1>1. Fresh(p, t) = {}
  BY DEF Fresh
<1>2. t.seq >= h[p].seq
  BY Numbers DEF Kinds
<1>3. Asking(p, t)
  <2>1. Asking(p, h[p])
    BY DEF TurnInv
  <2>2. /\ t.stream.seq = h[p].stream.seq /\ t.stream.id = h[p].stream.id
        /\ t.stream.pending => h[p].stream.pending
    BY DEF Kinds
  <2> QED
    BY <2>1, <2>2 DEF Asking, Silent
<1>4. /\ t.phase = "up" /\ t.authed => Secure(t.id)
      /\ t.phase = "up" /\ t.login.pending => Spared(Id(t.login.id[1]))
  <2>1. t.login.id = h[p].login.id /\ (t.login.pending => h[p].login.pending)
    BY DEF Kinds
  <2> QED
    BY <2>1 DEF TurnInv, InUse
<1>5. t.removal.seq = h[p].removal.seq
  BY DEF Kinds
<1> QED
  BY <1>1, <1>2, <1>3, <1>4, <1>5 DEF Onward

\* The journal stays what it was.
LEMMA Unjournaled ==
    ASSUME TypeInv, TurnInv, NEW p \in Procs, Open(p), NEW t, UNCHANGED <<journal, granted>>,
           t.owned => h[p].owned /\ t.id = h[p].id,
           t.phase = "up" /\ ~t.reclaim =>
               (h[p].phase = "up" /\ ~h[p].reclaim) \/ Recoverable = {}
    PROVE  Journaling(p, t)
<1>1. Recorded(p) /\ Unneeded(p)
  BY DEF TurnInv
<1>2. t.owned => Covers(journal', granted', p, t.id)
  BY <1>1 DEF Recorded
<1>3. t.phase = "up" /\ ~t.reclaim => \A j \in journal : h[j.owner].phase # "dead"
  BY <1>1 DEF Unneeded, Recoverable
<1> QED
  BY <1>2, <1>3 DEF Journaling

Orderly == {"phase", "seq", "id", "authed", "gotAuth", "ticking", "owned", "opened", "reclaim",
            "relogin", "pred"}

\* Requests are dropped, and nothing else that counts.
LEMMA Dropping ==
    ASSUME TypeInv, TurnInv, NEW p \in Procs, Open(p), NEW t, \A f \in Orderly : t[f] = h[p][f],
           \A k \in Kinds : /\ t[k].seq = h[p][k].seq /\ t[k].id = h[p][k].id
                            /\ t[k].pending => h[p][k].pending
    PROVE  /\ Onward(p, t) /\ Fresh(p, t) = {}
           /\ UNCHANGED <<journal, granted>> => Journaling(p, t)
<1> DEFINE s == h[p]
<1>1. /\ t.phase = s.phase /\ t.seq = s.seq /\ t.id = s.id /\ t.authed = s.authed
      /\ t.gotAuth = s.gotAuth /\ t.ticking = s.ticking /\ t.owned = s.owned
      /\ t.opened = s.opened /\ t.reclaim = s.reclaim /\ t.relogin = s.relogin
      /\ t.pred = s.pred
  BY DEF Orderly
<1>2. /\ t.login.pending => s.login.pending
      /\ t.renewal.pending => s.renewal.pending
      /\ t.stream.pending => s.stream.pending
      /\ t.renewal.id = s.renewal.id /\ t.stream.id = s.stream.id
  BY DEF Kinds
<1>3. Ordered(s) /\ s.phase \in Live
  BY Numbers DEF TurnInv, Open, Live, TypeInv, HandlersSound, Sound, Phases
<1>4. Ordered(t)
  BY <1>1, <1>2, <1>3, Zenon DEF Ordered, Idle
<1>5. Onward(p, t) /\ Fresh(p, t) = {}
  BY <1>1, <1>3, <1>4, Quieter
<1>6. UNCHANGED <<journal, granted>> => Journaling(p, t)
  BY <1>1, Unjournaled
<1> QED
  BY <1>5, <1>6

\* What Cleared leaves of the requests.
LEMMA ClearedLeaves ==
    ASSUME NEW n \in Nat, NEW s, Sound(s, n), NEW K \in SUBSET Kinds
    PROVE  \A k \in Kinds : /\ Cleared(s, K)[k].seq = s[k].seq /\ Cleared(s, K)[k].id = s[k].id
                            /\ Cleared(s, K)[k].pending => s[k].pending
                            /\ k \in K => ~Cleared(s, K)[k].pending
<1> SUFFICES ASSUME NEW k \in Kinds
             PROVE  /\ Cleared(s, K)[k].seq = s[k].seq /\ Cleared(s, K)[k].id = s[k].id
                    /\ Cleared(s, K)[k].pending => s[k].pending
                    /\ k \in K => ~Cleared(s, K)[k].pending
  OBVIOUS
<1>1. s[k] \in Request /\ DOMAIN s = Fields
  BY DEF Sound
<1>2. Cleared(s, K)[k] = IF k \in K THEN [s[k] EXCEPT !.pending = FALSE] ELSE s[k]
  BY <1>1 DEF Cleared, Fields
<1> QED
  BY <1>1, <1>2 DEF Request

LEMMA LoginDeniedKept ==
    ASSUME TypeInv, TypeInv', TurnInv, NEW m \in net, LoginDenied(m)
    PROVE  TurnInv'
<1> DEFINE o == h[m.p]
           c == Cleared(o, {"login"})
           t == [c EXCEPT !.reported = TRUE]
<1>1. Open(m.p) /\ Receive(m, t) /\ UNCHANGED <<journal, tokens, granted>>
  BY DEF LoginDenied, Arrives, radio
<1>2. Sound(o, Len(names)) /\ Len(names) \in Nat /\ m.p \in Procs
  BY <1>1, Addressed
<1>3. /\ DOMAIN c = Fields /\ \A f \in Fields \ Kinds : c[f] = o[f]
      /\ \A k \in Kinds : /\ c[k].seq = o[k].seq /\ c[k].id = o[k].id
                          /\ c[k].pending => o[k].pending
  BY <1>2, ClearedAsks, ClearedLeaves DEF Kinds
<1> HIDE DEF c
<1>4. (\A f \in Orderly : t[f] = o[f]) /\ (\A k \in Kinds : t[k] = c[k])
  BY <1>3 DEF Orderly, Fields, Flags, Kinds
<1> HIDE DEF t
<1>5. Onward(m.p, t) /\ Journaling(m.p, t)
  BY <1>1, <1>2, <1>3, <1>4, Dropping
<1> QED
  BY <1>1, <1>5, ReceiveKept

\* A status that a handler acts on finds it connected.
LEMMA Noticing ==
    ASSUME TypeInv, OwnInv, NEW m \in net, NEW kind, Noticed(m, kind),
           kind \in {"free", "foreign", "busy"}
    PROVE  h[m.p].phase = "up" /\ ~h[m.p].opened
<1>1. Open(m.p) /\ Listening(h[m.p]) /\ h[m.p].radios /\ ~h[m.p].opened
  BY DEF Noticed, Arrives, Relevant
<1>2. Young(h[m.p]) /\ h[m.p].phase \in Live
  BY <1>1, Addressed DEF OwnInv
<1> QED
  BY <1>1, <1>2 DEF Young, Live, Listening

LEMMA StatusKept ==
    ASSUME TypeInv, TypeInv', OwnInv, TurnInv, NEW m \in net,
           InfoIgnored(m) \/ BusyBySelf(m) \/ BusyByForeign(m) \/ BusyBySibling(m)
    PROVE  TurnInv'
<1> DEFINE o == h[m.p]
           r == [o EXCEPT !.reported = TRUE]
<1>1. Open(m.p) /\ UNCHANGED <<journal, tokens, granted>>
  BY DEF InfoIgnored, BusyBySelf, BusyByForeign, BusyBySibling, Noticed, Arrives, radio
<1>2. DOMAIN o = Fields /\ m.p \in Procs
  BY <1>1, Addressed
<1>3. (\A f \in Orderly : r[f] = o[f]) /\ (\A k \in Kinds : r[k] = o[k])
  BY <1>2 DEF Orderly, Fields, Flags, Kinds
<1>4. Receive(m, o) \/ Receive(m, r)
  <2>1. CASE InfoIgnored(m) \/ BusyByForeign(m)
    BY <2>1 DEF InfoIgnored, BusyByForeign
  <2>2. CASE BusyBySelf(m)
    <3>1. Receive(m, IF o.gotAuth /\ o.stream.pending THEN o ELSE r)
      BY <2>2, Zenon DEF BusyBySelf
    <3> HIDE DEF o, r
    <3> QED
      BY <3>1
  <2>3. CASE BusyBySibling(m)
    <3> DEFINE known == {j \in Recoverable : j.owner = names[m.id[1]]}
    <3>1. Noticed(m, "busy")
      BY <2>3, Zenon DEF BusyBySibling
    <3>2. o.phase = "up"
      BY <3>1, Noticing
    <3>3. ~o.reclaim => known = {}
      BY <1>1, <1>2, <3>2 DEF TurnInv, Unneeded
    <3>4. \/ Receive(m, o) \/ Receive(m, r)
          \/ ~o.reclaim /\ \E j \in known : TRUE
      BY <2>3, Zenon DEF BusyBySibling
    <3> HIDE DEF known, o, r
    <3> QED
      BY <3>3, <3>4
  <2> QED
    BY <2>1, <2>2, <2>3
<1> HIDE DEF r
<1>5. ASSUME NEW t \in {o, r} PROVE Onward(m.p, t) /\ Journaling(m.p, t)
  <2>1. (\A f \in Orderly : t[f] = o[f]) /\ (\A k \in Kinds : t[k] = o[k])
    BY <1>3
  <2> HIDE DEF o
  <2> QED
    BY <1>1, <1>2, <2>1, Dropping DEF o
<1> QED
  BY <1>1, <1>4, <1>5, ReceiveKept

LEMMA GrantAdvertisedKept ==
    ASSUME TypeInv, TypeInv', OwnInv, TurnInv, NEW m \in net, GrantAdvertised(m)
    PROVE  TurnInv'
<1> DEFINE o == h[m.p]
           t == [o EXCEPT !.id = m.id]
<1>1. /\ Open(m.p) /\ m.kind = "advert" /\ m.seq = o.stream.seq /\ m.id = o.stream.id
      /\ Receive(m, t) /\ UNCHANGED <<journal, tokens, granted>>
  BY DEF GrantAdvertised, Arrives, Relevant, radio
<1>2. DOMAIN o = Fields /\ m.p \in Procs
  BY <1>1, Addressed
<1>3. m.id = o.id
  BY <1>1, <1>2 DEF TurnInv, Asking, Silent
<1>4. (\A f \in Orderly : t[f] = o[f]) /\ (\A k \in Kinds : t[k] = o[k])
  BY <1>2, <1>3 DEF Orderly, Fields, Flags, Kinds
<1> HIDE DEF t
<1>5. Onward(m.p, t) /\ Journaling(m.p, t)
  BY <1>1, <1>2, <1>4, Dropping
<1> QED
  BY <1>1, <1>5, ReceiveKept

\* The reset of a rejected request, or the error that reports it.
LEMMA StreamRejectedKept ==
    ASSUME TypeInv, TypeInv', OwnInv, TurnInv, NEW m \in net, StreamRejected(m)
    PROVE  TurnInv'
<1> DEFINE o == h[m.p]
           s == Cleared(o, {"stream"})
           r == [s EXCEPT !.reported = TRUE]
           w == sendRemoval(s)
           c == Cleared(w, Kinds \ {"removal"})
           x == closeStreams(c)
           t == [x EXCEPT !.resetTried = TRUE, !.ticking = FALSE, !.relogin = TRUE,
                          !.gotAuth = FALSE, !.authed = FALSE]
<1>1. /\ Open(m.p) /\ m.kind = "rejected" /\ Arrives(m, "rejected")
      /\ Answers(m, o.stream) /\ Listening(o) /\ UNCHANGED <<journal, tokens, granted>>
  BY DEF StreamRejected, Arrives, Relevant, radio
<1>2. /\ Sound(o, Len(names)) /\ Len(names) \in Nat /\ m.p \in Procs
      /\ DOMAIN o = Fields /\ Ordered(o)
  BY <1>1, Addressed DEF TurnInv
<1>3. o.phase = "up"
  BY <1>1, ActsLoggedIn DEF LoggedIn, Listening
<1>4. /\ DOMAIN s = Fields /\ \A f \in Fields \ Kinds : s[f] = o[f]
      /\ \A k \in Kinds : /\ s[k].seq = o[k].seq /\ s[k].id = o[k].id
                          /\ s[k].pending => o[k].pending
  BY <1>2, ClearedAsks, ClearedLeaves DEF Kinds
<1>5. Sound(s, Len(names))
  BY <1>2, ClearedSound DEF Kinds
<1>6. CASE Receive(m, r)
  <2>1. (\A f \in Orderly : r[f] = o[f]) /\ (\A k \in Kinds : r[k] = s[k])
    <3> HIDE DEF s
    <3> QED
      BY <1>4 DEF Orderly, Fields, Flags, Kinds
  <2> HIDE DEF r, s
  <2>2. Onward(m.p, r) /\ Journaling(m.p, r)
    BY <1>1, <1>2, <1>4, <2>1, Dropping
  <2> QED
    BY <1>1, <1>6, <2>2, ReceiveKept
<1>7. CASE s.reclaim /\ ~s.resetTried /\ Receive(m, t)
  <2>1. Sound(w, Len(names))
    BY <1>2, <1>5, SendingSound
  <2>2. s.phase = o.phase /\ s.owned = o.owned /\ s.reclaim = o.reclaim /\ s.pred = o.pred
         /\ s.seq = o.seq
    BY <1>4 DEF Fields, Flags, Kinds
  <2> HIDE DEF s
  <2>3. /\ DOMAIN w = Fields /\ w.seq = s.seq + 1 /\ w.removal.seq = s.seq
        /\ w.phase = s.phase /\ w.owned = s.owned /\ w.reclaim = s.reclaim /\ w.pred = s.pred
        /\ \A k \in Kinds \ {"removal"} : w[k] = s[k]
    BY <1>4 DEF sendRemoval, Begun, Fields, Flags, Kinds
  <2> HIDE DEF w
  <2>4. /\ DOMAIN c = Fields /\ \A f \in Fields \ Kinds : c[f] = w[f]
    BY <1>2, <2>1, ClearedAsks DEF Kinds
  <2>5. /\ \A k \in Kinds : /\ c[k].seq = w[k].seq /\ c[k].id = w[k].id
                            /\ c[k].pending => w[k].pending
                            /\ k # "removal" => ~c[k].pending
    BY <1>2, <2>1, ClearedLeaves DEF Kinds
  <2>6. c.phase = w.phase /\ c.owned = w.owned /\ c.reclaim = w.reclaim /\ c.pred = w.pred
         /\ c.seq = w.seq
    BY <2>4 DEF Fields, Flags, Kinds
  <2> HIDE DEF c
  <2>7. /\ DOMAIN x = Fields /\ ~x.opened /\ x.phase = c.phase /\ x.owned = c.owned
        /\ x.reclaim = c.reclaim /\ x.pred = c.pred /\ x.seq = c.seq
        /\ \A k \in Kinds : x[k] = c[k]
    BY <2>4 DEF closeStreams, Fields, Flags, Kinds
  <2> HIDE DEF x
  <2>8. /\ ~t.ticking /\ ~t.gotAuth /\ ~t.authed
        /\ t.phase = x.phase /\ t.seq = x.seq /\ t.owned = x.owned /\ t.opened = x.opened
        /\ t.reclaim = x.reclaim /\ t.pred = x.pred /\ \A k \in Kinds : t[k] = x[k]
    BY <2>7 DEF Fields, Flags, Kinds
  <2> HIDE DEF t
  <2>9. /\ t.phase = o.phase /\ t.seq = o.seq + 1 /\ t.owned = o.owned /\ ~t.opened
        /\ t.reclaim = o.reclaim /\ t.pred = o.pred
    BY <2>3, <2>7, <2>8, <2>2, <2>6
  <2>10. \A k \in Kinds \ {"removal"} : t[k].seq = o[k].seq /\ t[k].id = o[k].id /\ ~t[k].pending
    BY <1>4, <2>3, <2>5, <2>7, <2>8
  <2>11. t.removal.seq = o.seq
    BY <2>3, <2>5, <2>7, <2>8, <2>2 DEF Kinds
  <2>12. o.stream.pending /\ m.seq = o.stream.seq /\ o.reclaim
    BY <1>1, <1>4, <1>7 DEF Answers, Fields, Flags, Kinds
  <2>13. o.pred = NoProc /\ ~o.owned
    BY <1>2, <2>12, Zenon DEF Ordered, Idle
  <2>14. ~t.login.pending /\ ~t.renewal.pending /\ ~t.stream.pending
    BY <2>10 DEF Kinds
  <2>15. Ordered(t)
    BY <1>3, <2>8, <2>9, <2>13, <2>14, Zenon DEF Ordered
  <2>16. Silent(m.p, t)
    <3>1. Decided(m.p)
      BY <1>1, <1>2 DEF TurnInv
    <3>2. ASSUME NEW d \in net, d.p = m.p, d.kind \in {"stream", "advert"}
          PROVE  d.seq # o.stream.seq
      BY <1>1, <2>12, <3>1, <3>2 DEF Decided, Excluded
    <3>3. t.stream.seq = o.stream.seq
      BY <2>10 DEF Kinds
    <3> QED
      BY <2>14, <3>2, <3>3 DEF Silent
  <2>17. t.seq >= o.seq /\ o.seq \in Nat
    BY <1>2, <2>9 DEF Sound
  <2>18. Onward(m.p, t)
    BY <1>3, <2>8, <2>9, <2>10, <2>11, <2>13, <2>14, <2>15, <2>16, <2>17 DEF Onward, Live, Asking
  <2>19. Journaling(m.p, t)
    BY <1>1, <1>2, <1>3, <2>9, <2>13, Unjournaled
  <2> QED
    BY <1>1, <1>7, <2>18, <2>19, ReceiveKept
<1> QED
  BY <1>6, <1>7 DEF StreamRejected

-----------------------------------------------------------------------------
(* Steps of a handler that ask for something.                              *)

\* The record t asks for one thing more, in a connection that goes on.
LEMMA Asks ==
    ASSUME TypeInv, TurnInv, NEW p \in Procs, Open(p), NEW t, Ordered(t), NEW kind \in Kinds,
           t.phase = "up", h[p].phase \in {"discover", "up"},
           t.seq = h[p].seq + 1, t[kind].seq = h[p].seq,
           \A k \in Kinds \ {kind} : /\ t[k].seq = h[p][k].seq /\ t[k].id = h[p][k].id
                                     /\ t[k].pending => h[p][k].pending,
           t.pred # NoProc => \/ h[p].phase = "discover"
                              \/ h[p].pred # NoProc /\ t.removal.seq = h[p].removal.seq,
           kind = "removal" => ~t.authed /\ ~t.login.pending,
           t.authed => Secure(t.id), t.login.pending => Spared(Id(t.login.id[1])), Asking(p, t)
    PROVE  Onward(p, t)
<1>1. h[p].seq \in Nat
  BY Numbers DEF Kinds
<1>2. t.seq >= h[p].seq /\ t[kind].seq >= h[p].seq
  BY <1>1
<1>3. \A k \in Kinds : \/ /\ t[k].seq = h[p][k].seq /\ t[k].id = h[p][k].id
                          /\ t[k].pending => h[p][k].pending
                       \/ t[k].seq >= h[p].seq
  BY <1>2
<1>4. Fresh(p, t) \subseteq {kind}
  BY DEF Fresh
<1> QED
  BY <1>2, <1>3, <1>4 DEF Onward, Live

LEMMA LoginResponseKept ==
    ASSUME TypeInv, TypeInv', OwnInv, TurnInv, NEW m \in net, LoginResponse(m)
    PROVE  TurnInv'
<1> DEFINE o == h[m.p]
           c == Cleared(o, {"login"})
           s == [c EXCEPT !.radios = @ \/ Listening(o)]
           answered == [s EXCEPT !.id[2] = m.id[2]]
           i == answered.id
           t == [sendRenewal(answered) EXCEPT !.authed = TRUE]
<1>1. /\ Open(m.p) /\ m.kind = "welcome" /\ Arrives(m, "welcome") /\ Answers(m, o.login)
      /\ m.id[1] = o.login.id[1] /\ UNCHANGED <<journal, tokens, granted>>
  BY DEF LoginResponse, Arrives, Relevant, radio
<1>2. /\ Sound(o, Len(names)) /\ Len(names) \in Nat /\ m.p \in Procs
      /\ DOMAIN o = Fields /\ Ordered(o) /\ m.id \in Ids(Len(names))
  BY <1>1, Addressed DEF TurnInv
<1>3. /\ o.phase = "up" /\ ~o.authed /\ ~o.relogin /\ o.pred = NoProc
      /\ ~o.gotAuth /\ ~o.ticking /\ ~o.owned /\ ~o.opened /\ ~o.renewal.pending
      /\ ~o.stream.pending /\ o.login.pending /\ m.seq = o.login.seq
  BY <1>1, <1>2, Zenon DEF Ordered, Idle, Answers
<1>4. Listening(o)
  BY <1>3 DEF Listening
<1>5. /\ DOMAIN c = Fields /\ \A f \in Fields \ Kinds : c[f] = o[f]
      /\ \A k \in Kinds : /\ c[k].seq = o[k].seq /\ c[k].id = o[k].id
                          /\ c[k].pending => o[k].pending
                          /\ k = "login" => ~c[k].pending
  BY <1>2, ClearedAsks, ClearedLeaves DEF Kinds
<1> HIDE DEF c
<1>6. /\ DOMAIN s = Fields /\ (\A f \in Orderly : s[f] = c[f]) /\ (\A k \in Kinds : s[k] = c[k])
  BY <1>5 DEF Orderly, Fields, Flags, Kinds
<1>7. \A f \in Orderly : s[f] = o[f]
  BY <1>5, <1>6 DEF Orderly, Fields, Flags, Kinds
<1>8. s.phase = o.phase /\ Listening(s)
  BY <1>3, <1>7 DEF Orderly, Listening
<1>9. Receive(m, IF s.authed \/ s.id[1] # m.id[1] THEN s ELSE t)
  BY <1>8, Zenon DEF LoginResponse, c
<1>10. CASE s.authed \/ s.id[1] # m.id[1]
  <2>1. Onward(m.p, s) /\ Journaling(m.p, s)
    <3> HIDE DEF s
    <3> QED
      BY <1>1, <1>2, <1>5, <1>6, <1>7, Dropping
  <2> QED
    BY <1>1, <1>9, <1>10, <2>1, ReceiveKept
<1>11. CASE ~(s.authed \/ s.id[1] # m.id[1])
  <2>1. s.id = o.id /\ o.id \in Ids(Len(names)) /\ s.id[1] = m.id[1] /\ s.seq = o.seq
        /\ s.reclaim = o.reclaim /\ s.phase = o.phase /\ s.pred = o.pred /\ s.relogin = o.relogin
        /\ s.gotAuth = o.gotAuth /\ s.ticking = o.ticking /\ s.owned = o.owned
        /\ s.opened = o.opened
    BY <1>2, <1>7, <1>11 DEF Orderly, Sound
  <2> HIDE DEF s
  <2>2. /\ i = m.id /\ DOMAIN answered = Fields
        /\ \A f \in Fields \ {"id"} : answered[f] = s[f]
    BY <1>2, <1>6, <2>1 DEF Ids, Fields, Flags, Kinds
  <2>3. answered.seq = s.seq /\ \A f \in (Orderly \ {"id"}) \cup Kinds : answered[f] = s[f]
    BY <2>2 DEF Orderly, Fields, Flags, Kinds
  <2> HIDE DEF answered
  <2>4. /\ t.seq = s.seq + 1 /\ t.renewal.seq = s.seq /\ t.renewal.id = i /\ t.authed /\ t.id = i
        /\ t.phase = s.phase /\ t.reclaim = s.reclaim /\ t.pred = s.pred /\ t.relogin = s.relogin
        /\ t.gotAuth = s.gotAuth /\ t.ticking = s.ticking /\ t.owned = s.owned
        /\ t.opened = s.opened /\ \A k \in Kinds \ {"renewal"} : t[k] = s[k]
    BY <2>2, <2>3 DEF sendRenewal, Begun, Orderly, Fields, Flags, Kinds
  <2> HIDE DEF t
  <2>5. \A k \in Kinds \ {"renewal"} : /\ t[k].seq = o[k].seq /\ t[k].id = o[k].id
                                       /\ t[k].pending => o[k].pending
    BY <1>5, <1>6, <2>4
  <2>6. ~t.login.pending /\ ~t.stream.pending
    BY <1>3, <1>5, <1>6, <2>4, <2>5 DEF Kinds
  <2>7. Ordered(t)
    BY <1>3, <2>1, <2>2, <2>4, <2>6, Zenon DEF Ordered
  <2>8. Secure(t.id)
    <3>1. m.id = Id(m.id[1]) /\ m.id[1] \in tokens
      BY <1>1, <1>2, <1>3 DEF TurnInv, Told
    <3>2. Spared(Id(m.id[1]))
      BY <1>1, <1>2, <1>3 DEF TurnInv, InUse
    <3> QED
      BY <2>2, <2>4, <3>1, <3>2 DEF Secure
  <2>9. Asking(m.p, t)
    <3>1. Asking(m.p, o)
      BY <1>1, <1>2 DEF TurnInv
    <3>2. "stream" \in Kinds \ {"renewal"}
      BY DEF Kinds
    <3>3. t.stream.seq = o.stream.seq
      BY <2>5, <3>2, Zenon
    <3> QED
      BY <1>3, <2>6, <3>1, <3>3 DEF Asking, Silent
  <2>10. Onward(m.p, t)
    BY <1>1, <1>2, <1>3, <2>1, <2>4, <2>5, <2>6, <2>7, <2>8, <2>9, Asks DEF Kinds
  <2>11. Journaling(m.p, t)
    BY <1>1, <1>2, <1>3, <2>1, <2>4, Unjournaled
  <2> QED
    BY <1>1, <1>9, <1>11, <2>10, <2>11, ReceiveKept
<1> QED
  BY <1>10, <1>11

LEMMA TokenRenewedKept ==
    ASSUME TypeInv, TypeInv', OwnInv, TurnInv, NEW m \in net, TokenRenewed(m)
    PROVE  TurnInv'
<1> DEFINE o == h[m.p]
           c == Cleared(o, {"renewal"})
           s == [c EXCEPT !.id = m.id, !.ticking = TRUE, !.gotAuth = TRUE]
           t == sendRequestStream(s)
<1>1. /\ Open(m.p) /\ m.kind \in {"renewed", "refused"} /\ Arrives(m, m.kind)
      /\ Answers(m, o.renewal) /\ Listening(o) /\ UNCHANGED <<tokens, granted>>
  BY DEF TokenRenewed, Arrives, Relevant, radio
<1>2. /\ Sound(o, Len(names)) /\ Len(names) \in Nat /\ m.p \in Procs
      /\ DOMAIN o = Fields /\ Ordered(o)
  BY <1>1, Addressed DEF TurnInv
<1>3. o.phase = "up" /\ o.renewal.pending /\ m.seq = o.renewal.seq
  BY <1>1, ActsLoggedIn DEF LoggedIn, Listening, Answers
<1>4. m.kind = "renewed" /\ m.id = o.id
  BY <1>1, <1>2, <1>3 DEF TurnInv, Told, Ordered
<1>5. o.authed /\ ~o.relogin /\ ~o.login.pending /\ o.pred = NoProc
  BY <1>2, <1>3, Zenon DEF Ordered, Idle
<1>6. /\ DOMAIN c = Fields /\ \A f \in Fields \ Kinds : c[f] = o[f]
      /\ \A k \in Kinds : /\ c[k].seq = o[k].seq /\ c[k].id = o[k].id
                          /\ c[k].pending => o[k].pending
                          /\ k = "renewal" => ~c[k].pending
  BY <1>2, ClearedAsks, ClearedLeaves DEF Kinds
<1>7. /\ s.phase = o.phase /\ s.seq = o.seq /\ s.id = o.id /\ s.authed = o.authed /\ s.gotAuth
      /\ s.ticking /\ s.owned = o.owned /\ s.opened = o.opened /\ s.reclaim = o.reclaim
      /\ s.relogin = o.relogin /\ s.pred = o.pred /\ DOMAIN s = Fields
      /\ \A k \in Kinds : s[k] = c[k]
  <2> HIDE DEF c
  <2> QED
    BY <1>4, <1>6 DEF Fields, Flags, Kinds
<1>8. /\ journal' = IF s.owned THEN RenewedJournal(m.p, m.id) ELSE journal
      /\ Receive(m, s) \/ (Receive(m, t) /\ ~s.stream.pending /\ ~s.opened)
  BY <1>4, Zenon DEF TokenRenewed, RequestWhenReady, permitsRadioTeardown
<1> HIDE DEF c, s
<1>9. ~s.login.pending /\ ~s.renewal.pending /\ s.stream.id = o.stream.id
      /\ (s.stream.pending => o.stream.pending) /\ s.stream.seq = o.stream.seq
  BY <1>5, <1>6, <1>7 DEF Kinds
<1>10. Ordered(s)
  BY <1>2, <1>3, <1>4, <1>5, <1>7, <1>9, Zenon DEF Ordered
<1>11. ASSUME NEW x, x.owned = o.owned, x.id = o.id, x.phase = o.phase, x.reclaim = o.reclaim
       PROVE  Journaling(m.p, x)
  <2>1. CASE o.owned
    <3>1. Covers(journal, granted, m.p, o.id)
      BY <1>1, <1>2, <2>1 DEF TurnInv, Recorded
    <3>2. \A j \in journal' : j.owner = m.p /\ j.id = m.id
      BY <1>7, <1>8, <2>1 DEF RenewedJournal
    <3>3. journal' # {}
      BY <1>7, <1>8, <2>1 DEF RenewedJournal
    <3>4. Covers(journal', granted', m.p, x.id)
      BY <1>1, <1>4, <1>11, <3>1, <3>2, <3>3 DEF Covers
    <3>5. \A j \in journal' : h[j.owner].phase # "dead"
      BY <1>3, <3>2
    <3> QED
      BY <3>4, <3>5 DEF Journaling
  <2>2. CASE ~o.owned
    <3>1. journal' = journal
      BY <1>7, <1>8, <2>2
    <3> QED
      BY <1>1, <1>2, <1>3, <1>11, <2>2, <3>1, Unjournaled
  <2> QED
    BY <2>1, <2>2
<1>12. CASE Receive(m, s)
  <2>1. Onward(m.p, s)
    BY <1>1, <1>2, <1>3, <1>5, <1>6, <1>7, <1>10, Quieter DEF Live
  <2> QED
    BY <1>1, <1>7, <1>11, <1>12, <2>1, ReceiveKept
<1>13. CASE Receive(m, t) /\ ~s.stream.pending /\ ~s.opened
  <2>1. /\ t.seq = s.seq + 1 /\ t.stream.seq = s.seq /\ t.stream.id = s.id
        /\ t.phase = s.phase /\ t.id = s.id /\ t.authed = s.authed /\ t.gotAuth = s.gotAuth
        /\ t.ticking = s.ticking /\ t.owned = s.owned /\ t.opened = s.opened
        /\ t.reclaim = s.reclaim /\ t.relogin = s.relogin /\ t.pred = s.pred
        /\ \A k \in Kinds \ {"stream"} : t[k] = s[k]
    BY <1>7 DEF sendRequestStream, Begun, Fields, Flags, Kinds
  <2> HIDE DEF t
  <2>2. \A k \in Kinds \ {"stream"} : /\ t[k].seq = o[k].seq /\ t[k].id = o[k].id
                                      /\ t[k].pending => o[k].pending
    BY <1>6, <1>7, <2>1
  <2>3. ~t.login.pending /\ ~t.renewal.pending
    BY <1>9, <2>1 DEF Kinds
  <2>4. Ordered(t)
    BY <1>7, <1>10, <2>1, <2>3, Zenon DEF Ordered, Idle
  <2>5. Secure(t.id)
    BY <1>1, <1>2, <1>3, <1>5, <1>7, <2>1 DEF TurnInv, InUse
  <2>6. Asking(m.p, t)
    BY <1>7, <2>1 DEF Asking
  <2>7. Onward(m.p, t)
    BY <1>1, <1>2, <1>3, <1>5, <1>7, <2>1, <2>2, <2>3, <2>4, <2>5, <2>6, Asks DEF Kinds
  <2> QED
    BY <1>1, <1>7, <1>11, <1>13, <2>1, <2>7, ReceiveKept
<1> QED
  BY <1>8, <1>12, <1>13

\* The radio keeps the tokens it gave: no renewal is refused.
LEMMA NoneRefused ==
    ASSUME TypeInv, OwnInv, TurnInv, NEW m \in net
    PROVE  ~TokenRefused(m)
<1> SUFFICES ASSUME TokenRefused(m)
             PROVE  FALSE
  OBVIOUS
<1>1. /\ Open(m.p) /\ m.kind = "refused" /\ Arrives(m, "refused")
      /\ Answers(m, h[m.p].renewal) /\ Listening(h[m.p])
  BY DEF TokenRefused, Arrives, Relevant
<1>2. h[m.p].phase = "up" /\ m.p \in Procs
  BY <1>1, ActsLoggedIn, Addressed DEF LoggedIn, Listening
<1> QED
  BY <1>1, <1>2 DEF TurnInv, Told, Answers

LEMMA StreamGrantedKept ==
    ASSUME TypeInv, TypeInv', OwnInv, TurnInv, NEW m \in net, StreamGranted(m)
    PROVE  TurnInv'
<1> DEFINE o == h[m.p]
           c == Cleared(o, {"stream"})
           s == Acquired(c)
           t == [s EXCEPT !.reclaims = 0, !.reclaim = FALSE, !.opened = TRUE,
                          !.resetTried = FALSE, !.ports = FALSE]
<1>1. /\ Open(m.p) /\ m.kind = "grant" /\ Arrives(m, "grant") /\ Answers(m, o.stream)
      /\ Listening(o) /\ m.id = o.stream.id /\ UNCHANGED <<tokens, granted>>
      /\ journal' = GrantJournal(m.p, s.id) /\ Receive(m, t)
  BY DEF StreamGranted, Arrives, Relevant, radio
<1>2. /\ Sound(o, Len(names)) /\ Len(names) \in Nat /\ m.p \in Procs
      /\ DOMAIN o = Fields /\ Ordered(o)
  BY <1>1, Addressed DEF TurnInv
<1>3. o.phase = "up" /\ o.stream.pending
  BY <1>1, ActsLoggedIn DEF LoggedIn, Listening, Answers
<1>4. o.gotAuth /\ o.authed /\ o.stream.id = o.id /\ o.pred = NoProc /\ ~o.login.pending
  BY <1>2, <1>3, Zenon DEF Ordered, Idle
<1>5. /\ DOMAIN c = Fields /\ \A f \in Fields \ Kinds : c[f] = o[f]
      /\ \A k \in Kinds : /\ c[k].seq = o[k].seq /\ c[k].id = o[k].id
                          /\ c[k].pending => o[k].pending
  BY <1>2, ClearedAsks, ClearedLeaves DEF Kinds
<1> HIDE DEF c
<1>6. /\ s.phase = o.phase /\ s.seq = o.seq /\ s.id = o.id /\ s.authed = o.authed
      /\ s.gotAuth = o.gotAuth /\ s.ticking = o.ticking /\ s.owned
      /\ s.relogin = o.relogin /\ s.pred = o.pred /\ DOMAIN s = Fields
      /\ \A k \in Kinds : s[k] = c[k]
  BY <1>5 DEF Acquired, Fields, Flags, Kinds
<1> HIDE DEF s
<1>7. /\ t.phase = s.phase /\ t.seq = s.seq /\ t.id = s.id /\ t.authed = s.authed
      /\ t.gotAuth = s.gotAuth /\ t.ticking = s.ticking /\ t.owned = s.owned /\ t.opened
      /\ ~t.reclaim /\ t.relogin = s.relogin /\ t.pred = s.pred
      /\ \A k \in Kinds : t[k] = s[k]
  BY <1>6 DEF Fields, Flags, Kinds
<1> HIDE DEF t
<1>8. /\ t.login.pending => o.login.pending
      /\ t.renewal.pending => o.renewal.pending
      /\ t.renewal.id = o.renewal.id /\ t.stream.id = o.stream.id
  BY <1>5, <1>6, <1>7 DEF Kinds
<1>9. Ordered(t)
  BY <1>2, <1>3, <1>4, <1>6, <1>7, <1>8, Zenon DEF Ordered
<1>10. Onward(m.p, t)
  <2>1. /\ t.phase = o.phase /\ t.seq = o.seq /\ t.id = o.id /\ t.pred = o.pred
        /\ t.authed = o.authed /\ t.gotAuth = o.gotAuth
        /\ \A k \in Kinds : /\ t[k].seq = o[k].seq /\ t[k].id = o[k].id
                            /\ t[k].pending => o[k].pending
    BY <1>5, <1>6, <1>7
  <2>2. t.phase \in Live
    BY <1>3, <2>1 DEF Live
  <2> QED
    BY <1>1, <1>2, <1>9, <2>1, <2>2, Quieter
<1>11. Journaling(m.p, t)
  <2>1. m.id = Id(m.id[1]) /\ m.id[1] \in granted
    BY <1>1, <1>2 DEF TurnInv, Told
  <2>2. journal' = {[owner |-> m.p, id |-> t.id, full |-> FALSE]} /\ t.id = m.id
    BY <1>1, <1>4, <1>6, <1>7 DEF GrantJournal
  <2>3. \A j \in journal' : j.owner = m.p /\ j.id = t.id
    BY <2>2
  <2>4. Covers(journal', granted', m.p, t.id)
    BY <1>1, <2>1, <2>2, <2>3 DEF Covers
  <2> QED
    BY <1>3, <2>3, <2>4 DEF Journaling
<1> QED
  BY <1>1, <1>10, <1>11, ReceiveKept

\* A handler that has not authenticated logs in.
LEMMA LoginOnward ==
    ASSUME TypeInv, TurnInv, NEW p \in Procs, Open(p), h[p].phase \in {"discover", "up"},
           ~h[p].gotAuth, NEW x, DOMAIN x = Fields, x.phase = "up", x.seq = h[p].seq,
           \A k \in Kinds : /\ x[k].seq = h[p][k].seq /\ x[k].id = h[p][k].id
                            /\ x[k].pending => h[p][k].pending,
           ~x.renewal.pending, ~x.stream.pending, ~x.authed, ~x.relogin, ~x.gotAuth, ~x.ticking,
           ~x.owned, ~x.opened, x.pred = NoProc
    PROVE  LET t == sendLogin(x)
           IN  Onward(p, t) /\ ~t.owned /\ t.reclaim = x.reclaim /\ t.phase = "up"
<1> DEFINE o == h[p]
           i == <<Len(names) + 1, x.id[2]>>
           t == sendLogin(x)
<1>1. /\ t.seq = x.seq + 1 /\ t.login.seq = x.seq /\ t.login.id = i
      /\ t.authed = x.authed /\ t.phase = x.phase /\ t.reclaim = x.reclaim /\ t.pred = x.pred
      /\ t.relogin = x.relogin /\ t.gotAuth = x.gotAuth /\ t.ticking = x.ticking
      /\ t.owned = x.owned /\ t.opened = x.opened /\ \A k \in Kinds \ {"login"} : t[k] = x[k]
  BY DEF sendLogin, Begun, Fields, Flags, Kinds
<1> HIDE DEF t
<1>2. t.renewal = x.renewal /\ t.stream = x.stream
  BY <1>1 DEF Kinds
<1>3. Ordered(t)
  BY <1>1, <1>2, Zenon DEF Ordered
<1>4. Spared(Id(t.login.id[1]))
  <2>1. t.login.id[1] = Len(names) + 1 /\ Len(names) \in Nat
    BY <1>1 DEF TypeInv
  <2>2. \A d \in net : d.id \in Ids(Len(names))
    BY DEF TypeInv, MailSound, Mail
  <2>3. Id(Len(names) + 1) \notin Ids(Len(names))
    <3>1. ASSUME NEW n \in Nat PROVE <<n + 1, n + 1>> \notin (0 .. n) \X (0 .. n)
      OBVIOUS
    <3> QED
      BY <2>1, <3>1 DEF Id, Ids
  <2> QED
    BY <2>1, <2>2, <2>3 DEF Spared
<1>5. Asking(p, t)
  <2>1. Asking(p, o)
    BY DEF TurnInv
  <2>2. t.stream.seq = o.stream.seq
    BY <1>2 DEF Kinds
  <2> QED
    BY <1>2, <2>1, <2>2 DEF Asking, Silent
<1>6. \A k \in Kinds \ {"login"} : /\ t[k].seq = o[k].seq /\ t[k].id = o[k].id
                                   /\ t[k].pending => o[k].pending
  BY <1>1
<1>7. Onward(p, t)
  <2>1. /\ t.phase = "up" /\ t.seq = o.seq + 1 /\ t.login.seq = o.seq /\ t.pred = NoProc
        /\ ~t.authed
    BY <1>1
  <2>2. "login" \in Kinds /\ "login" # "removal"
    BY DEF Kinds
  <2> QED
    BY <1>3, <1>4, <1>5, <1>6, <2>1, <2>2, Asks
<1> QED
  BY <1>1, <1>7 DEF t

\* Selecting a radio without authentication asks for nothing.
LEMMA SelectSilent ==
    ASSUME NEW s, DOMAIN s = Fields, ~s.gotAuth
    PROVE  LET t == selectIfKnown(s)
           IN  /\ DOMAIN t = Fields /\ \A f \in Fields \ {"opened", "media", "ports"} : t[f] = s[f]
               /\ t.opened => s.opened
<1> DEFINE x == closeStreams(s)
           c == [x EXCEPT !.ports = TRUE]
<1>1. /\ DOMAIN x = Fields /\ ~x.opened /\ ~x.gotAuth
      /\ \A f \in Fields \ {"opened", "media", "ports"} : x[f] = s[f]
  BY DEF closeStreams, Fields, Flags, Kinds
<1> HIDE DEF x
<1>2. /\ DOMAIN c = Fields /\ ~c.opened /\ ~c.gotAuth
      /\ \A f \in Fields \ {"opened", "media", "ports"} : c[f] = x[f]
  BY <1>1 DEF Fields, Flags, Kinds
<1>3. selectIfKnown(s) = IF s.radios THEN (IF c.gotAuth THEN sendRequestStream(c) ELSE c) ELSE s
  BY Zenon DEF selectIfKnown, setCurrentRadio, x
<1> HIDE DEF c
<1>4. selectIfKnown(s) = c \/ selectIfKnown(s) = s
  BY <1>2, <1>3
<1> QED
  BY <1>1, <1>2, <1>4

\* The login that follows a confirmed removal.
LEMMA RecoveredOnward ==
    ASSUME TypeInv, TurnInv, NEW p \in Procs, Open(p), h[p].pred # NoProc,
           NEW s, Sound(s, Len(names)), \A f \in Orderly : s[f] = h[p][f],
           \A k \in Kinds : s[k].seq = h[p][k].seq /\ s[k].id = h[p][k].id
    PROVE  LET t == completePredecessorTokenRemoval(s)
           IN  Onward(p, t) /\ Journaling(p, t)
<1> DEFINE o == h[p]
           c == Cleared(s, Kinds)
           y == closeStreams(c)
           i == <<s.id[1], 0>>
           x == [y EXCEPT !.id = i, !.gotAuth = FALSE, !.authed = FALSE,
                          !.pred = NoProc, !.retired = FALSE]
           d == selectIfKnown(x)
           t == completePredecessorTokenRemoval(s)
<1>1. Ordered(o) /\ Len(names) \in Nat
  BY DEF TurnInv, TypeInv
<1>2. o.phase = "up" /\ ~o.authed /\ ~o.relogin /\ o.reclaim /\ ~o.gotAuth /\ ~o.ticking /\ ~o.owned
  BY <1>1, Zenon DEF Ordered, Idle
<1>3. /\ s.phase = "up" /\ ~s.relogin /\ s.reclaim /\ ~s.ticking /\ ~s.owned /\ s.seq = o.seq
  BY <1>2 DEF Orderly
<1>4. /\ DOMAIN c = Fields /\ (\A f \in Fields \ Kinds : c[f] = s[f])
      /\ \A k \in Kinds : c[k].seq = s[k].seq /\ c[k].id = s[k].id /\ ~c[k].pending
  BY <1>1, ClearedAsks, ClearedLeaves
<1>5. /\ c.phase = "up" /\ ~c.relogin /\ c.reclaim /\ ~c.ticking /\ ~c.owned /\ c.seq = o.seq
  BY <1>3, <1>4 DEF Fields, Flags, Kinds
<1> HIDE DEF c
<1>6. /\ DOMAIN y = Fields /\ ~y.opened /\ \A k \in Kinds : y[k] = c[k]
      /\ y.phase = c.phase /\ y.relogin = c.relogin /\ y.reclaim = c.reclaim
      /\ y.ticking = c.ticking /\ y.owned = c.owned /\ y.seq = c.seq
  BY <1>4 DEF closeStreams, Fields, Flags, Kinds
<1>7. t = sendLogin(d)
  BY Zenon DEF completePredecessorTokenRemoval, c
<1> HIDE DEF y, i
<1>8. /\ DOMAIN x = Fields /\ x.opened = y.opened /\ \A k \in Kinds : x[k] = y[k]
      /\ x.phase = y.phase /\ x.relogin = y.relogin /\ x.reclaim = y.reclaim
      /\ x.ticking = y.ticking /\ x.owned = y.owned /\ x.seq = y.seq
      /\ ~x.gotAuth /\ ~x.authed /\ x.pred = NoProc
  BY <1>6 DEF Fields, Flags, Kinds
<1> HIDE DEF x
<1>9. /\ DOMAIN d = Fields /\ (d.opened => x.opened)
      /\ \A f \in Fields \ {"opened", "media", "ports"} : d[f] = x[f]
  BY <1>8, SelectSilent
<1> HIDE DEF d
<1>10. /\ d.phase = x.phase /\ d.relogin = x.relogin /\ d.reclaim = x.reclaim
       /\ d.ticking = x.ticking /\ d.owned = x.owned /\ d.seq = x.seq
       /\ d.gotAuth = x.gotAuth /\ d.authed = x.authed /\ d.pred = x.pred
       /\ \A k \in Kinds : d[k] = x[k]
  BY <1>9 DEF Fields, Flags, Kinds
<1>11. \A k \in Kinds : d[k].seq = o[k].seq /\ d[k].id = o[k].id /\ ~d[k].pending
  BY <1>4, <1>6, <1>8, <1>10
<1>12. ~d.renewal.pending /\ ~d.stream.pending
  BY <1>11 DEF Kinds
<1>13. /\ d.phase = "up" /\ ~d.relogin /\ d.reclaim /\ ~d.ticking /\ ~d.owned /\ d.seq = o.seq
       /\ ~d.gotAuth /\ ~d.authed /\ d.pred = NoProc /\ ~d.opened
  BY <1>5, <1>6, <1>8, <1>9, <1>10
<1> HIDE DEF t
<1>14. Onward(p, t) /\ ~t.owned /\ t.reclaim = d.reclaim
  BY <1>2, <1>7, <1>9, <1>11, <1>12, <1>13, LoginOnward
<1>15. Journaling(p, t)
  BY <1>13, <1>14 DEF Journaling
<1> QED
  BY <1>14, <1>15 DEF t

LEMMA RadioAvailableKept ==
    ASSUME TypeInv, TypeInv', OwnInv, TurnInv, NEW m \in net, RadioAvailable(m)
    PROVE  TurnInv'
<1> DEFINE o == h[m.p]
           x == closeStreams(o)
           c == [x EXCEPT !.ports = TRUE]
           t == sendRequestStream(c)
<1>1. /\ Open(m.p) /\ Noticed(m, "free") /\ UNCHANGED <<journal, tokens, granted>>
      /\ Receive(m, IF c.gotAuth THEN t ELSE c)
  BY DEF RadioAvailable, Noticed, Arrives, radio, setCurrentRadio
<1>2. /\ Sound(o, Len(names)) /\ Len(names) \in Nat /\ m.p \in Procs
      /\ DOMAIN o = Fields /\ Ordered(o)
  BY <1>1, Addressed DEF TurnInv
<1>3. o.phase = "up" /\ ~o.opened
  BY <1>1, Noticing
<1>4. ~o.owned
  BY <1>2, <1>3 DEF Ordered
<1>5. /\ DOMAIN x = Fields /\ ~x.opened /\ \A k \in Kinds : x[k] = o[k]
      /\ \A f \in Orderly \ {"opened"} : x[f] = o[f]
  BY <1>2 DEF closeStreams, Orderly, Fields, Flags, Kinds
<1> HIDE DEF x
<1>6. /\ DOMAIN c = Fields /\ ~c.opened /\ (\A k \in Kinds : c[k] = o[k])
      /\ \A f \in Orderly \ {"opened"} : c[f] = o[f]
  BY <1>5 DEF Orderly, Fields, Flags, Kinds
<1> HIDE DEF c
<1>7. /\ c.phase = o.phase /\ c.seq = o.seq /\ c.id = o.id /\ c.authed = o.authed
      /\ c.gotAuth = o.gotAuth /\ c.ticking = o.ticking /\ c.owned = o.owned
      /\ c.reclaim = o.reclaim /\ c.relogin = o.relogin /\ c.pred = o.pred
  BY <1>6 DEF Orderly
<1>8. c.login = o.login /\ c.renewal = o.renewal /\ c.stream = o.stream
  BY <1>6 DEF Kinds
<1>9. Ordered(c)
  BY <1>2, <1>3, <1>4, <1>6, <1>7, <1>8, Zenon DEF Ordered, Idle
<1>10. CASE ~c.gotAuth
  <2>1. c.phase \in Live
    BY <1>3, <1>7 DEF Live
  <2>2. Onward(m.p, c)
    BY <1>1, <1>2, <1>6, <1>7, <1>9, <2>1, Quieter
  <2>3. Journaling(m.p, c)
    BY <1>1, <1>2, <1>7, Unjournaled
  <2> QED
    BY <1>1, <1>10, <2>2, <2>3, ReceiveKept
<1>11. CASE c.gotAuth
  <2>1. o.authed /\ ~o.login.pending /\ o.pred = NoProc
    BY <1>2, <1>7, <1>11, Zenon DEF Ordered, Idle
  <2>2. /\ t.seq = c.seq + 1 /\ t.stream.seq = c.seq /\ t.stream.id = c.id
        /\ t.phase = c.phase /\ t.id = c.id /\ t.authed = c.authed /\ t.gotAuth = c.gotAuth
        /\ t.ticking = c.ticking /\ t.owned = c.owned /\ t.opened = c.opened
        /\ t.reclaim = c.reclaim /\ t.relogin = c.relogin /\ t.pred = c.pred
        /\ \A k \in Kinds \ {"stream"} : t[k] = c[k]
    BY <1>6 DEF sendRequestStream, Begun, Fields, Flags, Kinds
  <2> HIDE DEF t
  <2>3. t.login = c.login /\ t.renewal = c.renewal
    BY <2>2 DEF Kinds
  <2>4. Ordered(t)
    BY <1>9, <1>11, <2>2, <2>3, Zenon DEF Ordered, Idle
  <2>5. \A k \in Kinds \ {"stream"} : /\ t[k].seq = o[k].seq /\ t[k].id = o[k].id
                                      /\ t[k].pending => o[k].pending
    BY <1>6, <2>2
  <2>6. Secure(t.id)
    BY <1>1, <1>2, <1>3, <1>7, <2>1, <2>2 DEF TurnInv, InUse
  <2>7. Asking(m.p, t)
    BY <1>11, <2>2 DEF Asking
  <2>8. /\ t.phase = "up" /\ t.seq = o.seq + 1 /\ t.stream.seq = o.seq /\ t.pred = NoProc
        /\ ~t.login.pending
    BY <1>3, <1>7, <1>8, <2>1, <2>2, <2>3
  <2>9. "stream" \in Kinds /\ "stream" # "removal"
    BY DEF Kinds
  <2>10. Onward(m.p, t)
    BY <1>1, <1>2, <1>3, <2>4, <2>5, <2>6, <2>7, <2>8, <2>9, Asks
  <2>11. Journaling(m.p, t)
    BY <1>1, <1>2, <1>7, <2>2, Unjournaled
  <2> QED
    BY <1>1, <1>11, <2>10, <2>11, ReceiveKept
<1> QED
  BY <1>10, <1>11

\* A predecessor's removal is confirmed, or a removal at shutdown.
LEMMA RecoveryEndKept ==
    ASSUME TypeInv, TypeInv', OwnInv, TurnInv, NEW m \in net,
           RemovalAcknowledged(m) \/ SessionEnded(m)
    PROVE  TurnInv'
<1> DEFINE o == h[m.p]
           c == Cleared(o, {"removal"})
           a == [c EXCEPT !.ack = TRUE]
           e == [o EXCEPT !.disc = TRUE]
           z == closeStreams(e)
           w == [z EXCEPT !.owned = FALSE, !.reported = @ \/ ~e.reclaim]
<1>1. Open(m.p) /\ UNCHANGED <<tokens, granted>>
  BY DEF RemovalAcknowledged, SessionEnded, Arrives, radio
<1>2. /\ Sound(o, Len(names)) /\ Len(names) \in Nat /\ m.p \in Procs
      /\ DOMAIN o = Fields /\ Ordered(o) /\ o.phase \in Live
  BY <1>1, Addressed DEF TurnInv
<1>3. /\ DOMAIN c = Fields /\ \A f \in Fields \ Kinds : c[f] = o[f]
      /\ \A k \in Kinds : /\ c[k].seq = o[k].seq /\ c[k].id = o[k].id
                          /\ c[k].pending => o[k].pending
  BY <1>2, ClearedAsks, ClearedLeaves DEF Kinds
<1>4. Sound(c, Len(names))
  BY <1>2, ClearedSound DEF Kinds
<1>5. /\ Sound(a, Len(names)) /\ (\A f \in Orderly : a[f] = o[f]) /\ a.pred = o.pred
      /\ \A k \in Kinds : a[k] = c[k]
  <2> HIDE DEF c
  <2>1. (\A f \in Orderly : a[f] = o[f]) /\ (\A k \in Kinds : a[k] = c[k])
    BY <1>3 DEF Orderly, Fields, Flags, Kinds
  <2>2. Sound(a, Len(names))
    BY <1>4 DEF Sound, Fields, Flags, Kinds
  <2> QED
    BY <2>1, <2>2 DEF Orderly
<1>6. /\ Sound(e, Len(names)) /\ (\A f \in Orderly : e[f] = o[f]) /\ e.pred = o.pred
      /\ (\A k \in Kinds : e[k] = o[k]) /\ DOMAIN e = Fields
  <2>1. (\A f \in Orderly : e[f] = o[f]) /\ (\A k \in Kinds : e[k] = o[k])
    BY <1>2 DEF Orderly, Fields, Flags, Kinds
  <2>2. Sound(e, Len(names))
    BY <1>2 DEF Sound, Fields, Flags, Kinds
  <2> QED
    BY <2>1, <2>2 DEF Orderly, Sound
<1>7. CASE RemovalAcknowledged(m)
  <2>1. IF a.pred # NoProc THEN Receive(m, completePredecessorTokenRemoval(a))
                           ELSE UNCHANGED journal /\ Receive(m, a)
    BY <1>7, Zenon DEF RemovalAcknowledged
  <2> HIDE DEF a, c
  <2>2. CASE a.pred # NoProc
    <3>1. /\ Onward(m.p, completePredecessorTokenRemoval(a))
          /\ Journaling(m.p, completePredecessorTokenRemoval(a))
      BY <1>1, <1>2, <1>3, <1>5, <2>2, RecoveredOnward
    <3> QED
      BY <1>1, <2>1, <2>2, <3>1, ReceiveKept
  <2>3. CASE a.pred = NoProc
    <3>1. Onward(m.p, a) /\ Journaling(m.p, a)
      BY <1>1, <1>2, <1>3, <1>5, <2>1, <2>3, Dropping
    <3> QED
      BY <1>1, <2>1, <2>3, <3>1, ReceiveKept
  <2> QED
    BY <2>2, <2>3
<1>8. CASE SessionEnded(m)
  <2>1. IF e.pred # NoProc THEN Receive(m, completePredecessorTokenRemoval(e))
                           ELSE UNCHANGED journal /\ Receive(m, IF Listening(e) THEN w ELSE z)
    BY <1>8, Zenon DEF SessionEnded
  <2>2. CASE e.pred # NoProc
    <3> HIDE DEF e
    <3>1. /\ Onward(m.p, completePredecessorTokenRemoval(e))
          /\ Journaling(m.p, completePredecessorTokenRemoval(e))
      BY <1>1, <1>2, <1>6, <2>2, RecoveredOnward
    <3> QED
      BY <1>1, <2>1, <2>2, <3>1, ReceiveKept
  <2>3. CASE e.pred = NoProc
    <3> HIDE DEF e
    <3>1. /\ DOMAIN z = Fields /\ ~z.opened /\ \A k \in Kinds : z[k] = e[k]
          /\ \A f \in Orderly \ {"opened"} : z[f] = e[f]
      BY <1>6 DEF closeStreams, Orderly, Fields, Flags, Kinds
    <3> HIDE DEF z
    <3>2. /\ ~w.opened /\ ~w.owned /\ \A k \in Kinds : w[k] = z[k]
          /\ \A f \in Orderly \ {"opened", "owned"} : w[f] = z[f]
      <4> DEFINE b == z.reported \/ ~e.reclaim
                 v == [z EXCEPT !.owned = FALSE, !.reported = b]
      <4>1. w = v
        BY <3>1
      <4> HIDE DEF b, w
      <4>2. /\ ~v.opened /\ ~v.owned /\ \A k \in Kinds : v[k] = z[k]
            /\ \A f \in Orderly \ {"opened", "owned"} : v[f] = z[f]
        BY <3>1 DEF Orderly, Fields, Flags, Kinds
      <4> QED
        BY <4>1, <4>2
    <3> HIDE DEF w
    <3>3. ASSUME NEW t, Receive(m, t), ~t.opened, \A k \in Kinds : t[k] = o[k],
                 \A f \in Orderly \ {"opened", "owned"} : t[f] = o[f],
                 \/ ~t.owned /\ Listening(o)
                 \/ t.owned = o.owned /\ o.phase # "up"
          PROVE  TurnInv'
      <4>1. /\ t.phase = o.phase /\ t.seq = o.seq /\ t.id = o.id /\ t.authed = o.authed
            /\ t.gotAuth = o.gotAuth /\ t.ticking = o.ticking
            /\ t.reclaim = o.reclaim /\ t.relogin = o.relogin /\ t.pred = o.pred
        BY <3>3 DEF Orderly
      <4>2. t.login = o.login /\ t.renewal = o.renewal /\ t.stream = o.stream
        BY <3>3 DEF Kinds
      <4>3. /\ ~t.opened
            /\ \/ ~t.owned /\ o.phase \notin {"settling", "removing"}
               \/ t.owned = o.owned /\ o.phase # "up"
        BY <3>3 DEF Listening
      <4>4. Ordered(o)
        BY <1>2
      <4>5. Ordered(t)
        BY <4>1, <4>2, <4>3, <4>4, Zenon DEF Ordered, Idle
      <4>6. Onward(m.p, t)
        BY <1>1, <1>2, <3>3, <4>1, <4>5, Quieter
      <4>7. Journaling(m.p, t)
        BY <1>1, <1>2, <2>1, <2>3, <3>3, <4>1, Unjournaled
      <4> QED
        BY <1>1, <3>3, <4>6, <4>7, ReceiveKept
    <3>4. Listening(e) => Receive(m, w) /\ Listening(o)
      BY <1>6, <2>1, <2>3 DEF Listening, Orderly
    <3>5. ~Listening(e) => Receive(m, z) /\ z.owned = o.owned /\ o.phase # "up"
      BY <1>6, <2>1, <2>3, <3>1 DEF Listening, Orderly
    <3> QED
      BY <1>6, <3>1, <3>2, <3>3, <3>4, <3>5
  <2> QED
    BY <2>2, <2>3
<1> QED
  BY <1>7, <1>8

-----------------------------------------------------------------------------
(* Connecting, timers, and shutdown.                                       *)

\* Nothing else than what was on its way, or a departure.
LEMMA Plainly ==
    ASSUME NEW p \in Procs, NoProc \notin Procs, NEW t, NEW rest,
           \A m \in rest : m \in net \/ (m.p = NoProc /\ m.kind = "depart")
    PROVE  Residue(p, t, rest)
BY DEF Residue

LEMMA ConnectKept ==
    ASSUME TypeInv, SessionAssumption, Steadfast, TurnInv, NEW p \in Procs, Connect(p)
    PROVE  TurnInv'
<1> DEFINE s == Handler("discover")
           full == {j \in Recoverable : j.full}
           rest == net \cup UNION {Departures(s, j) : j \in full}
           b == full # {}
           t == [s EXCEPT !.retired = b]
<1>1. \A q \in Procs : ~Open(q)
  BY DEF Connect, Steadfast
<1>2. net = {}
  BY <1>1 DEF Connect, TypeInv, MailSound, Carried, Mail
<1>3. Become(p, t, rest)
  BY DEF Connect
<1>4. \A m \in rest : m.p = NoProc
  BY <1>2 DEF Departures, Msg
<1>5. DOMAIN h = Procs
  BY OfProcess
<1> HIDE DEF rest, b
<1>6. /\ t.phase = "discover" /\ ~t.login.pending /\ ~t.authed /\ ~t.relogin /\ ~t.reclaim
      /\ t.pred = NoProc /\ ~t.gotAuth /\ ~t.ticking /\ ~t.renewal.pending /\ ~t.stream.pending
      /\ ~t.owned /\ ~t.opened /\ \A k \in Kinds : ~t[k].pending
  BY DEF Handler, NoRequest, Kinds
<1> HIDE DEF t
<1>7. h' = [h EXCEPT ![p] = t] /\ net' = rest
  <2>1. Fresh(p, t) = {}
    BY <1>6 DEF Fresh
  <2> QED
    BY <1>3, <2>1 DEF Become
<1>8. h'[p] = t /\ \A q \in Procs \ {p} : h'[q] = h[q]
  BY <1>5, <1>7
<1>9. \A q \in Procs : Open(q)' => q = p
  BY <1>1, <1>8 DEF Open
<1>10. Ordered(t)
  BY <1>6, Zenon DEF Ordered, Idle
<1>11. \A q \in Procs : Ordered(h'[q])
  BY <1>8, <1>10, Zenon DEF TurnInv
<1>12. \A m \in net' : m.p # p
  BY <1>4, <1>7 DEF SessionAssumption
<1>13. Decided(p)' /\ Silent(p, h[p])' /\ InUse(p)' /\ Recorded(p)' /\ Unneeded(p)'
  BY <1>6, <1>8, <1>12 DEF Decided, Silent, InUse, Recorded, Unneeded
<1> QED
  BY <1>9, <1>11, <1>12, <1>13 DEF TurnInv, Sole, Asking

LEMMA TransportReadyKept ==
    ASSUME TypeInv, TypeInv', SessionAssumption, OwnInv, TurnInv, NEW p \in Procs,
           TransportReady(p)
    PROVE  TurnInv'
<1> DEFINE o == h[p]
           s == [o EXCEPT !.phase = "up"]
           t == sendLogin(s)
           x == [s EXCEPT !.reclaim = TRUE, !.reclaims = 1]
<1>1. /\ o.phase = "discover" /\ Open(p) /\ UNCHANGED <<journal, tokens, granted>>
      /\ \/ Recoverable = {} /\ Become(p, t, net)
         \/ \E j \in Recoverable :
               Become(p, beginPredecessorTokenRemoval(x, j), net \cup Departures(s, j))
  BY DEF TransportReady, Open, SessionAssumption, radio
<1>2. /\ DOMAIN o = Fields /\ Ordered(o) /\ Young(o)
  BY OfProcess DEF TurnInv, OwnInv
<1>3. /\ ~o.authed /\ ~o.relogin /\ ~o.gotAuth /\ ~o.ticking /\ ~o.owned /\ ~o.opened
      /\ o.pred = NoProc /\ ~o.reclaim /\ \A k \in Kinds : ~o[k].pending
  BY <1>1, <1>2, Zenon DEF Ordered, Idle, Young
<1>4. /\ s.phase = "up" /\ s.seq = o.seq /\ ~s.authed /\ ~s.relogin /\ ~s.gotAuth /\ ~s.ticking
      /\ ~s.owned /\ ~s.opened /\ s.pred = NoProc /\ s.reclaim = o.reclaim
      /\ DOMAIN s = Fields /\ \A k \in Kinds : s[k] = o[k]
  BY <1>2, <1>3 DEF Fields, Flags, Kinds
<1> HIDE DEF s
<1>5. CASE Recoverable = {} /\ Become(p, t, net)
  <2> HIDE DEF t
  <2>1. ~s.renewal.pending /\ ~s.stream.pending
    BY <1>3, <1>4 DEF Kinds
  <2>2. Onward(p, t) /\ ~t.owned
    BY <1>1, <1>3, <1>4, <2>1, LoginOnward DEF t
  <2>3. Journaling(p, t)
    BY <1>1, <1>5, <2>2, Unjournaled
  <2>4. Residue(p, t, net)
    BY Plainly DEF SessionAssumption
  <2> QED
    BY <1>1, <1>5, <2>2, <2>3, <2>4, BecomeKept
<1>6. ASSUME NEW j \in Recoverable,
             Become(p, beginPredecessorTokenRemoval(x, j), net \cup Departures(s, j))
      PROVE  TurnInv'
  <2> DEFINE y == [x EXCEPT !.id = j.id]
             z == sendRemoval(y)
             c == j.full
             q == j.owner
             r == [z EXCEPT !.retired = @ \/ c, !.pred = q, !.attempts = 1,
                            !.ack = FALSE, !.disc = FALSE]
  <2>1. q \in Procs
    BY DEF Recoverable, TypeInv, JournalSound
  <2>2. r = beginPredecessorTokenRemoval(x, j)
    BY DEF beginPredecessorTokenRemoval
  <2>3. /\ x.phase = "up" /\ x.seq = o.seq /\ ~x.authed /\ ~x.relogin /\ ~x.gotAuth /\ ~x.ticking
        /\ ~x.owned /\ ~x.opened /\ x.reclaim
        /\ DOMAIN x = Fields /\ \A k \in Kinds : x[k] = o[k]
    BY <1>4 DEF Fields, Flags, Kinds
  <2> HIDE DEF x, q, c
  <2>4. /\ y.phase = "up" /\ y.seq = o.seq /\ ~y.authed /\ ~y.relogin /\ ~y.gotAuth /\ ~y.ticking
        /\ ~y.owned /\ ~y.opened /\ y.reclaim
        /\ DOMAIN y = Fields /\ \A k \in Kinds : y[k] = o[k]
    BY <2>3 DEF Fields, Flags, Kinds
  <2> HIDE DEF y
  <2>5. /\ z.phase = "up" /\ z.seq = o.seq + 1 /\ ~z.authed /\ ~z.relogin /\ ~z.gotAuth
        /\ ~z.ticking /\ ~z.owned /\ ~z.opened /\ z.reclaim /\ z.removal.seq = o.seq
        /\ DOMAIN z = Fields /\ \A k \in Kinds \ {"removal"} : z[k] = o[k]
    BY <2>4 DEF sendRemoval, Begun, Fields, Flags, Kinds
  <2> HIDE DEF z
  <2>6. /\ r.phase = "up" /\ r.seq = o.seq + 1 /\ ~r.authed /\ ~r.relogin /\ ~r.gotAuth
        /\ ~r.ticking /\ ~r.owned /\ ~r.opened /\ r.reclaim /\ r.removal.seq = o.seq
        /\ \A k \in Kinds \ {"removal"} : r[k] = o[k]
    <3> DEFINE f == z.retired \/ c
               v == [z EXCEPT !.retired = f, !.pred = q, !.attempts = 1,
                              !.ack = FALSE, !.disc = FALSE]
    <3>1. r = v
      BY <2>5
    <3> HIDE DEF f, r
    <3>2. /\ v.phase = "up" /\ v.seq = o.seq + 1 /\ ~v.authed /\ ~v.relogin /\ ~v.gotAuth
          /\ ~v.ticking /\ ~v.owned /\ ~v.opened /\ v.reclaim /\ v.removal.seq = o.seq
          /\ \A k \in Kinds \ {"removal"} : v[k] = o[k]
      BY <2>5 DEF Fields, Flags, Kinds
    <3> QED
      BY <3>1, <3>2
  <2> HIDE DEF r
  <2>7. ~r.login.pending /\ ~r.renewal.pending /\ ~r.stream.pending /\ r.stream = o.stream
    BY <1>3, <2>6 DEF Kinds
  <2>8. Ordered(r)
    BY <2>6, <2>7, Zenon DEF Ordered, Idle
  <2>9. Asking(p, r)
    <3>1. Asking(p, o)
      BY <1>1 DEF TurnInv
    <3> QED
      BY <1>3, <2>7, <3>1 DEF Asking, Silent
  <2>10. "removal" \in Kinds
    BY DEF Kinds
  <2>11. Onward(p, r)
    BY <1>1, <2>6, <2>7, <2>8, <2>9, <2>10, Asks
  <2>12. Journaling(p, r)
    BY <2>6 DEF Journaling
  <2>13. Residue(p, r, net \cup Departures(s, j))
    <3>1. \A m \in net \cup Departures(s, j) : m \in net \/ (m.p = NoProc /\ m.kind = "depart")
      BY DEF Departures, Msg
    <3> QED
      BY <3>1, Plainly DEF SessionAssumption
  <2>14. Become(p, r, net \cup Departures(s, j))
    BY <1>6, <2>2
  <2> QED
    BY <1>1, <2>11, <2>12, <2>13, <2>14, BecomeKept
<1> QED
  BY <1>1, <1>5, <1>6

LEMMA PredecessorRetryKept ==
    ASSUME TypeInv, TypeInv', SessionAssumption, TurnInv, NEW p \in Procs, PredecessorRetry(p)
    PROVE  TurnInv'
<1> DEFINE o == h[p]
           a == [o EXCEPT !.attempts = @ + 1]
           e == [o EXCEPT !.pred = NoProc, !.attempts = 0, !.reported = TRUE]
           again == net \cup {Msg("removal", p, a.removal.seq, a.removal.id)}
<1>1. /\ o.phase = "up" /\ o.pred # NoProc /\ Open(p) /\ UNCHANGED <<journal, tokens, granted>>
      /\ Become(p, a, again) \/ Become(p, e, net)
  BY Zenon DEF PredecessorRetry, Resent, Open, SessionAssumption, radio
<1>2. DOMAIN o = Fields /\ Ordered(o)
  BY OfProcess DEF TurnInv
<1>3. (\A f \in Orderly : a[f] = o[f]) /\ (\A k \in Kinds : a[k] = o[k])
  BY <1>2 DEF Orderly, Fields, Flags, Kinds
<1>4. /\ e.pred = NoProc /\ (\A f \in Orderly \ {"pred"} : e[f] = o[f])
      /\ (\A k \in Kinds : e[k] = o[k])
  BY <1>2 DEF Orderly, Fields, Flags, Kinds
<1> HIDE DEF a, e
<1>5. CASE Become(p, a, again)
  <2>1. Onward(p, a) /\ Journaling(p, a)
    BY <1>1, <1>3, Dropping
  <2>2. a.pred # NoProc
    BY <1>1, <1>3 DEF Orderly
  <2>3. Residue(p, a, again)
    BY <2>2 DEF Residue
  <2> QED
    BY <1>1, <1>5, <2>1, <2>3, BecomeKept
<1>6. CASE Become(p, e, net)
  <2>1. /\ e.phase = o.phase /\ e.seq = o.seq /\ e.id = o.id /\ e.authed = o.authed
        /\ e.gotAuth = o.gotAuth /\ e.ticking = o.ticking /\ e.owned = o.owned
        /\ e.opened = o.opened /\ e.reclaim = o.reclaim /\ e.relogin = o.relogin
    BY <1>4 DEF Orderly
  <2>2. e.login = o.login /\ e.renewal = o.renewal /\ e.stream = o.stream
    BY <1>4 DEF Kinds
  <2>3. Ordered(e)
    BY <1>1, <1>2, <1>4, <2>1, <2>2, Zenon DEF Ordered
  <2>4. e.phase \in Live
    BY <1>1, <2>1 DEF Live
  <2>5. Onward(p, e)
    BY <1>1, <1>4, <2>1, <2>3, <2>4, Quieter
  <2>6. Journaling(p, e)
    BY <1>1, <2>1, Unjournaled
  <2>7. Residue(p, e, net)
    BY Plainly DEF SessionAssumption
  <2> QED
    BY <1>1, <1>6, <2>5, <2>6, <2>7, BecomeKept
<1> QED
  BY <1>1, <1>5, <1>6

LEMMA LoginAgainKept ==
    ASSUME TypeInv, TypeInv', SessionAssumption, TurnInv, NEW p \in Procs, LoginAgain(p)
    PROVE  TurnInv'
<1> DEFINE o == h[p]
           x == [o EXCEPT !.relogin = FALSE]
           d == selectIfKnown(x)
           t == sendLogin(d)
<1>1. /\ o.phase = "up" /\ o.relogin /\ Open(p) /\ UNCHANGED <<journal, tokens, granted>>
      /\ Become(p, t, net)
  BY DEF LoginAgain, Open, SessionAssumption, radio
<1>2. DOMAIN o = Fields /\ Ordered(o)
  BY OfProcess DEF TurnInv
<1>3. /\ ~o.authed /\ ~o.gotAuth /\ ~o.ticking /\ ~o.owned /\ ~o.opened /\ o.pred = NoProc
      /\ ~o.renewal.pending /\ ~o.stream.pending
  BY <1>1, <1>2, Zenon DEF Ordered, Idle
<1>4. /\ DOMAIN x = Fields /\ ~x.relogin /\ \A k \in Kinds : x[k] = o[k]
      /\ x.phase = o.phase /\ x.seq = o.seq /\ x.authed = o.authed /\ x.gotAuth = o.gotAuth
      /\ x.ticking = o.ticking /\ x.owned = o.owned /\ x.opened = o.opened
      /\ x.reclaim = o.reclaim /\ x.pred = o.pred
  BY <1>2 DEF Fields, Flags, Kinds
<1> HIDE DEF x
<1>5. /\ DOMAIN d = Fields /\ (d.opened => x.opened)
      /\ \A f \in Fields \ {"opened", "media", "ports"} : d[f] = x[f]
  BY <1>3, <1>4, SelectSilent
<1> HIDE DEF d
<1>6. /\ d.phase = x.phase /\ d.relogin = x.relogin /\ d.reclaim = x.reclaim
      /\ d.ticking = x.ticking /\ d.owned = x.owned /\ d.seq = x.seq
      /\ d.gotAuth = x.gotAuth /\ d.authed = x.authed /\ d.pred = x.pred
      /\ \A k \in Kinds : d[k] = x[k]
  BY <1>5 DEF Fields, Flags, Kinds
<1>7. \A k \in Kinds : d[k] = o[k]
  BY <1>4, <1>6
<1>8. ~d.renewal.pending /\ ~d.stream.pending
  BY <1>3, <1>7 DEF Kinds
<1>9. /\ d.phase = "up" /\ ~d.relogin /\ ~d.ticking /\ ~d.owned /\ d.seq = o.seq
      /\ ~d.gotAuth /\ ~d.authed /\ d.pred = NoProc /\ ~d.opened /\ d.reclaim = o.reclaim
  BY <1>1, <1>3, <1>4, <1>5, <1>6
<1> HIDE DEF t
<1>10. Onward(p, t) /\ ~t.owned /\ t.reclaim = o.reclaim
  BY <1>1, <1>3, <1>5, <1>7, <1>8, <1>9, LoginOnward DEF t
<1>11. Journaling(p, t)
  BY <1>1, <1>10, Unjournaled
<1>12. Residue(p, t, net)
  BY Plainly DEF SessionAssumption
<1> QED
  BY <1>1, <1>10, <1>11, <1>12, BecomeKept

LEMMA MediaReadyKept ==
    ASSUME TypeInv, TypeInv', SessionAssumption, TurnInv, NEW p \in Procs, MediaReady(p)
    PROVE  TurnInv'
<1> DEFINE o == h[p]
           t == [o EXCEPT !.media = TRUE]
<1>1. /\ o.phase = "up" /\ o.opened /\ Open(p) /\ UNCHANGED <<tokens, granted>>
      /\ journal' = {[owner |-> p, id |-> o.id, full |-> TRUE]} /\ Become(p, t, net)
  BY DEF MediaReady, Open, SessionAssumption, radio
<1>2. DOMAIN o = Fields /\ Ordered(o)
  BY OfProcess DEF TurnInv
<1>3. (\A f \in Orderly : t[f] = o[f]) /\ (\A k \in Kinds : t[k] = o[k])
  BY <1>2 DEF Orderly, Fields, Flags, Kinds
<1> HIDE DEF t
<1>4. Onward(p, t)
  BY <1>1, <1>3, Dropping
<1>5. Journaling(p, t)
  <2>1. Covers(journal, granted, p, o.id)
    BY <1>1, <1>2 DEF TurnInv, Recorded, Ordered
  <2>2. \A j \in journal' : j.owner = p /\ j.id = o.id
    BY <1>1
  <2>3. t.id = o.id
    BY <1>3 DEF Orderly
  <2>4. Covers(journal', granted', p, t.id)
    BY <1>1, <2>1, <2>2, <2>3 DEF Covers
  <2> QED
    BY <1>1, <2>2, <2>4 DEF Journaling
<1>6. Residue(p, t, net)
  BY Plainly DEF SessionAssumption
<1> QED
  BY <1>1, <1>4, <1>5, <1>6, BecomeKept

LEMMA RenewalDueKept ==
    ASSUME TypeInv, TypeInv', SessionAssumption, TurnInv, NEW p \in Procs, RenewalDue(p)
    PROVE  TurnInv'
<1> DEFINE o == h[p]
           t == sendRenewal(o)
<1>1. /\ o.phase = "up" /\ o.ticking /\ Open(p) /\ UNCHANGED <<journal, tokens, granted>>
      /\ Become(p, t, net)
  BY DEF RenewalDue, Open, SessionAssumption, radio
<1>2. DOMAIN o = Fields /\ Ordered(o)
  BY OfProcess DEF TurnInv
<1>3. o.gotAuth /\ o.authed /\ ~o.relogin /\ ~o.login.pending /\ o.pred = NoProc
  BY <1>1, <1>2, Zenon DEF Ordered, Idle
<1>4. /\ t.seq = o.seq + 1 /\ t.renewal.seq = o.seq /\ t.renewal.id = o.id
      /\ t.phase = o.phase /\ t.id = o.id /\ t.authed = o.authed /\ t.gotAuth = o.gotAuth
      /\ t.ticking = o.ticking /\ t.owned = o.owned /\ t.opened = o.opened
      /\ t.reclaim = o.reclaim /\ t.relogin = o.relogin /\ t.pred = o.pred
      /\ \A k \in Kinds \ {"renewal"} : t[k] = o[k]
  BY <1>2 DEF sendRenewal, Begun, Fields, Flags, Kinds
<1> HIDE DEF t
<1>5. t.login = o.login /\ t.stream = o.stream
  BY <1>4 DEF Kinds
<1>6. Ordered(t)
  BY <1>2, <1>3, <1>4, <1>5, Zenon DEF Ordered, Idle
<1>7. Secure(t.id)
  BY <1>1, <1>3, <1>4 DEF TurnInv, InUse
<1>8. Asking(p, t)
  <2>1. Asking(p, o)
    BY <1>1 DEF TurnInv
  <2> QED
    BY <1>4, <1>5, <2>1 DEF Asking, Silent
<1>9. "renewal" \in Kinds /\ "renewal" # "removal"
  BY DEF Kinds
<1>10. Onward(p, t)
  BY <1>1, <1>3, <1>4, <1>5, <1>6, <1>7, <1>8, <1>9, Asks
<1>11. Journaling(p, t)
  BY <1>1, <1>4, Unjournaled
<1>12. Residue(p, t, net)
  BY Plainly DEF SessionAssumption
<1> QED
  BY <1>1, <1>10, <1>11, <1>12, BecomeKept

LEMMA ReleaseKept ==
    ASSUME TypeInv, TypeInv', SessionAssumption, TurnInv, NEW p \in Procs,
           \/ Shutdown(p) /\ permitsRadioTeardown(h[p])
           \/ SettleEnds(p)
    PROVE  TurnInv'
<1> DEFINE o == h[p]
           a == [o EXCEPT !.phase = "settling", !.ticking = FALSE, !.ack = FALSE, !.disc = FALSE]
           e == [o EXCEPT !.phase = "removing", !.attempts = 0, !.disc = FALSE]
           left == IF o.opened THEN net \cup {Msg("depart", NoProc, 0, o.id)} ELSE net
<1>1. /\ Open(p) /\ UNCHANGED <<journal, tokens, granted>>
      /\ \/ o.owned /\ Become(p, a, left)
         \/ o.phase = "settling" /\ h' = [h EXCEPT ![p] = e] /\ UNCHANGED <<net, names>>
  <2>1. CASE Shutdown(p) /\ permitsRadioTeardown(h[p])
    BY <2>1 DEF Shutdown, permitsRadioTeardown, Open, SessionAssumption, radio
  <2>2. CASE SettleEnds(p)
    BY <2>2 DEF SettleEnds, Open, SessionAssumption, radio
  <2> QED
    BY <2>1, <2>2
<1>2. DOMAIN o = Fields /\ Ordered(o) /\ o.phase \in Live
  BY <1>1, OfProcess DEF TurnInv, Open, Live, Sound, Phases
<1>3. o.phase = "settling" => o.owned
  BY <1>2 DEF Ordered
<1>4. ASSUME o.owned
      PROVE  /\ o.gotAuth /\ o.authed /\ ~o.reclaim /\ ~o.relogin /\ ~o.login.pending
             /\ o.pred = NoProc
  BY <1>2, <1>4, Zenon DEF Ordered, Idle
<1>5. /\ a.phase = "settling" /\ ~a.ticking /\ (\A k \in Kinds : a[k] = o[k])
      /\ \A f \in Orderly \ {"phase", "ticking"} : a[f] = o[f]
  BY <1>2 DEF Orderly, Fields, Flags, Kinds
<1>6. /\ e.phase = "removing" /\ (\A k \in Kinds : e[k] = o[k])
      /\ \A f \in Orderly \ {"phase"} : e[f] = o[f]
  BY <1>2 DEF Orderly, Fields, Flags, Kinds
<1> HIDE DEF a, e, left
<1>7. ASSUME NEW t, t.phase \in {"settling", "removing"}, \A k \in Kinds : t[k] = o[k], o.owned,
             \A f \in Orderly \ {"phase", "ticking"} : t[f] = o[f], t.ticking => o.ticking
      PROVE  Onward(p, t) /\ Journaling(p, t) /\ Fresh(p, t) = {}
  <2>1. /\ t.seq = o.seq /\ t.id = o.id /\ t.authed = o.authed /\ t.gotAuth = o.gotAuth
        /\ t.owned = o.owned /\ t.opened = o.opened
        /\ t.reclaim = o.reclaim /\ t.relogin = o.relogin /\ t.pred = o.pred
    BY <1>7 DEF Orderly
  <2>2. t.login = o.login /\ t.renewal = o.renewal /\ t.stream = o.stream
    BY <1>7 DEF Kinds
  <2>3. t.phase # "up" /\ t.phase \notin {"off", "discover", "dead"} /\ t.phase \in Live
    BY <1>7 DEF Live
  <2>4. t.owned /\ (t.ticking => o.ticking)
    BY <1>7, <2>1
  <2>5. Ordered(t)
    BY <1>2, <1>4, <2>1, <2>2, <2>3, <2>4, Zenon DEF Ordered
  <2>6. Onward(p, t) /\ Fresh(p, t) = {}
    BY <1>1, <1>7, <2>1, <2>3, <2>5, Quieter
  <2>7. Journaling(p, t)
    BY <1>1, <2>1, <2>3, Unjournaled
  <2> QED
    BY <2>6, <2>7
<1>8. CASE o.owned /\ Become(p, a, left)
  <2>1. Onward(p, a) /\ Journaling(p, a)
    BY <1>5, <1>7, <1>8
  <2>2. Residue(p, a, left)
    <3>1. \A m \in left : m \in net \/ (m.p = NoProc /\ m.kind = "depart")
      BY DEF left, Msg
    <3> QED
      BY <3>1, Plainly DEF SessionAssumption
  <2> QED
    BY <1>1, <1>8, <2>1, <2>2, BecomeKept
<1>9. CASE o.phase = "settling" /\ h' = [h EXCEPT ![p] = e] /\ UNCHANGED <<net, names>>
  <2>1. e.ticking = o.ticking
    BY <1>6 DEF Orderly
  <2>2. Onward(p, e) /\ Journaling(p, e) /\ Fresh(p, e) = {}
    BY <1>3, <1>6, <1>7, <1>9, <2>1
  <2>3. Become(p, e, net)
    BY <1>9, <2>2 DEF Become
  <2>4. Residue(p, e, net)
    BY Plainly DEF SessionAssumption
  <2> QED
    BY <1>1, <2>2, <2>3, <2>4, BecomeKept
<1> QED
  BY <1>1, <1>8, <1>9

LEMMA RemovalAttemptKept ==
    ASSUME TypeInv, TypeInv', SessionAssumption, TurnInv, NEW p \in Procs, RemovalAttempt(p)
    PROVE  TurnInv'
<1> DEFINE o == h[p]
           x == [o EXCEPT !.attempts = @ + 1]
           t == sendRemoval(x)
<1>1. /\ o.phase = "removing" /\ Open(p) /\ UNCHANGED <<journal, tokens, granted>>
      /\ Become(p, t, net)
  BY DEF RemovalAttempt, Open, SessionAssumption, radio
<1>2. DOMAIN o = Fields /\ Ordered(o) /\ o.seq \in Nat
  BY OfProcess DEF TurnInv
<1>3. /\ DOMAIN x = Fields /\ (\A f \in Orderly : x[f] = o[f]) /\ (\A k \in Kinds : x[k] = o[k])
  BY <1>2 DEF Orderly, Fields, Flags, Kinds
<1>4. x.seq = o.seq
  BY <1>3 DEF Orderly
<1> HIDE DEF x
<1>5. /\ t.seq = x.seq + 1 /\ t.removal.seq = x.seq
      /\ (\A f \in Orderly \ {"seq"} : t[f] = x[f]) /\ \A k \in Kinds \ {"removal"} : t[k] = x[k]
  BY <1>3 DEF sendRemoval, Begun, Orderly, Fields, Flags, Kinds
<1> HIDE DEF t
<1>6. /\ t.phase = o.phase /\ t.id = o.id /\ t.authed = o.authed /\ t.gotAuth = o.gotAuth
      /\ t.ticking = o.ticking /\ t.owned = o.owned /\ t.opened = o.opened
      /\ t.reclaim = o.reclaim /\ t.relogin = o.relogin /\ t.pred = o.pred
  BY <1>3, <1>5 DEF Orderly
<1>7. \A k \in Kinds \ {"removal"} : t[k] = o[k]
  BY <1>3, <1>5
<1>8. t.login = o.login /\ t.renewal = o.renewal /\ t.stream = o.stream
  BY <1>7 DEF Kinds
<1>9. Ordered(t)
  BY <1>2, <1>6, <1>8, Zenon DEF Ordered, Idle
<1>10. t.pred = NoProc
  BY <1>1, <1>2, <1>6 DEF Ordered
<1>11. Asking(p, t)
  <2>1. Asking(p, o)
    BY <1>1 DEF TurnInv
  <2> QED
    BY <1>6, <1>8, <2>1 DEF Asking, Silent
<1>12. \A k \in Kinds : \/ /\ t[k].seq = o[k].seq /\ t[k].id = o[k].id
                           /\ t[k].pending => o[k].pending
                        \/ t[k].seq >= o.seq
  BY <1>2, <1>4, <1>5, <1>7
<1>13. t.seq >= o.seq
  BY <1>2, <1>4, <1>5
<1>14. t.phase = "removing" /\ t.phase \in Live
  BY <1>1, <1>6 DEF Live
<1>15. Onward(p, t)
  BY <1>9, <1>10, <1>11, <1>12, <1>13, <1>14 DEF Onward
<1>16. Journaling(p, t)
  BY <1>1, <1>6, Unjournaled
<1>17. Residue(p, t, net)
  BY Plainly DEF SessionAssumption
<1> QED
  BY <1>1, <1>15, <1>16, <1>17, BecomeKept

\* Nobody is connected when a handler has closed, or a process that was not
\* connected has exited.
LEMMA GoneKept ==
    ASSUME TypeInv, TurnInv, NEW p \in Procs, \A q \in Procs : Open(q) => q = p,
           NEW f \in {"off", "dead"}, h' = [h EXCEPT ![p] = Handler(f)]
    PROVE  TurnInv'
<1> DEFINE t == Handler(f)
<1>1. DOMAIN h = Procs
  BY OfProcess
<1>2. /\ t.phase = f /\ ~t.login.pending /\ ~t.authed /\ ~t.relogin /\ ~t.reclaim
      /\ t.pred = NoProc /\ ~t.gotAuth /\ ~t.ticking /\ ~t.renewal.pending /\ ~t.stream.pending
      /\ ~t.owned /\ ~t.opened
  BY DEF Handler, NoRequest
<1> HIDE DEF t
<1>3. t.phase \in {"off", "dead"} /\ t.phase # "up" /\ t.phase \notin {"settling", "removing"}
  BY <1>2
<1>4. Ordered(t)
  BY <1>2, <1>3, Zenon DEF Ordered, Idle
<1>5. h'[p] = t /\ \A q \in Procs \ {p} : h'[q] = h[q]
  BY <1>1 DEF t
<1>6. \A q \in Procs : ~Open(q)'
  BY <1>3, <1>5 DEF Open
<1>7. \A q \in Procs : Ordered(h'[q])
  BY <1>4, <1>5, Zenon DEF TurnInv
<1> QED
  BY <1>6, <1>7 DEF TurnInv, Sole

LEMMA ClosingKept ==
    ASSUME TypeInv, SessionAssumption, TurnInv, Apart, NEW p \in Procs,
           \/ Shutdown(p) /\ ~permitsRadioTeardown(h[p])
           \/ ShutdownCompletes(p)
           \/ Crash(p)
    PROVE  TurnInv'
<1>1. PICK f \in {"off", "dead"} : h' = [h EXCEPT ![p] = Handler(f)]
  BY DEF Shutdown, ShutdownCompletes, Crash, Closed
<1>2. \A q \in Procs : Open(q) => q = p
  <2>1. CASE Open(p)
    BY <2>1 DEF TurnInv, Sole
  <2>2. CASE ~Open(p)
    <3>1. Crash(p) /\ h[p].phase = "off"
      BY <2>2 DEF Shutdown, ShutdownCompletes, Crash, Open, SessionAssumption
    <3>2. h'[p].phase = "dead"
      <4>1. DOMAIN h = Procs
        BY OfProcess
      <4> QED
        BY <3>1, <4>1 DEF Crash, Handler
    <3> QED
      BY <3>1, <3>2 DEF Apart
  <2> QED
    BY <2>1, <2>2
<1> QED
  BY <1>1, <1>2, GoneKept

-----------------------------------------------------------------------------
(* The radio and the network.                                              *)

\* The radio may drop a token whose removal is on its way, and what it sends
\* is in order.
LEMMA OutsideKept ==
    ASSUME TypeInv, TypeInv', TurnInv, UNCHANGED <<h, journal, names>>,
           granted \subseteq granted',
           \A n \in tokens : n \in tokens' \/ ~Spared(Id(n)),
           \A m \in net' : m.kind = "removal" => m \in net,
           \A m \in net' : Open(m.p) /\ m.p \in Procs => m \in net \/ Told(m.p, m)',
           \A p \in Procs : Open(p) => Decided(p)' /\ Asking(p, h[p])'
    PROVE  TurnInv'
<1>1. \A q \in Procs : Open(q)' <=> Open(q)
  BY DEF Open
<1>2. \A q \in Procs : Ordered(h'[q])
  BY DEF TurnInv
<1>3. ASSUME NEW id, Spared(id) PROVE Spared(id)'
  BY <1>3 DEF Spared
<1>4. ASSUME NEW id, Secure(id) PROVE Secure(id)'
  BY <1>3, <1>4 DEF Secure
<1>5. ASSUME NEW p \in Procs, Open(p)
      PROVE  /\ InUse(p)' /\ Recorded(p)' /\ Unneeded(p)'
             /\ \A m \in net : m.p = p => Told(p, m)'
  <2>1. InUse(p) /\ Recorded(p) /\ Unneeded(p)
    BY <1>5 DEF TurnInv
  <2>2. InUse(p)'
    <3>1. h[p].phase = "up" /\ h[p].authed => Secure(h[p].id)'
      <4> DEFINE i == h[p].id
      <4>1. h[p].phase = "up" /\ h[p].authed => Secure(i)
        BY <2>1 DEF InUse
      <4>2. h'[p].id = i
        OBVIOUS
      <4> QED
        BY <1>3, <1>4, <4>1, <4>2 DEF Secure, Spared
    <3>2. h[p].phase = "up" /\ h[p].login.pending => Spared(Id(h[p].login.id[1]))'
      BY <1>3, <2>1 DEF InUse, Spared
    <3> QED
      BY <3>1, <3>2 DEF InUse
  <2>3. Recorded(p)'
    BY <2>1 DEF Recorded, Covers
  <2>4. Unneeded(p)'
    BY <2>1 DEF Unneeded, Recoverable
  <2>5. ASSUME NEW m \in net, m.p = p PROVE Told(p, m)'
    <3>1. Told(p, m)
      BY <1>5, <2>5 DEF TurnInv
    <3>2. ASSUME m.kind = "welcome", m.seq = h[p].login.seq, h[p].login.pending
          PROVE  m.id = Id(h[p].login.id[1]) /\ h[p].login.id[1] \in tokens'
      <4>1. m.id = Id(h[p].login.id[1]) /\ h[p].login.id[1] \in tokens
        BY <3>1, <3>2 DEF Told
      <4>2. h[p].phase = "up"
        BY <3>2 DEF TurnInv, Ordered
      <4>3. Spared(Id(h[p].login.id[1]))
        BY <2>1, <3>2, <4>2 DEF InUse
      <4> QED
        BY <4>1, <4>3
    <3> QED
      BY <3>1, <3>2 DEF Told
  <2> QED
    BY <2>2, <2>3, <2>4, <2>5
<1>6. ASSUME NEW p \in Procs, Open(p)', NEW m \in net', m.p = p PROVE Told(p, m)'
  BY <1>1, <1>5, <1>6
<1>7. \A p \in Procs : Open(p)' => InUse(p)' /\ Recorded(p)' /\ Unneeded(p)'
  BY <1>1, <1>5
<1>8. Sole'
  BY <1>1 DEF TurnInv, Sole
<1> QED
  BY <1>1, <1>2, <1>6, <1>7, <1>8 DEF TurnInv

\* What is lost, ignored or of no consequence.
LEMMA LessKept ==
    ASSUME TypeInv, TypeInv', TurnInv, UNCHANGED <<h, journal, names>>,
           granted' = granted, tokens' = tokens,
           \A m \in net' : \/ m \in net
                           \/ m.kind \in {"free", "foreign", "busy", "ended"}
    PROVE  TurnInv'
<1>1. ASSUME NEW m \in net', m.kind \in {"free", "foreign", "busy", "ended"}, m.p \in Procs
      PROVE  Told(m.p, m)'
  BY <1>1 DEF Told, Letters, Kinds
<1>2. \A p \in Procs : Open(p) => Decided(p)' /\ Asking(p, h[p])'
  <2> SUFFICES ASSUME NEW p \in Procs, Open(p)
               PROVE  Decided(p)' /\ Asking(p, h[p])'
    OBVIOUS
  <2>1. Decided(p) /\ Asking(p, h[p])
    BY DEF TurnInv
  <2>2. Decided(p)'
    BY <2>1 DEF Decided, Excluded
  <2>3. Asking(p, h[p])'
    BY <2>1 DEF Asking, Silent
  <2> QED
    BY <2>2, <2>3
<1>3. \A m \in net' : m.kind = "removal" => m \in net
  OBVIOUS
<1> QED
  BY <1>1, <1>2, <1>3, OutsideKept

\* The request m is answered.
LEMMA AnswerKept ==
    ASSUME TypeInv, TypeInv', TurnInv, NEW m \in net, NEW replies, Answer(m, replies),
           granted \subseteq granted', \A n \in tokens : n \in tokens' \/ ~Spared(Id(n)),
           \A d \in replies : d.kind # "removal" /\ d.p = m.p /\ d.seq = m.seq,
           Open(m.p) => /\ \A d \in replies : Told(m.p, d)'
                        /\ Decided(m.p)' /\ Asking(m.p, h[m.p])'
    PROVE  TurnInv'
<1>1. UNCHANGED <<h, journal, names>> /\ \A d \in net' : d \in net \/ (d \in replies /\ Open(m.p))
  BY DEF Answer
<1>2. ASSUME NEW p \in Procs, Open(p) PROVE Decided(p)' /\ Asking(p, h[p])'
  <2>1. CASE p = m.p
    BY <1>2, <2>1
  <2>2. CASE p # m.p
    <3>1. Decided(p) /\ Asking(p, h[p])
      BY <1>2 DEF TurnInv
    <3>2. \A d \in net' : d.p = p => d \in net
      BY <1>1, <2>2
    <3>3. Decided(p)'
      BY <1>1, <3>1, <3>2 DEF Decided
    <3>4. Asking(p, h[p])'
      BY <1>1, <3>1, <3>2 DEF Asking, Silent
    <3> QED
      BY <3>3, <3>4
  <2> QED
    BY <2>1, <2>2
<1>3. \A d \in net' : d.kind = "removal" => d \in net
  BY <1>1
<1>4. \A d \in net' : Open(d.p) /\ d.p \in Procs => d \in net \/ Told(d.p, d)'
  BY <1>1
<1> QED
  BY <1>1, <1>2, <1>3, <1>4, OutsideKept

\* What is known of a request that is on its way.
LEMMA OnItsWay ==
    ASSUME TypeInv, TurnInv, NEW m \in net, m.kind \in Kinds, Open(m.p)
    PROVE  /\ m.p \in Procs /\ Told(m.p, m) /\ Ordered(h[m.p]) /\ InUse(m.p)
           /\ Decided(m.p) /\ Asking(m.p, h[m.p])
           /\ h[m.p].phase # "discover" /\ m.seq < h[m.p].seq
           /\ m.seq = h[m.p][m.kind].seq => m.id = h[m.p][m.kind].id
<1>1. m.p \in Procs
  BY Addressed
<1>2. Told(m.p, m) /\ Decided(m.p) /\ Asking(m.p, h[m.p]) /\ Ordered(h[m.p]) /\ InUse(m.p)
  BY <1>1 DEF TurnInv
<1> QED
  BY <1>1, <1>2 DEF Told, Letters

\* An answer that is neither an advertisement nor about the streams.
LEMMA StreamsAside ==
    ASSUME TypeInv, TurnInv, NEW m \in net, NEW replies, Answer(m, replies),
           \A d \in replies : d.kind \notin {"stream", "advert", "rejected"}, m.p \in Procs,
           Open(m.p)
    PROVE  Decided(m.p)' /\ Asking(m.p, h[m.p])'
<1>1. Decided(m.p) /\ Asking(m.p, h[m.p])
  BY DEF TurnInv
<1>2. \A d \in net' : d.kind \in {"stream", "advert", "rejected"} => d \in net
  BY DEF Answer
<1>3. UNCHANGED h
  BY DEF Answer
<1>4. Decided(m.p)'
  BY <1>1, <1>2, <1>3 DEF Decided, Excluded
<1>5. Asking(m.p, h[m.p])'
  BY <1>1, <1>2, <1>3 DEF Asking, Silent
<1> QED
  BY <1>4, <1>5

LEMMA RadioLoginKept ==
    ASSUME TypeInv, TypeInv', TurnInv, NEW m \in net, RadioLogin(m)
    PROVE  TurnInv'
<1> DEFINE w == Msg("welcome", m.p, m.seq, Id(m.id[1]))
           d == Msg("denied", m.p, m.seq, m.id)
<1>1. /\ m.kind = "login" /\ m.kind \in Kinds /\ granted' = granted /\ UNCHANGED h
      /\ \/ tokens' = tokens \cup {m.id[1]} /\ Answer(m, {w})
         \/ tokens' = tokens /\ Answer(m, {d})
  BY DEF RadioLogin, Sent, Kinds, Answer
<1>2. CASE tokens' = tokens \cup {m.id[1]} /\ Answer(m, {w})
  <2>1. ASSUME Open(m.p)
        PROVE  Told(m.p, w)' /\ Decided(m.p)' /\ Asking(m.p, h[m.p])'
    <3>1. /\ m.p \in Procs /\ h[m.p].phase # "discover" /\ m.seq < h[m.p].seq
          /\ m.seq = h[m.p].login.seq => m.id = h[m.p].login.id
      BY <1>1, <2>1, OnItsWay
    <3>2. w.kind = "welcome" /\ w.seq = m.seq /\ w.id = Id(m.id[1])
      BY DEF Msg
    <3>3. Told(m.p, w)'
      BY <1>1, <1>2, <3>1, <3>2 DEF Told, Kinds
    <3>4. \A e \in {w} : e.kind \notin {"stream", "advert", "rejected"}
      BY <3>2
    <3>5. Decided(m.p)' /\ Asking(m.p, h[m.p])'
      BY <1>2, <2>1, <3>1, <3>4, StreamsAside
    <3> QED
      BY <3>3, <3>5
  <2>2. \A e \in {w} : e.kind # "removal" /\ e.p = m.p /\ e.seq = m.seq
    BY DEF Msg
  <2>3. \A n \in tokens : n \in tokens' \/ ~Spared(Id(n))
    BY <1>2
  <2> QED
    BY <1>1, <1>2, <2>1, <2>2, <2>3, AnswerKept
<1>3. CASE tokens' = tokens /\ Answer(m, {d})
  <2>1. ASSUME Open(m.p)
        PROVE  Told(m.p, d)' /\ Decided(m.p)' /\ Asking(m.p, h[m.p])'
    <3>1. m.p \in Procs /\ h[m.p].phase # "discover" /\ m.seq < h[m.p].seq
      BY <1>1, <2>1, OnItsWay
    <3>2. d.kind = "denied" /\ d.seq = m.seq
      BY DEF Msg
    <3>3. Told(m.p, d)'
      BY <1>1, <3>1, <3>2 DEF Told, Kinds
    <3>4. \A e \in {d} : e.kind \notin {"stream", "advert", "rejected"}
      BY <3>2
    <3>5. Decided(m.p)' /\ Asking(m.p, h[m.p])'
      BY <1>3, <2>1, <3>1, <3>4, StreamsAside
    <3> QED
      BY <3>3, <3>5
  <2>2. \A e \in {d} : e.kind # "removal" /\ e.p = m.p /\ e.seq = m.seq
    BY DEF Msg
  <2> QED
    BY <1>1, <1>3, <2>1, <2>2, AnswerKept
<1> QED
  BY <1>1, <1>2, <1>3

\* A renewal that still counts names a token that the radio keeps.
LEMMA RadioRenewsKept ==
    ASSUME TypeInv, TypeInv', Steadfast, TurnInv, NEW m \in net, RadioRenews(m)
    PROVE  TurnInv'
<1> DEFINE o == h[m.p]
           y == Msg("renewed", m.p, m.seq, m.id)
           n == Msg("refused", m.p, m.seq, m.id)
<1>1. /\ m.kind = "renewal" /\ m.kind \in Kinds /\ granted' = granted /\ tokens' = tokens
      /\ \/ Authentic(m) /\ Answer(m, {y})
         \/ ~Authentic(m) /\ Answer(m, {n})
  BY DEF RadioRenews, Sent, Kinds, Steadfast, radio
<1>2. UNCHANGED h
  BY <1>1 DEF Answer
<1>3. ASSUME NEW d \in {y, n}, Answer(m, {d}), d = n => ~Authentic(m)
      PROVE  TurnInv'
  <2>1. d.kind \in {"renewed", "refused"} /\ d.seq = m.seq /\ d.p = m.p /\ d.id = m.id
        /\ (d.kind = "refused" => ~Authentic(m))
    BY <1>3 DEF Msg
  <2>2. ASSUME Open(m.p)
        PROVE  Told(m.p, d)' /\ Decided(m.p)' /\ Asking(m.p, h[m.p])'
    <3>1. /\ m.p \in Procs /\ o.phase # "discover" /\ m.seq < o.seq /\ InUse(m.p) /\ Ordered(o)
          /\ m.seq = o.renewal.seq => m.id = o.renewal.id
      BY <1>1, <2>2, OnItsWay
    <3>2. ASSUME m.seq = o.renewal.seq, o.renewal.pending, o.phase = "up"
          PROVE  d.kind # "refused" /\ d.id = o.renewal.id
      <4>1. Secure(o.id) /\ m.id = o.id
        BY <3>1, <3>2 DEF Ordered, InUse
      <4>2. Authentic(m)
        BY <4>1 DEF Secure, Authentic, Id
      <4> QED
        BY <2>1, <3>1, <3>2, <4>2
    <3>3. Told(m.p, d)'
      BY <1>2, <2>1, <3>1, <3>2 DEF Told, Kinds
    <3>4. \A e \in {d} : e.kind \notin {"stream", "advert", "rejected"}
      BY <2>1
    <3>5. Decided(m.p)' /\ Asking(m.p, h[m.p])'
      BY <1>3, <2>2, <3>1, <3>4, StreamsAside
    <3> QED
      BY <3>3, <3>5
  <2>3. \A e \in {d} : e.kind # "removal" /\ e.p = m.p /\ e.seq = m.seq
    BY <2>1
  <2> QED
    BY <1>1, <1>3, <2>2, <2>3, AnswerKept
<1> QED
  BY <1>1, <1>3 DEF Msg

LEMMA RadioRemovesKept ==
    ASSUME TypeInv, TypeInv', TurnInv, NEW m \in net, RadioRemoves(m)
    PROVE  TurnInv'
<1> DEFINE o == h[m.p]
           d == Msg("removed", m.p, m.seq, m.id)
<1>1. /\ m.kind = "removal" /\ m.kind \in Kinds /\ granted' = granted /\ Answer(m, {d})
      /\ tokens' = IF Authentic(m) THEN tokens \ {m.id[1]} ELSE tokens
  BY DEF RadioRemoves, Sent, Kinds
<1>2. UNCHANGED h
  BY <1>1 DEF Answer
<1>3. \A n \in tokens : n \in tokens' \/ ~Spared(Id(n))
  <2> SUFFICES ASSUME NEW n \in tokens, n \notin tokens'
               PROVE  m.id = Id(n)
    BY <1>1 DEF Spared
  <2>1. Authentic(m) /\ m.id[1] = n
    BY <1>1
  <2>2. m.id \in Nat \X Nat
    BY DEF TypeInv, MailSound, Mail, Ids
  <2>3. m.id = <<m.id[1], m.id[2]>>
    BY <2>2
  <2> QED
    BY <2>1, <2>3 DEF Authentic, Id
<1>4. ASSUME Open(m.p)
      PROVE  Told(m.p, d)' /\ Decided(m.p)' /\ Asking(m.p, h[m.p])'
  <2>1. m.p \in Procs /\ o.phase # "discover" /\ m.seq < o.seq /\ Told(m.p, m)
    BY <1>1, <1>4, OnItsWay
  <2>2. d.kind = "removed" /\ d.seq = m.seq
    BY DEF Msg
  <2>3. o.pred # NoProc => m.seq = o.removal.seq
    BY <1>1, <2>1 DEF Told
  <2>4. Told(m.p, d)'
    BY <1>2, <2>1, <2>2, <2>3 DEF Told, Kinds
  <2>5. \A e \in {d} : e.kind \notin {"stream", "advert", "rejected"}
    BY <2>2
  <2>6. Decided(m.p)' /\ Asking(m.p, h[m.p])'
    BY <1>1, <1>4, <2>1, <2>5, StreamsAside
  <2> QED
    BY <2>4, <2>6
<1>5. \A e \in {d} : e.kind # "removal" /\ e.p = m.p /\ e.seq = m.seq
  BY DEF Msg
<1> QED
  BY <1>1, <1>3, <1>4, <1>5, AnswerKept

\* Of two requests or answers about the last stream request, only those remain
\* that agree.
LEMMA StreamAnswered ==
    ASSUME TypeInv, TurnInv, NEW m \in net, m.kind = "stream", Open(m.p), NEW replies,
           Answer(m, replies),
           \/ \A d \in replies : d.kind \in {"grant", "advert"}
           \/ \A d \in replies : d.kind = "rejected",
           \A d \in replies : d.p = m.p /\ d.seq = m.seq
    PROVE  Decided(m.p)' /\ Asking(m.p, h[m.p])'
<1> DEFINE p == m.p
           o == h[p]
<1>1. /\ p \in Procs /\ Decided(p) /\ Asking(p, o)
      /\ m.seq = o.stream.seq => m.id = o.stream.id
  BY OnItsWay DEF Kinds
<1>2. UNCHANGED h /\ net' = (net \ {m}) \cup replies
  BY DEF Answer
<1>3. ASSUME NEW d \in net, d.p = p, d.kind = "stream", d.seq = o.stream.seq, m.seq = o.stream.seq
      PROVE  d = m
  <2>1. d.id = o.stream.id
    BY <1>3, OnItsWay DEF Kinds
  <2>2. {d, m} \subseteq Mail(Len(names))
    BY DEF TypeInv, MailSound
  <2>3. \A x, y \in Mail(Len(names)) :
            x.kind = y.kind /\ x.p = y.p /\ x.seq = y.seq /\ x.id = y.id => x = y
    BY DEF Mail
  <2> QED
    BY <1>1, <1>3, <2>1, <2>2, <2>3
<1>4. Decided(p)'
  <2> SUFFICES ASSUME NEW x \in net', NEW y \in net', x.p = p, y.p = p,
                      x.seq = o.stream.seq, y.seq = o.stream.seq, <<x.kind, y.kind>> \in Excluded
               PROVE  FALSE
    BY <1>2 DEF Decided
  <2>1. CASE x \in net /\ y \in net
    BY <1>1, <2>1 DEF Decided
  <2>2. CASE y \in replies
    <3>1. m.seq = o.stream.seq /\ x.kind \in {"stream", "rejected"}
      BY <2>2 DEF Excluded
    <3>2. CASE x \in replies
      BY <2>2, <3>2 DEF Excluded
    <3>3. CASE x \notin replies
      <4>1. x \in net /\ x # m
        BY <1>2, <3>3
      <4>2. x.kind = "rejected"
        BY <1>3, <3>1, <4>1
      <4>3. <<m.kind, x.kind>> \in Excluded
        BY <4>2 DEF Excluded
      <4> QED
        BY <1>1, <3>1, <4>1, <4>3 DEF Decided
    <3> QED
      BY <3>2, <3>3
  <2>3. CASE x \in replies /\ y \in net
    <3>1. x.kind = "rejected" /\ y.kind = "advert" /\ m.seq = o.stream.seq
      BY <2>3 DEF Excluded
    <3>2. <<m.kind, y.kind>> \in Excluded
      BY <3>1 DEF Excluded
    <3> QED
      BY <1>1, <2>3, <3>1, <3>2 DEF Decided
  <2> QED
    BY <1>2, <2>1, <2>2, <2>3
<1>5. Asking(p, o)'
  <2>1. CASE o.gotAuth /\ o.stream.id = o.id
    BY <1>2, <2>1 DEF Asking
  <2>2. CASE Silent(p, o)
    <3>1. m.seq # o.stream.seq
      BY <2>2 DEF Silent
    <3> QED
      BY <1>2, <2>2, <3>1 DEF Asking, Silent
  <2> QED
    BY <1>1, <2>1, <2>2 DEF Asking
<1> QED
  BY <1>4, <1>5

LEMMA RadioGrantsKept ==
    ASSUME TypeInv, TypeInv', TurnInv, NEW m \in net, RadioGrants(m)
    PROVE  TurnInv'
<1> DEFINE g == Msg("grant", m.p, m.seq, m.id)
           a == Msg("advert", m.p, m.seq, m.id)
<1>1. /\ m.kind = "stream" /\ m.kind \in Kinds /\ Authentic(m) /\ tokens' = tokens
      /\ granted' = granted \cup {m.id[1]} /\ Answer(m, {g, a})
  BY DEF RadioGrants, Sent, Kinds
<1>2. UNCHANGED h
  BY <1>1 DEF Answer
<1>3. \A d \in {g, a} : /\ d.kind \in {"grant", "advert"} /\ d.kind # "removal"
                        /\ d.p = m.p /\ d.seq = m.seq /\ d.id = m.id
  BY DEF Msg
<1>4. m.id = Id(m.id[1]) /\ m.id[1] \in granted'
  <2>1. m.id \in Nat \X Nat
    BY DEF TypeInv, MailSound, Mail, Ids
  <2>2. m.id = <<m.id[1], m.id[2]>>
    BY <2>1
  <2> QED
    BY <1>1, <2>2 DEF Authentic, Id
<1>5. ASSUME Open(m.p)
      PROVE  /\ \A d \in {g, a} : Told(m.p, d)'
             /\ Decided(m.p)' /\ Asking(m.p, h[m.p])'
  <2>1. m.p \in Procs /\ h[m.p].phase # "discover" /\ m.seq < h[m.p].seq
    BY <1>1, <1>5, OnItsWay
  <2>2. \A d \in {g, a} : Told(m.p, d)'
    <3> SUFFICES ASSUME NEW d \in {g, a}
                 PROVE  Told(m.p, d)'
      OBVIOUS
    <3>1. d.kind \in {"grant", "advert"} /\ d.seq = m.seq /\ d.id = m.id
      BY <1>3
    <3> HIDE DEF g, a
    <3> QED
      BY <1>2, <1>4, <2>1, <3>1 DEF Told, Kinds
  <2>3. Decided(m.p)' /\ Asking(m.p, h[m.p])'
    BY <1>1, <1>3, <1>5, StreamAnswered
  <2> QED
    BY <2>2, <2>3
<1> QED
  BY <1>1, <1>3, <1>5, AnswerKept

LEMMA RadioRejectsKept ==
    ASSUME TypeInv, TypeInv', TurnInv, NEW m \in net, RadioRejects(m)
    PROVE  TurnInv'
<1> DEFINE d == Msg("rejected", m.p, m.seq, m.id)
<1>1. /\ m.kind = "stream" /\ m.kind \in Kinds /\ tokens' = tokens /\ granted' = granted
      /\ Answer(m, {d})
  BY DEF RadioRejects, Sent, Kinds, radio
<1>2. UNCHANGED h
  BY <1>1 DEF Answer
<1>3. d.kind = "rejected" /\ d.p = m.p /\ d.seq = m.seq
  BY DEF Msg
<1>4. ASSUME Open(m.p)
      PROVE  Told(m.p, d)' /\ Decided(m.p)' /\ Asking(m.p, h[m.p])'
  <2>1. m.p \in Procs /\ h[m.p].phase # "discover" /\ m.seq < h[m.p].seq
    BY <1>1, <1>4, OnItsWay
  <2>2. Told(m.p, d)'
    BY <1>2, <1>3, <2>1 DEF Told, Kinds
  <2>3. Decided(m.p)' /\ Asking(m.p, h[m.p])'
    BY <1>1, <1>3, <1>4, StreamAnswered
  <2> QED
    BY <2>2, <2>3
<1> QED
  BY <1>1, <1>3, <1>4, AnswerKept

LEMMA SurroundingsKept ==
    ASSUME TypeInv, TypeInv', Steadfast, TurnInv,
           \/ \E p \in Procs : RadioAdvertises(p)
           \/ \E m \in net : Ignored(m) \/ Lose(m) \/ RadioSeesDeparture(m)
           \/ Environment
    PROVE  TurnInv'
<1>1. CASE \E p \in Procs : RadioAdvertises(p)
  <2>1. /\ UNCHANGED <<h, journal, names>> /\ granted' = granted /\ tokens' = tokens
        /\ \A m \in net' : m \in net \/ m.kind \in {"free", "foreign", "busy", "ended"}
    BY <1>1 DEF RadioAdvertises, Msg, radio
  <2> QED
    BY <2>1, LessKept
<1>2. CASE \E m \in net : Ignored(m) \/ Lose(m) \/ RadioSeesDeparture(m)
  <2>1. /\ UNCHANGED <<h, journal, names>> /\ granted' = granted /\ tokens' = tokens
        /\ net' \subseteq net
    BY <1>2 DEF Ignored, Lose, RadioSeesDeparture, Answer, radio
  <2> QED
    BY <2>1, LessKept
<1>3. CASE Environment
  <2>1. /\ UNCHANGED <<h, journal, names>> /\ granted' = granted /\ tokens' = tokens
        /\ \A m \in net' : m \in net \/ m.kind \in {"free", "foreign", "busy", "ended"}
    BY <1>3 DEF Environment, RadioEnds, RadioForgets, ForeignTakes, ForeignLeaves, Steadfast, Msg
  <2> QED
    BY <2>1, LessKept
<1> QED
  BY <1>1, <1>2, <1>3

LEMMA AtRadioKept ==
    ASSUME TypeInv, TypeInv', Steadfast, TurnInv, NEW m \in net, AtRadio(m)
    PROVE  TurnInv'
<1>1. CASE RadioLogin(m) BY <1>1, RadioLoginKept
<1>2. CASE RadioRenews(m) BY <1>2, RadioRenewsKept
<1>3. CASE RadioRemoves(m) BY <1>3, RadioRemovesKept
<1>4. CASE RadioGrants(m) BY <1>4, RadioGrantsKept
<1>5. CASE RadioRejects(m) BY <1>5, RadioRejectsKept
<1>6. CASE RadioSeesDeparture(m) BY <1>6, SurroundingsKept
<1> QED
  BY <1>1, <1>2, <1>3, <1>4, <1>5, <1>6, Zenon DEF AtRadio

LEMMA ArrivalKept ==
    ASSUME TypeInv, TypeInv', Steadfast, OwnInv, TurnInv, NEW m \in net, Arrival(m)
    PROVE  TurnInv'
<1>1. CASE LoginResponse(m) BY <1>1, LoginResponseKept
<1>2. CASE LoginDenied(m) BY <1>2, LoginDeniedKept
<1>3. CASE TokenRenewed(m) BY <1>3, TokenRenewedKept
<1>4. CASE TokenRefused(m) BY <1>4, NoneRefused
<1>5. CASE StreamGranted(m) BY <1>5, StreamGrantedKept
<1>6. CASE StreamRejected(m) BY <1>6, StreamRejectedKept
<1>7. CASE GrantAdvertised(m) BY <1>7, GrantAdvertisedKept
<1>8. CASE InfoIgnored(m) \/ BusyBySelf(m) \/ BusyByForeign(m) \/ BusyBySibling(m)
  BY <1>8, StatusKept
<1>9. CASE RadioAvailable(m) BY <1>9, RadioAvailableKept
<1>10. CASE RemovalAcknowledged(m) \/ SessionEnded(m) BY <1>10, RecoveryEndKept
<1>11. CASE Ignored(m) BY <1>11, SurroundingsKept
<1> QED
  BY <1>1, <1>2, <1>3, <1>4, <1>5, <1>6, <1>7, <1>8, <1>9, <1>10, <1>11, Zenon DEF Arrival

LEMMA InitKept == ASSUME SessionAssumption, Init PROVE TurnInv
<1> DEFINE t == Handler("off")
<1>1. /\ t.phase = "off" /\ ~t.login.pending /\ ~t.authed /\ ~t.relogin /\ ~t.reclaim
      /\ t.pred = NoProc /\ ~t.gotAuth /\ ~t.ticking /\ ~t.renewal.pending /\ ~t.stream.pending
      /\ ~t.owned /\ ~t.opened
  BY DEF Handler, NoRequest
<1> HIDE DEF t
<1>2. Ordered(t)
  BY <1>1, Zenon DEF Ordered, Idle
<1>3. \A p \in Procs : h[p] = t
  BY DEF Init, t
<1>4. \A p \in Procs : ~Open(p)
  BY <1>1, <1>3 DEF Open
<1>5. \A p \in Procs : Ordered(h[p])
  BY <1>2, <1>3
<1> QED
  BY <1>4, <1>5 DEF TurnInv, Sole

LEMMA StepKept ==
    ASSUME TypeInv, SessionAssumption, Steadfast, OwnInv, TurnInv, [Next]_vars, [Apart]_vars
    PROVE  TurnInv'
<1>1. TypeInv'
  BY StepTyped
<1>2. CASE UNCHANGED vars
  <2>1. UNCHANGED <<h, journal, net, names, tokens, granted>>
    BY <1>2 DEF vars, radio
  <2> QED
    BY <1>1, <2>1, LessKept
<1>3. CASE Apart /\ Next
  <2>1. ASSUME NEW p \in Procs,
               Connect(p) \/ Shutdown(p) \/ Crash(p) \/ Teardown(p) \/ Timers(p)
        PROVE  TurnInv'
    <3>1. CASE Connect(p) BY <3>1, ConnectKept
    <3>2. CASE (Shutdown(p) /\ permitsRadioTeardown(h[p])) \/ SettleEnds(p)
      BY <1>1, <3>2, ReleaseKept
    <3>3. CASE (Shutdown(p) /\ ~permitsRadioTeardown(h[p])) \/ ShutdownCompletes(p) \/ Crash(p)
      BY <1>3, <3>3, ClosingKept
    <3>4. CASE RemovalAttempt(p) BY <1>1, <3>4, RemovalAttemptKept
    <3>5. CASE TransportReady(p) BY <1>1, <3>5, TransportReadyKept
    <3>6. CASE PredecessorRetry(p) BY <1>1, <3>6, PredecessorRetryKept
    <3>7. CASE LoginAgain(p) BY <1>1, <3>7, LoginAgainKept
    <3>8. CASE MediaReady(p) BY <1>1, <3>8, MediaReadyKept
    <3>9. CASE RenewalDue(p) BY <1>1, <3>9, RenewalDueKept
    <3> QED
      BY <2>1, <3>1, <3>2, <3>3, <3>4, <3>5, <3>6, <3>7, <3>8, <3>9, Zenon
         DEF Teardown, Timers
  <2>2. CASE \E p \in Procs : RadioAdvertises(p)
    BY <1>1, <2>2, SurroundingsKept
  <2>3. ASSUME NEW m \in net, Arrival(m) \/ AtRadio(m) \/ Lose(m)
        PROVE  TurnInv'
    BY <1>1, <2>3, ArrivalKept, AtRadioKept, SurroundingsKept
  <2>4. CASE Environment
    BY <1>1, <2>4, SurroundingsKept
  <2> QED
    BY <1>3, <2>1, <2>2, <2>3, <2>4, Zenon DEF Next
<1> QED
  BY <1>2, <1>3, Zenon

-----------------------------------------------------------------------------
(* What follows from it.                                                   *)

LEMMA TurnsSafe ==
    ASSUME TypeInv, SessionAssumption, TurnInv
    PROVE  JournalCoversSession /\ LoginAfterRemoval /\ TeardownOnlyOfGranted /\ RecoveryAckCounts
<1>1. ASSUME NEW p \in Procs, h[p].owned
      PROVE  Covers(journal, granted, p, h[p].id)
  <2>1. Ordered(h[p])
    BY DEF TurnInv
  <2>2. h[p].phase \notin {"off", "dead"}
    BY <1>1, <2>1, Zenon DEF Ordered, Idle
  <2>3. Open(p)
    BY <2>2 DEF Open, SessionAssumption
  <2> QED
    BY <1>1, <2>3 DEF TurnInv, Recorded
<1>2. JournalCoversSession
  <2> SUFFICES ASSUME NEW p \in Procs, h[p].owned, h[p].id = Id(session)
               PROVE  \E j \in journal : j.owner = p /\ j.id = Id(session)
    BY DEF JournalCoversSession
  <2> QED
    BY <1>1 DEF Covers
<1>3. LoginAfterRemoval
  <2>1. \A p \in Procs : h[p].pred # NoProc => ~h[p].login.pending
    BY DEF TurnInv, Ordered, Idle
  <2> QED
    BY <2>1 DEF LoginAfterRemoval
<1>4. TeardownOnlyOfGranted
  <2> SUFFICES ASSUME NEW p \in Procs, h[p].phase = "removing"
               PROVE  h[p].id[1] = h[p].id[2] /\ h[p].id[1] \in granted
    BY DEF TeardownOnlyOfGranted
  <2>1. h[p].owned
    BY DEF TurnInv, Ordered
  <2>2. h[p].id = Id(h[p].id[1]) /\ h[p].id[1] \in granted
    BY <1>1, <2>1 DEF Covers
  <2> QED
    BY <2>2 DEF Id
<1>5. RecoveryAckCounts
  <2> SUFFICES ASSUME NEW m \in net, m.kind = "removed", Open(m.p), h[m.p].pred # NoProc
               PROVE  m.seq = h[m.p].removal.seq
    BY DEF RecoveryAckCounts
  <2>1. m.p \in Procs
    BY Addressed
  <2> QED
    BY <2>1 DEF TurnInv, Told
<1> QED
  BY <1>2, <1>3, <1>4, <1>5

\* Where processes take turns and the radio keeps its tokens, the session of a
\* live owner is always in the journal (a crash leaves a record that can retire
\* it), a login waits for the confirmed removal of the predecessor's token, the
\* answer to that removal counts however late, and a shutdown tears down an
\* identity that was granted the streams.
THEOREM TurnsAreSafe ==
    ASSUME SessionAssumption, Steadfast
    PROVE  Spec /\ ExitsApart =>
               [](JournalCoversSession /\ LoginAfterRemoval /\ TeardownOnlyOfGranted
                  /\ RecoveryAckCounts)
<1>1. "reissue" \notin RadioMay
  BY DEF Steadfast
<1>2. Init => TypeInv /\ OwnInv /\ TurnInv
  BY InitTyped, InitOwned, InitKept
<1>3. TypeInv /\ OwnInv /\ TurnInv /\ [Next]_vars /\ [Apart]_vars
          => TypeInv' /\ OwnInv' /\ TurnInv'
  BY <1>1, StepTyped, StepOwned, StepKept
<1>4. TypeInv /\ TurnInv =>
          JournalCoversSession /\ LoginAfterRemoval /\ TeardownOnlyOfGranted /\ RecoveryAckCounts
  BY TurnsSafe
<1> QED
  BY <1>2, <1>3, <1>4, PTL DEF Spec, ExitsApart

\* In turn, a closing handler starts nothing and its streams stay closed: no
\* process closes while it recovers a predecessor.
THEOREM TurnsStayClosed ==
    ASSUME SessionAssumption, Steadfast
    PROVE  Spec /\ ExitsApart => ClosingStaysClosed
<1>1. "reissue" \notin RadioMay
  BY DEF Steadfast
<1>2. Init => TypeInv /\ OwnInv /\ TurnInv
  BY InitTyped, InitOwned, InitKept
<1>3. TypeInv /\ OwnInv /\ TurnInv /\ [Next]_vars /\ [Apart]_vars
          => TypeInv' /\ OwnInv' /\ TurnInv'
  BY <1>1, StepTyped, StepOwned, StepKept
<1>4. TypeInv /\ TurnInv /\ [Next]_vars => StaysClosed
  <2> SUFFICES ASSUME TypeInv, TurnInv, [Next]_vars, NEW p \in Procs,
                      h[p].phase \in Closes, h'[p].phase \in Closes
               PROVE  Quiet(p, h'[p])
    BY DEF StaysClosed, Quiet, Closes
  <2>1. h[p].pred = NoProc
    BY DEF TurnInv, Ordered, Closes
  <2> QED
    BY <2>1, ClosingStep
<1> QED
  BY <1>2, <1>3, <1>4, PTL DEF Spec, ExitsApart, ClosingStaysClosed

-----------------------------------------------------------------------------
(* One process, and a radio that may forget a token or deny a login.       *)

Lone == \A p, q \in Procs : p = q

\* No renewal falls due while a login or its answer is on its way: the token
\* timer runs for a minute, a login is answered or given up long before.
Calm ==
    \A p \in Procs : renewals' # renewals /\ h'[p] # h[p] =>
        \A m \in net : m.p = p => m.kind \notin {"login", "welcome"}
RenewalsApart == [][Calm]_vars

\* The radio does not know the identity, and will not: no login on its way
\* brings it.
Void(id, known, mail) ==
    id[1] = id[2] => id[1] \notin known /\ \A m \in mail : m.kind = "login" => m.id[1] # id[1]

Noted(records, p, id) == \E j \in records : j.owner = p /\ j.id = id

\* The streams are neither held nor asked for under the identity of s.
Unasked(s, holder, mail) ==
    ~s.gotAuth /\ holder # s.id[1] /\ \A m \in mail : m.kind = "stream" => m.id # s.id

\* A login on its way brings a number that nothing else names yet.
LoginsApart(p) ==
    \A m \in net : m.kind = "login" =>
        /\ m.id[1] \notin tokens /\ h[p].id # Id(m.id[1])
        /\ \A o \in net : o.id # Id(m.id[1]) /\ (o.kind = "login" /\ o.id[1] = m.id[1] => o = m)

\* Until the answer to a login is here, only that answer names its identity.
Untaken(p) ==
    h[p].login.pending =>
        /\ h[p].id # Id(h[p].login.id[1]) /\ session # h[p].login.id[1]
        /\ \A m \in net : m.id = Id(h[p].login.id[1]) => m.kind = "welcome"

\* A pending login that other requests have overtaken is not answered any more.
Overtaken(p) ==
    h[p].login.pending /\ (h[p].gotAuth \/ h[p].renewal.pending) =>
        \A m \in net : m.p = p => m.kind \notin {"login", "welcome"}

\* The requests of a handler are of its identity, or of one that is void.
AskedFor(s, known, mail) ==
    /\ s.stream.id = s.id \/ Void(s.stream.id, known, mail)
    /\ s.renewal.pending => s.renewal.id = s.id \/ Void(s.id, known, mail)

RefusedVoid == \A m \in net : m.kind = "refused" => Void(m.id, tokens, net)
RenewalsTraced(p) ==
    \A m \in net : m.p = p /\ m.kind \in {"renewal", "renewed", "refused"} =>
        m.seq < h[p].seq /\ (m.seq = h[p].renewal.seq => m.id = h[p].renewal.id)

\* Nothing to recover, and no identity before the first login.
Plain(s) == ~s.reclaim /\ ~s.relogin /\ (s.phase = "discover" => s.id = NoId)

\* An owner's identity is in the journal, or cannot hold the streams yet.
Retirable(p) ==
    h[p].owned => \/ Noted(journal, p, h[p].id)
                  \/ Void(h[p].id, tokens, net)
                  \/ Unasked(h[p], session, net)

Awake == {"discover", "up"}
LoneInv ==
    \A p \in Procs : h[p].phase \in Awake =>
        /\ LoginsApart(p) /\ Untaken(p) /\ Overtaken(p) /\ RefusedVoid /\ RenewalsTraced(p)
        /\ AskedFor(h[p], tokens, net) /\ Plain(h[p]) /\ Retirable(p)

\* A record t that a step of the handler of p may leave.
Identified(p, t) ==
    \/ t.id = h[p].id
    \/ \E m \in net : m.id = t.id /\ (t.login.pending => m.kind # "welcome")
Proceeds(p, t) ==
    /\ Plain(t) /\ t.seq >= h[p].seq
    /\ \A k \in Fresh(p, t) : t[k].id = t.id /\ t[k].seq >= h[p].seq
    /\ "renewal" \notin Fresh(p, t) => /\ t.renewal.seq = h[p].renewal.seq
                                       /\ t.renewal.id = h[p].renewal.id
    /\ t.renewal.pending => t.renewal.id = t.id \/ Void(t.id, tokens, net)
    /\ IF "login" \in Fresh(p, t)
       THEN /\ t.id[1] = Len(names) + 1 /\ t.id[2] \in 0 .. Len(names)
            /\ ~t.gotAuth /\ ~t.renewal.pending
            /\ t.stream.id = h[p].stream.id /\ Void(t.stream.id, tokens, net)
       ELSE /\ t.login.pending => h[p].login.pending /\ t.login.id = h[p].login.id
            /\ Identified(p, t)
            /\ t.login.pending /\ (t.gotAuth \/ t.renewal.pending) =>
                  h[p].gotAuth \/ h[p].renewal.pending
                  \/ \A m \in net : m.p = p => m.kind \notin {"login", "welcome"}
            /\ t.stream.id = t.id \/ Void(t.stream.id, tokens, net)
            /\ t.owned => \/ Noted(journal', p, t.id)
                          \/ Void(t.id, tokens, net)
                          \/ Unasked(t, session, net) /\ "stream" \notin Fresh(p, t)

\* What is on its way after a step of p.
LEMMA OnTheWay ==
    ASSUME TypeInv, NEW p \in Procs, NEW t, NEW rest \in SUBSET net, Become(p, t, rest)
    PROVE  /\ h'[p] = t
           /\ \A m \in net' : m \in net \/ \E k \in Fresh(p, t) : m = Msg(k, p, t[k].seq, t[k].id)
BY DEF TypeInv, HandlersSound, Become

\* No login begins.
LEMMA LoneBecome ==
    ASSUME TypeInv, TypeInv', Lone, LoneInv, NEW p \in Procs, NEW t, NEW rest \in SUBSET net,
           Become(p, t, rest), UNCHANGED <<tokens, session>>, h[p].phase \in Awake,
           Proceeds(p, t), "login" \notin Fresh(p, t)
    PROVE  LoneInv'
<1> DEFINE o == h[p]
<1>1. h'[p] = t /\ \A q \in Procs : q = p
  BY OnTheWay DEF Lone
<1>2. ASSUME NEW m \in net', m \notin net
      PROVE  /\ m.kind \in Kinds \ {"login"} /\ m.p = p /\ m.id = t.id
             /\ m.kind \in Fresh(p, t) /\ m.seq = t[m.kind].seq
  <2>1. PICK k \in Fresh(p, t) : m = Msg(k, p, t[k].seq, t[k].id)
    BY <1>2, OnTheWay
  <2>2. m.kind = k /\ m.p = p /\ m.id = t[k].id /\ m.seq = t[k].seq
    BY <2>1 DEF Msg
  <2>3. k \in Kinds \ {"login"} /\ t[k].id = t.id
    BY <2>1 DEF Fresh, Proceeds
  <2> QED
    BY <2>1, <2>2, <2>3
<1>3. \A m \in net' : m.kind \in {"login", "welcome", "renewed", "refused"} => m \in net
  BY <1>2 DEF Kinds
<1>4. ASSUME NEW id, Void(id, tokens, net)
      PROVE  Void(id, tokens', net')
  BY <1>3, <1>4 DEF Void
<1>5. LoginsApart(p)'
  <2> SUFFICES ASSUME NEW m \in net', m.kind = "login"
               PROVE  /\ m.id[1] \notin tokens /\ t.id # Id(m.id[1])
                      /\ \A x \in net' : /\ x.id # Id(m.id[1])
                                         /\ x.kind = "login" /\ x.id[1] = m.id[1] => x = m
    BY <1>1 DEF LoginsApart
  <2>1. m \in net
    BY <1>3
  <2>2. /\ m.id[1] \notin tokens /\ o.id # Id(m.id[1])
        /\ \A x \in net : /\ x.id # Id(m.id[1])
                          /\ x.kind = "login" /\ x.id[1] = m.id[1] => x = m
    BY <2>1 DEF LoneInv, LoginsApart
  <2>3. t.id # Id(m.id[1])
    BY <2>2 DEF Proceeds, Identified
  <2> QED
    BY <1>2, <2>2, <2>3
<1>6. Untaken(p)'
  <2> SUFFICES ASSUME t.login.pending
               PROVE  /\ t.id # Id(t.login.id[1]) /\ session # t.login.id[1]
                      /\ \A m \in net' : m.id = Id(t.login.id[1]) => m.kind = "welcome"
    BY <1>1 DEF Untaken
  <2>1. o.login.pending /\ t.login.id = o.login.id
    BY DEF Proceeds
  <2>2. /\ o.id # Id(t.login.id[1]) /\ session # t.login.id[1]
        /\ \A m \in net : m.id = Id(t.login.id[1]) => m.kind = "welcome"
    BY <2>1 DEF LoneInv, Untaken
  <2>3. t.id # Id(t.login.id[1])
    BY <2>2 DEF Proceeds, Identified
  <2> QED
    BY <1>2, <2>2, <2>3
<1>7. Overtaken(p)'
  <2> SUFFICES ASSUME t.login.pending, t.gotAuth \/ t.renewal.pending, NEW m \in net', m.p = p,
                      m.kind \in {"login", "welcome"}
               PROVE  FALSE
    BY <1>1 DEF Overtaken
  <2>1. m \in net
    BY <1>3
  <2>2. o.login.pending /\ (o.gotAuth \/ o.renewal.pending)
    BY <2>1 DEF Proceeds
  <2> QED
    BY <2>1, <2>2 DEF LoneInv, Overtaken
<1>8. RefusedVoid'
  <2> SUFFICES ASSUME NEW m \in net', m.kind = "refused"
               PROVE  Void(m.id, tokens', net')
    BY DEF RefusedVoid
  <2> QED
    BY <1>3, <1>4 DEF LoneInv, RefusedVoid
<1>9. RenewalsTraced(p)'
  <2> SUFFICES ASSUME NEW m \in net', m.p = p, m.kind \in {"renewal", "renewed", "refused"}
               PROVE  m.seq < t.seq /\ (m.seq = t.renewal.seq => m.id = t.renewal.id)
    BY <1>1 DEF RenewalsTraced
  <2>1. /\ o.seq \in Nat /\ t.seq \in Nat /\ t.seq >= o.seq
        /\ t.renewal.seq \in Nat /\ t.renewal.seq < t.seq
    BY <1>1 DEF TypeInv, HandlersSound, Sound, Kinds, Request, Proceeds
  <2>2. CASE m \in net
    <3>1. m.seq < o.seq /\ (m.seq = o.renewal.seq => m.id = o.renewal.id) /\ m.seq \in Nat
      BY <2>2, MailSeq DEF LoneInv, RenewalsTraced
    <3>2. \/ t.renewal.seq >= o.seq
          \/ t.renewal.seq = o.renewal.seq /\ t.renewal.id = o.renewal.id
      BY DEF Proceeds
    <3> QED
      BY <2>1, <3>1, <3>2
  <2>3. CASE m \notin net
    <3>1. m.kind = "renewal" /\ m.seq = t.renewal.seq /\ m.id = t.id /\ "renewal" \in Fresh(p, t)
      BY <1>2, <2>3 DEF Kinds
    <3>2. t.renewal.id = t.id
      BY <3>1 DEF Proceeds
    <3> QED
      BY <2>1, <3>1, <3>2
  <2> QED
    BY <2>2, <2>3
<1>10. AskedFor(t, tokens', net')
  BY <1>4 DEF Proceeds, AskedFor
<1>11. Retirable(p)'
  <2> SUFFICES ASSUME t.owned
               PROVE  \/ Noted(journal', p, t.id) \/ Void(t.id, tokens', net')
                      \/ Unasked(t, session', net')
    BY <1>1 DEF Retirable
  <2>1. \/ Noted(journal', p, t.id) \/ Void(t.id, tokens, net)
        \/ Unasked(t, session, net) /\ "stream" \notin Fresh(p, t)
    BY DEF Proceeds
  <2>2. ASSUME Unasked(t, session, net), "stream" \notin Fresh(p, t)
        PROVE  Unasked(t, session', net')
    BY <1>2, <2>2 DEF Unasked
  <2> QED
    BY <1>4, <2>1, <2>2
<1>12. Plain(t)
  BY DEF Proceeds
<1> QED
  BY <1>1, <1>5, <1>6, <1>7, <1>8, <1>9, <1>10, <1>11, <1>12 DEF LoneInv

\* A login begins: its number is new to everything.
LEMMA LoneLogin ==
    ASSUME TypeInv, TypeInv', Lone, LoneInv, NEW p \in Procs, NEW t, NEW rest \in SUBSET net,
           Become(p, t, rest), UNCHANGED <<tokens, session>>, h[p].phase \in Awake,
           Proceeds(p, t), "login" \in Fresh(p, t)
    PROVE  LoneInv'
<1> DEFINE o == h[p]
           N == Len(names)
<1>1. h'[p] = t /\ \A q \in Procs : q = p
  BY OnTheWay DEF Lone
<1>2. /\ N \in Nat /\ t.id[1] = N + 1 /\ t.id[2] \in 0 .. N /\ t.login.id = t.id
      /\ t.login.pending
  BY DEF TypeInv, Proceeds, Fresh
<1>3. /\ \A n \in Nat : n > N => t.id # Id(n)
      /\ \A n \in 0 .. N : t.id # Id(n)
  BY <1>2 DEF Id
<1>4. /\ tokens \subseteq 1 .. N /\ session \in 0 .. N
      /\ \A m \in net : m.id \in Ids(N) /\ m.id[1] \in 0 .. N
  BY <1>2 DEF TypeInv, RadioSound, MailSound, Mail, Ids
<1>5. ASSUME NEW m \in net', m \notin net
      PROVE  /\ m.kind \in Kinds /\ m.p = p /\ m.id = t.id /\ m = Msg(m.kind, p, t[m.kind].seq, t.id)
             /\ m.kind \in Fresh(p, t) /\ m.seq = t[m.kind].seq
  <2>1. PICK k \in Fresh(p, t) : m = Msg(k, p, t[k].seq, t[k].id)
    BY <1>5, OnTheWay
  <2>2. m.kind = k /\ m.p = p /\ m.id = t[k].id /\ m.seq = t[k].seq
    BY <2>1 DEF Msg
  <2>3. k \in Kinds /\ t[k].id = t.id
    BY <2>1 DEF Fresh, Proceeds
  <2> QED
    BY <2>1, <2>2, <2>3
<1>6. \A m \in net' : m.kind \in {"welcome", "renewed", "refused"} => m \in net
  BY <1>5 DEF Kinds
<1>7. ASSUME NEW id \in Ids(N), Void(id, tokens, net)
      PROVE  Void(id, tokens', net')
  <2>1. id[1] # N + 1
    BY <1>2 DEF Ids
  <2> QED
    BY <1>2, <1>5, <1>7, <2>1 DEF Void
<1>8. LoginsApart(p)'
  <2> SUFFICES ASSUME NEW m \in net', m.kind = "login"
               PROVE  /\ m.id[1] \notin tokens /\ t.id # Id(m.id[1])
                      /\ \A x \in net' : /\ x.id # Id(m.id[1])
                                         /\ x.kind = "login" /\ x.id[1] = m.id[1] => x = m
    BY <1>1 DEF LoginsApart
  <2>1. CASE m \in net
    <3>1. /\ m.id[1] \notin tokens
          /\ \A x \in net : /\ x.id # Id(m.id[1])
                            /\ x.kind = "login" /\ x.id[1] = m.id[1] => x = m
      BY <2>1 DEF LoneInv, LoginsApart
    <3>2. t.id # Id(m.id[1]) /\ t.id[1] # m.id[1]
      BY <1>2, <1>3, <1>4, <2>1
    <3> QED
      BY <1>5, <3>1, <3>2
  <2>2. CASE m \notin net
    <3>1. m.id[1] = N + 1 /\ m = Msg("login", p, t["login"].seq, t.id)
      BY <1>2, <1>5, <2>2
    <3>2. m.id[1] \notin tokens /\ t.id # Id(m.id[1])
      BY <1>2, <1>3, <1>4, <3>1
    <3>3. ASSUME NEW x \in net
          PROVE  x.id # Id(N + 1) /\ x.id[1] # N + 1
      BY <1>2, <1>4 DEF Id
    <3> QED
      BY <1>5, <3>1, <3>2, <3>3
  <2> QED
    BY <2>1, <2>2
<1>9. Untaken(p)'
  <2>1. t.id # Id(N + 1) /\ session # N + 1
    BY <1>2, <1>3, <1>4
  <2>2. ASSUME NEW m \in net'
        PROVE  m.id # Id(N + 1)
    <3>1. CASE m \in net
      BY <1>2, <1>4, <3>1 DEF Id
    <3> QED
      BY <1>5, <2>1, <3>1
  <2> QED
    BY <1>1, <1>2, <2>1, <2>2 DEF Untaken
<1>10. Overtaken(p)'
  BY <1>1 DEF Overtaken, Proceeds
<1>11. RefusedVoid'
  <2> SUFFICES ASSUME NEW m \in net', m.kind = "refused"
               PROVE  Void(m.id, tokens', net')
    BY DEF RefusedVoid
  <2> QED
    BY <1>4, <1>6, <1>7 DEF LoneInv, RefusedVoid
<1>12. RenewalsTraced(p)'
  <2> SUFFICES ASSUME NEW m \in net', m.p = p, m.kind \in {"renewal", "renewed", "refused"}
               PROVE  m.seq < t.seq /\ (m.seq = t.renewal.seq => m.id = t.renewal.id)
    BY <1>1 DEF RenewalsTraced
  <2>1. /\ o.seq \in Nat /\ t.seq \in Nat /\ t.seq >= o.seq
        /\ t.renewal.seq \in Nat /\ t.renewal.seq < t.seq
    BY <1>1 DEF TypeInv, HandlersSound, Sound, Kinds, Request, Proceeds
  <2>2. "renewal" \notin Fresh(p, t)
    BY DEF Proceeds, Fresh
  <2>3. m \in net
    BY <1>5, <2>2 DEF Kinds
  <2>4. m.seq < o.seq /\ (m.seq = o.renewal.seq => m.id = o.renewal.id) /\ m.seq \in Nat
    BY <2>3, MailSeq DEF LoneInv, RenewalsTraced
  <2> QED
    BY <2>1, <2>2, <2>4 DEF Proceeds
<1>13. AskedFor(t, tokens', net')
  <2>1. t.stream.id \in Ids(N)
    BY DEF Proceeds, TypeInv, HandlersSound, Sound, Kinds
  <2> QED
    BY <1>7, <2>1 DEF Proceeds, AskedFor
<1>14. Retirable(p)'
  BY <1>1, <1>2 DEF Retirable, Void
<1>15. Plain(t)
  BY DEF Proceeds
<1> QED
  BY <1>1, <1>8, <1>9, <1>10, <1>11, <1>12, <1>13, <1>14, <1>15 DEF LoneInv

LEMMA LoneKept ==
    ASSUME TypeInv, TypeInv', Lone, LoneInv, NEW p \in Procs, NEW t, NEW rest \in SUBSET net,
           Become(p, t, rest), UNCHANGED <<tokens, session>>,
           t.phase \in Awake => h[p].phase \in Awake /\ Proceeds(p, t)
    PROVE  LoneInv'
<1>1. CASE t.phase \in Awake
  BY <1>1, LoneBecome, LoneLogin
<1>2. CASE t.phase \notin Awake
  <2>1. h'[p] = t /\ \A q \in Procs : q = p
    BY OnTheWay DEF Lone
  <2> QED
    BY <1>2, <2>1 DEF LoneInv
<1> QED
  BY <1>1, <1>2

LEMMA LoneReceived ==
    ASSUME TypeInv, TypeInv', Lone, LoneInv, NEW m \in net, Open(m.p), NEW t, Receive(m, t),
           UNCHANGED <<tokens, session>>,
           t.phase \in Awake => h[m.p].phase \in Awake /\ Proceeds(m.p, t)
    PROVE  LoneInv'
<1>1. m.p \in Procs
  BY Addressed
<1>2. PICK rest \in SUBSET net : Become(m.p, t, rest)
  BY DEF Receive
<1> QED
  BY <1>1, <1>2, LoneKept

\* There is no predecessor, and no record of one.
LEMMA LoneUnrecovered ==
    ASSUME TypeInv, OwnInv, Lone, SessionAssumption, NEW p \in Procs, h[p].phase # "dead"
    PROVE  h[p].pred = NoProc /\ Recoverable = {}
<1>1. \A q \in Procs : q = p
  BY DEF Lone
<1>2. h[p].pred \in Procs \cup {NoProc}
  BY OfProcess DEF Sound
<1>3. h[p].pred # NoProc => h[h[p].pred].phase = "dead"
  BY DEF OwnInv
<1>4. \A j \in journal : j.owner \in Procs
  BY DEF TypeInv, JournalSound
<1> QED
  BY <1>1, <1>2, <1>3, <1>4 DEF Recoverable

Settled == {"phase", "seq", "id", "gotAuth", "relogin"}

\* Requests are dropped, and nothing else that counts; an owner has its record.
LEMMA LoneDrops ==
    ASSUME TypeInv, LoneInv, NEW p \in Procs, h[p].phase \in Awake, NEW t,
           \A f \in Settled : t[f] = h[p][f],
           \A k \in Kinds : /\ t[k].seq = h[p][k].seq /\ t[k].id = h[p][k].id
                            /\ t[k].pending => h[p][k].pending,
           t.reclaim => h[p].reclaim,
           t.owned => Noted(journal', p, t.id) \/ (h[p].owned /\ journal' = journal)
    PROVE  Proceeds(p, t)
<1> DEFINE o == h[p]
<1>1. /\ t.phase = o.phase /\ t.seq = o.seq /\ t.id = o.id /\ t.gotAuth = o.gotAuth
      /\ t.relogin = o.relogin /\ o.seq \in Nat
  BY Numbers DEF Settled, Kinds
<1>2. /\ t.login.pending => o.login.pending
      /\ t.renewal.pending => o.renewal.pending
      /\ t.login.id = o.login.id /\ t.renewal.id = o.renewal.id /\ t.stream.id = o.stream.id
      /\ t.renewal.seq = o.renewal.seq
  BY DEF Kinds
<1>3. Fresh(p, t) = {}
  BY DEF Fresh
<1>4. Plain(o) /\ AskedFor(o, tokens, net) /\ Retirable(p)
  BY DEF LoneInv
<1>5. Plain(t)
  BY <1>1, <1>4, Zenon DEF Plain
<1>6. t.owned => \/ Noted(journal', p, t.id) \/ Void(t.id, tokens, net)
                 \/ Unasked(t, session, net)
  BY <1>1, <1>4 DEF Retirable, Noted, Unasked
<1>7. t.renewal.pending => t.renewal.id = t.id \/ Void(t.id, tokens, net)
  BY <1>1, <1>2, <1>4 DEF AskedFor
<1>8. t.stream.id = t.id \/ Void(t.stream.id, tokens, net)
  BY <1>1, <1>2, <1>4 DEF AskedFor
<1>9. t.gotAuth \/ t.renewal.pending => o.gotAuth \/ o.renewal.pending
  BY <1>1, <1>2
<1>10. t.seq >= o.seq
  BY <1>1
<1>11. Identified(p, t)
  BY <1>1 DEF Identified
<1> HIDE DEF o
<1> QED
  BY <1>2, <1>3, <1>5, <1>6, <1>7, <1>8, <1>9, <1>10, <1>11, Zenon DEF Proceeds, o

-----------------------------------------------------------------------------
(* What the handler does on an answer.                                     *)

LEMMA LoginResponseLone ==
    ASSUME TypeInv, TypeInv', OwnInv, Lone, LoneInv, NEW m \in net, LoginResponse(m)
    PROVE  LoneInv'
<1> DEFINE o == h[m.p]
           c == Cleared(o, {"login"})
           s == [c EXCEPT !.radios = @ \/ Listening(o)]
           answered == [s EXCEPT !.id[2] = m.id[2]]
           i == answered.id
           t == [sendRenewal(answered) EXCEPT !.authed = TRUE]
<1>1. /\ Open(m.p) /\ m.kind = "welcome" /\ Arrives(m, "welcome") /\ o.login.pending
      /\ m.id[1] = o.login.id[1] /\ UNCHANGED <<journal, tokens, session>>
  BY DEF LoginResponse, Arrives, Relevant, Answers, radio
<1>2. /\ Sound(o, Len(names)) /\ Len(names) \in Nat /\ m.p \in Procs
      /\ DOMAIN o = Fields /\ m.id \in Ids(Len(names)) /\ o.id \in Ids(Len(names))
  BY <1>1, Addressed DEF Sound
<1>3. /\ DOMAIN c = Fields /\ \A f \in Fields \ Kinds : c[f] = o[f]
      /\ \A k \in Kinds : /\ c[k].seq = o[k].seq /\ c[k].id = o[k].id
                          /\ c[k].pending => o[k].pending
                          /\ k = "login" => ~c[k].pending
  BY <1>2, ClearedAsks, ClearedLeaves DEF Kinds
<1> HIDE DEF c
<1>4. /\ DOMAIN s = Fields /\ (\A f \in Settled : s[f] = o[f]) /\ (\A k \in Kinds : s[k] = c[k])
      /\ s.owned = o.owned /\ s.reclaim = o.reclaim
  BY <1>3 DEF Settled, Fields, Flags, Kinds
<1>5. s.id = o.id /\ s.phase = o.phase /\ s.seq = o.seq /\ s.gotAuth = o.gotAuth
      /\ s.relogin = o.relogin
  BY <1>4 DEF Settled
<1>6. Listening(s) <=> Listening(o)
  BY <1>5 DEF Listening
<1>7. \/ ~Listening(o) /\ Receive(m, answered)
      \/ Listening(o) /\ Receive(m, IF s.authed \/ s.id[1] # m.id[1] THEN s ELSE t)
  BY <1>6, Zenon DEF LoginResponse, c
<1> HIDE DEF s
<1>8. CASE ~Listening(o) /\ Receive(m, answered)
  <2>1. answered.phase = o.phase
    BY <1>4, <1>5 DEF Fields, Flags
  <2>2. o.phase \notin Awake
    BY <1>8 DEF Listening, Awake
  <2> QED
    BY <1>1, <1>2, <1>8, <2>1, <2>2, LoneReceived
<1>9. CASE Receive(m, s)
  <2>1. s.phase \in Awake => o.phase \in Awake /\ Proceeds(m.p, s)
    BY <1>1, <1>2, <1>3, <1>4, <1>5, LoneDrops
  <2> QED
    BY <1>1, <1>9, <2>1, LoneReceived
<1>10. CASE Receive(m, t) /\ s.id[1] = m.id[1]
  <2>1. /\ i = <<o.id[1], m.id[2]>> /\ i = m.id /\ DOMAIN answered = Fields
        /\ \A f \in Fields \ {"id"} : answered[f] = s[f]
    BY <1>2, <1>4, <1>5, <1>10 DEF Ids, Fields, Flags, Kinds
  <2>2. /\ \A f \in (Settled \ {"id"}) \cup Kinds : answered[f] = s[f]
        /\ answered.owned = o.owned /\ answered.reclaim = o.reclaim
    BY <1>4, <2>1 DEF Settled, Fields, Flags, Kinds
  <2> HIDE DEF answered
  <2>3. /\ answered.phase = o.phase /\ answered.seq = o.seq /\ answered.relogin = o.relogin
        /\ answered.gotAuth = o.gotAuth /\ answered.id = m.id
    BY <1>5, <2>1, <2>2 DEF Settled
  <2>4. /\ t.seq = o.seq + 1 /\ t.renewal.seq = o.seq /\ t.renewal.id = m.id /\ t.id = m.id
        /\ t.renewal.pending
        /\ t.phase = o.phase /\ t.reclaim = o.reclaim /\ t.relogin = o.relogin
        /\ t.gotAuth = o.gotAuth /\ t.owned = o.owned
        /\ \A k \in Kinds \ {"renewal"} : t[k] = s[k]
    BY <2>1, <2>2, <2>3 DEF sendRenewal, Begun, Fields, Flags, Kinds
  <2> HIDE DEF t
  <2> SUFFICES ASSUME o.phase \in Awake
               PROVE  Proceeds(m.p, t)
    BY <1>1, <1>10, <2>4, LoneReceived
  <2>5. /\ Untaken(m.p) /\ Overtaken(m.p) /\ AskedFor(o, tokens, net) /\ Plain(o)
    BY <1>2 DEF LoneInv
  <2>6. ~o.gotAuth /\ ~o.renewal.pending
    BY <1>1, <2>5 DEF Overtaken
  <2>7. /\ t.stream.id = o.stream.id /\ ~t.login.pending
        /\ \A k \in Kinds \ {"renewal"} : t[k].seq = o[k].seq
    BY <1>3, <1>4, <2>4 DEF Kinds
  <2>8. Fresh(m.p, t) \subseteq {"renewal"}
    BY <2>7 DEF Fresh
  <2>9. Void(o.id, tokens, net)
    <3>1. o.id[1] # o.id[2]
      BY <1>1, <1>2, <1>5, <1>10, <2>5 DEF Untaken, Ids, Id
    <3> QED
      BY <3>1 DEF Void
  <2>10. Void(t.id, tokens, net) \/ Unasked(t, session, net)
    <3>1. CASE m.id = Id(m.id[1])
      BY <1>1, <2>4, <2>5, <2>6, <3>1 DEF Unasked, Untaken
    <3>2. CASE m.id # Id(m.id[1])
      <4>1. m.id[1] # m.id[2]
        BY <1>2, <3>2 DEF Ids, Id
      <4> QED
        BY <2>4, <4>1 DEF Void
    <3> QED
      BY <3>1, <3>2
  <2>11. Void(t.stream.id, tokens, net)
    BY <2>5, <2>7, <2>9 DEF AskedFor
  <2>12. o.seq \in Nat /\ t.seq >= o.seq /\ t.renewal.seq >= o.seq
    BY <1>2, <2>4 DEF Sound
  <2>13. Plain(t) /\ Identified(m.p, t) /\ ~t.gotAuth
    <3>1. o.phase # "discover"
      BY <1>1, ActsLoggedIn DEF LoggedIn
    <3> QED
      BY <2>4, <2>5, <2>6, <2>7, <3>1, Zenon DEF Plain, Identified
  <2>14. Fresh(m.p, t) = {"renewal"}
    <3>1. o.renewal.seq < o.seq /\ o.renewal.seq \in Nat
      BY <1>2, Numbers DEF Kinds
    <3> QED
      BY <2>4, <2>8, <2>12, <3>1 DEF Fresh, Kinds
  <2>15. \A k \in Fresh(m.p, t) : t[k].id = t.id /\ t[k].seq >= o.seq
    BY <2>4, <2>12, <2>14
  <2> QED
    BY <2>4, <2>7, <2>10, <2>11, <2>12, <2>13, <2>14, <2>15 DEF Proceeds
<1> QED
  BY <1>7, <1>8, <1>9, <1>10

LEMMA LoginDeniedLone ==
    ASSUME TypeInv, TypeInv', OwnInv, Lone, LoneInv, NEW m \in net, LoginDenied(m)
    PROVE  LoneInv'
<1> DEFINE o == h[m.p]
           c == Cleared(o, {"login"})
           t == [c EXCEPT !.reported = TRUE]
<1>1. Open(m.p) /\ Receive(m, t) /\ UNCHANGED <<journal, tokens, session>>
  BY DEF LoginDenied, Arrives, radio
<1>2. Sound(o, Len(names)) /\ Len(names) \in Nat /\ m.p \in Procs
  BY <1>1, Addressed
<1>3. /\ DOMAIN c = Fields /\ \A f \in Fields \ Kinds : c[f] = o[f]
      /\ \A k \in Kinds : /\ c[k].seq = o[k].seq /\ c[k].id = o[k].id
                          /\ c[k].pending => o[k].pending
  BY <1>2, ClearedAsks, ClearedLeaves DEF Kinds
<1> HIDE DEF c
<1>4. /\ (\A f \in Settled : t[f] = o[f]) /\ (\A k \in Kinds : t[k] = c[k])
      /\ t.reclaim = o.reclaim /\ t.owned = o.owned
  BY <1>3 DEF Settled, Fields, Flags, Kinds
<1>5. t.phase = o.phase
  BY <1>4 DEF Settled
<1> HIDE DEF t
<1>6. o.phase \in Awake => Proceeds(m.p, t)
  BY <1>1, <1>2, <1>3, <1>4, LoneDrops
<1> QED
  BY <1>1, <1>5, <1>6, LoneReceived

\* The identity that a renewal's answer names: that of the last stream request,
\* or else that one is void.
LEMMA RenewalAnswered ==
    ASSUME TypeInv, OwnInv, LoneInv, NEW m \in net, Open(m.p), Relevant(m),
           m.kind \in {"renewed", "refused"}, Arrives(m, m.kind)
    PROVE  LET s == h[m.p]
           IN  /\ s.phase = "up" /\ s.renewal.pending
               /\ s.stream.id = m.id \/ Void(s.stream.id, tokens, net)
               /\ m.kind = "refused" => Void(m.id, tokens, net)
<1> DEFINE s == h[m.p]
<1>1. m.p \in Procs /\ s.renewal.pending /\ m.seq = s.renewal.seq /\ Listening(s)
  BY Addressed DEF Relevant, Answers
<1>2. s.phase = "up"
  BY <1>1, ActsLoggedIn DEF LoggedIn, Listening
<1>3. AskedFor(s, tokens, net) /\ RenewalsTraced(m.p) /\ RefusedVoid
  BY <1>1, <1>2 DEF LoneInv, Awake
<1>4. m.id = s.renewal.id
  BY <1>1, <1>3 DEF RenewalsTraced
<1> QED
  BY <1>1, <1>2, <1>3, <1>4 DEF AskedFor, RefusedVoid

LEMMA TokenRenewedLone ==
    ASSUME TypeInv, TypeInv', OwnInv, Lone, LoneInv, NEW m \in net, TokenRenewed(m)
    PROVE  LoneInv'
<1> DEFINE o == h[m.p]
           c == Cleared(o, {"renewal"})
           s == [c EXCEPT !.id = m.id, !.ticking = TRUE, !.gotAuth = TRUE]
           t == sendRequestStream(s)
<1>1. /\ Open(m.p) /\ m.kind \in {"renewed", "refused"} /\ Arrives(m, m.kind)
      /\ Relevant(m) /\ UNCHANGED <<tokens, session>>
  BY DEF TokenRenewed, Arrives, radio
<1>2. /\ Sound(o, Len(names)) /\ Len(names) \in Nat /\ m.p \in Procs
      /\ DOMAIN o = Fields /\ o.seq \in Nat
  BY <1>1, Addressed DEF Sound
<1>3. /\ o.phase = "up" /\ o.renewal.pending
      /\ o.stream.id = m.id \/ Void(o.stream.id, tokens, net)
  BY <1>1, RenewalAnswered
<1>4. Plain(o) /\ o.phase \in Awake
  BY <1>2, <1>3 DEF LoneInv, Awake
<1>5. /\ DOMAIN c = Fields /\ \A f \in Fields \ Kinds : c[f] = o[f]
      /\ \A k \in Kinds : /\ c[k].seq = o[k].seq /\ c[k].id = o[k].id
                          /\ c[k].pending => o[k].pending
                          /\ k = "renewal" => ~c[k].pending
  BY <1>2, ClearedAsks, ClearedLeaves DEF Kinds
<1> HIDE DEF c
<1>6. /\ s.phase = o.phase /\ s.seq = o.seq /\ s.id = m.id /\ s.owned = o.owned
      /\ s.reclaim = o.reclaim /\ s.relogin = o.relogin /\ DOMAIN s = Fields
      /\ \A k \in Kinds : s[k] = c[k]
  BY <1>5 DEF Fields, Flags, Kinds
<1>7. /\ journal' = IF s.owned THEN RenewedJournal(m.p, m.id) ELSE journal
      /\ Receive(m, s) \/ Receive(m, t)
  BY Zenon DEF TokenRenewed, RequestWhenReady, permitsRadioTeardown, c
<1> HIDE DEF s
<1>8. /\ t.seq = s.seq + 1 /\ t.stream.seq = s.seq /\ t.stream.id = s.id /\ t.id = s.id
      /\ t.phase = s.phase /\ t.owned = s.owned /\ t.reclaim = s.reclaim /\ t.relogin = s.relogin
      /\ \A k \in Kinds \ {"stream"} : t[k] = s[k]
  BY <1>6 DEF sendRequestStream, Begun, Fields, Flags, Kinds
<1> HIDE DEF t
<1>9. ASSUME NEW x, x.phase = o.phase, x.id = m.id, x.owned = o.owned, x.reclaim = o.reclaim,
             x.relogin = o.relogin, x.seq >= o.seq, x.login = s.login, x.renewal = s.renewal,
             x.stream.id \in {o.stream.id, m.id}, Fresh(m.p, x) \subseteq {"stream"},
             "stream" \in Fresh(m.p, x) => x.stream.id = m.id /\ x.stream.seq >= o.seq
      PROVE  Proceeds(m.p, x)
  <2>1. /\ ~x.renewal.pending /\ x.renewal.seq = o.renewal.seq /\ x.renewal.id = o.renewal.id
        /\ x.login.id = o.login.id /\ (x.login.pending => o.login.pending)
    BY <1>5, <1>6, <1>9 DEF Kinds
  <2>2. Plain(x)
    BY <1>3, <1>4, <1>9, Zenon DEF Plain
  <2>3. Identified(m.p, x)
    BY <1>1, <1>9 DEF Identified
  <2>4. x.owned => Noted(journal', m.p, x.id)
    BY <1>6, <1>7, <1>9 DEF Noted, RenewedJournal
  <2>5. x.stream.id = x.id \/ Void(x.stream.id, tokens, net)
    BY <1>3, <1>9
  <2>6. \A k \in Fresh(m.p, x) : x[k].id = x.id /\ x[k].seq >= o.seq
    BY <1>9
  <2>7. "login" \notin Fresh(m.p, x)
    BY <1>9
  <2> QED
    BY <1>3, <1>9, <2>1, <2>2, <2>3, <2>4, <2>5, <2>6, <2>7 DEF Proceeds
<1>10. CASE Receive(m, s)
  <2>1. Fresh(m.p, s) = {}
    BY <1>5, <1>6 DEF Fresh
  <2>2. Proceeds(m.p, s)
    BY <1>2, <1>5, <1>6, <1>9, <2>1 DEF Kinds
  <2> QED
    BY <1>1, <1>4, <1>10, <2>2, LoneReceived
<1>11. CASE Receive(m, t)
  <2>1. Fresh(m.p, t) \subseteq {"stream"}
    BY <1>5, <1>6, <1>8 DEF Fresh
  <2>2. Proceeds(m.p, t)
    BY <1>2, <1>6, <1>8, <1>9, <2>1 DEF Kinds
  <2> QED
    BY <1>1, <1>4, <1>11, <2>2, LoneReceived
<1> QED
  BY <1>7, <1>10, <1>11

\* A handler that has not authenticated, or not any more, logs in.
LEMMA LoginProceeds ==
    ASSUME TypeInv, LoneInv, NEW p \in Procs, h[p].phase \in Awake, NEW x, Sound(x, Len(names)),
           x.phase = "up", x.seq = h[p].seq, ~x.reclaim, ~x.relogin, ~x.gotAuth, ~x.renewal.pending,
           \A k \in Kinds : /\ x[k].seq = h[p][k].seq /\ x[k].id = h[p][k].id
                            /\ x[k].pending => h[p][k].pending,
           Void(h[p].stream.id, tokens, net)
    PROVE  Proceeds(p, sendLogin(x)) /\ sendLogin(x).phase = "up"
<1> DEFINE o == h[p]
           i == <<Len(names) + 1, x.id[2]>>
           t == sendLogin(x)
<1>1. DOMAIN x = Fields /\ x.id[2] \in 0 .. Len(names) /\ x.seq \in Nat /\ Len(names) \in Nat
  BY DEF Sound, Ids, TypeInv
<1>2. /\ t.id = i /\ t.seq = x.seq + 1 /\ t.login = Begun(x, i) /\ t.phase = "up"
      /\ t.reclaim = x.reclaim /\ t.relogin = x.relogin /\ t.gotAuth = x.gotAuth
      /\ \A k \in Kinds \ {"login"} : t[k] = x[k]
  BY <1>1 DEF sendLogin, Fields, Flags, Kinds
<1> HIDE DEF t
<1>3. t.login.seq = x.seq /\ t.login.id = i /\ t.login.pending
  BY <1>2 DEF Begun
<1>4. /\ ~t.renewal.pending /\ t.renewal.seq = o.renewal.seq /\ t.renewal.id = o.renewal.id
      /\ t.stream.id = o.stream.id
  BY <1>2 DEF Kinds
<1>5. Fresh(p, t) = {"login"}
  <2>1. o.login.seq \in Nat /\ o.login.seq < o.seq
    BY Numbers DEF Kinds
  <2>2. "login" \in Fresh(p, t)
    BY <1>1, <1>3, <2>1 DEF Fresh, Kinds
  <2>3. \A k \in Kinds \ {"login"} : k \notin Fresh(p, t)
    BY <1>2 DEF Fresh
  <2> QED
    BY <2>2, <2>3 DEF Fresh
<1>6. i[1] = Len(names) + 1 /\ i[2] \in 0 .. Len(names)
  BY <1>1
<1>7. Plain(t)
  BY <1>2 DEF Plain
<1>8. \A k \in Fresh(p, t) : t[k].id = t.id /\ t[k].seq >= o.seq
  BY <1>1, <1>2, <1>3, <1>5
<1>9. t.seq >= o.seq
  BY <1>1, <1>2
<1>10. Proceeds(p, t)
  BY <1>2, <1>4, <1>5, <1>6, <1>7, <1>8, <1>9 DEF Proceeds
<1> QED
  BY <1>2, <1>10 DEF t

LEMMA TokenRefusedLone ==
    ASSUME TypeInv, TypeInv', OwnInv, Lone, LoneInv, NEW m \in net, TokenRefused(m)
    PROVE  LoneInv'
<1> DEFINE o == h[m.p]
           c == Cleared(o, {"renewal"})
           b == closeStreams(c)
           x == [b EXCEPT !.id = m.id, !.gotAuth = FALSE, !.authed = FALSE]
<1>1. /\ Open(m.p) /\ m.kind = "refused" /\ Arrives(m, m.kind)
      /\ Relevant(m) /\ Receive(m, sendLogin(x)) /\ UNCHANGED <<tokens, session>>
  BY DEF TokenRefused, Arrives, radio
<1>2. /\ Sound(o, Len(names)) /\ Len(names) \in Nat /\ m.p \in Procs
      /\ DOMAIN o = Fields /\ m.id \in Ids(Len(names))
  BY <1>1, Addressed DEF Sound
<1>3. /\ o.phase = "up"
      /\ o.stream.id = m.id \/ Void(o.stream.id, tokens, net)
      /\ Void(m.id, tokens, net)
  BY <1>1, RenewalAnswered
<1>4. Plain(o) /\ o.phase \in Awake
  BY <1>2, <1>3 DEF LoneInv, Awake
<1>5. /\ DOMAIN c = Fields /\ \A f \in Fields \ Kinds : c[f] = o[f]
      /\ \A k \in Kinds : /\ c[k].seq = o[k].seq /\ c[k].id = o[k].id
                          /\ c[k].pending => o[k].pending
                          /\ k = "renewal" => ~c[k].pending
  BY <1>2, ClearedAsks, ClearedLeaves DEF Kinds
<1>6. Sound(b, Len(names))
  BY <1>2, ClearedSound, CloseStreamsSound DEF Kinds
<1> HIDE DEF c
<1>7. /\ b.phase = o.phase /\ b.seq = o.seq /\ b.reclaim = o.reclaim /\ b.relogin = o.relogin
      /\ DOMAIN b = Fields /\ \A k \in Kinds : b[k] = c[k]
  BY <1>5 DEF closeStreams, Fields, Flags, Kinds
<1> HIDE DEF b
<1>8. Sound(x, Len(names))
  BY <1>2, <1>6 DEF Sound, Fields, Flags, Kinds
<1>9. /\ x.phase = o.phase /\ x.seq = o.seq /\ x.reclaim = o.reclaim /\ x.relogin = o.relogin
      /\ ~x.gotAuth /\ \A k \in Kinds : x[k] = c[k]
  BY <1>7 DEF Fields, Flags, Kinds
<1> HIDE DEF x
<1>10. ~x.renewal.pending
  BY <1>5, <1>9 DEF Kinds
<1>11. \A k \in Kinds : /\ x[k].seq = o[k].seq /\ x[k].id = o[k].id
                        /\ x[k].pending => o[k].pending
  BY <1>5, <1>9
<1>12. Void(o.stream.id, tokens, net) /\ ~x.reclaim /\ ~x.relogin
  BY <1>3, <1>4, <1>9 DEF Plain
<1>13. Proceeds(m.p, sendLogin(x)) /\ sendLogin(x).phase = "up"
  BY <1>2, <1>3, <1>4, <1>8, <1>9, <1>10, <1>11, <1>12, LoginProceeds
<1> QED
  BY <1>1, <1>4, <1>13, LoneReceived

LEMMA StreamGrantedLone ==
    ASSUME TypeInv, TypeInv', OwnInv, Lone, LoneInv, NEW m \in net, StreamGranted(m)
    PROVE  LoneInv'
<1> DEFINE o == h[m.p]
           c == Cleared(o, {"stream"})
           s == Acquired(c)
           t == [s EXCEPT !.reclaims = 0, !.reclaim = FALSE, !.opened = TRUE,
                          !.resetTried = FALSE, !.ports = FALSE]
<1>1. /\ Open(m.p) /\ Receive(m, t) /\ UNCHANGED <<tokens, session>>
      /\ journal' = GrantJournal(m.p, s.id)
  BY DEF StreamGranted, Arrives, radio
<1>2. Sound(o, Len(names)) /\ Len(names) \in Nat /\ m.p \in Procs
  BY <1>1, Addressed
<1>3. /\ DOMAIN c = Fields /\ \A f \in Fields \ Kinds : c[f] = o[f]
      /\ \A k \in Kinds : /\ c[k].seq = o[k].seq /\ c[k].id = o[k].id
                          /\ c[k].pending => o[k].pending
  BY <1>2, ClearedAsks, ClearedLeaves DEF Kinds
<1> HIDE DEF c
<1>4. /\ DOMAIN s = Fields /\ (\A k \in Kinds : s[k] = c[k]) /\ (\A f \in Settled : s[f] = o[f])
  BY <1>3 DEF Acquired, Settled, Fields, Flags, Kinds
<1> HIDE DEF s
<1>5. /\ (\A k \in Kinds : t[k] = c[k]) /\ (\A f \in Settled : t[f] = o[f]) /\ ~t.reclaim
  BY <1>4 DEF Settled, Fields, Flags, Kinds
<1> HIDE DEF t
<1>6. t.phase = o.phase /\ t.id = s.id
  BY <1>4, <1>5 DEF Settled
<1>7. Noted(journal', m.p, t.id)
  BY <1>1, <1>6 DEF Noted, GrantJournal
<1>8. o.phase \in Awake => Proceeds(m.p, t)
  BY <1>2, <1>3, <1>5, <1>7, LoneDrops
<1> QED
  BY <1>1, <1>6, <1>8, LoneReceived

\* Nothing is being recovered: the error is reported.
LEMMA StreamRejectedLone ==
    ASSUME TypeInv, TypeInv', OwnInv, Lone, LoneInv, NEW m \in net, StreamRejected(m)
    PROVE  LoneInv'
<1> DEFINE o == h[m.p]
           c == Cleared(o, {"stream"})
           t == [c EXCEPT !.reported = TRUE]
<1>1. /\ Open(m.p) /\ Listening(o) /\ UNCHANGED <<journal, tokens, session>>
      /\ ~c.reclaim => Receive(m, t)
  BY DEF StreamRejected, Arrives, Relevant, radio
<1>2. Sound(o, Len(names)) /\ Len(names) \in Nat /\ m.p \in Procs /\ o.phase \in Live
  BY <1>1, Addressed
<1>3. /\ DOMAIN c = Fields /\ \A f \in Fields \ Kinds : c[f] = o[f]
      /\ \A k \in Kinds : /\ c[k].seq = o[k].seq /\ c[k].id = o[k].id
                          /\ c[k].pending => o[k].pending
  BY <1>2, ClearedAsks, ClearedLeaves DEF Kinds
<1> HIDE DEF c
<1>4. o.phase \in Awake
  BY <1>1, <1>2 DEF Awake, Live, Listening
<1>5. ~c.reclaim
  BY <1>2, <1>3, <1>4 DEF LoneInv, Plain, Fields, Flags, Kinds
<1>6. /\ (\A f \in Settled : t[f] = o[f]) /\ (\A k \in Kinds : t[k] = c[k])
      /\ t.reclaim = o.reclaim /\ t.owned = o.owned
  BY <1>3 DEF Settled, Fields, Flags, Kinds
<1> HIDE DEF t
<1>7. Proceeds(m.p, t)
  BY <1>1, <1>2, <1>3, <1>4, <1>6, LoneDrops
<1> QED
  BY <1>1, <1>4, <1>5, <1>7, LoneReceived

\* The identity of the stream request is taken over.
LEMMA GrantAdvertisedLone ==
    ASSUME TypeInv, TypeInv', OwnInv, Lone, LoneInv, NEW m \in net, GrantAdvertised(m)
    PROVE  LoneInv'
<1> DEFINE o == h[m.p]
           t == [o EXCEPT !.id = m.id]
<1>1. /\ Open(m.p) /\ m.kind = "advert" /\ m.id = o.stream.id /\ Arrives(m, "advert")
      /\ Listening(o) /\ Receive(m, t) /\ UNCHANGED <<journal, tokens, session>>
  BY DEF GrantAdvertised, Arrives, Relevant, radio
<1>2. DOMAIN o = Fields /\ m.p \in Procs /\ o.seq \in Nat
  BY <1>1, Addressed DEF Sound
<1>3. o.phase = "up"
  BY <1>1, ActsLoggedIn DEF LoggedIn, Listening
<1>4. Plain(o) /\ AskedFor(o, tokens, net) /\ Retirable(m.p)
  BY <1>2, <1>3 DEF LoneInv, Awake
<1>5. /\ t.id = o.stream.id /\ t.phase = o.phase /\ t.seq = o.seq /\ t.gotAuth = o.gotAuth
      /\ t.owned = o.owned /\ t.reclaim = o.reclaim /\ t.relogin = o.relogin
      /\ \A k \in Kinds : t[k] = o[k]
  BY <1>1, <1>2 DEF Fields, Flags, Kinds
<1> HIDE DEF t
<1>6. t.login = o.login /\ t.renewal = o.renewal /\ t.stream = o.stream
  BY <1>5 DEF Kinds
<1>7. Fresh(m.p, t) = {}
  BY <1>5 DEF Fresh
<1>8. t.id = o.id \/ Void(t.id, tokens, net)
  BY <1>4, <1>5 DEF AskedFor
<1>9. t.renewal.pending => t.renewal.id = t.id \/ Void(t.id, tokens, net)
  BY <1>4, <1>6, <1>8 DEF AskedFor
<1>10. t.owned => \/ Noted(journal', m.p, t.id) \/ Void(t.id, tokens, net)
                  \/ Unasked(t, session, net)
  BY <1>1, <1>4, <1>5, <1>8 DEF Retirable, Noted, Unasked
<1>11. Identified(m.p, t)
  BY <1>1, <1>5 DEF Identified
<1>12. Plain(t)
  BY <1>3, <1>4, <1>5, Zenon DEF Plain
<1>13. t.seq >= o.seq
  BY <1>2, <1>5
<1>14. t.gotAuth \/ t.renewal.pending => o.gotAuth \/ o.renewal.pending
  BY <1>5, <1>6
<1>15. Proceeds(m.p, t)
  <2> HIDE DEF o
  <2> QED
    BY <1>5, <1>6, <1>7, <1>9, <1>10, <1>11, <1>12, <1>13, <1>14, Zenon DEF Proceeds, o
<1> QED
  BY <1>1, <1>3, <1>15, LoneReceived DEF Awake

LEMMA StatusLone ==
    ASSUME TypeInv, TypeInv', SessionAssumption, OwnInv, Lone, LoneInv, NEW m \in net,
           InfoIgnored(m) \/ BusyBySelf(m) \/ BusyByForeign(m) \/ BusyBySibling(m)
    PROVE  LoneInv'
<1> DEFINE o == h[m.p]
           r == [o EXCEPT !.reported = TRUE]
<1>1. Open(m.p) /\ UNCHANGED <<journal, tokens, session>>
  BY DEF InfoIgnored, BusyBySelf, BusyByForeign, BusyBySibling, Noticed, Arrives, radio
<1>2. DOMAIN o = Fields /\ m.p \in Procs /\ o.phase # "dead"
  BY <1>1, Addressed DEF Open
<1>3. /\ (\A f \in Settled : r[f] = o[f]) /\ (\A k \in Kinds : r[k] = o[k])
      /\ r.reclaim = o.reclaim /\ r.owned = o.owned
  BY <1>2 DEF Settled, Fields, Flags, Kinds
<1>4. Receive(m, o) \/ Receive(m, r)
  <2>1. CASE InfoIgnored(m) \/ BusyByForeign(m)
    BY <2>1 DEF InfoIgnored, BusyByForeign
  <2>2. CASE BusyBySelf(m)
    <3>1. Receive(m, IF o.gotAuth /\ o.stream.pending THEN o ELSE r)
      BY <2>2, Zenon DEF BusyBySelf
    <3> HIDE DEF o, r
    <3> QED
      BY <3>1
  <2>3. CASE BusyBySibling(m)
    <3> DEFINE known == {j \in Recoverable : j.owner = names[m.id[1]]}
    <3>1. known = {}
      BY <1>2, LoneUnrecovered
    <3>2. \/ Receive(m, o) \/ Receive(m, r)
          \/ \E j \in known : TRUE
      BY <2>3, Zenon DEF BusyBySibling
    <3> HIDE DEF known, o, r
    <3> QED
      BY <3>1, <3>2
  <2> QED
    BY <2>1, <2>2, <2>3
<1> HIDE DEF r
<1>5. ASSUME NEW t \in {o, r}
      PROVE  t.phase = o.phase /\ (o.phase \in Awake => Proceeds(m.p, t))
  <2>1. /\ (\A f \in Settled : t[f] = o[f]) /\ (\A k \in Kinds : t[k] = o[k])
        /\ t.reclaim = o.reclaim /\ t.owned = o.owned
    BY <1>3
  <2> HIDE DEF o
  <2>2. t.phase = o.phase
    BY <2>1 DEF Settled
  <2> QED
    BY <1>1, <1>2, <2>1, <2>2, LoneDrops DEF o
<1> QED
  BY <1>1, <1>4, <1>5, LoneReceived

LEMMA RadioAvailableLone ==
    ASSUME TypeInv, TypeInv', OwnInv, Lone, LoneInv, NEW m \in net, RadioAvailable(m)
    PROVE  LoneInv'
<1> DEFINE o == h[m.p]
           x == closeStreams(o)
           c == [x EXCEPT !.ports = TRUE]
           t == sendRequestStream(c)
<1>1. /\ Open(m.p) /\ Noticed(m, "free") /\ UNCHANGED <<journal, tokens, session>>
      /\ Receive(m, IF c.gotAuth THEN t ELSE c)
  BY DEF RadioAvailable, Noticed, Arrives, radio, setCurrentRadio
<1>2. /\ Sound(o, Len(names)) /\ Len(names) \in Nat /\ m.p \in Procs
      /\ DOMAIN o = Fields /\ o.seq \in Nat
  BY <1>1, Addressed DEF Sound
<1>3. o.phase = "up" /\ o.phase \in Awake
  BY <1>1, Noticing DEF Awake
<1>4. /\ DOMAIN x = Fields /\ (\A k \in Kinds : x[k] = o[k]) /\ (\A f \in Settled : x[f] = o[f])
      /\ x.reclaim = o.reclaim /\ x.owned = o.owned
  BY <1>2 DEF closeStreams, Settled, Fields, Flags, Kinds
<1> HIDE DEF x
<1>5. /\ DOMAIN c = Fields /\ (\A k \in Kinds : c[k] = o[k]) /\ (\A f \in Settled : c[f] = o[f])
      /\ c.reclaim = o.reclaim /\ c.owned = o.owned
  BY <1>4 DEF Settled, Fields, Flags, Kinds
<1> HIDE DEF c
<1>6. /\ c.phase = o.phase /\ c.seq = o.seq /\ c.id = o.id /\ c.gotAuth = o.gotAuth
      /\ c.relogin = o.relogin
  BY <1>5 DEF Settled
<1>7. CASE ~c.gotAuth
  <2>1. Proceeds(m.p, c)
    BY <1>1, <1>2, <1>3, <1>5, LoneDrops
  <2> QED
    BY <1>1, <1>3, <1>7, <2>1, LoneReceived
<1>8. CASE c.gotAuth
  <2>1. /\ t.seq = c.seq + 1 /\ t.stream.seq = c.seq /\ t.stream.id = c.id
        /\ t.phase = c.phase /\ t.id = c.id /\ t.gotAuth = c.gotAuth /\ t.owned = c.owned
        /\ t.reclaim = c.reclaim /\ t.relogin = c.relogin
        /\ \A k \in Kinds \ {"stream"} : t[k] = c[k]
    BY <1>5 DEF sendRequestStream, Begun, Fields, Flags, Kinds
  <2> HIDE DEF t
  <2>2. t.login = o.login /\ t.renewal = o.renewal
    BY <1>5, <2>1 DEF Kinds
  <2>3. Plain(o) /\ AskedFor(o, tokens, net) /\ Retirable(m.p)
    BY <1>2, <1>3 DEF LoneInv
  <2>4. Fresh(m.p, t) \subseteq {"stream"}
    BY <1>5, <2>1 DEF Fresh
  <2>5. \A k \in Fresh(m.p, t) : t[k].id = t.id /\ t[k].seq >= o.seq
    BY <1>2, <1>6, <2>1, <2>4
  <2>6. t.owned => Noted(journal', m.p, t.id) \/ Void(t.id, tokens, net)
    BY <1>1, <1>5, <1>6, <1>8, <2>1, <2>3 DEF Retirable, Noted, Unasked
  <2>7. t.renewal.pending => t.renewal.id = t.id \/ Void(t.id, tokens, net)
    BY <1>6, <2>1, <2>2, <2>3 DEF AskedFor
  <2>8. Plain(t)
    BY <1>3, <1>5, <1>6, <2>1, <2>3, Zenon DEF Plain
  <2>9. t.seq >= o.seq /\ t.id = o.id /\ t.gotAuth = o.gotAuth /\ t.stream.id = t.id
        /\ "login" \notin Fresh(m.p, t)
    BY <1>2, <1>6, <2>1, <2>4
  <2>10. Identified(m.p, t)
    BY <2>9 DEF Identified
  <2>11. Proceeds(m.p, t)
    <3> HIDE DEF o
    <3> QED
      BY <2>2, <2>5, <2>6, <2>7, <2>8, <2>9, <2>10, Zenon DEF Proceeds, o
  <2> QED
    BY <1>1, <1>3, <1>8, <2>11, LoneReceived
<1> QED
  BY <1>7, <1>8

\* Without a predecessor, nothing follows the end of a session or a removal.
LEMMA EndLone ==
    ASSUME TypeInv, TypeInv', SessionAssumption, OwnInv, Lone, LoneInv, NEW m \in net,
           RemovalAcknowledged(m) \/ SessionEnded(m)
    PROVE  LoneInv'
<1> DEFINE o == h[m.p]
           c == Cleared(o, {"removal"})
           acked == [c EXCEPT !.ack = TRUE]
           told == [o EXCEPT !.disc = TRUE]
           d == closeStreams(told)
           over == [d EXCEPT !.owned = FALSE, !.reported = @ \/ ~told.reclaim]
<1>1. Open(m.p) /\ UNCHANGED <<tokens, session>>
  BY DEF RemovalAcknowledged, SessionEnded, Arrives, radio
<1>2. /\ m.p \in Procs /\ Len(names) \in Nat /\ Sound(o, Len(names)) /\ DOMAIN o = Fields
      /\ o.pred = NoProc
  BY <1>1, Addressed, LoneUnrecovered DEF Open
<1>3. /\ DOMAIN c = Fields /\ \A f \in Fields \ Kinds : c[f] = o[f]
      /\ \A k \in Kinds : /\ c[k].seq = o[k].seq /\ c[k].id = o[k].id
                          /\ c[k].pending => o[k].pending
  BY <1>2, ClearedAsks, ClearedLeaves DEF Kinds
<1>4. acked.pred = NoProc /\ told.pred = NoProc
  <2> HIDE DEF c
  <2> QED
    BY <1>2, <1>3 DEF Fields, Flags, Kinds
<1>5. journal' = journal /\ (Receive(m, acked) \/ Receive(m, d) \/ Receive(m, over))
  BY <1>4, Zenon DEF RemovalAcknowledged, SessionEnded
<1> HIDE DEF c
<1>6. /\ (\A f \in Settled : acked[f] = o[f]) /\ (\A k \in Kinds : acked[k] = c[k])
      /\ acked.reclaim = o.reclaim /\ acked.owned = o.owned
  BY <1>3 DEF Settled, Fields, Flags, Kinds
<1> HIDE DEF acked
<1>7. /\ (\A f \in Settled : told[f] = o[f]) /\ (\A k \in Kinds : told[k] = o[k])
      /\ told.reclaim = o.reclaim /\ told.owned = o.owned /\ DOMAIN told = Fields
  BY <1>2 DEF Settled, Fields, Flags, Kinds
<1> HIDE DEF told
<1>8. /\ (\A f \in Settled : d[f] = o[f]) /\ (\A k \in Kinds : d[k] = o[k])
      /\ d.reclaim = o.reclaim /\ d.owned = o.owned /\ DOMAIN d = Fields
  BY <1>7 DEF closeStreams, Settled, Fields, Flags, Kinds
<1> HIDE DEF d
<1>9. /\ (\A f \in Settled : over[f] = o[f]) /\ (\A k \in Kinds : over[k] = o[k])
      /\ over.reclaim = o.reclaim /\ ~over.owned
  BY <1>8 DEF Settled, Fields, Flags, Kinds
<1> HIDE DEF over
<1>10. ASSUME NEW t \in {acked, d, over}
       PROVE  t.phase = o.phase /\ (o.phase \in Awake => Proceeds(m.p, t))
  <2>1. /\ (\A f \in Settled : t[f] = o[f])
        /\ \A k \in Kinds : /\ t[k].seq = o[k].seq /\ t[k].id = o[k].id
                            /\ t[k].pending => o[k].pending
        /\ t.reclaim = o.reclaim /\ (t.owned => o.owned)
    BY <1>3, <1>6, <1>8, <1>9
  <2> HIDE DEF o
  <2>2. t.phase = o.phase
    BY <2>1 DEF Settled
  <2> QED
    BY <1>2, <1>5, <2>1, <2>2, LoneDrops DEF o
<1> QED
  BY <1>1, <1>5, <1>10, LoneReceived

-----------------------------------------------------------------------------
(* What the handler does by itself.                                        *)

LEMMA ConnectLone ==
    ASSUME TypeInv, SessionAssumption, Lone, LoneInv, NEW p \in Procs, Connect(p)
    PROVE  LoneInv'
<1> DEFINE s == Handler("discover")
           full == {j \in Recoverable : j.full}
           b == full # {}
           t == [s EXCEPT !.retired = b]
           rest == net \cup UNION {Departures(s, j) : j \in full}
<1>1. Become(p, t, rest) /\ h[p].phase = "off" /\ \A m \in net : m.p # NoProc
  BY DEF Connect
<1>2. \A q \in Procs : q = p
  BY DEF Lone
<1>3. net = {}
  BY <1>1, <1>2 DEF TypeInv, MailSound, Carried, Mail, Open
<1>4. full = {}
  BY <1>1, <1>2 DEF Recoverable, TypeInv, JournalSound
<1>5. rest = {}
  BY <1>3, <1>4
<1> HIDE DEF rest, b, full
<1>6. /\ t.phase = "discover" /\ ~t.login.pending /\ ~t.relogin /\ ~t.reclaim /\ t.id = NoId
      /\ ~t.gotAuth /\ ~t.renewal.pending /\ ~t.owned /\ t.stream.id = NoId
      /\ \A k \in Kinds : ~t[k].pending
  BY DEF Handler, NoRequest, Kinds
<1> HIDE DEF t
<1>7. h' = [h EXCEPT ![p] = t] /\ net' = {}
  <2>1. Fresh(p, t) = {}
    BY <1>6 DEF Fresh
  <2> QED
    BY <1>1, <1>5, <2>1 DEF Become
<1>8. h'[p] = t
  BY <1>7, OfProcess
<1>9. /\ LoginsApart(p)' /\ RefusedVoid' /\ RenewalsTraced(p)' /\ Overtaken(p)'
  BY <1>7 DEF LoginsApart, RefusedVoid, RenewalsTraced, Overtaken
<1>10. Untaken(p)' /\ Retirable(p)'
  BY <1>6, <1>8, Zenon DEF Untaken, Retirable
<1>11. AskedFor(t, tokens', net') /\ Plain(t)
  BY <1>6, Zenon DEF AskedFor, Plain
<1> QED
  BY <1>2, <1>8, <1>9, <1>10, <1>11 DEF LoneInv

LEMMA TransportReadyLone ==
    ASSUME TypeInv, TypeInv', SessionAssumption, OwnInv, Lone, LoneInv, NEW p \in Procs,
           TransportReady(p)
    PROVE  LoneInv'
<1> DEFINE o == h[p]
           x == [o EXCEPT !.phase = "up"]
<1>1. o.phase = "discover" /\ o.phase \in Awake /\ UNCHANGED <<tokens, session>>
  BY DEF TransportReady, radio, Awake
<1>2. Recoverable = {}
  BY <1>1, LoneUnrecovered
<1>3. Become(p, sendLogin(x), net)
  BY <1>2 DEF TransportReady
<1>4. Sound(o, Len(names)) /\ DOMAIN o = Fields /\ Len(names) \in Nat
  BY OfProcess
<1>5. Young(o) /\ Plain(o)
  BY <1>1 DEF OwnInv, LoneInv
<1>6. /\ ~o.gotAuth /\ ~o.renewal.pending /\ o.stream.id = NoId /\ ~o.reclaim /\ ~o.relogin
  BY <1>1, <1>5 DEF Young, Plain, Kinds
<1>7. /\ x.phase = "up" /\ x.seq = o.seq /\ x.reclaim = o.reclaim /\ x.relogin = o.relogin
      /\ x.gotAuth = o.gotAuth /\ \A k \in Kinds : x[k] = o[k]
  BY <1>4 DEF Fields, Flags, Kinds
<1>8. Sound(x, Len(names))
  BY <1>4 DEF Sound, Fields, Flags, Kinds, Phases
<1> HIDE DEF x
<1>9. Void(o.stream.id, tokens, net)
  <2>1. \A m \in net : m.kind = "login" => m.id[1] # 0
    BY DEF TypeInv, MailSound, Carried
  <2>2. 0 \notin tokens
    BY <1>4 DEF TypeInv, RadioSound
  <2> QED
    BY <1>6, <2>1, <2>2 DEF Void, NoId
<1>10. ~x.renewal.pending
  BY <1>6, <1>7 DEF Kinds
<1>11. \A k \in Kinds : /\ x[k].seq = o[k].seq /\ x[k].id = o[k].id
                        /\ x[k].pending => o[k].pending
  BY <1>7
<1>12. Proceeds(p, sendLogin(x))
  BY <1>1, <1>6, <1>7, <1>8, <1>9, <1>10, <1>11, LoginProceeds
<1> QED
  BY <1>1, <1>3, <1>12, LoneKept

LEMMA MediaReadyLone ==
    ASSUME TypeInv, TypeInv', Lone, LoneInv, NEW p \in Procs, MediaReady(p)
    PROVE  LoneInv'
<1> DEFINE o == h[p]
           t == [o EXCEPT !.media = TRUE]
<1>1. /\ o.phase \in Awake /\ UNCHANGED <<tokens, session>>
      /\ journal' = {[owner |-> p, id |-> o.id, full |-> TRUE]} /\ Become(p, t, net)
  BY DEF MediaReady, radio, Awake
<1>2. DOMAIN o = Fields
  BY OfProcess
<1>3. /\ (\A f \in Settled : t[f] = o[f]) /\ (\A k \in Kinds : t[k] = o[k])
      /\ t.reclaim = o.reclaim
  BY <1>2 DEF Settled, Fields, Flags, Kinds
<1> HIDE DEF t
<1>4. Noted(journal', p, t.id)
  BY <1>1, <1>3 DEF Noted, Settled
<1>5. Proceeds(p, t)
  <2>1. \A k \in Kinds : /\ t[k].seq = o[k].seq /\ t[k].id = o[k].id
                        /\ t[k].pending => o[k].pending
    BY <1>3
  <2>2. /\ t.reclaim => o.reclaim
        /\ t.owned => Noted(journal', p, t.id) \/ (o.owned /\ journal' = journal)
    BY <1>3, <1>4
  <2> QED
    BY <1>1, <1>3, <2>1, <2>2, LoneDrops
<1> QED
  BY <1>1, <1>5, LoneKept

LEMMA RenewalDueLone ==
    ASSUME TypeInv, TypeInv', Lone, LoneInv, Calm, NEW p \in Procs, RenewalDue(p)
    PROVE  LoneInv'
<1> DEFINE o == h[p]
           t == sendRenewal(o)
<1>1. /\ o.phase = "up" /\ o.phase \in Awake /\ UNCHANGED <<journal, tokens, session>>
      /\ renewals' = renewals + 1 /\ renewals \in Nat /\ Become(p, t, net)
  BY DEF RenewalDue, radio, Awake, TypeInv, BoundsSound
<1>2. DOMAIN o = Fields /\ o.seq \in Nat
  BY OfProcess
<1>3. /\ t.seq = o.seq + 1 /\ t.renewal.seq = o.seq /\ t.renewal.id = o.id /\ t.renewal.pending
      /\ t.phase = o.phase /\ t.id = o.id /\ t.gotAuth = o.gotAuth /\ t.owned = o.owned
      /\ t.reclaim = o.reclaim /\ t.relogin = o.relogin
      /\ \A k \in Kinds \ {"renewal"} : t[k] = o[k]
  BY <1>2 DEF sendRenewal, Begun, Fields, Flags, Kinds
<1>4. h'[p] # o
  BY <1>1, <1>2, <1>3, OnTheWay
<1>5. \A m \in net : m.p = p => m.kind \notin {"login", "welcome"}
  BY <1>1, <1>4 DEF Calm
<1> HIDE DEF t
<1>6. t.login = o.login /\ t.stream = o.stream
  BY <1>3 DEF Kinds
<1>7. Fresh(p, t) = {"renewal"}
  <2>1. o.renewal.seq \in Nat /\ o.renewal.seq < o.seq
    BY Numbers DEF Kinds
  <2> QED
    BY <1>2, <1>3, <2>1 DEF Fresh, Kinds
<1>8. \A k \in Fresh(p, t) : t[k].id = t.id /\ t[k].seq >= o.seq
  BY <1>2, <1>3, <1>7
<1>9. Plain(o) /\ AskedFor(o, tokens, net) /\ Retirable(p)
  BY <1>1 DEF LoneInv
<1>10. Plain(t)
  BY <1>3, <1>9, Zenon DEF Plain
<1>11. t.stream.id = t.id \/ Void(t.stream.id, tokens, net)
  BY <1>3, <1>6, <1>9 DEF AskedFor
<1>12. t.owned => \/ Noted(journal', p, t.id) \/ Void(t.id, tokens, net)
                  \/ Unasked(t, session, net)
  BY <1>1, <1>3, <1>9 DEF Retirable, Noted, Unasked
<1>13. Identified(p, t)
  BY <1>3 DEF Identified
<1>14. t.seq >= o.seq /\ "login" \notin Fresh(p, t) /\ "stream" \notin Fresh(p, t)
  BY <1>2, <1>3, <1>7
<1>15. Proceeds(p, t)
  <2> HIDE DEF o
  <2> QED
    BY <1>3, <1>5, <1>6, <1>7, <1>8, <1>10, <1>11, <1>12, <1>13, <1>14, Zenon DEF Proceeds, o
<1> QED
  BY <1>1, <1>15, LoneKept

\* A handler that closes, and a process that is gone.
LEMMA ClosingLone ==
    ASSUME TypeInv, Lone, NEW p \in Procs, Shutdown(p) \/ Teardown(p) \/ Crash(p)
    PROVE  LoneInv'
<1>1. DOMAIN h = Procs /\ DOMAIN h[p] = Fields
  BY OfProcess
<1>2. h'[p].phase \notin Awake
  <2>1. CASE Shutdown(p)
    <3> DEFINE t == [h[p] EXCEPT !.phase = "settling", !.ticking = FALSE,
                                 !.ack = FALSE, !.disc = FALSE]
    <3>1. h' = [h EXCEPT ![p] = Handler("off")] \/ h' = [h EXCEPT ![p] = t]
      BY <2>1 DEF Shutdown, Closed, Become
    <3>2. t.phase = "settling" /\ Handler("off").phase = "off"
      BY <1>1 DEF Fields, Flags, Kinds, Handler
    <3> HIDE DEF t
    <3> QED
      BY <1>1, <3>1, <3>2 DEF Awake
  <2>2. CASE SettleEnds(p)
    BY <1>1, <2>2 DEF SettleEnds, Awake, Fields, Flags, Kinds
  <2>3. CASE RemovalAttempt(p)
    <3> DEFINE x == [h[p] EXCEPT !.attempts = @ + 1]
    <3>1. h' = [h EXCEPT ![p] = sendRemoval(x)] /\ h[p].phase = "removing"
      BY <2>3 DEF RemovalAttempt, Become
    <3>2. DOMAIN x = Fields /\ x.phase = h[p].phase
      BY <1>1 DEF Fields, Flags, Kinds
    <3> HIDE DEF x
    <3>3. sendRemoval(x).phase = x.phase
      BY <3>2 DEF sendRemoval, Fields, Flags, Kinds
    <3> QED
      BY <1>1, <3>1, <3>2, <3>3 DEF Awake
  <2>4. CASE ShutdownCompletes(p) \/ Crash(p)
    BY <1>1, <2>4 DEF ShutdownCompletes, Closed, Crash, Handler, Awake
  <2> QED
    BY <2>1, <2>2, <2>3, <2>4 DEF Teardown
<1> QED
  BY <1>2 DEF LoneInv, Lone

-----------------------------------------------------------------------------
(* What the radio and the network do.                                      *)

\* A number is known once its login has arrived, which is then gone.
Admits ==
    \A n \in tokens' : n \in tokens \/ \E m \in net : /\ m.kind = "login" /\ m.id[1] = n
                                                      /\ \A o \in net' : o.kind = "login" => o.id[1] # n
\* A new answer names the identity of its request, or of the session.
Replied(o) ==
    /\ o.kind \notin {"login", "stream", "renewal"}
    /\ \/ o.kind # "welcome" /\ (\/ o.id = Id(session)
                                 \/ \E m \in net : m.id = o.id /\ m.kind # "welcome")
       \/ o.kind = "welcome" /\ \E m \in net : /\ m.kind = "login" /\ m.p = o.p /\ o.id = Id(m.id[1])
                                               /\ \A x \in net' : x.kind = "login" => x.id[1] # m.id[1]
    /\ o.kind = "refused" => Void(o.id, tokens', net')
    /\ o.kind \in {"renewed", "refused"} =>
          \E m \in net : m.kind = "renewal" /\ m.p = o.p /\ m.seq = o.seq /\ m.id = o.id
\* The streams change hands only for a request.
Handed == session' \in {0, session} \/ \E m \in net : m.kind = "stream" /\ m.id = Id(session')

LEMMA LoneElsewhere ==
    ASSUME TypeInv, TypeInv', Lone, LoneInv, UNCHANGED <<h, journal>>, Admits, Handed,
           \A o \in net' : o \in net \/ Replied(o)
    PROVE  LoneInv'
<1>1. SUFFICES ASSUME NEW p \in Procs, h[p].phase \in Awake
               PROVE  /\ LoginsApart(p)' /\ Untaken(p)' /\ Overtaken(p)' /\ RefusedVoid'
                      /\ RenewalsTraced(p)' /\ AskedFor(h[p], tokens', net') /\ Plain(h[p])
                      /\ Retirable(p)'
  BY DEF LoneInv
<1>2. /\ LoginsApart(p) /\ Untaken(p) /\ Overtaken(p) /\ RefusedVoid /\ RenewalsTraced(p)
      /\ AskedFor(h[p], tokens, net) /\ Plain(h[p]) /\ Retirable(p)
  BY <1>1 DEF LoneInv
<1>3. /\ Sound(h[p], Len(names)) /\ Numbered(h[p])
      /\ \A m \in net : m.kind = "login" => m.id[1] # 0
      /\ 0 \notin tokens /\ 0 \notin tokens' /\ session \in tokens \cup {0}
  BY DEF TypeInv, HandlersSound, MailSound, Carried, RadioSound
<1>4. h[p].id = <<h[p].id[1], h[p].id[2]>>
  BY <1>3 DEF Sound, Ids
<1>5. \A m \in net' : m.kind \in {"login", "stream"} => m \in net
  BY DEF Replied
<1>6. ASSUME NEW id, Void(id, tokens, net)
      PROVE  Void(id, tokens', net')
  BY <1>5, <1>6 DEF Void, Admits
<1>7. ASSUME NEW n, NEW k, Id(n) = Id(k)
      PROVE  n = k
  BY <1>7 DEF Id
<1>8. LoginsApart(p)'
  <2> SUFFICES ASSUME NEW m \in net', m.kind = "login"
               PROVE  /\ m.id[1] \notin tokens' /\ h[p].id # Id(m.id[1])
                      /\ \A o \in net' : /\ o.id # Id(m.id[1])
                                         /\ o.kind = "login" /\ o.id[1] = m.id[1] => o = m
    BY DEF LoginsApart
  <2>1. m \in net
    BY <1>5
  <2>2. /\ m.id[1] \notin tokens /\ m.id[1] # 0 /\ h[p].id # Id(m.id[1])
        /\ \A o \in net : /\ o.id # Id(m.id[1])
                          /\ o.kind = "login" /\ o.id[1] = m.id[1] => o = m
    BY <1>2, <1>3, <2>1 DEF LoginsApart
  <2>3. m.id[1] \notin tokens'
    BY <2>2 DEF Admits
  <2>4. ASSUME NEW o \in net', o \notin net
        PROVE  o.id # Id(m.id[1]) /\ o.kind # "login"
    <3>1. Replied(o)
      BY <2>4
    <3>2. session # m.id[1]
      BY <1>3, <2>2
    <3>3. CASE o.kind # "welcome"
      BY <1>7, <2>2, <3>1, <3>2, <3>3 DEF Replied
    <3>4. CASE o.kind = "welcome"
      BY <1>7, <3>1, <3>4 DEF Replied
    <3> QED
      BY <3>3, <3>4
  <2> QED
    BY <2>2, <2>3, <2>4
<1>9. Untaken(p)'
  <2> DEFINE n == h[p].login.id[1]
  <2> SUFFICES ASSUME h[p].login.pending
               PROVE  /\ h[p].id # Id(n) /\ session' # n
                      /\ \A m \in net' : m.id = Id(n) => m.kind = "welcome"
    BY DEF Untaken
  <2>1. /\ h[p].id # Id(n) /\ session # n /\ n # 0
        /\ \A m \in net : m.id = Id(n) => m.kind = "welcome"
    BY <1>2, <1>3 DEF Untaken, Numbered
  <2> HIDE DEF n
  <2>2. session' # n
    BY <2>1 DEF Handed
  <2>3. ASSUME NEW o \in net', o \notin net, o.id = Id(n)
        PROVE  o.kind = "welcome"
    BY <1>7, <2>1, <2>3 DEF Replied
  <2> QED
    BY <2>1, <2>2, <2>3
<1>10. Overtaken(p)'
  <2> SUFFICES ASSUME h[p].login.pending, h[p].gotAuth \/ h[p].renewal.pending, NEW m \in net',
                      m.p = p, m.kind \in {"login", "welcome"}
               PROVE  FALSE
    BY DEF Overtaken
  <2> QED
    BY <1>2 DEF Overtaken, Replied
<1>11. RefusedVoid'
  <2> SUFFICES ASSUME NEW m \in net', m.kind = "refused"
               PROVE  Void(m.id, tokens', net')
    BY DEF RefusedVoid
  <2> QED
    BY <1>2, <1>6 DEF RefusedVoid, Replied
<1>12. RenewalsTraced(p)'
  <2> SUFFICES ASSUME NEW m \in net', m.p = p, m.kind \in {"renewal", "renewed", "refused"}
               PROVE  m.seq < h[p].seq /\ (m.seq = h[p].renewal.seq => m.id = h[p].renewal.id)
    BY DEF RenewalsTraced
  <2> QED
    BY <1>2 DEF RenewalsTraced, Replied
<1>13. AskedFor(h[p], tokens', net')
  BY <1>2, <1>6 DEF AskedFor
<1>14. Retirable(p)'
  <2> SUFFICES ASSUME h[p].owned, ~Noted(journal, p, h[p].id), ~Void(h[p].id, tokens, net)
               PROVE  Void(h[p].id, tokens', net') \/ Unasked(h[p], session', net')
    BY <1>6 DEF Retirable
  <2>1. ~h[p].gotAuth /\ session # h[p].id[1] /\ \A m \in net : m.kind = "stream" => m.id # h[p].id
    BY <1>2 DEF Retirable, Unasked
  <2>2. CASE session' # h[p].id[1]
    BY <1>5, <2>1, <2>2 DEF Unasked
  <2>3. CASE h[p].id[1] = 0
    BY <1>3, <1>5, <2>3 DEF Void
  <2>4. CASE session' = h[p].id[1] /\ h[p].id[1] # 0
    <3>1. h[p].id # Id(session')
      BY <2>1, <2>4 DEF Handed
    <3> QED
      BY <1>4, <2>4, <3>1 DEF Void, Id
  <2> QED
    BY <2>2, <2>3, <2>4
<1> QED
  BY <1>2, <1>8, <1>9, <1>10, <1>11, <1>12, <1>13, <1>14

\* Nothing new is on its way, and no login is admitted.
LEMMA LoneLess ==
    ASSUME TypeInv, TypeInv', Lone, LoneInv, UNCHANGED <<h, journal>>,
           net' \subseteq net, tokens' \subseteq tokens, session' \in {0, session}
    PROVE  LoneInv'
<1>1. Admits /\ Handed /\ \A o \in net' : o \in net
  BY DEF Admits, Handed
<1> QED
  BY <1>1, LoneElsewhere

\* An answer that names what its request named.
LEMMA LoneAnswered ==
    ASSUME TypeInv, TypeInv', Lone, LoneInv, NEW m \in net, NEW replies, Answer(m, replies),
           m.kind \in {"removal", "stream"}, tokens' \subseteq tokens, Handed,
           \A d \in replies : d.id = m.id /\ d.kind \in {"removed", "grant", "advert", "rejected"}
    PROVE  LoneInv'
<1>1. UNCHANGED <<h, journal>> /\ \A o \in net' : o \in net \/ o \in replies
  BY DEF Answer
<1>2. Admits
  BY DEF Admits
<1>3. ASSUME NEW o \in replies PROVE Replied(o)
  <2>1. o.id = m.id /\ m.kind # "welcome"
    OBVIOUS
  <2>2. o.kind \in {"removed", "grant", "advert", "rejected"}
    OBVIOUS
  <2> QED
    BY <2>1, <2>2 DEF Replied
<1> QED
  BY <1>1, <1>2, <1>3, LoneElsewhere

LEMMA RadioLoginLone ==
    ASSUME TypeInv, TypeInv', Lone, LoneInv, NEW m \in net, RadioLogin(m)
    PROVE  LoneInv'
<1> DEFINE w == Msg("welcome", m.p, m.seq, Id(m.id[1]))
           d == Msg("denied", m.p, m.seq, m.id)
<1>1. /\ m.kind = "login" /\ session' = session /\ UNCHANGED <<h, journal>> /\ Handed
      /\ \/ tokens' = tokens \cup {m.id[1]} /\ Answer(m, {w})
         \/ tokens' = tokens /\ Answer(m, {d})
  BY DEF RadioLogin, Sent, Answer, Handed
<1>2. CASE \A p \in Procs : h[p].phase \notin Awake
  BY <1>1, <1>2 DEF LoneInv
<1>3. CASE \E p \in Procs : h[p].phase \in Awake
  <2>1. \A o \in net : o.kind = "login" /\ o.id[1] = m.id[1] => o = m
    BY <1>1, <1>3 DEF LoneInv, LoginsApart
  <2>2. /\ w.kind = "welcome" /\ w.p = m.p /\ w.id = Id(m.id[1])
        /\ d.kind = "denied" /\ d.id = m.id
    BY DEF Msg
  <2> HIDE DEF w, d
  <2>3. CASE tokens' = tokens \cup {m.id[1]} /\ Answer(m, {w})
    <3>1. \A o \in net' : o = w \/ o \in net \ {m}
      BY <2>3 DEF Answer
    <3>2. \A o \in net' : o.kind = "login" => o.id[1] # m.id[1]
      BY <2>1, <2>2, <3>1
    <3>3. Admits
      BY <1>1, <2>3, <3>2 DEF Admits
    <3>4. Replied(w)
      BY <1>1, <2>2, <3>2 DEF Replied
    <3> QED
      BY <1>1, <3>1, <3>3, <3>4, LoneElsewhere
  <2>4. CASE tokens' = tokens /\ Answer(m, {d})
    <3>1. \A o \in net' : o = d \/ o \in net
      BY <2>4 DEF Answer
    <3>2. Admits
      BY <2>4 DEF Admits
    <3>3. Replied(d)
      BY <1>1, <2>2 DEF Replied
    <3> QED
      BY <1>1, <3>1, <3>2, <3>3, LoneElsewhere
  <2> QED
    BY <1>1, <2>3, <2>4
<1> QED
  BY <1>2, <1>3

\* A refused renewal names an identity that the radio will not know again.
LEMMA RadioRenewsLone ==
    ASSUME TypeInv, TypeInv', Lone, LoneInv, "reissue" \notin RadioMay, NEW m \in net,
           RadioRenews(m)
    PROVE  LoneInv'
<1> DEFINE y == Msg("renewed", m.p, m.seq, m.id)
           n == Msg("refused", m.p, m.seq, m.id)
<1>1. /\ m.kind = "renewal" /\ tokens' = tokens /\ session' = session
      /\ \/ Answer(m, {y})
         \/ ~Authentic(m) /\ Answer(m, {n})
  BY DEF RadioRenews, Sent, radio
<1>2. UNCHANGED <<h, journal>>
  BY <1>1 DEF Answer
<1>3. Admits /\ Handed
  BY <1>1 DEF Admits, Handed
<1>4. CASE \A p \in Procs : h[p].phase \notin Awake
  BY <1>2, <1>4 DEF LoneInv
<1>5. CASE \E p \in Procs : h[p].phase \in Awake
  <2>1. \A o \in net : o.kind = "login" => m.id # Id(o.id[1])
    BY <1>5 DEF LoneInv, LoginsApart
  <2>2. /\ y.kind = "renewed" /\ y.p = m.p /\ y.seq = m.seq /\ y.id = m.id
        /\ n.kind = "refused" /\ n.p = m.p /\ n.seq = m.seq /\ n.id = m.id
    BY DEF Msg
  <2> HIDE DEF y, n
  <2>3. CASE Answer(m, {y})
    <3>1. Replied(y)
      BY <1>1, <2>2 DEF Replied
    <3>2. \A o \in net' : o = y \/ o \in net
      BY <2>3 DEF Answer
    <3> QED
      BY <1>2, <1>3, <3>1, <3>2, LoneElsewhere
  <2>4. CASE ~Authentic(m) /\ Answer(m, {n})
    <3>1. \A o \in net' : o = n \/ o \in net
      BY <2>4 DEF Answer
    <3>2. Void(m.id, tokens', net')
      <4>1. m.id = <<m.id[1], m.id[2]>>
        BY DEF TypeInv, MailSound, Mail, Ids
      <4>2. ASSUME m.id[1] = m.id[2], NEW o \in net', o.kind = "login"
            PROVE  o.id[1] # m.id[1]
        <5>1. o \in net
          BY <2>2, <3>1, <4>2
        <5>2. m.id # Id(o.id[1])
          BY <2>1, <4>2, <5>1
        <5> QED
          BY <4>1, <4>2, <5>2 DEF Id
      <4>3. m.id[1] = m.id[2] => m.id[1] \notin tokens'
        BY <1>1, <2>4 DEF Authentic
      <4> QED
        BY <4>2, <4>3 DEF Void
    <3>3. Replied(n)
      BY <1>1, <2>2, <3>2 DEF Replied
    <3> QED
      BY <1>2, <1>3, <3>1, <3>3, LoneElsewhere
  <2> QED
    BY <1>1, <2>3, <2>4
<1> QED
  BY <1>4, <1>5

LEMMA RadioRepliesLone ==
    ASSUME TypeInv, TypeInv', Lone, LoneInv, NEW m \in net,
           RadioRemoves(m) \/ RadioGrants(m) \/ RadioRejects(m)
    PROVE  LoneInv'
<1> DEFINE M(kind) == Msg(kind, m.p, m.seq, m.id)
<1>1. \A k \in {"removed", "grant", "advert", "rejected"} : M(k).id = m.id /\ M(k).kind = k
  BY DEF Msg
<1> HIDE DEF M
<1>2. CASE RadioRemoves(m)
  <2>1. /\ m.kind = "removal" /\ Answer(m, {M("removed")}) /\ tokens' \subseteq tokens
        /\ session' \in {0, session}
    BY <1>2 DEF RadioRemoves, Sent, M
  <2> QED
    BY <1>1, <2>1, LoneAnswered DEF Handed
<1>3. CASE RadioGrants(m)
  <2>1. /\ m.kind = "stream" /\ Answer(m, {M("grant"), M("advert")}) /\ tokens' = tokens
        /\ session' = m.id[1] /\ m.id[1] = m.id[2]
    BY <1>3 DEF RadioGrants, Sent, Authentic, M
  <2>2. m.id = <<m.id[1], m.id[2]>>
    BY DEF TypeInv, MailSound, Mail, Ids
  <2>3. Handed
    BY <2>1, <2>2 DEF Handed, Id
  <2> QED
    BY <1>1, <2>1, <2>3, LoneAnswered
<1>4. CASE RadioRejects(m)
  <2>1. /\ m.kind = "stream" /\ Answer(m, {M("rejected")}) /\ tokens' = tokens
        /\ session' = session
    BY <1>4 DEF RadioRejects, Sent, M, radio
  <2> QED
    BY <1>1, <2>1, LoneAnswered DEF Handed
<1> QED
  BY <1>2, <1>3, <1>4

\* The radio's own messages name the session, or nothing.
LEMMA RadioSaysLone ==
    ASSUME TypeInv, TypeInv', Lone, LoneInv,
           RadioEnds \/ \E p \in Procs : RadioAdvertises(p)
    PROVE  LoneInv'
<1>1. \E k \in {"ended", "free", "foreign", "busy"}, p \in Procs \cup {NoProc} :
         net' \subseteq net \cup {Msg(k, p, 0, Id(session))}
  <2>1. CASE RadioEnds
    <3>1. net' \subseteq net \cup {Msg("ended", names[session], 0, Id(session))}
      BY <2>1 DEF RadioEnds
    <3>2. names[session] \in Procs
      <4>1. names \in Seq(Procs) /\ session \in 1 .. Len(names)
        BY <2>1 DEF RadioEnds, TypeInv, RadioSound
      <4> QED
        BY <4>1
    <3> QED
      BY <3>1, <3>2
  <2>2. CASE \E p \in Procs : RadioAdvertises(p)
    BY <2>2 DEF RadioAdvertises
  <2> QED
    BY <2>1, <2>2
<1>2. PICK k \in {"ended", "free", "foreign", "busy"}, p \in Procs \cup {NoProc} :
         net' \subseteq net \cup {Msg(k, p, 0, Id(session))}
  BY <1>1
<1>3. UNCHANGED <<h, journal, tokens>> /\ session' \in {0, session}
  BY DEF RadioEnds, RadioAdvertises, radio
<1>4. Admits /\ Handed
  BY <1>3 DEF Admits, Handed
<1>5. ASSUME NEW o \in net', o \notin net
      PROVE  Replied(o)
  <2>1. o.kind = k /\ o.id = Id(session)
    BY <1>2, <1>5 DEF Msg
  <2> QED
    BY <2>1 DEF Replied
<1> QED
  BY <1>3, <1>4, <1>5, LoneElsewhere

LEMMA SurroundingsLone ==
    ASSUME TypeInv, TypeInv', Lone, LoneInv,
           \/ UNCHANGED vars
           \/ Environment
           \/ \E p \in Procs : RadioAdvertises(p)
           \/ \E m \in net : Ignored(m) \/ Lose(m) \/ RadioSeesDeparture(m)
    PROVE  LoneInv'
<1>1. CASE RadioEnds \/ \E p \in Procs : RadioAdvertises(p)
  BY <1>1, RadioSaysLone
<1>2. CASE \E m \in net : RadioSeesDeparture(m)
  <2>1. UNCHANGED <<h, journal, tokens>> /\ net' \subseteq net /\ session' \in {0, session}
    BY <1>2 DEF RadioSeesDeparture, Answer
  <2> QED
    BY <2>1, LoneLess
<1>3. CASE RadioForgets
  <2>1. UNCHANGED <<h, journal, net>> /\ tokens' \subseteq tokens /\ session' \in {0, session}
    BY <1>3 DEF RadioForgets
  <2> QED
    BY <2>1, LoneLess
<1>4. CASE UNCHANGED vars \/ ForeignTakes \/ ForeignLeaves \/ \E m \in net : Ignored(m) \/ Lose(m)
  <2>1. UNCHANGED <<h, journal, tokens, session>> /\ net' \subseteq net
    BY <1>4 DEF vars, radio, ForeignTakes, ForeignLeaves, Ignored, Lose
  <2> QED
    BY <2>1, LoneLess
<1> QED
  BY <1>1, <1>2, <1>3, <1>4 DEF Environment

LEMMA ArrivalLone ==
    ASSUME TypeInv, TypeInv', SessionAssumption, OwnInv, Lone, LoneInv, NEW m \in net, Arrival(m)
    PROVE  LoneInv'
<1>1. CASE LoginResponse(m) \/ LoginDenied(m) \/ TokenRenewed(m) \/ TokenRefused(m)
  BY <1>1, LoginResponseLone, LoginDeniedLone, TokenRenewedLone, TokenRefusedLone, Zenon
<1>2. CASE StreamGranted(m) \/ StreamRejected(m) \/ GrantAdvertised(m)
  BY <1>2, StreamGrantedLone, StreamRejectedLone, GrantAdvertisedLone, Zenon
<1>3. CASE \/ InfoIgnored(m) \/ BusyBySelf(m) \/ BusyByForeign(m) \/ BusyBySibling(m)
           \/ RadioAvailable(m)
  BY <1>3, StatusLone, RadioAvailableLone, Zenon
<1>4. CASE RemovalAcknowledged(m) \/ SessionEnded(m)
  BY <1>4, EndLone
<1>5. CASE Ignored(m)
  BY <1>5, SurroundingsLone
<1> QED
  BY <1>1, <1>2, <1>3, <1>4, <1>5, Zenon DEF Arrival

LEMMA AtRadioLone ==
    ASSUME TypeInv, TypeInv', Lone, LoneInv, "reissue" \notin RadioMay, NEW m \in net, AtRadio(m)
    PROVE  LoneInv'
<1>1. CASE RadioSeesDeparture(m)
  BY <1>1, SurroundingsLone
<1> QED
  BY <1>1, RadioLoginLone, RadioRenewsLone, RadioRepliesLone, Zenon DEF AtRadio

LEMMA InitLone == ASSUME Init PROVE LoneInv
<1>1. Handler("off").phase = "off"
  BY DEF Handler
<1> QED
  BY <1>1 DEF Init, LoneInv, Awake

LEMMA StepLone ==
    ASSUME TypeInv, SessionAssumption, OwnInv, Lone, "reissue" \notin RadioMay, LoneInv,
           [Next]_vars, [Calm]_vars
    PROVE  LoneInv'
<1>1. TypeInv'
  BY StepTyped
<1>2. CASE UNCHANGED vars
  BY <1>1, <1>2, SurroundingsLone
<1>3. CASE Calm /\ Next
  <2>1. ASSUME NEW p \in Procs,
               Connect(p) \/ Shutdown(p) \/ Crash(p) \/ Teardown(p) \/ Timers(p)
        PROVE  LoneInv'
    <3>1. CASE Connect(p) BY <3>1, ConnectLone
    <3>2. CASE Shutdown(p) \/ Teardown(p) \/ Crash(p) BY <3>2, ClosingLone
    <3>3. CASE TransportReady(p) BY <1>1, <3>3, TransportReadyLone
    <3>4. CASE MediaReady(p) BY <1>1, <3>4, MediaReadyLone
    <3>5. CASE RenewalDue(p) BY <1>1, <1>3, <3>5, RenewalDueLone
    <3>6. ~PredecessorRetry(p) /\ ~LoginAgain(p)
      <4>1. SUFFICES ASSUME h[p].phase = "up"
                     PROVE  h[p].pred = NoProc /\ ~h[p].relogin
        BY DEF PredecessorRetry, LoginAgain
      <4>2. h[p].phase \in Awake
        BY <4>1 DEF Awake
      <4>3. Plain(h[p])
        BY <4>2 DEF LoneInv
      <4>4. h[p].pred = NoProc
        BY <4>1, LoneUnrecovered
      <4> QED
        BY <4>3, <4>4 DEF Plain
    <3> QED
      BY <2>1, <3>1, <3>2, <3>3, <3>4, <3>5, <3>6, Zenon DEF Timers
  <2>2. CASE \E p \in Procs : RadioAdvertises(p)
    BY <1>1, <2>2, SurroundingsLone
  <2>3. ASSUME NEW m \in net, Arrival(m) \/ AtRadio(m) \/ Lose(m)
        PROVE  LoneInv'
    BY <1>1, <2>3, ArrivalLone, AtRadioLone, SurroundingsLone
  <2>4. CASE Environment
    BY <1>1, <2>4, SurroundingsLone
  <2> QED
    BY <1>3, <2>1, <2>2, <2>3, <2>4, Zenon DEF Next
<1> QED
  BY <1>2, <1>3, Zenon

LEMMA LoneSafe == ASSUME TypeInv, LoneInv PROVE JournalCoversSession
<1> SUFFICES ASSUME NEW p \in Procs, h[p].phase = "up", h[p].owned, session # 0,
                    h[p].id = Id(session)
             PROVE  \E j \in journal : j.owner = p /\ j.id = Id(session)
  BY DEF JournalCoversSession
<1>1. Retirable(p)
  BY DEF LoneInv, Awake
<1>2. h[p].id[1] = session /\ h[p].id[2] = session
  BY DEF Id
<1>3. session \in tokens
  BY DEF TypeInv, RadioSound
<1> QED
  BY <1>1, <1>2, <1>3 DEF Retirable, Noted, Void, Unasked

\* With one process, and a radio that may end sessions, forget tokens and deny
\* logins, but does not reissue a token of its own accord: a process that holds
\* the streams has that very session in its journal, so that a crash leaves a
\* record with which the next process can retire it.  The hypothesis is about
\* time: no renewal falls due while a login or its answer is on its way.
THEOREM LoneJournalCovers ==
    ASSUME SessionAssumption, Lone, "reissue" \notin RadioMay
    PROVE  Spec /\ RenewalsApart => []JournalCoversSession
<1> DEFINE Inv == TypeInv /\ OwnInv /\ LoneInv
<1>1. Init => Inv
  BY InitTyped, InitOwned, InitLone
<1>2. Inv /\ [Next]_vars /\ [Calm]_vars => Inv'
  BY StepTyped, StepOwned, StepLone
<1>3. Inv => JournalCoversSession
  BY LoneSafe
<1> QED
  BY <1>1, <1>2, <1>3, PTL DEF Spec, RenewalsApart

-----------------------------------------------------------------------------
(* The journal gives up the record of a session only when the radio has    *)
(* ended that session.                                                     *)

\* No rejected stream request has made a handler start over.
Unreset == \A p \in Procs : ~h[p].resetTried

\* The streams are neither held nor asked for under the n-th identity.
Unheld(n) == n # 0 /\ session # n /\ \A m \in net : m.kind = "stream" => m.id # Id(n)

\* An identity that was granted the streams.
Claimed(id) == id = Id(id[1]) /\ id[1] \in granted

\* A login on its way brings a number that is new to the radio, removals name
\* what was granted, a confirmed one retired it, and a session that has ended
\* was one of the process that hears of it.
Posted(m) ==
    /\ m.kind = "login" => /\ m.id[1] \notin tokens \cup granted
                           /\ \A o \in net : o.kind = "login" /\ o.id[1] = m.id[1] => o = m
    /\ m.kind \in {"removal", "removed"} => Claimed(m.id)
    /\ m.kind = "removed" => m.id[1] \notin tokens
    /\ m.kind = "ended" => m.seq = 0 /\ m.id[1] \in 1 .. Len(names) /\ m.p = names[m.id[1]]

\* A removal is of the handler's identity, and no other is pending when the
\* shutdown begins; once it is confirmed the radio does not know the token.
Removing(s) ==
    /\ ~s.relogin
    /\ s.phase = "up" /\ s.removal.pending => ~s.authed /\ ~s.login.pending
    /\ s.phase = "settling" => ~s.removal.pending /\ ~s.ack
    /\ s.pred # NoProc \/ (s.phase = "removing" /\ s.removal.pending) => s.removal.id = s.id
Confirmed(s) ==
    /\ s.phase = "removing" /\ s.ack => s.id[1] \notin tokens
    /\ s.pred # NoProc => Claimed(s.id) /\ \A j \in journal : j.owner = s.pred => j.id = s.id
RemovedOwn(p) ==
    \A m \in net : m.kind = "removed" /\ m.p = p /\ m.seq = h[p].removal.seq
        => m.id = h[p].removal.id

\* A handler without streams that asks for none holds none; and none that has
\* ended is asked for again.
Idling(s) == s.phase = "up" /\ s.authed /\ ~s.opened /\ ~s.stream.pending /\ ~s.reported
Holding(s) ==
    /\ s.phase = "removing" /\ s.disc => Unheld(s.id[1])
    /\ Idling(s) => Unheld(s.id[1])
    /\ s.login.pending => /\ Unheld(s.login.id[1])
                          /\ \A m \in net : m.kind = "ended" => m.id # Id(s.login.id[1])
EndedFinally(p) ==
    \A m \in net : m.kind = "ended" /\ m.p = p /\ m.id = h[p].id /\ h[p].authed =>
        Unheld(m.id[1]) /\ (h[p].phase = "up" => h[p].opened \/ h[p].reported)

HeldInv ==
    /\ \A m \in net : Posted(m)
    /\ \A j \in journal : Claimed(j.id)
    /\ \A p \in Procs : Open(p) =>
          /\ Removing(h[p]) /\ Confirmed(h[p]) /\ RemovedOwn(p)
          /\ Holding(h[p]) /\ EndedFinally(p)

\* A record t that a step of the handler of p may leave.
Upholds(p, t) ==
    /\ Removing(t)
    /\ "removal" \in Fresh(p, t) => Claimed(t.removal.id)
    /\ t.phase = "removing" /\ t.ack => t.id[1] \notin tokens
    /\ t.pred # NoProc => Claimed(t.id) /\ \A j \in journal' : j.owner = t.pred => j.id = t.id
    /\ \/ t.removal.seq = h[p].removal.seq /\ t.removal.id = h[p].removal.id
       \/ t.removal.seq >= h[p].seq
    /\ t.phase = "removing" => "stream" \notin Fresh(p, t) /\ (t.disc => Unheld(t.id[1]))
    /\ Idling(t) => Unheld(t.id[1])
    /\ IF "login" \in Fresh(p, t)
       THEN t.login.id[1] = Len(names) + 1
       ELSE t.login.pending => h[p].login.pending /\ t.login.id = h[p].login.id
    /\ \A m \in net : m.kind = "ended" /\ m.p = p /\ m.id = t.id /\ t.authed =>
          /\ Unheld(m.id[1]) /\ "stream" \notin Fresh(p, t)
          /\ t.phase = "up" => t.opened \/ t.reported
    /\ t.owned \/ journal' \subseteq journal

\* What else is on its way after a step of p: departures, and a removal again.
Left(p, t, rest) ==
    \A m \in rest : \/ m \in net
                    \/ m.p = NoProc /\ m.kind = "depart"
                    \/ m = Msg("removal", p, t.removal.seq, t.removal.id) /\ t.pred # NoProc

\* What is on its way after a step of p.
Begins(p, t, m) == /\ m.kind \in Fresh(p, t) /\ m.kind \in Kinds
                   /\ m = Msg(m.kind, p, t[m.kind].seq, t[m.kind].id)
                   /\ m.p = p /\ m.id = t[m.kind].id

LEMMA HeldMail ==
    ASSUME NEW p \in Procs, NEW t, NEW rest, Left(p, t, rest), Become(p, t, rest),
           Upholds(p, t), NEW m \in net', m \notin net
    PROVE  \/ m.kind = "depart"
           \/ m.kind = "removal" /\ Claimed(m.id)
           \/ Begins(p, t, m)
<1>1. CASE m \in rest
  <2>1. CASE m = Msg("removal", p, t.removal.seq, t.removal.id) /\ t.pred # NoProc
    <3>1. m.kind = "removal" /\ m.id = t.removal.id
      BY <2>1 DEF Msg
    <3>2. t.removal.id = t.id /\ Claimed(t.id)
      BY <2>1 DEF Upholds, Removing
    <3> QED
      BY <3>1, <3>2
  <2> QED
    BY <1>1, <2>1 DEF Left
<1>2. ASSUME NEW k \in Fresh(p, t), m = Msg(k, p, t[k].seq, t[k].id)
      PROVE  Begins(p, t, m)
  <2>1. m.kind = k /\ m.p = p /\ m.id = t[k].id
    BY <1>2 DEF Msg
  <2> QED
    BY <1>2, <2>1 DEF Fresh, Begins
<1> QED
  BY <1>1, <1>2 DEF Become

LEMMA HeldBecome ==
    ASSUME TypeInv, TypeInv', TurnInv, TurnInv', HeldInv, NEW p \in Procs, Open(p), NEW t,
           NEW rest, Left(p, t, rest), Become(p, t, rest), Upholds(p, t),
           UNCHANGED <<tokens, session, granted>>
    PROVE  HeldInv'
<1> DEFINE o == h[p]
           n == Len(names)
<1>1. h'[p] = t /\ n \in Nat /\ Ordered(t) /\ \A q \in Procs \ {p} : h'[q] = h[q]
  BY OfProcess DEF Become, TurnInv, TypeInv
<1>2. ASSUME NEW m \in net', m \notin net
      PROVE  \/ m.kind = "depart"
             \/ m.kind = "removal" /\ Claimed(m.id)
             \/ Begins(p, t, m)
  BY <1>2, HeldMail
<1>3. \A q \in Procs : Open(q)' => q = p
  <2>1. \A q \in Procs \ {p} : ~Open(q)
    BY DEF TurnInv, Sole
  <2> QED
    BY <1>1, <2>1 DEF Open
<1>4. \A x : Claimed(x) => Claimed(x)'
  BY DEF Claimed
<1>5. /\ tokens \subseteq 1 .. n /\ granted \subseteq 1 .. n /\ session \in 0 .. n
      /\ \A m \in net : m.id[1] \in 0 .. n /\ m.seq \in Nat
  BY DEF TypeInv, RadioSound, MailSound, Mail, Ids
<1>6. \A k \in Fresh(p, t) : t[k].pending /\ k \in Kinds
  BY DEF Fresh
<1>7. \A m \in net' : m.kind \in {"removed", "ended"} => m \in net
  BY <1>2 DEF Begins, Kinds
<1>8. ASSUME NEW x, "stream" \in Fresh(p, t) => t.stream.id # Id(x), Unheld(x)
      PROVE  Unheld(x)'
  <2>1. \A m \in net' : m.kind = "stream" => m \in net \/ m.id # Id(x)
    BY <1>2, <1>8 DEF Begins
  <2> QED
    BY <1>8, <2>1 DEF Unheld
<1>9. ASSUME NEW m \in net' PROVE Posted(m)'
  <2>1. ASSUME m.kind = "login"
        PROVE  /\ m.id[1] \notin tokens \cup granted
               /\ \A d \in net' : d.kind = "login" /\ d.id[1] = m.id[1] => d = m
    <3>1. \A d \in net' : d.kind = "login" /\ d \notin net =>
              "login" \in Fresh(p, t) /\ d = Msg("login", p, t.login.seq, t.login.id)
              /\ d.id = t.login.id
      BY <1>2 DEF Begins
    <3>2. "login" \in Fresh(p, t) => t.login.id[1] = n + 1
      BY DEF Upholds
    <3>3. CASE m \in net
      <4>1. /\ m.id[1] \notin tokens \cup granted
            /\ \A d \in net : d.kind = "login" /\ d.id[1] = m.id[1] => d = m
        BY <2>1, <3>3 DEF HeldInv, Posted
      <4>2. m.id[1] # n + 1
        BY <1>1, <1>5, <3>3
      <4> QED
        BY <3>1, <3>2, <4>1, <4>2
    <3>4. CASE m \notin net
      <4>1. m.id[1] = n + 1 /\ m = Msg("login", p, t.login.seq, t.login.id)
        BY <2>1, <3>1, <3>2, <3>4
      <4>2. \A d \in net : d.id[1] # n + 1
        BY <1>1, <1>5
      <4>3. n + 1 \notin tokens \cup granted
        BY <1>1, <1>5
      <4> QED
        BY <3>1, <4>1, <4>2, <4>3
    <3> QED
      BY <3>3, <3>4
  <2>2. ASSUME m.kind \in {"removal", "removed"} PROVE Claimed(m.id)
    <3>1. CASE m \in net
      BY <2>2, <3>1 DEF HeldInv, Posted
    <3>2. CASE m \notin net
      BY <1>2, <2>2, <3>2 DEF Begins, Upholds, Kinds
    <3> QED
      BY <3>1, <3>2
  <2>3. m.kind = "removed" => m.id[1] \notin tokens
    BY <1>7 DEF HeldInv, Posted
  <2>4. ASSUME m.kind = "ended"
        PROVE  m.seq = 0 /\ m.id[1] \in 1 .. Len(names') /\ m.p = names'[m.id[1]]
    <3>1. m.seq = 0 /\ m.id[1] \in 1 .. n /\ m.p = names[m.id[1]]
      BY <1>7, <2>4 DEF HeldInv, Posted
    <3>2. names' = names \/ names' = Append(names, p)
      BY DEF Become
    <3>3. names \in Seq(Procs)
      BY DEF TypeInv
    <3> QED
      BY <3>1, <3>2, <3>3
  <2> QED
    BY <1>4, <2>1, <2>2, <2>3, <2>4 DEF Posted
<1>10. ASSUME NEW j \in journal' PROVE Claimed(j.id)'
  <2>1. CASE t.owned
    <3>1. Open(p)'
      BY <1>1, <2>1, Zenon DEF Ordered, Idle, Open, SessionAssumption
    <3> QED
      BY <1>1, <2>1, <3>1 DEF TurnInv, Recorded, Covers, Claimed
  <2>2. CASE journal' \subseteq journal
    BY <1>4, <2>2 DEF HeldInv
  <2> QED
    BY <2>1, <2>2 DEF Upholds
<1>11. Removing(t)
  BY DEF Upholds
<1>12. Confirmed(t)'
  BY <1>4 DEF Upholds, Confirmed
<1>13. RemovedOwn(p)'
  <2> SUFFICES ASSUME NEW m \in net', m.kind = "removed", m.p = p, m.seq = t.removal.seq
               PROVE  m.id = t.removal.id
    BY <1>1 DEF RemovedOwn
  <2>1. m \in net /\ m.seq < o.seq /\ m.seq \in Nat /\ o.seq \in Nat
    <3>1. m \in net
      BY <1>7
    <3>2. o.seq \in Nat
      BY Numbers DEF Kinds
    <3> QED
      BY <1>5, <3>1, <3>2 DEF TurnInv, Told, Letters
  <2>2. t.removal.seq = o.removal.seq /\ t.removal.id = o.removal.id
    BY <2>1 DEF Upholds
  <2> QED
    BY <2>1, <2>2 DEF HeldInv, RemovedOwn
<1>14. Holding(t)'
  <2>1. t.phase = "removing" /\ t.disc => Unheld(t.id[1])'
    BY <1>8 DEF Upholds
  <2>2. Idling(t) => Unheld(t.id[1])'
    BY <1>6, <1>8 DEF Upholds, Idling
  <2>3. ASSUME t.login.pending
        PROVE  /\ Unheld(t.login.id[1])'
               /\ \A m \in net' : m.kind = "ended" => m.id # Id(t.login.id[1])
    <3>1. "stream" \notin Fresh(p, t)
      BY <1>1, <1>6, <2>3 DEF Ordered
    <3>2. CASE "login" \in Fresh(p, t)
      <4>1. t.login.id[1] = n + 1
        BY <3>2 DEF Upholds
      <4>2. \A m \in net : m.id # Id(n + 1)
        <5>1. \A m \in net : m.id[1] # n + 1
          BY <1>1, <1>5
        <5>2. Id(n + 1)[1] = n + 1
          BY DEF Id
        <5> QED
          BY <5>1, <5>2
      <4>3. n + 1 # 0 /\ session # n + 1
        BY <1>1, <1>5
      <4>4. Unheld(n + 1)
        BY <4>2, <4>3 DEF Unheld
      <4> QED
        BY <1>7, <1>8, <3>1, <4>1, <4>2, <4>4
    <3>3. CASE "login" \notin Fresh(p, t)
      <4>1. o.login.pending /\ t.login.id = o.login.id
        BY <2>3, <3>3 DEF Upholds
      <4> QED
        BY <1>7, <1>8, <3>1, <4>1 DEF HeldInv, Holding
    <3> QED
      BY <3>2, <3>3
  <2> QED
    BY <2>1, <2>2, <2>3 DEF Holding, Idling
<1>15. EndedFinally(p)'
  <2> SUFFICES ASSUME NEW m \in net', m.kind = "ended", m.p = p, m.id = t.id, t.authed
               PROVE  Unheld(m.id[1])' /\ (t.phase = "up" => t.opened \/ t.reported)
    BY <1>1 DEF EndedFinally
  <2>1. /\ Unheld(m.id[1]) /\ "stream" \notin Fresh(p, t)
        /\ t.phase = "up" => t.opened \/ t.reported
    BY <1>7 DEF Upholds
  <2> QED
    BY <1>8, <2>1
<1>16. Confirmed(h[p])' /\ Holding(h[p])' /\ Removing(h'[p])
  BY <1>1, <1>11, <1>12, <1>14 DEF Confirmed, Holding, Unheld
<1> QED
  BY <1>3, <1>9, <1>10, <1>13, <1>15, <1>16 DEF HeldInv

\* A reply that is acted on.
LEMMA HeldReceived ==
    ASSUME TypeInv, TypeInv', TurnInv, TurnInv', HeldInv, NEW m \in net, Open(m.p), NEW t,
           Receive(m, t), Upholds(m.p, t), UNCHANGED <<tokens, session, granted>>
    PROVE  HeldInv'
<1>1. m.p \in Procs
  BY Addressed
<1>2. PICK rest : rest \subseteq net /\ Become(m.p, t, rest)
  BY DEF Receive
<1>3. Left(m.p, t, rest)
  BY <1>2 DEF Left
<1> QED
  BY <1>1, <1>2, <1>3, HeldBecome

\* Requests that the invariant is about.
Weighty == {"login", "removal", "stream"}

\* A step that begins none of them and keeps the identity.
LEMMA HeldStays ==
    ASSUME HeldInv, NEW p \in Procs, Open(p), NEW t,
           t.phase = h[p].phase, t.id = h[p].id, t.authed = h[p].authed,
           t.relogin = h[p].relogin, t.pred \in {h[p].pred, NoProc},
           \A k \in Weighty : /\ t[k].seq = h[p][k].seq /\ t[k].id = h[p][k].id
                              /\ t[k].pending => h[p][k].pending,
           h[p].phase = "up" /\ (h[p].opened \/ h[p].reported) => t.opened \/ t.reported,
           t.stream.pending = h[p].stream.pending \/ t.opened \/ t.reported,
           t.ack => \/ h[p].ack
                    \/ h[p].phase = "up"
                    \/ h[p].phase = "removing" /\ h[p].id[1] \notin tokens,
           t.disc => h[p].disc \/ h[p].phase # "removing" \/ Unheld(h[p].id[1]),
           journal' \subseteq journal \/ (t.owned /\ t.pred = NoProc)
    PROVE  Upholds(p, t)
<1> DEFINE o == h[p]
<1>1. /\ Removing(o) /\ Confirmed(o) /\ RemovedOwn(p) /\ Holding(o) /\ EndedFinally(p)
  BY DEF HeldInv
<1>2. /\ t.removal.seq = o.removal.seq /\ t.removal.id = o.removal.id
      /\ t.login.seq = o.login.seq /\ t.login.id = o.login.id
      /\ t.stream.seq = o.stream.seq
      /\ (t.removal.pending => o.removal.pending) /\ (t.login.pending => o.login.pending)
  BY DEF Weighty
<1>3. "login" \notin Fresh(p, t) /\ "removal" \notin Fresh(p, t) /\ "stream" \notin Fresh(p, t)
  BY <1>2 DEF Fresh
<1>4. Removing(t)
  BY <1>1, <1>2 DEF Removing
<1>5. t.phase = "removing" /\ t.ack => t.id[1] \notin tokens
  BY <1>1 DEF Confirmed
<1>6. t.pred # NoProc => Claimed(t.id) /\ \A j \in journal' : j.owner = t.pred => j.id = t.id
  BY <1>1 DEF Confirmed
<1>7. t.phase = "removing" /\ t.disc => Unheld(t.id[1])
  BY <1>1 DEF Holding
<1>8. Idling(t) => Unheld(t.id[1])
  BY <1>1 DEF Holding, Idling
<1>9. \A m \in net : m.kind = "ended" /\ m.p = p /\ m.id = t.id /\ t.authed =>
          Unheld(m.id[1]) /\ (t.phase = "up" => t.opened \/ t.reported)
  BY <1>1 DEF EndedFinally
<1> QED
  BY <1>2, <1>3, <1>4, <1>5, <1>6, <1>7, <1>8, <1>9 DEF Upholds

\* What HeldStays looks at, as long as no reply of a removal is concerned.
Watched == {"phase", "id", "authed", "relogin", "ack", "disc", "opened"}

LEMMA HeldIdles ==
    ASSUME HeldInv, NEW p \in Procs, Open(p), NEW t, \A f \in Watched : t[f] = h[p][f],
           \A k \in Weighty : /\ t[k].seq = h[p][k].seq /\ t[k].id = h[p][k].id
                              /\ t[k].pending => h[p][k].pending,
           t.pred \in {h[p].pred, NoProc}, h[p].reported => t.reported,
           t.stream.pending = h[p].stream.pending \/ t.reported,
           UNCHANGED journal \/ (t.owned /\ t.pred = NoProc)
    PROVE  Upholds(p, t)
<1>1. /\ t.phase = h[p].phase /\ t.id = h[p].id /\ t.authed = h[p].authed
      /\ t.relogin = h[p].relogin /\ t.ack = h[p].ack /\ t.disc = h[p].disc
      /\ t.opened = h[p].opened
  BY DEF Watched
<1> QED
  BY <1>1, HeldStays

LEMMA LoginDeniedHeld ==
    ASSUME TypeInv, TypeInv', TurnInv, TurnInv', HeldInv, NEW m \in net, LoginDenied(m)
    PROVE  HeldInv'
<1> DEFINE o == h[m.p]
           c == Cleared(o, {"login"})
           t == [c EXCEPT !.reported = TRUE]
<1>1. Open(m.p) /\ Receive(m, t) /\ UNCHANGED <<journal, tokens, session, granted>>
  BY DEF LoginDenied, Arrives, radio
<1>2. Sound(o, Len(names)) /\ Len(names) \in Nat /\ m.p \in Procs
  BY <1>1, Addressed
<1>3. /\ DOMAIN c = Fields /\ \A f \in Fields \ Kinds : c[f] = o[f]
      /\ \A k \in Kinds : /\ c[k].seq = o[k].seq /\ c[k].id = o[k].id
                          /\ c[k].pending => o[k].pending
  BY <1>2, ClearedAsks, ClearedLeaves DEF Kinds
<1> HIDE DEF c
<1>4. /\ (\A f \in Watched : t[f] = o[f]) /\ (\A k \in Kinds : t[k] = c[k])
      /\ t.pred = o.pred /\ t.reported = TRUE
  BY <1>3 DEF Watched, Fields, Flags, Kinds
<1> HIDE DEF t
<1>5. Weighty \subseteq Kinds
  BY DEF Weighty, Kinds
<1>6. Upholds(m.p, t)
  BY <1>1, <1>2, <1>3, <1>4, <1>5, HeldIdles
<1> QED
  BY <1>1, <1>6, HeldReceived

\* With a predecessor to recover or without, a status is taken note of or
\* reported.
LEMMA StatusHeard ==
    ASSUME TypeInv, OwnInv, TurnInv, NEW m \in net,
           InfoIgnored(m) \/ BusyBySelf(m) \/ BusyByForeign(m) \/ BusyBySibling(m)
    PROVE  Receive(m, h[m.p]) \/ Receive(m, [h[m.p] EXCEPT !.reported = TRUE])
<1> DEFINE o == h[m.p]
           r == [o EXCEPT !.reported = TRUE]
<1>1. CASE InfoIgnored(m) \/ BusyByForeign(m)
  BY <1>1 DEF InfoIgnored, BusyByForeign
<1>2. CASE BusyBySelf(m)
  <2>1. Receive(m, IF o.gotAuth /\ o.stream.pending THEN o ELSE r)
    BY <1>2, Zenon DEF BusyBySelf
  <2> HIDE DEF o, r
  <2>2. Receive(m, o) \/ Receive(m, r)
    BY <2>1
  <2> QED
    BY <2>2 DEF o, r
<1>3. CASE BusyBySibling(m)
  <2> DEFINE known == {j \in Recoverable : j.owner = names[m.id[1]]}
  <2>1. Noticed(m, "busy")
    BY <1>3, Zenon DEF BusyBySibling
  <2>2. o.phase = "up" /\ m.p \in Procs /\ Open(m.p)
    BY <2>1, Noticing, Addressed DEF Noticed, Arrives
  <2>3. ~o.reclaim => known = {}
    BY <2>2 DEF TurnInv, Unneeded
  <2>4. \/ Receive(m, o) \/ Receive(m, r)
        \/ ~o.reclaim /\ \E j \in known : TRUE
    BY <1>3, Zenon DEF BusyBySibling
  <2> HIDE DEF known, o, r
  <2>5. Receive(m, o) \/ Receive(m, r)
    BY <2>3, <2>4
  <2> QED
    BY <2>5 DEF o, r
<1> QED
  BY <1>1, <1>2, <1>3

LEMMA StatusHeld ==
    ASSUME TypeInv, TypeInv', OwnInv, TurnInv, TurnInv', HeldInv, NEW m \in net,
           InfoIgnored(m) \/ BusyBySelf(m) \/ BusyByForeign(m) \/ BusyBySibling(m)
    PROVE  HeldInv'
<1> DEFINE o == h[m.p]
           r == [o EXCEPT !.reported = TRUE]
<1>1. Open(m.p) /\ UNCHANGED <<journal, tokens, session, granted>>
  BY DEF InfoIgnored, BusyBySelf, BusyByForeign, BusyBySibling, Noticed, Arrives, radio
<1>2. DOMAIN o = Fields /\ m.p \in Procs
  BY <1>1, Addressed
<1>3. /\ (\A f \in Watched : r[f] = o[f]) /\ (\A k \in Weighty : r[k] = o[k])
      /\ r.pred = o.pred /\ r.reported = TRUE
  BY <1>2 DEF Watched, Weighty, Fields, Flags, Kinds
<1>4. Receive(m, o) \/ Receive(m, r)
  BY StatusHeard
<1> HIDE DEF r
<1>5. ASSUME NEW t \in {o, r} PROVE Upholds(m.p, t)
  <2>1. (\A f \in Watched : t[f] = o[f]) /\ (\A k \in Weighty : t[k] = o[k])
        /\ t.pred = o.pred /\ (o.reported => t.reported)
    BY <1>3
  <2>2. t.stream.pending = o.stream.pending
    BY <2>1 DEF Weighty
  <2> HIDE DEF o
  <2> QED
    BY <1>1, <1>2, <2>1, <2>2, HeldIdles DEF o
<1> QED
  BY <1>1, <1>4, <1>5, HeldReceived

LEMMA GrantAdvertisedHeld ==
    ASSUME TypeInv, TypeInv', TurnInv, TurnInv', HeldInv, NEW m \in net, GrantAdvertised(m)
    PROVE  HeldInv'
<1> DEFINE o == h[m.p]
           t == [o EXCEPT !.id = m.id]
<1>1. /\ Open(m.p) /\ m.kind = "advert" /\ m.seq = o.stream.seq /\ m.id = o.stream.id
      /\ Receive(m, t) /\ UNCHANGED <<journal, tokens, session, granted>>
  BY DEF GrantAdvertised, Arrives, Relevant, radio
<1>2. DOMAIN o = Fields /\ m.p \in Procs
  BY <1>1, Addressed
<1>3. m.id = o.id
  BY <1>1, <1>2 DEF TurnInv, Asking, Silent
<1>4. /\ (\A f \in Watched : t[f] = o[f]) /\ (\A k \in Weighty : t[k] = o[k])
      /\ t.pred = o.pred /\ t.reported = o.reported
  BY <1>2, <1>3 DEF Watched, Weighty, Fields, Flags, Kinds
<1> HIDE DEF t
<1>5. t.stream.pending = o.stream.pending
  BY <1>4 DEF Weighty
<1>6. Upholds(m.p, t)
  BY <1>1, <1>2, <1>4, <1>5, HeldIdles
<1> QED
  BY <1>1, <1>6, HeldReceived

-----------------------------------------------------------------------------
(* The streams are asked for and granted.                                  *)

\* With Prompt, nobody asks again for streams that have ended.
LEMMA StreamAskedHeld ==
    ASSUME HeldInv, NEW p \in Procs, Open(p), h[p].phase = "up", h[p].authed, ~h[p].opened,
           ~h[p].reported, NEW t, t.phase = "up", t.id = h[p].id, t.authed, ~t.relogin,
           t.pred = NoProc, t.stream.pending,
           \A k \in Weighty \ {"stream"} : /\ t[k].seq = h[p][k].seq /\ t[k].id = h[p][k].id
                                           /\ t[k].pending => h[p][k].pending,
           t.owned \/ UNCHANGED journal
    PROVE  Upholds(p, t)
<1> DEFINE o == h[p]
<1>1. Removing(o) /\ EndedFinally(p)
  BY DEF HeldInv
<1>2. /\ t.removal.seq = o.removal.seq /\ t.removal.id = o.removal.id
      /\ t.login.seq = o.login.seq /\ t.login.id = o.login.id
      /\ (t.removal.pending => o.removal.pending) /\ (t.login.pending => o.login.pending)
  BY DEF Weighty
<1>3. "login" \notin Fresh(p, t) /\ "removal" \notin Fresh(p, t)
  BY <1>2 DEF Fresh
<1>4. Removing(t) /\ ~Idling(t)
  BY <1>1, <1>2 DEF Removing, Idling
<1>5. \A m \in net : ~(m.kind = "ended" /\ m.p = p /\ m.id = t.id)
  BY <1>1 DEF EndedFinally
<1> QED
  BY <1>2, <1>3, <1>4, <1>5 DEF Upholds

LEMMA StreamGrantedHeld ==
    ASSUME TypeInv, TypeInv', OwnInv, TurnInv, TurnInv', HeldInv, NEW m \in net,
           StreamGranted(m)
    PROVE  HeldInv'
<1> DEFINE o == h[m.p]
           c == Cleared(o, {"stream"})
           s == Acquired(c)
           t == [s EXCEPT !.reclaims = 0, !.reclaim = FALSE, !.opened = TRUE,
                          !.resetTried = FALSE, !.ports = FALSE]
<1>1. /\ Open(m.p) /\ m.kind = "grant" /\ Arrives(m, "grant") /\ Answers(m, o.stream)
      /\ Listening(o) /\ UNCHANGED <<tokens, session, granted>> /\ Receive(m, t)
  BY DEF StreamGranted, Arrives, Relevant, radio
<1>2. /\ Sound(o, Len(names)) /\ Len(names) \in Nat /\ m.p \in Procs
      /\ DOMAIN o = Fields /\ Ordered(o)
  BY <1>1, Addressed DEF TurnInv
<1>3. o.phase = "up" /\ o.stream.pending
  BY <1>1, ActsLoggedIn DEF LoggedIn, Listening, Answers
<1>4. o.pred = NoProc
  BY <1>2, <1>3, Zenon DEF Ordered, Idle
<1>5. /\ DOMAIN c = Fields /\ \A f \in Fields \ Kinds : c[f] = o[f]
      /\ \A k \in Kinds : /\ c[k].seq = o[k].seq /\ c[k].id = o[k].id
                          /\ c[k].pending => o[k].pending
  BY <1>2, ClearedAsks, ClearedLeaves DEF Kinds
<1> HIDE DEF c
<1>6. /\ s.phase = o.phase /\ s.id = o.id /\ s.authed = o.authed /\ s.owned
      /\ s.relogin = o.relogin /\ s.pred = o.pred /\ s.ack = o.ack /\ s.disc = o.disc
      /\ DOMAIN s = Fields /\ \A k \in Kinds : s[k] = c[k]
  BY <1>5 DEF Acquired, Fields, Flags, Kinds
<1> HIDE DEF s
<1>7. /\ t.phase = s.phase /\ t.id = s.id /\ t.authed = s.authed /\ t.owned /\ t.opened
      /\ t.relogin = s.relogin /\ t.pred = s.pred /\ t.ack = s.ack /\ t.disc = s.disc
      /\ \A k \in Kinds : t[k] = s[k]
  BY <1>6 DEF Fields, Flags, Kinds
<1> HIDE DEF t
<1>8. Weighty \subseteq Kinds
  BY DEF Weighty, Kinds
<1>9. Upholds(m.p, t)
  BY <1>1, <1>2, <1>4, <1>5, <1>6, <1>7, <1>8, HeldStays
<1> QED
  BY <1>1, <1>9, HeldReceived

LEMMA StreamRejectedHeld ==
    ASSUME TypeInv, TypeInv', TurnInv, TurnInv', HeldInv, Unreset', NEW m \in net,
           StreamRejected(m)
    PROVE  HeldInv'
<1> DEFINE o == h[m.p]
           s == Cleared(o, {"stream"})
           r == [s EXCEPT !.reported = TRUE]
           x == closeStreams(Cleared(sendRemoval(s), Kinds \ {"removal"}))
           t == [x EXCEPT !.resetTried = TRUE, !.ticking = FALSE, !.relogin = TRUE,
                          !.gotAuth = FALSE, !.authed = FALSE]
<1>1. Open(m.p) /\ UNCHANGED <<journal, tokens, session, granted>>
  BY DEF StreamRejected, Arrives, radio
<1>2. Sound(o, Len(names)) /\ Len(names) \in Nat /\ m.p \in Procs /\ DOMAIN o = Fields
  BY <1>1, Addressed
<1>3. /\ DOMAIN s = Fields /\ \A f \in Fields \ Kinds : s[f] = o[f]
      /\ \A k \in Kinds : /\ s[k].seq = o[k].seq /\ s[k].id = o[k].id
                          /\ s[k].pending => o[k].pending
  BY <1>2, ClearedAsks, ClearedLeaves DEF Kinds
<1>4. CASE Receive(m, r)
  <2> HIDE DEF s
  <2>1. /\ (\A f \in Watched : r[f] = o[f]) /\ (\A k \in Kinds : r[k] = s[k])
        /\ r.pred = o.pred /\ r.reported = TRUE
    BY <1>3 DEF Watched, Fields, Flags, Kinds
  <2> HIDE DEF r
  <2>2. Weighty \subseteq Kinds
    BY DEF Weighty, Kinds
  <2>3. Upholds(m.p, r)
    BY <1>1, <1>2, <1>3, <2>1, <2>2, HeldIdles
  <2> QED
    BY <1>1, <1>4, <2>3, HeldReceived
<1>5. CASE Receive(m, t)
  <2>1. DOMAIN x = Fields
    <3> HIDE DEF s
    <3> QED
      BY <1>3 DEF closeStreams, Cleared, sendRemoval
  <2> HIDE DEF x
  <2>2. t.resetTried = TRUE
    BY <2>1 DEF Fields, Flags
  <2> HIDE DEF t
  <2>3. h'[m.p] = t
    BY <1>2, <1>5, OfProcess DEF Receive, Become
  <2> QED
    BY <1>2, <2>2, <2>3 DEF Unreset
<1> QED
  BY <1>4, <1>5 DEF StreamRejected

LEMMA TokenRenewedHeld ==
    ASSUME TypeInv, TypeInv', OwnInv, TurnInv, TurnInv', HeldInv, Prompt = TRUE,
           NEW m \in net, TokenRenewed(m)
    PROVE  HeldInv'
<1> DEFINE o == h[m.p]
           c == Cleared(o, {"renewal"})
           s == [c EXCEPT !.id = m.id, !.ticking = TRUE, !.gotAuth = TRUE]
           t == sendRequestStream(s)
<1>1. /\ Open(m.p) /\ m.kind \in {"renewed", "refused"} /\ Arrives(m, m.kind)
      /\ Answers(m, o.renewal) /\ Listening(o) /\ UNCHANGED <<tokens, session, granted>>
      /\ ~o.reported
  BY DEF TokenRenewed, Arrives, Relevant, Closing, radio
<1>2. /\ Sound(o, Len(names)) /\ Len(names) \in Nat /\ m.p \in Procs
      /\ DOMAIN o = Fields /\ Ordered(o)
  BY <1>1, Addressed DEF TurnInv
<1>3. o.phase = "up" /\ o.renewal.pending /\ m.seq = o.renewal.seq
  BY <1>1, ActsLoggedIn DEF LoggedIn, Listening, Answers
<1>4. m.kind = "renewed" /\ m.id = o.id
  BY <1>1, <1>2, <1>3 DEF TurnInv, Told, Ordered
<1>5. o.authed /\ ~o.relogin /\ o.pred = NoProc
  BY <1>2, <1>3, Zenon DEF Ordered, Idle
<1>6. /\ DOMAIN c = Fields /\ \A f \in Fields \ Kinds : c[f] = o[f]
      /\ \A k \in Kinds : /\ c[k].seq = o[k].seq /\ c[k].id = o[k].id
                          /\ c[k].pending => o[k].pending
      /\ c.stream.pending = o.stream.pending
  <2>1. c.stream = o.stream
    BY <1>2 DEF Cleared, Fields, Kinds
  <2> QED
    BY <1>2, <2>1, ClearedAsks, ClearedLeaves DEF Kinds
<1>7. /\ (\A f \in Watched \ {"id"} : s[f] = c[f]) /\ s.id = o.id /\ s.owned = o.owned
      /\ s.pred = o.pred /\ s.reported = o.reported /\ DOMAIN s = Fields
      /\ \A k \in Kinds : s[k] = c[k]
  <2> HIDE DEF c
  <2> QED
    BY <1>4, <1>6 DEF Watched, Fields, Flags, Kinds
<1>8. /\ journal' = IF s.owned THEN RenewedJournal(m.p, m.id) ELSE journal
      /\ Receive(m, s) \/ (Receive(m, t) /\ ~s.stream.pending /\ ~s.opened)
  BY <1>4, Zenon DEF TokenRenewed, RequestWhenReady, permitsRadioTeardown
<1> HIDE DEF c, s
<1>9. /\ \A f \in Watched : s[f] = o[f]
      /\ \A k \in Weighty : /\ s[k].seq = o[k].seq /\ s[k].id = o[k].id
                            /\ s[k].pending => o[k].pending
      /\ s.stream.pending = o.stream.pending
  <2>1. Weighty \subseteq Kinds /\ "stream" \in Kinds /\ Watched \subseteq Fields \ Kinds
    BY DEF Weighty, Watched, Fields, Flags, Kinds
  <2> QED
    BY <1>6, <1>7, <2>1
<1>10. UNCHANGED journal \/ (s.owned /\ s.pred = NoProc)
  BY <1>5, <1>7, <1>8
<1>11. CASE Receive(m, s)
  <2>1. Upholds(m.p, s)
    BY <1>1, <1>2, <1>7, <1>9, <1>10, HeldIdles
  <2> QED
    BY <1>1, <1>11, <2>1, HeldReceived
<1>12. CASE Receive(m, t) /\ ~s.stream.pending /\ ~s.opened
  <2>1. /\ t.stream.pending /\ (\A f \in Watched : t[f] = s[f]) /\ t.owned = s.owned
        /\ t.pred = s.pred /\ \A k \in Weighty \ {"stream"} : t[k] = s[k]
    BY <1>7 DEF sendRequestStream, Begun, Watched, Weighty, Fields, Flags, Kinds
  <2> HIDE DEF t
  <2>2. /\ t.phase = "up" /\ t.id = o.id /\ t.authed /\ ~t.relogin /\ t.pred = NoProc
        /\ ~o.opened
    BY <1>3, <1>5, <1>7, <1>9, <1>12, <2>1 DEF Watched
  <2>3. \A k \in Weighty \ {"stream"} : /\ t[k].seq = o[k].seq /\ t[k].id = o[k].id
                                        /\ t[k].pending => o[k].pending
    BY <1>9, <2>1
  <2>4. Upholds(m.p, t)
    BY <1>1, <1>2, <1>3, <1>5, <1>10, <2>1, <2>2, <2>3, StreamAskedHeld
  <2> QED
    BY <1>1, <1>12, <2>4, HeldReceived
<1> QED
  BY <1>8, <1>11, <1>12

LEMMA RadioAvailableHeld ==
    ASSUME TypeInv, TypeInv', OwnInv, TurnInv, TurnInv', HeldInv, Prompt = TRUE,
           NEW m \in net, RadioAvailable(m)
    PROVE  HeldInv'
<1> DEFINE o == h[m.p]
           x == closeStreams(o)
           c == [x EXCEPT !.ports = TRUE]
           t == sendRequestStream(c)
<1>1. /\ Open(m.p) /\ Noticed(m, "free") /\ UNCHANGED <<journal, tokens, session, granted>>
      /\ Receive(m, IF c.gotAuth THEN t ELSE c)
  BY DEF RadioAvailable, Noticed, Arrives, radio, setCurrentRadio
<1>2. /\ Sound(o, Len(names)) /\ Len(names) \in Nat /\ m.p \in Procs
      /\ DOMAIN o = Fields /\ Ordered(o)
  BY <1>1, Addressed DEF TurnInv
<1>3. o.phase = "up" /\ ~o.opened /\ ~o.reported
  BY <1>1, Noticing DEF Noticed, Arrives, Closing, Listening
<1>4. /\ DOMAIN x = Fields /\ (\A f \in Watched : x[f] = o[f]) /\ (\A k \in Weighty : x[k] = o[k])
      /\ x.pred = o.pred /\ x.reported = o.reported /\ x.gotAuth = o.gotAuth
      /\ x.owned = o.owned
  BY <1>2, <1>3 DEF closeStreams, Watched, Weighty, Fields, Flags, Kinds, Sound
<1> HIDE DEF x
<1>5. /\ DOMAIN c = Fields /\ (\A f \in Watched : c[f] = x[f]) /\ (\A k \in Weighty : c[k] = x[k])
      /\ c.pred = x.pred /\ c.reported = x.reported /\ c.gotAuth = x.gotAuth
      /\ c.owned = x.owned
  BY <1>4 DEF Watched, Weighty, Fields, Flags, Kinds
<1> HIDE DEF c
<1>6. (\A f \in Watched : c[f] = o[f]) /\ (\A k \in Weighty : c[k] = o[k])
  BY <1>4, <1>5
<1>7. CASE ~c.gotAuth
  <2>1. c.stream.pending = o.stream.pending
    BY <1>6 DEF Weighty
  <2>2. Upholds(m.p, c)
    BY <1>1, <1>2, <1>4, <1>5, <1>6, <2>1, HeldIdles
  <2> QED
    BY <1>1, <1>7, <2>2, HeldReceived
<1>8. CASE c.gotAuth
  <2>1. o.authed /\ ~o.relogin /\ o.pred = NoProc
    BY <1>2, <1>4, <1>5, <1>8, Zenon DEF Ordered, Idle
  <2>2. /\ t.stream.pending /\ (\A f \in Watched : t[f] = c[f]) /\ t.pred = c.pred
        /\ \A k \in Weighty \ {"stream"} : t[k] = c[k]
    BY <1>5 DEF sendRequestStream, Begun, Watched, Weighty, Fields, Flags, Kinds
  <2> HIDE DEF t
  <2>3. t.phase = "up" /\ t.id = o.id /\ t.authed /\ ~t.relogin /\ t.pred = NoProc
    BY <1>3, <1>4, <1>5, <1>6, <2>1, <2>2 DEF Watched
  <2>4. \A k \in Weighty \ {"stream"} : t[k] = o[k]
    BY <1>6, <2>2
  <2>5. Upholds(m.p, t)
    BY <1>1, <1>2, <1>3, <2>1, <2>2, <2>3, <2>4, StreamAskedHeld
  <2> QED
    BY <1>1, <1>8, <2>5, HeldReceived
<1> QED
  BY <1>7, <1>8

-----------------------------------------------------------------------------
(* A login, and what precedes it.                                          *)

\* A handler that waits for no removal logs in.
LEMMA HeldLogin ==
    ASSUME TypeInv, HeldInv, NEW p \in Procs, NEW x, DOMAIN x = Fields,
           x.phase = "up", x.seq = h[p].seq, ~x.relogin, ~x.authed, x.pred = NoProc,
           x.removal.seq = h[p].removal.seq, x.removal.id = h[p].removal.id,
           ~x.removal.pending, journal' \subseteq journal
    PROVE  Upholds(p, sendLogin(x))
<1> DEFINE i == <<Len(names) + 1, x.id[2]>>
           t == sendLogin(x)
<1>1. /\ t.login.seq = x.seq /\ t.login.id = i /\ t.login.pending
      /\ t.phase = "up" /\ ~t.relogin /\ ~t.authed /\ t.pred = NoProc
      /\ t.removal = x.removal
  BY DEF sendLogin, Begun, Fields, Flags, Kinds
<1> HIDE DEF t
<1>2. "login" \in Fresh(p, t)
  <2>1. "login" \in Kinds
    BY DEF Kinds
  <2>2. t.login.seq # h[p].login.seq
    BY <1>1, <2>1, Numbers
  <2> QED
    BY <1>1, <2>1, <2>2 DEF Fresh
<1>3. "removal" \notin Fresh(p, t)
  BY <1>1 DEF Fresh
<1>4. Removing(t) /\ ~Idling(t) /\ t.login.id[1] = Len(names) + 1
  BY <1>1 DEF Removing, Idling
<1>5. Upholds(p, t)
  BY <1>1, <1>2, <1>3, <1>4 DEF Upholds
<1> QED
  BY <1>5 DEF t

LEMMA HeldRecovered ==
    ASSUME TypeInv, TurnInv, HeldInv, NEW p \in Procs, Open(p), h[p].pred # NoProc,
           NEW s, Sound(s, Len(names)), \A f \in Orderly : s[f] = h[p][f],
           \A k \in Kinds : s[k].seq = h[p][k].seq /\ s[k].id = h[p][k].id,
           journal' \subseteq journal
    PROVE  Upholds(p, completePredecessorTokenRemoval(s))
<1> DEFINE o == h[p]
           c == Cleared(s, Kinds)
           y == closeStreams(c)
           i == <<s.id[1], 0>>
           x == [y EXCEPT !.id = i, !.gotAuth = FALSE, !.authed = FALSE,
                          !.pred = NoProc, !.retired = FALSE]
           d == selectIfKnown(x)
           t == completePredecessorTokenRemoval(s)
<1>1. Ordered(o) /\ Len(names) \in Nat
  BY DEF TurnInv, TypeInv
<1>2. o.phase = "up" /\ ~o.relogin
  BY <1>1, Zenon DEF Ordered, Idle
<1>3. s.phase = "up" /\ ~s.relogin /\ s.seq = o.seq
  BY <1>2 DEF Orderly
<1>4. /\ DOMAIN c = Fields /\ (\A f \in Fields \ Kinds : c[f] = s[f])
      /\ \A k \in Kinds : c[k].seq = s[k].seq /\ c[k].id = s[k].id /\ ~c[k].pending
  BY <1>1, ClearedAsks, ClearedLeaves
<1>5. c.phase = "up" /\ ~c.relogin /\ c.seq = o.seq
  BY <1>3, <1>4 DEF Fields, Flags, Kinds
<1> HIDE DEF c
<1>6. /\ DOMAIN y = Fields /\ y.removal = c.removal
      /\ y.phase = c.phase /\ y.relogin = c.relogin /\ y.seq = c.seq
  BY <1>4 DEF closeStreams, Fields, Flags, Kinds
<1>7. t = sendLogin(d)
  BY Zenon DEF completePredecessorTokenRemoval, c
<1> HIDE DEF y, i
<1>8. /\ DOMAIN x = Fields /\ x.removal = y.removal
      /\ x.phase = y.phase /\ x.relogin = y.relogin /\ x.seq = y.seq
      /\ ~x.gotAuth /\ ~x.authed /\ x.pred = NoProc
  BY <1>6 DEF Fields, Flags, Kinds
<1> HIDE DEF x
<1>9. /\ DOMAIN d = Fields /\ \A f \in Fields \ {"opened", "media", "ports"} : d[f] = x[f]
  BY <1>8, SelectSilent
<1> HIDE DEF d
<1>10. /\ d.phase = x.phase /\ d.relogin = x.relogin /\ d.seq = x.seq
       /\ d.authed = x.authed /\ d.pred = x.pred /\ d.removal = x.removal
  BY <1>9 DEF Fields, Flags, Kinds
<1>11. d.removal.seq = o.removal.seq /\ d.removal.id = o.removal.id /\ ~d.removal.pending
  BY <1>4, <1>6, <1>8, <1>10 DEF Kinds
<1>12. d.phase = "up" /\ d.seq = o.seq /\ ~d.relogin /\ ~d.authed /\ d.pred = NoProc
  BY <1>5, <1>6, <1>8, <1>10
<1> HIDE DEF t
<1>13. Upholds(p, t)
  BY <1>7, <1>9, <1>11, <1>12, HeldLogin
<1> QED
  BY <1>13 DEF t

LEMMA AcknowledgedHeld ==
    ASSUME TypeInv, TypeInv', OwnInv, TurnInv, TurnInv', HeldInv, NEW m \in net,
           RemovalAcknowledged(m)
    PROVE  HeldInv'
<1> DEFINE o == h[m.p]
           c == Cleared(o, {"removal"})
           a == [c EXCEPT !.ack = TRUE]
<1>1. /\ Open(m.p) /\ UNCHANGED <<tokens, session, granted>> /\ m.kind = "removed"
      /\ Arrives(m, "removed") /\ o.removal.pending /\ m.seq = o.removal.seq
  BY DEF RemovalAcknowledged, Arrives, Relevant, Answers, radio
<1>2. Sound(o, Len(names)) /\ Len(names) \in Nat /\ m.p \in Procs /\ DOMAIN o = Fields
  BY <1>1, Addressed
<1>3. /\ DOMAIN c = Fields /\ \A f \in Fields \ Kinds : c[f] = o[f]
      /\ \A k \in Kinds : /\ c[k].seq = o[k].seq /\ c[k].id = o[k].id
                          /\ c[k].pending => o[k].pending
      /\ c.stream = o.stream
  <2>1. c.stream = o.stream
    BY <1>2 DEF Cleared, Fields, Kinds
  <2> QED
    BY <1>2, <2>1, ClearedAsks, ClearedLeaves DEF Kinds
<1>4. Sound(c, Len(names))
  BY <1>2, ClearedSound DEF Kinds
<1> HIDE DEF c
<1>5. /\ (\A f \in Orderly \cup {"disc", "reported"} : a[f] = o[f])
      /\ \A k \in Kinds : a[k] = c[k]
  BY <1>3 DEF Orderly, Fields, Flags, Kinds
<1>6. Sound(a, Len(names))
  BY <1>4 DEF Sound, Fields, Flags, Kinds
<1>7. IF a.pred # NoProc THEN /\ journal' = JournalWithout(a.pred)
                              /\ Receive(m, completePredecessorTokenRemoval(a))
                         ELSE UNCHANGED journal /\ Receive(m, a)
  BY Zenon DEF RemovalAcknowledged, c
<1> HIDE DEF a
<1>8. /\ a.pred = o.pred /\ a.phase = o.phase /\ a.id = o.id /\ a.authed = o.authed
      /\ a.relogin = o.relogin /\ a.opened = o.opened /\ a.disc = o.disc
      /\ a.reported = o.reported
  BY <1>5 DEF Orderly
<1>9. \A k \in Kinds : /\ a[k].seq = o[k].seq /\ a[k].id = o[k].id
                       /\ a[k].pending => o[k].pending
  BY <1>3, <1>5
<1>10. CASE a.pred # NoProc
  <2>1. journal' \subseteq journal
    BY <1>7, <1>10 DEF JournalWithout
  <2>2. Upholds(m.p, completePredecessorTokenRemoval(a))
    BY <1>1, <1>2, <1>5, <1>6, <1>8, <1>9, <1>10, <2>1, HeldRecovered
  <2> QED
    BY <1>1, <1>7, <1>10, <2>2, HeldReceived
<1>11. CASE a.pred = NoProc
  <2>1. o.phase \in {"up", "settling", "removing"}
    BY <1>1, ActsLoggedIn DEF LoggedIn
  <2>2. Removing(o) /\ RemovedOwn(m.p) /\ Posted(m)
    BY <1>1, <1>2 DEF HeldInv
  <2>3. \/ o.phase = "up"
        \/ o.phase = "removing" /\ o.id[1] \notin tokens
    BY <1>1, <2>1, <2>2 DEF Removing, RemovedOwn, Posted
  <2>4. a.stream.pending = o.stream.pending /\ Weighty \subseteq Kinds
    BY <1>3, <1>5 DEF Kinds, Weighty
  <2>5. Upholds(m.p, a)
    BY <1>1, <1>2, <1>7, <1>8, <1>9, <1>11, <2>3, <2>4, HeldStays
  <2> QED
    BY <1>1, <1>7, <1>11, <2>5, HeldReceived
<1> QED
  BY <1>10, <1>11

LEMMA EndedHeld ==
    ASSUME TypeInv, TypeInv', OwnInv, TurnInv, TurnInv', HeldInv, NEW m \in net,
           SessionEnded(m)
    PROVE  HeldInv'
<1> DEFINE o == h[m.p]
           e == [o EXCEPT !.disc = TRUE]
           z == closeStreams(e)
           b == z.reported \/ ~e.reclaim
           w == [z EXCEPT !.owned = FALSE, !.reported = @ \/ ~e.reclaim]
           v == [z EXCEPT !.owned = FALSE, !.reported = b]
           Kept == {"phase", "id", "authed", "relogin", "ack", "pred"}
<1>1. /\ Open(m.p) /\ UNCHANGED <<tokens, session, granted>> /\ m.kind = "ended" /\ m.id = o.id
  BY DEF SessionEnded, Arrives, Relevant, radio
<1>2. /\ Sound(o, Len(names)) /\ Len(names) \in Nat /\ m.p \in Procs /\ DOMAIN o = Fields
      /\ Ordered(o)
  BY <1>1, Addressed DEF TurnInv
<1>3. /\ (\A f \in Orderly \cup Kept \cup {"reported"} : e[f] = o[f])
      /\ (\A k \in Kinds : e[k] = o[k]) /\ DOMAIN e = Fields
  BY <1>2 DEF Orderly, Fields, Flags, Kinds
<1>4. Sound(e, Len(names))
  BY <1>2 DEF Sound, Fields, Flags, Kinds
<1>5. IF e.pred # NoProc THEN /\ journal' = JournalWithout(e.pred)
                              /\ Receive(m, completePredecessorTokenRemoval(e))
                         ELSE UNCHANGED journal /\ Receive(m, IF Listening(e) THEN w ELSE z)
  BY Zenon DEF SessionEnded
<1> HIDE DEF e
<1>6. CASE e.pred # NoProc
  <2>1. journal' \subseteq journal
    BY <1>5, <1>6 DEF JournalWithout
  <2>2. o.pred # NoProc
    BY <1>3, <1>6 DEF Orderly
  <2>3. Upholds(m.p, completePredecessorTokenRemoval(e))
    BY <1>1, <1>2, <1>3, <1>4, <2>1, <2>2, HeldRecovered
  <2> QED
    BY <1>1, <1>5, <1>6, <2>3, HeldReceived
<1>7. CASE e.pred = NoProc
  <2>1. /\ DOMAIN z = Fields /\ (\A k \in Kinds : z[k] = e[k]) /\ z.reported = e.reported
        /\ \A f \in Kept : z[f] = e[f]
    BY <1>3 DEF closeStreams, Fields, Flags, Kinds
  <2>2. w = v
    <3> HIDE DEF z
    <3> QED
      BY <2>1
  <2> HIDE DEF z, b, w
  <2>3. /\ v.reported = b /\ (\A k \in Kinds : v[k] = z[k]) /\ (\A f \in Kept : v[f] = z[f])
    BY <2>1 DEF Fields, Flags, Kinds
  <2> HIDE DEF v
  <2>4. ASSUME NEW t, Receive(m, t), \A k \in Kinds : t[k] = o[k], \A f \in Kept : t[f] = o[f],
               o.phase = "up" /\ (o.opened \/ o.reported) => t.reported,
               o.phase = "removing" => Unheld(o.id[1])
        PROVE  HeldInv'
    <3>1. /\ t.phase = o.phase /\ t.id = o.id /\ t.authed = o.authed /\ t.relogin = o.relogin
          /\ t.ack = o.ack /\ t.pred = o.pred
      BY <2>4
    <3>2. (\A k \in Weighty : t[k] = o[k]) /\ t.stream.pending = o.stream.pending
      BY <2>4 DEF Weighty, Kinds
    <3>3. Upholds(m.p, t)
      BY <1>1, <1>2, <1>5, <1>7, <2>4, <3>1, <3>2, HeldStays
    <3> QED
      BY <1>1, <2>4, <3>3, HeldReceived
  <2>5. e.phase = o.phase /\ e.reclaim = o.reclaim
    BY <1>3 DEF Orderly
  <2>6. o.opened => ~o.reclaim
    BY <1>2, Zenon DEF Ordered
  <2>7. o.phase = "removing" => o.authed
    BY <1>2, Zenon DEF Ordered
  <2>8. o.phase = "removing" => Unheld(o.id[1])
    BY <1>1, <1>2, <2>7 DEF HeldInv, EndedFinally
  <2>9. z.reported = o.reported
    BY <1>3, <2>1
  <2>10. b = (o.reported \/ ~o.reclaim)
    BY <2>5, <2>9 DEF b
  <2>11. CASE Listening(e)
    <3>1. \A k \in Kinds : w[k] = o[k]
      BY <1>3, <2>1, <2>2, <2>3
    <3>2. \A f \in Kept : w[f] = o[f]
      BY <1>3, <2>1, <2>2, <2>3
    <3>3. o.phase = "up" /\ (o.opened \/ o.reported) => w.reported
      BY <2>2, <2>3, <2>6, <2>10
    <3>4. Receive(m, w)
      BY <1>5, <1>7, <2>11
    <3> QED
      BY <2>4, <2>8, <3>1, <3>2, <3>3, <3>4
  <2>12. CASE ~Listening(e)
    <3>1. (\A k \in Kinds : z[k] = o[k]) /\ (\A f \in Kept : z[f] = o[f])
      BY <1>3, <2>1
    <3>2. o.phase # "up"
      BY <2>5, <2>12 DEF Listening
    <3>3. Receive(m, z)
      BY <1>5, <1>7, <2>12
    <3> QED
      BY <2>4, <2>8, <3>1, <3>2, <3>3
  <2> QED
    BY <2>11, <2>12
<1> QED
  BY <1>6, <1>7

\* The identity that a login brings is held by nobody, and nobody has ended it.
LEMMA LoginResponseHeld ==
    ASSUME TypeInv, TypeInv', OwnInv, TurnInv, TurnInv', HeldInv, NEW m \in net,
           LoginResponse(m)
    PROVE  HeldInv'
<1> DEFINE o == h[m.p]
           c == Cleared(o, {"login"})
           s == [c EXCEPT !.radios = @ \/ Listening(o)]
           answered == [s EXCEPT !.id[2] = m.id[2]]
           i == answered.id
           t == [sendRenewal(answered) EXCEPT !.authed = TRUE]
<1>1. /\ Open(m.p) /\ m.kind = "welcome" /\ Answers(m, o.login) /\ m.id[1] = o.login.id[1]
      /\ UNCHANGED <<journal, tokens, session, granted>>
  BY DEF LoginResponse, Arrives, Relevant, radio
<1>2. /\ Sound(o, Len(names)) /\ Len(names) \in Nat /\ m.p \in Procs
      /\ DOMAIN o = Fields /\ Ordered(o) /\ m.id \in Ids(Len(names))
  BY <1>1, Addressed DEF TurnInv
<1>3. /\ o.phase = "up" /\ ~o.relogin /\ o.pred = NoProc /\ o.login.pending
      /\ m.seq = o.login.seq
  BY <1>1, <1>2, Zenon DEF Ordered, Idle, Answers
<1>4. Listening(o)
  BY <1>3 DEF Listening
<1>5. /\ DOMAIN c = Fields /\ \A f \in Fields \ Kinds : c[f] = o[f]
      /\ \A k \in Kinds : /\ c[k].seq = o[k].seq /\ c[k].id = o[k].id
                          /\ c[k].pending => o[k].pending
                          /\ k = "login" => ~c[k].pending
      /\ c.stream = o.stream
  <2>1. c.stream = o.stream
    BY <1>2 DEF Cleared, Fields, Kinds
  <2> QED
    BY <1>2, <2>1, ClearedAsks, ClearedLeaves DEF Kinds
<1> HIDE DEF c
<1>6. /\ DOMAIN s = Fields /\ (\A f \in Watched : s[f] = o[f]) /\ s.pred = o.pred
      /\ s.reported = o.reported /\ \A k \in Kinds : s[k] = c[k]
  BY <1>5 DEF Watched, Fields, Flags, Kinds
<1>7. s.phase = o.phase /\ Listening(s)
  BY <1>3, <1>6 DEF Watched, Listening
<1>8. Receive(m, IF s.authed \/ s.id[1] # m.id[1] THEN s ELSE t)
  BY <1>7, Zenon DEF LoginResponse, c
<1> HIDE DEF s
<1>9. \A k \in Weighty : /\ s[k].seq = o[k].seq /\ s[k].id = o[k].id
                         /\ s[k].pending => o[k].pending
  BY <1>5, <1>6 DEF Weighty, Kinds
<1>10. CASE s.authed \/ s.id[1] # m.id[1]
  <2>1. s.stream.pending = o.stream.pending
    BY <1>5, <1>6 DEF Kinds
  <2>2. Upholds(m.p, s)
    BY <1>1, <1>2, <1>6, <1>9, <2>1, HeldIdles
  <2> QED
    BY <1>1, <1>8, <1>10, <2>2, HeldReceived
<1>11. CASE ~(s.authed \/ s.id[1] # m.id[1])
  <2>1. s.id = o.id /\ o.id \in Ids(Len(names)) /\ s.id[1] = m.id[1] /\ s.relogin = o.relogin
        /\ s.phase = o.phase
    BY <1>2, <1>6, <1>11 DEF Watched, Sound
  <2>2. /\ i = m.id /\ DOMAIN answered = Fields
        /\ \A f \in Fields \ {"id"} : answered[f] = s[f]
    BY <1>2, <1>6, <2>1 DEF Ids, Fields, Flags, Kinds
  <2>3. /\ answered.phase = s.phase /\ answered.pred = s.pred /\ answered.relogin = s.relogin
        /\ answered.login = s.login /\ answered.removal = s.removal
        /\ answered.stream = s.stream
    BY <2>2 DEF Fields, Flags, Kinds
  <2> HIDE DEF answered
  <2>4. /\ t.id = i /\ t.authed /\ t.phase = s.phase /\ t.pred = s.pred
        /\ t.relogin = s.relogin /\ t.login = s.login /\ t.removal = s.removal
        /\ t.stream = s.stream
    BY <2>2, <2>3 DEF sendRenewal, Begun, Fields, Flags, Kinds
  <2> HIDE DEF t
  <2>5. /\ t.login.seq = o.login.seq /\ ~t.login.pending
        /\ t.removal.seq = o.removal.seq /\ t.removal.id = o.removal.id
        /\ t.removal.pending => o.removal.pending
    BY <1>5, <1>6, <2>4 DEF Kinds
  <2>6. Removing(o) /\ Holding(o)
    BY <1>1, <1>2 DEF HeldInv
  <2>7. /\ ~t.removal.pending /\ ~t.relogin /\ t.phase = "up" /\ t.pred = NoProc
    BY <1>3, <1>6, <2>1, <2>4, <2>5, <2>6 DEF Removing
  <2>8. "login" \notin Fresh(m.p, t) /\ "removal" \notin Fresh(m.p, t)
    BY <2>5 DEF Fresh
  <2>9. t.id = Id(o.login.id[1]) /\ t.id[1] = o.login.id[1]
    <3>1. m.id = Id(m.id[1])
      BY <1>1, <1>2, <1>3 DEF TurnInv, Told
    <3> QED
      BY <1>1, <2>2, <2>4, <3>1
  <2>10. Unheld(t.id[1]) /\ \A d \in net : d.kind = "ended" => d.id # t.id
    BY <1>3, <2>6, <2>9 DEF Holding
  <2>11. Removing(t)
    BY <2>7 DEF Removing
  <2>12. Upholds(m.p, t)
    BY <1>1, <2>5, <2>7, <2>8, <2>10, <2>11 DEF Upholds
  <2> QED
    BY <1>1, <1>8, <1>11, <2>12, HeldReceived
<1> QED
  BY <1>10, <1>11

-----------------------------------------------------------------------------
(* Connecting, timers, and shutdown.                                       *)

LEMMA ConnectHeld ==
    ASSUME TypeInv, SessionAssumption, Steadfast, HeldInv, NEW p \in Procs, Connect(p)
    PROVE  HeldInv'
<1> DEFINE s == Handler("discover")
           full == {j \in Recoverable : j.full}
           rest == net \cup UNION {Departures(s, j) : j \in full}
           b == full # {}
           t == [s EXCEPT !.retired = b]
<1>1. \A q \in Procs : ~Open(q)
  BY DEF Connect, Steadfast
<1>2. net = {}
  BY <1>1 DEF Connect, TypeInv, MailSound, Carried, Mail
<1>3. Become(p, t, rest) /\ UNCHANGED <<journal, tokens, session, granted>>
  BY DEF Connect, radio
<1>4. \A m \in rest : m.kind = "depart"
  BY <1>2 DEF Departures, Msg
<1>5. DOMAIN h = Procs
  BY OfProcess
<1> HIDE DEF rest, b
<1>6. /\ t.phase = "discover" /\ ~t.authed /\ ~t.relogin /\ t.pred = NoProc /\ ~t.ack /\ ~t.disc
      /\ \A k \in Kinds : ~t[k].pending
  BY DEF Handler, NoRequest, Kinds
<1> HIDE DEF t
<1>7. h' = [h EXCEPT ![p] = t] /\ net' = rest
  <2>1. Fresh(p, t) = {}
    BY <1>6 DEF Fresh
  <2> QED
    BY <1>3, <2>1 DEF Become
<1>8. h'[p] = t /\ \A q \in Procs \ {p} : h'[q] = h[q]
  BY <1>5, <1>7
<1>9. \A q \in Procs : Open(q)' => q = p
  BY <1>1, <1>8 DEF Open
<1>10. \A m \in net' : m.kind = "depart"
  BY <1>4, <1>7
<1>11. \A m \in net' : Posted(m)'
  BY <1>10 DEF Posted
<1>12. \A j \in journal' : Claimed(j.id)'
  BY <1>3 DEF HeldInv, Claimed
<1>13. ~t.login.pending
  BY <1>6 DEF Kinds
<1>14. /\ Removing(h[p])' /\ Confirmed(h[p])' /\ RemovedOwn(p)' /\ Holding(h[p])'
       /\ EndedFinally(p)'
  BY <1>6, <1>8, <1>10, <1>13 DEF Removing, Confirmed, RemovedOwn, Holding, Idling, EndedFinally
<1> QED
  BY <1>9, <1>11, <1>12, <1>14 DEF HeldInv

\* Nothing else than what was on its way, or a departure.
LEMMA PlainlyLeft ==
    ASSUME NEW p, NEW t, NEW rest,
           \A m \in rest : m \in net \/ (m.p = NoProc /\ m.kind = "depart")
    PROVE  Left(p, t, rest)
BY DEF Left

LEMMA TransportReadyHeld ==
    ASSUME TypeInv, TypeInv', SessionAssumption, OwnInv, TurnInv, TurnInv', HeldInv,
           NEW p \in Procs, TransportReady(p)
    PROVE  HeldInv'
<1> DEFINE o == h[p]
           s == [o EXCEPT !.phase = "up"]
           t == sendLogin(s)
           x == [s EXCEPT !.reclaim = TRUE, !.reclaims = 1]
<1>1. /\ o.phase = "discover" /\ Open(p) /\ UNCHANGED <<journal, tokens, session, granted>>
      /\ \/ Recoverable = {} /\ Become(p, t, net)
         \/ \E j \in Recoverable :
               Become(p, beginPredecessorTokenRemoval(x, j), net \cup Departures(s, j))
  BY DEF TransportReady, Open, SessionAssumption, radio
<1>2. /\ DOMAIN o = Fields /\ Ordered(o) /\ Young(o)
  BY OfProcess DEF TurnInv, OwnInv
<1>3. /\ ~o.authed /\ ~o.relogin /\ o.pred = NoProc /\ \A k \in Kinds : ~o[k].pending
  BY <1>1, <1>2, Zenon DEF Ordered, Idle, Young
<1>4. /\ s.phase = "up" /\ s.seq = o.seq /\ ~s.authed /\ ~s.relogin /\ s.pred = NoProc
      /\ DOMAIN s = Fields /\ \A k \in Kinds : s[k] = o[k]
  BY <1>2, <1>3 DEF Fields, Flags, Kinds
<1> HIDE DEF s
<1>5. CASE Recoverable = {} /\ Become(p, t, net)
  <2> HIDE DEF t
  <2>1. s.removal = o.removal /\ ~s.removal.pending
    BY <1>3, <1>4 DEF Kinds
  <2>2. Upholds(p, t)
    BY <1>1, <1>4, <2>1, HeldLogin DEF t
  <2>3. Left(p, t, net)
    BY PlainlyLeft
  <2> QED
    BY <1>1, <1>5, <2>2, <2>3, HeldBecome
<1>6. ASSUME NEW j \in Recoverable,
             Become(p, beginPredecessorTokenRemoval(x, j), net \cup Departures(s, j))
      PROVE  HeldInv'
  <2> DEFINE i == j.id
             y == [x EXCEPT !.id = i]
             z == sendRemoval(y)
             c == j.full
             q == j.owner
             r == [z EXCEPT !.retired = @ \/ c, !.pred = q, !.attempts = 1,
                            !.ack = FALSE, !.disc = FALSE]
  <2>1. j \in journal /\ \A d \in journal : d = j
    BY DEF Recoverable, TypeInv, JournalSound
  <2>2. r = beginPredecessorTokenRemoval(x, j)
    BY DEF beginPredecessorTokenRemoval
  <2>3. Claimed(i)
    BY <2>1 DEF HeldInv
  <2>4. \A d \in journal : d.id = i
    BY <2>1
  <2>5. /\ x.phase = "up" /\ x.seq = o.seq /\ ~x.authed /\ ~x.relogin
        /\ DOMAIN x = Fields /\ \A k \in Kinds : x[k] = o[k]
    BY <1>4 DEF Fields, Flags, Kinds
  <2> HIDE DEF x, q, c, i
  <2>6. /\ y.phase = "up" /\ y.seq = o.seq /\ y.id = i /\ ~y.authed /\ ~y.relogin
        /\ DOMAIN y = Fields /\ \A k \in Kinds : y[k] = o[k]
    BY <2>5 DEF Fields, Flags, Kinds
  <2> HIDE DEF y
  <2>7. /\ z.phase = "up" /\ z.id = i /\ ~z.authed /\ ~z.relogin
        /\ z.removal.seq = o.seq /\ z.removal.id = i
        /\ DOMAIN z = Fields /\ \A k \in Kinds \ {"removal"} : z[k] = o[k]
    BY <2>6 DEF sendRemoval, Begun, Fields, Flags, Kinds
  <2> HIDE DEF z
  <2>8. /\ r.phase = "up" /\ r.id = i /\ ~r.authed /\ ~r.relogin
        /\ r.removal.seq = o.seq /\ r.removal.id = i
        /\ \A k \in Kinds \ {"removal"} : r[k] = o[k]
    <3> DEFINE f == z.retired \/ c
               v == [z EXCEPT !.retired = f, !.pred = q, !.attempts = 1,
                              !.ack = FALSE, !.disc = FALSE]
    <3>1. r = v
      BY <2>7
    <3> HIDE DEF f, r
    <3>2. /\ v.phase = "up" /\ v.id = i /\ ~v.authed /\ ~v.relogin
          /\ v.removal.seq = o.seq /\ v.removal.id = i
          /\ \A k \in Kinds \ {"removal"} : v[k] = o[k]
      BY <2>7 DEF Fields, Flags, Kinds
    <3> QED
      BY <3>1, <3>2
  <2> HIDE DEF r
  <2>9. ~r.login.pending /\ r.login = o.login /\ o.seq \in Nat
    BY <1>3, <2>8, OfProcess DEF Kinds
  <2>10. Removing(r) /\ ~Idling(r) /\ "login" \notin Fresh(p, r)
    BY <2>8, <2>9 DEF Removing, Idling, Fresh
  <2>11. /\ r.pred # NoProc => Claimed(r.id) /\ \A d \in journal' : d.owner = r.pred => d.id = r.id
         /\ r.removal.seq >= o.seq
    BY <1>1, <2>3, <2>4, <2>8, <2>9
  <2>12. Upholds(p, r)
    BY <1>1, <2>3, <2>8, <2>9, <2>10, <2>11 DEF Upholds
  <2>13. Left(p, r, net \cup Departures(s, j))
    <3>1. \A m \in net \cup Departures(s, j) : m \in net \/ (m.p = NoProc /\ m.kind = "depart")
      BY DEF Departures, Msg
    <3> QED
      BY <3>1, PlainlyLeft
  <2>14. Become(p, r, net \cup Departures(s, j))
    BY <1>6, <2>2
  <2> QED
    BY <1>1, <2>12, <2>13, <2>14, HeldBecome
<1> QED
  BY <1>1, <1>5, <1>6

LEMMA PredecessorRetryHeld ==
    ASSUME TypeInv, TypeInv', SessionAssumption, TurnInv, TurnInv', HeldInv, NEW p \in Procs,
           PredecessorRetry(p)
    PROVE  HeldInv'
<1> DEFINE o == h[p]
           a == [o EXCEPT !.attempts = @ + 1]
           e == [o EXCEPT !.pred = NoProc, !.attempts = 0, !.reported = TRUE]
           again == net \cup {Msg("removal", p, a.removal.seq, a.removal.id)}
<1>1. /\ o.pred # NoProc /\ Open(p) /\ UNCHANGED <<journal, tokens, session, granted>>
      /\ Become(p, a, again) \/ Become(p, e, net)
  BY Zenon DEF PredecessorRetry, Resent, Open, SessionAssumption, radio
<1>2. DOMAIN o = Fields
  BY OfProcess
<1>3. /\ a.pred = o.pred /\ a.reported = o.reported /\ (\A f \in Watched : a[f] = o[f])
      /\ (\A k \in Weighty : a[k] = o[k])
  BY <1>2 DEF Watched, Weighty, Fields, Flags, Kinds
<1>4. /\ e.pred = NoProc /\ e.reported = TRUE /\ (\A f \in Watched : e[f] = o[f])
      /\ (\A k \in Weighty : e[k] = o[k])
  BY <1>2 DEF Watched, Weighty, Fields, Flags, Kinds
<1> HIDE DEF a, e
<1>5. CASE Become(p, a, again)
  <2>1. a.stream.pending = o.stream.pending
    BY <1>3 DEF Weighty
  <2>2. Upholds(p, a)
    BY <1>1, <1>3, <2>1, HeldIdles
  <2>3. Left(p, a, again)
    BY <1>1, <1>3 DEF Left
  <2> QED
    BY <1>1, <1>5, <2>2, <2>3, HeldBecome
<1>6. CASE Become(p, e, net)
  <2>1. Upholds(p, e)
    BY <1>1, <1>4, HeldIdles
  <2>2. Left(p, e, net)
    BY PlainlyLeft
  <2> QED
    BY <1>1, <1>6, <2>1, <2>2, HeldBecome
<1> QED
  BY <1>1, <1>5, <1>6

LEMMA RunningHeld ==
    ASSUME TypeInv, TypeInv', SessionAssumption, TurnInv, TurnInv', HeldInv, NEW p \in Procs,
           MediaReady(p) \/ RenewalDue(p)
    PROVE  HeldInv'
<1> DEFINE o == h[p]
           a == [o EXCEPT !.media = TRUE]
           e == sendRenewal(o)
<1>1. /\ Open(p) /\ UNCHANGED <<tokens, session, granted>>
      /\ \/ o.opened /\ Become(p, a, net)
         \/ UNCHANGED journal /\ Become(p, e, net)
  BY DEF MediaReady, RenewalDue, Open, SessionAssumption, radio
<1>2. DOMAIN o = Fields /\ Ordered(o)
  BY OfProcess DEF TurnInv
<1>3. /\ a.pred = o.pred /\ a.reported = o.reported /\ a.owned = o.owned
      /\ (\A f \in Watched : a[f] = o[f]) /\ (\A k \in Weighty : a[k] = o[k])
  BY <1>2 DEF Watched, Weighty, Fields, Flags, Kinds
<1>4. /\ e.pred = o.pred /\ e.reported = o.reported
      /\ (\A f \in Watched : e[f] = o[f]) /\ (\A k \in Weighty : e[k] = o[k])
  BY <1>2 DEF sendRenewal, Watched, Weighty, Fields, Flags, Kinds
<1> HIDE DEF a, e
<1>5. CASE o.opened /\ Become(p, a, net)
  <2>1. o.owned /\ o.pred = NoProc
    BY <1>2, <1>5, Zenon DEF Ordered, Idle
  <2>2. /\ a.stream.pending = o.stream.pending /\ a.owned /\ a.pred = NoProc
        /\ o.reported => a.reported
    BY <1>3, <2>1 DEF Weighty
  <2>3. Upholds(p, a)
    <3> HIDE DEF o
    <3> QED
      BY <1>1, <1>3, <2>2, HeldIdles DEF o
  <2>4. Left(p, a, net)
    BY PlainlyLeft
  <2> QED
    BY <1>1, <1>5, <2>3, <2>4, HeldBecome
<1>6. CASE UNCHANGED journal /\ Become(p, e, net)
  <2>1. e.stream.pending = o.stream.pending
    BY <1>4 DEF Weighty
  <2>2. Upholds(p, e)
    BY <1>4, <1>1, <1>6, <2>1, HeldIdles
  <2>3. Left(p, e, net)
    BY PlainlyLeft
  <2> QED
    BY <1>1, <1>6, <2>2, <2>3, HeldBecome
<1> QED
  BY <1>1, <1>5, <1>6

\* The shutdown of an owner.
LEMMA ReleaseHeld ==
    ASSUME TypeInv, TypeInv', SessionAssumption, TurnInv, TurnInv', HeldInv, NEW p \in Procs,
           \/ Shutdown(p) /\ permitsRadioTeardown(h[p])
           \/ SettleEnds(p)
    PROVE  HeldInv'
<1> DEFINE o == h[p]
           a == [o EXCEPT !.phase = "settling", !.ticking = FALSE, !.ack = FALSE, !.disc = FALSE]
           e == [o EXCEPT !.phase = "removing", !.attempts = 0, !.disc = FALSE]
           left == IF o.opened THEN net \cup {Msg("depart", NoProc, 0, o.id)} ELSE net
<1>1. /\ Open(p) /\ UNCHANGED <<journal, tokens, session, granted>>
      /\ \/ o.phase \in {"discover", "up"} /\ o.owned /\ Become(p, a, left)
         \/ o.phase = "settling" /\ h' = [h EXCEPT ![p] = e] /\ UNCHANGED <<net, names>>
  <2>1. CASE Shutdown(p) /\ permitsRadioTeardown(h[p])
    BY <2>1 DEF Shutdown, permitsRadioTeardown, Open, SessionAssumption, radio
  <2>2. CASE SettleEnds(p)
    BY <2>2 DEF SettleEnds, Open, SessionAssumption, radio
  <2> QED
    BY <2>1, <2>2
<1>2. DOMAIN o = Fields /\ Ordered(o)
  BY OfProcess DEF TurnInv
<1>3. o.phase = "settling" => o.owned
  BY <1>2 DEF Ordered
<1>4. o.owned => o.authed /\ ~o.relogin /\ o.pred = NoProc /\ o.phase # "discover"
  BY <1>2, Zenon DEF Ordered, Idle
<1>5. Removing(o) /\ EndedFinally(p)
  BY <1>1 DEF HeldInv
<1>6. /\ a.phase = "settling" /\ a.id = o.id /\ a.authed = o.authed /\ a.relogin = o.relogin
      /\ a.pred = o.pred /\ ~a.ack /\ ~a.disc /\ \A k \in Kinds : a[k] = o[k]
  BY <1>2 DEF Fields, Flags, Kinds
<1>7. /\ e.phase = "removing" /\ e.id = o.id /\ e.authed = o.authed /\ e.relogin = o.relogin
      /\ e.pred = o.pred /\ e.ack = o.ack /\ ~e.disc /\ \A k \in Kinds : e[k] = o[k]
  BY <1>2 DEF Fields, Flags, Kinds
<1> HIDE DEF a, e, left
<1>8. ASSUME NEW t, t.phase \in {"settling", "removing"}, t.id = o.id, t.authed = o.authed,
             ~t.relogin, t.pred = NoProc, ~t.ack, ~t.disc, \A k \in Kinds : t[k] = o[k],
             ~o.removal.pending
      PROVE  Upholds(p, t) /\ Fresh(p, t) = {}
  <2>1. Fresh(p, t) = {}
    BY <1>8 DEF Fresh
  <2>2. t.removal = o.removal /\ t.login = o.login
    BY <1>8 DEF Kinds
  <2>3. Removing(t) /\ ~Idling(t)
    BY <1>8, <2>2 DEF Removing, Idling
  <2>4. \A m \in net : m.kind = "ended" /\ m.p = p /\ m.id = t.id /\ t.authed => Unheld(m.id[1])
    BY <1>5, <1>8 DEF EndedFinally
  <2>5. Upholds(p, t)
    BY <1>1, <1>8, <2>1, <2>2, <2>3, <2>4 DEF Upholds
  <2> QED
    BY <2>1, <2>5
<1>9. CASE o.phase \in {"discover", "up"} /\ o.owned /\ Become(p, a, left)
  <2>1. ~o.removal.pending
    BY <1>4, <1>5, <1>9 DEF Removing
  <2>2. Upholds(p, a)
    BY <1>4, <1>6, <1>8, <1>9, <2>1
  <2>3. Left(p, a, left)
    <3>1. \A m \in left : m \in net \/ (m.p = NoProc /\ m.kind = "depart")
      BY DEF left, Msg
    <3> QED
      BY <3>1, PlainlyLeft
  <2> QED
    BY <1>1, <1>9, <2>2, <2>3, HeldBecome
<1>10. CASE o.phase = "settling" /\ h' = [h EXCEPT ![p] = e] /\ UNCHANGED <<net, names>>
  <2>1. ~o.removal.pending /\ ~o.ack
    BY <1>5, <1>10 DEF Removing
  <2>2. Upholds(p, e) /\ Fresh(p, e) = {}
    BY <1>3, <1>4, <1>7, <1>8, <1>10, <2>1
  <2>3. Become(p, e, net)
    BY <1>10, <2>2 DEF Become
  <2>4. Left(p, e, net)
    BY PlainlyLeft
  <2> QED
    BY <1>1, <2>2, <2>3, <2>4, HeldBecome
<1> QED
  BY <1>1, <1>9, <1>10

LEMMA RemovalAttemptHeld ==
    ASSUME TypeInv, TypeInv', SessionAssumption, TurnInv, TurnInv', HeldInv, NEW p \in Procs,
           RemovalAttempt(p)
    PROVE  HeldInv'
<1> DEFINE o == h[p]
           x == [o EXCEPT !.attempts = @ + 1]
           t == sendRemoval(x)
           Kept == {"phase", "id", "authed", "relogin", "ack", "disc", "pred"}
<1>1. /\ o.phase = "removing" /\ ~o.ack /\ ~o.disc /\ Open(p)
      /\ UNCHANGED <<journal, tokens, session, granted>> /\ Become(p, t, net)
  BY DEF RemovalAttempt, Open, SessionAssumption, radio
<1>2. DOMAIN o = Fields /\ Ordered(o) /\ o.seq \in Nat
  BY OfProcess DEF TurnInv
<1>3. /\ DOMAIN x = Fields /\ (\A f \in Kept : x[f] = o[f]) /\ (\A k \in Kinds : x[k] = o[k])
      /\ x.seq = o.seq
  BY <1>2 DEF Fields, Flags, Kinds
<1> HIDE DEF x
<1>4. /\ t.removal.seq = x.seq /\ t.removal.id = x.id
      /\ (\A f \in Kept : t[f] = x[f]) /\ \A k \in Kinds \ {"removal"} : t[k] = x[k]
  BY <1>3 DEF sendRemoval, Begun, Fields, Flags, Kinds
<1> HIDE DEF t
<1>5. /\ t.phase = "removing" /\ t.id = o.id /\ t.authed = o.authed /\ t.relogin = o.relogin
      /\ ~t.ack /\ ~t.disc /\ t.pred = o.pred /\ t.removal.id = o.id /\ t.removal.seq = o.seq
  BY <1>1, <1>3, <1>4
<1>6. t.login = o.login /\ t.stream = o.stream
  BY <1>3, <1>4 DEF Kinds
<1>7. o.owned /\ o.pred = NoProc /\ ~o.relogin
  BY <1>1, <1>2 DEF Ordered, Idle
<1>8. Claimed(o.id) /\ EndedFinally(p)
  BY <1>1, <1>7 DEF TurnInv, Recorded, Covers, Claimed, HeldInv
<1>9. Removing(t) /\ ~Idling(t)
  BY <1>5, <1>7 DEF Removing, Idling
<1>10. "login" \notin Fresh(p, t) /\ "stream" \notin Fresh(p, t)
  BY <1>6 DEF Fresh
<1>11. t.removal.seq >= o.seq
  BY <1>2, <1>5
<1>12. \A m \in net : m.kind = "ended" /\ m.p = p /\ m.id = t.id /\ t.authed => Unheld(m.id[1])
  BY <1>5, <1>8 DEF EndedFinally
<1>13. Upholds(p, t)
  BY <1>1, <1>5, <1>6, <1>7, <1>8, <1>9, <1>10, <1>11, <1>12 DEF Upholds
<1>14. Left(p, t, net)
  BY PlainlyLeft
<1> QED
  BY <1>1, <1>13, <1>14, HeldBecome

\* Nobody is connected when a handler has closed, or a process that was not
\* connected has exited.
LEMMA ClosingHeld ==
    ASSUME TypeInv, SessionAssumption, TurnInv, HeldInv, Apart, NEW p \in Procs,
           \/ Shutdown(p) /\ ~permitsRadioTeardown(h[p])
           \/ ShutdownCompletes(p)
           \/ Crash(p)
    PROVE  HeldInv'
<1>1. PICK f \in {"off", "dead"} : h' = [h EXCEPT ![p] = Handler(f)]
  BY DEF Shutdown, ShutdownCompletes, Crash, Closed
<1>2. DOMAIN h = Procs
  BY OfProcess
<1>3. h'[p].phase = f
  BY <1>1, <1>2 DEF Handler
<1>4. \A q \in Procs : Open(q) => q = p
  <2>1. CASE Open(p)
    BY <2>1 DEF TurnInv, Sole
  <2>2. CASE ~Open(p)
    <3>1. Crash(p) /\ h[p].phase = "off"
      BY <2>2 DEF Shutdown, ShutdownCompletes, Crash, Open, SessionAssumption
    <3>2. h'[p].phase = "dead"
      BY <1>2, <3>1 DEF Crash, Handler
    <3> QED
      BY <3>1, <3>2 DEF Apart
  <2> QED
    BY <2>1, <2>2
<1>5. \A q \in Procs : ~Open(q)'
  BY <1>1, <1>2, <1>3, <1>4 DEF Open
<1>6. /\ UNCHANGED <<names, tokens, session, granted>> /\ journal' \subseteq journal
      /\ \A m \in net' : m \in Orphaned(p) \/ m.kind = "depart"
  <2>1. CASE Shutdown(p) /\ ~permitsRadioTeardown(h[p])
    BY <2>1 DEF Shutdown, Closed, radio
  <2>2. CASE ShutdownCompletes(p)
    BY <2>2 DEF ShutdownCompletes, ReleasedJournal, JournalWithout, Closed, radio, Msg
  <2>3. CASE Crash(p)
    BY <2>3 DEF Crash, radio
  <2> QED
    BY <2>1, <2>2, <2>3
<1> DEFINE Source(m, d) == /\ m.kind = d.kind /\ m.id = d.id /\ m.seq = d.seq
                           /\ m = IF d.p = p THEN [d EXCEPT !.p = NoProc] ELSE d
<1>7. \A m \in Orphaned(p) : m \in net \/ m.kind \in Requests
  <2>1. \A d \in net : DOMAIN d = {"kind", "p", "seq", "id"}
    BY DEF TypeInv, MailSound, Mail
  <2> QED
    BY <2>1 DEF Orphaned
<1>8. \A m \in Orphaned(p) : \E d \in net : Source(m, d)
  <2>1. \A d \in net : DOMAIN d = {"kind", "p", "seq", "id"}
    BY DEF TypeInv, MailSound, Mail
  <2> QED
    BY <2>1 DEF Orphaned
<1>9. ASSUME NEW m \in net' PROVE Posted(m)'
  <2>1. CASE m.kind = "depart"
    BY <2>1 DEF Posted
  <2>2. CASE m.kind # "depart"
    <3>1. PICK d \in net : Source(m, d)
      BY <1>6, <1>8, <2>2
    <3>2. Posted(d)
      BY DEF HeldInv
    <3>3. ASSUME m.kind = "login", NEW o \in net', o.kind = "login", o.id[1] = m.id[1]
          PROVE  o = m
      <4>1. PICK u \in net : Source(o, u)
        BY <1>6, <1>8, <3>3
      <4>2. u = d
        BY <3>1, <3>2, <3>3, <4>1 DEF Posted
      <4> QED
        BY <3>1, <4>1, <4>2
    <3>4. m.kind = "ended" => m \in net
      BY <1>6, <1>7 DEF Requests, Kinds
    <3>5. m.kind = "ended" => m.seq = 0 /\ m.id[1] \in 1 .. Len(names) /\ m.p = names[m.id[1]]
      BY <3>4 DEF HeldInv, Posted
    <3>6. m.kind = "login" => m.id[1] \notin tokens \cup granted
      BY <3>1, <3>2 DEF Posted
    <3>7. m.kind \in {"removal", "removed"} => Claimed(m.id)
      BY <3>1, <3>2 DEF Posted
    <3>8. m.kind = "removed" => m.id[1] \notin tokens
      BY <3>1, <3>2 DEF Posted
    <3> HIDE DEF Source
    <3> QED
      BY <1>6, <3>3, <3>5, <3>6, <3>7, <3>8 DEF Posted, Claimed
  <2> QED
    BY <2>1, <2>2
<1>10. \A j \in journal' : Claimed(j.id)'
  BY <1>6 DEF HeldInv, Claimed
<1> QED
  BY <1>5, <1>9, <1>10 DEF HeldInv

-----------------------------------------------------------------------------
(* The radio and the network.                                              *)

\* The radio learns no number that was granted the streams, and no answer is
\* new but one that follows from what it is about.
Confirms(o) ==
    /\ Posted(o)'
    /\ \E m \in net : m.kind = "removal" /\ m.p = o.p /\ m.seq = o.seq /\ m.id = o.id
Concludes(o) ==
    /\ Posted(o)' /\ session # 0 /\ session' = 0 /\ o.id = Id(session)
    /\ \A m \in net : m.kind # "stream"
    /\ \A q \in Procs : Open(q) => ~h[q].stream.pending

LEMMA HeldElsewhere ==
    ASSUME TypeInv, TypeInv', TurnInv, HeldInv, UNCHANGED <<h, journal, names>>, Handed,
           granted \subseteq granted', \A n \in tokens' : n \in tokens \/ n \notin granted,
           \A m \in net' : m.kind = "login" => m.id[1] \notin tokens' \cup granted',
           \A m \in net' : \/ m \in net
                           \/ m.kind = "removed" /\ Confirms(m)
                           \/ m.kind = "ended" /\ Concludes(m)
                           \/ m.kind \notin {"login", "removal", "stream", "removed", "ended"}
    PROVE  HeldInv'
<1>1. ASSUME NEW n, Unheld(n) PROVE Unheld(n)'
  <2>1. session' # n
    BY <1>1 DEF Unheld, Handed
  <2>2. \A m \in net' : m.kind = "stream" => m \in net
    OBVIOUS
  <2> QED
    BY <1>1, <2>1, <2>2 DEF Unheld
<1>2. \A x : Claimed(x) => Claimed(x)' /\ x[1] \in granted
  BY DEF Claimed
<1>3. ASSUME NEW m \in net' PROVE Posted(m)'
  <2>1. CASE m \in net
    <3>1. Posted(m)
      BY <2>1 DEF HeldInv
    <3>2. m.kind = "login" => \A o \in net' : o.kind = "login" /\ o.id[1] = m.id[1] => o = m
      <4>1. \A o \in net' : o.kind = "login" => o \in net
        OBVIOUS
      <4> QED
        BY <3>1, <4>1 DEF Posted
    <3>3. m.kind \in {"removal", "removed"} => Claimed(m.id) /\ Claimed(m.id)'
      BY <1>2, <3>1 DEF Posted
    <3>4. m.kind = "removed" => m.id[1] \notin tokens'
      BY <1>2, <3>1, <3>3 DEF Posted
    <3>5. m.kind = "ended" => m.seq = 0 /\ m.id[1] \in 1 .. Len(names) /\ m.p = names[m.id[1]]
      BY <3>1 DEF Posted
    <3> QED
      BY <3>2, <3>3, <3>4, <3>5 DEF Posted
  <2>2. CASE m \notin net
    BY <2>2 DEF Confirms, Concludes, Posted
  <2> QED
    BY <2>1, <2>2
<1>4. \A j \in journal' : Claimed(j.id)'
  BY <1>2 DEF HeldInv
<1>5. ASSUME NEW p \in Procs, Open(p)
      PROVE  /\ Removing(h[p]) /\ Confirmed(h[p])' /\ RemovedOwn(p)'
             /\ Holding(h[p])' /\ EndedFinally(p)'
  <2> DEFINE o == h[p]
  <2>1. /\ Removing(o) /\ Confirmed(o) /\ RemovedOwn(p) /\ Holding(o) /\ EndedFinally(p)
    BY <1>5 DEF HeldInv
  <2>2. Confirmed(o)'
    <3>1. o.phase = "removing" => o.id[1] \in granted
      BY <1>5 DEF TurnInv, Ordered, Recorded, Covers
    <3> QED
      BY <1>2, <2>1, <3>1 DEF Confirmed
  <2>3. RemovedOwn(p)'
    <3> SUFFICES ASSUME NEW m \in net', m.kind = "removed", m.p = p, m.seq = o.removal.seq
                 PROVE  m.id = o.removal.id
      BY DEF RemovedOwn
    <3>1. CASE m \in net
      BY <2>1, <3>1 DEF RemovedOwn
    <3>2. CASE m \notin net
      <4>1. PICK d \in net : d.kind = "removal" /\ d.p = p /\ d.seq = o.removal.seq /\ d.id = m.id
        BY <3>2 DEF Confirms
      <4> QED
        BY <1>5, <4>1 DEF TurnInv, Told, Kinds
    <3> QED
      BY <3>1, <3>2
  <2>4. ASSUME NEW m \in net', m.kind = "ended", m \notin net
        PROVE  Concludes(m) /\ Unheld(m.id[1])' /\ m.id[1] = session
    <3>1. Concludes(m) /\ session \in Nat
      BY <2>4 DEF TypeInv, RadioSound
    <3>2. m.id[1] = session
      BY <3>1 DEF Concludes, Id
    <3>3. \A d \in net' : d.kind # "stream"
      BY <3>1 DEF Concludes
    <3> QED
      BY <3>1, <3>2, <3>3 DEF Concludes, Unheld
  <2>5. Holding(o)'
    <3>1. ASSUME o.login.pending
          PROVE  \A m \in net' : m.kind = "ended" => m.id # Id(o.login.id[1])
      <4> SUFFICES ASSUME NEW m \in net', m.kind = "ended", m.id = Id(o.login.id[1])
                   PROVE  FALSE
        OBVIOUS
      <4>1. CASE m \in net
        BY <2>1, <3>1, <4>1 DEF Holding
      <4>2. CASE m \notin net
        <5>1. m.id[1] = session /\ m.id[1] = o.login.id[1]
          BY <2>4, <4>2 DEF Id
        <5> QED
          BY <2>1, <3>1, <5>1 DEF Holding, Unheld
      <4> QED
        BY <4>1, <4>2
    <3>2. o.login.pending => Unheld(o.login.id[1])'
      BY <1>1, <2>1 DEF Holding
    <3>3. o.phase = "removing" /\ o.disc => Unheld(o.id[1])'
      BY <1>1, <2>1 DEF Holding
    <3>4. Idling(o) => Unheld(o.id[1])'
      BY <1>1, <2>1 DEF Holding
    <3> QED
      BY <3>1, <3>2, <3>3, <3>4 DEF Holding, Idling, Unheld
  <2>6. EndedFinally(p)'
    <3> SUFFICES ASSUME NEW m \in net', m.kind = "ended", m.p = p, m.id = o.id, o.authed
                 PROVE  Unheld(m.id[1])' /\ (o.phase = "up" => o.opened \/ o.reported)
      BY DEF EndedFinally
    <3>1. CASE m \in net
      BY <1>1, <2>1, <3>1 DEF EndedFinally
    <3>2. CASE m \notin net
      <4>1. ~o.stream.pending
        BY <1>5, <2>4, <3>2 DEF Concludes
      <4>2. ~Idling(o)
        BY <2>1, <2>4, <3>2 DEF Holding, Unheld
      <4> QED
        BY <2>4, <3>2, <4>1, <4>2 DEF Idling
    <3> QED
      BY <3>1, <3>2
  <2> QED
    BY <2>1, <2>2, <2>3, <2>5, <2>6
<1>6. \A p \in Procs : Open(p)' <=> Open(p)
  BY DEF Open
<1>7. \A p \in Procs : Removing(h[p]) => Removing(h[p])'
  BY DEF Removing
<1> QED
  BY <1>3, <1>4, <1>5, <1>6, <1>7 DEF HeldInv

\* Nothing weighty is new.
LEMMA LessHeld ==
    ASSUME TypeInv, TypeInv', TurnInv, HeldInv, UNCHANGED <<h, journal, names>>, Handed,
           tokens' = tokens, granted' = granted,
           \A m \in net' : \/ m \in net
                           \/ m.kind \notin {"login", "removal", "stream", "removed", "ended"}
    PROVE  HeldInv'
<1>1. \A m \in net' : m.kind = "login" => m.id[1] \notin tokens' \cup granted'
  BY DEF HeldInv, Posted
<1> QED
  BY <1>1, HeldElsewhere

LEMMA RadioLoginHeld ==
    ASSUME TypeInv, TypeInv', TurnInv, HeldInv, NEW m \in net, RadioLogin(m)
    PROVE  HeldInv'
<1>1. /\ m.kind = "login" /\ UNCHANGED <<h, journal, names, session, granted>>
      /\ tokens' \subseteq tokens \cup {m.id[1]}
      /\ \A d \in net' : (d \in net /\ d # m) \/ d.kind \in {"welcome", "denied"}
  BY DEF RadioLogin, Sent, Answer, Msg
<1>2. Posted(m)
  BY DEF HeldInv
<1>3. \A d \in net' : d.kind = "login" => d.id[1] \notin tokens' \cup granted'
  <2> SUFFICES ASSUME NEW d \in net', d.kind = "login"
               PROVE  d.id[1] \notin tokens' \cup granted'
    OBVIOUS
  <2>1. d \in net /\ d # m
    BY <1>1
  <2>2. d.id[1] # m.id[1]
    BY <1>1, <1>2, <2>1 DEF Posted
  <2>3. d.id[1] \notin tokens \cup granted
    BY <2>1 DEF HeldInv, Posted
  <2> QED
    BY <1>1, <2>2, <2>3
<1>4. \A n \in tokens' : n \in tokens \/ n \notin granted
  BY <1>1, <1>2 DEF Posted
<1> QED
  BY <1>1, <1>3, <1>4, HeldElsewhere DEF Handed

LEMMA RadioRemovesHeld ==
    ASSUME TypeInv, TypeInv', TurnInv, HeldInv, NEW m \in net, RadioRemoves(m)
    PROVE  HeldInv'
<1> DEFINE a == Msg("removed", m.p, m.seq, m.id)
<1>1. /\ m.kind = "removal" /\ UNCHANGED <<h, journal, names, granted>>
      /\ tokens' = IF Authentic(m) THEN tokens \ {m.id[1]} ELSE tokens
      /\ session' \in {0, session}
      /\ \A d \in net' : d \in net \/ d = a
  BY DEF RadioRemoves, Sent, Answer
<1>2. a.kind = "removed" /\ a.p = m.p /\ a.seq = m.seq /\ a.id = m.id
  BY DEF Msg
<1> HIDE DEF a
<1>3. Claimed(m.id)
  BY <1>1 DEF HeldInv, Posted
<1>4. m.id[1] \notin tokens'
  BY <1>1, <1>3 DEF Authentic, Claimed, Id
<1>5. Confirms(a)
  BY <1>1, <1>2, <1>3, <1>4 DEF Confirms, Posted, Claimed
<1>6. tokens' \subseteq tokens
  BY <1>1
<1>7. \A d \in net' : d.kind = "login" => d.id[1] \notin tokens' \cup granted'
  BY <1>1, <1>2, <1>6 DEF HeldInv, Posted
<1> QED
  BY <1>1, <1>2, <1>5, <1>6, <1>7, HeldElsewhere DEF Handed

LEMMA RadioGrantsHeld ==
    ASSUME TypeInv, TypeInv', TurnInv, HeldInv, NEW m \in net, RadioGrants(m)
    PROVE  HeldInv'
<1>1. /\ m.kind = "stream" /\ Authentic(m) /\ UNCHANGED <<h, journal, names, tokens>>
      /\ session' = m.id[1] /\ granted' = granted \cup {m.id[1]}
      /\ \A d \in net' : d \in net \/ d.kind \in {"grant", "advert"}
  BY DEF RadioGrants, Sent, Answer, Msg
<1>2. m.id = Id(session')
  <2>1. m.id \in Nat \X Nat
    BY DEF TypeInv, MailSound, Mail, Ids
  <2>2. m.id = <<m.id[1], m.id[2]>>
    BY <2>1
  <2> QED
    BY <1>1, <2>2 DEF Authentic, Id
<1>3. Handed
  BY <1>1, <1>2 DEF Handed
<1>4. m.id[1] \in tokens
  BY <1>1 DEF Authentic
<1>5. \A d \in net' : d.kind = "login" => d.id[1] \notin tokens' \cup granted'
  BY <1>1, <1>4 DEF HeldInv, Posted
<1> QED
  BY <1>1, <1>3, <1>5, HeldElsewhere

LEMMA RadioEndsHeld ==
    ASSUME TypeInv, TypeInv', TurnInv, HeldInv, RadioEnds
    PROVE  HeldInv'
<1>0. PICK a : a = Msg("ended", names[session], 0, Id(session))
  OBVIOUS
<1>1. /\ session # 0 /\ session' = 0 /\ UNCHANGED <<h, journal, names, tokens, granted>>
      /\ \A q \in Procs : Open(q) => ~h[q].stream.pending
      /\ \A m \in net : m.kind # "stream"
      /\ \A d \in net' : d \in net \/ d = a
  BY <1>0 DEF RadioEnds
<1>2. a.kind = "ended" /\ a.p = names[session] /\ a.seq = 0 /\ a.id = Id(session)
  BY <1>0 DEF Msg
<1>3. session \in 1 .. Len(names) /\ Id(session)[1] = session
  BY <1>1 DEF TypeInv, RadioSound, Id
<1>4. Concludes(a)
  BY <1>1, <1>2, <1>3 DEF Concludes, Posted
<1>5. \A d \in net' : d.kind = "login" => d.id[1] \notin tokens' \cup granted'
  BY <1>1, <1>2 DEF HeldInv, Posted
<1> QED
  BY <1>1, <1>2, <1>4, <1>5, HeldElsewhere DEF Handed

LEMMA SurroundingsHeld ==
    ASSUME TypeInv, TypeInv', Steadfast, TurnInv, HeldInv,
           \/ \E p \in Procs : RadioAdvertises(p)
           \/ \E m \in net : \/ Ignored(m) \/ Lose(m) \/ RadioSeesDeparture(m)
                             \/ RadioRenews(m) \/ RadioRejects(m)
           \/ Environment
    PROVE  HeldInv'
<1>1. CASE \E p \in Procs : RadioAdvertises(p)
  <2>1. /\ UNCHANGED <<h, journal, names, tokens, session, granted>>
        /\ \A m \in net' : m \in net \/ m.kind \in {"free", "foreign", "busy"}
    BY <1>1 DEF RadioAdvertises, Msg, radio
  <2> QED
    BY <2>1, LessHeld DEF Handed
<1>2. CASE \E m \in net : Ignored(m) \/ Lose(m) \/ RadioSeesDeparture(m)
  <2>1. /\ UNCHANGED <<h, journal, names, tokens, granted>> /\ session' \in {session, 0}
        /\ net' \subseteq net
    BY <1>2 DEF Ignored, Lose, RadioSeesDeparture, Answer, radio
  <2> QED
    BY <2>1, LessHeld DEF Handed
<1>3. CASE \E m \in net : RadioRenews(m) \/ RadioRejects(m)
  <2>1. /\ UNCHANGED <<h, journal, names, tokens, session, granted>>
        /\ \A d \in net' : d \in net \/ d.kind \in {"renewed", "refused", "rejected"}
    BY <1>3 DEF RadioRenews, RadioRejects, Steadfast, Answer, Msg, radio
  <2> QED
    BY <2>1, LessHeld DEF Handed
<1>4. CASE Environment
  <2>1. CASE RadioEnds BY <2>1, RadioEndsHeld
  <2>2. CASE ForeignTakes \/ ForeignLeaves
    <3>1. UNCHANGED <<h, journal, names, tokens, session, granted, net>>
      BY <2>2 DEF ForeignTakes, ForeignLeaves
    <3> QED
      BY <3>1, LessHeld DEF Handed
  <2>3. ~RadioForgets
    BY DEF RadioForgets, Steadfast
  <2> QED
    BY <1>4, <2>1, <2>2, <2>3 DEF Environment
<1> QED
  BY <1>1, <1>2, <1>3, <1>4

LEMMA AtRadioHeld ==
    ASSUME TypeInv, TypeInv', Steadfast, TurnInv, HeldInv, NEW m \in net, AtRadio(m)
    PROVE  HeldInv'
<1>1. CASE RadioLogin(m) BY <1>1, RadioLoginHeld
<1>2. CASE RadioRemoves(m) BY <1>2, RadioRemovesHeld
<1>3. CASE RadioGrants(m) BY <1>3, RadioGrantsHeld
<1>4. CASE RadioRenews(m) \/ RadioRejects(m) \/ RadioSeesDeparture(m)
  BY <1>4, SurroundingsHeld
<1> QED
  BY <1>1, <1>2, <1>3, <1>4, Zenon DEF AtRadio

LEMMA ArrivalHeld ==
    ASSUME TypeInv, TypeInv', Steadfast, Prompt = TRUE, OwnInv, TurnInv, TurnInv', HeldInv,
           Unreset', NEW m \in net, Arrival(m)
    PROVE  HeldInv'
<1>1. CASE LoginResponse(m) BY <1>1, LoginResponseHeld
<1>2. CASE LoginDenied(m) BY <1>2, LoginDeniedHeld
<1>3. CASE TokenRenewed(m) BY <1>3, TokenRenewedHeld
<1>4. CASE TokenRefused(m) BY <1>4, NoneRefused
<1>5. CASE StreamGranted(m) BY <1>5, StreamGrantedHeld
<1>6. CASE StreamRejected(m) BY <1>6, StreamRejectedHeld
<1>7. CASE GrantAdvertised(m) BY <1>7, GrantAdvertisedHeld
<1>8. CASE InfoIgnored(m) \/ BusyBySelf(m) \/ BusyByForeign(m) \/ BusyBySibling(m)
  BY <1>8, StatusHeld
<1>9. CASE RadioAvailable(m) BY <1>9, RadioAvailableHeld
<1>10. CASE RemovalAcknowledged(m) BY <1>10, AcknowledgedHeld
<1>11. CASE SessionEnded(m) BY <1>11, EndedHeld
<1>12. CASE Ignored(m) BY <1>12, SurroundingsHeld
<1> QED
  BY <1>1, <1>2, <1>3, <1>4, <1>5, <1>6, <1>7, <1>8, <1>9, <1>10, <1>11, <1>12, Zenon DEF Arrival

LEMMA InitHeld == ASSUME SessionAssumption, Init PROVE HeldInv
<1>1. \A p \in Procs : ~Open(p)
  BY DEF Init, Open, Handler
<1> QED
  BY <1>1 DEF Init, HeldInv

LEMMA StepHeld ==
    ASSUME TypeInv, SessionAssumption, Steadfast, Prompt = TRUE, OwnInv, TurnInv, HeldInv,
           Unreset', [Next]_vars, [Apart]_vars
    PROVE  HeldInv'
<1>1. TypeInv' /\ TurnInv'
  BY StepTyped, StepKept
<1>2. CASE UNCHANGED vars
  <2>1. UNCHANGED <<h, journal, net, names, tokens, session, granted>>
    BY <1>2 DEF vars, radio
  <2> QED
    BY <1>1, <2>1, LessHeld DEF Handed
<1>3. CASE Apart /\ Next
  <2>1. ASSUME NEW p \in Procs,
               Connect(p) \/ Shutdown(p) \/ Crash(p) \/ Teardown(p) \/ Timers(p)
        PROVE  HeldInv'
    <3>1. CASE Connect(p) BY <3>1, ConnectHeld
    <3>2. CASE (Shutdown(p) /\ permitsRadioTeardown(h[p])) \/ SettleEnds(p)
      BY <1>1, <3>2, ReleaseHeld
    <3>3. CASE (Shutdown(p) /\ ~permitsRadioTeardown(h[p])) \/ ShutdownCompletes(p) \/ Crash(p)
      BY <1>3, <3>3, ClosingHeld
    <3>4. CASE RemovalAttempt(p) BY <1>1, <3>4, RemovalAttemptHeld
    <3>5. CASE TransportReady(p) BY <1>1, <3>5, TransportReadyHeld
    <3>6. CASE PredecessorRetry(p) BY <1>1, <3>6, PredecessorRetryHeld
    <3>7. ~LoginAgain(p)
      BY DEF LoginAgain, Open, SessionAssumption, HeldInv, Removing
    <3>8. CASE MediaReady(p) \/ RenewalDue(p) BY <1>1, <3>8, RunningHeld
    <3> QED
      BY <2>1, <3>1, <3>2, <3>3, <3>4, <3>5, <3>6, <3>7, <3>8, Zenon DEF Teardown, Timers
  <2>2. CASE \E p \in Procs : RadioAdvertises(p)
    BY <1>1, <2>2, SurroundingsHeld
  <2>3. ASSUME NEW m \in net, Arrival(m) \/ AtRadio(m) \/ Lose(m)
        PROVE  HeldInv'
    BY <1>1, <2>3, ArrivalHeld, AtRadioHeld, SurroundingsHeld
  <2>4. CASE Environment
    BY <1>1, <2>4, SurroundingsHeld
  <2> QED
    BY <1>3, <2>1, <2>2, <2>3, <2>4, Zenon DEF Next
<1> QED
  BY <1>2, <1>3, Zenon

-----------------------------------------------------------------------------
(* Whose record is given up.                                               *)

\* A retired identity that was granted the streams is not the session's.
LEMMA RetiredIsOver ==
    ASSUME TypeInv, NEW id, Claimed(id), id[1] \notin tokens \/ Unheld(id[1])
    PROVE  id # Id(session)
<1>1. id[1] # 0 /\ session \in tokens \cup {0}
  BY DEF Claimed, TypeInv, RadioSound
<1>2. session # id[1]
  BY <1>1 DEF Unheld
<1> QED
  BY <1>2 DEF Id

LEMMA RecoveryGivesUp ==
    ASSUME TypeInv, OwnInv, TurnInv, HeldInv, NEW m \in net,
           RemovalAcknowledged(m) \/ SessionEnded(m), NEW j \in journal, journal' = {}
    PROVE  j.id # Id(session)
<1> DEFINE o == h[m.p]
           s == [Cleared(o, {"removal"}) EXCEPT !.ack = TRUE]
           e == [o EXCEPT !.disc = TRUE]
<1>1. Open(m.p)
  BY DEF RemovalAcknowledged, SessionEnded, Arrives
<1>2. m.p \in Procs /\ DOMAIN o = Fields
  BY <1>1, Addressed
<1>3. s.pred = o.pred /\ e.pred = o.pred
  BY <1>2 DEF Cleared, Fields
<1>4. journal' = journal \/ (o.pred # NoProc /\ journal' = JournalWithout(o.pred))
  <2> HIDE DEF o, s, e
  <2>1. CASE RemovalAcknowledged(m)
    <3>1. IF s.pred # NoProc THEN journal' = JournalWithout(s.pred) ELSE UNCHANGED journal
      BY <2>1, Zenon DEF RemovalAcknowledged, s, o
    <3> QED
      BY <1>3, <3>1
  <2>2. CASE SessionEnded(m)
    <3>1. IF e.pred # NoProc THEN journal' = JournalWithout(e.pred) ELSE UNCHANGED journal
      BY <2>2, Zenon DEF SessionEnded, e, o
    <3> QED
      BY <1>3, <3>1
  <2> QED
    BY <2>1, <2>2
<1> HIDE DEF s, e
<1>5. o.pred # NoProc /\ j.owner = o.pred
  BY <1>4 DEF JournalWithout
<1>6. /\ Removing(o) /\ Confirmed(o) /\ RemovedOwn(m.p) /\ Posted(m) /\ Claimed(j.id)
  BY <1>1, <1>2 DEF HeldInv
<1>7. j.id = o.id
  BY <1>5, <1>6 DEF Confirmed
<1>8. CASE RemovalAcknowledged(m)
  <2>1. m.kind = "removed" /\ m.seq = o.removal.seq
    BY <1>8 DEF RemovalAcknowledged, Arrives, Relevant, Answers
  <2>2. m.id = o.id
    BY <1>5, <1>6, <2>1 DEF Removing, RemovedOwn
  <2>3. j.id[1] \notin tokens
    BY <1>6, <1>7, <2>1, <2>2 DEF Posted
  <2> QED
    BY <1>6, <2>3, RetiredIsOver
<1>9. CASE SessionEnded(m)
  <2>1. m.kind = "ended" /\ m.id = o.id
    BY <1>9 DEF SessionEnded, Arrives, Relevant
  <2>2. m.p = names[j.id[1]]
    BY <1>6, <1>7, <2>1 DEF Posted
  <2>3. m.p = o.pred \/ h[m.p].phase = "dead"
    BY <1>5, <2>2 DEF OwnInv, Whose
  <2>4. h[o.pred].phase = "dead" /\ h[m.p].phase # "dead"
    BY <1>1, <1>2, <1>5 DEF OwnInv, Open
  <2> QED
    BY <2>3, <2>4
<1> QED
  BY <1>8, <1>9

LEMMA ShutdownGivesUp ==
    ASSUME TypeInv, SessionAssumption, TurnInv, HeldInv, NEW p \in Procs, ShutdownCompletes(p),
           NEW j \in journal, journal' = {}
    PROVE  j.id # Id(session)
<1> DEFINE o == h[p]
<1>1. o.phase = "removing" /\ Open(p) /\ (o.ack \/ o.disc)
  BY DEF ShutdownCompletes, ReleasedJournal, Open, SessionAssumption
<1>2. o.owned /\ Confirmed(o) /\ Holding(o)
  BY <1>1 DEF TurnInv, Ordered, HeldInv
<1>3. j.id = o.id
  BY <1>1, <1>2 DEF TurnInv, Recorded, Covers
<1>4. Claimed(j.id)
  BY DEF HeldInv
<1>5. j.id[1] \notin tokens \/ Unheld(j.id[1])
  BY <1>1, <1>2, <1>3 DEF Confirmed, Holding
<1> QED
  BY <1>4, <1>5, RetiredIsOver

\* Every other step keeps the journal, or writes a record.
LEMMA GivesUp ==
    ASSUME [Next]_vars, journal' = {}, NEW j \in journal
    PROVE  \/ \E p \in Procs : ShutdownCompletes(p)
           \/ \E m \in net : RemovalAcknowledged(m) \/ SessionEnded(m)
<1>1. CASE UNCHANGED vars
  BY <1>1 DEF vars
<1>2. ASSUME NEW p \in Procs,
             \/ Connect(p) \/ Shutdown(p) \/ Crash(p) \/ Teardown(p) \/ Timers(p)
             \/ RadioAdvertises(p)
      PROVE  ShutdownCompletes(p)
  BY <1>2 DEF Connect, Shutdown, Crash, Teardown, SettleEnds, RemovalAttempt, Timers,
              TransportReady, PredecessorRetry, LoginAgain, MediaReady, RenewalDue,
              RadioAdvertises
<1>3. ASSUME NEW m \in net, Arrival(m)
      PROVE  RemovalAcknowledged(m) \/ SessionEnded(m)
  <2>1. CASE TokenRenewed(m)
    <3>1. journal' \in {journal, RenewedJournal(m.p, m.id)}
      BY <2>1 DEF TokenRenewed
    <3> QED
      BY <3>1 DEF RenewedJournal
  <2>2. CASE StreamGranted(m)
    BY <2>2 DEF StreamGranted, GrantJournal
  <2>3. UNCHANGED journal \/ TokenRenewed(m) \/ StreamGranted(m) \/ RemovalAcknowledged(m)
            \/ SessionEnded(m)
    BY <1>3, Zenon DEF Arrival, LoginResponse, LoginDenied, TokenRefused, StreamRejected,
              GrantAdvertised, InfoIgnored, RadioAvailable, BusyBySelf, BusyByForeign,
              BusyBySibling, Ignored
  <2> QED
    BY <2>1, <2>2, <2>3
<1>4. ASSUME NEW m \in net, AtRadio(m) \/ Lose(m) PROVE FALSE
  BY <1>4 DEF AtRadio, RadioLogin, RadioRenews, RadioRemoves, RadioGrants, RadioRejects,
              RadioSeesDeparture, Answer, Lose
<1>5. CASE Environment
  BY <1>5 DEF Environment, RadioEnds, RadioForgets, ForeignTakes, ForeignLeaves
<1> QED
  BY <1>1, <1>2, <1>3, <1>4, <1>5, Zenon DEF Next

LEMMA StepKeepsRecord ==
    ASSUME TypeInv, SessionAssumption, OwnInv, TurnInv, HeldInv, [Next]_vars
    PROVE  RecordKept
<1> SUFFICES ASSUME NEW j \in journal, journal' = {} PROVE j.id # Id(session)
  BY DEF RecordKept
<1> QED
  BY GivesUp, RecoveryGivesUp, ShutdownGivesUp

\* Where processes take turns, the radio keeps its tokens and nobody starts over
\* after a rejected stream request, the journal's record of a session is given
\* up only when the radio has ended that session: a removal that is confirmed
\* is one of that identity, and a session that is reported as ended has ended.
THEOREM TurnsKeepRecords ==
    ASSUME SessionAssumption, Steadfast, Prompt = TRUE
    PROVE  Spec /\ ExitsApart /\ []Unreset => JournalKept
<1>1. "reissue" \notin RadioMay
  BY DEF Steadfast
<1>2. Init => TypeInv /\ OwnInv /\ TurnInv /\ HeldInv
  BY InitTyped, InitOwned, InitKept, InitHeld
<1>3. TypeInv /\ OwnInv /\ TurnInv /\ HeldInv /\ [Next]_vars /\ [Apart]_vars /\ Unreset'
          => TypeInv' /\ OwnInv' /\ TurnInv' /\ HeldInv'
  BY <1>1, StepTyped, StepOwned, StepKept, StepHeld
<1>4. TypeInv /\ OwnInv /\ TurnInv /\ HeldInv /\ [Next]_vars => RecordKept
  BY StepKeepsRecord
<1> QED
  BY <1>2, <1>3, <1>4, PTL DEF Spec, ExitsApart, JournalKept
=============================================================================
