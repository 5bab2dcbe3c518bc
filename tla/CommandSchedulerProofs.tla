----------------------- MODULE CommandSchedulerProofs -----------------------
(***************************************************************************)
(* Why a reply is attributed to the receiver it is of, why the radio is on *)
(* the receiver that work is done for, and why an exchange is confirmed by *)
(* nothing older than itself.                                              *)
(***************************************************************************)
EXTENDS CommandScheduler, SequenceTheorems, WellFoundedInduction, TLAPS

-----------------------------------------------------------------------------
(* The inductive invariant.                                                *)

\* The record holds what the members of the source may hold, and the lists
\* keep their limits.
Sized(s) == /\ s \in Worker
            /\ Len(s.scheduled) <= MaxScheduled /\ Len(s.deferred) <= MaxDeferred
            /\ Len(s.window) <= 1

\* A family has one read pending at the most, and none while it drains; a reply
\* still on its way is the pending read's, or its family drains.
OneRead(s) ==
    \A i, j \in DOMAIN s.pending : s.pending[i].fam = s.pending[j].fam => i = j
OpenFamilies(s) == \A i \in DOMAIN s.pending : s.drains[s.pending[i].fam] = "none"
Asked(s, r)  == [fam |-> r.fam, rcv |-> r.rcv] \in Range(s.pending)
Answering(s) ==
    \A i \in DOMAIN s.air :
        s.air[i].fam \in Families => s.drains[s.air[i].fam] # "none" \/ Asked(s, s.air[i])
Correlated(s) == OneRead(s) /\ OpenFamilies(s) /\ Answering(s)

\* One transaction at a time, and the S-meter's timer runs only inside its own.
Gated(s) ==
    /\ s.active <=> s.window # <<>> \/ s.smeter \/ s.closing
    /\ ~(s.window # <<>> /\ (s.smeter \/ s.closing)) /\ ~(s.smeter /\ s.closing)
    /\ s.smTimer => s.smeter

\* Before the first exchange the radio is where the work in hand needs it, and
\* between transactions where the operator needs it.
Placed(s) == s.era = 0 =>
    /\ s.window # <<>> => s.selected = Head(s.window).rcv
    /\ s.smeter => s.selected = "sub"
    /\ s.operator = "main" /\ s.window = <<>> /\ ~s.smeter => s.selected = "main"
    /\ \A i \in DOMAIN s.air : s.air[i].fam \in Identity => s.air[i].from = s.air[i].rcv

\* Identity replies on their way are of reads sent since the last exchange.
Current(s) == \A i \in DOMAIN s.air : s.air[i].fam \in Identity => s.air[i].era = s.era

\* Every exchange made, and the one queued, was one act of the operator.
Made(s) == s.era + (IF s.exQueued THEN 1 ELSE 0)

\* An exchange that is requested is queued, or its dispatch is announced, once.
Announces(s, i) == s.inbox[i].sig = "dispatched"
Announced(s)    == \E i \in DOMAIN s.inbox : Announces(s, i)
Requested(s) ==
    /\ s.exQueued => ~Announced(s)
    /\ \A i, j \in DOMAIN s.inbox : Announces(s, i) /\ Announces(s, j) => i = j
    /\ Announced(s) => s.era # 0

\* A reply read after the announcement is of a read sent since the exchange.
Confirmation(s, i) == s.inbox[i].sig = "reply" /\ s.inbox[i].about.fam \in Identity
SinceExchange(s, i) == Confirmation(s, i) => s.inbox[i].about.era = s.era
AfterAnnouncement(s) ==
    \A i, j \in DOMAIN s.inbox : i < j /\ Announces(s, i) => SinceExchange(s, j)
StatusOfMain(s) ==
    \A i \in DOMAIN s.inbox :
        s.inbox[i].sig = "reply" /\ s.inbox[i].about.fam = "status" => s.inbox[i].about.rcv = "main"

WorkerInv(s) == /\ Sized(s) /\ Correlated(s) /\ Gated(s) /\ Current(s)
                /\ Requested(s) /\ AfterAnnouncement(s) /\ StatusOfMain(s)
                /\ Steady => Placed(s)

GuiInv ==
    /\ poll \in [st : {"idle", "queued", "pending"}, rcv : Receivers]
    /\ pipe \in Seq(Receivers) /\ tx \in BOOLEAN
    /\ exch \in {"idle", "requested", "dispatched", "scope"}
    /\ confirmed \subseteq AllConfirmed /\ retries \in 0 .. MaxRetries + 1
    /\ {activeVfo, shownVfo} \subseteq Receivers
    /\ selecting \in [on : BOOLEAN, rcv : Receivers, tries : {0, 1}]
    /\ used \in 0 .. MaxEvents

ExchangeInv ==
    /\ Made(w) <= used
    /\ exch # "requested" => ~w.exQueued /\ ~Announced(w)
    /\ exch = "dispatched" => w.era # 0 /\ \A i \in DOMAIN w.inbox : SinceExchange(w, i)

IInv == WorkerInv(w) /\ GuiInv /\ ExchangeInv

-----------------------------------------------------------------------------
(* Sequences and minima.                                                   *)

\* A non-empty set of naturals has a least element, and Min is it.
LEMMA LeastExists ==
  ASSUME NEW S \in SUBSET Nat, S # {} PROVE \E x \in S : \A y \in S : x <= y
<1> DEFINE R == {p \in Nat \X Nat : p[1] < p[2]}
<1>1. IsWellFoundedOn(R, Nat)
  BY NatLessThanWellFounded, Zenon DEF OpToRel
<1> HIDE DEF R
<1>2. \E x \in S : \A y \in S : ~(<<y, x>> \in R)
  BY <1>1, WFMin, Zenon
<1>3. \A x, y \in S : ~(<<y, x>> \in R) => x <= y
  BY DEF R
<1> QED
  BY <1>2, <1>3, Zenon

LEMMA MinIsLeast ==
  ASSUME NEW S \in SUBSET Nat, S # {} PROVE Min(S) \in S /\ \A x \in S : Min(S) <= x
BY LeastExists, Zenon DEF Min

\* The function Those is defined by exists: k(q, S) is the one it evaluates at n.
Keeping(q, S, n, k) ==
    k = [i \in 0 .. n |-> IF i = 0 THEN <<>>
                          ELSE IF q[i] \in S THEN Append(k[i - 1], q[i]) ELSE k[i - 1]]

LEMMA KeepingExists ==
  ASSUME NEW q, NEW S, NEW n \in Nat PROVE \E k : Keeping(q, S, n, k)
<1> DEFINE B == {m \in Nat : ~ \E k : Keeping(q, S, m, k)}
<1>1. ASSUME B # {} PROVE FALSE
  <2>1. PICK m \in B : \A y \in B : m <= y
    BY <1>1, LeastExists
  <2>2. CASE m = 0
    <3>1. Keeping(q, S, 0, [i \in 0 .. 0 |-> <<>>])
      BY DEF Keeping
    <3> QED
      BY <2>1, <2>2, <3>1, Zenon
  <2>3. CASE m # 0
    <3>1. m - 1 \in Nat /\ m - 1 \notin B
      BY <2>1, <2>3
    <3>2. PICK k : Keeping(q, S, m - 1, k)
      BY <3>1
    <3> DEFINE f == [i \in 0 .. m |-> IF i < m THEN k[i]
                         ELSE IF q[m] \in S THEN Append(k[m - 1], q[m]) ELSE k[m - 1]]
    <3>3. \A i \in 0 .. m : f[i] = IF i < m THEN k[i]
                         ELSE IF q[m] \in S THEN Append(k[m - 1], q[m]) ELSE k[m - 1]
      OBVIOUS
    <3>4. \A i \in 0 .. (m - 1) : k[i] = IF i = 0 THEN <<>>
                         ELSE IF q[i] \in S THEN Append(k[i - 1], q[i]) ELSE k[i - 1]
      BY <3>2, Zenon DEF Keeping
    <3>5. \A i \in 0 .. m : f[i] = IF i = 0 THEN <<>>
                         ELSE IF q[i] \in S THEN Append(f[i - 1], q[i]) ELSE f[i - 1]
      <4> HIDE DEF f
      <4>1. \A i \in 0 .. m : i < m => i \in 0 .. (m - 1) /\ (i # 0 => i - 1 \in 0 .. m /\ i - 1 < m)
        BY <2>1
      <4>2. \A i \in 0 .. m : ~(i < m) => i = m /\ i # 0 /\ i - 1 \in 0 .. m /\ i - 1 < m
        BY <2>1, <2>3
      <4> QED
        BY <3>3, <3>4, <4>1, <4>2, Zenon
    <3>6. f = [i \in 0 .. m |-> f[i]]
      OBVIOUS
    <3>7. Keeping(q, S, m, f)
      <4> HIDE DEF f
      <4> QED
        BY <3>5, <3>6, Zenon DEF Keeping
    <3> QED
      BY <2>1, <3>7, Zenon
  <2> QED
    BY <2>2, <2>3
<1> QED
  BY <1>1

\* r is what is left of the first n elements of q when only those in S are kept:
\* e gives the place in q of each element of r.
Kept(q, S, n, r) ==
    /\ Len(r) \in 0 .. n
    /\ \E e \in [1 .. Len(r) -> 1 .. n] :
         /\ \A x \in 1 .. Len(r) : r[x] = q[e[x]] /\ r[x] \in S
         /\ \A x, y \in 1 .. Len(r) : x < y => e[x] < e[y]
         /\ \A i \in 1 .. n : q[i] \in S => \E x \in 1 .. Len(r) : e[x] = i

LEMMA KeptFirst == ASSUME NEW q, NEW S PROVE Kept(q, S, 0, <<>>)
<1> DEFINE e == [x \in 1 .. 0 |-> 1]
<1>1. Len(<<>>) = 0
  BY EmptySeq
<1>2. e \in [1 .. 0 -> 1 .. 0] /\ 0 \in 0 .. 0 /\ \A x \in 1 .. 0 : FALSE
  OBVIOUS
<1> HIDE DEF e
<1> QED
  BY <1>1, <1>2, Zenon DEF Kept

LEMMA KeptSkips ==
  ASSUME NEW T, NEW q, NEW S, NEW r \in Seq(T), NEW n \in Nat, Kept(q, S, n, r), q[n + 1] \notin S
  PROVE  Kept(q, S, n + 1, r)
<1>1. PICK e \in [1 .. Len(r) -> 1 .. n] :
         /\ \A x \in 1 .. Len(r) : r[x] = q[e[x]] /\ r[x] \in S
         /\ \A x, y \in 1 .. Len(r) : x < y => e[x] < e[y]
         /\ \A i \in 1 .. n : q[i] \in S => \E x \in 1 .. Len(r) : e[x] = i
  BY Zenon DEF Kept
<1>2. e \in [1 .. Len(r) -> 1 .. (n + 1)]
  OBVIOUS
<1>3. \A i \in 1 .. (n + 1) : q[i] \in S => i \in 1 .. n
  OBVIOUS
<1>4. Len(r) \in 0 .. (n + 1)
  BY DEF Kept
<1>5. \A i \in 1 .. (n + 1) : q[i] \in S => \E x \in 1 .. Len(r) : e[x] = i
  BY <1>1, <1>3, Zenon
<1> QED
  BY <1>1, <1>2, <1>4, <1>5, Zenon DEF Kept

LEMMA KeptTakes ==
  ASSUME NEW T, NEW q, NEW S, NEW r \in Seq(T), NEW n \in Nat, Kept(q, S, n, r),
         q[n + 1] \in S, q[n + 1] \in T
  PROVE  Kept(q, S, n + 1, Append(r, q[n + 1]))
<1> DEFINE t == Append(r, q[n + 1])
<1>1. PICK e \in [1 .. Len(r) -> 1 .. n] :
         /\ \A x \in 1 .. Len(r) : r[x] = q[e[x]] /\ r[x] \in S
         /\ \A x, y \in 1 .. Len(r) : x < y => e[x] < e[y]
         /\ \A i \in 1 .. n : q[i] \in S => \E x \in 1 .. Len(r) : e[x] = i
  BY Zenon DEF Kept
<1> DEFINE g == [x \in 1 .. Len(t) |-> IF x <= Len(r) THEN e[x] ELSE n + 1]
<1>2. /\ Len(t) = Len(r) + 1 /\ Len(r) \in 0 .. n
      /\ \A x \in 1 .. Len(r) : t[x] = r[x] /\ t[Len(r) + 1] = q[n + 1]
      /\ t[Len(r) + 1] = q[n + 1]
  BY AppendProperties DEF Kept
<1> HIDE DEF t
<1>3. g \in [1 .. Len(t) -> 1 .. (n + 1)]
  BY <1>1, <1>2
<1>4. \A x \in 1 .. Len(t) : IF x <= Len(r) THEN x \in 1 .. Len(r) /\ g[x] = e[x]
                             ELSE x = Len(r) + 1 /\ g[x] = n + 1
  BY <1>2
<1>5. \A x \in 1 .. Len(t) : t[x] = q[g[x]] /\ t[x] \in S
  BY <1>1, <1>2, <1>4, Zenon
<1>6. \A x, y \in 1 .. Len(t) : x < y => g[x] < g[y]
  BY <1>1, <1>2, <1>4
<1>7. ASSUME NEW i \in 1 .. (n + 1), q[i] \in S PROVE \E x \in 1 .. Len(t) : g[x] = i
  <2>1. CASE i = n + 1
    <3>1. Len(r) + 1 \in 1 .. Len(t) /\ ~(Len(r) + 1 <= Len(r))
      BY <1>2
    <3> QED
      BY <1>4, <2>1, <3>1, Zenon
  <2>2. CASE i # n + 1
    <3>1. i \in 1 .. n
      BY <2>2
    <3>2. PICK x \in 1 .. Len(r) : e[x] = i
      BY <1>1, <1>7, <3>1, Zenon
    <3>3. x \in 1 .. Len(t) /\ x <= Len(r)
      BY <1>2
    <3> QED
      BY <1>4, <3>2, <3>3, Zenon
  <2> QED
    BY <2>1, <2>2
<1>8. Len(t) \in 0 .. (n + 1)
  BY <1>2
<1> HIDE DEF g
<1>9. Kept(q, S, n + 1, t)
  BY <1>3, <1>5, <1>6, <1>7, <1>8, Zenon DEF Kept
<1> QED
  BY <1>9, Zenon DEF t

\* What Those returns, for any sequence and any set.
LEMMA ThoseKept ==
  ASSUME NEW T, NEW q \in Seq(T), NEW S
  PROVE  Those(q, S) \in Seq(T) /\ Kept(q, S, Len(q), Those(q, S))
<1> DEFINE N == Len(q)
           k == CHOOSE f : Keeping(q, S, N, f)
<1>1. N \in Nat /\ \A i \in 1 .. N : q[i] \in T
  BY LenProperties, ElementOfSeq
<1>2. Those(q, S) = k[N]
  BY Zenon DEF Those, Keeping
<1> HIDE DEF N
<1>3. Keeping(q, S, N, k)
  BY <1>1, KeepingExists, Zenon
<1> HIDE DEF k
<1>4. \A i \in 0 .. N : k[i] = IF i = 0 THEN <<>>
                         ELSE IF q[i] \in S THEN Append(k[i - 1], q[i]) ELSE k[i - 1]
  BY <1>3, Zenon DEF Keeping
<1> DEFINE Good(i) == k[i] \in Seq(T) /\ Kept(q, S, i, k[i])
           B == {i \in Nat : i <= N /\ ~Good(i)}
<1>5. ASSUME B # {} PROVE FALSE
  <2>1. PICK m \in B : \A y \in B : m <= y
    BY <1>5, LeastExists
  <2>2. CASE m = 0
    <3>1. 0 \in 0 .. N
      BY <1>1
    <3>2. k[0] = <<>>
      BY <1>4, <3>1, Zenon
    <3> QED
      BY <2>1, <2>2, <3>2, KeptFirst, EmptySeq, Zenon
  <2>3. CASE m # 0
    <3>1. m - 1 \in Nat /\ m - 1 <= N /\ ~(m <= m - 1) /\ m - 1 + 1 = m /\ m \in 1 .. N /\ m \in 0 .. N
      BY <1>1, <2>1, <2>3
    <3>2. Good(m - 1)
      BY <2>1, <3>1, Zenon
    <3>3. CASE q[m] \in S
      <4>1. k[m] = Append(k[m - 1], q[m])
        BY <1>4, <2>3, <3>1, <3>3, Zenon
      <4>2. Kept(q, S, m - 1 + 1, Append(k[m - 1], q[m - 1 + 1]))
        <5>1. q[m - 1 + 1] \in S /\ q[m - 1 + 1] \in T
          BY <1>1, <3>1, <3>3, Zenon
        <5> QED
          BY <3>1, <3>2, <5>1, KeptTakes, Zenon
      <4>3. Kept(q, S, m, k[m])
        BY <3>1, <4>1, <4>2, Zenon
      <4>4. k[m] \in Seq(T)
        BY <1>1, <3>1, <3>2, <4>1, AppendProperties
      <4> QED
        BY <2>1, <4>3, <4>4, Zenon
    <3>4. CASE q[m] \notin S
      <4>1. k[m] = k[m - 1]
        BY <1>4, <2>3, <3>1, <3>4, Zenon
      <4>2. Kept(q, S, m - 1 + 1, k[m - 1])
        <5>1. q[m - 1 + 1] \notin S
          BY <3>1, <3>4, Zenon
        <5> QED
          BY <3>1, <3>2, <5>1, KeptSkips, Zenon
      <4>3. Kept(q, S, m, k[m])
        BY <3>1, <4>1, <4>2, Zenon
      <4> QED
        BY <2>1, <3>2, <4>1, <4>3, Zenon
    <3> QED
      BY <3>3, <3>4
  <2> QED
    BY <2>2, <2>3
<1>6. Good(N)
  BY <1>1, <1>5
<1> QED
  BY <1>2, <1>6, Zenon DEF N

-----------------------------------------------------------------------------
(* What a step of the worker leaves alone.                                 *)

SameReplies(s, t) == t.pending = s.pending /\ t.drains = s.drains /\ t.air = s.air
SameGate(s, t) == /\ t.active = s.active /\ t.window = s.window /\ t.closing = s.closing
                  /\ t.smeter = s.smeter /\ t.smTimer = s.smTimer
SamePlace(s, t) == t.selected = s.selected /\ t.operator = s.operator /\ t.era = s.era

\* All but the replies: what is asked, deferred, announced and waited for.
Leaves(s, t) == /\ SameGate(s, t) /\ SamePlace(s, t)
                /\ t.scheduled = s.scheduled /\ t.exQueued = s.exQueued /\ t.exPending = s.exPending

\* The exchange that is announced, and the confirmations that may count.
SameNews(s, t) ==
    /\ Announced(t) <=> Announced(s)
    /\ (\A i \in DOMAIN s.inbox : SinceExchange(s, i)) => \A i \in DOMAIN t.inbox : SinceExchange(t, i)

\* No S-meter read is the last that was sent.
Quiet(s, t) == t.air = s.air \/ (t.air # <<>> /\ t.air[Len(t.air)].fam # "smeter")

LEMMA FamiliesAndReceivers ==
  /\ Receivers = {"main", "sub"} /\ Other("main") = "sub" /\ Other("sub") = "main"
  /\ "freq" \in Families /\ "smeter" \in Families /\ "swr" \in Families
  /\ Identity \subseteq Families /\ "smeter" \notin Identity /\ "swr" \notin Identity
  /\ "status" \notin Families /\ "status" \notin Identity /\ Families \subseteq {"freq", "mode", "smeter", "swr"}
BY SchedulerAssumption DEF Families, Meters, Receivers, Other

LEMMA RangeOfLengths == Range(Lengths) = {"none", "again", "resolved", "abandoned"}
BY DEF Range, Lengths

LEMMA RanksOfLengths ==
  Rank("none") = 1 /\ Rank("again") = 2 /\ Rank("resolved") = 3 /\ Rank("abandoned") = 4
BY DEF Rank, Lengths

LEMMA TellSized ==
  ASSUME NEW s, Sized(s), NEW sig \in {"sent", "dispatched", "reply"}, NEW fl \in Flight
  PROVE  /\ Sized(Tell(s, sig, fl)) /\ Leaves(s, Tell(s, sig, fl))
         /\ SameReplies(s, Tell(s, sig, fl)) /\ Tell(s, sig, fl).deferred = s.deferred
         /\ Tell(s, sig, fl).inbox = Append(s.inbox, [sig |-> sig, about |-> fl])
<1> DEFINE q == Append(s.inbox, [sig |-> sig, about |-> fl])
           t == Tell(s, sig, fl)
<1>1. s \in Worker /\ s.inbox \in Seq(Signal)
  BY DEF Sized, Worker
<1>2. [sig |-> sig, about |-> fl] \in Signal
  BY DEF Signal
<1>3. q \in Seq(Signal)
  BY <1>1, <1>2, AppendProperties
<1>4. t = [s EXCEPT !.inbox = q]
  BY DEF Tell
<1> HIDE DEF q, t
<1>5. t \in Worker /\ t.inbox = q
  BY <1>1, <1>3, <1>4 DEF Worker
<1>6. Leaves(s, t) /\ SameReplies(s, t) /\ t.deferred = s.deferred
  BY <1>1, <1>4 DEF Worker, Leaves, SameGate, SamePlace, SameReplies
<1>7. Sized(t)
  BY <1>5, <1>6, Zenon DEF Sized, Leaves, SameGate
<1> QED
  BY <1>5, <1>6, <1>7, Zenon DEF q, t

-----------------------------------------------------------------------------
(* A part of the invariant survives a step that leaves its fields alone.   *)

LEMMA RepliesKept ==
  ASSUME NEW s, NEW t, Correlated(s), SameReplies(s, t) PROVE Correlated(t)
BY Zenon DEF Correlated, OneRead, OpenFamilies, Answering, Asked, SameReplies

LEMMA GateKept == ASSUME NEW s, NEW t, Gated(s), SameGate(s, t) PROVE Gated(t)
BY Zenon DEF Gated, SameGate

LEMMA PlaceKept ==
  ASSUME NEW s, NEW t, SameGate(s, t), SamePlace(s, t), t.air = s.air
  PROVE  (Placed(s) => Placed(t)) /\ (Current(s) => Current(t)) /\ Quiet(s, t)
BY Zenon DEF Placed, Current, SameGate, SamePlace, Quiet

LEMMA NewsKept ==
  ASSUME NEW s, NEW t, t.inbox = s.inbox, t.era = s.era
  PROVE  /\ (Requested(s) /\ t.exQueued = s.exQueued) => Requested(t)
         /\ AfterAnnouncement(s) => AfterAnnouncement(t)
         /\ StatusOfMain(s) => StatusOfMain(t)
         /\ SameNews(s, t)
<1>1. Announced(t) <=> Announced(s)
  BY Zenon DEF Announced, Announces
<1>2. \A i : SinceExchange(s, i) <=> SinceExchange(t, i)
  BY Zenon DEF SinceExchange, Confirmation
<1>3. (Requested(s) /\ t.exQueued = s.exQueued) => Requested(t)
  BY <1>1, Zenon DEF Requested, Announces
<1>4. AfterAnnouncement(s) => AfterAnnouncement(t)
  BY <1>2, Zenon DEF AfterAnnouncement, Announces
<1>5. StatusOfMain(s) => StatusOfMain(t)
  BY Zenon DEF StatusOfMain
<1> QED
  BY <1>1, <1>2, <1>3, <1>4, <1>5, Zenon DEF SameNews

\* Something is sent to the radio.
LEMMA AirAppended ==
  ASSUME NEW s, NEW t, s.air \in Seq(Flight), NEW fl \in Flight, t.air = Append(s.air, fl),
         t.era = s.era
  PROVE  /\ (Current(s) /\ (fl.fam \in Identity => fl.era = s.era)) => Current(t)
         /\ (/\ Placed(s) /\ SameGate(s, t) /\ SamePlace(s, t)
             /\ s.era = 0 /\ fl.fam \in Identity => fl.from = fl.rcv) => Placed(t)
         /\ (/\ Answering(s) /\ t.drains = s.drains /\ Range(s.pending) \subseteq Range(t.pending)
             /\ fl.fam \in Families => t.drains[fl.fam] # "none" \/ Asked(t, fl)) => Answering(t)
         /\ fl.fam # "smeter" => Quiet(s, t)
<1>1. /\ Len(s.air) \in Nat /\ Len(t.air) = Len(s.air) + 1 /\ DOMAIN t.air = 1 .. Len(t.air)
      /\ DOMAIN s.air = 1 .. Len(s.air) /\ t.air # <<>>
      /\ t.air[Len(t.air)] = fl /\ \A i \in 1 .. Len(s.air) : t.air[i] = s.air[i]
  BY AppendProperties, LenProperties
<1>2. \A i \in DOMAIN t.air : t.air[i] = fl \/ (i \in DOMAIN s.air /\ t.air[i] = s.air[i])
  BY <1>1
<1>3. (Current(s) /\ (fl.fam \in Identity => fl.era = s.era)) => Current(t)
  BY <1>2, Zenon DEF Current
<1>4. (/\ Placed(s) /\ SameGate(s, t) /\ SamePlace(s, t)
       /\ s.era = 0 /\ fl.fam \in Identity => fl.from = fl.rcv) => Placed(t)
  BY <1>2, Zenon DEF Placed, SameGate, SamePlace
<1>5. (/\ Answering(s) /\ t.drains = s.drains /\ Range(s.pending) \subseteq Range(t.pending)
       /\ fl.fam \in Families => t.drains[fl.fam] # "none" \/ Asked(t, fl)) => Answering(t)
  BY <1>2, Zenon DEF Answering, Asked
<1>6. fl.fam # "smeter" => Quiet(s, t)
  BY <1>1, Zenon DEF Quiet
<1> QED
  BY <1>3, <1>4, <1>5, <1>6, Zenon

\* The GUI thread is told something.
LEMMA InboxAppended ==
  ASSUME NEW s, NEW t, s.inbox \in Seq(Signal), NEW sg \in Signal, t.inbox = Append(s.inbox, sg),
         t.era = s.era, t.exQueued = s.exQueued, sg.sig # "dispatched",
         sg.sig = "reply" /\ sg.about.fam \in Identity => sg.about.era = s.era,
         sg.sig = "reply" /\ sg.about.fam = "status" => sg.about.rcv = "main"
  PROVE  /\ Requested(s) => Requested(t)
         /\ AfterAnnouncement(s) => AfterAnnouncement(t)
         /\ StatusOfMain(s) => StatusOfMain(t)
         /\ SameNews(s, t)
<1>1. /\ Len(s.inbox) \in Nat /\ Len(t.inbox) = Len(s.inbox) + 1
      /\ DOMAIN t.inbox = 1 .. Len(t.inbox) /\ DOMAIN s.inbox = 1 .. Len(s.inbox)
      /\ t.inbox[Len(t.inbox)] = sg /\ \A i \in 1 .. Len(s.inbox) : t.inbox[i] = s.inbox[i]
  BY AppendProperties, LenProperties
<1>2. \A i \in DOMAIN t.inbox : t.inbox[i] = sg \/ (i \in DOMAIN s.inbox /\ t.inbox[i] = s.inbox[i])
  BY <1>1
<1>3. \A i \in DOMAIN s.inbox : i \in DOMAIN t.inbox /\ t.inbox[i] = s.inbox[i]
  BY <1>1
<1>4. \A i \in DOMAIN t.inbox : Announces(t, i) <=> i \in DOMAIN s.inbox /\ Announces(s, i)
  BY <1>2, <1>3, Zenon DEF Announces
<1>5. \A i \in DOMAIN t.inbox : SinceExchange(t, i) \/ (i \in DOMAIN s.inbox /\ ~SinceExchange(s, i))
  BY <1>2, Zenon DEF SinceExchange, Confirmation
<1>6. Announced(t) <=> Announced(s)
  BY <1>3, <1>4, Zenon DEF Announced
<1>7. Requested(s) => Requested(t)
  BY <1>4, <1>6, Zenon DEF Requested
<1>8. AfterAnnouncement(s) => AfterAnnouncement(t)
  BY <1>4, <1>5, Zenon DEF AfterAnnouncement
<1>9. StatusOfMain(s) => StatusOfMain(t)
  BY <1>2, Zenon DEF StatusOfMain
<1> QED
  BY <1>5, <1>6, <1>7, <1>8, <1>9, Zenon DEF SameNews

-----------------------------------------------------------------------------
(* Reads, one operator after the other.                                    *)

LEMMA LeftAlone ==
  ASSUME NEW s, NEW t, WorkerInv(s), Sized(t), Leaves(s, t), SameReplies(s, t), t.inbox = s.inbox
  PROVE  WorkerInv(t) /\ SameNews(s, t) /\ Quiet(s, t)
<1>1. SameGate(s, t) /\ SamePlace(s, t) /\ t.era = s.era /\ t.air = s.air /\ t.exQueued = s.exQueued
  BY Zenon DEF Leaves, SamePlace, SameReplies
<1>2. Correlated(t) /\ Gated(t) /\ Current(t) /\ (Steady => Placed(t)) /\ Quiet(s, t)
  BY <1>1, RepliesKept, GateKept, PlaceKept, Zenon DEF WorkerInv
<1>3. Requested(t) /\ AfterAnnouncement(t) /\ StatusOfMain(t) /\ SameNews(s, t)
  BY <1>1, NewsKept, Zenon DEF WorkerInv
<1> QED
  BY <1>2, <1>3, Zenon DEF WorkerInv

LEMMA DeferKeeps ==
  ASSUME NEW s, WorkerInv(s), NEW f \in Families, NEW r \in Receivers
  PROVE  /\ WorkerInv(Defer(s, f, r)) /\ Leaves(s, Defer(s, f, r))
         /\ SameNews(s, Defer(s, f, r)) /\ Quiet(s, Defer(s, f, r))
<1> DEFINE read == [fam |-> f, rcv |-> r]
           q == Append(s.deferred, read)
           t == [s EXCEPT !.deferred = q]
<1>1. s \in Worker /\ s.deferred \in Seq(Read) /\ Len(s.deferred) \in Nat /\ Sized(s)
  BY LenProperties DEF WorkerInv, Sized, Worker
<1>2. read \in Read
  BY DEF Read
<1>3. q \in Seq(Read) /\ Len(q) = Len(s.deferred) + 1
  BY <1>1, <1>2, AppendProperties
<1>4. Defer(s, f, r) = s \/ (Defer(s, f, r) = t /\ Len(s.deferred) < MaxDeferred)
  <2>1. MaxDeferred \in Nat
    BY SchedulerAssumption
  <2> QED
    BY <1>1, <2>1 DEF Defer
<1> HIDE DEF q
<1>5. t \in Worker /\ t.deferred = q
  BY <1>1, <1>3 DEF Worker
<1>6. Leaves(s, t) /\ SameReplies(s, t) /\ t.inbox = s.inbox
  BY <1>1 DEF Worker, Leaves, SameGate, SamePlace, SameReplies
<1>7. ASSUME Len(s.deferred) < MaxDeferred PROVE Sized(t)
  <2>1. Len(t.deferred) <= MaxDeferred
    BY <1>1, <1>3, <1>5, <1>7, SchedulerAssumption
  <2> HIDE DEF t
  <2> QED
    BY <1>1, <1>5, <1>6, <2>1, Zenon DEF Sized, Leaves, SameGate
<1> HIDE DEF t
<1>8. CASE Defer(s, f, r) = s
  <2>1. Leaves(s, s) /\ SameReplies(s, s)
    BY Zenon DEF Leaves, SameGate, SamePlace, SameReplies
  <2> QED
    BY <1>1, <1>8, <2>1, LeftAlone, Zenon
<1>9. CASE Defer(s, f, r) = t /\ Len(s.deferred) < MaxDeferred
  BY <1>6, <1>7, <1>9, LeftAlone, Zenon
<1> QED
  BY <1>4, <1>8, <1>9

\* A command for the radio, with the receiver it acts on.
LEMMA SendSized ==
  ASSUME NEW s, Sized(s), NEW f \in Families \cup {"status"}, NEW r \in Receivers,
         NEW from \in Receivers
  PROVE  /\ FlightOf(s, f, r, from) \in Flight
         /\ Sized(Send(s, f, r, from)) /\ Leaves(s, Send(s, f, r, from))
         /\ Send(s, f, r, from).air = Append(s.air, FlightOf(s, f, r, from))
         /\ Send(s, f, r, from).pending = s.pending /\ Send(s, f, r, from).drains = s.drains
         /\ Send(s, f, r, from).inbox = s.inbox
<1> DEFINE fl == FlightOf(s, f, r, from)
           q == Append(s.air, fl)
           t == Send(s, f, r, from)
<1>1. s \in Worker /\ s.air \in Seq(Flight) /\ s.era \in Nat
  BY DEF Sized, Worker
<1>2. fl \in Flight
  BY <1>1 DEF FlightOf, Flight
<1>3. q \in Seq(Flight)
  BY <1>1, <1>2, AppendProperties
<1>4. t = [s EXCEPT !.air = q]
  BY DEF Send
<1> HIDE DEF fl, q, t
<1>5. t \in Worker /\ t.air = q
  BY <1>1, <1>3, <1>4 DEF Worker
<1>6. /\ Leaves(s, t) /\ t.deferred = s.deferred
      /\ t.pending = s.pending /\ t.drains = s.drains /\ t.inbox = s.inbox
  BY <1>1, <1>4 DEF Worker, Leaves, SameGate, SamePlace
<1>7. Sized(t)
  BY <1>5, <1>6, Zenon DEF Sized, Leaves, SameGate
<1> QED
  BY <1>2, <1>5, <1>6, <1>7, Zenon DEF q, fl, t

\* A status read is answered for itself.
LEMMA SendStatusKeeps ==
  ASSUME NEW s, WorkerInv(s)
  PROVE  /\ WorkerInv(SendStatus(s)) /\ Leaves(s, SendStatus(s))
         /\ SameNews(s, SendStatus(s)) /\ Quiet(s, SendStatus(s))
<1> DEFINE t == SendStatus(s)
           fl == FlightOf(s, "status", "main", s.selected)
<1>1. Sized(s) /\ s.selected \in Receivers /\ "main" \in Receivers /\ s.air \in Seq(Flight)
  BY DEF WorkerInv, Sized, Worker, Receivers
<1>2. /\ fl \in Flight /\ Sized(t) /\ Leaves(s, t) /\ t.air = Append(s.air, fl)
      /\ t.pending = s.pending /\ t.drains = s.drains /\ t.inbox = s.inbox
  <2>1. "status" \in Families \cup {"status"}
    OBVIOUS
  <2> QED
    BY <1>1, <2>1, SendSized, Zenon DEF SendStatus
<1>3. fl.fam = "status"
  BY DEF FlightOf
<1> HIDE DEF t, fl
<1>4. /\ SameGate(s, t) /\ SamePlace(s, t) /\ t.era = s.era /\ t.exQueued = s.exQueued
  BY <1>2, Zenon DEF Leaves, SamePlace
<1>5. fl.fam \notin Identity /\ fl.fam \notin Families /\ fl.fam # "smeter"
  BY <1>3, FamiliesAndReceivers
<1>6. Range(s.pending) \subseteq Range(t.pending)
  BY <1>2, Zenon
<1>10. Current(s) /\ Answering(s) /\ (Steady => Placed(s))
  BY Zenon DEF WorkerInv, Correlated
<1>7. Current(t) /\ (Steady => Placed(t)) /\ Answering(t) /\ Quiet(s, t)
  BY <1>1, <1>2, <1>4, <1>5, <1>6, <1>10, AirAppended
<1>8. Correlated(t)
  BY <1>2, <1>7, Zenon DEF WorkerInv, Correlated, OneRead, OpenFamilies
<1>9. Gated(t) /\ Requested(t) /\ AfterAnnouncement(t) /\ StatusOfMain(t) /\ SameNews(s, t)
  BY <1>2, <1>4, GateKept, NewsKept, Zenon DEF WorkerInv
<1> QED
  BY <1>2, <1>7, <1>8, <1>9, Zenon DEF WorkerInv, t

\* One more read pending, of a family that is open.
LEMMA PendingAppended ==
  ASSUME NEW s, NEW t, s.pending \in Seq(Read), NEW read \in Read, Correlated(s),
         t.pending = Append(s.pending, read), t.drains = s.drains, ~Blocked(s, read.fam)
  PROVE  /\ OneRead(t) /\ OpenFamilies(t) /\ Range(s.pending) \subseteq Range(t.pending)
         /\ read \in Range(t.pending)
<1>1. /\ Len(s.pending) \in Nat /\ Len(t.pending) = Len(s.pending) + 1
      /\ DOMAIN t.pending = 1 .. Len(t.pending) /\ DOMAIN s.pending = 1 .. Len(s.pending)
      /\ t.pending[Len(t.pending)] = read
      /\ \A i \in 1 .. Len(s.pending) : t.pending[i] = s.pending[i]
  BY AppendProperties, LenProperties
<1>2. \A i \in DOMAIN t.pending :
         \/ i = Len(t.pending) /\ t.pending[i] = read
         \/ i \in DOMAIN s.pending /\ t.pending[i] = s.pending[i]
  BY <1>1
<1>3. (\A i \in DOMAIN s.pending : s.pending[i].fam # read.fam) /\ s.drains[read.fam] = "none"
  BY Zenon DEF Blocked, Live
<1>4. OneRead(t)
  BY <1>2, <1>3, Zenon DEF OneRead, Correlated
<1>5. OpenFamilies(t)
  BY <1>2, <1>3, Zenon DEF OpenFamilies, Correlated
<1>6. Range(s.pending) \subseteq Range(t.pending) /\ read \in Range(t.pending)
  BY <1>1 DEF Range
<1> QED
  BY <1>4, <1>5, <1>6

LEMMA SendReadAsKeeps ==
  ASSUME NEW s, WorkerInv(s), NEW f \in Families, NEW r \in Receivers, NEW from \in Receivers,
         (Steady /\ s.era = 0 /\ f \in Identity) => from = r
  PROVE  /\ WorkerInv(SendReadAs(s, f, r, from)) /\ Leaves(s, SendReadAs(s, f, r, from))
         /\ SameNews(s, SendReadAs(s, f, r, from))
         /\ \/ Quiet(s, SendReadAs(s, f, r, from))
            \/ f = "smeter" /\ SendReadAs(s, f, r, from).air = Append(s.air, FlightOf(s, f, r, from))
<1> DEFINE read == [fam |-> f, rcv |-> r]
           fl   == FlightOf(s, f, r, from)
           told == IF f = "smeter" THEN Tell(s, "sent", fl) ELSE s
           q    == Append(told.pending, read)
           u    == [told EXCEPT !.pending = q]
           t    == Send(u, f, r, from)
<1>1. CASE Blocked(s, f)
  BY <1>1, DeferKeeps, Zenon DEF SendReadAs
<1>2. CASE ~Blocked(s, f)
  <2>1. /\ Sized(s) /\ s \in Worker /\ s.pending \in Seq(Read) /\ s.air \in Seq(Flight)
        /\ s.inbox \in Seq(Signal)
    BY DEF WorkerInv, Sized, Worker
  <2>2. fl \in Flight /\ fl.fam = f /\ fl.rcv = r /\ fl.from = from /\ fl.era = s.era
    <3>1. f \in Families \cup {"status"}
      OBVIOUS
    <3>2. fl \in Flight
      BY <2>1, <3>1, SendSized, Zenon
    <3> QED
      BY <3>2 DEF FlightOf
  <2>3. read \in Read /\ read.fam = f /\ read.rcv = r
    BY DEF Read
  <2>4. SendReadAs(s, f, r, from) = t
    BY <1>2, Zenon DEF SendReadAs
  <2> DEFINE sg == [sig |-> "sent", about |-> fl]
  <2>5. sg \in Signal /\ sg.sig = "sent"
    BY <2>2 DEF Signal
  <2> HIDE DEF fl, read, sg
  <2>6. /\ Sized(told) /\ Leaves(s, told) /\ SameReplies(s, told)
        /\ told.inbox = s.inbox \/ told.inbox = Append(s.inbox, sg)
    <3>1. CASE f = "smeter"
      <4>1. "sent" \in {"sent", "dispatched", "reply"}
        OBVIOUS
      <4> QED
        BY <2>1, <2>2, <3>1, <4>1, TellSized, Zenon DEF sg
    <3>2. CASE f # "smeter"
      BY <2>1, <3>2, Zenon DEF Leaves, SameGate, SamePlace, SameReplies
    <3> QED
      BY <3>1, <3>2
  <2> HIDE DEF told
  <2>7. told \in Worker /\ told.pending = s.pending /\ told.era = s.era
    BY <2>6, Zenon DEF Sized, SameReplies, Leaves, SamePlace
  <2>8. q \in Seq(Read) /\ q = Append(s.pending, read)
    BY <2>1, <2>3, <2>7, AppendProperties
  <2> HIDE DEF q
  <2>9. u \in Worker /\ u.pending = q
    BY <2>7, <2>8 DEF Worker
  <2>10. /\ Leaves(told, u) /\ u.deferred = told.deferred
         /\ u.drains = told.drains /\ u.air = told.air /\ u.inbox = told.inbox
    BY <2>7 DEF Worker, Leaves, SameGate, SamePlace
  <2>11. Sized(u)
    BY <2>6, <2>9, <2>10, Zenon DEF Sized, Leaves, SameGate
  <2> HIDE DEF u
  <2>12. u.era = s.era /\ FlightOf(u, f, r, from) = fl
    <3>1. u.era = s.era
      BY <2>7, <2>10, Zenon DEF Leaves, SamePlace
    <3> QED
      BY <3>1, Zenon DEF FlightOf, fl
  <2>13. /\ Sized(t) /\ Leaves(u, t) /\ t.air = Append(u.air, fl)
         /\ t.pending = u.pending /\ t.drains = u.drains /\ t.inbox = u.inbox
    <3>1. f \in Families \cup {"status"}
      OBVIOUS
    <3> QED
      BY <2>11, <2>12, <3>1, SendSized, Zenon
  <2> HIDE DEF t
  <2>14. Leaves(s, t)
    BY <2>6, <2>10, <2>13, Zenon DEF Leaves, SameGate, SamePlace
  <2>15. /\ t.air = Append(s.air, fl) /\ t.pending = Append(s.pending, read)
         /\ t.drains = s.drains /\ (t.inbox = s.inbox \/ t.inbox = Append(s.inbox, sg))
    BY <2>6, <2>8, <2>9, <2>10, <2>13, Zenon DEF SameReplies
  <2>16. SameGate(s, t) /\ SamePlace(s, t) /\ t.era = s.era /\ t.exQueued = s.exQueued
    BY <2>14, Zenon DEF Leaves, SamePlace
  <2>17. OneRead(t) /\ OpenFamilies(t) /\ Range(s.pending) \subseteq Range(t.pending) /\ Asked(t, fl)
    <3>1. read = [fam |-> fl.fam, rcv |-> fl.rcv]
      BY <2>2, Zenon DEF read
    <3>2. Correlated(s)
      BY Zenon DEF WorkerInv
    <3> QED
      BY <1>2, <2>1, <2>3, <2>15, <3>1, <3>2, PendingAppended, Zenon DEF Asked
  <2>18. /\ Current(s) /\ Answering(s) /\ (Steady => Placed(s)) /\ Requested(s)
         /\ AfterAnnouncement(s) /\ StatusOfMain(s) /\ Gated(s)
    BY Zenon DEF WorkerInv, Correlated
  <2>19. Current(t) /\ (Steady => Placed(t)) /\ Answering(t) /\ (f # "smeter" => Quiet(s, t))
    BY <2>1, <2>2, <2>15, <2>16, <2>17, <2>18, AirAppended
  <2>20. Requested(t) /\ AfterAnnouncement(t) /\ StatusOfMain(t) /\ SameNews(s, t)
    <3>1. CASE t.inbox = s.inbox
      BY <2>16, <2>18, <3>1, NewsKept, Zenon
    <3>2. CASE t.inbox = Append(s.inbox, sg)
      <4>1. sg.sig # "dispatched" /\ sg.sig # "reply"
        BY <2>5
      <4> QED
        BY <2>1, <2>5, <2>16, <2>18, <3>2, <4>1, InboxAppended, Zenon
    <3> QED
      BY <2>15, <3>1, <3>2
  <2>21. Gated(t)
    BY <2>16, <2>18, GateKept, Zenon
  <2> QED
    BY <2>4, <2>13, <2>14, <2>15, <2>17, <2>19, <2>20, <2>21, Zenon DEF WorkerInv, Correlated, fl
<1> QED
  BY <1>1, <1>2

-----------------------------------------------------------------------------
(* What a step outside an exchange's dispatch does, and what one may do     *)
(* while an exchange awaits its confirmation: both carry over to sequences. *)

Ordinary(s, t) == /\ t.era = s.era /\ t.exQueued = s.exQueued
                  /\ SameNews(s, t) /\ Quiet(s, t)

\* Nothing but reads of SUB's identity takes the radio's receiver.
Yields(s, t) ==
    /\ Len(t.scheduled) >= Len(s.scheduled) /\ (t.smeter => s.smeter)
    /\ \/ t.window = s.window \/ t.window = <<>>
       \/ Head(t.window).act = "read" /\ ConfirmsExchange(Head(t.window))

LEMMA OrdinaryTwice ==
  ASSUME NEW s, NEW t, NEW u, Ordinary(s, t), Ordinary(t, u) PROVE Ordinary(s, u)
BY Zenon DEF Ordinary, SameNews, Quiet

LEMMA YieldsTwice ==
  ASSUME NEW s, NEW t, NEW u, Sized(s), Sized(t), Sized(u), Yields(s, t), Yields(t, u)
  PROVE  Yields(s, u)
<1>1. Len(s.scheduled) \in Nat /\ Len(t.scheduled) \in Nat /\ Len(u.scheduled) \in Nat
  BY LenProperties DEF Sized, Worker
<1>2. Len(u.scheduled) >= Len(s.scheduled)
  BY <1>1 DEF Yields
<1> QED
  BY <1>2, Zenon DEF Yields

LEMMA LeavesYields ==
  ASSUME NEW s, NEW t, Sized(s), Leaves(s, t)
  PROVE  Yields(s, t) /\ t.era = s.era /\ t.exQueued = s.exQueued
<1>1. Len(s.scheduled) \in Nat
  BY LenProperties DEF Sized, Worker
<1>2. Len(s.scheduled) >= Len(s.scheduled)
  BY <1>1
<1> QED
  BY <1>2, Zenon DEF Leaves, SameGate, SamePlace, Yields

\* Reads of a family that is not the S-meter's.
LEMMA ReadOrdinary ==
  ASSUME NEW s, WorkerInv(s), NEW f \in Families, f # "smeter", NEW r \in Receivers,
         NEW from \in Receivers, (Steady /\ s.era = 0 /\ f \in Identity) => from = r
  PROVE  /\ WorkerInv(SendReadAs(s, f, r, from)) /\ Leaves(s, SendReadAs(s, f, r, from))
         /\ Ordinary(s, SendReadAs(s, f, r, from))
<1> DEFINE t == SendReadAs(s, f, r, from)
<1>1. WorkerInv(t) /\ Leaves(s, t) /\ SameNews(s, t) /\ Quiet(s, t)
  BY SendReadAsKeeps, Zenon
<1> HIDE DEF t
<1>2. Ordinary(s, t)
  BY <1>1, Zenon DEF Ordinary, Leaves, SamePlace
<1> QED
  BY <1>1, <1>2, Zenon DEF t

LEMMA LeavesTwice ==
  ASSUME NEW s, NEW t, NEW u, Leaves(s, t), Leaves(t, u) PROVE Leaves(s, u)
BY Zenon DEF Leaves, SameGate, SamePlace

LEMMA Itself == ASSUME NEW s PROVE Leaves(s, s) /\ Ordinary(s, s)
BY Zenon DEF Leaves, SameGate, SamePlace, Ordinary, SameNews, Quiet

\* The snapshot of a receiver, taken while the radio is on it.
LEMMA SendReadsKeeps ==
  ASSUME NEW s, WorkerInv(s), NEW r \in Receivers, (Steady /\ s.era = 0) => s.selected = r
  PROVE  /\ WorkerInv(SendReads(s, Identity, r)) /\ Leaves(s, SendReads(s, Identity, r))
         /\ Ordinary(s, SendReads(s, Identity, r))
<1> DEFINE t == IF "freq" \in Identity THEN SendRead(s, "freq", r) ELSE s
           u == IF "mode" \in Identity THEN SendRead(t, "mode", r) ELSE t
<1>1. SendReads(s, Identity, r) = u
  BY DEF SendReads, InTurn
<1>2. s.selected \in Receivers
  BY DEF WorkerInv, Sized, Worker
<1>3. "freq" \in Families /\ "freq" # "smeter" /\ "mode" # "smeter" /\ ("mode" \in Identity => "mode" \in Families)
  BY FamiliesAndReceivers
<1>4. WorkerInv(t) /\ Leaves(s, t) /\ Ordinary(s, t)
  BY <1>2, <1>3, ReadOrdinary, Itself, Zenon DEF SendRead
<1> HIDE DEF t
<1>5. t.selected = s.selected /\ t.era = s.era
  BY <1>4, Zenon DEF Leaves, SamePlace
<1>6. WorkerInv(u) /\ Leaves(t, u) /\ Ordinary(t, u)
  BY <1>2, <1>3, <1>4, <1>5, ReadOrdinary, Itself, Zenon DEF SendRead
<1> HIDE DEF u
<1> QED
  BY <1>1, <1>4, <1>6, LeavesTwice, OrdinaryTwice, Zenon

\* Reads that always mean MAIN.
LEMMA SendMainReadsKeeps ==
  ASSUME NEW s, WorkerInv(s), NEW families \in SUBSET Identity
  PROVE  /\ WorkerInv(SendMainReads(s, families)) /\ Leaves(s, SendMainReads(s, families))
         /\ Ordinary(s, SendMainReads(s, families))
<1> DEFINE t == IF "freq" \in families THEN SendMainRead(s, "freq") ELSE s
           u == IF "mode" \in families THEN SendMainRead(t, "mode") ELSE t
<1>1. SendMainReads(s, families) = u
  BY DEF SendMainReads, InTurn
<1>2. "freq" \in Families /\ "freq" # "smeter" /\ "mode" # "smeter" /\ "main" \in Receivers
      /\ ("mode" \in families => "mode" \in Families)
  BY FamiliesAndReceivers
<1>3. WorkerInv(t) /\ Leaves(s, t) /\ Ordinary(s, t)
  BY <1>2, ReadOrdinary, Itself, Zenon DEF SendMainRead
<1> HIDE DEF t
<1>4. WorkerInv(u) /\ Leaves(t, u) /\ Ordinary(t, u)
  BY <1>2, <1>3, ReadOrdinary, Itself, Zenon DEF SendMainRead
<1> HIDE DEF u
<1> QED
  BY <1>1, <1>3, <1>4, LeavesTwice, OrdinaryTwice, Zenon

-----------------------------------------------------------------------------
(* Transactions.                                                           *)

LEMMA ExecuteScopedKeeps ==
  ASSUME NEW s, WorkerInv(s), ~s.active, NEW cmd \in Command
  PROVE  /\ WorkerInv(ExecuteScoped(s, cmd)) /\ Ordinary(s, ExecuteScoped(s, cmd))
         /\ ExecuteScoped(s, cmd).scheduled = s.scheduled
         /\ ExecuteScoped(s, cmd).exPending = s.exPending
         /\ ExecuteScoped(s, cmd).deferred = s.deferred
         /\ (cmd.act = "read" /\ ConfirmsExchange(cmd)) => Yields(s, ExecuteScoped(s, cmd))
<1> DEFINE t == ExecuteScoped(s, cmd)
           q == <<cmd>>
<1>1. s \in Worker /\ Sized(s) /\ Len(s.scheduled) \in Nat
  BY LenProperties DEF WorkerInv, Sized, Worker
<1>2. q \in Seq(Command) /\ Len(q) <= 1 /\ q # <<>> /\ Head(q) = cmd /\ cmd.rcv \in Receivers
  BY DEF Command
<1>3. t = [s EXCEPT !.selected = cmd.rcv, !.active = TRUE, !.window = q]
  BY <1>1 DEF ExecuteScoped, Select, Worker
<1> HIDE DEF q
<1>4. t \in Worker /\ t.selected = cmd.rcv /\ t.active = TRUE /\ t.window = q
  <2> DEFINE u == [s EXCEPT !.selected = cmd.rcv, !.active = TRUE]
  <2>1. u \in Worker
    BY <1>1, <1>2 DEF Worker
  <2>2. t = [u EXCEPT !.window = q]
    BY <1>1, <1>3 DEF Worker
  <2> HIDE DEF u
  <2>3. t \in Worker
    BY <1>2, <2>1, <2>2 DEF Worker
  <2> QED
    BY <1>1, <1>3, <2>3 DEF Worker
<1>5. /\ t.scheduled = s.scheduled /\ t.closing = s.closing /\ t.smeter = s.smeter
      /\ t.smTimer = s.smTimer /\ t.deferred = s.deferred /\ t.exQueued = s.exQueued
      /\ t.exPending = s.exPending /\ t.operator = s.operator /\ t.era = s.era
      /\ t.inbox = s.inbox /\ SameReplies(s, t)
  BY <1>1, <1>3 DEF Worker, SameReplies
<1> HIDE DEF t
<1>6. Sized(t)
  BY <1>1, <1>2, <1>4, <1>5, Zenon DEF Sized
<1>7. Gated(t)
  BY <1>2, <1>4, <1>5, Zenon DEF WorkerInv, Gated
<1>8. Current(t) /\ Quiet(s, t)
  BY <1>5, Zenon DEF WorkerInv, Current, Quiet, SameReplies
<1>9. (Steady => Placed(s)) /\ ~s.smeter
  BY Zenon DEF WorkerInv, Gated
<1>10. Steady => Placed(t)
  BY <1>2, <1>4, <1>5, <1>9, Zenon DEF Placed, SameReplies
<1>11. Correlated(t) /\ Requested(t) /\ AfterAnnouncement(t) /\ StatusOfMain(t) /\ SameNews(s, t)
  BY <1>5, RepliesKept, NewsKept, Zenon DEF WorkerInv
<1>12. WorkerInv(t) /\ Ordinary(s, t)
  BY <1>5, <1>6, <1>7, <1>8, <1>10, <1>11, Zenon DEF WorkerInv, Ordinary
<1>13. Len(t.scheduled) >= Len(s.scheduled)
  BY <1>1, <1>5
<1>14. (cmd.act = "read" /\ ConfirmsExchange(cmd)) => Yields(s, t)
  BY <1>2, <1>4, <1>5, <1>13, Zenon DEF Yields
<1> QED
  BY <1>5, <1>12, <1>14, Zenon DEF t

LEMMA RequestScopedReadKeeps ==
  ASSUME NEW s, WorkerInv(s), NEW f \in Families, NEW r \in Receivers
  PROVE  /\ WorkerInv(RequestScopedRead(s, f, r)) /\ Ordinary(s, RequestScopedRead(s, f, r))
         /\ RequestScopedRead(s, f, r).exPending = s.exPending
         /\ RequestScopedRead(s, f, r).scheduled = s.scheduled
         /\ f \in Identity /\ r = "sub" => Yields(s, RequestScopedRead(s, f, r))
<1> DEFINE t == RequestScopedRead(s, f, r)
<1>1. Sized(s)
  BY Zenon DEF WorkerInv
<1>2. CASE s.active \/ Blocked(s, f)
  <2>1. t = Defer(s, f, r)
    BY <1>2, Zenon DEF RequestScopedRead
  <2>2. WorkerInv(t) /\ Leaves(s, t) /\ SameNews(s, t) /\ Quiet(s, t)
    BY <1>1, <2>1, DeferKeeps, Zenon
  <2> HIDE DEF t
  <2>3. Yields(s, t) /\ Ordinary(s, t)
    BY <1>1, <2>2, LeavesYields, Zenon DEF Ordinary
  <2>4. t.exPending = s.exPending /\ t.scheduled = s.scheduled
    BY <2>2, Zenon DEF Leaves
  <2> QED
    BY <2>2, <2>3, <2>4, Zenon DEF t
<1>3. CASE ~(s.active \/ Blocked(s, f))
  <2> DEFINE cmd == ReadCommand(f, r)
  <2>1. cmd \in Command /\ cmd.act = "read" /\ (f \in Identity /\ r = "sub" => ConfirmsExchange(cmd))
    BY <1>1 DEF ReadCommand, Command, ConfirmsExchange
  <2>2. t = ExecuteScoped(s, cmd)
    BY <1>3, Zenon DEF RequestScopedRead
  <2> HIDE DEF cmd, t
  <2> QED
    BY <1>3, <2>1, <2>2, ExecuteScopedKeeps, Zenon DEF t
<1> QED
  BY <1>2, <1>3

LEMMA RequestScopedReadsKeeps ==
  ASSUME NEW s, WorkerInv(s), NEW families \in SUBSET Identity
  PROVE  /\ WorkerInv(RequestScopedReads(s, families, "sub"))
         /\ Ordinary(s, RequestScopedReads(s, families, "sub"))
         /\ Yields(s, RequestScopedReads(s, families, "sub"))
<1> DEFINE t == IF "freq" \in families THEN RequestScopedRead(s, "freq", "sub") ELSE s
           u == IF "mode" \in families THEN RequestScopedRead(t, "mode", "sub") ELSE t
<1>1. RequestScopedReads(s, families, "sub") = u
  BY DEF RequestScopedReads, InTurn
<1>2. "sub" \in Receivers /\ Sized(s) /\ families \subseteq Families
  BY FamiliesAndReceivers, Zenon DEF WorkerInv
<1>3. Ordinary(s, s) /\ Yields(s, s)
  BY <1>2, Itself, LeavesYields, Zenon
<1>4. WorkerInv(t) /\ Ordinary(s, t) /\ Yields(s, t)
  BY <1>2, <1>3, RequestScopedReadKeeps, Zenon
<1> HIDE DEF t
<1>5. Sized(t) /\ Ordinary(t, t) /\ Yields(t, t)
  BY <1>4, Itself, LeavesYields, Zenon DEF WorkerInv
<1>6. WorkerInv(u) /\ Ordinary(t, u) /\ Yields(t, u)
  BY <1>2, <1>4, <1>5, RequestScopedReadKeeps, Zenon
<1> HIDE DEF u
<1>7. Sized(u)
  BY <1>6, Zenon DEF WorkerInv
<1> QED
  BY <1>1, <1>2, <1>4, <1>5, <1>6, <1>7, OrdinaryTwice, YieldsTwice, Zenon

\* A step that touches the schedule, the deferred reads or the drain's timer only.
LEMMA Bystander ==
  ASSUME NEW s, NEW t, WorkerInv(s), Sized(t), SameGate(s, t), SamePlace(s, t),
         SameReplies(s, t), t.inbox = s.inbox, t.exQueued = s.exQueued
  PROVE  WorkerInv(t) /\ Ordinary(s, t)
<1>1. t.era = s.era /\ t.air = s.air
  BY Zenon DEF SamePlace, SameReplies
<1>2. Correlated(t) /\ Gated(t) /\ Current(t) /\ (Steady => Placed(t)) /\ Quiet(s, t)
  BY <1>1, RepliesKept, GateKept, PlaceKept, Zenon DEF WorkerInv
<1>3. Requested(t) /\ AfterAnnouncement(t) /\ StatusOfMain(t) /\ SameNews(s, t)
  BY <1>1, NewsKept, Zenon DEF WorkerInv
<1> QED
  BY <1>1, <1>2, <1>3, Zenon DEF WorkerInv, Ordinary

-----------------------------------------------------------------------------
(* The schedule.                                                           *)

LEMMA EnqueueKeeps ==
  ASSUME NEW s, WorkerInv(s), NEW cmd \in Command
  PROVE  /\ WorkerInv(Enqueue(s, cmd)) /\ Ordinary(s, Enqueue(s, cmd)) /\ Yields(s, Enqueue(s, cmd))
         /\ SameGate(s, Enqueue(s, cmd)) /\ Enqueue(s, cmd).exPending = s.exPending
<1> DEFINE same == {i \in DOMAIN s.scheduled :
                      /\ s.scheduled[i].class = cmd.class
                      /\ s.scheduled[i].fam = cmd.fam /\ s.scheduled[i].rcv = cmd.rcv}
           t == Enqueue(s, cmd)
<1>1. /\ s \in Worker /\ Sized(s) /\ s.scheduled \in Seq(Command) /\ Len(s.scheduled) \in Nat
      /\ DOMAIN s.scheduled = 1 .. Len(s.scheduled) /\ Len(s.scheduled) <= MaxScheduled
  BY LenProperties DEF WorkerInv, Sized, Worker
<1>2. \/ t = s
      \/ \E q \in Seq(Command) :
           /\ t = [s EXCEPT !.scheduled = q]
           /\ Len(q) \in Len(s.scheduled) .. MaxScheduled
  <2>1. CASE same # {}
    <3>1. Min(same) \in 1 .. Len(s.scheduled)
      <4>1. same \in SUBSET Nat /\ same \subseteq 1 .. Len(s.scheduled)
        BY <1>1
      <4> QED
        BY <2>1, <4>1, MinIsLeast, Zenon
    <3> DEFINE m == Min(same)
               q == [s.scheduled EXCEPT ![m] = cmd]
    <3>2. t = [s EXCEPT !.scheduled = q]
      BY <1>1, <2>1 DEF Enqueue, Worker
    <3> HIDE DEF m
    <3>3. m \in 1 .. Len(s.scheduled)
      BY <3>1 DEF m
    <3>4. q \in Seq(Command) /\ Len(q) = Len(s.scheduled)
      BY <1>1, <3>3, ExceptSeq
    <3> HIDE DEF q
    <3>5. Len(q) \in Len(s.scheduled) .. MaxScheduled
      BY <1>1, <3>4, SchedulerAssumption
    <3> QED
      BY <3>2, <3>4, <3>5, Zenon
  <2>2. CASE same = {}
    <3> DEFINE q == Append(s.scheduled, cmd)
    <3>1. q \in Seq(Command) /\ Len(q) = Len(s.scheduled) + 1
      BY <1>1, AppendProperties
    <3>2. t = s \/ (t = [s EXCEPT !.scheduled = q] /\ ~(Len(s.scheduled) >= MaxScheduled))
      BY <1>1, <2>2 DEF Enqueue, Worker
    <3> HIDE DEF q, t
    <3>3. ~(Len(s.scheduled) >= MaxScheduled) => Len(q) \in Len(s.scheduled) .. MaxScheduled
      BY <1>1, <3>1, SchedulerAssumption
    <3> QED
      BY <3>1, <3>2, <3>3, Zenon
  <2> QED
    BY <2>1, <2>2
<1> HIDE DEF t
<1>3. CASE t = s
  <2>1. SameGate(s, s) /\ Yields(s, s) /\ Ordinary(s, s)
    BY <1>1, Itself, LeavesYields, Zenon DEF SameGate
  <2> QED
    BY <1>3, <2>1, Zenon DEF t
<1>4. ASSUME NEW q \in Seq(Command), t = [s EXCEPT !.scheduled = q],
             Len(q) \in Len(s.scheduled) .. MaxScheduled
      PROVE  WorkerInv(t) /\ Ordinary(s, t) /\ Yields(s, t) /\ SameGate(s, t) /\ t.exPending = s.exPending
  <2>1. t \in Worker /\ t.scheduled = q
    BY <1>1, <1>4 DEF Worker
  <2>2. /\ SameGate(s, t) /\ SamePlace(s, t) /\ SameReplies(s, t) /\ t.inbox = s.inbox
        /\ t.exQueued = s.exQueued /\ t.exPending = s.exPending /\ t.deferred = s.deferred
    BY <1>1, <1>4 DEF Worker, SameGate, SamePlace, SameReplies
  <2>3. Len(q) <= MaxScheduled /\ Len(q) >= Len(s.scheduled)
    BY <1>1, <1>4, SchedulerAssumption
  <2>4. Sized(t)
    BY <1>1, <2>1, <2>2, <2>3, Zenon DEF Sized, SameGate
  <2>5. Yields(s, t)
    BY <2>1, <2>2, <2>3, Zenon DEF Yields, SameGate
  <2> QED
    BY <2>2, <2>4, <2>5, Bystander, Zenon
<1> QED
  BY <1>2, <1>3, <1>4, Zenon DEF t

LEMMA EnqueueTwice ==
  ASSUME NEW s, WorkerInv(s), NEW cmd \in Command, NEW other \in Command
  PROVE  /\ WorkerInv(Enqueue(Enqueue(s, cmd), other))
         /\ Ordinary(s, Enqueue(Enqueue(s, cmd), other))
         /\ Enqueue(Enqueue(s, cmd), other).exPending = s.exPending
<1> DEFINE t == Enqueue(s, cmd)
           u == Enqueue(t, other)
<1>1. WorkerInv(t) /\ Ordinary(s, t) /\ t.exPending = s.exPending
  BY EnqueueKeeps, Zenon
<1> HIDE DEF t
<1>2. WorkerInv(u) /\ Ordinary(t, u) /\ u.exPending = t.exPending
  BY <1>1, EnqueueKeeps, Zenon
<1> HIDE DEF u
<1>3. Ordinary(s, u)
  BY <1>1, <1>2, OrdinaryTwice, Zenon
<1> QED
  BY <1>1, <1>2, <1>3, Zenon DEF t, u

LEMMA TimerKeeps ==
  ASSUME NEW s, WorkerInv(s), NEW d \in {"again", "resolved"}
  PROVE  /\ WorkerInv([s EXCEPT !.timer = d]) /\ Leaves(s, [s EXCEPT !.timer = d])
         /\ Ordinary(s, [s EXCEPT !.timer = d]) /\ Yields(s, [s EXCEPT !.timer = d])
<1> DEFINE t == [s EXCEPT !.timer = d]
<1>1. s \in Worker /\ Sized(s) /\ d \in Range(Lengths)
  BY RangeOfLengths DEF WorkerInv, Sized
<1>2. t \in Worker
  BY <1>1 DEF Worker
<1>3. Leaves(s, t) /\ SameReplies(s, t) /\ t.inbox = s.inbox /\ t.deferred = s.deferred
  BY <1>1 DEF Worker, Leaves, SameGate, SamePlace, SameReplies
<1> HIDE DEF t
<1>4. Sized(t)
  BY <1>1, <1>2, <1>3, Zenon DEF Sized, Leaves, SameGate
<1>5. WorkerInv(t) /\ Ordinary(s, t)
  BY <1>3, <1>4, Bystander, Zenon DEF Leaves
<1>6. Yields(s, t)
  BY <1>1, <1>3, LeavesYields, Zenon
<1> QED
  BY <1>3, <1>5, <1>6, Zenon DEF t

LEMMA FinishSMeterKeeps ==
  ASSUME NEW s, WorkerInv(s)
  PROVE  /\ WorkerInv(FinishSMeter(s)) /\ Ordinary(s, FinishSMeter(s)) /\ Yields(s, FinishSMeter(s))
         /\ FinishSMeter(s).exPending = s.exPending
<1> DEFINE t == FinishSMeter(s)
<1>1. s \in Worker /\ Sized(s) /\ s.operator \in Receivers /\ Len(s.scheduled) \in Nat
  BY LenProperties DEF WorkerInv, Sized, Worker
<1>2. CASE ~s.smeter
  <2>1. t = s
    BY <1>2, Zenon DEF FinishSMeter
  <2>2. Ordinary(s, s) /\ Yields(s, s)
    BY <1>1, Itself, LeavesYields, Zenon
  <2> QED
    BY <2>1, <2>2, Zenon
<1>3. CASE s.smeter
  <2>1. t = [s EXCEPT !.selected = s.operator, !.smeter = FALSE, !.smTimer = FALSE, !.closing = TRUE]
    BY <1>1, <1>3 DEF FinishSMeter, Select, Worker
  <2>2. t \in Worker /\ t.selected = s.operator /\ t.smeter = FALSE /\ t.smTimer = FALSE /\ t.closing = TRUE
    BY <1>1, <2>1 DEF Worker
  <2>3. /\ t.scheduled = s.scheduled /\ t.active = s.active /\ t.window = s.window
        /\ t.deferred = s.deferred /\ t.exQueued = s.exQueued
        /\ t.exPending = s.exPending /\ t.operator = s.operator /\ t.era = s.era
        /\ t.inbox = s.inbox /\ SameReplies(s, t)
    BY <1>1, <2>1 DEF Worker, SameReplies
  <2> HIDE DEF t
  <2>4. Sized(t)
    BY <1>1, <2>2, <2>3, Zenon DEF Sized
  <2>5. Gated(t) /\ s.window = <<>>
    BY <1>3, <2>2, <2>3, Zenon DEF WorkerInv, Gated
  <2>6. Current(t) /\ Quiet(s, t)
    BY <2>3, Zenon DEF WorkerInv, Current, Quiet, SameReplies
  <2>7. Steady => Placed(t)
    <3>1. Steady => Placed(s)
      BY Zenon DEF WorkerInv
    <3> QED
      BY <2>2, <2>3, <2>5, <3>1 DEF Placed, SameReplies
  <2>8. Correlated(t) /\ Requested(t) /\ AfterAnnouncement(t) /\ StatusOfMain(t) /\ SameNews(s, t)
    BY <2>3, RepliesKept, NewsKept, Zenon DEF WorkerInv
  <2>9. WorkerInv(t) /\ Ordinary(s, t)
    BY <2>3, <2>4, <2>5, <2>6, <2>7, <2>8, Zenon DEF WorkerInv, Ordinary
  <2>10. Len(t.scheduled) >= Len(s.scheduled)
    BY <1>1, <2>3
  <2> QED
    BY <2>2, <2>3, <2>9, <2>10, Zenon DEF Yields, t
<1> QED
  BY <1>2, <1>3

-----------------------------------------------------------------------------
(* Reads answered, timed out or discarded.                                 *)

LEMMA RemoveAtElements ==
  ASSUME NEW T, NEW q \in Seq(T), NEW i \in 1 .. Len(q)
  PROVE  /\ RemoveAt(q, i) \in Seq(T) /\ Len(RemoveAt(q, i)) = Len(q) - 1
         /\ \A k \in 1 .. Len(q) - 1 : RemoveAt(q, i)[k] = IF k < i THEN q[k] ELSE q[k + 1]
<1> DEFINE a == SubSeq(q, 1, i - 1)
           b == SubSeq(q, i + 1, Len(q))
<1>1. Len(q) \in Nat /\ \A k \in 1 .. Len(q) : q[k] \in T
  BY LenProperties, ElementOfSeq
<1>2. a \in Seq(T) /\ Len(a) = i - 1 /\ \A k \in 1 .. i - 1 : a[k] = q[k]
  BY <1>1, SubSeqProperties
<1>3. b \in Seq(T) /\ Len(b) = Len(q) - i /\ \A k \in 1 .. Len(q) - i : b[k] = q[i + k]
  BY <1>1, SubSeqProperties
<1> HIDE DEF a, b
<1>4. /\ a \o b \in Seq(T) /\ Len(a \o b) = Len(a) + Len(b)
      /\ \A k \in 1 .. Len(a) + Len(b) : (a \o b)[k] = IF k <= Len(a) THEN a[k] ELSE b[k - Len(a)]
  BY <1>2, <1>3, ConcatProperties
<1>5. RemoveAt(q, i) = a \o b
  BY Zenon DEF RemoveAt, a, b
<1>6. \A k \in 1 .. Len(q) - 1 : (a \o b)[k] = IF k < i THEN q[k] ELSE q[k + 1]
  <2>1. ASSUME NEW k \in 1 .. Len(q) - 1 PROVE (a \o b)[k] = IF k < i THEN q[k] ELSE q[k + 1]
    <3>1. k \in 1 .. Len(a) + Len(b)
      BY <1>1, <1>2, <1>3
    <3>2. CASE k < i
      <4>1. k <= Len(a) /\ k \in 1 .. i - 1
        BY <1>1, <1>2, <3>2
      <4> QED
        BY <1>2, <1>4, <3>1, <3>2, <4>1, Zenon
    <3>3. CASE ~(k < i)
      <4>1. ~(k <= Len(a)) /\ k - Len(a) \in 1 .. Len(q) - i /\ i + (k - Len(a)) = k + 1
        BY <1>1, <1>2, <3>3
      <4> QED
        BY <1>3, <1>4, <3>1, <3>3, <4>1, Zenon
    <3> QED
      BY <3>2, <3>3
  <2> QED
    BY <2>1
<1>7. (a \o b) \in Seq(T) /\ Len(a \o b) = Len(q) - 1
  BY <1>1, <1>2, <1>3, <1>4
<1> QED
  BY <1>5, <1>6, <1>7, Zenon

\* q is p without its reads of the family f, and e says from where in p.
TakenBy(p, q, f, e) ==
    /\ e \in [1 .. Len(q) -> 1 .. Len(p)]
    /\ \A x \in 1 .. Len(q) : q[x] = p[e[x]] /\ q[x].fam # f
    /\ \A x, y \in 1 .. Len(q) : x < y => e[x] < e[y]
    /\ \A i \in 1 .. Len(p) : p[i].fam # f => \E x \in 1 .. Len(q) : e[x] = i
Taken(p, q, f) == \E e : TakenBy(p, q, f, e)

LEMMA TakenAt ==
  ASSUME NEW p \in Seq(Read), NEW i \in 1 .. Len(p),
         \A j, k \in 1 .. Len(p) : p[j].fam = p[k].fam => j = k
  PROVE  RemoveAt(p, i) \in Seq(Read) /\ Taken(p, RemoveAt(p, i), p[i].fam)
<1> DEFINE q == RemoveAt(p, i)
           e == [x \in 1 .. Len(q) |-> IF x < i THEN x ELSE x + 1]
<1>1. Len(p) \in Nat
  BY LenProperties
<1>2. /\ q \in Seq(Read) /\ Len(q) = Len(p) - 1
      /\ \A k \in 1 .. Len(p) - 1 : q[k] = IF k < i THEN p[k] ELSE p[k + 1]
  BY RemoveAtElements
<1> HIDE DEF q
<1>3. \A x \in 1 .. Len(q) : /\ e[x] = (IF x < i THEN x ELSE x + 1) /\ e[x] \in 1 .. Len(p)
                             /\ e[x] # i /\ x \in 1 .. Len(p) - 1
  BY <1>1, <1>2
<1>4. e \in [1 .. Len(q) -> 1 .. Len(p)]
  BY <1>1, <1>2
<1>5. \A x, y \in 1 .. Len(q) : x < y => e[x] < e[y]
  BY <1>1, <1>2
<1>6. ASSUME NEW j \in 1 .. Len(p), j # i PROVE \E x \in 1 .. Len(q) : e[x] = j
  <2> DEFINE x == IF j < i THEN j ELSE j - 1
  <2>1. x \in 1 .. Len(q) /\ e[x] = j
    BY <1>1, <1>2, <1>6
  <2> QED
    BY <2>1
<1> HIDE DEF e
<1>7. ASSUME NEW x \in 1 .. Len(q) PROVE q[x] = p[e[x]] /\ q[x].fam # p[i].fam
  <2>1. q[x] = p[e[x]]
    BY <1>2, <1>3
  <2>2. e[x] \in 1 .. Len(p) /\ e[x] # i
    BY <1>3, Zenon
  <2>3. p[e[x]].fam # p[i].fam
    BY <2>2, Zenon
  <2> QED
    BY <2>1, <2>3, Zenon
<1>8. TakenBy(p, q, p[i].fam, e)
  BY <1>4, <1>5, <1>6, <1>7, Zenon DEF TakenBy
<1> QED
  BY <1>2, <1>8, Zenon DEF Taken, q

LEMMA TakenHead ==
  ASSUME NEW p \in Seq(Read), p # <<>>,
         \A j, k \in 1 .. Len(p) : p[j].fam = p[k].fam => j = k
  PROVE  Tail(p) \in Seq(Read) /\ Head(p) = p[1] /\ Taken(p, Tail(p), p[1].fam)
<1>1. 1 \in 1 .. Len(p) /\ Len(p) \in Nat
  BY EmptySeq, LenProperties
<1>2. Tail(p) \in Seq(Read) /\ Len(Tail(p)) = Len(p) - 1 /\ Head(p) = p[1]
      /\ \A k \in 1 .. Len(Tail(p)) : Tail(p)[k] = p[k + 1]
  BY HeadTailProperties
<1>3. /\ RemoveAt(p, 1) \in Seq(Read) /\ Len(RemoveAt(p, 1)) = Len(p) - 1
      /\ \A k \in 1 .. Len(p) - 1 : RemoveAt(p, 1)[k] = IF k < 1 THEN p[k] ELSE p[k + 1]
  BY <1>1, RemoveAtElements
<1>4. \A k \in 1 .. Len(p) - 1 : RemoveAt(p, 1)[k] = Tail(p)[k]
  BY <1>1, <1>2, <1>3
<1>5. RemoveAt(p, 1) = Tail(p)
  BY <1>2, <1>3, <1>4, SeqEqual
<1>6. Taken(p, RemoveAt(p, 1), p[1].fam)
  BY <1>1, TakenAt, Zenon
<1> QED
  BY <1>2, <1>5, <1>6, Zenon

LEMMA TakenAll ==
  ASSUME NEW p \in Seq(Read), NEW f
  PROVE  /\ Those(p, {read \in Read : read.fam # f}) \in Seq(Read)
         /\ Taken(p, Those(p, {read \in Read : read.fam # f}), f)
<1> DEFINE S == {read \in Read : read.fam # f}
           q == Those(p, S)
<1>1. q \in Seq(Read) /\ Kept(p, S, Len(p), q)
  BY ThoseKept, Zenon
<1>2. \A i \in 1 .. Len(p) : p[i] \in S <=> p[i].fam # f
  BY ElementOfSeq
<1>3. \A x : x \in S => x.fam # f
  OBVIOUS
<1> HIDE DEF S, q
<1>4. PICK e \in [1 .. Len(q) -> 1 .. Len(p)] :
         /\ \A x \in 1 .. Len(q) : q[x] = p[e[x]] /\ q[x] \in S
         /\ \A x, y \in 1 .. Len(q) : x < y => e[x] < e[y]
         /\ \A i \in 1 .. Len(p) : p[i] \in S => \E x \in 1 .. Len(q) : e[x] = i
  BY <1>1, Zenon DEF Kept
<1>5. TakenBy(p, q, f, e)
  BY <1>2, <1>3, <1>4, Zenon DEF TakenBy
<1> QED
  BY <1>1, <1>5, Zenon DEF Taken, S, q

LEMMA LongerShuts ==
  ASSUME NEW d \in {"none", "resolved", "abandoned"}, NEW e \in {"resolved", "abandoned"}
  PROVE  Longer(d, e) \in {"resolved", "abandoned"}
BY RanksOfLengths DEF Longer

\* The reads of a family end, and it is shut.
LEMMA FamilyShut ==
  ASSUME NEW s, WorkerInv(s), NEW f \in Families, NEW q \in Seq(Read), Taken(s.pending, q, f),
         NEW d \in {"resolved", "abandoned"}
  PROVE  /\ WorkerInv(BeginDrain([s EXCEPT !.pending = q], f, d))
         /\ Ordinary(s, BeginDrain([s EXCEPT !.pending = q], f, d))
         /\ Leaves(s, BeginDrain([s EXCEPT !.pending = q], f, d))
         /\ BeginDrain([s EXCEPT !.pending = q], f, d).air = s.air
<1> DEFINE t == BeginDrain([s EXCEPT !.pending = q], f, d)
           g == [s.drains EXCEPT ![f] = Longer(@, d)]
<1>1. /\ s \in Worker /\ Sized(s) /\ s.pending \in Seq(Read) /\ d \in Range(Lengths)
      /\ s.drains \in [Families -> {"none", "resolved", "abandoned"}]
      /\ DOMAIN s.pending = 1 .. Len(s.pending)
      /\ DOMAIN q = 1 .. Len(q)
  BY RangeOfLengths, LenProperties DEF WorkerInv, Sized, Worker
<1>2. Longer(s.drains[f], d) \in {"resolved", "abandoned"}
  BY <1>1, LongerShuts
<1>3. /\ g \in [Families -> {"none", "resolved", "abandoned"}]
      /\ g[f] # "none" /\ \A h \in Families : h # f => g[h] = s.drains[h]
  BY <1>1, <1>2
<1>4. t = [s EXCEPT !.pending = q, !.drains = g, !.timer = d]
  BY <1>1 DEF BeginDrain, Worker
<1> HIDE DEF g
<1>5. t \in Worker /\ t.pending = q /\ t.drains = g
  <2>1. t \in Worker
    <3> DEFINE u == [s EXCEPT !.pending = q, !.timer = d]
    <3>1. u \in Worker
      BY <1>1 DEF Worker
    <3>2. t = [u EXCEPT !.drains = g]
      BY <1>1, <1>4 DEF Worker
    <3>3. g \in [Families -> {"none", "resolved", "abandoned"}]
      BY <1>3
    <3> HIDE DEF u
    <3> QED
      BY <3>1, <3>2, <3>3, Zenon DEF Worker
  <2>2. t.pending = q /\ t.drains = g
    BY <1>1, <1>4 DEF Worker
  <2> QED
    BY <2>1, <2>2
<1>6. Leaves(s, t) /\ t.air = s.air /\ t.inbox = s.inbox /\ t.deferred = s.deferred
  BY <1>1, <1>4 DEF Worker, Leaves, SameGate, SamePlace
<1> HIDE DEF t
<1>7. Sized(t)
  BY <1>1, <1>5, <1>6, Zenon DEF Sized, Leaves, SameGate
<1>8. SameGate(s, t) /\ SamePlace(s, t) /\ t.era = s.era /\ t.exQueued = s.exQueued
  BY <1>6, Zenon DEF Leaves, SamePlace
<1>9. PICK e : TakenBy(s.pending, q, f, e)
  BY Zenon DEF Taken
<1>10. \A x \in 1 .. Len(q) : e[x] \in 1 .. Len(s.pending)
  BY <1>9 DEF TakenBy
<1>11. \A x, y \in 1 .. Len(q) : x # y => e[x] # e[y]
  <2>1. Len(q) \in Nat
    BY LenProperties
  <2> QED
    BY <1>9, <1>10, <2>1 DEF TakenBy
<1>12. OneRead(t)
  <2>1. ASSUME NEW x \in 1 .. Len(q), NEW y \in 1 .. Len(q), q[x].fam = q[y].fam PROVE x = y
    <3>1. s.pending[e[x]].fam = s.pending[e[y]].fam
      BY <1>9, <2>1, Zenon DEF TakenBy
    <3>2. e[x] \in DOMAIN s.pending /\ e[y] \in DOMAIN s.pending
      BY <1>1, <1>10, Zenon
    <3>3. e[x] = e[y]
      BY <3>1, <3>2, Zenon DEF OneRead, WorkerInv, Correlated
    <3> QED
      BY <1>11, <3>3, Zenon
  <2> QED
    BY <1>1, <1>5, <2>1, Zenon DEF OneRead
<1>13. OpenFamilies(t)
  <2>1. ASSUME NEW x \in 1 .. Len(q) PROVE t.drains[q[x].fam] = "none"
    <3>1. q[x] \in Read
      BY ElementOfSeq
    <3>2. q[x].fam \in Families /\ q[x].fam # f
      BY <1>9, <3>1 DEF Read, TakenBy
    <3>3. q[x] = s.pending[e[x]] /\ e[x] \in DOMAIN s.pending
      BY <1>1, <1>9, <1>10, Zenon DEF TakenBy
    <3>4. s.drains[q[x].fam] = "none"
      BY <3>3, Zenon DEF OpenFamilies, WorkerInv, Correlated
    <3> QED
      BY <1>3, <1>5, <3>2, <3>4, Zenon
  <2> QED
    BY <1>1, <1>5, <2>1, Zenon DEF OpenFamilies
<1>14. Answering(t)
  <2>1. ASSUME NEW r \in Range(s.pending), r.fam # f PROVE r \in Range(t.pending)
    <3>1. PICK i \in 1 .. Len(s.pending) : r = s.pending[i]
      BY <1>1 DEF Range
    <3>2. PICK x \in 1 .. Len(q) : e[x] = i
      BY <1>9, <2>1, <3>1, Zenon DEF TakenBy
    <3>3. r = q[x]
      BY <1>9, <3>1, <3>2, Zenon DEF TakenBy
    <3> QED
      BY <1>1, <1>5, <3>3 DEF Range
  <2>2. \A r : Asked(s, r) /\ r.fam # f => Asked(t, r)
    <3>1. ASSUME NEW r, Asked(s, r), r.fam # f PROVE Asked(t, r)
      <4>1. [fam |-> r.fam, rcv |-> r.rcv].fam # f
        BY <3>1
      <4> QED
        BY <2>1, <3>1, <4>1, Zenon DEF Asked
    <3> QED
      BY <3>1
  <2>3. Answering(s)
    BY Zenon DEF WorkerInv, Correlated
  <2> QED
    BY <1>3, <1>5, <1>6, <2>2, <2>3, Zenon DEF Answering
<1>15. Gated(t) /\ Current(t) /\ (Steady => Placed(t)) /\ Quiet(s, t)
  BY <1>6, <1>8, GateKept, PlaceKept, Zenon DEF WorkerInv
<1>16. Requested(t) /\ AfterAnnouncement(t) /\ StatusOfMain(t) /\ SameNews(s, t)
  BY <1>6, <1>8, NewsKept, Zenon DEF WorkerInv
<1>17. WorkerInv(t) /\ Ordinary(s, t)
  BY <1>7, <1>8, <1>12, <1>13, <1>14, <1>15, <1>16, Zenon DEF WorkerInv, Correlated, Ordinary
<1> QED
  BY <1>6, <1>17, Zenon DEF t

LEMMA DiscardKeeps ==
  ASSUME NEW s, WorkerInv(s), NEW f \in Families
  PROVE  /\ WorkerInv(Discard(s, f)) /\ Ordinary(s, Discard(s, f)) /\ Yields(s, Discard(s, f))
<1> DEFINE q == Those(s.pending, {read \in Read : read.fam # f})
           t == BeginDrain([s EXCEPT !.pending = q], f, "abandoned")
<1>1. s \in Worker /\ Sized(s) /\ s.pending \in Seq(Read)
  BY DEF WorkerInv, Sized, Worker
<1>2. q \in Seq(Read) /\ Taken(s.pending, q, f)
  BY <1>1, TakenAll
<1>3. Discard(s, f) = s \/ Discard(s, f) = t
  BY <1>1 DEF Discard, Worker
<1> HIDE DEF q
<1>4. "abandoned" \in {"resolved", "abandoned"}
  OBVIOUS
<1>5. WorkerInv(t) /\ Ordinary(s, t) /\ Leaves(s, t)
  BY <1>2, <1>4, FamilyShut, Zenon
<1> HIDE DEF t
<1>6. Yields(s, t) /\ Yields(s, s) /\ Ordinary(s, s)
  BY <1>1, <1>5, Itself, LeavesYields, Zenon
<1> QED
  BY <1>3, <1>5, <1>6, Zenon

LEMMA AbortSMeterKeeps ==
  ASSUME NEW s, WorkerInv(s)
  PROVE  WorkerInv(AbortSMeter(s)) /\ Ordinary(s, AbortSMeter(s)) /\ Yields(s, AbortSMeter(s))
<1> DEFINE t == Discard(s, "smeter")
           u == FinishSMeter(t)
<1>1. WorkerInv(t) /\ Ordinary(s, t) /\ Yields(s, t)
  BY FamiliesAndReceivers, DiscardKeeps, Zenon
<1> HIDE DEF t
<1>2. WorkerInv(u) /\ Ordinary(t, u) /\ Yields(t, u)
  BY <1>1, FinishSMeterKeeps, Zenon
<1> HIDE DEF u
<1>3. Sized(s) /\ Sized(t) /\ Sized(u)
  BY <1>1, <1>2, Zenon DEF WorkerInv
<1>4. Ordinary(s, u) /\ Yields(s, u)
  BY <1>1, <1>2, <1>3, OrdinaryTwice, YieldsTwice, Zenon
<1> QED
  BY <1>2, <1>4, Zenon DEF AbortSMeter, t, u

\* A reply resolves its read; SUB's S-meter reply ends the transaction too.
LEMMA ResolveKeeps ==
  ASSUME NEW s, WorkerInv(s), NEW i \in DOMAIN s.pending
  PROVE  /\ WorkerInv(Resolve(s, i)) /\ Ordinary(s, Resolve(s, i)) /\ Yields(s, Resolve(s, i))
         /\ Resolve(s, i).exPending = s.exPending
<1> DEFINE f == s.pending[i].fam
           q == RemoveAt(s.pending, i)
           t == BeginDrain([s EXCEPT !.pending = q], f, "resolved")
           u == FinishSMeter(t)
<1>1. /\ s \in Worker /\ Sized(s) /\ s.pending \in Seq(Read)
      /\ DOMAIN s.pending = 1 .. Len(s.pending)
  BY LenProperties DEF WorkerInv, Sized, Worker
<1>2. s.pending[i] \in Read
  BY <1>1, ElementOfSeq
<1>3. f \in Families
  BY <1>2 DEF Read
<1>4. q \in Seq(Read) /\ Taken(s.pending, q, f)
  <2>1. \A j, k \in 1 .. Len(s.pending) : s.pending[j].fam = s.pending[k].fam => j = k
    BY <1>1, Zenon DEF WorkerInv, Correlated, OneRead
  <2> QED
    BY <1>1, <2>1, TakenAt
<1>5. Resolve(s, i) = u \/ Resolve(s, i) = t
  BY <1>1 DEF Resolve, Worker
<1> HIDE DEF q, f
<1>6. "resolved" \in {"resolved", "abandoned"}
  OBVIOUS
<1>7. WorkerInv(t) /\ Ordinary(s, t) /\ Leaves(s, t)
  BY <1>3, <1>4, <1>6, FamilyShut, Zenon
<1> HIDE DEF t
<1>8. Yields(s, t) /\ t.exPending = s.exPending
  BY <1>1, <1>7, LeavesYields, Zenon DEF Leaves
<1>9. WorkerInv(u) /\ Ordinary(t, u) /\ Yields(t, u) /\ u.exPending = t.exPending
  BY <1>7, FinishSMeterKeeps, Zenon
<1> HIDE DEF u
<1>10. Sized(t) /\ Sized(u)
  BY <1>7, <1>9, Zenon DEF WorkerInv
<1>11. Ordinary(s, u) /\ Yields(s, u)
  BY <1>1, <1>7, <1>8, <1>9, <1>10, OrdinaryTwice, YieldsTwice, Zenon
<1> QED
  BY <1>5, <1>7, <1>8, <1>9, <1>11, Zenon

-----------------------------------------------------------------------------
(* The exchange.                                                           *)

LEMMA FinishExchangeKeeps ==
  ASSUME NEW s, WorkerInv(s)
  PROVE  /\ WorkerInv(FinishExchange(s)) /\ Ordinary(s, FinishExchange(s))
         /\ FinishExchange(s).exPending = FALSE
<1> DEFINE S == {read \in Read : ~ConfirmsExchange(read)}
           q == Those(s.deferred, S)
           d == IF q # <<>> \/ s.exQueued THEN "resolved" ELSE s.timer
           t == [s EXCEPT !.exPending = FALSE, !.deferred = q, !.timer = d]
<1>1. /\ s \in Worker /\ Sized(s) /\ s.deferred \in Seq(Read) /\ Len(s.deferred) \in Nat
      /\ Len(s.deferred) <= MaxDeferred /\ s.timer \in Range(Lengths)
  BY LenProperties DEF WorkerInv, Sized, Worker
<1>2. q \in Seq(Read) /\ Len(q) \in 0 .. Len(s.deferred)
  BY <1>1, ThoseKept, Zenon DEF Kept
<1>3. Len(q) <= MaxDeferred
  BY <1>1, <1>2, SchedulerAssumption
<1>4. d \in Range(Lengths)
  BY <1>1, RangeOfLengths
<1>5. FinishExchange(s) = t
  BY <1>1 DEF FinishExchange, Worker
<1> HIDE DEF S, q, d
<1>6. t \in Worker /\ t.deferred = q
  BY <1>1, <1>2, <1>4 DEF Worker
<1>7. /\ SameGate(s, t) /\ SamePlace(s, t) /\ SameReplies(s, t) /\ t.inbox = s.inbox
      /\ t.exQueued = s.exQueued /\ t.scheduled = s.scheduled /\ t.exPending = FALSE
  BY <1>1 DEF Worker, SameGate, SamePlace, SameReplies
<1> HIDE DEF t
<1>8. Sized(t)
  BY <1>1, <1>3, <1>6, <1>7, Zenon DEF Sized, SameGate
<1> QED
  BY <1>5, <1>7, <1>8, Bystander, Zenon

\* The exchange has been made and is announced.
Dispatched(s, t) == /\ t.era = s.era + 1 /\ ~t.exQueued /\ Announced(t) /\ Quiet(s, t)

\* No identity read is on its way when an exchange is made.
LEMMA NoneAsked ==
  ASSUME NEW s, WorkerInv(s), ExchangeMayGo(s), NEW i \in DOMAIN s.air
  PROVE  s.air[i].fam \notin Identity
<1>1. ASSUME s.air[i].fam \in Identity PROVE FALSE
  <2>1. ~Blocked(s, s.air[i].fam)
    BY <1>1, Zenon DEF ExchangeMayGo
  <2>2. s.air[i].fam \in Families
    BY <1>1, FamiliesAndReceivers
  <2>3. Asked(s, s.air[i])
    BY <2>1, <2>2, Zenon DEF WorkerInv, Correlated, Answering, Blocked
  <2>4. \E j \in DOMAIN s.pending : s.pending[j] = [fam |-> s.air[i].fam, rcv |-> s.air[i].rcv]
    BY <2>3 DEF Asked, Range
  <2>5. \E j \in DOMAIN s.pending : s.pending[j].fam = s.air[i].fam
    BY <2>4
  <2> QED
    BY <2>1, <2>5, Zenon DEF Blocked, Live
<1> QED
  BY <1>1

LEMMA AnnouncementAppended ==
  ASSUME NEW s, NEW t, s.inbox \in Seq(Signal), NEW sg \in Signal, sg.sig = "dispatched",
         t.inbox = Append(s.inbox, sg), ~t.exQueued, t.era # 0, ~Announced(s), StatusOfMain(s)
  PROVE  Requested(t) /\ AfterAnnouncement(t) /\ StatusOfMain(t) /\ Announced(t)
<1>1. /\ Len(s.inbox) \in Nat /\ Len(t.inbox) = Len(s.inbox) + 1
      /\ DOMAIN t.inbox = 1 .. Len(t.inbox) /\ DOMAIN s.inbox = 1 .. Len(s.inbox)
      /\ t.inbox[Len(t.inbox)] = sg /\ \A i \in 1 .. Len(s.inbox) : t.inbox[i] = s.inbox[i]
  BY AppendProperties, LenProperties
<1>2. \A i \in DOMAIN t.inbox :
         \/ i = Len(t.inbox) /\ t.inbox[i] = sg
         \/ i \in DOMAIN s.inbox /\ t.inbox[i] = s.inbox[i]
  BY <1>1
<1>3. \A i \in DOMAIN t.inbox : Announces(t, i) => i = Len(t.inbox)
  BY <1>2, Zenon DEF Announces, Announced
<1>4. Len(t.inbox) \in DOMAIN t.inbox /\ \A j \in DOMAIN t.inbox : ~(Len(t.inbox) < j)
  BY <1>1
<1>5. Announced(t)
  BY <1>1, <1>4, Zenon DEF Announced, Announces
<1>6. Requested(t) /\ AfterAnnouncement(t)
  BY <1>3, <1>4, Zenon DEF Requested, AfterAnnouncement
<1>7. sg.sig # "reply"
  OBVIOUS
<1>8. StatusOfMain(t)
  BY <1>2, <1>7, Zenon DEF StatusOfMain
<1> QED
  BY <1>5, <1>6, <1>8

LEMMA DispatchExchangeKeeps ==
  ASSUME NEW s, WorkerInv(s), ExchangeMayGo(s), ~Announced(s)
  PROVE  /\ WorkerInv(DispatchExchange(s)) /\ Dispatched(s, DispatchExchange(s))
         /\ Yields(s, DispatchExchange(s))
<1> DEFINE a == [s EXCEPT !.exQueued = FALSE, !.exPending = TRUE, !.exTimer = TRUE,
                          !.era = s.era + 1, !.selected = "main"]
           b == SendMainReads(a, Identity)
           c == SendMainRead(b, "freq")
           d == SendStatus(c)
           fl == FlightOf(c, "status", "main", "main")
           t == Tell(d, "dispatched", fl)
<1>1. /\ s \in Worker /\ Sized(s) /\ s.era \in Nat /\ s.era + 1 \in Nat /\ s.era + 1 # 0
      /\ "main" \in Receivers
  BY DEF WorkerInv, Sized, Worker, Receivers
<1>2. DispatchExchange(s) = t
  BY <1>1 DEF DispatchExchange, Select, Swap, Worker
<1>3. a \in Worker /\ a.era = s.era + 1 /\ a.exQueued = FALSE
  BY <1>1 DEF Worker
<1>4. /\ SameGate(s, a) /\ SameReplies(s, a) /\ a.scheduled = s.scheduled
      /\ a.deferred = s.deferred /\ a.inbox = s.inbox
  BY <1>1 DEF Worker, SameGate, SameReplies
<1> HIDE DEF a
<1>5. WorkerInv(a)
  <2>1. Sized(a)
    BY <1>1, <1>3, <1>4, Zenon DEF Sized, SameGate
  <2>2. Correlated(a) /\ Gated(a)
    BY <1>4, RepliesKept, GateKept, Zenon DEF WorkerInv
  <2>3. Current(a)
    BY <1>4, NoneAsked, Zenon DEF Current, SameReplies
  <2>4. ~Announced(a)
    BY <1>4, Zenon DEF Announced, Announces
  <2>5. Requested(a) /\ AfterAnnouncement(a)
    BY <1>3, <2>4, Zenon DEF Requested, AfterAnnouncement, Announced
  <2>6. StatusOfMain(a)
    BY <1>4, Zenon DEF StatusOfMain, WorkerInv
  <2>7. Placed(a)
    BY <1>1, <1>3, Zenon DEF Placed
  <2> QED
    BY <2>1, <2>2, <2>3, <2>5, <2>6, <2>7, Zenon DEF WorkerInv
<1>6. WorkerInv(b) /\ Leaves(a, b) /\ Ordinary(a, b)
  BY <1>5, SendMainReadsKeeps, Zenon
<1> HIDE DEF b
<1>7. WorkerInv(c) /\ Leaves(b, c) /\ Ordinary(b, c)
  <2>1. "freq" \in Families /\ "freq" # "smeter"
    BY FamiliesAndReceivers
  <2> QED
    BY <1>1, <1>6, <2>1, ReadOrdinary, Zenon DEF SendMainRead
<1> HIDE DEF c
<1>8. WorkerInv(d) /\ Leaves(c, d) /\ SameNews(c, d) /\ Quiet(c, d)
  BY <1>7, SendStatusKeeps, Zenon
<1>9. d.air # <<>> /\ d.air[Len(d.air)].fam # "smeter" /\ fl \in Flight
  <2> DEFINE g == FlightOf(c, "status", "main", c.selected)
  <2>1. Sized(c) /\ c.air \in Seq(Flight) /\ c.selected \in Receivers
    BY <1>7 DEF WorkerInv, Sized, Worker
  <2>2. "status" \in Families \cup {"status"}
    OBVIOUS
  <2>3. g \in Flight /\ fl \in Flight /\ d.air = Append(c.air, g)
    BY <1>1, <2>1, <2>2, SendSized, Zenon DEF SendStatus
  <2>4. g.fam = "status"
    BY DEF FlightOf
  <2> HIDE DEF g, d, fl
  <2>5. d.air # <<>> /\ Len(d.air) = Len(c.air) + 1 /\ d.air[Len(c.air) + 1] = g
    BY <2>1, <2>3, AppendProperties
  <2>6. g.fam # "smeter"
    BY <2>4
  <2> QED
    BY <2>3, <2>5, <2>6, Zenon
<1> HIDE DEF d, fl
<1>10. Leaves(a, d)
  BY <1>6, <1>7, <1>8, LeavesTwice, Zenon
<1>11. ~Announced(d)
  <2>1. ~Announced(a)
    BY <1>4, Zenon DEF Announced, Announces
  <2> QED
    BY <1>6, <1>7, <1>8, <2>1, Zenon DEF Ordinary, SameNews
<1> DEFINE sg == [sig |-> "dispatched", about |-> fl]
<1>12. sg \in Signal /\ sg.sig = "dispatched" /\ "dispatched" \in {"sent", "dispatched", "reply"}
  BY <1>9 DEF Signal
<1>13. Sized(d) /\ d.inbox \in Seq(Signal)
  BY <1>8 DEF WorkerInv, Sized, Worker
<1>14. Sized(t) /\ Leaves(d, t) /\ SameReplies(d, t) /\ t.inbox = Append(d.inbox, sg)
  BY <1>9, <1>12, <1>13, TellSized, Zenon
<1> HIDE DEF t, sg
<1>15. Leaves(a, t) /\ t.era = s.era + 1 /\ ~t.exQueued /\ t.era # 0
  <2>1. Leaves(a, t)
    BY <1>10, <1>14, LeavesTwice, Zenon
  <2> QED
    BY <1>1, <1>3, <2>1, Zenon DEF Leaves, SamePlace
<1>16. Requested(t) /\ AfterAnnouncement(t) /\ StatusOfMain(t) /\ Announced(t)
  BY <1>8, <1>11, <1>12, <1>13, <1>14, <1>15, AnnouncementAppended, Zenon DEF WorkerInv
<1>17. Correlated(t) /\ Gated(t) /\ Current(t) /\ (Steady => Placed(t))
  <2>1. SameGate(d, t) /\ SamePlace(d, t) /\ t.air = d.air
    BY <1>14, Zenon DEF Leaves, SameReplies
  <2> QED
    BY <1>8, <1>14, <2>1, RepliesKept, GateKept, PlaceKept, Zenon DEF WorkerInv
<1>18. Quiet(s, t)
  BY <1>9, <1>14, Zenon DEF Quiet, SameReplies
<1>19. WorkerInv(t) /\ Dispatched(s, t)
  BY <1>14, <1>15, <1>16, <1>17, <1>18, Zenon DEF WorkerInv, Dispatched
<1>20. Yields(s, t)
  <2>1. Len(s.scheduled) \in Nat
    BY <1>1, LenProperties DEF Worker
  <2>2. Len(s.scheduled) >= Len(s.scheduled)
    BY <2>1
  <2> QED
    BY <1>4, <1>15, <2>2, Zenon DEF Yields, Leaves, SameGate
<1> QED
  BY <1>2, <1>19, <1>20, Zenon

\* A request makes the exchange, queues it, or finds one queued.
LEMMA RequestExchangeKeeps ==
  ASSUME NEW s, WorkerInv(s), ~Announced(s), ~s.exQueued
  PROVE  /\ WorkerInv(RequestExchange(s)) /\ Quiet(s, RequestExchange(s)) /\ Yields(s, RequestExchange(s))
         /\ Made(RequestExchange(s)) = Made(s) + 1
<1> DEFINE t == [s EXCEPT !.exQueued = TRUE]
<1>1. s \in Worker /\ Sized(s) /\ s.era \in Nat /\ Len(s.scheduled) \in Nat
  BY LenProperties DEF WorkerInv, Sized, Worker
<1>2. CASE ExchangeMayGo(s)
  <2> DEFINE u == DispatchExchange(s)
  <2>1. RequestExchange(s) = u
    BY <1>2, Zenon DEF RequestExchange
  <2>2. WorkerInv(u) /\ Dispatched(s, u) /\ Yields(s, u)
    BY <1>2, DispatchExchangeKeeps, Zenon
  <2> HIDE DEF u
  <2>3. Made(u) = Made(s) + 1
    BY <1>1, <2>2 DEF Made, Dispatched
  <2> QED
    BY <2>1, <2>2, <2>3, Zenon DEF Dispatched
<1>3. CASE ~ExchangeMayGo(s)
  <2>1. RequestExchange(s) = t
    BY <1>1, <1>3 DEF RequestExchange, Worker
  <2>2. t \in Worker /\ t.exQueued = TRUE
    BY <1>1 DEF Worker
  <2>3. /\ SameGate(s, t) /\ SamePlace(s, t) /\ SameReplies(s, t) /\ t.inbox = s.inbox
        /\ t.scheduled = s.scheduled /\ t.deferred = s.deferred
    BY <1>1 DEF Worker, SameGate, SamePlace, SameReplies
  <2> HIDE DEF t
  <2>4. Sized(t) /\ t.era = s.era /\ t.air = s.air
    BY <1>1, <2>2, <2>3, Zenon DEF Sized, SameGate, SamePlace, SameReplies
  <2>5. Correlated(t) /\ Gated(t) /\ Current(t) /\ (Steady => Placed(t)) /\ Quiet(s, t)
    BY <2>3, <2>4, RepliesKept, GateKept, PlaceKept, Zenon DEF WorkerInv
  <2>6. AfterAnnouncement(t) /\ StatusOfMain(t) /\ SameNews(s, t)
    BY <2>3, <2>4, NewsKept, Zenon DEF WorkerInv
  <2>7. Requested(t)
    BY <2>6, <2>3, Zenon DEF Requested, SameNews, Announces, WorkerInv
  <2>8. Made(t) = Made(s) + 1
    BY <1>1, <2>2, <2>4 DEF Made
  <2>9. Len(s.scheduled) >= Len(s.scheduled)
    BY <1>1
  <2>10. Yields(s, t)
    BY <2>3, <2>9, Zenon DEF Yields, SameGate
  <2> QED
    BY <2>1, <2>4, <2>5, <2>6, <2>7, <2>8, <2>10, Zenon DEF WorkerInv
<1> QED
  BY <1>2, <1>3

-----------------------------------------------------------------------------
(* Deferred reads.                                                         *)

\* The first deferred read that may go takes the radio.
LEMMA NextDeferredKeeps ==
  ASSUME NEW s, WorkerInv(s), ~s.active, NEW i \in DOMAIN s.deferred, MayDispatch(s, i),
         NEW t, t = ExecuteScoped([s EXCEPT !.deferred = RemoveAt(@, i)],
                                  ReadCommand(s.deferred[i].fam, s.deferred[i].rcv))
  PROVE  /\ WorkerInv(t) /\ Ordinary(s, t) /\ (s.exPending => Yields(s, t))
<1> DEFINE q == RemoveAt(s.deferred, i)
           a == [s EXCEPT !.deferred = q]
           cmd == ReadCommand(s.deferred[i].fam, s.deferred[i].rcv)
<1>1. /\ s \in Worker /\ Sized(s) /\ s.deferred \in Seq(Read) /\ Len(s.deferred) \in Nat
      /\ Len(s.deferred) <= MaxDeferred /\ i \in 1 .. Len(s.deferred)
  BY LenProperties DEF WorkerInv, Sized, Worker
<1>2. q \in Seq(Read) /\ Len(q) = Len(s.deferred) - 1
  BY <1>1, RemoveAtElements
<1>3. Len(q) <= MaxDeferred
  BY <1>1, <1>2, SchedulerAssumption
<1>4. s.deferred[i] \in Read
  BY <1>1, ElementOfSeq
<1>5. cmd \in Command /\ cmd.act = "read" /\ (ConfirmsExchange(s.deferred[i]) => ConfirmsExchange(cmd))
  BY <1>4 DEF ReadCommand, Command, Read, ConfirmsExchange
<1>6. t = ExecuteScoped(a, cmd)
  BY <1>1
<1> HIDE DEF q, cmd
<1>7. a \in Worker /\ a.deferred = q
  BY <1>1, <1>2 DEF Worker
<1>8. /\ Leaves(s, a) /\ SameReplies(s, a) /\ a.inbox = s.inbox
  BY <1>1 DEF Worker, Leaves, SameGate, SamePlace, SameReplies
<1> HIDE DEF a
<1>9. Sized(a)
  BY <1>1, <1>3, <1>7, <1>8, Zenon DEF Sized, Leaves, SameGate
<1>10. WorkerInv(a) /\ Ordinary(s, a) /\ Yields(s, a) /\ ~a.active
  <2>1. SameGate(s, a) /\ SamePlace(s, a) /\ a.exQueued = s.exQueued /\ ~a.active
    BY <1>8, Zenon DEF Leaves, SameGate
  <2> QED
    BY <1>1, <1>8, <1>9, <2>1, Bystander, LeavesYields, Zenon
<1>11. /\ WorkerInv(t) /\ Ordinary(a, t)
       /\ (cmd.act = "read" /\ ConfirmsExchange(cmd)) => Yields(a, t)
  BY <1>5, <1>6, <1>10, ExecuteScopedKeeps, Zenon
<1>12. Ordinary(s, t) /\ Sized(t)
  BY <1>10, <1>11, OrdinaryTwice, Zenon DEF WorkerInv
<1>13. s.exPending => Yields(s, t)
  <2>1. s.exPending => ConfirmsExchange(s.deferred[i])
    BY Zenon DEF MayDispatch
  <2> QED
    BY <1>1, <1>5, <1>9, <1>10, <1>11, <1>12, <2>1, YieldsTwice, Zenon
<1> QED
  BY <1>11, <1>12, <1>13

\* What dispatchDeferredReplyReads may do: the exchange that was queued, or
\* a step like any other.
Dispatches(s, t) == /\ Ordinary(s, t) \/ (s.exQueued /\ Dispatched(s, t))
                    /\ s.exPending => Yields(s, t)

LEMMA DispatchDeferredKeeps ==
  ASSUME NEW s, WorkerInv(s)
  PROVE  WorkerInv(DispatchDeferred(s)) /\ Dispatches(s, DispatchDeferred(s))
<1> DEFINE ready == {i \in DOMAIN s.deferred : MayDispatch(s, i)}
           n == IF ready = {} THEN s
                ELSE ExecuteScoped([s EXCEPT !.deferred = RemoveAt(@, Min(ready))],
                         ReadCommand(s.deferred[Min(ready)].fam, s.deferred[Min(ready)].rcv))
           t == DispatchDeferred(s)
<1>1. s \in Worker /\ Sized(s) /\ DOMAIN s.deferred \subseteq Nat
  BY LenProperties DEF WorkerInv, Sized, Worker
<1>2. "again" \in {"again", "resolved"} /\ "resolved" \in {"again", "resolved"}
  OBVIOUS
<1>3. CASE s.active
  <2>1. t = [s EXCEPT !.timer = "again"]
    BY <1>3, Zenon DEF DispatchDeferred, HeldByTransaction
  <2> HIDE DEF t
  <2> QED
    BY <1>2, <2>1, TimerKeeps, Zenon DEF Dispatches, t
<1>4. CASE ~s.active /\ s.exQueued /\ ExchangeMayGo(s)
  <2>1. t = DispatchExchange(s)
    BY <1>4, Zenon DEF DispatchDeferred, HeldByTransaction
  <2>2. ~Announced(s)
    BY <1>4, Zenon DEF WorkerInv, Requested
  <2> HIDE DEF t
  <2> QED
    BY <1>4, <2>1, <2>2, DispatchExchangeKeeps, Zenon DEF Dispatches, t
<1>5. CASE ~s.active /\ ~(s.exQueued /\ ExchangeMayGo(s))
  <2>1. t = n \/ t = [n EXCEPT !.timer = "resolved"]
    BY <1>5, Zenon DEF DispatchDeferred, HeldByTransaction
  <2>2. WorkerInv(n) /\ Ordinary(s, n) /\ (s.exPending => Yields(s, n))
    <3>1. CASE ready = {}
      BY <1>1, <3>1, Itself, LeavesYields, Zenon
    <3>2. CASE ready # {}
      <4>1. ready \in SUBSET Nat
        BY <1>1
      <4>2. Min(ready) \in ready
        BY <3>2, <4>1, MinIsLeast, Zenon
      <4>3. Min(ready) \in DOMAIN s.deferred /\ MayDispatch(s, Min(ready))
        BY <4>2, Zenon
      <4> DEFINE m == Min(ready)
      <4> HIDE DEF m
      <4>4. n = ExecuteScoped([s EXCEPT !.deferred = RemoveAt(@, m)],
                              ReadCommand(s.deferred[m].fam, s.deferred[m].rcv))
        BY <3>2, Zenon DEF m
      <4>5. m \in DOMAIN s.deferred /\ MayDispatch(s, m)
        BY <4>3, Zenon DEF m
      <4> HIDE DEF n
      <4> QED
        BY <1>5, <4>4, <4>5, NextDeferredKeeps, Zenon
    <3> QED
      BY <3>1, <3>2, Zenon
  <2> HIDE DEF n
  <2>3. CASE t = n
    BY <2>2, <2>3, Zenon DEF Dispatches
  <2>4. CASE t = [n EXCEPT !.timer = "resolved"]
    <3> HIDE DEF t
    <3>1. WorkerInv(t) /\ Ordinary(n, t) /\ Yields(n, t)
      BY <1>2, <2>2, <2>4, TimerKeeps, Zenon
    <3>2. Sized(t) /\ Sized(n) /\ Ordinary(s, t)
      BY <2>2, <3>1, OrdinaryTwice, Zenon DEF WorkerInv
    <3>3. s.exPending => Yields(s, t)
      BY <1>1, <2>2, <3>1, <3>2, YieldsTwice, Zenon
    <3> QED
      BY <3>1, <3>2, <3>3, Zenon DEF Dispatches, t
  <2> QED
    BY <2>1, <2>3, <2>4
<1> QED
  BY <1>3, <1>4, <1>5

\* Selecting a receiver once an exchange has been made.
LEMMA SelectKeeps ==
  ASSUME NEW s, WorkerInv(s), s.era # 0, NEW r \in Receivers
  PROVE  /\ WorkerInv(Select(s, r)) /\ Ordinary(s, Select(s, r)) /\ Yields(s, Select(s, r))
         /\ Select(s, r).exPending = s.exPending
<1> DEFINE t == Select(s, r)
<1>1. s \in Worker /\ Sized(s) /\ Len(s.scheduled) \in Nat
  BY LenProperties DEF WorkerInv, Sized, Worker
<1>2. t \in Worker
  BY <1>1 DEF Select, Worker
<1>3. /\ SameGate(s, t) /\ t.scheduled = s.scheduled /\ t.deferred = s.deferred /\ t.era = s.era
      /\ SameReplies(s, t) /\ t.inbox = s.inbox /\ t.exQueued = s.exQueued /\ t.exPending = s.exPending
  BY <1>1 DEF Select, Worker, SameGate, SameReplies
<1> HIDE DEF t
<1>4. Sized(t)
  BY <1>1, <1>2, <1>3, Zenon DEF Sized, SameGate
<1>5. Placed(t) /\ Current(t) /\ Quiet(s, t)
  BY <1>3, Zenon DEF Placed, Current, Quiet, SameReplies, WorkerInv
<1>6. Correlated(t) /\ Gated(t)
  BY <1>3, RepliesKept, GateKept, Zenon DEF WorkerInv
<1>7. Requested(t) /\ AfterAnnouncement(t) /\ StatusOfMain(t) /\ SameNews(s, t)
  BY <1>3, NewsKept, Zenon DEF WorkerInv
<1>8. Len(t.scheduled) >= Len(s.scheduled)
  BY <1>1, <1>3
<1> QED
  BY <1>3, <1>4, <1>5, <1>6, <1>7, <1>8, Zenon DEF WorkerInv, Ordinary, Yields, SameGate, t

-----------------------------------------------------------------------------
(* A step of the worker.                                                   *)

\* The S-meter read sent last, if one was sent, finds the radio on its receiver.
Meets(s, t) ==
    \/ t.air = s.air
    \/ t.air # <<>> /\ (Steady /\ s.era = 0 /\ s.operator = "main"
                           /\ t.air[Len(t.air)].fam = "smeter"
                        => t.air[Len(t.air)].from = t.air[Len(t.air)].rcv)

\* No exchange is made and none is announced; or the one that was queued is made.
Plain(s, t)     == t.era = s.era /\ t.exQueued = s.exQueued /\ SameNews(s, t)
Exchanged(s, t) == s.exQueued /\ t.era = s.era + 1 /\ ~t.exQueued

Step(s, t) == /\ WorkerInv(t) /\ (Plain(s, t) \/ Exchanged(s, t))
              /\ s.exPending /\ t.exPending => Yields(s, t)

LEMMA OrdinaryStep ==
  ASSUME NEW s, NEW t, Ordinary(s, t) PROVE Plain(s, t) /\ Meets(s, t)
BY Zenon DEF Ordinary, Plain, Quiet, Meets

LEMMA PlainTwice ==
  ASSUME NEW s, NEW t, NEW u, Plain(s, t), Plain(t, u) PROVE Plain(s, u)
BY Zenon DEF Plain, SameNews

\* A step that starts with what the radio does not see.
LEMMA MeetsLater ==
  ASSUME NEW s, NEW t, NEW u, t.air = s.air, t.era = s.era, t.operator = s.operator, Meets(t, u)
  PROVE  Meets(s, u)
BY Zenon DEF Meets

\* The deferred reads have their turn at the end of a step.
LEMMA StepDispatches ==
  ASSUME NEW s, NEW t, Plain(s, t), Meets(s, t), Sized(s), WorkerInv(t),
         s.exPending => Yields(s, t) /\ t.exPending,
         NEW u, u = DispatchDeferred(t)
  PROVE  Step(s, u) /\ Meets(s, u)
<1>1. WorkerInv(u) /\ Dispatches(t, u)
  BY DispatchDeferredKeeps, Zenon
<1>2. Quiet(t, u)
  BY <1>1, Zenon DEF Dispatches, Ordinary, Dispatched
<1>3. Meets(s, u)
  BY <1>2, Zenon DEF Meets, Quiet
<1>4. Plain(s, u) \/ Exchanged(s, u)
  <2>1. CASE Ordinary(t, u)
    BY <2>1, OrdinaryStep, PlainTwice, Zenon
  <2>2. CASE t.exQueued /\ Dispatched(t, u)
    BY <2>2, Zenon DEF Plain, Exchanged, Dispatched
  <2> QED
    BY <1>1, <2>1, <2>2, Zenon DEF Dispatches
<1>5. Sized(t) /\ Sized(u)
  BY <1>1, Zenon DEF WorkerInv
<1>6. s.exPending => Yields(s, u)
  BY <1>1, <1>5, YieldsTwice, Zenon DEF Dispatches
<1> QED
  BY <1>1, <1>3, <1>4, <1>6, Zenon DEF Step

\* A read of the S-meter.
LEMMA SMeterSent ==
  ASSUME NEW s, WorkerInv(s), NEW r \in Receivers,
         (Steady /\ s.era = 0 /\ s.operator = "main") => s.selected = r
  PROVE  /\ WorkerInv(SendRead(s, "smeter", r)) /\ Leaves(s, SendRead(s, "smeter", r))
         /\ Plain(s, SendRead(s, "smeter", r)) /\ Meets(s, SendRead(s, "smeter", r))
<1> DEFINE t == SendRead(s, "smeter", r)
           fl == FlightOf(s, "smeter", r, s.selected)
<1>1. /\ s \in Worker /\ s.selected \in Receivers /\ s.air \in Seq(Flight)
      /\ "smeter" \in Families /\ "smeter" \notin Identity
  BY FamiliesAndReceivers DEF WorkerInv, Sized, Worker
<1>2. /\ WorkerInv(t) /\ Leaves(s, t) /\ SameNews(s, t)
      /\ Quiet(s, t) \/ t.air = Append(s.air, fl)
  BY <1>1, SendReadAsKeeps, Zenon DEF SendRead
<1>3. fl.rcv = r /\ fl.from = s.selected
  BY DEF FlightOf
<1> HIDE DEF t, fl
<1>4. Plain(s, t)
  BY <1>2, Zenon DEF Plain, Leaves, SamePlace
<1>5. CASE Quiet(s, t)
  BY <1>2, <1>4, <1>5, Zenon DEF Meets, Quiet, t
<1>6. CASE t.air = Append(s.air, fl)
  <2>1. t.air # <<>> /\ Len(t.air) = Len(s.air) + 1 /\ t.air[Len(s.air) + 1] = fl
    <3>1. s.air \in Seq(Flight \cup {fl}) /\ fl \in Flight \cup {fl}
      BY <1>1
    <3> QED
      BY <1>6, <3>1, AppendProperties
  <2>2. Meets(s, t)
    BY <1>3, <2>1, Zenon DEF Meets
  <2> QED
    BY <1>2, <1>4, <2>2, Zenon DEF t
<1> QED
  BY <1>2, <1>5, <1>6, Zenon

\* Between transactions the radio is where the operator needs it.
LEMMA IdlePlaced ==
  ASSUME NEW s, WorkerInv(s), ~s.active
  PROVE  /\ s.window = <<>> /\ ~s.smeter /\ ~s.closing
         /\ (Steady /\ s.era = 0 /\ s.operator = "main") => s.selected = "main"
BY Zenon DEF WorkerInv, Gated, Placed

-----------------------------------------------------------------------------
(* Scheduled commands.                                                     *)

\* What a command does that starts between transactions.
Runs(s, t) == WorkerInv(t) /\ Plain(s, t) /\ Meets(s, t)

\* The S-meter's transaction: the radio goes to SUB for it.
LEMMA SMeterOpens ==
  ASSUME NEW s, WorkerInv(s), ~s.active, s.operator = "main",
         NEW t, t = [Select(s, "sub") EXCEPT !.active = TRUE, !.smeter = TRUE, !.smTimer = TRUE]
  PROVE  Runs(s, t)
<1>1. s \in Worker /\ Sized(s) /\ "sub" \in Receivers
  BY FamiliesAndReceivers DEF WorkerInv, Sized
<1>2. t = [s EXCEPT !.selected = "sub", !.active = TRUE, !.smeter = TRUE, !.smTimer = TRUE]
  BY <1>1 DEF Select, Worker
<1>3. t \in Worker /\ t.selected = "sub" /\ t.active = TRUE /\ t.smeter = TRUE /\ t.smTimer = TRUE
  <2> DEFINE u == [s EXCEPT !.selected = "sub", !.active = TRUE]
  <2>1. u \in Worker
    BY <1>1 DEF Worker
  <2> DEFINE v == [u EXCEPT !.smeter = TRUE]
  <2>2. t = [v EXCEPT !.smTimer = TRUE]
    BY <1>1, <1>2 DEF Worker
  <2>3. t.selected = "sub" /\ t.active = TRUE /\ t.smeter = TRUE /\ t.smTimer = TRUE
    BY <1>1, <1>2 DEF Worker
  <2> HIDE DEF u
  <2>4. v \in Worker
    BY <2>1 DEF Worker
  <2> HIDE DEF v
  <2>5. t \in Worker
    BY <2>2, <2>4 DEF Worker
  <2> QED
    BY <2>3, <2>5, Zenon
<1>4. /\ t.scheduled = s.scheduled /\ t.deferred = s.deferred /\ t.window = s.window
      /\ t.closing = s.closing /\ t.operator = s.operator /\ t.era = s.era
      /\ t.inbox = s.inbox /\ t.exQueued = s.exQueued /\ SameReplies(s, t)
  BY <1>1, <1>2 DEF Worker, SameReplies
<1>5. Sized(t)
  BY <1>1, <1>3, <1>4, Zenon DEF Sized
<1>6. s.window = <<>> /\ ~s.smeter /\ ~s.closing
  BY IdlePlaced, Zenon
<1>7. Gated(t)
  BY <1>3, <1>4, <1>6, Zenon DEF Gated
<1>8. Current(t) /\ t.air = s.air
  BY <1>4, Zenon DEF WorkerInv, Current, SameReplies
<1>9. Steady => Placed(t)
  <2>1. Steady => Placed(s)
    BY Zenon DEF WorkerInv
  <2> QED
    BY <1>3, <1>4, <1>6, <1>8, <2>1 DEF Placed
<1>10. Correlated(t) /\ Requested(t) /\ AfterAnnouncement(t) /\ StatusOfMain(t) /\ SameNews(s, t)
  BY <1>4, RepliesKept, NewsKept, Zenon DEF WorkerInv
<1> QED
  BY <1>4, <1>5, <1>7, <1>8, <1>9, <1>10, Zenon DEF WorkerInv, Runs, Plain, Meets

\* MAIN is where the operator needs the radio, or another receiver, which the
\* read that is scheduled will bring back.
LEMMA MainSelected ==
  ASSUME NEW s, WorkerInv(s), ~s.active
  PROVE  WorkerInv(Select(s, "main")) /\ Ordinary(s, Select(s, "main"))
<1> DEFINE t == Select(s, "main")
<1>1. s \in Worker /\ Sized(s) /\ "main" \in Receivers
  BY FamiliesAndReceivers DEF WorkerInv, Sized
<1>2. t \in Worker /\ t.selected = "main"
  BY <1>1 DEF Select, Worker
<1>3. /\ SameGate(s, t) /\ t.scheduled = s.scheduled /\ t.deferred = s.deferred /\ t.era = s.era
      /\ SameReplies(s, t) /\ t.inbox = s.inbox /\ t.exQueued = s.exQueued
  BY <1>1 DEF Select, Worker, SameGate, SameReplies
<1> HIDE DEF t
<1>4. Sized(t)
  BY <1>1, <1>2, <1>3, Zenon DEF Sized, SameGate
<1>5. t.window = <<>> /\ ~t.smeter
  BY <1>3, IdlePlaced, Zenon DEF SameGate
<1>6. Steady => Placed(t)
  <2>1. Steady => Placed(s)
    BY Zenon DEF WorkerInv
  <2> QED
    BY <1>2, <1>3, <1>5, <2>1, Zenon DEF Placed, SameReplies
<1>7. Current(t) /\ Quiet(s, t)
  BY <1>3, Zenon DEF Current, Quiet, SameReplies, WorkerInv
<1>8. Correlated(t) /\ Gated(t)
  BY <1>3, RepliesKept, GateKept, Zenon DEF WorkerInv
<1>9. Requested(t) /\ AfterAnnouncement(t) /\ StatusOfMain(t) /\ SameNews(s, t)
  BY <1>3, NewsKept, Zenon DEF WorkerInv
<1> QED
  BY <1>3, <1>4, <1>6, <1>7, <1>8, <1>9, Zenon DEF WorkerInv, Ordinary, t

LEMMA RunSMeterKeeps ==
  ASSUME NEW s, WorkerInv(s), ~s.active, NEW cmd \in Command PROVE Runs(s, RunSMeter(s, cmd))
<1>1. cmd.rcv \in Receivers /\ s.operator \in Receivers /\ Receivers = {"main", "sub"}
  BY FamiliesAndReceivers DEF Command, WorkerInv, Sized, Worker
<1>2. CASE Blocked(s, "smeter")
  <2>1. RunSMeter(s, cmd) = Enqueue(s, cmd)
    BY <1>2, Zenon DEF RunSMeter
  <2>2. WorkerInv(Enqueue(s, cmd)) /\ Ordinary(s, Enqueue(s, cmd))
    BY EnqueueKeeps, Zenon
  <2> QED
    BY <2>1, <2>2, OrdinaryStep, Zenon DEF Runs
<1>3. CASE ~Blocked(s, "smeter") /\ (cmd.rcv = "main" \/ s.operator = "sub")
  <2>1. RunSMeter(s, cmd) = SendRead(s, "smeter", cmd.rcv)
    BY <1>3, Zenon DEF RunSMeter
  <2>2. (Steady /\ s.era = 0 /\ s.operator = "main") => s.selected = cmd.rcv
    <3>1. s.operator = "main" => cmd.rcv = "main"
      BY <1>3
    <3> QED
      BY <3>1, IdlePlaced, Zenon
  <2> QED
    BY <1>1, <2>1, <2>2, SMeterSent, Zenon DEF Runs
<1>4. CASE ~Blocked(s, "smeter") /\ ~(cmd.rcv = "main" \/ s.operator = "sub")
  <2>1. s.operator = "main"
    BY <1>1, <1>4
  <2> QED
    BY <1>4, <2>1, SMeterOpens, Zenon DEF RunSMeter
<1> QED
  BY <1>2, <1>3, <1>4

LEMMA RunTuneKeeps ==
  ASSUME NEW s, WorkerInv(s), ~s.active PROVE Runs(s, RunTune(s))
<1> DEFINE t == Select(s, "main")
           u == Enqueue(t, ReadCommand("freq", "main"))
<1>1. WorkerInv(t) /\ Ordinary(s, t)
  BY MainSelected, Zenon
<1>2. ReadCommand("freq", "main") \in Command
  BY FamiliesAndReceivers DEF ReadCommand, Command
<1> HIDE DEF t
<1>3. WorkerInv(u) /\ Ordinary(t, u)
  BY <1>1, <1>2, EnqueueKeeps, Zenon
<1> HIDE DEF u
<1>4. Ordinary(s, u)
  BY <1>1, <1>3, OrdinaryTwice, Zenon
<1> QED
  BY <1>3, <1>4, OrdinaryStep, Zenon DEF RunTune, Runs, t, u

LEMMA ExecuteKeeps ==
  ASSUME NEW s, WorkerInv(s), ~s.active, NEW cmd \in Command PROVE Runs(s, Execute(s, cmd))
<1> DEFINE t == Execute(s, cmd)
<1>1. cmd.rcv \in Receivers /\ (cmd.act = "read" => cmd.fam \in Families)
  BY DEF Command
<1>2. CASE cmd.act = "smeter"
  <2>1. t = RunSMeter(s, cmd)
    BY <1>2 DEF Execute
  <2> QED
    BY <2>1, RunSMeterKeeps, Zenon
<1>3. CASE cmd.act = "swr"
  <2>1. t = SendReadAs(s, "swr", cmd.rcv, s.selected)
    BY <1>3 DEF Execute, SendRead
  <2>2. "swr" \in Families /\ "swr" # "smeter" /\ "swr" \notin Identity /\ s.selected \in Receivers
    BY FamiliesAndReceivers DEF WorkerInv, Sized, Worker
  <2> HIDE DEF t
  <2>3. WorkerInv(t) /\ Ordinary(s, t)
    BY <1>1, <2>1, <2>2, ReadOrdinary, Zenon
  <2> QED
    BY <2>3, OrdinaryStep, Zenon DEF Runs, t
<1>4. CASE cmd.act = "tune"
  <2>1. t = RunTune(s)
    BY <1>4 DEF Execute
  <2> QED
    BY <2>1, RunTuneKeeps, Zenon
<1>5. CASE cmd.act = "read"
  <2>1. t = RequestScopedRead(s, cmd.fam, cmd.rcv)
    BY <1>5 DEF Execute
  <2> HIDE DEF t
  <2>2. WorkerInv(t) /\ Ordinary(s, t)
    BY <1>1, <1>5, <2>1, RequestScopedReadKeeps, Zenon
  <2> QED
    BY <2>2, OrdinaryStep, Zenon DEF Runs, t
<1>6. CASE cmd.act \notin {"smeter", "swr", "tune", "read"}
  <2>1. t = ExecuteScoped(s, cmd)
    BY <1>6 DEF Execute
  <2> HIDE DEF t
  <2>2. WorkerInv(t) /\ Ordinary(s, t)
    BY <2>1, ExecuteScopedKeeps, Zenon
  <2> QED
    BY <2>2, OrdinaryStep, Zenon DEF Runs, t
<1> QED
  BY <1>2, <1>3, <1>4, <1>5, <1>6

-----------------------------------------------------------------------------
(* The worker's actions, one by one.                                       *)

\* Sent last, or received: the two things a step does to the link.
Sends(s, t)  == Meets(s, t) \/ Len(t.air) <= Len(s.air)
Worked(s, t) == Step(s, t) /\ Sends(s, t)

LEMMA OrdinaryWorks ==
  ASSUME NEW s, NEW t, WorkerInv(t), Ordinary(s, t), s.exPending /\ t.exPending => Yields(s, t)
  PROVE  Worked(s, t)
BY OrdinaryStep, Zenon DEF Worked, Step, Sends

LEMMA Invariants ==
  ASSUME IInv
  PROVE  WorkerInv(w) /\ w \in Worker /\ Sized(w) /\ Correlated(w) /\ Gated(w)
BY Zenon DEF IInv, WorkerInv, Sized

LEMMA ScheduledNext ==
  ASSUME NEW s, Sized(s), NEW i \in NextScheduled(s) PROVE i \in DOMAIN s.scheduled
<1>1. DOMAIN s.scheduled \subseteq Nat
  BY LenProperties DEF Sized, Worker
<1> DEFINE A == {j \in DOMAIN s.scheduled : s.scheduled[j].class = "set"}
           B == {j \in DOMAIN s.scheduled : s.scheduled[j].class # "set"}
           C == {j \in DOMAIN s.scheduled : s.scheduled[j].class = "meter"}
<1>2. (A # {} /\ i = Min(A)) \/ (B # {} /\ i = Min(B)) \/ (C # {} /\ i = Min(C))
  BY DEF NextScheduled, Firsts
<1>3. A \in SUBSET Nat /\ B \in SUBSET Nat /\ C \in SUBSET Nat
  BY <1>1
<1>4. A \subseteq DOMAIN s.scheduled /\ B \subseteq DOMAIN s.scheduled /\ C \subseteq DOMAIN s.scheduled
  OBVIOUS
<1> HIDE DEF A, B, C
<1>5. i \in A \/ i \in B \/ i \in C
  BY <1>2, <1>3, MinIsLeast, Zenon
<1> QED
  BY <1>4, <1>5, Zenon

\* Worker: a command taken from the schedule leaves every type as it was.
LEMMA TakenFromSchedule ==
  ASSUME NEW s \in Worker, NEW q \in Seq(Command), NEW n \in 0 .. MaxStreak
  PROVE  LET t == [[s EXCEPT !.scheduled = q] EXCEPT !.streak = n]
         IN  t \in Worker /\ t.scheduled = q
<1> DEFINE u == [s EXCEPT !.scheduled = q]
           t == [u EXCEPT !.streak = n]
<1>1. u \in Worker /\ u.scheduled = q
  BY DEF Worker
<1> HIDE DEF u
<1>2. t \in Worker /\ t.scheduled = q
  BY <1>1 DEF Worker
<1> QED
  BY <1>2 DEF u

LEMMA RunScheduledWorks == ASSUME IInv, RunScheduled PROVE Worked(w, w')
<1>1. PICK i \in NextScheduled(w) :
        LET cmd  == w.scheduled[i]
            took == [w EXCEPT !.scheduled = RemoveAt(@, i),
                              !.streak = IF cmd.class # "set" THEN 0
                                         ELSE IF @ < MaxStreak THEN @ + 1 ELSE @]
            done == Execute(took, cmd)
        IN  w' = IF done.exQueued THEN DispatchDeferred(done) ELSE done
  BY Zenon DEF RunScheduled
<1> DEFINE cmd  == w.scheduled[i]
           q    == RemoveAt(w.scheduled, i)
           n    == IF cmd.class # "set" THEN 0
                   ELSE IF w.streak < MaxStreak THEN w.streak + 1 ELSE w.streak
           took == [w EXCEPT !.scheduled = q, !.streak = n]
           done == Execute(took, cmd)
<1>2. w' = IF done.exQueued THEN DispatchDeferred(done) ELSE done
  BY <1>1, Zenon
<1>3. /\ w \in Worker /\ Sized(w) /\ w.scheduled \in Seq(Command) /\ Len(w.scheduled) \in Nat
      /\ Len(w.scheduled) <= MaxScheduled /\ w.streak \in 0 .. MaxStreak
      /\ ~w.exPending /\ ~w.active /\ DOMAIN w.scheduled = 1 .. Len(w.scheduled)
  <2>1. ~w.exPending /\ ~w.active /\ w \in Worker /\ Sized(w)
    BY Invariants, Zenon DEF RunScheduled, MayRun
  <2>2. w.scheduled \in Seq(Command) /\ w.streak \in 0 .. MaxStreak
    BY <2>1, Zenon DEF Worker
  <2> QED
    BY <2>1, <2>2, LenProperties DEF Sized
<1>4. i \in DOMAIN w.scheduled
  BY <1>3, ScheduledNext, Zenon
<1>5. cmd \in Command /\ q \in Seq(Command) /\ Len(q) = Len(w.scheduled) - 1
  BY <1>3, <1>4, RemoveAtElements, ElementOfSeq
<1>6. n \in 0 .. MaxStreak /\ Len(q) <= MaxScheduled
  BY <1>3, <1>5, SchedulerAssumption
<1> HIDE DEF cmd, q, n
<1>7. took \in Worker /\ took.scheduled = q
  <2> DEFINE u == [w EXCEPT !.scheduled = q]
  <2>1. took = [u EXCEPT !.streak = n]
    OBVIOUS
  <2>2. w \in Worker /\ q \in Seq(Command) /\ n \in 0 .. MaxStreak
    BY <1>3, <1>5, <1>6
  <2> QED
    BY <2>1, <2>2, TakenFromSchedule, Zenon
<1>8. /\ SameGate(w, took) /\ SamePlace(w, took) /\ SameReplies(w, took) /\ took.inbox = w.inbox
      /\ took.exQueued = w.exQueued /\ took.deferred = w.deferred
  BY <1>3 DEF Worker, SameGate, SamePlace, SameReplies
<1> HIDE DEF took
<1>9. Sized(took)
  BY <1>3, <1>6, <1>7, <1>8, Zenon DEF Sized, SameGate
<1>10. WorkerInv(took) /\ Plain(w, took) /\ ~took.active
  BY <1>3, <1>8, <1>9, Bystander, OrdinaryStep, Invariants, Zenon DEF SameGate
<1>11. Runs(took, done)
  BY <1>5, <1>10, ExecuteKeeps, Zenon
<1> HIDE DEF done
<1>12. WorkerInv(done) /\ Plain(w, done) /\ Meets(w, done)
  BY <1>8, <1>10, <1>11, PlainTwice, MeetsLater, Zenon DEF Runs, SameReplies, SamePlace
<1>13. CASE done.exQueued
  BY <1>2, <1>3, <1>12, <1>13, StepDispatches, Zenon DEF Worked, Sends
<1>14. CASE ~done.exQueued
  BY <1>2, <1>3, <1>12, <1>14, Zenon DEF Worked, Sends, Step
<1> QED
  BY <1>13, <1>14

\* What a transaction does on its receiver.
LEMMA ActKeeps ==
  ASSUME NEW s, WorkerInv(s), NEW cmd \in Command, (Steady /\ s.era = 0) => s.selected = cmd.rcv
  PROVE  /\ WorkerInv(Act(s, cmd)) /\ Leaves(s, Act(s, cmd))
         /\ Plain(s, Act(s, cmd)) /\ Meets(s, Act(s, cmd))
<1> DEFINE t == Act(s, cmd)
<1>1. cmd.rcv \in Receivers /\ s.selected \in Receivers
  BY DEF Command, WorkerInv, Sized, Worker
<1>2. CASE cmd.act = "read"
  <2>1. cmd.fam \in Families
    BY <1>2 DEF Command
  <2>2. CASE cmd.fam = "smeter"
    <3>1. t = SendRead(s, "smeter", cmd.rcv)
      BY <1>2, <2>2 DEF Act
    <3> QED
      BY <1>1, <3>1, SMeterSent, Zenon
  <2>3. CASE cmd.fam # "smeter"
    <3>1. t = SendReadAs(s, cmd.fam, cmd.rcv, s.selected)
      BY <1>2 DEF Act, SendRead
    <3> HIDE DEF t
    <3>2. WorkerInv(t) /\ Leaves(s, t) /\ Ordinary(s, t)
      BY <1>1, <2>1, <2>3, <3>1, ReadOrdinary, Zenon
    <3> QED
      BY <3>2, OrdinaryStep, Zenon DEF t
  <2> QED
    BY <2>2, <2>3
<1>3. CASE cmd.act = "state"
  <2>1. t = SendReads(s, Identity, cmd.rcv)
    BY <1>3 DEF Act
  <2> HIDE DEF t
  <2>2. WorkerInv(t) /\ Leaves(s, t) /\ Ordinary(s, t)
    BY <1>1, <2>1, SendReadsKeeps, Zenon
  <2> QED
    BY <2>2, OrdinaryStep, Zenon DEF t
<1>4. CASE cmd.act \notin {"read", "state"}
  <2>1. t = s
    BY <1>4 DEF Act
  <2> QED
    BY <2>1, Itself, OrdinaryStep, Zenon
<1> QED
  BY <1>2, <1>3, <1>4

LEMMA WindowEndsWorks == ASSUME IInv, WindowEnds PROVE Worked(w, w')
<1> DEFINE cmd == Head(w.window)
           a   == Act(w, cmd)
           r   == IF cmd.rcv # w.operator THEN w.operator ELSE a.selected
           t   == [a EXCEPT !.selected = r, !.window = <<>>, !.closing = TRUE]
<1>1. w \in Worker /\ Sized(w) /\ WorkerInv(w) /\ w.window # <<>> /\ w.window \in Seq(Command)
      /\ w.operator \in Receivers
  <2>1. w.window # <<>>
    BY Zenon DEF WindowEnds
  <2> QED
    BY <2>1, Invariants DEF Worker
<1>2. cmd \in Command
  BY <1>1, HeadTailProperties
<1>3. (Steady /\ w.era = 0) => w.selected = cmd.rcv
  BY <1>1, Zenon DEF WorkerInv, Placed
<1>4. w' = [(IF cmd.rcv # w.operator THEN Select(a, w.operator) ELSE a)
               EXCEPT !.window = <<>>, !.closing = TRUE]
  BY Zenon DEF WindowEnds
<1> HIDE DEF cmd
<1>5. WorkerInv(a) /\ Leaves(w, a) /\ Plain(w, a) /\ Meets(w, a)
  BY <1>1, <1>2, <1>3, ActKeeps, Zenon
<1> HIDE DEF a
<1>6. a \in Worker /\ Sized(a) /\ a.selected \in Receivers
  BY <1>5 DEF WorkerInv, Sized, Worker
<1>7. w' = t
  BY <1>4, <1>6 DEF Select, Worker
<1>8. r \in Receivers
  BY <1>1, <1>6
<1> HIDE DEF r
<1>9. t \in Worker /\ t.selected = r /\ t.window = <<>> /\ t.closing = TRUE
  <2> DEFINE u == [a EXCEPT !.selected = r, !.closing = TRUE]
  <2>1. u \in Worker
    BY <1>6, <1>8 DEF Worker
  <2>2. t = [u EXCEPT !.window = <<>>]
    BY <1>6 DEF Worker
  <2>3. <<>> \in Seq(Command)
    BY EmptySeq
  <2>4. t.selected = r /\ t.window = <<>> /\ t.closing = TRUE
    BY <1>6 DEF Worker
  <2> HIDE DEF u, t
  <2>5. t \in Worker
    BY <2>1, <2>2, <2>3 DEF Worker
  <2> QED
    BY <2>4, <2>5, Zenon
<1>10. /\ t.scheduled = a.scheduled /\ t.deferred = a.deferred /\ t.smeter = a.smeter
       /\ t.smTimer = a.smTimer /\ t.active = a.active /\ t.exQueued = a.exQueued
       /\ t.operator = a.operator /\ t.era = a.era /\ t.inbox = a.inbox /\ SameReplies(a, t)
  BY <1>6 DEF Worker, SameReplies
<1> HIDE DEF t
<1>11. Len(<<>>) <= 1
  BY EmptySeq
<1>12. Sized(t)
  BY <1>6, <1>9, <1>10, <1>11, Zenon DEF Sized
<1>13. w.active /\ ~w.smeter /\ ~w.closing /\ ~w.smTimer
  BY <1>1, Invariants, Zenon DEF Gated
<1>14. Gated(t) /\ ~t.smeter
  BY <1>5, <1>9, <1>10, <1>13, Zenon DEF Gated, Leaves, SameGate
<1>15. Steady => Placed(t)
  <2>1. Steady => Placed(a)
    BY <1>5, Zenon DEF WorkerInv
  <2>2. a.operator = w.operator /\ a.era = w.era /\ a.selected = w.selected
    BY <1>5, Zenon DEF Leaves, SamePlace
  <2>3. (Steady /\ t.era = 0 /\ t.operator = "main") => t.selected = "main"
    BY <1>3, <1>9, <1>10, <2>2 DEF r
  <2>4. t.air = a.air /\ t.era = a.era
    BY <1>10, Zenon DEF SameReplies
  <2> QED
    BY <1>9, <1>14, <2>1, <2>3, <2>4 DEF Placed
<1>16. Current(t) /\ t.air = a.air
  BY <1>5, <1>10, Zenon DEF WorkerInv, Current, SameReplies
<1>17. Correlated(t) /\ Requested(t) /\ AfterAnnouncement(t) /\ StatusOfMain(t) /\ SameNews(a, t)
  BY <1>5, <1>10, RepliesKept, NewsKept, Zenon DEF WorkerInv
<1>18. WorkerInv(t) /\ Plain(a, t)
  BY <1>10, <1>12, <1>14, <1>15, <1>16, <1>17, Zenon DEF WorkerInv, Plain
<1>19. Meets(w, t) /\ Plain(w, t)
  BY <1>5, <1>16, <1>18, PlainTwice, Zenon DEF Meets
<1>20. Yields(w, t)
  <2>1. Len(w.scheduled) \in Nat
    BY <1>1, LenProperties DEF Worker
  <2>2. Len(w.scheduled) >= Len(w.scheduled)
    BY <2>1
  <2> QED
    BY <1>5, <1>9, <1>10, <2>2, Zenon DEF Yields, Leaves, SameGate
<1> QED
  BY <1>7, <1>18, <1>19, <1>20, Zenon DEF Worked, Step, Sends

LEMMA TransactionEndsWorks == ASSUME IInv, TransactionEnds PROVE Worked(w, w')
<1> DEFINE s == [w EXCEPT !.closing = FALSE, !.active = FALSE]
<1>1. w \in Worker /\ Sized(w) /\ WorkerInv(w) /\ w.closing
  BY Invariants, Zenon DEF TransactionEnds
<1>2. w' = DispatchDeferred(s)
  BY Zenon DEF TransactionEnds
<1>3. s \in Worker /\ s.closing = FALSE /\ s.active = FALSE
  BY <1>1 DEF Worker
<1>4. /\ s.scheduled = w.scheduled /\ s.deferred = w.deferred /\ s.window = w.window
      /\ s.smeter = w.smeter /\ s.smTimer = w.smTimer /\ s.exQueued = w.exQueued
      /\ s.exPending = w.exPending /\ s.inbox = w.inbox /\ SamePlace(w, s) /\ SameReplies(w, s)
  BY <1>1 DEF Worker, SamePlace, SameReplies
<1> HIDE DEF s
<1>5. Sized(s) /\ w.window = <<>> /\ ~w.smeter
  BY <1>1, <1>3, <1>4, Invariants, Zenon DEF Sized, Gated
<1>6. Gated(s)
  BY <1>1, <1>3, <1>4, <1>5, Zenon DEF WorkerInv, Gated
<1>7. s.era = w.era /\ s.selected = w.selected /\ s.operator = w.operator /\ s.air = w.air
  BY <1>4, Zenon DEF SamePlace, SameReplies
<1>8. Current(s) /\ (Steady => Placed(s))
  <2>1. Steady => Placed(w)
    BY <1>1, Zenon DEF WorkerInv
  <2>2. Current(s)
    BY <1>1, <1>7, Zenon DEF WorkerInv, Current
  <2> QED
    BY <1>4, <1>7, <2>1, <2>2 DEF Placed
<1>9. Correlated(s) /\ Requested(s) /\ AfterAnnouncement(s) /\ StatusOfMain(s) /\ SameNews(w, s)
  BY <1>1, <1>4, <1>7, RepliesKept, NewsKept, Zenon DEF WorkerInv
<1>10. WorkerInv(s) /\ Plain(w, s) /\ Meets(w, s)
  BY <1>4, <1>5, <1>6, <1>7, <1>8, <1>9, Zenon DEF WorkerInv, Plain, Meets
<1>11. Yields(w, s)
  <2>1. Len(w.scheduled) \in Nat
    BY <1>1, LenProperties DEF Worker
  <2>2. Len(w.scheduled) >= Len(w.scheduled)
    BY <2>1
  <2> QED
    BY <1>4, <2>2, Zenon DEF Yields
<1> QED
  BY <1>1, <1>2, <1>4, <1>10, <1>11, StepDispatches, Zenon DEF Worked, Sends

LEMMA SMeterTimerWorks == ASSUME IInv, SMeterTimer PROVE Worked(w, w')
<1> DEFINE s == [w EXCEPT !.smTimer = FALSE]
           t == SendRead(s, "smeter", "sub")
<1>1. w \in Worker /\ Sized(w) /\ WorkerInv(w) /\ w.smTimer /\ w.smeter /\ "sub" \in Receivers
  BY Invariants, FamiliesAndReceivers, Zenon DEF SMeterTimer, Gated
<1>2. w' = t
  BY Zenon DEF SMeterTimer
<1>3. s \in Worker /\ s.smTimer = FALSE
  BY <1>1 DEF Worker
<1>4. /\ s.scheduled = w.scheduled /\ s.deferred = w.deferred /\ s.window = w.window
      /\ s.smeter = w.smeter /\ s.active = w.active /\ s.closing = w.closing
      /\ s.exQueued = w.exQueued /\ s.exPending = w.exPending /\ s.inbox = w.inbox
      /\ SamePlace(w, s) /\ SameReplies(w, s)
  BY <1>1 DEF Worker, SamePlace, SameReplies
<1> HIDE DEF s
<1>5. Sized(s)
  BY <1>1, <1>3, <1>4, Zenon DEF Sized
<1>6. Gated(s)
  BY <1>1, <1>3, <1>4, Zenon DEF WorkerInv, Gated
<1>7. s.era = w.era /\ s.selected = w.selected /\ s.operator = w.operator /\ s.air = w.air
  BY <1>4, Zenon DEF SamePlace, SameReplies
<1>8. Current(s) /\ (Steady => Placed(s))
  <2>1. Steady => Placed(w)
    BY <1>1, Zenon DEF WorkerInv
  <2>2. Current(s)
    BY <1>1, <1>7, Zenon DEF WorkerInv, Current
  <2> QED
    BY <1>4, <1>7, <2>1, <2>2 DEF Placed
<1>9. Correlated(s) /\ Requested(s) /\ AfterAnnouncement(s) /\ StatusOfMain(s) /\ SameNews(w, s)
  BY <1>1, <1>4, <1>7, RepliesKept, NewsKept, Zenon DEF WorkerInv
<1>10. WorkerInv(s) /\ Plain(w, s)
  BY <1>4, <1>5, <1>6, <1>7, <1>8, <1>9, Zenon DEF WorkerInv, Plain
<1>11. (Steady /\ s.era = 0 /\ s.operator = "main") => s.selected = "sub"
  BY <1>1, <1>4, <1>10, Zenon DEF WorkerInv, Placed
<1>12. WorkerInv(t) /\ Leaves(s, t) /\ Plain(s, t) /\ Meets(s, t)
  BY <1>1, <1>10, <1>11, SMeterSent, Zenon
<1> HIDE DEF t
<1>13. Plain(w, t) /\ Meets(w, t)
  BY <1>7, <1>10, <1>12, PlainTwice, MeetsLater, Zenon
<1>14. Yields(w, t)
  <2>1. Len(w.scheduled) \in Nat
    BY <1>1, LenProperties DEF Worker
  <2>2. Len(w.scheduled) >= Len(w.scheduled)
    BY <2>1
  <2> QED
    BY <1>4, <1>12, <2>2, Zenon DEF Yields, Leaves, SameGate
<1> QED
  BY <1>2, <1>12, <1>13, <1>14, Zenon DEF Worked, Step, Sends

LEMMA ExchangeTimerWorks == ASSUME IInv, ExchangeTimer PROVE Worked(w, w')
<1> DEFINE s == [w EXCEPT !.exTimer = FALSE]
           t == RequestScopedReads(s, Identity, "sub")
<1>1. w \in Worker /\ Sized(w) /\ WorkerInv(w)
  BY Invariants, Zenon
<1>2. w' = t \/ w' = s
  BY Zenon DEF ExchangeTimer
<1>3. s \in Worker /\ Leaves(w, s) /\ SameReplies(w, s) /\ s.inbox = w.inbox /\ s.deferred = w.deferred
  BY <1>1 DEF Worker, Leaves, SameGate, SamePlace, SameReplies
<1> HIDE DEF s
<1>4. Sized(s)
  BY <1>1, <1>3, Zenon DEF Sized, Leaves, SameGate
<1>5. WorkerInv(s) /\ Ordinary(w, s) /\ Yields(w, s)
  BY <1>1, <1>3, <1>4, Bystander, LeavesYields, Zenon DEF Leaves
<1>6. WorkerInv(t) /\ Ordinary(s, t) /\ Yields(s, t)
  BY <1>5, RequestScopedReadsKeeps, Zenon
<1> HIDE DEF t
<1>7. Ordinary(w, t) /\ Yields(w, t)
  BY <1>1, <1>4, <1>5, <1>6, OrdinaryTwice, YieldsTwice, Zenon DEF WorkerInv
<1> QED
  BY <1>2, <1>5, <1>6, <1>7, OrdinaryWorks, Zenon

\* Families whose replies are all in are open again.
LEMMA DrainsEnd ==
  ASSUME NEW s, WorkerInv(s), NEW t, t \in Worker, Leaves(s, t), t.pending = s.pending,
         t.air = s.air, t.inbox = s.inbox, t.deferred = s.deferred,
         \A f \in Families : t.drains[f] = s.drains[f] \/ (t.drains[f] = "none" /\ ~OnAir(s, f))
  PROVE  WorkerInv(t) /\ Ordinary(s, t) /\ Yields(s, t)
<1>1. Sized(s) /\ s.pending \in Seq(Read)
  BY DEF WorkerInv, Sized, Worker
<1>2. Sized(t)
  BY <1>1, Zenon DEF Sized, Leaves, SameGate
<1>3. SameGate(s, t) /\ SamePlace(s, t) /\ t.era = s.era /\ t.exQueued = s.exQueued
  BY Zenon DEF Leaves, SamePlace
<1>4. OneRead(t)
  BY Zenon DEF WorkerInv, Correlated, OneRead
<1>5. OpenFamilies(t)
  <2>1. \A i \in DOMAIN s.pending : s.pending[i].fam \in Families
    <3>1. \A i \in DOMAIN s.pending : s.pending[i] \in Read
      BY <1>1, ElementOfSeq, LenProperties
    <3> QED
      BY <3>1 DEF Read
  <2>2. OpenFamilies(s)
    BY Zenon DEF WorkerInv, Correlated
  <2> QED
    BY <2>1, <2>2, Zenon DEF OpenFamilies
<1>6. Answering(t)
  <2>1. Answering(s)
    BY Zenon DEF WorkerInv, Correlated
  <2> QED
    BY <2>1, Zenon DEF Answering, Asked, OnAir
<1>7. Gated(t) /\ Current(t) /\ (Steady => Placed(t)) /\ Quiet(s, t)
  BY <1>3, GateKept, PlaceKept, Zenon DEF WorkerInv
<1>8. Requested(t) /\ AfterAnnouncement(t) /\ StatusOfMain(t) /\ SameNews(s, t)
  BY <1>3, NewsKept, Zenon DEF WorkerInv
<1>9. Yields(s, t)
  BY <1>1, LeavesYields, Zenon
<1> QED
  BY <1>2, <1>3, <1>4, <1>5, <1>6, <1>7, <1>8, <1>9, Zenon DEF WorkerInv, Correlated, Ordinary

LEMMA DrainTimerWorks == ASSUME IInv, DrainTimer PROVE Worked(w, w')
<1> DEFINE over == {f \in Families : w.drains[f] # "none" /\ Rank(w.drains[f]) <= Rank(w.timer)}
           g == [f \in Families |-> IF f \in over THEN "none" ELSE w.drains[f]]
           s == [w EXCEPT !.drains = g, !.timer = "none"]
<1>1. /\ w \in Worker /\ Sized(w) /\ WorkerInv(w) /\ "none" \in Range(Lengths)
      /\ w.drains \in [Families -> {"none", "resolved", "abandoned"}]
  BY Invariants, RangeOfLengths DEF Worker
<1>2. w' = DispatchDeferred(s) /\ \A f \in over : MayEnd(w, f)
  BY Zenon DEF DrainTimer
<1>3. g \in [Families -> {"none", "resolved", "abandoned"}]
  BY <1>1
<1>4. \A f \in Families : g[f] = w.drains[f] \/ (g[f] = "none" /\ ~OnAir(w, f))
  BY <1>2 DEF MayEnd
<1> HIDE DEF g, over
<1>5. s \in Worker /\ s.drains = g
  BY <1>1, <1>3 DEF Worker
<1>6. /\ Leaves(w, s) /\ s.pending = w.pending /\ s.air = w.air /\ s.inbox = w.inbox
      /\ s.deferred = w.deferred
  BY <1>1 DEF Worker, Leaves, SameGate, SamePlace
<1> HIDE DEF s
<1>7. WorkerInv(s) /\ Ordinary(w, s) /\ Yields(w, s)
  BY <1>1, <1>4, <1>5, <1>6, DrainsEnd, Zenon
<1>8. Plain(w, s) /\ Meets(w, s) /\ s.exPending = w.exPending
  BY <1>6, <1>7, OrdinaryStep, Zenon DEF Leaves
<1> QED
  BY <1>1, <1>2, <1>7, <1>8, StepDispatches, Zenon DEF Worked, Sends

LEMMA DrainEndsWorks == ASSUME IInv, NEW f \in Families, DrainEnds(f) PROVE Worked(w, w')
<1>1. /\ w \in Worker /\ WorkerInv(w) /\ ~OnAir(w, f)
      /\ w.drains \in [Families -> {"none", "resolved", "abandoned"}]
  BY Invariants DEF Worker, DrainEnds, MayEnd
<1> DEFINE g == [w.drains EXCEPT ![f] = "none"]
           s == [w EXCEPT !.drains = g]
<1>2. w' = s
  BY <1>1 DEF DrainEnds, Worker
<1>3. /\ g \in [Families -> {"none", "resolved", "abandoned"}]
      /\ \A h \in Families : g[h] = w.drains[h] \/ (g[h] = "none" /\ ~OnAir(w, h))
  BY <1>1
<1> HIDE DEF g
<1>4. s \in Worker /\ s.drains = g
  BY <1>1, <1>3 DEF Worker
<1>5. /\ Leaves(w, s) /\ s.pending = w.pending /\ s.air = w.air /\ s.inbox = w.inbox
      /\ s.deferred = w.deferred
  BY <1>1 DEF Worker, Leaves, SameGate, SamePlace
<1> HIDE DEF s
<1>6. WorkerInv(s) /\ Ordinary(w, s) /\ Yields(w, s)
  BY <1>1, <1>3, <1>4, <1>5, DrainsEnd, Zenon
<1> QED
  BY <1>2, <1>6, OrdinaryWorks, Zenon

LEMMA ExpireWorks == ASSUME IInv, Expire PROVE Worked(w, w')
<1> DEFINE q == Tail(w.pending)
           f == Head(w.pending).fam
           t == BeginDrain([w EXCEPT !.pending = q], f, "abandoned")
<1>1. /\ w \in Worker /\ Sized(w) /\ WorkerInv(w) /\ w.pending \in Seq(Read)
      /\ DOMAIN w.pending = 1 .. Len(w.pending)
  BY Invariants, LenProperties DEF Worker
<1>2. w.pending # <<>> /\ w' = t
  <2>1. w.pending # <<>> /\ w' = BeginDrain([w EXCEPT !.pending = Tail(@)], Head(w.pending).fam, "abandoned")
    BY Zenon DEF Expire
  <2> QED
    BY <1>1, <2>1 DEF Worker
<1>3. \A j, k \in 1 .. Len(w.pending) : w.pending[j].fam = w.pending[k].fam => j = k
  BY <1>1, Zenon DEF WorkerInv, Correlated, OneRead
<1>4. q \in Seq(Read) /\ Head(w.pending) = w.pending[1] /\ Taken(w.pending, q, w.pending[1].fam)
  BY <1>1, <1>2, <1>3, TakenHead
<1>5. f \in Families /\ Taken(w.pending, q, f)
  <2>1. w.pending[1] \in Read
    BY <1>1, <1>2, <1>4, HeadTailProperties
  <2> QED
    BY <1>4, <2>1 DEF Read
<1> HIDE DEF q, f
<1>6. "abandoned" \in {"resolved", "abandoned"}
  OBVIOUS
<1>7. WorkerInv(t) /\ Ordinary(w, t) /\ Leaves(w, t)
  BY <1>1, <1>4, <1>5, <1>6, FamilyShut, Zenon
<1> HIDE DEF t
<1>8. Yields(w, t)
  BY <1>1, <1>7, LeavesYields, Zenon
<1> QED
  BY <1>2, <1>7, <1>8, OrdinaryWorks, Zenon

-----------------------------------------------------------------------------
(* The link.                                                               *)

\* The first reply is in, or lost.
LEMMA AirTaken ==
  ASSUME NEW s, WorkerInv(s), s.air # <<>>, NEW t, t = [s EXCEPT !.air = Tail(@)]
  PROVE  /\ WorkerInv(t) /\ Plain(s, t) /\ Leaves(s, t) /\ Yields(s, t)
         /\ Len(t.air) < Len(s.air) /\ Head(s.air) \in Flight
         /\ Head(s.air).fam \in Identity => Head(s.air).era = s.era
<1> DEFINE q == Tail(s.air)
<1>1. /\ s \in Worker /\ Sized(s) /\ s.air \in Seq(Flight) /\ Len(s.air) \in Nat
      /\ DOMAIN s.air = 1 .. Len(s.air)
  BY LenProperties DEF WorkerInv, Sized, Worker
<1>2. /\ q \in Seq(Flight) /\ Len(q) = Len(s.air) - 1 /\ Head(s.air) = s.air[1]
      /\ Head(s.air) \in Flight /\ 1 \in DOMAIN s.air /\ DOMAIN q = 1 .. Len(q)
      /\ \A k \in 1 .. Len(q) : q[k] = s.air[k + 1] /\ k + 1 \in 1 .. Len(s.air)
  BY <1>1, HeadTailProperties, EmptySeq, LenProperties
<1>3. t = [s EXCEPT !.air = q]
  BY <1>1
<1> HIDE DEF q
<1>4. t \in Worker /\ t.air = q
  BY <1>1, <1>2, <1>3 DEF Worker
<1>5. /\ Leaves(s, t) /\ t.deferred = s.deferred /\ t.pending = s.pending /\ t.drains = s.drains
      /\ t.inbox = s.inbox
  BY <1>1, <1>3 DEF Worker, Leaves, SameGate, SamePlace
<1>6. Sized(t)
  BY <1>1, <1>4, <1>5, Zenon DEF Sized, Leaves, SameGate
<1>7. SameGate(s, t) /\ SamePlace(s, t) /\ t.era = s.era /\ t.exQueued = s.exQueued
  BY <1>5, Zenon DEF Leaves, SamePlace
<1>8. \A i \in DOMAIN t.air : \E j \in DOMAIN s.air : t.air[i] = s.air[j]
  BY <1>1, <1>2, <1>4
<1>9. Correlated(t)
  <2>1. Correlated(s)
    BY Zenon DEF WorkerInv
  <2>2. ASSUME NEW i \in DOMAIN t.air, t.air[i].fam \in Families
        PROVE  t.drains[t.air[i].fam] # "none" \/ Asked(t, t.air[i])
    <3>1. PICK j \in DOMAIN s.air : t.air[i] = s.air[j]
      BY <1>8
    <3>2. s.drains[s.air[j].fam] # "none" \/ Asked(s, s.air[j])
      BY <2>1, <2>2, <3>1, Zenon DEF Correlated, Answering
    <3> QED
      BY <1>5, <3>1, <3>2, Zenon DEF Asked
  <2>3. Answering(t)
    BY <2>2, Zenon DEF Answering
  <2> QED
    BY <1>5, <2>1, <2>3 DEF Correlated, OneRead, OpenFamilies
<1>10. Current(t) /\ (Steady => Placed(t))
  <2>1. Current(s) /\ (Steady => Placed(s))
    BY Zenon DEF WorkerInv
  <2>2. Current(t)
    BY <1>7, <1>8, <2>1 DEF Current
  <2>3. ASSUME Placed(s) PROVE Placed(t)
    <3>1. ASSUME t.era = 0
          PROVE  \A i \in DOMAIN t.air : t.air[i].fam \in Identity => t.air[i].from = t.air[i].rcv
      BY <1>7, <1>8, <2>3, <3>1 DEF Placed
    <3>2. t.selected = s.selected /\ t.operator = s.operator /\ t.window = s.window /\ t.smeter = s.smeter
      BY <1>7, Zenon DEF SameGate, SamePlace
    <3> QED
      BY <1>7, <2>3, <3>1, <3>2 DEF Placed
  <2> QED
    BY <2>1, <2>2, <2>3
<1>11. Gated(t) /\ Requested(t) /\ AfterAnnouncement(t) /\ StatusOfMain(t) /\ SameNews(s, t)
  BY <1>5, <1>7, GateKept, NewsKept, Zenon DEF WorkerInv
<1>12. WorkerInv(t) /\ Plain(s, t)
  BY <1>6, <1>7, <1>9, <1>10, <1>11, Zenon DEF WorkerInv, Plain
<1>13. Yields(s, t)
  BY <1>1, <1>5, LeavesYields, Zenon
<1>14. Head(s.air).fam \in Identity => Head(s.air).era = s.era
  BY <1>2, Zenon DEF WorkerInv, Current
<1>15. Len(t.air) < Len(s.air)
  BY <1>1, <1>2, <1>4
<1> QED
  BY <1>2, <1>5, <1>12, <1>13, <1>14, <1>15

LEMMA LoseWorks == ASSUME IInv, Lose PROVE Worked(w, w')
<1> DEFINE t == [w EXCEPT !.air = Tail(@)]
<1>1. WorkerInv(w) /\ w.air # <<>> /\ w' = t /\ w.air \in Seq(Flight)
  <2>1. w.air # <<>> /\ w' = t
    BY Zenon DEF Lose
  <2> QED
    BY <2>1, Invariants DEF Worker
<1> HIDE DEF t
<1>2. WorkerInv(w') /\ Plain(w, w') /\ Yields(w, w') /\ Len(w'.air) < Len(w.air)
  BY <1>1, AirTaken, Zenon DEF t
<1>3. Len(w'.air) <= Len(w.air)
  <2>1. w'.air \in Seq(Flight)
    BY <1>2 DEF WorkerInv, Sized, Worker
  <2>2. Len(w'.air) \in Nat /\ Len(w.air) \in Nat
    BY <1>1, <2>1, LenProperties
  <2> QED
    BY <1>2, <2>2
<1> QED
  BY <1>2, <1>3, Zenon DEF Worked, Step, Sends

\* A value is published for a receiver.
Published(s, r, rcv) == IF s.exPending THEN Tell(s, "reply", [r EXCEPT !.rcv = rcv]) ELSE s

LEMMA PublishKeeps ==
  ASSUME NEW s, WorkerInv(s), NEW r \in Flight, NEW rcv \in Receivers,
         r.fam \in Identity => r.era = s.era, r.fam = "status" => rcv = "main"
  PROVE  /\ WorkerInv(Published(s, r, rcv)) /\ Plain(s, Published(s, r, rcv))
         /\ Yields(s, Published(s, r, rcv)) /\ Published(s, r, rcv).air = s.air
<1> DEFINE fl == [r EXCEPT !.rcv = rcv]
           sg == [sig |-> "reply", about |-> fl]
           t  == Tell(s, "reply", fl)
<1>1. Sized(s) /\ s.inbox \in Seq(Signal)
  BY DEF WorkerInv, Sized, Worker
<1>2. fl \in Flight /\ fl.fam = r.fam /\ fl.rcv = rcv /\ fl.era = r.era
  BY DEF Flight
<1> HIDE DEF fl
<1>3. /\ sg \in Signal /\ sg.sig = "reply" /\ sg.about = fl /\ sg.sig # "dispatched"
      /\ "reply" \in {"sent", "dispatched", "reply"}
  BY <1>2 DEF Signal
<1>4. /\ Sized(t) /\ Leaves(s, t) /\ SameReplies(s, t) /\ t.inbox = Append(s.inbox, sg)
  BY <1>1, <1>2, <1>3, TellSized, Zenon
<1> HIDE DEF sg, t
<1>5. SameGate(s, t) /\ SamePlace(s, t) /\ t.era = s.era /\ t.exQueued = s.exQueued /\ t.air = s.air
  BY <1>4, Zenon DEF Leaves, SamePlace, SameReplies
<1>6. Requested(t) /\ AfterAnnouncement(t) /\ StatusOfMain(t) /\ SameNews(s, t)
  BY <1>1, <1>2, <1>3, <1>4, <1>5, InboxAppended, Zenon DEF WorkerInv
<1>7. Correlated(t) /\ Gated(t) /\ Current(t) /\ (Steady => Placed(t))
  BY <1>4, <1>5, RepliesKept, GateKept, PlaceKept, Zenon DEF WorkerInv
<1>8. WorkerInv(t) /\ Plain(s, t)
  BY <1>4, <1>5, <1>6, <1>7, Zenon DEF WorkerInv, Plain
<1>9. Yields(s, t) /\ Yields(s, s) /\ Plain(s, s)
  BY <1>1, <1>4, Itself, OrdinaryStep, LeavesYields, Zenon
<1> QED
  BY <1>5, <1>8, <1>9, Zenon DEF Published, t, fl

\* The read a reply resolves is the first pending of its family.
LEMMA MatchIsFirst ==
  ASSUME NEW s, Sized(s), NEW f, Live(s, f)
  PROVE  /\ Matches(s, f) # {} /\ Min(Matches(s, f)) \in DOMAIN s.pending
         /\ s.pending[Min(Matches(s, f))].fam = f
<1> DEFINE S == {j \in DOMAIN s.pending : s.pending[j].fam = f}
<1>1. DOMAIN s.pending \subseteq Nat
  BY LenProperties DEF Sized, Worker
<1>2. S \in SUBSET Nat /\ S # {}
  BY <1>1 DEF Live
<1>3. Matches(s, f) = {Min(S)}
  BY <1>2 DEF Matches, Firsts
<1>4. \A x \in S : x \in DOMAIN s.pending /\ s.pending[x].fam = f
  OBVIOUS
<1> HIDE DEF S
<1>5. Min(S) \in S
  BY <1>2, MinIsLeast, Zenon
<1>6. Min(S) \in Nat
  BY <1>2, <1>5
<1>7. Min({Min(S)}) = Min(S)
  <2>1. {Min(S)} \in SUBSET Nat /\ {Min(S)} # {}
    BY <1>6
  <2>2. Min({Min(S)}) \in {Min(S)}
    BY <2>1, MinIsLeast, Zenon
  <2> QED
    BY <2>2
<1> QED
  BY <1>3, <1>4, <1>5, <1>7, Zenon

LEMMA NoMatch == ASSUME NEW s, NEW f, Matches(s, f) # {} PROVE Live(s, f)
BY DEF Matches, Firsts, Live

LEMMA ParseReplyWorks ==
  ASSUME IInv, ParseReply PROVE Worked(w, w') /\ pipe' \in Seq(Receivers)
<1> DEFINE r == Head(w.air)
           s == [w EXCEPT !.air = Tail(@)]
           i == Min(Matches(s, r.fam))
<1>1. WorkerInv(w) /\ w.air # <<>> /\ pipe \in Seq(Receivers) /\ "main" \in Receivers /\ Sized(w)
  BY FamiliesAndReceivers, Zenon DEF IInv, WorkerInv, GuiInv, ParseReply
<1>2. \/ r.fam = "status" /\ Publish(s, r, "main")
      \/ r.fam # "status" /\ Matches(s, r.fam) # {} /\ Publish(Resolve(s, i), r, s.pending[i].rcv)
      \/ r.fam # "status" /\ w' = s /\ pipe' = pipe
      \/ r.fam # "status" /\ Publish(s, r, s.selected)
  BY Zenon DEF ParseReply
<1>3. /\ WorkerInv(s) /\ Plain(w, s) /\ Leaves(w, s) /\ Yields(w, s) /\ Len(s.air) < Len(w.air)
      /\ r \in Flight /\ (r.fam \in Identity => r.era = w.era)
  BY <1>1, AirTaken, Zenon
<1> HIDE DEF r, s
<1>4. r.fam \in Identity => r.era = s.era
  BY <1>3, Zenon DEF Plain
<1>5. Sized(s) /\ s.selected \in Receivers
  BY <1>3 DEF WorkerInv, Sized, Worker
<1>6. ASSUME NEW a, WorkerInv(a), Plain(w, a), Yields(w, a), a.air = s.air, NEW rcv \in Receivers,
             r.fam = "status" => rcv = "main", Publish(a, r, rcv)
      PROVE  Worked(w, w') /\ pipe' \in Seq(Receivers)
  <2>1. w' = Published(a, r, rcv)
    BY <1>6, Zenon DEF Publish, Published
  <2>2. a.era = w.era
    BY <1>6, Zenon DEF Plain
  <2>3. WorkerInv(w') /\ Plain(a, w') /\ Yields(a, w') /\ w'.air = a.air
    BY <1>3, <1>6, <2>1, <2>2, PublishKeeps, Zenon
  <2>4. Plain(w, w') /\ Yields(w, w')
    BY <1>1, <1>6, <2>3, PlainTwice, YieldsTwice, Zenon DEF WorkerInv
  <2>5. Len(w'.air) <= Len(w.air)
    <3>1. Len(s.air) \in Nat /\ Len(w.air) \in Nat
      BY <1>1, <1>5, LenProperties DEF Sized, Worker
    <3> QED
      BY <1>3, <1>6, <2>3, <3>1
  <2>6. pipe' = Append(pipe, rcv) \/ pipe' = pipe
    BY <1>6 DEF Publish
  <2>7. pipe' \in Seq(Receivers)
    BY <1>1, <2>6, AppendProperties
  <2> QED
    BY <2>3, <2>4, <2>5, <2>7, Zenon DEF Worked, Step, Sends
<1>7. CASE r.fam = "status" /\ Publish(s, r, "main")
  BY <1>1, <1>3, <1>6, <1>7, Zenon
<1>8. CASE r.fam # "status" /\ Publish(s, r, s.selected)
  BY <1>3, <1>5, <1>6, <1>8, Zenon
<1>9. CASE r.fam # "status" /\ w' = s /\ pipe' = pipe
  <2>1. Len(s.air) \in Nat /\ Len(w.air) \in Nat
    BY <1>1, <1>5, LenProperties DEF Sized, Worker
  <2>2. Len(s.air) <= Len(w.air)
    BY <1>3, <2>1
  <2> QED
    BY <1>1, <1>3, <1>9, <2>2, Zenon DEF Worked, Step, Sends
<1>10. CASE r.fam # "status" /\ Matches(s, r.fam) # {}
            /\ Publish(Resolve(s, i), r, s.pending[i].rcv)
  <2> DEFINE a == Resolve(s, i)
  <2>1. i \in DOMAIN s.pending
    BY <1>5, <1>10, NoMatch, MatchIsFirst, Zenon
  <2>2. s.pending[i].rcv \in Receivers
    <3>1. s.pending \in Seq(Read)
      BY <1>5 DEF Sized, Worker
    <3>2. s.pending[i] \in Read
      BY <2>1, <3>1, ElementOfSeq, LenProperties
    <3> QED
      BY <3>2 DEF Read
  <2> HIDE DEF i
  <2>3. WorkerInv(a) /\ Ordinary(s, a) /\ Yields(s, a)
    BY <1>3, <2>1, ResolveKeeps, Zenon
  <2>4. a.air = s.air
    <3>1. s \in Worker
      BY <1>5, Zenon DEF Sized
    <3> QED
      BY <3>1 DEF Resolve, FinishSMeter, Select, BeginDrain, Worker
  <2> HIDE DEF a
  <2>5. Plain(w, a) /\ Yields(w, a)
    BY <1>1, <1>3, <1>5, <2>3, OrdinaryStep, PlainTwice, YieldsTwice, Zenon DEF WorkerInv
  <2> QED
    BY <1>6, <1>10, <2>2, <2>3, <2>4, <2>5, Zenon DEF a
<1> QED
  BY <1>2, <1>7, <1>8, <1>9, <1>10, Zenon

-----------------------------------------------------------------------------
(* The GUI thread's part of the invariant.                                 *)

\* What a step must never do, whoever takes it.
Held(s, t) == /\ WorkerInv(t) /\ Sends(s, t)
              /\ s.exPending /\ t.exPending => Yields(s, t)

\* Events are counted, and not beyond their bound.
Counts == used' \in used .. MaxEvents

LEMMA Counted ==
  ASSUME GuiInv, UNCHANGED used \/ Fault \/ (\E late : TimedOut(late)) \/ \E act : Operates(act)
  PROVE  Counts
BY SchedulerAssumption DEF GuiInv, Counts, Fault, TimedOut, Operates

LEMMA StepHeld == ASSUME NEW s, NEW t, Worked(s, t) PROVE Held(s, t)
BY Zenon DEF Worked, Step, Held

LEMMA MadeKept ==
  ASSUME NEW s, NEW t, Sized(s), Sized(t), Plain(s, t) \/ Exchanged(s, t)
  PROVE  Made(t) = Made(s)
<1>1. s.era \in Nat /\ t.era \in Nat /\ s.exQueued \in BOOLEAN /\ t.exQueued \in BOOLEAN
  BY DEF Sized, Worker
<1> QED
  BY <1>1 DEF Made, Plain, Exchanged

\* The counting of exchanges outlives every step that does not decide about one.
LEMMA ExchangeKept ==
  ASSUME IInv, Step(w, w'), UNCHANGED exch, Counts PROVE ExchangeInv'
<1>1. Sized(w) /\ Sized(w') /\ w.era \in Nat /\ used \in Nat /\ used' \in Nat /\ used <= used'
  <2>1. Sized(w) /\ Sized(w')
    BY Invariants, Zenon DEF Step, WorkerInv
  <2>2. used \in Nat
    BY SchedulerAssumption DEF IInv, GuiInv
  <2>3. w.era \in Nat
    BY <2>1 DEF Sized, Worker
  <2> QED
    BY <2>1, <2>2, <2>3, SchedulerAssumption DEF Counts
<1>2. Made(w') = Made(w) /\ Made(w) \in Nat /\ Made(w) <= used
  <2>1. Made(w') = Made(w)
    BY <1>1, MadeKept, Zenon DEF Step
  <2>2. Made(w) \in Nat
    BY <1>1 DEF Made
  <2>3. Made(w) <= used
    BY Zenon DEF IInv, ExchangeInv
  <2> QED
    BY <2>1, <2>2, <2>3
<1>3. Made(w') <= used'
  BY <1>1, <1>2
<1>4. CASE Plain(w, w')
  <2>1. exch' # "requested" => ~w'.exQueued /\ ~Announced(w')
    BY <1>4, Zenon DEF IInv, ExchangeInv, Plain, SameNews
  <2>2. exch' = "dispatched" => w'.era # 0 /\ \A i \in DOMAIN w'.inbox : SinceExchange(w', i)
    BY <1>4, Zenon DEF IInv, ExchangeInv, Plain, SameNews
  <2> QED
    BY <1>3, <2>1, <2>2, Zenon DEF ExchangeInv, Made, Announced, Announces, SinceExchange, Confirmation
<1>5. CASE Exchanged(w, w')
  <2>1. exch' = "requested"
    BY <1>5, Zenon DEF IInv, ExchangeInv, Exchanged
  <2>2. exch' # "dispatched"
    BY <2>1
  <2> QED
    BY <1>3, <2>1, <2>2, Zenon DEF ExchangeInv, Made
<1> QED
  BY <1>4, <1>5, Zenon DEF Step

\* A step of the worker that the GUI thread has no part in.
LEMMA WorkerTurn ==
  ASSUME IInv, Worked(w, w'), UNCHANGED <<poll, tx, exchange, gui>>, pipe' \in Seq(Receivers), Counts
  PROVE  IInv' /\ Held(w, w')
<1>1. ExchangeInv'
  BY ExchangeKept, Zenon DEF Worked, exchange
<1>2. GuiInv'
  <2>1. used' \in 0 .. MaxEvents
    BY SchedulerAssumption DEF IInv, GuiInv, Counts
  <2> QED
    BY <2>1 DEF IInv, GuiInv, exchange, gui, AllConfirmed
<1> QED
  BY <1>1, <1>2, StepHeld, Zenon DEF IInv, Worked, Step

\* What the worker does of its own accord.
LEMMA CommandingTurn == ASSUME IInv, Commanding PROVE IInv' /\ Held(w, w')
<1>1. GuiInv /\ pipe \in Seq(Receivers)
  BY Zenon DEF IInv, GuiInv
<1>2. ASSUME Unchanged, Worked(w, w') PROVE IInv' /\ Held(w, w')
  <2>1. Counts
    BY <1>1, <1>2, Counted, Zenon DEF Unchanged
  <2> QED
    BY <1>1, <1>2, <2>1, WorkerTurn, Zenon DEF Unchanged
<1>3. CASE RunScheduled
  BY <1>2, <1>3, RunScheduledWorks, Zenon DEF RunScheduled
<1>4. CASE WindowEnds
  BY <1>2, <1>4, WindowEndsWorks, Zenon DEF WindowEnds
<1>5. CASE TransactionEnds
  BY <1>2, <1>5, TransactionEndsWorks, Zenon DEF TransactionEnds
<1>6. CASE SMeterTimer
  BY <1>2, <1>6, SMeterTimerWorks, Zenon DEF SMeterTimer
<1>7. CASE ExchangeTimer
  BY <1>2, <1>7, ExchangeTimerWorks, Zenon DEF ExchangeTimer
<1>8. CASE DrainTimer
  BY <1>2, <1>8, DrainTimerWorks, Zenon DEF DrainTimer
<1>9. ASSUME NEW f \in Families, DrainEnds(f) PROVE IInv' /\ Held(w, w')
  BY <1>2, <1>9, DrainEndsWorks, Zenon DEF DrainEnds
<1>10. CASE Expire
  <2>1. UNCHANGED <<poll, pipe, tx, exchange, gui>> /\ \E late : TimedOut(late)
    BY <1>10, Zenon DEF Expire
  <2>2. Counts
    BY <1>1, <2>1, Counted, Zenon
  <2> QED
    BY <1>1, <1>10, <2>1, <2>2, ExpireWorks, WorkerTurn, Zenon
<1>11. CASE ParseReply
  <2>1. UNCHANGED <<poll, tx, exchange, gui, used>>
    BY <1>11, Zenon DEF ParseReply
  <2>2. Counts
    BY <1>1, <2>1, Counted, Zenon
  <2> QED
    BY <1>11, <2>1, <2>2, ParseReplyWorks, WorkerTurn, Zenon
<1> QED
  BY <1>3, <1>4, <1>5, <1>6, <1>7, <1>8, <1>9, <1>10, <1>11, Zenon DEF Commanding, Timers

LEMMA LoseTurn == ASSUME IInv, Lose PROVE IInv' /\ Held(w, w')
<1>1. UNCHANGED <<poll, pipe, tx, exchange, gui>> /\ Fault
  BY Zenon DEF Lose
<1>2. Counts /\ pipe \in Seq(Receivers)
  BY <1>1, Counted, Zenon DEF IInv, GuiInv
<1> QED
  BY <1>1, <1>2, LoseWorks, WorkerTurn, Zenon

\* A step of the GUI thread that decides nothing about an exchange.
LEMMA GuiTurn ==
  ASSUME IInv, Worked(w, w'), UNCHANGED exch, Counts, GuiInv' PROVE IInv' /\ Held(w, w')
BY ExchangeKept, StepHeld, Zenon DEF IInv, Worked, Step

LEMMA WorkerUntouched == ASSUME IInv, UNCHANGED w PROVE Worked(w, w')
<1>1. Ordinary(w, w) /\ Yields(w, w) /\ WorkerInv(w)
  BY Invariants, Itself, LeavesYields, Zenon
<1> QED
  BY <1>1, OrdinaryWorks, Zenon

LEMMA EnqueueWorks == ASSUME IInv, NEW cmd \in Command, w' = Enqueue(w, cmd) PROVE Worked(w, w')
<1>1. WorkerInv(w') /\ Ordinary(w, w') /\ Yields(w, w')
  BY Invariants, EnqueueKeeps, Zenon
<1> QED
  BY <1>1, OrdinaryWorks, Zenon

LEMMA CountsInBounds == ASSUME GuiInv, Counts PROVE used' \in 0 .. MaxEvents
BY SchedulerAssumption DEF GuiInv, Counts

LEMMA TransmitMetersTurn == ASSUME IInv, TransmitMeters PROVE IInv' /\ Held(w, w')
<1>1. MeterCommand("swr", "main", "swr") \in Command
  BY FamiliesAndReceivers DEF MeterCommand, Command
<1>2. /\ w' = Enqueue(w, MeterCommand("swr", "main", "swr"))
      /\ UNCHANGED <<poll, pipe, tx, exchange, gui, used>> /\ GuiInv
  BY Zenon DEF TransmitMeters, IInv
<1>3. Worked(w, w') /\ Counts /\ pipe' \in Seq(Receivers)
  BY <1>1, <1>2, EnqueueWorks, Counted, Zenon DEF GuiInv
<1> QED
  BY <1>2, <1>3, WorkerTurn, Zenon

LEMMA PollTimesOutTurn == ASSUME IInv, PollTimesOut PROVE IInv' /\ Held(w, w')
<1>1. /\ poll' = [poll EXCEPT !.st = "idle"] /\ UNCHANGED <<pipe, tx, exchange, gui>>
      /\ w' = AbortSMeter(w) \/ w' = w
      /\ Counts /\ GuiInv
  <2>1. \E late : TimedOut(late)
    BY Zenon DEF PollTimesOut
  <2>2. GuiInv
    BY Zenon DEF IInv
  <2>3. Counts
    BY <2>1, <2>2, Counted, Zenon
  <2> QED
    BY <2>2, <2>3, Zenon DEF PollTimesOut
<1>2. Worked(w, w')
  <2>1. CASE w' = AbortSMeter(w)
    BY <2>1, Invariants, AbortSMeterKeeps, OrdinaryWorks, Zenon
  <2>2. CASE w' = w
    BY <2>2, WorkerUntouched, Zenon
  <2> QED
    BY <1>1, <2>1, <2>2
<1>3. GuiInv' /\ UNCHANGED exch
  <2>1. used' \in 0 .. MaxEvents
    BY <1>1, CountsInBounds, Zenon
  <2> QED
    BY <1>1, <2>1 DEF GuiInv, exchange, gui, AllConfirmed
<1> QED
  BY <1>1, <1>2, <1>3, GuiTurn, Zenon

LEMMA StartPollTurn == ASSUME IInv, StartPoll PROVE IInv' /\ Held(w, w')
<1>1. PICK r \in Metered : /\ poll' = [st |-> "queued", rcv |-> r]
                           /\ w' = Enqueue(w, MeterCommand("smeter", r, "smeter"))
  BY Zenon DEF StartPoll
<1>2. UNCHANGED <<pipe, tx, exchange, gui, used>> /\ GuiInv /\ r \in Receivers
  <2>1. r \in Receivers
    BY SchedulerAssumption DEF Receivers
  <2> QED
    BY <2>1, Zenon DEF StartPoll, IInv
<1>3. MeterCommand("smeter", r, "smeter") \in Command
  BY <1>2, FamiliesAndReceivers DEF MeterCommand, Command
<1>4. Worked(w, w') /\ Counts
  BY <1>1, <1>2, <1>3, EnqueueWorks, Counted, Zenon
<1>5. GuiInv' /\ UNCHANGED exch
  BY <1>1, <1>2 DEF GuiInv, exchange, gui, AllConfirmed
<1> QED
  BY <1>4, <1>5, GuiTurn, Zenon

LEMMA TakeValueTurn == ASSUME IInv, TakeValue PROVE IInv' /\ Held(w, w')
<1>1. /\ pipe # <<>> /\ pipe' = Tail(pipe) /\ UNCHANGED <<w, tx, exchange, gui, used>>
      /\ poll' = [poll EXCEPT !.st = "idle"] \/ poll' = poll
      /\ GuiInv
  BY Zenon DEF TakeValue, IInv
<1>2. Worked(w, w') /\ Counts
  BY <1>1, WorkerUntouched, Counted, Zenon
<1>3. pipe' \in Seq(Receivers)
  BY <1>1, HeadTailProperties DEF GuiInv
<1>4. GuiInv' /\ UNCHANGED exch
  BY <1>1, <1>3 DEF GuiInv, exchange, gui, AllConfirmed
<1> QED
  BY <1>2, <1>4, GuiTurn, Zenon

LEMMA PollVfoTurn == ASSUME IInv, PollVfo PROVE IInv' /\ Held(w, w')
<1>1. PICK f \in Identity : w' = Enqueue(w, ReadCommand(f, activeVfo))
  BY Zenon DEF PollVfo
<1>2. UNCHANGED <<poll, pipe, tx, exchange, gui, used>> /\ GuiInv
  BY Zenon DEF PollVfo, IInv
<1>3. ReadCommand(f, activeVfo) \in Command
  <2>1. f \in Families /\ activeVfo \in Receivers
    BY <1>2, FamiliesAndReceivers DEF GuiInv
  <2> QED
    BY <2>1 DEF ReadCommand, Command
<1>4. Worked(w, w') /\ Counts /\ pipe' \in Seq(Receivers)
  BY <1>1, <1>2, <1>3, EnqueueWorks, Counted, Zenon DEF GuiInv
<1> QED
  BY <1>2, <1>4, WorkerTurn, Zenon

LEMMA TransmissionTurn == ASSUME IInv, Transmit \/ Receive PROVE IInv' /\ Held(w, w')
<1>1. /\ tx' \in BOOLEAN /\ UNCHANGED <<w, poll, pipe, exchange, gui>>
      /\ UNCHANGED used \/ \E act : Operates(act)
  BY Zenon DEF Transmit, Receive
<1>2. GuiInv
  BY Zenon DEF IInv
<1>3. Worked(w, w') /\ Counts
  BY <1>1, <1>2, WorkerUntouched, Counted, Zenon
<1>4. used' \in 0 .. MaxEvents
  BY <1>2, <1>3, CountsInBounds, Zenon
<1>5. GuiInv' /\ UNCHANGED exch
  BY <1>1, <1>2, <1>4 DEF GuiInv, exchange, gui, AllConfirmed
<1> QED
  BY <1>3, <1>5, GuiTurn, Zenon

LEMMA SettingTurn == ASSUME IInv, Set \/ Tune PROVE IInv' /\ Held(w, w')
<1>1. GuiInv /\ activeVfo \in Receivers
  BY DEF IInv, GuiInv
<1> DEFINE set  == [class |-> "set", fam |-> "control", rcv |-> activeVfo, act |-> "set"]
           tune == [class |-> "set", fam |-> "freq", rcv |-> "main", act |-> "tune"]
<1>2. set \in Command /\ tune \in Command
  BY <1>1, FamiliesAndReceivers DEF Command
<1>3. /\ w' = Enqueue(w, set) \/ w' = Enqueue(w, tune)
      /\ UNCHANGED <<poll, pipe, tx, exchange, gui>> /\ \E act : Operates(act)
  BY Zenon DEF Set, Tune
<1> HIDE DEF set, tune
<1>4. Worked(w, w') /\ Counts /\ pipe' \in Seq(Receivers)
  <2>1. Worked(w, w')
    BY <1>2, <1>3, EnqueueWorks, Zenon
  <2> QED
    BY <1>1, <1>3, <2>1, Counted, Zenon DEF GuiInv
<1> QED
  BY <1>3, <1>4, WorkerTurn, Zenon

\* The operator's receiver is selected between transactions, if he is steady.
LEMMA BackendSelectsWorks ==
  ASSUME IInv, NEW r \in Receivers, BackendSelects(r), Steady => ~w.active PROVE Worked(w, w')
<1> DEFINE t == [w EXCEPT !.operator = r, !.selected = r]
<1>1. w \in Worker /\ Sized(w) /\ WorkerInv(w)
  BY Invariants, Zenon
<1>2. w' = t
  BY <1>1 DEF BackendSelects, Select, Worker
<1>3. t \in Worker /\ t.operator = r /\ t.selected = r
  BY <1>1 DEF Worker
<1>4. /\ SameGate(w, t) /\ t.scheduled = w.scheduled /\ t.deferred = w.deferred /\ t.era = w.era
      /\ SameReplies(w, t) /\ t.inbox = w.inbox /\ t.exQueued = w.exQueued
  BY <1>1 DEF Worker, SameGate, SameReplies
<1> HIDE DEF t
<1>5. Sized(t)
  BY <1>1, <1>3, <1>4, Zenon DEF Sized, SameGate
<1>6. Steady => Placed(t)
  <2>1. ASSUME Steady PROVE Placed(t)
    <3>1. Placed(w) /\ t.window = <<>> /\ ~t.smeter /\ t.air = w.air
      BY <1>1, <1>4, <2>1, IdlePlaced, Zenon DEF WorkerInv, SameGate, SameReplies
    <3> QED
      BY <1>3, <1>4, <3>1 DEF Placed
  <2> QED
    BY <2>1
<1>7. Current(t) /\ Quiet(w, t)
  BY <1>1, <1>4, Zenon DEF Current, Quiet, SameReplies, WorkerInv
<1>8. Correlated(t) /\ Gated(t)
  BY <1>1, <1>4, RepliesKept, GateKept, Zenon DEF WorkerInv
<1>9. Requested(t) /\ AfterAnnouncement(t) /\ StatusOfMain(t) /\ SameNews(w, t)
  BY <1>1, <1>4, NewsKept, Zenon DEF WorkerInv
<1>10. WorkerInv(t) /\ Ordinary(w, t)
  BY <1>4, <1>5, <1>6, <1>7, <1>8, <1>9, Zenon DEF WorkerInv, Ordinary
<1>11. Yields(w, t)
  <2>1. Len(w.scheduled) \in Nat
    BY <1>1, LenProperties DEF Worker
  <2>2. Len(w.scheduled) >= Len(w.scheduled)
    BY <2>1
  <2> QED
    BY <1>4, <2>2, Zenon DEF Yields, SameGate
<1> QED
  BY <1>2, <1>10, <1>11, OrdinaryWorks, Zenon

LEMMA SelectVfoTurn == ASSUME IInv, SelectVfo PROVE IInv' /\ Held(w, w')
<1>1. GuiInv /\ Other(shownVfo) \in Receivers
  BY FamiliesAndReceivers DEF IInv, GuiInv
<1>2. /\ BackendSelects(Other(shownVfo)) /\ (Steady => ~w.active)
      /\ selecting' = [on |-> TRUE, rcv |-> Other(shownVfo), tries |-> 0]
      /\ UNCHANGED <<poll, pipe, tx, exchange, shownVfo>> /\ \E act : Operates(act)
  BY Zenon DEF SelectVfo
<1>3. Worked(w, w') /\ Counts /\ activeVfo' = Other(shownVfo)
  BY <1>1, <1>2, BackendSelectsWorks, Counted, Zenon DEF BackendSelects
<1>4. used' \in 0 .. MaxEvents
  BY <1>1, <1>3, CountsInBounds, Zenon
<1>5. GuiInv' /\ UNCHANGED exch
  BY <1>1, <1>2, <1>3, <1>4 DEF GuiInv, exchange, AllConfirmed
<1> QED
  BY <1>3, <1>5, GuiTurn, Zenon

LEMMA SelectionConfirmedTurn == ASSUME IInv, SelectionConfirmed PROVE IInv' /\ Held(w, w')
<1>1. /\ shownVfo' = selecting.rcv /\ selecting' = [selecting EXCEPT !.on = FALSE, !.tries = 0]
      /\ UNCHANGED <<w, poll, pipe, tx, exchange, activeVfo, used>> /\ GuiInv
  BY Zenon DEF SelectionConfirmed, IInv
<1>2. Worked(w, w') /\ Counts
  BY <1>1, WorkerUntouched, Counted, Zenon
<1>3. GuiInv' /\ UNCHANGED exch
  BY <1>1 DEF GuiInv, exchange, AllConfirmed
<1> QED
  BY <1>2, <1>3, GuiTurn, Zenon

LEMMA SelectionTimesOutTurn == ASSUME IInv, SelectionTimesOut PROVE IInv' /\ Held(w, w')
<1>1. GuiInv /\ selecting.rcv \in Receivers
  BY DEF IInv, GuiInv
<1>2. /\ Steady => ~w.active
      /\ UNCHANGED <<poll, pipe, tx, exchange, shownVfo>> /\ Fault
      /\ \/ BackendSelects(selecting.rcv) /\ selecting' = [selecting EXCEPT !.tries = 1]
         \/ UNCHANGED <<w, activeVfo>> /\ selecting' = [selecting EXCEPT !.on = FALSE, !.tries = 0]
  BY Zenon DEF SelectionTimesOut
<1>3. Worked(w, w') /\ Counts
  BY <1>1, <1>2, BackendSelectsWorks, WorkerUntouched, Counted, Zenon
<1>4. activeVfo' \in Receivers
  BY <1>1, <1>2 DEF GuiInv, BackendSelects
<1>5. used' \in 0 .. MaxEvents
  BY <1>1, <1>3, CountsInBounds, Zenon
<1>6. GuiInv' /\ UNCHANGED exch
  BY <1>1, <1>2, <1>4, <1>5 DEF GuiInv, exchange, AllConfirmed
<1> QED
  BY <1>3, <1>6, GuiTurn, Zenon

LEMMA ScopeSyncedTurn == ASSUME IInv, ScopeSynced PROVE IInv' /\ Held(w, w')
<1>1. /\ exch = "scope" /\ exch' = "idle" /\ GuiInv
      /\ UNCHANGED <<w, poll, pipe, tx, confirmed, retries, gui, used>>
  BY Zenon DEF ScopeSynced, IInv
<1>2. Held(w, w')
  BY <1>1, WorkerUntouched, StepHeld, Zenon
<1>3. GuiInv'
  BY <1>1 DEF GuiInv, gui, AllConfirmed
<1>4. ExchangeInv'
  BY <1>1 DEF IInv, ExchangeInv, Made, Announced, Announces
<1> QED
  BY <1>2, <1>3, <1>4, Zenon DEF IInv, Held

-----------------------------------------------------------------------------
(* The steps that decide about an exchange.                                *)

LEMMA ExchangeMainSubTurn == ASSUME IInv, ExchangeMainSub PROVE IInv' /\ Held(w, w')
<1>1. /\ exch = "idle" /\ used < MaxEvents /\ used' = used + 1
      /\ exch' = "requested" /\ confirmed' = {} /\ retries' = 0 /\ w' = RequestExchange(w)
      /\ UNCHANGED <<poll, pipe, tx, gui>>
  BY Zenon DEF ExchangeMainSub, PairAvailable, Operates
<1>2. ~w.exQueued /\ ~Announced(w) /\ Made(w) <= used
  BY <1>1 DEF IInv, ExchangeInv
<1>3. WorkerInv(w') /\ Quiet(w, w') /\ Yields(w, w') /\ Made(w') = Made(w) + 1
  BY <1>1, <1>2, Invariants, RequestExchangeKeeps, Zenon
<1>4. Held(w, w')
  BY <1>3, Zenon DEF Held, Sends, Meets, Quiet
<1>5. Made(w) \in Nat /\ used \in Nat /\ used' \in 0 .. MaxEvents
  <2>1. w.era \in Nat
    BY Invariants DEF Worker
  <2> QED
    BY <1>1, <2>1, SchedulerAssumption DEF Made, IInv, GuiInv
<1>6. ExchangeInv'
  <2>1. Made(w') <= used'
    BY <1>1, <1>2, <1>3, <1>5
  <2>2. exch' = "requested" /\ exch' # "dispatched"
    BY <1>1
  <2> QED
    BY <2>1, <2>2, Zenon DEF ExchangeInv, Made
<1>7. GuiInv'
  <2>1. 0 \in 0 .. MaxRetries + 1
    BY SchedulerAssumption
  <2> QED
    BY <1>1, <1>5, <2>1 DEF IInv, GuiInv, gui, AllConfirmed
<1> QED
  BY <1>3, <1>4, <1>6, <1>7, Zenon DEF IInv

\* A signal has been read; the exchange that was announced may start its
\* confirmation: no reply after the announcement is older than the exchange.
LEMMA InboxTaken ==
  ASSUME NEW s, WorkerInv(s), s.inbox # <<>>, NEW t, t = [s EXCEPT !.inbox = Tail(@)]
  PROVE  /\ WorkerInv(t) /\ Leaves(s, t) /\ SameReplies(s, t) /\ Head(s.inbox) = s.inbox[1]
         /\ Head(s.inbox) \in Signal /\ 1 \in DOMAIN s.inbox
         /\ Announced(t) => Announced(s) /\ ~Announces(s, 1)
         /\ Announces(s, 1) => \A i \in DOMAIN t.inbox : SinceExchange(t, i)
         /\ (\A i \in DOMAIN s.inbox : SinceExchange(s, i))
               => \A i \in DOMAIN t.inbox : SinceExchange(t, i)
<1> DEFINE q == Tail(s.inbox)
<1>1. /\ s \in Worker /\ Sized(s) /\ s.inbox \in Seq(Signal) /\ Len(s.inbox) \in Nat
      /\ DOMAIN s.inbox = 1 .. Len(s.inbox)
  BY LenProperties DEF WorkerInv, Sized, Worker
<1>2. /\ q \in Seq(Signal) /\ Head(s.inbox) = s.inbox[1]
      /\ Head(s.inbox) \in Signal /\ 1 \in DOMAIN s.inbox /\ DOMAIN q = 1 .. Len(q)
      /\ \A k \in 1 .. Len(q) : q[k] = s.inbox[k + 1] /\ k + 1 \in 1 .. Len(s.inbox)
                                /\ 1 < k + 1 /\ k \in Nat
  BY <1>1, HeadTailProperties, EmptySeq, LenProperties
<1>3. t = [s EXCEPT !.inbox = q]
  BY <1>1
<1> HIDE DEF q
<1>4. t \in Worker /\ t.inbox = q
  BY <1>1, <1>2, <1>3 DEF Worker
<1>5. Leaves(s, t) /\ SameReplies(s, t) /\ t.deferred = s.deferred
  BY <1>1, <1>3 DEF Worker, Leaves, SameGate, SamePlace, SameReplies
<1>6. Sized(t)
  BY <1>1, <1>4, <1>5 DEF Sized, Leaves, SameGate
<1>7. SameGate(s, t) /\ SamePlace(s, t) /\ t.era = s.era /\ t.exQueued = s.exQueued /\ t.air = s.air
  BY <1>5 DEF Leaves, SamePlace, SameReplies
<1>8. Correlated(t) /\ Gated(t) /\ Current(t) /\ (Steady => Placed(t))
  BY <1>5, <1>7, RepliesKept, GateKept, PlaceKept DEF WorkerInv
<1>9. \A i \in DOMAIN t.inbox : /\ i + 1 \in DOMAIN s.inbox /\ 1 < i + 1
                                /\ Announces(t, i) <=> Announces(s, i + 1)
                                /\ SinceExchange(t, i) <=> SinceExchange(s, i + 1)
  <2>1. \A i \in DOMAIN t.inbox : i + 1 \in DOMAIN s.inbox /\ 1 < i + 1 /\ t.inbox[i] = s.inbox[i + 1]
    BY <1>1, <1>2, <1>4
  <2> QED
    BY <1>7, <2>1 DEF Announces, SinceExchange, Confirmation
<1>10. \A i, j \in DOMAIN t.inbox : (i + 1 = j + 1 => i = j) /\ (i < j => i + 1 < j + 1)
  BY <1>2, <1>4
<1>11. Requested(s) /\ AfterAnnouncement(s) /\ StatusOfMain(s)
  BY DEF WorkerInv
<1> HIDE DEF q
<1>12. Announced(t) => Announced(s) /\ ~Announces(s, 1)
  <2>1. ASSUME NEW i \in DOMAIN t.inbox, Announces(t, i) PROVE Announced(s) /\ ~Announces(s, 1)
    <3>1. i + 1 \in DOMAIN s.inbox /\ 1 < i + 1 /\ Announces(s, i + 1)
      BY <1>9, <2>1
    <3>2. 1 # i + 1
      BY <1>2, <1>4
    <3> QED
      BY <1>2, <1>11, <3>1, <3>2 DEF Requested, Announced
  <2> QED
    BY <2>1 DEF Announced
<1>13. Requested(t)
  <2>1. \A i, j \in DOMAIN t.inbox : Announces(t, i) /\ Announces(t, j) => i = j
    BY <1>9, <1>10, <1>11 DEF Requested
  <2> QED
    BY <1>7, <1>11, <1>12, <2>1 DEF Requested
<1>14. AfterAnnouncement(t)
  BY <1>9, <1>10, <1>11 DEF AfterAnnouncement
<1>15. StatusOfMain(t)
  <2>1. \A i \in DOMAIN t.inbox : \E j \in DOMAIN s.inbox : t.inbox[i] = s.inbox[j]
    BY <1>1, <1>2, <1>4
  <2> QED
    BY <1>11, <2>1 DEF StatusOfMain
<1>16. Announces(s, 1) => \A i \in DOMAIN t.inbox : SinceExchange(t, i)
  BY <1>2, <1>9, <1>11 DEF AfterAnnouncement
<1>17. (\A i \in DOMAIN s.inbox : SinceExchange(s, i)) => \A i \in DOMAIN t.inbox : SinceExchange(t, i)
  BY <1>9
<1> QED
  BY <1>2, <1>5, <1>6, <1>8, <1>12, <1>13, <1>14, <1>15, <1>16, <1>17 DEF WorkerInv

\* The state in which a signal has been read.
Heard == [w EXCEPT !.inbox = Tail(@)]

LEMMA HeardHeld ==
  ASSUME IInv, w.inbox # <<>>
  PROVE  /\ WorkerInv(Heard) /\ Held(w, Heard) /\ Heard.air = w.air
         /\ Heard.era = w.era /\ Heard.exQueued = w.exQueued /\ Heard.operator = w.operator
         /\ Made(Heard) <= used
<1>1. WorkerInv(w) /\ Sized(w) /\ Made(w) <= used
  BY Invariants, Zenon DEF IInv, ExchangeInv
<1>2. WorkerInv(Heard) /\ Leaves(w, Heard) /\ SameReplies(w, Heard)
  BY <1>1, InboxTaken, Zenon DEF Heard
<1>3. Yields(w, Heard) /\ Heard.air = w.air
  BY <1>1, <1>2, LeavesYields, Zenon DEF SameReplies
<1>4. Heard.era = w.era /\ Heard.exQueued = w.exQueued /\ Heard.operator = w.operator
  BY <1>2, Zenon DEF Leaves, SamePlace
<1>5. Made(Heard) <= used
  BY <1>1, <1>4 DEF Made
<1> QED
  BY <1>2, <1>3, <1>4, <1>5, Zenon DEF Held, Sends, Meets

\* A signal that decides nothing.
LEMMA HeardOnly ==
  ASSUME IInv, w.inbox # <<>>, w' = Heard, UNCHANGED <<exch, used>> PROVE ExchangeInv' /\ Held(w, w')
<1>1. /\ Held(w, Heard) /\ Heard.era = w.era /\ Heard.exQueued = w.exQueued /\ Made(Heard) <= used
  BY HeardHeld, Zenon
<1>2. /\ Announced(Heard) => Announced(w)
      /\ (\A i \in DOMAIN w.inbox : SinceExchange(w, i))
            => \A i \in DOMAIN Heard.inbox : SinceExchange(Heard, i)
  BY Invariants, InboxTaken, Zenon DEF Heard
<1>3. /\ Made(w') <= used'
      /\ exch' # "requested" => ~w'.exQueued /\ ~Announced(w')
      /\ exch' = "dispatched" => w'.era # 0 /\ \A i \in DOMAIN w'.inbox : SinceExchange(w', i)
  <2> HIDE DEF Heard
  <2> QED
    BY <1>1, <1>2, Zenon DEF IInv, ExchangeInv
<1> QED
  BY <1>1, <1>3, Zenon DEF ExchangeInv, Made, Announced, Announces, SinceExchange, Confirmation

\* The confirmation starts.
LEMMA ConfirmationStarts ==
  ASSUME IInv, w.inbox # <<>>, w' = Heard, Announces(w, 1), exch' = "dispatched", UNCHANGED used
  PROVE  ExchangeInv' /\ Held(w, w')
<1>1. /\ Held(w, Heard) /\ Heard.era = w.era /\ Heard.exQueued = w.exQueued /\ Made(Heard) <= used
  BY HeardHeld, Zenon
<1>2. /\ ~Announced(Heard) /\ \A i \in DOMAIN Heard.inbox : SinceExchange(Heard, i)
      /\ 1 \in DOMAIN w.inbox
  BY Invariants, InboxTaken, Zenon DEF Heard
<1>3. w.era # 0 /\ ~w.exQueued
  BY <1>2, Invariants, Zenon DEF WorkerInv, Requested, Announced
<1>4. /\ Made(w') <= used'
      /\ ~w'.exQueued /\ ~Announced(w')
      /\ w'.era # 0 /\ \A i \in DOMAIN w'.inbox : SinceExchange(w', i)
  <2> HIDE DEF Heard
  <2> QED
    BY <1>1, <1>2, <1>3, Zenon
<1> QED
  BY <1>1, <1>4, Zenon DEF ExchangeInv, Made, Announced, Announces, SinceExchange, Confirmation

\* The exchange is over, confirmed or failed: what follows is ordinary.
LEMMA ExchangeEnds ==
  ASSUME IInv, exch = "dispatched", exch' \in {"idle", "scope"}, Counts,
         NEW t, WorkerInv(t), ~Announced(t), ~t.exQueued, t.era = w.era, t.operator = w.operator,
         t.air = w.air, WorkerInv(w'), Ordinary(t, w'), ~w'.exPending
  PROVE  ExchangeInv' /\ Held(w, w')
<1>1. ~w.exQueued /\ Made(w) <= used /\ Sized(w) /\ Sized(t) /\ Sized(w')
  BY Invariants DEF IInv, ExchangeInv, WorkerInv
<1>2. Made(w') <= used'
  <2>1. w.era \in Nat
    BY <1>1 DEF Sized, Worker
  <2>2. w'.era = w.era /\ ~w'.exQueued
    BY Zenon DEF Ordinary
  <2>3. used' >= used /\ used \in Nat /\ used' \in Nat
    BY SchedulerAssumption DEF Counts, IInv, GuiInv
  <2> QED
    BY <1>1, <2>1, <2>2, <2>3 DEF Made
<1>3. ~w'.exQueued /\ ~Announced(w')
  BY Zenon DEF Ordinary, SameNews
<1>4. exch' # "dispatched"
  OBVIOUS
<1>5. ExchangeInv'
  BY <1>2, <1>3, <1>4, Zenon DEF ExchangeInv, Made, Announced, Announces
<1>6. Meets(w, w')
  BY OrdinaryStep, MeetsLater, Zenon
<1> QED
  BY <1>5, <1>6, Zenon DEF Held, Sends

LEMMA SettingsCommands ==
  /\ SettingsCommand("main") \in Command /\ SettingsCommand("sub") \in Command
  /\ StateCommand("main") \in Command /\ StateCommand("sub") \in Command
BY FamiliesAndReceivers DEF SettingsCommand, StateCommand, Command

LEMMA CompleteTurn ==
  ASSUME IInv, w.inbox # <<>>, exch = "dispatched", Complete, UNCHANGED used
  PROVE  ExchangeInv' /\ Held(w, w') /\ WorkerInv(w')
<1> DEFINE a == FinishExchange(Heard)
<1>1. /\ WorkerInv(Heard) /\ Heard.air = w.air /\ Heard.era = w.era /\ Heard.exQueued = w.exQueued
      /\ Heard.operator = w.operator
  BY HeardHeld, Zenon
<1>2. ~Announced(Heard) /\ ~Heard.exQueued
  <2>1. Announced(Heard) => Announced(w)
    BY Invariants, InboxTaken, Zenon DEF Heard
  <2>2. ~Announced(w) /\ ~w.exQueued
    BY DEF IInv, ExchangeInv
  <2> QED
    BY <1>1, <2>1, <2>2
<1>3. exch' = "scope" /\ w' = Enqueue(Enqueue(a, SettingsCommand("main")), SettingsCommand("sub"))
  BY Zenon DEF Complete, EnqueueSettings, Heard
<1> HIDE DEF Heard
<1>4. WorkerInv(a) /\ Ordinary(Heard, a) /\ a.exPending = FALSE
  BY <1>1, FinishExchangeKeeps, Zenon
<1> HIDE DEF a
<1>5. WorkerInv(w') /\ Ordinary(a, w') /\ w'.exPending = a.exPending
  BY <1>3, <1>4, SettingsCommands, EnqueueTwice, Zenon
<1>6. Ordinary(Heard, w') /\ ~w'.exPending
  BY <1>4, <1>5, OrdinaryTwice, Zenon
<1>7. Counts /\ exch' \in {"idle", "scope"}
  BY <1>3, Counted, Zenon DEF IInv
<1> QED
  BY <1>1, <1>2, <1>5, <1>6, <1>7, ExchangeEnds, Zenon

\* What a reply confirms is one of the things an exchange waits for.
LEMMA ConfirmsOne ==
  ASSUME IInv, w.inbox # <<>>, Head(w.inbox).sig = "reply", Confirms(Head(w.inbox).about)
  PROVE  <<Head(w.inbox).about.fam, Head(w.inbox).about.rcv>> \in AllConfirmed
<1> DEFINE about == Head(w.inbox).about
<1>1. /\ Head(w.inbox) \in Signal /\ Head(w.inbox) = w.inbox[1] /\ 1 \in DOMAIN w.inbox
      /\ StatusOfMain(w)
  BY Invariants, InboxTaken, Zenon DEF WorkerInv
<1>2. about \in Flight /\ (about.fam = "status" => about.rcv = "main")
  BY <1>1 DEF Signal, StatusOfMain
<1>3. about.fam \in {"status", "mode", "freq"}
  BY DEF Confirms
<1> HIDE DEF about
<1>4. about.fam \in Identity \cup {"status"} /\ about.rcv \in Receivers
  BY <1>2, <1>3, SchedulerAssumption DEF Flight, Families, Meters
<1> QED
  BY <1>2, <1>4 DEF AllConfirmed, about

LEMMA ReadSignalTurn ==
  ASSUME IInv, ReadSignal
  PROVE  /\ IInv' /\ Held(w, w')
         /\ \A c \in confirmed' \ confirmed : c[1] \in Identity => Head(w.inbox).about.era = w.era
<1> DEFINE signal == Head(w.inbox)
           about  == signal.about
<1>1. w.inbox # <<>> /\ UNCHANGED <<pipe, tx, activeVfo, selecting, used>> /\ GuiInv
  BY Zenon DEF ReadSignal, IInv
<1>2. WorkerInv(Heard) /\ 1 \in DOMAIN w.inbox /\ signal = w.inbox[1] /\ signal \in Signal
  BY <1>1, HeardHeld, Invariants, InboxTaken, Zenon
<1>3. CASE /\ signal.sig = "sent"
           /\ poll' = IF poll = [st |-> "queued", rcv |-> about.rcv]
                      THEN [poll EXCEPT !.st = "pending"] ELSE poll
           /\ w' = Heard /\ UNCHANGED <<exchange, shownVfo>>
  <2>1. ExchangeInv' /\ Held(w, w') /\ WorkerInv(w')
    BY <1>1, <1>2, <1>3, HeardOnly, Zenon DEF exchange
  <2>2. GuiInv'
    <3>1. poll' = [poll EXCEPT !.st = "pending"] \/ poll' = poll
      BY <1>3
    <3> QED
      BY <1>1, <1>3, <3>1 DEF GuiInv, exchange, AllConfirmed
  <2>3. confirmed' = confirmed
    BY <1>3, Zenon DEF exchange
  <2> QED
    BY <2>1, <2>2, <2>3, Zenon DEF IInv
<1>4. CASE /\ signal.sig = "dispatched"
           /\ IF exch = "requested" THEN exch' = "dispatched" /\ confirmed' = {} /\ retries' = 0
              ELSE UNCHANGED exchange
           /\ w' = Heard /\ UNCHANGED <<poll, shownVfo>>
  <2>1. CASE exch = "requested"
    <3>1. Announces(w, 1)
      BY <1>2, <1>4, Zenon DEF Announces
    <3>2. ExchangeInv' /\ Held(w, w') /\ WorkerInv(w')
      BY <1>1, <1>2, <1>4, <2>1, <3>1, ConfirmationStarts, Zenon
    <3>3. GuiInv'
      <4>1. 0 \in 0 .. MaxRetries + 1
        BY SchedulerAssumption
      <4> QED
        BY <1>1, <1>4, <2>1, <4>1 DEF GuiInv, AllConfirmed
    <3>4. confirmed' = {}
      BY <1>4, <2>1
    <3> QED
      BY <3>2, <3>3, <3>4, Zenon DEF IInv
  <2>2. CASE exch # "requested"
    <3>1. ExchangeInv' /\ Held(w, w') /\ WorkerInv(w')
      BY <1>1, <1>2, <1>4, <2>2, HeardOnly, Zenon DEF exchange
    <3>2. GuiInv'
      BY <1>1, <1>4, <2>2 DEF GuiInv, exchange, AllConfirmed
    <3>3. confirmed' = confirmed
      BY <1>4, <2>2, Zenon DEF exchange
    <3> QED
      BY <3>1, <3>2, <3>3, Zenon DEF IInv
  <2> QED
    BY <2>1, <2>2
<1>5. CASE /\ signal.sig = "reply"
           /\ confirmed' = IF Confirming /\ Confirms(about)
                           THEN confirmed \cup {<<about.fam, about.rcv>>} ELSE confirmed
           /\ IF Confirming /\ confirmed' = AllConfirmed THEN Complete
              ELSE w' = Heard /\ UNCHANGED <<exch, retries, shownVfo>>
           /\ UNCHANGED poll
  <2>1. confirmed' \subseteq AllConfirmed
    <3>1. confirmed \subseteq AllConfirmed
      BY <1>1 DEF GuiInv
    <3> QED
      BY <1>1, <1>5, <3>1, ConfirmsOne
  <2>2. ASSUME Confirming /\ confirmed' = AllConfirmed PROVE IInv' /\ Held(w, w')
    <3>1. ExchangeInv' /\ Held(w, w') /\ WorkerInv(w')
      BY <1>1, <1>5, <2>2, CompleteTurn, Zenon DEF Confirming
    <3>2. exch' = "scope" /\ retries' = 0 /\ shownVfo' = "main"
      BY <1>5, <2>2, Zenon DEF Complete
    <3>3. GuiInv'
      <4>1. 0 \in 0 .. MaxRetries + 1 /\ "main" \in Receivers
        BY SchedulerAssumption DEF Receivers
      <4>2. confirmed' \subseteq AllConfirmed'
        BY <2>1 DEF AllConfirmed
      <4> HIDE DEF signal, about
      <4> QED
        BY <1>1, <1>5, <3>2, <4>1, <4>2 DEF GuiInv
    <3> QED
      BY <3>1, <3>3, Zenon DEF IInv
  <2>3. ASSUME ~(Confirming /\ confirmed' = AllConfirmed) PROVE IInv' /\ Held(w, w')
    <3>1. w' = Heard /\ UNCHANGED <<exch, retries, shownVfo>>
      BY <1>5, <2>3, Zenon
    <3>2. ExchangeInv' /\ Held(w, w') /\ WorkerInv(w')
      BY <1>1, <1>2, <3>1, HeardOnly, Zenon
    <3>3. GuiInv'
      <4>1. confirmed' \subseteq AllConfirmed'
        BY <2>1 DEF AllConfirmed
      <4> HIDE DEF signal, about
      <4> QED
        BY <1>1, <1>5, <3>1, <4>1 DEF GuiInv
    <3> QED
      BY <3>2, <3>3, Zenon DEF IInv
  <2>4. ASSUME NEW c \in confirmed' \ confirmed, c[1] \in Identity PROVE about.era = w.era
    <3>1. exch = "dispatched" /\ c = <<about.fam, about.rcv>>
      BY <1>5, <2>4 DEF Confirming
    <3>2. about.fam \in Identity
      BY <2>4, <3>1
    <3>3. SinceExchange(w, 1)
      BY <1>2, <3>1, Zenon DEF IInv, ExchangeInv
    <3> QED
      BY <1>2, <1>5, <3>2, <3>3, Zenon DEF SinceExchange, Confirmation
  <2> QED
    BY <2>2, <2>3, <2>4, Zenon
<1>6. \/ /\ signal.sig = "sent"
         /\ poll' = IF poll = [st |-> "queued", rcv |-> about.rcv]
                    THEN [poll EXCEPT !.st = "pending"] ELSE poll
         /\ w' = Heard /\ UNCHANGED <<exchange, shownVfo>>
      \/ /\ signal.sig = "dispatched"
         /\ IF exch = "requested" THEN exch' = "dispatched" /\ confirmed' = {} /\ retries' = 0
            ELSE UNCHANGED exchange
         /\ w' = Heard /\ UNCHANGED <<poll, shownVfo>>
      \/ /\ signal.sig = "reply"
         /\ confirmed' = IF Confirming /\ Confirms(about)
                         THEN confirmed \cup {<<about.fam, about.rcv>>} ELSE confirmed
         /\ IF Confirming /\ confirmed' = AllConfirmed THEN Complete
            ELSE w' = Heard /\ UNCHANGED <<exch, retries, shownVfo>>
         /\ UNCHANGED poll
  BY Zenon DEF ReadSignal, Heard
<1> QED
  BY <1>3, <1>4, <1>5, <1>6, Zenon

\* What is missing is asked for again.
LEMMA AskAgainKeeps ==
  ASSUME NEW s, WorkerInv(s), s.era # 0, NEW missing
  PROVE  /\ WorkerInv(AskAgain(s, missing)) /\ Ordinary(s, AskAgain(s, missing))
         /\ Yields(s, AskAgain(s, missing))
<1> DEFINE main == {f \in Identity : <<f, "main">> \in missing}
           sub  == {f \in Identity : <<f, "sub">> \in missing}
           a == Select(s, "main")
           b == SendStatus(a)
           c == IF <<"status", "main">> \in missing THEN b ELSE s
           d == SendMainReads(c, main)
           t == RequestScopedReads(d, sub, "sub")
<1>1. AskAgain(s, missing) = t
  BY DEF AskAgain
<1>2. main \in SUBSET Identity /\ sub \in SUBSET Identity /\ "main" \in Receivers /\ Sized(s)
  BY FamiliesAndReceivers DEF WorkerInv
<1> HIDE DEF main, sub
<1>3. WorkerInv(a) /\ Ordinary(s, a) /\ Yields(s, a)
  BY <1>2, SelectKeeps, Zenon
<1> HIDE DEF a
<1>4. WorkerInv(b) /\ Leaves(a, b) /\ SameNews(a, b) /\ Quiet(a, b)
  BY <1>3, SendStatusKeeps, Zenon
<1> HIDE DEF b
<1>5. Ordinary(a, b) /\ Yields(a, b) /\ Sized(a) /\ Sized(b)
  BY <1>3, <1>4, LeavesYields, Zenon DEF WorkerInv, Ordinary
<1>6. Ordinary(s, b) /\ Yields(s, b) /\ Ordinary(s, s) /\ Yields(s, s)
  BY <1>2, <1>3, <1>5, OrdinaryTwice, YieldsTwice, Itself, LeavesYields, Zenon
<1>7. WorkerInv(c) /\ Ordinary(s, c) /\ Yields(s, c)
  BY <1>4, <1>6, Zenon
<1> HIDE DEF c
<1>8. WorkerInv(d) /\ Leaves(c, d) /\ Ordinary(c, d)
  BY <1>2, <1>7, SendMainReadsKeeps, Zenon
<1> HIDE DEF d
<1>9. Yields(c, d) /\ Sized(c) /\ Sized(d)
  BY <1>7, <1>8, LeavesYields, Zenon DEF WorkerInv
<1>10. Ordinary(s, d) /\ Yields(s, d)
  BY <1>2, <1>7, <1>8, <1>9, OrdinaryTwice, YieldsTwice, Zenon
<1>11. WorkerInv(t) /\ Ordinary(d, t) /\ Yields(d, t)
  BY <1>2, <1>8, RequestScopedReadsKeeps, Zenon
<1> HIDE DEF t
<1>12. Ordinary(s, t) /\ Yields(s, t)
  BY <1>2, <1>9, <1>10, <1>11, OrdinaryTwice, YieldsTwice, Zenon DEF WorkerInv
<1> QED
  BY <1>1, <1>11, <1>12, Zenon

LEMMA RetryExchangeTurn == ASSUME IInv, RetryExchange PROVE IInv' /\ Held(w, w')
<1>1. /\ exch = "dispatched" /\ retries < MaxRetries /\ retries' = retries + 1
      /\ w' = AskAgain(w, AllConfirmed \ confirmed)
      /\ UNCHANGED <<poll, pipe, tx, exch, confirmed, gui>> /\ \E late : TimedOut(late)
      /\ GuiInv
  BY Zenon DEF RetryExchange, Confirming, IInv
<1>2. w.era # 0
  BY <1>1, Zenon DEF IInv, ExchangeInv
<1>3. WorkerInv(w') /\ Ordinary(w, w') /\ Yields(w, w')
  BY <1>1, <1>2, Invariants, AskAgainKeeps, Zenon
<1>4. Worked(w, w') /\ Counts
  BY <1>1, <1>3, OrdinaryWorks, Counted, Zenon
<1>5. GuiInv'
  <2>1. used' \in 0 .. MaxEvents
    BY <1>1, <1>4, CountsInBounds, Zenon
  <2>2. retries' \in 0 .. MaxRetries + 1
    BY <1>1, SchedulerAssumption DEF GuiInv
  <2> QED
    BY <1>1, <2>1, <2>2 DEF GuiInv, gui, AllConfirmed
<1> QED
  BY <1>1, <1>4, <1>5, GuiTurn, Zenon

LEMMA FailExchangeTurn == ASSUME IInv, FailExchange PROVE IInv' /\ Held(w, w')
<1> DEFINE a == FinishExchange(w)
           b == Select(a, "main")
<1>1. /\ exch = "dispatched" /\ retries = MaxRetries /\ exch' = "idle" /\ retries' = retries + 1
      /\ w' = Enqueue(Enqueue(b, StateCommand("main")), StateCommand("sub"))
      /\ UNCHANGED <<poll, pipe, tx, confirmed, gui>> /\ \E late : TimedOut(late)
      /\ GuiInv
  BY Zenon DEF FailExchange, Confirming, IInv, EnqueueStates
<1>2. w.era # 0 /\ ~w.exQueued /\ ~Announced(w) /\ "main" \in Receivers
  BY <1>1, FamiliesAndReceivers DEF IInv, ExchangeInv
<1>3. WorkerInv(a) /\ Ordinary(w, a) /\ a.exPending = FALSE
  BY Invariants, FinishExchangeKeeps, Zenon
<1> HIDE DEF a
<1>4. WorkerInv(b) /\ Ordinary(a, b) /\ b.exPending = FALSE
  <2>1. a.era # 0
    BY <1>2, <1>3, Zenon DEF Ordinary
  <2> QED
    BY <1>2, <1>3, <2>1, SelectKeeps, Zenon
<1> HIDE DEF b
<1>5. WorkerInv(w') /\ Ordinary(b, w') /\ w'.exPending = b.exPending
  BY <1>1, <1>4, SettingsCommands, EnqueueTwice, Zenon
<1>6. Ordinary(w, w') /\ ~w'.exPending
  BY <1>3, <1>4, <1>5, OrdinaryTwice, Zenon
<1>7. Counts /\ exch' \in {"idle", "scope"}
  BY <1>1, Counted, Zenon
<1>8. ExchangeInv' /\ Held(w, w')
  BY <1>1, <1>2, <1>5, <1>6, <1>7, Invariants, ExchangeEnds, Zenon
<1>9. GuiInv'
  <2>1. used' \in 0 .. MaxEvents
    BY <1>1, <1>7, CountsInBounds, Zenon
  <2>2. retries' \in 0 .. MaxRetries + 1
    BY <1>1, SchedulerAssumption
  <2> QED
    BY <1>1, <2>1, <2>2 DEF GuiInv, gui, AllConfirmed
<1> QED
  BY <1>5, <1>8, <1>9, Zenon DEF IInv

LEMMA BackendTurn == ASSUME IInv, Backend PROVE IInv' /\ Held(w, w')
BY TransmitMetersTurn, PollTimesOutTurn, StartPollTurn, TakeValueTurn, PollVfoTurn,
   ReadSignalTurn, RetryExchangeTurn, FailExchangeTurn, ScopeSyncedTurn, Zenon DEF Backend

LEMMA OperatorTurn == ASSUME IInv, Operator PROVE IInv' /\ Held(w, w')
BY TransmissionTurn, SettingTurn, SelectVfoTurn, SelectionConfirmedTurn, SelectionTimesOutTurn,
   ExchangeMainSubTurn, Zenon DEF Operator

-----------------------------------------------------------------------------
(* The theorems.                                                           *)

LEMMA InitInv == ASSUME Init PROVE IInv
<1>1. <<>> \in Seq(Command) /\ <<>> \in Seq(Read) /\ <<>> \in Seq(Flight) /\ <<>> \in Seq(Signal)
      /\ <<>> \in Seq(Receivers) /\ Len(<<>>) = 0 /\ DOMAIN <<>> = 1 .. 0
      /\ \A i \in DOMAIN <<>> : FALSE
  BY EmptySeq, LenProperties
<1>2. w \in Worker
  <2>1. [f \in Families |-> "none"] \in [Families -> {"none", "resolved", "abandoned"}]
    OBVIOUS
  <2>2. "none" \in Range(Lengths) /\ "main" \in Receivers /\ 0 \in 0 .. MaxStreak
    BY RangeOfLengths, SchedulerAssumption DEF Receivers
  <2> QED
    BY <1>1, <2>1, <2>2 DEF Init, Worker
<1>3. Sized(w)
  BY <1>1, <1>2, SchedulerAssumption DEF Init, Sized
<1>4. Correlated(w) /\ Gated(w) /\ Current(w) /\ Placed(w)
  BY <1>1 DEF Init, Correlated, OneRead, OpenFamilies, Answering, Gated, Current, Placed
<1>5. Requested(w) /\ AfterAnnouncement(w) /\ StatusOfMain(w) /\ ~Announced(w)
  BY <1>1 DEF Init, Requested, Announced, AfterAnnouncement, StatusOfMain
<1>6. GuiInv
  <2>1. "main" \in Receivers /\ retries \in 0 .. MaxRetries + 1 /\ used \in 0 .. MaxEvents
    BY SchedulerAssumption DEF Init, Receivers
  <2>2. /\ poll \in [st : {"idle", "queued", "pending"}, rcv : Receivers]
        /\ selecting \in [on : BOOLEAN, rcv : Receivers, tries : {0, 1}]
        /\ pipe \in Seq(Receivers)
    BY <1>1, <2>1 DEF Init
  <2>3. tx \in BOOLEAN /\ exch \in {"idle", "requested", "dispatched", "scope"}
        /\ confirmed \subseteq AllConfirmed /\ {activeVfo, shownVfo} \subseteq Receivers
    BY <2>1 DEF Init
  <2> QED
    BY <2>1, <2>2, <2>3, Zenon DEF GuiInv
<1>7. ExchangeInv
  <2>1. Made(w) = 0 /\ exch = "idle" /\ ~w.exQueued /\ used = 0
    BY DEF Init, Made
  <2> QED
    BY <1>5, <2>1 DEF ExchangeInv
<1> QED
  BY <1>3, <1>4, <1>5, <1>6, <1>7, Zenon DEF IInv, WorkerInv

LEMMA NextInv == ASSUME IInv, [Next]_vars PROVE IInv' /\ Held(w, w')
<1>1. CASE Next
  BY <1>1, CommandingTurn, BackendTurn, OperatorTurn, LoseTurn, Zenon DEF Next
<1>2. CASE UNCHANGED vars
  <2>1. UNCHANGED <<w, poll, pipe, tx, exch, confirmed, retries, activeVfo, shownVfo, selecting, used>>
    BY <1>2 DEF vars, exchange, gui
  <2>2. Held(w, w')
    BY <2>1, WorkerUntouched, StepHeld, Zenon
  <2>3. GuiInv'
    BY <2>1 DEF IInv, GuiInv, AllConfirmed
  <2>4. ExchangeInv'
    BY <2>1 DEF IInv, ExchangeInv, Made, Announced, Announces, SinceExchange, Confirmation
  <2> QED
    BY <2>2, <2>3, <2>4, Zenon DEF IInv, Held
<1> QED
  BY <1>1, <1>2

\* The invariant holds in every state.
LEMMA Invariant == Spec => []IInv
BY InitInv, NextInv, PTL DEF Spec

\* TypeOK: no list outgrows its limit, whatever the radio loses or delays, and
\* no more exchanges are made than the operator asked for (Commander.cpp 240-292,
\* 695-731 and 958-1012).
THEOREM Typed == Spec => []TypeOK
<1>1. ASSUME IInv PROVE TypeOK
  <2>1. w.era \in Nat /\ Made(w) <= used /\ used \in 0 .. MaxEvents
    BY <1>1, Invariants DEF Worker, IInv, ExchangeInv, GuiInv
  <2>2. w.era \in 0 .. MaxEvents
    BY <2>1, SchedulerAssumption DEF Made
  <2>3. Sized(w) /\ GuiInv
    BY <1>1, Invariants, Zenon DEF IInv
  <2> QED
    BY <2>2, <2>3 DEF TypeOK, Sized, GuiInv
<1> QED
  BY <1>1, Invariant, PTL

\* RepliesMeetTheirRead: with one read of a family outstanding and the family
\* shut after it, a reply can only be the pending read's, or find its family
\* draining (Commander.cpp 719-909).
THEOREM RepliesMeet == Spec => []RepliesMeetTheirRead
<1>1. ASSUME IInv PROVE RepliesMeetTheirRead
  <2>1. ASSUME NEW i \in DOMAIN w.air, w.air[i].fam \in Families
        PROVE  IF Live(w, w.air[i].fam)
               THEN w.pending[Min(Matches(w, w.air[i].fam))].rcv = w.air[i].rcv
               ELSE w.drains[w.air[i].fam] # "none"
    <3> DEFINE r == w.air[i]
               m == Min(Matches(w, r.fam))
    <3>1. OneRead(w) /\ OpenFamilies(w) /\ Sized(w) /\ (w.drains[r.fam] # "none" \/ Asked(w, r))
      BY <1>1, <2>1, Invariants, Zenon DEF Correlated, Answering
    <3>2. Asked(w, r) => \E j \in DOMAIN w.pending :
                            w.pending[j].fam = r.fam /\ w.pending[j].rcv = r.rcv
      BY DEF Asked, Range
    <3>3. CASE Live(w, r.fam)
      <4>1. m \in DOMAIN w.pending /\ w.pending[m].fam = r.fam
        BY <3>1, <3>3, MatchIsFirst, Zenon
      <4> HIDE DEF m, r
      <4>2. w.drains[r.fam] = "none"
        BY <3>1, <4>1, Zenon DEF OpenFamilies
      <4>3. w.pending[m].rcv = r.rcv
        BY <3>1, <3>2, <4>1, <4>2, Zenon DEF OneRead
      <4> QED
        BY <3>3, <4>3, Zenon DEF m, r
    <3>4. CASE ~Live(w, r.fam)
      <4>1. ~Asked(w, r)
        BY <3>2, <3>4, Zenon DEF Live
      <4> QED
        BY <3>1, <3>4, <4>1, Zenon
    <3> QED
      BY <3>3, <3>4
  <2> QED
    BY <2>1, Zenon DEF RepliesMeetTheirRead
<1> QED
  BY <1>1, Invariant, PTL

\* OneTransaction: the gate is closed exactly while one transaction waits or
\* closes, whatever the operator does (Commander.cpp:376 and 428).
THEOREM OneAtATime == Spec => []OneTransaction
<1>1. IInv => OneTransaction
  BY Invariants, Zenon DEF Gated, OneTransaction
<1> QED
  BY <1>1, Invariant, PTL

\* TransactionsMeetTheirReceiver: before the first exchange, with an operator
\* who selects a VFO between transactions only, the work of a transaction finds
\* the radio on its receiver, and so does every identity read.
THEOREM TransactionsMeet == ASSUME Steady PROVE Spec => []TransactionsMeetTheirReceiver
<1>1. IInv => TransactionsMeetTheirReceiver
  <2>1. IInv => OneTransaction
    BY Invariants, Zenon DEF Gated, OneTransaction
  <2>2. IInv => Placed(w)
    BY Zenon DEF IInv, WorkerInv
  <2>3. Placed(w) => WorkMeetsItsReceiver
    BY Zenon DEF Placed, WorkMeetsItsReceiver
  <2> QED
    BY <2>1, <2>2, <2>3, Zenon DEF TransactionsMeetTheirReceiver
<1> QED
  BY <1>1, Invariant, PTL

\* ExchangeHoldsTheRadio: between the dispatch of an exchange and its end no
\* scheduled command starts, no S-meter transaction opens, and a transaction that
\* opens reads SUB's identity, whatever the operator and the link do.
THEOREM ExchangeHolds == Spec => ExchangeHoldsTheRadio
<1> DEFINE A == w.exPending /\ w'.exPending =>
                  /\ Len(w'.scheduled) >= Len(w.scheduled)
                  /\ ~w.smeter => ~w'.smeter
                  /\ w.window = <<>> /\ w'.window # <<>> =>
                        Head(w'.window).act = "read" /\ ConfirmsExchange(Head(w'.window))
<1>1. IInv /\ [Next]_vars => [A]_vars
  BY NextInv, Zenon DEF Held, Yields
<1> QED
  BY <1>1, Invariant, PTL DEF Spec, ExchangeHoldsTheRadio

\* RadioIsHeld: and an S-meter read that is sent before the first exchange, while
\* the operator's receiver is MAIN, finds the radio on the receiver it is for.
THEOREM RadioHeld == ASSUME Steady PROVE Spec => RadioIsHeld
<1> DEFINE A == w.era = 0 => \A i \in DOMAIN w'.air :
                  (/\ i = Len(w'.air) /\ Len(w'.air) > Len(w.air)
                   /\ w'.air[i].fam = "smeter" /\ w.operator = "main")
                     => w'.air[i].from = w'.air[i].rcv
<1>1. ASSUME IInv, [Next]_vars PROVE A
  <2>1. Held(w, w') /\ Sized(w)
    BY <1>1, NextInv, Invariants, Zenon
  <2>2. Sized(w')
    BY <2>1, Zenon DEF Held, WorkerInv
  <2>3. Len(w.air) \in Nat /\ Len(w'.air) \in Nat
    BY <2>1, <2>2, LenProperties DEF Sized, Worker
  <2>4. ASSUME Len(w'.air) > Len(w.air) PROVE Meets(w, w') /\ w'.air # w.air
    <3>1. ~(Len(w'.air) <= Len(w.air)) /\ w'.air # w.air
      BY <2>3, <2>4
    <3> QED
      BY <2>1, <3>1, Zenon DEF Held, Sends
  <2> QED
    BY <2>4, Zenon DEF Meets
<1>2. Spec => SMeterMeetsItsReceiver
  <2>1. IInv /\ [Next]_vars => [A]_vars
    BY <1>1, Zenon
  <2> QED
    BY <2>1, Invariant, PTL DEF Spec, SMeterMeetsItsReceiver
<1> QED
  BY <1>2, ExchangeHolds, PTL DEF RadioIsHeld

\* ConfirmationsAreFresh: no identity reply of before an exchange counts as its
\* confirmation, however late it comes (RadioBackend.cpp 885-953).
THEOREM ConfirmationsFresh == Spec => ConfirmationsAreFresh
<1> DEFINE A == \A c \in confirmed' \ confirmed :
                  c[1] \in Identity => Head(w.inbox).about.era = w.era
<1>1. ASSUME IInv, [Next]_vars PROVE A
  <2>1. ASSUME confirmed' \subseteq confirmed PROVE A
    BY <2>1
  <2>2. UNCHANGED confirmed => A
    BY <2>1
  <2>3. CASE Commanding \/ Lose
    <3>1. UNCHANGED confirmed
      BY <2>3, Zenon DEF Commanding, Timers, RunScheduled, WindowEnds, TransactionEnds, SMeterTimer,
           ExchangeTimer, DrainTimer, DrainEnds, Expire, ParseReply, Lose, Unchanged, exchange
    <3> QED
      BY <2>2, <3>1
  <2>4. CASE Backend
    <3>1. CASE ReadSignal
      BY <1>1, <3>1, ReadSignalTurn, Zenon
    <3>2. CASE ~ReadSignal
      <4>1. UNCHANGED confirmed
        BY <2>4, <3>2, Zenon DEF Backend, TransmitMeters, PollTimesOut, StartPoll, TakeValue, PollVfo,
             RetryExchange, FailExchange, ScopeSynced, exchange
      <4> QED
        BY <2>2, <4>1
    <3> QED
      BY <3>1, <3>2
  <2>5. CASE Operator
    <3>1. UNCHANGED confirmed \/ confirmed' = {}
      BY <2>5, Zenon DEF Operator, Transmit, Receive, Set, Tune, SelectVfo, SelectionConfirmed,
           SelectionTimesOut, ExchangeMainSub, exchange
    <3> QED
      BY <2>1, <3>1
  <2>6. CASE UNCHANGED vars
    <3>1. UNCHANGED confirmed
      BY <2>6 DEF vars, exchange
    <3> QED
      BY <2>2, <3>1
  <2> QED
    BY <1>1, <2>3, <2>4, <2>5, <2>6, Zenon DEF Next
<1>2. IInv /\ [Next]_vars => [A]_vars
  BY <1>1, Zenon
<1> QED
  BY <1>2, Invariant, PTL DEF Spec, ConfirmationsAreFresh
=============================================================================
