---------------------------- MODULE ValueDelivery ----------------------------
(***************************************************************************)
(* What the path from the CI-V parser to the models promises for the       *)
(* values the radio reports: a value of the connected session is never     *)
(* lost, and the only one skipped is a meter reading or scope frame that a *)
(* newer one of its kind overtook with no other kind of event in between.  *)
(* CachingQueue and RadioRouter, which ValuePipeline models in detail,     *)
(* implement it.                                                           *)
(***************************************************************************)
EXTENDS Naturals, Sequences

CONSTANTS
    Keys,   \* kinds of replaceable values: a meter, or the scope, of a receiver
    Event   \* the kind of every other value

VARIABLES
    parsed,    \* number of values parsed
    waiting,   \* values parsed and not yet routed, oldest first
    routed,    \* values routed
    live       \* number of the connected session, 0 if there is none

vars == <<parsed, waiting, routed, live>>

\* The n-th value parsed, from the Commander of session s.
Values == [n : Nat, s : Nat, key : Keys \cup {Event}]

Init == parsed = 0 /\ waiting = <<>> /\ routed = <<>> /\ live = 0

Parse ==
    /\ parsed' = parsed + 1
    /\ Len(waiting') = Len(waiting) + 1
    /\ LET v == waiting'[Len(waiting) + 1]
       IN  v \in Values /\ v.n = parsed' /\ waiting' = Append(waiting, v)
    /\ UNCHANGED <<routed, live>>

\* The value at j takes the place of the newest older one of its kind, at i.
Supersede(i, j) ==
    /\ i < j /\ waiting[i].key = waiting[j].key
    /\ \A k \in i..j : waiting[k].key # Event
    /\ \A k \in (i + 1)..(j - 1) : waiting[k].key # waiting[i].key
    /\ waiting' = [k \in 1..(Len(waiting) - 1) |->
                      IF k = i THEN waiting[j] ELSE IF k < j THEN waiting[k] ELSE waiting[k + 1]]
    /\ UNCHANGED <<parsed, routed, live>>

Route ==
    /\ waiting # <<>>
    /\ routed' = Append(routed, Head(waiting)) /\ waiting' = Tail(waiting)
    /\ UNCHANGED <<parsed, live>>

SessionChanges ==
    /\ live' \in Nat /\ (live = 0) # (live' = 0)
    /\ UNCHANGED <<parsed, waiting, routed>>

\* Values of other sessions than the connected one, consecutive ones, may be
\* dropped.
Drop ==
    /\ \E i, j \in DOMAIN waiting :
          /\ i <= j /\ \A k \in i..j : waiting[k].s # live
          /\ waiting' = SubSeq(waiting, 1, i - 1) \o SubSeq(waiting, j + 1, Len(waiting))
    /\ UNCHANGED <<parsed, routed, live>>

Next ==
    \/ Parse \/ Route \/ SessionChanges \/ Drop
    \/ \E i, j \in DOMAIN waiting : Supersede(i, j)

Spec == Init /\ [][Next]_vars

\* No value is routed before an older one of its kind, and no value before an
\* older event or an event before an older value.
OrderKept ==
    LET all == routed \o waiting
    IN  \A i, j \in DOMAIN all :
            i < j /\ (all[i].key = all[j].key \/ Event \in {all[i].key, all[j].key})
                => all[i].n < all[j].n

=============================================================================
