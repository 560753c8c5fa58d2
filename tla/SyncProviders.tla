---------------------------- MODULE SyncProviders ----------------------------
(***************************************************************************)
(* A store synchronised through S2 or through Electric: the providers and  *)
(* the engine together, what must hold of them, and the abstract promise   *)
(* that both of them keep.                                                 *)
(***************************************************************************)
EXTENDS SyncS2, SyncElectric

Next ==
    \/ S2Next
    \/ ElectricNext
    \/ \E c \in Pullers :
          \/ Store(c) \/ Crash(c)
          \/ \E live \in BOOLEAN : StartPull(c, live)

Spec == Init /\ [][Next]_vars

\* A provider waits for its answer and then goes on; the engine stores what it
\* is handed, and pulls again when a pull has ended.
PullerFairness(c) ==
    /\ WF_vars(Store(c))
    /\ WF_vars(\E live \in BOOLEAN : StartPull(c, live))
    /\ WF_vars(\E hi \in 1..Len(log) : S2Batch(c, hi))
    /\ WF_vars(S2ReadEnds(c))
    /\ WF_vars(\E hi \in 1..Len(log) : ElectricPage(c, hi))
    /\ WF_vars(ElectricUpToDate(c))

FairSpec == Spec /\ \A c \in Pullers : PullerFairness(c)
-----------------------------------------------------------------------------
TypeOK ==
    /\ provider \in {"s2", "electric"}
    /\ log \in Seq(Events \cup {NoBody})
    /\ shape \in 1..MaxShapes
    /\ acked \in [Pushers -> 0..MaxEvents]
    /\ push \in [Pushers -> [on : BOOLEAN, at : Nat \ {0}, to : 0..MaxEvents,
                             hi : 0..MaxEvents, tries : 0..Retries, sent : BOOLEAN]]
    /\ late \in [Pushers -> SUBSET ((1..MaxEvents) \X (1..MaxEvents))]
    /\ got \in [Pullers -> SUBSET Nat]
    /\ cursor \in [Pullers -> [off : Nat, handle : 0..MaxShapes]]
    /\ pull \in [Pullers -> [on : BOOLEAN, live : BOOLEAN, tail : BOOLEAN, from : Nat,
                             pos : Nat, last : Nat, emitted : BOOLEAN, tries : 0..Retries,
                             handle : 0..MaxShapes]]
    /\ inbox \in [Pullers -> [full : BOOLEAN, events : SUBSET Nat, off : Nat,
                              handle : 0..MaxShapes]]
    /\ faults \in 0..MaxFaults

\* What a client has stored, and where it will resume, agree: everything up to
\* its cursor is there, and nothing above it.  A crash after any step resumes
\* without a gap and without reading an event twice.
CursorIsExact ==
    \A c \in Pullers :
        /\ cursor[c].off <= Len(log)
        /\ got[c] = Decoded(1, cursor[c].off)

\* A push that succeeded is in the log, all of it, whatever was lost or retried.
AckedIsInLog ==
    \A p \in Pushers : \A k \in 1..acked[p] : InLog(Event(p, k))

\* However often a chunk was sent again or arrived late, an event first enters
\* the log behind every earlier event of its writer.
LogKeepsOrder ==
    \A p \in Pushers, k \in 1..MaxEvents : \A j \in 1..Len(log) :
        log[j] = Event(p, k) =>
            \A m \in 1..(k - 1) : \E i \in 1..(j - 1) : log[i] = Event(p, m)

\* No append exceeds what S2 accepts in one request.
AppendFits ==
    provider = "s2" =>
        LET added == {i \in (Len(log) + 1)..Len(log') : log'[i] # NoBody} IN
            /\ Cardinality(added) <= MaxRecords
            /\ Total([i \in added |-> Weight[log'[i][2]]]) <= MaxBytes

AppendsFit == [][AppendFits]_vars

\* A pull that is not live ends by itself only when the engine has, or is just
\* being handed, every event of the log.
EndsAtTail(c) ==
    /\ pull[c].on /\ ~pull[c].live /\ ~pull'[c].on
    /\ faults' = faults /\ pull[c].handle \in {0, shape}
    => Decoded(1, Len(log)) \subseteq got'[c] \cup inbox'[c].events

PullEndsAtTail == [][\A c \in Pullers : EndsAtTail(c)]_vars

\* The providers keep the promise of EventDelivery, whose clients pull here and
\* whose records are those of the backend's log.
Delivery == INSTANCE EventDelivery
                WITH Clients <- Pullers, NoEvent <- NoBody, records <- log, stored <- got
KeepsThePromise == Delivery!Spec

\* Every event in the log reaches every client, unless Electric gave up a shape.
EventsReachEveryClient ==
    \A c \in Pullers : \A i \in 1..MaxLog :
        (i <= Len(log) /\ log[i] # NoBody) ~> (i \in got[c] \/ shape > 1)

\* A live pull never hands an event out again that the client has stored.
TailDoesNotReplay ==
    [][\A c \in Pullers :
        pull[c].tail /\ ~inbox[c].full => inbox'[c].events \cap got[c] = {}]_vars
=============================================================================
