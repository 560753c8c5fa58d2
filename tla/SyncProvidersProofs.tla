------------------------- MODULE SyncProvidersProofs -------------------------
(***************************************************************************)
(* For every number of clients, events, faults and every size of chunk and *)
(* page: the types of the two sync providers, that an acknowledged push is *)
(* in the log and the log keeps the order of every writer, that a client   *)
(* stores exactly what its cursor says, and that the providers implement   *)
(* EventDelivery.                                                          *)
(***************************************************************************)
EXTENDS SyncProviders, TotalsProofs

-----------------------------------------------------------------------------
(* The inductive invariant                                                 *)

\* Every event that a client resumes behind, or will resume behind, is stored
\* or about to be.
Covered(c, n) ==
    /\ n \in 0..Len(log)
    /\ Decoded(1, n) \subseteq got[c] \cup inbox[c].events

PullOK(c) ==
    /\ Covered(c, pull[c].from) /\ Covered(c, pull[c].pos) /\ Covered(c, pull[c].last)
    /\ inbox[c].events # {} =>
          Covered(c, inbox[c].off) /\ inbox[c].events \subseteq Decoded(1, inbox[c].off)
    /\ ~inbox[c].full => inbox[c].events = {}
    /\ cursor[c].off \in 0..Len(log) /\ got[c] = Decoded(1, cursor[c].off)

\* All that p has before its k-th event is in the log.
Before(p, k) == \A m \in 1..(k - 1) : InLog(Event(p, m))

\* A request, however late, is only ever sent behind what came before it.
PostOK(p) ==
    push[p].on =>
        /\ push[p].at <= push[p].to /\ push[p].to <= push[p].hi
        /\ Before(p, push[p].at)
        /\ push[p].sent => Before(p, push[p].to + 1)

LateOK(p) == \A r \in late[p] : r[1] <= r[2] /\ Before(p, r[1])

PushShape == \A p \in Pushers : PostOK(p) /\ LateOK(p)

\* The types of the two halves of the state, which the steps change apart.
PushRecords == [on : BOOLEAN, at : Nat \ {0}, to : 0..MaxEvents, hi : 0..MaxEvents,
                tries : 0..Retries, sent : BOOLEAN]
PushTypes ==
    /\ log \in Seq(Events \cup {NoBody})
    /\ acked \in [Pushers -> 0..MaxEvents]
    /\ push \in [Pushers -> PushRecords]
    /\ late \in [Pushers -> SUBSET ((1..MaxEvents) \X (1..MaxEvents))]

Cursors == [off : Nat, handle : 0..MaxShapes]
PullRecords == [on : BOOLEAN, live : BOOLEAN, tail : BOOLEAN, from : Nat, pos : Nat, last : Nat,
                emitted : BOOLEAN, tries : 0..Retries, handle : 0..MaxShapes]
Items == [full : BOOLEAN, events : SUBSET Nat, off : Nat, handle : 0..MaxShapes]
PullTypes ==
    /\ got \in [Pullers -> SUBSET Nat]
    /\ cursor \in [Pullers -> Cursors]
    /\ pull \in [Pullers -> PullRecords]
    /\ inbox \in [Pullers -> Items]
    /\ shape \in 1..MaxShapes

PushInv == PushTypes /\ PushShape /\ AckedIsInLog /\ LogKeepsOrder
PullInv == PullTypes /\ \A c \in Pullers : PullOK(c)
IInv == provider \in {"s2", "electric"} /\ faults \in 0..MaxFaults /\ PushInv /\ PullInv
-----------------------------------------------------------------------------
(* What a step does to the log                                             *)

\* The log is the same, or longer at its end.
LogGrows ==
    /\ log' \in Seq(Events \cup {NoBody})
    /\ Len(log) <= Len(log')
    /\ \A i \in 1..Len(log) : log'[i] = log[i]

\* A batch has the events lo..hi of its writer, in their order.
LEMMA BatchShape ==
    ASSUME NEW p \in Pushers, NEW lo \in 1..MaxEvents, NEW hi \in 1..MaxEvents, lo <= hi
    PROVE  /\ Batch(p, lo, hi) \in Seq(Events \cup {NoBody})
           /\ Len(Batch(p, lo, hi)) = hi + 1 - lo
           /\ \A i \in 1..(hi + 1 - lo) : Batch(p, lo, hi)[i] = <<p, lo + i - 1>>
<1>. DEFINE n == hi + 1 - lo
            f == [i \in 1..n |-> <<p, lo + i - 1>>]
<1>1. n \in Nat
  BY SyncAssumption
<1>2. \A i \in 1..n : lo + i - 1 \in 1..MaxEvents
  BY SyncAssumption
<1>3. f \in [1..n -> Events \cup {NoBody}]
  BY <1>2 DEF Events
<1>4. f \in Seq(Events \cup {NoBody}) /\ Len(f) = n
  BY <1>1, <1>3
<1>. QED
  BY <1>4 DEF Batch, Event

\* An append leaves the log as it was and puts the batch behind it.
LEMMA AppendShape ==
    ASSUME log \in Seq(Events \cup {NoBody}), NEW p \in Pushers,
           NEW lo \in 1..MaxEvents, NEW hi \in 1..MaxEvents, lo <= hi, Appended(p, lo, hi)
    PROVE  /\ LogGrows
           /\ Len(log') = Len(log) + hi + 1 - lo
           /\ \A i \in 1..(hi + 1 - lo) : log'[Len(log) + i] = <<p, lo + i - 1>>
<1>. DEFINE b == Batch(p, lo, hi)
<1>1. /\ b \in Seq(Events \cup {NoBody}) /\ Len(b) = hi + 1 - lo
      /\ \A i \in 1..(hi + 1 - lo) : b[i] = <<p, lo + i - 1>>
  BY BatchShape
<1>2. b \in Seq(Events \cup {NoBody})
  BY <1>1
<1>3. log' = log \o b
  BY DEF Appended
<1>. HIDE DEF b
<1>4. log' \in Seq(Events \cup {NoBody})
  BY <1>2, <1>3
<1>5. Len(log') = Len(log) + Len(b)
  BY <1>2, <1>3
<1>6. \A i \in 1..Len(log) : log'[i] = log[i]
  BY <1>2, <1>3
<1>7. \A i \in 1..Len(b) : log'[Len(log) + i] = b[i]
  BY <1>2, <1>3
<1>8. Len(log') = Len(log) + hi + 1 - lo /\ Len(log) <= Len(log')
  BY <1>1, <1>5, SyncAssumption
<1>9. \A i \in 1..(hi + 1 - lo) : log'[Len(log) + i] = <<p, lo + i - 1>>
  BY <1>1, <1>7
<1>. QED
  BY <1>4, <1>6, <1>8, <1>9 DEF LogGrows

\* What was in the log stays there.
LEMMA StaysInLog ==
    ASSUME LogGrows, log \in Seq(Events \cup {NoBody}), NEW e, InLog(e)
    PROVE  InLog(e)'
BY DEF LogGrows, InLog

\* A growing log has the same events among its first records.
LEMMA SameEvents ==
    ASSUME LogGrows, log \in Seq(Events \cup {NoBody}), NEW n \in 0..Len(log)
    PROVE  n \in 0..Len(log') /\ Decoded(1, n)' = Decoded(1, n)
BY DEF LogGrows, Decoded

\* Growing is extending, in the words of EventDelivery.
LEMMA GrowthIsPrefix ==
    ASSUME LogGrows, log \in Seq(Events \cup {NoBody})
    PROVE  IsPrefix(log, log')
<1>1. SubSeq(log, 1, Len(log)) = SubSeq(log', 1, Len(log))
  BY DEF LogGrows
<1>. QED
  BY <1>1 DEF IsPrefix, LogGrows
-----------------------------------------------------------------------------
(* Pushing                                                                 *)

\* What was before an event stays there.
LEMMA BeforeStays ==
    ASSUME LogGrows, log \in Seq(Events \cup {NoBody}), NEW p, NEW k, Before(p, k)
    PROVE  Before(p, k)'
<1>1. ASSUME NEW m \in 1..(k - 1)
      PROVE  InLog(Event(p, m))'
  <2>1. InLog(Event(p, m))
    BY <1>1 DEF Before
  <2>. QED
    BY <2>1, StaysInLog
<1>. QED
  BY <1>1 DEF Before

\* An append behind what came before it keeps every writer's order.
LEMMA AppendKeepsOrder ==
    ASSUME log \in Seq(Events \cup {NoBody}), LogKeepsOrder,
           NEW p \in Pushers, NEW lo \in 1..MaxEvents, NEW hi \in 1..MaxEvents, lo <= hi,
           Before(p, lo), Appended(p, lo, hi)
    PROVE  LogGrows /\ LogKeepsOrder' /\ Before(p, hi + 1)'
<1>1. /\ LogGrows
      /\ Len(log') = Len(log) + hi + 1 - lo
      /\ \A i \in 1..(hi + 1 - lo) : log'[Len(log) + i] = <<p, lo + i - 1>>
  BY AppendShape
<1>2. Len(log) \in Nat /\ Len(log') \in Nat /\ lo \in Nat /\ hi \in Nat
  BY <1>1, SyncAssumption DEF LogGrows
<1>3. ASSUME NEW m \in 1..hi
      PROVE  \E i \in 1..Len(log') : /\ log'[i] = <<p, m>>
                                     /\ m < lo => i <= Len(log)
                                     /\ m >= lo => i = Len(log) + m + 1 - lo
  <2>1. CASE m < lo
    <3>1. PICK i \in 1..Len(log) : log[i] = <<p, m>>
      BY <2>1, <1>2, m \in 1..(lo - 1) DEF Before, InLog, Event
    <3>2. log'[i] = <<p, m>>
      BY <3>1, <1>1 DEF LogGrows
    <3>3. i \in 1..Len(log') /\ i <= Len(log) /\ ~(m >= lo)
      BY <2>1, <1>1, <1>2 DEF LogGrows
    <3>. QED
      BY <3>2, <3>3
  <2>2. CASE m >= lo
    <3>1. m + 1 - lo \in 1..(hi + 1 - lo) /\ lo + (m + 1 - lo) - 1 = m
      BY <2>2, <1>2
    <3>2. log'[Len(log) + (m + 1 - lo)] = <<p, m>>
      BY <3>1, <1>1
    <3>. QED
      BY <3>1, <3>2, <2>2, <1>1, <1>2
  <2>. QED
    BY <2>1, <2>2, <1>2
<1>4. Before(p, hi + 1)'
  <2>1. ASSUME NEW m \in 1..((hi + 1) - 1)
        PROVE  InLog(Event(p, m))'
    <3>1. m \in 1..hi
      BY <1>2
    <3>2. \E i \in 1..Len(log') : log'[i] = <<p, m>>
      BY <3>1, <1>3
    <3>. QED
      BY <3>2 DEF InLog, Event
  <2>. QED
    BY <2>1 DEF Before
<1>5. ASSUME NEW q \in Pushers, NEW k \in 1..MaxEvents, NEW j \in 1..Len(log'),
             log'[j] = <<q, k>>, NEW m \in 1..(k - 1)
      PROVE  \E i \in 1..(j - 1) : log'[i] = <<q, m>>
  <2>1. CASE j <= Len(log)
    <3>1. j \in 1..Len(log) /\ log[j] = <<q, k>>
      BY <2>1, <1>1, <1>2, <1>5 DEF LogGrows
    <3>2. PICK i \in 1..(j - 1) : log[i] = <<q, m>>
      BY <3>1 DEF LogKeepsOrder, Event
    <3>3. i \in 1..Len(log)
      BY <3>1, <3>2, <1>2
    <3>4. log'[i] = log[i]
      BY <3>3, <1>1 DEF LogGrows
    <3>. QED
      BY <3>2, <3>4
  <2>2. CASE j > Len(log)
    <3>. DEFINE i0 == j - Len(log)
    <3>1. i0 \in 1..(hi + 1 - lo) /\ Len(log) + i0 = j
      BY <2>2, <1>1, <1>2
    <3>2. log'[j] = <<p, lo + i0 - 1>>
      BY <3>1, <1>1
    <3>3. q = p /\ k = lo + i0 - 1
      BY <3>2, <1>5
    <3>4. m \in 1..hi /\ m < k
      BY <3>1, <3>3, <1>2, SyncAssumption
    <3>5. PICK i \in 1..Len(log') :
              /\ log'[i] = <<p, m>>
              /\ m < lo => i <= Len(log)
              /\ m >= lo => i = Len(log) + m + 1 - lo
      BY <3>4, <1>3
    <3>. DEFINE L == Len(log)
    <3>9. /\ m < lo => i <= L
          /\ m >= lo => i = L + m + 1 - lo
      BY <3>5
    <3>10. L \in Nat /\ j > L /\ L + i0 = j
      BY <3>1, <2>2, <1>2
    <3>11. log'[i] = <<p, m>>
      BY <3>5
    <3>6. i0 \in Nat /\ j \in Nat /\ i \in Nat /\ m \in Nat /\ i >= 1
      BY <3>1, <3>4, <3>5, <1>2
    <3>. HIDE DEF i0, L
    <3>7. CASE m < lo
      <4>1. i < j
        BY <3>6, <3>7, <3>9, <3>10
      <4>2. i \in 1..(j - 1)
        BY <3>6, <4>1
      <4>. QED
        BY <3>3, <3>11, <4>2
    <3>8. CASE m >= lo
      <4>1. i < j
        BY <3>3, <3>4, <3>6, <3>8, <3>9, <3>10, <1>2
      <4>2. i \in 1..(j - 1)
        BY <3>6, <4>1
      <4>. QED
        BY <3>3, <3>11, <4>2
    <3>. QED
      BY <3>6, <3>7, <3>8, <1>2
  <2>. QED
    BY <2>1, <2>2, <1>2
<1>6. LogKeepsOrder'
  BY <1>5 DEF LogKeepsOrder, Event
<1>. QED
  BY <1>1, <1>4, <1>6

LEMMA IdleRecord == Idle \in PushRecords /\ ~Idle.on
BY SyncAssumption DEF Idle, PushRecords

LEMMA RecordFields ==
    ASSUME NEW r \in PushRecords
    PROVE  /\ r.on \in BOOLEAN /\ r.at \in Nat \ {0} /\ r.to \in 0..MaxEvents
           /\ r.hi \in 0..MaxEvents /\ r.tries \in 0..Retries /\ r.sent \in BOOLEAN
BY DEF PushRecords

\* A push begins behind what is acknowledged, and that is in the log.
LEMMA AckedBefore ==
    ASSUME AckedIsInLog, NEW p \in Pushers, acked[p] \in Nat
    PROVE  Before(p, acked[p] + 1)
BY DEF AckedIsInLog, Before

\* What a longer log leaves true of requests and acknowledgements.
LEMMA GrowthKeeps ==
    ASSUME PushInv, LogGrows
    PROVE  /\ \A p \in Pushers : \A k \in 1..acked[p] : InLog(Event(p, k))'
           /\ \A p \in Pushers : \A k \in Nat : Before(p, k) => Before(p, k)'
<1>1. log \in Seq(Events \cup {NoBody})
  BY DEF PushInv, PushTypes
<1>2. ASSUME NEW p \in Pushers, NEW k \in 1..acked[p]
      PROVE  InLog(Event(p, k))'
  <2>1. InLog(Event(p, k))
    BY DEF PushInv, AckedIsInLog
  <2>. QED
    BY <1>1, <2>1, StaysInLog
<1>3. ASSUME NEW p \in Pushers, NEW k \in Nat, Before(p, k)
      PROVE  Before(p, k)'
  BY <1>1, <1>3, BeforeStays
<1>. QED
  BY <1>2, <1>3

\* A request of p appends its batch: what else it does to p, nothing is lost.
LEMMA AppendStep ==
    ASSUME PushInv, NEW p \in Pushers, NEW lo \in 1..MaxEvents, NEW hi \in 1..MaxEvents,
           lo <= hi, Before(p, lo), Appended(p, lo, hi)
    PROVE  /\ LogGrows /\ LogKeepsOrder' /\ Before(p, hi + 1)'
           /\ \A q \in Pushers : \A k \in Nat : Before(q, k) => Before(q, k)'
           /\ \A q \in Pushers : \A k \in 1..acked[q] : InLog(Event(q, k))'
<1>1. LogGrows /\ LogKeepsOrder' /\ Before(p, hi + 1)'
  BY AppendKeepsOrder DEF PushInv, PushTypes
<1>. QED
  BY <1>1, GrowthKeeps

\* S2's own records are nobody's events.
LEMMA CommandStep ==
    ASSUME PushInv, S2Command
    PROVE  LogGrows /\ LogKeepsOrder'
<1>1. log \in Seq(Events \cup {NoBody}) /\ log' = Append(log, NoBody)
  BY DEF PushInv, PushTypes, S2Command
<1>2. /\ log' \in Seq(Events \cup {NoBody}) /\ Len(log') = Len(log) + 1
      /\ \A i \in 1..Len(log) : log'[i] = log[i]
      /\ log'[Len(log) + 1] = NoBody
  BY <1>1
<1>3. LogGrows
  BY <1>1, <1>2 DEF LogGrows
<1>4. ASSUME NEW q \in Pushers, NEW k \in 1..MaxEvents, NEW j \in 1..Len(log'),
             log'[j] = <<q, k>>, NEW m \in 1..(k - 1)
      PROVE  \E i \in 1..(j - 1) : log'[i] = <<q, m>>
  <2>1. NoBody # <<q, k>>
    BY SyncAssumption, k \in Nat
  <2>3c. j # Len(log) + 1
    BY <1>2, <1>4, <2>1, Zenon
  <2>3a. Len(log) \in Nat /\ j # Len(log) + 1
    BY <1>1, <2>3c
  <2>3b. j \in 1..Len(log)
    BY <1>2, <2>3a
  <2>2. j \in 1..Len(log) /\ log[j] = <<q, k>>
    BY <1>2, <1>4, <2>3b
  <2>3. PICK i \in 1..(j - 1) : log[i] = <<q, m>>
    BY <2>2 DEF PushInv, LogKeepsOrder, Event
  <2>4. i \in 1..Len(log)
    BY <1>1, <2>2, <2>3
  <2>. QED
    BY <1>2, <2>3, <2>4
<1>. QED
  BY <1>3, <1>4 DEF LogKeepsOrder, Event

\* A log that stays is a log that grows.
LEMMA SameLog ==
    ASSUME PushInv, UNCHANGED log
    PROVE  LogGrows /\ LogKeepsOrder' /\ (\A e : InLog(e) => InLog(e)')
BY DEF PushInv, PushTypes, LogGrows, LogKeepsOrder, InLog

\* A step that touches one pusher has to look after that pusher only.
LEMMA OnePusher ==
    ASSUME PushInv, LogGrows, LogKeepsOrder', PushTypes', NEW p \in Pushers,
           \A q \in Pushers \ {p} : /\ push'[q] = push[q] /\ late'[q] = late[q]
                                   /\ acked'[q] = acked[q],
           PostOK(p)', LateOK(p)', \A k \in 1..acked'[p] : InLog(Event(p, k))'
    PROVE  PushInv'
<1>1. /\ \A q \in Pushers : \A k \in 1..acked[q] : InLog(Event(q, k))'
      /\ \A q \in Pushers : \A k \in Nat : Before(q, k) => Before(q, k)'
  BY GrowthKeeps
<1>2. ASSUME NEW q \in Pushers, q # p
      PROVE  PostOK(q)' /\ LateOK(q)' /\ \A k \in 1..acked'[q] : InLog(Event(q, k))'
  <2>1. push'[q] = push[q] /\ late'[q] = late[q] /\ acked'[q] = acked[q]
    BY <1>2
  <2>2. PostOK(q) /\ LateOK(q)
    BY DEF PushInv, PushShape
  <2>3. push[q] \in PushRecords /\ late[q] \in SUBSET ((1..MaxEvents) \X (1..MaxEvents))
    BY DEF PushInv, PushTypes
  <2>4. push[q].at \in Nat /\ push[q].to + 1 \in Nat
    BY <2>3, RecordFields, SyncAssumption
  <2>5. PostOK(q)'
    BY <1>1, <2>1, <2>2, <2>4 DEF PostOK
  <2>6. \A r \in late[q] : r[1] \in Nat
    BY <2>3, SyncAssumption
  <2>7. LateOK(q)'
    BY <1>1, <2>1, <2>2, <2>6 DEF LateOK
  <2>. QED
    BY <1>1, <2>1, <2>5, <2>7
<1>3. PushShape'
  BY <1>2 DEF PushShape
<1>4. AckedIsInLog'
  BY <1>2 DEF AckedIsInLog
<1>. QED
  BY <1>3, <1>4 DEF PushInv

\* What the requests of a pusher may be.
LEMMA PushRanges ==
    ASSUME PushInv, NEW p \in Pushers
    PROVE  /\ push[p] \in PushRecords /\ acked[p] \in 0..MaxEvents
           /\ late[p] \in SUBSET ((1..MaxEvents) \X (1..MaxEvents))
           /\ PostOK(p) /\ LateOK(p) /\ Before(p, acked[p] + 1)
           /\ push[p].on => push[p].at \in 1..MaxEvents /\ push[p].to \in 1..MaxEvents
<1>1. /\ push[p] \in PushRecords /\ acked[p] \in 0..MaxEvents
      /\ late[p] \in SUBSET ((1..MaxEvents) \X (1..MaxEvents))
      /\ PostOK(p) /\ LateOK(p)
  BY DEF PushInv, PushTypes, PushShape
<1>2. Before(p, acked[p] + 1)
  BY <1>1, AckedBefore, SyncAssumption DEF PushInv
<1>3. push[p].on => push[p].at \in 1..MaxEvents /\ push[p].to \in 1..MaxEvents
  BY <1>1, RecordFields, SyncAssumption DEF PostOK
<1>. QED
  BY <1>1, <1>2, <1>3

\* A new push: from the first event not acknowledged.
LEMMA PushBegins ==
    ASSUME PushInv, NEW p \in Pushers, NEW n \in 1..MaxEvents, NEW tries \in 0..Retries,
           NEW to \in (acked[p] + 1)..(acked[p] + n), acked[p] + n <= MaxEvents,
           push' = [push EXCEPT ![p] = [on |-> TRUE, at |-> acked[p] + 1, to |-> to,
                                        hi |-> acked[p] + n, tries |-> tries, sent |-> FALSE]],
           UNCHANGED <<log, acked, late>>
    PROVE  PushInv'
<1>. DEFINE r == [on |-> TRUE, at |-> acked[p] + 1, to |-> to,
                  hi |-> acked[p] + n, tries |-> tries, sent |-> FALSE]
<1>1. /\ LogGrows /\ LogKeepsOrder' /\ (\A e : InLog(e) => InLog(e)')
  BY SameLog
<1>2. acked[p] \in 0..MaxEvents /\ Before(p, acked[p] + 1) /\ LateOK(p)
  BY PushRanges
<1>3. /\ acked[p] + 1 \in Nat \ {0} /\ to \in 0..MaxEvents /\ acked[p] + n \in 0..MaxEvents
      /\ acked[p] + 1 <= to /\ to <= acked[p] + n
  <2>1. acked[p] \in Nat /\ MaxEvents \in Nat /\ n \in Nat
    BY <1>2, SyncAssumption
  <2>2. to \in Nat /\ acked[p] + 1 <= to /\ to <= acked[p] + n
    BY <2>1
  <2>. QED
    BY <2>1, <2>2
<1>4. r \in PushRecords
  BY <1>3 DEF PushRecords
<1>5. push' = [push EXCEPT ![p] = r]
  OBVIOUS
<1>6. push'[p] = r /\ \A q \in Pushers \ {p} : push'[q] = push[q]
  BY <1>5 DEF PushInv, PushTypes
<1>7. PushTypes'
  BY <1>4, <1>5 DEF PushInv, PushTypes
<1>8. Before(p, acked[p] + 1)'
  BY <1>1, <1>2 DEF Before
<1>9. PostOK(p)'
  BY <1>3, <1>6, <1>8 DEF PostOK
<1>10. LateOK(p)'
  BY <1>1, <1>2 DEF LateOK, Before
<1>11. \A k \in 1..acked'[p] : InLog(Event(p, k))'
  BY <1>1 DEF PushInv, AckedIsInLog
<1>. QED
  BY <1>1, <1>6, <1>7, <1>9, <1>10, <1>11, OnePusher

\* The backend processes the request of a push.
LEMMA PushArrives ==
    ASSUME PushInv, NEW p \in Pushers, push[p].on, Appended(p, push[p].at, push[p].to),
           push' = [push EXCEPT ![p].sent = TRUE], UNCHANGED <<acked, late>>
    PROVE  PushInv' /\ LogGrows
<1>. DEFINE r == [push[p] EXCEPT !.sent = TRUE]
<1>1. /\ push[p] \in PushRecords /\ PostOK(p) /\ LateOK(p)
      /\ push[p].at \in 1..MaxEvents /\ push[p].to \in 1..MaxEvents
      /\ late[p] \in SUBSET ((1..MaxEvents) \X (1..MaxEvents))
  BY PushRanges
<1>2. push[p].at <= push[p].to /\ push[p].to <= push[p].hi /\ Before(p, push[p].at)
  BY <1>1 DEF PostOK
<1>3. /\ LogGrows /\ LogKeepsOrder' /\ Before(p, push[p].to + 1)'
      /\ \A q \in Pushers : \A k \in Nat : Before(q, k) => Before(q, k)'
      /\ \A q \in Pushers : \A k \in 1..acked[q] : InLog(Event(q, k))'
  BY <1>1, <1>2, AppendStep
<1>4. /\ r \in PushRecords /\ r.on = push[p].on /\ r.at = push[p].at /\ r.to = push[p].to
      /\ r.hi = push[p].hi
  BY <1>1 DEF PushRecords
<1>5. push'[p] = r /\ \A q \in Pushers \ {p} : push'[q] = push[q]
  BY DEF PushInv, PushTypes
<1>6. push' \in [Pushers -> PushRecords]
  BY <1>4 DEF PushInv, PushTypes
<1>7. PushTypes'
  BY <1>3, <1>6 DEF PushInv, PushTypes, LogGrows
<1>8. Before(p, push[p].at)'
  BY <1>1, <1>2, <1>3, SyncAssumption
<1>9. PostOK(p)'
  BY <1>2, <1>3, <1>4, <1>5, <1>8 DEF PostOK
<1>10. LateOK(p)'
  <2>1. \A x \in late[p] : x[1] \in Nat
    BY <1>1, SyncAssumption
  <2>. QED
    BY <1>1, <1>3, <2>1 DEF LateOK
<1>11. \A k \in 1..acked'[p] : InLog(Event(p, k))'
  BY <1>3
<1>. QED
  BY <1>3, <1>5, <1>7, <1>9, <1>10, <1>11, OnePusher

\* A request that was given up is processed late.
LEMMA LateArrives ==
    ASSUME PushInv, NEW p \in Pushers, NEW x \in late[p], Appended(p, x[1], x[2]),
           late' = [late EXCEPT ![p] = @ \ {x}], UNCHANGED <<acked, push>>
    PROVE  PushInv' /\ LogGrows
<1>1. /\ push[p] \in PushRecords /\ PostOK(p) /\ LateOK(p)
      /\ late[p] \in SUBSET ((1..MaxEvents) \X (1..MaxEvents))
  BY PushRanges
<1>2. /\ x[1] \in 1..MaxEvents /\ x[2] \in 1..MaxEvents /\ x[1] <= x[2]
      /\ Before(p, x[1])
  BY <1>1 DEF LateOK
<1>3. /\ LogGrows /\ LogKeepsOrder'
      /\ \A q \in Pushers : \A k \in Nat : Before(q, k) => Before(q, k)'
      /\ \A q \in Pushers : \A k \in 1..acked[q] : InLog(Event(q, k))'
  BY <1>2, AppendStep
<1>4. late'[p] = late[p] \ {x} /\ \A q \in Pushers \ {p} : late'[q] = late[q]
  BY DEF PushInv, PushTypes
<1>5. late' \in [Pushers -> SUBSET ((1..MaxEvents) \X (1..MaxEvents))]
  BY <1>1 DEF PushInv, PushTypes
<1>6. PushTypes'
  BY <1>3, <1>5 DEF PushInv, PushTypes, LogGrows
<1>7. push[p].at \in Nat /\ push[p].to + 1 \in Nat
  BY SMTT(30), <1>1, RecordFields, SyncAssumption
<1>8. PostOK(p)'
  BY <1>1, <1>3, <1>7 DEF PostOK
<1>9. LateOK(p)'
  <2>1. \A y \in late[p] : y[1] \in Nat
    BY <1>1, SyncAssumption
  <2>. QED
    BY <1>1, <1>3, <1>4, <2>1 DEF LateOK
<1>. QED
  BY <1>3, <1>4, <1>6, <1>8, <1>9, OnePusher

\* Steps of p that leave the log alone.
LEMMA QuietPush ==
    ASSUME PushInv, NEW p \in Pushers, NEW r \in PushRecords, UNCHANGED log,
           push' = [push EXCEPT ![p] = r], PushTypes',
           \A q \in Pushers \ {p} : late'[q] = late[q] /\ acked'[q] = acked[q],
           r.on => /\ r.at <= r.to /\ r.to <= r.hi /\ Before(p, r.at)
                   /\ r.sent => Before(p, r.to + 1),
           \A x \in late'[p] : x[1] <= x[2] /\ Before(p, x[1]),
           \A k \in 1..acked'[p] : InLog(Event(p, k))
    PROVE  PushInv'
<1>1. LogGrows /\ LogKeepsOrder' /\ (\A e : InLog(e) => InLog(e)')
  BY SameLog
<1>2. push'[p] = r /\ \A q \in Pushers \ {p} : push'[q] = push[q]
  BY DEF PushInv, PushTypes
<1>3. \A k : Before(p, k) => Before(p, k)'
  BY <1>1 DEF Before
<1>4. PostOK(p)'
  BY <1>2, <1>3 DEF PostOK
<1>5. LateOK(p)'
  BY <1>3 DEF LateOK
<1>. QED
  BY <1>1, <1>2, <1>4, <1>5, OnePusher

\* The steps of a push that answer a request, or fail it.
LEMMA PushAnswered ==
    ASSUME PushInv, NEW p \in Pushers, push[p].on, push[p].sent,
           push' = [push EXCEPT ![p] = Idle],
           acked' = [acked EXCEPT ![p] = push[p].to], UNCHANGED <<log, late>>
    PROVE  PushInv'
<1>1. /\ push[p] \in PushRecords /\ PostOK(p) /\ LateOK(p)
      /\ push[p].to \in 1..MaxEvents
  BY PushRanges
<1>2. acked' \in [Pushers -> 0..MaxEvents]
  BY <1>1 DEF PushInv, PushTypes
<1>3. PushTypes'
  BY <1>2, IdleRecord DEF PushInv, PushTypes
<1>4. \A k \in 1..push[p].to : InLog(Event(p, k))
  <2>1. push[p].to \in Nat
    BY <1>1, SyncAssumption
  <2>2. Before(p, push[p].to + 1)
    BY <1>1 DEF PostOK
  <2>. QED
    BY <2>1, <2>2 DEF Before
<1>5. acked'[p] = push[p].to /\ \A q \in Pushers \ {p} : acked'[q] = acked[q]
  BY DEF PushInv, PushTypes
<1>6. \A x \in late'[p] : x[1] <= x[2] /\ Before(p, x[1])
  BY <1>1 DEF LateOK
<1>. QED
  BY <1>3, <1>4, <1>5, <1>6, IdleRecord, QuietPush

LEMMA NextChunkStep ==
    ASSUME PushInv, NEW p \in Pushers, S2NextChunk(p)
    PROVE  PushInv'
<1>1. /\ push[p] \in PushRecords /\ PostOK(p) /\ LateOK(p)
      /\ push[p].to \in 1..MaxEvents
  BY PushRanges DEF S2NextChunk
<1>2. PICK to \in (push[p].to + 1)..push[p].hi :
          push' = [push EXCEPT ![p].at = push[p].to + 1, ![p].to = to,
                               ![p].tries = Retries, ![p].sent = FALSE]
  BY DEF S2NextChunk
<1>. DEFINE r == [push[p] EXCEPT !.at = push[p].to + 1, !.to = to,
                                 !.tries = Retries, !.sent = FALSE]
<1>3. /\ push[p].to + 1 \in Nat \ {0} /\ to \in 0..MaxEvents /\ Retries \in 0..Retries
      /\ push[p].to + 1 <= to /\ to <= push[p].hi
  <2>1. push[p].to \in Nat /\ push[p].hi \in 0..MaxEvents
    BY <1>1, RecordFields, SyncAssumption
  <2>. QED
    BY <2>1, SyncAssumption
<1>4. /\ r \in PushRecords /\ r.at = push[p].to + 1 /\ r.to = to /\ r.hi = push[p].hi
      /\ r.sent = FALSE
  BY <1>1, <1>3 DEF PushRecords
<1>5. push' = [push EXCEPT ![p] = r]
  BY <1>2
<1>6. Before(p, push[p].to + 1)
  BY <1>1 DEF PostOK, S2NextChunk
<1>. HIDE DEF r
<1>7. UNCHANGED <<log, late, acked>>
  BY DEF S2NextChunk
<1>8. PushTypes'
  BY <1>4, <1>5, <1>7 DEF PushInv, PushTypes
<1>9. \A x \in late'[p] : x[1] <= x[2] /\ Before(p, x[1])
  BY <1>1, <1>7 DEF LateOK
<1>10. \A k \in 1..acked'[p] : InLog(Event(p, k))
  BY <1>7 DEF PushInv, AckedIsInLog
<1>. QED
  BY <1>3, <1>4, <1>5, <1>6, <1>7, <1>8, <1>9, <1>10, QuietPush

LEMMA PushFailsStep ==
    ASSUME PushInv, NEW p \in Pushers, push[p].on, GaveUp(p), NEW r \in PushRecords,
           r.on => /\ r.at = push[p].at /\ r.to = push[p].to /\ r.hi = push[p].hi
                   /\ r.sent = FALSE,
           push' = [push EXCEPT ![p] = r], UNCHANGED <<log, acked>>
    PROVE  PushInv'
<1>1. /\ push[p] \in PushRecords /\ PostOK(p) /\ LateOK(p)
      /\ push[p].at \in 1..MaxEvents /\ push[p].to \in 1..MaxEvents
      /\ late[p] \in SUBSET ((1..MaxEvents) \X (1..MaxEvents))
  BY PushRanges
<1>2. push[p].at <= push[p].to /\ push[p].to <= push[p].hi /\ Before(p, push[p].at)
  BY <1>1 DEF PostOK
<1>. DEFINE x == <<push[p].at, push[p].to>>
<1>3. x \in (1..MaxEvents) \X (1..MaxEvents) /\ x[1] = push[p].at /\ x[2] = push[p].to
  BY <1>1
<1>4. late' = late \/ late' = [late EXCEPT ![p] = @ \cup {x}]
  BY DEF GaveUp
<1>. HIDE DEF x
<1>5. /\ late' \in [Pushers -> SUBSET ((1..MaxEvents) \X (1..MaxEvents))]
      /\ late'[p] \subseteq late[p] \cup {x}
      /\ \A q \in Pushers \ {p} : late'[q] = late[q]
  BY <1>1, <1>3, <1>4 DEF PushInv, PushTypes
<1>6. PushTypes'
  BY <1>5 DEF PushInv, PushTypes
<1>7. \A y \in late'[p] : y[1] <= y[2] /\ Before(p, y[1])
  BY <1>1, <1>2, <1>3, <1>5 DEF LateOK
<1>8. \A k \in 1..acked'[p] : InLog(Event(p, k))
  BY DEF PushInv, AckedIsInLog
<1>. QED
  BY <1>2, <1>5, <1>6, <1>7, <1>8, QuietPush

\* A log that stays, and pushes that stay.
LEMMA NoPush ==
    ASSUME PushInv, UNCHANGED <<log, pushVars>>
    PROVE  PushInv'
BY DEF PushInv, PushTypes, PushShape, PostOK, LateOK, Before, InLog, AckedIsInLog, LogKeepsOrder,
       pushVars

LEMMA S2PushSteps ==
    ASSUME PushInv, NEW p \in Pushers
    PROVE  /\ \A n \in 1..MaxEvents : S2Push(p, n) => PushInv'
           /\ S2Append(p) => PushInv' /\ LogGrows
           /\ S2Acked(p) => PushInv'
           /\ S2PushFails(p) => PushInv'
           /\ S2LateAppend(p) => PushInv' /\ LogGrows
<1>1. ASSUME NEW n \in 1..MaxEvents, S2Push(p, n)
      PROVE  PushInv'
  <2>1. Retries \in 0..Retries
    BY SyncAssumption
  <2>. QED
    BY <1>1, <2>1, PushBegins DEF S2Push
<1>2. ASSUME S2Append(p)
      PROVE  PushInv' /\ LogGrows
  BY <1>2, PushArrives DEF S2Append
<1>3. ASSUME S2Acked(p)
      PROVE  PushInv'
  BY <1>3, PushAnswered DEF S2Acked
<1>4. ASSUME S2PushFails(p)
      PROVE  PushInv'
  <2>1. push[p] \in PushRecords
    BY PushRanges
  <2>2. CASE push[p].tries > 0
    <3>. DEFINE r == [push[p] EXCEPT !.tries = @ - 1, !.sent = FALSE]
    <3>1. push[p].tries - 1 \in 0..Retries
      BY <2>1, <2>2, RecordFields, SyncAssumption
    <3>2. r \in PushRecords
      BY <2>1, <3>1 DEF PushRecords
    <3>3. r.at = push[p].at /\ r.to = push[p].to /\ r.hi = push[p].hi /\ r.sent = FALSE
      BY <2>1 DEF PushRecords
    <3>4. push' = [push EXCEPT ![p] = r]
      BY <1>4, <2>2 DEF S2PushFails
    <3>. HIDE DEF r
    <3>. QED
      BY <1>4, <3>2, <3>3, <3>4, PushFailsStep DEF S2PushFails
  <2>3. CASE ~(push[p].tries > 0)
    <3>1. push' = [push EXCEPT ![p] = Idle]
      BY <1>4, <2>3 DEF S2PushFails
    <3>2. push[p].on /\ GaveUp(p) /\ UNCHANGED <<log, acked>>
      BY <1>4, IdleRecord DEF S2PushFails
    <3>. QED
      BY <3>1, <3>2, IdleRecord, PushFailsStep
  <2>. QED
    BY <2>2, <2>3
<1>5. ASSUME S2LateAppend(p)
      PROVE  PushInv' /\ LogGrows
  BY <1>5, LateArrives DEF S2LateAppend
<1>. QED
  BY <1>1, <1>2, <1>3, <1>4, <1>5

LEMMA ElectricPushSteps ==
    ASSUME PushInv, NEW p \in Pushers
    PROVE  /\ \A n \in 1..MaxEvents : ElectricPush(p, n) => PushInv'
           /\ ElectricInsert(p) => PushInv' /\ LogGrows
           /\ ElectricAcked(p) => PushInv'
           /\ ElectricPushFails(p) => PushInv'
           /\ ElectricLateInsert(p) => PushInv' /\ LogGrows
<1>1. ASSUME NEW n \in 1..MaxEvents, ElectricPush(p, n)
      PROVE  PushInv'
  <2>1. acked[p] \in 0..MaxEvents
    BY PushRanges
  <2>2. acked[p] + n \in (acked[p] + 1)..(acked[p] + n) /\ 0 \in 0..Retries
    BY <2>1, SyncAssumption
  <2>. QED
    BY <1>1, <2>2, PushBegins DEF ElectricPush
<1>2. ASSUME ElectricInsert(p)
      PROVE  PushInv' /\ LogGrows
  BY <1>2, PushArrives DEF ElectricInsert, Inserted
<1>3. ASSUME ElectricAcked(p)
      PROVE  PushInv'
  BY <1>3, PushAnswered DEF ElectricAcked
<1>4. ASSUME ElectricPushFails(p)
      PROVE  PushInv'
  <2>1. push' = [push EXCEPT ![p] = Idle]
    BY <1>4 DEF ElectricPushFails
  <2>2. push[p].on /\ GaveUp(p) /\ UNCHANGED <<log, acked>>
    BY <1>4, IdleRecord DEF ElectricPushFails
  <2>. QED
    BY <2>1, <2>2, IdleRecord, PushFailsStep
<1>5. ASSUME ElectricLateInsert(p)
      PROVE  PushInv' /\ LogGrows
  BY <1>5, LateArrives DEF ElectricLateInsert, Inserted
<1>. QED
  BY <1>1, <1>2, <1>3, <1>4, <1>5
-----------------------------------------------------------------------------
(* Pulling                                                                 *)

LEMMA OffRecord ==
    /\ Off \in PullRecords /\ Off.from = 0 /\ Off.pos = 0 /\ Off.last = 0
    /\ NoItem \in Items /\ NoItem.events = {} /\ ~NoItem.full
BY SyncAssumption DEF Off, PullRecords, NoItem, Items

LEMMA PullFields ==
    /\ \A r \in PullRecords : /\ r.from \in Nat /\ r.pos \in Nat /\ r.last \in Nat
                              /\ r.tries \in 0..Retries /\ r.handle \in 0..MaxShapes
    /\ \A x \in Items : /\ x.full \in BOOLEAN /\ x.events \in SUBSET Nat /\ x.off \in Nat
                        /\ x.handle \in 0..MaxShapes
    /\ \A k \in Cursors : k.off \in Nat /\ k.handle \in 0..MaxShapes
BY DEF PullRecords, Items, Cursors

LEMMA Nothing == log \in Seq(Events \cup {NoBody}) =>
                     Decoded(1, 0) = {} /\ \A c \in Pullers : Covered(c, 0)
BY DEF Decoded, Covered

\* What was covered of a shorter log is covered of a longer one.
LEMMA PullOnGrowth ==
    ASSUME PullInv, LogGrows, log \in Seq(Events \cup {NoBody}), UNCHANGED pullVars,
           shape' \in 1..MaxShapes
    PROVE  PullInv'
<1>1. \A n \in 0..Len(log) : n \in 0..Len(log') /\ Decoded(1, n)' = Decoded(1, n)
  BY SameEvents
<1>2. \A c \in Pullers : \A n : Covered(c, n) => Covered(c, n)'
  BY <1>1 DEF Covered, pullVars
<1>3. ASSUME NEW c \in Pullers
      PROVE  PullOK(c)'
  <2>1. PullOK(c) /\ UNCHANGED <<pull, inbox, cursor, got>>
    BY DEF PullInv, pullVars
  <2>2. inbox[c].events # {} =>
          Covered(c, inbox[c].off)' /\ inbox[c].events \subseteq Decoded(1, inbox[c].off)'
    BY <1>1, <1>2, <2>1 DEF PullOK, Covered
  <2>3. cursor[c].off \in 0..Len(log') /\ got[c] = Decoded(1, cursor[c].off)'
    BY <1>1, <2>1 DEF PullOK
  <2>. QED
    BY <1>2, <2>1, <2>2, <2>3 DEF PullOK
<1>. QED
  BY <1>3 DEF PullInv, PullTypes, pullVars

\* A step that touches one puller has to look after that puller only.
LEMMA OnePuller ==
    ASSUME PullInv, UNCHANGED <<log, shape>>, PullTypes', NEW c \in Pullers, PullOK(c)',
           \A d \in Pullers \ {c} : /\ pull'[d] = pull[d] /\ inbox'[d] = inbox[d]
                                   /\ cursor'[d] = cursor[d] /\ got'[d] = got[d]
    PROVE  PullInv'
<1>1. ASSUME NEW d \in Pullers, d # c
      PROVE  PullOK(d)'
  <2>1. /\ pull'[d] = pull[d] /\ inbox'[d] = inbox[d] /\ cursor'[d] = cursor[d]
        /\ got'[d] = got[d] /\ log' = log
    BY <1>1
  <2>2. PullOK(d)
    BY DEF PullInv
  <2>3. \A n : Decoded(1, n)' = Decoded(1, n)
    BY <2>1 DEF Decoded
  <2>4. \A n : Covered(d, n) => Covered(d, n)'
    BY <2>1, <2>3 DEF Covered
  <2>. QED
    BY <2>1, <2>2, <2>3, <2>4 DEF PullOK
<1>. QED
  BY <1>1 DEF PullInv

LEMMA PullRanges ==
    ASSUME PullInv, NEW c \in Pullers
    PROVE  /\ pull[c] \in PullRecords /\ inbox[c] \in Items /\ cursor[c] \in Cursors
           /\ got[c] \in SUBSET Nat /\ PullOK(c)
BY DEF PullInv, PullTypes

\* A step that hands out no event and goes on from a covered record.
LEMMA QuietPull ==
    ASSUME PullInv, NEW c \in Pullers, NEW r \in PullRecords, NEW x \in Items,
           inbox[c].events = {}, x.events = {},
           Covered(c, r.from), Covered(c, r.pos), Covered(c, r.last),
           pull' = [pull EXCEPT ![c] = r], inbox' = [inbox EXCEPT ![c] = x],
           UNCHANGED <<log, shape, got, cursor>>
    PROVE  PullInv'
<1>1. pull'[c] = r /\ inbox'[c] = x
  BY DEF PullInv, PullTypes
<1>2. \A d \in Pullers \ {c} : pull'[d] = pull[d] /\ inbox'[d] = inbox[d]
  BY DEF PullInv, PullTypes
<1>3. PullTypes'
  BY DEF PullInv, PullTypes
<1>4. \A n : Covered(c, n) => Covered(c, n)'
  BY <1>1 DEF Covered, Decoded
<1>5. cursor[c].off \in 0..Len(log) /\ got[c] = Decoded(1, cursor[c].off)
  BY DEF PullInv, PullOK
<1>6. PullOK(c)'
  BY <1>1, <1>4, <1>5 DEF PullOK, Decoded
<1>. QED
  BY <1>2, <1>3, <1>6, OnePuller

LEMMA StartPullStep ==
    ASSUME PullInv, NEW c \in Pullers, NEW live \in BOOLEAN, StartPull(c, live)
    PROVE  PullInv'
<1>1. /\ pull[c] \in PullRecords /\ inbox[c] \in Items /\ cursor[c] \in Cursors
      /\ PullOK(c)
  BY PullRanges
<1>. DEFINE r == [Off EXCEPT !.on = TRUE, !.live = live, !.from = cursor[c].off,
                             !.pos = cursor[c].off, !.handle = cursor[c].handle,
                             !.tries = Retries]
<1>2. Retries \in 0..Retries /\ cursor[c].off \in Nat /\ cursor[c].handle \in 0..MaxShapes
  BY <1>1, PullFields, SyncAssumption
<1>3. /\ r \in PullRecords /\ r.from = cursor[c].off /\ r.pos = cursor[c].off /\ r.last = 0
  BY <1>2 DEF Off, PullRecords
<1>4. pull' = [pull EXCEPT ![c] = r]
  BY DEF StartPull
<1>. HIDE DEF r
<1>5. inbox[c].events = {} /\ inbox' = [inbox EXCEPT ![c] = inbox[c]]
  BY <1>1 DEF StartPull, PullOK, PullInv, PullTypes
<1>6. Covered(c, cursor[c].off) /\ Covered(c, 0)
  BY <1>1 DEF PullOK, Covered, Decoded
<1>7. UNCHANGED <<log, shape, got, cursor>>
  BY DEF StartPull
<1>. QED
  BY <1>1, <1>3, <1>4, <1>5, <1>6, <1>7, QuietPull

LEMMA CrashStep ==
    ASSUME PullInv, NEW c \in Pullers, Crash(c)
    PROVE  PullInv'
<1>1. pull'[c] = Off /\ inbox'[c] = NoItem /\ UNCHANGED <<log, shape, got, cursor>>
  BY DEF PullInv, PullTypes, Crash
<1>2. \A d \in Pullers \ {c} : pull'[d] = pull[d] /\ inbox'[d] = inbox[d]
  BY DEF PullInv, PullTypes, Crash
<1>3. PullTypes'
  BY <1>1, OffRecord DEF PullInv, PullTypes, Crash
<1>4. Covered(c, 0)'
  <2>1. Len(log) = Len(log)' /\ 0 \in 0..Len(log)
    BY <1>1, PullRanges DEF PullOK
  <2>. QED
    BY <2>1 DEF Covered, Decoded
<1>5. PullOK(c)'
  BY <1>1, <1>4, OffRecord, PullRanges DEF PullOK, Decoded
<1>. QED
  BY <1>1, <1>2, <1>3, <1>5, OnePuller

LEMMA StoreStep ==
    ASSUME PullInv, NEW c \in Pullers, Store(c)
    PROVE  /\ PullInv'
           /\ got' = [got EXCEPT ![c] = Decoded(1, cursor'[c].off)]
           /\ cursor[c].off <= cursor'[c].off
<1>1. /\ pull[c] \in PullRecords /\ inbox[c] \in Items /\ cursor[c] \in Cursors
      /\ got[c] \in SUBSET Nat /\ PullOK(c)
  BY PullRanges
<1>. DEFINE x == inbox[c]
            k == [off |-> x.off, handle |-> x.handle]
<1>2. /\ x.events \in SUBSET Nat /\ x.off \in Nat /\ x.handle \in 0..MaxShapes
      /\ cursor[c].off \in Nat
  BY <1>1, PullFields
<1>3. k \in Cursors /\ k.off = x.off
  BY <1>2 DEF Cursors
<1>4. /\ got' = [got EXCEPT ![c] = got[c] \cup x.events]
      /\ inbox' = [inbox EXCEPT ![c] = NoItem]
      /\ cursor' = IF x.events # {} /\ x.off > cursor[c].off
                      THEN [cursor EXCEPT ![c] = k] ELSE cursor
      /\ UNCHANGED <<log, shape, pull>>
  BY DEF Store
<1>5. /\ got'[c] = got[c] \cup x.events /\ inbox'[c] = NoItem
      /\ cursor'[c] = IF x.events # {} /\ x.off > cursor[c].off THEN k ELSE cursor[c]
      /\ \A d \in Pullers \ {c} : got'[d] = got[d] /\ inbox'[d] = inbox[d]
                                 /\ cursor'[d] = cursor[d]
  BY <1>4 DEF PullInv, PullTypes
<1>6. /\ x.events # {} => /\ x.off \in 0..Len(log) /\ x.events \subseteq Decoded(1, x.off)
                          /\ Decoded(1, x.off) \subseteq got[c] \cup x.events
      /\ cursor[c].off \in 0..Len(log) /\ got[c] = Decoded(1, cursor[c].off)
  BY <1>1 DEF PullOK, Covered
<1>7. PullTypes'
  <2>1. got' \in [Pullers -> SUBSET Nat]
    BY <1>1, <1>2, <1>4 DEF PullInv, PullTypes
  <2>2. inbox' \in [Pullers -> Items]
    BY <1>4, OffRecord DEF PullInv, PullTypes
  <2>3. cursor' \in [Pullers -> Cursors]
    BY <1>3, <1>4 DEF PullInv, PullTypes
  <2>. QED
    BY <1>4, <2>1, <2>2, <2>3 DEF PullInv, PullTypes
<1>8. /\ cursor'[c].off \in 0..Len(log) /\ cursor[c].off <= cursor'[c].off
      /\ got'[c] = Decoded(1, cursor'[c].off)
  <2>1. CASE x.events # {} /\ x.off > cursor[c].off
    <3>1. Decoded(1, cursor[c].off) \subseteq Decoded(1, x.off)
      BY <1>2, <2>1 DEF Decoded
    <3>2. cursor'[c].off = x.off
      BY <1>3, <1>5, <2>1
    <3>. QED
      BY <1>2, <1>5, <1>6, <2>1, <3>1, <3>2
  <2>2. CASE x.events # {} /\ ~(x.off > cursor[c].off)
    <3>1. Decoded(1, x.off) \subseteq Decoded(1, cursor[c].off)
      BY <1>2, <2>2 DEF Decoded
    <3>. QED
      BY <1>2, <1>5, <1>6, <2>2, <3>1
  <2>3. CASE x.events = {}
    BY <1>2, <1>5, <1>6, <2>3
  <2>. QED
    BY <2>1, <2>2, <2>3
<1>. HIDE DEF k
<1>9. \A n : Covered(c, n) => Covered(c, n)'
  BY <1>4, <1>5, OffRecord DEF Covered, Decoded
<1>10. PullOK(c)'
  BY <1>1, <1>4, <1>5, <1>8, <1>9, OffRecord DEF PullOK, Decoded
<1>11. PullInv'
  BY <1>4, <1>5, <1>7, <1>10, OnePuller
<1>12. got' = [got EXCEPT ![c] = Decoded(1, cursor'[c].off)]
  BY <1>4, <1>5, <1>8
<1>. QED
  BY <1>8, <1>11, <1>12

\* A page that begins behind a covered record is covered once it is handed out.
LEMMA PageStep ==
    ASSUME PullInv, NEW c \in Pullers, NEW r \in PullRecords, NEW lo \in Nat,
           NEW hi \in 1..Len(log), lo < hi, Covered(c, lo), inbox[c].events = {},
           NEW off \in 0..hi, NEW handle \in 0..MaxShapes,
           \A i \in Decoded(lo + 1, hi) : i <= off,
           r.from \in {pull[c].from, hi}, r.pos = hi, r.last \in {pull[c].last, off},
           pull' = [pull EXCEPT ![c] = r],
           inbox' = [inbox EXCEPT ![c] = Item(Decoded(lo + 1, hi), off, handle)],
           UNCHANGED <<log, shape, got, cursor>>
    PROVE  PullInv'
<1>. DEFINE events == Decoded(lo + 1, hi)
            x == Item(events, off, handle)
<1>1. /\ pull[c] \in PullRecords /\ PullOK(c) /\ Len(log) \in Nat
  BY PullRanges DEF PullOK
<1>2. events \in SUBSET Nat /\ hi \in Nat /\ off \in Nat
  BY <1>1 DEF Decoded
<1>3. x \in Items /\ x.events = events /\ x.off = off /\ x.full
  BY <1>2 DEF Item, Items
<1>4. Decoded(1, hi) = Decoded(1, lo) \cup events
  BY <1>1, <1>2 DEF Decoded
<1>5. Decoded(1, off) \subseteq Decoded(1, hi) /\ events \subseteq Decoded(1, off)
  BY <1>1, <1>2 DEF Decoded
<1>. HIDE DEF x, events
<1>6. pull'[c] = r /\ inbox'[c] = x
  BY DEF PullInv, PullTypes, x, events
<1>7. \A d \in Pullers \ {c} : pull'[d] = pull[d] /\ inbox'[d] = inbox[d]
  BY DEF PullInv, PullTypes
<1>8. PullTypes'
  BY <1>3 DEF PullInv, PullTypes, x, events
<1>9. \A n : Decoded(1, n)' = Decoded(1, n)
  BY DEF Decoded
<1>10. \A n : Covered(c, n) => Covered(c, n)'
  BY <1>6, <1>9 DEF Covered
<1>11. Decoded(1, hi) \subseteq got[c] \cup events
  BY <1>4 DEF Covered
<1>12. \A n \in 0..Len(log) : Decoded(1, n) \subseteq got[c] \cup events => Covered(c, n)'
  BY <1>3, <1>6, <1>9 DEF Covered
<1>13. Covered(c, hi)' /\ Covered(c, off)' /\ Covered(c, 0)'
  <2>1. hi \in 0..Len(log) /\ off \in 0..Len(log) /\ 0 \in 0..Len(log)
    BY <1>1, <1>2
  <2>2. Decoded(1, 0) = {}
    BY DEF Decoded
  <2>. QED
    BY <1>5, <1>11, <1>12, <2>1, <2>2
<1>14. Covered(c, r.from)' /\ Covered(c, r.pos)' /\ Covered(c, r.last)'
  BY <1>1, <1>10, <1>13 DEF PullOK
<1>15. PullOK(c)'
  <2>1. cursor[c].off \in 0..Len(log) /\ got[c] = Decoded(1, cursor[c].off)
    BY <1>1 DEF PullOK
  <2>2. inbox'[c].events = events /\ inbox'[c].off = off /\ inbox'[c].full
    BY <1>3, <1>6
  <2>3. Covered(c, inbox[c].off)'
    BY <1>13, <2>2 DEF Covered
  <2>4. (inbox[c].events \subseteq Decoded(1, inbox[c].off))'
    BY <1>5, <1>9, <2>2
  <2>5. Covered(c, pull[c].from)' /\ Covered(c, pull[c].pos)' /\ Covered(c, pull[c].last)'
    BY <1>6, <1>14 DEF Covered
  <2>6. cursor'[c].off \in 0..Len(log') /\ got'[c] = Decoded(1, cursor[c].off)'
    BY <1>9, <2>1
  <2>. QED
    BY <2>2, <2>3, <2>4, <2>5, <2>6 DEF PullOK
<1>. QED
  BY <1>7, <1>8, <1>15, OnePuller

LEMMA S2PullSteps ==
    ASSUME PullInv, NEW c \in Pullers
    PROVE  /\ \A hi \in 1..Len(log) : S2Batch(c, hi) => PullInv'
           /\ S2ReadEnds(c) => PullInv'
           /\ S2TailEnds(c) => PullInv'
           /\ S2ReadFails(c) => PullInv'
<1>1. /\ pull[c] \in PullRecords /\ inbox[c] \in Items /\ PullOK(c)
      /\ Len(log) \in Nat
  BY PullRanges DEF PullOK
<1>2. /\ pull[c].from \in Nat /\ pull[c].pos \in Nat /\ pull[c].last \in Nat
      /\ pull[c].tries \in 0..Retries /\ Retries \in 0..Retries
  BY <1>1, PullFields, SyncAssumption
<1>3. Covered(c, pull[c].from) /\ Covered(c, pull[c].pos) /\ Covered(c, NextCursor(c))
  BY <1>1 DEF PullOK, NextCursor
<1>4. Covered(c, 0)
  BY <1>1 DEF Covered, Decoded
<1>5. NextCursor(c) \in Nat
  BY <1>2 DEF NextCursor
<1>6. ASSUME NEW hi \in 1..Len(log), S2Batch(c, hi)
      PROVE  PullInv'
  <2>. DEFINE lo == pull[c].pos
              events == Decoded(lo + 1, hi)
  <2>1. PICK last \in events \cup {0} :
            /\ IsLast(last, events)
            /\ inbox' = [inbox EXCEPT ![c] = Item(events, last, 0)]
            /\ pull' = [pull EXCEPT ![c].pos = hi, ![c].last = last,
                                    ![c].emitted = TRUE, ![c].tries = Retries]
    BY <1>6 DEF S2Batch
  <2>2. inbox[c].events = {} /\ lo < hi
    <3>1. inbox[c].events = {} /\ hi - lo \in 1..MaxPage
      BY <1>1, <1>6 DEF S2Batch, Reading, PullOK
    <3>. QED
      BY SMTT(30), <1>1, <1>2, <3>1, SyncAssumption
  <2>3. last \in 0..hi
    BY <1>1, <1>2, <2>1 DEF Decoded
  <2>4. \A i \in events : i <= last
    BY <2>1 DEF IsLast
  <2>. DEFINE r == [pull[c] EXCEPT !.pos = hi, !.last = last, !.emitted = TRUE,
                                   !.tries = Retries]
  <2>5. /\ r \in PullRecords /\ r.from = pull[c].from /\ r.pos = hi /\ r.last = last
    <3>1. hi \in Nat /\ last \in Nat
      BY <1>1, <2>3
    <3>. QED
      BY <1>1, <1>2, <3>1 DEF PullRecords
  <2>6. pull' = [pull EXCEPT ![c] = r]
    BY <2>1
  <2>7. UNCHANGED <<log, shape, got, cursor>>
    BY <1>6 DEF S2Batch
  <2>8. 0 \in 0..MaxShapes
    BY SyncAssumption
  <2>. HIDE DEF r
  <2>. QED
    BY <1>2, <1>3, <2>1, <2>2, <2>3, <2>4, <2>5, <2>6, <2>7, <2>8, PageStep
<1>7. \A x : x = Item({}, 0, 0) => x \in Items /\ x.events = {}
  BY SyncAssumption DEF Item, Items
<1>8. ASSUME Reading(c), EmitIfEmpty(c)
      PROVE  \E x \in Items : x.events = {} /\ inbox' = [inbox EXCEPT ![c] = x]
  <2>1. inbox[c].events = {} /\ inbox = [inbox EXCEPT ![c] = inbox[c]]
    BY <1>1, <1>8 DEF Reading, PullOK, PullInv, PullTypes
  <2>. QED
    BY <1>1, <1>7, <1>8, <2>1 DEF EmitIfEmpty
<1>9. ASSUME S2ReadEnds(c)
      PROVE  PullInv'
  <2>1. PICK x \in Items : x.events = {} /\ inbox' = [inbox EXCEPT ![c] = x]
    BY <1>8, <1>9 DEF S2ReadEnds
  <2>. DEFINE r == IF pull[c].live
                      THEN [pull[c] EXCEPT !.tail = TRUE, !.from = NextCursor(c),
                                           !.pos = NextCursor(c), !.last = 0,
                                           !.emitted = FALSE, !.tries = Retries]
                      ELSE Off
  <2>2. /\ r \in PullRecords /\ Covered(c, r.from) /\ Covered(c, r.pos) /\ Covered(c, r.last)
    <3>1. CASE pull[c].live
      <4>1. /\ r \in PullRecords /\ r.from = NextCursor(c) /\ r.pos = NextCursor(c)
            /\ r.last = 0
        BY <1>1, <1>2, <1>5, <3>1 DEF PullRecords
      <4>. HIDE DEF r
      <4>. QED
        BY <1>3, <1>4, <4>1
    <3>2. CASE ~pull[c].live
      BY <1>4, <3>2, OffRecord
    <3>. QED
      BY <3>1, <3>2
  <2>3. pull' = [pull EXCEPT ![c] = r] /\ UNCHANGED <<log, shape, got, cursor>>
    BY <1>9 DEF S2ReadEnds
  <2>. HIDE DEF r
  <2>4. inbox[c].events = {}
    BY <1>1, <1>9 DEF S2ReadEnds, Reading, PullOK
  <2>. QED
    BY <2>1, <2>2, <2>3, <2>4, QuietPull
<1>10. ASSUME S2TailEnds(c)
      PROVE  PullInv'
  <2>1. PICK x \in Items : x.events = {} /\ inbox' = [inbox EXCEPT ![c] = x]
    BY <1>8, <1>10 DEF S2TailEnds
  <2>. DEFINE r == [pull[c] EXCEPT !.from = NextCursor(c), !.pos = NextCursor(c),
                                   !.last = 0, !.emitted = FALSE, !.tries = Retries]
  <2>2. /\ r \in PullRecords /\ r.from = NextCursor(c) /\ r.pos = NextCursor(c) /\ r.last = 0
    BY <1>1, <1>2, <1>5 DEF PullRecords
  <2>3. pull' = [pull EXCEPT ![c] = r] /\ UNCHANGED <<log, shape, got, cursor>>
    BY <1>10 DEF S2TailEnds
  <2>. HIDE DEF r
  <2>4. inbox[c].events = {}
    BY <1>1, <1>10 DEF S2TailEnds, Reading, PullOK
  <2>. QED
    BY <1>3, <1>4, <2>1, <2>2, <2>3, <2>4, QuietPull
<1>11. ASSUME S2ReadFails(c)
      PROVE  PullInv'
  <2>1. inbox[c].events = {} /\ inbox' = [inbox EXCEPT ![c] = inbox[c]]
    BY <1>1, <1>11 DEF S2ReadFails, Reading, PullOK, PullInv, PullTypes
  <2>. DEFINE r == IF pull[c].tries > 0
                      THEN [pull[c] EXCEPT !.pos = pull[c].from, !.tries = @ - 1]
                      ELSE Off
  <2>2. /\ r \in PullRecords /\ Covered(c, r.from) /\ Covered(c, r.pos) /\ Covered(c, r.last)
    <3>1. CASE pull[c].tries > 0
      <4>1. pull[c].tries - 1 \in 0..Retries
        BY <1>2, <3>1, SyncAssumption
      <4>2. /\ r \in PullRecords /\ r.from = pull[c].from /\ r.pos = pull[c].from
            /\ r.last = pull[c].last
        BY <1>1, <1>2, <3>1, <4>1 DEF PullRecords
      <4>. HIDE DEF r
      <4>. QED
        BY <1>1, <1>3, <4>2 DEF PullOK
    <3>2. CASE ~(pull[c].tries > 0)
      BY <1>4, <3>2, OffRecord
    <3>. QED
      BY <3>1, <3>2
  <2>3. pull' = [pull EXCEPT ![c] = r] /\ UNCHANGED <<log, shape, got, cursor>>
    BY <1>11 DEF S2ReadFails
  <2>. HIDE DEF r
  <2>. QED
    BY <1>1, <2>1, <2>2, <2>3, QuietPull
<1>. QED
  BY <1>6, <1>9, <1>10, <1>11

LEMMA ElectricNoEvents ==
    ASSUME PullInv, NEW c \in Pullers, NEW off \in Nat, NEW handle \in 0..MaxShapes,
           ~inbox[c].full, Covered(c, off), NoEvents(c, off, handle)
    PROVE  PullInv'
<1>1. /\ pull[c] \in PullRecords /\ inbox[c] \in Items /\ PullOK(c)
      /\ inbox[c].events = {}
  BY PullRanges DEF PullOK
<1>2. Covered(c, 0)
  BY <1>1 DEF PullOK, Covered, Decoded
<1>3. UNCHANGED <<log, shape, got, cursor>>
  BY DEF NoEvents
<1>4. CASE pull[c].live \/ ~pull[c].emitted
  <2>. DEFINE r == [pull[c] EXCEPT !.from = off, !.pos = off, !.handle = handle, !.emitted = TRUE]
              x == Item({}, off, handle)
  <2>1. /\ r \in PullRecords /\ r.from = off /\ r.pos = off /\ r.last = pull[c].last
    BY <1>1 DEF PullRecords
  <2>2. x \in Items /\ x.events = {}
    BY DEF Item, Items
  <2>3. pull' = [pull EXCEPT ![c] = r] /\ inbox' = [inbox EXCEPT ![c] = x]
    BY <1>4 DEF NoEvents
  <2>4. Covered(c, pull[c].last)
    BY <1>1 DEF PullOK
  <2>. HIDE DEF r, x
  <2>. QED
    BY <1>1, <1>3, <2>1, <2>2, <2>3, <2>4, QuietPull
<1>5. CASE ~(pull[c].live \/ ~pull[c].emitted)
  <2>1. pull' = [pull EXCEPT ![c] = Off] /\ inbox' = [inbox EXCEPT ![c] = inbox[c]]
    BY <1>5 DEF NoEvents, PullInv, PullTypes
  <2>. QED
    BY <1>1, <1>2, <1>3, <2>1, OffRecord, QuietPull
<1>. QED
  BY <1>4, <1>5

LEMMA ElectricPullSteps ==
    ASSUME PullInv, NEW c \in Pullers
    PROVE  /\ \A hi \in 1..Len(log) : ElectricPage(c, hi) => PullInv'
           /\ ElectricUpToDate(c) => PullInv'
           /\ ElectricNoTable(c) => PullInv'
           /\ ElectricShapeGone(c) => PullInv'
           /\ ElectricReadFails(c) => PullInv'
<1>1. /\ pull[c] \in PullRecords /\ inbox[c] \in Items /\ PullOK(c)
      /\ Len(log) \in Nat
  BY PullRanges DEF PullOK
<1>2. /\ pull[c].from \in Nat /\ Covered(c, pull[c].from) /\ Covered(c, 0)
  BY <1>1, PullFields DEF PullOK, Covered, Decoded
<1>3. shape \in 0..MaxShapes
  BY SyncAssumption DEF PullInv, PullTypes
<1>4. ASSUME NEW hi \in 1..Len(log), ElectricPage(c, hi)
      PROVE  PullInv'
  <2>. DEFINE lo == pull[c].from
              r == [pull[c] EXCEPT !.from = hi, !.pos = hi, !.handle = shape, !.emitted = TRUE]
  <2>1. inbox[c].events = {} /\ hi - lo \in 1..MaxPage
    BY <1>1, <1>4 DEF ElectricPage, Asking, PullOK
  <2>2. lo < hi /\ hi \in Nat /\ hi \in 0..hi
    BY <1>1, <1>2, <2>1, SyncAssumption
  <2>3. /\ r \in PullRecords /\ r.from = hi /\ r.pos = hi /\ r.last = pull[c].last
    BY <1>1, <1>3, <2>2 DEF PullRecords
  <2>4. \A i \in Decoded(lo + 1, hi) : i <= hi
    BY <1>2, <2>2 DEF Decoded
  <2>5. /\ pull' = [pull EXCEPT ![c] = r]
        /\ inbox' = [inbox EXCEPT ![c] = Item(Decoded(lo + 1, hi), hi, shape)]
        /\ UNCHANGED <<log, shape, got, cursor>>
    BY <1>4 DEF ElectricPage
  <2>6. Covered(c, pull[c].last)
    BY <1>1 DEF PullOK
  <2>. HIDE DEF r
  <2>. QED
    BY <1>2, <1>3, <2>1, <2>2, <2>3, <2>4, <2>5, <2>6, PageStep
<1>5. ASSUME ElectricUpToDate(c)
      PROVE  PullInv'
  BY <1>2, <1>3, <1>5, ElectricNoEvents DEF ElectricUpToDate, Asking
<1>6. ASSUME ElectricNoTable(c)
      PROVE  PullInv'
  <2>1. 0 \in 0..MaxShapes /\ 0 \in Nat
    BY SyncAssumption
  <2>. QED
    BY <1>2, <1>6, <2>1, ElectricNoEvents DEF ElectricNoTable, Asking
<1>7. ASSUME ElectricShapeGone(c) \/ ElectricReadFails(c)
      PROVE  PullInv'
  <2>1. /\ pull' = [pull EXCEPT ![c] = Off] /\ inbox' = [inbox EXCEPT ![c] = inbox[c]]
        /\ UNCHANGED <<log, shape, got, cursor>>
    BY <1>7 DEF ElectricShapeGone, ElectricReadFails, PullInv, PullTypes
  <2>2. inbox[c].events = {}
    BY <1>1, <1>7 DEF ElectricShapeGone, ElectricReadFails, Asking, PullOK
  <2>. QED
    BY <1>1, <1>2, <2>1, <2>2, OffRecord, QuietPull
<1>. QED
  BY <1>4, <1>5, <1>6, <1>7
-----------------------------------------------------------------------------
(* Every step                                                              *)

LEMMA Initially == Init => IInv
<1>. SUFFICES ASSUME Init
              PROVE  IInv
  OBVIOUS
<1>1. PushTypes /\ Len(log) = 0
  BY IdleRecord, SyncAssumption DEF Init, PushTypes
<1>2. PushInv
  BY <1>1, IdleRecord DEF Init, PushInv, PushShape, PostOK, LateOK, AckedIsInLog, LogKeepsOrder
<1>3. FromStart \in Cursors /\ FromStart.off = 0
  BY SyncAssumption DEF FromStart, Cursors
<1>4. PullTypes
  BY <1>3, OffRecord, SyncAssumption DEF Init, PullTypes
<1>5. \A c \in Pullers : PullOK(c)
  BY <1>1, <1>3, OffRecord DEF Init, PullOK, Covered, Decoded
<1>. QED
  BY <1>2, <1>4, <1>5, SyncAssumption DEF Init, IInv, PullInv

\* The bound on faults holds, whether a step is one or not.
LEMMA FaultStep ==
    ASSUME IInv, Fault \/ UNCHANGED faults
    PROVE  faults' \in 0..MaxFaults
BY SyncAssumption DEF IInv, Fault

\* A step of a writer: the log may grow, and no client notices.
LEMMA WriterStep ==
    ASSUME IInv, UNCHANGED <<pullVars, shape>>, PushInv', LogGrows \/ UNCHANGED log
    PROVE  PullInv' /\ (Delivery!Next \/ UNCHANGED <<log, got>>)
<1>1. log \in Seq(Events \cup {NoBody}) /\ shape' \in 1..MaxShapes
  BY DEF IInv, PushInv, PushTypes, PullInv, PullTypes
<1>2. CASE LogGrows
  <2>1. PullInv'
    BY <1>1, <1>2, PullOnGrowth DEF IInv
  <2>2. Delivery!Grow
    <3>1. IsPrefix(log, log')
      BY <1>1, <1>2, GrowthIsPrefix
    <3>2. Delivery!IsPrefix(log, log')
      BY <3>1 DEF IsPrefix, Delivery!IsPrefix
    <3>. QED
      BY <3>2 DEF Delivery!Grow, pullVars
  <2>. QED
    BY <2>1, <2>2 DEF Delivery!Next
<1>3. CASE UNCHANGED log
  <2>1. LogGrows
    BY <1>3, SameLog DEF IInv
  <2>. QED
    BY <1>1, <1>3, <2>1, PullOnGrowth DEF IInv, pullVars
<1>. QED
  BY <1>2, <1>3

\* A step of a reader that stores nothing.
LEMMA ReaderStep ==
    ASSUME IInv, PullInv', UNCHANGED <<log, pushVars, got>>
    PROVE  PushInv' /\ PullInv' /\ UNCHANGED <<log, got>>
BY NoPush DEF IInv

\* What a client stores is all there is up to its cursor.
LEMMA StoreDelivers ==
    ASSUME IInv, NEW c \in Pullers, Store(c)
    PROVE  PushInv' /\ PullInv' /\ Delivery!Next
<1>1. /\ PullInv'
      /\ got' = [got EXCEPT ![c] = Decoded(1, cursor'[c].off)]
      /\ cursor[c].off <= cursor'[c].off
  BY StoreStep DEF IInv
<1>2. UNCHANGED <<log, pushVars>>
  BY DEF Store
<1>3. PushInv'
  BY <1>2, NoPush DEF IInv
<1>4. /\ cursor'[c].off \in 0..Len(log) /\ cursor[c].off \in 0..Len(log)
      /\ got[c] = Decoded(1, cursor[c].off)
  BY <1>1, <1>2 DEF IInv, PullInv, PullOK
<1>5. \A n : Delivery!EventsUpTo(n) = Decoded(1, n)
  BY DEF Delivery!EventsUpTo, Decoded
<1>6. got[c] \subseteq Decoded(1, cursor'[c].off)
  BY <1>1, <1>4 DEF Decoded
<1>7. Delivery!Deliver(c)
  BY <1>1, <1>2, <1>4, <1>5, <1>6 DEF Delivery!Deliver
<1>. QED
  BY <1>1, <1>3, <1>7 DEF Delivery!Next

\* Every step keeps the invariant, and is a step of EventDelivery or none.
LEMMA EveryStep ==
    ASSUME IInv, [Next]_vars
    PROVE  IInv' /\ [Delivery!Next]_<<log, got>>
<1>0. CASE UNCHANGED vars
  <2>1. PushInv'
    BY <1>0, NoPush DEF IInv, vars
  <2>2. PullInv'
    BY <1>0 DEF IInv, vars, pullVars, PullInv, PullTypes, PullOK, Covered, Decoded
  <2>. QED
    BY <1>0, <2>1, <2>2 DEF IInv, vars, pullVars
<1>1. ASSUME NEW p \in Pushers, NEW n \in 1..MaxEvents, S2Push(p, n)
      PROVE  IInv' /\ [Delivery!Next]_<<log, got>>
  <2>1. PushInv'
    BY <1>1, S2PushSteps DEF IInv
  <2>. QED
    BY <1>1, <2>1, WriterStep DEF IInv, S2Push
<1>2. ASSUME NEW p \in Pushers, S2Append(p) \/ S2LateAppend(p)
      PROVE  IInv' /\ [Delivery!Next]_<<log, got>>
  <2>1. PushInv' /\ LogGrows
    BY <1>2, S2PushSteps DEF IInv
  <2>. QED
    BY <1>2, <2>1, WriterStep DEF IInv, S2Append, S2LateAppend
<1>3. ASSUME NEW p \in Pushers, S2NextChunk(p) \/ S2Acked(p) \/ S2PushFails(p)
      PROVE  IInv' /\ [Delivery!Next]_<<log, got>>
  <2>1. PushInv'
    BY <1>3, S2PushSteps, NextChunkStep DEF IInv
  <2>2. faults' \in 0..MaxFaults
    <3>1. Fault \/ UNCHANGED faults
      BY <1>3 DEF S2NextChunk, S2Acked, S2PushFails
    <3>. QED
      BY <3>1, FaultStep
  <2>. QED
    BY <1>3, <2>1, <2>2, WriterStep DEF IInv, S2NextChunk, S2Acked, S2PushFails
<1>4. ASSUME S2Command
      PROVE  IInv' /\ [Delivery!Next]_<<log, got>>
  <2>1. LogGrows /\ LogKeepsOrder'
    BY <1>4, CommandStep DEF IInv
  <2>2. UNCHANGED <<acked, push, late>>
    BY <1>4 DEF S2Command, pushVars
  <2>3. PushTypes'
    BY <2>1, <2>2 DEF IInv, PushInv, PushTypes, LogGrows
  <2>4. ASSUME NEW q \in Pushers
        PROVE  PostOK(q)' /\ LateOK(q)' /\ \A k \in 1..acked'[q] : InLog(Event(q, k))'
    <3>1. /\ push[q] \in PushRecords /\ PostOK(q) /\ LateOK(q)
          /\ late[q] \in SUBSET ((1..MaxEvents) \X (1..MaxEvents))
      BY PushRanges DEF IInv
    <3>2. /\ push[q].at \in Nat /\ push[q].to + 1 \in Nat /\ \A r \in late[q] : r[1] \in Nat
      BY <3>1, RecordFields, SyncAssumption
    <3>3. /\ \A k \in Nat : Before(q, k) => Before(q, k)'
          /\ \A k \in 1..acked[q] : InLog(Event(q, k))'
      BY <2>1, GrowthKeeps DEF IInv
    <3>. QED
      BY <2>2, <3>1, <3>2, <3>3 DEF PostOK, LateOK
  <2>5. PushInv'
    BY <2>1, <2>3, <2>4 DEF PushInv, PushShape, AckedIsInLog
  <2>. QED
    BY <1>4, <2>1, <2>5, WriterStep DEF IInv, S2Command
<1>5. ASSUME NEW p \in Pushers, NEW n \in 1..MaxEvents, ElectricPush(p, n)
      PROVE  IInv' /\ [Delivery!Next]_<<log, got>>
  <2>1. PushInv'
    BY <1>5, ElectricPushSteps DEF IInv
  <2>. QED
    BY <1>5, <2>1, WriterStep DEF IInv, ElectricPush
<1>6. ASSUME NEW p \in Pushers, ElectricInsert(p) \/ ElectricLateInsert(p)
      PROVE  IInv' /\ [Delivery!Next]_<<log, got>>
  <2>1. PushInv' /\ LogGrows
    BY <1>6, ElectricPushSteps DEF IInv
  <2>. QED
    BY <1>6, <2>1, WriterStep DEF IInv, ElectricInsert, ElectricLateInsert
<1>7. ASSUME NEW p \in Pushers, ElectricAcked(p) \/ ElectricPushFails(p)
      PROVE  IInv' /\ [Delivery!Next]_<<log, got>>
  <2>1. PushInv'
    BY <1>7, ElectricPushSteps DEF IInv
  <2>2. faults' \in 0..MaxFaults
    <3>1. Fault \/ UNCHANGED faults
      BY <1>7 DEF ElectricAcked, ElectricPushFails
    <3>. QED
      BY <3>1, FaultStep
  <2>. QED
    BY <1>7, <2>1, <2>2, WriterStep DEF IInv, ElectricAcked, ElectricPushFails
<1>8. ASSUME ElectricRotates
      PROVE  IInv' /\ [Delivery!Next]_<<log, got>>
  <2>1. PushInv'
    BY <1>8, NoPush DEF IInv, ElectricRotates
  <2>2. shape' \in 1..MaxShapes
    BY <1>8, SyncAssumption DEF IInv, PullInv, PullTypes, ElectricRotates
  <2>3. PullInv'
    BY <1>8, <2>2, SameLog, PullOnGrowth DEF IInv, PushInv, PushTypes, ElectricRotates
  <2>. QED
    BY <1>8, <2>1, <2>3 DEF IInv, ElectricRotates, pullVars
<1>9. ASSUME NEW c \in Pullers,
             \/ \E hi \in 1..Len(log) : S2Batch(c, hi)
             \/ S2ReadEnds(c) \/ S2TailEnds(c) \/ S2ReadFails(c)
      PROVE  IInv' /\ [Delivery!Next]_<<log, got>>
  <2>1. PullInv'
    BY <1>9, S2PullSteps DEF IInv
  <2>2. UNCHANGED <<provider, log, pushVars, got>>
    BY <1>9 DEF S2Batch, S2ReadEnds, S2TailEnds, S2ReadFails
  <2>3. faults' \in 0..MaxFaults
    <3>1. Fault \/ UNCHANGED faults
      BY <1>9 DEF S2Batch, S2ReadEnds, S2TailEnds, S2ReadFails
    <3>. QED
      BY <3>1, FaultStep
  <2>. QED
    BY <2>1, <2>2, <2>3, ReaderStep DEF IInv
<1>10. ASSUME NEW c \in Pullers,
              \/ \E hi \in 1..Len(log) : ElectricPage(c, hi)
              \/ ElectricUpToDate(c) \/ ElectricNoTable(c)
              \/ ElectricShapeGone(c) \/ ElectricReadFails(c)
       PROVE  IInv' /\ [Delivery!Next]_<<log, got>>
  <2>1. PullInv'
    BY <1>10, ElectricPullSteps DEF IInv
  <2>2. UNCHANGED <<provider, log, pushVars, got>>
    BY <1>10 DEF ElectricPage, ElectricUpToDate, ElectricNoTable, ElectricShapeGone,
                 ElectricReadFails, NoEvents
  <2>3. faults' \in 0..MaxFaults
    <3>1. Fault \/ UNCHANGED faults
      BY <1>10 DEF ElectricPage, ElectricUpToDate, ElectricNoTable,
                   ElectricShapeGone, ElectricReadFails, NoEvents
    <3>. QED
      BY <3>1, FaultStep
  <2>. QED
    BY <2>1, <2>2, <2>3, ReaderStep DEF IInv
<1>11. ASSUME NEW c \in Pullers, Store(c)
       PROVE  IInv' /\ [Delivery!Next]_<<log, got>>
  BY <1>11, StoreDelivers DEF IInv, Store
<1>12. ASSUME NEW c \in Pullers, Crash(c) \/ \E live \in BOOLEAN : StartPull(c, live)
       PROVE  IInv' /\ [Delivery!Next]_<<log, got>>
  <2>1. PullInv'
    BY <1>12, CrashStep, StartPullStep DEF IInv
  <2>2. UNCHANGED <<provider, log, pushVars, got>>
    BY <1>12 DEF Crash, StartPull
  <2>3. faults' \in 0..MaxFaults
    <3>1. Fault \/ UNCHANGED faults
      BY <1>12 DEF Crash, StartPull
    <3>. QED
      BY <3>1, FaultStep
  <2>. QED
    BY <2>1, <2>2, <2>3, ReaderStep DEF IInv
<1>13. CASE S2Next
  BY <1>13, <1>1, <1>2, <1>3, <1>4, <1>9 DEF S2Next
<1>14. CASE ElectricNext
  BY <1>14, <1>5, <1>6, <1>7, <1>8, <1>10 DEF ElectricNext
<1>15. CASE \E c \in Pullers : \/ Store(c) \/ Crash(c)
                             \/ \E live \in BOOLEAN : StartPull(c, live)
  BY <1>15, <1>11, <1>12
<1>. QED
  BY <1>0, <1>13, <1>14, <1>15 DEF Next

LEMMA Always == Spec => []IInv
<1>1. IInv /\ [Next]_vars => IInv'
  BY EveryStep
<1>. QED
  BY Initially, <1>1, PTL DEF Spec
-----------------------------------------------------------------------------
(* Chunks                                                                  *)

\* What S2 is sent, or may still receive late, fits into an append; what a push
\* has left to send can be divided so that it does.
ChunkOK(p) ==
    /\ push[p].on =>
          /\ Fits(push[p].at, push[p].to)
          /\ \A k \in push[p].at..push[p].hi : Weight[k] <= MaxBytes
    /\ \A r \in late[p] : Fits(r[1], r[2])

ChunksFit == provider = "s2" => \A p \in Pushers : ChunkOK(p)

LEMMA WeightsAre ==
    ASSUME NEW lo \in 1..MaxEvents, NEW hi \in 1..MaxEvents
    PROVE  /\ IsFiniteSet(lo..hi) /\ [k \in lo..hi |-> Weight[k]] \in [lo..hi -> Nat]
           /\ Metered(lo, hi) \in Nat
<1>1. IsFiniteSet(lo..hi)
  BY FS_Interval
<1>2. lo..hi \subseteq 1..MaxEvents
  BY SyncAssumption
<1>3. [k \in lo..hi |-> Weight[k]] \in [lo..hi -> Nat]
  BY <1>2, SyncAssumption
<1>. QED
  BY <1>1, <1>3, TotalIsNat DEF Metered

\* An event that is not too large is a chunk that fits.
LEMMA EventFits ==
    ASSUME NEW lo \in 1..MaxEvents, Weight[lo] <= MaxBytes
    PROVE  Fits(lo, lo)
<1>1. lo..lo = {lo} /\ lo - lo = 0
  OBVIOUS
<1>. DEFINE f == [k \in lo..lo |-> Weight[k]]
<1>2. f \in [{lo} -> Nat] /\ f[lo] = Weight[lo]
  BY <1>1, WeightsAre
<1>. HIDE DEF f
<1>3. Total(f) = Weight[lo]
  BY <1>2, TotalOfOne
<1>. QED
  BY <1>1, <1>3, SyncAssumption DEF Fits, Metered, f

LEMMA ChunkFits ==
    ASSUME NEW lo \in 1..MaxEvents, NEW to \in 1..MaxEvents, NEW hi, lo <= to,
           Weight[lo] <= MaxBytes, IsChunk(lo, to, hi)
    PROVE  Fits(lo, to)
<1>1. CASE to = lo
  BY <1>1, EventFits
<1>2. CASE to # lo
  BY <1>2 DEF IsChunk
<1>. QED
  BY <1>1, <1>2

\* The records that an append adds weigh what their events do.
LEMMA ChunkAppends ==
    ASSUME log \in Seq(Events \cup {NoBody}), NEW p \in Pushers,
           NEW lo \in 1..MaxEvents, NEW hi \in 1..MaxEvents, lo <= hi, Fits(lo, hi),
           Appended(p, lo, hi)
    PROVE  AppendFits
<1>. DEFINE n == hi + 1 - lo
            added == {i \in (Len(log) + 1)..Len(log') : log'[i] # NoBody}
            f == [i \in added |-> Weight[log'[i][2]]]
            g == [k \in lo..hi |-> Weight[k]]
            h == [i \in added |-> lo + i - Len(log) - 1]
<1>1. /\ Len(log) \in Nat /\ Len(log') = Len(log) + n /\ n \in Nat
      /\ \A i \in 1..n : log'[Len(log) + i] = <<p, lo + i - 1>>
  <2>1. /\ Len(log') = Len(log) + hi + 1 - lo
        /\ \A i \in 1..(hi + 1 - lo) : log'[Len(log) + i] = <<p, lo + i - 1>>
    BY AppendShape
  <2>2. Len(log) \in Nat /\ hi + 1 - lo \in Nat /\ Len(log) + hi + 1 - lo = Len(log) + (hi + 1 - lo)
    BY SyncAssumption
  <2>. QED
    BY <2>1, <2>2
<1>2. ASSUME NEW i \in added
      PROVE  /\ i \in (Len(log) + 1)..(Len(log) + n)
             /\ lo + i - Len(log) - 1 \in lo..hi
             /\ log'[i] = <<p, lo + i - Len(log) - 1>>
  <2>1. i \in (Len(log) + 1)..(Len(log) + n)
    BY <1>1
  <2>2. i - Len(log) \in 1..n /\ i = Len(log) + (i - Len(log))
    BY <1>1, <2>1
  <2>. HIDE DEF n
  <2>3. log'[i] = <<p, lo + (i - Len(log)) - 1>>
    BY <1>1, <2>2
  <2>4. lo + (i - Len(log)) - 1 = lo + i - Len(log) - 1
    BY <1>1, <2>1
  <2>. QED
    BY <1>1, <2>1, <2>2, <2>3, <2>4 DEF n
<1>3. added \subseteq (Len(log) + 1)..(Len(log) + n)
  BY <1>2
<1>4. IsFiniteSet(added) /\ Cardinality(added) <= n
  <2>. DEFINE records == (Len(log) + 1)..(Len(log) + n)
  <2>. HIDE DEF n
  <2>1. IsFiniteSet(records) /\ Cardinality(records) = n
    <3>1. (Len(log) + n - (Len(log) + 1) + 1 = n /\ ~(Len(log) + 1 > Len(log) + n)) \/ n = 0
      BY <1>1
    <3>. QED
      BY <1>1, <3>1, FS_Interval
  <2>. HIDE DEF records, added
  <2>2. added \subseteq records
    BY <1>3 DEF records
  <2>. QED
    BY <2>1, <2>2, FS_Subset
<1>5. Cardinality(added) <= MaxRecords
  BY <1>1, <1>4, FS_CardinalityType, SyncAssumption DEF Fits
<1>6. \A i \in added : f[i] = Weight[lo + i - Len(log) - 1]
  BY <1>2
<1>7. IsFiniteSet(lo..hi) /\ g \in [lo..hi -> Nat]
  BY WeightsAre
<1>8. \A i \in added : lo + i - Len(log) - 1 \in lo..hi /\ i \in Nat
  BY <1>1, <1>2
<1>. HIDE DEF added
<1>9. h \in Injection(added, lo..hi)
  BY SMTT(30), <1>1, <1>8 DEF Injection, IsInjective
<1>10. f \in [added -> Nat] /\ \A i \in added : f[i] <= g[h[i]]
  <2>1. \A i \in added : f[i] = g[h[i]] /\ g[h[i]] \in Nat
    BY <1>6, <1>7, <1>8
  <2>2. f = [i \in added |-> f[i]]
    OBVIOUS
  <2>. HIDE DEF f, g, h
  <2>3. \A i \in added : f[i] \in Nat /\ f[i] <= g[h[i]]
    BY <2>1
  <2>. QED
    BY <2>2, <2>3
<1>. HIDE DEF f, g, h
<1>11. Total(f) <= Total(g)
  BY <1>4, <1>7, <1>9, <1>10, TotalGrows
<1>12. Total(f) <= MaxBytes
  <2>1. Total(f) \in Nat /\ Total(g) \in Nat
    BY <1>4, <1>7, <1>10, TotalIsNat
  <2>2. Total(g) <= MaxBytes
    BY DEF Fits, Metered, g
  <2>. QED
    BY <1>11, <2>1, <2>2, SyncAssumption
<1>. QED
  BY <1>5, <1>12 DEF AppendFits, added, f

\* A step that adds nothing adds nothing too large.
LEMMA NothingAppended ==
    ASSUME log \in Seq(Events \cup {NoBody}), UNCHANGED log
    PROVE  AppendFits
<1>. DEFINE added == {i \in (Len(log) + 1)..Len(log') : log'[i] # NoBody}
            f == [i \in added |-> Weight[log'[i][2]]]
<1>1. added = {}
  OBVIOUS
<1>2. Cardinality(added) = 0 /\ DOMAIN f = {}
  BY <1>1, FS_EmptySet
<1>. HIDE DEF f, added
<1>3. Total(f) = 0
  BY <1>2, TotalOfNone
<1>. QED
  BY <1>2, <1>3, SyncAssumption DEF AppendFits, f, added

LEMMA CommandAppended ==
    ASSUME log \in Seq(Events \cup {NoBody}), S2Command
    PROVE  AppendFits
<1>. DEFINE added == {i \in (Len(log) + 1)..Len(log') : log'[i] # NoBody}
            f == [i \in added |-> Weight[log'[i][2]]]
<1>1. log' = Append(log, NoBody)
  BY DEF S2Command
<1>2. added = {}
  BY <1>1
<1>3. Cardinality(added) = 0 /\ DOMAIN f = {}
  BY <1>2, FS_EmptySet
<1>. HIDE DEF f, added
<1>4. Total(f) = 0
  BY <1>3, TotalOfNone
<1>. QED
  BY <1>3, <1>4, SyncAssumption DEF AppendFits, f, added

\* Only the request of p has changed.
LEMMA OneChunk ==
    ASSUME ChunksFit, UNCHANGED provider, NEW p \in Pushers,
           \A q \in Pushers \ {p} : push'[q] = push[q] /\ late'[q] = late[q],
           provider = "s2" => ChunkOK(p)'
    PROVE  ChunksFit'
<1>1. ASSUME NEW q \in Pushers \ {p}, ChunkOK(q)
      PROVE  ChunkOK(q)'
  BY <1>1 DEF ChunkOK, Fits, Metered
<1>. QED
  BY <1>1 DEF ChunksFit

LEMMA SameChunks ==
    ASSUME ChunksFit, UNCHANGED <<provider, push, late>>
    PROVE  ChunksFit'
BY DEF ChunksFit, ChunkOK, Fits, Metered

\* A push refuses a batch with an event that is too large, and divides the others.
LEMMA PushChunks ==
    ASSUME IInv, ChunksFit, NEW p \in Pushers, NEW n \in 1..MaxEvents, S2Push(p, n)
    PROVE  ChunksFit'
<1>1. PICK to \in (acked[p] + 1)..(acked[p] + n) :
          /\ IsChunk(acked[p] + 1, to, acked[p] + n)
          /\ push' = [push EXCEPT ![p] =
                         [on |-> TRUE, at |-> acked[p] + 1, to |-> to, hi |-> acked[p] + n,
                          tries |-> Retries, sent |-> FALSE]]
  BY DEF S2Push
<1>2. /\ acked[p] + n <= MaxEvents /\ UNCHANGED <<provider, late>>
      /\ \A k \in (acked[p] + 1)..(acked[p] + n) : Weight[k] <= MaxBytes
  BY DEF S2Push
<1>3. acked[p] \in Nat /\ push \in [Pushers -> PushRecords]
  BY PushRanges, SyncAssumption DEF IInv, PushInv, PushTypes
<1>4. /\ acked[p] + 1 \in 1..MaxEvents /\ to \in 1..MaxEvents /\ acked[p] + 1 <= to
      /\ acked[p] + 1 \in (acked[p] + 1)..(acked[p] + n)
  BY SMTT(30), <1>2, <1>3, SyncAssumption
<1>5. Fits(acked[p] + 1, to)
  BY <1>1, <1>2, <1>4, ChunkFits
<1>6. /\ push'[p].on /\ push'[p].at = acked[p] + 1 /\ push'[p].to = to
      /\ push'[p].hi = acked[p] + n /\ \A q \in Pushers \ {p} : push'[q] = push[q]
  BY <1>1, <1>3
<1>7. provider = "s2" => ChunkOK(p)'
  BY <1>2, <1>5, <1>6 DEF ChunksFit, ChunkOK, Fits, Metered
<1>. QED
  BY <1>2, <1>6, <1>7, OneChunk

LEMMA NextChunkFits ==
    ASSUME IInv, ChunksFit, NEW p \in Pushers, S2NextChunk(p)
    PROVE  ChunksFit'
<1>1. PICK to \in (push[p].to + 1)..push[p].hi :
          /\ IsChunk(push[p].to + 1, to, push[p].hi)
          /\ push' = [push EXCEPT ![p].at = push[p].to + 1, ![p].to = to,
                                  ![p].tries = Retries, ![p].sent = FALSE]
  BY DEF S2NextChunk
<1>2. provider = "s2" /\ push[p].on /\ UNCHANGED <<provider, late>>
  BY DEF S2NextChunk
<1>3. /\ push \in [Pushers -> PushRecords] /\ push[p] \in PushRecords
      /\ push[p].at <= push[p].to /\ push[p].at \in 1..MaxEvents
      /\ push[p].to \in 1..MaxEvents /\ push[p].hi \in 0..MaxEvents
  BY <1>2, PushRanges, RecordFields DEF IInv, PushInv, PushTypes, PostOK
<1>4. /\ push[p].to + 1 \in 1..MaxEvents /\ to \in 1..MaxEvents /\ push[p].to + 1 <= to
      /\ push[p].to + 1 \in push[p].at..push[p].hi
      /\ (push[p].to + 1)..push[p].hi \subseteq push[p].at..push[p].hi
  <2>. PICK a \in Nat \ {0} : a = push[p].at
    BY <1>3
  <2>. PICK b \in Nat \ {0} : b = push[p].to
    BY <1>3
  <2>. PICK h \in Nat : h = push[p].hi
    BY <1>3
  <2>1. to \in Nat /\ b + 1 <= to /\ to <= h /\ a <= b /\ h <= MaxEvents
    BY <1>3, SyncAssumption
  <2>2. /\ b + 1 \in 1..MaxEvents /\ to \in 1..MaxEvents /\ b + 1 \in a..h
        /\ (b + 1)..h \subseteq a..h
    <3>1. b + 1 \in 1..MaxEvents /\ to \in 1..MaxEvents
      <4>. PICK m \in Nat : m = MaxEvents
        BY SyncAssumption
      <4>1. 1 <= b + 1 /\ b + 1 <= m /\ 1 <= to /\ to <= m
        BY <2>1
      <4>. QED
        BY <2>1, <4>1
    <3>2. b + 1 \in a..h
      BY <2>1
    <3>3. (b + 1)..h \subseteq a..h
      BY <2>1
    <3>. QED
      BY <3>1, <3>2, <3>3
  <2>. QED
    BY <2>1, <2>2
<1>5. \A k \in push[p].at..push[p].hi : Weight[k] <= MaxBytes
  BY <1>2 DEF ChunksFit, ChunkOK
<1>6. Fits(push[p].to + 1, to)
  BY <1>1, <1>4, <1>5, ChunkFits
<1>7. /\ push'[p].at = push[p].to + 1 /\ push'[p].to = to
      /\ push'[p].hi = push[p].hi /\ \A q \in Pushers \ {p} : push'[q] = push[q]
  BY <1>1, <1>3 DEF PushRecords
<1>8. ChunkOK(p)'
  BY <1>2, <1>4, <1>5, <1>6, <1>7 DEF ChunksFit, ChunkOK, Fits, Metered
<1>. QED
  BY <1>2, <1>7, <1>8, OneChunk

LEMMA OtherChunks ==
    ASSUME IInv, ChunksFit, NEW p \in Pushers,
           S2Append(p) \/ S2Acked(p) \/ S2PushFails(p) \/ S2LateAppend(p)
    PROVE  ChunksFit'
<1>1. /\ push \in [Pushers -> PushRecords] /\ push[p] \in PushRecords /\ ~Idle.on
      /\ late \in [Pushers -> SUBSET ((1..MaxEvents) \X (1..MaxEvents))]
  BY PushRanges, IdleRecord DEF IInv, PushInv, PushTypes
<1>2. provider = "s2" /\ ChunkOK(p) /\ UNCHANGED provider
  BY DEF ChunksFit, S2Append, S2Acked, S2PushFails, S2LateAppend
<1>3. CASE S2Append(p) \/ S2LateAppend(p)
  <2>1. /\ push'[p].on = push[p].on /\ push'[p].at = push[p].at /\ push'[p].to = push[p].to
        /\ push'[p].hi = push[p].hi /\ late'[p] \subseteq late[p]
        /\ \A q \in Pushers \ {p} : push'[q] = push[q] /\ late'[q] = late[q]
    BY <1>1, <1>3 DEF S2Append, S2LateAppend, PushRecords
  <2>2. ChunkOK(p)'
    BY <1>2, <2>1 DEF ChunkOK, Fits, Metered
  <2>. QED
    BY <1>2, <2>1, <2>2, OneChunk
<1>4. CASE S2Acked(p)
  <2>1. /\ ~push'[p].on /\ late' = late
        /\ \A q \in Pushers \ {p} : push'[q] = push[q]
    BY <1>1, <1>4 DEF S2Acked
  <2>2. ChunkOK(p)'
    BY <1>2, <2>1 DEF ChunkOK, Fits, Metered
  <2>. QED
    BY <1>2, <2>1, <2>2, OneChunk
<1>5. CASE S2PushFails(p)
  <2>1. push[p].on /\ GaveUp(p)
    BY <1>5 DEF S2PushFails
  <2>2. late'[p] \subseteq late[p] \cup {<<push[p].at, push[p].to>>}
        /\ \A q \in Pushers \ {p} : late'[q] = late[q]
    BY <1>1, <2>1 DEF GaveUp
  <2>3. /\ \A q \in Pushers \ {p} : push'[q] = push[q]
        /\ push'[p].on => /\ push'[p].at = push[p].at /\ push'[p].to = push[p].to
                          /\ push'[p].hi = push[p].hi
    BY <1>1, <1>5 DEF S2PushFails, PushRecords
  <2>4. \A r \in late'[p] : Fits(r[1], r[2])
    BY <1>2, <2>1, <2>2 DEF ChunkOK
  <2>5. ChunkOK(p)'
    BY <1>2, <2>1, <2>3, <2>4 DEF ChunkOK, Fits, Metered
  <2>. QED
    BY <1>2, <2>2, <2>3, <2>5, OneChunk
<1>. QED
  BY <1>3, <1>4, <1>5

\* Every step keeps the chunks, and appends no more than one.
LEMMA ChunkSteps ==
    ASSUME IInv, ChunksFit, [Next]_vars
    PROVE  ChunksFit' /\ AppendFits
<1>1. log \in Seq(Events \cup {NoBody})
  BY DEF IInv, PushInv, PushTypes
<1>2. CASE UNCHANGED vars
  BY <1>1, <1>2, SameChunks, NothingAppended DEF vars, pushVars
<1>3. ASSUME NEW p \in Pushers, S2Append(p) \/ S2LateAppend(p)
      PROVE  ChunksFit' /\ AppendFits
  <2>1. provider = "s2" /\ PostOK(p) /\ LateOK(p)
        /\ late[p] \in SUBSET ((1..MaxEvents) \X (1..MaxEvents))
        /\ (push[p].on => push[p].at \in 1..MaxEvents /\ push[p].to \in 1..MaxEvents)
    BY <1>3, PushRanges DEF IInv, S2Append, S2LateAppend
  <2>2. ChunkOK(p)
    BY <2>1 DEF ChunksFit
  <2>3. PICK lo \in 1..MaxEvents, hi \in 1..MaxEvents :
            lo <= hi /\ Fits(lo, hi) /\ Appended(p, lo, hi)
    <3>1. CASE S2Append(p)
      BY <2>1, <2>2, <3>1 DEF S2Append, ChunkOK, PostOK
    <3>2. CASE S2LateAppend(p)
      <4>1. PICK r \in late[p] : Appended(p, r[1], r[2])
        BY <3>2 DEF S2LateAppend
      <4>2. r[1] \in 1..MaxEvents /\ r[2] \in 1..MaxEvents /\ r[1] <= r[2] /\ Fits(r[1], r[2])
        BY <2>1, <2>2 DEF LateOK, ChunkOK
      <4>. QED
        BY <4>1, <4>2
    <3>. QED
      BY <1>3, <3>1, <3>2
  <2>. QED
    BY <1>1, <1>3, <2>3, ChunkAppends, OtherChunks
<1>4. ASSUME NEW p \in Pushers,
             \/ \E n \in 1..MaxEvents : S2Push(p, n)
             \/ S2NextChunk(p) \/ S2Acked(p) \/ S2PushFails(p)
      PROVE  ChunksFit' /\ AppendFits
  <2>1. UNCHANGED log
    BY <1>4 DEF S2Push, S2NextChunk, S2Acked, S2PushFails
  <2>. QED
    BY <1>1, <1>4, <2>1, PushChunks, NextChunkFits, OtherChunks, NothingAppended
<1>5. CASE S2Command
  <2>1. UNCHANGED <<provider, push, late>>
    BY <1>5 DEF S2Command, pushVars
  <2>. QED
    BY <1>1, <1>5, <2>1, SameChunks, CommandAppended
<1>6. CASE ElectricNext
  <2>1. provider = "electric" /\ UNCHANGED provider
    BY <1>6 DEF ElectricNext, ElectricPush, ElectricInsert, ElectricAcked, ElectricPushFails,
                ElectricLateInsert, ElectricRotates, ElectricPage, ElectricUpToDate,
                ElectricNoTable, ElectricShapeGone, ElectricReadFails, Asking, NoEvents
  <2>. QED
    BY <2>1 DEF ChunksFit, AppendFits
<1>7. ASSUME NEW c \in Pullers,
             \/ \E hi \in 1..Len(log) : S2Batch(c, hi)
             \/ S2ReadEnds(c) \/ S2TailEnds(c) \/ S2ReadFails(c) \/ Store(c) \/ Crash(c)
             \/ \E live \in BOOLEAN : StartPull(c, live)
      PROVE  ChunksFit' /\ AppendFits
  <2>1. UNCHANGED <<provider, log, push, late>>
    BY <1>7 DEF S2Batch, S2ReadEnds, S2TailEnds, S2ReadFails, Store, Crash, StartPull, pushVars
  <2>. QED
    BY <1>1, <2>1, SameChunks, NothingAppended
<1>. QED
  BY <1>2, <1>3, <1>4, <1>5, <1>6, <1>7 DEF Next, S2Next
-----------------------------------------------------------------------------
(* The end of a pull                                                       *)

\* A pull that ends by itself is at the end of the log, and has handed on, or the
\* client has stored, every event up to there.
LEMMA PullEnds ==
    ASSUME IInv, [Next]_vars, NEW c \in Pullers
    PROVE  EndsAtTail(c)
<1>. SUFFICES ASSUME pull[c].on, ~pull[c].live, ~pull'[c].on, faults' = faults,
                     pull[c].handle \in {0, shape}
              PROVE  Decoded(1, Len(log)) \subseteq got'[c] \cup inbox'[c].events
  BY DEF EndsAtTail
<1>1. /\ PullOK(c) /\ pull \in [Pullers -> PullRecords] /\ pull[c] \in PullRecords
      /\ inbox \in [Pullers -> Items] /\ log \in Seq(Events \cup {NoBody}) /\ faults \in Nat
  BY SyncAssumption, PullRanges DEF IInv, PullInv, PullTypes, PushInv, PushTypes
<1>2. ~Fault
  BY <1>1 DEF Fault
<1>3. pull' # pull
  OBVIOUS
<1>4. ASSUME NEW d \in Pullers, d # c, pull' = [pull EXCEPT ![d] = pull'[d]]
      PROVE  FALSE
  BY <1>1, <1>4
<1>5. CASE S2ReadEnds(c)
  <2>1. pull[c].pos = Len(log) /\ ~inbox[c].full /\ got' = got
    BY <1>5 DEF S2ReadEnds, Reading
  <2>2. inbox[c].events = {} /\ Covered(c, Len(log))
    BY <1>1, <2>1 DEF PullOK
  <2>. QED
    BY <2>1, <2>2 DEF Covered
<1>6. CASE ElectricUpToDate(c)
  <2>1. pull[c].from = Len(log) /\ ~inbox[c].full /\ got' = got
    BY <1>6 DEF ElectricUpToDate, Asking, NoEvents
  <2>2. inbox[c].events = {} /\ Covered(c, Len(log))
    BY <1>1, <2>1 DEF PullOK
  <2>. QED
    BY <2>1, <2>2 DEF Covered
<1>7. CASE ElectricNoTable(c)
  BY <1>7 DEF ElectricNoTable, Decoded
<1>8. CASE ElectricShapeGone(c)
  BY <1>8 DEF ElectricShapeGone, KnownHandle
<1>9. UNCHANGED pull \/ Fault
      => Decoded(1, Len(log)) \subseteq got'[c] \cup inbox'[c].events
  BY <1>2, <1>3
<1>10. ASSUME NEW d \in Pullers,
              \/ \E hi \in 1..Len(log) : S2Batch(d, hi) \/ ElectricPage(d, hi)
              \/ S2TailEnds(d) \/ \E live \in BOOLEAN : StartPull(d, live)
       PROVE  FALSE
  <2>1. pull'[d].on = pull[d].on \/ ~pull[d].on
    <3>1. CASE \E live \in BOOLEAN : StartPull(d, live)
      BY <3>1 DEF StartPull
    <3>2. pull[d] \in PullRecords
      BY <1>1
    <3>3. CASE \E hi \in 1..Len(log) : S2Batch(d, hi)
      BY <1>1, <3>2, <3>3 DEF S2Batch, PullRecords
    <3>4. CASE \E hi \in 1..Len(log) : ElectricPage(d, hi)
      BY <1>1, <3>2, <3>4 DEF ElectricPage, PullRecords
    <3>5. CASE S2TailEnds(d)
      BY <1>1, <3>2, <3>5 DEF S2TailEnds, PullRecords
    <3>. QED
      BY <1>10, <3>1, <3>3, <3>4, <3>5
  <2>2. \A e \in Pullers \ {d} : pull'[e] = pull[e]
    BY <1>1, <1>10 DEF S2Batch, ElectricPage, S2TailEnds, StartPull
  <2>. QED
    BY <2>1, <2>2
<1>11. ASSUME NEW d \in Pullers,
              \/ S2ReadEnds(d) \/ S2ReadFails(d) \/ Store(d) \/ Crash(d)
              \/ ElectricUpToDate(d) \/ ElectricNoTable(d)
              \/ ElectricShapeGone(d) \/ ElectricReadFails(d)
       PROVE  Decoded(1, Len(log)) \subseteq got'[c] \cup inbox'[c].events
  <2>1. CASE S2ReadFails(d) \/ Store(d) \/ Crash(d) \/ ElectricReadFails(d)
    BY <1>9, <2>1 DEF S2ReadFails, Store, Crash, ElectricReadFails
  <2>2. CASE d # c /\ (S2ReadEnds(d) \/ ElectricUpToDate(d) \/ ElectricNoTable(d) \/ ElectricShapeGone(d))
    <3>1. pull'[c] = pull[c]
      BY <1>1, <2>2 DEF S2ReadEnds, ElectricUpToDate, ElectricNoTable, ElectricShapeGone, NoEvents
    <3>. QED
      BY <3>1
  <2>. QED
    BY <1>5, <1>6, <1>7, <1>8, <1>11, <2>1, <2>2
<1>12. ASSUME NEW p \in Pushers,
              \/ \E n \in 1..MaxEvents : S2Push(p, n) \/ ElectricPush(p, n)
              \/ S2Append(p) \/ S2NextChunk(p) \/ S2Acked(p) \/ S2PushFails(p) \/ S2LateAppend(p)
              \/ ElectricInsert(p) \/ ElectricAcked(p) \/ ElectricPushFails(p)
              \/ ElectricLateInsert(p)
       PROVE  UNCHANGED pull
  BY <1>12 DEF S2Push, ElectricPush, S2Append, S2NextChunk, S2Acked, S2PushFails, S2LateAppend,
               ElectricInsert, ElectricAcked, ElectricPushFails, ElectricLateInsert, pullVars
<1>13. CASE S2Command \/ ElectricRotates \/ UNCHANGED vars
  BY <1>9, <1>13 DEF S2Command, ElectricRotates, vars, pullVars
<1>. QED
  BY <1>9, <1>10, <1>11, <1>12, <1>13 DEF Next, S2Next, ElectricNext
-----------------------------------------------------------------------------
(* The theorems                                                            *)

\* Every variable of the providers keeps its type.
THEOREM TypeCorrect == Spec => []TypeOK
<1>1. IInv => TypeOK
  BY DEF IInv, PushInv, PushTypes, PushRecords, PullInv, PullTypes, PullRecords, Items, Cursors,
         TypeOK
<1>. QED
  BY Always, <1>1, PTL

\* A push that succeeded is in the log, for every sequence of lost, repeated and
\* late requests.
THEOREM PushesAreKept == Spec => []AckedIsInLog
<1>1. IInv => AckedIsInLog
  BY DEF IInv, PushInv
<1>. QED
  BY Always, <1>1, PTL

\* The first copy of an event is behind a copy of every earlier event of its
\* writer, however the batch was cut and whatever was sent again.
THEOREM OrderIsKept == Spec => []LogKeepsOrder
<1>1. IInv => LogKeepsOrder
  BY DEF IInv, PushInv
<1>. QED
  BY Always, <1>1, PTL

\* What a client has stored is what its cursor says, after every crash.
THEOREM CursorsAreExact == Spec => []CursorIsExact
<1>1. IInv => CursorIsExact
  BY DEF IInv, PullInv, PullOK, CursorIsExact
<1>. QED
  BY Always, <1>1, PTL

\* Both providers implement EventDelivery: no gap, and nothing lost again.
THEOREM ProvidersKeepThePromise == Spec => KeepsThePromise
<1>1. Init => Delivery!Init
  BY DEF Init, Delivery!Init
<1>2. IInv /\ [Next]_vars => [Delivery!Next]_(Delivery!abstractVars)
  BY EveryStep DEF Delivery!abstractVars
<1>. QED
  BY Always, <1>1, <1>2, PTL DEF Spec, KeepsThePromise, Delivery!Spec

\* However a batch is cut, whatever is lost, sent again or arrives late: no
\* append exceeds the number of records and of bytes that S2 accepts.
THEOREM AppendsAreBounded == Spec => AppendsFit
<1>1. Init => ChunksFit
  BY IdleRecord DEF Init, ChunksFit, ChunkOK
<1>2. IInv /\ ChunksFit /\ [Next]_vars => ChunksFit' /\ AppendFits
  BY ChunkSteps
<1>. QED
  BY Always, <1>1, <1>2, PTL DEF Spec, AppendsFit

\* A pull that is not live and ends by itself has left out no event of the log.
THEOREM PullsReachTheEnd == Spec => PullEndsAtTail
<1>1. IInv /\ [Next]_vars => \A c \in Pullers : EndsAtTail(c)
  BY PullEnds
<1>. QED
  BY Always, <1>1, PTL DEF Spec, PullEndsAtTail
=============================================================================
