------------------------ MODULE DocsAssistantProofs ------------------------
(***************************************************************************)
(* For every number of slots, members, questions, faults and every size of *)
(* the windows and limits: what a question holds ends with it and, if what *)
(* is reserved for a request covers what it permits, what the provider may *)
(* bill for a month stays below the ceiling and the limits of admission    *)
(* hold.                                                                   *)
(***************************************************************************)
EXTENDS DocsAssistant, TotalsProofs

-----------------------------------------------------------------------------
(* The inductive invariant                                                 *)

\* A question has an id of its own, for as long as it is in its slot.
QuestionsOK ==
    /\ \A s \in Slots : q[s].step = "idle" => q[s] = NoQuestion
    /\ \A s \in Slots : q[s].step # "idle" =>
          q[s].id \in 1..asked /\ q[s].who \in Members /\ q[s].input \in Inputs
    /\ \A s, t \in Slots :
          q[s].step # "idle" /\ q[t].step # "idle" /\ q[s].id = q[t].id => s = t

\* On Cloudflare one question at a time is beyond the dispatch stream, so that
\* what it has loaded is the ledger until it writes it back.
CopiesAreFresh ==
    /\ \A s \in Slots : q[s].copy # None =>
          UsesStore(s) /\ host = "cloudflare" /\ q[s].copy = ledger
    /\ host = "cloudflare" =>
          \A s, t \in Slots :
             q[s].step \notin {"idle", "waiting"} /\ q[t].step \notin {"idle", "waiting"} => s = t

LedgerOK ==
    /\ IsFiniteSet(ledger)
    /\ \A e \in ledger : e.id <= asked
    /\ \A e, f \in ledger : e.id = f.id => e = f
    /\ ReservesEnough => \A m \in {e.month : e \in ledger} : SpentInMonth(ledger, m) <= Ceiling

\* The ledger has an entry for every bill, in the same month and, if what was
\* reserved covers it, no smaller.
BillsAreCovered ==
    /\ IsFiniteSet(bills)
    /\ \A b, c \in bills : b.id = c.id => b = c
    /\ \A b \in bills : \E e \in ledger :
          /\ e.id = b.id /\ e.month = b.month /\ e.status # "cancelled"
          /\ ReservesEnough => b.cost <= e.cost

Unreserved == {"waiting", "fetching", "reserving"}
Reserved == {"admitting", "cancelling", "answering", "settling"}
Unsent == Unreserved \cup {"admitting", "cancelling"}

\* What the ledger and the bills say of a question, by where it is.
Stage(s) ==
    /\ q[s].step \in Unreserved => \A e \in ledger : e.id # q[s].id
    /\ q[s].step \in Reserved => Entry(q[s].id, q[s].month, ReservedCost(s)) \in ledger
    /\ q[s].step \in Unsent => \A b \in bills : b.id # q[s].id
    /\ q[s].step = "settling" /\ ReservesEnough =>
          /\ q[s].cost <= ReservedCost(s)
          /\ \A b \in bills : b.id = q[s].id => b.cost <= q[s].cost
    /\ q[s].step = "recording" =>
          \A e \in ledger : e.id = q[s].id => e.status # "reserved"

StagesOK == \A s \in Slots : Stage(s)

\* A reservation is open only for a question that runs or was cut short.
OpenOK ==
    \A e \in ledger : e.status = "reserved" => e.id \in cut \cup {q[s].id : s \in Slots}

\* What was admitted is at the provider until it ends.
LogOK ==
    /\ IsFiniteSet(log)
    /\ \A e \in log : e.id <= asked /\ e.at <= now
    /\ \A e, f \in log : e.id = f.id => e = f
    /\ \A e \in log : e.end = None => \E s \in Admitted : q[s].id = e.id
    /\ \A e \in log, s \in Slots : q[s].id = e.id =>
          /\ q[s].step \notin Unsent /\ e.who = q[s].who
          /\ q[s].step = "answering" => e.end = None /\ e.used = Reservation(q[s].input)

Finite(b) == IsFiniteSet(b.requests) /\ IsFiniteSet(b.samples)

\* The admission state b of a member, or of all of them, against the reservations
\* f of the requests at the provider, and against what was admitted, L.
Counts(b, f) ==
    /\ b.running = Cardinality(DOMAIN f)
    /\ b.reserved = Total(f)

Remembers(b, L, t, w) ==
    /\ \A e \in L : In(e, t, w) => [id |-> e.id, at |-> e.at] \in b.requests
    /\ \A e \in L : e.end # None /\ t < e.end + TokenWindow =>
          [id |-> e.id, at |-> e.end, tokens |-> e.used] \in b.samples

WithinLimits(b, t, w, limits) ==
    /\ Cardinality(Prune(b, t, w).requests) <= limits.requests
    /\ ReservesEnough => TokenTotal(Prune(b, t, w)) + b.reserved <= limits.tokens

RequestsHold(L, t, w, limits) ==
    \A n \in 0..t : Cardinality({e \in L : In(e, n, w)}) <= limits.requests

BucketOK(b, f, L, t, w, limits) ==
    /\ Finite(b)
    /\ Counts(b, f)
    /\ Remembers(b, L, t, w)
    /\ WithinLimits(b, t, w, limits)
    /\ RequestsHold(L, t, w, limits)

AdmissionOK ==
    /\ BucketOK(total, Reservations(Admitted), log, now, GlobalWindow, GlobalLimits)
    /\ \A u \in Members :
          BucketOK(admission[u], Reservations(AdmittedOf(u)), LogOf(u), now,
                   MemberWindow, MemberLimits)

IInv ==
    /\ TypeOK
    /\ QuestionsOK /\ CopiesAreFresh
    /\ LedgerOK /\ BillsAreCovered /\ StagesOK /\ OpenOK
    /\ LogOK /\ AdmissionOK
-----------------------------------------------------------------------------
(* Tokens, costs and months                                                *)

\* Types of the constants and of what is computed from them.
LEMMA Numbers ==
    /\ ReservedOutput \in Nat /\ RequestedOutput \in Nat /\ Ceiling \in Nat /\ MonthLength \in Nat \ {0}
    /\ MemberWindow \in Nat \ {0} /\ GlobalWindow \in Nat \ {0} /\ TokenWindow \in Nat \ {0}
    /\ MemberLimits \in [running : Nat, requests : Nat, tokens : Nat]
    /\ GlobalLimits \in [running : Nat, requests : Nat, tokens : Nat]
    /\ MaxTime \in Nat /\ MaxQuestions \in Nat /\ MaxFaults \in Nat
    /\ \A input \in Inputs : input \in Nat
    /\ \A output \in Outputs : output \in 0..RequestedOutput
  BY BudgetAssumption, AssistantAssumption

\* A request costs a natural number, and no more than with all it may put out.
LEMMA CostIsNat ==
    ASSUME NEW input \in Nat, NEW output \in Nat
    PROVE  Cost(input, output) \in Nat
  BY DEF Cost

LEMMA CostGrows ==
    ASSUME NEW input \in Nat, NEW output \in Nat, NEW most \in Nat, output <= most
    PROVE  Cost(input, output) <= Cost(input, most)
  BY DEF Cost

LEMMA MonthIsNat ==
    ASSUME NEW t \in Nat
    PROVE  Month(t) \in Nat
  BY Numbers DEF Month

\* The admission states keep their type.
LEMMA TrafficIs ==
    ASSUME NEW b \in Traffic, NEW running \in Nat, NEW reserved \in Nat,
           NEW requests \in SUBSET [id : Ids, at : Nat],
           NEW samples \in SUBSET [id : Ids, at : Nat, tokens : Nat]
    PROVE  /\ [b EXCEPT !.running = running, !.reserved = reserved, !.requests = requests]
                  \in Traffic
           /\ [b EXCEPT !.running = running, !.reserved = reserved, !.samples = samples]
                  \in Traffic
           /\ [b EXCEPT !.requests = requests, !.samples = samples] \in Traffic
  BY DEF Traffic

LEMMA PruneKeepsType ==
    ASSUME NEW b \in Traffic, NEW at \in Nat, NEW w \in Nat
    PROVE  Prune(b, at, w) \in Traffic
  BY DEF Prune, Traffic

LEMMA AcquiredKeepsType ==
    ASSUME NEW b \in Traffic, NEW id \in Ids, NEW at \in Nat, NEW tokens \in Nat
    PROVE  Acquired(b, id, at, tokens) \in Traffic
<1>1. b.requests \cup {[id |-> id, at |-> at]} \in SUBSET [id : Ids, at : Nat]
  BY DEF Traffic
<1>2. b.running + 1 \in Nat /\ b.reserved + tokens \in Nat
  BY DEF Traffic
<1> QED
  BY <1>1, <1>2, TrafficIs DEF Acquired

LEMMA CompletedKeepsType ==
    ASSUME NEW b \in Traffic, NEW id \in Ids, NEW at \in Nat, NEW tokens \in Nat,
           NEW used \in Nat, NEW w \in Nat, b.running >= 1, b.reserved >= tokens
    PROVE  Completed(b, id, at, tokens, used, w) \in Traffic
<1> DEFINE samples == b.samples \cup {[id |-> id, at |-> at, tokens |-> used]}
           ended == [b EXCEPT !.running = b.running - 1, !.reserved = b.reserved - tokens,
                              !.samples = samples]
<1>1. samples \in SUBSET [id : Ids, at : Nat, tokens : Nat]
  BY DEF Traffic
<1>2. b.running - 1 \in Nat /\ b.reserved - tokens \in Nat
  BY DEF Traffic
<1>3. ended \in Traffic
  BY <1>1, <1>2, TrafficIs
<1>4. Completed(b, id, at, tokens, used, w) = Prune(ended, at, w)
  BY DEF Completed
<1> QED
  BY <1>3, <1>4, PruneKeepsType
-----------------------------------------------------------------------------
(* The admission state of a member, or of all of them                      *)

Admissions == [id : Ids, who : Members, at : Nat, used : Nat, end : Nat \cup {None}]

\* What the three operations on an admission state do, field by field.
LEMMA PruneIs ==
    ASSUME NEW b \in Traffic, NEW at, NEW w
    PROVE  /\ Prune(b, at, w).running = b.running
           /\ Prune(b, at, w).reserved = b.reserved
           /\ Prune(b, at, w).requests = {r \in b.requests : r.at + w > at}
           /\ Prune(b, at, w).samples = {x \in b.samples : x.at + TokenWindow > at}
  BY DEF Prune, Traffic

LEMMA AcquiredIs ==
    ASSUME NEW b \in Traffic, NEW id, NEW at, NEW tokens
    PROVE  /\ Acquired(b, id, at, tokens).running = b.running + 1
           /\ Acquired(b, id, at, tokens).reserved = b.reserved + tokens
           /\ Acquired(b, id, at, tokens).requests = b.requests \cup {[id |-> id, at |-> at]}
           /\ Acquired(b, id, at, tokens).samples = b.samples
  BY DEF Acquired, Traffic

LEMMA CompletedIs ==
    ASSUME NEW b \in Traffic, NEW id, NEW at, NEW tokens, NEW used, NEW w
    PROVE  /\ Completed(b, id, at, tokens, used, w).running = b.running - 1
           /\ Completed(b, id, at, tokens, used, w).reserved = b.reserved - tokens
           /\ Completed(b, id, at, tokens, used, w).requests =
                  {r \in b.requests : r.at + w > at}
           /\ Completed(b, id, at, tokens, used, w).samples =
                  {x \in b.samples \cup {[id |-> id, at |-> at, tokens |-> used]} :
                       x.at + TokenWindow > at}
  BY DEF Completed, Prune, Traffic

\* Fewer samples hold no more tokens.
LEMMA TokensOfPart ==
    ASSUME NEW b \in Traffic, NEW c \in Traffic, IsFiniteSet(b.samples),
           c.samples \subseteq b.samples
    PROVE  TokenTotal(c) \in Nat /\ TokenTotal(b) \in Nat /\ TokenTotal(c) <= TokenTotal(b)
<1> DEFINE f == [x \in c.samples |-> x.tokens]
           g == [x \in b.samples |-> x.tokens]
<1>1. f \in [c.samples -> Nat] /\ g \in [b.samples -> Nat]
  BY DEF Traffic
<1>2. \A x \in c.samples : f[x] <= g[x]
  BY <1>1
<1>3. IsFiniteSet(c.samples)
  BY FS_Subset
<1> QED
  <2> HIDE DEF f, g
  <2>1. Total(f) \in Nat /\ Total(g) \in Nat /\ Total(f) <= Total(g)
    BY <1>1, <1>2, <1>3, TotalOfPart, TotalIsNat
  <2> QED
    BY <2>1 DEF TokenTotal, f, g

\* One more sample adds its tokens at most.
LEMMA TokensAdded ==
    ASSUME NEW b \in Traffic, NEW c \in Traffic, IsFiniteSet(b.samples),
           NEW id \in Ids, NEW at \in Nat, NEW used \in Nat,
           c.samples = b.samples \cup {[id |-> id, at |-> at, tokens |-> used]}
    PROVE  TokenTotal(c) <= TokenTotal(b) + used
<1> DEFINE x == [id |-> id, at |-> at, tokens |-> used]
           f == [y \in c.samples |-> y.tokens]
           g == [y \in b.samples |-> y.tokens]
<1>1. CASE x \in b.samples
  <2>1. c.samples \subseteq b.samples
    BY <1>1
  <2>2. TokenTotal(c) <= TokenTotal(b) /\ TokenTotal(c) \in Nat /\ TokenTotal(b) \in Nat
    BY <2>1, TokensOfPart
  <2> QED
    BY <2>2
<1>2. CASE x \notin b.samples
  <2>1. f \in [c.samples -> Nat] /\ On(f, b.samples) = g /\ f[x] = used
    BY DEF Traffic, On
  <2>2. c.samples = b.samples \cup {x}
    OBVIOUS
  <2> HIDE DEF f, g, x
  <2>3. Total(f) = Total(g) + used
    BY <1>2, <2>1, <2>2, TotalAdds
  <2>4. TokenTotal(c) = Total(f) /\ TokenTotal(b) = Total(g)
    BY DEF TokenTotal, f, g
  <2>5. TokenTotal(c) \in Nat /\ IsFiniteSet(c.samples)
    <3>1. IsFiniteSet(c.samples)
      BY <2>2, FS_AddElement
    <3> QED
      BY <3>1, TokensOfPart
  <2> QED
    BY <2>3, <2>4, <2>5, TokensOfPart
<1> QED
  BY <1>1, <1>2

\* What is inside the windows later is inside them now.
LEMMA LimitsLast ==
    ASSUME NEW b \in Traffic, Finite(b), NEW c \in Traffic, Finite(c), NEW t \in Nat, NEW v \in Nat,
           t <= v, NEW w \in Nat, NEW limits \in [running : Nat, requests : Nat, tokens : Nat],
           c.requests \subseteq b.requests, c.samples \subseteq b.samples,
           c.reserved = b.reserved, WithinLimits(b, t, w, limits)
    PROVE  WithinLimits(c, v, w, limits)
<1> DEFINE P == Prune(b, t, w)
           Q == Prune(c, v, w)
<1>1. P \in Traffic /\ Q \in Traffic
  BY PruneKeepsType
<1>2. Q.requests \subseteq P.requests /\ Q.samples \subseteq P.samples
  <2>1. \A r \in b.requests : r.at \in Nat
    BY DEF Traffic
  <2>2. \A x \in b.samples : x.at \in Nat
    BY DEF Traffic
  <2>3. P.requests = {r \in b.requests : r.at + w > t} /\ Q.requests = {r \in c.requests : r.at + w > v}
    BY PruneIs
  <2>4. /\ P.samples = {x \in b.samples : x.at + TokenWindow > t}
        /\ Q.samples = {x \in c.samples : x.at + TokenWindow > v}
    BY PruneIs
  <2> HIDE DEF P, Q
  <2>5. Q.requests \subseteq P.requests
    BY <2>1, <2>3
  <2>6. Q.samples \subseteq P.samples
    BY <2>2, <2>4, Numbers
  <2> QED
    BY <2>5, <2>6
<1>3. P.requests \subseteq b.requests /\ P.samples \subseteq b.samples
  BY PruneIs
<1>4. IsFiniteSet(P.requests) /\ IsFiniteSet(P.samples)
  BY <1>3, FS_Subset DEF Finite
<1> HIDE DEF P, Q
<1>5. Cardinality(Q.requests) <= Cardinality(P.requests)
      /\ Cardinality(Q.requests) \in Nat /\ Cardinality(P.requests) \in Nat
  BY <1>2, <1>4, FS_Subset, FS_CardinalityType
<1>6. TokenTotal(Q) <= TokenTotal(P) /\ TokenTotal(Q) \in Nat /\ TokenTotal(P) \in Nat
  BY <1>1, <1>2, <1>4, TokensOfPart
<1>7. /\ Cardinality(P.requests) <= limits.requests
      /\ ReservesEnough => TokenTotal(P) + b.reserved <= limits.tokens
  BY DEF WithinLimits, P
<1>8. b.reserved \in Nat /\ limits.requests \in Nat /\ limits.tokens \in Nat
  BY DEF Traffic
<1>9. /\ Cardinality(Q.requests) <= limits.requests
      /\ ReservesEnough => TokenTotal(Q) + c.reserved <= limits.tokens
  BY <1>5, <1>6, <1>7, <1>8
<1> QED
  BY <1>9 DEF WithinLimits, Q

\* An admission that is refused still forgets what has left the windows.
LEMMA BucketPrunes ==
    ASSUME NEW b \in Traffic, NEW f, NEW L \in SUBSET Admissions, NEW t \in Nat, NEW w \in Nat,
           NEW limits \in [running : Nat, requests : Nat, tokens : Nat],
           BucketOK(b, f, L, t, w, limits)
    PROVE  BucketOK(Prune(b, t, w), f, L, t, w, limits)
<1> DEFINE P == Prune(b, t, w)
<1>1. P \in Traffic
  BY PruneKeepsType
<1>2. P.requests \subseteq b.requests /\ P.samples \subseteq b.samples /\ P.reserved = b.reserved
  BY PruneIs
<1>3. Finite(P)
  BY <1>2, FS_Subset DEF Finite, BucketOK
<1>4. Counts(P, f)
  BY PruneIs DEF Counts, BucketOK
<1>5. Remembers(P, L, t, w)
  <2>1. ASSUME NEW e \in L, In(e, t, w)
        PROVE  [id |-> e.id, at |-> e.at] \in P.requests
    <3>1. [id |-> e.id, at |-> e.at] \in b.requests
      BY <2>1 DEF BucketOK, Remembers
    <3> QED
      BY <2>1, <3>1, PruneIs DEF In, Admissions
  <2>2. ASSUME NEW e \in L, e.end # None, t < e.end + TokenWindow
        PROVE  [id |-> e.id, at |-> e.end, tokens |-> e.used] \in P.samples
    <3>1. [id |-> e.id, at |-> e.end, tokens |-> e.used] \in b.samples
      BY <2>2 DEF BucketOK, Remembers
    <3> QED
      BY <2>2, <3>1, PruneIs, Numbers DEF Admissions
  <2> QED
    BY <2>1, <2>2 DEF Remembers
<1>6. WithinLimits(P, t, w, limits)
  <2> HIDE DEF P
  <2> QED BY <1>1, <1>2, <1>3, LimitsLast DEF BucketOK
<1> QED
  BY <1>3, <1>4, <1>5, <1>6 DEF BucketOK

\* Nothing that was admitted enters a window by the time that passes.
LEMMA BucketTicks ==
    ASSUME NEW b \in Traffic, NEW f, NEW L \in SUBSET Admissions, NEW t \in Nat, NEW w \in Nat,
           NEW limits \in [running : Nat, requests : Nat, tokens : Nat],
           IsFiniteSet(L), \A e \in L : e.at <= t, BucketOK(b, f, L, t, w, limits)
    PROVE  BucketOK(b, f, L, t + 1, w, limits)
<1>1. Remembers(b, L, t + 1, w)
  <2>1. \A e \in L : In(e, t + 1, w) => In(e, t, w)
    BY DEF In, Admissions
  <2>2. \A e \in L : e.end # None /\ t + 1 < e.end + TokenWindow => t < e.end + TokenWindow
    BY Numbers DEF Admissions
  <2> QED
    BY <2>1, <2>2 DEF BucketOK, Remembers
<1>2. WithinLimits(b, t + 1, w, limits)
  BY LimitsLast DEF BucketOK
<1>3. RequestsHold(L, t + 1, w, limits)
  <2> SUFFICES ASSUME NEW n \in 0..(t + 1)
               PROVE  Cardinality({e \in L : In(e, n, w)}) <= limits.requests
    BY DEF RequestsHold
  <2>1. CASE n \in 0..t
    BY <2>1 DEF BucketOK, RequestsHold
  <2>2. CASE n = t + 1
    <3> DEFINE new == {e \in L : In(e, n, w)}
               old == {e \in L : In(e, t, w)}
    <3>1. new \subseteq old
      BY <2>2 DEF In, Admissions
    <3>2. IsFiniteSet(old)
      BY FS_Subset
    <3>3. Cardinality(old) <= limits.requests
      BY DEF BucketOK, RequestsHold
    <3> HIDE DEF new, old
    <3>4. Cardinality(new) <= Cardinality(old) /\ Cardinality(new) \in Nat /\ Cardinality(old) \in Nat
      BY <3>1, <3>2, FS_Subset, FS_CardinalityType
    <3>5. Cardinality(new) <= limits.requests
      BY <3>3, <3>4
    <3> QED
      BY <3>5 DEF new
  <2> QED
    BY <2>1, <2>2
<1> QED
  BY <1>1, <1>2, <1>3 DEF BucketOK

\* A request that is admitted is within the limits, and is remembered.
LEMMA BucketAdmits ==
    ASSUME NEW b \in Traffic, NEW S, IsFiniteSet(S), NEW f \in [S -> Nat], NEW x, x \notin S,
           NEW g \in [S \cup {x} -> Nat], On(g, S) = f,
           NEW L \in SUBSET Admissions, IsFiniteSet(L),
           \A e, d \in L : e.id = d.id => e = d,
           NEW t \in Nat, NEW w \in Nat \ {0},
           NEW limits \in [running : Nat, requests : Nat, tokens : Nat],
           NEW id \in Ids, \A e \in L : e.id # id, NEW tokens \in Nat, g[x] = tokens,
           NEW new \in Admissions, new.id = id, new.at = t, new.end = None,
           BucketOK(b, f, L, t, w, limits),
           HasRoom(Prune(b, t, w), tokens, limits)
    PROVE  BucketOK(Acquired(Prune(b, t, w), id, t, tokens), g, L \cup {new}, t, w, limits)
<1> DEFINE P == Prune(b, t, w)
           a == Acquired(P, id, t, tokens)
           M == L \cup {new}
           request == [id |-> id, at |-> t]
<1>1. P \in Traffic /\ a \in Traffic
  BY PruneKeepsType, AcquiredKeepsType
<1>2. BucketOK(P, f, L, t, w, limits)
  BY BucketPrunes
<1>3. /\ a.running = P.running + 1 /\ a.reserved = P.reserved + tokens
      /\ a.requests = P.requests \cup {request} /\ a.samples = P.samples
  BY <1>1, AcquiredIs
<1>4. /\ P.requests = {r \in P.requests : r.at + w > t}
      /\ P.samples = {y \in P.samples : y.at + TokenWindow > t}
  BY PruneIs
<1> HIDE DEF P, a
<1>5. Finite(P) /\ Finite(a)
  <2> HIDE DEF request
  <2>1. IsFiniteSet(P.requests) /\ IsFiniteSet(P.samples)
    BY <1>2 DEF BucketOK, Finite
  <2>2. IsFiniteSet(P.requests \cup {request})
    BY <2>1, FS_AddElement
  <2>3. a.requests = P.requests \cup {request} /\ a.samples = P.samples
    BY <1>3 DEF request
  <2> QED
    BY <2>1, <2>2, <2>3 DEF Finite
<1>6. Counts(a, g)
  <2>1. Cardinality(S \cup {x}) = Cardinality(S) + 1
    BY FS_AddElement
  <2>2. Total(g) = Total(f) + tokens
    BY TotalAdds
  <2>3. P.running = Cardinality(S) /\ P.reserved = Total(f)
    BY <1>2 DEF BucketOK, Counts
  <2> QED
    BY <1>3, <2>1, <2>2, <2>3 DEF Counts
<1>7. Remembers(a, M, t, w)
  <2>1. Remembers(P, L, t, w)
    BY <1>2 DEF BucketOK
  <2>2. new.id = id /\ new.at = t /\ new.end = None
    OBVIOUS
  <2> QED
    BY <1>3, <2>1, <2>2 DEF Remembers
<1>8. /\ Cardinality(P.requests) + 1 <= limits.requests
      /\ TokenTotal(P) + P.reserved + tokens <= limits.tokens
      /\ Cardinality(P.requests) \in Nat /\ TokenTotal(P) \in Nat /\ P.reserved \in Nat
  <2>1. Cardinality(P.requests) \in Nat
    BY <1>2, FS_CardinalityType DEF BucketOK, Finite
  <2>2. TokenTotal(P) \in Nat
    BY <1>1, <1>2, TokensOfPart DEF BucketOK, Finite
  <2>3. P.reserved \in Nat /\ limits.requests \in Nat
    BY <1>1 DEF Traffic
  <2>4. HasRoom(P, tokens, limits)
    BY DEF P
  <2> QED
    BY <2>1, <2>2, <2>3, <2>4 DEF HasRoom
<1>9. Cardinality(a.requests) <= Cardinality(P.requests) + 1
  <2> HIDE DEF request
  <2>1. IsFiniteSet(P.requests)
    BY <1>2 DEF BucketOK, Finite
  <2>2. Cardinality(P.requests \cup {request}) = Cardinality(P.requests)
        \/ Cardinality(P.requests \cup {request}) = Cardinality(P.requests) + 1
    BY <2>1, FS_AddElement
  <2>3. a.requests = P.requests \cup {request}
    BY <1>3 DEF request
  <2> QED
    BY <1>8, <2>2, <2>3
<1>10. WithinLimits(a, t, w, limits)
  <2> DEFINE Q == Prune(a, t, w)
  <2>1. Q \in Traffic
    BY <1>1, PruneKeepsType
  <2>7. Q.requests \subseteq a.requests /\ Q.samples \subseteq P.samples
    BY <1>1, <1>3, PruneIs
  <2> HIDE DEF Q
  <2>2. Cardinality(Q.requests) <= Cardinality(a.requests) /\ Cardinality(Q.requests) \in Nat
        /\ Cardinality(a.requests) \in Nat
    BY <1>5, <2>7, FS_Subset, FS_CardinalityType DEF Finite
  <2>3. TokenTotal(Q) <= TokenTotal(P) /\ TokenTotal(Q) \in Nat
    BY <1>1, <1>2, <2>1, <2>7, TokensOfPart DEF BucketOK, Finite
  <2>4. limits.requests \in Nat /\ limits.tokens \in Nat
    OBVIOUS
  <2>5. Cardinality(Q.requests) <= limits.requests
    BY <1>8, <1>9, <2>2, <2>4
  <2>6. TokenTotal(Q) + a.reserved <= limits.tokens
    BY <1>3, <1>8, <2>3, <2>4
  <2> QED
    BY <2>5, <2>6 DEF WithinLimits, Q
<1>11. RequestsHold(M, t, w, limits)
  <2> SUFFICES ASSUME NEW n \in 0..t
               PROVE  Cardinality({e \in M : In(e, n, w)}) <= limits.requests
    BY DEF RequestsHold
  <2>1. CASE n < t
    <3>1. {e \in M : In(e, n, w)} = {e \in L : In(e, n, w)}
      BY <2>1 DEF In
    <3> HIDE DEF M
    <3> QED
      BY <1>2, <3>1 DEF BucketOK, RequestsHold
  <2>2. CASE n = t
    <3> DEFINE then == {e \in M : In(e, n, w)}
               h == [e \in then |-> [id |-> e.id, at |-> e.at]]
    <3>1. \A e \in then : [id |-> e.id, at |-> e.at] \in a.requests
      <4>1. \A e \in L : In(e, t, w) => [id |-> e.id, at |-> e.at] \in P.requests
        BY <1>2 DEF BucketOK, Remembers
      <4>2. [id |-> new.id, at |-> new.at] \in a.requests
        BY <1>3
      <4>3. a.requests = P.requests \cup {request}
        BY <1>3
      <4> HIDE DEF request
      <4> QED
        BY <2>2, <4>1, <4>2, <4>3
    <3>2. \A e, d \in then : h[e] = h[d] => e = d
      <4>1. \A e, d \in M : e.id = d.id => e = d
        OBVIOUS
      <4>2. \A e \in then : h[e].id = e.id /\ e \in M
        OBVIOUS
      <4> HIDE DEF then, h, M
      <4> QED
        BY <4>1, <4>2
    <3>3. h \in [then -> a.requests]
      BY <3>1
    <3> HIDE DEF then, h
    <3>4. h \in Injection(then, a.requests)
      BY <3>2, <3>3 DEF Injection, IsInjective
    <3>5. IsFiniteSet(a.requests)
      BY <1>5 DEF Finite
    <3>6. Cardinality(then) <= Cardinality(a.requests) /\ Cardinality(then) \in Nat
          /\ Cardinality(a.requests) \in Nat
      BY <3>4, <3>5, FS_Injection, FS_CardinalityType
    <3>7. Cardinality(then) <= limits.requests
      BY <1>8, <1>9, <3>6
    <3> QED
      BY <3>7 DEF then
  <2> QED
    BY <2>1, <2>2
<1>12. BucketOK(a, g, M, t, w, limits)
  BY <1>5, <1>6, <1>7, <1>10, <1>11 DEF BucketOK
<1> QED
  BY <1>12 DEF a, P

Ended(L, id, used, at) ==
    {IF e.id = id THEN [e EXCEPT !.used = used, !.end = at] ELSE e : e \in L}

\* What has ended was there before, and only the request that ended has changed.
LEMMA EndedIs ==
    ASSUME NEW L \in SUBSET Admissions, NEW id, NEW used \in Nat, NEW at \in Nat
    PROVE  /\ Ended(L, id, used, at) \in SUBSET Admissions
           /\ \A d \in Ended(L, id, used, at) : \E e \in L :
                 /\ d.id = e.id /\ d.at = e.at /\ d.who = e.who
                 /\ e.id = id => d.used = used /\ d.end = at
                 /\ e.id # id => d = e
<1>1. ASSUME NEW e \in L
      PROVE  [e EXCEPT !.used = used, !.end = at] \in Admissions
  BY DEF Admissions
<1>2. \A e \in L : LET d == [e EXCEPT !.used = used, !.end = at] IN
          d.id = e.id /\ d.at = e.at /\ d.who = e.who /\ d.used = used /\ d.end = at
  BY DEF Admissions
<1> QED
  BY <1>1, <1>2 DEF Ended

\* A request that ends gives back what it has reserved, and what it has used
\* counts from then on.
LEMMA BucketCompletes ==
    ASSUME NEW b \in Traffic, NEW S, IsFiniteSet(S), NEW f \in [S -> Nat], NEW x \in S,
           NEW L \in SUBSET Admissions, IsFiniteSet(L),
           NEW t \in Nat, NEW w \in Nat \ {0},
           NEW limits \in [running : Nat, requests : Nat, tokens : Nat],
           NEW id \in Ids, NEW used \in Nat, ReservesEnough => used <= f[x],
           BucketOK(b, f, L, t, w, limits)
    PROVE  /\ b.running >= 1 /\ b.reserved >= f[x]
           /\ BucketOK(Completed(b, id, t, f[x], used, w), On(f, S \ {x}), Ended(L, id, used, t),
                       t, w, limits)
<1> DEFINE rest == S \ {x}
           c == Completed(b, id, t, f[x], used, w)
           sample == [id |-> id, at |-> t, tokens |-> used]
           M == Ended(L, id, used, t)
           P == Prune(b, t, w)
<1>1. b.running = Cardinality(S) /\ b.reserved = Total(f)
  BY DEF BucketOK, Counts
<1>2. IsFiniteSet(rest) /\ Cardinality(rest) \in Nat /\ Cardinality(S) = Cardinality(rest) + 1
  <2>1. IsFiniteSet(rest) /\ Cardinality(rest) = Cardinality(S) - 1
    BY FS_RemoveElement
  <2>2. Cardinality(S) \in Nat
    BY FS_CardinalityType
  <2> HIDE DEF rest
  <2>3. Cardinality(rest) \in Nat
    BY <2>1, FS_CardinalityType
  <2> QED
    BY <2>1, <2>2, <2>3
<1>3. Total(f) = Total(On(f, rest)) + f[x] /\ Total(On(f, rest)) \in Nat
  <2>1. On(f, rest) \in [rest -> Nat]
    BY DEF On
  <2>2. f \in [rest \cup {x} -> Nat] /\ x \notin rest
    <3>1. S = rest \cup {x}
      OBVIOUS
    <3> QED
      BY <3>1
  <2> HIDE DEF rest
  <2> QED
    BY <1>2, <2>1, <2>2, TotalAdds, TotalIsNat
<1>4. b.running >= 1 /\ b.reserved >= f[x]
  BY <1>1, <1>2, <1>3
<1>5. c \in Traffic /\ P \in Traffic
  BY <1>4, CompletedKeepsType, PruneKeepsType
<1>6. /\ c.running = b.running - 1 /\ c.reserved = b.reserved - f[x]
      /\ c.requests = {r \in b.requests : r.at + w > t}
      /\ c.samples = {y \in b.samples \cup {sample} : y.at + TokenWindow > t}
  BY CompletedIs
<1>7. /\ P.requests = {r \in b.requests : r.at + w > t}
      /\ P.samples = {y \in b.samples : y.at + TokenWindow > t}
  BY PruneIs
<1>8. /\ M \in SUBSET Admissions
      /\ \A d \in M : \E e \in L :
            /\ d.id = e.id /\ d.at = e.at
            /\ e.id = id => d.used = used /\ d.end = t
            /\ e.id # id => d = e
  BY EndedIs
<1>9. sample.id = id /\ sample.at = t /\ sample.tokens = used
  OBVIOUS
<1>10. Finite(b) /\ Finite(P)
  <2>1. Finite(b)
    BY DEF BucketOK
  <2> QED
    BY <1>7, <2>1, FS_Subset DEF Finite
<1>11. IsFiniteSet(P.samples \cup {sample}) /\ IsFiniteSet(b.samples \cup {sample})
  <2> HIDE DEF sample, P
  <2> QED BY <1>10, FS_AddElement DEF Finite
<1> HIDE DEF c, P
<1>12. Finite(c)
  <2> HIDE DEF sample
  <2> QED BY <1>6, <1>10, <1>11, FS_Subset DEF Finite
<1>13. Counts(c, On(f, rest))
  <2>1. DOMAIN On(f, rest) = rest
    BY DEF On
  <2> HIDE DEF rest
  <2> QED
    BY <1>1, <1>2, <1>3, <1>6, <2>1 DEF Counts
<1>14. Remembers(c, M, t, w)
  <2>1. Remembers(b, L, t, w)
    BY DEF BucketOK
  <2>2. ASSUME NEW d \in M, In(d, t, w)
        PROVE  [id |-> d.id, at |-> d.at] \in c.requests
    <3>1. PICK e \in L : d.id = e.id /\ d.at = e.at
      BY <1>8
    <3>2. [id |-> e.id, at |-> e.at] \in b.requests /\ e.at + w > t
      BY <2>1, <2>2, <3>1 DEF Remembers, In, Admissions
    <3>3. [id |-> e.id, at |-> e.at].at = e.at
      OBVIOUS
    <3> QED
      BY <1>6, <3>1, <3>2, <3>3
  <2>3. ASSUME NEW d \in M, d.end # None, t < d.end + TokenWindow
        PROVE  [id |-> d.id, at |-> d.end, tokens |-> d.used] \in c.samples
    <3>1. PICK e \in L : /\ d.id = e.id
                         /\ e.id = id => d.used = used /\ d.end = t
                         /\ e.id # id => d = e
      BY <1>8
    <3>2. CASE e.id = id
      <4>1. sample.at + TokenWindow > t
        BY <1>9, Numbers
      <4>2. sample \in c.samples
        <5> HIDE DEF sample
        <5> QED BY <1>6, <4>1
      <4> QED
        BY <3>1, <3>2, <4>2
    <3>3. CASE e.id # id
      <4>1. [id |-> e.id, at |-> e.end, tokens |-> e.used] \in b.samples
        BY <2>1, <2>3, <3>1, <3>3 DEF Remembers
      <4>2. [id |-> e.id, at |-> e.end, tokens |-> e.used].at = e.end /\ e.end + TokenWindow > t
        BY <2>3, <3>1, <3>3, Numbers DEF Admissions
      <4>3. [id |-> e.id, at |-> e.end, tokens |-> e.used] \in c.samples
        BY <1>6, <4>1, <4>2
      <4> QED
        BY <3>1, <3>3, <4>3
    <3> QED
      BY <3>2, <3>3
  <2> QED
    BY <2>2, <2>3 DEF Remembers
<1>15. WithinLimits(c, t, w, limits)
  <2> DEFINE Q == Prune(c, t, w)
             d == [P EXCEPT !.requests = P.requests, !.samples = P.samples \cup {sample}]
  <2>1. Q \in Traffic
    BY <1>5, PruneKeepsType
  <2>2. P.samples \cup {sample} \in SUBSET [id : Ids, at : Nat, tokens : Nat]
        /\ P.requests \in SUBSET [id : Ids, at : Nat]
    BY <1>5 DEF Traffic
  <2>3. d \in Traffic /\ d.samples = P.samples \cup {sample}
    BY <1>5, <2>2, TrafficIs DEF Traffic
  <2>4. Q.requests \subseteq P.requests /\ Q.samples \subseteq d.samples
    BY <1>5, <1>6, <1>7, <2>3, PruneIs
  <2> HIDE DEF d, Q
  <2>5. TokenTotal(d) <= TokenTotal(P) + used
    BY <1>5, <1>10, <2>3, TokensAdded DEF Finite
  <2>6. TokenTotal(Q) <= TokenTotal(d) /\ TokenTotal(Q) \in Nat /\ TokenTotal(d) \in Nat
    BY <1>11, <2>1, <2>3, <2>4, TokensOfPart
  <2>7. Cardinality(Q.requests) <= Cardinality(P.requests) /\ Cardinality(Q.requests) \in Nat
        /\ Cardinality(P.requests) \in Nat
    BY <1>10, <2>4, FS_Subset, FS_CardinalityType DEF Finite
  <2>8. TokenTotal(P) \in Nat
    BY <1>5, <1>10, TokensOfPart DEF Finite
  <2>9. /\ Cardinality(P.requests) <= limits.requests
        /\ ReservesEnough => TokenTotal(P) + b.reserved <= limits.tokens
    BY DEF BucketOK, WithinLimits, P
  <2>10. b.reserved \in Nat /\ limits.requests \in Nat /\ limits.tokens \in Nat /\ f[x] \in Nat
    BY DEF Traffic
  <2>11. Cardinality(Q.requests) <= limits.requests
    BY <2>7, <2>9, <2>10
  <2>12. ReservesEnough => TokenTotal(Q) + c.reserved <= limits.tokens
    BY <1>4, <1>6, <2>5, <2>6, <2>8, <2>9, <2>10
  <2> QED
    BY <2>11, <2>12 DEF WithinLimits, Q
<1>16. RequestsHold(M, t, w, limits)
  <2> SUFFICES ASSUME NEW n \in 0..t
               PROVE  Cardinality({d \in M : In(d, n, w)}) <= limits.requests
    BY DEF RequestsHold
  <2> DEFINE A == {e \in L : In(e, n, w)}
             B == {d \in M : In(d, n, w)}
             end(e) == IF e.id = id THEN [e EXCEPT !.used = used, !.end = t] ELSE e
             g == [e \in A |-> end(e)]
  <2>1. IsFiniteSet(A) /\ Cardinality(A) <= limits.requests
    BY FS_Subset DEF BucketOK, RequestsHold
  <2>2. \A e \in L : end(e).at = e.at
    BY DEF Admissions
  <2>3. M = {end(e) : e \in L}
    BY DEF Ended
  <2> HIDE DEF end, M
  <2>4. \A e \in A : g[e] \in B
    BY <2>2, <2>3 DEF In
  <2>5. \A d \in B : \E e \in A : g[e] = d
    BY <2>2, <2>3 DEF In
  <2>6. g \in [A -> B]
    BY <2>4
  <2> HIDE DEF A, B, g
  <2>7. g \in Surjection(A, B)
    BY <2>5, <2>6 DEF Surjection
  <2>8. IsFiniteSet(B) /\ Cardinality(B) <= Cardinality(A)
    BY <2>1, <2>7, FS_Surjection
  <2>9. Cardinality(A) \in Nat /\ Cardinality(B) \in Nat /\ limits.requests \in Nat
    BY <2>1, <2>8, FS_CardinalityType
  <2>10. Cardinality(B) <= limits.requests
    BY <2>1, <2>8, <2>9
  <2> QED
    BY <2>10 DEF B
<1>17. BucketOK(c, On(f, rest), M, t, w, limits)
  BY <1>12, <1>13, <1>14, <1>15, <1>16 DEF BucketOK
<1> QED
  BY <1>4, <1>17 DEF c

\* The tokens in use are those that are reserved for requests at the provider,
\* and the samples inside the window.
LEMMA BucketHolds ==
    ASSUME NEW b \in Traffic, NEW S, IsFiniteSet(S), NEW f \in [S -> Nat],
           NEW L \in SUBSET Admissions, IsFiniteSet(L),
           \A e, d \in L : e.id = d.id => e = d,
           NEW h \in Injection({e \in L : e.end = None}, S),
           \A e \in L : e.end = None => e.used <= f[h[e]],
           now \in Nat, NEW w \in Nat,
           NEW limits \in [running : Nat, requests : Nat, tokens : Nat],
           BucketOK(b, f, L, now, w, limits), ReservesEnough
    PROVE  UsedTokens(L) <= limits.tokens
<1> DEFINE R == {e \in L : e.end = None}
           E == {e \in L : e.end # None /\ now < e.end + TokenWindow}
           U == {e \in L : InUse(e, now)}
           used == [e \in U |-> e.used]
           P == Prune(b, now, w)
           tokens == [y \in P.samples |-> y.tokens]
           i == [e \in E |-> [id |-> e.id, at |-> e.end, tokens |-> e.used]]
<1>1. IsFiniteSet(R) /\ IsFiniteSet(E) /\ IsFiniteSet(U)
  BY FS_Subset
<1>2. U = R \cup E /\ R \cap E = {}
  BY DEF InUse
<1>3. used \in [U -> Nat]
  BY DEF Admissions
<1>4. On(used, R) \in [R -> Nat] /\ On(used, E) \in [E -> Nat]
      /\ (\A e \in R : On(used, R)[e] = e.used) /\ (\A e \in E : On(used, E)[e] = e.used)
  BY <1>2, <1>3 DEF On
<1>5. P \in Traffic
  BY PruneKeepsType
<1>6. tokens \in [P.samples -> Nat]
  BY <1>5 DEF Traffic
<1>7. \A e \in E : i[e] \in P.samples /\ tokens[i[e]] = e.used /\ i[e].id = e.id
  <2> SUFFICES ASSUME NEW e \in E
               PROVE  i[e] \in P.samples /\ tokens[i[e]] = e.used /\ i[e].id = e.id
    OBVIOUS
  <2>1. i[e] \in b.samples
    BY DEF BucketOK, Remembers
  <2>2. i[e].at = e.end /\ i[e].tokens = e.used /\ i[e].id = e.id
    OBVIOUS
  <2>3. e.end + TokenWindow > now
    BY Numbers DEF Admissions
  <2> HIDE DEF i, E
  <2>4. i[e] \in P.samples
    BY <2>1, <2>2, <2>3, PruneIs
  <2> QED
    BY <2>2, <2>4
<1>8. i \in [E -> P.samples]
  BY <1>7
<1>9. Finite(b) /\ Counts(b, f) /\ WithinLimits(b, now, w, limits)
  BY DEF BucketOK
<1>10. IsFiniteSet(P.samples)
  BY <1>9, PruneIs, FS_Subset DEF Finite
<1>11. \A e \in E : e \in L
  OBVIOUS
<1>12. \A e \in R : e.used <= f[h[e]]
  OBVIOUS
<1>13. h \in Injection(R, S)
  OBVIOUS
<1> HIDE DEF R, E, U, i, used, tokens, P
<1>14. i \in Injection(E, P.samples)
  BY <1>7, <1>8, <1>11 DEF Injection, IsInjective
<1>15. Total(used) = Total(On(used, R)) + Total(On(used, E))
  BY <1>1, <1>2, <1>3, TotalSplits
<1>16. Total(On(used, R)) <= Total(f)
  BY <1>1, <1>4, <1>12, <1>13, TotalGrows
<1>17. Total(On(used, E)) <= Total(tokens)
  <2>1. \A e \in E : On(used, E)[e] <= tokens[i[e]]
    <3>1. \A e \in E : e.used \in Nat
      BY <1>4
    <3> QED
      BY <1>4, <1>7, <3>1
  <2> QED
    BY <1>1, <1>4, <1>6, <1>10, <1>14, <2>1, TotalGrows
<1>18. Total(On(used, R)) \in Nat /\ Total(On(used, E)) \in Nat
       /\ Total(f) \in Nat /\ Total(tokens) \in Nat
  BY <1>1, <1>4, <1>6, <1>10, TotalIsNat
<1>19. Total(tokens) + Total(f) <= limits.tokens
  BY <1>9 DEF WithinLimits, Counts, TokenTotal, P, tokens
<1>20. limits.tokens \in Nat
  OBVIOUS
<1>21. Total(used) <= limits.tokens
  BY <1>15, <1>16, <1>17, <1>18, <1>19, <1>20
<1> QED
  BY <1>21 DEF UsedTokens, used, U
-----------------------------------------------------------------------------
(* The ledger                                                              *)

\* The entries that count for a month, with what they count for.
Counted(L, month) == {e \in L : e.status # "cancelled" /\ e.month = month}
Costs(L, month) == [e \in Counted(L, month) |-> e.cost]

LEMMA SpentIs ==
    ASSUME NEW L \in SUBSET Entries, IsFiniteSet(L), NEW m
    PROVE  /\ IsFiniteSet(Counted(L, m)) /\ Costs(L, m) \in [Counted(L, m) -> Nat]
           /\ SpentInMonth(L, m) = Total(Costs(L, m)) /\ SpentInMonth(L, m) \in Nat
<1>1. IsFiniteSet(Counted(L, m))
  BY FS_Subset DEF Counted
<1>2. Costs(L, m) \in [Counted(L, m) -> Nat]
  BY DEF Counted, Costs, Entries
<1>3. SpentInMonth(L, m) = Total(Costs(L, m))
  BY DEF SpentInMonth, Counted, Costs
<1> QED
  BY <1>1, <1>2, <1>3, TotalIsNat

\* A reservation adds its cost to its month, and nothing to the others.
LEMMA SpentAdds ==
    ASSUME NEW L \in SUBSET Entries, IsFiniteSet(L), NEW new \in Entries, new \notin L,
           new.status # "cancelled"
    PROVE  /\ L \cup {new} \in SUBSET Entries /\ IsFiniteSet(L \cup {new})
           /\ SpentInMonth(L \cup {new}, new.month) = SpentInMonth(L, new.month) + new.cost
           /\ \A m \in Nat \ {new.month} : SpentInMonth(L \cup {new}, m) = SpentInMonth(L, m)
<1> DEFINE M == L \cup {new}
<1> PICK month \in Nat : month = new.month
  BY DEF Entries
<1> PICK cost \in Nat : cost = new.cost
  BY DEF Entries
<1>1. M = L \cup {new}
  OBVIOUS
<1> HIDE DEF M
<1>2. M \in SUBSET Entries /\ IsFiniteSet(M)
  BY <1>1, FS_AddElement
<1>3. SpentInMonth(M, month) = SpentInMonth(L, month) + cost
  <2>1. Counted(M, month) = Counted(L, month) \cup {new} /\ new \notin Counted(L, month)
    BY <1>1 DEF Counted
  <2>2. On(Costs(M, month), Counted(L, month)) = Costs(L, month)
    BY <2>1 DEF On, Costs
  <2>3. Costs(M, month)[new] = cost
    BY <1>1, <2>1 DEF Costs
  <2>4. Costs(M, month) \in [Counted(L, month) \cup {new} -> Nat]
    BY <1>2, <2>1, SpentIs
  <2>5. IsFiniteSet(Counted(L, month))
    BY SpentIs
  <2>6. Total(Costs(M, month)) = Total(Costs(L, month)) + cost
    <3> DEFINE f == Costs(M, month)
               S == Counted(L, month)
    <3>1. IsFiniteSet(S) /\ new \notin S /\ f \in [S \cup {new} -> Nat]
      BY <2>1, <2>4, <2>5
    <3>2. On(f, S) = Costs(L, month) /\ f[new] = cost
      BY <2>2, <2>3
    <3> HIDE DEF f, S
    <3>3. Total(f) = Total(On(f, S)) + f[new]
      BY <3>1, TotalAdds
    <3> QED
      BY <3>2, <3>3 DEF f
  <2> QED
    BY <1>2, <2>6, SpentIs
<1>4. ASSUME NEW m \in Nat, m # month
      PROVE  SpentInMonth(M, m) = SpentInMonth(L, m)
  <2>1. Counted(M, m) = Counted(L, m)
    BY <1>1, <1>4 DEF Counted
  <2> QED
    BY <2>1 DEF SpentInMonth, Counted
<1> QED
  BY <1>2, <1>3, <1>4 DEF M

\* The entry e once the reservation of question id is settled.
Becomes(e, d, id, status, cost) ==
    /\ d.id = e.id /\ d.month = e.month
    /\ e.id = id /\ e.status = "reserved" => d.status = status /\ d.cost = cost
    /\ ~(e.id = id /\ e.status = "reserved") => d = e

\* Settling changes one entry at most, and keeps its id and its month.
LEMMA SettledIs ==
    ASSUME NEW L \in SUBSET Entries, IsFiniteSet(L), NEW id \in Ids,
           NEW status \in {"charged", "cancelled"}, NEW cost \in Nat
    PROVE  /\ Settled(L, id, status, cost) \in SUBSET Entries
           /\ IsFiniteSet(Settled(L, id, status, cost))
           /\ \A d \in Settled(L, id, status, cost) : \E e \in L : Becomes(e, d, id, status, cost)
           /\ \A e \in L : \E d \in Settled(L, id, status, cost) : Becomes(e, d, id, status, cost)
<1> DEFINE M == Settled(L, id, status, cost)
           after(e) == IF e.id = id /\ e.status = "reserved"
                         THEN [e EXCEPT !.status = status, !.cost = cost] ELSE e
           g == [e \in L |-> after(e)]
<1>1. \A e \in L : /\ after(e) \in Entries
                   /\ after(e).id = e.id /\ after(e).month = e.month
                   /\ e.id = id /\ e.status = "reserved" =>
                         after(e).status = status /\ after(e).cost = cost
                   /\ ~(e.id = id /\ e.status = "reserved") => after(e) = e
  BY DEF Entries
<1>2. M = {after(e) : e \in L}
  BY DEF Settled
<1> HIDE DEF after, M
<1>3. M \in SUBSET Entries
  BY <1>1, <1>2
<1>4. g \in Surjection(L, M)
  BY <1>2 DEF Surjection
<1>5. IsFiniteSet(M)
  <2> HIDE DEF g
  <2> QED BY <1>4, FS_Surjection
<1> QED
  BY <1>1, <1>2, <1>3, <1>5 DEF Becomes, M

\* Cancelling, and settling for no more than was reserved, spends no more.
LEMMA SpentSettles ==
    ASSUME NEW L \in SUBSET Entries, IsFiniteSet(L), \A e, d \in L : e.id = d.id => e = d,
           NEW id \in Ids, NEW status \in {"charged", "cancelled"}, NEW cost \in Nat,
           status = "cancelled" \/ \A e \in L : e.id = id => cost <= e.cost, NEW m \in Nat
    PROVE  SpentInMonth(Settled(L, id, status, cost), m) <= SpentInMonth(L, m)
<1> DEFINE M == Settled(L, id, status, cost)
           of(d) == CHOOSE e \in L : e.id = d.id
           h == [d \in Counted(M, m) |-> of(d)]
<1>1. /\ M \in SUBSET Entries /\ IsFiniteSet(M)
      /\ \A d \in M : \E e \in L : Becomes(e, d, id, status, cost)
  BY SettledIs
<1> HIDE DEF M
<1>2. ASSUME NEW d \in Counted(M, m)
      PROVE  /\ of(d) \in Counted(L, m) /\ of(d).id = d.id
             /\ d.cost <= of(d).cost
             /\ \/ d = of(d)
                \/ d.id = id /\ d.status = status /\ d.cost = cost /\ d.month = m
  <2>1. d \in M /\ d.status # "cancelled" /\ d.month = m
    BY DEF Counted
  <2>2. PICK e \in L : Becomes(e, d, id, status, cost)
    BY <1>1, <2>1
  <2>3. of(d) = e
    BY <2>2 DEF Becomes
  <2>4. e.status # "cancelled"
    BY <2>1, <2>2 DEF Becomes
  <2>5. e.cost \in Nat
    BY DEF Entries
  <2>6. d.cost <= e.cost
    BY <2>1, <2>2, <2>5 DEF Becomes
  <2> HIDE DEF of
  <2> QED
    BY <2>1, <2>2, <2>3, <2>4, <2>6 DEF Becomes, Counted
<1>3. \A d, c \in Counted(M, m) : of(d) = of(c) => d = c
  <2> SUFFICES ASSUME NEW d \in Counted(M, m), NEW c \in Counted(M, m), of(d) = of(c)
               PROVE  d = c
    OBVIOUS
  <2>1. d.id = c.id /\ d \in Entries /\ c \in Entries
    <3> HIDE DEF of
    <3> QED BY <1>1, <1>2 DEF Counted
  <2>2. PICK e \in L : Becomes(e, d, id, status, cost)
    BY <1>1 DEF Counted
  <2>3. PICK k \in L : Becomes(k, c, id, status, cost)
    BY <1>1 DEF Counted
  <2>4. e = k
    BY <2>1, <2>2, <2>3 DEF Becomes
  <2>5. (d.id = c.id /\ d.month = c.month /\ d.status = c.status /\ d.cost = c.cost) \/ d = c
    BY <2>1, <2>2, <2>3, <2>4 DEF Becomes
  <2> QED
    BY <2>1, <2>5 DEF Entries
<1>4. h \in Injection(Counted(M, m), Counted(L, m))
  <2> HIDE DEF of
  <2> QED BY <1>2, <1>3 DEF Injection, IsInjective
<1>5. \A d \in Counted(M, m) : Costs(M, m)[d] <= Costs(L, m)[h[d]]
  <2> HIDE DEF of
  <2> QED BY <1>2 DEF Costs
<1> HIDE DEF h, of
<1>6. Total(Costs(M, m)) <= Total(Costs(L, m))
  BY <1>1, <1>4, <1>5, SpentIs, TotalGrows
<1> QED
  BY <1>1, <1>6, SpentIs DEF M

\* Bills that the ledger covers come to no more than it has spent.
LEMMA BillsAreBounded ==
    ASSUME NEW L \in SUBSET Entries, IsFiniteSet(L),
           NEW B \in SUBSET [id : Ids, month : Nat, cost : Nat], IsFiniteSet(B),
           \A b, c \in B : b.id = c.id => b = c,
           \A b \in B : \E e \in L :
              e.id = b.id /\ e.month = b.month /\ e.status # "cancelled" /\ b.cost <= e.cost,
           NEW m \in Nat
    PROVE  Total([b \in {b \in B : b.month = m} |-> b.cost]) <= SpentInMonth(L, m)
<1> DEFINE S == {b \in B : b.month = m}
           f == [b \in S |-> b.cost]
           of(b) == CHOOSE e \in L : e.id = b.id /\ e.month = b.month /\ e.status # "cancelled"
                                     /\ b.cost <= e.cost
           h == [b \in S |-> of(b)]
<1>1. \A b \in S : of(b) \in L /\ of(b).id = b.id /\ of(b).month = m
                   /\ of(b).status # "cancelled" /\ b.cost <= of(b).cost
  OBVIOUS
<1>2. f \in [S -> Nat]
  OBVIOUS
<1>3. IsFiniteSet(S)
  BY FS_Subset
<1>4. \A b \in S : b \in B
  OBVIOUS
<1> HIDE DEF of, S
<1>5. \A b \in S : of(b) \in Counted(L, m)
  BY <1>1 DEF Counted
<1>6. h \in Injection(S, Counted(L, m))
  BY <1>1, <1>4, <1>5 DEF Injection, IsInjective
<1>7. \A b \in S : f[b] <= Costs(L, m)[h[b]]
  BY <1>1, <1>5 DEF Costs
<1> HIDE DEF h, f
<1>8. Total(f) <= Total(Costs(L, m))
  BY <1>2, <1>3, <1>6, <1>7, SpentIs, TotalGrows
<1> QED
  BY <1>8, SpentIs DEF f, S
-----------------------------------------------------------------------------
(* Types, and what a step does to the questions                            *)

\* The question in slot s has moved on or ended; the others are where they were.
Moves(s) ==
    /\ q' \in [Slots -> Questions]
    /\ \A t \in Slots \ {s} : q'[t] = q[t]
    /\ q[s].step # "idle"
    /\ \/ q'[s] = NoQuestion
       \/ /\ q'[s].step # "idle"
          /\ q'[s].id = q[s].id /\ q'[s].who = q[s].who /\ q'[s].input = q[s].input

LEMMA ReservationIsNat ==
    ASSUME TypeOK, QuestionsOK, NEW s \in Slots, q[s].step # "idle"
    PROVE  /\ ReservedCost(s) \in Nat /\ Reservation(q[s].input) \in Nat /\ q[s].input \in Nat
           /\ q[s].who \in Members /\ q[s].id \in Ids
<1>1. q[s].input \in Nat /\ q[s].who \in Members
  BY Numbers DEF QuestionsOK
<1>2. q[s].id \in Ids
  BY DEF TypeOK, QuestionsOK, Questions, Ids
<1>3. ReservedOutput \in Nat
  BY Numbers
<1>4. ReservedCost(s) \in Nat
  BY <1>1, <1>3, CostIsNat DEF ReservedCost
<1>5. Reservation(q[s].input) \in Nat
  BY <1>1, <1>3 DEF Reservation
<1> QED
  BY <1>1, <1>2, <1>4, <1>5

LEMMA NoQuestionIs ==
    NoQuestion \in Questions /\ NoQuestion.step = "idle" /\ NoQuestion.id = 0
    /\ NoQuestion.copy = None
  BY DEF NoQuestion, Questions, Steps

LEMMA EndsMoves ==
    ASSUME TypeOK, NEW s \in Slots, q[s].step # "idle", Ends(s)
    PROVE  Moves(s) /\ q'[s] = NoQuestion
  BY NoQuestionIs DEF TypeOK, Ends, Moves

LEMMA GoesMoves ==
    ASSUME TypeOK, NEW s \in Slots, q[s].step # "idle", NEW step \in Steps, step # "idle",
           Goes(s, step)
    PROVE  /\ Moves(s)
           /\ q'[s].step = step /\ q'[s].copy = None /\ q'[s].month = q[s].month
           /\ q'[s].id = q[s].id /\ q'[s].who = q[s].who /\ q'[s].input = q[s].input
           /\ q'[s].status = q[s].status /\ q'[s].cost = q[s].cost
  BY DEF TypeOK, Goes, Moves, Questions

To(s, step, status, cost) ==
    [q EXCEPT ![s].step = step, ![s].status = status, ![s].cost = cost]

LEMMA SettlesMoves ==
    ASSUME TypeOK, NEW s \in Slots, q[s].step # "idle", NEW step \in Steps, step # "idle",
           NEW status \in {"answered", "unusable", "cancelled"}, NEW cost \in Nat,
           q' = To(s, step, status, cost)
    PROVE  /\ Moves(s)
           /\ q'[s].step = step /\ q'[s].copy = q[s].copy /\ q'[s].month = q[s].month
           /\ q'[s].id = q[s].id /\ q'[s].who = q[s].who /\ q'[s].input = q[s].input
           /\ q'[s].status = status /\ q'[s].cost = cost
  BY ZenonT(30) DEF To, TypeOK, Moves, Questions

\* Every question has its reservation.
LEMMA ReservationsAre ==
    ASSUME TypeOK, QuestionsOK
    PROVE  /\ IsFiniteSet(Admitted) /\ Reservations(Admitted) \in [Admitted -> Nat]
           /\ \A u : /\ IsFiniteSet(AdmittedOf(u)) /\ AdmittedOf(u) \subseteq Admitted
                     /\ Reservations(AdmittedOf(u)) \in [AdmittedOf(u) -> Nat]
<1>1. IsFiniteSet(Admitted)
  BY AssistantAssumption, FS_Subset DEF Admitted
<1>2. \A s \in Admitted : Reservation(q[s].input) \in Nat
  BY ReservationIsNat DEF Admitted
<1>3. \A u : AdmittedOf(u) \subseteq Admitted
  BY DEF AdmittedOf
<1>4. \A u : IsFiniteSet(AdmittedOf(u))
  BY <1>1, <1>3, FS_Subset
<1> QED
  BY <1>1, <1>2, <1>3, <1>4 DEF Reservations

\* The requests at the provider, when a question stays away from it, ...
LEMMA NobodyJoins ==
    ASSUME NEW s \in Slots, Moves(s), q[s].step # "answering", q'[s].step # "answering"
    PROVE  /\ Reservations(Admitted)' = Reservations(Admitted) /\ Admitted' = Admitted
           /\ \A u : Reservations(AdmittedOf(u))' = Reservations(AdmittedOf(u))
<1>1. Admitted' = Admitted
  BY DEF Moves, Admitted
<1>2. \A t \in Admitted : q'[t] = q[t] /\ q[t] = q'[t]
  BY DEF Moves, Admitted
<1>3. \A u : AdmittedOf(u)' = AdmittedOf(u)
  BY <1>1, <1>2 DEF AdmittedOf
<1>4. \A t \in Admitted : Reservation(q'[t].input) = Reservation(q[t].input)
  BY <1>2
<1>5. Reservations(Admitted)' = Reservations(Admitted)
  BY <1>1, <1>4 DEF Reservations, Reservation
<1>6. \A u : Reservations(AdmittedOf(u))' = Reservations(AdmittedOf(u))
  BY <1>3, <1>4 DEF Reservations, AdmittedOf, Reservation
<1> QED
  BY <1>1, <1>5, <1>6

\* ... when it is sent there, ...
LEMMA OneJoins ==
    ASSUME NEW s \in Slots, Moves(s), q[s].step # "answering", q'[s].step = "answering",
           q'[s].input = q[s].input, q'[s].who = q[s].who, NEW u, u = q[s].who
    PROVE  /\ Admitted' = Admitted \cup {s} /\ s \notin Admitted
           /\ Reservations(Admitted)'[s] = Reservation(q[s].input)
           /\ On(Reservations(Admitted)', Admitted) = Reservations(Admitted)
           /\ AdmittedOf(u)' = AdmittedOf(u) \cup {s} /\ s \notin AdmittedOf(u)
           /\ Reservations(AdmittedOf(u))'[s] = Reservation(q[s].input)
           /\ On(Reservations(AdmittedOf(u))', AdmittedOf(u)) = Reservations(AdmittedOf(u))
           /\ \A v : v # u => Reservations(AdmittedOf(v))' = Reservations(AdmittedOf(v))
<1>1. Admitted' = Admitted \cup {s} /\ s \notin Admitted
  BY DEF Moves, Admitted
<1>2. \A t \in Admitted : q'[t] = q[t] /\ q[t] = q'[t]
  BY DEF Moves, Admitted
<1>3. AdmittedOf(u)' = AdmittedOf(u) \cup {s} /\ s \notin AdmittedOf(u)
  BY <1>1, <1>2 DEF AdmittedOf
<1>4. \A v : v # u => AdmittedOf(v)' = AdmittedOf(v)
  BY <1>1, <1>2 DEF AdmittedOf
<1>5. Reservations(Admitted)' = [t \in Admitted \cup {s} |-> Reservation(q'[t].input)]
  BY <1>1 DEF Reservations, Reservation
<1>6. Reservations(AdmittedOf(u))' =
          [t \in AdmittedOf(u) \cup {s} |-> Reservation(q'[t].input)]
  BY <1>3 DEF Reservations, Reservation
<1>7. \A t \in Admitted : Reservation(q'[t].input) = Reservation(q[t].input)
  BY <1>2
<1>8. \A v, t : t \in AdmittedOf(v) => t \in Admitted
  BY DEF AdmittedOf
<1>9. Reservations(Admitted)'[s] = Reservation(q[s].input)
      /\ On(Reservations(Admitted)', Admitted) = Reservations(Admitted)
  BY <1>5, <1>7 DEF On, Reservations
<1>10. Reservations(AdmittedOf(u))'[s] = Reservation(q[s].input)
       /\ On(Reservations(AdmittedOf(u))', AdmittedOf(u))
              = Reservations(AdmittedOf(u))
  BY <1>6, <1>7, <1>8 DEF On, Reservations
<1>11. \A v : v # u => Reservations(AdmittedOf(v))' = Reservations(AdmittedOf(v))
  BY <1>4, <1>7, <1>8 DEF Reservations, Reservation
<1> QED
  BY <1>1, <1>3, <1>9, <1>10, <1>11

\* ... and when it leaves.
LEMMA OneLeaves ==
    ASSUME NEW s \in Slots, Moves(s), q[s].step = "answering", q'[s].step # "answering",
           NEW u, u = q[s].who
    PROVE  /\ s \in Admitted
           /\ Reservations(Admitted)[s] = Reservation(q[s].input)
           /\ Reservations(Admitted)' = On(Reservations(Admitted), Admitted \ {s})
           /\ s \in AdmittedOf(u)
           /\ Reservations(AdmittedOf(u))[s] = Reservation(q[s].input)
           /\ Reservations(AdmittedOf(u))' = On(Reservations(AdmittedOf(u)), AdmittedOf(u) \ {s})
           /\ \A v : v # u => Reservations(AdmittedOf(v))' = Reservations(AdmittedOf(v))
<1>1. Admitted' = Admitted \ {s} /\ s \in Admitted
  BY DEF Moves, Admitted
<1>2. \A t \in Admitted \ {s} : q'[t] = q[t] /\ q[t] = q'[t]
  BY DEF Moves, Admitted
<1>3. AdmittedOf(u)' = AdmittedOf(u) \ {s} /\ s \in AdmittedOf(u)
  BY <1>1, <1>2 DEF AdmittedOf
<1>4. \A v : v # u => AdmittedOf(v)' = AdmittedOf(v) /\ s \notin AdmittedOf(v)
  BY <1>1, <1>2 DEF AdmittedOf
<1>5. \A t \in Admitted \ {s} : Reservation(q'[t].input) = Reservation(q[t].input)
  BY <1>2
<1>6. \A v, t : t \in AdmittedOf(v) => t \in Admitted
  BY DEF AdmittedOf
<1>7. Reservations(Admitted)[s] = Reservation(q[s].input)
      /\ Reservations(Admitted)' = On(Reservations(Admitted), Admitted \ {s})
  BY <1>1, <1>5 DEF On, Reservations, Reservation
<1>8. Reservations(AdmittedOf(u))[s] = Reservation(q[s].input)
      /\ Reservations(AdmittedOf(u))' =
             On(Reservations(AdmittedOf(u)), AdmittedOf(u) \ {s})
  BY <1>3, <1>5, <1>6 DEF On, Reservations, Reservation
<1>9. \A v : v # u => Reservations(AdmittedOf(v))' = Reservations(AdmittedOf(v))
  BY <1>4, <1>5, <1>6 DEF Reservations, Reservation
<1> QED
  BY <1>1, <1>3, <1>7, <1>8, <1>9
-----------------------------------------------------------------------------
(* What a question that moves does to each part of the invariant           *)

LEMMA QuestionsMove ==
    ASSUME QuestionsOK, NEW s \in Slots, Moves(s), asked' = asked
    PROVE  QuestionsOK'
<1>1. \A t \in Slots : q'[t].step = "idle" => q'[t] = NoQuestion
  BY DEF QuestionsOK, Moves
<1>2. \A t \in Slots : q'[t].step # "idle" =>
          /\ q[t].step # "idle"
          /\ q'[t].id = q[t].id /\ q'[t].who = q[t].who /\ q'[t].input = q[t].input
  BY NoQuestionIs DEF Moves
<1>3. \A t \in Slots : q'[t].step # "idle" =>
          q'[t].id \in 1..asked' /\ q'[t].who \in Members /\ q'[t].input \in Inputs
  BY <1>2 DEF QuestionsOK
<1>4. \A t, v \in Slots :
          q'[t].step # "idle" /\ q'[v].step # "idle" /\ q'[t].id = q'[v].id => t = v
  BY <1>2 DEF QuestionsOK
<1> QED
  BY <1>1, <1>3, <1>4 DEF QuestionsOK, NoQuestion

LEMMA CopiesMove ==
    ASSUME CopiesAreFresh, NEW s \in Slots, Moves(s), host' = host,
           q'[s].copy # None =>
              UsesStore(s)' /\ host = "cloudflare" /\ q'[s].copy = ledger',
           ledger' = ledger \/ q[s].step # "waiting",
           host = "cloudflare" /\ q[s].step = "waiting" /\ q'[s].step # "idle" =>
              \A t \in Slots \ {s} : q[t].step \in {"idle", "waiting"}
    PROVE  CopiesAreFresh'
<1>1. \A t \in Slots \ {s} : q'[t] = q[t]
  BY DEF Moves
<1>2. ASSUME NEW t \in Slots, q'[t].copy # None
      PROVE  UsesStore(t)' /\ host' = "cloudflare" /\ q'[t].copy = ledger'
  <2>1. CASE t = s
    BY <1>2, <2>1
  <2>2. CASE t # s
    <3>1. q'[t] = q[t]
      BY <1>1, <2>2
    <3>2. UsesStore(t) /\ host = "cloudflare" /\ q[t].copy = ledger
      BY <1>2, <3>1 DEF CopiesAreFresh
    <3>3. UsesStore(t)'
      BY <3>1, <3>2 DEF UsesStore
    <3>4. q[t].step \notin {"idle", "waiting"}
      BY <3>2 DEF UsesStore
    <3>5. q[s].step \in {"idle", "waiting"}
      BY <2>2, <3>2, <3>4 DEF CopiesAreFresh
    <3>6. ledger' = ledger
      BY <3>5 DEF Moves
    <3> QED
      BY <3>1, <3>2, <3>3, <3>6
  <2> QED
    BY <2>1, <2>2
<1>3. ASSUME host' = "cloudflare", NEW t \in Slots, NEW v \in Slots,
             q'[t].step \notin {"idle", "waiting"}, q'[v].step \notin {"idle", "waiting"}
      PROVE  t = v
  BY <1>1, <1>3, NoQuestionIs DEF CopiesAreFresh, Moves
<1> QED
  BY <1>2, <1>3 DEF CopiesAreFresh

\* Only what belongs to the question that moves has changed.
LEMMA StagesMove ==
    ASSUME QuestionsOK, StagesOK, NEW s \in Slots, Moves(s), Stage(s)',
           \A e \in ledger' : e \in ledger \/ e.id = q[s].id,
           \A e \in ledger : e \in ledger' \/ e.id = q[s].id,
           \A b \in bills' : b \in bills \/ b.id = q[s].id
    PROVE  StagesOK'
<1> SUFFICES ASSUME NEW t \in Slots, t # s PROVE Stage(t)'
  BY DEF StagesOK
<1>1. q'[t] = q[t]
  BY DEF Moves
<1>2. CASE q[t].step = "idle"
  BY <1>1, <1>2 DEF Stage, Unreserved, Reserved, Unsent
<1>3. CASE q[t].step # "idle"
  <2>1. q[t].id # q[s].id
    BY <1>3 DEF QuestionsOK, Moves
  <2>2. ReservedCost(t)' = ReservedCost(t)
    BY <1>1 DEF ReservedCost, Cost
  <2>3. Stage(t)
    BY DEF StagesOK
  <2>4. Entry(q[t].id, q[t].month, ReservedCost(t)).id = q[t].id
    BY DEF Entry
  <2>5. q[t].step \in Reserved => Entry(q[t].id, q[t].month, ReservedCost(t)) \in ledger'
    BY <2>1, <2>3, <2>4 DEF Stage
  <2>6. Entry(q[t].id, q[t].month, ReservedCost(t))' = Entry(q[t].id, q[t].month, ReservedCost(t))
    BY <1>1, <2>2 DEF Entry
  <2>7. q'[t].step \in Reserved => Entry(q[t].id, q[t].month, ReservedCost(t))' \in ledger'
    BY <1>1, <2>5, <2>6
  <2>8. /\ q'[t].step \in Unreserved => \A e \in ledger' : e.id # q'[t].id
        /\ q'[t].step \in Unsent => \A b \in bills' : b.id # q'[t].id
        /\ q'[t].step = "settling" /\ ReservesEnough =>
              \A b \in bills' : b.id = q'[t].id => b.cost <= q'[t].cost
        /\ q'[t].step = "recording" =>
              \A e \in ledger' : e.id = q'[t].id => e.status # "reserved"
    BY <1>1, <2>1, <2>3 DEF Stage
  <2>9. q'[t].step = "settling" /\ ReservesEnough => q'[t].cost <= ReservedCost(t)'
    BY <1>1, <2>2, <2>3 DEF Stage
  <2> QED
    BY <2>7, <2>8, <2>9 DEF Stage
<1> QED
  BY <1>2, <1>3

LEMMA OpenMoves ==
    ASSUME OpenOK, NEW s \in Slots, Moves(s),
           \A e \in ledger' : e \in ledger \/ e.id = q[s].id,
           cut \subseteq cut',
           \/ q'[s].id = q[s].id
           \/ q[s].id \in cut'
           \/ \A e \in ledger' : e.id = q[s].id => e.status # "reserved"
    PROVE  OpenOK'
<1> SUFFICES ASSUME NEW e \in ledger', e.status = "reserved"
             PROVE  e.id \in cut' \cup {q'[t].id : t \in Slots}
  BY DEF OpenOK
<1>1. CASE e.id = q[s].id
  BY <1>1
<1>2. CASE e.id # q[s].id
  <2>1. e \in ledger
    BY <1>2
  <2>2. e.id \in cut \cup {q[t].id : t \in Slots}
    BY <2>1 DEF OpenOK
  <2>3. ASSUME NEW t \in Slots, e.id = q[t].id PROVE e.id = q'[t].id
    BY <1>2, <2>3 DEF Moves
  <2> QED
    BY <2>2, <2>3
<1> QED
  BY <1>1, <1>2

LEMMA QuietStep ==
    ASSUME TypeOK, QuestionsOK, LogOK, AdmissionOK, NEW s \in Slots, Moves(s),
           q[s].step # "answering", q'[s].step # "answering",
           q[s].step \in Unsent \/ q'[s].step \notin Unsent,
           UNCHANGED <<now, asked, memory, log>>
    PROVE  LogOK' /\ AdmissionOK'
<1>1. /\ Reservations(Admitted)' = Reservations(Admitted) /\ Admitted' = Admitted
      /\ \A u : Reservations(AdmittedOf(u))' = Reservations(AdmittedOf(u))
  BY NobodyJoins
<1>2. admission' = admission /\ total' = total
  BY DEF memory
<1>3. AdmissionOK'
  <2>1. \A u : LogOf(u)' = LogOf(u)
    BY DEF LogOf
  <2>2. BucketOK(total', Reservations(Admitted)', log', now', GlobalWindow, GlobalLimits)
    BY <1>1, <1>2 DEF AdmissionOK
  <2>3. ASSUME NEW u \in Members
        PROVE  BucketOK(admission'[u], Reservations(AdmittedOf(u))', LogOf(u)', now',
                        MemberWindow, MemberLimits)
    BY <1>1, <1>2, <2>1 DEF AdmissionOK
  <2> QED
    BY <2>2, <2>3 DEF AdmissionOK
<1>4. LogOK'
  <2>1. \A t \in Admitted : q'[t] = q[t]
    BY DEF Moves, Admitted
  <2>2. \A e \in log : e.end = None => \E t \in Admitted' : q'[t].id = e.id
    BY <1>1, <2>1 DEF LogOK
  <2>3. ASSUME NEW e \in log, NEW t \in Slots, q'[t].id = e.id
        PROVE  /\ q'[t].step \notin Unsent /\ e.who = q'[t].who
               /\ q'[t].step = "answering" => e.end = None /\ e.used = Reservation(q[t].input)
    <3>1. CASE t # s
      <4>1. q'[t] = q[t]
        BY <3>1 DEF Moves
      <4> QED
        BY <2>3, <4>1 DEF LogOK
    <3>2. CASE t = s
      <4>1. e.id # 0
        BY DEF TypeOK, Ids
      <4>2. q'[s].id = q[s].id /\ q'[s].who = q[s].who
        BY <2>3, <3>2, <4>1, NoQuestionIs DEF Moves
      <4> QED
        BY <2>3, <3>2, <4>2 DEF LogOK
    <3> QED
      BY <3>1, <3>2
  <2>4. \A t \in Slots : q'[t].step = "answering" => q'[t].input = q[t].input
    BY <2>1, <1>1 DEF Admitted
  <2> QED
    BY <2>2, <2>3, <2>4 DEF LogOK, Reservation
<1> QED
  BY <1>3, <1>4

LEMMA LogIs ==
    ASSUME TypeOK, LogOK
    PROVE  /\ log \in SUBSET Admissions /\ IsFiniteSet(log)
           /\ \A e, d \in log : e.id = d.id => e = d
           /\ \A u : /\ LogOf(u) \in SUBSET Admissions /\ IsFiniteSet(LogOf(u))
                     /\ \A e, d \in LogOf(u) : e.id = d.id => e = d
<1>1. log \in SUBSET Admissions
  BY DEF TypeOK, Admissions
<1>2. \A u : LogOf(u) \subseteq log
  BY DEF LogOf
<1>3. IsFiniteSet(log)
  BY DEF LogOK
<1>4. \A u : IsFiniteSet(LogOf(u))
  BY <1>2, <1>3, FS_Subset
<1> QED
  BY <1>1, <1>2, <1>3, <1>4 DEF LogOK

\* What admission remembers of a member, and of all, is pruned.
LEMMA PrunedStep ==
    ASSUME TypeOK, QuestionsOK, LogOK, AdmissionOK, NEW s \in Slots, Moves(s),
           q[s].step = "admitting", q'[s].step = "cancelling",
           admission' = [admission EXCEPT ![q[s].who] = PrunedMember(q[s].who)],
           total' = PrunedTotal, UNCHANGED <<now, asked, log>>
    PROVE  /\ LogOK' /\ AdmissionOK'
           /\ admission' \in [Members -> Traffic] /\ total' \in Traffic
<1> PICK u \in Members : u = q[s].who
  BY ReservationIsNat
<1>1. now \in Nat /\ total \in Traffic /\ admission \in [Members -> Traffic]
  BY DEF TypeOK
<1>2. MemberWindow \in Nat /\ GlobalWindow \in Nat
      /\ MemberLimits \in [running : Nat, requests : Nat, tokens : Nat]
      /\ GlobalLimits \in [running : Nat, requests : Nat, tokens : Nat]
  BY Numbers
<1>3. PrunedMember(u) \in Traffic /\ PrunedTotal \in Traffic
  BY <1>1, <1>2, PruneKeepsType DEF PrunedMember, PrunedTotal
<1>4. admission' \in [Members -> Traffic] /\ total' \in Traffic
      /\ \A v \in Members : admission'[v] = IF v = u THEN PrunedMember(u) ELSE admission[v]
  BY <1>1, <1>3
<1>5. /\ Reservations(Admitted)' = Reservations(Admitted) /\ Admitted' = Admitted
      /\ \A v : Reservations(AdmittedOf(v))' = Reservations(AdmittedOf(v))
  BY NobodyJoins
<1>6. \A v : LogOf(v)' = LogOf(v)
  BY DEF LogOf
<1>7. BucketOK(total', Reservations(Admitted)', log', now', GlobalWindow, GlobalLimits)
  <2>1. BucketOK(total, Reservations(Admitted), log, now, GlobalWindow, GlobalLimits)
    BY DEF AdmissionOK
  <2> QED
    BY <1>1, <1>2, <1>5, <2>1, LogIs, BucketPrunes DEF PrunedTotal
<1>8. ASSUME NEW v \in Members
      PROVE  BucketOK(admission'[v], Reservations(AdmittedOf(v))', LogOf(v)', now',
                      MemberWindow, MemberLimits)
  <2>1. BucketOK(admission[v], Reservations(AdmittedOf(v)), LogOf(v), now,
                 MemberWindow, MemberLimits)
    BY DEF AdmissionOK
  <2>2. BucketOK(Prune(admission[v], now, MemberWindow), Reservations(AdmittedOf(v)), LogOf(v),
                 now, MemberWindow, MemberLimits)
    BY <1>1, <1>2, <2>1, LogIs, BucketPrunes
  <2> QED
    BY <1>4, <1>5, <1>6, <2>1, <2>2 DEF PrunedMember
<1>9. AdmissionOK'
  BY <1>7, <1>8 DEF AdmissionOK
<1>10. LogOK'
  <2>1. \A e \in log, t \in Slots : q'[t].id = e.id =>
           /\ q'[t].step \notin Unsent /\ e.who = q'[t].who
           /\ q'[t].step = "answering" => e.end = None /\ e.used = Reservation(q[t].input)
    <3> SUFFICES ASSUME NEW e \in log, NEW t \in Slots, q'[t].id = e.id
                 PROVE  /\ q'[t].step \notin Unsent /\ e.who = q'[t].who
                        /\ q'[t].step = "answering" =>
                              e.end = None /\ e.used = Reservation(q[t].input)
      OBVIOUS
    <3>1. t # s
      BY NoQuestionIs DEF LogOK, Moves, Unsent
    <3>2. q'[t] = q[t]
      BY <3>1 DEF Moves
    <3> QED
      BY <3>2 DEF LogOK
  <2>2. \A t \in Admitted : q'[t] = q[t]
    BY DEF Moves, Admitted
  <2>3. \A e \in log : e.end = None => \E t \in Admitted' : q'[t].id = e.id
    BY <1>5, <2>2 DEF LogOK
  <2>4. \A t \in Slots : q'[t].step = "answering" => q'[t].input = q[t].input
    BY <1>5, <2>2 DEF Admitted
  <2> QED
    BY <2>1, <2>3, <2>4 DEF LogOK, Reservation
<1> QED
  BY <1>4, <1>9, <1>10

\* A request is admitted.
LEMMA AcquireStep ==
    ASSUME TypeOK, QuestionsOK, LogOK, AdmissionOK, NEW s \in Slots, Acquire(s)
    PROVE  /\ Moves(s) /\ q'[s].step = "answering" /\ q'[s].copy = None
           /\ q'[s].id = q[s].id /\ q'[s].month = q[s].month /\ ReservedCost(s)' = ReservedCost(s)
           /\ LogOK' /\ AdmissionOK'
           /\ admission' \in [Members -> Traffic] /\ total' \in Traffic
           /\ log' \in SUBSET Admissions
<1>0. q[s].step = "admitting"
  BY DEF Acquire
<1>1. /\ Moves(s) /\ q'[s].step = "answering" /\ q'[s].copy = None
      /\ q'[s].id = q[s].id /\ q'[s].month = q[s].month
      /\ q'[s].who = q[s].who /\ q'[s].input = q[s].input
  BY <1>0, GoesMoves DEF Acquire, Steps
<1>2. ReservedCost(s)' = ReservedCost(s)
  BY <1>1 DEF ReservedCost, Cost
<1> PICK u \in Members : u = q[s].who
  BY <1>0, ReservationIsNat
<1> PICK id \in Ids : id = q[s].id
  BY <1>0, ReservationIsNat
<1> PICK tokens \in Nat : tokens = Reservation(q[s].input)
  BY <1>0, ReservationIsNat
<1> DEFINE new == [id |-> id, who |-> u, at |-> now, used |-> tokens, end |-> None]
<1>3. /\ admission' = [admission EXCEPT ![u] = Acquired(PrunedMember(u), id, now, tokens)]
      /\ total' = Acquired(PrunedTotal, id, now, tokens)
      /\ log' = log \cup {new} /\ now' = now /\ asked' = asked
      /\ HasRoom(PrunedMember(u), tokens, MemberLimits)
      /\ HasRoom(PrunedTotal, tokens, GlobalLimits)
  BY DEF Acquire, Admits
<1>4. now \in Nat /\ total \in Traffic /\ admission \in [Members -> Traffic]
  BY DEF TypeOK
<1>5. MemberWindow \in Nat \ {0} /\ GlobalWindow \in Nat \ {0}
      /\ MemberLimits \in [running : Nat, requests : Nat, tokens : Nat]
      /\ GlobalLimits \in [running : Nat, requests : Nat, tokens : Nat]
  BY Numbers
<1>6. Acquired(PrunedMember(u), id, now, tokens) \in Traffic
      /\ Acquired(PrunedTotal, id, now, tokens) \in Traffic
  BY <1>4, <1>5, PruneKeepsType, AcquiredKeepsType DEF PrunedMember, PrunedTotal
<1>7. admission' \in [Members -> Traffic] /\ total' \in Traffic
      /\ \A v \in Members : admission'[v] =
            IF v = u THEN Acquired(PrunedMember(u), id, now, tokens) ELSE admission[v]
  BY <1>3, <1>4, <1>6
<1>8. /\ Admitted' = Admitted \cup {s} /\ s \notin Admitted
      /\ Reservations(Admitted)'[s] = tokens
      /\ On(Reservations(Admitted)', Admitted) = Reservations(Admitted)
      /\ AdmittedOf(u)' = AdmittedOf(u) \cup {s} /\ s \notin AdmittedOf(u)
      /\ Reservations(AdmittedOf(u))'[s] = tokens
      /\ On(Reservations(AdmittedOf(u))', AdmittedOf(u)) = Reservations(AdmittedOf(u))
      /\ \A v : v # u => Reservations(AdmittedOf(v))' = Reservations(AdmittedOf(v))
  BY <1>0, <1>1, OneJoins
<1>9. /\ IsFiniteSet(Admitted) /\ Reservations(Admitted) \in [Admitted -> Nat]
      /\ IsFiniteSet(AdmittedOf(u))
      /\ Reservations(AdmittedOf(u)) \in [AdmittedOf(u) -> Nat]
  BY ReservationsAre
<1>10. /\ Reservations(Admitted)' \in [Admitted \cup {s} -> Nat]
       /\ Reservations(AdmittedOf(u))' \in [AdmittedOf(u) \cup {s} -> Nat]
  <2>1. QuestionsOK' /\ q' \in [Slots -> Questions]
    BY <1>1, <1>3, QuestionsMove DEF Moves
  <2>2. \A t \in Admitted' : Reservation(q'[t].input) \in Nat
    <3>1. \A t \in Admitted' : q'[t].input \in Inputs
      BY <2>1 DEF QuestionsOK, Admitted
    <3> QED
      BY <3>1, Numbers DEF Reservation
  <2>3. Reservations(Admitted)' \in [Admitted' -> Nat]
    BY <2>2 DEF Reservations, Reservation
  <2>4. AdmittedOf(u)' \subseteq Admitted'
    BY DEF AdmittedOf
  <2>5. Reservations(AdmittedOf(u))' \in [AdmittedOf(u)' -> Nat]
    BY <2>2, <2>4 DEF Reservations, Reservation
  <2> QED
    BY <1>8, <2>3, <2>5
<1>11. \A e \in log : e.id # id
  BY <1>0 DEF LogOK, Unsent
<1>12. LogOf(u)' = LogOf(u) \cup {new} /\ \A v : v # u => LogOf(v)' = LogOf(v)
  BY <1>3 DEF LogOf
<1>13. new \in Admissions /\ new.id = id /\ new.at = now /\ new.end = None /\ new.who = u
       /\ new.used = tokens
  BY <1>4 DEF Admissions
<1> HIDE DEF new
<1>14. BucketOK(total', Reservations(Admitted)', log', now', GlobalWindow, GlobalLimits)
  <2>1. BucketOK(total, Reservations(Admitted), log, now, GlobalWindow, GlobalLimits)
    BY DEF AdmissionOK
  <2>2. /\ log \in SUBSET Admissions /\ IsFiniteSet(log)
        /\ \A e, d \in log : e.id = d.id => e = d
    BY LogIs
  <2>3. HasRoom(Prune(total, now, GlobalWindow), tokens, GlobalLimits)
    BY <1>3 DEF PrunedTotal
  <2>4. BucketOK(Acquired(Prune(total, now, GlobalWindow), id, now, tokens),
                 Reservations(Admitted)', log \cup {new}, now, GlobalWindow, GlobalLimits)
    <3> DEFINE f == Reservations(Admitted)
               g == Reservations(Admitted)'
               S == Admitted
    <3>1. /\ IsFiniteSet(S) /\ f \in [S -> Nat] /\ s \notin S
          /\ g \in [S \cup {s} -> Nat] /\ On(g, S) = f /\ g[s] = tokens
      BY <1>8, <1>9, <1>10
    <3>2. BucketOK(total, f, log, now, GlobalWindow, GlobalLimits)
      BY <2>1
    <3>3. total \in Traffic /\ now \in Nat /\ GlobalWindow \in Nat \ {0}
          /\ GlobalLimits \in [running : Nat, requests : Nat, tokens : Nat]
      BY <1>4, <1>5
    <3> HIDE DEF f, g, S
    <3>4. BucketOK(Acquired(Prune(total, now, GlobalWindow), id, now, tokens),
                   g, log \cup {new}, now, GlobalWindow, GlobalLimits)
      BY ZenonT(30), <3>1, <3>2, <3>3, <1>11, <2>2, <2>3, <1>13, BucketAdmits
    <3> QED
      BY <3>4 DEF g
  <2> QED
    BY <1>3, <2>4 DEF PrunedTotal
<1>15. ASSUME NEW v \in Members
       PROVE  BucketOK(admission'[v], Reservations(AdmittedOf(v))', LogOf(v)', now',
                       MemberWindow, MemberLimits)
  <2>1. BucketOK(admission[v], Reservations(AdmittedOf(v)), LogOf(v), now,
                 MemberWindow, MemberLimits)
    BY DEF AdmissionOK
  <2>2. CASE v = u
    <3>1. /\ LogOf(u) \in SUBSET Admissions /\ IsFiniteSet(LogOf(u))
          /\ \A e, d \in LogOf(u) : e.id = d.id => e = d
      BY LogIs
    <3>2. HasRoom(Prune(admission[u], now, MemberWindow), tokens, MemberLimits)
      BY <1>3 DEF PrunedMember
    <3>3. \A e \in LogOf(u) : e.id # id
      BY <1>11 DEF LogOf
    <3>4. BucketOK(Acquired(Prune(admission[u], now, MemberWindow), id, now, tokens),
                   Reservations(AdmittedOf(u))', LogOf(u) \cup {new}, now,
                   MemberWindow, MemberLimits)
      BY <1>4, <1>5, <1>8, <1>9, <1>10, <2>1, <2>2, <3>1, <3>2, <3>3, <1>13, BucketAdmits
    <3> QED
      BY <1>3, <1>7, <1>12, <2>2, <3>4 DEF PrunedMember
  <2>3. CASE v # u
    BY <1>3, <1>7, <1>8, <1>12, <2>1, <2>3
  <2> QED
    BY <2>2, <2>3
<1>16. AdmissionOK'
  BY <1>14, <1>15 DEF AdmissionOK
<1>17. LogOK'
  <2>1. IsFiniteSet(log')
    BY <1>3, FS_AddElement DEF LogOK
  <2>2. new.id = id /\ new.at = now /\ new.end = None /\ new.who = u /\ new.used = tokens
    BY <1>13
  <2>3. id <= asked
    BY <1>0 DEF QuestionsOK
  <2>4. \A e \in log' : e.id <= asked' /\ e.at <= now'
    BY <1>3, <1>4, <2>2, <2>3 DEF LogOK
  <2>5. \A e, d \in log' : e.id = d.id => e = d
    BY <1>3, <1>11, <2>2 DEF LogOK
  <2>6. \A t \in Admitted : q'[t] = q[t]
    BY <1>1, <1>8 DEF Moves, Admitted
  <2>7. \A e \in log' : e.end = None => \E t \in Admitted' : q'[t].id = e.id
    BY <1>1, <1>3, <1>8, <2>2, <2>6 DEF LogOK
  <2>8. ASSUME NEW e \in log', NEW t \in Slots, q'[t].id = e.id
        PROVE  /\ q'[t].step \notin Unsent /\ e.who = q'[t].who
               /\ q'[t].step = "answering" => e.end = None /\ e.used = Reservation(q'[t].input)
    <3>1. CASE t = s
      <4>1. e = new
        BY <1>1, <1>3, <1>11, <2>8, <3>1
      <4> QED
        BY <1>1, <2>2, <3>1, <4>1 DEF Unsent, Unreserved
    <3>2. CASE t # s
      <4>1. q'[t] = q[t]
        BY <1>1, <3>2 DEF Moves
      <4>2. e # new
        <5>1. q[t].step # "idle"
          <6>1. e.id \in Ids
            BY <1>3, <1>13 DEF TypeOK
          <6>2. e.id # 0
            BY <6>1 DEF Ids
          <6> QED
            BY <2>8, <4>1, <6>2, NoQuestionIs DEF QuestionsOK
        <5> QED
          BY <1>0, <2>2, <2>8, <3>2, <4>1, <5>1 DEF QuestionsOK
      <4>3. e \in log
        BY <1>3, <4>2
      <4> QED
        BY <2>8, <4>1, <4>3 DEF LogOK
    <3> QED
      BY <3>1, <3>2
  <2> QED
    BY <2>1, <2>4, <2>5, <2>7, <2>8 DEF LogOK, Reservation
<1>18. log' \in SUBSET Admissions
  BY <1>3, <1>13 DEF TypeOK, Admissions
<1> QED
  BY <1>1, <1>2, <1>7, <1>16, <1>17, <1>18

\* A request ends, however it ends.
LEMMA FinishStep ==
    ASSUME TypeOK, QuestionsOK, CopiesAreFresh, LogOK, AdmissionOK, NEW s \in Slots,
           NEW used \in Nat, ReservesEnough => used <= Reservation(q[s].input), NEW cost \in Nat,
           NEW then \in {"answered", "unusable"},
           Finish(s, used, cost, then), UNCHANGED <<now, asked>>
    PROVE  /\ Moves(s) /\ q[s].step = "answering" /\ q'[s].step = "settling"
           /\ q'[s].copy = None /\ q'[s].cost = cost
           /\ q'[s].id = q[s].id /\ q'[s].month = q[s].month /\ ReservedCost(s)' = ReservedCost(s)
           /\ LogOK' /\ AdmissionOK'
           /\ admission' \in [Members -> Traffic] /\ total' \in Traffic
           /\ log' \in SUBSET Admissions
<1>0. q[s].step = "answering"
  BY DEF Finish
<1>1. /\ Moves(s) /\ q'[s].step = "settling" /\ q'[s].copy = q[s].copy /\ q'[s].cost = cost
      /\ q'[s].id = q[s].id /\ q'[s].month = q[s].month
      /\ q'[s].who = q[s].who /\ q'[s].input = q[s].input
  <2>1. q' = To(s, "settling", then, cost)
    BY DEF Finish, To
  <2>2. /\ "settling" \in Steps /\ "settling" # "idle" /\ q[s].step # "idle"
        /\ then \in {"answered", "unusable", "cancelled"}
    BY <1>0 DEF Steps
  <2> QED
    BY <2>1, <2>2, SettlesMoves
<1>2. ReservedCost(s)' = ReservedCost(s) /\ q[s].copy = None
  BY <1>0, <1>1 DEF ReservedCost, Cost, CopiesAreFresh, UsesStore
<1> PICK u \in Members : u = q[s].who
  BY <1>0, ReservationIsNat
<1> PICK id \in Ids : id = q[s].id
  BY <1>0, ReservationIsNat
<1> PICK tokens \in Nat : tokens = Reservation(q[s].input)
  BY <1>0, ReservationIsNat
<1>3. /\ admission' = [admission EXCEPT ![u] =
              Completed(admission[u], id, now, tokens, used, MemberWindow)]
      /\ total' = Completed(total, id, now, tokens, used, GlobalWindow)
      /\ log' = Ended(log, id, used, now) /\ now' = now /\ asked' = asked
  BY DEF Finish, Ended
<1>4. now \in Nat /\ total \in Traffic /\ admission \in [Members -> Traffic]
  BY DEF TypeOK
<1>5. MemberWindow \in Nat \ {0} /\ GlobalWindow \in Nat \ {0}
      /\ MemberLimits \in [running : Nat, requests : Nat, tokens : Nat]
      /\ GlobalLimits \in [running : Nat, requests : Nat, tokens : Nat]
  BY Numbers
<1>6. /\ s \in Admitted /\ Reservations(Admitted)[s] = tokens
      /\ Reservations(Admitted)' = On(Reservations(Admitted), Admitted \ {s})
      /\ s \in AdmittedOf(u) /\ Reservations(AdmittedOf(u))[s] = tokens
      /\ Reservations(AdmittedOf(u))' = On(Reservations(AdmittedOf(u)), AdmittedOf(u) \ {s})
      /\ \A v : v # u => Reservations(AdmittedOf(v))' = Reservations(AdmittedOf(v))
  BY <1>0, <1>1, OneLeaves
<1>7. /\ IsFiniteSet(Admitted) /\ Reservations(Admitted) \in [Admitted -> Nat]
      /\ IsFiniteSet(AdmittedOf(u))
      /\ Reservations(AdmittedOf(u)) \in [AdmittedOf(u) -> Nat]
  BY ReservationsAre
<1>8. \A e \in log : e.id = id => e.who = u /\ e.end = None
  BY <1>0 DEF LogOK
<1>9. /\ log \in SUBSET Admissions /\ IsFiniteSet(log)
      /\ LogOf(u) \in SUBSET Admissions /\ IsFiniteSet(LogOf(u))
  BY LogIs
<1>10. LogOf(u)' = Ended(LogOf(u), id, used, now) /\ \A v : v # u => LogOf(v)' = LogOf(v)
  <2> DEFINE after(e) == IF e.id = id THEN [e EXCEPT !.used = used, !.end = now] ELSE e
  <2>1. \A e \in log : after(e).who = e.who
    BY <1>9 DEF Admissions
  <2>2. log' = {after(e) : e \in log}
    BY <1>3 DEF Ended
  <2>3. \A e \in log : e.who # u => after(e) = e
    BY <1>8
  <2>4. Ended(LogOf(u), id, used, now) = {after(e) : e \in LogOf(u)}
    BY DEF Ended
  <2> HIDE DEF after
  <2>5. LogOf(u)' = {after(e) : e \in LogOf(u)}
    BY <2>1, <2>2 DEF LogOf
  <2>6. \A v : v # u => LogOf(v)' = LogOf(v)
    BY <2>1, <2>2, <2>3 DEF LogOf
  <2> QED
    BY <2>4, <2>5, <2>6
<1>11. /\ total.running >= 1 /\ total.reserved >= tokens
       /\ BucketOK(total', Reservations(Admitted)', log', now', GlobalWindow, GlobalLimits)
  <2> DEFINE f == Reservations(Admitted)
             S == Admitted
             L == log
             b == total
  <2>1. IsFiniteSet(S) /\ f \in [S -> Nat] /\ s \in S /\ f[s] = tokens
    BY <1>6, <1>7
  <2>2. BucketOK(b, f, L, now, GlobalWindow, GlobalLimits)
    BY DEF AdmissionOK
  <2>3. Reservations(Admitted)' = On(f, S \ {s})
    BY <1>6
  <2>4. b \in Traffic /\ L \in SUBSET Admissions /\ IsFiniteSet(L)
    BY <1>4, <1>9
  <2> HIDE DEF f, S, L, b
  <2>5. /\ b.running >= 1 /\ b.reserved >= f[s]
        /\ BucketOK(Completed(b, id, now, f[s], used, GlobalWindow), On(f, S \ {s}),
                    Ended(L, id, used, now), now, GlobalWindow, GlobalLimits)
    <3>1. ReservesEnough => used <= f[s]
      BY <2>1
    <3> QED
      BY <1>4, <1>5, <2>1, <2>2, <2>4, <3>1, BucketCompletes
  <2> QED
    BY <1>3, <2>1, <2>3, <2>5 DEF b, L
<1>12. /\ admission[u].running >= 1 /\ admission[u].reserved >= tokens
       /\ BucketOK(Completed(admission[u], id, now, tokens, used, MemberWindow),
                   Reservations(AdmittedOf(u))', LogOf(u)', now', MemberWindow, MemberLimits)
  <2> DEFINE f == Reservations(AdmittedOf(u))
             S == AdmittedOf(u)
             L == LogOf(u)
             b == admission[u]
  <2>1. IsFiniteSet(S) /\ f \in [S -> Nat] /\ s \in S /\ f[s] = tokens
    BY <1>6, <1>7
  <2>2. BucketOK(b, f, L, now, MemberWindow, MemberLimits)
    BY DEF AdmissionOK
  <2>3. Reservations(AdmittedOf(u))' = On(f, S \ {s})
    BY <1>6
  <2>4. b \in Traffic /\ L \in SUBSET Admissions /\ IsFiniteSet(L)
    BY <1>4, <1>9
  <2>5. LogOf(u)' = Ended(L, id, used, now)
    BY <1>10
  <2> HIDE DEF f, S, L, b
  <2>6. /\ b.running >= 1 /\ b.reserved >= f[s]
        /\ BucketOK(Completed(b, id, now, f[s], used, MemberWindow), On(f, S \ {s}),
                    Ended(L, id, used, now), now, MemberWindow, MemberLimits)
    <3>1. ReservesEnough => used <= f[s]
      BY <2>1
    <3> QED
      BY <1>4, <1>5, <2>1, <2>2, <2>4, <3>1, BucketCompletes
  <2> QED
    BY <1>3, <2>1, <2>3, <2>5, <2>6 DEF b
<1>13. /\ Completed(admission[u], id, now, tokens, used, MemberWindow) \in Traffic
       /\ Completed(total, id, now, tokens, used, GlobalWindow) \in Traffic
  BY <1>4, <1>5, <1>11, <1>12, CompletedKeepsType
<1>14. admission' \in [Members -> Traffic] /\ total' \in Traffic
       /\ \A v \in Members : admission'[v] =
             IF v = u THEN Completed(admission[u], id, now, tokens, used, MemberWindow)
                      ELSE admission[v]
  BY <1>3, <1>4, <1>13
<1>15. AdmissionOK'
  <2>1. ASSUME NEW v \in Members, v # u
        PROVE  BucketOK(admission'[v], Reservations(AdmittedOf(v))', LogOf(v)', now',
                        MemberWindow, MemberLimits)
    <3>1. BucketOK(admission[v], Reservations(AdmittedOf(v)), LogOf(v), now,
                   MemberWindow, MemberLimits)
      BY DEF AdmissionOK
    <3> QED
      BY <1>3, <1>6, <1>10, <1>14, <2>1, <3>1
  <2> QED
    BY <1>11, <1>12, <1>14, <2>1 DEF AdmissionOK
<1>16. /\ log' \in SUBSET Admissions
       /\ \A d \in log' : \E e \in log :
             /\ d.id = e.id /\ d.at = e.at /\ d.who = e.who
             /\ e.id = id => d.used = used /\ d.end = now
             /\ e.id # id => d = e
  BY <1>3, <1>4, <1>9, EndedIs
<1>17. LogOK'
  <2>1. IsFiniteSet(log')
    <3> DEFINE g == [e \in log |-> IF e.id = id THEN [e EXCEPT !.used = used, !.end = now] ELSE e]
    <3>1. g \in Surjection(log, log')
      BY <1>3 DEF Surjection, Ended
    <3> HIDE DEF g
    <3> QED
      BY <1>9, <3>1, FS_Surjection
  <2>2. \A e \in log' : e.id <= asked' /\ e.at <= now'
    BY <1>3, <1>16 DEF LogOK
  <2>3. \A e, d \in log' : e.id = d.id => e = d
    <3> SUFFICES ASSUME NEW e \in log', NEW d \in log', e.id = d.id
                 PROVE  e = d
      OBVIOUS
    <3>1. PICK k \in log :
              /\ e.id = k.id /\ e.at = k.at /\ e.who = k.who
              /\ k.id = id => e.used = used /\ e.end = now
              /\ k.id # id => e = k
      BY <1>16
    <3>2. PICK m \in log :
              /\ d.id = m.id /\ d.at = m.at /\ d.who = m.who
              /\ m.id = id => d.used = used /\ d.end = now
              /\ m.id # id => d = m
      BY <1>16
    <3>3. k = m
      <4>1. k.id = m.id
        BY <3>1, <3>2
      <4> QED
        BY <4>1 DEF LogOK
    <3>4. e = d \/ /\ e.id = d.id /\ e.at = d.at /\ e.who = d.who
                   /\ e.used = d.used /\ e.end = d.end
      BY <3>1, <3>2, <3>3
    <3> QED
      BY <1>16, <3>4 DEF Admissions
  <2>4. \A e \in log' : e.end = None => \E t \in Admitted' : q'[t].id = e.id
    <3> SUFFICES ASSUME NEW e \in log', e.end = None
                 PROVE  \E t \in Admitted' : q'[t].id = e.id
      OBVIOUS
    <3>1. e.id # id /\ e \in log
      BY <1>4, <1>16, AssistantAssumption
    <3>2. PICK t \in Admitted : q[t].id = e.id
      BY <3>1 DEF LogOK
    <3>3. t # s
      BY <3>1, <3>2
    <3>4. q'[t] = q[t]
      BY <1>1, <3>3 DEF Moves, Admitted
    <3> QED
      BY <3>2, <3>4 DEF Admitted
  <2>5. ASSUME NEW e \in log', NEW t \in Slots, q'[t].id = e.id
        PROVE  /\ q'[t].step \notin Unsent /\ e.who = q'[t].who
               /\ q'[t].step = "answering" => e.end = None /\ e.used = Reservation(q'[t].input)
    <3>1. PICK k \in log :
              /\ e.id = k.id /\ e.who = k.who
              /\ k.id # id => e = k
      BY <1>16
    <3>2. CASE t = s
      BY <1>0, <1>1, <2>5, <3>1, <3>2 DEF LogOK, Unsent, Unreserved
    <3>3. CASE t # s
      <4>1. q'[t] = q[t]
        BY <1>1, <3>3 DEF Moves
      <4>2. q[t].id # 0
        BY <2>5, <3>1, <4>1 DEF TypeOK, Ids
      <4>3. k.id # id
        BY <1>0, <2>5, <3>1, <3>3, <4>1, <4>2, NoQuestionIs DEF QuestionsOK
      <4> QED
        BY <2>5, <3>1, <4>1, <4>3 DEF LogOK
    <3> QED
      BY <3>2, <3>3
  <2> QED
    BY <2>1, <2>2, <2>3, <2>4, <2>5 DEF LogOK, Reservation
<1> QED
  BY <1>0, <1>1, <1>2, <1>14, <1>15, <1>16, <1>17
-----------------------------------------------------------------------------
(* Every action keeps the invariant                                        *)

\* A question that moves, away from the provider.
LEMMA QuietMove ==
    ASSUME IInv, NEW s \in Slots, Moves(s),
           q[s].step # "answering", q'[s].step # "answering",
           q[s].step \in Unsent \/ q'[s].step \notin Unsent,
           UNCHANGED <<host, now, asked, memory, log, bills>>,
           faults' \in 0..MaxFaults, ledger' \in SUBSET Entries,
           LedgerOK', BillsAreCovered', Stage(s)',
           \A e \in ledger' : e \in ledger \/ e.id = q[s].id,
           \A e \in ledger : e \in ledger' \/ e.id = q[s].id,
           ledger' = ledger \/ q[s].step # "waiting",
           q'[s].copy # None => UsesStore(s)' /\ host = "cloudflare" /\ q'[s].copy = ledger',
           host = "cloudflare" /\ q[s].step = "waiting" /\ q'[s].step # "idle" =>
              \A t \in Slots \ {s} : q[t].step \in {"idle", "waiting"},
           cut \subseteq cut', cut' \in SUBSET (Ids \cup {0}),
           \/ q'[s].id = q[s].id
           \/ q[s].id \in cut'
           \/ \A e \in ledger' : e.id = q[s].id => e.status # "reserved"
    PROVE  IInv'
<1>1. TypeOK'
  BY DEF IInv, TypeOK, Moves, memory
<1>2. QuestionsOK'
  BY QuestionsMove DEF IInv
<1>3. CopiesAreFresh'
  BY CopiesMove DEF IInv
<1>4. StagesOK'
  BY StagesMove DEF IInv
<1>5. OpenOK'
  BY OpenMoves DEF IInv
<1>6. LogOK' /\ AdmissionOK'
  BY QuietStep DEF IInv
<1> QED
  BY <1>1, <1>2, <1>3, <1>4, <1>5, <1>6 DEF IInv

\* The same, when the ledger stays what it is.
LEMMA QuietLedger ==
    ASSUME IInv, UNCHANGED <<ledger, asked, bills>>
    PROVE  /\ LedgerOK' /\ BillsAreCovered' /\ ledger' \in SUBSET Entries
           /\ \A e \in ledger' : e \in ledger
           /\ \A e \in ledger : e \in ledger'
<1>1. \A m : SpentInMonth(ledger', m) = SpentInMonth(ledger, m)
  OBVIOUS
<1> QED
  BY <1>1 DEF IInv, TypeOK, LedgerOK, BillsAreCovered

\* What every question that moves starts from.
LEMMA StageIs ==
    ASSUME IInv, NEW s \in Slots
    PROVE  /\ TypeOK /\ QuestionsOK /\ Stage(s)
           /\ faults \in 0..MaxFaults /\ cut \in SUBSET (Ids \cup {0})
           /\ q[s].step # "idle" => q[s].id \in Ids
           /\ ~UsesStore(s) => q[s].copy = None
<1>1. q[s].step # "idle" => q[s].id \in Ids
  BY ReservationIsNat DEF IInv
<1> QED
  BY <1>1 DEF IInv, StagesOK, TypeOK, CopiesAreFresh

LEMMA FaultIs ==
    ASSUME TypeOK, Fault
    PROVE  faults' \in 0..MaxFaults
  BY Numbers DEF TypeOK, Fault

\* A question is handled; on Cloudflare, all the others wait or are over.
LEMMA HandleKeeps ==
    ASSUME IInv, NEW s \in Slots, Handle(s)
    PROVE  IInv'
<1>1. q[s].step = "waiting"
  BY DEF Handle
<1>2. Moves(s) /\ q'[s].step = "fetching" /\ q'[s].copy = None /\ q'[s].id = q[s].id
      /\ q'[s].month = q[s].month
  <2>1. Goes(s, "fetching") /\ "fetching" \in Steps
    BY DEF Handle, Steps
  <2> QED
    BY <1>1, <2>1, GoesMoves, StageIs
<1>3. UNCHANGED <<host, now, asked, memory, ledger, faults, bills, log, cut>>
  BY DEF Handle, history
<1>4. Stage(s)'
  BY <1>1, <1>2, <1>3, StageIs DEF Stage, Unreserved, Unsent, Reserved
<1>5. host = "cloudflare" => \A t \in Slots \ {s} : q[t].step \in {"idle", "waiting"}
  BY DEF Handle
<1>6. LedgerOK' /\ BillsAreCovered' /\ ledger' \in SUBSET Entries
      /\ (\A e \in ledger' : e \in ledger) /\ (\A e \in ledger : e \in ledger')
  BY <1>3, QuietLedger
<1> QED
  BY <1>1, <1>2, <1>3, <1>4, <1>5, <1>6, StageIs, QuietMove DEF Unsent, Unreserved

\* The clock gives the question its month.
LEMMA CorpusReadyKeeps ==
    ASSUME IInv, NEW s \in Slots, CorpusReady(s)
    PROVE  IInv'
<1>1. q[s].step = "fetching"
  BY DEF CorpusReady
<1>2. Moves(s) /\ q'[s].step = "reserving" /\ q'[s].copy = q[s].copy /\ q'[s].id = q[s].id
  <2>1. "reserving" \in Steps
    BY DEF Steps
  <2>2. Month(now) \in Nat
    BY MonthIsNat DEF IInv, TypeOK
  <2> QED
    BY <1>1, <2>1, <2>2, StageIs DEF CorpusReady, TypeOK, Moves, Questions
<1>3. UNCHANGED <<host, now, asked, memory, ledger, faults, bills, log, cut>>
  BY DEF CorpusReady, history
<1>4. Stage(s)'
  BY <1>1, <1>2, <1>3, StageIs DEF Stage, Unreserved, Unsent, Reserved
<1>5. q'[s].copy = None
  BY <1>1, <1>2, StageIs DEF UsesStore
<1>6. LedgerOK' /\ BillsAreCovered' /\ ledger' \in SUBSET Entries
      /\ (\A e \in ledger' : e \in ledger) /\ (\A e \in ledger : e \in ledger')
  BY <1>3, QuietLedger
<1> QED
  BY <1>1, <1>2, <1>3, <1>4, <1>5, <1>6, StageIs, QuietMove DEF Unsent, Unreserved

\* A question that ends before it reserves anything has nothing to give back.
LEMMA EarlyEndKeeps ==
    ASSUME IInv, NEW s \in Slots, q[s].step \in {"fetching", "reserving"}, Ends(s),
           UNCHANGED <<host, now, asked, memory, ledger, bills, log, cut>>,
           faults' \in 0..MaxFaults
    PROVE  IInv'
<1>1. Moves(s) /\ q'[s] = NoQuestion
  BY StageIs, EndsMoves
<1>2. q'[s].step = "idle" /\ q'[s].copy = None
  BY <1>1, NoQuestionIs
<1>3. Stage(s)'
  BY <1>2 DEF Stage, Unreserved, Unsent, Reserved
<1>4. LedgerOK' /\ BillsAreCovered' /\ ledger' \in SUBSET Entries
      /\ (\A e \in ledger' : e \in ledger) /\ (\A e \in ledger : e \in ledger')
  BY QuietLedger
<1>5. \A e \in ledger' : e.id # q[s].id
  BY StageIs DEF Stage, Unreserved
<1> QED
  BY <1>1, <1>2, <1>3, <1>4, <1>5, StageIs, QuietMove DEF Unsent, Unreserved

LEMMA CorpusUnavailableKeeps ==
    ASSUME IInv, NEW s \in Slots, CorpusUnavailable(s)
    PROVE  IInv'
<1>1. faults' \in 0..MaxFaults
  BY FaultIs, StageIs DEF CorpusUnavailable
<1> QED
  BY <1>1, EarlyEndKeeps DEF CorpusUnavailable, history

LEMMA ReserveDeniedKeeps ==
    ASSUME IInv, NEW s \in Slots, ReserveDenied(s)
    PROVE  IInv'
<1>1. faults' \in 0..MaxFaults
  BY StageIs DEF ReserveDenied
<1> QED
  BY <1>1, EarlyEndKeeps DEF ReserveDenied, history

\* The copy is that of the ledger.
LEMMA LoadKeeps ==
    ASSUME IInv, NEW s \in Slots, Load(s)
    PROVE  IInv'
<1>1. q[s].step \in {"reserving", "cancelling", "settling", "recording"} /\ host = "cloudflare"
  BY DEF Load, UsesStore
<1>2. Moves(s) /\ q'[s] = [q[s] EXCEPT !.copy = ledger]
  BY <1>1, StageIs DEF Load, TypeOK, Moves, Questions
<1>3. /\ q'[s].step = q[s].step /\ q'[s].copy = ledger /\ q'[s].id = q[s].id
      /\ q'[s].month = q[s].month /\ q'[s].cost = q[s].cost /\ q'[s].input = q[s].input
  BY <1>2, StageIs DEF TypeOK, Questions
<1>4. UNCHANGED <<host, now, asked, memory, ledger, faults, bills, log, cut>>
  BY DEF Load, history
<1>5. Stage(s)'
  <2>1. ReservedCost(s)' = ReservedCost(s)
    BY <1>3 DEF ReservedCost, Cost
  <2>2. Entry(q[s].id, q[s].month, ReservedCost(s))' = Entry(q[s].id, q[s].month, ReservedCost(s))
    BY <1>3, <2>1 DEF Entry
  <2>3. q'[s].step \in Reserved => Entry(q[s].id, q[s].month, ReservedCost(s))' \in ledger'
    BY <1>3, <1>4, <2>2, StageIs DEF Stage
  <2> QED
    BY <1>3, <1>4, <2>1, <2>3, StageIs DEF Stage
<1>6. UsesStore(s)'
  BY <1>1, <1>3 DEF UsesStore
<1>7. LedgerOK' /\ BillsAreCovered' /\ ledger' \in SUBSET Entries
      /\ (\A e \in ledger' : e \in ledger) /\ (\A e \in ledger : e \in ledger')
  BY <1>4, QuietLedger
<1> QED
  BY <1>1, <1>2, <1>3, <1>4, <1>5, <1>6, <1>7, StageIs, QuietMove

\* What an operation of the store sees is the ledger, on either host.
LEMMA SeenIsLedger ==
    ASSUME IInv, NEW s \in Slots, Loaded(s)
    PROVE  Seen(s) = ledger
  BY DEF IInv, CopiesAreFresh, Loaded, Seen

LEMMA ReserveKeeps ==
    ASSUME IInv, NEW s \in Slots, Reserve(s)
    PROVE  IInv'
<1>1. q[s].step = "reserving" /\ Seen(s) = ledger
  BY SeenIsLedger DEF Reserve
<1>2. Moves(s) /\ q'[s].step = "admitting" /\ q'[s].copy = None /\ q'[s].id = q[s].id
      /\ q'[s].month = q[s].month /\ q'[s].input = q[s].input
  <2>1. Goes(s, "admitting") /\ "admitting" \in Steps
    BY DEF Reserve, Steps
  <2> QED
    BY <1>1, <2>1, GoesMoves, StageIs
<1>3. UNCHANGED <<host, now, asked, memory, faults, bills, log, cut>>
  BY DEF Reserve, history
<1> PICK id \in Ids : id = q[s].id
  BY <1>1, StageIs
<1> PICK month \in Nat : month = q[s].month
  BY StageIs DEF TypeOK, Questions
<1> PICK cost \in Nat : cost = ReservedCost(s)
  BY <1>1, ReservationIsNat, StageIs
<1> DEFINE new == Entry(id, month, cost)
<1>4. ledger' = ledger \cup {new} /\ Fits(ledger, month, cost)
  BY <1>1 DEF Reserve
<1>5. /\ new \in Entries /\ new.id = id /\ new.month = month /\ new.cost = cost
      /\ new.status = "reserved"
  BY DEF Entry, Entries
<1>6. ledger \in SUBSET Entries /\ IsFiniteSet(ledger) /\ \A e \in ledger : e.id # id
  BY <1>1, StageIs DEF IInv, TypeOK, LedgerOK, Stage, Unreserved
<1>7. /\ ledger' \in SUBSET Entries /\ IsFiniteSet(ledger')
      /\ SpentInMonth(ledger', month) = SpentInMonth(ledger, month) + cost
      /\ \A m \in Nat \ {month} : SpentInMonth(ledger', m) = SpentInMonth(ledger, m)
  <2> HIDE DEF new
  <2>1. new \notin ledger /\ new.status # "cancelled"
    BY <1>5, <1>6
  <2>2. /\ ledger \cup {new} \in SUBSET Entries /\ IsFiniteSet(ledger \cup {new})
        /\ SpentInMonth(ledger \cup {new}, new.month)
              = SpentInMonth(ledger, new.month) + new.cost
        /\ \A m \in Nat \ {new.month} :
              SpentInMonth(ledger \cup {new}, m) = SpentInMonth(ledger, m)
    BY <1>5, <1>6, <2>1, SpentAdds
  <2> QED
    BY <1>4, <1>5, <2>2
<1> HIDE DEF new
<1>8. LedgerOK'
  <2>1. \A e \in ledger' : e.id <= asked'
    BY <1>1, <1>3, <1>4, <1>5 DEF IInv, LedgerOK, QuestionsOK
  <2>2. \A e, f \in ledger' : e.id = f.id => e = f
    BY <1>4, <1>5, <1>6 DEF IInv, LedgerOK
  <2>3. ASSUME ReservesEnough, NEW m \in {e.month : e \in ledger'}
        PROVE  SpentInMonth(ledger', m) <= Ceiling
    <3>1. CASE m = month
      BY <1>4, <1>7, <3>1 DEF Fits
    <3>2. CASE m # month
      <4>1. m \in Nat /\ m \in {e.month : e \in ledger}
        BY <1>4, <1>5, <1>6, <3>2 DEF Entries
      <4> QED
        BY <1>7, <2>3, <3>2, <4>1 DEF IInv, LedgerOK
    <3> QED
      BY <3>1, <3>2
  <2> QED
    BY <1>7, <2>1, <2>2, <2>3 DEF LedgerOK
<1>9. BillsAreCovered'
  BY <1>3, <1>4 DEF IInv, BillsAreCovered
<1>10. Stage(s)'
  <2>1. ReservedCost(s)' = ReservedCost(s)
    BY <1>2 DEF ReservedCost, Cost
  <2>2. Entry(q[s].id, q[s].month, ReservedCost(s))' = new
    BY <1>2, <2>1 DEF Entry, new
  <2>3. Stage(s)
    BY StageIs
  <2> QED
    BY <1>1, <1>2, <1>3, <1>4, <2>2, <2>3 DEF Stage, Unreserved, Reserved, Unsent
<1>11. \A e \in ledger' : e \in ledger \/ e.id = q[s].id
  BY <1>4, <1>5
<1>12. \A e \in ledger : e \in ledger'
  BY <1>4
<1> QED
  BY <1>1, <1>2, <1>3, <1>7, <1>8, <1>9, <1>10, <1>11, <1>12, StageIs, QuietMove
     DEF Unsent, Unreserved

\* A reservation is settled: cancelled when there is no bill, else, if what was
\* reserved covers it, for no less than the bill.
LEMMA SettlingIs ==
    ASSUME IInv, NEW s \in Slots, q[s].step \in {"cancelling", "settling"},
           NEW status \in {"charged", "cancelled"}, NEW cost \in Nat,
           status = "cancelled" => \A b \in bills : b.id # q[s].id,
           status = "charged" /\ ReservesEnough =>
              cost <= ReservedCost(s) /\ \A b \in bills : b.id = q[s].id => b.cost <= cost,
           ledger' = Settled(ledger, q[s].id, status, cost), UNCHANGED <<asked, bills>>
    PROVE  /\ LedgerOK' /\ BillsAreCovered' /\ ledger' \in SUBSET Entries
           /\ \A e \in ledger' : e \in ledger \/ e.id = q[s].id
           /\ \A e \in ledger : e \in ledger' \/ e.id = q[s].id
           /\ \A e \in ledger' : e.id = q[s].id => e.status # "reserved"
<1> PICK id \in Ids : id = q[s].id
  BY StageIs
<1>1. ledger \in SUBSET Entries /\ IsFiniteSet(ledger) /\ \A e, d \in ledger : e.id = d.id => e = d
  BY DEF IInv, TypeOK, LedgerOK
<1>2. /\ ledger' \in SUBSET Entries /\ IsFiniteSet(ledger')
      /\ \A d \in ledger' : \E e \in ledger : Becomes(e, d, id, status, cost)
      /\ \A e \in ledger : \E d \in ledger' : Becomes(e, d, id, status, cost)
  <2> DEFINE L == ledger
  <2>1. L \in SUBSET Entries /\ IsFiniteSet(L)
    BY <1>1
  <2> HIDE DEF L
  <2>2. /\ Settled(L, id, status, cost) \in SUBSET Entries
        /\ IsFiniteSet(Settled(L, id, status, cost))
        /\ \A d \in Settled(L, id, status, cost) : \E e \in L : Becomes(e, d, id, status, cost)
        /\ \A e \in L : \E d \in Settled(L, id, status, cost) : Becomes(e, d, id, status, cost)
    BY <2>1, SettledIs
  <2>3. ledger' = Settled(L, id, status, cost)
    BY DEF L
  <2> QED
    BY <2>2, <2>3 DEF L
<1>3. \A e \in ledger : e.id = id => e.cost = ReservedCost(s)
  <2>1. Entry(id, q[s].month, ReservedCost(s)) \in ledger
    BY StageIs DEF Stage, Reserved
  <2>2. Entry(id, q[s].month, ReservedCost(s)).id = id /\ Entry(id, q[s].month, ReservedCost(s)).cost = ReservedCost(s)
    BY DEF Entry
  <2> QED
    BY <1>1, <2>1, <2>2
<1>4. ReservesEnough => \A m \in Nat : SpentInMonth(ledger', m) <= SpentInMonth(ledger, m)
  <2>1. ReservesEnough =>
            status = "cancelled" \/ \A e \in ledger : e.id = id => cost <= e.cost
    BY <1>3
  <2> QED
    BY <1>1, <2>1, SpentSettles
<1>5. LedgerOK'
  <2>1. \A e \in ledger' : e.id <= asked'
    BY <1>2 DEF Becomes, IInv, LedgerOK
  <2>2. ASSUME NEW d \in ledger', NEW c \in ledger', d.id = c.id
        PROVE  d = c
    <3>1. PICK e \in ledger : Becomes(e, d, id, status, cost)
      BY <1>2
    <3>2. PICK k \in ledger : Becomes(k, c, id, status, cost)
      BY <1>2
    <3>3. e = k
      BY <1>1, <2>2, <3>1, <3>2 DEF Becomes
    <3>4. (d.month = c.month /\ d.status = c.status /\ d.cost = c.cost) \/ d = c
      BY <3>1, <3>2, <3>3 DEF Becomes
    <3>5. d \in Entries /\ c \in Entries
      BY <1>2
    <3> QED
      BY <2>2, <3>4, <3>5 DEF Entries
  <2>3. ASSUME ReservesEnough, NEW m \in {e.month : e \in ledger'}
        PROVE  SpentInMonth(ledger', m) <= Ceiling
    <3>1. m \in Nat /\ m \in {e.month : e \in ledger}
      BY <1>1, <1>2 DEF Becomes, Entries
    <3>2. SpentInMonth(ledger', m) <= SpentInMonth(ledger, m)
      BY <1>4, <2>3, <3>1
    <3>3. SpentInMonth(ledger, m) <= Ceiling
      BY <2>3, <3>1 DEF IInv, LedgerOK
    <3>4. SpentInMonth(ledger', m) \in Nat /\ SpentInMonth(ledger, m) \in Nat
      BY <1>1, <1>2, SpentIs
    <3> QED
      BY <3>2, <3>3, <3>4, Numbers
  <2> QED
    BY <1>2, <2>1, <2>2, <2>3 DEF LedgerOK
<1>6. BillsAreCovered'
  <2>1. ASSUME NEW b \in bills
        PROVE  \E d \in ledger' : /\ d.id = b.id /\ d.month = b.month /\ d.status # "cancelled"
                                  /\ ReservesEnough => b.cost <= d.cost
    <3>1. PICK e \in ledger : /\ e.id = b.id /\ e.month = b.month /\ e.status # "cancelled"
                              /\ ReservesEnough => b.cost <= e.cost
      BY DEF IInv, BillsAreCovered
    <3>2. PICK d \in ledger' : Becomes(e, d, id, status, cost)
      BY <1>2
    <3>3. d.status # "cancelled" /\ (ReservesEnough => b.cost <= d.cost)
      BY <3>1, <3>2 DEF Becomes
    <3> QED
      BY <3>1, <3>2, <3>3 DEF Becomes
  <2> QED
    BY <2>1 DEF IInv, BillsAreCovered
<1>7. \A e \in ledger' : e \in ledger \/ e.id = id
  BY <1>2 DEF Becomes
<1>8. \A e \in ledger : e \in ledger' \/ e.id = id
  BY <1>2 DEF Becomes
<1>9. \A e \in ledger' : e.id = id => e.status # "reserved"
  BY <1>2 DEF Becomes
<1> QED
  BY <1>2, <1>5, <1>6, <1>7, <1>8, <1>9

\* A question that admission refused gives its reservation back.
LEMMA CancelKeeps ==
    ASSUME IInv, NEW s \in Slots, Cancel(s)
    PROVE  IInv'
<1>1. q[s].step = "cancelling" /\ Seen(s) = ledger
  BY SeenIsLedger DEF Cancel
<1>2. Moves(s) /\ q'[s] = NoQuestion
  BY <1>1, StageIs, EndsMoves DEF Cancel
<1>3. UNCHANGED <<host, now, asked, memory, faults, bills, log, cut>>
  BY DEF Cancel, history
<1> PICK cost \in Nat : cost = q[s].cost
  BY StageIs DEF TypeOK, Questions
<1>4. ledger' = Settled(ledger, q[s].id, "cancelled", cost)
  BY <1>1 DEF Cancel
<1>5. \A b \in bills : b.id # q[s].id
  BY <1>1, StageIs DEF Stage, Unsent
<1>6. /\ LedgerOK' /\ BillsAreCovered' /\ ledger' \in SUBSET Entries
      /\ \A e \in ledger' : e \in ledger \/ e.id = q[s].id
      /\ \A e \in ledger : e \in ledger' \/ e.id = q[s].id
      /\ \A e \in ledger' : e.id = q[s].id => e.status # "reserved"
  BY <1>1, <1>3, <1>4, <1>5, SettlingIs
<1>7. q'[s].step = "idle" /\ q'[s].copy = None
  BY <1>2, NoQuestionIs
<1>8. Stage(s)'
  BY <1>7 DEF Stage, Unreserved, Unsent, Reserved
<1> QED
  BY <1>1, <1>2, <1>3, <1>6, <1>7, <1>8, StageIs, QuietMove DEF Unsent, Unreserved

\* A question that was at the provider is charged.
LEMMA ChargeKeeps ==
    ASSUME IInv, NEW s \in Slots, Charge(s)
    PROVE  IInv'
<1>1. q[s].step = "settling" /\ Seen(s) = ledger
  BY SeenIsLedger DEF Charge
<1>2. Moves(s) /\ q'[s].step \in {"idle", "recording"} /\ q'[s].copy = None
      /\ (q'[s].step = "recording" => q'[s].id = q[s].id)
  <2>1. CASE q[s].status = "answered"
    <3>1. Goes(s, "recording") /\ "recording" \in Steps
      BY <2>1 DEF Charge, Steps
    <3> QED
      BY <1>1, <3>1, StageIs, GoesMoves
  <2>2. CASE q[s].status # "answered"
    <3>1. Ends(s)
      BY <2>2 DEF Charge
    <3> QED
      BY <1>1, <3>1, StageIs, EndsMoves, NoQuestionIs
  <2> QED
    BY <2>1, <2>2
<1>3. UNCHANGED <<host, now, asked, memory, faults, bills, log, cut>>
  BY DEF Charge, history
<1> PICK cost \in Nat : cost = q[s].cost
  BY StageIs DEF TypeOK, Questions
<1>4. ledger' = Settled(ledger, q[s].id, "charged", cost)
  BY <1>1 DEF Charge
<1>5. ReservesEnough =>
          cost <= ReservedCost(s) /\ \A b \in bills : b.id = q[s].id => b.cost <= cost
  BY <1>1, StageIs DEF Stage
<1>6. /\ LedgerOK' /\ BillsAreCovered' /\ ledger' \in SUBSET Entries
      /\ \A e \in ledger' : e \in ledger \/ e.id = q[s].id
      /\ \A e \in ledger : e \in ledger' \/ e.id = q[s].id
      /\ \A e \in ledger' : e.id = q[s].id => e.status # "reserved"
  BY <1>1, <1>3, <1>4, <1>5, SettlingIs
<1>7. Stage(s)'
  BY <1>2, <1>6 DEF Stage, Unreserved, Unsent, Reserved
<1> QED
  BY <1>1, <1>2, <1>3, <1>6, <1>7, StageIs, QuietMove DEF Unsent, Unreserved

\* What is written back with the provenance is the ledger that was read.
LEMMA RecordKeeps ==
    ASSUME IInv, NEW s \in Slots, Record(s)
    PROVE  IInv'
<1>1. q[s].step = "recording" /\ Seen(s) = ledger
  BY SeenIsLedger DEF Record
<1>2. Moves(s) /\ q'[s] = NoQuestion
  BY <1>1, StageIs, EndsMoves DEF Record
<1>3. UNCHANGED <<host, now, asked, memory, faults, bills, log, cut>> /\ ledger' = ledger
  BY <1>1 DEF Record, history
<1>4. LedgerOK' /\ BillsAreCovered' /\ ledger' \in SUBSET Entries
      /\ (\A e \in ledger' : e \in ledger) /\ (\A e \in ledger : e \in ledger')
  BY <1>3, QuietLedger
<1>5. q'[s].step = "idle" /\ q'[s].copy = None
  BY <1>2, NoQuestionIs
<1>6. Stage(s)'
  BY <1>5 DEF Stage, Unreserved, Unsent, Reserved
<1>7. \A e \in ledger' : e.id = q[s].id => e.status # "reserved"
  BY <1>1, <1>3, StageIs DEF Stage
<1> QED
  BY <1>1, <1>2, <1>3, <1>4, <1>5, <1>6, <1>7, StageIs, QuietMove DEF Unsent, Unreserved

\* What is cut short may leave its reservation open.
LEMMA CutKeeps ==
    ASSUME IInv, NEW s \in Slots, q[s].step \notin {"idle", "answering"}, Ends(s),
           cut' = cut \cup {q[s].id}, faults' \in 0..MaxFaults,
           UNCHANGED <<host, now, asked, memory, ledger, bills, log>>
    PROVE  IInv'
<1>1. Moves(s) /\ q'[s] = NoQuestion
  BY StageIs, EndsMoves
<1>2. q'[s].step = "idle" /\ q'[s].copy = None
  BY <1>1, NoQuestionIs
<1>3. Stage(s)'
  BY <1>2 DEF Stage, Unreserved, Unsent, Reserved
<1>4. LedgerOK' /\ BillsAreCovered' /\ ledger' \in SUBSET Entries
      /\ (\A e \in ledger' : e \in ledger) /\ (\A e \in ledger : e \in ledger')
  BY QuietLedger
<1>5. cut \subseteq cut' /\ cut' \in SUBSET (Ids \cup {0}) /\ q[s].id \in cut'
  BY StageIs
<1>6. q'[s].step \notin Unsent /\ q'[s].step # "answering"
  BY <1>2 DEF Unsent, Unreserved
<1> QED
  BY <1>1, <1>2, <1>3, <1>4, <1>5, <1>6, QuietMove

LEMMA StoreFailsKeeps ==
    ASSUME IInv, NEW s \in Slots, StoreFails(s)
    PROVE  IInv'
<1>1. faults' \in 0..MaxFaults
  BY FaultIs, StageIs DEF StoreFails
<1> QED
  BY <1>1, CutKeeps DEF StoreFails, UsesStore

\* Refused by admission: what was remembered has been pruned.
LEMMA RefusalKeeps ==
    ASSUME IInv, NEW s \in Slots, AcquireDenied(s)
    PROVE  IInv'
<1>1. q[s].step = "admitting"
  BY DEF AcquireDenied
<1>2. q' = To(s, "cancelling", "cancelled", ReservedCost(s))
  BY DEF AcquireDenied, To
<1>3. ReservedCost(s) \in Nat
  BY <1>1, ReservationIsNat DEF IInv
<1>4. /\ Moves(s) /\ q'[s].step = "cancelling" /\ q'[s].copy = q[s].copy
      /\ q'[s].month = q[s].month /\ q'[s].id = q[s].id /\ q'[s].input = q[s].input
  <2>1. "cancelling" \in Steps /\ "cancelling" # "idle"
    BY DEF Steps
  <2> QED
    BY <1>1, <1>2, <1>3, <2>1, StageIs, SettlesMoves
<1>5. /\ admission' = [admission EXCEPT ![q[s].who] = PrunedMember(q[s].who)]
      /\ total' = PrunedTotal
      /\ UNCHANGED <<host, now, asked, ledger, faults, bills, log, cut>>
  BY DEF AcquireDenied, history
<1>6. LogOK' /\ AdmissionOK' /\ admission' \in [Members -> Traffic] /\ total' \in Traffic
  BY <1>1, <1>4, <1>5, PrunedStep DEF IInv
<1>7. LedgerOK' /\ BillsAreCovered' /\ ledger' \in SUBSET Entries
      /\ (\A e \in ledger' : e \in ledger) /\ (\A e \in ledger : e \in ledger')
  BY <1>5, QuietLedger
<1>8. Stage(s)'
  <2>1. ReservedCost(s)' = ReservedCost(s)
    BY <1>4 DEF ReservedCost, Cost
  <2>2. Entry(q[s].id, q[s].month, ReservedCost(s))' = Entry(q[s].id, q[s].month, ReservedCost(s))
    BY <1>4, <2>1 DEF Entry
  <2> QED
    BY <1>1, <1>4, <1>5, <2>2, StageIs DEF Stage, Reserved, Unreserved, Unsent
<1>9. q'[s].copy = None
  BY <1>1, <1>4, StageIs DEF UsesStore
<1>10. TypeOK'
  BY <1>4, <1>5, <1>6 DEF IInv, TypeOK, Moves
<1>11. QuestionsOK'
  BY <1>4, <1>5, QuestionsMove DEF IInv
<1>12. CopiesAreFresh'
  BY <1>1, <1>4, <1>5, <1>9, CopiesMove DEF IInv
<1>13. StagesOK'
  BY <1>4, <1>5, <1>7, <1>8, StagesMove DEF IInv
<1>14. OpenOK'
  BY <1>4, <1>5, <1>7, OpenMoves DEF IInv
<1> QED
  BY <1>6, <1>7, <1>10, <1>11, <1>12, <1>13, <1>14 DEF IInv

Bills == [id : Ids, month : Nat, cost : Nat]

\* Admitted: the bill has been reserved.
LEMMA AcquireKeeps ==
    ASSUME IInv, NEW s \in Slots, Acquire(s)
    PROVE  IInv'
<1>1. q[s].step = "admitting"
  BY DEF Acquire
<1>2. /\ Moves(s) /\ q'[s].step = "answering" /\ q'[s].copy = None
      /\ q'[s].id = q[s].id /\ q'[s].month = q[s].month /\ ReservedCost(s)' = ReservedCost(s)
      /\ LogOK' /\ AdmissionOK'
      /\ admission' \in [Members -> Traffic] /\ total' \in Traffic
      /\ log' \in SUBSET Admissions
  BY AcquireStep DEF IInv
<1> PICK id \in Ids : id = q[s].id
  BY <1>1, StageIs
<1> PICK month \in Nat : month = q[s].month
  BY StageIs DEF TypeOK, Questions
<1> PICK cost \in Nat : cost = ReservedCost(s)
  BY <1>1, ReservationIsNat, StageIs
<1> PICK most \in Nat : most = Worst(s) /\ (ReservesEnough => most <= cost)
  <2>1. q[s].input \in Nat /\ ReservedOutput \in Nat /\ RequestedOutput \in Nat
    BY <1>1, ReservationIsNat, StageIs, Numbers
  <2> QED
    BY <2>1, CostIsNat, CostGrows DEF Worst, ReservedCost, ReservesEnough
<1> DEFINE new == [id |-> id, month |-> month, cost |-> most]
<1>3. /\ bills' = bills \cup {new}
      /\ UNCHANGED <<host, now, asked, ledger, faults, cut>>
  BY DEF Acquire
<1>4. new \in Bills /\ new.id = id /\ new.month = month /\ new.cost = most
  BY DEF Bills
<1> HIDE DEF new
<1>5. bills \in SUBSET Bills /\ IsFiniteSet(bills) /\ \A b \in bills : b.id # id
  BY <1>1, StageIs DEF IInv, TypeOK, BillsAreCovered, Stage, Unsent, Bills
<1>6. Entry(id, month, cost) \in ledger
  BY <1>1, StageIs DEF Stage, Reserved
<1>7. BillsAreCovered'
  <2>1. IsFiniteSet(bills')
    BY <1>3, <1>5, FS_AddElement
  <2>2. \A b, c \in bills' : b.id = c.id => b = c
    BY <1>3, <1>4, <1>5 DEF IInv, BillsAreCovered
  <2>3. \E e \in ledger : /\ e.id = new.id /\ e.month = new.month /\ e.status # "cancelled"
                          /\ ReservesEnough => new.cost <= e.cost
    <3>1. /\ Entry(id, month, cost).id = id /\ Entry(id, month, cost).month = month
          /\ Entry(id, month, cost).cost = cost
          /\ Entry(id, month, cost).status # "cancelled"
      BY DEF Entry
    <3> QED
      BY <1>4, <1>6, <3>1
  <2>4. \A b \in bills : \E e \in ledger :
            /\ e.id = b.id /\ e.month = b.month /\ e.status # "cancelled"
            /\ ReservesEnough => b.cost <= e.cost
    BY DEF IInv, BillsAreCovered
  <2> QED
    BY <1>3, <2>1, <2>2, <2>3, <2>4 DEF BillsAreCovered
<1>8. LedgerOK'
  <2>1. \A m : SpentInMonth(ledger', m) = SpentInMonth(ledger, m)
    BY <1>3
  <2> QED
    BY <1>3, <2>1 DEF IInv, LedgerOK
<1>9. Stage(s)'
  <2>1. Entry(q[s].id, q[s].month, ReservedCost(s))' = Entry(id, month, cost)
    BY <1>2 DEF Entry
  <2> QED
    BY <1>2, <1>3, <1>6, <2>1 DEF Stage, Unreserved, Unsent
<1>10. TypeOK'
  <2>1. q' \in [Slots -> Questions]
    BY <1>2 DEF Moves
  <2>2. bills' \in SUBSET [id : Ids, month : Nat, cost : Nat]
    BY <1>3, <1>4, <1>5 DEF Bills
  <2>3. log' \in SUBSET [id : Ids, who : Members, at : Nat, used : Nat, end : Nat \cup {None}]
    BY <1>2 DEF Admissions
  <2> QED
    BY <1>2, <1>3, <2>1, <2>2, <2>3 DEF IInv, TypeOK
<1>11. QuestionsOK'
  BY <1>2, <1>3, QuestionsMove DEF IInv
<1>12. CopiesAreFresh'
  BY <1>1, <1>2, <1>3, CopiesMove DEF IInv
<1>13. StagesOK'
  BY <1>2, <1>3, <1>4, <1>9, StagesMove DEF IInv
<1>14. OpenOK'
  BY <1>2, <1>3, OpenMoves DEF IInv
<1> QED
  BY <1>2, <1>7, <1>8, <1>10, <1>11, <1>12, <1>13, <1>14 DEF IInv

\* However a request ends, what it is charged covers its bill.
LEMMA FinishKeeps ==
    ASSUME IInv, NEW s \in Slots,
           NEW used \in Nat, ReservesEnough => used <= Reservation(q[s].input),
           NEW cost \in Nat, ReservesEnough => cost <= ReservedCost(s), NEW then \in {"answered", "unusable"},
           Finish(s, used, cost, then), UNCHANGED <<host, now, asked, ledger, cut>>,
           faults' \in 0..MaxFaults, bills' \in SUBSET Bills, BillsAreCovered',
           \A b \in bills' : b \in bills \/ b.id = q[s].id,
           ReservesEnough => \A b \in bills' : b.id = q[s].id => b.cost <= cost
    PROVE  IInv'
<1>1. /\ Moves(s) /\ q[s].step = "answering" /\ q'[s].step = "settling"
      /\ q'[s].copy = None /\ q'[s].cost = cost
      /\ q'[s].id = q[s].id /\ q'[s].month = q[s].month /\ ReservedCost(s)' = ReservedCost(s)
      /\ LogOK' /\ AdmissionOK'
      /\ admission' \in [Members -> Traffic] /\ total' \in Traffic
      /\ log' \in SUBSET Admissions
  BY FinishStep DEF IInv
<1>2. LedgerOK'
  <2>1. \A m : SpentInMonth(ledger', m) = SpentInMonth(ledger, m)
    OBVIOUS
  <2> QED
    BY <2>1 DEF IInv, LedgerOK
<1>3. Stage(s)'
  <2>1. Entry(q[s].id, q[s].month, ReservedCost(s))' = Entry(q[s].id, q[s].month, ReservedCost(s))
    BY <1>1 DEF Entry
  <2>2. Entry(q[s].id, q[s].month, ReservedCost(s)) \in ledger
    BY <1>1, StageIs DEF Stage, Reserved
  <2> QED
    BY <1>1, <2>1, <2>2 DEF Stage, Unreserved, Unsent
<1>4. TypeOK'
  BY <1>1 DEF IInv, TypeOK, Moves, Bills, Admissions
<1>5. QuestionsOK'
  BY <1>1, QuestionsMove DEF IInv
<1>6. CopiesAreFresh'
  BY <1>1, CopiesMove DEF IInv
<1>7. StagesOK'
  BY <1>1, <1>3, StagesMove DEF IInv
<1>8. OpenOK'
  BY <1>1, OpenMoves DEF IInv
<1> QED
  BY <1>1, <1>2, <1>4, <1>5, <1>6, <1>7, <1>8 DEF IInv

\* What a request may be billed was reserved for it.
LEMMA BillIsReserved ==
    ASSUME IInv, ReservesEnough, NEW s \in Slots, q[s].step = "answering",
           NEW b \in bills, b.id = q[s].id
    PROVE  b.cost <= ReservedCost(s)
<1>1. PICK e \in ledger : e.id = b.id /\ b.cost <= e.cost
  BY DEF IInv, BillsAreCovered
<1>2. Entry(q[s].id, q[s].month, ReservedCost(s)) \in ledger
  BY StageIs DEF Stage, Reserved
<1>3. Entry(q[s].id, q[s].month, ReservedCost(s)).id = q[s].id
      /\ Entry(q[s].id, q[s].month, ReservedCost(s)).cost = ReservedCost(s)
  BY DEF Entry
<1> QED
  BY <1>1, <1>2, <1>3 DEF IInv, LedgerOK

\* A request whose usage is not known counts and costs what was reserved.
LEMMA UnknownUsageKeeps ==
    ASSUME IInv, NEW s \in Slots, Finish(s, Reservation(q[s].input), ReservedCost(s), "unusable"),
           faults' \in 0..MaxFaults, UNCHANGED <<host, now, asked, ledger, bills, cut>>
    PROVE  IInv'
<1>1. q[s].step = "answering"
  BY DEF Finish
<1>2. Reservation(q[s].input) \in Nat /\ ReservedCost(s) \in Nat
  BY <1>1, ReservationIsNat, StageIs
<1>3. Reservation(q[s].input) <= Reservation(q[s].input) /\ ReservedCost(s) <= ReservedCost(s)
  BY <1>2
<1>4. bills' \in SUBSET Bills
  BY DEF IInv, TypeOK, Bills
<1>5. BillsAreCovered'
  BY DEF IInv, BillsAreCovered
<1>6. ReservesEnough => \A b \in bills' : b.id = q[s].id => b.cost <= ReservedCost(s)
  BY <1>1, BillIsReserved
<1> QED
  BY <1>2, <1>3, <1>4, <1>5, <1>6, FinishKeeps

LEMMA ProviderFailsKeeps ==
    ASSUME IInv, NEW s \in Slots, ProviderFails(s)
    PROVE  IInv'
<1>1. faults' \in 0..MaxFaults
  BY FaultIs, StageIs DEF ProviderFails
<1> QED
  BY <1>1, UnknownUsageKeeps DEF ProviderFails

LEMMA InterruptKeeps ==
    ASSUME IInv, NEW s \in Slots, Interrupt(s)
    PROVE  IInv'
<1>1. faults' \in 0..MaxFaults
  BY FaultIs, StageIs DEF Interrupt
<1>2. CASE q[s].step # "answering"
  BY <1>1, <1>2, CutKeeps DEF Interrupt, Finish
<1>3. CASE q[s].step = "answering"
  BY <1>1, <1>3, UnknownUsageKeeps DEF Interrupt
<1> QED
  BY <1>2, <1>3

\* An answer costs no more than was reserved, if that covers what it may put out.
LEMMA AnswerKeeps ==
    ASSUME IInv, NEW s \in Slots, NEW output \in Outputs, Answer(s, output)
    PROVE  IInv'
<1>1. q[s].step = "answering"
  BY DEF Answer, Finish
<1> PICK input \in Nat : input = q[s].input
  BY <1>1, ReservationIsNat, StageIs
<1>2. /\ output \in Nat /\ ReservedOutput \in Nat
      /\ ReservesEnough => output <= ReservedOutput
  BY Numbers DEF ReservesEnough
<1> PICK cost \in Nat : cost = Cost(input, output)
  BY <1>2, CostIsNat
<1>3. ReservesEnough => cost <= ReservedCost(s)
  BY <1>2, CostGrows DEF ReservedCost
<1>4. /\ input + output \in Nat
      /\ ReservesEnough => input + output <= Reservation(q[s].input)
  BY <1>2 DEF Reservation
<1>5. PICK then \in {"answered", "unusable"} : Finish(s, input + output, cost, then)
  BY DEF Answer
<1>6. UNCHANGED <<host, now, asked, ledger, faults, cut>>
  BY DEF Answer
<1> DEFINE after(b) == IF b.id = q[s].id THEN [b EXCEPT !.cost = cost] ELSE b
           g == [b \in bills |-> after(b)]
<1>7. bills' = {after(b) : b \in bills}
  BY DEF Answer
<1>8. \A b \in bills : /\ after(b) \in Bills /\ after(b).id = b.id /\ after(b).month = b.month
                       /\ b.id = q[s].id => after(b).cost = cost
                       /\ b.id # q[s].id => after(b) = b
  BY DEF IInv, TypeOK, Bills
<1> HIDE DEF after
<1>9. \A b \in bills' : b.id = q[s].id => b.cost <= cost
  BY <1>7, <1>8
<1>10. BillsAreCovered'
  <2>1. g \in Surjection(bills, bills')
    BY <1>7 DEF Surjection
  <2>2. IsFiniteSet(bills')
    <3> HIDE DEF g
    <3> QED
      BY <2>1, FS_Surjection DEF IInv, BillsAreCovered
  <2>3. \A b, c \in bills' : b.id = c.id => b = c
    BY <1>7, <1>8 DEF IInv, BillsAreCovered
  <2>4. ASSUME NEW b \in bills
        PROVE  \E e \in ledger :
                  /\ e.id = after(b).id /\ e.month = after(b).month /\ e.status # "cancelled"
                  /\ ReservesEnough => after(b).cost <= e.cost
    <3>1. PICK e \in ledger : /\ e.id = b.id /\ e.month = b.month /\ e.status # "cancelled"
                              /\ ReservesEnough => b.cost <= e.cost
      BY DEF IInv, BillsAreCovered
    <3>2. b.id = q[s].id => e.cost = ReservedCost(s)
      <4>1. Entry(q[s].id, q[s].month, ReservedCost(s)) \in ledger
        BY <1>1, StageIs DEF Stage, Reserved
      <4>2. Entry(q[s].id, q[s].month, ReservedCost(s)).id = q[s].id
            /\ Entry(q[s].id, q[s].month, ReservedCost(s)).cost = ReservedCost(s)
        BY DEF Entry
      <4> QED
        BY <3>1, <4>1, <4>2 DEF IInv, LedgerOK
    <3> QED
      BY <1>3, <1>8, <3>1, <3>2
  <2> QED
    BY <1>6, <1>7, <2>2, <2>3, <2>4 DEF BillsAreCovered
<1>11. bills' \in SUBSET Bills /\ \A b \in bills' : b \in bills \/ b.id = q[s].id
  BY <1>7, <1>8
<1>12. faults' \in 0..MaxFaults
  BY <1>6, StageIs
<1> QED
  BY <1>3, <1>4, <1>5, <1>6, <1>9, <1>10, <1>11, <1>12, FinishKeeps

\* A member asks, with an id that nothing has had before.
LEMMA AskKeeps ==
    ASSUME IInv, NEW s \in Slots, NEW u \in Members, NEW input \in Inputs, Ask(s, u, input)
    PROVE  IInv'
<1>1. q[s].step = "idle" /\ q[s] = NoQuestion /\ asked \in Nat /\ MaxQuestions \in Nat
      /\ asked < MaxQuestions
  BY AssistantAssumption DEF Ask, IInv, TypeOK, QuestionsOK
<1>2. UNCHANGED <<host, now, admission, total, ledger, faults, bills, log, cut>>
      /\ asked' = asked + 1
  BY DEF Ask, memory, history
<1>3. /\ q' \in [Slots -> Questions] /\ \A t \in Slots \ {s} : q'[t] = q[t]
      /\ q'[s].step = "waiting" /\ q'[s].id = asked + 1 /\ q'[s].who = u
      /\ q'[s].input = input /\ q'[s].copy = None
  <2> DEFINE new == [NoQuestion EXCEPT !.step = "waiting", !.id = asked + 1, !.who = u,
                                       !.input = input]
  <2>1. new \in Questions /\ new.step = "waiting" /\ new.id = asked + 1 /\ new.who = u
        /\ new.input = input /\ new.copy = None
    <3>1. asked + 1 \in Ids /\ "waiting" \in Steps
      BY <1>1 DEF Ids, Steps
    <3>2. NoQuestion \in Questions /\ NoQuestion.copy = None
      BY NoQuestionIs
    <3> QED
      BY <3>1, <3>2 DEF Questions
  <2>2. q' = [q EXCEPT ![s] = new]
    BY DEF Ask
  <2> HIDE DEF new
  <2>3. q \in [Slots -> Questions]
    BY DEF IInv, TypeOK
  <2> QED
    BY <2>1, <2>2, <2>3
<1>4. TypeOK'
  BY <1>1, <1>2, <1>3 DEF IInv, TypeOK
<1>5. QuestionsOK'
  <2>1. \A t \in Slots \ {s} : q[t].step # "idle" => q[t].id \in 1..asked
    BY DEF IInv, QuestionsOK
  <2>2. \A t \in Slots : q'[t].step # "idle" =>
            q'[t].id \in 1..asked' /\ q'[t].who \in Members /\ q'[t].input \in Inputs
    BY <1>1, <1>2, <1>3 DEF IInv, QuestionsOK
  <2>3. \A t, v \in Slots :
            q'[t].step # "idle" /\ q'[v].step # "idle" /\ q'[t].id = q'[v].id => t = v
    BY <1>1, <1>2, <1>3, <2>1 DEF IInv, QuestionsOK
  <2>4. \A t \in Slots : q'[t].step = "idle" => q'[t] = NoQuestion
    BY <1>3 DEF IInv, QuestionsOK
  <2> QED
    BY <2>2, <2>3, <2>4 DEF QuestionsOK, NoQuestion
<1>6. CopiesAreFresh'
  BY <1>2, <1>3 DEF IInv, CopiesAreFresh, UsesStore
<1>7. LedgerOK'
  <2>1. \A m : SpentInMonth(ledger', m) = SpentInMonth(ledger, m)
    BY <1>2
  <2>2. \A e \in ledger : e.id \in Nat
    BY DEF IInv, TypeOK, Entries, Ids
  <2> QED
    BY <1>1, <1>2, <2>1, <2>2 DEF IInv, LedgerOK
<1>8. BillsAreCovered'
  BY <1>2 DEF IInv, BillsAreCovered
<1>9. StagesOK'
  <2>1. Stage(s)'
    <3>1. \A e \in ledger : e.id # asked + 1
      <4>1. \A e \in ledger : e.id \in Nat
        BY DEF IInv, TypeOK, Entries, Ids
      <4> QED
        BY <1>1, <4>1 DEF IInv, LedgerOK
    <3>2. \A b \in bills : b.id # asked + 1
      BY <3>1 DEF IInv, BillsAreCovered
    <3> QED
      BY <1>2, <1>3, <3>1, <3>2 DEF Stage, Reserved
  <2>2. ASSUME NEW t \in Slots \ {s} PROVE Stage(t)'
    <3>1. q'[t] = q[t]
      BY <1>3
    <3>2. ReservedCost(t)' = ReservedCost(t)
      BY <3>1 DEF ReservedCost, Cost
    <3>3. Entry(q[t].id, q[t].month, ReservedCost(t))' = Entry(q[t].id, q[t].month, ReservedCost(t))
      BY <3>1, <3>2 DEF Entry
    <3>4. Stage(t)
      BY DEF IInv, StagesOK
    <3> QED
      BY <1>2, <3>1, <3>2, <3>3, <3>4 DEF Stage
  <2> QED
    BY <2>1, <2>2 DEF StagesOK
<1>10. OpenOK'
  <2> SUFFICES ASSUME NEW e \in ledger, e.status = "reserved"
               PROVE  e.id \in cut \cup {q'[t].id : t \in Slots}
    BY <1>2 DEF OpenOK
  <2>1. e.id # 0
    BY DEF IInv, TypeOK, Entries, Ids
  <2>2. \A t \in Slots : e.id = q[t].id => e.id = q'[t].id
    BY <1>1, <1>3, <2>1, NoQuestionIs
  <2> QED
    BY <2>2 DEF IInv, OpenOK
<1>11. Admitted' = Admitted /\ \A t \in Admitted : q'[t] = q[t] /\ q[t] = q'[t]
  BY <1>1, <1>3 DEF Admitted
<1>12. LogOK'
  <2>1. \A e \in log : e.id \in Nat /\ e.id <= asked
    BY DEF IInv, TypeOK, LogOK, Ids
  <2>2. \A e \in log : e.end = None => \E t \in Admitted' : q'[t].id = e.id
    BY <1>11 DEF IInv, LogOK
  <2>3. ASSUME NEW e \in log, NEW t \in Slots, q'[t].id = e.id
        PROVE  /\ q'[t].step \notin Unsent /\ e.who = q'[t].who
               /\ q'[t].step = "answering" => e.end = None /\ e.used = Reservation(q'[t].input)
    <3>1. t # s
      BY <1>1, <1>3, <2>1, <2>3
    <3>2. q'[t] = q[t]
      BY <1>3, <3>1
    <3> QED
      BY <2>3, <3>2 DEF IInv, LogOK
  <2> QED
    BY <1>1, <1>2, <2>1, <2>2, <2>3 DEF IInv, LogOK, Reservation
<1>13. AdmissionOK'
  <2>1. \A v : AdmittedOf(v)' = AdmittedOf(v)
    BY <1>11 DEF AdmittedOf
  <2>2. \A t \in Admitted : Reservation(q'[t].input) = Reservation(q[t].input)
    BY <1>11
  <2>3. Reservations(Admitted)' = Reservations(Admitted)
    BY <1>11, <2>2 DEF Reservations, Reservation
  <2>4. \A v : Reservations(AdmittedOf(v))' = Reservations(AdmittedOf(v))
    BY <2>1, <2>2 DEF Reservations, AdmittedOf, Reservation
  <2>5. \A v : LogOf(v)' = LogOf(v)
    BY <1>2 DEF LogOf
  <2>6. BucketOK(total', Reservations(Admitted)', log', now', GlobalWindow, GlobalLimits)
    BY <1>2, <2>3 DEF IInv, AdmissionOK
  <2>7. ASSUME NEW v \in Members
        PROVE  BucketOK(admission'[v], Reservations(AdmittedOf(v))', LogOf(v)', now',
                        MemberWindow, MemberLimits)
    BY <1>2, <2>4, <2>5 DEF IInv, AdmissionOK
  <2> QED
    BY <2>6, <2>7 DEF AdmissionOK
<1> QED
  BY <1>4, <1>5, <1>6, <1>7, <1>8, <1>9, <1>10, <1>12, <1>13 DEF IInv

\* Admission starts empty.
LEMMA BucketStarts ==
    ASSUME NEW f, DOMAIN f = {}, NEW t \in Nat, NEW w \in Nat,
           NEW limits \in [running : Nat, requests : Nat, tokens : Nat]
    PROVE  BucketOK(NoTraffic, f, {}, t, w, limits)
<1>1. IsFiniteSet({}) /\ Cardinality({}) = 0
  BY FS_EmptySet
<1>2. NoTraffic.running = 0 /\ NoTraffic.reserved = 0 /\ NoTraffic.requests = {}
      /\ NoTraffic.samples = {}
  BY DEF NoTraffic
<1>3. Prune(NoTraffic, t, w).requests = {} /\ Prune(NoTraffic, t, w).samples = {}
  BY DEF Prune, NoTraffic
<1>4. TokenTotal(Prune(NoTraffic, t, w)) = 0
  <2> DEFINE g == [sample \in Prune(NoTraffic, t, w).samples |-> sample.tokens]
  <2>1. DOMAIN g = {}
    BY <1>3
  <2> HIDE DEF g
  <2>2. Total(g) = 0
    BY <2>1, TotalOfNone
  <2> QED
    BY <2>2 DEF TokenTotal, g
<1>5. limits.requests \in Nat /\ limits.tokens \in Nat
  OBVIOUS
<1>6. Counts(NoTraffic, f)
  BY <1>1, <1>2, TotalOfNone DEF Counts
<1>7. WithinLimits(NoTraffic, t, w, limits)
  BY <1>1, <1>2, <1>3, <1>4, <1>5 DEF WithinLimits
<1>8. RequestsHold({}, t, w, limits)
  <2>1. \A n : {e \in {} : In(e, n, w)} = {}
    OBVIOUS
  <2> QED
    BY <1>1, <1>5, <2>1 DEF RequestsHold
<1> QED
  BY <1>1, <1>2, <1>6, <1>7, <1>8 DEF BucketOK, Finite, Remembers

\* With nobody at the provider and nothing remembered, admission is as it starts.
LEMMA AdmissionStarts ==
    ASSUME admission = [u \in Members |-> NoTraffic], total = NoTraffic, log = {}, now \in Nat,
           Admitted = {}
    PROVE  /\ AdmissionOK /\ LogOK
           /\ admission \in [Members -> Traffic] /\ total \in Traffic
<1>1. NoTraffic \in Traffic
  BY DEF NoTraffic, Traffic
<1>2. DOMAIN Reservations(Admitted) = {} /\ \A u : DOMAIN Reservations(AdmittedOf(u)) = {}
  BY DEF Reservations, AdmittedOf
<1>3. \A u : LogOf(u) = {}
  BY DEF LogOf
<1>4. MemberWindow \in Nat /\ GlobalWindow \in Nat
      /\ MemberLimits \in [running : Nat, requests : Nat, tokens : Nat]
      /\ GlobalLimits \in [running : Nat, requests : Nat, tokens : Nat]
  BY Numbers
<1>5. BucketOK(total, Reservations(Admitted), log, now, GlobalWindow, GlobalLimits)
  BY <1>2, <1>4, BucketStarts
<1>6. ASSUME NEW u \in Members
      PROVE  BucketOK(admission[u], Reservations(AdmittedOf(u)), LogOf(u), now,
                      MemberWindow, MemberLimits)
  BY <1>2, <1>3, <1>4, BucketStarts
<1>7. LogOK
  BY FS_EmptySet DEF LogOK
<1> QED
  BY <1>1, <1>5, <1>6, <1>7 DEF AdmissionOK

LEMMA InitHolds ==
    ASSUME Init
    PROVE  IInv
<1>1. \A s \in Slots : q[s] = NoQuestion
  BY DEF Init
<1>2. Admitted = {}
  BY <1>1, NoQuestionIs DEF Admitted
<1>3. AdmissionOK /\ LogOK /\ admission \in [Members -> Traffic] /\ total \in Traffic
  BY <1>2, AdmissionStarts DEF Init
<1>4. TypeOK
  BY <1>1, <1>3, NoQuestionIs, AssistantAssumption DEF Init, TypeOK
<1>5. QuestionsOK /\ CopiesAreFresh
  BY <1>1, NoQuestionIs DEF QuestionsOK, CopiesAreFresh
<1>6. LedgerOK /\ BillsAreCovered /\ OpenOK
  BY FS_EmptySet DEF Init, LedgerOK, BillsAreCovered, OpenOK
<1>7. StagesOK
  BY <1>1, NoQuestionIs DEF StagesOK, Stage, Unreserved, Reserved, Unsent
<1> QED
  BY <1>3, <1>4, <1>5, <1>6, <1>7 DEF IInv

\* A restart ends every question where it is.
LEMMA CrashKeeps ==
    ASSUME IInv, Crash
    PROVE  IInv'
<1>1. UNCHANGED <<host, now, asked, ledger, bills>> /\ faults' \in 0..MaxFaults
  BY FaultIs DEF Crash, IInv
<1>2. /\ q' = [s \in Slots |-> NoQuestion] /\ \A s \in Slots : q'[s] = NoQuestion
      /\ admission' = [u \in Members |-> NoTraffic] /\ total' = NoTraffic /\ log' = {}
      /\ cut' = cut \cup {q[s].id : s \in Slots}
  BY DEF Crash
<1>3. Admitted' = {}
  BY <1>2, NoQuestionIs DEF Admitted
<1>4. AdmissionOK' /\ LogOK' /\ admission' \in [Members -> Traffic] /\ total' \in Traffic
  <2>1. now' \in Nat
    BY <1>1 DEF IInv, TypeOK
  <2>2. DOMAIN Reservations(Admitted)' = {} /\ \A u : DOMAIN Reservations(AdmittedOf(u))' = {}
    BY <1>3 DEF Reservations, AdmittedOf
  <2>3. \A u : LogOf(u)' = {}
    BY <1>2 DEF LogOf
  <2>4. /\ MemberWindow \in Nat /\ GlobalWindow \in Nat
        /\ MemberLimits \in [running : Nat, requests : Nat, tokens : Nat]
        /\ GlobalLimits \in [running : Nat, requests : Nat, tokens : Nat]
    BY Numbers
  <2>5. BucketOK(total', Reservations(Admitted)', log', now', GlobalWindow, GlobalLimits)
    BY <1>2, <2>1, <2>2, <2>4, BucketStarts
  <2>6. ASSUME NEW u \in Members
        PROVE  BucketOK(admission'[u], Reservations(AdmittedOf(u))', LogOf(u)', now',
                        MemberWindow, MemberLimits)
    BY <1>2, <2>1, <2>2, <2>3, <2>4, BucketStarts
  <2>7. LogOK'
    BY <1>2, FS_EmptySet DEF LogOK
  <2>8. NoTraffic \in Traffic
    BY DEF NoTraffic, Traffic
  <2> QED
    BY <1>2, <2>5, <2>6, <2>7, <2>8 DEF AdmissionOK
<1>5. TypeOK'
  <2>1. cut' \in SUBSET (Ids \cup {0})
    BY <1>2 DEF IInv, TypeOK, Questions
  <2> QED
    BY <1>1, <1>2, <1>4, <2>1, NoQuestionIs DEF IInv, TypeOK
<1>6. QuestionsOK'
  BY <1>2, NoQuestionIs DEF QuestionsOK, NoQuestion
<1>7. CopiesAreFresh'
  BY <1>2, NoQuestionIs DEF CopiesAreFresh
<1>8. LedgerOK' /\ BillsAreCovered'
  BY <1>1, QuietLedger
<1>9. OpenOK'
  BY <1>1, <1>2 DEF IInv, OpenOK
<1>10. StagesOK'
  BY <1>2, NoQuestionIs DEF StagesOK, Stage, Unreserved, Reserved, Unsent
<1> QED
  BY <1>4, <1>5, <1>6, <1>7, <1>8, <1>9, <1>10 DEF IInv

\* As time passes, less counts.
LEMMA TickKeeps ==
    ASSUME IInv, Tick
    PROVE  IInv'
<1>1. /\ UNCHANGED <<host, q, asked, admission, total, ledger, faults, bills, log, cut>>
      /\ now' = now + 1 /\ now \in Nat /\ now' \in 0..MaxTime
  BY AssistantAssumption DEF Tick, memory, history, IInv, TypeOK
<1>2. TypeOK'
  BY <1>1 DEF IInv, TypeOK
<1>3. QuestionsOK'
  BY <1>1 DEF IInv, QuestionsOK, NoQuestion
<1>4. CopiesAreFresh'
  BY <1>1 DEF IInv, CopiesAreFresh, UsesStore
<1>5. LedgerOK' /\ BillsAreCovered'
  BY <1>1, QuietLedger
<1>6. StagesOK'
  <2> SUFFICES ASSUME NEW s \in Slots PROVE Stage(s)'
    BY DEF StagesOK
  <2>1. ReservedCost(s)' = ReservedCost(s)
    BY <1>1 DEF ReservedCost, Cost
  <2>2. Entry(q[s].id, q[s].month, ReservedCost(s))' = Entry(q[s].id, q[s].month, ReservedCost(s))
    BY <1>1, <2>1 DEF Entry
  <2> QED
    BY <1>1, <2>1, <2>2 DEF IInv, StagesOK, Stage
<1>7. OpenOK'
  BY <1>1 DEF IInv, OpenOK
<1>8. LogOK'
  <2>1. \A e \in log : e.at \in Nat
    BY DEF IInv, TypeOK
  <2>2. \A e \in log : e.id <= asked' /\ e.at <= now'
    BY <1>1, <2>1 DEF IInv, LogOK
  <2>3. Admitted' = Admitted
    BY <1>1 DEF Admitted
  <2> QED
    BY <1>1, <2>2, <2>3 DEF IInv, LogOK, Reservation
<1>9. AdmissionOK'
  <2>1. /\ Reservations(Admitted)' = Reservations(Admitted)
        /\ \A u : Reservations(AdmittedOf(u))' = Reservations(AdmittedOf(u))
        /\ \A u : LogOf(u)' = LogOf(u)
    BY <1>1 DEF Reservations, Admitted, AdmittedOf, LogOf, Reservation
  <2>2. /\ MemberWindow \in Nat /\ GlobalWindow \in Nat
        /\ MemberLimits \in [running : Nat, requests : Nat, tokens : Nat]
        /\ GlobalLimits \in [running : Nat, requests : Nat, tokens : Nat]
        /\ total \in Traffic /\ admission \in [Members -> Traffic]
    BY Numbers DEF IInv, TypeOK
  <2>3. /\ log \in SUBSET Admissions /\ IsFiniteSet(log)
        /\ \A u : LogOf(u) \in SUBSET Admissions /\ IsFiniteSet(LogOf(u))
    BY LogIs DEF IInv
  <2>4. \A e \in log : e.at <= now
    BY DEF IInv, LogOK
  <2>5. BucketOK(total', Reservations(Admitted)', log', now', GlobalWindow, GlobalLimits)
    <3>1. BucketOK(total, Reservations(Admitted), log, now, GlobalWindow, GlobalLimits)
      BY DEF IInv, AdmissionOK
    <3>2. BucketOK(total, Reservations(Admitted), log, now + 1, GlobalWindow, GlobalLimits)
      BY <1>1, <2>2, <2>3, <2>4, <3>1, BucketTicks
    <3> QED
      BY <1>1, <2>1, <3>2
  <2>6. ASSUME NEW u \in Members
        PROVE  BucketOK(admission'[u], Reservations(AdmittedOf(u))', LogOf(u)', now',
                        MemberWindow, MemberLimits)
    <3>1. BucketOK(admission[u], Reservations(AdmittedOf(u)), LogOf(u), now,
                   MemberWindow, MemberLimits)
      BY DEF IInv, AdmissionOK
    <3>2. \A e \in LogOf(u) : e.at <= now
      BY <2>4 DEF LogOf
    <3>3. BucketOK(admission[u], Reservations(AdmittedOf(u)), LogOf(u), now + 1,
                   MemberWindow, MemberLimits)
      BY <1>1, <2>2, <2>3, <3>1, <3>2, BucketTicks
    <3> QED
      BY <1>1, <2>1, <3>3
  <2> QED
    BY <2>5, <2>6 DEF AdmissionOK
<1> QED
  BY <1>2, <1>3, <1>4, <1>5, <1>6, <1>7, <1>8, <1>9 DEF IInv

LEMMA StepKeeps ==
    ASSUME IInv, [Next]_vars
    PROVE  IInv'
<1>1. CASE UNCHANGED vars
  <2>1. /\ UNCHANGED <<host, now, q, asked, admission, total, ledger, faults, bills, log, cut>>
    BY <1>1 DEF vars
  <2>2. TypeOK' /\ QuestionsOK' /\ CopiesAreFresh' /\ BillsAreCovered' /\ OpenOK'
    BY <2>1 DEF IInv, TypeOK, QuestionsOK, CopiesAreFresh, BillsAreCovered, OpenOK, NoQuestion,
                UsesStore
  <2>3. LedgerOK'
    BY <2>1, QuietLedger
  <2>4. StagesOK'
    BY <2>1 DEF IInv, StagesOK, Stage, ReservedCost, Cost, Entry
  <2>5. LogOK'
    BY <2>1 DEF IInv, LogOK, Admitted, Reservation
  <2>6. /\ Reservations(Admitted)' = Reservations(Admitted)
        /\ \A u : Reservations(AdmittedOf(u))' = Reservations(AdmittedOf(u))
        /\ \A u : LogOf(u)' = LogOf(u)
    BY <2>1 DEF Reservations, Admitted, AdmittedOf, LogOf, Reservation
  <2>7. AdmissionOK'
    BY <2>1, <2>6 DEF IInv, AdmissionOK
  <2> QED
    BY <2>2, <2>3, <2>4, <2>5, <2>7 DEF IInv
<1>2. ASSUME NEW s \in Slots, NEW u \in Members, NEW input \in Inputs, Ask(s, u, input)
      PROVE  IInv'
  BY <1>2, AskKeeps
<1>3. ASSUME NEW s \in Slots, Progress(s)
      PROVE  IInv'
  BY <1>3, HandleKeeps, CorpusReadyKeeps, LoadKeeps, ReserveKeeps, ReserveDeniedKeeps,
     AcquireKeeps, RefusalKeeps, AnswerKeeps, CancelKeeps, ChargeKeeps, RecordKeeps DEF Progress
<1>4. ASSUME NEW s \in Slots,
             CorpusUnavailable(s) \/ ProviderFails(s) \/ StoreFails(s) \/ Interrupt(s)
      PROVE  IInv'
  BY <1>4, CorpusUnavailableKeeps, ProviderFailsKeeps, StoreFailsKeeps, InterruptKeeps
<1>5. CASE Crash
  BY <1>5, CrashKeeps
<1>6. CASE Tick
  BY <1>6, TickKeeps
<1> QED
  BY <1>1, <1>2, <1>3, <1>4, <1>5, <1>6 DEF Next

LEMMA Inductive == Spec => []IInv
<1>1. Init => IInv
  BY InitHolds
<1>2. IInv /\ [Next]_vars => IInv'
  BY StepKeeps
<1> QED
  BY <1>1, <1>2, PTL DEF Spec
-----------------------------------------------------------------------------
(* What the budgets promise                                                *)

\* Every variable keeps its type (docs/state.ts, docs/admission.ts).
THEOREM TypesAreKept == Spec => []TypeOK
<1>1. IInv => TypeOK
  BY DEF IInv
<1> QED
  BY <1>1, Inductive, PTL

LEMMA BillsFit ==
    ASSUME IInv, ReservesEnough
    PROVE  SpendIsBounded
<1> SUFFICES ASSUME NEW a \in bills
             PROVE  Total([b \in {b \in bills : b.month = a.month} |-> b.cost]) <= Ceiling
  BY DEF SpendIsBounded
<1> PICK m \in Nat : m = a.month
  BY DEF IInv, TypeOK
<1>1. m \in {e.month : e \in ledger}
  <2>1. PICK e \in ledger : e.month = a.month
    BY DEF IInv, BillsAreCovered
  <2> QED
    BY <2>1
<1>2. SpentInMonth(ledger, m) <= Ceiling
  BY <1>1 DEF IInv, LedgerOK
<1>3. ledger \in SUBSET Entries /\ IsFiniteSet(ledger)
      /\ bills \in SUBSET [id : Ids, month : Nat, cost : Nat] /\ IsFiniteSet(bills)
      /\ \A b, c \in bills : b.id = c.id => b = c
  BY DEF IInv, TypeOK, LedgerOK, BillsAreCovered
<1> DEFINE bill == [b \in {b \in bills : b.month = m} |-> b.cost]
<1>4. Total(bill) <= SpentInMonth(ledger, m)
  <2>1. \A b \in bills : \E e \in ledger :
            e.id = b.id /\ e.month = b.month /\ e.status # "cancelled" /\ b.cost <= e.cost
    BY DEF IInv, BillsAreCovered
  <2> QED
    BY <1>3, <2>1, BillsAreBounded
<1>5. Total(bill) \in Nat
  <2> DEFINE S == {b \in bills : b.month = m}
  <2>1. IsFiniteSet(S)
    BY <1>3, FS_Subset
  <2>2. bill \in [S -> Nat]
    BY <1>3
  <2> HIDE DEF S, bill
  <2> QED
    BY <2>1, <2>2, TotalIsNat
<1>6. SpentInMonth(ledger, m) \in Nat
  BY <1>3, SpentIs
<1> HIDE DEF bill
<1>7. Total(bill) <= Ceiling
  BY <1>2, <1>4, <1>5, <1>6, Numbers
<1> QED
  BY <1>7 DEF bill

\* If what is reserved for a request covers what it permits then, whatever fails,
\* crashes or is interrupted, on either host, with any number of questions under
\* way: the bills of a month stay below the ceiling, because each is covered by a
\* reservation of the ledger (docs/state.ts).
THEOREM MonthlySpendIsBounded ==
    ASSUME ReservesEnough
    PROVE  Spec => []SpendIsBounded
<1>1. IInv => SpendIsBounded
  BY BillsFit
<1> QED
  BY <1>1, Inductive, PTL

\* The counters of admission are those of the questions at the provider, and a
\* reservation stays open only for a question that runs or was cut short
\* (docs/admission.ts, docs/assistant.ts).
THEOREM NothingStaysHeld == Spec => []NothingIsHeld
<1>1. IInv => NothingIsHeld
  <2> SUFFICES ASSUME IInv PROVE NothingIsHeld
    OBVIOUS
  <2>1. DOMAIN Reservations(Admitted) = Admitted
        /\ \A u : DOMAIN Reservations(AdmittedOf(u)) = AdmittedOf(u)
    BY DEF Reservations
  <2>2. total.running = Cardinality(Admitted) /\ total.reserved = Total(Reservations(Admitted))
    BY <2>1 DEF IInv, AdmissionOK, BucketOK, Counts
  <2>3. \A u \in Members :
            /\ admission[u].running = Cardinality(AdmittedOf(u))
            /\ admission[u].reserved = Total(Reservations(AdmittedOf(u)))
    BY <2>1 DEF IInv, AdmissionOK, BucketOK, Counts
  <2> QED
    BY <2>2, <2>3 DEF IInv, OpenOK, NothingIsHeld
<1> QED
  BY <1>1, Inductive, PTL

\* A request of the log without an end is one at the provider.
LEMMA RequestsAreRunning ==
    ASSUME IInv, NEW L, L \subseteq log, NEW S, S \subseteq Admitted,
           \A e \in L, s \in Admitted : q[s].id = e.id => s \in S
    PROVE  \E h \in Injection({e \in L : e.end = None}, S) :
              \A e \in L : e.end = None => e.used <= Reservations(S)[h[e]]
<1> DEFINE R == {e \in L : e.end = None}
           of(e) == CHOOSE s \in Admitted : q[s].id = e.id
           h == [e \in R |-> of(e)]
<1>1. ASSUME NEW e \in R
      PROVE  of(e) \in S /\ q[of(e)].id = e.id /\ e.used <= Reservation(q[of(e)].input)
  <2>1. \E s \in Admitted : q[s].id = e.id
    BY DEF IInv, LogOK
  <2>2. of(e) \in Admitted /\ q[of(e)].id = e.id
    BY <2>1
  <2> HIDE DEF of
  <2>3. e.used = Reservation(q[of(e)].input)
    BY <2>2 DEF IInv, LogOK, Admitted
  <2>4. e.used \in Nat
    BY DEF IInv, TypeOK
  <2> QED
    BY <2>2, <2>3, <2>4
<1>2. \A e, d \in R : of(e) = of(d) => e = d
  <2> HIDE DEF of
  <2> QED BY <1>1 DEF IInv, LogOK
<1> HIDE DEF of
<1>3. h \in Injection(R, S)
  BY <1>1, <1>2 DEF Injection, IsInjective
<1>4. \A e \in R : e.used <= Reservations(S)[h[e]]
  BY <1>1 DEF Reservations
<1> QED
  BY <1>3, <1>4

\* If what is reserved for a request covers what it permits then within any window
\* the members stay below their limits, and all of them together below theirs, as
\* long as the process lives (docs/admission.ts).
THEOREM AdmissionLimitsHold ==
    ASSUME ReservesEnough
    PROVE  Spec => []LimitsHold
<1>1. IInv => LimitsHold
  <2> SUFFICES ASSUME IInv PROVE LimitsHold
    OBVIOUS
  <2>1. /\ MemberWindow \in Nat /\ GlobalWindow \in Nat
        /\ MemberLimits \in [running : Nat, requests : Nat, tokens : Nat]
        /\ GlobalLimits \in [running : Nat, requests : Nat, tokens : Nat]
        /\ total \in Traffic /\ admission \in [Members -> Traffic] /\ now \in Nat
    BY Numbers DEF IInv, TypeOK
  <2>2. /\ log \in SUBSET Admissions /\ IsFiniteSet(log)
        /\ \A e, d \in log : e.id = d.id => e = d
        /\ \A u : /\ LogOf(u) \in SUBSET Admissions /\ IsFiniteSet(LogOf(u))
                  /\ \A e, d \in LogOf(u) : e.id = d.id => e = d
    BY LogIs DEF IInv
  <2>3. /\ IsFiniteSet(Admitted) /\ Reservations(Admitted) \in [Admitted -> Nat]
        /\ \A u : /\ IsFiniteSet(AdmittedOf(u)) /\ AdmittedOf(u) \subseteq Admitted
                  /\ Reservations(AdmittedOf(u)) \in [AdmittedOf(u) -> Nat]
    BY ReservationsAre DEF IInv
  <2>4. UsedTokens(log) <= GlobalLimits.tokens
    <3>1. PICK h \in Injection({e \in log : e.end = None}, Admitted) :
              \A e \in log : e.end = None => e.used <= Reservations(Admitted)[h[e]]
      BY RequestsAreRunning
    <3>2. BucketOK(total, Reservations(Admitted), log, now, GlobalWindow, GlobalLimits)
      BY DEF IInv, AdmissionOK
    <3> QED
      BY <2>1, <2>2, <2>3, <3>1, <3>2, BucketHolds
  <2>5. ASSUME NEW u \in Members PROVE UsedTokens(LogOf(u)) <= MemberLimits.tokens
    <3>1. LogOf(u) \subseteq log
      BY DEF LogOf
    <3>2. \A e \in LogOf(u), s \in Admitted : q[s].id = e.id => s \in AdmittedOf(u)
      BY DEF IInv, LogOK, LogOf, AdmittedOf, Admitted
    <3>3. PICK h \in Injection({e \in LogOf(u) : e.end = None}, AdmittedOf(u)) :
              \A e \in LogOf(u) : e.end = None => e.used <= Reservations(AdmittedOf(u))[h[e]]
      BY <2>3, <3>1, <3>2, RequestsAreRunning
    <3>4. BucketOK(admission[u], Reservations(AdmittedOf(u)), LogOf(u), now,
                   MemberWindow, MemberLimits)
      BY DEF IInv, AdmissionOK
    <3> QED
      BY <2>1, <2>2, <2>3, <3>3, <3>4, BucketHolds
  <2>6. \A t \in 0..now :
            Cardinality({e \in log : In(e, t, GlobalWindow)}) <= GlobalLimits.requests
    BY DEF IInv, AdmissionOK, BucketOK, RequestsHold
  <2>7. \A u \in Members : \A t \in 0..now :
            Cardinality({e \in LogOf(u) : In(e, t, MemberWindow)}) <= MemberLimits.requests
    BY DEF IInv, AdmissionOK, BucketOK, RequestsHold
  <2> QED
    BY <2>4, <2>5, <2>6, <2>7 DEF LimitsHold
<1> QED
  BY <1>1, Inductive, PTL
=============================================================================
