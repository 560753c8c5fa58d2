----------------------------- MODULE DocsBudget -----------------------------
(***************************************************************************)
(* The two budgets a /docs question has to fit into, as values: the        *)
(* admission state kept in memory (how many questions run, and what was    *)
(* asked and used inside sliding windows, per member and for everybody)    *)
(* and the ledger of monthly reservations kept on disk.                    *)
(***************************************************************************)
EXTENDS Naturals, Totals

CONSTANTS
    MaxInput,                       \* tokens of one request, by configuration:
    ReservedOutput,                 \*   outputTokensPerRequest
    MemberWindow, GlobalWindow,     \* how long a request counts
    TokenWindow,                    \* how long used tokens count
    MemberLimits, GlobalLimits,     \* [running, requests, tokens]
    Ceiling,                        \* what the questions of a month may cost
    MonthLength

ASSUME BudgetAssumption ==
    /\ {MaxInput, ReservedOutput, Ceiling} \subseteq Nat
    /\ {MemberWindow, GlobalWindow, TokenWindow, MonthLength} \subseteq Nat \ {0}
    /\ {MemberLimits, GlobalLimits} \subseteq [running : Nat, requests : Nat, tokens : Nat]

Month(t) == t \div MonthLength

\* GPT-6 Luna: an output token costs five input tokens; rounded up.
Cost(input, output) == (input + output * 5 + 9) \div 10

\* A request reserves what it puts in and what it is configured to put out.
Reservation(input) == input + ReservedOutput
-----------------------------------------------------------------------------
(* Admission                                                               *)

\* The order of what is remembered plays no part: the times of requests and the
\* samples of used tokens are sets, whose members the question tells apart.
NoTraffic == [running |-> 0, reserved |-> 0, requests |-> {}, samples |-> {}]

TokenTotal(b) == Total([sample \in b.samples |-> sample.tokens])

\* Only what lies inside the windows is remembered.
Prune(b, at, requestWindow) ==
    [b EXCEPT !.requests = {r \in @ : r.at + requestWindow > at},
              !.samples = {s \in @ : s.at + TokenWindow > at}]

\* Mutant of HasRoom: what running requests have reserved is not counted.
HasRoomNow(b, tokens, limits) ==
    /\ b.running < limits.running
    /\ Cardinality(b.requests) < limits.requests
    /\ TokenTotal(b) + tokens <= limits.tokens

HasRoom(b, tokens, limits) ==
    /\ b.running < limits.running
    /\ Cardinality(b.requests) < limits.requests
    /\ TokenTotal(b) + b.reserved + tokens <= limits.tokens

\* The admission of a request, against the pruned states of its member and of all.
Admits(input, member, all) ==
    /\ input <= MaxInput
    /\ HasRoom(member, Reservation(input), MemberLimits)
    /\ HasRoom(all, Reservation(input), GlobalLimits)

\* Mutant of Acquired: the request is not counted as running.
AcquiredUncounted(b, id, at, tokens) ==
    [b EXCEPT !.reserved = @ + tokens, !.requests = @ \cup {[id |-> id, at |-> at]}]

Acquired(b, id, at, tokens) ==
    [b EXCEPT !.running = @ + 1, !.reserved = @ + tokens,
              !.requests = @ \cup {[id |-> id, at |-> at]}]

\* The reservation is returned, and what was really used counts from now on.
Completed(b, id, at, tokens, used, requestWindow) ==
    Prune([b EXCEPT !.running = @ - 1, !.reserved = @ - tokens,
                    !.samples = @ \cup {[id |-> id, at |-> at, tokens |-> used]}],
          at, requestWindow)
-----------------------------------------------------------------------------
(* The ledger                                                              *)

Entry(id, month, cost) == [id |-> id, month |-> month, cost |-> cost, status |-> "reserved"]

\* A reservation counts in full until it is settled, a cancelled one not at all.
SpentInMonth(ledger, month) ==
    Total([e \in {e \in ledger : e.status # "cancelled" /\ e.month = month} |-> e.cost])

Fits(ledger, month, cost) == SpentInMonth(ledger, month) + cost <= Ceiling

\* Settling is idempotent: only an entry that is still reserved changes.
Settled(ledger, id, status, cost) ==
    {IF e.id = id /\ e.status = "reserved" THEN [e EXCEPT !.status = status, !.cost = cost]
                                           ELSE e : e \in ledger}
=============================================================================
