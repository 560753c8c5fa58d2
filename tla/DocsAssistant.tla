---------------------------- MODULE DocsAssistant ----------------------------
(***************************************************************************)
(* The life of /docs questions, from the Gateway event to the recorded     *)
(* answer, on either host of the Discord bot.  On Node every event is      *)
(* handled in a fiber of its own and the state file has a queue of writers *)
(* so that each operation of the store is one step.  On Cloudflare the     *)
(* store reads its state, and later writes all of it back; the dispatch    *)
(* pump hands out one event at a time.                                     *)
(***************************************************************************)
EXTENDS DocsBudget

CONSTANTS
    Slots,          \* questions there may be at the same time
    Members, Inputs, Outputs,
    RequestedOutput,    \* max_output_tokens of every request: a constant of the code
    None,
    MaxQuestions, MaxTime, MaxFaults    \* bounds

\* The provider puts out no more than the request permits, whatever was
\* reserved for it.
ASSUME AssistantAssumption ==
    /\ IsFiniteSet(Slots)
    /\ Inputs \subseteq Nat /\ RequestedOutput \in Nat /\ Outputs \subseteq 0..RequestedOutput
    /\ {MaxQuestions, MaxTime, MaxFaults} \subseteq Nat
    /\ None \notin Nat

VARIABLES
    host,           \* "cloudflare" or "node"
    now,
    q,              \* the question in each slot
    asked,          \* how many questions have been asked
    admission,      \* the admission state of each member
    total,          \* the admission state of all of them together
    ledger,         \* the monthly reservations on disk
    faults,
    bills,          \* history: the most the provider may bill for each question
    log,            \* history: what has been admitted since the process started
    cut             \* history: the questions that something cut short

vars == <<host, now, q, asked, admission, total, ledger, faults, bills, log, cut>>

NoQuestion ==
    [step |-> "idle", id |-> 0, who |-> None, input |-> 0, month |-> 0, copy |-> None,
     status |-> None, cost |-> 0]

Init ==
    /\ host \in {"cloudflare", "node"}
    /\ now = 0
    /\ q = [s \in Slots |-> NoQuestion]
    /\ asked = 0
    /\ admission = [u \in Members |-> NoTraffic]
    /\ total = NoTraffic
    /\ ledger = {}
    /\ faults = 0
    /\ bills = {}
    /\ log = {}
    /\ cut = {}

Ends(s) == q' = [q EXCEPT ![s] = NoQuestion]
Goes(s, step) == q' = [q EXCEPT ![s].step = step, ![s].copy = None]

UsesStore(s) == q[s].step \in {"reserving", "cancelling", "settling", "recording"}

\* What the operation of the store in slot s sees: on Cloudflare what it has loaded.
Loaded(s) == host = "node" \/ q[s].copy # None
Seen(s) == IF host = "node" THEN ledger ELSE q[s].copy

\* What is reserved for a question, and the most the provider may bill for it.
ReservedCost(s) == Cost(q[s].input, ReservedOutput)
Worst(s) == Cost(q[s].input, RequestedOutput)

Fault ==
    /\ faults < MaxFaults
    /\ faults' = faults + 1

history == <<bills, log, cut>>
memory == <<admission, total>>
-----------------------------------------------------------------------------
\* A member asks; the event waits in the dispatch stream.
Ask(s, u, input) ==
    /\ q[s].step = "idle" /\ asked < MaxQuestions
    /\ asked' = asked + 1
    /\ q' = [q EXCEPT ![s] = [NoQuestion EXCEPT !.step = "waiting", !.id = asked + 1,
                                                !.who = u, !.input = input]]
    /\ UNCHANGED <<host, now, memory, ledger, faults, history>>

\* Mutant of Handle: Cloudflare handles every event at once, too.
HandleAtOnce(s) ==
    /\ q[s].step = "waiting"
    /\ Goes(s, "fetching")
    /\ UNCHANGED <<host, now, asked, memory, ledger, faults, history>>

\* The event's turn: at once on Node, after all the earlier ones on Cloudflare.
Handle(s) ==
    /\ q[s].step = "waiting"
    /\ host = "cloudflare" =>
           \A t \in Slots \ {s} : q[t].step = "idle" \/ (q[t].step = "waiting" /\ q[t].id > q[s].id)
    /\ Goes(s, "fetching")
    /\ UNCHANGED <<host, now, asked, memory, ledger, faults, history>>

\* The corpus is there, and the sources that fit the budget have been chosen.
\* The month is that of the clock when the reservation is asked for.
CorpusReady(s) ==
    /\ q[s].step = "fetching"
    /\ q' = [q EXCEPT ![s].step = "reserving", ![s].month = Month(now)]
    /\ UNCHANGED <<host, now, asked, memory, ledger, faults, history>>

CorpusUnavailable(s) ==
    /\ q[s].step = "fetching"
    /\ Fault
    /\ Ends(s)
    /\ UNCHANGED <<host, now, asked, memory, ledger, history>>

\* The first half of an operation of the Cloudflare store.
Load(s) ==
    /\ host = "cloudflare" /\ UsesStore(s) /\ q[s].copy = None
    /\ q' = [q EXCEPT ![s].copy = ledger]
    /\ UNCHANGED <<host, now, asked, memory, ledger, faults, history>>

\* The cost of the question is reserved before anything is sent.
Reserve(s) ==
    /\ q[s].step = "reserving" /\ Loaded(s)
    /\ Fits(Seen(s), q[s].month, ReservedCost(s))
    /\ ledger' = Seen(s) \cup {Entry(q[s].id, q[s].month, ReservedCost(s))}
    /\ Goes(s, "admitting")
    /\ UNCHANGED <<host, now, asked, memory, faults, history>>

ReserveDenied(s) ==
    /\ q[s].step = "reserving" /\ Loaded(s)
    /\ ~Fits(Seen(s), q[s].month, ReservedCost(s))
    /\ Ends(s)
    /\ UNCHANGED <<host, now, asked, memory, ledger, faults, history>>

PrunedMember(u) == Prune(admission[u], now, MemberWindow)
PrunedTotal == Prune(total, now, GlobalWindow)

\* Admitted: the request goes to the provider, who may bill it from now on.
Acquire(s) ==
    LET u == q[s].who
        tokens == Reservation(q[s].input)
    IN  /\ q[s].step = "admitting"
        /\ Admits(q[s].input, PrunedMember(u), PrunedTotal)
        /\ admission' = [admission EXCEPT ![u] = Acquired(PrunedMember(u), q[s].id, now, tokens)]
        /\ total' = Acquired(PrunedTotal, q[s].id, now, tokens)
        /\ Goes(s, "answering")
        /\ bills' = bills \cup {[id |-> q[s].id, month |-> q[s].month, cost |-> Worst(s)]}
        /\ log' = log \cup {[id |-> q[s].id, who |-> u, at |-> now, used |-> tokens, end |-> None]}
        /\ UNCHANGED <<host, now, asked, ledger, faults, cut>>

\* Mutant of AcquireDenied: the reservation is not given back.
AcquireDeniedKeeps(s) ==
    LET u == q[s].who IN
        /\ q[s].step = "admitting"
        /\ ~Admits(q[s].input, PrunedMember(u), PrunedTotal)
        /\ admission' = [admission EXCEPT ![u] = PrunedMember(u)]
        /\ total' = PrunedTotal
        /\ Ends(s)
        /\ UNCHANGED <<host, now, asked, ledger, faults, history>>

AcquireDenied(s) ==
    LET u == q[s].who IN
        /\ q[s].step = "admitting"
        /\ ~Admits(q[s].input, PrunedMember(u), PrunedTotal)
        /\ admission' = [admission EXCEPT ![u] = PrunedMember(u)]
        /\ total' = PrunedTotal
        /\ q' = [q EXCEPT ![s].step = "cancelling", ![s].status = "cancelled", ![s].cost = ReservedCost(s)]
        /\ UNCHANGED <<host, now, asked, ledger, faults, history>>

\* However the request ends, its admission is completed, and the settlement of
\* its reservation comes next.
Finish(s, used, cost, then) ==
    LET u == q[s].who
        tokens == Reservation(q[s].input)
    IN  /\ q[s].step = "answering"
        /\ admission' = [admission EXCEPT ![u] = Completed(@, q[s].id, now, tokens, used, MemberWindow)]
        /\ total' = Completed(total, q[s].id, now, tokens, used, GlobalWindow)
        /\ q' = [q EXCEPT ![s].step = "settling", ![s].status = then, ![s].cost = cost]
        /\ log' = {IF e.id = q[s].id THEN [e EXCEPT !.used = used, !.end = now] ELSE e : e \in log}

\* The provider answers, and says what it has used.
Answer(s, output) ==
    LET cost == Cost(q[s].input, output)
    IN  /\ \E then \in {"answered", "unusable"} : Finish(s, q[s].input + output, cost, then)
        /\ bills' = {IF b.id = q[s].id THEN [b EXCEPT !.cost = cost] ELSE b : b \in bills}
        /\ UNCHANGED <<host, now, asked, ledger, faults, cut>>

\* No answer, or one whose usage is not known: it counts as it was reserved.
ProviderFails(s) ==
    /\ Fault
    /\ Finish(s, Reservation(q[s].input), ReservedCost(s), "unusable")
    /\ UNCHANGED <<host, now, asked, ledger, bills, cut>>

Cancel(s) ==
    /\ q[s].step = "cancelling" /\ Loaded(s)
    /\ ledger' = Settled(Seen(s), q[s].id, "cancelled", q[s].cost)
    /\ Ends(s)
    /\ UNCHANGED <<host, now, asked, memory, faults, history>>

Charge(s) ==
    /\ q[s].step = "settling" /\ Loaded(s)
    /\ ledger' = Settled(Seen(s), q[s].id, "charged", q[s].cost)
    /\ IF q[s].status = "answered" THEN Goes(s, "recording") ELSE Ends(s)
    /\ UNCHANGED <<host, now, asked, memory, faults, history>>

\* Provenance and quota samples are written with the rest of the state.
Record(s) ==
    /\ q[s].step = "recording" /\ Loaded(s)
    /\ ledger' = Seen(s)
    /\ Ends(s)
    /\ UNCHANGED <<host, now, asked, memory, faults, history>>
-----------------------------------------------------------------------------
\* An operation of the store that cannot read or write ends the question.
StoreFails(s) ==
    /\ UsesStore(s)
    /\ Fault
    /\ Ends(s)
    /\ cut' = cut \cup {q[s].id}
    /\ UNCHANGED <<host, now, asked, memory, ledger, bills, log>>

\* The session or the process stops: a question ends where it is, except that
\* a request that was sent is completed and settled first.
Interrupt(s) ==
    /\ q[s].step \notin {"idle", "settling"}
    /\ Fault
    /\ \/ /\ q[s].step # "answering"
          /\ Ends(s)
          /\ cut' = cut \cup {q[s].id}
          /\ UNCHANGED <<memory, log>>
       \/ Finish(s, Reservation(q[s].input), ReservedCost(s), "unusable") /\ UNCHANGED cut
    /\ UNCHANGED <<host, now, asked, ledger, bills>>

\* The process starts again: what it had in memory is gone.
Crash ==
    /\ Fault
    /\ q' = [s \in Slots |-> NoQuestion]
    /\ admission' = [u \in Members |-> NoTraffic]
    /\ total' = NoTraffic
    /\ log' = {}
    /\ cut' = cut \cup {q[s].id : s \in Slots}
    /\ UNCHANGED <<host, now, asked, ledger, bills>>

Tick ==
    /\ now < MaxTime
    /\ now' = now + 1
    /\ UNCHANGED <<host, q, asked, memory, ledger, faults, history>>
-----------------------------------------------------------------------------
\* What a question does by itself.
Progress(s) ==
    \/ Handle(s) \/ CorpusReady(s) \/ Load(s) \/ Reserve(s) \/ ReserveDenied(s)
    \/ Acquire(s) \/ AcquireDenied(s) \/ \E output \in Outputs : Answer(s, output)
    \/ Cancel(s) \/ Charge(s) \/ Record(s)

Next ==
    \/ \E s \in Slots :
          \/ \E u \in Members, input \in Inputs : Ask(s, u, input)
          \/ Progress(s)
          \/ CorpusUnavailable(s) \/ ProviderFails(s) \/ StoreFails(s) \/ Interrupt(s)
    \/ Crash
    \/ Tick

Spec == Init /\ [][Next]_vars
-----------------------------------------------------------------------------
Steps == {"idle", "waiting", "fetching", "reserving", "admitting", "cancelling",
          "answering", "settling", "recording"}

Ids == 1..MaxQuestions

Entries == [id : Ids, month : Nat, cost : Nat, status : {"reserved", "charged", "cancelled"}]

Questions ==
    [step : Steps, id : Ids \cup {0}, who : Members \cup {None}, input : Inputs \cup {0},
     month : Nat, copy : {None} \cup SUBSET Entries,
     status : {None, "answered", "unusable", "cancelled"}, cost : Nat]

Traffic ==
    [running : Nat, reserved : Nat, requests : SUBSET [id : Ids, at : Nat],
     samples : SUBSET [id : Ids, at : Nat, tokens : Nat]]

TypeOK ==
    /\ host \in {"cloudflare", "node"} /\ now \in 0..MaxTime
    /\ asked \in 0..MaxQuestions /\ faults \in 0..MaxFaults
    /\ q \in [Slots -> Questions]
    /\ admission \in [Members -> Traffic] /\ total \in Traffic
    /\ ledger \in SUBSET Entries
    /\ bills \in SUBSET [id : Ids, month : Nat, cost : Nat]
    /\ log \in SUBSET [id : Ids, who : Members, at : Nat, used : Nat, end : Nat \cup {None}]
    /\ cut \in SUBSET (Ids \cup {0})

\* The reservations cover what a request permits.  Nothing in the code keeps
\* this: one side is a setting, any positive number, the other a constant.
ReservesEnough == RequestedOutput <= ReservedOutput

\* Whatever fails, whoever is interrupted: what the provider may bill for the
\* questions of a month stays below the ceiling (docs-assistant/spec.md).  It
\* takes reservations that cover what a request permits.
SpendIsBounded ==
    \A m \in {b.month : b \in bills} :
        Total([b \in {b \in bills : b.month = m} |-> b.cost]) <= Ceiling

Admitted == {s \in Slots : q[s].step = "answering"}
AdmittedOf(u) == {s \in Admitted : q[s].who = u}
Reservations(S) == [s \in S |-> Reservation(q[s].input)]

\* What a question holds ends with it: the counters of running questions and of
\* reserved tokens are those of the questions at the provider, and a reservation
\* stays open only for a question that still runs, or that was cut short.
NothingIsHeld ==
    /\ total.running = Cardinality(Admitted)
    /\ total.reserved = Total(Reservations(Admitted))
    /\ \A u \in Members :
          /\ admission[u].running = Cardinality(AdmittedOf(u))
          /\ admission[u].reserved = Total(Reservations(AdmittedOf(u)))
    /\ \A e \in ledger :
          e.status = "reserved" => e.id \in cut \cup {q[s].id : s \in Slots}

In(e, t, window) == e.at <= t /\ t < e.at + window
InUse(e, t) == e.end = None \/ t < e.end + TokenWindow

LogOf(u) == {e \in log : e.who = u}
UsedTokens(L) == Total([e \in {e \in L : InUse(e, now)} |-> e.used])

\* Within any window a member, and all of them together, stay below the limits,
\* as long as the process lives.  A request whose usage is not known counts with
\* its reservation; that the tokens hold takes reservations that cover what a
\* request permits.
LimitsHold ==
    /\ UsedTokens(log) <= GlobalLimits.tokens
    /\ \A u \in Members : UsedTokens(LogOf(u)) <= MemberLimits.tokens
    /\ \A t \in 0..now :
          /\ Cardinality({e \in log : In(e, t, GlobalWindow)}) <= GlobalLimits.requests
          /\ \A u \in Members :
                Cardinality({e \in LogOf(u) : In(e, t, MemberWindow)}) <= MemberLimits.requests
=============================================================================
