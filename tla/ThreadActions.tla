--------------------------- MODULE ThreadActions ---------------------------
(***************************************************************************)
(* How the Discord bot creates at most one thread per source message: the  *)
(* durable journal of thread actions, the creation workflow that claims a  *)
(* row, records `creating' and only then submits the REST request, the     *)
(* reconciliation workflow that recovers rows by observing Discord, the    *)
(* retention cleanup, and the two hosts (the Cloudflare Durable Object and *)
(* the Node process) that start, recover, reload and crash around them.    *)
(*                                                                         *)
(* Time is a counter.  Discord, the requests in flight to it and its users *)
(* are external.  A claim token is the ordinal of the claim of a message:  *)
(* claim generates a fresh UUID, and only equality of tokens is ever used. *)
(***************************************************************************)
EXTENDS Naturals, FiniteSets

CONSTANTS
    Messages,        \* source messages a thread may be requested for
    GatewayWorkers,  \* handlers of Gateway dispatches (automatic, /thread)
    AdminWorkers,    \* operator requests: admin RPC or control socket
    Alarm,           \* the host's own maintenance loop
    Operators,       \* operator-started reconciliation runs
    Hosts,           \* the hosts there are: "cloudflare", "node" or both
    Window,          \* reconciliationWindowMillis
    Retention,       \* terminalRetentionMs
    Limit,           \* rows one reconciliation run selects
    MaxTime,         \* bound on the clock
    MaxClaims,       \* bound on the claims of one message
    MaxGen,          \* bound on runtime generations (boots and reloads)
    None             \* no message, no worker

Workers == GatewayWorkers \cup AdminWorkers
Runs == {Alarm} \cup Operators
Tokens == 1..MaxClaims

ASSUME ConstantsAssumption ==
    /\ Hosts \subseteq {"cloudflare", "node"}
    /\ Window \in Nat /\ Retention \in Nat /\ Limit \in Nat \ {0}
    /\ MaxTime \in Nat /\ MaxClaims \in Nat /\ MaxGen \in Nat \ {0}
    /\ None \notin Messages /\ None \notin Workers
    /\ Alarm \notin Operators

VARIABLES
    host,         \* where this deployment runs
    journal,      \* the thread_actions table, by source message
    clock,
    issued,       \* how many claims of a message ever committed
    attempt,      \* history of each claim and the REST request it submitted
    discord,      \* does Discord hold the thread anchored at the message?
    worker,       \* the request each fiber is handling
    run,          \* the reconciliation runs
    gen,          \* the runtime generation: which in-flight map a request uses
    serving,      \* a runtime is installed and its handlers are registered
    stopped,      \* the supervisor met a terminal Gateway close
    startupDone,  \* startupMaintenanceDone
    recovered,    \* history: progress of this generation's startup recovery
    promised      \* history: messages somebody was told have a thread

vars == <<host, journal, clock, issued, attempt, discord, worker, run, gen,
          serving, stopped, startupDone, recovered, promised>>
hostVars == <<host, gen, serving, stopped, startupDone>>
-----------------------------------------------------------------------------
(* Rows of the journal                                                     *)

OpenStates == {"pending", "creating", "unknown_external"}
TerminalStates == {"created", "failed", "manual_review"}
States == {"absent"} \cup OpenStates \cup TerminalStates

Row == [state : States, token : 0..MaxClaims,
        reconcileBy : Nat, updatedAt : Nat]

NoRow == [state |-> "absent", token |-> 0, reconcileBy |-> 0, updatedAt |-> 0]

\* Mutants of MayLeave: one forgets the claim token, one the state.
MayLeaveOfAnyClaim(m, n, from) == journal[m].state \in from
MayLeaveAnyState(m, n, from) == journal[m].token = n

\* A write names the claim it was handed and the states it may leave; a row
\* that is gone, was claimed again or moved on makes it fail.
MayLeave(m, n, from) == journal[m].token = n /\ journal[m].state \in from

\* The row after a successful transition at time t.
Moved(m, to, t) ==
    [journal EXCEPT ![m] = [@ EXCEPT !.state = to, !.updatedAt = t]]

OpenRows == {m \in Messages : journal[m].state \in OpenStates}

\* Mutant of Expired: terminal rows are deleted by the first cleanup.
ExpiredAtOnce(m, t) == journal[m].state \in TerminalStates

Expired(m, t) ==
    /\ journal[m].state \in TerminalStates
    /\ journal[m].updatedAt + Retention <= t
-----------------------------------------------------------------------------
(* Requests and the in-flight map of a generation                          *)

Idle == [pc |-> "idle", msg |-> None, token |-> 0, gen |-> 0, leader |-> None]

\* The worker that holds m's entry of the in-flight map of generation g: it
\* is set before the claim and deleted when the creation pipeline exits.
Leaders(m, g) ==
    {w \in Workers : /\ worker[w].pc \in {"claimed", "creating", "waiting"}
                     /\ worker[w].msg = m /\ worker[w].gen = g}

\* The workers whose requests end when the pipelines of W exit: W itself and
\* every request that joined one of them.
Ending(W) ==
    W \cup {w \in Workers : /\ worker[w].pc = "joined"
                            /\ worker[w].leader \in W}

After(W) == [w \in Workers |-> IF w \in Ending(W) THEN Idle ELSE worker[w]]

\* Mutant of Exit: the outcome is attributed after the entry was cleared.
ExitThenTell(w, told) ==
    /\ worker' = After({w})
    /\ promised' = IF told THEN promised \cup {worker'[w].msg} ELSE promised

\* The pipeline of w exits; told says whether its outcome names a thread.
Exit(w, told) ==
    /\ worker' = After({w})
    /\ promised' = IF told THEN promised \cup {worker[w].msg} ELSE promised

NoAttempt == [claimedAt |-> 0, request |-> "unsent"]

NoRun == [pc |-> "idle", policy |-> "none", now |-> 0,
          todo |-> {}, msg |-> None, row |-> NoRow, seen |-> "none"]

Init ==
    /\ host \in Hosts
    /\ journal = [m \in Messages |-> NoRow]
    /\ clock = 0
    /\ issued = [m \in Messages |-> 0]
    /\ attempt = [m \in Messages |-> [n \in Tokens |-> NoAttempt]]
    /\ discord = [m \in Messages |-> FALSE]
    /\ worker = [w \in Workers |-> Idle]
    /\ run = [r \in Runs |-> NoRun]
    /\ gen = 1
    /\ serving = FALSE /\ stopped = FALSE /\ startupDone = FALSE
    /\ recovered = "no"
    /\ promised = {}
-----------------------------------------------------------------------------
(* A request for a thread                                                  *)

\* Mutant of MayArrive: handlers are registered before recovery.
MayArriveEarly(w) ==
    /\ worker[w].pc = "idle"
    /\ w \in GatewayWorkers => ~stopped

\* A request carries the existing-thread fact it was built with: an operator
\* request has just observed Discord, a Gateway payload may be out of date.
MayArrive(w) ==
    /\ worker[w].pc = "idle" /\ serving
    /\ w \in GatewayWorkers => ~stopped

ArriveSatisfied(w, m) ==
    /\ MayArrive(w) /\ discord[m]
    /\ promised' = promised \cup {m}
    /\ UNCHANGED <<journal, clock, issued, attempt, discord, worker, run,
                   hostVars, recovered>>

Arrive(w, m) ==
    /\ MayArrive(w)
    /\ w \in AdminWorkers => ~discord[m]
    /\ worker' = [worker EXCEPT ![w] =
           [@ EXCEPT !.pc = "arrived", !.msg = m, !.gen = gen]]
    /\ UNCHANGED <<journal, clock, issued, attempt, discord, run,
                   hostVars, recovered, promised>>

\* The source already has a live creation in this workflow: await its outcome.
Join(w) ==
    /\ worker[w].pc = "arrived"
    /\ \E l \in Leaders(worker[w].msg, worker[w].gen) :
           worker' = [worker EXCEPT ![w] = [@ EXCEPT !.pc = "joined", !.leader = l]]
    /\ UNCHANGED <<journal, clock, issued, attempt, discord, run,
                   hostVars, recovered, promised>>

Claiming(w) ==
    /\ worker[w].pc = "arrived"
    /\ Leaders(worker[w].msg, worker[w].gen) = {}

\* The claim transaction inserts the row.
Acquire(w) ==
    LET m == worker[w].msg
        n == issued[m] + 1
    IN  /\ Claiming(w)
        /\ journal[m].state = "absent"
        /\ issued[m] < MaxClaims /\ clock + Window <= MaxTime
        /\ issued' = [issued EXCEPT ![m] = n]
        /\ attempt' = [attempt EXCEPT ![m][n].claimedAt = clock]
        /\ journal' = [journal EXCEPT ![m] =
               [state |-> "pending", token |-> n,
                reconcileBy |-> clock + Window, updatedAt |-> clock]]
        /\ worker' = [worker EXCEPT ![w] = [@ EXCEPT !.pc = "claimed", !.token = n]]
        /\ UNCHANGED <<clock, discord, run, hostVars, recovered, promised>>

\* The row was there: a created row answers the request, any other row leaves
\* the outcome unknown, and so does a journal that cannot be reached.
ClaimRefused(w) ==
    /\ Claiming(w)
    /\ \/ journal[worker[w].msg].state = "created" /\ Exit(w, TRUE)
       \/ Exit(w, FALSE)
    /\ UNCHANGED <<journal, clock, issued, attempt, discord, run,
                   hostVars, recovered>>

\* `creating' is committed before the request is submitted.
MarkCreating(w) ==
    LET m == worker[w].msg
        n == worker[w].token
    IN  /\ worker[w].pc = "claimed"
        /\ MayLeave(m, n, {"pending"})
        /\ journal' = Moved(m, "creating", clock)
        /\ worker' = [worker EXCEPT ![w].pc = "creating"]
        /\ UNCHANGED <<clock, issued, attempt, discord, run, hostVars, recovered, promised>>

\* A conflict, or a journal that cannot be reached, ends the request unsent.
MarkCreatingFails(w) ==
    /\ worker[w].pc = "claimed"
    /\ Exit(w, FALSE)
    /\ UNCHANGED <<journal, clock, issued, attempt, discord, run,
                   hostVars, recovered>>

\* Mutant of Submit: the request does not wait for `creating'.
SubmitFirst(w) ==
    /\ worker[w].pc \in {"claimed", "creating"}
    /\ attempt' = [attempt EXCEPT ![worker[w].msg][worker[w].token].request = "inflight"]
    /\ worker' = [worker EXCEPT ![w].pc = "waiting"]
    /\ UNCHANGED <<journal, clock, issued, discord, run,
                   hostVars, recovered, promised>>

\* Mutant of Submit: a request that was not answered well is sent again.
SubmitRetries(w) ==
    /\ worker[w].pc \in {"creating", "waiting"}
    /\ attempt' = [attempt EXCEPT ![worker[w].msg][worker[w].token].request = "inflight"]
    /\ worker' = [worker EXCEPT ![w].pc = "waiting"]
    /\ UNCHANGED <<journal, clock, issued, discord, run,
                   hostVars, recovered, promised>>

Submit(w) ==
    LET m == worker[w].msg
        n == worker[w].token
    IN  /\ worker[w].pc = "creating"
        /\ attempt' = [attempt EXCEPT ![m][n].request = "inflight"]
        /\ worker' = [worker EXCEPT ![w].pc = "waiting"]
        /\ UNCHANGED <<journal, clock, issued, discord, run,
                       hostVars, recovered, promised>>

\* Mutant of Answered: the workflow takes submission for an answer.
AnsweredAtOnce(w, status) == worker[w].pc = "waiting"

Answered(w, status) ==
    /\ worker[w].pc = "waiting"
    /\ attempt[worker[w].msg][worker[w].token].request \in status

\* Discord confirmed the thread.  If the row cannot be written the requester
\* is not told of a thread: the row is left for reconciliation.
RecordCreated(w) ==
    LET m == worker[w].msg
        n == worker[w].token
    IN  /\ Answered(w, {"accepted"})
        /\ \/ /\ MayLeave(m, n, OpenStates)
              /\ journal' = Moved(m, "created", clock)
              /\ Exit(w, TRUE)
           \/ Exit(w, FALSE) /\ UNCHANGED journal
        /\ UNCHANGED <<clock, issued, attempt, discord, run, hostVars, recovered>>

\* A definitive 4xx closes the row; a failure of that write is ignored.
RecordFailed(w) ==
    LET m == worker[w].msg
        n == worker[w].token
    IN  /\ Answered(w, {"rejected"})
        /\ \/ /\ MayLeave(m, n, {"pending", "creating"})
              /\ journal' = Moved(m, "failed", clock)
           \/ UNCHANGED journal
        /\ Exit(w, FALSE)
        /\ UNCHANGED <<clock, issued, attempt, discord, run, hostVars, recovered>>

\* A timeout, a transport failure or a 5xx says nothing of what Discord did
\* or will still do.
RecordUnknown(w) ==
    LET m == worker[w].msg
        n == worker[w].token
    IN  /\ Answered(w, {"inflight", "accepted", "rejected"})
        /\ \/ /\ MayLeave(m, n, {"creating", "unknown_external"})
              /\ journal' = Moved(m, "unknown_external", clock)
           \/ UNCHANGED journal
        /\ Exit(w, FALSE)
        /\ UNCHANGED <<clock, issued, attempt, discord, run, hostVars, recovered>>
-----------------------------------------------------------------------------
(* Discord and time (external)                                             *)

\* Discord serves a request at any time after it was sent, or never; it
\* refuses a second thread for the same message.
Accept(m, n) ==
    /\ attempt[m][n].request = "inflight" /\ ~discord[m]
    /\ attempt' = [attempt EXCEPT ![m][n].request = "accepted"]
    /\ discord' = [discord EXCEPT ![m] = TRUE]
    /\ UNCHANGED <<journal, clock, issued, worker, run,
                   hostVars, recovered, promised>>

Reject(m, n) ==
    /\ attempt[m][n].request = "inflight"
    /\ attempt' = [attempt EXCEPT ![m][n].request = "rejected"]
    /\ UNCHANGED <<journal, clock, issued, discord, worker, run,
                   hostVars, recovered, promised>>

\* A member starts a thread on the message by hand.
UserStartsThread(m) ==
    /\ ~discord[m]
    /\ discord' = [discord EXCEPT ![m] = TRUE]
    /\ UNCHANGED <<journal, clock, issued, attempt, worker, run,
                   hostVars, recovered, promised>>

Tick ==
    /\ clock < MaxTime
    /\ clock' = clock + 1
    /\ UNCHANGED <<journal, issued, attempt, discord, worker, run,
                   hostVars, recovered, promised>>
-----------------------------------------------------------------------------
(* Reconciliation: a run captures its time and a snapshot, then treats the *)
(* snapshot's records one after the other, observing but never creating.   *)

\* The oldest rows of S, at most Limit of them.
Batches(S) ==
    {B \in SUBSET S :
        /\ Cardinality(B) <= Limit
        /\ B = S \/ Cardinality(B) = Limit
        /\ \A b \in B, x \in S \ B : journal[b].reconcileBy <= journal[x].reconcileBy}

Snapshot(B) == {[msg |-> m, row |-> journal[m]] : m \in B}

Selected(r, policy, B) ==
    run' = [run EXCEPT ![r] = [NoRun EXCEPT !.pc = "select", !.policy = policy,
                                            !.now = clock, !.todo = Snapshot(B)]]

\* The Cloudflare alarm builds the runtime if there is none and forks its
\* supervisor: from here on the Gateway and the admin RPCs reach the workflow.
\* With a stopped supervisor the invocation ends here, without maintenance.
AlarmTick ==
    /\ host = "cloudflare" /\ run[Alarm].pc = "idle"
    /\ ~stopped
    /\ serving' = TRUE
    /\ run' = [run EXCEPT ![Alarm].pc = "tick"]
    /\ UNCHANGED <<host, journal, clock, issued, attempt, discord, worker, gen,
                   stopped, startupDone, recovered, promised>>

\* Maintenance: on Cloudflare the rest of the alarm, which picks its policy by
\* startupMaintenanceDone and sets that first; on Node at start, before any
\* handler is registered, then every minute.  A run of a runtime that was
\* reset since its alarm began is no recovery of the new one.
StartMaintenance ==
    LET policy == IF startupDone THEN "stale-only" ELSE "close-interrupted"
    IN  /\ run[Alarm].pc = IF host = "cloudflare" THEN "tick" ELSE "idle"
        /\ \E B \in Batches(OpenRows) : Selected(Alarm, policy, B)
        /\ startupDone' = (startupDone \/ host = "cloudflare")
        /\ recovered' = IF ~startupDone /\ (serving \/ host = "node")
                        THEN "started" ELSE recovered
        /\ UNCHANGED <<host, journal, clock, issued, attempt, discord, worker, gen,
                       serving, stopped, promised>>

\* An operator applies to one source, or to all rows, of one state if asked.
StartOperatorRun(r) ==
    /\ r \in Operators /\ run[r].pc = "idle" /\ serving
    /\ \E S \in {{m} : m \in OpenRows} \cup {OpenRows}
              \cup {{m \in OpenRows : journal[m].state = s} :
                        s \in {"creating", "unknown_external"}} :
           \E B \in Batches(S) : Selected(r, "operator", B)
    /\ UNCHANGED <<journal, clock, issued, attempt, discord, worker,
                   hostVars, recovered, promised>>

\* The next record: the oldest of those left.
Upcoming(r, s) ==
    /\ run[r].pc = "select" /\ s \in run[r].todo
    /\ \A t \in run[r].todo : s.row.reconcileBy <= t.row.reconcileBy

Overdue(r, row) == run[r].now >= row.reconcileBy

\* Mutants of LeftToOwner: routine runs take fresh `creating' rows; routine
\* runs wait forever.
LeftIfPending(r, row) ==
    ~Overdue(r, row) /\ row.state = "pending" /\ run[r].policy # "close-interrupted"
LeftForever(r, row) ==
    \/ row.state = "creating" /\ run[r].policy = "stale-only"
    \/ row.state = "pending" /\ run[r].policy # "close-interrupted"

\* A fresh record may still belong to a live claimant.
LeftToOwner(r, row) ==
    /\ ~Overdue(r, row)
    /\ \/ row.state = "creating" /\ run[r].policy = "stale-only"
       \/ row.state = "pending" /\ run[r].policy # "close-interrupted"

Skip(r, s) ==
    /\ Upcoming(r, s) /\ LeftToOwner(r, s.row)
    /\ run' = [run EXCEPT ![r].todo = @ \ {s}]
    /\ UNCHANGED <<journal, clock, issued, attempt, discord, worker,
                   hostVars, recovered, promised>>

\* interrupted_before_mutation: the write accepts a row that moved on to
\* `creating' or `unknown_external' since the snapshot.
ClosePending(r, s) ==
    /\ Upcoming(r, s) /\ s.row.state = "pending" /\ ~LeftToOwner(r, s.row)
    /\ MayLeave(s.msg, s.row.token, OpenStates)
    /\ journal' = Moved(s.msg, "manual_review", run[r].now)
    /\ run' = [run EXCEPT ![r].todo = @ \ {s}]
    /\ UNCHANGED <<clock, issued, attempt, discord, worker,
                   hostVars, recovered, promised>>

Observe(r, s) ==
    /\ Upcoming(r, s) /\ s.row.state # "pending" /\ ~LeftToOwner(r, s.row)
    /\ \E seen \in {"unrun", IF discord[s.msg] THEN "exact" ELSE "absent"} :
           run' = [run EXCEPT ![r] =
               [@ EXCEPT !.pc = "observed", !.todo = run[r].todo \ {s},
                         !.msg = s.msg, !.row = s.row, !.seen = seen]]
    /\ UNCHANGED <<journal, clock, issued, attempt, discord, worker,
                   hostVars, recovered, promised>>

Settled(r) ==
    [run EXCEPT ![r] =
        [@ EXCEPT !.pc = "select", !.msg = None, !.row = NoRow, !.seen = "none"]]

\* The observed record is settled: adopt the thread, record its absence until
\* the deadline, and past it hand the row to an operator.
Settle(r) ==
    LET m == run[r].msg
        n == run[r].row.token
        late == Overdue(r, run[r].row)
        seen == run[r].seen
    IN  /\ run[r].pc = "observed"
        /\ \/ /\ seen = "exact" /\ MayLeave(m, n, OpenStates)
              /\ journal' = Moved(m, "created", run[r].now)
           \/ /\ seen = "absent" /\ MayLeave(m, n, {"creating", "unknown_external"})
              /\ journal' = Moved(m, IF late THEN "manual_review" ELSE "unknown_external",
                                  run[r].now)
           \/ /\ seen = "unrun" /\ late /\ MayLeave(m, n, OpenStates)
              /\ journal' = Moved(m, "manual_review", run[r].now)
           \/ seen = "unrun" /\ ~late /\ UNCHANGED journal
        /\ run' = Settled(r)
        /\ UNCHANGED <<clock, issued, attempt, discord, worker,
                       hostVars, recovered, promised>>

\* A journal read or write fails, or conflicts: the whole run ends there, its
\* remaining records and the cleanup included.
AbortRun(r) ==
    /\ run[r].pc # "idle"
    /\ run' = [run EXCEPT ![r] = NoRun]
    /\ UNCHANGED <<journal, clock, issued, attempt, discord, worker,
                   hostVars, recovered, promised>>

\* Maintenance ends by deleting expired terminal rows, by a fresh reading of
\* the clock on Cloudflare and by the run's on Node.  Node registers its
\* handlers only now, if this was the startup recovery.
FinishMaintenance ==
    LET t == IF host = "cloudflare" THEN clock ELSE run[Alarm].now
    IN  /\ run[Alarm].pc = "select" /\ run[Alarm].todo = {}
        /\ journal' = [m \in Messages |-> IF Expired(m, t) THEN NoRow ELSE journal[m]]
        /\ run' = [run EXCEPT ![Alarm] = NoRun]
        /\ recovered' = IF run[Alarm].policy = "close-interrupted"
                           /\ recovered = "started" THEN "done" ELSE recovered
        /\ serving' = (serving \/ host = "node")
        /\ startupDone' = (startupDone \/ host = "node")
        /\ UNCHANGED <<host, clock, issued, attempt, discord, worker, gen, stopped, promised>>

FinishOperatorRun(r) ==
    /\ r \in Operators /\ run[r].pc = "select" /\ run[r].todo = {}
    /\ run' = [run EXCEPT ![r] = NoRun]
    /\ UNCHANGED <<journal, clock, issued, attempt, discord, worker,
                   hostVars, recovered, promised>>
-----------------------------------------------------------------------------
(* The hosts                                                               *)

\* A new runtime will be built: it has its own workflow, hence its own
\* in-flight map.  Operator requests of the old one run on.
NewGeneration ==
    /\ gen < MaxGen /\ gen' = gen + 1
    /\ serving' = FALSE /\ stopped' = FALSE
    /\ recovered' = "no"

\* The session drops: its dispatch pump and the handler it runs are
\* interrupted, wherever they are.
InterruptGateway(w) ==
    /\ host = "cloudflare" /\ w \in GatewayWorkers /\ worker[w].pc # "idle"
    /\ worker' = After({w})
    /\ UNCHANGED <<journal, clock, issued, attempt, discord, run,
                   hostVars, recovered, promised>>

\* A terminal close code: the supervisor loop ends for good.
GatewayStops ==
    /\ host = "cloudflare" /\ serving /\ ~stopped
    /\ stopped' = TRUE
    /\ worker' = After(GatewayWorkers)
    /\ UNCHANGED <<host, journal, clock, issued, attempt, discord, run, gen, serving,
                   startupDone, recovered, promised>>

\* configPut with reload: activateCandidate resets the runtime and schedules
\* an alarm; it does not touch startupMaintenanceDone.
Reload ==
    /\ host = "cloudflare"
    /\ NewGeneration
    /\ worker' = After(GatewayWorkers)
    /\ UNCHANGED <<host, journal, clock, issued, attempt, discord, run, startupDone, promised>>

\* The alarm finds its gateway owner overdue and resets the runtime.
RestartOverdue ==
    /\ host = "cloudflare" /\ serving /\ ~stopped /\ run[Alarm].pc = "idle"
    /\ NewGeneration
    /\ startupDone' = FALSE
    /\ worker' = After(GatewayWorkers)
    /\ UNCHANGED <<host, journal, clock, issued, attempt, discord, run, promised>>

\* Eviction, deploy, process exit: everything but the journal and Discord is
\* lost; requests already sent stay in flight.
Crash ==
    /\ NewGeneration
    /\ startupDone' = FALSE
    /\ worker' = [w \in Workers |-> Idle]
    /\ run' = [r \in Runs |-> NoRun]
    /\ UNCHANGED <<host, journal, clock, issued, attempt, discord, promised>>
-----------------------------------------------------------------------------
Request(w) ==
    \/ \E m \in Messages : ArriveSatisfied(w, m) \/ Arrive(w, m)
    \/ Join(w) \/ Acquire(w) \/ ClaimRefused(w)
    \/ MarkCreating(w) \/ MarkCreatingFails(w) \/ Submit(w)
    \/ RecordCreated(w) \/ RecordFailed(w) \/ RecordUnknown(w)

Look(r) == \E s \in run[r].todo : Skip(r, s) \/ Observe(r, s)
Write(r) == Settle(r) \/ \E s \in run[r].todo : ClosePending(r, s)

External ==
    \/ \E m \in Messages, n \in Tokens : Accept(m, n) \/ Reject(m, n)
    \/ \E m \in Messages : UserStartsThread(m)

Lifecycle ==
    \/ GatewayStops \/ Reload \/ RestartOverdue \/ Crash
    \/ \E w \in GatewayWorkers : InterruptGateway(w)

Next ==
    \/ \E w \in Workers : Request(w)
    \/ External
    \/ Tick
    \/ AlarmTick \/ StartMaintenance \/ FinishMaintenance
    \/ \E r \in Runs : \/ StartOperatorRun(r) \/ FinishOperatorRun(r)
                       \/ Look(r) \/ Write(r) \/ AbortRun(r)
    \/ Lifecycle

Spec == Init /\ [][Next]_vars

\* Time passes, the alarm chain keeps ticking, a run that is stuck ends, and a
\* journal and a Discord reachable again and again let a run's steps through.
Fairness ==
    /\ WF_vars(Tick) /\ WF_vars(AlarmTick)
    /\ SF_vars(StartMaintenance)
    /\ SF_vars(Look(Alarm)) /\ SF_vars(Write(Alarm))
    /\ WF_vars(FinishMaintenance) /\ WF_vars(AbortRun(Alarm))

FairSpec == Spec /\ Fairness
-----------------------------------------------------------------------------
(* Types                                                                   *)

Attempt == [claimedAt : 0..MaxTime,
            request : {"unsent", "inflight", "accepted", "rejected"}]

Handling == [pc : {"idle", "arrived", "joined", "claimed", "creating", "waiting"},
             msg : Messages \cup {None}, token : 0..MaxClaims,
             gen : 0..MaxGen, leader : Workers \cup {None}]

RunState == [pc : {"idle", "tick", "select", "observed"},
             policy : {"none", "close-interrupted", "stale-only", "operator"},
             now : 0..MaxTime, todo : SUBSET [msg : Messages, row : Row],
             msg : Messages \cup {None}, row : Row,
             seen : {"none", "exact", "absent", "unrun"}]

\* Every variable keeps its shape: rows of the journal, the history of the
\* claims, the requests being handled, the runs and the host's flags.
TypeOK ==
    /\ host \in Hosts
    /\ journal \in [Messages -> Row]
    /\ clock \in 0..MaxTime
    /\ issued \in [Messages -> 0..MaxClaims]
    /\ attempt \in [Messages -> [Tokens -> Attempt]]
    /\ discord \in [Messages -> BOOLEAN]
    /\ worker \in [Workers -> Handling]
    /\ run \in [Runs -> RunState]
    /\ gen \in 1..MaxGen
    /\ serving \in BOOLEAN /\ stopped \in BOOLEAN /\ startupDone \in BOOLEAN
    /\ recovered \in {"no", "started", "done"}
    /\ promised \subseteq Messages
-----------------------------------------------------------------------------
(* What the journal means                                                  *)

\* A pending row proves that its request was never submitted, whoever crashed,
\* was interrupted or lost a write since: this is what lets recovery close
\* such a row without asking Discord (workflow-core.ts, workflow.ts).
PendingMeansUnsent ==
    \A m \in Messages :
        journal[m].state = "pending" =>
            attempt[m][journal[m].token].request = "unsent"

\* A created row, and every answer Created or AlreadySatisfied, is about a
\* thread Discord really holds, however the row was adopted or recorded.
ConfirmedIsReal ==
    \A m \in Messages :
        journal[m].state = "created" \/ m \in promised => discord[m]

\* A row is closed as failed only if Discord refused that very request; an
\* outcome nobody knows never becomes a failure.
FailedMeansRejected ==
    \A m \in Messages :
        journal[m].state = "failed" =>
            attempt[m][journal[m].token].request = "rejected"

\* Two requests are submitted for one message only if the row of the earlier
\* claim was kept for the whole retention period: no crash, reload, race of
\* workers or reconciliation run permits a blind retry.
CreatesAreARetentionApart ==
    \A m \in Messages : \A n1, n2 \in Tokens :
        (/\ n1 < n2
         /\ attempt[m][n1].request # "unsent" /\ attempt[m][n2].request # "unsent")
        => attempt[m][n2].claimedAt >= attempt[m][n1].claimedAt + Retention

\* What was decided stays decided: a terminal row never changes, and leaves
\* the journal only when its retention has elapsed.
TerminalIsFinal ==
    [][\A m \in Messages :
         journal[m].state \in TerminalStates /\ journal'[m] # journal[m]
         => /\ journal'[m] = NoRow
            /\ clock >= journal[m].updatedAt + Retention]_vars

AlarmStep == run'[Alarm] # run[Alarm]

\* Routine maintenance leaves a claim that may have a live owner alone: under
\* stale-only it moves a pending or creating row only past its deadline
\* (workflow-core.ts, `must not adopt a thread while the original claimant...').
RoutineMaintenanceWaits ==
    [][\A m \in Messages :
         (/\ AlarmStep /\ run[Alarm].policy = "stale-only"
          /\ journal[m].state \in {"pending", "creating"}
          /\ journal'[m] # journal[m])
         => clock >= journal[m].reconcileBy]_vars

\* The permits of ThreadPermits are the claims that were issued; one is open
\* while its row is.
OpenClaim ==
    [m \in Messages |-> IF journal[m].state \in OpenStates THEN journal[m].token ELSE 0]

Promise == INSTANCE ThreadPermits WITH
    Numbers <- Tokens, now <- clock, given <- issued, permit <- attempt,
    open <- OpenClaim, thread <- discord, told <- promised

\* Journal, workflows, reconciliation and hosts together implement
\* ThreadPermits: among others, a request once answered is never sent again,
\* and a claim once concluded is never taken up again (workflow.ts, journal.ts).
PermitsAreKept == Promise!Spec
-----------------------------------------------------------------------------
(* What recovery promises                                                  *)

RecoveryIsFirst ==
    \A m \in Messages : issued'[m] # issued[m] => recovered = "done"

\* On any host no claim, hence no mutation, before this generation's recovery
\* of the journal is complete (01-runtime/spec.md: `reconciles the durable
\* journal before accepting new actions').  False of the Durable Object.
RecoveryBeforeMutation == [][RecoveryIsFirst]_vars

\* The Node process keeps that order through every crash and restart: it
\* registers its handlers only after the recovery (app.ts).
NodeRecoversBeforeMutation == [][host = "node" => RecoveryIsFirst]_vars

\* Closing at startup never races a live request: the claim it closes, or
\* observes away from `creating', is held by no live worker (app.ts).
ClosedClaimWasDead ==
    [][\A m \in Messages :
         (/\ host = "node" /\ AlarmStep
          /\ run[Alarm].policy = "close-interrupted"
          /\ journal'[m] # journal[m])
         => \A w \in Workers :
                worker[w].msg = m => worker[w].token # journal[m].token]_vars

\* When the Node process registers its handlers no pending claim of an earlier
\* process is left (app.ts: `No handler is registered until every pre-existing
\* pending claim has been closed').  False of a journal with more open rows
\* than one recovery selects: the rest is left, with a warning.
PendingClosedBeforeServing ==
    [][host = "node" /\ ~serving /\ serving' =>
         \A m \in Messages : journal'[m].state # "pending"]_vars

\* An uncertain action does not stay uncertain: it becomes terminal, unless
\* a terminal Gateway close ended the alarms that would have settled it.
UncertainIsSettled ==
    \A m \in Messages :
        journal[m].state \in OpenStates ~>
            journal[m].state \notin OpenStates \/ stopped
=============================================================================
