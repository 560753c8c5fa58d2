---------------------------- MODULE GatewayOwner ----------------------------
(***************************************************************************)
(* Who owns the Discord Gateway session of the Cloudflare Durable Object:  *)
(* the alarm that builds the runtime and forks its supervisor, the gate    *)
(* and the deadline of the owner, the mutex of the runtime's lifecycle,    *)
(* the reload that retires an owner, the cron trigger that repairs a lost  *)
(* alarm, and the staging lease that parks it all.                         *)
(*                                                                         *)
(* No clock: a deadline may have passed whenever it is looked at after it  *)
(* was set, and a pending alarm may be delivered at any time, also while   *)
(* another invocation is awaiting something.  The platform (alarms, crash) *)
(* and the outcome of a Gateway session are external.                      *)
(***************************************************************************)
EXTENDS Naturals

CONSTANTS
    Stages,      \* the deployments there are: "production", "staging" or both
    Ticks,       \* alarm invocations that may overlap
    Owners,      \* owners that activate and park the staging lease
    MaxRuntimes, \* runtimes that are referenced at the same time
    MaxPuts,     \* bound on the configurations ever stored, of each stage
    MaxFailures, \* bound on failed invocations and builds, of each stage
    MaxLeases,   \* bound on the leases ever granted
    MaxCrashes,  \* bound on crashes of the instance
    None         \* nobody holds a lock

Runtimes == 1..MaxRuntimes
Requests == {"rpc", "cron", "reload", "activate", "park"}

ASSUME OwnerAssumption ==
    /\ Stages \subseteq {"production", "staging"}
    /\ MaxRuntimes \in Nat \ {0} /\ MaxLeases \in Nat /\ MaxCrashes \in Nat
    /\ MaxPuts \in [Stages -> Nat] /\ MaxFailures \in [Stages -> Nat]
    /\ None \notin Ticks /\ None \notin Requests
    /\ Ticks \cap Requests = {}

VARIABLES
    stage,     \* which deployment this is
    alarm,     \* the durable alarm: "none", "pending" or "dead" (stale)
    lease,     \* the durable lease of the staging Gateway
    holder,    \* who holds the lease mutex
    phase,     \* what the holder of the lease mutex is doing
    current,   \* the installed runtime, 0 if there is none
    revision,  \* the stored configuration it was built from
    status,    \* the state the supervisor of a runtime reports
    awaiting,  \* awaitingAlarmBuild
    mutex,     \* who is building or resetting under the lifecycle mutex
    building,  \* the configuration read by the build under way
    published, \* supervisorFiber: the runtime whose supervisor was forked last
    alive,     \* how many supervisor fibers of a runtime live
    started,   \* history: the lease under which the last of them was forked
    gate,      \* the supervisor gate is claimed
    watch,     \* the owner deadline is running (claimedAt)
    tick,      \* the alarm invocations
    stored,    \* the revision of the durable configuration
    activated, \* history: the last one stored to be activated
    rpc,       \* an RPC that needs the runtime: "idle" or "checked"
    reload,    \* configPut with reload, from the write on
    wanted,    \* the owner whose activation is under way
    operation, \* the lease an operation (commandsSync) runs under, 0 if none
    granted, crashes, failures

durable == <<stage, alarm, lease, stored>>
locks == <<holder, phase, wanted>>
runtimes == <<current, revision, status>>
owner == <<published, alive, started, gate, watch>>
memory == <<runtimes, owner, awaiting, mutex, building>>
work == <<tick, rpc, reload, operation>>
bounds == <<activated, granted, crashes, failures>>
vars == <<durable, locks, memory, work, bounds>>
-----------------------------------------------------------------------------
NoLease == [id |-> 0, owner |-> None, expired |-> FALSE]
NoTick == [pc |-> "idle", rt |-> 0, forked |-> FALSE]

Active == lease # NoLease /\ ~lease.expired

\* In staging whileActive runs its body under the lease mutex; production has
\* no lease.
Running(p) == stage = "production" \/ (holder = p /\ phase = "run")

Release == holder' = None /\ phase' = "none" /\ wanted' = None
KeepOrRelease(p) == IF holder = p THEN Release ELSE UNCHANGED locks

Referenced ==
    {current, published} \cup {tick[t].rt : t \in Ticks} \cup {r \in Runtimes : alive[r] > 0}

\* A build reads the stored configuration and, under the mutex, takes a while.
BuildBegin(p) ==
    /\ mutex = None /\ current = 0
    /\ mutex' = p /\ building' = stored
    /\ UNCHANGED runtimes

Built(p) ==
    /\ mutex = p /\ current = 0
    /\ \E r \in Runtimes \ Referenced :
          /\ \A q \in Runtimes \ Referenced : r <= q
          /\ current' = r
          /\ revision' = building
          /\ status' = [status EXCEPT ![r] = "trying"]
    /\ UNCHANGED building

Init ==
    /\ stage \in Stages
    /\ alarm = IF stage = "production" THEN "pending" ELSE "none"
    /\ lease = NoLease
    /\ holder = None /\ phase = "none" /\ wanted = None
    /\ current = 0 /\ revision = 0
    /\ status = [r \in Runtimes |-> "trying"]
    /\ awaiting = TRUE /\ mutex = None /\ building = 0
    /\ published = 0 /\ alive = [r \in Runtimes |-> 0]
    /\ started = 0
    /\ gate = FALSE /\ watch = FALSE
    /\ tick = [t \in Ticks |-> NoTick]
    /\ rpc = "idle" /\ reload = "idle" /\ operation = 0
    /\ stored = 0 /\ activated = 0
    /\ granted = 0 /\ crashes = 0 /\ failures = 0
-----------------------------------------------------------------------------
(* The lifecycle of the runtime                                            *)

\* reset sets awaitingAlarmBuild and waits, under the lifecycle mutex, for the
\* old supervisor to be interrupted ...
ResetBegin(p) ==
    /\ mutex = None /\ mutex' = p
    /\ awaiting' = TRUE
    /\ UNCHANGED <<runtimes, owner, building>>

Interrupted ==
    [alive EXCEPT ![published] = IF @ > 0 THEN @ - 1 ELSE 0]

\* Mutant of ResetEnd: the old supervisor is not interrupted.
ResetEndForgetsFiber(p) ==
    /\ mutex = p /\ mutex' = None
    /\ UNCHANGED alive
    /\ published' = 0 /\ gate' = FALSE /\ watch' = FALSE
    /\ current' = 0 /\ revision' = 0
    /\ UNCHANGED <<awaiting, status, started, building>>

\* Mutant of ResetEnd: the old runtime stays installed.
ResetEndKeepsRuntime(p) ==
    /\ mutex = p /\ mutex' = None
    /\ alive' = IF published = 0 THEN alive ELSE Interrupted
    /\ published' = 0 /\ gate' = FALSE /\ watch' = FALSE
    /\ UNCHANGED <<awaiting, runtimes, started, building>>

\* ... then frees the gate and the deadline and discards the runtime.
ResetEnd(p) ==
    /\ mutex = p /\ mutex' = None
    /\ alive' = IF published = 0 THEN alive ELSE Interrupted
    /\ published' = 0 /\ gate' = FALSE /\ watch' = FALSE
    /\ current' = 0 /\ revision' = 0
    /\ UNCHANGED <<awaiting, status, started, building>>

\* The supervisor's own life (external): it becomes ready, loses its session,
\* meets a terminal close code, or ends abnormally.  An ended fiber frees the gate.
SessionChanges(r) ==
    /\ alive[r] > 0
    /\ status' = [status EXCEPT ![r] = IF @ = "ready" THEN "trying" ELSE "ready"]
    /\ UNCHANGED <<durable, locks, current, revision, owner, awaiting,
                   mutex, building, work, bounds>>

SupervisorEnds(r) ==
    /\ alive[r] > 0
    /\ alive' = [alive EXCEPT ![r] = @ - 1]
    /\ gate' = FALSE
    /\ \/ status' = [status EXCEPT ![r] = "stopped"]
       \/ UNCHANGED status
    /\ UNCHANGED <<durable, locks, current, revision, published, started,
                   watch, awaiting, mutex, building, work, bounds>>
-----------------------------------------------------------------------------
(* The staging lease                                                       *)

\* Mutant of Enter: the expiry of the stored lease is not looked at.
EnterAnyLease(p) ==
    /\ stage = "staging" /\ holder = None
    /\ holder' = p
    /\ phase' = IF lease # NoLease THEN "run" ELSE IF alarm # "none" THEN "stop" ELSE "parked"

\* p takes the lease mutex: an active lease lets it run; an expired one, or an
\* alarm without a lease, makes it park the Gateway first.
Enter(p) ==
    /\ stage = "staging" /\ holder = None
    /\ holder' = p
    /\ phase' = IF Active THEN "run"
                ELSE IF lease # NoLease \/ alarm # "none" THEN "stop" ELSE "parked"

LeaseExpires ==
    /\ Active
    /\ lease' = [lease EXCEPT !.expired = TRUE]
    /\ UNCHANGED <<stage, alarm, stored, locks, memory, work, bounds>>

\* What the holder was doing is cancelled when its lease expires: a tick's
\* retry sets the alarm once more, a build or a reset that was waiting lets the
\* lifecycle mutex go.
RunExpires ==
    /\ phase = "run" /\ lease.expired
    /\ phase' = "stop"
    /\ alarm' = IF holder \in Ticks THEN "pending" ELSE alarm
    /\ mutex' = IF mutex = holder THEN None ELSE mutex
    /\ UNCHANGED <<stage, lease, stored, holder, wanted, runtimes, owner, awaiting,
                   building, work, bounds>>

\* Mutant of ParkStop: running operations are left alone.
ParkStopOnly ==
    /\ phase = "stop" /\ phase' = "stopping"
    /\ ResetBegin(holder)
    /\ UNCHANGED <<durable, holder, wanted, work, bounds>>

\* park cancels the operations, resets the runtime, and deletes first the
\* lease, then the alarm.
ParkStop ==
    /\ phase = "stop" /\ phase' = "stopping"
    /\ operation' = 0
    /\ ResetBegin(holder)
    /\ UNCHANGED <<durable, holder, wanted, tick, rpc, reload, bounds>>

ParkStopped ==
    /\ phase = "stopping" /\ phase' = "unlease"
    /\ ResetEnd(holder)
    /\ UNCHANGED <<durable, holder, wanted, work, bounds>>

ParkDelete ==
    /\ \/ /\ phase = "unlease" /\ phase' = "unalarm"
          /\ lease' = NoLease /\ UNCHANGED alarm
       \/ /\ phase = "unalarm" /\ phase' = "parked"
          /\ alarm' = "none" /\ UNCHANGED lease
    /\ UNCHANGED <<stage, stored, holder, wanted, memory, work, bounds>>

\* onParked: whoever held the mutex gives up, except an activation, which now
\* grants its lease.
Parked ==
    /\ phase = "parked" /\ holder # "activate"
    /\ Release
    /\ tick' = [t \in Ticks |-> IF t = holder THEN NoTick ELSE tick[t]]
    /\ rpc' = IF holder = "rpc" THEN "idle" ELSE rpc
    /\ reload' = IF holder = "reload" THEN "idle" ELSE reload
    /\ UNCHANGED <<durable, memory, operation, bounds>>

Activate(o) ==
    /\ granted < MaxLeases
    /\ Enter("activate") /\ wanted' = o
    /\ UNCHANGED <<durable, memory, work, bounds>>

\* A repeated activation repairs a missing alarm; another owner is refused.
ActivateAgain ==
    /\ holder = "activate" /\ phase = "run"
    /\ alarm' = IF lease.owner = wanted /\ alarm = "none" THEN "pending" ELSE alarm
    /\ Release
    /\ UNCHANGED <<stage, lease, stored, memory, work, bounds>>

\* The alarm is set before the lease is stored.
Grant ==
    /\ holder = "activate"
    /\ \/ /\ phase = "parked" /\ phase' = "grant"
          /\ alarm' = "pending"
          /\ UNCHANGED <<lease, holder, wanted, granted>>
       \/ /\ phase = "grant"
          /\ lease' = [id |-> granted + 1, owner |-> wanted, expired |-> FALSE]
          /\ granted' = granted + 1
          /\ Release
          /\ UNCHANGED alarm
    /\ UNCHANGED <<stage, stored, activated, memory, work, crashes, failures>>

Park(o) ==
    /\ Enter("park") /\ wanted' = o
    /\ UNCHANGED <<durable, memory, work, bounds>>

\* Only the owner of an active lease parks it.
ParkRequested ==
    /\ holder = "park" /\ phase = "run"
    /\ IF lease.owner = wanted
       THEN phase' = "stop" /\ UNCHANGED <<holder, wanted>>
       ELSE Release
    /\ UNCHANGED <<durable, memory, work, bounds>>

\* withActiveOperation: commandsSync runs outside the mutex, under its lease.
StartOperation ==
    /\ stage = "staging" /\ holder = None /\ Active /\ operation = 0
    /\ operation' = lease.id
    /\ UNCHANGED <<durable, locks, memory, tick, rpc, reload, bounds>>

EndOperation ==
    /\ operation # 0 /\ operation' = 0
    /\ UNCHANGED <<durable, locks, memory, tick, rpc, reload, bounds>>
-----------------------------------------------------------------------------
(* The alarm invocation                                                    *)

At(t, pc) == tick[t].pc = pc
Goes(t, to) == tick' = [tick EXCEPT ![t].pc = to]

\* A delivered alarm is no longer scheduled.
TickBegin(t) ==
    /\ At(t, "idle") /\ alarm = "pending"
    /\ alarm' = "none"
    /\ Goes(t, IF stage = "production" THEN "get" ELSE "fired")
    /\ UNCHANGED <<stage, lease, stored, locks, memory, rpc, reload, operation, bounds>>

TickEnter(t) ==
    /\ At(t, "fired") /\ Enter(t)
    /\ Goes(t, "get")
    /\ UNCHANGED <<durable, wanted, memory, rpc, reload, operation, bounds>>

TickGet(t) ==
    /\ At(t, "get") /\ Running(t)
    /\ \/ /\ mutex = None /\ current # 0
          /\ Goes(t, "arm")
          /\ UNCHANGED <<runtimes, mutex, building>>
       \/ BuildBegin(t) /\ UNCHANGED tick
       \/ Built(t) /\ mutex' = None /\ Goes(t, "arm")
    /\ UNCHANGED <<durable, locks, owner, awaiting, rpc, reload, operation, bounds>>

TickArm(t) ==
    /\ At(t, "arm") /\ Running(t)
    /\ awaiting' = FALSE
    /\ Goes(t, "select")
    /\ UNCHANGED <<durable, locks, runtimes, owner, mutex, building,
                   rpc, reload, operation, bounds>>

\* The build fails or takes too long, or storage fails: the retry sets the
\* next alarm.
TickFails(t) ==
    /\ tick[t].pc \in {"get", "arm", "select"} /\ Running(t)
    /\ failures < MaxFailures[stage] /\ failures' = failures + 1
    /\ alarm' = "pending"
    /\ tick' = [tick EXCEPT ![t] = NoTick]
    /\ mutex' = IF mutex = t THEN None ELSE mutex
    /\ KeepOrRelease(t)
    /\ UNCHANGED <<stage, lease, stored, runtimes, owner, awaiting, building,
                   rpc, reload, operation, activated, granted, crashes>>

\* The invocation ends here; with a lease, its expiry alarm is set.
EndsEarly(t) ==
    /\ tick' = [tick EXCEPT ![t] = NoTick]
    /\ alarm' = IF stage = "staging" THEN "pending" ELSE alarm
    /\ KeepOrRelease(t)

Chosen(t, to, forked) ==
    /\ tick' = [tick EXCEPT ![t] = [pc |-> to, rt |-> current, forked |-> forked]]
    /\ UNCHANGED <<alarm, locks>>

\* Mutant of Claimed: every tick claims the slot.
AlwaysClaimed == TRUE

Claimed == ~gate

Settled == status[current] \in {"ready", "stopped"}

\* The lease ran out meanwhile, or the supervisor was stopped for good.
SelectNothing(t) ==
    /\ \/ stage = "staging" /\ lease.expired /\ UNCHANGED <<gate, watch>>
       \/ Claimed /\ status[current] = "stopped" /\ gate' = FALSE /\ watch' = TRUE
    /\ EndsEarly(t)
    /\ UNCHANGED <<published, alive, started>>

SelectFork(t) ==
    /\ Claimed /\ status[current] # "stopped"
    /\ gate' = TRUE /\ watch' = TRUE
    /\ published' = current
    /\ alive' = [alive EXCEPT ![current] = @ + 1]
    /\ started' = lease.id
    /\ Chosen(t, "schedule", TRUE)

\* Somebody owns the gate: it is overdue if its deadline had been set before.
SelectOther(t) ==
    /\ ~Claimed
    /\ watch' = ~Settled
    /\ \/ Chosen(t, "schedule", FALSE)
       \/ watch /\ ~Settled /\ Chosen(t, "stalled", FALSE)
    /\ UNCHANGED <<published, alive, started, gate>>

\* Under the lifecycle mutex, after the alarm was read: the runtime is read
\* again, the gate claimed and the supervisor forked and published.
TickSelect(t) ==
    /\ At(t, "select") /\ Running(t)
    /\ \/ /\ BuildBegin(t) \/ (Built(t) /\ UNCHANGED mutex)
          /\ UNCHANGED <<tick, alarm, locks, owner>>
       \/ /\ mutex \in {None, t} /\ current # 0
          /\ SelectNothing(t) \/ SelectFork(t) \/ SelectOther(t)
          /\ mutex' = None
          /\ UNCHANGED <<runtimes, building>>
    /\ UNCHANGED <<stage, lease, stored, awaiting, rpc, reload, operation, bounds>>

\* The owner is overdue: the runtime is reset unless it was replaced since.
TickStalled(t) ==
    /\ At(t, "stalled") /\ Running(t)
    /\ \/ /\ mutex = None /\ current = tick[t].rt
          /\ ResetBegin(t)
          /\ UNCHANGED <<alarm, locks, tick>>
       \/ /\ mutex = None /\ current # tick[t].rt
          /\ tick' = [tick EXCEPT ![t] = NoTick]
          /\ KeepOrRelease(t)
          /\ UNCHANGED <<alarm, memory>>
       \/ /\ ResetEnd(t)
          /\ Goes(t, "rearm")
          /\ UNCHANGED <<alarm, locks>>
    /\ UNCHANGED <<stage, lease, stored, rpc, reload, operation, bounds>>

TickRearm(t) ==
    /\ At(t, "rearm") /\ Running(t)
    /\ alarm' = "pending"
    /\ tick' = [tick EXCEPT ![t] = NoTick]
    /\ KeepOrRelease(t)
    /\ UNCHANGED <<stage, lease, stored, memory, rpc, reload, operation, bounds>>

AfterSchedule(t) ==
    /\ tick' = [tick EXCEPT ![t] =
           IF tick[t].forked THEN [NoTick EXCEPT !.pc = "handshake"] ELSE NoTick]
    /\ KeepOrRelease(t)

\* Mutant of TickSchedules: a ready supervisor needs no further alarm.
TickSchedulesUnlessReady(t) ==
    /\ At(t, "schedule") /\ Running(t)
    /\ alarm' = IF status[tick[t].rt] = "ready" THEN "none" ELSE "pending"
    /\ AfterSchedule(t)
    /\ UNCHANGED <<stage, lease, stored, memory, rpc, reload, operation, bounds>>

\* After the maintenance of the journal (ThreadActions) the next alarm is set.
\* A stopped supervisor of a production instance ends the alarm chain.
TickSchedules(t) ==
    /\ At(t, "schedule") /\ Running(t)
    /\ alarm' = IF status[tick[t].rt] = "stopped" /\ stage = "production"
                THEN "none" ELSE "pending"
    /\ AfterSchedule(t)
    /\ UNCHANGED <<stage, lease, stored, memory, rpc, reload, operation, bounds>>

\* Established, ended or timed out; no lock is held while waiting for that.
HandshakeEnds(t) ==
    /\ At(t, "handshake")
    /\ tick' = [tick EXCEPT ![t] = NoTick]
    /\ UNCHANGED <<durable, locks, memory, rpc, reload, operation, bounds>>
-----------------------------------------------------------------------------
(* Cron, RPCs, reload, crash                                               *)

\* Mutant of Repaired: an alarm whose delivery was given up counts as one.
RepairedIfMissing == IF alarm = "none" THEN "pending" ELSE alarm

\* ensureAlarm repairs a missing alarm and one too old to be delivered.
Repaired == IF alarm \in {"none", "dead"} THEN "pending" ELSE alarm

EnterRequest(p) ==
    /\ Enter(p)
    /\ UNCHANGED <<durable, wanted, memory, work, bounds>>

Cron ==
    /\ Running("cron")
    /\ alarm' = Repaired
    /\ KeepOrRelease("cron")
    /\ UNCHANGED <<stage, lease, stored, memory, work, bounds>>

\* ensureRuntime looks at awaitingAlarmBuild first and takes the lifecycle
\* mutex afterwards, where it may have to build, and may fail to.
RpcChecks ==
    /\ rpc = "idle" /\ Running("rpc")
    /\ IF awaiting
       THEN alarm' = Repaired /\ KeepOrRelease("rpc") /\ UNCHANGED rpc
       ELSE rpc' = "checked" /\ UNCHANGED <<alarm, locks>>
    /\ UNCHANGED <<stage, lease, stored, memory, tick, reload, operation, bounds>>

RpcGets ==
    /\ rpc = "checked" /\ Running("rpc")
    /\ \/ /\ BuildBegin("rpc")
          /\ UNCHANGED <<rpc, locks>>
       \/ /\ \/ Built("rpc") /\ mutex' = None
             \/ current # 0 /\ mutex = None /\ UNCHANGED <<runtimes, mutex, building>>
          /\ rpc' = "idle"
          /\ KeepOrRelease("rpc")
    /\ UNCHANGED <<durable, owner, awaiting, tick, reload, operation, bounds>>

RpcFails ==
    /\ mutex = "rpc" /\ mutex' = None /\ Running("rpc")
    /\ failures < MaxFailures[stage] /\ failures' = failures + 1
    /\ rpc' = "idle"
    /\ KeepOrRelease("rpc")
    /\ UNCHANGED <<durable, runtimes, owner, awaiting, building, tick, reload,
                   operation, activated, granted, crashes>>

\* configPut stores the validated candidate, one at a time; without a reload
\* that is all.
PutConfig ==
    /\ reload = "idle" /\ stored < MaxPuts[stage]
    /\ stored' = stored + 1
    /\ \/ reload' = "stored" /\ activated' = stored'
       \/ UNCHANGED <<reload, activated>>
    /\ UNCHANGED <<stage, alarm, lease, locks, memory, tick, rpc, operation,
                   granted, crashes, failures>>

\* activateCandidate resets the runtime ...
ReloadResets ==
    /\ \/ reload = "stored" /\ reload' = "reset" /\ ResetBegin("reload")
       \/ reload = "reset" /\ reload' = "alarm" /\ ResetEnd("reload")
    /\ UNCHANGED <<durable, locks, tick, rpc, operation, bounds>>

\* ... and schedules the alarm that will build its replacement, if that does
\* not fail.
ReloadSetsAlarm ==
    /\ reload = "alarm" /\ Running("reload")
    /\ alarm' \in {"pending", alarm}
    /\ reload' = "idle"
    /\ KeepOrRelease("reload")
    /\ UNCHANGED <<stage, lease, stored, memory, tick, rpc, operation, bounds>>

\* Eviction or deploy: memory and invocations are gone.  The platform delivers
\* an interrupted alarm again, or has given it up.
Crash ==
    /\ crashes < MaxCrashes /\ crashes' = crashes + 1
    /\ alarm' \in IF \E t \in Ticks : tick[t].pc # "idle" THEN {"pending", "dead"} ELSE {alarm}
    /\ holder' = None /\ phase' = "none" /\ wanted' = None
    /\ current' = 0 /\ revision' = 0
    /\ published' = 0 /\ awaiting' = TRUE /\ mutex' = None /\ building' = 0
    /\ alive' = [r \in Runtimes |-> 0]
    /\ gate' = FALSE /\ watch' = FALSE
    /\ tick' = [t \in Ticks |-> NoTick]
    /\ rpc' = "idle" /\ reload' = "idle" /\ operation' = 0
    /\ UNCHANGED <<stage, lease, stored, activated, status, started, granted, failures>>
-----------------------------------------------------------------------------
Proceeds(t) ==
    \/ TickBegin(t) \/ TickEnter(t) \/ TickGet(t) \/ TickArm(t) \/ TickSelect(t)
    \/ TickStalled(t) \/ TickRearm(t) \/ TickSchedules(t) \/ HandshakeEnds(t)

LeaseSteps ==
    \/ LeaseExpires \/ RunExpires
    \/ ParkStop \/ ParkStopped \/ ParkDelete \/ Parked
    \/ ActivateAgain \/ Grant \/ ParkRequested
    \/ \E o \in Owners : Activate(o) \/ Park(o)
    \/ StartOperation \/ EndOperation
    \/ \E p \in {"cron", "rpc"} : EnterRequest(p)
    \/ reload = "alarm" /\ EnterRequest("reload")

Next ==
    \/ \E t \in Ticks : Proceeds(t) \/ TickFails(t)
    \/ LeaseSteps
    \/ \E r \in Runtimes : SessionChanges(r) \/ SupervisorEnds(r)
    \/ Cron \/ RpcChecks \/ RpcGets \/ RpcFails
    \/ PutConfig \/ ReloadResets \/ ReloadSetsAlarm
    \/ Crash

Spec == Init /\ [][Next]_vars

\* The platform delivers alarms and cron triggers, and the instance goes on
\* with what it is doing.  Failures and crashes are finitely many.
Fairness ==
    /\ \A t \in Ticks : WF_vars(Proceeds(t))
    /\ WF_vars(EnterRequest("cron")) /\ WF_vars(Cron)
    /\ WF_vars(RpcGets) /\ WF_vars(ReloadResets \/ ReloadSetsAlarm)
    /\ WF_vars(RunExpires \/ ParkStop \/ ParkStopped \/ ParkDelete \/ Parked
               \/ Grant \/ ActivateAgain \/ ParkRequested)

FairSpec == Spec /\ Fairness
-----------------------------------------------------------------------------
(* Types                                                                   *)

Invocation == [pc : {"idle", "fired", "get", "arm", "select", "stalled", "rearm",
                     "schedule", "handshake"},
               rt : 0..MaxRuntimes, forked : BOOLEAN]

Lease == [id : 0..MaxLeases, owner : Owners \cup {None}, expired : BOOLEAN]

\* Every variable keeps its shape, and a runtime has at most one supervisor.
TypeOK ==
    /\ stage \in Stages
    /\ alarm \in {"none", "pending", "dead"}
    /\ lease \in Lease
    /\ holder \in Ticks \cup Requests \cup {None}
    /\ phase \in {"none", "run", "stop", "stopping", "unlease", "unalarm", "parked", "grant"}
    /\ wanted \in Owners \cup {None}
    /\ current \in 0..MaxRuntimes /\ published \in 0..MaxRuntimes
    /\ revision \in 0..MaxPuts[stage]
    /\ status \in [Runtimes -> {"trying", "ready", "stopped"}]
    /\ awaiting \in BOOLEAN /\ gate \in BOOLEAN /\ watch \in BOOLEAN
    /\ mutex \in Ticks \cup Requests \cup {None}
    /\ building \in 0..MaxPuts[stage]
    /\ stored \in 0..MaxPuts[stage] /\ activated \in 0..MaxPuts[stage]
    /\ alive \in [Runtimes -> 0..1]
    /\ started \in 0..MaxLeases /\ operation \in 0..MaxLeases
    /\ tick \in [Ticks -> Invocation]
    /\ rpc \in {"idle", "checked"}
    /\ reload \in {"idle", "stored", "reset", "alarm"}
    /\ granted \in 0..MaxLeases /\ crashes \in 0..MaxCrashes
    /\ failures \in 0..MaxFailures[stage]
-----------------------------------------------------------------------------
(* What the owner of the Gateway promises                                  *)

Live(r) == alive[r] > 0

\* There is at most one supervisor, it is the published one of the installed
\* runtime, so that a reload or a park interrupts it, and it holds the gate
\* (loop-gate.ts: `two overlapping alarm or cron ticks can never both fork').
OneOwner ==
    \A r \in Runtimes :
        Live(r) => /\ gate /\ published = r /\ current = r
                   /\ alive[r] = 1

\* A live owner is watched: an alarm that will look at it is pending, or an
\* invocation that will set one is under way, or a reset is about to retire it.
OwnerIsWatched ==
    (\E r \in Runtimes : Live(r)) =>
        \/ alarm = "pending"
        \/ \E t \in Ticks : tick[t].pc \notin {"idle", "handshake"}
        \/ mutex # None \/ phase # "none"

\* Once a reload has retired the old owner no runtime of an older
\* configuration than the one it stored is installed, whatever was being
\* built meanwhile (admin-ops.ts, runtime-install.ts).
ReloadTakesEffect ==
    current # 0 /\ revision < activated => reload \in {"stored", "reset"}

\* In staging the supervisor runs under the very lease it was started under;
\* a parked Gateway has none (04-operations/spec.md: `cron, alarm, and
\* administrative activity cannot start a session').
OwnerUnderLease ==
    stage = "staging" =>
        \A r \in Runtimes : Live(r) => lease # NoLease /\ lease.id = started

\* Command synchronisation never outlives the lease it was started under.
OperationUnderLease ==
    operation # 0 => lease.id = operation

\* The Gateway always comes back, after a reload, a crash, a failed build, a
\* lost alarm or a supervisor that died: some supervisor lives, or the
\* installed one met a terminal close.  A staging Gateway needs a lease for it.
OwnerReturns ==
    []<>(\/ stage = "staging"
         \/ \E r \in Runtimes : Live(r)
         \/ current # 0 /\ status[current] = "stopped")

\* An expired lease parks the Gateway, whoever was doing what under it.
ExpiryStopsOwner ==
    lease # NoLease /\ lease.expired ~> \A r \in Runtimes : ~Live(r)
=============================================================================
