------------------------- MODULE GatewaySupervisor -------------------------
(***************************************************************************)
(* One supervisor of the Gateway session inside the Durable Object, from   *)
(* the run that is forked until it is interrupted, stops or crashes: the   *)
(* attempts, the pump that records READY and RESUMED, the gate that keeps  *)
(* a dead attempt from reporting ready, the drain, and the session that    *)
(* the supervisor and the DFX shard keep in one durable place.             *)
(*                                                                         *)
(* The fibers of an attempt are the runner, the pump and the shard, which  *)
(* interleave at awaits.  No clock: a handshake deadline may pass at any   *)
(* time before the session is established, and delays are not modelled.    *)
(* The DFX shard and Discord are external; the patch to DFX says what they *)
(* publish.                                                                *)
(***************************************************************************)
EXTENDS Naturals, Sequences

CONSTANTS
    MaxSessions, \* bound on the sessions Discord ever opens
    MaxSeq,      \* bound on the dispatches of a session
    MaxLosses,   \* bound on lost or replaced connections
    MaxSlips,    \* bound on identifies that Discord does not answer in time
    MaxOutages   \* bound on crashes and on resets of an owner that is not stuck

ASSUME SupervisorAssumption ==
    /\ MaxSessions \in Nat /\ MaxSeq \in Nat /\ MaxLosses \in Nat
    /\ MaxSlips \in Nat /\ MaxOutages \in Nat

VARIABLES
    store,       \* the durable session, shared with the ShardStateStore of DFX
    pc,          \* the runner: where run and attemptOnce are
    state,       \* stateRef, or what is reported while no runtime is installed
    mode,        \* the session the attempt began with; none is Identify
    latest,      \* the last checkpoint of the attempt
    live,        \* the gate of the attempt
    established, \* READY or RESUMED was published in this attempt
    end,         \* how the attempt ended
    inbox,       \* checkpoints emitted and not yet taken
    left,        \* how many the drain has still to take
    pump,        \* the checkpoint being recorded, by the pump or by the drain
    lock,        \* readinessLock
    shard,       \* the session fiber that consumes the lifecycle
    queue,       \* lifecycle events of DFX not yet consumed
    socket,      \* the connection of DFX
    resume,      \* resumeState of DFX
    opened,      \* how many sessions Discord has opened
    losses, slips, outages,
    heard,       \* history: the last session emitted before the drain
    kept,        \* history: the last session the supervisor saved
    retired,     \* history: the sessions that were given up
    lost         \* history: the connection was lost, as far as the shard heard

runner == <<pc, mode, end, left>>
attempt == <<latest, live, established>>
dfx == <<queue, socket, resume, opened>>
bounds == <<losses, slips, outages>>
history == <<heard, kept, retired, lost>>
vars == <<store, runner, state, attempt, inbox, pump, lock, shard, dfx, bounds, history>>
-----------------------------------------------------------------------------
NoSession == [id |-> 0, seq |-> 0]
Sessions == [id : 0..MaxSessions, seq : 0..MaxSeq]
Idle == [pc |-> "idle", session |-> NoSession]
Attempting == {"sync", "attempt", "gate"}

\* Nothing of an attempt is left in memory.
NoAttempt ==
    /\ mode' = NoSession /\ end' = "none" /\ left' = 0
    /\ latest' = NoSession /\ live' = FALSE /\ established' = FALSE
    /\ inbox' = << >> /\ pump' = Idle /\ lock' = "none"

NoShard == shard' = "off" /\ queue' = << >> /\ socket' = "off" /\ resume' = NoSession

Init ==
    /\ store = NoSession /\ opened = 0
    /\ pc = "off" /\ state = "disconnected"
    /\ mode = NoSession /\ end = "none" /\ left = 0
    /\ latest = NoSession /\ live = FALSE /\ established = FALSE
    /\ inbox = << >> /\ pump = Idle /\ lock = "none"
    /\ shard = "off" /\ queue = << >> /\ socket = "off" /\ resume = NoSession
    /\ losses = 0 /\ slips = 0 /\ outages = 0
    /\ heard = 0 /\ kept = 0 /\ retired = {} /\ lost = FALSE
-----------------------------------------------------------------------------
(* The runner: one attempt after the other                                 *)

\* An alarm builds a runtime, whose supervisor starts disconnected.
Start ==
    /\ pc = "off" /\ pc' = "load"
    /\ state' = "disconnected"
    /\ UNCHANGED <<store, mode, end, left, attempt, inbox, pump, lock, shard, dfx,
                   bounds, history>>

\* The durable session decides between Resume and Identify.
Load ==
    /\ pc = "load" /\ pc' = "sync"
    /\ mode' = store /\ latest' = store
    /\ state' = IF store.id # 0 THEN "resuming" ELSE "connecting"
    /\ live' = TRUE /\ established' = FALSE
    /\ heard' = store.id /\ kept' = store.id /\ lost' = FALSE
    /\ UNCHANGED <<store, end, left, inbox, pump, lock, shard, dfx, bounds, retired>>

\* acquire writes the decision back for DFX, which starts from it.
Sync ==
    /\ pc = "sync" /\ pc' = "attempt"
    /\ store' = mode
    /\ shard' = "running" /\ socket' = "down" /\ resume' = mode
    /\ UNCHANGED <<mode, end, left, state, attempt, inbox, pump, lock, queue, opened,
                   bounds, history>>

\* The handshake deadline races the session, which goes on meanwhile.
TimeOut ==
    /\ pc \in {"sync", "attempt"} /\ ~established
    /\ IF mode.id # 0 THEN UNCHANGED slips
                      ELSE slips < MaxSlips /\ slips' = slips + 1
    /\ pc' = "gate" /\ end' = "timeout"
    /\ UNCHANGED <<store, mode, left, state, attempt, inbox, pump, lock, shard, dfx,
                   losses, outages, history>>

SessionEnds ==
    /\ pc = "attempt" /\ shard \in {"terminal", "failed"}
    /\ pc' = "gate" /\ end' = shard
    /\ UNCHANGED <<store, mode, left, state, attempt, inbox, pump, lock, shard, dfx,
                   bounds, history>>

\* Serialized with the publication of readiness: from here on this attempt
\* can no longer report ready.
CloseGate ==
    /\ pc = "gate" /\ lock = "none"
    /\ pc' = "join" /\ live' = FALSE /\ state' = "disconnected"
    /\ UNCHANGED <<store, mode, end, left, latest, established, inbox, pump, lock,
                   shard, dfx, bounds, history>>

\* Mutant of StartDrain: what is buffered is dropped with the attempt.
StartDrainDropsInbox ==
    /\ pc = "join" /\ pump = Idle
    /\ pc' = "drain" /\ left' = 0
    /\ UNCHANGED <<store, mode, end, state, attempt, inbox, pump, lock, shard, dfx,
                   bounds, history>>

\* Mutant of StartDrain: one checkpoint too few is drained.
StartDrainShort ==
    /\ pc = "join" /\ pump = Idle
    /\ pc' = "drain" /\ left' = Len(inbox) - 1
    /\ UNCHANGED <<store, mode, end, state, attempt, inbox, pump, lock, shard, dfx,
                   bounds, history>>

\* The interrupted pump has finished what it was recording; what is buffered
\* by now is drained.
StartDrain ==
    /\ pc = "join" /\ pump = Idle
    /\ pc' = "drain" /\ left' = Len(inbox)
    /\ UNCHANGED <<store, mode, end, state, attempt, inbox, pump, lock, shard, dfx,
                   bounds, history>>

\* Mutant of CloseScope: the session fiber outlives its attempt.
CloseScopeLeaksShard ==
    /\ pc = "drain" /\ left = 0 /\ pump = Idle
    /\ pc' = "settle"
    /\ inbox' = << >> /\ lock' = "none"
    /\ UNCHANGED <<store, mode, end, left, state, attempt, pump, shard, dfx, bounds, history>>

\* The scope of the attempt closes, and with it the session fiber and DFX.
CloseScope ==
    /\ pc = "drain" /\ left = 0 /\ pump = Idle
    /\ pc' = "settle"
    /\ inbox' = << >> /\ lock' = "none" /\ NoShard
    /\ UNCHANGED <<store, mode, end, left, state, attempt, pump, opened, bounds, history>>

\* Mutant of Settle: the session that could not be resumed is kept.
SettleKeepsSession ==
    /\ pc = "settle"
    /\ IF end = "terminal"
       THEN /\ store' = NoSession
            /\ retired' = retired \cup ({mode.id, store.id} \ {0})
            /\ pc' = "stopped" /\ state' = "stopped"
       ELSE pc' = "backoff" /\ UNCHANGED <<store, retired, state>>
    /\ UNCHANGED <<mode, end, left, attempt, inbox, pump, lock, shard, dfx, bounds,
                   heard, kept, lost>>

\* A terminal close ends the loop and a resume that was never answered is not
\* tried again: both give up the session.
Settle ==
    /\ pc = "settle"
    /\ IF end = "terminal" \/ (end = "timeout" /\ mode.id # 0)
       THEN /\ store' = NoSession
            /\ retired' = retired \cup ({mode.id, store.id} \ {0})
       ELSE UNCHANGED <<store, retired>>
    /\ IF end = "terminal" THEN pc' = "stopped" /\ state' = "stopped"
                           ELSE pc' = "backoff" /\ UNCHANGED state
    /\ UNCHANGED <<mode, end, left, attempt, inbox, pump, lock, shard, dfx, bounds,
                   heard, kept, lost>>

Retry ==
    /\ pc = "backoff" /\ pc' = "load"
    /\ NoAttempt
    /\ UNCHANGED <<store, state, shard, dfx, bounds, history>>
-----------------------------------------------------------------------------
(* The pump: READY and RESUMED become checkpoints                          *)

\* Within one session sequences only grow; a new session starts over.
Stale(s) == latest.id # 0 /\ latest.id = s.id /\ s.seq < latest.seq

\* The pump takes while the attempt goes on, the drain what was buffered then.
Take ==
    /\ pump = Idle /\ inbox # << >>
    /\ \/ pc \in Attempting /\ UNCHANGED left
       \/ pc = "drain" /\ left > 0 /\ left' = left - 1
    /\ inbox' = Tail(inbox)
    /\ IF Stale(Head(inbox))
       THEN UNCHANGED <<latest, pump>>
       ELSE /\ latest' = Head(inbox)
            /\ pump' = [pc |-> "gate", session |-> Head(inbox)]
    /\ UNCHANGED <<store, pc, mode, end, state, live, established, lock, shard, dfx,
                   bounds, history>>

\* Mutant of EnterGate: the gate is not looked at.
EnterGateUnchecked ==
    /\ pump.pc = "gate" /\ lock = "none"
    /\ lock' = "pump" /\ pump' = [pump EXCEPT !.pc = "announce"]
    /\ UNCHANGED <<store, runner, state, attempt, inbox, shard, dfx, bounds, history>>

\* markReady takes the lock and passes only the gate of a live attempt.
EnterGate ==
    /\ pump.pc = "gate" /\ lock = "none"
    /\ IF live THEN lock' = "pump" /\ pump' = [pump EXCEPT !.pc = "announce"]
               ELSE pump' = [pump EXCEPT !.pc = "save"] /\ UNCHANGED lock
    /\ UNCHANGED <<store, runner, state, attempt, inbox, shard, dfx, bounds, history>>

\* The telemetry is durable: now readiness is published.
PublishReady ==
    /\ pump.pc = "announce"
    /\ state' = "ready" /\ lock' = "none"
    /\ pump' = [pump EXCEPT !.pc = "saveReady"]
    /\ UNCHANGED <<store, runner, attempt, inbox, shard, dfx, bounds, history>>

\* Recording is not interrupted; what follows a save is.
Save ==
    /\ pump.pc \in {"save", "saveReady"}
    /\ store' = pump.session /\ kept' = pump.session.id
    /\ established' = (established \/ (pump.pc = "saveReady" /\ pc \in Attempting))
    /\ pump' = Idle
    /\ UNCHANGED <<runner, state, latest, live, inbox, lock, shard, dfx, bounds,
                   heard, retired, lost>>
-----------------------------------------------------------------------------
(* The session fiber: lifecycle events of DFX                              *)

\* READY and RESUMED are emitted with the session the store holds by then.
EmitEstablished ==
    /\ shard = "running" /\ queue # << >> /\ Head(queue) \in {"Ready", "Resumed"}
    /\ queue' = Tail(queue)
    /\ inbox' = Append(inbox, store)
    /\ heard' = IF pc = "drain" THEN heard ELSE store.id
    /\ lost' = FALSE
    /\ UNCHANGED <<store, runner, state, attempt, pump, lock, shard, socket, resume,
                   opened, bounds, kept, retired>>

\* A new connection attempt of DFX is not an event of the supervisor.
IgnoreConnecting ==
    /\ shard = "running" /\ queue # << >> /\ Head(queue) = "Connecting"
    /\ queue' = Tail(queue) /\ lost' = TRUE
    /\ UNCHANGED <<store, runner, state, attempt, inbox, pump, lock, shard, socket,
                   resume, opened, bounds, heard, kept, retired>>

\* markDisconnected withdraws readiness of a live attempt, under the lock.
EmitDisconnected ==
    /\ shard = "running" /\ queue # << >> /\ Head(queue) = "Disconnected"
    /\ lock = "none"
    /\ IF live THEN state' = "disconnected" /\ lock' = "shard" /\ shard' = "marking"
               ELSE UNCHANGED <<state, lock, shard>>
    /\ queue' = Tail(queue) /\ lost' = TRUE
    /\ UNCHANGED <<store, runner, attempt, inbox, pump, socket, resume, opened, bounds,
                   heard, kept, retired>>

DisconnectRecorded ==
    /\ shard = "marking"
    /\ shard' = "running" /\ lock' = "none"
    /\ UNCHANGED <<store, runner, state, attempt, inbox, pump, dfx, bounds, history>>

\* connect fails, or a fiber of the session dies.
ShardFails ==
    /\ shard \in {"running", "marking"} /\ losses < MaxLosses
    /\ losses' = losses + 1
    /\ shard' = "failed" /\ socket' = "off"
    /\ lock' = IF lock = "shard" THEN "none" ELSE lock
    /\ UNCHANGED <<store, runner, state, attempt, inbox, pump, queue, resume, opened,
                   slips, outages, history>>

\* Discord rejects the connection for good; the failure wins over the lifecycle.
TerminalClose ==
    /\ socket \in {"open", "live"} /\ shard \in {"running", "marking"}
    /\ shard' = "terminal" /\ socket' = "off"
    /\ lock' = IF lock = "shard" THEN "none" ELSE lock
    /\ UNCHANGED <<store, runner, state, attempt, inbox, pump, queue, resume, opened,
                   bounds, history>>
-----------------------------------------------------------------------------
(* External: the DFX shard and Discord                                     *)

Open ==
    /\ socket = "down" /\ socket' = "open"
    /\ queue' = Append(queue, "Connecting")
    /\ UNCHANGED <<store, runner, state, attempt, inbox, pump, lock, shard, resume,
                   opened, bounds, history>>

\* DFX writes the session down before it publishes anything about it.
Identified ==
    /\ socket = "open" /\ resume.id = 0 /\ opened < MaxSessions
    /\ opened' = opened + 1
    /\ resume' = [id |-> opened + 1, seq |-> 0] /\ store' = resume'
    /\ socket' = "live" /\ queue' = Append(queue, "Ready")
    /\ UNCHANGED <<runner, state, attempt, inbox, pump, lock, shard, bounds, history>>

Resumed ==
    /\ socket = "open" /\ resume.id # 0
    /\ store' = resume
    /\ socket' = "live" /\ queue' = Append(queue, "Resumed")
    /\ UNCHANGED <<runner, state, attempt, inbox, pump, lock, shard, resume, opened,
                   bounds, history>>

\* INVALID_SESSION: DFX forgets the session and connects again.
Rejected ==
    /\ socket = "open" /\ resume.id # 0
    /\ resume' = NoSession /\ store' = NoSession
    /\ socket' = "down"
    /\ UNCHANGED <<runner, state, attempt, inbox, pump, lock, shard, queue, opened,
                   bounds, history>>

Dispatch ==
    /\ socket = "live" /\ resume.seq < MaxSeq
    /\ resume' = [resume EXCEPT !.seq = @ + 1] /\ store' = resume'
    /\ UNCHANGED <<runner, state, attempt, inbox, pump, lock, shard, queue, socket,
                   opened, bounds, history>>

\* A close is published as Disconnected, unless DFX closed the connection itself
\* (a requested reconnect, a missed heartbeat) and only connects again.
Drop ==
    /\ socket \in {"open", "live"} /\ losses < MaxLosses
    /\ losses' = losses + 1 /\ socket' = "down"
    /\ queue' \in {Append(queue, "Disconnected"), queue}
    /\ UNCHANGED <<store, runner, state, attempt, inbox, pump, lock, shard, resume,
                   opened, slips, outages, history>>
-----------------------------------------------------------------------------
(* Interruption and crash                                                  *)

\* The owner of the runtime interrupts the run and waits.  The drain is not
\* interruptible; elsewhere the scope of the attempt closes at once.
Interrupt ==
    /\ pc \notin {"off", "drain", "unwind"}
    /\ pc' = "unwind" /\ NoShard
    /\ lock' = IF lock = "shard" THEN "none" ELSE lock
    /\ UNCHANGED <<store, mode, end, left, state, attempt, inbox, pump, opened,
                   losses, slips, history>>

\* A reload, a parked lease, or a deadline that finds the owner not ready.
Reset == outages < MaxOutages /\ outages' = outages + 1 /\ Interrupt

\* The owner deadline passes while an established session is gone, for which
\* the attempt has no deadline any more.
Overdue ==
    /\ pc = "attempt" /\ established /\ state \notin {"ready", "stopped"}
    /\ Interrupt /\ UNCHANGED outages

\* What the pump was recording is finished before the runtime is dropped.
Unwound ==
    /\ pc = "unwind" /\ pump = Idle
    /\ pc' = "off" /\ state' = "disconnected"
    /\ NoAttempt
    /\ UNCHANGED <<store, shard, dfx, bounds, history>>

Crash ==
    /\ pc # "off" /\ outages < MaxOutages /\ outages' = outages + 1
    /\ pc' = "off" /\ state' = "disconnected"
    /\ NoAttempt /\ NoShard
    /\ UNCHANGED <<store, opened, losses, slips, history>>
-----------------------------------------------------------------------------
Runner ==
    \/ Start \/ Load \/ Sync \/ SessionEnds \/ CloseGate \/ StartDrain \/ CloseScope
    \/ Settle \/ Retry \/ Unwound

Pump == Take \/ EnterGate \/ PublishReady \/ Save

Shard == EmitEstablished \/ IgnoreConnecting \/ EmitDisconnected \/ DisconnectRecorded

Discord == Open \/ Identified \/ Resumed \/ Rejected \/ Dispatch \/ Drop

Next ==
    \/ Runner \/ TimeOut \/ Pump \/ Shard
    \/ Discord \/ ShardFails \/ TerminalClose
    \/ Reset \/ Overdue \/ Crash

Spec == Init /\ [][Next]_vars

\* The fibers run, deadlines pass, DFX connects again, and Discord answers an
\* identify.  Nothing is assumed of a resume, which may never be answered.
FairSpec ==
    /\ Spec
    /\ WF_vars(Runner) /\ WF_vars(TimeOut) /\ WF_vars(Pump) /\ WF_vars(Shard)
    /\ WF_vars(Open) /\ WF_vars(Identified) /\ WF_vars(Overdue)
-----------------------------------------------------------------------------
(* Properties                                                              *)

SessionTypes ==
    /\ store \in Sessions /\ mode \in Sessions /\ latest \in Sessions /\ resume \in Sessions
    /\ inbox \in Seq(Sessions)
    /\ pump \in [pc : {"idle", "gate", "announce", "save", "saveReady"}, session : Sessions]

ControlTypes ==
    /\ pc \in {"off", "load", "sync", "attempt", "gate", "join", "drain", "settle",
               "backoff", "stopped", "unwind"}
    /\ state \in {"disconnected", "connecting", "resuming", "ready", "stopped"}
    /\ live \in BOOLEAN /\ established \in BOOLEAN
    /\ end \in {"none", "timeout", "terminal", "failed"}
    /\ lock \in {"none", "pump", "shard"}
    /\ shard \in {"off", "running", "marking", "terminal", "failed"}
    /\ queue \in Seq({"Connecting", "Ready", "Resumed", "Disconnected"})
    /\ socket \in {"off", "down", "open", "live"}

CountTypes ==
    /\ left \in Nat
    /\ opened \in 0..MaxSessions /\ losses \in 0..MaxLosses
    /\ slips \in 0..MaxSlips /\ outages \in 0..MaxOutages
    /\ heard \in 0..MaxSessions /\ kept \in 0..MaxSessions
    /\ retired \subseteq 1..MaxSessions /\ lost \in BOOLEAN

TypeOK == SessionTypes /\ ControlTypes /\ CountTypes

\* An attempt that is over is never reported ready, however late its READY is
\* recorded (supervisor.ts: a late buffered event "can never publish ready for
\* this dead attempt").
ReadyIsLive == state = "ready" => live /\ pc \in {"attempt", "gate", "unwind"}

\* A session that was given up, because Discord rejected the bot or never
\* answered its resume, is not tried again: no late writer brings it back.
RetiredStaysGone == store.id \notin retired

\* The last session heard of before the drain began is checkpointed before the
\* next attempt chooses between Resume and Identify, even if it was heard of
\* after the attempt had ended.
BufferedIsKept == pc = "settle" => kept = heard

\* Whatever is lost, times out or is interrupted, in the end the supervisor is
\* ready again or a terminal close has stopped it.
GatewayComesBack == []<>(state \in {"ready", "stopped"})

\* A transient interruption clears readiness until a reconnect or a resume
\* succeeds (documented; see the finding).
ReadinessIsHonest == state = "ready" => ~lost
=============================================================================
