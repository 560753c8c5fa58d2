# A TLA+ verification project for livestore-contrib

This directory models the parts of the repository that carry state and
concurrency of their own, checks them with TLC and proves theorems about them
with TLAPS. Paths are relative to the repository root.

The repository holds two families of code:

- **`apps/discord-bot`**: the LiveStore Discord bot. It creates threads for
  messages, answers documentation questions, and runs either as a Cloudflare
  Durable Object (`cf/`) that owns one Gateway session, or as a Node process
  (`src/`). It has a durable journal, crash recovery, alarms, leases and locks:
  most of the logic a model checker is good for.
- **`packages/@livestore/*`**: adapters, sync providers, framework bindings and a
  CLI around LiveStore, whose own sync engine lives in another repository.

## 1. Inventory

| Component | State it keeps | Operations | Talks to |
| --- | --- | --- | --- |
| Thread-action journal (`cf/src/journal.ts`, `src/journal/sqlite.ts`) | one row per source message: state, claim token, deadline, times | claim, markCreating, markCreated, markFailed, markUnknown, markManualReview, listRecoverable, cleanupTerminal | the two workflows |
| Thread creation (`src/threading/workflow.ts`) | in-flight map of one runtime | execute | journal, Discord REST |
| Reconciliation (`src/reconciliation/workflow-core.ts`) | none between runs | run (plan, apply; stale-only or close-interrupted) | journal, Discord REST |
| Gateway owner (`cf/src/bot-state.ts`, `loop-gate.ts`, `runtime-install.ts`) | installed runtime, supervisor gate and fiber, owner deadline, `awaitingAlarmBuild`, `startupMaintenanceDone`, alarm | alarm, cron, RPCs, reset, reload | all of the Cloudflare parts |
| Staging lease (`cf/src/gateway-lease.ts`) | durable lease, mutex, running operations | activate, park, whileActive, withActiveOperation | Gateway owner |
| Runtime configuration (`cf/src/runtime-config.ts`, `admin-ops.ts`) | versioned document | configPut, dry run, activateCandidate | Gateway owner |
| Gateway supervisor (`cf/src/supervisor.ts`, `gateway-shard.ts`) | session, sequence, readiness, backoff | connect, resume, checkpoint, stop | Discord Gateway, telemetry |
| Node runtime (`src/runtime/app.ts`) | health, scopes | start, recover, serve, maintain, stop | both workflows |
| Docs assistant (`src/docs/*`, `cf/src/docs-state.ts`, `docs-services.ts`) | in memory: running questions and sliding windows, per member and for all; on disk: monthly reservations, provenance | reserve, acquire, answer, complete, settle, record | dispatch pump, model provider, corpus |
| Rendering of answers (`src/docs/render.ts`, `src/runtime/handlers.ts`) | the message being filled, the open fence | divide, deliver | docs assistant, Discord REST |
| Gateway telemetry (`cf/src/gateway-telemetry*.ts`) | attempts, counters | reduce an event, prune | supervisor |
| Command sync (`cf/src/command-sync.ts`) | none | plan, apply, verify | Discord REST, lease |
| sync-s2 (`packages/@livestore/sync-s2`) | of a pull: where its pass began, its last item; of a push: its chunks and the retries left | push, one-shot pull, live pull, ping | LiveStore's engine, S2 |
| sync-electric (`packages/@livestore/sync-electric`) | of a pull: offset, handle, whether it has emitted | push, pull, ping | LiveStore's engine, Electric, Postgres |
| adapter-node | leader worker, lock, devtools | boot, shutdown | LiveStore leader |

Everything else (routing, decoding, CLI, framework bindings, build and release
files, examples, scripts) keeps no state of its own or is I/O around the parts
above; `PROJECT.json` lists it with the reason it is left out.

### How they interact, and what is hard

- **Journal, workflow, Discord.** A request is sent once the row says `creating`,
  and nothing that happens to the process afterwards tells whether Discord acted.
  The answer may be lost, late, or recorded by someone else: a reconciliation run
  works on a *snapshot* of rows that live claimants go on writing. Every write
  therefore names a claim token and the states it may leave.
- **Recovery against live traffic.** Rows of an earlier process are settled at
  startup, on Node before handlers exist, on the Durable Object beside them.
- **Alarm, reload, RPC, cron.** All of them reach one installed runtime and one
  supervisor fiber through awaits, a lifecycle mutex and flags read before the
  mutex is had. An alarm may be lost, late or given up by the platform.
- **Lease.** In staging all of that happens under a lease which may expire at any
  moment and which an owner may park, or replace, while an operation runs.
- **Budgets.** A question is paid for in two places, the month's ledger and the windows in
  memory, and may fail, be refused or be interrupted between any two of its steps. On
  Cloudflare the ledger is read and written back in two halves, with nothing to keep
  two questions apart but the pump that handles one event at a time.
- **Sync.** A push is cut into chunks, its requests are repeated, and the ones given up
  may still be processed; a pull is repeated, cut off and resumed from a cursor that
  was stored with the events of an earlier item.
- **Crashes.** Durable: journal, alarm, lease, configuration, session, ledger. Everything
  else is lost at every instant, between any two writes.

What makes each component correct: the journal and its workflows create at most
one thread per message and never claim one that is not there; uncertainty ends;
there is at most one live supervisor, it is reachable by resets, watched by an
alarm, of the configuration last activated and under the lease it began with; the
Gateway comes back; readiness is reported only by a live attempt, and a session
given up stays given up; what the provider may bill for the questions of a month stays below
its ceiling, and nothing stays reserved for a question that is over; the messages of an answer
are whole, complete and in order; a client of a sync provider always holds an exact prefix
of the log, which keeps the order of its writers, and in the end it holds all of it.

## 2. What is modelled

### `ThreadActions`

Composes the journal, the creation workflow, the reconciliation workflow, the
retention cleanup, and what the two hosts do around them (`host`, one of `Hosts`).

| State | Code |
| --- | --- |
| `journal` | the `thread_actions` table; `token` is `claim_token`, `reconcileBy` and `updatedAt` its columns |
| `worker` | the fiber of a request: program counter in `makeThreadCreationWorkflow`; its in-flight map is the set of pipelines past the claim (`Leaders`), per generation |
| `run` | a reconciliation run: its captured time, its snapshot and the record under observation; `Alarm` is the host's maintenance, the others are operator runs |
| `gen`, `serving`, `stopped`, `startupDone` | installed runtime, terminal close, `startupMaintenanceDone` |
| `attempt`, `issued`, `recovered`, `promised` | history for the properties |
| `discord` | external: which messages have a thread |

| Actions | Code |
| --- | --- |
| `Arrive`, `ArriveSatisfied`, `Join`, `Acquire`, `ClaimRefused` | `execute` up to the claim |
| `MarkCreating`, `Submit`, `Answered`, `RecordCreated`, `RecordFailed`, `RecordUnknown` | `createAcquired` |
| `StartMaintenance`, `StartOperatorRun`, `Skip`, `ClosePending`, `Observe`, `Settle`, `AbortRun`, `Finish...` | `makeReconciliationWorkflow`, `runJournalMaintenance`, `startupJournalRecovery` |
| `AlarmTick`, `GatewayStops`, `InterruptGateway`, `Reload`, `RestartOverdue`, `Crash` | `bot-state.ts`, `app.ts` |

Abstractions. A claim token (a UUID) is the ordinal of the claim. Reading the
clock and the snapshot of a run is one step, and so is hearing an answer and
recording it. A lost request stays in flight for ever, which includes every later
moment at which it might be served. Entering the in-flight map and starting the
claim is one step (nothing is awaited between them). Plan-mode runs change
nothing and are left out. A single observation suffices for a settlement past
the deadline, since both hosts construct the workflow with
`minimumObservations` at `MAX_SAFE_INTEGER`. Threads are not deleted on Discord.
Node interrupts its handlers only by exiting. The order of a batch, by
`reconcile_by` in the model, is by claim time in the code, which is the same as
the window is constant.

`ThreadPermits` is the abstract specification of all this: a request needs a permit, a
message is given another one only when the previous is concluded and a retention period old, a
permit is concluded once and spent once, and nobody is told of a thread that does not exist. It knows neither
journal nor processes. `ThreadActions` implements it (`PermitsAreKept`) with a permit for each
claim: `given` is `issued`, `permit` is `attempt`, and the permit of a message that is `open` is
the token of its row while that is pending, creating or unknown (`OpenClaim`).

### `GatewayOwner`

The Durable Object's alarm handler and everything that competes with it: the
runtime's build and reset under the lifecycle mutex, the supervisor's gate and
deadline, RPCs that need a runtime, `configPut` with reload, the cron trigger and
the staging lease.

| State | Code |
| --- | --- |
| `alarm` | Durable Object alarm; `dead` is one the platform gave up and `getAlarm` still returns |
| `lease`, `holder`, `phase`, `wanted`, `operation` | `GatewayLease`: stored lease, its mutex and what is done under it, `commandsSync` |
| `current`, `status`, `mutex`, `building` | `SerializedRuntime`: installed runtime, lifecycle mutex, a build under way |
| `published`, `alive`, `gate`, `watch`, `awaiting` | `supervisorFiber`, live fibers, `LoopGate`, `OwnerDeadline`, `awaitingAlarmBuild` |
| `tick` | one alarm invocation: its program counter and the runtime it captured |
| `rpc`, `reload`, `stored` | an `ensureRuntime` under way, `configPut` from its write on, the stored configuration |
| `revision`, `started`, `activated` | history for the properties |

`Tick...` actions are the steps of `runLoopTick` between awaits, `ResetBegin` and
`ResetEnd` the two halves of a reset, `Enter` to `Parked` those of
`whileActive`/`park`, with each storage write a step of its own. Whether the deployment
is staging or production (`stage`, one of `Stages`) is chosen initially. The module has no
clock: a deadline or a lease may have run out whenever it is looked at after it was
set. Ids of runtimes are recycled once nothing refers to them, so `MaxRuntimes`
bounds how many exist at a time, not how many are ever built. The journal
maintenance within a tick is `ThreadActions`'. The platform (alarm delivery,
eviction) and the session's fate are external.

### `GatewaySupervisor`

One run of the supervisor that `GatewayOwner` sees only from outside: its attempts, one after
the other, with the fibers of an attempt interleaving at awaits.

| State | Code |
| --- | --- |
| `store` | the durable session: `loadSession`, `saveSession`, `clearSession`, the write back of `acquire`, and the `ShardStateStore` of DFX, all on one key |
| `pc`, `mode`, `end`, `left` | where `run` and `attemptOnce` are, `ConnectMode`, how the attempt ended, what the drain has still to take |
| `state`, `live`, `established`, `lock` | `stateRef`, the gate, the `established` deferred, `readinessLock` |
| `latest`, `inbox`, `pump` | the last checkpoint, the queue of READY and RESUMED, the checkpoint in `recordEstablished` (of the pump or of the drain, never both) |
| `shard`, `queue` | the session fiber of `makeShardAcquire`, the lifecycle events it has not consumed |
| `socket`, `resume`, `opened` | external: DFX's connection and `resumeState`, the sessions Discord opened |
| `heard`, `kept`, `retired`, `lost` | history for the properties |

| Actions | Code |
| --- | --- |
| `Start`, `Load`, `Sync`, `TimeOut`, `SessionEnds`, `CloseGate`, `StartDrain`, `CloseScope`, `Settle`, `Retry` | `run`, `attemptOnce`, the first half of `makeShardAcquire` |
| `Take`, `EnterGate`, `PublishReady`, `Save` | the pump and the drain: `recordEstablished` and `markReady` between awaits |
| `EmitEstablished`, `IgnoreConnecting`, `EmitDisconnected`, `DisconnectRecorded`, `ShardFails`, `TerminalClose` | `consumeLifecycle`, `emit`, `markDisconnected`, `terminalFailure` |
| `Open`, `Identified`, `Resumed`, `Rejected`, `Dispatch`, `Drop` | DFX and Discord, as far as the patch and the supervisor show them |
| `Reset`, `Overdue`, `Unwound`, `Crash` | what the owner does: interrupt and wait, and a lost object |

Abstractions. A session is the ordinal of its opening and a sequence number; 0 is none, and an
empty session id is none as for `loadSession`. There is no clock: the handshake
deadline may pass at any time before READY or RESUMED was recorded, delays and the
grace period, which only choose them, are left out, and so are telemetry (its appends are the awaits
inside the lock), the `transitions` queue, and `start` and `stop`, which the Durable Object
does not call. DFX writes a session down before it publishes anything about it.
An attempt that fails in any retryable way ends `failed`. A runtime is dropped with
its supervisor, and what is reported without one is `disconnected`.

### `SyncClient`, `SyncS2`, `SyncElectric`, `SyncProviders`

`SyncClient` declares the state that both providers share and the LiveStore engine around
them, which is not in this repository and is modelled from how the providers use it:
it pulls from the cursor it has stored, stores the events of an item together with
their cursor before it takes the next item, and pushes its events in order from the first
one not acknowledged. `SyncS2` and `SyncElectric` add one provider each, `SyncProviders`
composes them: a store has one of the two backends (`provider`).

| State | Code |
| --- | --- |
| `log`, `shape` | external: the S2 stream or the Postgres table, and the shape that Electric serves it with |
| `push` | `push` of either provider: the events of the request under way, the end of the batch, the retries left |
| `late` | external: requests that were given up and may still be processed |
| `pull` | `runPullSse`/`ssePull` (where the pass began, what was read, the last event of the last item, whether it tails) or the state of `Stream.unfold` (offset, handle, `hasEmittedAtLeastOnce`) |
| `inbox`, `got`, `cursor`, `acked` | external: the engine's item in hand, its stored events, their cursor, and what it knows to be pushed |

| Actions | Code |
| --- | --- |
| `S2Push`, `S2NextChunk`, `S2Acked`, `S2PushFails` | `push`: the limits, `chunkEventsForS2`, one request per chunk, the retry |
| `S2Batch`, `S2ReadEnds`, `S2TailEnds`, `S2ReadFails` | `runPullSse`, the loop of `ssePull`, `computeNextCursor`, the retry of a pass |
| `ElectricPush`, `ElectricAcked`, `ElectricPushFails` | `push`: one request, taken or refused as a whole |
| `ElectricPage`, `ElectricUpToDate`, `ElectricNoTable`, `ElectricShapeGone`, `ElectricReadFails` | the answers `runPull` tells apart and what the pull makes of each |
| `S2Append`, `S2LateAppend`, `S2Command`, `ElectricInsert`, `ElectricLateInsert`, `ElectricRotates`, `Store`, `StartPull`, `Crash` | external |

`EventDelivery` is the abstract specification: records that only become more, and clients that
store ever longer prefixes of them. `SyncProviders` implements it (`KeepsThePromise`): the clients
are the pullers, `records` is `log`, `stored` is `got`, and all the rest is hidden.

Abstractions. Pulling and pushing share nothing in a provider, so a client that does
both is one puller and one pusher. The log counts from 1 where S2 counts from 0.
The body of a record and its encoding are left out, and so are ping, `isConnected`
(which nothing reads) and the page info. A request that fails without an answer may be
processed at any later time or never. A failed decoding of a frame is a
fault like any other. Two answers are taken for what they mean: the push to S2 decodes
`success` and never tests it (`sync-provider.ts:302-303`), so that `AckedIsInLog` rests on a proxy that answers
200 only when S2 has appended; and Electric's pull reads every 400 as a missing table (`index.ts:238-241`), which the model has
only while there is none. `push` of an event above S2's limit never begins (the check throws).

### `DocsBudget`, `DocsAssistant`

`DocsBudget` holds the two budgets as values: admission with its sliding windows
(`assessAdmission`, `prune`, `complete`) and the ledger (`spentInMonth`, `reserveMonthly`,
`settleMonthly`). The arrays of the code are sets of entries with an id, since nothing depends on their
order, and a sum over them is a `Total` of `Totals`: the number of tickets of which each
entry holds as many as it counts for, so that what is known of cardinalities applies to
sums. `DocsAssistant` is the life of questions on either host.

| State | Code |
| --- | --- |
| `q` | a question: where it is in `DocsWorkflow.query`, its worst case, and on Cloudflare the state its operation of the store has loaded |
| `admission`, `total` | `principals` and `globalState` of `makeDocsAdmission` / `makeCryptoDocsAdmission` |
| `ledger` | `monthly` of the docs state |
| `bills`, `log`, `cut` | history: the most that each question may be billed, what was admitted, which questions were cut short |

| Actions | Code |
| --- | --- |
| `Ask`, `Handle`, `Interrupt` | Gateway dispatch: a fiber per event on Node, the pump of the session on Cloudflare |
| `CorpusReady`, `CorpusUnavailable`, `Reserve`, `ReserveDenied`, `Acquire`, `AcquireDenied`, `Cancel`, `Answer`, `ProviderFails`, `Charge`, `Record` | the steps of `query`; `Finish` is its `ensuring` |
| `Load`, `StoreFails` | the halves of an operation of `makeKeyValueDocsStateStore`; on Node `serialized` makes it one step |

Abstractions. The provider may bill what it was sent from the moment of the request, in
full until it says what it used, and never more than the request permits. What a request permits
(`RequestedOutput`, the constant 2000 of `openai.ts:18`) and what is reserved and admitted for it (`ReservedOutput`, the
configured `outputTokensPerRequest`) are two constants. The choice of sources is the choice of an
input size, which may exceed what a request is allowed. The month of a reservation is
that of the clock when it is asked for, as in the code. A correlated principal is the member. Not modelled: the corpus
cache and its refresh, telemetry, the pruning of the ledger after 366 days (a reservation of
this month is never that old) and a stored state that does not decode, which
Cloudflare takes for an empty one.

### `DocsRender`

`renderDocsMessages` line by line, then `deliverDocsMessages`. A line is its length and whether
it begins with three backticks; a message is its length, its lines and whether its fences
are odd. The text itself is left out. `Deliver` and `DeliveryFails` send what is rendered in
order; the properties are about the messages.

### Modules for TLC

`MCThreadActions`, `MCGatewayOwner`, `MCSyncProviders`, `MCDocsAssistant` and `MCDocsRender`
declare model values and the values of constants that a cfg cannot write; slots and
members of the docs instance are symmetric.

## 3. What is checked

| Run | Instance | Question |
| --- | --- | --- |
| `threads` | either host, 1 message, Gateway and admin request, maintenance, 2 generations, clock 0..2; on the Durable Object 2 claims, on Node an operator's runs | does the journal mean what recovery takes it to mean, with reloads, stalls, interruptions and crashes anywhere; are two submitted requests a retention period apart; does routine maintenance leave live claims alone; is `ThreadPermits` implemented; on Node, is startup recovery strictly before handlers and never against a live claim |
| `threads_liveness` | fair | does every uncertain action become terminal while the alarm chain lives |
| `owner` | 1 invocation, 1 crash; production: 2 configurations stored, 1 failure; staging: 1 configuration, 2 owners, 2 leases; fair | one supervisor, the reload's configuration installed, no session or command sync outliving its lease, expiry stops the owner, a live owner is watched, and does the Gateway always come back |
| `supervisor` | one lost connection, one late identify, one crash or reset, one dispatch per session, fair | does a dead attempt ever report ready, does a session given up return, is what was buffered checkpointed in time, and does the Gateway come back |
| `sync` | either backend, 1 pusher of 3 events, 1 puller, 4 records, pages of 2, 2 faults, 2 shapes, fair | the log, the cursors, the chunks, the refinement, and does every event reach the client |
| `docs` | either host, 3 questions, 2 at a time, 2 members, 2 months, 1 fault | the ceiling, the windows and what is left of a question that is over |
| `render` | every text of up to 5 lines of 7 kinds, messages of 10 characters | are messages whole, complete and in order (its types are proved only) |
| `finding_...` | as small as shows it | the five disagreements below |

Bounds. One message is enough for the per-message properties: rows of different
messages share only a reconciliation batch (`Limit`), where `finding_batch_limit` has two; the theorems
hold for any number. The constraint `Sizes` of `MCThreadActions` leaves out operator runs on the Durable Object and, on Node, a
second claim and operator runs beside an administrative request, which together do not finish in five minutes; the
theorems leave nothing out. `Window` and `Retention` are 1 and
`MaxTime` lets a claim live through its deadline and its retention; two claims let
a row be deleted and claimed again, two generations put a reload or a crash
between any two steps. In `owner` a runtime is named by one of two
ids, for the one installed and the one retired or being built. The platform runs the alarm invocations of an object one
at a time; that a late one overlaps its successor is covered by the theorems, which hold for any number of them, and
not by a run. For `OwnerIsWatched` that takes the mutex of the staging lease: in production, of two
overlapping invocations one that captured a stopped runtime may delete the alarm the other set, which TLC shows on two.
That an invocation deletes the alarm a reload has set is not against `OwnerIsWatched`, since no owner lives yet; that cron
repairs it is `OwnerReturns`.
In `supervisor` a session opened beyond the eighth would need a loss, a slip or an outage more
than the bounds allow, so `MaxSessions` cuts nothing off; one sequence step is enough for
a checkpoint to be older or newer than another. Resumes that are rejected or never answered
need no bound of their own: each uses up a session. A second loss does not finish in five minutes; the safety
properties are proved for all bounds (section 4).
In `sync` three events of weights that meet the limits make chunks of one and of two; four records leave one
for a repeated event or a command record; two faults are a lost answer and a lost retry, or a crash and a failed
pass. Several pushers and pullers are covered by the theorems. In `docs` a question reserves 2 of the
4 a month may cost, so a third fits only after one has settled; a request permits what is reserved for it, as in every
configuration of the repository (other behaviours, below); two months and windows of one and two
ticks let an admission and a settlement lie on either side of a boundary. Lines of `render` are shorter than,
equal to and longer than a message, with room for a closing line or without.

Fairness. Threads: time passes, the alarm chain ticks (Cloudflare retries alarms and
cron repairs them, Node loops for ever), and a journal and a Discord that are
available again and again let the steps of a run through (strong fairness); a run
may be aborted any finite or infinite number of times in between. Owner: weak
fairness only, of alarm delivery, of cron and of the instance's own steps; nothing
is assumed of the session, of reloads, RPCs or owners of leases. Failed
invocations and crashes are finitely many (`MaxFailures`, `MaxCrashes`): if they never
end, nothing comes back. Supervisor: weak fairness of the runner, the pump and the session fiber, of the two
deadlines (handshake and owner), of DFX connecting and of Discord answering an identify;
nothing is assumed of a resume, which may never be answered. Sync: a provider whose request
is answered goes on, and the engine stores what it is handed and pulls again (`PullerFairness`, weak fairness of each); nothing is
assumed of pushes, and faults are finitely many. `GatewayComesBack` is about the state
that is *reported*, which is not always the truth: see `finding_stale_readiness`. Deadlock is
not checked where a terminal close has stopped the supervisor for good. It is not checked for the thread runs, whose bounded clock
and claims stop the model, nor for `sync`, `docs` and `render`, whose bounded log, questions and text come to an end,
and is checked for `owner`.

### Disagreements found between code and documents

- `finding_recovery_order`: on the Durable Object handlers and admin RPCs are live
  before startup recovery has begun; the specification says the object
  reconciles the journal before accepting new actions. What holds of Node is
  `NodeRecoversBeforeMutation` and `ClosedClaimWasDead`, which are checked and proved.
- `finding_batch_limit`: the startup recovery of Node takes one batch of 100 rows and only warns when it is cut, while
  `app.ts:160` says every pending claim of an earlier process is closed before a handler exists. The run cuts at one row of
  two. The rest is settled after its deadline; no live claim is closed.
- `finding_message_size`: a fence that opens in a message leaves no room for the line that closes it, and such a message
  is longer than `maximumMessageCharacters` (10 in the run, and the message 12); a unit test and the specification have every
  message within it. By how much at most is proved (`MessagesAreBounded`).
- `finding_stale_readiness`: a connection that DFX closes itself to connect again, as Discord asks for
  routinely, is reported to the supervisor only as `Connecting`, which it ignores; it stays `ready`
  while there is no session, and as long as it does the owner's deadline is off.
- `finding_s2_replay`: a live S2 pull whose tail fails reads its pass again from where that
  began, and hands events out a second time; the requirements say a dropped tail resumes without replays.
  Clients that keep what they have stored still hold an exact prefix.

Other behaviours that a reader of the documents would not expect, known from the code and stated by no
run: after a terminal close on the Durable Object no alarm runs
maintenance, and uncertain actions stay uncertain (`UncertainIsSettled` exempts it); an RPC that
checked `awaitingAlarmBuild` before a reload's reset builds the replacement runtime, which alarms alone are
said to do; a 409 of Electric ends the pull for good.

One of them bears on what is proved. Each request permits 2000 output tokens (`openai.ts:18`, `:204`), while
the reservation and the admission count `outputTokensPerRequest` (`docs-services.ts:90`, `:311`, `:437-440`), which the deployment contract lets be
any positive number. With less than 2000 an answer is charged (`docs-state.ts:109`) and sampled (`docs-services.ts:338`) above what was
reserved, and the month's ceiling and the token windows, which the docs assistant's specification has enforced before the provider
call, can both be exceeded: with `ReservedOutput = 1` and `RequestedOutput = 2` in `docs.cfg` TLC violates `SpendIsBounded`, and
`LimitsHold` when checked without it. The configurations in the repository all say 2000, so the run has the two equal, and the theorems on both carry
the hypothesis `ReservesEnough`.

None of them breaks the core promises: `PendingMeansUnsent`, `CreatesAreARetentionApart` and
`ConfirmedIsReal` hold on both hosts (the theorems
leave `Hosts` open).

## 4. What is proved

`ThreadActionsProofs` proves, for all sets of messages, workers and operator runs and
all values of the other constants that satisfy `ConstantsAssumption`,

- `TypeCorrect`: `Spec => []TypeOK`;
- `PendingIsUnsent`: a pending row's request was never sent;
- `FailedIsRejected`: a failed row's request was refused;
- `ConfirmedThreadsAreReal`: a created row, and every answer naming a thread, is about a
  real thread.

None is inductive. The invariant `Inv` adds to the types

- `ClaimInv`: issued tokens bound the tokens in use, and no two live pipelines hold one
  token. Without it two requests might share a claim, and a stale write of one would
  pass for the other's;
- `RequestInv`: before submission no request is out, and from `creating` on the row
  with that token is not pending. This is what the order of `markCreating` and the REST call is for;
- `ThreadInv`: whatever was accepted, confirmed, told or observed is on Discord, also in the hands of
  a run that has looked and not yet written.

The argument goes action by action. Most steps leave the claims they do not name
alone (`Quiet` and its lemmas); `AcquireStep`, `MarkCreatingStep`, `SubmitStep` and
`AnswerStep` treat those that do not.

`ThreadHistoryProofs` goes on to theorems about what a step may do and about the past, which hold on both hosts,

- `CreatesAreApart`: two requests submitted for one message are a retention period apart;
- `TerminalRowsAreFinal`: an outcome is never overwritten;
- `RoutineMaintenanceIsPatient`: a routine run settles no claim before its deadline.

Their invariant, `HistoryInv`, adds to `Inv`

- `RowsDated`: no row was updated before its claim, and every token in use was issued for the
  message that uses it. A row therefore leaves by age only a retention period after its claim;
- `RunsDated`: each row of a run's snapshot is one the journal held (`Seen`): the live row is that
  one, or it has since advanced, or it is gone, or a later claim replaced it. This is what makes it sound to write from a stale snapshot.

Every action is shown to treat each row in one of four ways (`Chronicle`): it stays, it
advances within its claim, it leaves expired, or it appears afresh with a new token.

It also proves, of the startup of Node and of the promise of the whole,

- `NodeRecoversFirst`, `NodeClosesDeadClaims`: on Node nothing is claimed before startup recovery is
  done, and every claim it closes is of a dead process;
- `NodeClosesPendingFirst`: it leaves no pending claim, as long as the open rows fit into a batch
  (`OpenRowsFit`, a hypothesis on the behaviour; `finding_batch_limit` shows it is needed);
- `ThreadsKeepTheirPermits`: `Spec => PermitsAreKept`, the refinement of `ThreadPermits`.

Those named after Node are about behaviours of that host. They rest on `NodeInv` (a process serves exactly when its startup recovery
is complete; until then workers and operators are idle) and on `PendingTaken` (what recovery has still to close is in
its snapshot). The refinement rests on `HistoryInv`: a claim is acquired only when no row is left, hence
when no permit is open, and `RowsDated` then says that each earlier one is a retention period old. A worker
submits only under the claim it was given and only once (`RequestInv`), and only an open row is concluded.

`GatewaySupervisorProofs` proves, for all bounds on sessions, dispatches, losses, slips and outages,

- `TypeCorrect`: `Spec => []TypeOK`;
- `DeadIsNeverReady`: a dead attempt is never reported ready;
- `GivenUpStaysGone`: a session given up never comes back to the store;
- `BufferIsKept`: what was heard of before the drain is checkpointed before the next attempt.

The invariant `IInv` says what exists between attempts (`AttemptShape`: no session fiber, and neither
a buffered nor a half-recorded checkpoint unless the run is being interrupted), who holds `readinessLock`
and that it is had for publishing only while the gate is open (`GateShape`; without it the gate could
close between the test and the publication), that no writer still holds a session that was given up
(`WritersShape`), and which checkpoint is the last of those buffered (`BufferShape`: the last in the inbox, or
else the one being or last recorded). Each part is shown to survive every action.

`GatewayOwnerProofs` proves, for all sets of alarm invocations and owners and all bounds,

- `OwnerTypeCorrect`: `Spec => []TypeOK`;
- `OwnerIsAlone`: at most one supervisor lives, the published one of the installed runtime;
- `ReloadsTakeEffect`: no runtime of a configuration that a finished reload replaced is installed;
- `OwnersKeepTheirLease`, `OperationsKeepTheirLease`: in staging the supervisor and the command
  sync live under the lease they began with;
- `OwnersAreWatched`: while a supervisor lives there is an alarm that will look at it, or somebody who is
  going to set one. It assumes `OneAlarmAtATime`: in staging, any number of invocations; where production is among the `Stages`
  one at a time, which is how Cloudflare runs the alarms of an object.

The invariant `IInv` adds who may hold the lifecycle mutex and the lease mutex and what they are doing then
(`MutexIsHeld`, `LockIsHeld`), that a build under way which read an older configuration than the one
activated is still to be retired by the reload (`BuildsAreFresh`), and what a park has stopped by the time it deletes the lease
(`ParkIsQuiet`, `OperationsAreStopped`). Without `MutexIsHeld` a reset could end while a build installs its runtime;
without `ParkIsQuiet` the lease could be deleted under a live supervisor. There is one lemma per part, with a step per action.
`OwnersAreWatched` needs `WInv` besides: a stopped runtime has no live supervisor (`StoppedIsDead`),
an invocation that is about to end or to continue the alarm chain looks at the runtime of the owner that
lives (`LooksAtOwner`), in staging it holds the lease mutex (`TicksTakeTurns`), and an RPC builds only when no runtime is installed (`RpcBuilds`).
`IsWatched` is the property without the holders of the lease mutex other than a park, which may
leave without having set an alarm.

`SyncProvidersProofs` proves, for all sets of pushers and pullers, all weights, limits and bounds,

- `TypeCorrect`: `Spec => []TypeOK`;
- `PushesAreKept`: an acknowledged event is in the log;
- `OrderIsKept`: an event first enters the log behind every earlier one of its writer;
- `CursorsAreExact`: a client holds the events up to its cursor and no others;
- `AppendsAreBounded`: no request to S2 exceeds its limits of records and of bytes;
- `PullsReachTheEnd`: a one-shot pull that ends by itself has handed out every event of the log;
- `ProvidersKeepThePromise`: `Spec => KeepsThePromise`, the refinement of `EventDelivery`.

The invariant says of a push that everything before its request is in the log, also of a request given up
(`Before`; so that whenever it is processed, it keeps the order), and of a pull that every place it may go on
from (where its pass began, where it has read to, its last event, the end of the item in hand) is `Covered`: every event up
to there is stored or in that item. This is why repeating a pass, although it replays events,
loses none.

`DocsRenderProofs` proves, for all lines and limits, `RenderTypeCorrect`, `MessagesCloseTheirFences`,
`MessagesKeepTheText` and `MessagesAreBounded` (a message exceeds the configured size by at most the four
characters that close its fence). Its invariant relates the message being filled to the
fence: it fits (until it is closed), its fences are odd exactly while one is open, and its lines are ones that were taken and no longer than it is.

`DocsAssistantProofs` proves, for all slots, members, limits, windows and prices that satisfy
`BudgetAssumption` and `AssistantAssumption`,

- `TypesAreKept`: `Spec => []TypeOK`;
- `MonthlySpendIsBounded`: if a reservation covers what a request permits (`ReservesEnough`), what the provider may
  bill for a month never exceeds its ceiling;
- `NothingStaysHeld`: the counters of running questions and reserved tokens are those of the questions
  at the provider, and a reservation is open only for a question that runs or was cut short;
- `AdmissionLimitsHold`: under the same hypothesis, in every window the questions admitted, and at any time the tokens in use, keep to the
  limits of each member and of all.

Its invariant has a part for each place a question is paid for. `QuestionsOK`: ids are never used twice. `CopiesAreFresh`: on
Cloudflare only one question at a time is beyond the dispatch stream, so that the copy of the ledger it loaded is the
ledger until it is written back; without it two questions could each reserve the last of the month. `LedgerOK`,
`BillsAreCovered`: what a month has spent is below the ceiling, and each bill has an entry
that is no smaller. `StagesOK`, `OpenOK`, `LogOK`: what ledger, bills and log hold of a question, by where it
is. `AdmissionOK`: the counters of a member and of all are those of the requests at the provider, and
what is remembered covers what was admitted within the windows. `TotalsProofs` has the laws of sums it takes
(splitting, one element more, a subset, pointwise bounds), each from the library's theorems on
cardinality; a fold would take an induction that no installed prover can do.

Only model-checked is liveness (`UncertainIsSettled`, `OwnerReturns`, `ExpiryStopsOwner`, `GatewayComesBack`,
`EventsReachEveryClient`), which is beyond the prover. Every other property of a passing run is the
statement of a theorem, with the hypotheses named above.

## 5. Not modelled

Besides the parts of each module's abstractions:

- the Gateway telemetry reducer, the plan, apply and verify of the command sync, and the revision check
  of `RuntimeConfig`: sequential code with durable state that a later module could take up;
- adapter-node and adapter-expo: they compose LiveStore's leader thread, which lives in another repository;
  only their start and shutdown order is theirs;
- the ping loops of the sync providers: a ping that fails otherwise than by its timeout ends the loop, and
  `isConnected` then stays as it was; nothing in this repository reads it;
- routing, decoding, HTTP planes, CLI, framework bindings, scripts, build and release files, examples and tests: no state of
  their own, or I/O around the parts above (`PROJECT.json` lists each with its reason).

## 6. Plan

1. `GatewaySupervisor`: a clock, for the backoff and the grace period against the owner's deadline of 35 s.
2. `GatewayTelemetry` (the reducer), `CommandSync` (plan, apply, verify), `RuntimeConfig` (the revision
   check and dry runs), adapter-node's shutdown.
