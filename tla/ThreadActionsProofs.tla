------------------------ MODULE ThreadActionsProofs ------------------------
(***************************************************************************)
(* Proofs about ThreadActions, for all sets of messages, workers and runs  *)
(* and all values of the other constants that satisfy ConstantsAssumption. *)
(***************************************************************************)
EXTENDS ThreadActions, TLAPS

USE ConstantsAssumption
-----------------------------------------------------------------------------
(* Type correctness                                                        *)

\* A worker or a run that is at work knows its message.
Busy ==
    /\ \A w \in Workers : worker[w].pc # "idle" => worker[w].msg \in Messages
    /\ \A r \in Runs : run[r].pc = "observed" => run[r].msg \in Messages

TypeInv == TypeOK /\ Busy

LEMMA NoRowType == NoRow \in Row
  BY DEF NoRow, Row, States

LEMMA NoRunType == NoRun \in RunState
  BY NoRowType DEF NoRun, RunState

LEMMA IdleType == Idle \in Handling
  BY DEF Idle, Handling

LEMMA TypeInit == Init => TypeInv
<1> SUFFICES ASSUME Init PROVE TypeInv
  OBVIOUS
<1>1. journal \in [Messages -> Row]
  BY NoRowType DEF Init
<1>2. attempt \in [Messages -> [Tokens -> Attempt]]
  BY DEF Init, NoAttempt, Attempt
<1>3. worker \in [Workers -> Handling]
  BY IdleType DEF Init
<1>4. run \in [Runs -> RunState]
  BY NoRunType DEF Init
<1>5. Busy
  BY DEF Init, Busy, Idle, NoRun
<1>6. issued \in [Messages -> 0..MaxClaims] /\ discord \in [Messages -> BOOLEAN]
  BY DEF Init
<1>7. host \in Hosts /\ clock \in 0..MaxTime /\ gen \in 1..MaxGen
  BY DEF Init
<1>8. /\ serving \in BOOLEAN /\ stopped \in BOOLEAN /\ startupDone \in BOOLEAN
      /\ recovered \in {"no", "started", "done"} /\ promised \subseteq Messages
  BY DEF Init
<1>9. QED
  BY <1>1, <1>2, <1>3, <1>4, <1>5, <1>6, <1>7, <1>8 DEF TypeInv, TypeOK

\* Ending the pipelines of a set of workers keeps the workers' type, and the
\* workers that go on are as they were.
LEMMA AfterType ==
  ASSUME TypeInv, NEW W \in SUBSET Workers
  PROVE  /\ After(W) \in [Workers -> Handling]
         /\ \A w \in Workers : After(W)[w].pc # "idle" => After(W)[w] = worker[w]
  BY IdleType DEF After, TypeInv, TypeOK, Idle

\* A transition keeps the journal's type.
LEMMA MovedType ==
  ASSUME TypeInv, NEW m \in Messages, NEW to \in States, NEW t \in 0..MaxTime
  PROVE  Moved(m, to, t) \in [Messages -> Row]
<1>1. journal \in [Messages -> Row] /\ journal[m] \in Row /\ t \in Nat
  BY DEF TypeInv, TypeOK
<1>2. [journal[m] EXCEPT !.state = to, !.updatedAt = t] \in Row
  BY <1>1 DEF Row
<1>3. QED
  BY <1>1, <1>2 DEF Moved

LEMMA ExitType ==
  ASSUME TypeInv, NEW w \in Workers, worker[w].pc # "idle",
         NEW told, Exit(w, told)
  PROVE  /\ worker' \in [Workers -> Handling]
         /\ promised' \subseteq Messages
         /\ \A v \in Workers : worker'[v].pc # "idle" => worker'[v].msg \in Messages
<1>1. worker[w].msg \in Messages
  BY DEF TypeInv, Busy
<1>2. {w} \in SUBSET Workers
  OBVIOUS
<1>3. QED
  BY <1>1, <1>2, AfterType DEF Exit, TypeInv, TypeOK, Busy

LEMMA PartTypes ==
  ASSUME TypeInv
  PROVE  /\ clock \in 0..MaxTime /\ gen \in 0..MaxGen
         /\ \A m \in Messages : journal[m] \in Row /\ issued[m] \in 0..MaxClaims
         /\ \A m \in Messages, n \in Tokens : attempt[m][n] \in Attempt
         /\ \A w \in Workers : worker[w] \in Handling
         /\ \A r \in Runs : run[r] \in RunState
  BY DEF TypeInv, TypeOK

\* What the steps of one worker have in common: they move that worker only.
LEMMA WorkerUpdateType ==
  ASSUME TypeInv, NEW w \in Workers, NEW h \in Handling,
         h.pc # "idle" => h.msg \in Messages,
         worker' = [worker EXCEPT ![w] = h]
  PROVE  /\ worker' \in [Workers -> Handling]
         /\ \A v \in Workers : worker'[v].pc # "idle" => worker'[v].msg \in Messages
  BY DEF TypeInv, TypeOK, Busy

LEMMA RunUpdateType ==
  ASSUME TypeInv, NEW r \in Runs, NEW x \in RunState,
         x.pc = "observed" => x.msg \in Messages,
         run' = [run EXCEPT ![r] = x]
  PROVE  /\ run' \in [Runs -> RunState]
         /\ \A q \in Runs : run'[q].pc = "observed" => run'[q].msg \in Messages
  BY DEF TypeInv, TypeOK, Busy

LEMMA AttemptUpdateType ==
  ASSUME TypeInv, NEW m \in Messages, NEW n \in Tokens, NEW a \in Attempt,
         attempt' = [attempt EXCEPT ![m][n] = a]
  PROVE  attempt' \in [Messages -> [Tokens -> Attempt]]
  BY DEF TypeInv, TypeOK

LEMMA RequestType ==
  ASSUME TypeInv, NEW w \in Workers, Request(w)
  PROVE  TypeInv'
<1>1. ASSUME NEW m \in Messages, ArriveSatisfied(w, m) PROVE TypeInv'
  BY <1>1 DEF ArriveSatisfied, TypeInv, TypeOK, Busy, hostVars
<1>2. ASSUME NEW m \in Messages, Arrive(w, m) PROVE TypeInv'
  <2>1. [worker[w] EXCEPT !.pc = "arrived", !.msg = m, !.gen = gen] \in Handling
    BY PartTypes DEF Handling
  <2>2. [worker[w] EXCEPT !.pc = "arrived", !.msg = m, !.gen = gen].msg = m
    BY DEF TypeInv, TypeOK, Handling
  <2>3. worker' = [worker EXCEPT ![w] =
                     [worker[w] EXCEPT !.pc = "arrived", !.msg = m, !.gen = gen]]
    BY <1>2 DEF Arrive
  <2>4. QED
    BY <1>2, <2>1, <2>2, <2>3, WorkerUpdateType
    DEF Arrive, TypeInv, TypeOK, Busy, hostVars
<1>3. ASSUME Join(w) PROVE TypeInv'
  <2>1. PICK l \in Workers : worker' =
            [worker EXCEPT ![w] = [worker[w] EXCEPT !.pc = "joined", !.leader = l]]
    BY <1>3 DEF Join, Leaders
  <2>2. [worker[w] EXCEPT !.pc = "joined", !.leader = l] \in Handling
    BY PartTypes DEF Handling
  <2>3. [worker[w] EXCEPT !.pc = "joined", !.leader = l].msg \in Messages
    BY <1>3 DEF Join, TypeInv, TypeOK, Busy, Handling
  <2>4. QED
    BY <1>3, <2>1, <2>2, <2>3, WorkerUpdateType
    DEF Join, TypeInv, TypeOK, Busy, hostVars
<1>4. ASSUME Acquire(w) PROVE TypeInv'
  <2> DEFINE m == worker[w].msg
             n == issued[m] + 1
             row == [state |-> "pending", token |-> n,
                     reconcileBy |-> clock + Window, updatedAt |-> clock]
             h == [worker[w] EXCEPT !.pc = "claimed", !.token = n]
             a == [attempt[m][n] EXCEPT !.claimedAt = clock]
  <2>1. m \in Messages
    BY <1>4 DEF Acquire, Claiming, TypeInv, Busy
  <2>2. n \in Tokens /\ n \in 0..MaxClaims /\ clock \in Nat
    BY <1>4, <2>1 DEF Acquire, TypeInv, TypeOK, Tokens
  <2>3. row \in Row
    BY <2>2 DEF Row, States, OpenStates
  <2>4. h \in Handling /\ h.msg \in Messages
    BY <2>1, <2>2, PartTypes DEF Handling
  <2>5. a \in Attempt
    <3>1. attempt[m][n] \in Attempt /\ clock \in 0..MaxTime
      BY <2>1, <2>2, PartTypes
    <3>2. QED
      BY <3>1 DEF Attempt
  <2>6. /\ worker' = [worker EXCEPT ![w] = h]
        /\ journal' = [journal EXCEPT ![m] = row]
        /\ attempt' = [attempt EXCEPT ![m][n] = a]
        /\ issued' = [issued EXCEPT ![m] = n]
        /\ UNCHANGED <<clock, discord, run, hostVars, recovered, promised>>
    BY <1>4 DEF Acquire
  <2> HIDE DEF h, row, a, n, m
  <2>7. /\ worker' \in [Workers -> Handling]
        /\ \A v \in Workers : worker'[v].pc # "idle" => worker'[v].msg \in Messages
    BY <2>4, <2>6, WorkerUpdateType
  <2>8. attempt' \in [Messages -> [Tokens -> Attempt]]
    BY <2>1, <2>2, <2>5, <2>6, AttemptUpdateType
  <2>9. journal' \in [Messages -> Row] /\ issued' \in [Messages -> 0..MaxClaims]
    BY <2>1, <2>2, <2>3, <2>6 DEF TypeInv, TypeOK
  <2>10. QED
    BY <2>6, <2>7, <2>8, <2>9 DEF TypeInv, TypeOK, Busy, hostVars
<1>5. ASSUME ClaimRefused(w) PROVE TypeInv'
  <2>1. PICK told \in BOOLEAN : Exit(w, told)
    BY <1>5 DEF ClaimRefused
  <2>2. QED
    BY <1>5, <2>1, ExitType
    DEF ClaimRefused, Claiming, TypeInv, TypeOK, Busy, hostVars
<1>6. ASSUME MarkCreating(w) PROVE TypeInv'
  <2>1. worker[w].msg \in Messages /\ clock \in 0..MaxTime
    BY <1>6 DEF MarkCreating, TypeInv, TypeOK, Busy
  <2>2. journal' \in [Messages -> Row]
    BY <1>6, <2>1, MovedType DEF MarkCreating, States, OpenStates
  <2>3. /\ [worker[w] EXCEPT !.pc = "creating"] \in Handling
        /\ [worker[w] EXCEPT !.pc = "creating"].msg \in Messages
    BY <2>1, PartTypes DEF Handling
  <2>4. worker' = [worker EXCEPT ![w] = [worker[w] EXCEPT !.pc = "creating"]]
    BY <1>6 DEF MarkCreating
  <2>5. QED
    BY <1>6, <2>2, <2>3, <2>4, WorkerUpdateType
    DEF MarkCreating, TypeInv, TypeOK, Busy, hostVars
<1>7. ASSUME MarkCreatingFails(w) PROVE TypeInv'
  BY <1>7, ExitType DEF MarkCreatingFails, TypeInv, TypeOK, Busy, hostVars
<1>8. ASSUME Submit(w) PROVE TypeInv'
  <2> DEFINE m == worker[w].msg
             n == worker[w].token
  <2>1. m \in Messages
    BY <1>8 DEF Submit, TypeInv, Busy
  <2>2. n \in 0..MaxClaims
    BY DEF TypeInv, TypeOK, Handling
  <2>3. /\ [worker[w] EXCEPT !.pc = "waiting"] \in Handling
        /\ [worker[w] EXCEPT !.pc = "waiting"].msg \in Messages
    BY <2>1, PartTypes DEF Handling
  <2>4. worker' = [worker EXCEPT ![w] = [worker[w] EXCEPT !.pc = "waiting"]]
    BY <1>8 DEF Submit
  <2>5. attempt' = [attempt EXCEPT ![m][n] = [attempt[m][n] EXCEPT !.request = "inflight"]]
    BY <1>8 DEF Submit
  <2>6. attempt' \in [Messages -> [Tokens -> Attempt]]
    <3>1. CASE n \in Tokens
      <4>1. [attempt[m][n] EXCEPT !.request = "inflight"] \in Attempt
        BY <2>1, <3>1, PartTypes DEF Attempt
      <4> HIDE DEF m, n
      <4>2. QED
        BY <2>1, <2>5, <3>1, <4>1, AttemptUpdateType
    <3>2. CASE n \notin Tokens
      BY <2>1, <2>5, <3>2 DEF TypeInv, TypeOK
    <3>3. QED
      BY <3>1, <3>2
  <2>7. QED
    BY <1>8, <2>3, <2>4, <2>6, WorkerUpdateType
    DEF Submit, TypeInv, TypeOK, Busy, hostVars
<1>9. ASSUME RecordCreated(w) \/ RecordFailed(w) \/ RecordUnknown(w) PROVE TypeInv'
  <2>1. /\ worker[w].pc # "idle"
        /\ UNCHANGED <<clock, issued, attempt, discord, run, hostVars, recovered>>
    BY <1>9 DEF RecordCreated, RecordFailed, RecordUnknown, Answered
  <2>2. PICK told \in BOOLEAN : Exit(w, told)
    BY <1>9 DEF RecordCreated, RecordFailed, RecordUnknown
  <2>3. worker[w].msg \in Messages /\ clock \in 0..MaxTime
    BY <2>1 DEF TypeInv, TypeOK, Busy
  <2>4. \/ UNCHANGED journal
        \/ \E to \in {"created", "failed", "unknown_external"} :
               journal' = Moved(worker[w].msg, to, clock)
    BY <1>9 DEF RecordCreated, RecordFailed, RecordUnknown
  <2>5. journal' \in [Messages -> Row]
    BY <2>3, <2>4, MovedType DEF TypeInv, TypeOK, States, OpenStates, TerminalStates
  <2>6. QED
    BY <2>1, <2>2, <2>5, ExitType DEF TypeInv, TypeOK, Busy, hostVars
<1>10. QED
  BY <1>1, <1>2, <1>3, <1>4, <1>5, <1>6, <1>7, <1>8, <1>9 DEF Request

LEMMA ExternalType ==
  ASSUME TypeInv, External
  PROVE  TypeInv'
<1>1. ASSUME NEW m \in Messages, NEW n \in Tokens, Accept(m, n) \/ Reject(m, n)
      PROVE  TypeInv'
  <2>1. PICK q \in {"accepted", "rejected"} :
            attempt' = [attempt EXCEPT ![m][n] = [attempt[m][n] EXCEPT !.request = q]]
    BY <1>1 DEF Accept, Reject
  <2>2. [attempt[m][n] EXCEPT !.request = q] \in Attempt
    BY PartTypes DEF Attempt
  <2>3. attempt' \in [Messages -> [Tokens -> Attempt]]
    BY <2>1, <2>2, AttemptUpdateType
  <2>4. discord' \in [Messages -> BOOLEAN]
    BY <1>1 DEF Accept, Reject, TypeInv, TypeOK
  <2>5. QED
    BY <1>1, <2>3, <2>4 DEF Accept, Reject, TypeInv, TypeOK, Busy, hostVars
<1>2. ASSUME NEW m \in Messages, UserStartsThread(m) PROVE TypeInv'
  BY <1>2 DEF UserStartsThread, TypeInv, TypeOK, Busy, hostVars
<1>3. QED
  BY <1>1, <1>2 DEF External

\* A selection, whatever its policy, gives the run a snapshot of open rows.
LEMMA SelectedType ==
  ASSUME TypeInv, NEW r \in Runs, NEW B \in SUBSET Messages,
         NEW policy \in {"close-interrupted", "stale-only", "operator"},
         Selected(r, policy, B)
  PROVE  /\ run' \in [Runs -> RunState]
         /\ \A q \in Runs : run'[q].pc = "observed" => run'[q].msg \in Messages
         /\ \A q \in Runs : run'[q].pc = "observed" => run'[q] = run[q]
<1> DEFINE x == [NoRun EXCEPT !.pc = "select", !.policy = policy,
                              !.now = clock, !.todo = Snapshot(B)]
<1>1. Snapshot(B) \in SUBSET [msg : Messages, row : Row]
  BY PartTypes DEF Snapshot
<1>2. x \in RunState /\ x.pc = "select"
  <2>1. clock \in 0..MaxTime
    BY PartTypes
  <2>2. QED
    BY <1>1, <2>1, NoRunType DEF RunState
<1>3. run' = [run EXCEPT ![r] = x]
  BY DEF Selected
<1> HIDE DEF x
<1>4. \A q \in Runs : run'[q].pc = "observed" => run'[q] = run[q]
  BY <1>2, <1>3 DEF TypeInv, TypeOK
<1>5. QED
  BY <1>2, <1>3, <1>4, RunUpdateType

LEMMA ReconcileType ==
  ASSUME TypeInv, NEW r \in Runs,
         Look(r) \/ Write(r) \/ AbortRun(r) \/ StartOperatorRun(r) \/ FinishOperatorRun(r)
  PROVE  TypeInv'
<1>1. ASSUME NEW s \in run[r].todo
      PROVE  /\ s \in [msg : Messages, row : Row]
             /\ [run[r] EXCEPT !.todo = @ \ {s}] \in RunState
  <2>1. run[r] \in RunState
    BY PartTypes
  <2>2. QED
    BY <2>1 DEF RunState
<1>2. ASSUME NEW s \in run[r].todo, Skip(r, s) PROVE TypeInv'
  <2>1. run' = [run EXCEPT ![r] = [run[r] EXCEPT !.todo = @ \ {s}]]
    BY <1>2 DEF Skip
  <2>2. [run[r] EXCEPT !.todo = @ \ {s}].pc = "select"
    BY <1>2, PartTypes DEF Skip, Upcoming, RunState
  <2>3. QED
    BY <1>1, <1>2, <2>1, <2>2, RunUpdateType
    DEF Skip, TypeInv, TypeOK, Busy, hostVars
<1>3. ASSUME NEW s \in run[r].todo, ClosePending(r, s) PROVE TypeInv'
  <2>1. run' = [run EXCEPT ![r] = [run[r] EXCEPT !.todo = @ \ {s}]]
    BY <1>3 DEF ClosePending
  <2>2. [run[r] EXCEPT !.todo = @ \ {s}].pc = "select"
    BY <1>3, PartTypes DEF ClosePending, Upcoming, RunState
  <2>3. s.msg \in Messages /\ run[r].now \in 0..MaxTime
    BY <1>1, PartTypes DEF RunState
  <2>4. journal' \in [Messages -> Row]
    BY <1>3, <2>3, MovedType DEF ClosePending, States, TerminalStates
  <2>5. QED
    BY <1>1, <1>3, <2>1, <2>2, <2>4, RunUpdateType
    DEF ClosePending, TypeInv, TypeOK, Busy, hostVars
<1>4. ASSUME NEW s \in run[r].todo, Observe(r, s) PROVE TypeInv'
  <2>1. PICK seen \in {"unrun", IF discord[s.msg] THEN "exact" ELSE "absent"} :
            run' = [run EXCEPT ![r] =
                      [run[r] EXCEPT !.pc = "observed", !.todo = @ \ {s},
                                     !.msg = s.msg, !.row = s.row, !.seen = seen]]
    BY <1>4 DEF Observe
  <2> DEFINE x == [run[r] EXCEPT !.pc = "observed", !.todo = @ \ {s},
                                 !.msg = s.msg, !.row = s.row, !.seen = seen]
  <2>2. s.msg \in Messages /\ s.row \in Row
    BY <1>1
  <2>3. x \in RunState /\ x.msg \in Messages
    <3>1. seen \in {"none", "exact", "absent", "unrun"}
      BY <2>1
    <3>2. QED
      BY <1>1, <2>2, <3>1, PartTypes DEF RunState
  <2>4. run' = [run EXCEPT ![r] = x]
    BY <2>1
  <2> HIDE DEF x
  <2>5. QED
    BY <1>4, <2>3, <2>4, RunUpdateType DEF Observe, TypeInv, TypeOK, Busy, hostVars
<1>5. ASSUME Settle(r) PROVE TypeInv'
  <2> DEFINE x == [run[r] EXCEPT !.pc = "select", !.msg = None, !.row = NoRow,
                                 !.seen = "none"]
  <2>1. x \in RunState /\ x.pc = "select"
    BY PartTypes, NoRowType DEF RunState
  <2>2. run' = [run EXCEPT ![r] = x]
    BY <1>5 DEF Settle, Settled
  <2>3. run[r].msg \in Messages /\ run[r].now \in 0..MaxTime
    BY <1>5, PartTypes DEF Settle, TypeInv, Busy, RunState
  <2>4. \/ UNCHANGED journal
        \/ \E to \in {"created", "manual_review", "unknown_external"} :
               journal' = Moved(run[r].msg, to, run[r].now)
    BY <1>5 DEF Settle
  <2>5. journal' \in [Messages -> Row]
    BY <2>3, <2>4, MovedType DEF TypeInv, TypeOK, States, OpenStates, TerminalStates
  <2> HIDE DEF x
  <2>6. QED
    BY <1>5, <2>1, <2>2, <2>5, RunUpdateType
    DEF Settle, TypeInv, TypeOK, Busy, hostVars
<1>6. ASSUME AbortRun(r) \/ FinishOperatorRun(r) PROVE TypeInv'
  <2>1. NoRun.pc = "idle"
    BY DEF NoRun
  <2>2. QED
    BY <1>6, <2>1, NoRunType, RunUpdateType
    DEF AbortRun, FinishOperatorRun, TypeInv, TypeOK, Busy, hostVars
<1>7. ASSUME StartOperatorRun(r) PROVE TypeInv'
  <2>1. PICK S \in SUBSET Messages : \E B \in Batches(S) : Selected(r, "operator", B)
    BY <1>7 DEF StartOperatorRun, OpenRows
  <2>2. PICK B \in SUBSET Messages : Selected(r, "operator", B)
    BY <2>1 DEF Batches
  <2>3. QED
    BY <1>7, <2>2, SelectedType DEF StartOperatorRun, TypeInv, TypeOK, Busy, hostVars
<1>8. QED
  BY <1>2, <1>3, <1>4, <1>5, <1>6, <1>7 DEF Look, Write

LEMMA HostType ==
  ASSUME TypeInv, Tick \/ AlarmTick \/ StartMaintenance \/ FinishMaintenance \/ Lifecycle
  PROVE  TypeInv'
<1>0. Alarm \in Runs
  BY DEF Runs
<1>1. ASSUME Tick PROVE TypeInv'
  BY <1>1 DEF Tick, TypeInv, TypeOK, Busy, hostVars
<1>2. ASSUME AlarmTick PROVE TypeInv'
  <2>1. run' = [run EXCEPT ![Alarm] = [run[Alarm] EXCEPT !.pc = "tick"]]
    BY <1>2 DEF AlarmTick
  <2>2. /\ [run[Alarm] EXCEPT !.pc = "tick"] \in RunState
        /\ [run[Alarm] EXCEPT !.pc = "tick"].pc = "tick"
    BY <1>0, PartTypes DEF RunState
  <2>3. QED
    BY <1>0, <1>2, <2>1, <2>2, RunUpdateType
    DEF AlarmTick, TypeInv, TypeOK, Busy, hostVars
<1>3. ASSUME StartMaintenance PROVE TypeInv'
  <2>1. PICK policy \in {"close-interrupted", "stale-only", "operator"} :
            \E B \in Batches(OpenRows) : Selected(Alarm, policy, B)
    BY <1>3 DEF StartMaintenance
  <2>2. PICK B \in SUBSET Messages : Selected(Alarm, policy, B)
    BY <2>1 DEF Batches, OpenRows
  <2>3. /\ startupDone' \in BOOLEAN /\ recovered' \in {"no", "started", "done"}
        /\ UNCHANGED <<host, journal, clock, issued, attempt, discord, worker, gen,
                       serving, stopped, promised>>
    BY <1>3 DEF StartMaintenance, TypeInv, TypeOK
  <2>4. QED
    BY <1>0, <2>2, <2>3, SelectedType DEF TypeInv, TypeOK, Busy
<1>4. ASSUME FinishMaintenance PROVE TypeInv'
  <2>1. journal' \in [Messages -> Row]
    BY <1>4, NoRowType DEF FinishMaintenance, TypeInv, TypeOK
  <2>2. NoRun.pc = "idle" /\ run' = [run EXCEPT ![Alarm] = NoRun]
    BY <1>4 DEF FinishMaintenance, NoRun
  <2>3. /\ serving' \in BOOLEAN /\ startupDone' \in BOOLEAN
        /\ recovered' \in {"no", "started", "done"}
        /\ UNCHANGED <<host, clock, issued, attempt, discord, worker, gen, stopped, promised>>
    BY <1>4 DEF FinishMaintenance, TypeInv, TypeOK
  <2>4. QED
    BY <1>0, <2>1, <2>2, <2>3, NoRunType, RunUpdateType DEF TypeInv, TypeOK, Busy
<1>5. ASSUME NEW W \in SUBSET Workers, worker' = After(W)
      PROVE  /\ worker' \in [Workers -> Handling]
             /\ \A w \in Workers : worker'[w].pc # "idle" => worker'[w].msg \in Messages
  BY <1>5, AfterType DEF TypeInv, Busy
<1>6. GatewayWorkers \in SUBSET Workers
  BY DEF Workers
<1>7. ASSUME NewGeneration
      PROVE  /\ gen' \in 1..MaxGen /\ serving' \in BOOLEAN /\ stopped' \in BOOLEAN
             /\ recovered' \in {"no", "started", "done"}
  <2>1. gen \in 1..MaxGen
    BY DEF TypeInv, TypeOK
  <2>2. gen' \in 1..MaxGen
    BY <1>7, <2>1 DEF NewGeneration
  <2>3. QED
    BY <1>7, <2>2 DEF NewGeneration
<1>8. ASSUME NEW w \in GatewayWorkers, InterruptGateway(w) PROVE TypeInv'
  <2>1. {w} \in SUBSET Workers
    BY <1>6
  <2>2. QED
    BY <1>5, <1>8, <2>1 DEF InterruptGateway, TypeInv, TypeOK, Busy, hostVars
<1>9. ASSUME GatewayStops PROVE TypeInv'
  BY <1>5, <1>6, <1>9 DEF GatewayStops, TypeInv, TypeOK, Busy
<1>10. ASSUME Reload PROVE TypeInv'
  BY <1>5, <1>6, <1>7, <1>10 DEF Reload, TypeInv, TypeOK, Busy
<1>11. ASSUME RestartOverdue PROVE TypeInv'
  BY <1>5, <1>6, <1>7, <1>11 DEF RestartOverdue, TypeInv, TypeOK, Busy
<1>12. ASSUME Crash PROVE TypeInv'
  <2>1. /\ worker' \in [Workers -> Handling] /\ \A w \in Workers : worker'[w].pc = "idle"
        /\ run' \in [Runs -> RunState] /\ \A r \in Runs : run'[r].pc = "idle"
    BY <1>12, IdleType, NoRunType DEF Crash, Idle, NoRun
  <2>2. QED
    BY <1>7, <1>12, <2>1 DEF Crash, TypeInv, TypeOK, Busy
<1>13. QED
  BY <1>1, <1>2, <1>3, <1>4, <1>8, <1>9, <1>10, <1>11, <1>12 DEF Lifecycle

LEMMA TypeStep == TypeInv /\ [Next]_vars => TypeInv'
<1> SUFFICES ASSUME TypeInv, [Next]_vars PROVE TypeInv'
  OBVIOUS
<1>1. CASE UNCHANGED vars
  BY <1>1 DEF vars, TypeInv, TypeOK, Busy
<1>2. CASE Next
  BY <1>2, RequestType, ExternalType, ReconcileType, HostType DEF Next
<1>3. QED
  BY <1>1, <1>2

\* Type correctness: every step of the bot, the two hosts, Discord and its
\* users keeps the shapes TypeOK gives the variables.
THEOREM TypeCorrect == Spec => []TypeOK
<1>1. TypeInv => TypeOK
  BY DEF TypeInv
<1>2. QED
  BY TypeInit, TypeStep, <1>1, PTL DEF Spec
-----------------------------------------------------------------------------
(* The inductive invariant                                                 *)

Leading(w) == worker[w].pc \in {"claimed", "creating", "waiting"}

\* Claims: tokens have been issued, no two live pipelines hold the same one,
\* and a token nobody was issued has sent nothing.
ClaimInv ==
    /\ \A m \in Messages : journal[m].token <= issued[m]
    /\ \A m \in Messages : journal[m].state # "absent" => journal[m].token \in Tokens
    /\ \A w \in Workers : Leading(w) => worker[w].token \in 1..issued[worker[w].msg]
    /\ \A v, w \in Workers :
          (v # w /\ Leading(v) /\ Leading(w) /\ worker[v].msg = worker[w].msg)
          => worker[v].token # worker[w].token
    /\ \A m \in Messages, n \in Tokens :
          n > issued[m] => attempt[m][n].request = "unsent"

\* Requests: a pipeline that has not submitted has no request out, and one
\* that may submit does not find its row pending any more.
RequestInv ==
    /\ \A w \in Workers :
          worker[w].pc \in {"claimed", "creating"} =>
              attempt[worker[w].msg][worker[w].token].request = "unsent"
    /\ \A w \in Workers :
          worker[w].pc \in {"creating", "waiting"} =>
              ~(/\ journal[worker[w].msg].state = "pending"
                /\ journal[worker[w].msg].token = worker[w].token)
    /\ PendingMeansUnsent
    /\ FailedMeansRejected

\* Threads: what was accepted, confirmed, told or observed is on Discord.
ThreadInv ==
    /\ \A m \in Messages, n \in Tokens :
          attempt[m][n].request = "accepted" => discord[m]
    /\ ConfirmedIsReal
    /\ \A r \in Runs :
          run[r].pc = "observed" /\ run[r].seen = "exact" => discord[run[r].msg]

Inv == TypeInv /\ ClaimInv /\ RequestInv /\ ThreadInv

LEMMA InvInit == Init => Inv
<1> SUFFICES ASSUME Init PROVE Inv
  OBVIOUS
<1>1. TypeInv
  BY TypeInit
<1>2. /\ \A m \in Messages : journal[m].state = "absent" /\ journal[m].token = 0
                             /\ issued[m] = 0
      /\ \A w \in Workers : worker[w].pc = "idle"
      /\ \A m \in Messages, n \in Tokens : attempt[m][n].request = "unsent"
      /\ \A r \in Runs : run[r].pc = "idle"
      /\ promised = {}
  BY DEF Init, NoRow, Idle, NoAttempt, NoRun
<1>3. ClaimInv
  BY <1>2 DEF ClaimInv, Leading
<1>4. RequestInv
  BY <1>2 DEF RequestInv, PendingMeansUnsent, FailedMeansRejected
<1>5. ThreadInv
  BY <1>2 DEF ThreadInv, ConfirmedIsReal
<1>6. QED
  BY <1>1, <1>3, <1>4, <1>5 DEF Inv

\* Most steps are quiet: they claim nothing, submit nothing, start no pipeline
\* and move rows only to states that need no proof about a request, or to
\* `failed' with that proof.
Closing(m) ==
    /\ journal[m].state # "absent"
    /\ journal'[m].token = journal[m].token
    /\ \/ journal'[m].state \in {"created", "unknown_external", "manual_review"}
       \/ /\ journal'[m].state = "failed"
          /\ attempt[m][journal[m].token].request = "rejected"

Quiet ==
    /\ UNCHANGED <<issued, attempt>>
    /\ \A w \in Workers :
          worker'[w].pc \in {"claimed", "creating", "waiting"} => worker'[w] = worker[w]
    /\ \A m \in Messages :
          journal'[m] = journal[m] \/ journal'[m] = NoRow \/ Closing(m)

LEMMA QuietClaim ==
  ASSUME TypeInv, ClaimInv, Quiet
  PROVE  ClaimInv'
<1>1. \A m \in Messages : journal'[m].token <= issued'[m]
  BY PartTypes DEF ClaimInv, Quiet, Closing, NoRow
<1>2. \A m \in Messages : journal'[m].state # "absent" => journal'[m].token \in Tokens
  BY DEF ClaimInv, Quiet, Closing, NoRow
<1>3. QED
  BY <1>1, <1>2 DEF ClaimInv, Quiet, Leading

LEMMA QuietRequest ==
  ASSUME TypeInv, RequestInv, Quiet
  PROVE  RequestInv'
<1>1. PendingMeansUnsent'
  BY DEF RequestInv, PendingMeansUnsent, Quiet, Closing, NoRow
<1>2. FailedMeansRejected'
  BY DEF RequestInv, FailedMeansRejected, Quiet, Closing, NoRow
<1>3. \A w \in Workers :
          worker'[w].pc \in {"creating", "waiting"} =>
              ~(/\ journal'[worker'[w].msg].state = "pending"
                /\ journal'[worker'[w].msg].token = worker'[w].token)
  <2> SUFFICES ASSUME NEW w \in Workers, worker'[w].pc \in {"creating", "waiting"},
                      journal'[worker'[w].msg].state = "pending",
                      journal'[worker'[w].msg].token = worker'[w].token
               PROVE  FALSE
    OBVIOUS
  <2>1. worker'[w] = worker[w] /\ worker[w].msg \in Messages
    BY DEF Quiet, TypeInv, Busy
  <2>2. journal'[worker[w].msg] = journal[worker[w].msg]
    BY <2>1 DEF Quiet, Closing, NoRow
  <2>3. QED
    BY <2>1, <2>2 DEF RequestInv
<1>4. QED
  BY <1>1, <1>2, <1>3 DEF RequestInv, Quiet

\* Ending pipelines starts none.
LEMMA AfterQuiet ==
  ASSUME TypeInv, NEW W \in SUBSET Workers, worker' = After(W)
  PROVE  \A w \in Workers :
            worker'[w].pc \in {"claimed", "creating", "waiting"} => worker'[w] = worker[w]
  BY AfterType

LEMMA ExitQuiet ==
  ASSUME TypeInv, NEW w \in Workers, NEW told, Exit(w, told)
  PROVE  \A v \in Workers :
            worker'[v].pc \in {"claimed", "creating", "waiting"} => worker'[v] = worker[v]
  BY AfterQuiet DEF Exit

\* A transition of one open row.
LEMMA MovedFacts ==
  ASSUME TypeInv, NEW m \in Messages, NEW to, NEW t, journal' = Moved(m, to, t)
  PROVE  /\ journal'[m].state = to /\ journal'[m].updatedAt = t
         /\ journal'[m].token = journal[m].token
         /\ \A x \in Messages \ {m} : journal'[x] = journal[x]
<1>1. journal \in [Messages -> Row] /\ journal[m] \in Row
  BY DEF TypeInv, TypeOK
<1>2. journal'[m] = [journal[m] EXCEPT !.state = to, !.updatedAt = t]
  BY <1>1 DEF Moved
<1>3. QED
  BY <1>1, <1>2 DEF Moved, Row

LEMMA MovedQuiet ==
  ASSUME TypeInv, NEW m \in Messages, NEW t, journal[m].state # "absent",
         NEW to \in {"created", "unknown_external", "manual_review", "failed"},
         to = "failed" => attempt[m][journal[m].token].request = "rejected",
         journal' = Moved(m, to, t)
  PROVE  \A x \in Messages :
            journal'[x] = journal[x] \/ journal'[x] = NoRow \/ Closing(x)
  BY MovedFacts DEF Closing

LEMMA WorkerUpdateQuiet ==
  ASSUME TypeInv, NEW w \in Workers, NEW h,
         h.pc \notin {"claimed", "creating", "waiting"},
         worker' = [worker EXCEPT ![w] = h]
  PROVE  \A v \in Workers :
            worker'[v].pc \in {"claimed", "creating", "waiting"} => worker'[v] = worker[v]
  BY DEF TypeInv, TypeOK

LEMMA RequestQuiet ==
  ASSUME TypeInv, NEW w \in Workers,
         \/ \E m \in Messages : ArriveSatisfied(w, m) \/ Arrive(w, m)
         \/ Join(w) \/ ClaimRefused(w) \/ MarkCreatingFails(w)
         \/ RecordCreated(w) \/ RecordFailed(w) \/ RecordUnknown(w)
  PROVE  Quiet
<1>1. ASSUME NEW m \in Messages, ArriveSatisfied(w, m) \/ Arrive(w, m) PROVE Quiet
  <2>1. CASE ArriveSatisfied(w, m)
    BY <2>1 DEF ArriveSatisfied, Quiet
  <2>2. CASE Arrive(w, m)
    <3>1. [worker[w] EXCEPT !.pc = "arrived", !.msg = m, !.gen = gen].pc = "arrived"
      BY PartTypes DEF Handling
    <3>2. QED
      BY <2>2, <3>1, WorkerUpdateQuiet DEF Arrive, Quiet
  <2>3. QED
    BY <1>1, <2>1, <2>2
<1>2. CASE Join(w)
  <2>1. PICK l \in Workers : worker' =
            [worker EXCEPT ![w] = [worker[w] EXCEPT !.pc = "joined", !.leader = l]]
    BY <1>2 DEF Join, Leaders
  <2>2. [worker[w] EXCEPT !.pc = "joined", !.leader = l].pc = "joined"
    BY PartTypes DEF Handling
  <2>3. QED
    BY <1>2, <2>1, <2>2, WorkerUpdateQuiet DEF Join, Quiet
<1>3. CASE ClaimRefused(w)
  BY <1>3, ExitQuiet DEF ClaimRefused, Quiet
<1>4. CASE MarkCreatingFails(w)
  BY <1>4, ExitQuiet DEF MarkCreatingFails, Quiet
<1>5. CASE RecordCreated(w)
  <2>1. worker[w].msg \in Messages
    BY <1>5 DEF RecordCreated, Answered, TypeInv, Busy
  <2>2. \A x \in Messages : journal'[x] = journal[x] \/ journal'[x] = NoRow \/ Closing(x)
    BY <1>5, <2>1, MovedQuiet DEF RecordCreated, MayLeave, OpenStates
  <2>3. QED
    BY <1>5, <2>2, ExitQuiet DEF RecordCreated, Quiet
<1>6. CASE RecordFailed(w)
  <2>1. worker[w].msg \in Messages
    BY <1>6 DEF RecordFailed, Answered, TypeInv, Busy
  <2>2. \A x \in Messages : journal'[x] = journal[x] \/ journal'[x] = NoRow \/ Closing(x)
    BY <1>6, <2>1, MovedQuiet DEF RecordFailed, MayLeave, Answered
  <2>3. QED
    BY <1>6, <2>2, ExitQuiet DEF RecordFailed, Quiet
<1>7. CASE RecordUnknown(w)
  <2>1. worker[w].msg \in Messages
    BY <1>7 DEF RecordUnknown, Answered, TypeInv, Busy
  <2>2. \A x \in Messages : journal'[x] = journal[x] \/ journal'[x] = NoRow \/ Closing(x)
    BY <1>7, <2>1, MovedQuiet DEF RecordUnknown, MayLeave
  <2>3. QED
    BY <1>7, <2>2, ExitQuiet DEF RecordUnknown, Quiet
<1>8. QED
  BY <1>1, <1>2, <1>3, <1>4, <1>5, <1>6, <1>7

LEMMA ReconcileQuiet ==
  ASSUME TypeInv, NEW r \in Runs,
         Look(r) \/ Write(r) \/ AbortRun(r) \/ StartOperatorRun(r) \/ FinishOperatorRun(r)
  PROVE  Quiet
<1>1. CASE Look(r) \/ AbortRun(r) \/ StartOperatorRun(r) \/ FinishOperatorRun(r)
  BY <1>1 DEF Look, Skip, Observe, AbortRun, StartOperatorRun, FinishOperatorRun, Quiet
<1>2. ASSUME NEW s \in run[r].todo, ClosePending(r, s) PROVE Quiet
  <2>1. s.msg \in Messages
    BY PartTypes DEF RunState
  <2>2. \A x \in Messages : journal'[x] = journal[x] \/ journal'[x] = NoRow \/ Closing(x)
    BY <1>2, <2>1, MovedQuiet DEF ClosePending, MayLeave, OpenStates
  <2>3. QED
    BY <1>2, <2>2 DEF ClosePending, Quiet
<1>3. CASE Settle(r)
  <2>1. run[r].msg \in Messages
    BY <1>3 DEF Settle, TypeInv, Busy
  <2>2. \A x \in Messages : journal'[x] = journal[x] \/ journal'[x] = NoRow \/ Closing(x)
    BY <1>3, <2>1, MovedQuiet DEF Settle, MayLeave, OpenStates
  <2>3. QED
    BY <1>3, <2>2 DEF Settle, Quiet
<1>4. QED
  BY <1>1, <1>2, <1>3 DEF Write

LEMMA HostQuiet ==
  ASSUME TypeInv, \/ Tick \/ AlarmTick \/ StartMaintenance \/ FinishMaintenance
                  \/ Lifecycle \/ \E m \in Messages : UserStartsThread(m)
  PROVE  Quiet
<1>1. CASE Tick \/ AlarmTick \/ StartMaintenance \/ \E m \in Messages : UserStartsThread(m)
  BY <1>1 DEF Tick, AlarmTick, StartMaintenance, UserStartsThread, Quiet
<1>2. CASE FinishMaintenance
  BY <1>2 DEF FinishMaintenance, Quiet
<1>3. CASE GatewayStops \/ Reload \/ RestartOverdue
  <2>1. GatewayWorkers \in SUBSET Workers
    BY DEF Workers
  <2>2. QED
    BY <1>3, <2>1, AfterQuiet DEF GatewayStops, Reload, RestartOverdue, Quiet
<1>4. CASE \E w \in GatewayWorkers : InterruptGateway(w)
  <2>1. PICK w \in GatewayWorkers : InterruptGateway(w)
    BY <1>4
  <2>2. {w} \in SUBSET Workers
    BY DEF Workers
  <2>3. QED
    BY <2>1, <2>2, AfterQuiet DEF InterruptGateway, Quiet
<1>5. CASE Crash
  BY <1>5 DEF Crash, Quiet, Idle
<1>6. QED
  BY <1>1, <1>2, <1>3, <1>4, <1>5 DEF Lifecycle
-----------------------------------------------------------------------------
(* The steps that are not quiet                                            *)

LEMMA AcquireStep ==
  ASSUME TypeInv, ClaimInv, RequestInv, NEW w \in Workers, Acquire(w)
  PROVE  ClaimInv' /\ RequestInv'
<1> DEFINE m == worker[w].msg
           n == issued[m] + 1
<1>1. m \in Messages /\ issued[m] \in Nat /\ n \in Tokens
  BY PartTypes DEF Acquire, Claiming, TypeInv, Busy, Tokens
<1>2. /\ issued'[m] = n
      /\ \A x \in Messages \ {m} : issued'[x] = issued[x]
  BY <1>1 DEF Acquire, TypeInv, TypeOK
<1>3. /\ journal'[m].state = "pending" /\ journal'[m].token = n
      /\ \A x \in Messages \ {m} : journal'[x] = journal[x]
  BY <1>1 DEF Acquire, TypeInv, TypeOK
<1>4. \A x \in Messages, k \in Tokens :
          attempt'[x][k].request = attempt[x][k].request
  BY <1>1, PartTypes DEF Acquire, TypeInv, TypeOK, Attempt
<1>5. /\ worker'[w].pc = "claimed" /\ worker'[w].msg = m /\ worker'[w].token = n
      /\ \A v \in Workers \ {w} : worker'[v] = worker[v]
  <2>1. worker[w] \in Handling
    BY PartTypes
  <2> DEFINE h == [worker[w] EXCEPT !.pc = "claimed", !.token = n]
  <2>2. h.pc = "claimed" /\ h.msg = m /\ h.token = n
    BY <2>1 DEF Handling
  <2>3. worker' = [worker EXCEPT ![w] = h]
    BY DEF Acquire
  <2> HIDE DEF h
  <2>4. QED
    BY <2>2, <2>3 DEF TypeInv, TypeOK
<1>6. \A v \in Workers : Leading(v) => worker[v].msg \in Messages
  BY DEF Leading, TypeInv, Busy
<1>7. \A x \in Messages : issued[x] \in Nat
  BY PartTypes
<1> HIDE DEF m, n
<1>8. n = issued[m] + 1
  BY DEF n
<1>9. ClaimInv'
  <2>1. \A x \in Messages :
            /\ journal'[x].token <= issued'[x]
            /\ journal'[x].state # "absent" => journal'[x].token \in Tokens
    BY <1>1, <1>2, <1>3, <1>8 DEF ClaimInv, Tokens
  <2>2. \A v \in Workers : Leading(v)' => worker'[v].token \in 1..issued'[worker'[v].msg]
    BY <1>1, <1>2, <1>5, <1>6, <1>7, <1>8 DEF ClaimInv, Leading, Tokens
  <2>3. \A v \in Workers \ {w} :
            Leading(v)' /\ worker'[v].msg = m => worker'[v].token # n
    BY <1>1, <1>5, <1>8 DEF ClaimInv, Leading
  <2>4. \A v, u \in Workers :
            (v # u /\ Leading(v)' /\ Leading(u)' /\ worker'[v].msg = worker'[u].msg)
            => worker'[v].token # worker'[u].token
    BY <1>5, <2>3 DEF ClaimInv, Leading
  <2>5. \A x \in Messages, k \in Tokens :
            k > issued'[x] => attempt'[x][k].request = "unsent"
    BY <1>1, <1>2, <1>4, <1>7, <1>8 DEF ClaimInv, Tokens
  <2>6. QED
    BY <2>1, <2>2, <2>4, <2>5 DEF ClaimInv
<1>10. RequestInv'
  <2>1. attempt'[m][n].request = "unsent"
    BY <1>1, <1>4, <1>8 DEF ClaimInv, Tokens
  <2>2. \A v \in Workers : Leading(v) => worker[v].token \in Tokens
    BY <1>6, PartTypes DEF ClaimInv, Tokens
  <2>3. \A v \in Workers : worker'[v].pc \in {"claimed", "creating"} =>
            attempt'[worker'[v].msg][worker'[v].token].request = "unsent"
    BY <1>4, <1>5, <1>6, <2>1, <2>2 DEF RequestInv, Leading
  <2>4. \A v \in Workers : worker'[v].pc \in {"creating", "waiting"} =>
            ~(/\ journal'[worker'[v].msg].state = "pending"
              /\ journal'[worker'[v].msg].token = worker'[v].token)
    <3> SUFFICES ASSUME NEW v \in Workers, worker'[v].pc \in {"creating", "waiting"},
                        journal'[worker'[v].msg].state = "pending",
                        journal'[worker'[v].msg].token = worker'[v].token
                 PROVE  FALSE
      OBVIOUS
    <3>1. worker'[v] = worker[v] /\ Leading(v) /\ worker[v].msg \in Messages
      BY <1>5, <1>6 DEF Leading
    <3>2. CASE worker[v].msg = m
      BY <1>1, <1>3, <1>8, <3>1, <3>2 DEF ClaimInv
    <3>3. CASE worker[v].msg # m
      BY <1>3, <3>1, <3>3 DEF RequestInv
    <3>4. QED
      BY <3>2, <3>3
  <2>5. PendingMeansUnsent' /\ FailedMeansRejected'
    BY <1>3, <1>4, <2>1 DEF RequestInv, ClaimInv, PendingMeansUnsent, FailedMeansRejected
  <2>6. QED
    BY <2>3, <2>4, <2>5 DEF RequestInv
<1>11. QED
  BY <1>9, <1>10

LEMMA MarkCreatingStep ==
  ASSUME TypeInv, ClaimInv, RequestInv, NEW w \in Workers, MarkCreating(w)
  PROVE  ClaimInv' /\ RequestInv'
<1> DEFINE m == worker[w].msg
<1>1. m \in Messages
  BY DEF MarkCreating, TypeInv, Busy
<1>2. /\ journal'[m].state = "creating" /\ journal'[m].token = journal[m].token
      /\ \A x \in Messages \ {m} : journal'[x] = journal[x]
      /\ journal[m].state = "pending"
  BY <1>1, MovedFacts DEF MarkCreating, MayLeave
<1>3. /\ worker'[w].pc = "creating" /\ worker'[w].msg = m
      /\ worker'[w].token = worker[w].token
      /\ \A v \in Workers \ {w} : worker'[v] = worker[v]
  <2>1. [worker[w] EXCEPT !.pc = "creating"]
            = [pc |-> "creating", msg |-> m, token |-> worker[w].token,
               gen |-> worker[w].gen, leader |-> worker[w].leader]
    BY PartTypes DEF Handling
  <2>2. QED
    BY <2>1 DEF MarkCreating, TypeInv, TypeOK
<1>4. UNCHANGED <<issued, attempt>> /\ worker[w].pc = "claimed"
  BY DEF MarkCreating
<1> HIDE DEF m
<1>5. ClaimInv'
  <2>1. \A v \in Workers : Leading(v)' => /\ Leading(v)
                                          /\ worker'[v].msg = worker[v].msg
                                          /\ worker'[v].token = worker[v].token
    BY <1>3, <1>4 DEF Leading, m
  <2>2. \A x \in Messages : /\ journal'[x].token <= issued'[x]
                            /\ journal'[x].state # "absent" => journal'[x].token \in Tokens
    BY <1>1, <1>2, <1>4 DEF ClaimInv
  <2>3. QED
    BY <1>4, <2>1, <2>2 DEF ClaimInv
<1>6. RequestInv'
  <2>1. PendingMeansUnsent' /\ FailedMeansRejected'
    BY <1>2, <1>4 DEF RequestInv, PendingMeansUnsent, FailedMeansRejected
  <2>2. \A v \in Workers : worker'[v].pc \in {"claimed", "creating"} =>
            attempt'[worker'[v].msg][worker'[v].token].request = "unsent"
    BY <1>3, <1>4 DEF RequestInv, m
  <2>3. \A v \in Workers : worker'[v].pc \in {"creating", "waiting"} =>
            ~(/\ journal'[worker'[v].msg].state = "pending"
              /\ journal'[worker'[v].msg].token = worker'[v].token)
    <3> SUFFICES ASSUME NEW v \in Workers, worker'[v].pc \in {"creating", "waiting"},
                        journal'[worker'[v].msg].state = "pending",
                        journal'[worker'[v].msg].token = worker'[v].token
                 PROVE  FALSE
      OBVIOUS
    <3>1. v # w
      BY <1>2, <1>3
    <3>2. worker'[v] = worker[v] /\ worker[v].msg \in Messages
      BY <1>3, <3>1 DEF TypeInv, Busy
    <3>3. journal'[worker[v].msg] = journal[worker[v].msg]
      BY <1>2, <3>2
    <3>4. QED
      BY <3>2, <3>3 DEF RequestInv
  <2>4. QED
    BY <2>1, <2>2, <2>3 DEF RequestInv
<1>7. QED
  BY <1>5, <1>6

LEMMA SubmitStep ==
  ASSUME TypeInv, ClaimInv, RequestInv, NEW w \in Workers, Submit(w)
  PROVE  ClaimInv' /\ RequestInv'
<1> DEFINE m == worker[w].msg
           n == worker[w].token
<1>1. worker[w].pc = "creating" /\ Leading(w) /\ m \in Messages
  BY DEF Submit, Leading, TypeInv, Busy
<1>2. n \in Tokens /\ n \in 1..issued[m] /\ attempt[m][n].request = "unsent"
  BY <1>1, PartTypes DEF ClaimInv, RequestInv, Tokens
<1>3. \A x \in Messages, k \in Tokens :
          (x # m \/ k # n) => attempt'[x][k] = attempt[x][k]
  BY <1>1, <1>2 DEF Submit, TypeInv, TypeOK
<1>4. /\ worker'[w].pc = "waiting" /\ worker'[w].msg = m /\ worker'[w].token = n
      /\ \A v \in Workers \ {w} : worker'[v] = worker[v]
  <2>1. worker[w] \in Handling
    BY PartTypes
  <2> DEFINE h == [worker[w] EXCEPT !.pc = "waiting"]
  <2>2. h.pc = "waiting" /\ h.msg = m /\ h.token = n
    BY <2>1 DEF Handling
  <2>3. worker' = [worker EXCEPT ![w] = h]
    BY DEF Submit
  <2> HIDE DEF h
  <2>4. QED
    BY <2>2, <2>3 DEF TypeInv, TypeOK
<1>5. UNCHANGED <<journal, issued>>
  BY DEF Submit
<1>6. \A v \in Workers : Leading(v) => /\ worker[v].msg \in Messages
                                      /\ worker[v].token \in Tokens
  <2>1. \A v \in Workers : Leading(v) => worker[v].msg \in Messages
    BY DEF Leading, TypeInv, Busy
  <2>2. QED
    BY <2>1, PartTypes DEF ClaimInv, Tokens
<1>7. \A v \in Workers : Leading(v)' => /\ Leading(v)
                                       /\ worker'[v].msg = worker[v].msg
                                       /\ worker'[v].token = worker[v].token
  BY <1>1, <1>4 DEF Leading
<1> HIDE DEF m, n
<1>8. ClaimInv'
  <2>1. \A x \in Messages, k \in Tokens :
            k > issued[x] => attempt'[x][k].request = "unsent"
    BY <1>1, <1>2, <1>3, PartTypes DEF ClaimInv, Tokens
  <2>2. QED
    BY <1>5, <1>7, <2>1 DEF ClaimInv
<1>9. RequestInv'
  <2>1. \A v \in Workers : worker'[v].pc \in {"claimed", "creating"} =>
            attempt'[worker'[v].msg][worker'[v].token].request = "unsent"
    <3> SUFFICES ASSUME NEW v \in Workers, worker'[v].pc \in {"claimed", "creating"}
                 PROVE  attempt'[worker'[v].msg][worker'[v].token].request = "unsent"
      OBVIOUS
    <3>1. v # w /\ worker'[v] = worker[v] /\ Leading(v)
      BY <1>4 DEF Leading
    <3>2. worker[v].msg # m \/ worker[v].token # n
      BY <1>1, <3>1 DEF ClaimInv, m, n
    <3>3. QED
      BY <1>3, <1>6, <3>1, <3>2 DEF RequestInv
  <2>2. \A v \in Workers : worker'[v].pc \in {"creating", "waiting"} =>
            ~(/\ journal'[worker'[v].msg].state = "pending"
              /\ journal'[worker'[v].msg].token = worker'[v].token)
    BY <1>1, <1>4, <1>5 DEF RequestInv, m, n
  <2>3. PendingMeansUnsent'
    <3> SUFFICES ASSUME NEW x \in Messages, journal[x].state = "pending"
                 PROVE  attempt'[x][journal[x].token].request = "unsent"
      BY <1>5 DEF PendingMeansUnsent
    <3>1. x # m \/ journal[x].token # n
      BY <1>1 DEF RequestInv, m, n
    <3>2. QED
      BY <1>3, <3>1 DEF ClaimInv, RequestInv, PendingMeansUnsent
  <2>4. FailedMeansRejected'
    <3> SUFFICES ASSUME NEW x \in Messages, journal[x].state = "failed"
                 PROVE  attempt'[x][journal[x].token].request = "rejected"
      BY <1>5 DEF FailedMeansRejected
    <3>1. x # m \/ journal[x].token # n
      BY <1>2 DEF RequestInv, FailedMeansRejected
    <3>2. QED
      BY <1>3, <3>1 DEF ClaimInv, RequestInv, FailedMeansRejected
  <2>5. QED
    BY <2>1, <2>2, <2>3, <2>4 DEF RequestInv
<1>10. QED
  BY <1>8, <1>9

\* Discord's answer changes only a request that is in flight.
LEMMA AnswerStep ==
  ASSUME TypeInv, ClaimInv, RequestInv,
         NEW m \in Messages, NEW n \in Tokens, Accept(m, n) \/ Reject(m, n)
  PROVE  ClaimInv' /\ RequestInv'
<1>1. \A x \in Messages, k \in Tokens :
          attempt[x][k].request # "inflight" => attempt'[x][k] = attempt[x][k]
  BY DEF Accept, Reject, TypeInv, TypeOK
<1>2. UNCHANGED <<journal, issued, worker>>
  BY DEF Accept, Reject, hostVars
<1>3. ClaimInv'
  BY <1>1, <1>2 DEF ClaimInv, Leading
<1>4. \A v \in Workers : Leading(v) => /\ worker[v].msg \in Messages
                                      /\ worker[v].token \in Tokens
  <2>1. \A v \in Workers : Leading(v) => worker[v].msg \in Messages
    BY DEF Leading, TypeInv, Busy
  <2>2. QED
    BY <2>1, PartTypes DEF ClaimInv, Tokens
<1>5. \A v \in Workers : worker[v].pc \in {"claimed", "creating"} =>
          attempt'[worker[v].msg][worker[v].token].request = "unsent"
  BY <1>1, <1>4 DEF RequestInv, Leading
<1>6. PendingMeansUnsent' /\ FailedMeansRejected'
  BY <1>1, <1>2 DEF ClaimInv, RequestInv, PendingMeansUnsent, FailedMeansRejected
<1>7. QED
  BY <1>2, <1>3, <1>5, <1>6 DEF RequestInv
-----------------------------------------------------------------------------
(* Threads                                                                 *)

\* What ThreadInv asks of a step: it claims a thread for a message only when
\* Discord holds one after it.
Founded ==
    /\ \A m \in Messages : discord[m] => discord'[m]
    /\ \A m \in Messages, n \in Tokens :
          attempt'[m][n].request = "accepted" =>
              attempt[m][n].request = "accepted" \/ discord'[m]
    /\ \A m \in Messages :
          journal'[m].state = "created" => journal[m].state = "created" \/ discord'[m]
    /\ \A m \in Messages : m \in promised' => m \in promised \/ discord'[m]
    /\ \A r \in Runs :
          run'[r].pc = "observed" /\ run'[r].seen = "exact" =>
              run'[r] = run[r] \/ discord'[run'[r].msg]

LEMMA FoundedThread ==
  ASSUME TypeInv, ThreadInv, Founded
  PROVE  ThreadInv'
<1>1. \A r \in Runs : run[r].pc = "observed" => run[r].msg \in Messages
  BY DEF TypeInv, Busy
<1>2. QED
  BY <1>1 DEF ThreadInv, ConfirmedIsReal, Founded

LEMMA RequestFounded ==
  ASSUME TypeInv, ClaimInv, ThreadInv, NEW w \in Workers, Request(w)
  PROVE  Founded
<1>1. UNCHANGED <<discord, run>>
  BY DEF Request, ArriveSatisfied, Arrive, Join, Acquire, ClaimRefused, MarkCreating,
         MarkCreatingFails, Submit, RecordCreated, RecordFailed, RecordUnknown
<1>2. \A m \in Messages, n \in Tokens :
          attempt'[m][n].request = "accepted" => attempt[m][n].request = "accepted"
  <2>1. CASE Acquire(w)
    BY <2>1, PartTypes DEF Acquire, TypeInv, TypeOK, Attempt
  <2>2. CASE Submit(w)
    BY <2>2, PartTypes DEF Submit, TypeInv, TypeOK, Attempt
  <2>3. CASE UNCHANGED attempt
    BY <2>3
  <2>4. QED
    BY <2>1, <2>2, <2>3
    DEF Request, ArriveSatisfied, Arrive, Join, ClaimRefused, MarkCreating,
        MarkCreatingFails, RecordCreated, RecordFailed, RecordUnknown
<1>3. Answered(w, {"accepted"}) => worker[w].msg \in Messages /\ discord[worker[w].msg]
  <2> SUFFICES ASSUME Answered(w, {"accepted"})
               PROVE  worker[w].msg \in Messages /\ discord[worker[w].msg]
    OBVIOUS
  <2>1. Leading(w) /\ worker[w].msg \in Messages
    BY DEF Answered, Leading, TypeInv, Busy
  <2>2. worker[w].token \in Tokens
    BY <2>1, PartTypes DEF ClaimInv, Tokens
  <2>3. QED
    BY <2>1, <2>2 DEF Answered, ThreadInv
<1>4. \A m \in Messages :
          journal'[m].state = "created" => journal[m].state = "created" \/ discord[m]
  <2>1. CASE Acquire(w)
    BY <2>1 DEF Acquire, TypeInv, TypeOK
  <2>2. CASE MarkCreating(w)
    <3>1. worker[w].msg \in Messages
      BY <2>2 DEF MarkCreating, TypeInv, Busy
    <3>2. QED
      BY <2>2, <3>1, MovedFacts DEF MarkCreating
  <2>3. CASE RecordCreated(w)
    <3>1. UNCHANGED journal \/ journal' = Moved(worker[w].msg, "created", clock)
      BY <2>3 DEF RecordCreated
    <3>2. worker[w].msg \in Messages /\ discord[worker[w].msg]
      BY <1>3, <2>3 DEF RecordCreated
    <3>3. QED
      BY <3>1, <3>2, MovedFacts
  <2>4. CASE RecordFailed(w) \/ RecordUnknown(w)
    <3>1. worker[w].msg \in Messages
      BY <2>4 DEF RecordFailed, RecordUnknown, Answered, TypeInv, Busy
    <3>2. UNCHANGED journal \/ \E to \in {"failed", "unknown_external"} :
              journal' = Moved(worker[w].msg, to, clock)
      BY <2>4 DEF RecordFailed, RecordUnknown
    <3>3. QED
      BY <3>1, <3>2, MovedFacts
  <2>5. CASE UNCHANGED journal
    BY <2>5
  <2>6. QED
    BY <2>1, <2>2, <2>3, <2>4, <2>5
    DEF Request, ArriveSatisfied, Arrive, Join, ClaimRefused, MarkCreatingFails, Submit
<1>5. \A m \in Messages : m \in promised' => m \in promised \/ discord[m]
  <2>1. CASE \E m \in Messages : ArriveSatisfied(w, m) \/ Arrive(w, m)
    BY <2>1 DEF ArriveSatisfied, Arrive, MayArrive
  <2>2. CASE ClaimRefused(w)
    <3>1. worker[w].msg \in Messages
      BY <2>2 DEF ClaimRefused, Claiming, TypeInv, Busy
    <3>2. QED
      BY <2>2, <3>1 DEF ClaimRefused, Exit, ThreadInv, ConfirmedIsReal
  <2>3. CASE RecordCreated(w)
    BY <1>3, <2>3 DEF RecordCreated, Exit
  <2>4. CASE promised' = promised
    BY <2>4
  <2>5. QED
    BY <2>1, <2>2, <2>3, <2>4
    DEF Request, Join, Acquire, MarkCreating, MarkCreatingFails, Submit,
        RecordFailed, RecordUnknown, Exit
<1>6. QED
  BY <1>1, <1>2, <1>4, <1>5 DEF Founded

LEMMA ReconcileFounded ==
  ASSUME TypeInv, ThreadInv, NEW r \in Runs,
         Look(r) \/ Write(r) \/ AbortRun(r) \/ StartOperatorRun(r) \/ FinishOperatorRun(r)
  PROVE  Founded
<1>1. UNCHANGED <<discord, attempt, promised>>
  BY DEF Look, Write, Skip, Observe, Settle, ClosePending, AbortRun,
         StartOperatorRun, FinishOperatorRun
<1>2. \A m \in Messages :
          journal'[m].state = "created" => journal[m].state = "created" \/ discord[m]
  <2>1. CASE \E s \in run[r].todo : ClosePending(r, s)
    BY <2>1, PartTypes, MovedFacts DEF ClosePending, RunState
  <2>2. CASE Settle(r)
    <3>1. run[r].msg \in Messages
      BY <2>2 DEF Settle, TypeInv, Busy
    <3>2. QED
      BY <2>2, <3>1, MovedFacts DEF Settle, ThreadInv
  <2>3. CASE UNCHANGED journal
    BY <2>3
  <2>4. QED
    BY <2>1, <2>2, <2>3
    DEF Look, Write, Skip, Observe, AbortRun, StartOperatorRun, FinishOperatorRun
<1>3. ASSUME NEW q \in Runs, run'[q].pc = "observed", run'[q].seen = "exact"
      PROVE  run'[q] = run[q] \/ discord[run'[q].msg]
  <2>1. run \in [Runs -> RunState] /\ run[r] \in RunState
    BY PartTypes DEF TypeInv, TypeOK
  <2>2. ASSUME NEW s \in run[r].todo, Skip(r, s) PROVE run'[q] = run[q] \/ discord[run'[q].msg]
    <3> DEFINE x == [run[r] EXCEPT !.todo = run[r].todo \ {s}]
    <3>1. x.pc = "select"
      BY <2>1, <2>2 DEF RunState, Skip, Upcoming
    <3>2. run' = [run EXCEPT ![r] = x]
      BY <2>2 DEF Skip
    <3> HIDE DEF x
    <3>3. QED
      BY <1>3, <2>1, <3>1, <3>2
  <2>3. ASSUME NEW s \in run[r].todo, ClosePending(r, s)
        PROVE  run'[q] = run[q] \/ discord[run'[q].msg]
    <3> DEFINE x == [run[r] EXCEPT !.todo = run[r].todo \ {s}]
    <3>1. x.pc = "select"
      BY <2>1, <2>3 DEF RunState, ClosePending, Upcoming
    <3>2. run' = [run EXCEPT ![r] = x]
      BY <2>3 DEF ClosePending
    <3> HIDE DEF x
    <3>3. QED
      BY <1>3, <2>1, <3>1, <3>2
  <2>4. ASSUME NEW s \in run[r].todo, Observe(r, s)
        PROVE  run'[q] = run[q] \/ discord[run'[q].msg]
    <3>1. PICK seen \in {"unrun", IF discord[s.msg] THEN "exact" ELSE "absent"} :
              run' = [run EXCEPT ![r] =
                  [run[r] EXCEPT !.pc = "observed", !.todo = run[r].todo \ {s},
                                 !.msg = s.msg, !.row = s.row, !.seen = seen]]
      BY <2>4 DEF Observe
    <3> DEFINE x == [run[r] EXCEPT !.pc = "observed", !.todo = run[r].todo \ {s},
                                   !.msg = s.msg, !.row = s.row, !.seen = seen]
    <3>2. x.msg = s.msg /\ x.seen = seen
      BY <2>1 DEF RunState
    <3>3. run' = [run EXCEPT ![r] = x]
      BY <3>1
    <3> HIDE DEF x
    <3>4. QED
      BY <1>3, <2>1, <3>2, <3>3
  <2>5. CASE Settle(r)
    <3> DEFINE x == [run[r] EXCEPT !.pc = "select", !.msg = None, !.row = NoRow,
                                   !.seen = "none"]
    <3>1. x.pc = "select"
      BY <2>1 DEF RunState
    <3>2. run' = [run EXCEPT ![r] = x]
      BY <2>5 DEF Settle, Settled
    <3> HIDE DEF x
    <3>3. QED
      BY <1>3, <2>1, <3>1, <3>2
  <2>6. CASE AbortRun(r) \/ FinishOperatorRun(r)
    <3>1. NoRun.pc = "idle" /\ run' = [run EXCEPT ![r] = NoRun]
      BY <2>6 DEF AbortRun, FinishOperatorRun, NoRun
    <3>2. QED
      BY <1>3, <2>1, <3>1
  <2>7. CASE StartOperatorRun(r)
    <3>1. PICK S \in SUBSET Messages : \E B \in Batches(S) : Selected(r, "operator", B)
      BY <2>7 DEF StartOperatorRun, OpenRows
    <3>2. PICK B \in SUBSET Messages : Selected(r, "operator", B)
      BY <3>1 DEF Batches
    <3>3. QED
      BY <1>3, <2>1, <3>2, SelectedType
  <2>8. QED
    BY <2>2, <2>3, <2>4, <2>5, <2>6, <2>7 DEF Look, Write
<1>4. QED
  BY <1>1, <1>2, <1>3 DEF Founded

LEMMA ExternalFounded ==
  ASSUME TypeInv, External
  PROVE  Founded
<1>1. ASSUME NEW m \in Messages, UserStartsThread(m) PROVE Founded
  BY <1>1 DEF UserStartsThread, Founded, TypeInv, TypeOK
<1>2. ASSUME NEW m \in Messages, NEW n \in Tokens, Accept(m, n) PROVE Founded
  <2>1. discord' = [discord EXCEPT ![m] = TRUE] /\ UNCHANGED <<journal, run, promised>>
    BY <1>2 DEF Accept
  <2>2. \A x \in Messages : discord[x] \/ x = m => discord'[x]
    BY <2>1 DEF TypeInv, TypeOK
  <2>3. \A x \in Messages : x # m => attempt'[x] = attempt[x]
    BY <1>2 DEF Accept, TypeInv, TypeOK
  <2>4. QED
    BY <2>1, <2>2, <2>3 DEF Founded
<1>3. ASSUME NEW m \in Messages, NEW n \in Tokens, Reject(m, n) PROVE Founded
  <2>1. UNCHANGED <<discord, journal, run, promised>>
    BY <1>3 DEF Reject
  <2>2. \A x \in Messages, k \in Tokens :
            attempt'[x][k].request = "accepted" => attempt[x][k].request = "accepted"
    BY <1>3, PartTypes DEF Reject, TypeInv, TypeOK, Attempt
  <2>3. QED
    BY <2>1, <2>2 DEF Founded
<1>4. QED
  BY <1>1, <1>2, <1>3 DEF External

LEMMA HostFounded ==
  ASSUME TypeInv, Tick \/ AlarmTick \/ StartMaintenance \/ FinishMaintenance \/ Lifecycle
  PROVE  Founded
<1>1. UNCHANGED <<discord, attempt, promised>>
  BY DEF Tick, AlarmTick, StartMaintenance, FinishMaintenance, Lifecycle, GatewayStops,
         Reload, RestartOverdue, Crash, InterruptGateway
<1>2. \A m \in Messages : journal'[m].state = "created" => journal[m].state = "created"
  <2>1. CASE FinishMaintenance
    BY <2>1 DEF FinishMaintenance, NoRow
  <2>2. CASE UNCHANGED journal
    BY <2>2
  <2>3. QED
    BY <2>1, <2>2 DEF Tick, AlarmTick, StartMaintenance, Lifecycle, GatewayStops,
                      Reload, RestartOverdue, Crash, InterruptGateway
<1>3. ASSUME NEW q \in Runs, run'[q].pc = "observed" PROVE run'[q] = run[q]
  <2>1. Alarm \in Runs /\ run \in [Runs -> RunState] /\ run[Alarm] \in RunState
    BY PartTypes DEF Runs, TypeInv, TypeOK
  <2>2. CASE AlarmTick
    <3> DEFINE x == [run[Alarm] EXCEPT !.pc = "tick"]
    <3>1. x.pc = "tick"
      BY <2>1 DEF RunState
    <3>2. run' = [run EXCEPT ![Alarm] = x]
      BY <2>2 DEF AlarmTick
    <3> HIDE DEF x
    <3>3. QED
      BY <1>3, <2>1, <3>1, <3>2
  <2>3. CASE StartMaintenance
    <3>1. PICK policy \in {"close-interrupted", "stale-only", "operator"} :
              \E B \in Batches(OpenRows) : Selected(Alarm, policy, B)
      BY <2>3 DEF StartMaintenance
    <3>2. PICK B \in SUBSET Messages : Selected(Alarm, policy, B)
      BY <3>1 DEF Batches, OpenRows
    <3>3. QED
      BY <1>3, <2>1, <3>2, SelectedType
  <2>4. CASE FinishMaintenance
    <3>1. NoRun.pc = "idle" /\ run' = [run EXCEPT ![Alarm] = NoRun]
      BY <2>4 DEF FinishMaintenance, NoRun
    <3>2. QED
      BY <1>3, <2>1, <3>1
  <2>5. CASE Crash
    BY <1>3, <2>5 DEF Crash, NoRun
  <2>6. CASE UNCHANGED run
    BY <2>6
  <2>7. QED
    BY <2>2, <2>3, <2>4, <2>5, <2>6
    DEF Tick, Lifecycle, GatewayStops, Reload, RestartOverdue, InterruptGateway
<1>4. QED
  BY <1>1, <1>2, <1>3 DEF Founded
-----------------------------------------------------------------------------
(* The safety theorems                                                     *)

LEMMA ClaimRequestStep ==
  ASSUME TypeInv, ClaimInv, RequestInv, [Next]_vars
  PROVE  ClaimInv' /\ RequestInv'
<1>1. CASE UNCHANGED vars
  BY <1>1, QuietClaim, QuietRequest DEF vars, Quiet
<1>2. ASSUME NEW w \in Workers, Request(w) PROVE ClaimInv' /\ RequestInv'
  BY <1>2, AcquireStep, MarkCreatingStep, SubmitStep, RequestQuiet, QuietClaim, QuietRequest
  DEF Request
<1>3. CASE External
  BY <1>3, AnswerStep, HostQuiet, QuietClaim, QuietRequest DEF External
<1>4. ASSUME NEW r \in Runs,
             \/ Look(r) \/ Write(r) \/ AbortRun(r)
             \/ StartOperatorRun(r) \/ FinishOperatorRun(r)
      PROVE  ClaimInv' /\ RequestInv'
  BY <1>4, ReconcileQuiet, QuietClaim, QuietRequest
<1>5. CASE Tick \/ AlarmTick \/ StartMaintenance \/ FinishMaintenance \/ Lifecycle
  BY <1>5, HostQuiet, QuietClaim, QuietRequest
<1>6. QED
  BY <1>1, <1>2, <1>3, <1>4, <1>5 DEF Next

LEMMA ThreadStep ==
  ASSUME TypeInv, ClaimInv, ThreadInv, [Next]_vars
  PROVE  ThreadInv'
<1>1. CASE UNCHANGED vars
  BY <1>1 DEF vars, ThreadInv, ConfirmedIsReal
<1>2. ASSUME NEW w \in Workers, Request(w) PROVE ThreadInv'
  BY <1>2, RequestFounded, FoundedThread
<1>3. CASE External
  BY <1>3, ExternalFounded, FoundedThread
<1>4. ASSUME NEW r \in Runs,
             \/ Look(r) \/ Write(r) \/ AbortRun(r)
             \/ StartOperatorRun(r) \/ FinishOperatorRun(r)
      PROVE  ThreadInv'
  BY <1>4, ReconcileFounded, FoundedThread
<1>5. CASE Tick \/ AlarmTick \/ StartMaintenance \/ FinishMaintenance \/ Lifecycle
  BY <1>5, HostFounded, FoundedThread
<1>6. QED
  BY <1>1, <1>2, <1>3, <1>4, <1>5 DEF Next

LEMMA InvStep == Inv /\ [Next]_vars => Inv'
  BY TypeStep, ClaimRequestStep, ThreadStep DEF Inv

\* A pending row proves that its request was never submitted, for any number
\* of messages, handlers, operators, runtime generations and any durations:
\* what recovery relies on when it closes such a row without asking Discord.
THEOREM PendingIsUnsent == Spec => []PendingMeansUnsent
<1>1. Inv => PendingMeansUnsent
  BY DEF Inv, RequestInv
<1>2. QED
  BY InvInit, InvStep, <1>1, PTL DEF Spec

\* A row is closed as failed only on Discord's own refusal of its request.
THEOREM FailedIsRejected == Spec => []FailedMeansRejected
<1>1. Inv => FailedMeansRejected
  BY DEF Inv, RequestInv
<1>2. QED
  BY InvInit, InvStep, <1>1, PTL DEF Spec

\* Every created row and every answer that names a thread is about a thread
\* Discord holds.
THEOREM ConfirmedThreadsAreReal == Spec => []ConfirmedIsReal
<1>1. Inv => ConfirmedIsReal
  BY DEF Inv, ThreadInv
<1>2. QED
  BY InvInit, InvStep, <1>1, PTL DEF Spec
=============================================================================
