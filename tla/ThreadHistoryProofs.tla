------------------------ MODULE ThreadHistoryProofs ------------------------
(***************************************************************************)
(* Proofs about the history of ThreadActions: how far apart the claims of  *)
(* a message are, what a terminal row may still do, and what routine       *)
(* maintenance leaves alone.  They relate times, the clock and the         *)
(* snapshots of running reconciliations to the rows of the journal, and    *)
(* they are what the refinement of ThreadPermits rests on.  The last part  *)
(* is about the start of a Node process.                                   *)
(***************************************************************************)
EXTENDS ThreadActionsProofs, FiniteSetTheorems

USE ConstantsAssumption
-----------------------------------------------------------------------------
(* The inductive invariant                                                 *)

\* Claims of one message are a retention period apart, because a row leaves
\* the journal only that long after its last update and no update is dated
\* before the claim.
RowsDated ==
    /\ \A m \in Messages, n \in Tokens : attempt[m][n].claimedAt <= clock
    /\ \A m \in Messages : \A n1, n2 \in Tokens :
          n1 < n2 /\ n2 <= issued[m]
          => attempt[m][n2].claimedAt >= attempt[m][n1].claimedAt + Retention
    /\ \A m \in Messages : journal[m].state # "absent" =>
          /\ journal[m].token = issued[m]
          /\ attempt[m][journal[m].token].claimedAt <= journal[m].updatedAt
    /\ \A m \in Messages : journal[m].state = "absent" =>
          \A n \in Tokens : n <= issued[m] =>
              attempt[m][n].claimedAt + Retention <= clock

\* A row seen by a run that captured its time t was claimed by then.
Known(m, row, t) ==
    /\ row.token \in Tokens /\ row.token <= issued[m]
    /\ attempt[m][row.token].claimedAt <= t

\* The row of m may have moved on since it was seen, but only forwards.
Aged(m, row) ==
    (journal[m].state # "absent" /\ journal[m].token = row.token) =>
        /\ journal[m].reconcileBy = row.reconcileBy
        /\ row.state = "unknown_external" =>
              journal[m].state \notin {"pending", "creating"}

Seen(m, row, t) == Known(m, row, t) /\ Aged(m, row)

\* What a reconciliation run holds was seen at the time it captured, and what
\* it observes was not to be left to its owner.
Dated(r) ==
    /\ run[r].now <= clock
    /\ \A s \in run[r].todo : /\ Seen(s.msg, s.row, run[r].now)
                              /\ s.row.state \in OpenStates
    /\ run[r].pc = "observed" =>
          /\ Seen(run[r].msg, run[r].row, run[r].now)
          /\ run[r].row.state \in {"creating", "unknown_external"}
          /\ ~LeftToOwner(r, run[r].row)

RunsDated == \A r \in Runs : Dated(r)

HistoryInv == Inv /\ RowsDated /\ RunsDated

LEMMA HistoryInit == Init => HistoryInv
<1> SUFFICES ASSUME Init PROVE HistoryInv
  OBVIOUS
<1>1. Inv
  BY InvInit
<1>2. /\ \A m \in Messages : journal[m].state = "absent" /\ issued[m] = 0
      /\ \A m \in Messages, n \in Tokens : attempt[m][n].claimedAt = 0
      /\ \A r \in Runs : run[r].pc = "idle" /\ run[r].now = 0 /\ run[r].todo = {}
      /\ clock = 0
  BY DEF Init, NoRow, NoAttempt, NoRun
<1>3. RowsDated
  BY <1>2 DEF RowsDated, Tokens
<1>4. RunsDated
  BY <1>2 DEF RunsDated, Dated
<1>5. QED
  BY <1>1, <1>3, <1>4 DEF HistoryInv
-----------------------------------------------------------------------------
(* What one step does to the rows and the claims of a message              *)

\* An open row moves on under its claim, dated after it.
Advances(m) ==
    /\ journal[m].state \in OpenStates
    /\ journal'[m].state # "absent"
    /\ journal'[m].token = journal[m].token
    /\ journal'[m].reconcileBy = journal[m].reconcileBy
    /\ journal'[m].updatedAt \in Nat
    /\ attempt[m][journal[m].token].claimedAt <= journal'[m].updatedAt
    /\ journal[m].state = "unknown_external" =>
          journal'[m].state \notin {"pending", "creating"}

Leaves(m) == Expired(m, clock) /\ journal'[m] = NoRow

Fresh(m) ==
    /\ journal[m].state = "absent"
    /\ issued'[m] = issued[m] + 1 /\ issued'[m] \in Tokens
    /\ journal'[m].token = issued'[m] /\ journal'[m].updatedAt = clock
    /\ journal'[m].state = "pending"
    /\ attempt'[m][issued'[m]].claimedAt = clock

\* Apart from the claim of one step, claims stay as they were, and time goes on.
Chronicle ==
    /\ clock' \in Nat /\ clock <= clock'
    /\ \A m \in Messages :
          \/ Fresh(m)
          \/ /\ issued'[m] = issued[m]
             /\ journal'[m] = journal[m] \/ Advances(m) \/ Leaves(m)
    /\ \A m \in Messages, n \in Tokens :
          n # issued'[m] \/ ~Fresh(m) =>
              attempt'[m][n].claimedAt = attempt[m][n].claimedAt

LEMMA ChronicleRows ==
  ASSUME TypeInv, ClaimInv, RowsDated, Chronicle
  PROVE  RowsDated'
<1>0. /\ clock \in Nat /\ clock' \in Nat /\ clock <= clock' /\ Retention \in Nat
      /\ \A m \in Messages : issued[m] \in Nat
      /\ \A m \in Messages, n \in Tokens : attempt[m][n].claimedAt \in Nat
      /\ Tokens \subseteq Nat
  BY PartTypes DEF Chronicle, Attempt, Tokens
<1>1. ASSUME NEW m \in Messages, NEW n \in Tokens
      PROVE  attempt'[m][n].claimedAt <= clock'
  BY <1>0 DEF Chronicle, RowsDated, Fresh
<1>2. ASSUME NEW m \in Messages, NEW n1 \in Tokens, NEW n2 \in Tokens,
             n1 < n2, n2 <= issued'[m]
      PROVE  attempt'[m][n2].claimedAt >= attempt'[m][n1].claimedAt + Retention
  <2>1. CASE Fresh(m)
    <3>1. attempt'[m][n1].claimedAt = attempt[m][n1].claimedAt /\ n1 <= issued[m]
      BY <1>0, <1>2, <2>1 DEF Chronicle, Fresh
    <3>2. CASE n2 = issued'[m]
      BY <1>0, <2>1, <3>1, <3>2 DEF Fresh, RowsDated
    <3>3. CASE n2 # issued'[m]
      <4>1. n2 <= issued[m] /\ attempt'[m][n2].claimedAt = attempt[m][n2].claimedAt
        BY <1>0, <1>2, <2>1, <3>3 DEF Chronicle, Fresh
      <4>2. QED
        BY <1>2, <3>1, <4>1 DEF RowsDated
    <3>4. QED
      BY <3>2, <3>3
  <2>2. CASE ~Fresh(m)
    BY <1>2, <2>2 DEF Chronicle, RowsDated
  <2>3. QED
    BY <2>1, <2>2
<1>3. ASSUME NEW m \in Messages, journal'[m].state # "absent"
      PROVE  /\ journal'[m].token = issued'[m]
             /\ attempt'[m][journal'[m].token].claimedAt <= journal'[m].updatedAt
  <2>1. CASE Fresh(m)
    BY <1>0, <2>1 DEF Fresh
  <2>2. CASE ~Fresh(m)
    <3>1. /\ issued'[m] = issued[m] /\ journal[m].state # "absent"
          /\ journal'[m].token = journal[m].token /\ journal[m].token \in Tokens
          /\ attempt[m][journal[m].token].claimedAt <= journal'[m].updatedAt
      BY <1>3, <2>2
      DEF Chronicle, Advances, Leaves, NoRow, RowsDated, ClaimInv, OpenStates
    <3>2. attempt'[m][journal[m].token].claimedAt = attempt[m][journal[m].token].claimedAt
      BY <2>2, <3>1 DEF Chronicle
    <3>3. QED
      BY <3>1, <3>2 DEF RowsDated
  <2>3. QED
    BY <2>1, <2>2
<1>4. ASSUME NEW m \in Messages, journal'[m].state = "absent",
             NEW n \in Tokens, n <= issued'[m]
      PROVE  attempt'[m][n].claimedAt + Retention <= clock'
  <2>1. ~Fresh(m)
    BY <1>4 DEF Fresh
  <2>2. /\ issued'[m] = issued[m]
        /\ attempt'[m][n].claimedAt = attempt[m][n].claimedAt
        /\ journal[m].state = "absent" \/ Expired(m, clock)
    BY <1>4, <2>1 DEF Chronicle, Advances, Leaves
  <2>3. CASE journal[m].state = "absent"
    BY <1>0, <1>4, <2>2, <2>3 DEF RowsDated
  <2>4. CASE Expired(m, clock)
    <3>1. /\ journal[m].state # "absent" /\ journal[m].token \in Tokens
          /\ journal[m].token = issued[m] /\ journal[m].updatedAt \in Nat
          /\ attempt[m][issued[m]].claimedAt <= journal[m].updatedAt
          /\ journal[m].updatedAt + Retention <= clock
      BY <2>4, PartTypes DEF Expired, TerminalStates, RowsDated, ClaimInv, Row
    <3>2. attempt[m][n].claimedAt <= attempt[m][issued[m]].claimedAt
      <4>1. CASE n = issued[m]
        BY <1>0, <4>1
      <4>2. CASE n # issued[m]
        <5>1. n < issued[m] /\ issued[m] \in Tokens
          BY <1>0, <1>4, <2>2, <3>1, <4>2
        <5>2. attempt[m][issued[m]].claimedAt >= attempt[m][n].claimedAt + Retention
          BY <1>0, <5>1 DEF RowsDated
        <5>3. QED
          BY <1>0, <5>1, <5>2
      <4>3. QED
        BY <4>1, <4>2
    <3>3. issued[m] \in Tokens
      BY <3>1
    <3>4. QED
      BY <1>0, <2>2, <3>1, <3>2, <3>3
  <2>5. QED
    BY <2>2, <2>3, <2>4
<1>5. QED
  BY <1>1, <1>2, <1>3, <1>4 DEF RowsDated

\* What a run has seen stays seen.
LEMMA ChronicleSeen ==
  ASSUME TypeInv, ClaimInv, Chronicle, NEW m \in Messages, NEW row \in Row, NEW t \in Nat,
         Seen(m, row, t)
  PROVE  /\ row.token \in Tokens /\ row.token <= issued'[m]
         /\ attempt'[m][row.token].claimedAt <= t
         /\ (journal'[m].state # "absent" /\ journal'[m].token = row.token) =>
               /\ journal'[m].reconcileBy = row.reconcileBy
               /\ row.state = "unknown_external" =>
                     journal'[m].state \notin {"pending", "creating"}
<1>1. issued[m] \in Nat /\ row.token \in Tokens /\ row.token \in Nat
  BY PartTypes DEF Tokens, Seen, Known
<1>2. CASE Fresh(m)
  <2>1. issued'[m] = issued[m] + 1 /\ row.token # issued'[m]
    BY <1>1, <1>2 DEF Fresh, Seen, Known
  <2>2. attempt'[m][row.token].claimedAt = attempt[m][row.token].claimedAt
    BY <1>1, <2>1 DEF Chronicle
  <2>3. row.token <= issued'[m] /\ attempt'[m][row.token].claimedAt <= t
    BY <1>1, <2>1, <2>2 DEF Seen, Known
  <2>4. journal'[m].token # row.token
    BY <1>2, <2>1 DEF Fresh
  <2>5. QED
    BY <1>1, <2>3, <2>4
<1>3. CASE ~Fresh(m)
  <2>1. /\ issued'[m] = issued[m]
        /\ attempt'[m][row.token].claimedAt = attempt[m][row.token].claimedAt
        /\ journal'[m] = journal[m] \/ Advances(m) \/ Leaves(m)
    BY <1>1, <1>3 DEF Chronicle
  <2>2. CASE journal'[m] = journal[m]
    BY <2>1, <2>2 DEF Seen, Known, Aged
  <2>3. CASE Advances(m)
    BY <2>1, <2>3 DEF Seen, Known, Aged, Advances, OpenStates
  <2>4. CASE Leaves(m)
    BY <2>1, <2>4 DEF Seen, Known, Leaves, NoRow
  <2>5. QED
    BY <2>1, <2>2, <2>3, <2>4
<1>4. QED
  BY <1>2, <1>3
-----------------------------------------------------------------------------
(* Every step is of that kind                                              *)

\* A transition of an open row, dated t.
LEMMA MovedChronicle ==
  ASSUME TypeInv, ClaimInv, NEW m \in Messages,
         NEW to \in States, NEW t \in Nat,
         to # "absent", journal[m].state \in OpenStates,
         journal[m].state = "unknown_external" => to \notin {"pending", "creating"},
         attempt[m][journal[m].token].claimedAt <= t,
         UNCHANGED <<issued, attempt, clock>>, journal' = Moved(m, to, t)
  PROVE  Chronicle
<1>1. journal \in [Messages -> Row] /\ journal[m] \in Row /\ clock \in Nat
  BY PartTypes DEF TypeInv, TypeOK
<1>2. journal'[m] = [journal[m] EXCEPT !.state = to, !.updatedAt = t]
  BY <1>1 DEF Moved
<1>3. Advances(m)
  BY <1>1, <1>2 DEF Advances, Row
<1>4. \A x \in Messages \ {m} : journal'[x] = journal[x]
  BY <1>1 DEF Moved
<1>5. QED
  BY <1>1, <1>3, <1>4 DEF Chronicle

\* A step that leaves the journal and the claims alone.
LEMMA StillChronicle ==
  ASSUME TypeInv, UNCHANGED <<journal, issued, clock>>,
         \A m \in Messages, n \in Tokens :
             attempt'[m][n].claimedAt = attempt[m][n].claimedAt
  PROVE  Chronicle
  BY PartTypes DEF Chronicle

LEMMA AcquireChronicle ==
  ASSUME TypeInv, NEW w \in Workers, Acquire(w)
  PROVE  Chronicle
<1> DEFINE m == worker[w].msg
           n == issued[m] + 1
<1>1. m \in Messages /\ issued[m] \in Nat /\ n \in Tokens /\ clock \in Nat
  BY PartTypes DEF Acquire, Claiming, TypeInv, Busy, Tokens
<1>2. /\ issued'[m] = n
      /\ \A x \in Messages \ {m} : issued'[x] = issued[x]
  BY <1>1 DEF Acquire, TypeInv, TypeOK
<1>3. /\ journal'[m].state = "pending" /\ journal'[m].token = n
      /\ journal'[m].updatedAt = clock
      /\ \A x \in Messages \ {m} : journal'[x] = journal[x]
  BY <1>1 DEF Acquire, TypeInv, TypeOK
<1>4. attempt' = [attempt EXCEPT ![m][n].claimedAt = clock]
  BY DEF Acquire
<1>5. attempt'[m][n].claimedAt = clock
  <2>1. attempt[m] \in [Tokens -> Attempt] /\ attempt[m][n] \in Attempt
    BY <1>1 DEF TypeInv, TypeOK
  <2>2. attempt'[m][n] = [attempt[m][n] EXCEPT !.claimedAt = clock]
    BY <1>1, <1>4, <2>1 DEF TypeInv, TypeOK
  <2>3. QED
    BY <2>1, <2>2 DEF Attempt
<1>6. \A x \in Messages, k \in Tokens :
          x # m \/ k # n => attempt'[x][k].claimedAt = attempt[x][k].claimedAt
  BY <1>1, <1>4 DEF TypeInv, TypeOK
<1>7. clock' = clock /\ journal[m].state = "absent"
  BY DEF Acquire
<1> HIDE DEF m, n
<1>8. Fresh(m)
  BY <1>1, <1>2, <1>3, <1>5, <1>7 DEF Fresh, n
<1>9. QED
  BY <1>1, <1>2, <1>3, <1>6, <1>7, <1>8 DEF Chronicle, n

\* Recording the status of a request does not touch the time of its claim.
LEMMA RequestChronicle ==
  ASSUME TypeInv, UNCHANGED <<journal, issued, clock>>,
         NEW x \in Messages, NEW k \in Tokens, NEW q,
         attempt' = [attempt EXCEPT ![x][k].request = q]
  PROVE  Chronicle
<1>1. \A m \in Messages, n \in Tokens :
          attempt'[m][n].claimedAt = attempt[m][n].claimedAt
  <2>1. attempt \in [Messages -> [Tokens -> Attempt]]
    BY DEF TypeInv, TypeOK
  <2>2. QED
    BY <2>1 DEF Attempt
<1>2. QED
  BY <1>1, StillChronicle

LEMMA WorkerChronicle ==
  ASSUME TypeInv, ClaimInv, RowsDated, NEW w \in Workers, Request(w)
  PROVE  Chronicle
<1>1. CASE \/ \E m \in Messages : ArriveSatisfied(w, m) \/ Arrive(w, m)
           \/ Join(w) \/ ClaimRefused(w) \/ MarkCreatingFails(w)
  <2>1. UNCHANGED <<journal, issued, clock, attempt>>
    BY <1>1 DEF ArriveSatisfied, Arrive, Join, ClaimRefused, MarkCreatingFails
  <2>2. QED
    BY <2>1, StillChronicle
<1>2. CASE Acquire(w)
  BY <1>2, AcquireChronicle
<1> DEFINE m == worker[w].msg
<1>3. clock \in Nat
  BY PartTypes
<1>4. ASSUME m \in Messages, journal[m].state # "absent"
      PROVE  attempt[m][journal[m].token].claimedAt <= clock
  BY <1>4 DEF ClaimInv, RowsDated
<1>5. CASE MarkCreating(w)
  <2>1. m \in Messages /\ journal[m].state = "pending"
    BY <1>5 DEF MarkCreating, MayLeave, TypeInv, Busy
  <2>2. journal' = Moved(m, "creating", clock) /\ UNCHANGED <<issued, attempt, clock>>
    BY <1>5 DEF MarkCreating
  <2>3. "creating" \in States /\ "pending" \in OpenStates
    BY DEF States, OpenStates
  <2> HIDE DEF m
  <2>4. QED
    BY <1>3, <1>4, <2>1, <2>2, <2>3, MovedChronicle
<1>6. CASE Submit(w)
  <2>1. m \in Messages /\ worker[w].token \in Tokens
    BY <1>6 DEF Submit, TypeInv, Busy, ClaimInv, Leading, Tokens, TypeOK
  <2>2. QED
    BY <1>6, <2>1, RequestChronicle DEF Submit
<1>7. CASE RecordCreated(w) \/ RecordFailed(w) \/ RecordUnknown(w)
  <2>1. m \in Messages /\ UNCHANGED <<issued, attempt, clock>>
    BY <1>7 DEF RecordCreated, RecordFailed, RecordUnknown, Answered, TypeInv, Busy
  <2>2. \/ UNCHANGED journal
        \/ /\ journal[m].state \in OpenStates
           /\ \E to \in {"created", "failed", "unknown_external"} :
                 journal' = Moved(m, to, clock)
    BY <1>7 DEF RecordCreated, RecordFailed, RecordUnknown, MayLeave, OpenStates
  <2>3. {"created", "failed", "unknown_external"} \subseteq States /\ "absent" \notin OpenStates
    BY DEF States, OpenStates, TerminalStates
  <2> HIDE DEF m
  <2>4. QED
    BY <1>3, <1>4, <2>1, <2>2, <2>3, MovedChronicle, StillChronicle
<1>8. QED
  BY <1>1, <1>2, <1>5, <1>6, <1>7 DEF Request

LEMMA ReconcileChronicle ==
  ASSUME TypeInv, ClaimInv, RunsDated, NEW r \in Runs,
         Look(r) \/ Write(r) \/ AbortRun(r) \/ StartOperatorRun(r) \/ FinishOperatorRun(r)
  PROVE  Chronicle
<1>1. CASE Look(r) \/ AbortRun(r) \/ StartOperatorRun(r) \/ FinishOperatorRun(r)
  <2>1. UNCHANGED <<journal, issued, clock, attempt>>
    BY <1>1 DEF Look, Skip, Observe, AbortRun, StartOperatorRun, FinishOperatorRun
  <2>2. QED
    BY <2>1, StillChronicle
<1>2. run[r].now \in Nat
  BY PartTypes DEF RunState
<1>3. /\ {"created", "manual_review", "unknown_external"} \subseteq States
      /\ {"creating", "unknown_external"} \subseteq OpenStates
  BY DEF States, OpenStates, TerminalStates
<1>4. ASSUME NEW s \in run[r].todo, ClosePending(r, s) PROVE Chronicle
  <2>1. s.msg \in Messages
    BY PartTypes DEF RunState
  <2>2. /\ journal[s.msg].token = s.row.token /\ journal[s.msg].state \in OpenStates
        /\ journal' = Moved(s.msg, "manual_review", run[r].now)
        /\ UNCHANGED <<issued, attempt, clock>>
    BY <1>4 DEF ClosePending, MayLeave
  <2>3. attempt[s.msg][journal[s.msg].token].claimedAt <= run[r].now
    BY <2>2 DEF RunsDated, Dated, Seen, Known
  <2>4. QED
    BY <1>2, <1>3, <2>1, <2>2, <2>3, MovedChronicle
<1>5. CASE Settle(r)
  <2> DEFINE m == run[r].msg
  <2>1. m \in Messages /\ UNCHANGED <<issued, attempt, clock>>
    BY <1>5 DEF Settle, TypeInv, Busy
  <2>2. \/ UNCHANGED journal
        \/ /\ journal[m].token = run[r].row.token /\ journal[m].state \in OpenStates
           /\ \E to \in {"created", "manual_review", "unknown_external"} :
                 journal' = Moved(m, to, run[r].now)
    BY <1>3, <1>5 DEF Settle, MayLeave
  <2>3. journal[m].token = run[r].row.token =>
            attempt[m][journal[m].token].claimedAt <= run[r].now
    BY <1>5 DEF Settle, RunsDated, Dated, Seen, Known
  <2> HIDE DEF m
  <2>4. QED
    BY <1>2, <1>3, <2>1, <2>2, <2>3, MovedChronicle, StillChronicle
<1>6. QED
  BY <1>1, <1>4, <1>5 DEF Write

LEMMA HostChronicle ==
  ASSUME TypeInv, RunsDated,
         \/ External \/ Tick \/ AlarmTick \/ StartMaintenance \/ FinishMaintenance
         \/ Lifecycle
  PROVE  Chronicle
<1>1. CASE \/ AlarmTick \/ StartMaintenance \/ Lifecycle
           \/ \E m \in Messages : UserStartsThread(m)
  <2>1. UNCHANGED <<journal, issued, clock, attempt>>
    BY <1>1 DEF AlarmTick, StartMaintenance, UserStartsThread, Lifecycle, GatewayStops,
                Reload, RestartOverdue, Crash, InterruptGateway
  <2>2. QED
    BY <2>1, StillChronicle
<1>2. ASSUME NEW m \in Messages, NEW n \in Tokens, Accept(m, n) \/ Reject(m, n)
      PROVE  Chronicle
  BY <1>2, RequestChronicle DEF Accept, Reject
<1>3. CASE Tick
  BY <1>3, PartTypes DEF Tick, Chronicle
<1>4. CASE FinishMaintenance
  <2>1. /\ clock \in Nat /\ run[Alarm].now \in Nat /\ run[Alarm].now <= clock
        /\ \A m \in Messages : journal[m].updatedAt \in Nat
    BY PartTypes DEF RunsDated, Dated, RunState, Runs, Row
  <2>2. \A m \in Messages : journal'[m] = journal[m] \/ Leaves(m)
    BY <1>4, <2>1 DEF FinishMaintenance, Leaves, Expired
  <2>3. UNCHANGED <<issued, attempt, clock>>
    BY <1>4 DEF FinishMaintenance
  <2>4. QED
    BY <2>1, <2>2, <2>3 DEF Chronicle
<1>5. QED
  BY <1>1, <1>2, <1>3, <1>4 DEF External

LEMMA StepChronicle ==
  ASSUME TypeInv, ClaimInv, RowsDated, RunsDated, [Next]_vars
  PROVE  Chronicle
<1>1. CASE UNCHANGED vars
  BY <1>1, StillChronicle DEF vars
<1>2. CASE Next
  BY <1>2, WorkerChronicle, ReconcileChronicle, HostChronicle DEF Next
<1>3. QED
  BY <1>1, <1>2
-----------------------------------------------------------------------------
(* What runs hold                                                          *)

\* A run that keeps its time and takes up nothing new is dated as before.
LEMMA KeptDated ==
  ASSUME TypeInv, ClaimInv, Chronicle, RunsDated, NEW r \in Runs,
         run'[r].now = run[r].now, run'[r].todo \subseteq run[r].todo
  PROVE  /\ run'[r].now <= clock'
         /\ \A s \in run'[r].todo : /\ Seen(s.msg, s.row, run[r].now)'
                                    /\ s.row.state \in OpenStates
<1>1. /\ run[r].now \in Nat /\ clock \in Nat
      /\ \A s \in run[r].todo : s.msg \in Messages /\ s.row \in Row
  BY PartTypes DEF RunState
<1>2. run'[r].now <= clock'
  BY <1>1 DEF Chronicle, RunsDated, Dated
<1>3. ASSUME NEW s \in run'[r].todo
      PROVE  Seen(s.msg, s.row, run[r].now)' /\ s.row.state \in OpenStates
  <2>1. s \in run[r].todo
    BY <1>3
  <2>2. PICK t \in Nat : t = run[r].now
    BY <1>1
  <2>3. Seen(s.msg, s.row, t) /\ s.row.state \in OpenStates
    BY <2>1, <2>2 DEF RunsDated, Dated
  <2>4. s.msg \in Messages /\ s.row \in Row
    BY <1>1, <2>1
  <2>5. Seen(s.msg, s.row, t)'
    BY <2>3, <2>4, ChronicleSeen DEF Seen, Known, Aged
  <2>6. t = run'[r].now
    BY <2>2
  <2>7. QED
    BY <2>3, <2>5, <2>6
<1>4. QED
  BY <1>2, <1>3

LEMMA IdleDated ==
  ASSUME TypeInv, ClaimInv, Chronicle, RunsDated, NEW r \in Runs,
         \/ run'[r] = NoRun
         \/ /\ run'[r].now = run[r].now /\ run'[r].todo \subseteq run[r].todo
            /\ run'[r].pc # "observed"
  PROVE  Dated(r)'
<1>1. CASE run'[r] = NoRun
  BY <1>1, PartTypes DEF Dated, NoRun, Chronicle
<1>2. CASE run'[r] # NoRun
  BY <1>2, KeptDated DEF Dated
<1>3. QED
  BY <1>1, <1>2

LEMMA SameDated ==
  ASSUME TypeInv, ClaimInv, Chronicle, RunsDated, NEW r \in Runs, run'[r] = run[r]
  PROVE  Dated(r)'
<1>1. CASE run[r].pc # "observed"
  BY <1>1, IdleDated
<1>2. CASE run[r].pc = "observed"
  <2>1. PICK m \in Messages, row \in Row, t \in Nat :
            m = run[r].msg /\ row = run[r].row /\ t = run[r].now
    BY <1>2, PartTypes DEF TypeInv, Busy, RunState
  <2>2. Seen(m, row, t)
    BY <1>2, <2>1 DEF RunsDated, Dated
  <2>3. Seen(m, row, t)'
    BY <2>2, ChronicleSeen DEF Seen, Known, Aged
  <2>4. m = run'[r].msg /\ row = run'[r].row /\ t = run'[r].now
    BY <2>1
  <2>5. Seen(run[r].msg, run[r].row, run[r].now)'
    BY <2>3, <2>4
  <2>6. /\ run'[r].row.state \in {"creating", "unknown_external"}
        /\ ~LeftToOwner(r, run[r].row)'
    BY <1>2 DEF RunsDated, Dated, LeftToOwner, Overdue
  <2>7. QED
    BY <1>2, <2>5, <2>6, KeptDated DEF Dated
<1>3. QED
  BY <1>1, <1>2

\* A selection holds what the journal holds now.
LEMMA SelectedDated ==
  ASSUME TypeInv, ClaimInv, RowsDated, Chronicle, RunsDated,
         NEW r \in Runs, NEW policy, NEW B \in SUBSET OpenRows,
         Selected(r, policy, B), UNCHANGED <<journal, clock, issued, attempt>>
  PROVE  RunsDated'
<1> DEFINE x == [NoRun EXCEPT !.pc = "select", !.policy = policy,
                              !.now = clock, !.todo = Snapshot(B)]
<1>1. run' = [run EXCEPT ![r] = x]
  BY DEF Selected
<1>2. x.now = clock /\ x.todo = Snapshot(B) /\ x.pc = "select"
  BY DEF NoRun
<1> HIDE DEF x
<1>3. run'[r] = x /\ \A q \in Runs \ {r} : run'[q] = run[q]
  BY <1>1 DEF TypeInv, TypeOK
<1>4. ASSUME NEW s \in Snapshot(B)
      PROVE  Seen(s.msg, s.row, clock) /\ s.row.state \in OpenStates
  <2>1. PICK m \in Messages : s = [msg |-> m, row |-> journal[m]] /\ m \in OpenRows
    BY <1>4 DEF Snapshot, OpenRows
  <2>2. /\ journal[m].state \in OpenStates /\ journal[m].state # "absent"
        /\ journal[m].token \in Tokens /\ journal[m].token <= issued[m]
        /\ attempt[m][journal[m].token].claimedAt <= clock
    BY <2>1 DEF OpenRows, OpenStates, ClaimInv, RowsDated
  <2>3. QED
    BY <2>1, <2>2 DEF Seen, Known, Aged
<1>5. clock <= clock
  BY PartTypes
<1>6. Dated(r)'
  <2>1. run'[r].now = clock' /\ run'[r].todo = Snapshot(B) /\ run'[r].pc = "select"
    BY <1>2, <1>3
  <2>2. \A s \in Snapshot(B) : Seen(s.msg, s.row, clock)' /\ s.row.state \in OpenStates
    BY <1>4 DEF Seen, Known, Aged
  <2>3. QED
    BY <1>5, <2>1, <2>2 DEF Dated
<1>7. QED
  BY <1>3, <1>6, SameDated DEF RunsDated

LEMMA ReconcileDated ==
  ASSUME TypeInv, ClaimInv, RowsDated, Chronicle, RunsDated, NEW r \in Runs,
         Look(r) \/ Write(r) \/ AbortRun(r) \/ StartOperatorRun(r) \/ FinishOperatorRun(r)
  PROVE  RunsDated'
<1>0. /\ run \in [Runs -> RunState] /\ run[r] \in RunState
      /\ \A s \in run[r].todo : s.msg \in Messages /\ s.row \in Row
  BY PartTypes DEF TypeInv, TypeOK, RunState
<1>1. ASSUME NEW x, run' = [run EXCEPT ![r] = x], Dated(r)' PROVE RunsDated'
  <2>1. \A q \in Runs \ {r} : run'[q] = run[q]
    BY <1>0, <1>1
  <2>2. QED
    BY <1>1, <2>1, SameDated DEF RunsDated
<1>2. ASSUME NEW s \in run[r].todo, Skip(r, s) \/ ClosePending(r, s) PROVE RunsDated'
  <2> DEFINE x == [run[r] EXCEPT !.todo = @ \ {s}]
  <2>1. run' = [run EXCEPT ![r] = x] /\ run[r].pc = "select"
    BY <1>2 DEF Skip, ClosePending, Upcoming
  <2>2. x.now = run[r].now /\ x.todo \subseteq run[r].todo /\ x.pc = "select"
    BY <1>0, <2>1 DEF RunState
  <2>3. run'[r] = x
    BY <1>0, <2>1
  <2> HIDE DEF x
  <2>4. Dated(r)'
    BY <2>2, <2>3, IdleDated
  <2>5. QED
    BY <1>1, <2>1, <2>4
<1>3. ASSUME Settle(r) PROVE RunsDated'
  <2> DEFINE x == [run[r] EXCEPT !.pc = "select", !.msg = None, !.row = NoRow,
                                 !.seen = "none"]
  <2>1. run' = [run EXCEPT ![r] = x]
    BY <1>3 DEF Settle, Settled
  <2>2. x.now = run[r].now /\ x.todo \subseteq run[r].todo /\ x.pc = "select"
    BY <1>0 DEF RunState
  <2>3. run'[r] = x
    BY <1>0, <2>1
  <2> HIDE DEF x
  <2>4. Dated(r)'
    BY <2>2, <2>3, IdleDated
  <2>5. QED
    BY <1>1, <2>1, <2>4
<1>4. ASSUME AbortRun(r) \/ FinishOperatorRun(r) PROVE RunsDated'
  <2>1. run' = [run EXCEPT ![r] = NoRun] /\ run'[r] = NoRun
    BY <1>0, <1>4 DEF AbortRun, FinishOperatorRun
  <2>2. QED
    BY <1>1, <2>1, IdleDated
<1>5. ASSUME StartOperatorRun(r) PROVE RunsDated'
  <2>1. PICK S \in SUBSET OpenRows : \E B \in Batches(S) : Selected(r, "operator", B)
    BY <1>5 DEF StartOperatorRun
  <2>2. PICK B \in SUBSET OpenRows : Selected(r, "operator", B)
    BY <2>1 DEF Batches
  <2>3. QED
    BY <1>5, <2>2, SelectedDated DEF StartOperatorRun
<1>6. ASSUME NEW s \in run[r].todo, Observe(r, s) PROVE RunsDated'
  <2>1. PICK seen : run' = [run EXCEPT ![r] =
                      [run[r] EXCEPT !.pc = "observed", !.todo = @ \ {s},
                                     !.msg = s.msg, !.row = s.row, !.seen = seen]]
    BY <1>6 DEF Observe
  <2> DEFINE x == [run[r] EXCEPT !.pc = "observed", !.todo = @ \ {s},
                                 !.msg = s.msg, !.row = s.row, !.seen = seen]
  <2>2. /\ x.now = run[r].now /\ x.todo \subseteq run[r].todo /\ x.policy = run[r].policy
        /\ x.msg = s.msg /\ x.row = s.row
    BY <1>0 DEF RunState
  <2>3. run' = [run EXCEPT ![r] = x] /\ run'[r] = x
    BY <1>0, <2>1
  <2> HIDE DEF x
  <2>4. run[r].now \in Nat
    BY <1>0 DEF RunState
  <2>5. Seen(s.msg, s.row, run[r].now)'
    <3>1. PICK t \in Nat : t = run[r].now
      BY <2>4
    <3>2. Seen(s.msg, s.row, t)
      BY <3>1 DEF RunsDated, Dated
    <3>3. Seen(s.msg, s.row, t)'
      BY <1>0, <3>2, ChronicleSeen DEF Seen, Known, Aged
    <3>4. t = run'[r].now
      BY <2>2, <2>3, <3>1
    <3>5. QED
      BY <3>3, <3>4
  <2>6. s.row.state \in {"creating", "unknown_external"} /\ ~LeftToOwner(r, s.row)
    BY <1>6 DEF Observe, RunsDated, Dated, OpenStates
  <2>7. ~LeftToOwner(r, s.row)'
    BY <2>2, <2>3, <2>6 DEF LeftToOwner, Overdue
  <2>8. Dated(r)'
    <3>1. run'[r].msg = s.msg /\ run'[r].row = s.row
      BY <2>2, <2>3
    <3>2. run'[r].now = run[r].now /\ run'[r].todo \subseteq run[r].todo
      BY <2>2, <2>3
    <3>3. /\ Seen(run[r].msg, run[r].row, run[r].now)'
          /\ run'[r].row.state \in {"creating", "unknown_external"}
          /\ ~LeftToOwner(r, run[r].row)'
      BY <2>5, <2>6, <2>7, <3>1
    <3>4. QED
      BY <3>2, <3>3, KeptDated DEF Dated
  <2>9. QED
    BY <1>1, <2>3, <2>8
<1>7. QED
  BY <1>2, <1>3, <1>4, <1>5, <1>6 DEF Look, Write

LEMMA HostDated ==
  ASSUME TypeInv, ClaimInv, RowsDated, Chronicle, RunsDated,
         \/ External \/ Tick \/ AlarmTick \/ StartMaintenance \/ FinishMaintenance
         \/ Lifecycle \/ \E w \in Workers : Request(w)
  PROVE  RunsDated'
<1>0. Alarm \in Runs /\ run \in [Runs -> RunState] /\ run[Alarm] \in RunState
  BY PartTypes DEF Runs, TypeInv, TypeOK
<1>1. CASE \/ External \/ Tick \/ GatewayStops \/ Reload \/ RestartOverdue
           \/ \E w \in GatewayWorkers : InterruptGateway(w)
           \/ \E w \in Workers : Request(w)
  <2>1. UNCHANGED run
    BY <1>1 DEF External, Accept, Reject, UserStartsThread, Tick, GatewayStops, Reload,
                RestartOverdue, InterruptGateway, Request, ArriveSatisfied, Arrive, Join,
                Acquire, ClaimRefused, MarkCreating, MarkCreatingFails, Submit,
                RecordCreated, RecordFailed, RecordUnknown
  <2>2. QED
    BY <2>1, SameDated DEF RunsDated
<1>2. CASE AlarmTick
  <2>1. run' = [run EXCEPT ![Alarm] = [run[Alarm] EXCEPT !.pc = "tick"]]
    BY <1>2 DEF AlarmTick
  <2>2. /\ \A q \in Runs \ {Alarm} : run'[q] = run[q]
        /\ run'[Alarm].now = run[Alarm].now /\ run'[Alarm].todo = run[Alarm].todo
        /\ run'[Alarm].pc = "tick"
    BY <1>0, <2>1 DEF RunState
  <2>3. QED
    BY <1>0, <2>2, SameDated, IdleDated DEF RunsDated
<1>3. CASE StartMaintenance
  <2>1. PICK policy : \E B \in Batches(OpenRows) : Selected(Alarm, policy, B)
    BY <1>3 DEF StartMaintenance
  <2>2. PICK B \in SUBSET OpenRows : Selected(Alarm, policy, B)
    BY <2>1 DEF Batches
  <2>3. QED
    BY <1>0, <1>3, <2>2, SelectedDated DEF StartMaintenance
<1>4. CASE FinishMaintenance
  <2>1. run'[Alarm] = NoRun /\ \A q \in Runs \ {Alarm} : run'[q] = run[q]
    BY <1>0, <1>4 DEF FinishMaintenance
  <2>2. QED
    BY <1>0, <2>1, SameDated, IdleDated DEF RunsDated
<1>5. CASE Crash
  BY <1>5, IdleDated DEF Crash, RunsDated
<1>6. QED
  BY <1>1, <1>2, <1>3, <1>4, <1>5 DEF Lifecycle

LEMMA HistoryStep == HistoryInv /\ [Next]_vars => HistoryInv'
<1> SUFFICES ASSUME HistoryInv, [Next]_vars PROVE HistoryInv'
  OBVIOUS
<1>1. TypeInv /\ ClaimInv /\ RowsDated /\ RunsDated
  BY DEF HistoryInv, Inv
<1>2. Inv'
  BY InvStep DEF HistoryInv
<1>3. Chronicle
  BY <1>1, StepChronicle
<1>4. RowsDated'
  BY <1>1, <1>3, ChronicleRows
<1>5. RunsDated'
  <2>1. CASE UNCHANGED vars
    BY <1>1, <1>3, <2>1, SameDated DEF vars, RunsDated
  <2>2. CASE Next
    BY <1>1, <1>3, <2>2, ReconcileDated, HostDated DEF Next
  <2>3. QED
    BY <2>1, <2>2
<1>6. QED
  BY <1>2, <1>4, <1>5 DEF HistoryInv
-----------------------------------------------------------------------------
(* The theorems                                                            *)

\* Two requests are submitted for one message only a retention period apart,
\* for any number of messages, handlers, runs, reloads and crashes, and
\* whatever the clock does between two steps: no blind retry is possible.
THEOREM CreatesAreApart == Spec => []CreatesAreARetentionApart
<1>1. HistoryInv => CreatesAreARetentionApart
  <2> SUFFICES ASSUME HistoryInv, NEW m \in Messages, NEW n1 \in Tokens, NEW n2 \in Tokens,
                      n1 < n2, attempt[m][n1].request # "unsent",
                      attempt[m][n2].request # "unsent"
               PROVE  attempt[m][n2].claimedAt >= attempt[m][n1].claimedAt + Retention
    BY DEF CreatesAreARetentionApart
  <2>1. issued[m] \in Nat /\ n2 \in Nat
    BY PartTypes DEF HistoryInv, Inv, Tokens
  <2>2. n2 <= issued[m]
    BY <2>1 DEF HistoryInv, Inv, ClaimInv
  <2>3. QED
    BY <2>2 DEF HistoryInv, RowsDated
<1>2. QED
  BY HistoryInit, HistoryStep, <1>1, PTL DEF Spec

\* What was decided stays decided: a terminal row never changes and leaves the
\* journal only when its retention has elapsed, whatever stale claimants,
\* stale snapshots or runs of an earlier runtime still write.
THEOREM TerminalRowsAreFinal == Spec => TerminalIsFinal
<1>1. ASSUME HistoryInv, [Next]_vars, NEW m \in Messages,
             journal[m].state \in TerminalStates, journal'[m] # journal[m]
      PROVE  journal'[m] = NoRow /\ clock >= journal[m].updatedAt + Retention
  <2>1. Chronicle
    BY <1>1, StepChronicle DEF HistoryInv, Inv
  <2>2. ~Fresh(m) /\ ~Advances(m)
    BY <1>1 DEF Fresh, Advances, TerminalStates, OpenStates
  <2>3. Leaves(m)
    BY <1>1, <2>1, <2>2 DEF Chronicle
  <2>4. clock \in Nat /\ journal[m].updatedAt \in Nat
    BY <1>1, PartTypes DEF HistoryInv, Inv, Row
  <2>5. QED
    BY <2>3, <2>4 DEF Leaves, Expired
<1>2. HistoryInv /\ [Next]_vars =>
        [\A m \in Messages :
           journal[m].state \in TerminalStates /\ journal'[m] # journal[m]
           => /\ journal'[m] = NoRow
              /\ clock >= journal[m].updatedAt + Retention]_vars
  BY <1>1
<1>3. QED
  BY HistoryInit, HistoryStep, <1>2, PTL DEF Spec, TerminalIsFinal

\* Routine maintenance never moves a pending or creating row before its
\* deadline, though it decides on a snapshot that may be older than the row.
THEOREM RoutineMaintenanceIsPatient == Spec => RoutineMaintenanceWaits
<1>1. ASSUME HistoryInv, [Next]_vars, NEW m \in Messages,
             AlarmStep, run[Alarm].policy = "stale-only",
             journal[m].state \in {"pending", "creating"}, journal'[m] # journal[m]
      PROVE  clock >= journal[m].reconcileBy
  <2>0. /\ Alarm \in Runs /\ run \in [Runs -> RunState] /\ run[Alarm] \in RunState
        /\ clock \in Nat /\ run[Alarm].now \in Nat /\ run[Alarm].now <= clock
        /\ journal \in [Messages -> Row] /\ journal[m] \in Row
        /\ \A x \in Messages : journal[x].reconcileBy \in Nat
    BY <1>1, PartTypes
    DEF HistoryInv, Inv, TypeInv, TypeOK, Runs, RunState, Row, RunsDated, Dated
  <2>1. journal[m].state # "absent"
    BY <1>1
  <2>2. ASSUME NEW r \in Runs, NEW x, run' = [run EXCEPT ![r] = x] PROVE r = Alarm
    BY <1>1, <2>0, <2>2 DEF AlarmStep
  <2>3. ASSUME Next PROVE Write(Alarm)
    <3>1. ASSUME NEW r \in Runs, Write(r) PROVE r = Alarm
      <4>1. \E x : run' = [run EXCEPT ![r] = x]
        BY <3>1 DEF Write, Settle, Settled, ClosePending
      <4>2. QED
        BY <2>2, <4>1
    <3>2. ~FinishMaintenance
      BY <1>1 DEF FinishMaintenance, Expired, TerminalStates
    <3>3. ~Crash /\ ~AlarmTick /\ ~StartMaintenance /\ ~GatewayStops /\ ~Reload
          /\ ~RestartOverdue
      BY <1>1 DEF Crash, AlarmTick, StartMaintenance, GatewayStops, Reload, RestartOverdue
    <3>4. ~Tick /\ ~External /\ \A w \in GatewayWorkers : ~InterruptGateway(w)
      BY <1>1 DEF Tick, External, Accept, Reject, UserStartsThread, InterruptGateway, AlarmStep
    <3>5. \A w \in Workers : ~Request(w)
      BY <1>1 DEF AlarmStep, Request, ArriveSatisfied, Arrive, Join, Acquire, ClaimRefused,
                  MarkCreating, MarkCreatingFails, Submit, RecordCreated, RecordFailed,
                  RecordUnknown
    <3>6. \A r \in Runs : ~Look(r) /\ ~AbortRun(r) /\ ~StartOperatorRun(r)
                          /\ ~FinishOperatorRun(r)
      BY <1>1 DEF Look, Skip, Observe, AbortRun, StartOperatorRun, FinishOperatorRun
    <3>7. QED
      BY <2>3, <3>1, <3>2, <3>3, <3>4, <3>5, <3>6 DEF Next, Lifecycle
  <2>4. Next
    BY <1>1 DEF vars
  <2>5. ASSUME NEW s \in run[Alarm].todo, ClosePending(Alarm, s)
        PROVE  clock >= journal[m].reconcileBy
    <3>1. s.msg = m
      BY <1>1, <2>0, <2>5 DEF ClosePending, Moved
    <3>2. s.row.reconcileBy = journal[m].reconcileBy
      BY <1>1, <2>1, <2>5, <3>1
      DEF ClosePending, MayLeave, HistoryInv, RunsDated, Dated, Seen, Aged, Runs
    <3>3. run[Alarm].now >= s.row.reconcileBy
      BY <1>1, <2>5 DEF ClosePending, LeftToOwner, Overdue
    <3>4. QED
      BY <2>0, <3>2, <3>3
  <2>6. ASSUME Settle(Alarm)
        PROVE  clock >= journal[m].reconcileBy
    <3>1. run[Alarm].msg = m /\ run[Alarm].pc = "observed"
      BY <1>1, <2>0, <2>6 DEF Settle, Moved
    <3>2. journal[m].token = run[Alarm].row.token
      BY <1>1, <2>6, <3>1 DEF Settle, MayLeave
    <3>3. /\ run[Alarm].row.reconcileBy = journal[m].reconcileBy
          /\ run[Alarm].row.state = "creating"
          /\ ~LeftToOwner(Alarm, run[Alarm].row)
      BY <1>1, <2>0, <2>1, <3>1, <3>2 DEF HistoryInv, RunsDated, Dated, Seen, Aged
    <3>4. run[Alarm].now >= run[Alarm].row.reconcileBy
      BY <1>1, <3>3 DEF LeftToOwner, Overdue
    <3>5. QED
      BY <2>0, <3>3, <3>4
  <2>7. QED
    BY <2>3, <2>4, <2>5, <2>6 DEF Write
<1>2. HistoryInv /\ [Next]_vars =>
        [\A m \in Messages :
           (/\ AlarmStep /\ run[Alarm].policy = "stale-only"
            /\ journal[m].state \in {"pending", "creating"}
            /\ journal'[m] # journal[m])
           => clock >= journal[m].reconcileBy]_vars
  BY <1>1
<1>3. QED
  BY HistoryInit, HistoryStep, <1>2, PTL DEF Spec, RoutineMaintenanceWaits

-----------------------------------------------------------------------------
(* ThreadActions implements ThreadPermits                                  *)

permitVars == <<clock, issued, attempt, OpenClaim, discord, promised>>

\* Every step but those that ask, answer, claim or conclude is invisible.
Invisible == UNCHANGED permitVars

\* What a transition does to the claim of an open row.
LEMMA OpenMoved ==
  ASSUME TypeInv, NEW m \in Messages, NEW to \in States, NEW t,
         journal[m].state \in OpenStates, journal' = Moved(m, to, t)
  PROVE  /\ to \in OpenStates => OpenClaim' = OpenClaim
         /\ to \notin OpenStates => OpenClaim' = [OpenClaim EXCEPT ![m] = 0]
<1>1. journal \in [Messages -> Row] /\ journal[m] \in Row
  BY DEF TypeInv, TypeOK
<1>2. /\ journal'[m].state = to /\ journal'[m].token = journal[m].token
      /\ \A x \in Messages \ {m} : journal'[x] = journal[x]
  BY <1>1 DEF Moved, Row
<1>3. ASSUME NEW x \in Messages
      PROVE  OpenClaim'[x] = IF x = m /\ to \notin OpenStates THEN 0 ELSE OpenClaim[x]
  BY <1>2 DEF OpenClaim
<1>4. QED
  BY <1>3 DEF OpenClaim

\* The row of an open claim has a number.
LEMMA OpenIsNumbered ==
  ASSUME ClaimInv, NEW m \in Messages, journal[m].state \in OpenStates
  PROVE  OpenClaim[m] # 0
  BY DEF ClaimInv, OpenClaim, OpenStates, Tokens

LEMMA Concluded ==
  ASSUME TypeInv, ClaimInv, NEW m \in Messages, NEW to \in States, NEW t,
         journal[m].state \in OpenStates, journal' = Moved(m, to, t),
         UNCHANGED <<clock, issued, attempt, discord>>,
         promised' = promised \/ (discord[m] /\ promised' = promised \cup {m}),
         to \notin OpenStates \/ promised' = promised
  PROVE  Promise!Conclude(m) \/ Invisible
<1>1. CASE to \in OpenStates
  BY <1>1, OpenMoved DEF Invisible, permitVars
<1>2. CASE to \notin OpenStates
  BY <1>2, OpenMoved, OpenIsNumbered DEF Promise!Conclude, Promise!Tell
<1>3. QED
  BY <1>1, <1>2

\* A claim is a new permit.
LEMMA AcquireGives ==
  ASSUME HistoryInv, NEW w \in Workers, Acquire(w)
  PROVE  Promise!Give(worker[w].msg)
<1> DEFINE m == worker[w].msg
<1>1. /\ m \in Messages /\ issued \in [Messages -> 0..MaxClaims] /\ issued[m] + 1 \in Tokens
      /\ journal \in [Messages -> Row] /\ attempt \in [Messages -> [Tokens -> Attempt]]
  BY DEF Acquire, Claiming, HistoryInv, Inv, TypeInv, Busy, TypeOK, Tokens
<1>2. journal[m].state = "absent"
  BY DEF Acquire
<1>3. OpenClaim[m] = 0
  BY <1>1, <1>2 DEF OpenClaim, OpenStates
<1>4. \A n \in 1..issued[m] : attempt[m][n].claimedAt + Retention <= clock
  BY <1>1, <1>2 DEF HistoryInv, RowsDated, Tokens
<1>5. /\ issued' = [issued EXCEPT ![m] = issued[m] + 1]
      /\ issued'[m] = issued[m] + 1
      /\ attempt' = [attempt EXCEPT ![m][issued[m] + 1].claimedAt = clock]
      /\ journal' = [journal EXCEPT ![m] =
             [state |-> "pending", token |-> issued[m] + 1,
              reconcileBy |-> clock + Window, updatedAt |-> clock]]
      /\ UNCHANGED <<clock, discord, promised>>
  BY <1>1 DEF Acquire
<1>6. OpenClaim' = [OpenClaim EXCEPT ![m] = issued[m] + 1]
  <2>1. /\ \A x \in Messages \ {m} : journal'[x] = journal[x]
        /\ journal'[m].state = "pending" /\ journal'[m].token = issued[m] + 1
    BY <1>1, <1>5
  <2>2. ASSUME NEW x \in Messages
        PROVE  OpenClaim'[x] = IF x = m THEN issued[m] + 1 ELSE OpenClaim[x]
    BY <2>1 DEF OpenClaim, OpenStates
  <2>3. QED
    BY <2>2 DEF OpenClaim
<1> HIDE DEF m
<1>7. QED
  BY <1>1, <1>3, <1>4, <1>5, <1>6 DEF Promise!Give, m

LEMMA WorkerKeepsPermits ==
  ASSUME HistoryInv, NEW w \in Workers, Request(w)
  PROVE  Promise!Next \/ Invisible
<1> DEFINE m == worker[w].msg
           n == worker[w].token
<1>0. TypeInv /\ ClaimInv /\ RequestInv /\ ThreadInv
  BY DEF HistoryInv, Inv
<1>1. ASSUME NEW x \in Messages, ArriveSatisfied(w, x)
      PROVE  Promise!Next
  <2>1. Promise!TellOnly(x)
    BY <1>1 DEF ArriveSatisfied, Promise!TellOnly, Promise!Tell, OpenClaim
  <2>2. QED
    BY <2>1 DEF Promise!Next
<1>2. CASE (\E x \in Messages : Arrive(w, x)) \/ Join(w) \/ MarkCreatingFails(w)
  BY <1>2 DEF Arrive, Join, MarkCreatingFails, Exit, Invisible, permitVars, OpenClaim
<1>3. CASE ClaimRefused(w)
  <2>1. m \in Messages
    BY <1>0, <1>3 DEF ClaimRefused, Claiming, TypeInv, Busy
  <2>2. /\ UNCHANGED <<journal, clock, issued, attempt, discord>>
        /\ promised' = promised \/ (journal[m].state = "created" /\ promised' = promised \cup {m})
    BY <1>3 DEF ClaimRefused, Exit
  <2>3. OpenClaim' = OpenClaim
    BY <2>2 DEF OpenClaim
  <2>4. journal[m].state = "created" => discord[m]
    BY <1>0, <2>1 DEF ThreadInv, ConfirmedIsReal
  <2> HIDE DEF m
  <2>5. promised' = promised \/ Promise!TellOnly(m)
    BY <2>2, <2>3, <2>4 DEF Promise!TellOnly, Promise!Tell
  <2>6. QED
    BY <2>1, <2>2, <2>3, <2>5 DEF Promise!Next, Invisible, permitVars
<1>4. CASE Acquire(w)
  <2>1. m \in Messages
    BY <1>0, <1>4 DEF Acquire, Claiming, TypeInv, Busy
  <2>2. QED
    BY <1>4, <2>1, AcquireGives DEF Promise!Next
<1>5. CASE MarkCreating(w)
  <2>1. /\ m \in Messages /\ journal[m].state \in OpenStates
        /\ journal' = Moved(m, "creating", clock)
        /\ UNCHANGED <<clock, issued, attempt, discord, promised>>
    BY <1>0, <1>5 DEF MarkCreating, MayLeave, TypeInv, Busy, OpenStates
  <2>2. "creating" \in OpenStates /\ "creating" \in States
    BY DEF OpenStates, States
  <2> HIDE DEF m
  <2>3. OpenClaim' = OpenClaim
    BY <1>0, <2>1, <2>2, OpenMoved
  <2>4. QED
    BY <2>1, <2>3 DEF Invisible, permitVars
<1>6. CASE Submit(w)
  <2>1. m \in Messages /\ issued[m] \in Nat /\ n \in 1..issued[m] /\ n \in Tokens
    BY <1>0, <1>6 DEF Submit, TypeInv, Busy, ClaimInv, Leading, Tokens, TypeOK
  <2>2. attempt[m][n].request = "unsent"
    BY <1>0, <1>6 DEF Submit, RequestInv
  <2>3. /\ attempt' = [attempt EXCEPT ![m][n].request = "inflight"]
        /\ UNCHANGED <<journal, clock, issued, discord, promised>>
    BY <1>6 DEF Submit
  <2>4. OpenClaim' = OpenClaim
    BY <2>3 DEF OpenClaim
  <2> HIDE DEF m, n
  <2>5. Promise!Ask(m, n)
    BY <2>1, <2>2, <2>3, <2>4 DEF Promise!Ask, Promise!Requested
  <2>6. QED
    BY <2>1, <2>5 DEF Promise!Next
<1>7. CASE RecordCreated(w) \/ RecordFailed(w) \/ RecordUnknown(w)
  <2>1. m \in Messages /\ UNCHANGED <<clock, issued, attempt, discord>>
    BY <1>0, <1>7 DEF RecordCreated, RecordFailed, RecordUnknown, Answered, TypeInv, Busy
  <2>2. RecordCreated(w) => discord[m]
    <3>1. RecordCreated(w) => n \in Tokens /\ attempt[m][n].request = "accepted"
      BY <1>0, <2>1 DEF RecordCreated, Answered, ClaimInv, Leading, Tokens, TypeInv, TypeOK
    <3>2. QED
      BY <1>0, <2>1, <3>1 DEF ThreadInv
  <2>3. \/ UNCHANGED <<journal, promised>>
        \/ /\ journal[m].state \in OpenStates
           /\ journal' = Moved(m, "created", clock) /\ promised' = promised \cup {m}
           /\ RecordCreated(w)
        \/ /\ journal[m].state \in OpenStates /\ UNCHANGED promised
           /\ \E to \in {"failed", "unknown_external"} : journal' = Moved(m, to, clock)
    BY <1>7 DEF RecordCreated, RecordFailed, RecordUnknown, MayLeave, Exit, OpenStates
  <2>4. /\ {"created", "failed", "unknown_external"} \subseteq States
        /\ "created" \notin OpenStates
    BY DEF States, OpenStates, TerminalStates
  <2> HIDE DEF m, n
  <2>5. CASE UNCHANGED <<journal, promised>>
    BY <2>1, <2>5 DEF Invisible, permitVars, OpenClaim
  <2>6. CASE ~UNCHANGED <<journal, promised>>
    <3>1. Promise!Conclude(m) \/ Invisible
      BY <1>0, <2>1, <2>2, <2>3, <2>4, <2>6, Concluded
    <3>2. QED
      BY <2>1, <3>1 DEF Promise!Next
  <2>7. QED
    BY <2>5, <2>6
<1>8. QED
  BY <1>1, <1>2, <1>3, <1>4, <1>5, <1>6, <1>7 DEF Request

LEMMA RunKeepsPermits ==
  ASSUME HistoryInv, NEW r \in Runs,
         Look(r) \/ Write(r) \/ AbortRun(r) \/ StartOperatorRun(r) \/ FinishOperatorRun(r)
  PROVE  Promise!Next \/ Invisible
<1>0. TypeInv /\ ClaimInv
  BY DEF HistoryInv, Inv
<1>1. CASE Look(r) \/ AbortRun(r) \/ StartOperatorRun(r) \/ FinishOperatorRun(r)
  BY <1>1 DEF Look, Skip, Observe, AbortRun, StartOperatorRun, FinishOperatorRun,
              Invisible, permitVars, OpenClaim
<1>2. CASE Write(r)
  <2>1. UNCHANGED <<clock, issued, attempt, discord, promised>>
    BY <1>2 DEF Write, Settle, ClosePending
  <2>2. \/ UNCHANGED journal
        \/ \E m \in Messages, to \in {"created", "unknown_external", "manual_review"} :
              journal[m].state \in OpenStates /\ journal' = Moved(m, to, run[r].now)
    <3>1. ASSUME NEW s \in run[r].todo, ClosePending(r, s)
          PROVE  s.msg \in Messages /\ journal[s.msg].state \in OpenStates
                 /\ journal' = Moved(s.msg, "manual_review", run[r].now)
      <4>1. s.msg \in Messages
        BY <1>0, PartTypes DEF RunState
      <4>2. QED
        BY <3>1, <4>1 DEF ClosePending, MayLeave
    <3>2. ASSUME Settle(r)
          PROVE  \/ UNCHANGED journal
                 \/ /\ run[r].msg \in Messages /\ journal[run[r].msg].state \in OpenStates
                    /\ \E to \in {"created", "unknown_external", "manual_review"} :
                          journal' = Moved(run[r].msg, to, run[r].now)
      <4>1. run[r].msg \in Messages
        BY <1>0, <3>2 DEF Settle, TypeInv, Busy
      <4>2. QED
        BY <3>2, <4>1 DEF Settle, MayLeave, OpenStates
    <3>3. QED
      BY <1>2, <3>1, <3>2 DEF Write
  <2>3. {"created", "unknown_external", "manual_review"} \subseteq States
    BY DEF States, OpenStates, TerminalStates
  <2>4. CASE UNCHANGED journal
    BY <2>1, <2>4 DEF Invisible, permitVars, OpenClaim
  <2>5. ASSUME NEW m \in Messages, NEW to \in {"created", "unknown_external", "manual_review"},
               journal[m].state \in OpenStates, journal' = Moved(m, to, run[r].now)
        PROVE  Promise!Next \/ Invisible
    <3>1. Promise!Conclude(m) \/ Invisible
      BY <1>0, <2>1, <2>3, <2>5, Concluded
    <3>2. QED
      BY <3>1 DEF Promise!Next
  <2>6. QED
    BY <2>2, <2>4, <2>5
<1>3. QED
  BY <1>1, <1>2

LEMMA HostKeepsPermits ==
  ASSUME HistoryInv,
         \/ External \/ Tick \/ AlarmTick \/ StartMaintenance \/ FinishMaintenance
         \/ Lifecycle
  PROVE  Promise!Next \/ Invisible
<1>0. TypeInv /\ ClaimInv
  BY DEF HistoryInv, Inv
<1>1. CASE AlarmTick \/ StartMaintenance \/ Lifecycle
  BY <1>1 DEF AlarmTick, StartMaintenance, Lifecycle, GatewayStops, Reload, RestartOverdue,
              Crash, InterruptGateway, Invisible, permitVars, OpenClaim
<1>2. ASSUME NEW m \in Messages, UserStartsThread(m)
      PROVE  Promise!Next
  <2>1. Promise!Appear(m)
    BY <1>2 DEF UserStartsThread, Promise!Appear, OpenClaim
  <2>2. QED
    BY <2>1 DEF Promise!Next
<1>3. ASSUME NEW m \in Messages, NEW n \in Tokens, Accept(m, n) \/ Reject(m, n)
      PROVE  Promise!Next
  <2>1. n <= issued[m]
    <3>1. issued[m] \in Nat /\ n \in Nat
      BY <1>0, PartTypes DEF Tokens
    <3>2. QED
      BY <1>0, <1>3, <3>1 DEF Accept, Reject, ClaimInv
  <2>2. OpenClaim' = OpenClaim
    BY <1>3 DEF Accept, Reject, OpenClaim
  <2>3. Promise!Accept(m, n) \/ Promise!Refuse(m, n)
    BY <1>3, <2>1, <2>2 DEF Accept, Reject, Promise!Accept, Promise!Refuse, Promise!Requested
  <2>4. QED
    BY <2>3 DEF Promise!Next
<1>4. CASE Tick
  <2>1. Promise!Wait
    BY <1>0, <1>4, PartTypes DEF Tick, Promise!Wait, OpenClaim
  <2>2. QED
    BY <2>1 DEF Promise!Next
<1>5. CASE FinishMaintenance
  <2>1. ASSUME NEW m \in Messages
        PROVE  OpenClaim'[m] = OpenClaim[m]
    <3>1. journal'[m] = journal[m] \/ (journal[m].state \in TerminalStates /\ journal'[m] = NoRow)
      BY <1>5 DEF FinishMaintenance, Expired
    <3>2. QED
      BY <3>1 DEF OpenClaim, OpenStates, TerminalStates, NoRow
  <2>2. OpenClaim' = OpenClaim
    BY <2>1 DEF OpenClaim
  <2>3. QED
    BY <1>5, <2>2 DEF FinishMaintenance, Invisible, permitVars
<1>6. QED
  BY <1>1, <1>2, <1>3, <1>4, <1>5 DEF External

\* Journal, workflows, reconciliation and hosts implement ThreadPermits, for any
\* number of them: every step gives, spends, answers or concludes a permit, tells
\* of a thread that exists, or is invisible.
THEOREM ThreadsKeepTheirPermits == Spec => PermitsAreKept
<1>1. Init => Promise!Init
  <2>1. Init => OpenClaim = [m \in Messages |-> 0]
    BY DEF Init, OpenClaim, NoRow, OpenStates
  <2>2. QED
    BY <2>1 DEF Init, Promise!Init, NoAttempt
<1>2. HistoryInv /\ [Next]_vars => [Promise!Next]_(Promise!abstractVars)
  <2>1. Invisible => UNCHANGED Promise!abstractVars
    BY DEF Invisible, permitVars, Promise!abstractVars
  <2>2. UNCHANGED vars => Invisible
    BY DEF vars, Invisible, permitVars, OpenClaim
  <2>3. HistoryInv /\ Next => Promise!Next \/ Invisible
    BY WorkerKeepsPermits, RunKeepsPermits, HostKeepsPermits DEF Next
  <2>4. QED
    BY <2>1, <2>2, <2>3
<1>3. QED
  BY HistoryInit, HistoryStep, <1>1, <1>2, PTL DEF Spec, PermitsAreKept, Promise!Spec
-----------------------------------------------------------------------------
(* The start of a Node process                                             *)

\* A Node process serves once the startup recovery of its journal is complete;
\* until then nobody but that recovery is at work.
NodeInv ==
    /\ startupDone = serving
    /\ serving => recovered = "done" /\ run[Alarm].policy # "close-interrupted"
    /\ ~serving =>
          /\ \A w \in Workers : worker[w] = Idle
          /\ \A r \in Operators : run[r].pc = "idle"
          /\ run[Alarm].pc # "idle" =>
                run[Alarm].policy = "close-interrupted" /\ recovered = "started"

LEMMA NodeInit == Init => NodeInv
<1> SUFFICES ASSUME Init PROVE NodeInv
  OBVIOUS
<1>1. \A r \in Runs : run[r].pc = "idle"
  BY DEF Init, NoRun
<1>2. \A w \in Workers : worker[w] = Idle
  BY DEF Init
<1>3. serving = FALSE /\ startupDone = FALSE
  BY DEF Init
<1>4. QED
  BY <1>1, <1>2, <1>3 DEF NodeInv, Runs

\* A request is at work only while its process serves.
LEMMA RequestsAreServed ==
  ASSUME NodeInv, NEW w \in Workers, Request(w)
  PROVE  serving /\ UNCHANGED <<run, hostVars, recovered>>
<1>1. UNCHANGED <<run, hostVars, recovered>>
  BY DEF Request, ArriveSatisfied, Arrive, Join, Acquire, ClaimRefused, MarkCreating,
         MarkCreatingFails, Submit, RecordCreated, RecordFailed, RecordUnknown
<1>2. serving \/ worker[w].pc # "idle"
  BY DEF Request, ArriveSatisfied, Arrive, MayArrive, Join, Acquire, ClaimRefused, Claiming,
         MarkCreating, MarkCreatingFails, Submit, RecordCreated, RecordFailed, RecordUnknown,
         Answered
<1>3. QED
  BY <1>1, <1>2 DEF NodeInv, Idle

\* What a run does to the runs, and who may be at it.
LEMMA RunsAtWork ==
  ASSUME TypeInv, NEW r \in Runs,
         Look(r) \/ Write(r) \/ AbortRun(r) \/ StartOperatorRun(r) \/ FinishOperatorRun(r)
  PROVE  /\ UNCHANGED <<worker, hostVars, recovered>>
         /\ \A q \in Runs \ {r} : run'[q] = run[q]
         /\ \/ run[r].pc # "idle" /\ (run'[r] = NoRun \/ run'[r].policy = run[r].policy)
            \/ r \in Operators /\ serving
<1>0. run \in [Runs -> RunState] /\ run[r] \in RunState
  BY DEF TypeInv, TypeOK
<1>1. ASSUME NEW s \in run[r].todo, Skip(r, s) \/ Observe(r, s) \/ ClosePending(r, s)
      PROVE  /\ UNCHANGED <<worker, hostVars, recovered>>
             /\ \A q \in Runs \ {r} : run'[q] = run[q]
             /\ run[r].pc # "idle" /\ run'[r].policy = run[r].policy
  <2>1. run[r].pc # "idle" /\ UNCHANGED <<worker, hostVars, recovered>>
    BY <1>1 DEF Skip, Observe, ClosePending, Upcoming
  <2>2. CASE Skip(r, s) \/ ClosePending(r, s)
    BY <1>0, <2>1, <2>2 DEF Skip, ClosePending, RunState
  <2>3. CASE Observe(r, s)
    BY <1>0, <2>1, <2>3 DEF Observe, RunState
  <2>4. QED
    BY <1>1, <2>1, <2>2, <2>3
<1>2. CASE Settle(r)
  BY <1>0, <1>2 DEF Settle, Settled, RunState
<1>3. CASE AbortRun(r) \/ FinishOperatorRun(r)
  BY <1>0, <1>3 DEF AbortRun, FinishOperatorRun
<1>4. CASE StartOperatorRun(r)
  BY <1>0, <1>4 DEF StartOperatorRun, Selected
<1>5. QED
  BY <1>1, <1>2, <1>3, <1>4 DEF Look, Write

LEMMA NodeStep ==
  ASSUME host = "node", TypeInv, NodeInv, [Next]_vars
  PROVE  NodeInv'
<1>0. run \in [Runs -> RunState] /\ Alarm \in Runs /\ serving \in BOOLEAN
  BY DEF TypeInv, TypeOK, Runs
<1>1. ASSUME NEW w \in Workers, Request(w) PROVE NodeInv'
  BY <1>1, RequestsAreServed DEF NodeInv, hostVars
<1>2. CASE External \/ Tick \/ UNCHANGED vars
  <2>1. UNCHANGED <<worker, run, hostVars, recovered>>
    BY <1>2 DEF External, Accept, Reject, UserStartsThread, Tick, vars, hostVars
  <2>2. QED
    BY <2>1 DEF NodeInv, hostVars
<1>3. CASE StartMaintenance
  <2>1. /\ startupDone' = startupDone /\ serving' = serving /\ worker' = worker
        /\ \A r \in Operators : run'[r] = run[r]
        /\ run'[Alarm].policy = IF startupDone THEN "stale-only" ELSE "close-interrupted"
        /\ recovered' = IF startupDone THEN recovered ELSE "started"
    BY <1>0, <1>3 DEF StartMaintenance, Selected, NoRun, Runs, TypeInv, TypeOK
  <2>2. QED
    BY <2>1 DEF NodeInv
<1>4. CASE FinishMaintenance
  <2>1. /\ startupDone' = TRUE /\ serving' = TRUE /\ run'[Alarm] = NoRun
        /\ run[Alarm].pc = "select"
        /\ recovered' = IF run[Alarm].policy = "close-interrupted" /\ recovered = "started"
                        THEN "done" ELSE recovered
    BY <1>0, <1>4 DEF FinishMaintenance, TypeInv, TypeOK
  <2>2. QED
    BY <2>1 DEF NodeInv, NoRun
<1>5. ASSUME NEW r \in Runs,
             Look(r) \/ Write(r) \/ AbortRun(r) \/ StartOperatorRun(r) \/ FinishOperatorRun(r)
      PROVE  NodeInv'
  <2>1. r = Alarm \/ r \in Operators
    BY DEF Runs
  <2>2. QED
    BY <1>5, <2>1, RunsAtWork DEF NodeInv, NoRun, hostVars, Runs
<1>6. CASE Crash
  BY <1>6 DEF Crash, NewGeneration, NodeInv, NoRun, Runs
<1>7. ~AlarmTick /\ ~GatewayStops /\ ~Reload /\ ~RestartOverdue
      /\ \A w \in GatewayWorkers : ~InterruptGateway(w)
  BY DEF AlarmTick, GatewayStops, Reload, RestartOverdue, InterruptGateway
<1>8. QED
  BY <1>1, <1>2, <1>3, <1>4, <1>5, <1>6, <1>7 DEF Next, Lifecycle

\* A deployment does not change its host.
LEMMA HostStays == [Next]_vars => host' = host
<1>1. ASSUME NEW w \in Workers, Request(w) PROVE host' = host
  BY <1>1
  DEF hostVars, Request, ArriveSatisfied, Arrive, Join, Acquire, ClaimRefused, MarkCreating,
      MarkCreatingFails, Submit, RecordCreated, RecordFailed, RecordUnknown
<1>2. ASSUME NEW r \in Runs,
             Look(r) \/ Write(r) \/ AbortRun(r) \/ StartOperatorRun(r) \/ FinishOperatorRun(r)
      PROVE  host' = host
  BY <1>2
  DEF hostVars, Look, Write, Skip, Observe, ClosePending, Settle, AbortRun, StartOperatorRun,
      FinishOperatorRun
<1>3. QED
  BY <1>1, <1>2
  DEF Next, vars, hostVars, External, Accept, Reject, UserStartsThread, Tick, AlarmTick,
      StartMaintenance, FinishMaintenance, Lifecycle, GatewayStops, Reload, RestartOverdue,
      Crash, InterruptGateway

OnNode == host = "node" => NodeInv

LEMMA NodeInvariance == Spec => [](TypeInv /\ OnNode)
<1>1. Init => TypeInv /\ OnNode
  BY TypeInit, NodeInit DEF OnNode
<1>2. TypeInv /\ OnNode /\ [Next]_vars => (TypeInv /\ OnNode)'
  BY TypeStep, NodeStep, HostStays DEF OnNode
<1>3. QED
  BY <1>1, <1>2, PTL DEF Spec

\* On Node nothing is claimed, hence no thread requested, before the recovery
\* of the journal is complete, in every process and after every crash.
THEOREM NodeRecoversFirst == Spec => NodeRecoversBeforeMutation
<1>1. ASSUME OnNode, host = "node", [Next]_vars, NEW m \in Messages, issued'[m] # issued[m]
      PROVE  recovered = "done"
  <2>1. \E w \in Workers : Acquire(w)
    <3>1. ASSUME NEW r \in Runs, Look(r) \/ Write(r) PROVE UNCHANGED issued
      BY <3>1 DEF Look, Write, Skip, Observe, Settle, ClosePending
    <3>2. UNCHANGED issued \/ \E w \in Workers : Acquire(w)
      BY <1>1, <3>1
      DEF Next, vars, Request, ArriveSatisfied, Arrive, Join, ClaimRefused, MarkCreating,
          MarkCreatingFails, Submit, RecordCreated, RecordFailed, RecordUnknown, External,
          Accept, Reject, UserStartsThread, Tick, AlarmTick, StartMaintenance,
          FinishMaintenance, AbortRun, StartOperatorRun, FinishOperatorRun, Lifecycle,
          GatewayStops, Reload, RestartOverdue, Crash, InterruptGateway
    <3>3. QED
      BY <1>1, <3>2
  <2>2. QED
    BY <1>1, <2>1, RequestsAreServed DEF OnNode, NodeInv, Request
<1>2. OnNode /\ [Next]_vars => [host = "node" => RecoveryIsFirst]_vars
  BY <1>1 DEF RecoveryIsFirst
<1>3. QED
  BY NodeInvariance, <1>2, PTL DEF Spec, NodeRecoversBeforeMutation

\* On Node a claim that startup recovery closes, or observes, is held by nobody:
\* the process that claimed it is gone and no handler is registered yet.
THEOREM NodeClosesDeadClaims == Spec => ClosedClaimWasDead
<1>1. ASSUME TypeInv, OnNode, host = "node", NEW m \in Messages, NEW w \in Workers,
             run[Alarm].policy = "close-interrupted", worker[w].msg = m
      PROVE  FALSE
  BY <1>1 DEF OnNode, NodeInv, Idle
<1>2. TypeInv /\ OnNode =>
        [\A m \in Messages :
           (/\ host = "node" /\ AlarmStep
            /\ run[Alarm].policy = "close-interrupted"
            /\ journal'[m] # journal[m])
           => \A w \in Workers :
                  worker[w].msg = m => worker[w].token # journal[m].token]_vars
  BY <1>1
<1>3. QED
  BY NodeInvariance, <1>2, PTL DEF Spec, ClosedClaimWasDead

\* The open rows fit into one reconciliation batch: what lies beyond its limit is
\* left to the next run, after the handlers were registered: without this the
\* theorem below is false, as the run finding_batch_limit shows.
OpenRowsFit == IsFiniteSet(OpenRows) /\ Cardinality(OpenRows) <= Limit

\* What the startup recovery has not closed yet is still ahead of it.
PendingTaken ==
    ~serving /\ run[Alarm].pc # "idle" =>
        \A m \in Messages : journal[m].state = "pending" =>
            \E s \in run[Alarm].todo : s.msg = m /\ s.row.state = "pending"

LEMMA TakenInit == Init => PendingTaken
  BY DEF Init, PendingTaken, NoRow

\* A batch leaves nothing out if everything fits.
LEMMA WholeBatch ==
  ASSUME OpenRowsFit, NEW B \in Batches(OpenRows)
  PROVE  B = OpenRows
<1>1. B \subseteq OpenRows /\ (B = OpenRows \/ Cardinality(B) = Limit)
  BY DEF Batches
<1>2. /\ Cardinality(B) \in Nat /\ Cardinality(OpenRows) \in Nat
      /\ Cardinality(B) <= Cardinality(OpenRows)
      /\ Cardinality(OpenRows) = Cardinality(B) => B = OpenRows
  <2>1. IsFiniteSet(OpenRows) /\ IsFiniteSet(B)
    BY <1>1, FS_Subset DEF OpenRowsFit
  <2>2. QED
    BY <1>1, <2>1, FS_Subset, FS_CardinalityType
<1>3. QED
  BY <1>1, <1>2 DEF OpenRowsFit

LEMMA TakenStep ==
  ASSUME host = "node", TypeInv, NodeInv, OpenRowsFit, PendingTaken, [Next]_vars
  PROVE  PendingTaken'
<1>0. /\ run \in [Runs -> RunState] /\ Alarm \in Runs /\ run[Alarm] \in RunState
      /\ journal \in [Messages -> Row] /\ serving \in BOOLEAN
  BY DEF TypeInv, TypeOK, Runs
<1>1. ASSUME NEW w \in Workers, Request(w) PROVE PendingTaken'
  BY <1>1, RequestsAreServed DEF PendingTaken, hostVars
<1>2. CASE External \/ Tick \/ UNCHANGED vars
  <2>1. UNCHANGED <<run, hostVars, journal>>
    BY <1>2 DEF External, Accept, Reject, UserStartsThread, Tick, vars, hostVars
  <2>2. QED
    BY <2>1 DEF PendingTaken, hostVars
<1>3. CASE StartMaintenance
  <2>1. PICK B \in Batches(OpenRows) : \E policy : Selected(Alarm, policy, B)
    BY <1>3 DEF StartMaintenance
  <2>2. run'[Alarm].todo = Snapshot(OpenRows)
    BY <1>0, <2>1, WholeBatch DEF Selected, NoRun
  <2>3. ASSUME NEW m \in Messages, journal[m].state = "pending"
        PROVE  \E s \in Snapshot(OpenRows) : s.msg = m /\ s.row.state = "pending"
    <3>1. [msg |-> m, row |-> journal[m]] \in Snapshot(OpenRows)
      BY <2>3 DEF Snapshot, OpenRows, OpenStates
    <3>2. QED
      BY <2>3, <3>1
  <2>4. journal' = journal
    BY <1>3 DEF StartMaintenance
  <2>5. QED
    BY <2>2, <2>3, <2>4 DEF PendingTaken
<1>4. CASE FinishMaintenance
  <2>1. serving'
    BY <1>4 DEF FinishMaintenance
  <2>2. QED
    BY <2>1 DEF PendingTaken
<1>5. ASSUME NEW r \in Operators,
             Look(r) \/ Write(r) \/ AbortRun(r) \/ StartOperatorRun(r) \/ FinishOperatorRun(r)
      PROVE  PendingTaken'
  <2>1. r \in Runs
    BY DEF Runs
  <2>2. serving /\ serving' = serving
    BY <1>5, <2>1, RunsAtWork DEF NodeInv, hostVars
  <2>3. QED
    BY <2>2 DEF PendingTaken
<1>6. ASSUME NEW s \in run[Alarm].todo, ~serving, ~serving',
             Skip(Alarm, s) \/ Observe(Alarm, s) \/ ClosePending(Alarm, s)
      PROVE  PendingTaken'
  <2>1. run[Alarm].pc = "select" /\ run[Alarm].policy = "close-interrupted"
    BY <1>6 DEF NodeInv, Skip, Observe, ClosePending, Upcoming
  <2>2. run'[Alarm].todo = run[Alarm].todo \ {s}
    <3>1. CASE Skip(Alarm, s) \/ ClosePending(Alarm, s)
      BY <1>0, <3>1 DEF Skip, ClosePending, RunState
    <3>2. CASE Observe(Alarm, s)
      BY <1>0, <3>2 DEF Observe, RunState
    <3>3. QED
      BY <1>6, <3>1, <3>2
  <2>3. CASE s.row.state # "pending" /\ journal' = journal
    BY <1>6, <2>1, <2>2, <2>3 DEF PendingTaken
  <2>4. CASE ClosePending(Alarm, s)
    <3>1. /\ \A m \in Messages : m # s.msg => journal'[m] = journal[m]
          /\ s.msg \in Messages => journal'[s.msg].state = "manual_review"
      BY <1>0, <2>4 DEF ClosePending, Moved, Row
    <3>2. QED
      BY <1>6, <2>1, <2>2, <3>1 DEF PendingTaken
  <2>5. QED
    BY <1>6, <2>1, <2>3, <2>4 DEF Skip, Observe, LeftToOwner
<1>7. CASE Settle(Alarm)
  <2>1. run[Alarm].pc = "observed" /\ run'[Alarm].todo = run[Alarm].todo /\ serving' = serving
    BY <1>0, <1>7 DEF Settle, Settled, hostVars
  <2>2. \A m \in Messages : journal'[m].state = "pending" => journal[m].state = "pending"
    <3>1. \/ UNCHANGED journal
          \/ \E to \in {"created", "manual_review", "unknown_external"} :
                journal' = Moved(run[Alarm].msg, to, run[Alarm].now)
      BY <1>7 DEF Settle
    <3>2. ASSUME NEW m \in Messages, NEW to \in {"created", "manual_review", "unknown_external"},
                 journal' = Moved(run[Alarm].msg, to, run[Alarm].now)
          PROVE  journal'[m] = journal[m] \/ journal'[m].state = to
      BY <1>0, <3>2 DEF Moved, Row
    <3>3. QED
      BY <3>1, <3>2
  <2>3. QED
    BY <2>1, <2>2 DEF PendingTaken
<1>8. CASE AbortRun(Alarm) \/ StartOperatorRun(Alarm) \/ FinishOperatorRun(Alarm) \/ Crash
  BY <1>0, <1>8 DEF AbortRun, StartOperatorRun, FinishOperatorRun, Crash, PendingTaken, NoRun, Runs
<1>9. ~AlarmTick /\ ~GatewayStops /\ ~Reload /\ ~RestartOverdue
      /\ \A w \in GatewayWorkers : ~InterruptGateway(w)
  BY DEF AlarmTick, GatewayStops, Reload, RestartOverdue, InterruptGateway
<1>10. CASE serving'
  BY <1>10 DEF PendingTaken
<1>11. CASE serving /\ ~serving'
  <2>1. Crash
    <3>1. ASSUME NEW r \in Runs,
                 \/ Look(r) \/ Write(r) \/ AbortRun(r) \/ StartOperatorRun(r)
                 \/ FinishOperatorRun(r)
          PROVE  serving' = serving
      BY <3>1, RunsAtWork DEF hostVars
    <3>2. External \/ Tick \/ UNCHANGED vars \/ StartMaintenance => serving' = serving
      BY DEF External, Accept, Reject, UserStartsThread, Tick, vars, hostVars, StartMaintenance
    <3>3. FinishMaintenance => serving'
      BY DEF FinishMaintenance
    <3>4. \A w \in Workers : Request(w) => serving' = serving
      BY RequestsAreServed DEF hostVars
    <3>5. QED
      BY <1>9, <1>11, <3>1, <3>2, <3>3, <3>4 DEF Next, Lifecycle
  <2>2. QED
    BY <1>8, <2>1
<1>12. CASE ~serving /\ ~serving'
  BY <1>1, <1>2, <1>3, <1>4, <1>5, <1>6, <1>7, <1>8, <1>9, <1>12
  DEF Next, Lifecycle, Runs, Look, Write
<1>13. QED
  BY <1>0, <1>10, <1>11, <1>12

\* When a Node process registers its handlers no pending claim of an earlier
\* process is left, as long as the open rows fit into one batch.
THEOREM NodeClosesPendingFirst == Spec /\ []OpenRowsFit => PendingClosedBeforeServing
<1>1. ASSUME TypeInv, host = "node", NodeInv, PendingTaken, [Next]_vars, ~serving, serving',
             NEW m \in Messages
      PROVE  journal'[m].state # "pending"
  <2>1. FinishMaintenance
    <3>1. ASSUME NEW r \in Runs,
                 \/ Look(r) \/ Write(r) \/ AbortRun(r) \/ StartOperatorRun(r)
                 \/ FinishOperatorRun(r)
          PROVE  serving' = serving
      BY <3>1, RunsAtWork, <1>1 DEF hostVars
    <3>2. External \/ Tick \/ UNCHANGED vars \/ StartMaintenance => serving' = serving
      BY DEF External, Accept, Reject, UserStartsThread, Tick, vars, hostVars, StartMaintenance
    <3>3. Lifecycle \/ AlarmTick => ~serving'
      BY <1>1 DEF Lifecycle, GatewayStops, Reload, RestartOverdue, Crash, InterruptGateway,
                  NewGeneration, AlarmTick
    <3>4. \A w \in Workers : Request(w) => serving' = serving
      BY <1>1, RequestsAreServed DEF hostVars
    <3>5. QED
      BY <1>1, <3>1, <3>2, <3>3, <3>4 DEF Next
  <2>2. journal[m].state # "pending"
    BY <1>1, <2>1 DEF FinishMaintenance, PendingTaken
  <2>3. QED
    BY <2>1, <2>2 DEF FinishMaintenance, NoRow
<1>2. TypeInv /\ OnNode /\ (host = "node" => PendingTaken) /\ [Next]_vars =>
        [host = "node" /\ ~serving /\ serving' =>
             \A m \in Messages : journal'[m].state # "pending"]_vars
  BY <1>1 DEF OnNode
<1>3. TypeInv /\ OnNode /\ OpenRowsFit /\ (host = "node" => PendingTaken) /\ [Next]_vars =>
        (host = "node" => PendingTaken)'
  BY TakenStep, HostStays DEF OnNode
<1>4. Init => (host = "node" => PendingTaken)
  BY TakenInit
<1>5. QED
  BY NodeInvariance, <1>2, <1>3, <1>4, PTL DEF Spec, PendingClosedBeforeServing
=============================================================================
