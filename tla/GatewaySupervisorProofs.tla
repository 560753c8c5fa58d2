---------------------- MODULE GatewaySupervisorProofs ----------------------
(***************************************************************************)
(* For every bound on sessions, dispatches, losses and outages: the types  *)
(* of the supervisor, that a dead attempt is never reported ready, that a  *)
(* session given up stays given up, and that what was buffered when an     *)
(* attempt ended is checkpointed before the next one begins.               *)
(***************************************************************************)
EXTENDS GatewaySupervisor, TLAPS

-----------------------------------------------------------------------------
(* The inductive invariant                                                 *)

\* Between attempts there is neither a session fiber nor anything to record.
Connected == {"attempt", "gate", "join", "drain"}

AttemptShape ==
    /\ pc \notin Connected => shard = "off" /\ socket = "off" /\ resume = NoSession
    /\ socket # "off" => shard # "off"
    /\ pc \notin Connected \cup {"unwind"} => pump = Idle /\ inbox = << >>

\* Who holds the lock, and that it is had only by a live attempt.
GateShape ==
    /\ live => pc \in {"sync", "attempt", "gate", "unwind"}
    /\ pump.pc = "announce" => lock = "pump" /\ live
    /\ shard = "marking" => lock = "shard"

\* Everything that may still be written to the store was not given up.
NotRetired(s) == s.id <= opened /\ s.id \notin retired

WritersShape ==
    /\ retired \subseteq 1..opened
    /\ NotRetired(store) /\ NotRetired(resume) /\ NotRetired(pump.session)
    /\ \A i \in 1..Len(inbox) : NotRetired(inbox[i])
    /\ mode.id <= opened
    /\ pc = "sync" => mode.id \notin retired

\* The last of the first n buffered checkpoints, or else the one recorded.
LastOf(n) == IF n = 0 THEN latest.id ELSE inbox[n].id

BufferShape ==
    /\ pc \in {"sync", "attempt", "gate", "join"} => heard = LastOf(Len(inbox))
    /\ pc = "drain" => left <= Len(inbox) /\ heard = LastOf(left)
    /\ pc = "settle" => heard = latest.id
    /\ pc \in Connected \cup {"sync", "settle"} =>
           IF pump = Idle THEN kept = latest.id ELSE pump.session.id = latest.id

IInv == TypeOK /\ AttemptShape /\ GateShape /\ ReadyIsLive /\ WritersShape /\ BufferShape
-----------------------------------------------------------------------------
(* Types                                                                   *)

LEMMA Sessions0 == NoSession \in Sessions /\ NoSession.id = 0 /\ NoSession.seq = 0
BY SupervisorAssumption DEF NoSession, Sessions

LEMMA Idle0 ==
    /\ Idle \in [pc : {"idle", "gate", "announce", "save", "saveReady"}, session : Sessions]
    /\ Idle.pc = "idle" /\ Idle.session = NoSession
BY Sessions0 DEF Idle

\* What the fields of a session and the buffer are.
LEMMA Fields ==
    ASSUME SessionTypes
    PROVE  /\ \A s \in Sessions : s.id \in 0..MaxSessions /\ s.seq \in 0..MaxSeq
           /\ pump.session \in Sessions
           /\ \A i \in 1..Len(inbox) : inbox[i] \in Sessions
           /\ inbox # << >> => /\ Head(inbox) \in Sessions /\ Head(inbox) = inbox[1]
                               /\ Tail(inbox) \in Seq(Sessions) /\ Len(inbox) \in Nat \ {0}
<1>1. \A s \in Sessions : s.id \in 0..MaxSessions /\ s.seq \in 0..MaxSeq
  BY DEF Sessions
<1>2. pump.session \in Sessions /\ inbox \in Seq(Sessions)
  BY DEF SessionTypes
<1>3. QED
  BY <1>1, <1>2

LEMMA InitTypeOK == Init => TypeOK
<1> SUFFICES ASSUME Init PROVE TypeOK
  OBVIOUS
<1>1. SessionTypes
  BY Sessions0, Idle0 DEF Init, SessionTypes
<1>2. ControlTypes
  <2>1. queue \in Seq({"Connecting", "Ready", "Resumed", "Disconnected"})
    BY DEF Init
  <2>2. QED
    BY <2>1 DEF Init, ControlTypes
<1>3. CountTypes
  <2>1. /\ opened = 0 /\ losses = 0 /\ slips = 0 /\ outages = 0 /\ left = 0
        /\ heard = 0 /\ kept = 0 /\ retired = {}
    BY DEF Init
  <2>2. lost \in BOOLEAN
    BY DEF Init
  <2>3. QED
    BY <2>1, <2>2, SupervisorAssumption DEF CountTypes
<1>4. QED
  BY <1>1, <1>2, <1>3 DEF TypeOK

LEMMA StepSessionTypes ==
    SessionTypes /\ CountTypes /\ [Next]_vars => SessionTypes'
<1> SUFFICES ASSUME SessionTypes, CountTypes, [Next]_vars
             PROVE  SessionTypes'
  OBVIOUS
<1> USE Sessions0, Idle0, SupervisorAssumption
    DEF SessionTypes, CountTypes,
        runner, attempt, dfx, bounds, history
<1>0. /\ \A s \in Sessions : s.id \in 0..MaxSessions /\ s.seq \in 0..MaxSeq
      /\ pump.session \in Sessions
      /\ inbox # << >> => Head(inbox) \in Sessions /\ Tail(inbox) \in Seq(Sessions)
  BY Fields
<1>1. CASE Start
  BY <1>1, <1>0 DEF Start
<1>2. CASE Load
  BY <1>2, <1>0 DEF Load
<1>3. CASE Sync
  BY <1>3, <1>0 DEF Sync
<1>4. CASE SessionEnds
  BY <1>4, <1>0 DEF SessionEnds
<1>5. CASE CloseGate
  BY <1>5, <1>0 DEF CloseGate
<1>6. CASE StartDrain
  BY <1>6, <1>0 DEF StartDrain
<1>7. CASE CloseScope
  BY <1>7, <1>0 DEF CloseScope, NoShard
<1>8. CASE Settle
  BY <1>8, <1>0 DEF Settle
<1>9. CASE Retry
  BY <1>9, <1>0 DEF Retry, NoAttempt
<1>10. CASE Unwound
  BY <1>10, <1>0 DEF Unwound, NoAttempt
<1>11. CASE TimeOut
  BY <1>11, <1>0 DEF TimeOut, Attempting
<1>12. CASE Take
  BY <1>12, <1>0 DEF Take, Attempting
<1>13. CASE EnterGate
  BY <1>13, <1>0 DEF EnterGate
<1>14. CASE PublishReady
  BY <1>14, <1>0 DEF PublishReady
<1>15. CASE Save
  BY <1>15, <1>0 DEF Save, Attempting
<1>16. CASE EmitEstablished
  BY <1>16, <1>0 DEF EmitEstablished
<1>17. CASE IgnoreConnecting
  BY <1>17, <1>0 DEF IgnoreConnecting
<1>18. CASE EmitDisconnected
  BY <1>18, <1>0 DEF EmitDisconnected
<1>19. CASE DisconnectRecorded
  BY <1>19, <1>0 DEF DisconnectRecorded
<1>20. CASE Open
  BY <1>20, <1>0 DEF Open
<1>21. CASE Identified
  <2>1. resume' = [id |-> opened + 1, seq |-> 0] /\ opened + 1 \in 0..MaxSessions
    BY <1>21 DEF Identified
  <2>2. resume' \in Sessions
    BY <2>1 DEF Sessions
  <2>3. QED
    BY <1>21, <2>2 DEF Identified
<1>22. CASE Resumed
  BY <1>22, <1>0 DEF Resumed
<1>23. CASE Rejected
  BY <1>23, <1>0 DEF Rejected
<1>24. CASE Dispatch
  <2>1. resume' = [id |-> resume.id, seq |-> resume.seq + 1]
    BY <1>24 DEF Dispatch, Sessions
  <2>2. resume.id \in 0..MaxSessions /\ resume.seq + 1 \in 0..MaxSeq
    <3>1. resume.id \in 0..MaxSessions /\ resume.seq \in 0..MaxSeq
      BY <1>0
    <3>2. resume.seq < MaxSeq
      BY <1>24 DEF Dispatch
    <3>3. QED
      BY <3>1, <3>2
  <2> HIDE DEF SessionTypes
  <2>3. resume' \in Sessions
    BY <2>1, <2>2 DEF Sessions
  <2> USE DEF SessionTypes
  <2>4. QED
    BY <1>24, <2>3 DEF Dispatch
<1>25. CASE Drop
  BY <1>25, <1>0 DEF Drop
<1>26. CASE ShardFails
  BY <1>26, <1>0 DEF ShardFails
<1>27. CASE TerminalClose
  BY <1>27, <1>0 DEF TerminalClose
<1>28. CASE Reset
  BY <1>28, <1>0 DEF Reset, Interrupt, NoShard
<1>29. CASE Overdue
  BY <1>29, <1>0 DEF Overdue, Interrupt, NoShard
<1>30. CASE Crash
  BY <1>30, <1>0 DEF Crash, NoAttempt, NoShard
<1>31. CASE UNCHANGED vars
  BY <1>31 DEF vars
<1>32. QED
  BY <1>1, <1>2, <1>3, <1>4, <1>5, <1>6, <1>7, <1>8, <1>9, <1>10, <1>11,
     <1>12, <1>13, <1>14, <1>15, <1>16, <1>17, <1>18, <1>19, <1>20, <1>21, <1>22,
     <1>23, <1>24, <1>25, <1>26, <1>27, <1>28, <1>29, <1>30, <1>31
     DEF Next, Runner, Pump, Shard, Discord

LEMMA StepControlTypes ==
    ControlTypes /\ [Next]_vars => ControlTypes'
<1> SUFFICES ASSUME ControlTypes, [Next]_vars
             PROVE  ControlTypes'
  OBVIOUS
<1> USE DEF ControlTypes,
        runner, attempt, dfx, bounds, history
<1>1. CASE Start
  BY <1>1 DEF Start
<1>2. CASE Load
  BY <1>2 DEF Load
<1>3. CASE Sync
  BY <1>3 DEF Sync
<1>4. CASE SessionEnds
  BY <1>4 DEF SessionEnds
<1>5. CASE CloseGate
  BY <1>5 DEF CloseGate
<1>6. CASE StartDrain
  BY <1>6 DEF StartDrain
<1>7. CASE CloseScope
  BY <1>7 DEF CloseScope, NoShard
<1>8. CASE Settle
  BY <1>8 DEF Settle
<1>9. CASE Retry
  BY <1>9 DEF Retry, NoAttempt
<1>10. CASE Unwound
  BY <1>10 DEF Unwound, NoAttempt
<1>11. CASE TimeOut
  BY <1>11 DEF TimeOut, Attempting
<1>12. CASE Take
  BY <1>12 DEF Take, Attempting
<1>13. CASE EnterGate
  BY <1>13 DEF EnterGate
<1>14. CASE PublishReady
  BY <1>14 DEF PublishReady
<1>15. CASE Save
  BY <1>15 DEF Save, Attempting
<1>16. CASE EmitEstablished
  BY <1>16 DEF EmitEstablished
<1>17. CASE IgnoreConnecting
  BY <1>17 DEF IgnoreConnecting
<1>18. CASE EmitDisconnected
  BY <1>18 DEF EmitDisconnected
<1>19. CASE DisconnectRecorded
  BY <1>19 DEF DisconnectRecorded
<1>20. CASE Open
  BY <1>20 DEF Open
<1>21. CASE Identified
  BY <1>21 DEF Identified
<1>22. CASE Resumed
  BY <1>22 DEF Resumed
<1>23. CASE Rejected
  BY <1>23 DEF Rejected
<1>24. CASE Dispatch
  BY <1>24 DEF Dispatch
<1>25. CASE Drop
  BY <1>25 DEF Drop
<1>26. CASE ShardFails
  BY <1>26 DEF ShardFails
<1>27. CASE TerminalClose
  BY <1>27 DEF TerminalClose
<1>28. CASE Reset
  BY <1>28 DEF Reset, Interrupt, NoShard
<1>29. CASE Overdue
  BY <1>29 DEF Overdue, Interrupt, NoShard
<1>30. CASE Crash
  <2>1. queue' \in Seq({"Connecting", "Ready", "Resumed", "Disconnected"})
    BY <1>30 DEF Crash, NoShard
  <2>2. QED
    BY <1>30, <2>1 DEF Crash, NoAttempt, NoShard
<1>31. CASE UNCHANGED vars
  BY <1>31 DEF vars
<1>32. QED
  BY <1>1, <1>2, <1>3, <1>4, <1>5, <1>6, <1>7, <1>8, <1>9, <1>10, <1>11,
     <1>12, <1>13, <1>14, <1>15, <1>16, <1>17, <1>18, <1>19, <1>20, <1>21, <1>22,
     <1>23, <1>24, <1>25, <1>26, <1>27, <1>28, <1>29, <1>30, <1>31
     DEF Next, Runner, Pump, Shard, Discord

LEMMA StepCountTypes ==
    SessionTypes /\ CountTypes /\ [Next]_vars => CountTypes'
<1> SUFFICES ASSUME SessionTypes, CountTypes, [Next]_vars
             PROVE  CountTypes'
  OBVIOUS
<1> USE Sessions0, SupervisorAssumption
    DEF SessionTypes, CountTypes,
        runner, attempt, dfx, bounds, history
<1>0. /\ \A s \in Sessions : s.id \in 0..MaxSessions /\ s.seq \in 0..MaxSeq
      /\ pump.session \in Sessions
      /\ inbox # << >> => Head(inbox) \in Sessions /\ Tail(inbox) \in Seq(Sessions)
  BY Fields
<1>1. CASE Start
  BY <1>1, <1>0 DEF Start
<1>2. CASE Load
  BY <1>2, <1>0 DEF Load
<1>3. CASE Sync
  BY <1>3, <1>0 DEF Sync
<1>4. CASE SessionEnds
  BY <1>4, <1>0 DEF SessionEnds
<1>5. CASE CloseGate
  BY <1>5, <1>0 DEF CloseGate
<1>6. CASE StartDrain
  BY <1>6, <1>0 DEF StartDrain
<1>7. CASE CloseScope
  BY <1>7, <1>0 DEF CloseScope, NoShard
<1>8. CASE Settle
  <2>1. retired' \subseteq retired \cup ({mode.id, store.id} \ {0})
    BY <1>8 DEF Settle
  <2>2. retired' \subseteq 1..MaxSessions
    BY <1>0, <2>1
  <2>3. UNCHANGED <<left, opened, losses, slips, outages, heard, kept, lost>>
    BY <1>8 DEF Settle
  <2>4. QED
    BY <2>2, <2>3
<1>9. CASE Retry
  BY <1>9, <1>0 DEF Retry, NoAttempt
<1>10. CASE Unwound
  BY <1>10, <1>0 DEF Unwound, NoAttempt
<1>11. CASE TimeOut
  BY <1>11, <1>0 DEF TimeOut, Attempting
<1>12. CASE Take
  BY <1>12, <1>0 DEF Take, Attempting
<1>13. CASE EnterGate
  BY <1>13, <1>0 DEF EnterGate
<1>14. CASE PublishReady
  BY <1>14, <1>0 DEF PublishReady
<1>15. CASE Save
  BY <1>15, <1>0 DEF Save, Attempting
<1>16. CASE EmitEstablished
  BY <1>16, <1>0 DEF EmitEstablished
<1>17. CASE IgnoreConnecting
  BY <1>17, <1>0 DEF IgnoreConnecting
<1>18. CASE EmitDisconnected
  BY <1>18, <1>0 DEF EmitDisconnected
<1>19. CASE DisconnectRecorded
  BY <1>19, <1>0 DEF DisconnectRecorded
<1>20. CASE Open
  BY <1>20, <1>0 DEF Open
<1>21. CASE Identified
  BY <1>21, <1>0 DEF Identified
<1>22. CASE Resumed
  BY <1>22, <1>0 DEF Resumed
<1>23. CASE Rejected
  BY <1>23, <1>0 DEF Rejected
<1>24. CASE Dispatch
  BY <1>24, <1>0 DEF Dispatch
<1>25. CASE Drop
  BY <1>25, <1>0 DEF Drop
<1>26. CASE ShardFails
  BY <1>26, <1>0 DEF ShardFails
<1>27. CASE TerminalClose
  BY <1>27, <1>0 DEF TerminalClose
<1>28. CASE Reset
  BY <1>28, <1>0 DEF Reset, Interrupt, NoShard
<1>29. CASE Overdue
  BY <1>29, <1>0 DEF Overdue, Interrupt, NoShard
<1>30. CASE Crash
  BY <1>30, <1>0 DEF Crash, NoAttempt, NoShard
<1>31. CASE UNCHANGED vars
  BY <1>31 DEF vars
<1>32. QED
  BY <1>1, <1>2, <1>3, <1>4, <1>5, <1>6, <1>7, <1>8, <1>9, <1>10, <1>11,
     <1>12, <1>13, <1>14, <1>15, <1>16, <1>17, <1>18, <1>19, <1>20, <1>21, <1>22,
     <1>23, <1>24, <1>25, <1>26, <1>27, <1>28, <1>29, <1>30, <1>31
     DEF Next, Runner, Pump, Shard, Discord

LEMMA StepTypeOK == TypeOK /\ [Next]_vars => TypeOK'
BY StepSessionTypes, StepControlTypes, StepCountTypes DEF TypeOK
-----------------------------------------------------------------------------
(* The gate                                                                *)

LEMMA StepGate ==
    ControlTypes /\ SessionTypes /\ AttemptShape /\ GateShape /\ ReadyIsLive /\ [Next]_vars
    => AttemptShape' /\ GateShape' /\ ReadyIsLive'
<1> SUFFICES ASSUME ControlTypes, SessionTypes, AttemptShape, GateShape, ReadyIsLive, [Next]_vars
             PROVE  AttemptShape' /\ GateShape' /\ ReadyIsLive'
  OBVIOUS
<1> USE Sessions0, Idle0
    DEF AttemptShape, GateShape, ReadyIsLive, Connected, SessionTypes,
        runner, attempt, dfx, bounds, history
<1>1. CASE Start
  BY <1>1 DEF Start
<1>2. CASE Load
  BY <1>2 DEF Load
<1>3. CASE Sync
  BY <1>3 DEF Sync
<1>4. CASE SessionEnds
  BY <1>4 DEF SessionEnds
<1>5. CASE CloseGate
  BY <1>5 DEF CloseGate
<1>6. CASE StartDrain
  BY <1>6 DEF StartDrain
<1>7. CASE CloseScope
  BY <1>7 DEF CloseScope, NoShard
<1>8. CASE Settle
  BY <1>8 DEF Settle
<1>9. CASE Retry
  BY <1>9 DEF Retry, NoAttempt
<1>10. CASE Unwound
  BY <1>10 DEF Unwound, NoAttempt
<1>11. CASE TimeOut
  BY <1>11 DEF TimeOut, Attempting
<1>12. CASE Take
  BY <1>12 DEF Take, Attempting
<1>13. CASE EnterGate
  BY <1>13 DEF EnterGate
<1>14. CASE PublishReady
  BY <1>14 DEF PublishReady
<1>15. CASE Save
  BY <1>15 DEF Save, Attempting
<1>16. CASE EmitEstablished
  BY <1>16 DEF EmitEstablished
<1>17. CASE IgnoreConnecting
  BY <1>17 DEF IgnoreConnecting
<1>18. CASE EmitDisconnected
  BY <1>18 DEF EmitDisconnected
<1>19. CASE DisconnectRecorded
  BY <1>19 DEF DisconnectRecorded
<1>20. CASE Open
  BY <1>20 DEF Open
<1>21. CASE Identified
  BY <1>21 DEF Identified
<1>22. CASE Resumed
  BY <1>22 DEF Resumed
<1>23. CASE Rejected
  BY <1>23 DEF Rejected
<1>24. CASE Dispatch
  BY <1>24 DEF Dispatch
<1>25. CASE Drop
  BY <1>25 DEF Drop
<1>26. CASE ShardFails
  BY <1>26 DEF ShardFails
<1>27. CASE TerminalClose
  BY <1>27 DEF TerminalClose
<1>28. CASE Reset
  BY <1>28 DEF Reset, Interrupt, NoShard
<1>29. CASE Overdue
  BY <1>29 DEF Overdue, Interrupt, NoShard
<1>30. CASE Crash
  BY <1>30 DEF Crash, NoAttempt, NoShard
<1>31. CASE UNCHANGED vars
  BY <1>31 DEF vars
<1>32. QED
  BY <1>1, <1>2, <1>3, <1>4, <1>5, <1>6, <1>7, <1>8, <1>9, <1>10, <1>11,
     <1>12, <1>13, <1>14, <1>15, <1>16, <1>17, <1>18, <1>19, <1>20, <1>21, <1>22,
     <1>23, <1>24, <1>25, <1>26, <1>27, <1>28, <1>29, <1>30, <1>31
     DEF Next, Runner, Pump, Shard, Discord
-----------------------------------------------------------------------------
(* The session that is given up                                            *)

LEMMA StepWriters ==
    TypeOK /\ AttemptShape /\ WritersShape /\ [Next]_vars => WritersShape'
<1> SUFFICES ASSUME TypeOK, AttemptShape, WritersShape, [Next]_vars
             PROVE  WritersShape'
  OBVIOUS
<1> USE Sessions0, Idle0
    DEF AttemptShape, WritersShape, NotRetired, Connected, TypeOK, SessionTypes, CountTypes,
        runner, attempt, dfx, bounds, history
<1>0. /\ \A s \in Sessions : s.id \in 0..MaxSessions /\ s.seq \in 0..MaxSeq
      /\ pump.session \in Sessions
      /\ inbox # << >> => Head(inbox) \in Sessions /\ Tail(inbox) \in Seq(Sessions)
  BY Fields
<1>1. CASE Start
  BY <1>1, <1>0 DEF Start
<1>2. CASE Load
  BY <1>2, <1>0 DEF Load
<1>3. CASE Sync
  BY <1>3, <1>0 DEF Sync
<1>4. CASE SessionEnds
  BY <1>4, <1>0 DEF SessionEnds
<1>5. CASE CloseGate
  BY <1>5, <1>0 DEF CloseGate
<1>6. CASE StartDrain
  BY <1>6, <1>0 DEF StartDrain
<1>7. CASE CloseScope
  BY <1>7, <1>0 DEF CloseScope, NoShard
<1>8. CASE Settle
  <2>1. retired' \subseteq retired \cup ({mode.id, store.id} \ {0})
    BY <1>8 DEF Settle
  <2>2. /\ retired' \subseteq 1..opened
        /\ 0 \notin retired'
    BY <1>0, <2>1
  <2>3. NotRetired(store)'
    BY <1>8, <1>0, <2>2 DEF Settle
  <2>4. /\ resume = NoSession /\ pump.session = NoSession /\ inbox = << >>
        /\ UNCHANGED <<resume, pump, inbox, opened, mode>> /\ pc' # "sync"
    BY <1>8 DEF Settle
  <2>5. QED
    BY <2>2, <2>3, <2>4
<1>9. CASE Retry
  BY <1>9, <1>0 DEF Retry, NoAttempt
<1>10. CASE Unwound
  BY <1>10, <1>0 DEF Unwound, NoAttempt
<1>11. CASE TimeOut
  BY <1>11, <1>0 DEF TimeOut, Attempting
<1>12. CASE Take
  BY SMTT(30), <1>12, <1>0 DEF Take, Attempting
<1>13. CASE EnterGate
  BY <1>13, <1>0 DEF EnterGate
<1>14. CASE PublishReady
  BY <1>14, <1>0 DEF PublishReady
<1>15. CASE Save
  BY <1>15, <1>0 DEF Save, Attempting
<1>16. CASE EmitEstablished
  BY <1>16, <1>0 DEF EmitEstablished
<1>17. CASE IgnoreConnecting
  BY <1>17, <1>0 DEF IgnoreConnecting
<1>18. CASE EmitDisconnected
  BY <1>18, <1>0 DEF EmitDisconnected
<1>19. CASE DisconnectRecorded
  BY <1>19, <1>0 DEF DisconnectRecorded
<1>20. CASE Open
  BY <1>20, <1>0 DEF Open
<1>21. CASE Identified
  BY SMTT(30), <1>21, <1>0 DEF Identified
<1>22. CASE Resumed
  BY <1>22, <1>0 DEF Resumed
<1>23. CASE Rejected
  BY <1>23, <1>0 DEF Rejected
<1>24. CASE Dispatch
  BY <1>24, <1>0 DEF Dispatch
<1>25. CASE Drop
  BY <1>25, <1>0 DEF Drop
<1>26. CASE ShardFails
  BY <1>26, <1>0 DEF ShardFails
<1>27. CASE TerminalClose
  BY <1>27, <1>0 DEF TerminalClose
<1>28. CASE Reset
  BY <1>28, <1>0 DEF Reset, Interrupt, NoShard
<1>29. CASE Overdue
  BY <1>29, <1>0 DEF Overdue, Interrupt, NoShard
<1>30. CASE Crash
  BY <1>30, <1>0 DEF Crash, NoAttempt, NoShard
<1>31. CASE UNCHANGED vars
  BY <1>31 DEF vars
<1>32. QED
  BY <1>1, <1>2, <1>3, <1>4, <1>5, <1>6, <1>7, <1>8, <1>9, <1>10, <1>11,
     <1>12, <1>13, <1>14, <1>15, <1>16, <1>17, <1>18, <1>19, <1>20, <1>21, <1>22,
     <1>23, <1>24, <1>25, <1>26, <1>27, <1>28, <1>29, <1>30, <1>31
     DEF Next, Runner, Pump, Shard, Discord
-----------------------------------------------------------------------------
(* What is buffered                                                        *)

LEMMA StepBuffer ==
    TypeOK /\ AttemptShape /\ BufferShape /\ [Next]_vars => BufferShape'
<1> SUFFICES ASSUME TypeOK, AttemptShape, BufferShape, [Next]_vars
             PROVE  BufferShape'
  OBVIOUS
<1> USE Sessions0, Idle0
    DEF AttemptShape, BufferShape, LastOf, Connected, TypeOK, SessionTypes, CountTypes,
        runner, attempt, dfx, bounds, history
<1>0. /\ \A s \in Sessions : s.id \in 0..MaxSessions /\ s.seq \in 0..MaxSeq
      /\ pump.session \in Sessions
      /\ inbox # << >> => Head(inbox) \in Sessions /\ Tail(inbox) \in Seq(Sessions)
  BY Fields
<1>1. CASE Start
  BY <1>1, <1>0 DEF Start
<1>2. CASE Load
  BY <1>2, <1>0 DEF Load
<1>3. CASE Sync
  BY <1>3, <1>0 DEF Sync
<1>4. CASE SessionEnds
  BY <1>4, <1>0 DEF SessionEnds
<1>5. CASE CloseGate
  BY <1>5, <1>0 DEF CloseGate
<1>6. CASE StartDrain
  BY <1>6, <1>0 DEF StartDrain
<1>7. CASE CloseScope
  BY <1>7, <1>0 DEF CloseScope, NoShard
<1>8. CASE Settle
  BY <1>8, <1>0 DEF Settle
<1>9. CASE Retry
  BY <1>9, <1>0 DEF Retry, NoAttempt
<1>10. CASE Unwound
  BY <1>10, <1>0 DEF Unwound, NoAttempt
<1>11. CASE TimeOut
  BY <1>11, <1>0 DEF TimeOut, Attempting
<1>12. CASE Take
  <2>1. inbox # << >> /\ pump = Idle /\ inbox' = Tail(inbox)
    BY <1>12 DEF Take
  <2>2. latest'.id = inbox[1].id
    BY <1>12, <2>1, Fields DEF Take, Stale
  <2>3. \A n \in 1..Len(inbox) : LastOf(n - 1)' = LastOf(n)
    BY <2>1, <2>2, Fields
  <2>4. /\ Len(inbox) \in 1..Len(inbox) /\ Len(inbox') = Len(inbox) - 1
    BY <2>1, Fields
  <2>5. IF pump' = Idle THEN kept' = latest'.id ELSE pump'.session.id = latest'.id
    BY SMTT(30), <1>12, <1>0, <2>1, <2>2 DEF Take, Stale, Attempting
  <2> HIDE DEF LastOf
  <2>6. CASE pc \in Attempting
    BY <1>12, <2>3, <2>4, <2>5, <2>6 DEF Take, Attempting
  <2>7. CASE pc = "drain" /\ left > 0
    <3>1. left \in 1..Len(inbox) /\ heard = LastOf(left)
      BY <2>4, <2>7
    <3>2. pc' = "drain" /\ left' = left - 1 /\ heard' = heard
      BY <1>12, <2>7 DEF Take, Attempting
    <3>3. LastOf(left)' = LastOf(left)
      BY SMTT(30), <2>1, <2>2, <3>1, <3>2, Fields DEF LastOf
    <3>4. left' <= Len(inbox') /\ heard' = LastOf(left)'
      BY <2>4, <3>1, <3>2, <3>3
    <3>5. QED
      BY <2>5, <3>2, <3>4
  <2>8. QED
    BY <1>12, <2>6, <2>7 DEF Take
<1>13. CASE EnterGate
  BY <1>13, <1>0 DEF EnterGate
<1>14. CASE PublishReady
  BY <1>14, <1>0 DEF PublishReady
<1>15. CASE Save
  BY <1>15, <1>0 DEF Save, Attempting
<1>16. CASE EmitEstablished
  BY SMTT(30), <1>16, <1>0 DEF EmitEstablished
<1>17. CASE IgnoreConnecting
  BY <1>17, <1>0 DEF IgnoreConnecting
<1>18. CASE EmitDisconnected
  BY <1>18, <1>0 DEF EmitDisconnected
<1>19. CASE DisconnectRecorded
  BY <1>19, <1>0 DEF DisconnectRecorded
<1>20. CASE Open
  BY <1>20, <1>0 DEF Open
<1>21. CASE Identified
  BY <1>21, <1>0 DEF Identified
<1>22. CASE Resumed
  BY <1>22, <1>0 DEF Resumed
<1>23. CASE Rejected
  BY <1>23, <1>0 DEF Rejected
<1>24. CASE Dispatch
  BY <1>24, <1>0 DEF Dispatch
<1>25. CASE Drop
  BY <1>25, <1>0 DEF Drop
<1>26. CASE ShardFails
  BY <1>26, <1>0 DEF ShardFails
<1>27. CASE TerminalClose
  BY <1>27, <1>0 DEF TerminalClose
<1>28. CASE Reset
  BY <1>28, <1>0 DEF Reset, Interrupt, NoShard
<1>29. CASE Overdue
  BY <1>29, <1>0 DEF Overdue, Interrupt, NoShard
<1>30. CASE Crash
  BY <1>30, <1>0 DEF Crash, NoAttempt, NoShard
<1>31. CASE UNCHANGED vars
  BY <1>31 DEF vars
<1>32. QED
  BY <1>1, <1>2, <1>3, <1>4, <1>5, <1>6, <1>7, <1>8, <1>9, <1>10, <1>11,
     <1>12, <1>13, <1>14, <1>15, <1>16, <1>17, <1>18, <1>19, <1>20, <1>21, <1>22,
     <1>23, <1>24, <1>25, <1>26, <1>27, <1>28, <1>29, <1>30, <1>31
     DEF Next, Runner, Pump, Shard, Discord
-----------------------------------------------------------------------------
(* The theorems                                                            *)

LEMMA InitIInv == Init => IInv
<1> SUFFICES ASSUME Init PROVE IInv
  OBVIOUS
<1>1. TypeOK
  BY InitTypeOK
<1>2. AttemptShape /\ GateShape /\ ReadyIsLive
  BY Idle0 DEF Init, AttemptShape, GateShape, ReadyIsLive, Connected
<1>3. WritersShape
  BY Sessions0, Idle0 DEF Init, WritersShape, NotRetired
<1>4. BufferShape
  BY DEF Init, BufferShape, Connected
<1>5. QED
  BY <1>1, <1>2, <1>3, <1>4 DEF IInv

LEMMA StepIInv == IInv /\ [Next]_vars => IInv'
BY StepTypeOK, StepGate, StepWriters, StepBuffer DEF IInv, TypeOK

LEMMA Invariant == Spec => []IInv
<1>1. Init => IInv
  BY InitIInv
<1>2. IInv /\ [Next]_vars => IInv'
  BY StepIInv
<1>3. QED
  BY <1>1, <1>2, PTL DEF Spec

\* Every variable of the supervisor keeps its type, for all bounds: the drain
\* in particular never counts below zero.
THEOREM TypeCorrect == Spec => []TypeOK
<1>1. IInv => TypeOK
  BY DEF IInv
<1>2. QED
  BY <1>1, Invariant, PTL

\* An attempt that is over is never reported ready: the gate closes under the
\* lock that the publication of readiness holds.
THEOREM DeadIsNeverReady == Spec => []ReadyIsLive
<1>1. IInv => ReadyIsLive
  BY DEF IInv
<1>2. QED
  BY <1>1, Invariant, PTL

\* A session that was given up never comes back to the store: whatever may
\* still write it ends before it is given up.
THEOREM GivenUpStaysGone == Spec => []RetiredStaysGone
<1>1. IInv => RetiredStaysGone
  BY DEF IInv, WritersShape, NotRetired, RetiredStaysGone
<1>2. QED
  BY <1>1, Invariant, PTL

\* The last session heard of before the drain is checkpointed before the next
\* attempt chooses between Resume and Identify.
THEOREM BufferIsKept == Spec => []BufferedIsKept
<1>1. IInv => BufferedIsKept
  BY Idle0 DEF IInv, AttemptShape, BufferShape, BufferedIsKept, Connected
<1>2. QED
  BY <1>1, Invariant, PTL
=============================================================================
