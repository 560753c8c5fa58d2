------------------------- MODULE GatewayOwnerProofs -------------------------
(***************************************************************************)
(* Proofs about GatewayOwner, for every number of overlapping alarm        *)
(* invocations, runtimes, configurations, leases, crashes and failures.    *)
(***************************************************************************)
EXTENDS GatewayOwner, TLAPS

\* The parts of the inductive invariant.

\* An activation goes on only while another lease may be granted.
GrantIsBounded == holder = "activate" => granted < MaxLeases

\* Whoever is at work under the lease has its mutex; production has none.
LockIsHeld ==
    /\ phase # "none" <=> holder # None
    /\ stage = "production" => holder = None

\* Who has the lifecycle mutex, and where it is: building, resetting or
\* parking.  Except for a reload it has the lease as well.
MutexIsHeld ==
    /\ stage = "staging" /\ mutex \notin {None, "reload"} =>
          mutex = holder /\ phase \in {"run", "stopping"}
    /\ \A t \in Ticks : mutex = t =>
          tick[t].pc \in {"get", "select", "stalled"} \/ phase = "stopping"
    /\ mutex = "rpc" => rpc = "checked" \/ phase = "stopping"
    /\ mutex \in {"cron", "activate", "park"} => phase = "stopping"

CanBuild(p) ==
    /\ mutex = p /\ current = 0 /\ Running(p)
    /\ p = "rpc" \/ (p \in Ticks /\ tick[p].pc \in {"get", "select"})

\* A build under way that read an older configuration is still to be reset.
BuildsAreFresh ==
    /\ activated <= stored
    /\ reload = "reset" => mutex = "reload"
    /\ holder = "reload" => reload = "alarm"
    /\ \A p \in Ticks \cup {"rpc"} : CanBuild(p) /\ building < activated => reload = "stored"

\* Nobody runs without a lease, and nothing lives while it is given up.
ParkIsQuiet ==
    /\ phase = "run" => lease # NoLease
    /\ phase \in {"unlease", "unalarm", "parked", "grant"} => \A r \in Runtimes : ~Live(r)

OperationsAreStopped ==
    phase \in {"stopping", "unlease", "unalarm", "parked", "grant"} => operation = 0

IInv ==
    /\ TypeOK /\ OneOwner /\ GrantIsBounded /\ LockIsHeld /\ MutexIsHeld
    /\ BuildsAreFresh /\ ReloadTakesEffect
    /\ stage = "staging" => ParkIsQuiet
    /\ OwnerUnderLease
    /\ OperationsAreStopped /\ OperationUnderLease
-----------------------------------------------------------------------------
Pcs == {"idle", "fired", "get", "arm", "select", "stalled", "rearm", "schedule", "handshake"}

LEMMA NoTickType == NoTick \in Invocation
BY OwnerAssumption DEF NoTick, Invocation

LEMMA GoesType ==
    ASSUME TypeOK, NEW t \in Ticks, NEW to \in Pcs, Goes(t, to)
    PROVE  tick' \in [Ticks -> Invocation]
<1>1. tick[t] \in Invocation
  BY DEF TypeOK
<1>2. [tick[t] EXCEPT !.pc = to] \in Invocation
  BY <1>1 DEF Invocation, Pcs
<1>. QED
  BY <1>2 DEF TypeOK, Goes

LEMMA TypeInit == Init => TypeOK
<1>. SUFFICES ASSUME Init PROVE TypeOK
  OBVIOUS
<1>1. lease \in Lease
  BY OwnerAssumption DEF Init, NoLease, Lease
<1>2. tick \in [Ticks -> Invocation]
  BY NoTickType DEF Init
<1>3. status \in [Runtimes -> {"trying", "ready", "stopped"}] /\ alive \in [Runtimes -> 0..1]
  BY DEF Init
<1>4. awaiting \in BOOLEAN /\ gate \in BOOLEAN /\ watch \in BOOLEAN
  BY DEF Init
<1>5. alarm \in {"none", "pending", "dead"}
  BY DEF Init
<1>. QED
  BY <1>1, <1>2, <1>3, <1>4, <1>5, OwnerAssumption DEF Init, TypeOK

\* What the end of a reset leaves behind.
LEMMA ResetEndType ==
    ASSUME TypeOK, NEW p, ResetEnd(p)
    PROVE  /\ alive' \in [Runtimes -> 0..1]
           /\ gate' \in BOOLEAN /\ watch' \in BOOLEAN /\ awaiting' \in BOOLEAN
           /\ published' \in 0..MaxRuntimes /\ current' \in 0..MaxRuntimes
           /\ revision' \in 0..MaxPuts[stage]
           /\ status' \in [Runtimes -> {"trying", "ready", "stopped"}]
           /\ mutex' = None /\ building' \in 0..MaxPuts[stage] /\ started' \in 0..MaxLeases
<1>1. Interrupted \in [Runtimes -> 0..1]
  <2>1. CASE published \in Runtimes
    BY <2>1 DEF Interrupted, TypeOK
  <2>2. CASE published \notin Runtimes
    <3>1. Interrupted = alive
      BY <2>2 DEF Interrupted, TypeOK
    <3>. QED
      BY <3>1 DEF TypeOK
  <2>. QED
    BY <2>1, <2>2
<1>2. alive' \in [Runtimes -> 0..1]
  BY <1>1 DEF ResetEnd, TypeOK
<1>3. gate' \in BOOLEAN /\ watch' \in BOOLEAN
  BY DEF ResetEnd
<1>4. awaiting' \in BOOLEAN
  BY DEF ResetEnd, TypeOK
<1>. QED
  BY <1>2, <1>3, <1>4, OwnerAssumption DEF ResetEnd, TypeOK, runtimes

LEMMA TypeTick ==
    ASSUME TypeOK, OneOwner, GrantIsBounded, NEW t \in Ticks
    PROVE  /\ TickBegin(t) => TypeOK'
           /\ TickEnter(t) => TypeOK'
           /\ TickGet(t) => TypeOK'
           /\ TickArm(t) => TypeOK'
           /\ TickSelect(t) => TypeOK'
           /\ TickStalled(t) => TypeOK'
           /\ TickRearm(t) => TypeOK'
           /\ TickSchedules(t) => TypeOK'
           /\ HandshakeEnds(t) => TypeOK'
           /\ TickFails(t) => TypeOK'
<1>. USE OwnerAssumption, NoTickType DEF TypeOK, At,
        durable, locks, runtimes, owner, memory, work, bounds
<1>. DEFINE Typed == tick' \in [Ticks -> Invocation]
<1>0. /\ \A to \in Pcs : Goes(t, to) => Typed
      /\ UNCHANGED tick => Typed
      /\ tick' = [tick EXCEPT ![t] = NoTick] => Typed
  BY GoesType
<1>1. TickBegin(t) => TypeOK'
  <2>. SUFFICES ASSUME TickBegin(t) PROVE TypeOK'
    OBVIOUS
  <2>1. Typed
    BY <1>0 DEF TickBegin, Pcs
  <2>. QED
    BY <2>1 DEF TickBegin
<1>2. TickEnter(t) => TypeOK'
  <2>. SUFFICES ASSUME TickEnter(t) PROVE TypeOK'
    OBVIOUS
  <2>1. Typed
    BY <1>0 DEF TickEnter, Pcs
  <2>. QED
    BY <2>1 DEF TickEnter, Enter
<1>3. TickGet(t) => TypeOK'
  <2>. SUFFICES ASSUME TickGet(t) PROVE TypeOK'
    OBVIOUS
  <2>1. Typed
    BY <1>0 DEF TickGet, Pcs
  <2>2. CASE BuildBegin(t) /\ UNCHANGED tick
    BY <2>1, <2>2 DEF TickGet, BuildBegin
  <2>3. CASE Built(t) /\ mutex' = None /\ Goes(t, "arm")
    BY <2>1, <2>3 DEF TickGet, Built, Runtimes
  <2>4. CASE UNCHANGED <<runtimes, mutex, building>>
    BY <2>1, <2>4 DEF TickGet
  <2>. QED
    BY <2>2, <2>3, <2>4 DEF TickGet
<1>4. TickArm(t) => TypeOK'
  <2>. SUFFICES ASSUME TickArm(t) PROVE TypeOK'
    OBVIOUS
  <2>1. Typed
    BY <1>0 DEF TickArm, Pcs
  <2>2. awaiting' \in BOOLEAN
    BY DEF TickArm
  <2>. QED
    BY <2>1, <2>2 DEF TickArm
<1>5. TickSelect(t) => TypeOK'
  <2>. SUFFICES ASSUME TickSelect(t) PROVE TypeOK'
    OBVIOUS
  <2>1. CASE /\ BuildBegin(t) \/ (Built(t) /\ UNCHANGED mutex)
             /\ UNCHANGED <<tick, alarm, locks, owner>>
    <3>1. CASE BuildBegin(t)
      BY <2>1, <3>1 DEF TickSelect, BuildBegin
    <3>2. CASE Built(t) /\ UNCHANGED mutex
      BY <2>1, <3>2 DEF TickSelect, Built, Runtimes
    <3>. QED
      BY <2>1, <3>1, <3>2
  <2>2. CASE /\ mutex \in {None, t} /\ current # 0
             /\ SelectNothing(t) \/ SelectFork(t) \/ SelectOther(t)
             /\ mutex' = None
             /\ UNCHANGED <<runtimes, building>>
    <3>1. ASSUME NEW to \in {"schedule", "stalled"}, NEW forked \in BOOLEAN,
                 Chosen(t, to, forked)
          PROVE  Typed /\ UNCHANGED <<alarm, locks>>
      <4>1. [pc |-> to, rt |-> current, forked |-> forked] \in Invocation
        BY DEF Invocation
      <4>. QED
        BY <3>1, <4>1 DEF Chosen
    <3>2. CASE SelectNothing(t)
      <4>1. Typed
        BY <3>2, <1>0 DEF SelectNothing, EndsEarly
      <4>2. gate' \in BOOLEAN /\ watch' \in BOOLEAN
        BY <3>2 DEF SelectNothing
      <4>3. /\ alarm' \in {"none", "pending", "dead"}
            /\ holder' \in Ticks \cup Requests \cup {None}
            /\ wanted' \in Owners \cup {None}
            /\ phase' \in {"none", "run", "stop", "stopping", "unlease", "unalarm",
                           "parked", "grant"}
        BY <3>2 DEF SelectNothing, EndsEarly, KeepOrRelease, Release
      <4>. QED
        BY <2>2, <3>2, <4>1, <4>2, <4>3 DEF TickSelect, SelectNothing
    <3>3. CASE SelectFork(t)
      <4>1. Typed /\ UNCHANGED <<alarm, locks>>
        BY <3>3, <3>1 DEF SelectFork
      <4>2. current \in Runtimes /\ alive[current] = 0
        BY <2>2, <3>3 DEF SelectFork, Claimed, OneOwner, Live, Runtimes
      <4>3. alive' \in [Runtimes -> 0..1]
        BY <3>3, <4>2 DEF SelectFork
      <4>4. started' \in 0..MaxLeases
        BY <3>3 DEF SelectFork, Lease
      <4>. QED
        BY <2>2, <3>3, <4>1, <4>3, <4>4 DEF TickSelect, SelectFork
    <3>4. CASE SelectOther(t)
      <4>1. Typed /\ UNCHANGED <<alarm, locks>>
        BY <3>4, <3>1 DEF SelectOther
      <4>. QED
        BY <2>2, <3>4, <4>1 DEF TickSelect, SelectOther, Settled
    <3>. QED
      BY <2>2, <3>2, <3>3, <3>4
  <2>. QED
    BY <2>1, <2>2 DEF TickSelect
<1>6. TickStalled(t) => TypeOK'
  <2>. SUFFICES ASSUME TickStalled(t) PROVE TypeOK'
    OBVIOUS
  <2>1. Typed
    BY <1>0 DEF TickStalled, Pcs
  <2>2. CASE ResetBegin(t) /\ UNCHANGED <<alarm, locks, tick>>
    BY <2>1, <2>2 DEF TickStalled, ResetBegin
  <2>3. CASE UNCHANGED <<alarm, memory>> /\ KeepOrRelease(t)
    BY <2>1, <2>3 DEF TickStalled, KeepOrRelease, Release
  <2>4. CASE ResetEnd(t) /\ UNCHANGED <<alarm, locks>>
    BY <2>1, <2>4, ResetEndType DEF TickStalled
  <2>. QED
    BY <2>2, <2>3, <2>4 DEF TickStalled
<1>7. TickRearm(t) => TypeOK'
  BY <1>0 DEF TickRearm, KeepOrRelease, Release
<1>8. TickSchedules(t) => TypeOK'
  <2>. SUFFICES ASSUME TickSchedules(t) PROVE TypeOK'
    OBVIOUS
  <2>1. [NoTick EXCEPT !.pc = "handshake"] \in Invocation
    BY DEF NoTick, Invocation
  <2>2. Typed
    BY <2>1 DEF TickSchedules, AfterSchedule
  <2>. QED
    BY <2>2 DEF TickSchedules, AfterSchedule, KeepOrRelease, Release
<1>9. HandshakeEnds(t) => TypeOK'
  BY <1>0 DEF HandshakeEnds
<1>10. TickFails(t) => TypeOK'
  BY <1>0 DEF TickFails, KeepOrRelease, Release
<1>. QED
  BY <1>1, <1>2, <1>3, <1>4, <1>5, <1>6, <1>7, <1>8, <1>9, <1>10
-----------------------------------------------------------------------------
LEMMA TypeLease ==
    ASSUME TypeOK, OneOwner, GrantIsBounded
    PROVE  /\ LeaseExpires => TypeOK'
           /\ RunExpires => TypeOK'
           /\ ParkStop => TypeOK'
           /\ ParkStopped => TypeOK'
           /\ ParkDelete => TypeOK'
           /\ Parked => TypeOK'
           /\ ActivateAgain => TypeOK'
           /\ Grant => TypeOK'
           /\ ParkRequested => TypeOK'
           /\ StartOperation => TypeOK'
           /\ EndOperation => TypeOK'
           /\ \A p \in {"cron", "rpc", "reload"} : EnterRequest(p) => TypeOK'
<1>. USE OwnerAssumption DEF TypeOK,
        durable, locks, runtimes, owner, memory, work, bounds
<1>1. LeaseExpires => TypeOK'
  <2>1. LeaseExpires => lease' \in Lease
    BY ZenonT(30) DEF LeaseExpires, Lease
  <2>. QED
    BY <2>1 DEF LeaseExpires
<1>2. RunExpires => TypeOK'
  BY DEF RunExpires
<1>3. ParkStop => TypeOK'
  BY DEF ParkStop, ResetBegin
<1>4. ParkStopped => TypeOK'
  BY ResetEndType DEF ParkStopped
<1>5. ParkDelete => TypeOK'
  <2>1. NoLease \in Lease
    BY DEF NoLease, Lease
  <2>. QED
    BY <2>1 DEF ParkDelete
<1>6. Parked => TypeOK'
  <2>1. Parked => tick' \in [Ticks -> Invocation]
    BY NoTickType DEF Parked
  <2>. QED
    BY <2>1 DEF Parked, Release
<1>7. ActivateAgain => TypeOK'
  BY DEF ActivateAgain, Release
<1>8. Grant => TypeOK'
  <2>1. ASSUME Grant, phase = "grant"
        PROVE  lease' \in Lease /\ granted' \in 0..MaxLeases
    <3>1. holder = "activate" /\ granted \in Nat /\ granted < MaxLeases
      BY <2>1 DEF Grant, GrantIsBounded
    <3>2. granted + 1 \in 0..MaxLeases
      BY <3>1
    <3>3. [id |-> granted + 1, owner |-> wanted, expired |-> FALSE] \in Lease
      BY <3>2 DEF Lease
    <3>. QED
      BY <2>1, <3>2, <3>3 DEF Grant
  <2>. QED
    BY <2>1 DEF Grant, Release
<1>9. ParkRequested => TypeOK'
  BY DEF ParkRequested, Release
<1>10. StartOperation => TypeOK'
  BY DEF StartOperation, Lease
<1>11. EndOperation => TypeOK'
  BY DEF EndOperation
<1>12. \A p \in {"cron", "rpc", "reload"} : EnterRequest(p) => TypeOK'
  BY DEF EnterRequest, Enter, Requests
<1>. QED
  BY <1>1, <1>2, <1>3, <1>4, <1>5, <1>6, <1>7, <1>8, <1>9, <1>10, <1>11, <1>12

LEMMA TypeOwners ==
    ASSUME TypeOK, NEW o \in Owners
    PROVE  Activate(o) \/ Park(o) => TypeOK'
BY OwnerAssumption DEF TypeOK, Activate, Park, Enter, Requests,
    durable, locks, runtimes, owner, memory, work, bounds

LEMMA TypeRest ==
    ASSUME TypeOK, OneOwner, GrantIsBounded
    PROVE  /\ \A r \in Runtimes : SessionChanges(r) \/ SupervisorEnds(r) => TypeOK'
           /\ Cron => TypeOK'
           /\ RpcChecks => TypeOK'
           /\ RpcGets => TypeOK'
           /\ RpcFails => TypeOK'
           /\ PutConfig => TypeOK'
           /\ ReloadResets => TypeOK'
           /\ ReloadSetsAlarm => TypeOK'
           /\ Crash => TypeOK'
           /\ UNCHANGED vars => TypeOK'
<1>. USE OwnerAssumption DEF TypeOK,
        durable, locks, runtimes, owner, memory, work, bounds
<1>1. \A r \in Runtimes : SessionChanges(r) \/ SupervisorEnds(r) => TypeOK'
  <2>1. ASSUME NEW r \in Runtimes, SessionChanges(r)
        PROVE  TypeOK'
    BY <2>1 DEF SessionChanges
  <2>2. ASSUME NEW r \in Runtimes, SupervisorEnds(r)
        PROVE  TypeOK'
    <3>1. alive' \in [Runtimes -> 0..1]
      BY <2>2 DEF SupervisorEnds
    <3>2. status' \in [Runtimes -> {"trying", "ready", "stopped"}]
      BY <2>2 DEF SupervisorEnds
    <3>3. gate' \in BOOLEAN
      BY <2>2 DEF SupervisorEnds
    <3>. QED
      BY <2>2, <3>1, <3>2, <3>3 DEF SupervisorEnds
  <2>. QED
    BY <2>1, <2>2
<1>2. Cron => TypeOK'
  BY DEF Cron, Repaired, KeepOrRelease, Release
<1>3. RpcChecks => TypeOK'
  BY DEF RpcChecks, Repaired, KeepOrRelease, Release
<1>4. RpcGets => TypeOK'
  <2>. SUFFICES ASSUME RpcGets PROVE TypeOK'
    OBVIOUS
  <2>1. CASE BuildBegin("rpc") /\ UNCHANGED <<rpc, locks>>
    BY <2>1 DEF RpcGets, BuildBegin, Requests
  <2>2. CASE Built("rpc") /\ mutex' = None /\ rpc' = "idle" /\ KeepOrRelease("rpc")
    BY <2>2 DEF RpcGets, Built, Runtimes, KeepOrRelease, Release
  <2>3. CASE UNCHANGED <<runtimes, mutex, building>> /\ rpc' = "idle" /\ KeepOrRelease("rpc")
    BY <2>3 DEF RpcGets, KeepOrRelease, Release
  <2>. QED
    BY <2>1, <2>2, <2>3 DEF RpcGets
<1>5. RpcFails => TypeOK'
  BY DEF RpcFails, KeepOrRelease, Release
<1>6. PutConfig => TypeOK'
  BY DEF PutConfig
<1>7. ReloadResets => TypeOK'
  <2>1. ASSUME ReloadResets, ResetBegin("reload"), reload' = "reset"
        PROVE  TypeOK'
    BY <2>1 DEF ReloadResets, ResetBegin, Requests
  <2>2. ASSUME ReloadResets, ResetEnd("reload"), reload' = "alarm"
        PROVE  TypeOK'
    BY <2>2, ResetEndType DEF ReloadResets
  <2>. QED
    BY <2>1, <2>2 DEF ReloadResets
<1>8. ReloadSetsAlarm => TypeOK'
  BY DEF ReloadSetsAlarm, KeepOrRelease, Release
<1>9. Crash => TypeOK'
  <2>1. Crash => tick' \in [Ticks -> Invocation]
    BY NoTickType DEF Crash
  <2>2. Crash => alive' \in [Runtimes -> 0..1]
    BY DEF Crash
  <2>3. Crash => awaiting' \in BOOLEAN /\ gate' \in BOOLEAN /\ watch' \in BOOLEAN
    BY DEF Crash
  <2>4. Crash => alarm' \in {"none", "pending", "dead"}
    BY DEF Crash
  <2>. QED
    BY <2>1, <2>2, <2>3, <2>4 DEF Crash
<1>10. UNCHANGED vars => TypeOK'
  BY DEF vars
<1>. QED
  BY <1>1, <1>2, <1>3, <1>4, <1>5, <1>6, <1>7, <1>8, <1>9, <1>10
-----------------------------------------------------------------------------
(* Every step keeps every part of the invariant.                           *)

\* There is one supervisor after the step.
LEMMA OwnerStep ==
    ASSUME IInv, [Next]_vars
    PROVE  OneOwner'
<1>. USE OwnerAssumption DEF IInv, TypeOK, OneOwner, Live, Runtimes, Claimed, LockIsHeld, MutexIsHeld, Running,
        durable, locks, runtimes, owner, memory, work, bounds
<1>1. ASSUME NEW t \in Ticks, TickBegin(t) PROVE OneOwner'
  BY <1>1 DEF TickBegin
<1>2. ASSUME NEW t \in Ticks, TickEnter(t) PROVE OneOwner'
  BY <1>2 DEF TickEnter, Enter
<1>3. ASSUME NEW t \in Ticks, TickGet(t) PROVE OneOwner'
  BY <1>3 DEF TickGet, BuildBegin, Built
<1>4. ASSUME NEW t \in Ticks, TickArm(t) PROVE OneOwner'
  BY <1>4 DEF TickArm
<1>5. ASSUME NEW t \in Ticks, TickSelect(t) PROVE OneOwner'
  <2>1. CASE (BuildBegin(t) \/ Built(t)) /\ UNCHANGED owner
    BY <2>1 DEF BuildBegin, Built
  <2>2. CASE SelectNothing(t) /\ UNCHANGED runtimes
    BY <2>2 DEF SelectNothing
  <2>3. CASE SelectFork(t) /\ UNCHANGED runtimes /\ current # 0
    <3>1. /\ alive' = [alive EXCEPT ![current] = @ + 1]
          /\ published' = current /\ gate' = TRUE /\ ~gate
      BY <2>3 DEF SelectFork
    <3>. QED
      BY <2>3, <3>1
  <2>4. CASE SelectOther(t) /\ UNCHANGED runtimes
    BY <2>4 DEF SelectOther
  <2>. QED
    BY <1>5, <2>1, <2>2, <2>3, <2>4 DEF TickSelect
<1>6. ASSUME NEW t \in Ticks, TickStalled(t) PROVE OneOwner'
  BY <1>6 DEF TickStalled, ResetBegin, ResetEnd, Interrupted, KeepOrRelease, Release
<1>7. ASSUME NEW t \in Ticks, TickRearm(t) PROVE OneOwner'
  BY <1>7 DEF TickRearm, KeepOrRelease, Release
<1>8. ASSUME NEW t \in Ticks, TickSchedules(t) PROVE OneOwner'
  BY <1>8 DEF TickSchedules, AfterSchedule, KeepOrRelease, Release
<1>9. ASSUME NEW t \in Ticks, HandshakeEnds(t) PROVE OneOwner'
  BY <1>9 DEF HandshakeEnds
<1>10. ASSUME NEW t \in Ticks, TickFails(t) PROVE OneOwner'
  BY <1>10 DEF TickFails, KeepOrRelease, Release
<1>11. CASE LeaseExpires
  BY <1>11 DEF LeaseExpires
<1>12. CASE RunExpires
  BY <1>12 DEF RunExpires
<1>13. CASE ParkStop
  BY <1>13 DEF ParkStop, ResetBegin
<1>14. CASE ParkStopped
  BY <1>14 DEF ParkStopped, ResetEnd, Interrupted
<1>15. CASE ParkDelete
  BY <1>15 DEF ParkDelete
<1>16. CASE Parked
  BY <1>16 DEF Parked, Release
<1>17. CASE ActivateAgain
  BY <1>17 DEF ActivateAgain, Release
<1>18. CASE Grant
  BY <1>18 DEF Grant, Release
<1>19. CASE ParkRequested
  BY <1>19 DEF ParkRequested, Release
<1>20. CASE StartOperation
  BY <1>20 DEF StartOperation
<1>21. CASE EndOperation
  BY <1>21 DEF EndOperation
<1>22. ASSUME NEW o \in Owners, Activate(o) PROVE OneOwner'
  BY <1>22 DEF Activate, Enter
<1>23. ASSUME NEW o \in Owners, Park(o) PROVE OneOwner'
  BY <1>23 DEF Park, Enter
<1>24. ASSUME NEW p \in {"cron", "rpc", "reload"}, EnterRequest(p),
            p = "reload" => reload = "alarm"
     PROVE  OneOwner'
  BY <1>24 DEF EnterRequest, Enter
<1>25. ASSUME NEW r \in Runtimes, SessionChanges(r) PROVE OneOwner'
  BY <1>25 DEF SessionChanges
<1>26. ASSUME NEW r \in Runtimes, SupervisorEnds(r) PROVE OneOwner'
  BY <1>26 DEF SupervisorEnds
<1>27. CASE Cron
  BY <1>27 DEF Cron, KeepOrRelease, Release
<1>28. CASE RpcChecks
  BY <1>28 DEF RpcChecks, KeepOrRelease, Release
<1>29. CASE RpcGets
  BY <1>29 DEF RpcGets, BuildBegin, Built, KeepOrRelease, Release
<1>30. CASE RpcFails
  BY <1>30 DEF RpcFails, KeepOrRelease, Release
<1>31. CASE PutConfig
  BY <1>31 DEF PutConfig
<1>32. CASE ReloadResets
  BY <1>32 DEF ReloadResets, ResetBegin, ResetEnd, Interrupted
<1>33. CASE ReloadSetsAlarm
  BY <1>33 DEF ReloadSetsAlarm, KeepOrRelease, Release
<1>34. CASE Crash
  BY <1>34 DEF Crash
<1>35. CASE UNCHANGED vars
  BY <1>35 DEF vars
<1>. QED
  BY <1>1, <1>2, <1>3, <1>4, <1>5, <1>6, <1>7, <1>8, <1>9, <1>10, <1>11, <1>12, <1>13,
     <1>14, <1>15, <1>16, <1>17, <1>18, <1>19, <1>20, <1>21, <1>22, <1>23, <1>24, <1>25,
     <1>26, <1>27, <1>28, <1>29, <1>30, <1>31, <1>32, <1>33, <1>34, <1>35
     DEF Next, Proceeds, LeaseSteps

\* The lifecycle mutex is where it should be.
LEMMA MutexStep ==
    ASSUME IInv, [Next]_vars
    PROVE  MutexIsHeld'
<1>. USE OwnerAssumption DEF IInv, TypeOK, MutexIsHeld, LockIsHeld, Running, Requests, At, Goes, NoTick,
        durable, locks, runtimes, owner, memory, work, bounds
<1>1. ASSUME NEW t \in Ticks, TickBegin(t) PROVE MutexIsHeld'
  BY <1>1 DEF TickBegin
<1>2. ASSUME NEW t \in Ticks, TickEnter(t) PROVE MutexIsHeld'
  BY <1>2 DEF TickEnter, Enter
<1>3. ASSUME NEW t \in Ticks, TickGet(t) PROVE MutexIsHeld'
  BY <1>3 DEF TickGet, BuildBegin, Built
<1>4. ASSUME NEW t \in Ticks, TickArm(t) PROVE MutexIsHeld'
  BY <1>4 DEF TickArm
<1>5. ASSUME NEW t \in Ticks, TickSelect(t) PROVE MutexIsHeld'
  BY <1>5 DEF TickSelect, BuildBegin, Built, SelectNothing, SelectFork, SelectOther,
         Chosen, EndsEarly, KeepOrRelease, Release
<1>6. ASSUME NEW t \in Ticks, TickStalled(t) PROVE MutexIsHeld'
  BY <1>6 DEF TickStalled, ResetBegin, ResetEnd, Interrupted, KeepOrRelease, Release
<1>7. ASSUME NEW t \in Ticks, TickRearm(t) PROVE MutexIsHeld'
  BY <1>7 DEF TickRearm, KeepOrRelease, Release
<1>8. ASSUME NEW t \in Ticks, TickSchedules(t) PROVE MutexIsHeld'
  BY <1>8 DEF TickSchedules, AfterSchedule, KeepOrRelease, Release
<1>9. ASSUME NEW t \in Ticks, HandshakeEnds(t) PROVE MutexIsHeld'
  BY <1>9 DEF HandshakeEnds
<1>10. ASSUME NEW t \in Ticks, TickFails(t) PROVE MutexIsHeld'
  BY <1>10 DEF TickFails, KeepOrRelease, Release
<1>11. CASE LeaseExpires
  BY <1>11 DEF LeaseExpires
<1>12. CASE RunExpires
  BY <1>12 DEF RunExpires
<1>13. CASE ParkStop
  BY <1>13 DEF ParkStop, ResetBegin
<1>14. CASE ParkStopped
  BY <1>14 DEF ParkStopped, ResetEnd, Interrupted
<1>15. CASE ParkDelete
  BY <1>15 DEF ParkDelete
<1>16. CASE Parked
  BY <1>16 DEF Parked, Release
<1>17. CASE ActivateAgain
  BY <1>17 DEF ActivateAgain, Release
<1>18. CASE Grant
  BY <1>18 DEF Grant, Release
<1>19. CASE ParkRequested
  BY <1>19 DEF ParkRequested, Release
<1>20. CASE StartOperation
  BY <1>20 DEF StartOperation
<1>21. CASE EndOperation
  BY <1>21 DEF EndOperation
<1>22. ASSUME NEW o \in Owners, Activate(o) PROVE MutexIsHeld'
  BY <1>22 DEF Activate, Enter
<1>23. ASSUME NEW o \in Owners, Park(o) PROVE MutexIsHeld'
  BY <1>23 DEF Park, Enter
<1>24. ASSUME NEW p \in {"cron", "rpc", "reload"}, EnterRequest(p),
            p = "reload" => reload = "alarm"
     PROVE  MutexIsHeld'
  BY <1>24 DEF EnterRequest, Enter
<1>25. ASSUME NEW r \in Runtimes, SessionChanges(r) PROVE MutexIsHeld'
  BY <1>25 DEF SessionChanges
<1>26. ASSUME NEW r \in Runtimes, SupervisorEnds(r) PROVE MutexIsHeld'
  BY <1>26 DEF SupervisorEnds
<1>27. CASE Cron
  BY <1>27 DEF Cron, KeepOrRelease, Release
<1>28. CASE RpcChecks
  BY <1>28 DEF RpcChecks, KeepOrRelease, Release
<1>29. CASE RpcGets
  BY <1>29 DEF RpcGets, BuildBegin, Built, KeepOrRelease, Release
<1>30. CASE RpcFails
  BY <1>30 DEF RpcFails, KeepOrRelease, Release
<1>31. CASE PutConfig
  BY <1>31 DEF PutConfig
<1>32. CASE ReloadResets
  BY <1>32 DEF ReloadResets, ResetBegin, ResetEnd, Interrupted
<1>33. CASE ReloadSetsAlarm
  BY <1>33 DEF ReloadSetsAlarm, KeepOrRelease, Release
<1>34. CASE Crash
  BY <1>34 DEF Crash
<1>35. CASE UNCHANGED vars
  BY <1>35 DEF vars
<1>. QED
  BY <1>1, <1>2, <1>3, <1>4, <1>5, <1>6, <1>7, <1>8, <1>9, <1>10, <1>11, <1>12, <1>13,
     <1>14, <1>15, <1>16, <1>17, <1>18, <1>19, <1>20, <1>21, <1>22, <1>23, <1>24, <1>25,
     <1>26, <1>27, <1>28, <1>29, <1>30, <1>31, <1>32, <1>33, <1>34, <1>35
     DEF Next, Proceeds, LeaseSteps

\* No build brings an old configuration back.
LEMMA BuildStep ==
    ASSUME IInv, [Next]_vars
    PROVE  (BuildsAreFresh /\ ReloadTakesEffect)'
<1>. USE OwnerAssumption DEF IInv, TypeOK, BuildsAreFresh, ReloadTakesEffect, CanBuild, MutexIsHeld, LockIsHeld, Running, Requests, At, Goes, NoTick,
        durable, locks, runtimes, owner, memory, work, bounds
<1>1. ASSUME NEW t \in Ticks, TickBegin(t) PROVE (BuildsAreFresh /\ ReloadTakesEffect)'
  BY <1>1 DEF TickBegin
<1>2. ASSUME NEW t \in Ticks, TickEnter(t) PROVE (BuildsAreFresh /\ ReloadTakesEffect)'
  BY <1>2 DEF TickEnter, Enter
<1>3. ASSUME NEW t \in Ticks, TickGet(t) PROVE (BuildsAreFresh /\ ReloadTakesEffect)'
  BY <1>3 DEF TickGet, BuildBegin, Built
<1>4. ASSUME NEW t \in Ticks, TickArm(t) PROVE (BuildsAreFresh /\ ReloadTakesEffect)'
  BY <1>4 DEF TickArm
<1>5. ASSUME NEW t \in Ticks, TickSelect(t) PROVE (BuildsAreFresh /\ ReloadTakesEffect)'
  BY <1>5 DEF TickSelect, BuildBegin, Built, SelectNothing, SelectFork, SelectOther,
         Chosen, EndsEarly, KeepOrRelease, Release
<1>6. ASSUME NEW t \in Ticks, TickStalled(t) PROVE (BuildsAreFresh /\ ReloadTakesEffect)'
  BY <1>6 DEF TickStalled, ResetBegin, ResetEnd, Interrupted, KeepOrRelease, Release
<1>7. ASSUME NEW t \in Ticks, TickRearm(t) PROVE (BuildsAreFresh /\ ReloadTakesEffect)'
  BY <1>7 DEF TickRearm, KeepOrRelease, Release
<1>8. ASSUME NEW t \in Ticks, TickSchedules(t) PROVE (BuildsAreFresh /\ ReloadTakesEffect)'
  BY <1>8 DEF TickSchedules, AfterSchedule, KeepOrRelease, Release
<1>9. ASSUME NEW t \in Ticks, HandshakeEnds(t) PROVE (BuildsAreFresh /\ ReloadTakesEffect)'
  BY <1>9 DEF HandshakeEnds
<1>10. ASSUME NEW t \in Ticks, TickFails(t) PROVE (BuildsAreFresh /\ ReloadTakesEffect)'
  BY <1>10 DEF TickFails, KeepOrRelease, Release
<1>11. CASE LeaseExpires
  BY <1>11 DEF LeaseExpires
<1>12. CASE RunExpires
  BY <1>12 DEF RunExpires
<1>13. CASE ParkStop
  BY <1>13 DEF ParkStop, ResetBegin
<1>14. CASE ParkStopped
  BY <1>14 DEF ParkStopped, ResetEnd, Interrupted
<1>15. CASE ParkDelete
  BY <1>15 DEF ParkDelete
<1>16. CASE Parked
  BY <1>16 DEF Parked, Release
<1>17. CASE ActivateAgain
  BY <1>17 DEF ActivateAgain, Release
<1>18. CASE Grant
  BY <1>18 DEF Grant, Release
<1>19. CASE ParkRequested
  BY <1>19 DEF ParkRequested, Release
<1>20. CASE StartOperation
  BY <1>20 DEF StartOperation
<1>21. CASE EndOperation
  BY <1>21 DEF EndOperation
<1>22. ASSUME NEW o \in Owners, Activate(o) PROVE (BuildsAreFresh /\ ReloadTakesEffect)'
  BY <1>22 DEF Activate, Enter
<1>23. ASSUME NEW o \in Owners, Park(o) PROVE (BuildsAreFresh /\ ReloadTakesEffect)'
  BY <1>23 DEF Park, Enter
<1>24. ASSUME NEW p \in {"cron", "rpc", "reload"}, EnterRequest(p),
            p = "reload" => reload = "alarm"
     PROVE  (BuildsAreFresh /\ ReloadTakesEffect)'
  BY <1>24 DEF EnterRequest, Enter
<1>25. ASSUME NEW r \in Runtimes, SessionChanges(r) PROVE (BuildsAreFresh /\ ReloadTakesEffect)'
  BY <1>25 DEF SessionChanges
<1>26. ASSUME NEW r \in Runtimes, SupervisorEnds(r) PROVE (BuildsAreFresh /\ ReloadTakesEffect)'
  BY <1>26 DEF SupervisorEnds
<1>27. CASE Cron
  BY <1>27 DEF Cron, KeepOrRelease, Release
<1>28. CASE RpcChecks
  BY <1>28 DEF RpcChecks, KeepOrRelease, Release
<1>29. CASE RpcGets
  BY <1>29 DEF RpcGets, BuildBegin, Built, KeepOrRelease, Release
<1>30. CASE RpcFails
  BY <1>30 DEF RpcFails, KeepOrRelease, Release
<1>31. CASE PutConfig
  BY <1>31 DEF PutConfig
<1>32. CASE ReloadResets
  BY <1>32 DEF ReloadResets, ResetBegin, ResetEnd, Interrupted
<1>33. CASE ReloadSetsAlarm
  BY <1>33 DEF ReloadSetsAlarm, KeepOrRelease, Release
<1>34. CASE Crash
  BY <1>34 DEF Crash
<1>35. CASE UNCHANGED vars
  BY <1>35 DEF vars
<1>. QED
  BY <1>1, <1>2, <1>3, <1>4, <1>5, <1>6, <1>7, <1>8, <1>9, <1>10, <1>11, <1>12, <1>13,
     <1>14, <1>15, <1>16, <1>17, <1>18, <1>19, <1>20, <1>21, <1>22, <1>23, <1>24, <1>25,
     <1>26, <1>27, <1>28, <1>29, <1>30, <1>31, <1>32, <1>33, <1>34, <1>35
     DEF Next, Proceeds, LeaseSteps

\* The supervisor lives under its lease.
LEMMA ParkStep ==
    ASSUME IInv, [Next]_vars
    PROVE  ((stage = "staging" => ParkIsQuiet) /\ OwnerUnderLease)'
<1>. USE OwnerAssumption DEF IInv, TypeOK, ParkIsQuiet, OwnerUnderLease, OneOwner, Live, Runtimes, LockIsHeld, Running, NoLease, Active, Lease,
        durable, locks, runtimes, owner, memory, work, bounds
<1>1. ASSUME NEW t \in Ticks, TickBegin(t) PROVE ((stage = "staging" => ParkIsQuiet) /\ OwnerUnderLease)'
  BY <1>1 DEF TickBegin
<1>2. ASSUME NEW t \in Ticks, TickEnter(t) PROVE ((stage = "staging" => ParkIsQuiet) /\ OwnerUnderLease)'
  BY <1>2 DEF TickEnter, Enter
<1>3. ASSUME NEW t \in Ticks, TickGet(t) PROVE ((stage = "staging" => ParkIsQuiet) /\ OwnerUnderLease)'
  BY <1>3 DEF TickGet, BuildBegin, Built
<1>4. ASSUME NEW t \in Ticks, TickArm(t) PROVE ((stage = "staging" => ParkIsQuiet) /\ OwnerUnderLease)'
  BY <1>4 DEF TickArm
<1>5. ASSUME NEW t \in Ticks, TickSelect(t) PROVE ((stage = "staging" => ParkIsQuiet) /\ OwnerUnderLease)'
  BY <1>5 DEF TickSelect, BuildBegin, Built, SelectNothing, SelectFork, SelectOther,
         Chosen, EndsEarly, KeepOrRelease, Release
<1>6. ASSUME NEW t \in Ticks, TickStalled(t) PROVE ((stage = "staging" => ParkIsQuiet) /\ OwnerUnderLease)'
  <2>1. CASE ResetBegin(t) /\ UNCHANGED locks
    BY <1>6, <2>1 DEF TickStalled, ResetBegin
  <2>2. CASE UNCHANGED memory /\ KeepOrRelease(t)
    BY <1>6, <2>2 DEF TickStalled, KeepOrRelease, Release
  <2>3. CASE ResetEnd(t) /\ UNCHANGED locks
    <3>1. \A r \in Runtimes : ~Live(r)'
      BY <2>3 DEF ResetEnd, Interrupted
    <3>. QED
      BY <1>6, <2>3, <3>1 DEF TickStalled, ResetEnd
  <2>. QED
    BY <1>6, <2>1, <2>2, <2>3 DEF TickStalled
<1>7. ASSUME NEW t \in Ticks, TickRearm(t) PROVE ((stage = "staging" => ParkIsQuiet) /\ OwnerUnderLease)'
  BY <1>7 DEF TickRearm, KeepOrRelease, Release
<1>8. ASSUME NEW t \in Ticks, TickSchedules(t) PROVE ((stage = "staging" => ParkIsQuiet) /\ OwnerUnderLease)'
  BY <1>8 DEF TickSchedules, AfterSchedule, KeepOrRelease, Release
<1>9. ASSUME NEW t \in Ticks, HandshakeEnds(t) PROVE ((stage = "staging" => ParkIsQuiet) /\ OwnerUnderLease)'
  BY <1>9 DEF HandshakeEnds
<1>10. ASSUME NEW t \in Ticks, TickFails(t) PROVE ((stage = "staging" => ParkIsQuiet) /\ OwnerUnderLease)'
  BY <1>10 DEF TickFails, KeepOrRelease, Release
<1>11. CASE LeaseExpires
  BY <1>11 DEF LeaseExpires
<1>12. CASE RunExpires
  BY <1>12 DEF RunExpires
<1>13. CASE ParkStop
  BY <1>13 DEF ParkStop, ResetBegin
<1>14. CASE ParkStopped
  BY <1>14 DEF ParkStopped, ResetEnd, Interrupted
<1>15. CASE ParkDelete
  BY <1>15 DEF ParkDelete
<1>16. CASE Parked
  BY <1>16 DEF Parked, Release
<1>17. CASE ActivateAgain
  BY <1>17 DEF ActivateAgain, Release
<1>18. CASE Grant
  BY <1>18 DEF Grant, Release
<1>19. CASE ParkRequested
  BY <1>19 DEF ParkRequested, Release
<1>20. CASE StartOperation
  BY <1>20 DEF StartOperation
<1>21. CASE EndOperation
  BY <1>21 DEF EndOperation
<1>22. ASSUME NEW o \in Owners, Activate(o) PROVE ((stage = "staging" => ParkIsQuiet) /\ OwnerUnderLease)'
  BY <1>22 DEF Activate, Enter
<1>23. ASSUME NEW o \in Owners, Park(o) PROVE ((stage = "staging" => ParkIsQuiet) /\ OwnerUnderLease)'
  BY <1>23 DEF Park, Enter
<1>24. ASSUME NEW p \in {"cron", "rpc", "reload"}, EnterRequest(p),
            p = "reload" => reload = "alarm"
     PROVE  ((stage = "staging" => ParkIsQuiet) /\ OwnerUnderLease)'
  BY <1>24 DEF EnterRequest, Enter
<1>25. ASSUME NEW r \in Runtimes, SessionChanges(r) PROVE ((stage = "staging" => ParkIsQuiet) /\ OwnerUnderLease)'
  BY <1>25 DEF SessionChanges
<1>26. ASSUME NEW r \in Runtimes, SupervisorEnds(r) PROVE ((stage = "staging" => ParkIsQuiet) /\ OwnerUnderLease)'
  BY <1>26 DEF SupervisorEnds
<1>27. CASE Cron
  BY <1>27 DEF Cron, KeepOrRelease, Release
<1>28. CASE RpcChecks
  BY <1>28 DEF RpcChecks, KeepOrRelease, Release
<1>29. CASE RpcGets
  BY <1>29 DEF RpcGets, BuildBegin, Built, KeepOrRelease, Release
<1>30. CASE RpcFails
  BY <1>30 DEF RpcFails, KeepOrRelease, Release
<1>31. CASE PutConfig
  BY <1>31 DEF PutConfig
<1>32. CASE ReloadResets
  BY SMTT(30), <1>32 DEF ReloadResets, ResetBegin, ResetEnd, Interrupted
<1>33. CASE ReloadSetsAlarm
  BY <1>33 DEF ReloadSetsAlarm, KeepOrRelease, Release
<1>34. CASE Crash
  BY <1>34 DEF Crash
<1>35. CASE UNCHANGED vars
  BY <1>35 DEF vars
<1>. QED
  BY <1>1, <1>2, <1>3, <1>4, <1>5, <1>6, <1>7, <1>8, <1>9, <1>10, <1>11, <1>12, <1>13,
     <1>14, <1>15, <1>16, <1>17, <1>18, <1>19, <1>20, <1>21, <1>22, <1>23, <1>24, <1>25,
     <1>26, <1>27, <1>28, <1>29, <1>30, <1>31, <1>32, <1>33, <1>34, <1>35
     DEF Next, Proceeds, LeaseSteps

\* An operation runs under its lease.
LEMMA OperationStep ==
    ASSUME IInv, [Next]_vars
    PROVE  (OperationsAreStopped /\ OperationUnderLease)'
<1>. USE OwnerAssumption DEF IInv, TypeOK, OperationsAreStopped, OperationUnderLease, LockIsHeld, Running, NoLease, Active,
        durable, locks, runtimes, owner, memory, work, bounds
<1>1. ASSUME NEW t \in Ticks, TickBegin(t) PROVE (OperationsAreStopped /\ OperationUnderLease)'
  BY <1>1 DEF TickBegin
<1>2. ASSUME NEW t \in Ticks, TickEnter(t) PROVE (OperationsAreStopped /\ OperationUnderLease)'
  BY <1>2 DEF TickEnter, Enter
<1>3. ASSUME NEW t \in Ticks, TickGet(t) PROVE (OperationsAreStopped /\ OperationUnderLease)'
  BY <1>3 DEF TickGet, BuildBegin, Built
<1>4. ASSUME NEW t \in Ticks, TickArm(t) PROVE (OperationsAreStopped /\ OperationUnderLease)'
  BY <1>4 DEF TickArm
<1>5. ASSUME NEW t \in Ticks, TickSelect(t) PROVE (OperationsAreStopped /\ OperationUnderLease)'
  BY <1>5 DEF TickSelect, BuildBegin, Built, SelectNothing, SelectFork, SelectOther,
         Chosen, EndsEarly, KeepOrRelease, Release
<1>6. ASSUME NEW t \in Ticks, TickStalled(t) PROVE (OperationsAreStopped /\ OperationUnderLease)'
  BY <1>6 DEF TickStalled, ResetBegin, ResetEnd, Interrupted, KeepOrRelease, Release
<1>7. ASSUME NEW t \in Ticks, TickRearm(t) PROVE (OperationsAreStopped /\ OperationUnderLease)'
  BY <1>7 DEF TickRearm, KeepOrRelease, Release
<1>8. ASSUME NEW t \in Ticks, TickSchedules(t) PROVE (OperationsAreStopped /\ OperationUnderLease)'
  BY <1>8 DEF TickSchedules, AfterSchedule, KeepOrRelease, Release
<1>9. ASSUME NEW t \in Ticks, HandshakeEnds(t) PROVE (OperationsAreStopped /\ OperationUnderLease)'
  BY <1>9 DEF HandshakeEnds
<1>10. ASSUME NEW t \in Ticks, TickFails(t) PROVE (OperationsAreStopped /\ OperationUnderLease)'
  BY <1>10 DEF TickFails, KeepOrRelease, Release
<1>11. CASE LeaseExpires
  BY <1>11 DEF LeaseExpires
<1>12. CASE RunExpires
  BY <1>12 DEF RunExpires
<1>13. CASE ParkStop
  BY <1>13 DEF ParkStop, ResetBegin
<1>14. CASE ParkStopped
  BY <1>14 DEF ParkStopped, ResetEnd, Interrupted
<1>15. CASE ParkDelete
  BY <1>15 DEF ParkDelete
<1>16. CASE Parked
  BY <1>16 DEF Parked, Release
<1>17. CASE ActivateAgain
  BY <1>17 DEF ActivateAgain, Release
<1>18. CASE Grant
  BY <1>18 DEF Grant, Release
<1>19. CASE ParkRequested
  BY <1>19 DEF ParkRequested, Release
<1>20. CASE StartOperation
  BY <1>20 DEF StartOperation
<1>21. CASE EndOperation
  BY <1>21 DEF EndOperation
<1>22. ASSUME NEW o \in Owners, Activate(o) PROVE (OperationsAreStopped /\ OperationUnderLease)'
  BY <1>22 DEF Activate, Enter
<1>23. ASSUME NEW o \in Owners, Park(o) PROVE (OperationsAreStopped /\ OperationUnderLease)'
  BY <1>23 DEF Park, Enter
<1>24. ASSUME NEW p \in {"cron", "rpc", "reload"}, EnterRequest(p),
            p = "reload" => reload = "alarm"
     PROVE  (OperationsAreStopped /\ OperationUnderLease)'
  BY <1>24 DEF EnterRequest, Enter
<1>25. ASSUME NEW r \in Runtimes, SessionChanges(r) PROVE (OperationsAreStopped /\ OperationUnderLease)'
  BY <1>25 DEF SessionChanges
<1>26. ASSUME NEW r \in Runtimes, SupervisorEnds(r) PROVE (OperationsAreStopped /\ OperationUnderLease)'
  BY <1>26 DEF SupervisorEnds
<1>27. CASE Cron
  BY <1>27 DEF Cron, KeepOrRelease, Release
<1>28. CASE RpcChecks
  BY <1>28 DEF RpcChecks, KeepOrRelease, Release
<1>29. CASE RpcGets
  BY <1>29 DEF RpcGets, BuildBegin, Built, KeepOrRelease, Release
<1>30. CASE RpcFails
  BY <1>30 DEF RpcFails, KeepOrRelease, Release
<1>31. CASE PutConfig
  BY <1>31 DEF PutConfig
<1>32. CASE ReloadResets
  BY <1>32 DEF ReloadResets, ResetBegin, ResetEnd, Interrupted
<1>33. CASE ReloadSetsAlarm
  BY <1>33 DEF ReloadSetsAlarm, KeepOrRelease, Release
<1>34. CASE Crash
  BY <1>34 DEF Crash
<1>35. CASE UNCHANGED vars
  BY <1>35 DEF vars
<1>. QED
  BY <1>1, <1>2, <1>3, <1>4, <1>5, <1>6, <1>7, <1>8, <1>9, <1>10, <1>11, <1>12, <1>13,
     <1>14, <1>15, <1>16, <1>17, <1>18, <1>19, <1>20, <1>21, <1>22, <1>23, <1>24, <1>25,
     <1>26, <1>27, <1>28, <1>29, <1>30, <1>31, <1>32, <1>33, <1>34, <1>35
     DEF Next, Proceeds, LeaseSteps

\* The lease mutex is taken and released as it should be.
LEMMA LocksStep ==
    ASSUME IInv, [Next]_vars
    PROVE  (GrantIsBounded /\ LockIsHeld)'
<1>. USE OwnerAssumption DEF IInv, TypeOK, GrantIsBounded, LockIsHeld, Running, Requests,
        durable, locks, runtimes, owner, memory, work, bounds
<1>1. ASSUME NEW t \in Ticks, TickBegin(t) PROVE (GrantIsBounded /\ LockIsHeld)'
  BY <1>1 DEF TickBegin
<1>2. ASSUME NEW t \in Ticks, TickEnter(t) PROVE (GrantIsBounded /\ LockIsHeld)'
  BY <1>2 DEF TickEnter, Enter
<1>3. ASSUME NEW t \in Ticks, TickGet(t) PROVE (GrantIsBounded /\ LockIsHeld)'
  BY <1>3 DEF TickGet, BuildBegin, Built
<1>4. ASSUME NEW t \in Ticks, TickArm(t) PROVE (GrantIsBounded /\ LockIsHeld)'
  BY <1>4 DEF TickArm
<1>5. ASSUME NEW t \in Ticks, TickSelect(t) PROVE (GrantIsBounded /\ LockIsHeld)'
  BY <1>5 DEF TickSelect, BuildBegin, Built, SelectNothing, SelectFork, SelectOther,
         Chosen, EndsEarly, KeepOrRelease, Release
<1>6. ASSUME NEW t \in Ticks, TickStalled(t) PROVE (GrantIsBounded /\ LockIsHeld)'
  BY <1>6 DEF TickStalled, ResetBegin, ResetEnd, Interrupted, KeepOrRelease, Release
<1>7. ASSUME NEW t \in Ticks, TickRearm(t) PROVE (GrantIsBounded /\ LockIsHeld)'
  BY <1>7 DEF TickRearm, KeepOrRelease, Release
<1>8. ASSUME NEW t \in Ticks, TickSchedules(t) PROVE (GrantIsBounded /\ LockIsHeld)'
  BY <1>8 DEF TickSchedules, AfterSchedule, KeepOrRelease, Release
<1>9. ASSUME NEW t \in Ticks, HandshakeEnds(t) PROVE (GrantIsBounded /\ LockIsHeld)'
  BY <1>9 DEF HandshakeEnds
<1>10. ASSUME NEW t \in Ticks, TickFails(t) PROVE (GrantIsBounded /\ LockIsHeld)'
  BY <1>10 DEF TickFails, KeepOrRelease, Release
<1>11. CASE LeaseExpires
  BY <1>11 DEF LeaseExpires
<1>12. CASE RunExpires
  BY <1>12 DEF RunExpires
<1>13. CASE ParkStop
  BY <1>13 DEF ParkStop, ResetBegin
<1>14. CASE ParkStopped
  BY <1>14 DEF ParkStopped, ResetEnd, Interrupted
<1>15. CASE ParkDelete
  BY <1>15 DEF ParkDelete
<1>16. CASE Parked
  BY <1>16 DEF Parked, Release
<1>17. CASE ActivateAgain
  BY <1>17 DEF ActivateAgain, Release
<1>18. CASE Grant
  BY <1>18 DEF Grant, Release
<1>19. CASE ParkRequested
  BY <1>19 DEF ParkRequested, Release
<1>20. CASE StartOperation
  BY <1>20 DEF StartOperation
<1>21. CASE EndOperation
  BY <1>21 DEF EndOperation
<1>22. ASSUME NEW o \in Owners, Activate(o) PROVE (GrantIsBounded /\ LockIsHeld)'
  BY <1>22 DEF Activate, Enter
<1>23. ASSUME NEW o \in Owners, Park(o) PROVE (GrantIsBounded /\ LockIsHeld)'
  BY <1>23 DEF Park, Enter
<1>24. ASSUME NEW p \in {"cron", "rpc", "reload"}, EnterRequest(p),
            p = "reload" => reload = "alarm"
     PROVE  (GrantIsBounded /\ LockIsHeld)'
  BY <1>24 DEF EnterRequest, Enter
<1>25. ASSUME NEW r \in Runtimes, SessionChanges(r) PROVE (GrantIsBounded /\ LockIsHeld)'
  BY <1>25 DEF SessionChanges
<1>26. ASSUME NEW r \in Runtimes, SupervisorEnds(r) PROVE (GrantIsBounded /\ LockIsHeld)'
  BY <1>26 DEF SupervisorEnds
<1>27. CASE Cron
  BY <1>27 DEF Cron, KeepOrRelease, Release
<1>28. CASE RpcChecks
  BY <1>28 DEF RpcChecks, KeepOrRelease, Release
<1>29. CASE RpcGets
  BY <1>29 DEF RpcGets, BuildBegin, Built, KeepOrRelease, Release
<1>30. CASE RpcFails
  BY <1>30 DEF RpcFails, KeepOrRelease, Release
<1>31. CASE PutConfig
  BY <1>31 DEF PutConfig
<1>32. CASE ReloadResets
  BY <1>32 DEF ReloadResets, ResetBegin, ResetEnd, Interrupted
<1>33. CASE ReloadSetsAlarm
  BY <1>33 DEF ReloadSetsAlarm, KeepOrRelease, Release
<1>34. CASE Crash
  BY <1>34 DEF Crash
<1>35. CASE UNCHANGED vars
  BY <1>35 DEF vars
<1>. QED
  BY <1>1, <1>2, <1>3, <1>4, <1>5, <1>6, <1>7, <1>8, <1>9, <1>10, <1>11, <1>12, <1>13,
     <1>14, <1>15, <1>16, <1>17, <1>18, <1>19, <1>20, <1>21, <1>22, <1>23, <1>24, <1>25,
     <1>26, <1>27, <1>28, <1>29, <1>30, <1>31, <1>32, <1>33, <1>34, <1>35
     DEF Next, Proceeds, LeaseSteps
-----------------------------------------------------------------------------
LEMMA InitIInv == Init => IInv
<1>. SUFFICES ASSUME Init PROVE IInv
  OBVIOUS
<1>1. TypeOK
  BY TypeInit
<1>2. \A r \in Runtimes : ~Live(r)
  BY DEF Init, Live
<1>3. OneOwner /\ OwnerUnderLease /\ (stage = "staging" => ParkIsQuiet)
  BY <1>2 DEF Init, OneOwner, OwnerUnderLease, ParkIsQuiet
<1>4. GrantIsBounded /\ LockIsHeld /\ MutexIsHeld
  BY OwnerAssumption DEF Init, GrantIsBounded, LockIsHeld, MutexIsHeld, Requests
<1>5. BuildsAreFresh /\ ReloadTakesEffect
  BY OwnerAssumption DEF Init, BuildsAreFresh, ReloadTakesEffect, CanBuild, Requests
<1>6. OperationsAreStopped /\ OperationUnderLease
  BY DEF Init, OperationsAreStopped, OperationUnderLease
<1>. QED
  BY <1>1, <1>3, <1>4, <1>5, <1>6 DEF IInv

LEMMA TypeStep ==
    ASSUME IInv, [Next]_vars
    PROVE  TypeOK'
<1>. USE DEF IInv
<1>1. ASSUME NEW t \in Ticks, Proceeds(t) \/ TickFails(t) PROVE TypeOK'
  BY <1>1, TypeTick DEF Proceeds
<1>2. CASE LeaseSteps
  <2>1. ASSUME NEW o \in Owners, Activate(o) \/ Park(o) PROVE TypeOK'
    BY <2>1, TypeOwners
  <2>. QED
    BY <1>2, <2>1, TypeLease DEF LeaseSteps
<1>. QED
  BY <1>1, <1>2, TypeRest DEF Next

LEMMA Invariance == Spec => []IInv
<1>1. IInv /\ [Next]_vars => IInv'
  BY TypeStep, OwnerStep, LocksStep, MutexStep, BuildStep, ParkStep, OperationStep DEF IInv
<1>. QED
  BY InitIInv, <1>1, PTL DEF Spec

\* Every variable keeps its shape, and no runtime ever has two supervisors.
THEOREM OwnerTypeCorrect == Spec => []TypeOK
BY Invariance, PTL DEF IInv

\* However many invocations overlap, there is one supervisor, the published one
\* of the installed runtime, and it holds the gate (bot-state.ts, loop-gate.ts).
THEOREM OwnerIsAlone == Spec => []OneOwner
BY Invariance, PTL DEF IInv

\* A runtime built from a configuration that a reload replaced is not installed
\* once the reload has reset, however long the build took (runtime-install.ts).
THEOREM ReloadsTakeEffect == Spec => []ReloadTakesEffect
BY Invariance, PTL DEF IInv

\* A supervisor of the staging Gateway never outlives the lease it was started
\* under, through expiry, park, grant and crash (gateway-lease.ts).
THEOREM OwnersKeepTheirLease == Spec => []OwnerUnderLease
BY Invariance, PTL DEF IInv

\* Nor does an operation that runs beside the lease mutex.
THEOREM OperationsKeepTheirLease == Spec => []OperationUnderLease
BY Invariance, PTL DEF IInv

-----------------------------------------------------------------------------
(* The owner is watched                                                    *)

\* One object runs one alarm invocation at a time, or it is the mutex of the
\* staging lease that keeps them apart.
OneAlarmAtATime == "production" \in Stages => \A s, t \in Ticks : s = t

Busy(t) == tick[t].pc \notin {"idle", "handshake"}

\* Of the lease mutex only a park, which retires the owner, counts: what else
\* holds it may leave without having set an alarm.
IsWatched ==
    (\E r \in Runtimes : Live(r)) =>
        \/ alarm = "pending" \/ \E t \in Ticks : Busy(t)
        \/ mutex # None \/ phase \in {"stop", "stopping"}

\* A supervisor that met a terminal close has ended, so that an invocation may
\* end the alarm chain of a stopped one ...
StoppedIsDead == \A r \in Runtimes : Live(r) => status[r] # "stopped"

\* ... if the runtime it looks at is the one of the live owner.
LooksAtOwner ==
    \A t \in Ticks : tick[t].pc \in {"stalled", "schedule"} =>
        \A r \in Runtimes : Live(r) => tick[t].rt = r

TicksTakeTurns ==
    stage = "staging" =>
        \A t \in Ticks : tick[t].pc \in {"idle", "fired", "handshake"} \/ holder = t

\* An RPC holds the lifecycle mutex to build, when there is no runtime.
RpcBuilds == mutex = "rpc" /\ phase # "stopping" => current = 0

WInv == IsWatched /\ StoppedIsDead /\ LooksAtOwner /\ TicksTakeTurns /\ RpcBuilds

\* A supervisor is forked under a status that is not stopped, and stops with it.
LEMMA StoppedStep ==
    ASSUME IInv, WInv, [Next]_vars
    PROVE  StoppedIsDead'
<1>. USE OwnerAssumption DEF IInv, WInv, StoppedIsDead, TypeOK, OneOwner, Live, Runtimes, LockIsHeld, MutexIsHeld, Running, Claimed,
        durable, locks, runtimes, owner, memory, work, bounds
<1>1. ASSUME NEW t \in Ticks, TickBegin(t) PROVE StoppedIsDead'
  BY <1>1 DEF TickBegin
<1>2. ASSUME NEW t \in Ticks, TickEnter(t) PROVE StoppedIsDead'
  BY <1>2 DEF TickEnter, Enter
<1>3. ASSUME NEW t \in Ticks, TickGet(t) PROVE StoppedIsDead'
  BY <1>3 DEF TickGet, BuildBegin, Built
<1>4. ASSUME NEW t \in Ticks, TickArm(t) PROVE StoppedIsDead'
  BY <1>4 DEF TickArm
<1>5. ASSUME NEW t \in Ticks, TickSelect(t) PROVE StoppedIsDead'
  BY <1>5 DEF TickSelect, BuildBegin, Built, SelectNothing, SelectFork, SelectOther, Chosen, EndsEarly, Claimed, KeepOrRelease, Release
<1>6. ASSUME NEW t \in Ticks, TickStalled(t) PROVE StoppedIsDead'
  BY <1>6 DEF TickStalled, ResetBegin, ResetEnd, Interrupted, KeepOrRelease, Release
<1>7. ASSUME NEW t \in Ticks, TickRearm(t) PROVE StoppedIsDead'
  BY <1>7 DEF TickRearm, KeepOrRelease, Release
<1>8. ASSUME NEW t \in Ticks, TickSchedules(t) PROVE StoppedIsDead'
  BY <1>8 DEF TickSchedules, AfterSchedule, KeepOrRelease, Release
<1>9. ASSUME NEW t \in Ticks, HandshakeEnds(t) PROVE StoppedIsDead'
  BY <1>9 DEF HandshakeEnds
<1>10. ASSUME NEW t \in Ticks, TickFails(t) PROVE StoppedIsDead'
  BY <1>10 DEF TickFails, KeepOrRelease, Release
<1>11. CASE LeaseExpires
  BY <1>11 DEF LeaseExpires
<1>12. CASE RunExpires
  BY <1>12 DEF RunExpires
<1>13. CASE ParkStop
  BY <1>13 DEF ParkStop, ResetBegin
<1>14. CASE ParkStopped
  BY <1>14 DEF ParkStopped, ResetEnd, Interrupted
<1>15. CASE ParkDelete
  BY <1>15 DEF ParkDelete, ParkIsQuiet
<1>16. CASE Parked
  BY <1>16 DEF Parked, Release, ParkIsQuiet
<1>17. CASE ActivateAgain
  BY <1>17 DEF ActivateAgain, Release
<1>18. CASE Grant
  BY <1>18 DEF Grant, Release
<1>19. CASE ParkRequested
  BY <1>19 DEF ParkRequested, Release
<1>20. CASE StartOperation
  BY <1>20 DEF StartOperation
<1>21. CASE EndOperation
  BY <1>21 DEF EndOperation
<1>22. ASSUME NEW o \in Owners, Activate(o) PROVE StoppedIsDead'
  BY <1>22 DEF Activate, Enter
<1>23. ASSUME NEW o \in Owners, Park(o) PROVE StoppedIsDead'
  BY <1>23 DEF Park, Enter
<1>24. ASSUME NEW p \in {"cron", "rpc", "reload"}, EnterRequest(p),
            p = "reload" => reload = "alarm"
     PROVE  StoppedIsDead'
  BY <1>24 DEF EnterRequest, Enter
<1>25. ASSUME NEW r \in Runtimes, SessionChanges(r) PROVE StoppedIsDead'
  BY <1>25 DEF SessionChanges
<1>26. ASSUME NEW r \in Runtimes, SupervisorEnds(r) PROVE StoppedIsDead'
  BY <1>26 DEF SupervisorEnds
<1>27. CASE Cron
  BY <1>27 DEF Cron, KeepOrRelease, Release
<1>28. CASE RpcChecks
  BY <1>28 DEF RpcChecks, Repaired, KeepOrRelease, Release
<1>29. CASE RpcGets
  BY <1>29 DEF RpcGets, BuildBegin, Built, KeepOrRelease, Release
<1>30. CASE RpcFails
  BY <1>30 DEF RpcFails, KeepOrRelease, Release
<1>31. CASE PutConfig
  BY <1>31 DEF PutConfig
<1>32. CASE ReloadResets
  BY <1>32 DEF ReloadResets, ResetBegin, ResetEnd, Interrupted
<1>33. CASE ReloadSetsAlarm
  BY <1>33 DEF ReloadSetsAlarm, KeepOrRelease, Release
<1>34. CASE Crash
  BY <1>34 DEF Crash
<1>35. CASE UNCHANGED vars
  BY <1>35 DEF vars
<1>. QED
  BY <1>1, <1>2, <1>3, <1>4, <1>5, <1>6, <1>7, <1>8, <1>9, <1>10, <1>11, <1>12, <1>13,
     <1>14, <1>15, <1>16, <1>17, <1>18, <1>19, <1>20, <1>21, <1>22, <1>23, <1>24, <1>25,
     <1>26, <1>27, <1>28, <1>29, <1>30, <1>31, <1>32, <1>33, <1>34, <1>35
     DEF Next, Proceeds, LeaseSteps

\* Invocations take turns under the lease.
LEMMA TurnsStep ==
    ASSUME IInv, WInv, [Next]_vars
    PROVE  TicksTakeTurns'
<1>. USE OwnerAssumption DEF IInv, WInv, TicksTakeTurns, TypeOK, LockIsHeld, MutexIsHeld, Running, Requests, At, Goes, NoTick, Invocation,
        durable, locks, runtimes, owner, memory, work, bounds
<1>1. ASSUME NEW t \in Ticks, TickBegin(t) PROVE TicksTakeTurns'
  BY <1>1 DEF TickBegin
<1>2. ASSUME NEW t \in Ticks, TickEnter(t) PROVE TicksTakeTurns'
  BY <1>2 DEF TickEnter, Enter
<1>3. ASSUME NEW t \in Ticks, TickGet(t) PROVE TicksTakeTurns'
  BY <1>3 DEF TickGet, BuildBegin, Built
<1>4. ASSUME NEW t \in Ticks, TickArm(t) PROVE TicksTakeTurns'
  BY <1>4 DEF TickArm
<1>5. ASSUME NEW t \in Ticks, TickSelect(t) PROVE TicksTakeTurns'
  BY <1>5 DEF TickSelect, BuildBegin, Built, SelectNothing, SelectFork, SelectOther, Chosen, EndsEarly, Claimed, KeepOrRelease, Release
<1>6. ASSUME NEW t \in Ticks, TickStalled(t) PROVE TicksTakeTurns'
  BY <1>6 DEF TickStalled, ResetBegin, ResetEnd, Interrupted, KeepOrRelease, Release
<1>7. ASSUME NEW t \in Ticks, TickRearm(t) PROVE TicksTakeTurns'
  BY <1>7 DEF TickRearm, KeepOrRelease, Release
<1>8. ASSUME NEW t \in Ticks, TickSchedules(t) PROVE TicksTakeTurns'
  BY <1>8 DEF TickSchedules, AfterSchedule, KeepOrRelease, Release
<1>9. ASSUME NEW t \in Ticks, HandshakeEnds(t) PROVE TicksTakeTurns'
  BY <1>9 DEF HandshakeEnds
<1>10. ASSUME NEW t \in Ticks, TickFails(t) PROVE TicksTakeTurns'
  BY <1>10 DEF TickFails, KeepOrRelease, Release
<1>11. CASE LeaseExpires
  BY <1>11 DEF LeaseExpires
<1>12. CASE RunExpires
  BY <1>12 DEF RunExpires
<1>13. CASE ParkStop
  BY <1>13 DEF ParkStop, ResetBegin
<1>14. CASE ParkStopped
  BY <1>14 DEF ParkStopped, ResetEnd, Interrupted
<1>15. CASE ParkDelete
  BY <1>15 DEF ParkDelete, ParkIsQuiet
<1>16. CASE Parked
  BY <1>16 DEF Parked, Release, ParkIsQuiet
<1>17. CASE ActivateAgain
  BY <1>17 DEF ActivateAgain, Release
<1>18. CASE Grant
  BY <1>18 DEF Grant, Release
<1>19. CASE ParkRequested
  BY <1>19 DEF ParkRequested, Release
<1>20. CASE StartOperation
  BY <1>20 DEF StartOperation
<1>21. CASE EndOperation
  BY <1>21 DEF EndOperation
<1>22. ASSUME NEW o \in Owners, Activate(o) PROVE TicksTakeTurns'
  BY <1>22 DEF Activate, Enter
<1>23. ASSUME NEW o \in Owners, Park(o) PROVE TicksTakeTurns'
  BY <1>23 DEF Park, Enter
<1>24. ASSUME NEW p \in {"cron", "rpc", "reload"}, EnterRequest(p),
            p = "reload" => reload = "alarm"
     PROVE  TicksTakeTurns'
  BY <1>24 DEF EnterRequest, Enter
<1>25. ASSUME NEW r \in Runtimes, SessionChanges(r) PROVE TicksTakeTurns'
  BY <1>25 DEF SessionChanges
<1>26. ASSUME NEW r \in Runtimes, SupervisorEnds(r) PROVE TicksTakeTurns'
  BY <1>26 DEF SupervisorEnds
<1>27. CASE Cron
  BY <1>27 DEF Cron, KeepOrRelease, Release
<1>28. CASE RpcChecks
  BY <1>28 DEF RpcChecks, Repaired, KeepOrRelease, Release
<1>29. CASE RpcGets
  BY <1>29 DEF RpcGets, BuildBegin, Built, KeepOrRelease, Release
<1>30. CASE RpcFails
  BY <1>30 DEF RpcFails, KeepOrRelease, Release
<1>31. CASE PutConfig
  BY <1>31 DEF PutConfig
<1>32. CASE ReloadResets
  BY <1>32 DEF ReloadResets, ResetBegin, ResetEnd, Interrupted
<1>33. CASE ReloadSetsAlarm
  BY <1>33 DEF ReloadSetsAlarm, KeepOrRelease, Release
<1>34. CASE Crash
  BY <1>34 DEF Crash
<1>35. CASE UNCHANGED vars
  BY <1>35 DEF vars
<1>. QED
  BY <1>1, <1>2, <1>3, <1>4, <1>5, <1>6, <1>7, <1>8, <1>9, <1>10, <1>11, <1>12, <1>13,
     <1>14, <1>15, <1>16, <1>17, <1>18, <1>19, <1>20, <1>21, <1>22, <1>23, <1>24, <1>25,
     <1>26, <1>27, <1>28, <1>29, <1>30, <1>31, <1>32, <1>33, <1>34, <1>35
     DEF Next, Proceeds, LeaseSteps

\* Nobody installs a runtime while an RPC builds one.
LEMMA RpcStep ==
    ASSUME IInv, WInv, [Next]_vars
    PROVE  RpcBuilds'
<1>. USE OwnerAssumption DEF IInv, WInv, RpcBuilds, TypeOK, LockIsHeld, MutexIsHeld, Running, Requests, At, Goes,
        durable, locks, runtimes, owner, memory, work, bounds
<1>1. ASSUME NEW t \in Ticks, TickBegin(t) PROVE RpcBuilds'
  BY <1>1 DEF TickBegin
<1>2. ASSUME NEW t \in Ticks, TickEnter(t) PROVE RpcBuilds'
  BY <1>2 DEF TickEnter, Enter
<1>3. ASSUME NEW t \in Ticks, TickGet(t) PROVE RpcBuilds'
  BY <1>3 DEF TickGet, BuildBegin, Built
<1>4. ASSUME NEW t \in Ticks, TickArm(t) PROVE RpcBuilds'
  BY <1>4 DEF TickArm
<1>5. ASSUME NEW t \in Ticks, TickSelect(t) PROVE RpcBuilds'
  BY <1>5 DEF TickSelect, BuildBegin, Built, SelectNothing, SelectFork, SelectOther, Chosen, EndsEarly, Claimed, KeepOrRelease, Release
<1>6. ASSUME NEW t \in Ticks, TickStalled(t) PROVE RpcBuilds'
  BY <1>6 DEF TickStalled, ResetBegin, ResetEnd, Interrupted, KeepOrRelease, Release
<1>7. ASSUME NEW t \in Ticks, TickRearm(t) PROVE RpcBuilds'
  BY <1>7 DEF TickRearm, KeepOrRelease, Release
<1>8. ASSUME NEW t \in Ticks, TickSchedules(t) PROVE RpcBuilds'
  BY <1>8 DEF TickSchedules, AfterSchedule, KeepOrRelease, Release
<1>9. ASSUME NEW t \in Ticks, HandshakeEnds(t) PROVE RpcBuilds'
  BY <1>9 DEF HandshakeEnds
<1>10. ASSUME NEW t \in Ticks, TickFails(t) PROVE RpcBuilds'
  BY <1>10 DEF TickFails, KeepOrRelease, Release
<1>11. CASE LeaseExpires
  BY <1>11 DEF LeaseExpires
<1>12. CASE RunExpires
  BY <1>12 DEF RunExpires
<1>13. CASE ParkStop
  BY <1>13 DEF ParkStop, ResetBegin
<1>14. CASE ParkStopped
  BY <1>14 DEF ParkStopped, ResetEnd, Interrupted
<1>15. CASE ParkDelete
  BY <1>15 DEF ParkDelete, ParkIsQuiet
<1>16. CASE Parked
  BY <1>16 DEF Parked, Release, ParkIsQuiet
<1>17. CASE ActivateAgain
  BY <1>17 DEF ActivateAgain, Release
<1>18. CASE Grant
  BY <1>18 DEF Grant, Release
<1>19. CASE ParkRequested
  BY <1>19 DEF ParkRequested, Release
<1>20. CASE StartOperation
  BY <1>20 DEF StartOperation
<1>21. CASE EndOperation
  BY <1>21 DEF EndOperation
<1>22. ASSUME NEW o \in Owners, Activate(o) PROVE RpcBuilds'
  BY <1>22 DEF Activate, Enter
<1>23. ASSUME NEW o \in Owners, Park(o) PROVE RpcBuilds'
  BY <1>23 DEF Park, Enter
<1>24. ASSUME NEW p \in {"cron", "rpc", "reload"}, EnterRequest(p),
            p = "reload" => reload = "alarm"
     PROVE  RpcBuilds'
  BY <1>24 DEF EnterRequest, Enter
<1>25. ASSUME NEW r \in Runtimes, SessionChanges(r) PROVE RpcBuilds'
  BY <1>25 DEF SessionChanges
<1>26. ASSUME NEW r \in Runtimes, SupervisorEnds(r) PROVE RpcBuilds'
  BY <1>26 DEF SupervisorEnds
<1>27. CASE Cron
  BY <1>27 DEF Cron, KeepOrRelease, Release
<1>28. CASE RpcChecks
  BY <1>28 DEF RpcChecks, Repaired, KeepOrRelease, Release
<1>29. CASE RpcGets
  BY <1>29 DEF RpcGets, BuildBegin, Built, KeepOrRelease, Release
<1>30. CASE RpcFails
  BY <1>30 DEF RpcFails, KeepOrRelease, Release
<1>31. CASE PutConfig
  BY <1>31 DEF PutConfig
<1>32. CASE ReloadResets
  BY <1>32 DEF ReloadResets, ResetBegin, ResetEnd, Interrupted
<1>33. CASE ReloadSetsAlarm
  BY <1>33 DEF ReloadSetsAlarm, KeepOrRelease, Release
<1>34. CASE Crash
  BY <1>34 DEF Crash
<1>35. CASE UNCHANGED vars
  BY <1>35 DEF vars
<1>. QED
  BY <1>1, <1>2, <1>3, <1>4, <1>5, <1>6, <1>7, <1>8, <1>9, <1>10, <1>11, <1>12, <1>13,
     <1>14, <1>15, <1>16, <1>17, <1>18, <1>19, <1>20, <1>21, <1>22, <1>23, <1>24, <1>25,
     <1>26, <1>27, <1>28, <1>29, <1>30, <1>31, <1>32, <1>33, <1>34, <1>35
     DEF Next, Proceeds, LeaseSteps

\* An invocation that goes on moves, and no other does.
LEMMA GoesOn ==
    ASSUME TypeOK, NEW t \in Ticks, NEW to, Goes(t, to)
    PROVE  \A s \in Ticks : tick'[s] = tick[s] \/ tick'[s].pc = to
  BY DEF TypeOK, Goes, Invocation

\* Invocations look at the live owner: between choosing the runtime and acting on it no
\* other is forked.
LEMMA LooksStep ==
    ASSUME IInv, WInv, OneAlarmAtATime, [Next]_vars
    PROVE  LooksAtOwner'
<1>. USE OwnerAssumption DEF IInv, WInv, LooksAtOwner, TicksTakeTurns, OneAlarmAtATime, TypeOK, OneOwner, Live, Runtimes, LockIsHeld,
        MutexIsHeld, Running, Requests, Claimed, At, Goes, NoTick, Invocation,
        durable, locks, runtimes, owner, memory, work, bounds
<1>1. ASSUME NEW t \in Ticks, TickBegin(t) PROVE LooksAtOwner'
  BY SMTT(30), <1>1 DEF TickBegin
<1>2. ASSUME NEW t \in Ticks, TickEnter(t) PROVE LooksAtOwner'
  <2>1. /\ alive' = alive /\ tick'[t].pc = "get"
        /\ \A s \in Ticks \ {t} : tick'[s] = tick[s]
    BY <1>2 DEF TickEnter
  <2>. QED
    BY SMTT(30), <2>1
<1>3. ASSUME NEW t \in Ticks, TickGet(t) PROVE LooksAtOwner'
  <2>1. alive' = alive /\ (tick' = tick \/ Goes(t, "arm"))
    BY <1>3 DEF TickGet
  <2>2. \A s \in Ticks : tick'[s] = tick[s] \/ tick'[s].pc = "arm"
    BY <2>1, GoesOn
  <2>. QED
    BY <2>1, <2>2
<1>4. ASSUME NEW t \in Ticks, TickArm(t) PROVE LooksAtOwner'
  BY SMTT(30), <1>4 DEF TickArm
<1>5. ASSUME NEW t \in Ticks, TickSelect(t) PROVE LooksAtOwner'
  <2>. USE <1>5
  <2>1. CASE BuildBegin(t) /\ UNCHANGED <<tick, owner>>
    BY <2>1 DEF BuildBegin
  <2>2. CASE Built(t) /\ UNCHANGED <<tick, owner>>
    BY <2>2 DEF Built
  <2>3. CASE SelectNothing(t)
    BY <2>3 DEF SelectNothing, EndsEarly
  <2>4. CASE SelectFork(t)
    <3>1. \A s \in Ticks \ {t} : tick[s].pc \notin {"stalled", "schedule"}
      BY DEF TickSelect
    <3>2. \A r \in Runtimes \ {current} : ~Live(r)
      OBVIOUS
    <3>3. \A r \in Runtimes : Live(r)' => r = current
      BY <2>4, <3>2 DEF SelectFork
    <3>4. /\ tick'[t].rt = current
          /\ \A s \in Ticks \ {t} : tick'[s] = tick[s]
      BY <2>4 DEF SelectFork, Chosen
    <3>. QED
      BY <3>1, <3>3, <3>4
  <2>5. CASE SelectOther(t)
    <3>1. /\ alive' = alive /\ tick'[t].rt = current
          /\ \A s \in Ticks \ {t} : tick'[s] = tick[s]
      BY <2>5 DEF SelectOther, Chosen
    <3>. QED
      BY <3>1
  <2>. QED
    BY <2>1, <2>2, <2>3, <2>4, <2>5 DEF TickSelect
<1>6. ASSUME NEW t \in Ticks, TickStalled(t) PROVE LooksAtOwner'
  <2>1. CASE ResetEnd(t) /\ Goes(t, "rearm")
    <3>1. \A r \in Runtimes : ~Live(r)'
      BY SMTT(30), <2>1 DEF ResetEnd, Interrupted
    <3>. QED
      BY <3>1
  <2>2. CASE alive' = alive
    <3>1. \/ tick' = tick
          \/ tick' = [tick EXCEPT ![t] = NoTick]
          \/ Goes(t, "rearm")
      BY <1>6 DEF TickStalled
    <3>2. \A s \in Ticks : tick'[s] = tick[s] \/ tick'[s].pc \in {"idle", "rearm"}
      BY SMTT(30), <3>1
    <3>3. ASSUME NEW s \in Ticks, tick'[s].pc \in {"stalled", "schedule"},
                 NEW r \in Runtimes, alive'[r] > 0
          PROVE  tick'[s].rt = r
      <4>1. tick'[s] = tick[s]
        BY <3>2, <3>3
      <4>. QED
        BY <2>2, <3>3, <4>1
    <3>. QED
      BY <3>3
  <2>. QED
    BY <1>6, <2>1, <2>2 DEF TickStalled, ResetBegin
<1>7. ASSUME NEW t \in Ticks, TickRearm(t) PROVE LooksAtOwner'
  BY <1>7 DEF TickRearm, KeepOrRelease, Release
<1>8. ASSUME NEW t \in Ticks, TickSchedules(t) PROVE LooksAtOwner'
  BY <1>8 DEF TickSchedules, AfterSchedule, KeepOrRelease, Release
<1>9. ASSUME NEW t \in Ticks, HandshakeEnds(t) PROVE LooksAtOwner'
  BY <1>9 DEF HandshakeEnds
<1>10. ASSUME NEW t \in Ticks, TickFails(t) PROVE LooksAtOwner'
  BY <1>10 DEF TickFails, KeepOrRelease, Release
<1>11. CASE LeaseExpires
  BY <1>11 DEF LeaseExpires
<1>12. CASE RunExpires
  BY <1>12 DEF RunExpires
<1>13. CASE ParkStop
  BY <1>13 DEF ParkStop, ResetBegin
<1>14. CASE ParkStopped
  BY <1>14 DEF ParkStopped, ResetEnd, Interrupted
<1>15. CASE ParkDelete
  BY <1>15 DEF ParkDelete, ParkIsQuiet
<1>16. CASE Parked
  BY <1>16 DEF Parked, Release, ParkIsQuiet
<1>17. CASE ActivateAgain
  BY <1>17 DEF ActivateAgain, Release
<1>18. CASE Grant
  BY <1>18 DEF Grant, Release
<1>19. CASE ParkRequested
  BY <1>19 DEF ParkRequested, Release
<1>20. CASE StartOperation
  BY <1>20 DEF StartOperation
<1>21. CASE EndOperation
  BY <1>21 DEF EndOperation
<1>22. ASSUME NEW o \in Owners, Activate(o) PROVE LooksAtOwner'
  BY <1>22 DEF Activate, Enter
<1>23. ASSUME NEW o \in Owners, Park(o) PROVE LooksAtOwner'
  BY <1>23 DEF Park, Enter
<1>24. ASSUME NEW p \in {"cron", "rpc", "reload"}, EnterRequest(p),
            p = "reload" => reload = "alarm"
     PROVE  LooksAtOwner'
  BY <1>24 DEF EnterRequest, Enter
<1>25. ASSUME NEW r \in Runtimes, SessionChanges(r) PROVE LooksAtOwner'
  BY <1>25 DEF SessionChanges
<1>26. ASSUME NEW r \in Runtimes, SupervisorEnds(r) PROVE LooksAtOwner'
  BY <1>26 DEF SupervisorEnds
<1>27. CASE Cron
  BY <1>27 DEF Cron, KeepOrRelease, Release
<1>28. CASE RpcChecks
  BY <1>28 DEF RpcChecks, Repaired, KeepOrRelease, Release
<1>29. CASE RpcGets
  BY <1>29 DEF RpcGets, BuildBegin, Built, KeepOrRelease, Release
<1>30. CASE RpcFails
  BY <1>30 DEF RpcFails, KeepOrRelease, Release
<1>31. CASE PutConfig
  BY <1>31 DEF PutConfig
<1>32. CASE ReloadResets
  BY <1>32 DEF ReloadResets, ResetBegin, ResetEnd, Interrupted
<1>33. CASE ReloadSetsAlarm
  BY <1>33 DEF ReloadSetsAlarm, KeepOrRelease, Release
<1>34. CASE Crash
  BY <1>34 DEF Crash
<1>35. CASE UNCHANGED vars
  BY <1>35 DEF vars
<1>. QED
  BY <1>1, <1>2, <1>3, <1>4, <1>5, <1>6, <1>7, <1>8, <1>9, <1>10, <1>11, <1>12, <1>13,
     <1>14, <1>15, <1>16, <1>17, <1>18, <1>19, <1>20, <1>21, <1>22, <1>23, <1>24, <1>25,
     <1>26, <1>27, <1>28, <1>29, <1>30, <1>31, <1>32, <1>33, <1>34, <1>35
     DEF Next, Proceeds, LeaseSteps

\* Whoever takes an alarm or leaves a lock watches the owner, or there is none.
LEMMA WatchedStep ==
    ASSUME IInv, WInv, [Next]_vars
    PROVE  IsWatched'
<1>. USE OwnerAssumption DEF IInv, WInv, IsWatched, StoppedIsDead, LooksAtOwner, RpcBuilds, Busy, TypeOK, OneOwner, Live, Runtimes,
        LockIsHeld, MutexIsHeld, OwnerUnderLease, Running, Requests, Claimed, At, Goes, NoTick, Invocation,
        durable, locks, runtimes, owner, memory, work, bounds
<1>1. ASSUME NEW t \in Ticks, TickBegin(t) PROVE IsWatched'
  BY <1>1 DEF TickBegin
<1>2. ASSUME NEW t \in Ticks, TickEnter(t) PROVE IsWatched'
  BY <1>2 DEF TickEnter, Enter
<1>3. ASSUME NEW t \in Ticks, TickGet(t) PROVE IsWatched'
  <2>1. tick'[t].pc \in {"get", "arm"}
    BY <1>3 DEF TickGet, BuildBegin
  <2>. QED
    BY <2>1
<1>4. ASSUME NEW t \in Ticks, TickArm(t) PROVE IsWatched'
  BY <1>4 DEF TickArm
<1>5. ASSUME NEW t \in Ticks, TickSelect(t) PROVE IsWatched'
  BY <1>5 DEF TickSelect, BuildBegin, Built, SelectNothing, SelectFork, SelectOther, Chosen, EndsEarly, Claimed, KeepOrRelease, Release
<1>6. ASSUME NEW t \in Ticks, TickStalled(t) PROVE IsWatched'
  <2>1. CASE ResetBegin(t)
    BY <2>1 DEF ResetBegin
  <2>2. CASE ResetEnd(t)
    BY <2>2 DEF ResetEnd, Interrupted
  <2>3. CASE current # tick[t].rt /\ UNCHANGED memory
    <3>1. \A r \in Runtimes : ~Live(r)
      BY <1>6, <2>3 DEF TickStalled
    <3>. QED
      BY <2>3, <3>1
  <2>. QED
    BY <1>6, <2>1, <2>2, <2>3 DEF TickStalled
<1>7. ASSUME NEW t \in Ticks, TickRearm(t) PROVE IsWatched'
  BY <1>7 DEF TickRearm, KeepOrRelease, Release
<1>8. ASSUME NEW t \in Ticks, TickSchedules(t) PROVE IsWatched'
  BY <1>8 DEF TickSchedules, AfterSchedule, KeepOrRelease, Release
<1>9. ASSUME NEW t \in Ticks, HandshakeEnds(t) PROVE IsWatched'
  BY <1>9 DEF HandshakeEnds
<1>10. ASSUME NEW t \in Ticks, TickFails(t) PROVE IsWatched'
  BY <1>10 DEF TickFails, KeepOrRelease, Release
<1>11. CASE LeaseExpires
  BY <1>11 DEF LeaseExpires
<1>12. CASE RunExpires
  BY <1>12 DEF RunExpires
<1>13. CASE ParkStop
  BY <1>13 DEF ParkStop, ResetBegin
<1>14. CASE ParkStopped
  BY <1>14 DEF ParkStopped, ResetEnd, Interrupted
<1>15. CASE ParkDelete
  BY <1>15 DEF ParkDelete, ParkIsQuiet
<1>16. CASE Parked
  BY <1>16 DEF Parked, Release, ParkIsQuiet
<1>17. CASE ActivateAgain
  BY <1>17 DEF ActivateAgain, Release
<1>18. CASE Grant
  BY <1>18 DEF Grant, Release
<1>19. CASE ParkRequested
  BY <1>19 DEF ParkRequested, Release
<1>20. CASE StartOperation
  BY <1>20 DEF StartOperation
<1>21. CASE EndOperation
  BY <1>21 DEF EndOperation
<1>22. ASSUME NEW o \in Owners, Activate(o) PROVE IsWatched'
  BY <1>22 DEF Activate, Enter
<1>23. ASSUME NEW o \in Owners, Park(o) PROVE IsWatched'
  BY <1>23 DEF Park, Enter
<1>24. ASSUME NEW p \in {"cron", "rpc", "reload"}, EnterRequest(p),
            p = "reload" => reload = "alarm"
     PROVE  IsWatched'
  BY <1>24 DEF EnterRequest, Enter
<1>25. ASSUME NEW r \in Runtimes, SessionChanges(r) PROVE IsWatched'
  BY <1>25 DEF SessionChanges
<1>26. ASSUME NEW r \in Runtimes, SupervisorEnds(r) PROVE IsWatched'
  BY <1>26 DEF SupervisorEnds
<1>27. CASE Cron
  BY <1>27 DEF Cron, Repaired, KeepOrRelease, Release
<1>28. CASE RpcChecks
  BY <1>28 DEF RpcChecks, Repaired, KeepOrRelease, Release
<1>29. CASE RpcGets
  BY <1>29 DEF RpcGets, BuildBegin, Built, KeepOrRelease, Release
<1>30. CASE RpcFails
  BY <1>30 DEF RpcFails, KeepOrRelease, Release
<1>31. CASE PutConfig
  BY <1>31 DEF PutConfig
<1>32. CASE ReloadResets
  BY <1>32 DEF ReloadResets, ResetBegin, ResetEnd, Interrupted
<1>33. CASE ReloadSetsAlarm
  BY <1>33 DEF ReloadSetsAlarm, KeepOrRelease, Release
<1>34. CASE Crash
  BY <1>34 DEF Crash
<1>35. CASE UNCHANGED vars
  BY <1>35 DEF vars
<1>. QED
  BY <1>1, <1>2, <1>3, <1>4, <1>5, <1>6, <1>7, <1>8, <1>9, <1>10, <1>11, <1>12, <1>13,
     <1>14, <1>15, <1>16, <1>17, <1>18, <1>19, <1>20, <1>21, <1>22, <1>23, <1>24, <1>25,
     <1>26, <1>27, <1>28, <1>29, <1>30, <1>31, <1>32, <1>33, <1>34, <1>35
     DEF Next, Proceeds, LeaseSteps

\* A live owner is always watched (bot-state.ts, tick and reset): whatever ends an
\* invocation, a build, a reset or a park leaves an alarm that is pending,
\* somebody who will set one, or no owner.
THEOREM OwnersAreWatched ==
    ASSUME OneAlarmAtATime
    PROVE  Spec => []OwnerIsWatched
<1>1. Init => WInv
  BY OwnerAssumption DEF Init, WInv, IsWatched, StoppedIsDead, LooksAtOwner, TicksTakeTurns, RpcBuilds, Live, NoTick
<1>2. IInv /\ WInv /\ [Next]_vars => WInv'
  BY StoppedStep, TurnsStep, RpcStep, LooksStep, WatchedStep DEF WInv
<1>3. WInv => OwnerIsWatched
  BY DEF WInv, IsWatched, OwnerIsWatched, Busy
<1>. QED
  BY Invariance, <1>1, <1>2, <1>3, PTL DEF Spec
=============================================================================
