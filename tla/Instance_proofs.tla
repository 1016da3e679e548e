-------------------------- MODULE Instance_proofs --------------------------
(***************************************************************************)
(* Proofs about Instance for any application threads, any broadcasts and   *)
(* any bound on the waiting tasks: the inductive invariant Orderly, the    *)
(* safety properties that follow from it, and that the Instance uses every *)
(* broadcast as BroadcastContract says.                                    *)
(***************************************************************************)
EXTENDS Instance, TLAPS

LEMMA TypeInductive == ASSUME TypeOK, [Next]_vars PROVE TypeOK'
<1> USE DEF TypeOK, Actors, Places, Move, broadcastVars
<1>1. ASSUME NEW x \in Actors, CallStart(x) \/ CallEnd(x) PROVE TypeOK'
  BY <1>1 DEF CallStart, CallEnd
<1>2. ASSUME NEW x \in Actors, StartRefused(x) \/ StartLock(x) \/ StartThread(x) \/ StartThrows(x)
      PROVE  TypeOK'
  BY <1>2 DEF StartRefused, StartLock, StartThread, StartThrows, IsNext
<1>3. ASSUME NEW x \in Actors, EndNothing(x) \/ EndLock(x) \/ EndJoin(x) PROVE TypeOK'
  BY <1>3 DEF EndNothing, EndLock, EndJoin, AfterEnd
<1>4. CASE TakeTask
  BY <1>4 DEF TakeTask
<1>5. CASE CheckTask
  BY <1>5 DEF CheckTask
<1>6. CASE CallFailed
  <2>1. failed' \in [Broadcasts -> Nat]
    <3>1. failed \in [Broadcasts -> Nat]
      OBVIOUS
    <3>2. failed' = [failed EXCEPT ![task] = failed[task] + 1]
      BY <1>6 DEF CallFailed
    <3>3. task \in Broadcasts => failed[task] + 1 \in Nat
      BY <3>1
    <3> QED
      BY <3>1, <3>2, <3>3, ZenonT(30)
  <2>2. at' \in [Actors -> Places]
    BY <1>6 DEF CallFailed
  <2> QED
    BY <1>6, <2>1, <2>2 DEF CallFailed
<1>7. ASSUME NEW b \in Broadcasts, CallStarted(b) \/ ThreadEnds(b) PROVE TypeOK'
  BY <1>7 DEF CallStarted, ThreadEnds
<1>8. ASSUME NEW b \in Broadcasts, ThreadReports(b) PROVE TypeOK'
  BY <1>8 DEF ThreadReports, dispatchFailure
<1>9. ASSUME NEW b \in Broadcasts, OtherReports(b) PROVE TypeOK'
  BY <1>9 DEF OtherReports, dispatchFailure
<1>10. CASE UNCHANGED vars
  BY <1>10 DEF vars
<1> QED
  BY <1>1, <1>2, <1>3, <1>4, <1>5, <1>6, <1>7, <1>8, <1>9, <1>10
  DEF Next, Call, WorkerStep, BroadcastStep

(* The parts of Orderly besides the types. *)
InOrder ==
    /\ LockHeld /\ CurrentPhase /\ OthersOver /\ AliveWhileRunning /\ TaskGoesOn
    /\ ThreadIsOwned /\ FailedAtMostOnce /\ FailedAfterStopped

LEMMA CallsKeepOrder ==
    ASSUME TypeOK, InOrder, NEW x \in Actors, CallStart(x) \/ CallEnd(x) \/ Call(x)
    PROVE  InOrder'
<1> USE InstanceAssumption
    DEF InstanceAssumption, TypeOK, Actors, Places, Move, broadcastVars, InOrder, LockHeld,
        CurrentPhase, OthersOver, AliveWhileRunning, TaskGoesOn, ThreadIsOwned,
        FailedAtMostOnce, FailedAfterStopped
<1>1. CASE CallStart(x)
  BY <1>1 DEF CallStart
<1>2. CASE CallEnd(x)
  BY <1>2 DEF CallEnd
<1>3. CASE StartRefused(x)
  BY <1>3 DEF StartRefused
<1>4. CASE StartLock(x)
  BY <1>4 DEF StartLock, IsNext
<1>5. CASE StartThread(x) \/ StartThrows(x)
  <2>1. /\ at' = [at EXCEPT ![x] = "idle"] /\ at[x] = "start"
        /\ phase' = [phase EXCEPT ![broadcast] = "running"] /\ mutex' = "free"
        /\ UNCHANGED <<broadcast, task, tasks, failed>>
        /\ alive' = alive \/ alive' = [alive EXCEPT ![broadcast] = TRUE]
    BY <1>5 DEF StartThread, StartThrows
  <2>2. mutex = x /\ broadcast \in Broadcasts /\ phase[broadcast] = "new"
    BY <2>1
  <2>3. LockHeld' /\ CurrentPhase'
    BY <2>1, <2>2
  <2>4. OthersOver' /\ AliveWhileRunning' /\ ThreadIsOwned'
    BY <2>1, <2>2
  <2>5. TaskGoesOn' /\ FailedAtMostOnce' /\ FailedAfterStopped'
    BY <2>1, <2>2
  <2> QED
    BY <2>3, <2>4, <2>5
<1>6. CASE EndNothing(x)
  BY <1>6 DEF EndNothing, AfterEnd
<1>7. CASE EndLock(x)
  BY <1>7 DEF EndLock
<1>8. CASE EndJoin(x)
  BY <1>8 DEF EndJoin, AfterEnd
<1> QED
  BY <1>1, <1>2, <1>3, <1>4, <1>5, <1>6, <1>7, <1>8 DEF Call

LEMMA WorkerKeepsOrder == ASSUME TypeOK, InOrder, WorkerStep PROVE InOrder'
<1> USE InstanceAssumption
    DEF InstanceAssumption, TypeOK, Actors, Places, Move, broadcastVars, InOrder, LockHeld,
        CurrentPhase, OthersOver, AliveWhileRunning, TaskGoesOn, ThreadIsOwned,
        FailedAtMostOnce, FailedAfterStopped
<1>1. CASE TakeTask
  BY <1>1 DEF TakeTask
<1>2. CASE CheckTask
  <2>1. CASE broadcast = task
    <3>1. /\ at' = [at EXCEPT ![worker] = "ending"]
          /\ UNCHANGED <<broadcast, mutex, task, tasks, phase, alive, failed>>
      BY <1>2, <2>1 DEF CheckTask
    <3>2. task \in Broadcasts /\ phase[task] = "running" /\ failed[task] = 0
      BY <1>2, <2>1 DEF CheckTask
    <3> QED
      BY <3>1, <3>2
  <2>2. CASE broadcast # task
    BY <1>2, <2>2 DEF CheckTask
  <2> QED
    BY <2>1, <2>2
<1>3. CASE CallFailed
  BY <1>3 DEF CallFailed
<1> QED
  BY <1>1, <1>2, <1>3 DEF WorkerStep

LEMMA BroadcastKeepsOrder ==
    ASSUME TypeOK, InOrder, NEW b \in Broadcasts, BroadcastStep(b)
    PROVE  InOrder'
<1> USE DEF TypeOK, Actors, broadcastVars, InOrder, LockHeld, CurrentPhase, OthersOver,
        AliveWhileRunning, TaskGoesOn, ThreadIsOwned, FailedAtMostOnce, FailedAfterStopped
<1>1. CASE CallStarted(b)
  BY <1>1 DEF CallStarted
<1>2. CASE ThreadReports(b)
  BY <1>2 DEF ThreadReports
<1>3. CASE ThreadEnds(b)
  BY <1>3 DEF ThreadEnds
<1>4. CASE OtherReports(b)
  BY <1>4 DEF OtherReports
<1> QED
  BY <1>1, <1>2, <1>3, <1>4 DEF BroadcastStep

LEMMA OrderlyInductive == ASSUME Orderly, [Next]_vars PROVE Orderly'
<1>1. TypeOK /\ InOrder
  BY DEF Orderly, InOrder
<1>2. TypeOK'
  BY <1>1, TypeInductive
<1>3. ASSUME Next PROVE InOrder'
  BY <1>1, <1>3, CallsKeepOrder, WorkerKeepsOrder, BroadcastKeepsOrder DEF Next
<1>4. ASSUME UNCHANGED vars PROVE InOrder'
  BY <1>1, <1>4
  DEF vars, broadcastVars, InOrder, LockHeld, CurrentPhase, OthersOver, AliveWhileRunning,
      TaskGoesOn, ThreadIsOwned, FailedAtMostOnce, FailedAfterStopped
<1>5. InOrder'
  BY <1>3, <1>4
<1> QED
  BY <1>2, <1>5 DEF Orderly, InOrder

LEMMA OrderlyInitially == Init => Orderly
BY InstanceAssumption
DEF InstanceAssumption, Init, Orderly, TypeOK, Actors, Places, LockHeld, CurrentPhase, OthersOver,
    AliveWhileRunning, TaskGoesOn, ThreadIsOwned, FailedAtMostOnce, FailedAfterStopped

(* The inductive invariant holds in every behaviour of the Instance. *)
THEOREM OrderlyAlways == Spec => []Orderly
BY OrderlyInitially, OrderlyInductive, PTL DEF Spec

(* Every variable keeps its type (Instance.hpp:40-60). *)
THEOREM TypeCorrect == Spec => []TypeOK
<1>1. Orderly => TypeOK
  BY DEF Orderly
<1> QED
  BY <1>1, OrderlyAlways, PTL

(* A broadcast thread runs only under the broadcast the Instance points to
   (Instance.cpp:181, 217-223). *)
THEOREM Owned == Spec => []ThreadIsOwned
<1>1. Orderly => ThreadIsOwned
  BY DEF Orderly
<1> QED
  BY <1>1, OrderlyAlways, PTL

(* failedCallback is called at most once for a broadcast (Instance.cpp:194-206). *)
THEOREM FailedOnce == Spec => []FailedAtMostOnce
<1>1. Orderly => FailedAtMostOnce
  BY DEF Orderly
<1> QED
  BY <1>1, OrderlyAlways, PTL

(* ... and only when it has been stopped (Instance.cpp:203-204). *)
THEOREM FailedLast == Spec => []FailedAfterStopped
<1>1. Orderly => FailedAfterStopped
  BY DEF Orderly
<1> QED
  BY <1>1, OrderlyAlways, PTL

(* startedCallback does not follow failedCallback. *)
THEOREM StartedFirst == Spec => StartedBeforeFailed
<1>1. ASSUME Orderly, [Next]_vars
      PROVE  [\A b \in Broadcasts : failed[b] > 0 => started'[b] = started[b]]_vars
  <2> SUFFICES ASSUME NEW b \in Broadcasts, failed[b] > 0, Next PROVE started'[b] = started[b]
    BY <1>1
  <2>1. ~alive[b]
    BY <1>1 DEF Orderly, FailedAfterStopped, AliveWhileRunning
  <2>2. ASSUME NEW x \in Actors, CallStart(x) \/ CallEnd(x) \/ Call(x) PROVE UNCHANGED started
    BY <2>2 DEF CallStart, CallEnd, Call, StartRefused, StartLock, StartThread, StartThrows, EndNothing,
        EndLock, EndJoin, broadcastVars
  <2>3. CASE WorkerStep
    BY <2>3 DEF WorkerStep, TakeTask, CheckTask, CallFailed, broadcastVars
  <2>4. ASSUME NEW c \in Broadcasts, BroadcastStep(c) PROVE started'[b] = started[b]
    <3>1. CASE CallStarted(c)
      BY <1>1, <2>1, <3>1 DEF CallStarted, Orderly, TypeOK
    <3>2. CASE ThreadReports(c) \/ ThreadEnds(c) \/ OtherReports(c)
      BY <3>2 DEF ThreadReports, ThreadEnds, OtherReports, broadcastVars
    <3> QED
      BY <2>4, <3>1, <3>2 DEF BroadcastStep
  <2> QED
    BY <2>2, <2>3, <2>4 DEF Next
<1> QED
  BY <1>1, OrderlyAlways, PTL DEF Spec, StartedBeforeFailed

(* The steps of one broadcast that are steps of its contract. *)
LEMMA BroadcastStepsAllowed ==
    ASSUME TypeOK, NEW c \in Broadcasts, BroadcastStep(c), NEW b \in Broadcasts
    PROVE  C(b)!Next \/ UNCHANGED C(b)!vars
<1> USE DEF TypeOK, C!vars
<1>1. CASE CallStarted(c)
  BY <1>1 DEF CallStarted, C!Next, C!Announce
<1>2. CASE ThreadReports(c)
  BY <1>2 DEF ThreadReports, C!Next, C!Report
<1>3. CASE ThreadEnds(c)
  BY <1>3 DEF ThreadEnds, C!Next, C!Exit
<1>4. CASE OtherReports(c)
  BY <1>4 DEF OtherReports, broadcastVars
<1> QED
  BY <1>1, <1>2, <1>3, <1>4 DEF BroadcastStep

(* The calls start and stop broadcasts only as their contracts allow: start() on a
   new one, stop() on a running one, and its end after the thread's. *)
LEMMA CallsAllowed ==
    ASSUME Orderly, NEW x \in Actors, CallStart(x) \/ CallEnd(x) \/ Call(x),
           NEW b \in Broadcasts
    PROVE  C(b)!Next \/ UNCHANGED C(b)!vars
<1> USE DEF Orderly, TypeOK, CurrentPhase, C!vars
<1>1. CASE CallStart(x) \/ CallEnd(x) \/ StartRefused(x) \/ StartLock(x) \/ EndNothing(x)
  BY <1>1 DEF CallStart, CallEnd, StartRefused, StartLock, EndNothing, broadcastVars
<1>2. CASE StartThread(x) \/ StartThrows(x)
  BY <1>2 DEF StartThread, StartThrows, Move, C!Next, C!Start
<1>3. CASE EndLock(x)
  BY <1>3 DEF EndLock, C!Next, C!Stop
<1>4. CASE EndJoin(x)
  BY <1>4 DEF EndJoin, Move, C!Next, C!Stopped
<1> QED
  BY <1>1, <1>2, <1>3, <1>4 DEF Call

(* The Instance uses each of its broadcasts as BroadcastContract says
   (Instance.cpp:179-225). *)
THEOREM ContractUsed == Spec => UsesContract
<1>1. Init => \A b \in Broadcasts : C(b)!Init
  BY DEF Init, C!Init
<1>2. ASSUME Orderly, [Next]_vars
      PROVE  [\A b \in Broadcasts : C(b)!Next \/ UNCHANGED C(b)!vars]_vars
  <2> SUFFICES ASSUME NEW b \in Broadcasts, Next PROVE C(b)!Next \/ UNCHANGED C(b)!vars
    BY <1>2
  <2>1. CASE WorkerStep
    BY <2>1 DEF WorkerStep, TakeTask, CheckTask, CallFailed, broadcastVars, C!vars
  <2> QED
    BY <1>2, <2>1, CallsAllowed, BroadcastStepsAllowed DEF Next, Orderly
<1> QED
  BY <1>1, <1>2, OrderlyAlways, PTL DEF Spec, UsesContract
=============================================================================
