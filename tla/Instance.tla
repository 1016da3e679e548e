------------------------------ MODULE Instance ------------------------------
(***************************************************************************)
(* The broadcasts of one Instance (src/src/Instance.cpp): startBroadcast   *)
(* and endBroadcast on the application's threads under broadcastMutex, the *)
(* broadcast threads, and the task queue "caffeine-dispatcher" on which    *)
(* each reported failure ends its broadcast and calls the application's    *)
(* failedCallback.                                                         *)
(*                                                                         *)
(* A broadcast is what BroadcastContract says of it; Broadcast.tla is the  *)
(* object in detail.  Application callbacks return; failedCallback may     *)
(* itself start the next broadcast, on the worker thread.                  *)
(***************************************************************************)
EXTENDS Naturals, Sequences

CONSTANTS
    App,         \* application threads that start and end broadcasts
    worker,      \* the thread of the task queue
    Broadcasts,  \* bound: the clientIds of the broadcasts ever started, in order
    None,        \* no broadcast
    MaxTasks     \* bound: failure tasks waiting in the queue

ASSUME InstanceAssumption ==
    /\ worker \notin App
    /\ "free" \notin App \cup {worker}
    /\ Broadcasts \subseteq Nat
    /\ None \notin Broadcasts
    /\ MaxTasks \in Nat

Actors == App \cup {worker}

VARIABLES
    broadcast,  \* Instance::broadcast, as the clientId of what it points to
    mutex,      \* broadcastMutex: "free" or who holds it
    at,         \* where each actor is in startBroadcast, endBroadcast or a task
    task,       \* the clientId captured by the task being run
    tasks,      \* taskQueue
    phase, alive, started, reported,  \* each broadcast, see BroadcastContract
    failed      \* number of failedCallback calls for each broadcast

broadcastVars == <<phase, alive, started, reported>>
vars == <<broadcast, mutex, at, task, tasks, broadcastVars, failed>>

Places == {"idle", "starting", "start", "ending", "joining", "task", "callback"}

Init ==
    /\ broadcast = None
    /\ mutex = "free"
    /\ at = [x \in Actors |-> "idle"]
    /\ task = None
    /\ tasks = <<>>
    /\ phase = [b \in Broadcasts |-> "new"]
    /\ alive = [b \in Broadcasts |-> FALSE]
    /\ started = [b \in Broadcasts |-> FALSE]
    /\ reported = [b \in Broadcasts |-> FALSE]
    /\ failed = [b \in Broadcasts |-> 0]

(* The next fresh clientId, and an actor's step from one place to the next. *)
IsNext(b) == phase[b] = "new" /\ \A c \in Broadcasts : phase[c] = "new" => b <= c

Move(x, from, to) == at[x] = from /\ at' = [at EXCEPT ![x] = to]

-----------------------------------------------------------------------------
(* startBroadcast.  The checks before the lock (signed in, version, allowed to
   broadcast) change nothing here: a call they refuse is no step. *)

CallStart(x) ==
    /\ x \in App
    /\ Move(x, "idle", "starting")
    /\ UNCHANGED <<broadcast, mutex, task, tasks, broadcastVars, failed>>

NoneLeft == \A b \in Broadcasts : phase[b] # "new"

(* Under the lock: AlreadyBroadcasting (or the bound), ... *)
StartRefused(x) ==
    /\ mutex = "free"
    /\ broadcast # None \/ NoneLeft
    /\ Move(x, "starting", "idle")
    /\ UNCHANGED <<broadcast, mutex, task, tasks, broadcastVars, failed>>

(* ... or a new Broadcast, with the lock kept. *)
StartLock(x) ==
    /\ mutex = "free"
    /\ broadcast = None
    /\ Move(x, "starting", "start")
    /\ mutex' = x
    /\ \E b \in Broadcasts : IsNext(b) /\ broadcast' = b
    /\ UNCHANGED <<task, tasks, broadcastVars, failed>>

\* Variant: a return path that keeps the lock.
StartThreadKeepsLock(x) ==
    /\ Move(x, "start", "idle")
    /\ phase' = [phase EXCEPT ![broadcast] = "running"]
    /\ alive' = [alive EXCEPT ![broadcast] = TRUE]
    /\ UNCHANGED <<broadcast, mutex, task, tasks, started, reported, failed>>

(* Broadcast::start asks for the encoder settings, creates the thread, and the
   lock is released. *)
StartThread(x) ==
    /\ Move(x, "start", "idle")
    /\ phase' = [phase EXCEPT ![broadcast] = "running"]
    /\ alive' = [alive EXCEPT ![broadcast] = TRUE]
    /\ mutex' = "free"
    /\ UNCHANGED <<broadcast, task, tasks, started, reported, failed>>

(* It may throw instead (an answer of another shape than the encoder settings'):
   the lock is released, caff_startBroadcast returns BroadcastFailed, and the
   Instance keeps a broadcast that has no thread. *)
StartThrows(x) ==
    /\ Move(x, "start", "idle")
    /\ phase' = [phase EXCEPT ![broadcast] = "running"]
    /\ mutex' = "free"
    /\ UNCHANGED <<broadcast, task, tasks, alive, started, reported, failed>>

-----------------------------------------------------------------------------
(* endBroadcast: of the application, or at the end of a failure task. *)

AfterEnd(x) == IF x = worker THEN "callback" ELSE "idle"

CallEnd(x) ==
    /\ x \in App
    /\ Move(x, "idle", "ending")
    /\ UNCHANGED <<broadcast, mutex, task, tasks, broadcastVars, failed>>

EndNothing(x) ==
    /\ mutex = "free"
    /\ broadcast = None
    /\ Move(x, "ending", AfterEnd(x))
    /\ UNCHANGED <<broadcast, mutex, task, tasks, broadcastVars, failed>>

EndLock(x) ==
    /\ mutex = "free"
    /\ broadcast # None
    /\ Move(x, "ending", "joining")
    /\ mutex' = x
    /\ phase' = [phase EXCEPT ![broadcast] = "stopping"]
    /\ UNCHANGED <<broadcast, task, tasks, alive, started, reported, failed>>

\* Variant: the broadcast is dropped while its thread still runs.
EndWithoutJoin(x) ==
    /\ Move(x, "joining", AfterEnd(x))
    /\ phase' = [phase EXCEPT ![broadcast] = "stopped"]
    /\ broadcast' = None
    /\ mutex' = "free"
    /\ UNCHANGED <<task, tasks, alive, started, reported, failed>>

(* stop() has joined the thread; the object is left to a detached thread. *)
EndJoin(x) ==
    /\ Move(x, "joining", AfterEnd(x))
    /\ ~alive[broadcast]
    /\ phase' = [phase EXCEPT ![broadcast] = "stopped"]
    /\ broadcast' = None
    /\ mutex' = "free"
    /\ UNCHANGED <<task, tasks, alive, started, reported, failed>>

-----------------------------------------------------------------------------
(* The broadcast threads, as BroadcastContract allows them to act. *)

CallStarted(b) ==
    /\ alive[b]
    /\ ~started[b]
    /\ ~reported[b]
    /\ started' = [started EXCEPT ![b] = TRUE]
    /\ UNCHANGED <<broadcast, mutex, at, task, tasks, phase, alive, reported, failed>>

\* Variant: the clientId is asked for when the failure is reported.
dispatchFailureOfCurrent(b) == tasks' = Append(tasks, broadcast)

(* dispatchFailure posts a task that knows the clientId.  The bound never keeps
   a thread from its first report. *)
dispatchFailure(b) == tasks' = Append(tasks, b)

ThreadReports(b) ==
    /\ alive[b]
    /\ reported[b] => Len(tasks) < MaxTasks
    /\ dispatchFailure(b)
    /\ reported' = [reported EXCEPT ![b] = TRUE]
    /\ \E goesOn \in BOOLEAN : alive' = [alive EXCEPT ![b] = goesOn]
    /\ UNCHANGED <<broadcast, mutex, at, task, phase, started, failed>>

ThreadEnds(b) ==
    /\ alive[b]
    /\ reported[b] \/ phase[b] = "stopping"
    /\ alive' = [alive EXCEPT ![b] = FALSE]
    /\ UNCHANGED <<broadcast, mutex, at, task, tasks, phase, started, reported, failed>>

(* The capture, websocket and ICE threads report too, even after the stop; there
   are none of them when start() threw. *)
OtherReports(b) ==
    /\ phase[b] # "new"
    /\ phase[b] = "running" => alive[b] \/ reported[b]
    /\ Len(tasks) < MaxTasks
    /\ dispatchFailure(b)
    /\ UNCHANGED <<broadcast, mutex, at, task, broadcastVars, failed>>

-----------------------------------------------------------------------------
(* The task queue's thread. *)

TakeTask ==
    /\ tasks # <<>>
    /\ Move(worker, "idle", "task")
    /\ task' = Head(tasks)
    /\ tasks' = Tail(tasks)
    /\ UNCHANGED <<broadcast, mutex, broadcastVars, failed>>

\* Variant: the task does not ask whose failure it is.
CheckTaskNot ==
    /\ mutex = "free"
    /\ Move(worker, "task", "ending")
    /\ UNCHANGED <<broadcast, mutex, task, tasks, broadcastVars, failed>>

\* Variant: the comparison is the wrong way round.
CheckTaskInverted ==
    /\ mutex = "free"
    /\ Move(worker, "task", IF broadcast = task THEN "idle" ELSE "ending")
    /\ UNCHANGED <<broadcast, mutex, task, tasks, broadcastVars, failed>>

\* Variant: failedCallback is called without ending the broadcast first.
CheckTaskThenCallback ==
    /\ mutex = "free"
    /\ Move(worker, "task", IF broadcast = task THEN "callback" ELSE "idle")
    /\ UNCHANGED <<broadcast, mutex, task, tasks, broadcastVars, failed>>

(* Under the lock: a failure of a broadcast that is no longer the current one
   is ignored.  The lock is then released, and endBroadcast takes it again. *)
CheckTask ==
    /\ mutex = "free"
    /\ Move(worker, "task", IF broadcast = task THEN "ending" ELSE "idle")
    /\ UNCHANGED <<broadcast, mutex, task, tasks, broadcastVars, failed>>

(* The application's failedCallback, which may start the next broadcast. *)
CallFailed ==
    /\ \E next \in {"idle", "starting"} : Move(worker, "callback", next)
    /\ failed' = [failed EXCEPT ![task] = @ + 1]
    /\ UNCHANGED <<broadcast, mutex, task, tasks, broadcastVars>>

-----------------------------------------------------------------------------
Call(x) ==
    \/ StartRefused(x) \/ StartLock(x) \/ StartThread(x) \/ StartThrows(x)
    \/ EndNothing(x) \/ EndLock(x) \/ EndJoin(x)

WorkerStep == TakeTask \/ CheckTask \/ CallFailed

BroadcastStep(b) == CallStarted(b) \/ ThreadReports(b) \/ ThreadEnds(b) \/ OtherReports(b)

Next ==
    \/ \E x \in Actors : CallStart(x) \/ CallEnd(x) \/ Call(x)
    \/ WorkerStep
    \/ \E b \in Broadcasts : BroadcastStep(b)

(* Calls make progress and their wait for the lock is not for ever (the scheduler
   is fair to lock waiters); the task queue runs its tasks; a thread that was told
   to stop ends (StopReturns of Broadcast). *)
Fairness ==
    /\ \A x \in Actors : SF_vars(Call(x))
    /\ SF_vars(WorkerStep)
    /\ \A b \in Broadcasts : WF_vars(phase[b] = "stopping" /\ ThreadEnds(b))

Spec == Init /\ [][Next]_vars /\ Fairness

-----------------------------------------------------------------------------
(* Properties. *)

(* Type invariant. *)
TypeOK ==
    /\ broadcast \in Broadcasts \cup {None}
    /\ mutex \in Actors \cup {"free"}
    /\ at \in [Actors -> Places]
    /\ task \in Broadcasts \cup {None}
    /\ tasks \in Seq(Broadcasts)
    /\ phase \in [Broadcasts -> {"new", "running", "stopping", "stopped"}]
    /\ alive \in [Broadcasts -> BOOLEAN]
    /\ started \in [Broadcasts -> BOOLEAN]
    /\ reported \in [Broadcasts -> BOOLEAN]
    /\ failed \in [Broadcasts -> Nat]

(* A broadcast thread runs only under the broadcast the Instance points to: no
   two run at once, and none is left behind with an object about to be destroyed
   (std::thread's destructor would end the process). *)
ThreadIsOwned == \A b \in Broadcasts : alive[b] => broadcast = b

(* However many threads report failures of a broadcast, and whenever the
   application ends it, failedCallback is called at most once for it. *)
FailedAtMostOnce == \A b \in Broadcasts : failed[b] <= 1

(* failedCallback is only called for a broadcast that has been stopped: the
   application may free what the broadcast uses. *)
FailedAfterStopped == \A b \in Broadcasts : failed[b] > 0 => phase[b] = "stopped"

(* startedCallback is not called once failedCallback has been. *)
StartedBeforeFailed ==
    [][\A b \in Broadcasts : failed[b] > 0 => started'[b] = started[b]]_vars

(* endBroadcast returns, and so does startBroadcast. *)
CallsReturn ==
    \A x \in App : at[x] \in {"starting", "start", "ending", "joining"} ~> at[x] = "idle"

(* A failure reported by its thread gets the broadcast stopped. *)
FailureStops == \A b \in Broadcasts : reported[b] ~> phase[b] = "stopped"

(* The inductive invariant behind the safety properties: who holds the lock; what
   the phase of the current broadcast is, and that every other one has not begun or
   is over; and that a failure task past its check knows a broadcast that began and
   has not been reported to the application. *)
LockHeld == \A x \in Actors : mutex = x <=> at[x] \in {"start", "joining"}

CurrentPhase ==
    /\ mutex = "free" /\ broadcast # None => phase[broadcast] = "running"
    /\ \A x \in Actors :
          /\ at[x] = "start" => broadcast # None /\ phase[broadcast] = "new"
          /\ at[x] = "joining" => broadcast # None /\ phase[broadcast] = "stopping"

OthersOver ==
    \A b \in Broadcasts : b # broadcast => phase[b] \in {"new", "stopped"}

AliveWhileRunning == \A b \in Broadcasts : alive[b] => phase[b] \in {"running", "stopping"}

TaskGoesOn ==
    /\ at[worker] = "task" => task \in Broadcasts
    /\ at[worker] \in {"ending", "joining", "callback"} =>
          task \in Broadcasts /\ phase[task] # "new" /\ failed[task] = 0
    /\ at[worker] = "callback" => phase[task] = "stopped"

Orderly ==
    /\ TypeOK /\ LockHeld /\ CurrentPhase /\ OthersOver /\ AliveWhileRunning /\ TaskGoesOn
    /\ ThreadIsOwned /\ FailedAtMostOnce /\ FailedAfterStopped

C(b) == INSTANCE BroadcastContract WITH
    phase <- phase[b], alive <- alive[b], started <- started[b], reported <- reported[b]

(* The Instance uses every broadcast as its contract says: C(b)!Spec for all b. *)
UsesContract ==
    /\ \A b \in Broadcasts : C(b)!Init
    /\ [][\A b \in Broadcasts : C(b)!Next \/ UNCHANGED C(b)!vars]_vars

(* What Instance.cpp:196-204 sets out to do, and says at line 199: a failure ends
   the broadcast that failed, not one the application started after it. *)
FailureEndsOwnBroadcast == at[worker] = "joining" => broadcast = task
=============================================================================
