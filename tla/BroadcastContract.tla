------------------------- MODULE BroadcastContract -------------------------
(***************************************************************************)
(* What one Broadcast object promises the Instance that owns it: its       *)
(* thread is born in start(), or never, if start() throws; it announces at *)
(* most once that it is streaming, never dies silently while the broadcast *)
(* is meant to run, and is gone when stop() returns.  Broadcast.tla (the object in detail) and          *)
(* Instance.tla (every broadcast of an instance) both implement this       *)
(* module.                                                                 *)
(***************************************************************************)
VARIABLES
    phase,     \* "new", "running", "stopping" (inside stop()), "stopped"
    alive,     \* broadcastThread is running
    started,   \* startedCallback has been called
    reported   \* the thread has reported a failure to the Instance

vars == <<phase, alive, started, reported>>

Phases == {"new", "running", "stopping", "stopped"}

TypeOK ==
    /\ phase \in Phases
    /\ alive \in BOOLEAN
    /\ started \in BOOLEAN
    /\ reported \in BOOLEAN

Init ==
    /\ phase = "new"
    /\ alive = FALSE
    /\ started = FALSE
    /\ reported = FALSE

(* start() creates the thread, unless it throws before. *)
Start ==
    /\ phase = "new"
    /\ phase' = "running"
    /\ alive' \in BOOLEAN
    /\ UNCHANGED <<started, reported>>

(* The thread calls startedCallback: once, and never after a failure. *)
Announce ==
    /\ alive
    /\ ~started
    /\ ~reported
    /\ started' = TRUE
    /\ UNCHANGED <<phase, alive, reported>>

(* The thread reports a failure, possibly as the last thing it does. *)
Report ==
    /\ alive
    /\ reported' = TRUE
    /\ alive' \in BOOLEAN
    /\ UNCHANGED <<phase, started>>

(* The thread ends: because it reported a failure or was told to stop. *)
Exit ==
    /\ alive
    /\ reported \/ phase = "stopping"
    /\ alive' = FALSE
    /\ UNCHANGED <<phase, started, reported>>

(* stop() is entered ... *)
Stop ==
    /\ phase = "running"
    /\ phase' = "stopping"
    /\ UNCHANGED <<alive, started, reported>>

(* ... and returns only when it has joined the thread. *)
Stopped ==
    /\ phase = "stopping"
    /\ ~alive
    /\ phase' = "stopped"
    /\ UNCHANGED <<alive, started, reported>>

Next == Start \/ Announce \/ Report \/ Exit \/ Stop \/ Stopped

Spec == Init /\ [][Next]_vars

=============================================================================
