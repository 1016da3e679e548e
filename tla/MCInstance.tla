----------------------------- MODULE MCInstance -----------------------------
(* Two application threads, the worker, and two broadcasts one after another. *)
EXTENDS Instance

CONSTANTS a1, a2, w

MCApp == {a1, a2}
MCBroadcasts == 1 .. 2
MCNone == 0
MCMaxTasks == 2
=============================================================================
