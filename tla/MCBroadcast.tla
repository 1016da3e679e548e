---------------------------- MODULE MCBroadcast ----------------------------
(* Broadcast with two capture threads and the code's five tolerated heartbeats. *)
EXTENDS Broadcast

CONSTANTS c1, c2

MCCapturers == {c1, c2}
MCMaxFailures == 5
=============================================================================
