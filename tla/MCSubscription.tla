--------------------------- MODULE MCSubscription ---------------------------
(* One broadcast whose connection is disrupted three times: each disruption takes at most
   one more subscription and two more connections. *)
EXTENDS Subscription

MCMaxDisruptions == 3
MCSubs == 1 .. 1 + MCMaxDisruptions
MCConns == 1 .. 1 + 2 * MCMaxDisruptions
MCNone == 0
=============================================================================
