---------------------------- MODULE Subscription ----------------------------
(***************************************************************************)
(* The stage subscription of one Broadcast: GraphqlSubscription and        *)
(* WebsocketClient (src/src/WebsocketApi.hpp, .cpp), setupSubscription     *)
(* with its retries (src/src/Broadcast.cpp), and who destroys what.        *)
(*                                                                         *)
(*   thread  broadcastThread, which sets up the first subscription;        *)
(*   ws      the one thread of WebsocketClient: it runs every handler, one *)
(*           after another, sleeps in them, and sets up the others;        *)
(*   owner   endBroadcast(): stop(), then a detached thread that drops the *)
(*           last reference and destroys the Broadcast.                    *)
(*                                                                         *)
(* Both a Broadcast and a subscription are reference counted: handlers     *)
(* keep weak references and lock them.  What the shared member             *)
(* `subscription' makes undefined, being read and written by three threads *)
(* without a lock, is the place "crashed": nothing is said of what follows.*)
(* Starting, Streaming and Live are one here: no step tells them apart.    *)
(***************************************************************************)
EXTENDS Naturals, FiniteSets

CONSTANTS
    Subs,           \* bound: the GraphqlSubscription objects ever made, in order
    Conns,          \* bound: the connections ever made, in order
    None,
    MaxDisruptions  \* bound: connections lost and credentials expired

ASSUME SubscriptionAssumption ==
    /\ Subs \subseteq Nat
    /\ Conns \subseteq Nat
    /\ None \notin Subs \cup Conns
    /\ MaxDisruptions \in Nat

VARIABLES
    stopping,     \* state is Stopping or Offline
    owner,        \* where the owner is
    at,           \* where thread and ws are
    member,       \* Broadcast::subscription
    made,         \* the subscriptions made so far
    wsSub,        \* the subscription the running handler has locked
    wsHolds,      \* the running handler has locked the Broadcast
    connOf,       \* each subscription's `connection'
    status,       \* each connection's state, and whether it was sent the subscription
    subOf,        \* the subscription each connection's handlers refer to
    pending,      \* the connection thread or ws has just made and not yet stored
    disruptions   \* connections lost and credentials expired so far

broadcastVars == <<stopping, owner, member, wsHolds>>
subVars == <<made, wsSub, connOf>>
connVars == <<status, subOf, pending>>
vars == <<broadcastVars, at, subVars, connVars, disruptions>>

Threads == {"thread", "ws"}
HandlerPlaces == {"closedTest", "failedTest", "retryTest", "handle"}
SetupPlaces == {"assign", "connect", "store"}

Init ==
    /\ stopping = FALSE
    /\ owner = "running"
    /\ at = [t \in Threads |-> IF t = "thread" THEN "assign" ELSE "idle"]
    /\ member = None
    /\ made = {}
    /\ wsSub = None
    /\ wsHolds = FALSE
    /\ connOf = [s \in Subs |-> None]
    /\ status = [c \in Conns |-> "unused"]
    /\ subOf = [c \in Conns |-> None]
    /\ pending = [t \in Threads |-> None]
    /\ disruptions = 0

Destroyed == owner \in {"joinWs", "gone"} /\ ~wsHolds

Goto(t, from, to) == at[t] = from /\ at' = [at EXCEPT ![t] = to]

FirstOf(S) == CHOOSE x \in S : \A y \in S : x <= y

(* client.close(): only an open connection starts its closing handshake; for any
   other it is an error, which is logged. *)
Close(f, c) ==
    IF c # None /\ f[c] \in {"open", "subscribed"} THEN [f EXCEPT ![c] = "closing"] ELSE f

\* Variant: the destructor does not disconnect.
ReleaseWithoutDisconnect(s, kept) == status

(* Subscription s loses a reference; `kept' are those referenced from elsewhere.
   Without a reference it is destroyed, and closes its connection. *)
Release(s, kept) ==
    IF s # None /\ s \notin kept THEN Close(status, connOf[s]) ELSE status

Alive(s) == s # None /\ s \in {member, wsSub}

(* The websocket thread locks its weak reference to the Broadcast and goes on, or
   finds the Broadcast gone and returns. *)
LockBroadcast(place) ==
    /\ wsHolds' = ~Destroyed
    /\ at' = [at EXCEPT !["ws"] = IF Destroyed THEN "return" ELSE place]

-----------------------------------------------------------------------------
(* setupSubscription, run by broadcastThread or by the websocket thread. *)

\* Variant: the websocket thread is over as broadcastThread is.
NextPlaceDone(t) == "done"

NextPlace(t) == IF t = "ws" THEN "return" ELSE "done"

(* subscription = std::make_shared<...>(...) *)
AssignSubscription(t) ==
    /\ Goto(t, "assign", "connect")
    /\ \E s \in Subs \ made :
          s = FirstOf(Subs \ made) /\ member' = s /\ made' = made \cup {s}
    /\ status' = Release(member, {wsSub})
    /\ UNCHANGED <<stopping, owner, wsHolds, wsSub, connOf, subOf, pending, disruptions>>

Unused == {c \in Conns : status[c] = "unused"}

(* subscription->connect(): the connection is made and its handlers may run, ... *)
Connect(t) ==
    /\ Goto(t, "connect", "store")
    /\ member # None
    /\ \E c \in Unused :
          /\ c = FirstOf(Unused)
          /\ status' = [status EXCEPT ![c] = "connecting"]
          /\ subOf' = [subOf EXCEPT ![c] = member]
          /\ pending' = [pending EXCEPT ![t] = c]
    /\ UNCHANGED <<broadcastVars, subVars, disruptions>>

(* client.get_connection() failed: that is logged, no handler is installed, and nobody
   tries again.  The new subscription stays without a connection. *)
ConnectRefused(t) ==
    /\ Goto(t, "connect", NextPlace(t))
    /\ member # None
    /\ UNCHANGED <<broadcastVars, subVars, connVars, disruptions>>

(* ... and then stored in `connection'. *)
StoreConnection(t) ==
    /\ Goto(t, "store", NextPlace(t))
    /\ Alive(subOf[pending[t]])
    /\ connOf' = [connOf EXCEPT ![subOf[pending[t]]] = pending[t]]
    /\ pending' = [pending EXCEPT ![t] = None]
    /\ UNCHANGED <<broadcastVars, made, wsSub, status, subOf, disruptions>>

(* The undefined cases: the member is reset while it is assigned or read, or was
   reset before connect(); the subscription is gone when the connection is to be
   stored. *)
SetupRaces(t) ==
    /\ \/ at[t] \in {"assign", "connect"} /\ owner = "reset"
       \/ at[t] = "connect" /\ member = None
       \/ at[t] = "store" /\ ~Alive(subOf[pending[t]])
    /\ at' = [at EXCEPT ![t] = "crashed"]
    /\ UNCHANGED <<broadcastVars, subVars, connVars, disruptions>>

-----------------------------------------------------------------------------
(* endBroadcast. *)

StopBegin ==
    /\ owner = "running"
    /\ owner' = "reset"
    /\ stopping' = TRUE
    /\ UNCHANGED <<at, member, wsHolds, subVars, connVars, disruptions>>

(* subscription = nullptr *)
ResetSubscription ==
    /\ owner = "reset"
    /\ owner' = "join"
    /\ member' = None
    /\ status' = Release(member, {wsSub})
    /\ UNCHANGED <<stopping, at, wsHolds, subVars, subOf, pending, disruptions>>

JoinThread ==
    /\ owner = "join"
    /\ at["thread"] = "done"
    /\ owner' = "drop"
    /\ UNCHANGED <<stopping, at, member, wsHolds, subVars, connVars, disruptions>>

(* The detached thread drops the owner's reference.  If it was the last one this
   thread destroys the Broadcast: a subscription left in it first, ... *)
DropBroadcast ==
    /\ owner = "drop"
    /\ IF wsHolds
       THEN owner' = "gone" /\ UNCHANGED <<member, status>>
       ELSE /\ owner' = "joinWs"
            /\ member' = None
            /\ status' = Release(member, {wsSub})
    /\ UNCHANGED <<stopping, at, wsHolds, subVars, subOf, pending, disruptions>>

Ended == {c \in Conns : status[c] \in {"unused", "ended"}}

(* ... then the WebsocketClient, whose thread ends when no connection is left. *)
JoinWebsocketThread ==
    /\ owner = "joinWs"
    /\ at["ws"] = "idle"
    /\ Ended = Conns
    /\ owner' = "gone"
    /\ UNCHANGED <<stopping, at, member, wsHolds, subVars, connVars, disruptions>>

-----------------------------------------------------------------------------
(* The network, seen from the websocket thread. *)

(* The opened handler sends the subscription, if it still exists. *)
Opened(c) ==
    /\ at["ws"] = "idle"
    /\ status[c] = "connecting"
    /\ status' = [status EXCEPT ![c] = IF Alive(subOf[c]) THEN "subscribed" ELSE "open"]
    /\ UNCHANGED <<broadcastVars, at, subVars, subOf, pending, disruptions>>

(* Connection c ends: the ended handlers of its subscription, if that exists, lock
   the Broadcast and look at `state' next. *)
Ends(c, from, place) ==
    /\ at["ws"] = "idle"
    /\ status[c] \in from
    /\ status' = [status EXCEPT ![c] = "ended"]
    /\ IF Alive(subOf[c])
       THEN LockBroadcast(place) /\ wsSub' = subOf[c]
       ELSE UNCHANGED <<at, wsSub, wsHolds>>

(* The closing handshake of a connection we closed is over. *)
ClosingDone(c) ==
    /\ Ends(c, {"closing"}, "closedTest")
    /\ UNCHANGED <<stopping, owner, member, made, connOf, subOf, pending, disruptions>>

(* A lost connection counts as a disruption if its subscription is in use. *)
Disrupts(c) ==
    IF Alive(subOf[c])
    THEN disruptions < MaxDisruptions /\ disruptions' = disruptions + 1
    ELSE UNCHANGED disruptions

ConnectFails(c) ==
    /\ Disrupts(c)
    /\ Ends(c, {"connecting"}, "failedTest")
    /\ UNCHANGED <<stopping, owner, member, made, connOf, subOf, pending>>

ServerCloses(c) ==
    /\ Disrupts(c)
    /\ Ends(c, {"open", "subscribed"}, "closedTest")
    /\ UNCHANGED <<stopping, owner, member, made, connOf, subOf, pending>>

(* A stage update, or errors: the messageHandler, see StageUpdate in Broadcast. *)
Message(c) ==
    /\ at["ws"] = "idle"
    /\ status[c] = "subscribed"
    /\ Alive(subOf[c])
    /\ wsSub' = subOf[c]
    /\ LockBroadcast("handle")
    /\ UNCHANGED <<stopping, owner, member, made, connOf, connVars, disruptions>>

(* Errors that say "credential expired". *)
CredentialExpired(c) ==
    /\ Goto("ws", "idle", "refresh")
    /\ status[c] = "subscribed"
    /\ Alive(subOf[c])
    /\ disruptions < MaxDisruptions
    /\ disruptions' = disruptions + 1
    /\ wsSub' = subOf[c]
    /\ UNCHANGED <<broadcastVars, made, connOf, connVars>>

-----------------------------------------------------------------------------
(* The handlers on the websocket thread. *)

(* The Broadcast's reference is dropped by ws: if it was the last one, the Broadcast
   is destroyed here, and ~WebsocketClient joins the thread it runs on. *)
DropOnWebsocket(place) ==
    /\ wsHolds' = FALSE
    /\ at' = [at EXCEPT !["ws"] = IF wsHolds /\ owner = "gone" THEN "selfJoin" ELSE place]

ClosedTest ==
    /\ Goto("ws", "closedTest", IF stopping THEN "return" ELSE "assign")
    /\ UNCHANGED <<broadcastVars, subVars, connVars, disruptions>>

(* A failed connection is retried after a sleep, without a reference. *)
FailedTest ==
    /\ at["ws"] = "failedTest"
    /\ IF stopping
       THEN at' = [at EXCEPT !["ws"] = "return"] /\ UNCHANGED wsHolds
       ELSE DropOnWebsocket("sleep")
    /\ UNCHANGED <<stopping, owner, member, subVars, connVars, disruptions>>

\* Variant: the Broadcast is used after the sleep without locking it again.
WakeUpUnlocked ==
    /\ Goto("ws", "sleep", "assign")
    /\ UNCHANGED <<broadcastVars, subVars, connVars, disruptions>>

(* sleep_for(backoffDuration(tryNum)), and the Broadcast is locked again. *)
WakeUp ==
    /\ at["ws"] = "sleep"
    /\ LockBroadcast("retryTest")
    /\ UNCHANGED <<stopping, owner, member, subVars, connVars, disruptions>>

\* Variant: the retry is cancelled while the broadcast is on.
RetryTestInverted ==
    /\ Goto("ws", "retryTest", IF stopping THEN "assign" ELSE "return")
    /\ UNCHANGED <<broadcastVars, subVars, connVars, disruptions>>

RetryTest ==
    /\ Goto("ws", "retryTest", IF stopping THEN "return" ELSE "assign")
    /\ UNCHANGED <<broadcastVars, subVars, connVars, disruptions>>

Handle ==
    /\ Goto("ws", "handle", "return")
    /\ UNCHANGED <<broadcastVars, subVars, connVars, disruptions>>

(* refreshCredentials failed: the errors go to the messageHandler, which locks the
   Broadcast. *)
RefreshFails ==
    /\ at["ws"] = "refresh"
    /\ LockBroadcast("handle")
    /\ UNCHANGED <<stopping, owner, member, subVars, connVars, disruptions>>

(* refreshCredentials threw: nothing on the websocket thread catches that. *)
RefreshThrows ==
    /\ Goto("ws", "refresh", "crashed")
    /\ UNCHANGED <<broadcastVars, subVars, connVars, disruptions>>

(* broadcastThread is yet to store the first connection of the subscription. *)
BeingStored == pending["thread"] # None /\ subOf[pending["thread"]] = wsSub

(* The other undefined case: connect() assigns `connection' while broadcastThread
   does. *)
RefreshRaces ==
    /\ Goto("ws", "refresh", "crashed")
    /\ BeingStored
    /\ UNCHANGED <<broadcastVars, subVars, connVars, disruptions>>

(* Refreshed: connect() closes the connection and makes another. *)
Reconnection(closed) ==
    /\ Goto("ws", "refresh", "return")
    /\ ~BeingStored
    /\ \E c \in Unused :
          /\ c = FirstOf(Unused)
          /\ status' = [closed EXCEPT ![c] = "connecting"]
          /\ subOf' = [subOf EXCEPT ![c] = wsSub]
          /\ connOf' = [connOf EXCEPT ![wsSub] = c]
    /\ UNCHANGED <<broadcastVars, made, wsSub, pending, disruptions>>

\* Variant: connect() without its disconnect().
ReconnectOnly == Reconnection(status)

Reconnect == Reconnection(Close(status, connOf[wsSub]))

(* The same, but client.get_connection() failed.  The end of the connection just closed
   will set up a new subscription. *)
ReconnectRefused ==
    /\ Goto("ws", "refresh", "return")
    /\ ~BeingStored
    /\ status' = Close(status, connOf[wsSub])
    /\ connOf' = [connOf EXCEPT ![wsSub] = None]
    /\ UNCHANGED <<broadcastVars, made, wsSub, subOf, pending, disruptions>>

(* The handler returns and drops what it has locked. *)
Return ==
    /\ at["ws"] = "return"
    /\ DropOnWebsocket("idle")
    /\ wsSub' = None
    /\ status' = Release(wsSub, {member})
    /\ UNCHANGED <<stopping, owner, member, made, connOf, subOf, pending, disruptions>>

-----------------------------------------------------------------------------
Setup(t) ==
    \/ AssignSubscription(t) \/ Connect(t) \/ ConnectRefused(t) \/ StoreConnection(t)
    \/ SetupRaces(t)

Owner == ResetSubscription \/ JoinThread \/ DropBroadcast \/ JoinWebsocketThread

Handler ==
    \/ ClosedTest \/ FailedTest \/ WakeUp \/ RetryTest \/ Handle \/ Return
    \/ RefreshFails \/ RefreshThrows \/ RefreshRaces \/ Reconnect \/ ReconnectRefused

Next ==
    \/ \E t \in Threads : Setup(t)
    \/ StopBegin \/ Owner \/ Handler
    \/ \E c \in Conns :
          \/ Opened(c) \/ ClosingDone(c) \/ ConnectFails(c) \/ ServerCloses(c)
          \/ Message(c) \/ CredentialExpired(c)

(* The threads are scheduled and requests return.  Handshakes have timeouts, and each
   is over once, so that being fair to all of them together, whenever the websocket
   thread is free, gets to every one.  Nothing makes the server close a connection. *)
Handshake(c) == Opened(c) \/ ConnectFails(c) \/ ClosingDone(c)

Fairness ==
    /\ \A t \in Threads : WF_vars(Setup(t))
    /\ WF_vars(Owner)
    /\ WF_vars(Handler)
    /\ SF_vars(\E c \in Conns : Handshake(c))

Spec == Init /\ [][Next]_vars /\ Fairness

-----------------------------------------------------------------------------
(* Properties. *)

Crashed == \E t \in Threads : at[t] \in {"crashed", "selfJoin"}

(* Type invariant. *)
TypeOK ==
    /\ stopping \in BOOLEAN
    /\ owner \in {"running", "reset", "join", "drop", "joinWs", "gone"}
    /\ at["thread"] \in SetupPlaces \cup {"done", "crashed"}
    /\ at["ws"] \in HandlerPlaces \cup SetupPlaces \cup
                    {"idle", "sleep", "refresh", "return", "crashed", "selfJoin"}
    /\ member \in Subs \cup {None}
    /\ made \subseteq Subs
    /\ wsSub \in Subs \cup {None}
    /\ wsHolds \in BOOLEAN
    /\ connOf \in [Subs -> Conns \cup {None}]
    /\ status \in [Conns -> {"unused", "connecting", "open", "subscribed", "closing", "ended"}]
    /\ subOf \in [Conns -> Subs \cup {None}]
    /\ pending \in [Threads -> Conns \cup {None}]
    /\ disruptions \in 0 .. MaxDisruptions

(* Whatever was lost, retried and refreshed: between two handlers, a connection that
   the server sends stage updates on is the connection of the current subscription, so
   there is at most one and its handlers reach the Broadcast. *)
OneSubscription ==
    at["ws"] = "idle" /\ at["thread"] = "done" =>
        \A c \in Conns : status[c] = "subscribed" => member # None /\ connOf[member] = c

(* No handler works on a destroyed Broadcast, though endBroadcast does not wait for
   the websocket thread and a handler may sleep for twenty seconds before it retries. *)
HandlersHoldBroadcast == at["ws"] \in HandlerPlaces \cup SetupPlaces => ~Destroyed

(* setupSubscription is over, and its subscription never had a connection. *)
Abandoned ==
    /\ at["thread"] = "done" /\ at["ws"] \notin SetupPlaces
    /\ member # None /\ \A c \in Conns : subOf[c] # member

(* While the broadcast is on it is subscribed again and again, whatever connections are
   lost and credentials expire, refreshed or not.  The one way out is get_connection
   failing in setupSubscription, which nobody tries again (Abandoned). *)
Resubscribes ==
    at["thread"] = "done"
        ~> (\E c \in Conns : status[c] = "subscribed") \/ stopping \/ Crashed \/ Abandoned

(* The detached thread's wait for the websocket thread ends, unless a connection was
   dropped before it was open. *)
DestroyedUnlessDropped ==
    owner = "joinWs" ~> owner = "gone" \/ Crashed \/ \E c \in Conns : status[c] = "open"

(* What Instance.cpp:221 says: the broadcast is destroyed asynchronously, by a thread
   that may block.  So not by the websocket thread it waits for, ... *)
DestroyedByDetachedThread == at["ws"] # "selfJoin"

(* ... and it is destroyed. *)
EventuallyDestroyed == owner = "drop" ~> owner = "gone" \/ Crashed
=============================================================================
