------------------------- MODULE Subscription_proofs -------------------------
(***************************************************************************)
(* That handlers hold the Broadcast they work on, and that the server sends*)
(* stage updates on one connection at most, for any number of disruptions, *)
(* subscriptions and connections.  The second needs to know where every    *)
(* connection is remembered: in its subscription, or by the thread that is *)
(* about to store it there, in a subscription that has none.               *)
(***************************************************************************)
EXTENDS Subscription, TLAPS

Places ==
    HandlerPlaces \cup SetupPlaces \cup
    {"idle", "sleep", "refresh", "return", "done", "crashed", "selfJoin"}
Statuses == {"unused", "connecting", "open", "subscribed", "closing", "ended"}

Types ==
    /\ TypeOK
    /\ at \in [Threads -> Places]

(* What the places of the two threads say of what they hold. *)
Holds ==
    /\ at["ws"] \in HandlerPlaces \cup SetupPlaces => wsHolds
    /\ at["ws"] = "idle" => wsSub = None
    /\ at["ws"] = "refresh" => wsSub # None
    /\ \A t \in Threads : pending[t] # None => at[t] \in {"store", "crashed"}
    /\ \A t \in Threads : at[t] = "store" => pending[t] # None
    /\ at["thread"] \in {"assign", "connect"} =>
          at["ws"] = "idle" /\ \A c \in Conns : status[c] = "unused"

(* A connection is stored in the subscription it was made for. *)
Stored ==
    /\ member \in made \cup {None} /\ wsSub \in made \cup {None}
    /\ \A c \in Conns : subOf[c] \in made \cup {None}
    /\ \A s \in Subs : connOf[s] # None => status[connOf[s]] # "unused" /\ subOf[connOf[s]] = s
    /\ \A t \in Threads : pending[t] # None => status[pending[t]] # "unused"
    /\ pending["ws"] # None => status[pending["ws"]] = "connecting"

(* Who makes a connection does so for a subscription that has none, and for which nobody
   else makes one. *)
Fresh ==
    /\ \A t \in Threads :
          pending[t] # None => subOf[pending[t]] \in Subs /\ connOf[subOf[pending[t]]] = None
    /\ \A t \in Threads : at[t] = "connect" /\ member # None =>
          /\ connOf[member] = None
          /\ \A u \in Threads : pending[u] # None => subOf[pending[u]] # member
    /\ pending["thread"] # None /\ pending["ws"] # None =>
          subOf[pending["thread"]] # subOf[pending["ws"]]

Remembered(c) == connOf[subOf[c]] = c \/ \E t \in Threads : pending[t] = c

(* No connection in use is forgotten, and none is in use without a subscription. *)
Known ==
    /\ \A c \in Conns :
          status[c] \in {"connecting", "subscribed"} /\ Alive(subOf[c]) => Remembered(c)
    /\ \A c \in Conns :
          status[c] = "subscribed" => Alive(subOf[c]) \/ pending["thread"] = c
    /\ at["ws"] = "refresh" =>
          \E c \in Conns : /\ status[c] = "subscribed" /\ subOf[c] = wsSub
                           /\ connOf[wsSub] = c \/ pending["thread"] = c

IInv == Types /\ Holds /\ Stored /\ Fresh /\ Known

-----------------------------------------------------------------------------
(* Connections are closed, and otherwise left as they are. *)
Closings(new) ==
    \A c \in Conns :
        new[c] = status[c] \/ (status[c] \in {"open", "subscribed"} /\ new[c] = "closing")

(* Closing a connection. *)
LEMMA Closes ==
    ASSUME Types, NEW c \in Conns \cup {None}
    PROVE  /\ Close(status, c) \in [Conns -> Statuses] /\ Closings(Close(status, c))
           /\ \A d \in Conns \ {c} : Close(status, c)[d] = status[d]
           /\ c # None => Close(status, c)[c] # "subscribed"
<1>1. status \in [Conns -> Statuses]
  BY DEF Types, TypeOK, Statuses
<1>2. None \notin Conns
  BY SubscriptionAssumption
<1>3. CASE c # None /\ status[c] \in {"open", "subscribed"}
  <2>1. Close(status, c) = [status EXCEPT ![c] = "closing"] /\ c \in Conns
    BY <1>3 DEF Close
  <2> QED
    BY <1>1, <1>3, <2>1 DEF Statuses, Closings
<1>4. CASE ~(c # None /\ status[c] \in {"open", "subscribed"})
  <2>1. Close(status, c) = status
    BY <1>4 DEF Close
  <2> QED
    BY <1>1, <1>4, <2>1 DEF Closings
<1> QED
  BY <1>3, <1>4

(* Releasing a subscription that is not kept closes its connection and no other. *)
LEMMA Releases ==
    ASSUME Types, NEW s \in Subs \cup {None}, NEW kept
    PROVE  /\ Release(s, kept) \in [Conns -> Statuses] /\ Closings(Release(s, kept))
           /\ \A c \in Conns :
                 \/ Release(s, kept)[c] = status[c]
                 \/ s # None /\ s \notin kept /\ connOf[s] = c
           /\ s # None /\ s \notin kept =>
                 \A c \in Conns : connOf[s] = c => Release(s, kept)[c] # "subscribed"
<1>1. status \in [Conns -> Statuses] /\ (s \in Subs => connOf[s] \in Conns \cup {None})
  BY DEF Types, TypeOK, Statuses
<1>2. None \notin Subs /\ None \notin Conns
  BY SubscriptionAssumption
<1>3. CASE s # None /\ s \notin kept
  <2>1. Release(s, kept) = Close(status, connOf[s]) /\ connOf[s] \in Conns \cup {None}
    BY <1>1, <1>3 DEF Release
  <2> QED
    BY <1>2, <1>3, <2>1, Closes
<1>4. CASE s = None \/ s \in kept
  <2>1. Release(s, kept) = status
    BY <1>4 DEF Release
  <2> QED
    BY <1>1, <1>4, <2>1 DEF Closings
<1> QED
  BY <1>3, <1>4

-----------------------------------------------------------------------------
(* Types. *)

(* A disruption is counted up to the bound. *)
LEMMA DisruptsBounded ==
    ASSUME disruptions \in 0 .. MaxDisruptions, NEW c, Disrupts(c)
    PROVE  disruptions' \in 0 .. MaxDisruptions
BY SubscriptionAssumption DEF Disrupts

(* Every step keeps the types; what is closed while refreshing is the connection of a
   subscription that exists. *)
LEMMA TypesInductive == ASSUME Types, Holds, [Next]_vars PROVE Types'
<1> USE SubscriptionAssumption
    DEF Types, TypeOK, Places, broadcastVars, subVars, connVars, Goto, Threads, HandlerPlaces,
        SetupPlaces
<1>1. /\ member \in Subs \cup {None} /\ wsSub \in Subs \cup {None}
      /\ \A s \in Subs \cup {None} : \A kept : Release(s, kept) \in [Conns -> Statuses]
      /\ \A c \in Conns \cup {None} : Close(status, c) \in [Conns -> Statuses]
  BY Releases, Closes
<1>2. ASSUME NEW t \in Threads, AssignSubscription(t) PROVE Types'
  BY <1>1, <1>2 DEF AssignSubscription, Statuses
<1>3. ASSUME NEW t \in Threads, Connect(t) PROVE Types'
  <2>1. PICK c \in Unused : /\ status' = [status EXCEPT ![c] = "connecting"]
                            /\ subOf' = [subOf EXCEPT ![c] = member]
                            /\ pending' = [pending EXCEPT ![t] = c]
    BY <1>3 DEF Connect
  <2>2. c \in Conns
    BY DEF Unused
  <2>3. /\ status' \in [Conns -> Statuses] /\ subOf' \in [Conns -> Subs \cup {None}]
        /\ pending' \in [Threads -> Conns \cup {None}]
    BY <2>1, <2>2 DEF Statuses
  <2>4. at' = [at EXCEPT ![t] = "store"] /\ UNCHANGED <<broadcastVars, subVars, disruptions>>
    BY <1>3 DEF Connect
  <2> QED
    BY <2>3, <2>4 DEF Statuses
<1>4. ASSUME NEW t \in Threads, StoreConnection(t) PROVE Types'
  <2>1. /\ connOf' \in [Subs -> Conns \cup {None}]
        /\ pending' \in [Threads -> Conns \cup {None}]
    BY <1>4 DEF StoreConnection
  <2>2. at' = [at EXCEPT ![t] = IF t = "ws" THEN "return" ELSE "done"]
    BY <1>4 DEF StoreConnection, NextPlace
  <2> QED
    BY <1>4, <2>1, <2>2 DEF StoreConnection
<1>5. CASE StopBegin \/ JoinThread \/ JoinWebsocketThread
  BY <1>5 DEF StopBegin, JoinThread, JoinWebsocketThread
<1>6. CASE ResetSubscription
  BY <1>1, <1>6 DEF ResetSubscription, Statuses
<1>7. CASE DropBroadcast
  BY <1>1, <1>7 DEF DropBroadcast, Statuses
<1>8. ASSUME NEW c \in Conns, Opened(c) \/ Message(c) PROVE Types'
  <2>1. CASE Opened(c)
    BY <2>1 DEF Opened
  <2>2. CASE Message(c)
    <3>1. /\ wsSub' \in Subs \cup {None} /\ wsHolds' \in BOOLEAN
          /\ UNCHANGED <<stopping, owner, member, made, connOf, connVars, disruptions>>
      BY <2>2 DEF Message, LockBroadcast, Destroyed
    <3>2. at' = [at EXCEPT !["ws"] = "return"] \/ at' = [at EXCEPT !["ws"] = "handle"]
      BY <2>2 DEF Message, LockBroadcast
    <3> QED
      BY <3>1, <3>2
  <2> QED
    BY <1>8, <2>1, <2>2
<1>9. ASSUME NEW c \in Conns, NEW from, NEW place \in HandlerPlaces, Ends(c, from, place),
             disruptions' \in 0 .. MaxDisruptions,
             UNCHANGED <<stopping, owner, member, made, connOf, subOf, pending>>
      PROVE  Types'
  <2>1. status' = [status EXCEPT ![c] = "ended"]
    BY <1>9 DEF Ends
  <2>2. at' = at \/ at' = [at EXCEPT !["ws"] = "return"] \/ at' = [at EXCEPT !["ws"] = place]
    BY <1>9 DEF Ends, LockBroadcast
  <2>3. wsHolds' \in BOOLEAN /\ wsSub' \in Subs \cup {None}
    BY <1>9 DEF Ends, LockBroadcast, Destroyed
  <2> QED
    BY <1>9, <2>1, <2>2, <2>3
<1>10. ASSUME NEW c \in Conns, ClosingDone(c) \/ ConnectFails(c) \/ ServerCloses(c) PROVE Types'
  BY <1>9, <1>10, DisruptsBounded DEF ClosingDone, ConnectFails, ServerCloses
<1>11. ASSUME NEW c \in Conns, CredentialExpired(c) PROVE Types'
  BY <1>11 DEF CredentialExpired
<1>12. CASE ClosedTest \/ FailedTest \/ WakeUp \/ RetryTest \/ Handle \/ RefreshFails
  <2>1. UNCHANGED <<stopping, owner, member, subVars, connVars, disruptions>>
    BY <1>12 DEF ClosedTest, FailedTest, WakeUp, RetryTest, Handle, RefreshFails
  <2>2. wsHolds' \in BOOLEAN
    BY <1>12 DEF ClosedTest, FailedTest, WakeUp, RetryTest, Handle, RefreshFails, LockBroadcast,
       DropOnWebsocket, Destroyed
  <2>3. \E place \in {"return", "assign", "sleep", "selfJoin", "retryTest", "handle"} :
           at' = [at EXCEPT !["ws"] = place]
    BY <1>12 DEF ClosedTest, FailedTest, WakeUp, RetryTest, Handle, RefreshFails, LockBroadcast,
       DropOnWebsocket
  <2> QED
    BY <2>1, <2>2, <2>3
<1>13. CASE Reconnect
  <2>1. wsSub \in Subs /\ connOf[wsSub] \in Conns \cup {None}
    BY <1>13 DEF Reconnect, Reconnection, Holds
  <2>2. PICK c \in Unused :
           /\ status' = [Close(status, connOf[wsSub]) EXCEPT ![c] = "connecting"]
           /\ subOf' = [subOf EXCEPT ![c] = wsSub]
           /\ connOf' = [connOf EXCEPT ![wsSub] = c]
    BY <1>13 DEF Reconnect, Reconnection
  <2>3. c \in Conns
    BY DEF Unused
  <2>4. subOf' \in [Conns -> Subs \cup {None}] /\ connOf' \in [Subs -> Conns \cup {None}]
    BY <2>2, <2>3
  <2>5. Close(status, connOf[wsSub]) \in [Conns -> Statuses]
    BY <1>1, <2>1
  <2>6. status' \in [Conns -> Statuses]
    BY <2>2, <2>3, <2>5 DEF Statuses
  <2>7. at' = [at EXCEPT !["ws"] = "return"]
    BY <1>13 DEF Reconnect, Reconnection
  <2> QED
    BY <1>13, <2>4, <2>6, <2>7 DEF Reconnect, Reconnection, Statuses
<1>14. CASE Return
  BY <1>1, <1>14 DEF Return, DropOnWebsocket, Statuses
<1>15. ASSUME NEW t \in Threads, SetupRaces(t) PROVE Types'
  <2>1. /\ at' = [at EXCEPT ![t] = "crashed"]
        /\ UNCHANGED <<broadcastVars, subVars, connVars, disruptions>>
    BY <1>15 DEF SetupRaces
  <2> QED
    BY <2>1
<1>16. CASE UNCHANGED vars
  BY <1>16 DEF vars
<1>17. CASE ReconnectRefused
  <2>1. wsSub \in Subs /\ connOf[wsSub] \in Conns \cup {None}
    BY <1>17 DEF ReconnectRefused, Holds
  <2>2. /\ status' = Close(status, connOf[wsSub]) /\ status' \in [Conns -> Statuses]
        /\ connOf' = [connOf EXCEPT ![wsSub] = None] /\ at' = [at EXCEPT !["ws"] = "return"]
    BY <1>1, <1>17, <2>1 DEF ReconnectRefused
  <2>3. connOf' \in [Subs -> Conns \cup {None}]
    BY <2>2
  <2> QED
    BY <1>17, <2>2, <2>3 DEF ReconnectRefused, Statuses
<1>18. ASSUME NEW t \in Threads, ConnectRefused(t) PROVE Types'
  <2>1. at' = [at EXCEPT ![t] = IF t = "ws" THEN "return" ELSE "done"]
    BY <1>18 DEF ConnectRefused, NextPlace
  <2> QED
    BY <1>18, <2>1 DEF ConnectRefused
<1>19. CASE RefreshThrows \/ RefreshRaces
  <2>1. /\ at' = [at EXCEPT !["ws"] = "crashed"]
        /\ UNCHANGED <<broadcastVars, subVars, connVars, disruptions>>
    BY <1>19 DEF RefreshThrows, RefreshRaces
  <2> QED
    BY <2>1
<1> QED
  BY <1>2, <1>3, <1>4, <1>5, <1>6, <1>7, <1>8, <1>10, <1>11, <1>12, <1>13, <1>14, <1>15, <1>16,
     <1>17, <1>18, <1>19
  DEF Next, Setup, Owner, Handler

-----------------------------------------------------------------------------
(* The places and what they hold. *)

(* Nothing but a thread's own steps in setupSubscription touches `pending', and what the
   websocket thread holds depends on its place. *)
LEMMA HoldsKept ==
    ASSUME Types, Holds, UNCHANGED pending, at'["thread"] = at["thread"],
           at["thread"] \in {"assign", "connect"} =>
               at'["ws"] = "idle" /\ \A c \in Conns : status[c] = "unused" => status'[c] = "unused",
           at'["ws"] \in HandlerPlaces \cup SetupPlaces => wsHolds',
           at'["ws"] = "idle" => wsSub' = None,
           at'["ws"] = "refresh" => wsSub' # None,
           at'["ws"] = at["ws"] \/ (at["ws"] \notin {"store", "crashed"} /\ at'["ws"] # "store")
    PROVE  Holds'
BY DEF Holds, Threads

(* Every step keeps what the places hold. *)
LEMMA HoldsInductive == ASSUME Types, Holds, [Next]_vars PROVE Holds'
<1> USE SubscriptionAssumption
    DEF Types, TypeOK, Places, broadcastVars, subVars, connVars, Goto, Threads, HandlerPlaces,
        SetupPlaces
<1>1. /\ member \in Subs \cup {None} /\ wsSub \in Subs \cup {None}
      /\ \A s \in Subs \cup {None} : \A kept : Closings(Release(s, kept))
  BY Releases
<1>2. ASSUME NEW t \in Threads, AssignSubscription(t) PROVE Holds'
  <2>1. \A c \in Conns : status[c] = "unused" => status'[c] = "unused"
    BY <1>1, <1>2 DEF AssignSubscription, Closings
  <2> QED
    BY <1>2, <2>1 DEF AssignSubscription, Holds
<1>3. ASSUME NEW t \in Threads, Connect(t) PROVE Holds'
  BY <1>3 DEF Connect, Unused, Holds
<1>4. ASSUME NEW t \in Threads, StoreConnection(t) PROVE Holds'
  BY <1>4 DEF StoreConnection, NextPlace, Holds
<1>5. ASSUME NEW t \in Threads, SetupRaces(t) PROVE Holds'
  BY <1>5 DEF SetupRaces, Holds
<1>6. CASE StopBegin \/ JoinThread \/ JoinWebsocketThread
  BY <1>6, HoldsKept DEF StopBegin, JoinThread, JoinWebsocketThread, Holds
<1>7. CASE ResetSubscription \/ DropBroadcast
  <2>1. \A c \in Conns : status[c] = "unused" => status'[c] = "unused"
    BY <1>1, <1>7 DEF ResetSubscription, DropBroadcast, Closings
  <2>2. UNCHANGED <<at, wsHolds, wsSub, pending>>
    BY <1>7 DEF ResetSubscription, DropBroadcast
  <2> QED
    BY <2>1, <2>2, HoldsKept DEF Holds
<1>8. ASSUME NEW c \in Conns, Opened(c) \/ CredentialExpired(c) PROVE Holds'
  BY <1>8 DEF Opened, CredentialExpired, Alive, Holds
<1>9. ASSUME NEW c \in Conns, Message(c) PROVE Holds'
  BY <1>9, HoldsKept DEF Message, LockBroadcast, Holds
<1>10. ASSUME NEW c \in Conns, NEW from, NEW place \in HandlerPlaces, Ends(c, from, place),
              "unused" \notin from, UNCHANGED pending
      PROVE  Holds'
  <2>1. at["ws"] = "idle" /\ status[c] # "unused" /\ UNCHANGED pending
    BY <1>10 DEF Ends
  <2>2. \A d \in Conns : status[d] = "unused" => status'[d] = "unused"
    BY <1>10, <2>1 DEF Ends
  <2>3. CASE UNCHANGED <<at, wsSub, wsHolds>>
    BY <2>1, <2>2, <2>3, HoldsKept DEF Holds
  <2>4. CASE LockBroadcast(place)
    BY <2>1, <2>2, <2>4, HoldsKept DEF LockBroadcast, Holds
  <2> QED
    BY <1>10, <2>3, <2>4 DEF Ends
<1>11. ASSUME NEW c \in Conns, ClosingDone(c) \/ ConnectFails(c) \/ ServerCloses(c) PROVE Holds'
  BY <1>10, <1>11 DEF ClosingDone, ConnectFails, ServerCloses
<1>12. CASE ClosedTest \/ RetryTest \/ Handle
  BY <1>12, HoldsKept DEF ClosedTest, RetryTest, Handle, Holds
<1>13. CASE FailedTest
  <2>1. /\ at["ws"] = "failedTest" /\ UNCHANGED <<pending, status>>
        /\ \E place \in {"return", "sleep", "selfJoin"} : at' = [at EXCEPT !["ws"] = place]
    BY <1>13 DEF FailedTest, DropOnWebsocket
  <2> QED
    BY <2>1, HoldsKept DEF Holds
<1>14. CASE WakeUp \/ RefreshFails
  BY <1>14, HoldsKept DEF WakeUp, RefreshFails, LockBroadcast, Holds
<1>15. CASE Reconnect
  BY <1>15, HoldsKept DEF Reconnect, Reconnection, Holds
<1>16. CASE Return
  BY <1>16, HoldsKept DEF Return, DropOnWebsocket, Holds
<1>17. CASE UNCHANGED vars
  BY <1>17 DEF vars, Holds
<1>18. ASSUME NEW t \in Threads, ConnectRefused(t) PROVE Holds'
  BY <1>18 DEF ConnectRefused, NextPlace, Holds
<1>19. CASE RefreshThrows \/ RefreshRaces \/ ReconnectRefused
  BY <1>19, HoldsKept DEF RefreshThrows, RefreshRaces, ReconnectRefused, Holds
<1> QED
  BY <1>2, <1>3, <1>4, <1>5, <1>6, <1>7, <1>8, <1>9, <1>11, <1>12, <1>13, <1>14, <1>15, <1>16, <1>17,
     <1>18, <1>19
  DEF Next, Setup, Owner, Handler

-----------------------------------------------------------------------------
(* Where connections are stored. *)

(* Closing and ending connections, and making subscriptions, leaves it as it is. *)
LEMMA StoredKept ==
    ASSUME Types, Stored, UNCHANGED <<connOf, subOf, pending>>, made \subseteq made',
           member' \in made' \cup {None}, wsSub' \in made' \cup {None},
           \A c \in Conns : status[c] # "unused" => status'[c] # "unused",
           pending["ws"] # None => status'[pending["ws"]] = "connecting"
    PROVE  Stored'
<1>1. /\ \A s \in Subs : connOf[s] \in Conns \cup {None}
      /\ \A t \in Threads : pending[t] \in Conns \cup {None}
  BY DEF Types, TypeOK
<1>2. \A c \in Conns : subOf'[c] \in made' \cup {None}
  BY DEF Stored
<1>3. \A s \in Subs : connOf'[s] # None => status'[connOf'[s]] # "unused" /\ subOf'[connOf'[s]] = s
  BY <1>1 DEF Stored
<1>4. \A t \in Threads : pending'[t] # None => status'[pending'[t]] # "unused"
  BY <1>1 DEF Stored
<1> QED
  BY <1>2, <1>3, <1>4 DEF Stored

(* A new connection, whose subscription is known. *)
LEMMA StoredNew ==
    ASSUME Types, Stored, NEW c \in Conns, NEW s \in made \cup {None},
           status[c] = "unused",
           \A d \in Conns \ {c} : status[d] # "unused" => status'[d] # "unused",
           pending["ws"] # None => status'[pending["ws"]] = "connecting",
           status'[c] = "connecting", subOf' = [subOf EXCEPT ![c] = s],
           UNCHANGED <<member, made, wsSub>>,
           \/ /\ UNCHANGED connOf
              /\ \E t \in Threads : pending' = [pending EXCEPT ![t] = c]
           \/ UNCHANGED pending /\ s \in Subs /\ connOf' = [connOf EXCEPT ![s] = c]
    PROVE  Stored'
<1> USE SubscriptionAssumption
<1>1. /\ connOf \in [Subs -> Conns \cup {None}] /\ pending \in [Threads -> Conns \cup {None}]
      /\ subOf \in [Conns -> Subs \cup {None}] /\ status \in [Conns -> Statuses]
  BY DEF Types, TypeOK, Statuses
<1>2. \A d \in Conns : subOf'[d] \in made' \cup {None}
  BY <1>1 DEF Stored
<1>3. \A r \in Subs : connOf'[r] # None => status'[connOf'[r]] # "unused" /\ subOf'[connOf'[r]] = r
  <2> SUFFICES ASSUME NEW r \in Subs, connOf'[r] # None
               PROVE  status'[connOf'[r]] # "unused" /\ subOf'[connOf'[r]] = r
    OBVIOUS
  <2>1. CASE connOf'[r] = connOf[r]
    <3>1. connOf[r] \in Conns /\ status[connOf[r]] # "unused" /\ subOf[connOf[r]] = r
      BY <1>1, <2>1 DEF Stored
    <3>2. connOf[r] # c
      BY <3>1
    <3> QED
      BY <1>1, <2>1, <3>1, <3>2
  <2>2. CASE connOf'[r] # connOf[r]
    <3>1. r = s /\ connOf'[r] = c
      BY <1>1, <2>2
    <3> QED
      BY <1>1, <3>1
  <2> QED
    BY <2>1, <2>2
<1>4. \A t \in Threads : pending'[t] # None => status'[pending'[t]] # "unused"
  <2> SUFFICES ASSUME NEW t \in Threads, pending'[t] # None PROVE status'[pending'[t]] # "unused"
    OBVIOUS
  <2>1. pending'[t] = c \/ pending'[t] = pending[t]
    BY <1>1
  <2>2. pending'[t] = pending[t] => pending[t] \in Conns /\ status[pending[t]] # "unused"
    BY <1>1 DEF Stored
  <2> QED
    BY <2>1, <2>2
<1>5. pending'["ws"] # None => status'[pending'["ws"]] = "connecting"
  <2>1. pending'["ws"] = c \/ pending'["ws"] = pending["ws"]
    BY <1>1 DEF Threads
  <2> QED
    BY <2>1
<1> QED
  BY <1>2, <1>3, <1>4, <1>5 DEF Stored

(* The websocket thread makes a connection with no other in the making. *)
LEMMA NothingPending ==
    ASSUME Types, Holds, at["ws"] \notin {"store", "crashed"} PROVE pending["ws"] = None
BY DEF Holds, Threads

(* Every step keeps connections where they are stored. *)
LEMMA StoredInductive == ASSUME Types, Holds, Stored, [Next]_vars PROVE Stored'
<1> USE DEF broadcastVars, subVars, connVars
<1>1. /\ member \in Subs \cup {None} /\ wsSub \in Subs \cup {None}
      /\ status \in [Conns -> Statuses] /\ pending \in [Threads -> Conns \cup {None}]
      /\ \A s \in Subs \cup {None} : \A kept : Closings(Release(s, kept))
      /\ member \in made \cup {None} /\ wsSub \in made \cup {None}
      /\ \A c \in Conns : subOf[c] \in made \cup {None}
      /\ pending["ws"] \in Conns \cup {None}
  BY Releases DEF Types, TypeOK, Statuses, Stored, Threads
<1>2. ASSUME Closings(status')
      PROVE  /\ \A c \in Conns : status[c] # "unused" => status'[c] # "unused"
             /\ pending["ws"] # None => status'[pending["ws"]] = "connecting"
  BY <1>1, <1>2 DEF Closings, Stored
<1>3. ASSUME NEW t \in Threads, AssignSubscription(t) PROVE Stored'
  <2>1. Closings(status')
    BY <1>1, <1>3 DEF AssignSubscription
  <2> QED
    BY <1>1, <1>2, <1>3, <2>1, StoredKept DEF AssignSubscription
<1>4. CASE ResetSubscription \/ DropBroadcast
  <2>1. Closings(status') /\ member' \in {member, None}
    BY <1>1, <1>4 DEF ResetSubscription, DropBroadcast, Closings
  <2>2. UNCHANGED <<connOf, subOf, pending, made, wsSub>>
    BY <1>4 DEF ResetSubscription, DropBroadcast
  <2> QED
    BY <1>1, <1>2, <2>1, <2>2, StoredKept
<1>5. CASE Return
  <2>1. Closings(status')
    BY <1>1, <1>5 DEF Return
  <2> QED
    BY <1>1, <1>2, <1>5, <2>1, StoredKept DEF Return
<1>6. ASSUME NEW t \in Threads, Connect(t) PROVE Stored'
  <2>1. PICK c \in Unused : /\ status' = [status EXCEPT ![c] = "connecting"]
                            /\ subOf' = [subOf EXCEPT ![c] = member]
                            /\ pending' = [pending EXCEPT ![t] = c]
    BY <1>6 DEF Connect
  <2>2. c \in Conns /\ status[c] = "unused"
    BY DEF Unused
  <2>3. /\ status'[c] = "connecting"
        /\ \A d \in Conns \ {c} : status'[d] = status[d]
    BY <1>1, <2>1, <2>2
  <2>4. pending["ws"] # None => status'[pending["ws"]] = "connecting"
    BY <1>1, <2>3 DEF Stored
  <2> QED
    BY <1>1, <1>6, <2>1, <2>2, <2>3, <2>4, StoredNew DEF Connect
<1>7. CASE Reconnect
  <2>1. PICK c \in Unused : /\ status' = [Close(status, connOf[wsSub]) EXCEPT ![c] = "connecting"]
                            /\ subOf' = [subOf EXCEPT ![c] = wsSub]
                            /\ connOf' = [connOf EXCEPT ![wsSub] = c]
    BY <1>7 DEF Reconnect, Reconnection
  <2>2. c \in Conns /\ status[c] = "unused"
    BY DEF Unused
  <2>3. wsSub \in Subs /\ connOf[wsSub] \in Conns \cup {None} /\ pending["ws"] = None
    BY <1>1, <1>7, NothingPending DEF Reconnect, Reconnection, Goto, Holds, Types, TypeOK
  <2>4. Closings(Close(status, connOf[wsSub])) /\ Close(status, connOf[wsSub]) \in [Conns -> Statuses]
    BY <2>3, Closes
  <2>5. /\ status'[c] = "connecting"
        /\ \A d \in Conns \ {c} : status[d] # "unused" => status'[d] # "unused"
    BY <2>1, <2>2, <2>4 DEF Closings
  <2> QED
    BY <1>1, <1>7, <2>1, <2>2, <2>3, <2>5, StoredNew DEF Reconnect, Reconnection
<1>8. ASSUME NEW t \in Threads, StoreConnection(t) PROVE Stored'
  <2>1. /\ connOf' = [connOf EXCEPT ![subOf[pending[t]]] = pending[t]]
        /\ pending' = [pending EXCEPT ![t] = None]
        /\ UNCHANGED <<member, made, wsSub, status, subOf>>
    BY <1>8 DEF StoreConnection
  <2>2. pending[t] \in Conns /\ status[pending[t]] # "unused"
    BY <1>1, <1>8 DEF StoreConnection, Goto, Holds, Stored
  <2>3. \A s \in Subs : connOf'[s] # None => status'[connOf'[s]] # "unused" /\ subOf'[connOf'[s]] = s
    BY <2>1, <2>2 DEF Stored, Types, TypeOK
  <2>4. \A u \in Threads : pending'[u] # None => pending'[u] = pending[u]
    BY <1>1, <2>1
  <2> QED
    BY <2>1, <2>3, <2>4 DEF Stored, Threads
<1>9. ASSUME NEW c \in Conns, Opened(c) PROVE Stored'
  <2>1. pending["ws"] = None
    BY <1>9, NothingPending DEF Opened
  <2> QED
    BY <1>1, <1>9, <2>1, StoredKept DEF Opened
<1>10. ASSUME NEW c \in Conns, NEW from, NEW place, Ends(c, from, place),
              UNCHANGED <<connOf, subOf, pending, made, member>>
       PROVE  Stored'
  <2>1. pending["ws"] = None
    BY <1>10, NothingPending DEF Ends
  <2>2. wsSub' \in made \cup {None}
    BY <1>1, <1>10 DEF Ends
  <2> QED
    BY <1>1, <1>10, <2>1, <2>2, StoredKept DEF Ends
<1>11. ASSUME NEW c \in Conns, ClosingDone(c) \/ ConnectFails(c) \/ ServerCloses(c) PROVE Stored'
  BY <1>10, <1>11 DEF ClosingDone, ConnectFails, ServerCloses
<1>12. ASSUME NEW c \in Conns, Message(c) \/ CredentialExpired(c) PROVE Stored'
  <2>1. wsSub' = subOf[c] /\ UNCHANGED <<connOf, subOf, pending, made, member, status>>
    BY <1>12 DEF Message, CredentialExpired
  <2> QED
    BY <1>1, <2>1, StoredKept DEF Stored
<1>13. ASSUME UNCHANGED <<member, subVars, connVars>> PROVE Stored'
  BY <1>1, <1>13, StoredKept DEF Stored
<1>14. ASSUME NEW t \in Threads, SetupRaces(t) PROVE Stored'
  BY <1>13, <1>14 DEF SetupRaces
<1>15. CASE StopBegin \/ JoinThread \/ JoinWebsocketThread
  BY <1>13, <1>15 DEF StopBegin, JoinThread, JoinWebsocketThread
<1>16. CASE ClosedTest \/ FailedTest \/ WakeUp \/ RetryTest \/ Handle
  BY <1>13, <1>16 DEF ClosedTest, FailedTest, WakeUp, RetryTest, Handle
<1>17. CASE UNCHANGED vars
  BY <1>13, <1>17 DEF vars
<1>18. CASE RefreshFails \/ RefreshThrows \/ RefreshRaces
  BY <1>13, <1>18 DEF RefreshFails, RefreshThrows, RefreshRaces
<1>19. ASSUME NEW t \in Threads, ConnectRefused(t) PROVE Stored'
  BY <1>13, <1>19 DEF ConnectRefused
<1>20. CASE ReconnectRefused
  <2>1. wsSub \in Subs /\ connOf[wsSub] \in Conns \cup {None} /\ pending["ws"] = None
    BY <1>1, <1>20, NothingPending DEF ReconnectRefused, Goto, Holds, Types, TypeOK
  <2>2. Closings(status')
    BY <1>20, <2>1, Closes DEF ReconnectRefused
  <2>3. \A s \in Subs : connOf'[s] # None => connOf'[s] = connOf[s] /\ connOf[s] \in Conns
    BY <1>20, <2>1 DEF ReconnectRefused, Types, TypeOK
  <2>4. UNCHANGED <<made, member, wsSub, subOf, pending>>
    BY <1>20 DEF ReconnectRefused
  <2> QED
    BY <1>1, <1>2, <2>1, <2>2, <2>3, <2>4 DEF Stored
<1> QED
  BY <1>3, <1>4, <1>5, <1>6, <1>7, <1>8, <1>9, <1>11, <1>12, <1>14, <1>15, <1>16, <1>17,
     <1>18, <1>19, <1>20
  DEF Next, Setup, Owner, Handler

-----------------------------------------------------------------------------
(* Connections are made for subscriptions that have none. *)

(* A step that neither makes nor stores a connection, nor makes a subscription. *)
LEMMA FreshKept ==
    ASSUME Types, Holds, Stored, Fresh, UNCHANGED <<connOf, subOf, pending>>,
           member' \in {member, None}, \A t \in Threads : at'[t] = "connect" => at[t] = "connect"
    PROVE  Fresh'
BY DEF Fresh

(* Every step keeps them fresh. *)
LEMMA FreshInductive == ASSUME Types, Holds, Stored, Fresh, [Next]_vars PROVE Fresh'
<1> USE DEF broadcastVars, subVars, connVars, Goto
<1>1. /\ at \in [Threads -> Places] /\ None \notin Subs
      /\ subOf \in [Conns -> Subs \cup {None}] /\ connOf \in [Subs -> Conns \cup {None}]
      /\ pending \in [Threads -> Conns \cup {None}]
      /\ member \in Subs \cup {None} /\ wsSub \in Subs \cup {None}
  BY SubscriptionAssumption DEF Types, TypeOK
<1>2. ASSUME NEW t \in Threads, AssignSubscription(t) PROVE Fresh'
  <2>1. PICK s \in Subs \ made : member' = s
    BY <1>2 DEF AssignSubscription
  <2>2. connOf[s] = None /\ \A c \in Conns : subOf[c] # s
    BY <1>1, <2>1 DEF Stored
  <2>3. UNCHANGED <<connOf, subOf, pending>>
    BY <1>2 DEF AssignSubscription
  <2> QED
    BY <1>1, <2>1, <2>2, <2>3 DEF Fresh
<1>3. ASSUME NEW t \in Threads, Connect(t) PROVE Fresh'
  <2>1. PICK c \in Unused : /\ status' = [status EXCEPT ![c] = "connecting"]
                            /\ subOf' = [subOf EXCEPT ![c] = member]
                            /\ pending' = [pending EXCEPT ![t] = c]
    BY <1>3 DEF Connect
  <2>2. c \in Conns /\ status[c] = "unused" /\ member \in Subs /\ at[t] = "connect"
        /\ connOf' = connOf
    BY <1>1, <1>3 DEF Connect, Unused
  <2>3. pending'[t] = c /\ subOf'[c] = member
        /\ \A u \in Threads : u # t => pending'[u] = pending[u]
    BY <1>1, <2>1, <2>2
  <2>4. \A u \in Threads :
           u # t /\ pending[u] # None => pending[u] \in Conns /\ subOf'[pending[u]] = subOf[pending[u]]
    BY <1>1, <2>1, <2>2 DEF Stored
  <2>5. \A u \in Threads : at'[u] # "connect"
    BY <1>1, <1>3, <2>2 DEF Connect, Holds, Threads
  <2>6. \A u \in Threads : u # t /\ pending[u] # None => subOf[pending[u]] # member
    BY <1>1, <2>2 DEF Fresh
  <2>7. connOf[member] = None
    BY <1>1, <2>2 DEF Fresh
  <2>8. \A u \in Threads : pending'[u] # None =>
           subOf'[pending'[u]] \in Subs /\ connOf'[subOf'[pending'[u]]] = None
    BY <2>2, <2>3, <2>4, <2>7 DEF Fresh
  <2>9. pending'["thread"] # None /\ pending'["ws"] # None =>
           subOf'[pending'["thread"]] # subOf'[pending'["ws"]]
    BY <2>3, <2>4, <2>6 DEF Threads
  <2> QED
    BY <2>5, <2>8, <2>9 DEF Fresh
<1>4. ASSUME NEW t \in Threads, StoreConnection(t) PROVE Fresh'
  <2> DEFINE s == subOf[pending[t]]
  <2>1. pending[t] # None /\ s \in Subs
    BY <1>4 DEF StoreConnection, Holds, Fresh
  <2>2. /\ UNCHANGED <<member, subOf>>
        /\ \A r \in Subs : r # s => connOf'[r] = connOf[r]
        /\ pending'[t] = None /\ \A u \in Threads : u # t => pending'[u] = pending[u]
        /\ \A u \in Threads : at'[u] = "connect" => at[u] = "connect"
    BY <1>1, <1>4, <2>1 DEF StoreConnection, NextPlace
  <2>3. \A u \in Threads : u # t /\ pending[u] # None => subOf[pending[u]] # s
    BY <2>1 DEF Fresh, Threads
  <2>4. \A u \in Threads : at[u] = "connect" /\ member # None => member # s
    BY <2>1 DEF Fresh
  <2> HIDE DEF s
  <2> QED
    BY <1>1, <2>2, <2>3, <2>4 DEF Fresh, Threads
<1>5. CASE Reconnect \/ ReconnectRefused
  <2>1. /\ at["ws"] = "refresh" /\ at' = [at EXCEPT !["ws"] = "return"] /\ ~BeingStored
        /\ UNCHANGED pending
    BY <1>5 DEF Reconnect, Reconnection, ReconnectRefused
  <2>2. \A r \in Subs : r # wsSub => connOf'[r] = connOf[r]
    BY <1>1, <1>5 DEF Reconnect, Reconnection, ReconnectRefused
  <2>3. \A c \in Conns : status[c] # "unused" => subOf'[c] = subOf[c]
    BY <1>1, <1>5 DEF Reconnect, Reconnection, ReconnectRefused, Unused
  <2>4. pending["ws"] = None /\ at'["thread"] # "connect" /\ at'["ws"] # "connect"
    BY <1>1, <2>1 DEF Holds, Threads
  <2>5. pending["thread"] # None =>
           /\ subOf'[pending["thread"]] = subOf[pending["thread"]]
           /\ subOf[pending["thread"]] # wsSub
    BY <1>1, <2>1, <2>3 DEF Stored, BeingStored, Threads
  <2> QED
    BY <2>1, <2>2, <2>4, <2>5 DEF Fresh, Threads
<1>6. ASSUME UNCHANGED <<connOf, subOf, pending>>, member' \in {member, None}, NEW place,
             place # "connect", NEW t \in Threads, at' = at \/ at' = [at EXCEPT ![t] = place]
      PROVE  Fresh'
  <2>1. \A u \in Threads : at'[u] = "connect" => at[u] = "connect"
    BY <1>1, <1>6
  <2> QED
    BY <1>6, <2>1, FreshKept
<1>7. ASSUME NEW t \in Threads, ConnectRefused(t) \/ SetupRaces(t) PROVE Fresh'
  BY <1>6, <1>7 DEF ConnectRefused, NextPlace, SetupRaces
<1>8. CASE StopBegin \/ Owner
  <2>1. UNCHANGED <<connOf, subOf, pending, at>> /\ member' \in {member, None}
    BY <1>8 DEF StopBegin, Owner, ResetSubscription, JoinThread, DropBroadcast, JoinWebsocketThread
  <2> QED
    BY <2>1, FreshKept
<1>9. ASSUME NEW c \in Conns,
             \/ Opened(c) \/ ClosingDone(c) \/ ConnectFails(c) \/ ServerCloses(c)
             \/ Message(c) \/ CredentialExpired(c)
      PROVE  Fresh'
  <2>1. UNCHANGED <<connOf, subOf, pending, member>>
    BY <1>9 DEF Opened, ClosingDone, ConnectFails, ServerCloses, Message, CredentialExpired
  <2>2. at' = at \/ \E place \in Places \ {"connect"} : at' = [at EXCEPT !["ws"] = place]
    BY <1>9 DEF Opened, ClosingDone, ConnectFails, ServerCloses, Message, CredentialExpired, Ends,
       LockBroadcast, Places, HandlerPlaces
  <2> QED
    BY <1>6, <2>1, <2>2 DEF Threads
<1>10. CASE \/ ClosedTest \/ FailedTest \/ WakeUp \/ RetryTest \/ Handle \/ Return
            \/ RefreshFails \/ RefreshThrows \/ RefreshRaces
  <2>1. UNCHANGED <<connOf, subOf, pending, member>>
    BY <1>10 DEF ClosedTest, FailedTest, WakeUp, RetryTest, Handle, Return, RefreshFails,
       RefreshThrows, RefreshRaces
  <2>2. \E place \in Places \ {"connect"} : at' = [at EXCEPT !["ws"] = place]
    BY <1>10 DEF ClosedTest, FailedTest, WakeUp, RetryTest, Handle, Return, RefreshFails,
       RefreshThrows, RefreshRaces, LockBroadcast, DropOnWebsocket, Places, HandlerPlaces, SetupPlaces
  <2> QED
    BY <1>6, <2>1, <2>2 DEF Threads
<1>11. CASE UNCHANGED vars
  BY <1>11, FreshKept DEF vars
<1> QED
  BY <1>2, <1>3, <1>4, <1>5, <1>7, <1>8, <1>9, <1>10, <1>11 DEF Next, Setup, Handler

-----------------------------------------------------------------------------
(* No connection is forgotten. *)

(* No connection comes into use, no other subscription is referenced, and those subscribed
   keep one that is. *)
LEMMA KnownKept ==
    ASSUME Known, UNCHANGED <<connOf, subOf, pending>>,
           \A c \in Conns :
               status'[c] \in {"connecting", "subscribed"} => status[c] \in {"connecting", "subscribed"},
           \A c \in Conns : subOf[c] # None /\ subOf[c] \in {member', wsSub'} => Alive(subOf[c]),
           \A c \in Conns : status'[c] = "subscribed" =>
               pending["thread"] = c \/ (subOf[c] # None /\ subOf[c] \in {member', wsSub'}),
           at'["ws"] = "refresh" =>
               /\ at["ws"] = "refresh" /\ wsSub' = wsSub
               /\ \A c \in Conns :
                     status[c] = "subscribed" /\ subOf[c] = wsSub => status'[c] = "subscribed"
    PROVE  Known'
<1>1. \A c \in Conns :
         status'[c] \in {"connecting", "subscribed"} /\ Alive(subOf[c])' => Remembered(c)'
  BY DEF Known, Alive, Remembered
<1>2. \A c \in Conns : status'[c] = "subscribed" => Alive(subOf[c])' \/ pending'["thread"] = c
  BY DEF Alive
<1>3. at'["ws"] = "refresh" =>
         \E c \in Conns : /\ status'[c] = "subscribed" /\ subOf'[c] = wsSub'
                          /\ connOf'[wsSub'] = c \/ pending'["thread"] = c
  BY DEF Known
<1> QED
  BY <1>1, <1>2, <1>3 DEF Known

(* What is subscribed after a subscription was released has another. *)
LEMMA StillSubscribed ==
    ASSUME Types, Holds, Stored, Known, NEW s \in {member, wsSub}, NEW kept,
           NEW c \in Conns, Release(s, kept)[c] = "subscribed"
    PROVE  pending["thread"] = c \/ (Alive(subOf[c]) /\ (subOf[c] # s \/ s \in kept))
<1>1. s \in Subs \cup {None} /\ status[c] = "subscribed"
  BY Releases DEF Types, TypeOK, Closings
<1>2. SUFFICES ASSUME pending["thread"] # c, Alive(subOf[c]), subOf[c] = s, s \notin kept
               PROVE  FALSE
  BY <1>1 DEF Known
<1>3. s # None /\ connOf[s] # c
  BY <1>1, <1>2, Releases DEF Alive
<1>4. pending["ws"] # c
  BY <1>1, SubscriptionAssumption DEF Stored
<1> QED
  BY <1>1, <1>2, <1>3, <1>4 DEF Known, Remembered, Threads

(* Every step remembers the connections in use. *)
LEMMA KnownInductive == ASSUME Types, Holds, Stored, Fresh, Known, [Next]_vars PROVE Known'
<1> USE DEF broadcastVars, subVars, connVars, Goto
<1>1. /\ member \in Subs \cup {None} /\ wsSub \in Subs \cup {None}
      /\ None \notin Conns /\ None \notin Subs
      /\ status \in [Conns -> Statuses] /\ at \in [Threads -> Places]
      /\ subOf \in [Conns -> Subs \cup {None}] /\ connOf \in [Subs -> Conns \cup {None}]
      /\ pending \in [Threads -> Conns \cup {None}]
      /\ \A s \in {member, wsSub} : \A kept : Closings(Release(s, kept))
  BY Releases, SubscriptionAssumption DEF Types, TypeOK, Statuses
<1>2. ASSUME Closings(status'), NEW c \in Conns
      PROVE  status'[c] \in {"connecting", "subscribed"} => status[c] \in {"connecting", "subscribed"}
  BY <1>2 DEF Closings
<1>3. ASSUME NEW t \in Threads, AssignSubscription(t) PROVE Known'
  <2>1. status' = Release(member, {wsSub}) /\ Closings(status')
        /\ UNCHANGED <<connOf, subOf, pending, wsSub>>
    BY <1>1, <1>3 DEF AssignSubscription
  <2>2. PICK s \in Subs \ made : member' = s
    BY <1>3 DEF AssignSubscription
  <2>3. \A c \in Conns : subOf[c] # s
    BY <1>1, <2>2 DEF Stored
  <2>4. \A c \in Conns : status'[c] = "subscribed" =>
            pending["thread"] = c \/ (subOf[c] # None /\ subOf[c] = wsSub)
    BY <2>1, StillSubscribed DEF Alive
  <2>5. at'["ws"] # "refresh"
    BY <1>1, <1>3 DEF AssignSubscription, Holds, Threads
  <2> QED
    BY <1>2, <2>1, <2>2, <2>3, <2>4, <2>5, KnownKept DEF Alive
<1>4. CASE ResetSubscription \/ DropBroadcast
  <2>1. UNCHANGED <<connOf, subOf, pending, wsSub, at>>
    BY <1>4 DEF ResetSubscription, DropBroadcast
  <2>2. CASE UNCHANGED <<member, status>>
    BY <2>1, <2>2, KnownKept DEF Known, Alive
  <2>3. CASE member' = None /\ status' = Release(member, {wsSub})
    <3>1. Closings(status')
      BY <1>1, <2>3
    <3>2. \A c \in Conns : status'[c] = "subscribed" =>
              pending["thread"] = c \/ (subOf[c] # None /\ subOf[c] = wsSub)
      BY <2>3, StillSubscribed DEF Alive
    <3>3. ASSUME NEW c \in Conns, status[c] = "subscribed", subOf[c] = wsSub
          PROVE  status'[c] = "subscribed"
      <4>1. ~(member # None /\ member \notin {wsSub} /\ connOf[member] = c)
        BY <1>1, <3>3 DEF Stored
      <4> QED
        BY <1>1, <2>3, <3>3, <4>1, Releases
    <3> QED
      BY <1>2, <2>1, <2>3, <3>1, <3>2, <3>3, KnownKept DEF Alive
  <2> QED
    BY <1>4, <2>2, <2>3 DEF ResetSubscription, DropBroadcast
<1>5. CASE Return
  <2>1. status' = Release(wsSub, {member}) /\ Closings(status')
        /\ wsSub' = None /\ UNCHANGED <<connOf, subOf, pending, member>>
    BY <1>1, <1>5 DEF Return
  <2>2. \A c \in Conns : status'[c] = "subscribed" =>
            pending["thread"] = c \/ (subOf[c] # None /\ subOf[c] = member)
    BY <2>1, StillSubscribed DEF Alive
  <2>3. at'["ws"] # "refresh"
    BY <1>1, <1>5 DEF Return, DropOnWebsocket, Threads
  <2> QED
    BY <1>2, <2>1, <2>2, <2>3, KnownKept DEF Alive
<1>6. ASSUME NEW t \in Threads, Connect(t) PROVE Known'
  <2>1. PICK c \in Unused : /\ status' = [status EXCEPT ![c] = "connecting"]
                            /\ subOf' = [subOf EXCEPT ![c] = member]
                            /\ pending' = [pending EXCEPT ![t] = c]
    BY <1>6 DEF Connect
  <2>2. c \in Conns /\ status[c] = "unused" /\ pending[t] = None
        /\ UNCHANGED <<member, wsSub, connOf>>
    BY <1>1, <1>6 DEF Connect, Unused, Holds
  <2>3. pending'[t] = c /\ \A u \in Threads : u # t => pending'[u] = pending[u]
    BY <1>1, <2>1
  <2>4. \A d \in Conns : d # c => status'[d] = status[d] /\ subOf'[d] = subOf[d]
    BY <1>1, <2>1
  <2>5. \A d \in Conns : Remembered(d) => Remembered(d)' \/ d = c
    BY <1>1, <2>2, <2>3, <2>4 DEF Remembered
  <2>6. \A d \in Conns :
           status'[d] \in {"connecting", "subscribed"} /\ Alive(subOf[d])' => Remembered(d)'
    <3> SUFFICES ASSUME NEW d \in Conns, status'[d] \in {"connecting", "subscribed"}, Alive(subOf[d])'
                 PROVE  Remembered(d)'
      OBVIOUS
    <3>1. CASE d = c
      BY <2>3, <3>1 DEF Remembered
    <3>2. CASE d # c
      BY <2>2, <2>4, <2>5, <3>2 DEF Known, Alive
    <3> QED
      BY <3>1, <3>2
  <2>7. \A d \in Conns : status'[d] = "subscribed" => Alive(subOf[d])' \/ pending'["thread"] = d
    <3> SUFFICES ASSUME NEW d \in Conns, status'[d] = "subscribed"
                 PROVE  Alive(subOf[d])' \/ pending'["thread"] = d
      OBVIOUS
    <3>1. d # c
      BY <1>1, <2>1, <2>2
    <3>2. pending["thread"] = d => pending'["thread"] = d
      BY <1>1, <2>2, <2>3 DEF Threads
    <3> QED
      BY <2>2, <2>4, <3>1, <3>2 DEF Known, Alive
  <2>8. at'["ws"] # "refresh"
    BY <1>1, <1>6 DEF Connect, Holds, Threads
  <2> QED
    BY <2>6, <2>7, <2>8 DEF Known
<1>7. ASSUME NEW t \in Threads, StoreConnection(t) PROVE Known'
  <2> DEFINE p == pending[t]
             s == subOf[p]
  <2>1. p \in Conns /\ s \in Subs /\ Alive(s) /\ connOf[s] = None
    BY <1>1, <1>7 DEF StoreConnection, Holds, Fresh
  <2>2. /\ UNCHANGED <<member, wsSub, status, subOf>>
        /\ connOf'[s] = p /\ \A r \in Subs : r # s => connOf'[r] = connOf[r]
        /\ pending'[t] = None /\ \A u \in Threads : u # t => pending'[u] = pending[u]
    BY <1>1, <1>7, <2>1 DEF StoreConnection
  <2> HIDE DEF p, s
  <2>3. \A d \in Conns : connOf[subOf[d]] = d /\ subOf[d] \in Subs => connOf'[subOf[d]] = d
    BY <1>1, <2>1, <2>2
  <2>4. \A d \in Conns : pending[t] = d => d = p /\ subOf[d] = s
    BY DEF p, s
  <2>5. ASSUME NEW d \in Conns, status[d] \in {"connecting", "subscribed"}, Alive(subOf[d])
        PROVE  Remembered(d)'
    <3>1. subOf[d] \in Subs
      BY <1>1 , <2>5 DEF Alive
    <3>2. connOf[subOf[d]] = d \/ \E u \in Threads : pending[u] = d
      BY <2>5 DEF Known, Remembered
    <3> QED
      BY <2>2, <2>3, <2>4, <3>1, <3>2 DEF Remembered
  <2>6. \A d \in Conns : status[d] = "subscribed" => Alive(subOf[d]) \/ pending'["thread"] = d
    BY <1>1, <2>1, <2>2, <2>4 DEF Known, Threads
  <2>7. at'["ws"] = "refresh" =>
           \E d \in Conns : /\ status[d] = "subscribed" /\ subOf[d] = wsSub
                            /\ connOf'[wsSub] = d \/ pending'["thread"] = d
    <3> SUFFICES ASSUME at'["ws"] = "refresh"
                 PROVE  \E d \in Conns : /\ status[d] = "subscribed" /\ subOf[d] = wsSub
                                         /\ connOf'[wsSub] = d \/ pending'["thread"] = d
      OBVIOUS
    <3>1. at["ws"] = "refresh" /\ wsSub \in Subs
      BY <1>1, <1>7 DEF StoreConnection, NextPlace, Holds, Threads
    <3>2. PICK d \in Conns : /\ status[d] = "subscribed" /\ subOf[d] = wsSub
                             /\ connOf[wsSub] = d \/ pending["thread"] = d
      BY <3>1 DEF Known
    <3>3. connOf[wsSub] = d => connOf'[wsSub] = d
      BY <2>3, <3>1, <3>2
    <3>4. pending["thread"] = d => connOf'[wsSub] = d \/ pending'["thread"] = d
      BY <2>2, <2>4, <3>2 DEF Threads
    <3> QED
      BY <3>2, <3>3, <3>4
  <2> QED
    BY <2>2, <2>5, <2>6, <2>7 DEF Known, Alive
<1>8. CASE Reconnect
  <2>1. PICK c \in Unused : /\ status' = [Close(status, connOf[wsSub]) EXCEPT ![c] = "connecting"]
                            /\ subOf' = [subOf EXCEPT ![c] = wsSub]
                            /\ connOf' = [connOf EXCEPT ![wsSub] = c]
    BY <1>8 DEF Reconnect, Reconnection
  <2>2. /\ c \in Conns /\ status[c] = "unused" /\ at["ws"] = "refresh"
        /\ UNCHANGED <<member, wsSub, pending>> /\ wsSub \in Subs
    BY <1>1, <1>8 DEF Reconnect, Reconnection, Unused, Holds
  <2>3. PICK w \in Conns : /\ status[w] = "subscribed" /\ subOf[w] = wsSub
                           /\ connOf[wsSub] = w \/ pending["thread"] = w
    BY <2>2 DEF Known
  <2>4. c # w /\ connOf'[wsSub] = c /\ subOf'[c] = wsSub
        /\ (\A s \in Subs : s # wsSub => connOf'[s] = connOf[s])
        /\ \A d \in Conns : d # c => subOf'[d] = subOf[d]
    BY <1>1, <2>1, <2>2, <2>3
  <2>5. pending["thread"] # w
    BY <1>1, <1>8, <2>3 DEF Reconnect, Reconnection, BeingStored
  <2>6. connOf[wsSub] = w
    BY <2>3, <2>5
  <2>7. /\ Close(status, w) \in [Conns -> Statuses] /\ Closings(Close(status, w))
        /\ Close(status, w)[w] # "subscribed"
    BY <1>1, Closes
  <2>8. /\ status'[c] = "connecting" /\ status'[w] \notin {"connecting", "subscribed"}
        /\ \A d \in Conns : d # c /\ status'[d] \in {"connecting", "subscribed"} => status'[d] = status[d]
    BY <2>1, <2>2, <2>3, <2>4, <2>6, <2>7 DEF Closings
  <2>9. ASSUME NEW d \in Conns, status'[d] \in {"connecting", "subscribed"}, Alive(subOf[d])'
        PROVE  Remembered(d)'
    <3>1. CASE d = c
      BY <2>4, <3>1, <2>2 DEF Remembered
    <3>2. CASE d # c
      <4>1. Alive(subOf[d]) /\ Remembered(d) /\ subOf[d] \in Subs /\ subOf'[d] = subOf[d]
        BY <1>1, <2>2, <2>4, <2>8, <2>9, <3>2 DEF Alive, Known
      <4>2. connOf[subOf[d]] = d => subOf[d] # wsSub
        BY <2>6, <2>8, <2>9
      <4> QED
        BY <2>2, <2>4, <4>1, <4>2 DEF Remembered
    <3> QED
      BY <3>1, <3>2
  <2>10. \A d \in Conns : status'[d] = "subscribed" => Alive(subOf[d])' \/ pending'["thread"] = d
    <3> SUFFICES ASSUME NEW d \in Conns, status'[d] = "subscribed"
                 PROVE  Alive(subOf[d])' \/ pending'["thread"] = d
      OBVIOUS
    <3>1. d # c /\ status[d] = "subscribed" /\ subOf'[d] = subOf[d]
      BY <2>4, <2>8
    <3> QED
      BY <2>2, <3>1 DEF Known, Alive
  <2>11. at'["ws"] # "refresh"
    BY <1>1, <1>8 DEF Reconnect, Reconnection, Threads
  <2> QED
    BY <2>9, <2>10, <2>11 DEF Known
<1>9. ASSUME NEW c \in Conns, Opened(c) PROVE Known'
  <2>1. /\ status' = [status EXCEPT ![c] = IF Alive(subOf[c]) THEN "subscribed" ELSE "open"]
        /\ status[c] = "connecting" /\ at["ws"] = "idle"
        /\ UNCHANGED <<connOf, subOf, pending, member, wsSub, at>>
    BY <1>9 DEF Opened
  <2>2. \A d \in Conns : d # c => status'[d] = status[d]
    BY <1>1, <2>1
  <2>3. status'[c] = "subscribed" => Alive(subOf[c])
    BY <1>1, <2>1
  <2> QED
    BY <2>1, <2>2, <2>3, KnownKept DEF Known, Alive
<1>10. ASSUME NEW c \in Conns, at["ws"] = "idle", at'["ws"] # "refresh",
              UNCHANGED <<connOf, subOf, pending, member>>,
              wsSub' = wsSub \/ (wsSub' = subOf[c] /\ Alive(subOf[c])),
              \A d \in Conns : status'[d] = status[d] \/ status'[d] = "ended"
       PROVE  Known'
  <2>1. wsSub = None /\ (wsSub' = None \/ wsSub' = member)
    BY <1>10 DEF Holds, Alive
  <2> QED
    BY <1>10, <2>1, KnownKept DEF Known, Alive
<1>11. ASSUME NEW c \in Conns, NEW from, NEW place \in HandlerPlaces, Ends(c, from, place),
              UNCHANGED <<connOf, subOf, pending, member>>
       PROVE  Known'
  <2>1. at'["ws"] # "refresh"
    BY <1>1, <1>11 DEF Ends, LockBroadcast, HandlerPlaces, Threads
  <2>2. \A d \in Conns : status'[d] = status[d] \/ status'[d] = "ended"
    BY <1>1, <1>11 DEF Ends
  <2> QED
    BY <1>10, <1>11, <2>1, <2>2 DEF Ends
<1>12. ASSUME NEW c \in Conns, ClosingDone(c) \/ ConnectFails(c) \/ ServerCloses(c) PROVE Known'
  BY <1>11, <1>12 DEF ClosingDone, ConnectFails, ServerCloses, HandlerPlaces
<1>13. ASSUME NEW c \in Conns, Message(c) PROVE Known'
  <2>1. at'["ws"] # "refresh"
    BY <1>1, <1>13 DEF Message, LockBroadcast, Threads
  <2> QED
    BY <1>10, <1>13, <2>1 DEF Message
<1>14. ASSUME NEW c \in Conns, CredentialExpired(c) PROVE Known'
  <2>1. /\ status[c] = "subscribed" /\ Alive(subOf[c]) /\ wsSub' = subOf[c]
        /\ UNCHANGED <<connOf, subOf, pending, member, status>> /\ wsSub = None
    BY <1>14 DEF CredentialExpired, Holds
  <2>2. connOf[subOf[c]] = c \/ pending["thread"] = c
    <3>1. pending["ws"] # c
      BY <1>1, <2>1 DEF Stored
    <3> QED
      BY <2>1, <3>1 DEF Known, Remembered, Threads
  <2> QED
    BY <2>1, <2>2 DEF Known, Alive, Remembered
<1>15. ASSUME UNCHANGED <<member, subVars, connVars>>, at'["ws"] = "refresh" => at["ws"] = "refresh"
       PROVE  Known'
  BY <1>15, KnownKept DEF Known, Alive
<1>16. ASSUME NEW t \in Threads, SetupRaces(t) PROVE Known'
  BY <1>1, <1>15, <1>16 DEF SetupRaces, Threads
<1>17. CASE StopBegin \/ JoinThread \/ JoinWebsocketThread
  BY <1>15, <1>17 DEF StopBegin, JoinThread, JoinWebsocketThread
<1>18. CASE ClosedTest \/ FailedTest \/ WakeUp \/ RetryTest \/ Handle \/ RefreshFails
  <2>1. UNCHANGED <<member, subVars, connVars>>
    BY <1>18 DEF ClosedTest, FailedTest, WakeUp, RetryTest, Handle, RefreshFails
  <2>2. at'["ws"] # "refresh"
    BY <1>1, <1>18 DEF ClosedTest, FailedTest, WakeUp, RetryTest, Handle, RefreshFails, LockBroadcast,
       DropOnWebsocket, Threads
  <2> QED
    BY <1>15, <2>1, <2>2
<1>19. CASE UNCHANGED vars
  BY <1>15, <1>19 DEF vars
<1>20. CASE ReconnectRefused
  <2>1. /\ status' = Close(status, connOf[wsSub]) /\ connOf' = [connOf EXCEPT ![wsSub] = None]
        /\ at["ws"] = "refresh" /\ at' = [at EXCEPT !["ws"] = "return"] /\ ~BeingStored
        /\ UNCHANGED <<member, wsSub, subOf, pending>> /\ wsSub \in Subs
    BY <1>1, <1>20 DEF ReconnectRefused, Holds
  <2>2. PICK w \in Conns : /\ status[w] = "subscribed" /\ subOf[w] = wsSub
                           /\ connOf[wsSub] = w \/ pending["thread"] = w
    BY <2>1 DEF Known
  <2>3. connOf[wsSub] = w
    BY <1>1, <2>1, <2>2 DEF BeingStored
  <2>4. Closings(status') /\ status'[w] # "subscribed"
    BY <1>1, <2>1, <2>3, Closes
  <2>5. \A d \in Conns : status'[d] \in {"connecting", "subscribed"} => status'[d] = status[d]
    BY <2>4 DEF Closings
  <2>6. ASSUME NEW d \in Conns, status'[d] \in {"connecting", "subscribed"}, Alive(subOf[d])'
        PROVE  Remembered(d)'
    <3>1. Remembered(d) /\ subOf[d] \in Subs
      BY <1>1, <2>1, <2>5, <2>6 DEF Known, Alive
    <3>2. d # w
      BY <2>2, <2>4, <2>5, <2>6
    <3>3. subOf[d] # wsSub => connOf'[subOf[d]] = connOf[subOf[d]]
      BY <1>1, <2>1, <3>1
    <3> QED
      BY <2>1, <2>3, <3>1, <3>2, <3>3 DEF Remembered
  <2>7. \A d \in Conns : status'[d] = "subscribed" => Alive(subOf[d])' \/ pending'["thread"] = d
    BY <2>1, <2>5 DEF Known, Alive
  <2>8. at'["ws"] # "refresh"
    BY <1>1, <2>1 DEF Threads
  <2> QED
    BY <2>6, <2>7, <2>8 DEF Known
<1>21. ASSUME NEW t \in Threads, ConnectRefused(t) PROVE Known'
  BY <1>1, <1>15, <1>21 DEF ConnectRefused, NextPlace, Threads
<1>22. CASE RefreshThrows \/ RefreshRaces
  BY <1>1, <1>15, <1>22 DEF RefreshThrows, RefreshRaces, Threads
<1> QED
  BY <1>3, <1>4, <1>5, <1>6, <1>7, <1>8, <1>9, <1>12, <1>13, <1>14, <1>16, <1>17, <1>18, <1>19,
     <1>20, <1>21, <1>22
  DEF Next, Setup, Owner, Handler

-----------------------------------------------------------------------------
(* The invariant, and what follows from it. *)

(* Initially nothing is connected. *)
LEMMA Starts == Init => IInv
<1> SUFFICES ASSUME Init PROVE IInv
  OBVIOUS
<1>1. Types
  <2>1. /\ at["thread"] = "assign" /\ at["ws"] = "idle"
        /\ at \in [Threads -> {"assign", "idle"}]
    BY DEF Init, Threads
  <2>2. at \in [Threads -> Places]
    BY <2>1 DEF Places, SetupPlaces
  <2>3. disruptions \in 0 .. MaxDisruptions
    BY SubscriptionAssumption DEF Init
  <2>4. /\ connOf \in [Subs -> Conns \cup {None}]
        /\ status \in [Conns -> Statuses]
        /\ subOf \in [Conns -> Subs \cup {None}]
        /\ pending \in [Threads -> Conns \cup {None}]
    BY DEF Init, Statuses
  <2>5. /\ stopping \in BOOLEAN /\ wsHolds \in BOOLEAN /\ owner = "running"
        /\ member = None /\ made = {} /\ wsSub = None
    BY DEF Init
  <2> QED
    BY <2>1, <2>2, <2>3, <2>4, <2>5 DEF Types, TypeOK, SetupPlaces, Statuses
<1>2. Holds
  BY DEF Init, Holds, Threads, HandlerPlaces, SetupPlaces
<1>3. Stored /\ Fresh /\ Known
  BY DEF Init, Stored, Fresh, Known, Threads
<1> QED
  BY <1>1, <1>2, <1>3 DEF IInv

(* The inductive invariant. *)
LEMMA Invariant == Spec => []IInv
<1>1. IInv /\ [Next]_vars => IInv'
  BY TypesInductive, HoldsInductive, StoredInductive, FreshInductive, KnownInductive DEF IInv
<1> QED
  BY Starts, <1>1, PTL DEF Spec

(* Type correctness, whatever is lost, retried and dropped (Subscription.TypeOK). *)
THEOREM TypeCorrect == Spec => []TypeOK
<1>1. IInv => TypeOK
  BY DEF IInv, Types
<1> QED
  BY Invariant, <1>1, PTL

(* No handler of the websocket thread works on a destroyed Broadcast: those that use it
   have locked it, and locked it again after they slept. *)
THEOREM HandlersHold == Spec => []HandlersHoldBroadcast
<1>1. IInv => HandlersHoldBroadcast
  BY DEF IInv, Holds, HandlersHoldBroadcast, Destroyed
<1> QED
  BY Invariant, <1>1, PTL

(* Between two handlers the server sends stage updates on one connection at most, that
   of the Broadcast's subscription, through losses, retries and refreshed credentials. *)
THEOREM OneSubscriptionOnly == Spec => []OneSubscription
<1>1. ASSUME IInv, at["ws"] = "idle", at["thread"] = "done", NEW c \in Conns, status[c] = "subscribed"
      PROVE  member # None /\ connOf[member] = c
  <2>1. Known /\ wsSub = None /\ \A t \in Threads : pending[t] = None
    BY <1>1 DEF IInv, Holds, Threads
  <2>2. None # c
    BY SubscriptionAssumption
  <2> QED
    BY <1>1, <2>1, <2>2 DEF Known, Alive, Remembered, Threads
<1>2. IInv => OneSubscription
  BY <1>1 DEF OneSubscription
<1> QED
  BY Invariant, <1>2, PTL
=============================================================================
