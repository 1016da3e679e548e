------------------------------- MODULE Session -------------------------------
(***************************************************************************)
(* Who is signed in: the calls of one application thread that sign in and  *)
(* out and start and end broadcasts (src/src/Instance.cpp), the worker     *)
(* that ends a failed broadcast, and the threads of the broadcast, which   *)
(* use the Instance's SharedCredentials by reference:                      *)
(*                                                                         *)
(*   app     the application's thread in a call (calls are not documented  *)
(*           as thread-safe, except sendAudio and sendVideo);              *)
(*   thread  broadcastThread, which stop() joins;                          *)
(*   late    the websocket thread and the statistics queue, which nothing  *)
(*           joins before the detached destruction of the Broadcast;       *)
(*   worker  the task queue's thread.                                      *)
(*                                                                         *)
(* The requests are in Requests.tla; which failure of which broadcast the  *)
(* worker ends is in Instance.tla, and is any here.                        *)
(***************************************************************************)
EXTENDS Requests

Users == [of : Accounts, canBroadcast : BOOLEAN]

ASSUME SessionAssumption ==
    /\ Threads = {"app", "thread", "late"}
    /\ None \notin Users

VARIABLES
    refreshToken,  \* the copy for C, as its account
    userInfo,      \* whose it is, and whether it allows broadcasting
    broadcast,     \* the username of the current broadcast, or None
    at             \* where each thread is

instanceVars == <<refreshToken, userInfo, broadcast>>
vars == <<requestVars, instanceVars, at>>

isSignedIn == credentials # None /\ userInfo # None
canBroadcast == userInfo # None /\ userInfo.canBroadcast

(* broadcastMutex: held to start a broadcast and to end one. *)
AppLocks == at.app \in {"encoderInfo", "ending", "signOut"}
WorkerLocks == at.worker = "ending"
Stopping == at.app \in {"ending", "signOut"} \/ WorkerLocks

Init ==
    /\ credentials = None
    /\ req = [t \in Threads |-> NoRequest]
    /\ mixed = FALSE
    /\ refreshToken = None
    /\ userInfo = None
    /\ broadcast = None
    /\ at = [app |-> "idle", thread |-> "off", late |-> "off", worker |-> "idle"]

-----------------------------------------------------------------------------
(* The application's thread: from one place to the next, with a request begun or
   the last one cleared. *)

AppBegins(place, kind) ==
    /\ at' = [at EXCEPT !.app = place]
    /\ req' = [req EXCEPT !["app"] = New(kind)]

AppGoesTo(place) ==
    /\ at' = [at EXCEPT !.app = place]
    /\ req' = [req EXCEPT !["app"] = NoRequest]

AppHas(place) == at.app = place /\ req["app"].step = "done"
AppResult == req["app"].result

(* caff_signIn, which first looks for the internet, and caff_refreshAuth: authenticate
   refuses while there is a broadcast. *)
CallSignIn ==
    /\ at.app = "idle"
    /\ broadcast = None
    /\ AppBegins("auth", "signIn")
    /\ UNCHANGED <<credentials, mixed, instanceVars>>

CallRefreshAuth ==
    /\ at.app = "idle"
    /\ broadcast = None
    /\ AppBegins("auth", "refreshAuth")
    /\ UNCHANGED <<credentials, mixed, instanceVars>>

AuthRefused ==
    /\ AppHas("auth")
    /\ AppResult # "ok"
    /\ AppGoesTo("idle")
    /\ UNCHANGED <<credentials, mixed, instanceVars>>

(* New credentials take the place of the old ones; then whose they are. *)
AuthAccepted ==
    /\ AppHas("auth")
    /\ AppResult = "ok"
    /\ \E account \in Accounts : credentials' = account /\ refreshToken' = account
    /\ mixed' = FALSE
    /\ AppBegins("userInfo", "userInfo")
    /\ UNCHANGED <<userInfo, broadcast>>

UserInfoFetched ==
    /\ AppHas("userInfo")
    /\ AppResult = "ok"
    /\ \E can \in BOOLEAN : userInfo' = [of |-> req["app"].seen, canBroadcast |-> can]
    /\ AppGoesTo("idle")
    /\ UNCHANGED <<credentials, mixed, refreshToken, broadcast>>

\* Variant: the copy of the token is forgotten.
UserInfoFailedKeepsToken ==
    /\ AppHas("userInfo")
    /\ AppResult = "none"
    /\ userInfo' = None
    /\ credentials' = None
    /\ AppGoesTo("idle")
    /\ UNCHANGED <<mixed, refreshToken, broadcast>>

UserInfoFailed ==
    /\ AppHas("userInfo")
    /\ AppResult = "none"
    /\ userInfo' = None
    /\ credentials' = None
    /\ refreshToken' = None
    /\ AppGoesTo("idle")
    /\ UNCHANGED <<mixed, broadcast>>

(* An exception leaves the new credentials with the old user. *)
UserInfoThrows ==
    /\ AppHas("userInfo")
    /\ AppResult = "throw"
    /\ mixed' = TRUE
    /\ AppGoesTo("idle")
    /\ UNCHANGED <<credentials, instanceVars>>

(* startBroadcast: signed in, version, allowed; then, under the lock, the broadcast. *)
CallStart ==
    /\ at.app = "idle"
    /\ isSignedIn
    /\ AppBegins("version", "version")
    /\ UNCHANGED <<credentials, mixed, instanceVars>>

VersionChecked ==
    /\ AppHas("version")
    /\ CASE AppResult \in {"old", "throw"} -> AppGoesTo("idle")
         [] AppResult \notin {"old", "throw"} /\ canBroadcast -> AppGoesTo("lock")
         [] OTHER -> AppBegins("allowed", "userInfo")
    /\ UNCHANGED <<credentials, mixed, instanceVars>>

\* Variant: the newly fetched user is not asked whether he may broadcast.
AllowedAnyway ==
    /\ AppHas("allowed")
    /\ \/ /\ AppResult = "ok"
          /\ \E can \in BOOLEAN : userInfo' = [of |-> req["app"].seen, canBroadcast |-> can]
          /\ AppGoesTo("lock")
       \/ AppGoesTo("idle") /\ UNCHANGED userInfo
    /\ UNCHANGED <<credentials, mixed, refreshToken, broadcast>>

(* A user newly allowed to broadcast is kept; one still not allowed is not. *)
Allowed ==
    /\ AppHas("allowed")
    /\ \/ /\ AppResult = "ok"
          /\ userInfo' = [of |-> req["app"].seen, canBroadcast |-> TRUE]
          /\ AppGoesTo("lock")
       \/ AppGoesTo("idle") /\ UNCHANGED userInfo
    /\ UNCHANGED <<credentials, mixed, refreshToken, broadcast>>

StartLock ==
    /\ at.app = "lock"
    /\ ~WorkerLocks
    /\ IF broadcast # None
       THEN AppGoesTo("idle") /\ UNCHANGED broadcast
       ELSE broadcast' = userInfo.of /\ AppBegins("encoderInfo", "encoderInfo")
    /\ UNCHANGED <<credentials, mixed, refreshToken, userInfo>>

(* start() creates the thread, unless it threw. *)
Started ==
    /\ AppHas("encoderInfo")
    /\ req' = [req EXCEPT !["app"] = NoRequest]
    /\ at' = IF AppResult = "throw" THEN [at EXCEPT !.app = "idle"]
             ELSE [at EXCEPT !.app = "idle", !.thread = "on", !.late = "on"]
    /\ UNCHANGED <<credentials, mixed, instanceVars>>

CallEnd ==
    /\ at.app = "idle"
    /\ ~WorkerLocks
    /\ AppGoesTo("ending")
    /\ UNCHANGED <<credentials, mixed, instanceVars>>

\* Variant: the credentials are discarded before the broadcast is ended.
CallSignOutResets ==
    /\ at.app = "idle"
    /\ ~WorkerLocks
    /\ AppGoesTo("signOut")
    /\ credentials' = None
    /\ UNCHANGED <<mixed, instanceVars>>

CallSignOut ==
    /\ at.app = "idle"
    /\ ~WorkerLocks
    /\ AppGoesTo("signOut")
    /\ UNCHANGED <<credentials, mixed, instanceVars>>

(* stop() has joined the thread, if there was one. *)
EndBroadcast ==
    /\ at.app \in {"ending", "signOut"}
    /\ at.thread # "on"
    /\ broadcast' = None
    /\ at' = [at EXCEPT !.app = "idle", !.thread = "off"]
    /\ IF at.app = "signOut"
       THEN credentials' = None /\ refreshToken' = None /\ userInfo' = None
       ELSE UNCHANGED <<credentials, refreshToken, userInfo>>
    /\ UNCHANGED <<req, mixed>>

-----------------------------------------------------------------------------
(* The worker ends a broadcast that has reported a failure. *)

FailureEnds ==
    /\ at.worker = "idle"
    /\ ~AppLocks
    /\ broadcast # None
    /\ at.thread # "off"
    /\ at' = [at EXCEPT !.worker = "ending"]
    /\ UNCHANGED <<requestVars, instanceVars>>

WorkerEnds ==
    /\ at.worker = "ending"
    /\ at.thread # "on"
    /\ broadcast' = None
    /\ at' = [at EXCEPT !.worker = "idle", !.thread = "off"]
    /\ UNCHANGED <<requestVars, refreshToken, userInfo>>

-----------------------------------------------------------------------------
(* The threads of the broadcast. *)

BroadcastRequests == {"graphql", "trickle", "screenshot", "heartbeat"}

ThreadRequests ==
    /\ at.thread = "on"
    /\ req["thread"].step = "none"
    /\ \E kind \in BroadcastRequests : req' = [req EXCEPT !["thread"] = New(kind)]
    /\ UNCHANGED <<credentials, mixed, instanceVars, at>>

(* Nothing on the thread catches an exception: std::terminate. *)
ThreadGoesOn ==
    /\ req["thread"].step = "done"
    /\ req' = [req EXCEPT !["thread"] =
          IF @.result = "throw" THEN [@ EXCEPT !.step = "crashed"] ELSE NoRequest]
    /\ UNCHANGED <<credentials, mixed, instanceVars, at>>

(* It was told to stop, or reported a failure of its own. *)
ThreadEnds ==
    /\ at.thread = "on"
    /\ req["thread"].step = "none"
    /\ at' = [at EXCEPT !.thread = "over"]
    /\ UNCHANGED <<requestVars, instanceVars>>

(* Statistics, or credentials that expired on the websocket. *)
LateRequests ==
    /\ at.late = "on"
    /\ req["late"].step = "none"
    /\ \/ req' = [req EXCEPT !["late"] = New("stats")]
       \/ ReadToken("late", New("credentials"))
    /\ UNCHANGED <<credentials, mixed, instanceVars, at>>

LateGoesOn ==
    /\ req["late"].step = "done"
    /\ req' = [req EXCEPT !["late"] = NoRequest]
    /\ UNCHANGED <<credentials, mixed, instanceVars, at>>

(* The detached thread has destroyed the ended Broadcast. *)
LateEnds ==
    /\ at.late = "on"
    /\ at.thread = "off"
    /\ req["late"].step = "none"
    /\ at' = [at EXCEPT !.late = "off"]
    /\ UNCHANGED <<requestVars, instanceVars>>

-----------------------------------------------------------------------------
App ==
    \/ CallSignIn \/ CallRefreshAuth \/ AuthRefused \/ AuthAccepted
    \/ UserInfoFetched \/ UserInfoFailed \/ UserInfoThrows
    \/ CallStart \/ VersionChecked \/ Allowed \/ StartLock \/ Started
    \/ CallEnd \/ CallSignOut \/ EndBroadcast

Others ==
    \/ FailureEnds \/ WorkerEnds
    \/ ThreadRequests \/ ThreadGoesOn \/ ThreadEnds
    \/ LateRequests \/ LateGoesOn \/ LateEnds

RequestStep(t) == Request(t) /\ UNCHANGED <<instanceVars, at>>

(* A "crashed" thread is the end of the process, or of what can be said of it. *)
Running == \A t \in Threads : req[t].step # "crashed"

Next == Running /\ (App \/ Others \/ \E t \in Threads : RequestStep(t))

(* Requests have time limits, and the threads in them are scheduled. *)
Fairness == \A t \in Threads : WF_vars(Running /\ RequestStep(t))

Spec == Init /\ [][Next]_vars /\ Fairness
-----------------------------------------------------------------------------
(* Properties. *)

AppPlaces ==
    {"idle", "auth", "userInfo", "version", "allowed", "lock", "encoderInfo", "ending",
     "signOut"}

(* Type invariant. *)
TypeOK ==
    /\ RequestTypes
    /\ refreshToken \in Accounts \cup {None}
    /\ userInfo \in Users \cup {None}
    /\ broadcast \in Accounts \cup {None}
    /\ at \in [app : AppPlaces, thread : {"off", "on", "over"}, late : {"off", "on"},
               worker : {"idle", "ending"}]

(* The SharedCredentials that the application's calls and the broadcast thread use
   by reference are there for as long as they use them, whoever signs out and
   whichever request fails meanwhile. *)
InUse(t) == req[t].step \in {"send", "sent", "refreshing"} /\ req[t].kind \notin Unauthenticated
CredentialsOutliveRequests ==
    \A t \in Threads \ {"late"} : InUse(t) => credentials # None

(* Between the application's calls the session is whole: credentials and the copy
   of the token come and go together, nobody is signed in without them, and all are
   of one account, which is also that of the broadcast.  Only two things mix accounts:
   an exception in getUserInfo, and credentials refreshed for an earlier session
   that arrive late. *)
SessionIsWhole ==
    /\ at.app # "userInfo" => (credentials = None <=> refreshToken = None)
    /\ credentials = None => userInfo = None \/ at.app = "userInfo"
    /\ at.app # "userInfo" /\ userInfo # None /\ ~mixed =>
          credentials = userInfo.of /\ refreshToken = userInfo.of
    /\ broadcast # None /\ ~mixed => credentials = broadcast

(* Nobody broadcasts who is not allowed to, nor under another name than the user's. *)
AllowedToBroadcast == broadcast # None => canBroadcast /\ broadcast = userInfo.of

(* Every request returns: tries are counted, a refresh that fails ends the request,
   and repeating it after one that succeeds takes no lock that is still held. *)
RequestsReturn ==
    \A t \in Threads :
        req[t].step \in {"send", "sent", "refreshing"} ~> (req[t].step = "done" \/ ~Running)
=============================================================================
