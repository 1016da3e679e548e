----------------------------- MODULE Broadcast -----------------------------
(***************************************************************************)
(* One Broadcast object (src/src/Broadcast.cpp) and the threads that run   *)
(* inside it:                                                              *)
(*                                                                         *)
(*   owner       the thread in Instance::startBroadcast / endBroadcast     *)
(*               that calls start() and stop() (serialised by the mutex of *)
(*               the Instance, see Instance.tla);                          *)
(*   thread      broadcastThread: subscribes, negotiates WebRTC, adds the  *)
(*               feed, goes live and sends heartbeats;                     *)
(*   ws          the websocket thread delivering stage updates;            *)
(*   Capturers   the application's threads in sendVideo();                 *)
(*   ICE         WebRTC's signaling thread reporting a failed connection.  *)
(*                                                                         *)
(* They share the atomic `state', the screenshot promise and the           *)
(* subscription promise.  Every failedCallback call is a member of         *)
(* `reports'; what the Instance does with it is in Instance.tla.  A wait   *)
(* with a timeout may time out whenever what it waits for has not          *)
(* happened; a request may fail before or after the server acted on it.    *)
(***************************************************************************)
EXTENDS Naturals

CONSTANTS
    Capturers,    \* application threads that call caff_sendVideo
    MaxFailures   \* max_failures in startHeartbeat (5 in the code)

ASSUME BroadcastAssumption == MaxFailures \in Nat

VARIABLES
    state,             \* Broadcast::state
    owner,             \* where the thread calling start() and stop() is
    pc,                \* where broadcastThread is
    failures,          \* consecutive failed heartbeats, a local of startHeartbeat
    started,           \* startedCallback has been called
    cap,               \* where each capture thread is in sendVideo
    screenshotNeeded,  \* isScreenshotNeeded
    screenshot,        \* screenshotPromise: "pending", "value" or "exception"
    ws,                \* where the websocket thread is in messageHandler
    subState,          \* subscriptionState
    subOpened,         \* subscriptionOpened has its value
    reports,           \* failedCallback calls: who made it, with which result
    feedAdded,         \* the server has carried out AddFeed
    stageLive,         \* the server has our stage live
    stopSent           \* StopBroadcast has been requested

threadVars == <<pc, failures, started>>
captureVars == <<cap, screenshotNeeded, screenshot>>
wsVars == <<ws, subState, subOpened>>
serverVars == <<feedAdded, stageLive, stopSent>>
vars == <<state, owner, reports, threadVars, captureVars, wsVars, serverVars>>

States == {"Offline", "Starting", "Streaming", "Live", "Stopping"}

(* The steps of the WebRTC negotiation that can only succeed or report
   caff_ResultFailure, and the place each continues at. *)
Negotiating == {"offer", "local", "remote", "gather", "trickle", "setRemote"}

AfterNegotiation ==
    [p \in Negotiating |-> CASE p = "offer" -> "local"
                             [] p = "local" -> "feed"
                             [] p = "remote" -> "gather"
                             [] p = "gather" -> "trickle"
                             [] p = "trickle" -> "setRemote"
                             [] p = "setRemote" -> "toStreaming"]

ThreadPlaces ==
    Negotiating \cup
    {"none", "subscribe", "feed", "addFeed", "toStreaming", "started", "heartbeat",
     "awaitShot", "sendShot", "awaitSub", "startBroadcast", "toLive", "loop", "beat",
     "updateFeed", "loopEnd", "stopBroadcast", "done", "unborn", "crashed"}

Results == {"Failure", "OutOfCapacity", "BroadcastFailed", "Disconnected", "Takeover",
            "Aspect"}
Reporters == {"thread", "ws", "capture", "ice"}

isOnline == state \in {"Streaming", "Live"}

Init ==
    /\ state = "Offline"
    /\ owner = "idle"
    /\ pc = "none"
    /\ failures = 0
    /\ started = FALSE
    /\ cap = [c \in Capturers |-> "idle"]
    /\ screenshotNeeded = TRUE
    /\ screenshot = "pending"
    /\ ws = "idle"
    /\ subState = "None"
    /\ subOpened = FALSE
    /\ reports = {}
    /\ feedAdded = FALSE
    /\ stageLive = FALSE
    /\ stopSent = FALSE

Report(by, result) == reports' = reports \cup {[by |-> by, result |-> result]}

-----------------------------------------------------------------------------
(* The owner: start() and stop(). *)

(* start() asks for the encoder settings and creates the thread; an answer of
   another shape throws before that, and the thread stays "unborn". *)
start ==
    /\ owner = "idle"
    /\ owner' = "running"
    /\ state' = "Starting"
    /\ pc' \in {"subscribe", "unborn"}
    /\ UNCHANGED <<failures, started, reports, captureVars, wsVars, serverVars>>

(* stop() publishes Stopping, drops the subscription, and joins the thread, if any. *)
StopBegin ==
    /\ owner = "running"
    /\ owner' = "joining"
    /\ state' = "Stopping"
    /\ UNCHANGED <<reports, threadVars, captureVars, wsVars, serverVars>>

\* Variant: stop() does not wait for the thread.
StopWithoutJoin ==
    /\ owner = "joining"
    /\ owner' = "stopped"
    /\ state' = "Offline"
    /\ UNCHANGED <<reports, threadVars, captureVars, wsVars, serverVars>>

StopJoin ==
    /\ owner = "joining"
    /\ pc \in {"done", "unborn"}
    /\ owner' = "stopped"
    /\ state' = "Offline"
    /\ UNCHANGED <<reports, threadVars, captureVars, wsVars, serverVars>>

-----------------------------------------------------------------------------
(* broadcastThread, from its first step to startedCallback. *)

Goto(from, to) == pc = from /\ pc' = to

(* The thread reports a failure and returns. *)
ThreadFails(result) == Report("thread", result) /\ pc' = "done"

(* setupSubscription and the creation of tracks and peer connection. *)
Subscribe ==
    /\ Goto("subscribe", "offer")
    /\ UNCHANGED <<state, owner, reports, failures, started, captureVars, wsVars, serverVars>>

\* Variant: the return after the failure report is missing.
NegotiateWithoutReturn ==
    /\ pc \in Negotiating
    /\ pc' = AfterNegotiation[pc]
    /\ UNCHANGED reports \/ Report("thread", "Failure")
    /\ UNCHANGED <<state, owner, failures, started, captureVars, wsVars, serverVars>>

(* One step of the negotiation: offer, local description, and, once the feed
   is added, remote description, ICE gathering and trickling. *)
Negotiate ==
    /\ pc \in Negotiating
    /\ \/ pc' = AfterNegotiation[pc] /\ UNCHANGED reports
       \/ ThreadFails("Failure")
    /\ UNCHANGED <<state, owner, failures, started, captureVars, wsVars, serverVars>>

(* createFeed requires Starting, and then requests AddFeed. *)
CreateFeed ==
    /\ pc = "feed"
    /\ IF state = "Starting"
       THEN pc' = "addFeed" /\ UNCHANGED reports
       ELSE ThreadFails("BroadcastFailed")
    /\ UNCHANGED <<state, owner, failures, started, captureVars, wsVars, serverVars>>

(* A success whose payload does not have our feed first is logged and taken for one:
   stage updates may then never list the feed, as they need not after a takeover. *)
AddFeed ==
    /\ pc = "addFeed"
    /\ \/ pc' = "remote" /\ feedAdded' = TRUE /\ UNCHANGED reports
       \/ ThreadFails("OutOfCapacity") /\ UNCHANGED feedAdded
       \/ ThreadFails("BroadcastFailed") /\ feedAdded' \in BOOLEAN
    /\ UNCHANGED <<state, owner, failures, started, captureVars, wsVars, stageLive, stopSent>>

(* transitionState is a compare-and-swap. *)
transitionState(expected, new) == state = expected /\ state' = new

ToStreaming ==
    /\ pc = "toStreaming"
    /\ \/ transitionState("Starting", "Streaming") /\ pc' = "started"
       \/ state # "Starting" /\ UNCHANGED state /\ pc' = "done"
    /\ UNCHANGED <<owner, reports, failures, started, captureVars, wsVars, serverVars>>

CallStarted ==
    /\ Goto("started", "heartbeat")
    /\ started' = TRUE
    /\ UNCHANGED <<state, owner, reports, failures, captureVars, wsVars, serverVars>>

-----------------------------------------------------------------------------
(* startHeartbeat: going live. *)

StartHeartbeat ==
    /\ pc = "heartbeat"
    /\ pc' = IF state = "Streaming" THEN "awaitShot" ELSE "done"
    /\ UNCHANGED <<state, owner, reports, failures, started, captureVars, wsVars, serverVars>>

\* Variant: the screenshot is not awaited.
SkipAwaitScreenshot ==
    /\ Goto("awaitShot", "awaitSub")
    /\ UNCHANGED <<state, owner, reports, failures, started, captureVars, wsVars, serverVars>>

\* Variant: wait() instead of wait_for().
AwaitScreenshotForever ==
    /\ pc = "awaitShot"
    /\ \/ screenshot = "value" /\ pc' = "sendShot" /\ UNCHANGED reports
       \/ screenshot = "exception" /\ ThreadFails("BroadcastFailed")
    /\ UNCHANGED <<state, owner, failures, started, captureVars, wsVars, serverVars>>

(* Five seconds for the first frame; an exception in the promise is rethrown. *)
AwaitScreenshot ==
    /\ pc = "awaitShot"
    /\ \/ screenshot = "value" /\ pc' = "sendShot" /\ UNCHANGED reports
       \/ screenshot # "value" /\ ThreadFails("BroadcastFailed")
    /\ UNCHANGED <<state, owner, failures, started, captureVars, wsVars, serverVars>>

SendScreenshot ==
    /\ pc = "sendShot"
    /\ \/ pc' = "awaitSub" /\ UNCHANGED reports
       \/ ThreadFails("BroadcastFailed")
    /\ UNCHANGED <<state, owner, failures, started, captureVars, wsVars, serverVars>>

\* Variant: wait() instead of wait_for().
AwaitSubscriptionForever ==
    /\ pc = "awaitSub"
    /\ subOpened
    /\ pc' = "startBroadcast"
    /\ UNCHANGED <<state, owner, reports, failures, started, captureVars, wsVars, serverVars>>

(* Five seconds for the subscription's first message. *)
AwaitSubscription ==
    /\ pc = "awaitSub"
    /\ \/ subOpened /\ pc' = "startBroadcast" /\ UNCHANGED reports
       \/ ~subOpened /\ ThreadFails("BroadcastFailed")
    /\ UNCHANGED <<state, owner, failures, started, captureVars, wsVars, serverVars>>

(* The StartBroadcast request.  On an error the code reports the failure and,
   having no return there, goes on to the transition to Live.  A payload that
   is not live and has no error is logged through an empty optional: undefined,
   the process survives it or dies.  Place "crashed" is its death: what the other
   threads do in the model from there on is of no consequence. *)
StartBroadcast ==
    /\ pc = "startBroadcast"
    /\ \/ pc' = "toLive" /\ stageLive' = TRUE /\ UNCHANGED reports
       \/ /\ Report("thread", "BroadcastFailed")
          /\ pc' = "toLive"
          /\ stageLive' \in BOOLEAN
       \/ pc' = "crashed" /\ UNCHANGED <<reports, stageLive>>
    /\ UNCHANGED <<state, owner, failures, started, captureVars, wsVars, feedAdded, stopSent>>

\* Variant: a plain store instead of the compare-and-swap.
ToLiveByStore ==
    /\ Goto("toLive", "loop")
    /\ state' = "Live"
    /\ UNCHANGED <<owner, reports, failures, started, captureVars, wsVars, serverVars>>

\* Variant: stopped before going live, the thread just returns.
ToLiveWithoutStopBroadcast ==
    /\ pc = "toLive"
    /\ \/ transitionState("Streaming", "Live") /\ pc' = "loop"
       \/ state # "Streaming" /\ UNCHANGED state /\ pc' = "done"
    /\ UNCHANGED <<owner, reports, failures, started, captureVars, wsVars, serverVars>>

(* If stop() came first, the stage just set live is taken down again. *)
ToLive ==
    /\ pc = "toLive"
    /\ \/ transitionState("Streaming", "Live") /\ pc' = "loop"
       \/ state # "Streaming" /\ UNCHANGED state /\ pc' = "stopBroadcast"
    /\ UNCHANGED <<owner, reports, failures, started, captureVars, wsVars, serverVars>>

-----------------------------------------------------------------------------
(* startHeartbeat: the loop.  Ticks that send nothing are left out. *)

LoopTest ==
    /\ pc = "loop"
    /\ pc' = IF state = "Live" THEN "beat" ELSE "loopEnd"
    /\ UNCHANGED <<state, owner, reports, failures, started, captureVars, wsVars, serverVars>>

(* An answered heartbeat clears the count and may carry a new quality. *)
HeartbeatAnswered ==
    /\ pc = "beat"
    /\ failures' = 0
    /\ pc' \in {"loop", "updateFeed"}
    /\ UNCHANGED <<state, owner, reports, started, captureVars, wsVars, serverVars>>

\* Variant: the loop is left without telling the Instance.
HeartbeatFailedSilently ==
    /\ pc = "beat"
    /\ failures' = failures + 1
    /\ pc' = IF failures' > MaxFailures THEN "loopEnd" ELSE "loop"
    /\ UNCHANGED <<state, owner, reports, started, captureVars, wsVars, serverVars>>

\* Variant: the loop goes on however many heartbeats fail.
HeartbeatFailedForgiving ==
    /\ pc = "beat"
    /\ failures' = failures + 1
    /\ pc' = "loop"
    /\ UNCHANGED <<state, owner, reports, started, captureVars, wsVars, serverVars>>

(* One failure more than MaxFailures in a row ends the loop. *)
HeartbeatFailed ==
    /\ pc = "beat"
    /\ failures' = failures + 1
    /\ IF failures' > MaxFailures
       THEN Report("thread", "Disconnected") /\ pc' = "loopEnd"
       ELSE pc' = "loop" /\ UNCHANGED reports
    /\ UNCHANGED <<state, owner, started, captureVars, wsVars, serverVars>>

\* Variant: a failed UpdateFeed ends the thread without a report.
UpdateFeedGivesUpSilently ==
    /\ pc = "updateFeed"
    /\ pc' \in {"loop", "done"}
    /\ UNCHANGED <<state, owner, reports, failures, started, captureVars, wsVars, serverVars>>

(* A heartbeat's answer of another shape throws on the thread: std::terminate. *)
HeartbeatThrows ==
    /\ Goto("beat", "crashed")
    /\ UNCHANGED <<state, owner, reports, failures, started, captureVars, wsVars, serverVars>>

(* A changed quality is sent with UpdateFeed; failing that ends the thread. *)
UpdateFeed ==
    /\ pc = "updateFeed"
    /\ \/ pc' = "loop" /\ UNCHANGED reports
       \/ ThreadFails("BroadcastFailed")
    /\ UNCHANGED <<state, owner, failures, started, captureVars, wsVars, serverVars>>

LoopEnd ==
    /\ pc = "loopEnd"
    /\ pc' = IF state = "Stopping" THEN "stopBroadcast" ELSE "done"
    /\ UNCHANGED <<state, owner, reports, failures, started, captureVars, wsVars, serverVars>>

(* The StopBroadcast request; its answer is ignored. *)
StopBroadcast ==
    /\ Goto("stopBroadcast", "done")
    /\ stopSent' = TRUE
    /\ stageLive' \in {FALSE, stageLive}
    /\ UNCHANGED <<state, owner, reports, failures, started, captureVars, wsVars, feedAdded>>

Thread ==
    \/ Subscribe \/ Negotiate \/ CreateFeed \/ AddFeed \/ ToStreaming \/ CallStarted
    \/ StartHeartbeat \/ AwaitScreenshot \/ SendScreenshot \/ AwaitSubscription
    \/ StartBroadcast \/ ToLive
    \/ LoopTest \/ HeartbeatAnswered \/ HeartbeatFailed \/ HeartbeatThrows
    \/ UpdateFeed \/ LoopEnd \/ StopBroadcast

-----------------------------------------------------------------------------
(* sendVideo, on a capture thread. *)

SendVideo(c) ==
    /\ cap[c] = "idle"
    /\ isOnline
    /\ cap' = [cap EXCEPT ![c] = "frame"]
    /\ UNCHANGED <<state, owner, reports, threadVars, screenshotNeeded, screenshot, wsVars,
                   serverVars>>

BadAspectRatio(c) ==
    /\ cap[c] = "frame"
    /\ cap' = [cap EXCEPT ![c] = "idle"]
    /\ Report("capture", "Aspect")
    /\ UNCHANGED <<state, owner, threadVars, screenshotNeeded, screenshot, wsVars, serverVars>>

(* The capturer dropped the frame, or the screenshot is already taken. *)
FrameDone(c) ==
    /\ cap[c] = "frame"
    /\ cap' = [cap EXCEPT ![c] = "idle"]
    /\ UNCHANGED <<state, owner, reports, threadVars, screenshotNeeded, screenshot, wsVars,
                   serverVars>>

\* Variant: the flag is tested here and cleared only once the promise is set.
ClaimByTest(c) ==
    /\ cap[c] = "frame"
    /\ screenshot = "pending"
    /\ cap' = [cap EXCEPT ![c] = "shooting"]
    /\ UNCHANGED <<state, owner, reports, threadVars, screenshotNeeded, screenshot, wsVars,
                   serverVars>>

(* isScreenshotNeeded.compare_exchange_strong(true, false) *)
ClaimScreenshot(c) ==
    /\ cap[c] = "frame"
    /\ screenshotNeeded
    /\ screenshotNeeded' = FALSE
    /\ cap' = [cap EXCEPT ![c] = "shooting"]
    /\ UNCHANGED <<state, owner, reports, threadVars, screenshot, wsVars, serverVars>>

(* The encoded screenshot, or what createScreenshot threw. *)
SetScreenshot(c) ==
    /\ cap[c] = "shooting"
    /\ cap' = [cap EXCEPT ![c] = "idle"]
    /\ screenshot' \in {"value", "exception"}
    /\ UNCHANGED <<state, owner, reports, threadVars, screenshotNeeded, wsVars, serverVars>>

Capture(c) ==
    \/ SendVideo(c) \/ BadAspectRatio(c) \/ FrameDone(c) \/ ClaimScreenshot(c)
    \/ SetScreenshot(c)

-----------------------------------------------------------------------------
(* messageHandler, on the websocket thread, and the ICE observer. *)

(* The subscription and the peer connection exist from here on. *)
Negotiates == pc \notin {"none", "unborn", "subscribe"}

(* A stage update: does it list our feed, and is the stage live?  Our feed
   gone while online is a takeover.  The second test reads `state' again. *)
StageUpdate(feedIsOnStage, live) ==
    /\ ws = "idle"
    /\ Negotiates
    /\ feedIsOnStage => feedAdded
    /\ LET opened == IF subState = "None" THEN "Open" ELSE subState
           next == CASE feedIsOnStage /\ live -> "StageHasGoneLive"
                     [] feedIsOnStage /\ ~live /\ opened = "Open" -> "FeedHasAppeared"
                     [] OTHER -> opened
           gone == ~feedIsOnStage /\ opened # "Open" /\ isOnline
       IN /\ subState' = next
          /\ ws' = CASE gone -> "Takeover"
                     [] ~gone /\ ~live /\ next = "StageHasGoneLive" -> "liveTest"
                     [] OTHER -> "idle"
    /\ subOpened' = (subOpened \/ subState = "None")
    /\ UNCHANGED <<state, owner, reports, threadVars, captureVars, serverVars>>

StageNotLive ==
    /\ ws = "liveTest"
    /\ ws' = IF state = "Live" THEN "Takeover" ELSE "idle"
    /\ UNCHANGED <<state, owner, reports, threadVars, captureVars, subState, subOpened, serverVars>>

SubscriptionErrors ==
    /\ ws = "idle"
    /\ Negotiates
    /\ ws' = "BroadcastFailed"
    /\ UNCHANGED <<state, owner, reports, threadVars, captureVars, subState, subOpened, serverVars>>

ReportFromSubscription ==
    /\ ws \in {"Takeover", "BroadcastFailed"}
    /\ Report("ws", ws)
    /\ ws' = "idle"
    /\ UNCHANGED <<state, owner, threadVars, captureVars, subState, subOpened, serverVars>>

Websocket ==
    \/ \E feedIsOnStage, live \in BOOLEAN : StageUpdate(feedIsOnStage, live)
    \/ StageNotLive \/ SubscriptionErrors \/ ReportFromSubscription

IceFailed ==
    /\ Negotiates
    /\ Report("ice", "BroadcastFailed")
    /\ UNCHANGED <<state, owner, threadVars, captureVars, wsVars, serverVars>>

-----------------------------------------------------------------------------
Next ==
    \/ start \/ StopBegin \/ StopJoin
    \/ Thread \/ Websocket \/ IceFailed
    \/ \E c \in Capturers : Capture(c)

(* The operating system schedules the threads; requests and the application's
   startedCallback return, and every wait of the thread has a timeout. *)
Fairness == WF_vars(Thread) /\ WF_vars(StopJoin)

Spec == Init /\ [][Next]_vars /\ Fairness
-----------------------------------------------------------------------------
(* Properties. *)

ThreadReported == \E r \in reports : r.by = "thread"

(* Type invariant of the object's fields, its threads' places and the server. *)
PlaceTypes ==
    /\ state \in States
    /\ owner \in {"idle", "running", "joining", "stopped"}
    /\ pc \in ThreadPlaces
    /\ failures \in 0 .. MaxFailures + 1
    /\ cap \in [Capturers -> {"idle", "frame", "shooting"}]
    /\ screenshot \in {"pending", "value", "exception"}
    /\ ws \in {"idle", "liveTest", "Takeover", "BroadcastFailed"}
    /\ subState \in {"None", "Open", "FeedHasAppeared", "StageHasGoneLive"}

FlagTypes ==
    /\ started \in BOOLEAN
    /\ screenshotNeeded \in BOOLEAN
    /\ subOpened \in BOOLEAN
    /\ feedAdded \in BOOLEAN
    /\ stageLive \in BOOLEAN
    /\ stopSent \in BOOLEAN

ReportTypes == reports \subseteq [by : Reporters, result : Results]

TypeOK == PlaceTypes /\ FlagTypes /\ ReportTypes

(* Live is reached only after AddFeed was carried out and with a screenshot for the
   lobby and an open subscription, which arrive from other threads.  It does not
   say that the feed is on the stage by then: the code learns that from stage updates
   alone, which report a takeover, and does not look before it goes Live. *)
LiveIsReady == state = "Live" => feedAdded /\ screenshot = "value" /\ subOpened

(* Whatever the number of capture threads in sendVideo, one of them sets the
   screenshot promise, once: a second set_value throws. *)
ScreenshotSetOnce ==
    \A c \in Capturers : cap[c] = "shooting" =>
        /\ screenshot = "pending"
        /\ \A d \in Capturers : cap[d] = "shooting" => d = c

(* While nobody asked it to stop, the thread ends only after reporting why: the
   application never has a broadcast that is dead and does not say so. *)
NoSilentExit == pc = "done" /\ owner = "running" => ThreadReported

(* A stage that was set live is signalled to end when stop() returns, wherever
   stop() caught the thread, unless the thread had reported a failure. *)
StopSignalsServer == owner = "stopped" /\ stageLive /\ ~ThreadReported => stopSent

(* The thread's transitions never undo a stop: from Stopping the broadcast can
   only go Offline, and from the Offline after it nowhere. *)
StopIsFinal ==
    [][/\ state = "Stopping" => state' \in {"Stopping", "Offline"}
       /\ owner = "stopped" => state' = "Offline"]_vars

(* When stop() has returned, the thread calls no startedCallback and sends the
   server nothing more. *)
QuietAfterStop == [][owner = "stopped" => UNCHANGED <<threadVars, serverVars>>]_vars

(* stop() returns, wherever the thread is: no wait of it is for ever. *)
StopReturns == owner = "joining" ~> (owner = "stopped" \/ pc = "crashed")

(* A started broadcast goes live or ends. *)
LiveOrEnds == pc = "subscribe" ~> (state = "Live" \/ pc \in {"done", "crashed"})

(* The refinement mapping to what the Instance is promised. *)
contractPhase ==
    CASE owner = "idle" -> "new"
      [] owner = "running" -> "running"
      [] owner = "joining" -> "stopping"
      [] owner = "stopped" -> "stopped"

contractAlive == pc \notin {"none", "unborn", "done"}

Contract == INSTANCE BroadcastContract WITH
    phase <- contractPhase,
    alive <- contractAlive,
    reported <- ThreadReported

(* The Broadcast object keeps its contract with the Instance. *)
ImplementsContract == Contract!Spec

(* The inductive invariant behind the safety properties.  `state' is what the
   owner last stored or, while nobody stopped the broadcast, what the thread's
   place says: a thread that ends by itself has reported, and one still negotiating
   has neither announced nor reported anything.  Then: the count of
   failed heartbeats, who may set the screenshot, what each place has already
   obtained, and where a thread with a live stage may be. *)
EarlyPlaces == Negotiating \cup {"subscribe", "feed", "addFeed", "toStreaming"}
GoingLivePlaces ==
    {"started", "heartbeat", "awaitShot", "sendShot", "awaitSub", "startBroadcast", "toLive"}
LoopPlaces == {"loop", "beat", "updateFeed", "loopEnd"}
LivePlaces == LoopPlaces \cup {"toLive", "stopBroadcast"}

PlaceMatchesState ==
    /\ owner = "idle" <=> pc = "none"
    /\ owner = "idle" => state = "Offline"
    /\ owner = "joining" => state = "Stopping"
    /\ owner = "stopped" => state = "Offline" /\ pc \in {"done", "unborn"}
    /\ owner = "running" =>
          /\ state \in {"Starting", "Streaming", "Live"}
          /\ pc \in EarlyPlaces \cup {"unborn"} => state = "Starting"
          /\ pc \in GoingLivePlaces => state = "Streaming"
          /\ pc \in LoopPlaces => state = "Live"
          /\ pc # "stopBroadcast"

EndsReported == owner = "running" /\ pc \in {"loopEnd", "done"} => ThreadReported

FirstNews ==
    /\ pc \in EarlyPlaces \cup {"none", "started"} => ~started
    /\ pc \in EarlyPlaces \cup {"none", "started", "heartbeat", "awaitShot", "sendShot", "awaitSub",
                               "startBroadcast"} => ~ThreadReported

FailuresBounded == failures > MaxFailures => pc \in {"loopEnd", "stopBroadcast", "done"}

ScreenshotFlag ==
    screenshotNeeded =>
        screenshot = "pending" /\ \A c \in Capturers : cap[c] # "shooting"

Obtained ==
    /\ pc \in {"remote", "gather", "trickle", "setRemote", "toStreaming"} \cup GoingLivePlaces
           => feedAdded
    /\ pc \in {"sendShot", "awaitSub", "startBroadcast", "toLive"} => screenshot = "value"
    /\ pc \in {"startBroadcast", "toLive"} => subOpened

LiveStageHandled == stageLive => pc \in LivePlaces \cup {"crashed"} \/ stopSent \/ ThreadReported

Coherent ==
    /\ TypeOK /\ PlaceMatchesState /\ EndsReported /\ FirstNews
    /\ FailuresBounded
    /\ ScreenshotFlag /\ ScreenshotSetOnce /\ Obtained /\ LiveIsReady /\ LiveStageHandled

(* What include/caffeine.h:105 says of the result: a broadcast reported as
   "failed to start" does not go live afterwards. *)
FailedToStartNeverLive ==
    [][[by |-> "thread", result |-> "BroadcastFailed"] \in reports
           => (state' = "Live" => state = "Live")]_vars

(* What include/caffeine.h:579 says of ending: the server is signalled. *)
EndSignalsServer == owner = "stopped" /\ stageLive => stopSent
=============================================================================
