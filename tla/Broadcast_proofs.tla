-------------------------- MODULE Broadcast_proofs --------------------------
(***************************************************************************)
(* Proofs about Broadcast for any set of capture threads and any           *)
(* MaxFailures: its type invariant, the inductive invariant Coherent that  *)
(* ties `state', the owner and the place of broadcastThread together, the  *)
(* safety properties that follow from it, and that Broadcast implements    *)
(* BroadcastContract.                                                      *)
(***************************************************************************)
EXTENDS Broadcast, TLAPS

(* A report of the thread counts, and stays. *)
LEMMA ThreadReports ==
    ASSUME NEW result, Report("thread", result) PROVE ThreadReported'
<1> DEFINE r == [by |-> "thread", result |-> result]
<1>1. r \in reports' /\ r.by = "thread"
  BY DEF Report
<1> HIDE DEF r
<1> QED
  BY <1>1 DEF ThreadReported

(* A report of anyone else is none of the thread. *)
LEMMA OthersReport ==
    ASSUME NEW by, NEW result, by # "thread", Report(by, result)
    PROVE  ThreadReported' <=> ThreadReported
<1> DEFINE r == [by |-> by, result |-> result]
<1>1. reports' = reports \cup {r} /\ r.by # "thread"
  BY DEF Report
<1> HIDE DEF r
<1> QED
  BY <1>1 DEF ThreadReported

LEMMA NobodyReports == ASSUME UNCHANGED reports PROVE ThreadReported' <=> ThreadReported
BY DEF ThreadReported

(* The places of the threads and the fields that are not flags. *)
LEMMA PlaceTypesInductive ==
    ASSUME PlaceTypes, FailuresBounded, [Next]_vars
    PROVE  PlaceTypes'
<1> USE BroadcastAssumption DEF BroadcastAssumption, PlaceTypes,
      FailuresBounded, States, ThreadPlaces, Negotiating, AfterNegotiation, transitionState, Goto, ThreadFails,
      threadVars, captureVars, wsVars, serverVars
<1>1. CASE start \/ StopBegin \/ StopJoin
  BY <1>1 DEF start, StopBegin, StopJoin
<1>2. CASE Subscribe \/ Negotiate \/ CreateFeed \/ AddFeed
  BY <1>2 DEF Subscribe, Negotiate, CreateFeed, AddFeed
<1>3. CASE ToStreaming \/ CallStarted \/ StartHeartbeat
  BY <1>3 DEF ToStreaming, CallStarted, StartHeartbeat
<1>4. CASE AwaitScreenshot \/ SendScreenshot
  BY <1>4 DEF AwaitScreenshot, SendScreenshot
<1>5. CASE AwaitSubscription \/ StartBroadcast \/ ToLive
  <2>1. CASE AwaitSubscription
    BY <2>1 DEF AwaitSubscription
  <2>2. CASE StartBroadcast
    BY <2>2 DEF StartBroadcast
  <2>3. CASE ToLive
    BY <2>3 DEF ToLive
  <2> QED
    BY <1>5, <2>1, <2>2, <2>3
<1>6. CASE LoopTest \/ HeartbeatThrows \/ UpdateFeed \/ LoopEnd \/ StopBroadcast
  <2>1. CASE LoopTest \/ HeartbeatThrows
    BY <2>1 DEF LoopTest, HeartbeatThrows
  <2>2. CASE UpdateFeed
    BY <2>2 DEF UpdateFeed
  <2>3. CASE LoopEnd \/ StopBroadcast
    BY <2>3 DEF LoopEnd, StopBroadcast
  <2> QED
    BY <1>6, <2>1, <2>2, <2>3
<1>7. CASE HeartbeatAnswered
  BY <1>7 DEF HeartbeatAnswered
<1>8. CASE HeartbeatFailed
  BY <1>8 DEF HeartbeatFailed
<1>9. CASE Websocket \/ IceFailed
  BY <1>9 DEF Websocket, StageUpdate, StageNotLive, SubscriptionErrors, ReportFromSubscription, IceFailed
<1>10. ASSUME NEW c \in Capturers, Capture(c) PROVE PlaceTypes'
  BY <1>10 DEF Capture, SendVideo, BadAspectRatio, FrameDone, ClaimScreenshot, SetScreenshot
<1>11. CASE UNCHANGED vars
  BY <1>11 DEF vars
<1> QED
  BY <1>1, <1>2, <1>3, <1>4, <1>5, <1>6, <1>7, <1>8, <1>9, <1>10, <1>11 DEF Next, Thread

(* The flags. *)
LEMMA FlagTypesInductive ==
    ASSUME FlagTypes, [Next]_vars
    PROVE  FlagTypes'
<1> USE DEF FlagTypes, transitionState, Goto, threadVars, captureVars, wsVars, serverVars
<1>1. CASE start \/ StopBegin \/ StopJoin
  BY <1>1 DEF start, StopBegin, StopJoin
<1>2. CASE Subscribe \/ Negotiate \/ CreateFeed \/ AddFeed
  BY <1>2 DEF Subscribe, Negotiate, CreateFeed, AddFeed
<1>3. CASE ToStreaming \/ CallStarted \/ StartHeartbeat
  BY <1>3 DEF ToStreaming, CallStarted, StartHeartbeat
<1>4. CASE AwaitScreenshot \/ SendScreenshot
  BY <1>4 DEF AwaitScreenshot, SendScreenshot
<1>5. CASE AwaitSubscription \/ StartBroadcast \/ ToLive
  BY <1>5 DEF AwaitSubscription, StartBroadcast, ToLive
<1>6. CASE LoopTest \/ HeartbeatAnswered \/ HeartbeatThrows \/ UpdateFeed \/ LoopEnd \/ StopBroadcast
  <2>1. CASE LoopTest \/ LoopEnd \/ StopBroadcast
    BY <2>1 DEF LoopTest, LoopEnd, StopBroadcast
  <2>2. CASE HeartbeatAnswered
    BY <2>2 DEF HeartbeatAnswered
  <2>3. CASE HeartbeatThrows
    BY <2>3 DEF HeartbeatThrows
  <2>4. CASE UpdateFeed
    BY <2>4 DEF UpdateFeed
  <2> QED
    BY <1>6, <2>1, <2>2, <2>3, <2>4
<1>7. CASE HeartbeatFailed
  <2>1. UNCHANGED <<started, captureVars, wsVars, serverVars>>
    BY <1>7 DEF HeartbeatFailed
  <2> QED
    BY <2>1
<1>8. CASE Websocket \/ IceFailed
  <2>1. ASSUME NEW feedIsOnStage \in BOOLEAN, NEW live \in BOOLEAN, StageUpdate(feedIsOnStage, live)
        PROVE  FlagTypes'
    <3>1. /\ UNCHANGED <<started, captureVars, serverVars>>
          /\ subOpened' = (subOpened \/ subState = "None")
      BY <2>1 DEF StageUpdate
    <3> QED
      BY <3>1
  <2>2. CASE StageNotLive \/ SubscriptionErrors
    BY <2>2 DEF StageNotLive, SubscriptionErrors
  <2>3. CASE ReportFromSubscription \/ IceFailed
    BY <2>3 DEF ReportFromSubscription, IceFailed
  <2> QED
    BY <1>8, <2>1, <2>2, <2>3 DEF Websocket
<1>9. ASSUME NEW c \in Capturers, Capture(c) PROVE FlagTypes'
  BY <1>9 DEF Capture, SendVideo, BadAspectRatio, FrameDone, ClaimScreenshot, SetScreenshot
<1>10. CASE UNCHANGED vars
  BY <1>10 DEF vars
<1> QED
  BY <1>1, <1>2, <1>3, <1>4, <1>5, <1>6, <1>7, <1>8, <1>9, <1>10 DEF Next, Thread

(* Every report is by a known reporter, with a known result. *)
LEMMA ReportTypesInductive ==
    ASSUME PlaceTypes, ReportTypes, [Next]_vars
    PROVE  ReportTypes'
<1> USE DEF ReportTypes, Report, ThreadFails, Reporters, Results, threadVars, captureVars,
      wsVars, serverVars
<1>1. CASE start
  BY <1>1 DEF start
<1>2. CASE StopBegin \/ StopJoin
  BY <1>2 DEF StopBegin, StopJoin
<1>3. CASE Subscribe \/ Negotiate \/ CreateFeed \/ AddFeed
  BY <1>3 DEF Subscribe, Negotiate, CreateFeed, AddFeed
<1>4. CASE ToStreaming \/ CallStarted \/ StartHeartbeat
  BY <1>4 DEF ToStreaming, CallStarted, StartHeartbeat
<1>5. CASE AwaitScreenshot \/ SendScreenshot
  BY <1>5 DEF AwaitScreenshot, SendScreenshot
<1>6. CASE AwaitSubscription \/ StartBroadcast \/ ToLive
  BY <1>6 DEF AwaitSubscription, StartBroadcast, ToLive
<1>7. CASE LoopTest \/ HeartbeatThrows
  BY <1>7 DEF LoopTest, HeartbeatThrows
<1>8. CASE LoopEnd
  BY <1>8 DEF LoopEnd
<1>9. CASE StopBroadcast
  BY <1>9 DEF StopBroadcast
<1>10. CASE HeartbeatAnswered
  BY <1>10 DEF HeartbeatAnswered
<1>11. CASE UpdateFeed
  BY <1>11 DEF UpdateFeed
<1>12. CASE HeartbeatFailed
  BY <1>12 DEF HeartbeatFailed
<1>13. CASE Websocket \/ IceFailed
  BY <1>13 DEF Websocket, StageUpdate, StageNotLive, SubscriptionErrors, ReportFromSubscription, IceFailed
<1>14. ASSUME NEW c \in Capturers, Capture(c) PROVE ReportTypes'
  BY <1>14 DEF Capture, SendVideo, BadAspectRatio, FrameDone, ClaimScreenshot, SetScreenshot
<1>15. CASE UNCHANGED vars
  BY <1>15 DEF vars
<1> QED
  BY <1>1, <1>2, <1>3, <1>4, <1>5, <1>6, <1>7, <1>8, <1>9, <1>10, <1>11, <1>12, <1>13, <1>14, <1>15 DEF Next, Thread

(* The compare-and-swaps keep `state' and the thread's place together. *)
LEMMA PlaceMatchesStateInductive ==
    ASSUME PlaceTypes, PlaceMatchesState, [Next]_vars
    PROVE  PlaceMatchesState'
<1> USE DEF PlaceTypes, States, PlaceMatchesState, EarlyPlaces,
      GoingLivePlaces, LoopPlaces, Negotiating, AfterNegotiation, transitionState, Goto, ThreadFails,
      threadVars, captureVars, wsVars, serverVars
<1>1. CASE start
  BY <1>1 DEF start
<1>2. CASE StopBegin \/ StopJoin
  BY <1>2 DEF StopBegin, StopJoin
<1>3. CASE Subscribe \/ Negotiate \/ CreateFeed \/ AddFeed
  BY <1>3 DEF Subscribe, Negotiate, CreateFeed, AddFeed
<1>4. CASE ToStreaming \/ CallStarted \/ StartHeartbeat
  BY <1>4 DEF ToStreaming, CallStarted, StartHeartbeat
<1>5. CASE AwaitScreenshot \/ SendScreenshot
  BY <1>5 DEF AwaitScreenshot, SendScreenshot
<1>6. CASE AwaitSubscription \/ StartBroadcast \/ ToLive
  BY <1>6 DEF AwaitSubscription, StartBroadcast, ToLive
<1>7. CASE LoopTest \/ HeartbeatThrows
  BY <1>7 DEF LoopTest, HeartbeatThrows
<1>8. CASE LoopEnd
  BY <1>8 DEF LoopEnd
<1>9. CASE StopBroadcast
  BY <1>9 DEF StopBroadcast
<1>10. CASE HeartbeatAnswered
  BY <1>10 DEF HeartbeatAnswered
<1>11. CASE UpdateFeed
  BY <1>11 DEF UpdateFeed
<1>12. CASE HeartbeatFailed
  BY <1>12 DEF HeartbeatFailed
<1>13. CASE Websocket \/ IceFailed
  BY <1>13 DEF Websocket, StageUpdate, StageNotLive, SubscriptionErrors, ReportFromSubscription, IceFailed
<1>14. ASSUME NEW c \in Capturers, Capture(c) PROVE PlaceMatchesState'
  BY <1>14 DEF Capture, SendVideo, BadAspectRatio, FrameDone, ClaimScreenshot, SetScreenshot
<1>15. CASE UNCHANGED vars
  BY <1>15 DEF vars
<1> QED
  BY <1>1, <1>2, <1>3, <1>4, <1>5, <1>6, <1>7, <1>8, <1>9, <1>10, <1>11, <1>12, <1>13, <1>14, <1>15 DEF Next, Thread

(* Failed heartbeats beyond the bound only on the way out. *)
LEMMA FailuresBoundedInductive ==
    ASSUME PlaceTypes, PlaceMatchesState, FailuresBounded, [Next]_vars
    PROVE  FailuresBounded'
<1> USE BroadcastAssumption DEF BroadcastAssumption, PlaceTypes, FailuresBounded,
      PlaceMatchesState,
      Negotiating, AfterNegotiation, transitionState, Goto, ThreadFails,
      threadVars, captureVars, wsVars, serverVars
<1>1. CASE start
  BY <1>1 DEF start
<1>2. CASE StopBegin \/ StopJoin
  BY <1>2 DEF StopBegin, StopJoin
<1>3. CASE Subscribe \/ Negotiate \/ CreateFeed \/ AddFeed
  BY <1>3 DEF Subscribe, Negotiate, CreateFeed, AddFeed
<1>4. CASE ToStreaming \/ CallStarted \/ StartHeartbeat
  BY <1>4 DEF ToStreaming, CallStarted, StartHeartbeat
<1>5. CASE AwaitScreenshot \/ SendScreenshot
  BY <1>5 DEF AwaitScreenshot, SendScreenshot
<1>6. CASE AwaitSubscription \/ StartBroadcast \/ ToLive
  BY <1>6 DEF AwaitSubscription, StartBroadcast, ToLive
<1>7. CASE LoopTest \/ HeartbeatThrows
  BY <1>7 DEF LoopTest, HeartbeatThrows
<1>8. CASE LoopEnd
  BY <1>8 DEF LoopEnd
<1>9. CASE StopBroadcast
  BY <1>9 DEF StopBroadcast
<1>10. CASE HeartbeatAnswered
  BY <1>10 DEF HeartbeatAnswered
<1>11. CASE UpdateFeed
  BY <1>11 DEF UpdateFeed
<1>12. CASE HeartbeatFailed
  BY <1>12 DEF HeartbeatFailed
<1>13. CASE Websocket \/ IceFailed
  BY <1>13 DEF Websocket, StageUpdate, StageNotLive, SubscriptionErrors, ReportFromSubscription, IceFailed
<1>14. ASSUME NEW c \in Capturers, Capture(c) PROVE FailuresBounded'
  BY <1>14 DEF Capture, SendVideo, BadAspectRatio, FrameDone, ClaimScreenshot, SetScreenshot
<1>15. CASE UNCHANGED vars
  BY <1>15 DEF vars
<1> QED
  BY <1>1, <1>2, <1>3, <1>4, <1>5, <1>6, <1>7, <1>8, <1>9, <1>10, <1>11, <1>12, <1>13, <1>14, <1>15 DEF Next, Thread

(* A thread that ends by itself has reported. *)
LEMMA EndsReportedInductive ==
    ASSUME PlaceTypes, PlaceMatchesState, EndsReported, [Next]_vars
    PROVE  EndsReported'
<1> USE ThreadReports, OthersReport, NobodyReports
      DEF PlaceTypes, States, EndsReported, PlaceMatchesState, EarlyPlaces,
      GoingLivePlaces, LoopPlaces, Negotiating, AfterNegotiation, transitionState, Goto, ThreadFails,
      threadVars, captureVars, wsVars, serverVars
<1>1. CASE start
  BY <1>1 DEF start
<1>2. CASE StopBegin \/ StopJoin
  BY <1>2 DEF StopBegin, StopJoin
<1>3. CASE Subscribe \/ Negotiate \/ CreateFeed \/ AddFeed
  BY <1>3 DEF Subscribe, Negotiate, CreateFeed, AddFeed
<1>4. CASE ToStreaming \/ CallStarted \/ StartHeartbeat
  BY <1>4 DEF ToStreaming, CallStarted, StartHeartbeat
<1>5. CASE AwaitScreenshot \/ SendScreenshot
  BY <1>5 DEF AwaitScreenshot, SendScreenshot
<1>6. CASE AwaitSubscription \/ StartBroadcast \/ ToLive
  BY <1>6 DEF AwaitSubscription, StartBroadcast, ToLive
<1>7. CASE LoopTest \/ HeartbeatThrows
  BY <1>7 DEF LoopTest, HeartbeatThrows
<1>8. CASE LoopEnd
  BY <1>8 DEF LoopEnd
<1>9. CASE StopBroadcast
  BY <1>9 DEF StopBroadcast
<1>10. CASE HeartbeatAnswered
  BY <1>10 DEF HeartbeatAnswered
<1>11. CASE UpdateFeed
  BY <1>11 DEF UpdateFeed
<1>12. CASE HeartbeatFailed
  BY <1>12 DEF HeartbeatFailed
<1>13. CASE Websocket \/ IceFailed
  BY <1>13 DEF Websocket, StageUpdate, StageNotLive, SubscriptionErrors, ReportFromSubscription, IceFailed
<1>14. ASSUME NEW c \in Capturers, Capture(c) PROVE EndsReported'
  BY <1>14 DEF Capture, SendVideo, BadAspectRatio, FrameDone, ClaimScreenshot, SetScreenshot
<1>15. CASE UNCHANGED vars
  BY <1>15 DEF vars
<1> QED
  BY <1>1, <1>2, <1>3, <1>4, <1>5, <1>6, <1>7, <1>8, <1>9, <1>10, <1>11, <1>12, <1>13, <1>14, <1>15 DEF Next, Thread

(* The claim on the screenshot. *)
LEMMA ScreenshotInductive ==
    ASSUME PlaceTypes, ScreenshotFlag, ScreenshotSetOnce, [Next]_vars
    PROVE  (ScreenshotFlag /\ ScreenshotSetOnce)'
<1> USE DEF PlaceTypes, ScreenshotFlag, ScreenshotSetOnce,
      transitionState, Goto, ThreadFails,
      threadVars, captureVars, wsVars, serverVars
<1>1. CASE start
  BY <1>1 DEF start
<1>2. CASE StopBegin \/ StopJoin
  BY <1>2 DEF StopBegin, StopJoin
<1>3. CASE Subscribe \/ Negotiate \/ CreateFeed \/ AddFeed
  BY <1>3 DEF Subscribe, Negotiate, CreateFeed, AddFeed
<1>4. CASE ToStreaming \/ CallStarted \/ StartHeartbeat
  BY <1>4 DEF ToStreaming, CallStarted, StartHeartbeat
<1>5. CASE AwaitScreenshot \/ SendScreenshot
  BY <1>5 DEF AwaitScreenshot, SendScreenshot
<1>6. CASE AwaitSubscription \/ StartBroadcast \/ ToLive
  BY <1>6 DEF AwaitSubscription, StartBroadcast, ToLive
<1>7. CASE LoopTest \/ HeartbeatThrows
  BY <1>7 DEF LoopTest, HeartbeatThrows
<1>8. CASE LoopEnd
  BY <1>8 DEF LoopEnd
<1>9. CASE StopBroadcast
  BY <1>9 DEF StopBroadcast
<1>10. CASE HeartbeatAnswered
  BY <1>10 DEF HeartbeatAnswered
<1>11. CASE UpdateFeed
  BY <1>11 DEF UpdateFeed
<1>12. CASE HeartbeatFailed
  BY <1>12 DEF HeartbeatFailed
<1>13. CASE Websocket \/ IceFailed
  BY <1>13 DEF Websocket, StageUpdate, StageNotLive, SubscriptionErrors, ReportFromSubscription, IceFailed
<1>14. ASSUME NEW c \in Capturers, Capture(c) PROVE (ScreenshotFlag /\ ScreenshotSetOnce)'
  BY <1>14 DEF Capture, SendVideo, BadAspectRatio, FrameDone, ClaimScreenshot, SetScreenshot
<1>15. CASE UNCHANGED vars
  BY <1>15 DEF vars
<1> QED
  BY <1>1, <1>2, <1>3, <1>4, <1>5, <1>6, <1>7, <1>8, <1>9, <1>10, <1>11, <1>12, <1>13, <1>14, <1>15 DEF Next, Thread

(* What each place has obtained stays obtained. *)
LEMMA ObtainedInductive ==
    ASSUME PlaceTypes, PlaceMatchesState, ScreenshotSetOnce, Obtained, [Next]_vars
    PROVE  Obtained'
<1> USE DEF PlaceTypes, ScreenshotSetOnce, Obtained,
      GoingLivePlaces, Negotiating, AfterNegotiation, transitionState, Goto, ThreadFails,
      threadVars, captureVars, wsVars, serverVars
<1>1. CASE start
  BY <1>1 DEF start
<1>2. CASE StopBegin \/ StopJoin
  BY <1>2 DEF StopBegin, StopJoin
<1>3. CASE Subscribe \/ Negotiate \/ CreateFeed \/ AddFeed
  BY <1>3 DEF Subscribe, Negotiate, CreateFeed, AddFeed
<1>4. CASE ToStreaming \/ CallStarted \/ StartHeartbeat
  BY <1>4 DEF ToStreaming, CallStarted, StartHeartbeat
<1>5. CASE AwaitScreenshot \/ SendScreenshot
  BY <1>5 DEF AwaitScreenshot, SendScreenshot
<1>6. CASE AwaitSubscription \/ StartBroadcast \/ ToLive
  BY <1>6 DEF AwaitSubscription, StartBroadcast, ToLive
<1>7. CASE LoopTest \/ HeartbeatThrows
  BY <1>7 DEF LoopTest, HeartbeatThrows
<1>8. CASE LoopEnd
  BY <1>8 DEF LoopEnd
<1>9. CASE StopBroadcast
  BY <1>9 DEF StopBroadcast
<1>10. CASE HeartbeatAnswered
  BY <1>10 DEF HeartbeatAnswered
<1>11. CASE UpdateFeed
  BY <1>11 DEF UpdateFeed
<1>12. CASE HeartbeatFailed
  BY <1>12 DEF HeartbeatFailed
<1>13. CASE Websocket \/ IceFailed
  BY <1>13 DEF Websocket, StageUpdate, StageNotLive, SubscriptionErrors, ReportFromSubscription, IceFailed
<1>14. ASSUME NEW c \in Capturers, Capture(c) PROVE Obtained'
  BY <1>14 DEF Capture, SendVideo, BadAspectRatio, FrameDone, ClaimScreenshot, SetScreenshot
<1>15. CASE UNCHANGED vars
  BY <1>15 DEF vars
<1> QED
  BY <1>1, <1>2, <1>3, <1>4, <1>5, <1>6, <1>7, <1>8, <1>9, <1>10, <1>11, <1>12, <1>13, <1>14, <1>15 DEF Next, Thread

(* A live stage is on the way to StopBroadcast, or the thread reported. *)
LEMMA LiveStageHandledInductive ==
    ASSUME PlaceTypes, PlaceMatchesState, EndsReported, LiveStageHandled, [Next]_vars
    PROVE  LiveStageHandled'
<1> USE ThreadReports, OthersReport, NobodyReports
      DEF PlaceTypes, States, EndsReported, LiveStageHandled, LivePlaces, PlaceMatchesState, EarlyPlaces,
      GoingLivePlaces, LoopPlaces, Negotiating, AfterNegotiation, transitionState, Goto, ThreadFails,
      threadVars, captureVars, wsVars, serverVars
<1>1. CASE start
  BY <1>1 DEF start
<1>2. CASE StopBegin \/ StopJoin
  BY <1>2 DEF StopBegin, StopJoin
<1>3. CASE Subscribe \/ Negotiate \/ CreateFeed \/ AddFeed
  BY <1>3 DEF Subscribe, Negotiate, CreateFeed, AddFeed
<1>4. CASE ToStreaming \/ CallStarted \/ StartHeartbeat
  BY <1>4 DEF ToStreaming, CallStarted, StartHeartbeat
<1>5. CASE AwaitScreenshot \/ SendScreenshot
  BY <1>5 DEF AwaitScreenshot, SendScreenshot
<1>6. CASE AwaitSubscription \/ StartBroadcast \/ ToLive
  BY <1>6 DEF AwaitSubscription, StartBroadcast, ToLive
<1>7. CASE LoopTest \/ HeartbeatThrows
  BY <1>7 DEF LoopTest, HeartbeatThrows
<1>8. CASE LoopEnd
  BY <1>8 DEF LoopEnd
<1>9. CASE StopBroadcast
  BY <1>9 DEF StopBroadcast
<1>10. CASE HeartbeatAnswered
  BY <1>10 DEF HeartbeatAnswered
<1>11. CASE UpdateFeed
  BY <1>11 DEF UpdateFeed
<1>12. CASE HeartbeatFailed
  BY <1>12 DEF HeartbeatFailed
<1>13. CASE Websocket \/ IceFailed
  BY <1>13 DEF Websocket, StageUpdate, StageNotLive, SubscriptionErrors, ReportFromSubscription, IceFailed
<1>14. ASSUME NEW c \in Capturers, Capture(c) PROVE LiveStageHandled'
  BY <1>14 DEF Capture, SendVideo, BadAspectRatio, FrameDone, ClaimScreenshot, SetScreenshot
<1>15. CASE UNCHANGED vars
  BY <1>15 DEF vars
<1> QED
  BY <1>1, <1>2, <1>3, <1>4, <1>5, <1>6, <1>7, <1>8, <1>9, <1>10, <1>11, <1>12, <1>13, <1>14, <1>15 DEF Next, Thread

(* Live needs the feed, the screenshot and the subscription. *)
LEMMA LiveIsReadyInductive ==
    ASSUME PlaceTypes, PlaceMatchesState, ScreenshotSetOnce, Obtained, LiveIsReady, [Next]_vars
    PROVE  LiveIsReady'
<1> USE DEF PlaceTypes, States, ScreenshotSetOnce, Obtained,
      LiveIsReady, PlaceMatchesState, EarlyPlaces,
      GoingLivePlaces, LoopPlaces, Negotiating, AfterNegotiation, transitionState, Goto, ThreadFails,
      threadVars, captureVars, wsVars, serverVars
<1>1. CASE start
  BY <1>1 DEF start
<1>2. CASE StopBegin \/ StopJoin
  BY <1>2 DEF StopBegin, StopJoin
<1>3. CASE Subscribe \/ Negotiate \/ CreateFeed \/ AddFeed
  BY <1>3 DEF Subscribe, Negotiate, CreateFeed, AddFeed
<1>4. CASE ToStreaming \/ CallStarted \/ StartHeartbeat
  BY <1>4 DEF ToStreaming, CallStarted, StartHeartbeat
<1>5. CASE AwaitScreenshot \/ SendScreenshot
  BY <1>5 DEF AwaitScreenshot, SendScreenshot
<1>6. CASE AwaitSubscription \/ StartBroadcast \/ ToLive
  BY <1>6 DEF AwaitSubscription, StartBroadcast, ToLive
<1>7. CASE LoopTest \/ HeartbeatThrows
  BY <1>7 DEF LoopTest, HeartbeatThrows
<1>8. CASE LoopEnd
  BY <1>8 DEF LoopEnd
<1>9. CASE StopBroadcast
  BY <1>9 DEF StopBroadcast
<1>10. CASE HeartbeatAnswered
  BY <1>10 DEF HeartbeatAnswered
<1>11. CASE UpdateFeed
  BY <1>11 DEF UpdateFeed
<1>12. CASE HeartbeatFailed
  BY <1>12 DEF HeartbeatFailed
<1>13. CASE Websocket \/ IceFailed
  BY <1>13 DEF Websocket, StageUpdate, StageNotLive, SubscriptionErrors, ReportFromSubscription, IceFailed
<1>14. ASSUME NEW c \in Capturers, Capture(c) PROVE LiveIsReady'
  BY <1>14 DEF Capture, SendVideo, BadAspectRatio, FrameDone, ClaimScreenshot, SetScreenshot
<1>15. CASE UNCHANGED vars
  BY <1>15 DEF vars
<1> QED
  BY <1>1, <1>2, <1>3, <1>4, <1>5, <1>6, <1>7, <1>8, <1>9, <1>10, <1>11, <1>12, <1>13, <1>14, <1>15 DEF Next, Thread

(* The first news of the thread is still to come. *)
LEMMA FirstNewsInductive ==
    ASSUME PlaceTypes, PlaceMatchesState, FlagTypes, FirstNews, [Next]_vars
    PROVE  FirstNews'
<1> USE OthersReport, NobodyReports
      DEF PlaceTypes, FlagTypes, FirstNews, PlaceMatchesState, EarlyPlaces, Negotiating, AfterNegotiation, transitionState, Goto, ThreadFails,
      threadVars, captureVars, wsVars, serverVars
<1>1. CASE start
  BY <1>1 DEF start
<1>2. CASE StopBegin \/ StopJoin
  BY <1>2 DEF StopBegin, StopJoin
<1>3. CASE Subscribe \/ Negotiate \/ CreateFeed \/ AddFeed
  BY <1>3 DEF Subscribe, Negotiate, CreateFeed, AddFeed
<1>4. CASE ToStreaming \/ CallStarted \/ StartHeartbeat
  BY <1>4 DEF ToStreaming, CallStarted, StartHeartbeat
<1>5. CASE AwaitScreenshot \/ SendScreenshot
  BY <1>5 DEF AwaitScreenshot, SendScreenshot
<1>6. CASE AwaitSubscription \/ StartBroadcast \/ ToLive
  BY <1>6 DEF AwaitSubscription, StartBroadcast, ToLive
<1>7. CASE LoopTest \/ HeartbeatThrows
  BY <1>7 DEF LoopTest, HeartbeatThrows
<1>8. CASE LoopEnd
  BY <1>8 DEF LoopEnd
<1>9. CASE StopBroadcast
  BY <1>9 DEF StopBroadcast
<1>10. CASE HeartbeatAnswered
  BY <1>10 DEF HeartbeatAnswered
<1>11. CASE UpdateFeed
  BY <1>11 DEF UpdateFeed
<1>12. CASE HeartbeatFailed
  BY <1>12 DEF HeartbeatFailed
<1>13. CASE Websocket \/ IceFailed
  BY <1>13 DEF Websocket, StageUpdate, StageNotLive, SubscriptionErrors, ReportFromSubscription, IceFailed
<1>14. ASSUME NEW c \in Capturers, Capture(c) PROVE FirstNews'
  BY <1>14 DEF Capture, SendVideo, BadAspectRatio, FrameDone, ClaimScreenshot, SetScreenshot
<1>15. CASE UNCHANGED vars
  BY <1>15 DEF vars
<1> QED
  BY <1>1, <1>2, <1>3, <1>4, <1>5, <1>6, <1>7, <1>8, <1>9, <1>10, <1>11, <1>12, <1>13, <1>14, <1>15 DEF Next, Thread

(* Coherent holds at the start and every step keeps it. *)
THEOREM CoherentAlways == Spec => []Coherent
<1>1. Init => PlaceTypes
  BY BroadcastAssumption
     DEF BroadcastAssumption, Init, PlaceTypes, States, ThreadPlaces, Negotiating
<1>2. Init => FlagTypes /\ ReportTypes
  BY DEF Init, FlagTypes, ReportTypes
<1>3. Init => PlaceMatchesState /\ EndsReported
  BY DEF Init, PlaceMatchesState, EndsReported, EarlyPlaces, GoingLivePlaces, LoopPlaces
<1>10. Init => FirstNews
  BY DEF Init, FirstNews, ThreadReported
<1>4. Init => FailuresBounded
  BY BroadcastAssumption DEF BroadcastAssumption, Init, FailuresBounded
<1>5. Init => ScreenshotFlag /\ ScreenshotSetOnce
  BY DEF Init, ScreenshotFlag, ScreenshotSetOnce
<1>6. Init => Obtained
  BY DEF Init, Obtained, GoingLivePlaces
<1>7. Init => LiveIsReady /\ LiveStageHandled
  BY DEF Init, LiveIsReady, LiveStageHandled
<1>8. Init => Coherent
  BY <1>1, <1>2, <1>3, <1>4, <1>5, <1>6, <1>7, <1>10 DEF Coherent, TypeOK
<1>9. Coherent /\ [Next]_vars => Coherent'
  BY PlaceTypesInductive, FlagTypesInductive, ReportTypesInductive, PlaceMatchesStateInductive,
     EndsReportedInductive, FirstNewsInductive, FailuresBoundedInductive, ScreenshotInductive, ObtainedInductive,
     LiveIsReadyInductive, LiveStageHandledInductive
  DEF Coherent, TypeOK
<1> QED
  BY <1>8, <1>9, PTL DEF Spec

(* TypeOK, for every number of capture threads and tolerated heartbeats. *)
THEOREM TypeCorrect == Spec => []TypeOK
BY CoherentAlways, PTL DEF Coherent

(* The thread of a broadcast nobody stopped never ends without a report. *)
THEOREM NeverSilent == Spec => []NoSilentExit
<1>1. Coherent => NoSilentExit
  BY DEF Coherent, EndsReported, NoSilentExit
<1> QED
  BY <1>1, CoherentAlways, PTL

(* Live implies feed, screenshot and subscription. *)
THEOREM LiveReady == Spec => []LiveIsReady
BY CoherentAlways, PTL DEF Coherent

(* The screenshot promise is set at most once, by any number of threads. *)
THEOREM ScreenshotOnce == Spec => []ScreenshotSetOnce
BY CoherentAlways, PTL DEF Coherent

(* A live stage is signalled to end by the time stop() has returned. *)
THEOREM ServerSignalled == Spec => []StopSignalsServer
<1>1. Coherent => StopSignalsServer
  BY DEF Coherent, PlaceMatchesState, LiveStageHandled, LivePlaces, LoopPlaces,
     StopSignalsServer
<1> QED
  BY <1>1, CoherentAlways, PTL

(* No step undoes a stop. *)
LEMMA StopIsFinalStep ==
    ASSUME PlaceTypes, PlaceMatchesState, [Next]_vars
    PROVE  (state = "Stopping" => state' \in {"Stopping", "Offline"}) /\ (owner = "stopped" => state' = "Offline")
<1> USE DEF PlaceMatchesState, Negotiating, transitionState, Goto, ThreadFails,
      threadVars, captureVars, wsVars, serverVars
<1>1. CASE start
  BY <1>1 DEF start
<1>2. CASE StopBegin \/ StopJoin
  BY <1>2 DEF StopBegin, StopJoin
<1>3. CASE Subscribe \/ Negotiate \/ CreateFeed \/ AddFeed
  BY <1>3 DEF Subscribe, Negotiate, CreateFeed, AddFeed
<1>4. CASE ToStreaming \/ CallStarted \/ StartHeartbeat
  BY <1>4 DEF ToStreaming, CallStarted, StartHeartbeat
<1>5. CASE AwaitScreenshot \/ SendScreenshot
  BY <1>5 DEF AwaitScreenshot, SendScreenshot
<1>6. CASE AwaitSubscription \/ StartBroadcast \/ ToLive
  BY <1>6 DEF AwaitSubscription, StartBroadcast, ToLive
<1>7. CASE LoopTest \/ HeartbeatThrows
  BY <1>7 DEF LoopTest, HeartbeatThrows
<1>8. CASE LoopEnd
  BY <1>8 DEF LoopEnd
<1>9. CASE StopBroadcast
  BY <1>9 DEF StopBroadcast
<1>10. CASE HeartbeatAnswered
  BY <1>10 DEF HeartbeatAnswered
<1>11. CASE UpdateFeed
  BY <1>11 DEF UpdateFeed
<1>12. CASE HeartbeatFailed
  BY <1>12 DEF HeartbeatFailed
<1>13. CASE Websocket \/ IceFailed
  BY <1>13 DEF Websocket, StageUpdate, StageNotLive, SubscriptionErrors, ReportFromSubscription, IceFailed
<1>14. ASSUME NEW c \in Capturers, Capture(c) PROVE (state = "Stopping" => state' \in {"Stopping", "Offline"}) /\ (owner = "stopped" => state' = "Offline")
  BY <1>14 DEF Capture, SendVideo, BadAspectRatio, FrameDone, ClaimScreenshot, SetScreenshot
<1>15. CASE UNCHANGED vars
  BY <1>15 DEF vars
<1> QED
  BY <1>1, <1>2, <1>3, <1>4, <1>5, <1>6, <1>7, <1>8, <1>9, <1>10, <1>11, <1>12, <1>13, <1>14, <1>15 DEF Next, Thread

(* Stopping only becomes Offline, and Offline after it stays. *)
THEOREM StopFinal == Spec => StopIsFinal
<1>1. Coherent /\ [Next]_vars
        => [/\ state = "Stopping" => state' \in {"Stopping", "Offline"}
            /\ owner = "stopped" => state' = "Offline"]_vars
  BY StopIsFinalStep DEF Coherent, TypeOK
<1> QED
  BY <1>1, CoherentAlways, PTL DEF Spec, StopIsFinal

(* No step of the thread is left once stop() has returned. *)
LEMMA QuietAfterStopStep ==
    ASSUME PlaceMatchesState, owner = "stopped", [Next]_vars
    PROVE  UNCHANGED <<threadVars, serverVars>>
<1> USE DEF PlaceMatchesState, Negotiating, Goto,
      threadVars, captureVars, wsVars, serverVars
<1>1. CASE start
  BY <1>1 DEF start
<1>2. CASE StopBegin \/ StopJoin
  BY <1>2 DEF StopBegin, StopJoin
<1>3. CASE Subscribe \/ Negotiate \/ CreateFeed \/ AddFeed
  BY <1>3 DEF Subscribe, Negotiate, CreateFeed, AddFeed
<1>4. CASE ToStreaming \/ CallStarted \/ StartHeartbeat
  BY <1>4 DEF ToStreaming, CallStarted, StartHeartbeat
<1>5. CASE AwaitScreenshot \/ SendScreenshot
  BY <1>5 DEF AwaitScreenshot, SendScreenshot
<1>6. CASE AwaitSubscription \/ StartBroadcast \/ ToLive
  BY <1>6 DEF AwaitSubscription, StartBroadcast, ToLive
<1>7. CASE LoopTest \/ HeartbeatThrows
  BY <1>7 DEF LoopTest, HeartbeatThrows
<1>8. CASE LoopEnd
  BY <1>8 DEF LoopEnd
<1>9. CASE StopBroadcast
  BY <1>9 DEF StopBroadcast
<1>10. CASE HeartbeatAnswered
  BY <1>10 DEF HeartbeatAnswered
<1>11. CASE UpdateFeed
  BY <1>11 DEF UpdateFeed
<1>12. CASE HeartbeatFailed
  BY <1>12 DEF HeartbeatFailed
<1>13. CASE Websocket \/ IceFailed
  BY <1>13 DEF Websocket, StageUpdate, StageNotLive, SubscriptionErrors, ReportFromSubscription, IceFailed
<1>14. ASSUME NEW c \in Capturers, Capture(c) PROVE UNCHANGED <<threadVars, serverVars>>
  BY <1>14 DEF Capture, SendVideo, BadAspectRatio, FrameDone, ClaimScreenshot, SetScreenshot
<1>15. CASE UNCHANGED vars
  BY <1>15 DEF vars
<1> QED
  BY <1>1, <1>2, <1>3, <1>4, <1>5, <1>6, <1>7, <1>8, <1>9, <1>10, <1>11, <1>12, <1>13, <1>14, <1>15 DEF Next, Thread

(* After stop() the thread does nothing more. *)
THEOREM StopQuiet == Spec => QuietAfterStop
<1>1. Coherent /\ [Next]_vars
        => [owner = "stopped" => UNCHANGED <<threadVars, serverVars>>]_vars
  BY QuietAfterStopStep DEF Coherent
<1> QED
  BY <1>1, CoherentAlways, PTL DEF Spec, QuietAfterStop

(* The four kinds of step, seen through the refinement mapping. *)
LEMMA PhaseKept == ASSUME UNCHANGED owner PROVE contractPhase' = contractPhase
BY DEF contractPhase

LEMMA MappedStutter ==
    ASSUME UNCHANGED <<owner, started>>, ThreadReported' <=> ThreadReported,
           contractAlive' <=> contractAlive
    PROVE  UNCHANGED Contract!vars
<1>1. contractAlive' = contractAlive
  BY DEF contractAlive
<1>2. ThreadReported' = ThreadReported
  BY DEF ThreadReported
<1> QED
  BY <1>1, <1>2, PhaseKept DEF Contract!vars

LEMMA MappedReport ==
    ASSUME UNCHANGED <<owner, started>>, contractAlive, ThreadReported'
    PROVE  Contract!Report
<1>1. contractAlive' \in BOOLEAN
  BY DEF contractAlive
<1>2. ThreadReported' = TRUE
  BY DEF ThreadReported
<1> QED
  BY <1>1, <1>2, PhaseKept DEF Contract!Report

LEMMA MappedExit ==
    ASSUME UNCHANGED <<owner, started>>, ThreadReported' <=> ThreadReported,
           contractAlive, ~ contractAlive', ThreadReported \/ owner = "joining"
    PROVE  Contract!Exit
<1>1. contractAlive' = FALSE
  BY DEF contractAlive
<1>2. ThreadReported' = ThreadReported
  BY DEF ThreadReported
<1>3. owner = "joining" => contractPhase = "stopping"
  BY DEF contractPhase
<1> QED
  BY <1>1, <1>2, <1>3, PhaseKept DEF Contract!Exit

(* A step of the thread goes on, ends in a report, or ends with reason. *)
MovesOrEnds ==
    /\ UNCHANGED <<owner, started>>
    /\ contractAlive
    /\ \/ ThreadReported'
       \/ UNCHANGED reports /\ contractAlive'
       \/ UNCHANGED reports /\ (ThreadReported \/ owner = "joining")

LEMMA MappedThread ==
    ASSUME MovesOrEnds
    PROVE  Contract!Report \/ Contract!Exit \/ UNCHANGED Contract!vars
<1>1. CASE ThreadReported'
  BY <1>1, MappedReport DEF MovesOrEnds
<1>2. CASE UNCHANGED reports /\ contractAlive'
  BY <1>2, MappedStutter, NobodyReports DEF MovesOrEnds
<1>3. CASE UNCHANGED reports /\ (ThreadReported \/ owner = "joining")
  BY <1>3, MappedStutter, MappedExit, NobodyReports DEF MovesOrEnds
<1> QED
  BY <1>1, <1>2, <1>3 DEF MovesOrEnds

(* Every step of the thread but the call of startedCallback is such a step. *)
LEMMA ThreadStepMoves ==
    ASSUME PlaceTypes, PlaceMatchesState, EndsReported, Thread
    PROVE  CallStarted \/ MovesOrEnds
<1> USE ThreadReports DEF PlaceTypes, PlaceMatchesState, EndsReported, EarlyPlaces,
      GoingLivePlaces, LoopPlaces, MovesOrEnds, contractAlive, Negotiating, AfterNegotiation,
      transitionState, Goto, ThreadFails, threadVars, captureVars, wsVars, serverVars
<1>1. CASE Subscribe \/ StartHeartbeat
  BY <1>1 DEF Subscribe, StartHeartbeat
<1>2. CASE Negotiate \/ CreateFeed
  BY <1>2 DEF Negotiate, CreateFeed
<1>3. CASE AddFeed \/ ToStreaming
  BY <1>3 DEF AddFeed, ToStreaming
<1>4. CASE AwaitScreenshot \/ SendScreenshot
  BY <1>4 DEF AwaitScreenshot, SendScreenshot
<1>5. CASE AwaitSubscription \/ StartBroadcast
  BY <1>5 DEF AwaitSubscription, StartBroadcast
<1>6. CASE ToLive
  BY <1>6 DEF ToLive
<1>7. CASE LoopTest \/ HeartbeatThrows
  BY <1>7 DEF LoopTest, HeartbeatThrows
<1>8. CASE HeartbeatAnswered
  BY <1>8 DEF HeartbeatAnswered
<1>9. CASE HeartbeatFailed
  BY <1>9 DEF HeartbeatFailed
<1>10. CASE UpdateFeed
  BY <1>10 DEF UpdateFeed
<1>11. CASE LoopEnd \/ StopBroadcast
  BY <1>11 DEF LoopEnd, StopBroadcast
<1> QED
  BY <1>1, <1>2, <1>3, <1>4, <1>5, <1>6, <1>7, <1>8, <1>9, <1>10, <1>11 DEF Thread

(* Every step is a step of the contract or leaves its variables alone. *)
LEMMA ContractStep ==
    ASSUME PlaceTypes, FlagTypes, PlaceMatchesState, EndsReported, FirstNews, [Next]_vars
    PROVE  Contract!Next \/ UNCHANGED Contract!vars
<1> USE DEF threadVars, captureVars, wsVars, serverVars
<1>1. CASE start
  <2>1. contractPhase = "new" /\ contractPhase' = "running" /\ contractAlive' \in BOOLEAN
    BY <1>1 DEF start, contractPhase, contractAlive
  <2>2. UNCHANGED <<started, reports>>
    BY <1>1 DEF start
  <2>3. ThreadReported' = ThreadReported
    BY <2>2 DEF ThreadReported
  <2> QED
    BY <2>1, <2>2, <2>3 DEF Contract!Next, Contract!Start
<1>2. CASE StopBegin
  <2>1. contractPhase = "running" /\ contractPhase' = "stopping"
    BY <1>2 DEF StopBegin, contractPhase
  <2>2. UNCHANGED <<started, reports, pc>>
    BY <1>2 DEF StopBegin
  <2>3. UNCHANGED <<contractAlive, ThreadReported>>
    BY <2>2 DEF contractAlive, ThreadReported
  <2> QED
    BY <2>1, <2>2, <2>3 DEF Contract!Next, Contract!Stop
<1>3. CASE StopJoin
  <2>1. contractPhase = "stopping" /\ contractPhase' = "stopped" /\ ~ contractAlive
    BY <1>3 DEF StopJoin, contractPhase, contractAlive
  <2>2. UNCHANGED <<started, reports, pc>>
    BY <1>3 DEF StopJoin
  <2>3. UNCHANGED <<contractAlive, ThreadReported>>
    BY <2>2 DEF contractAlive, ThreadReported
  <2> QED
    BY <2>1, <2>2, <2>3 DEF Contract!Next, Contract!Stopped
<1>4. CASE CallStarted
  <2>1. contractAlive /\ contractAlive' /\ ~ started /\ ~ ThreadReported
    BY <1>4 DEF CallStarted, Goto, contractAlive, FirstNews
  <2>2. started' = TRUE /\ UNCHANGED <<owner, reports>>
    BY <1>4 DEF CallStarted
  <2>3. UNCHANGED <<contractAlive, ThreadReported>>
    BY <2>1, <2>2 DEF contractAlive, ThreadReported
  <2> QED
    BY <2>1, <2>2, <2>3, PhaseKept DEF Contract!Next, Contract!Announce
<1>5. CASE Thread
  BY <1>4, <1>5, ThreadStepMoves, MappedThread DEF Contract!Next
<1>6. ASSUME UNCHANGED <<owner, started, pc>>, ThreadReported' <=> ThreadReported
      PROVE  UNCHANGED Contract!vars
  BY <1>6, MappedStutter DEF contractAlive
<1>7. CASE Websocket \/ IceFailed
  <2>1. UNCHANGED <<owner, started, pc>> /\ (ThreadReported' <=> ThreadReported)
    BY <1>7, OthersReport, NobodyReports DEF Websocket, StageUpdate, StageNotLive,
       SubscriptionErrors, ReportFromSubscription, IceFailed
  <2> QED
    BY <1>6, <2>1
<1>8. ASSUME NEW c \in Capturers, Capture(c)
      PROVE  UNCHANGED Contract!vars
  <2>1. UNCHANGED <<owner, started, pc>> /\ (ThreadReported' <=> ThreadReported)
    BY <1>8, OthersReport, NobodyReports DEF Capture, SendVideo, BadAspectRatio, FrameDone,
       ClaimScreenshot, SetScreenshot
  <2> QED
    BY <1>6, <2>1
<1>9. CASE UNCHANGED vars
  BY <1>6, <1>9, NobodyReports DEF vars
<1> QED
  BY <1>1, <1>2, <1>3, <1>5, <1>7, <1>8, <1>9 DEF Next

(* The Broadcast object keeps its contract, for any capture threads and bound. *)
THEOREM KeepsContract == Spec => ImplementsContract
<1>1. Init => Contract!Init
  BY DEF Init, Contract!Init, contractPhase, contractAlive, ThreadReported
<1>2. Coherent /\ [Next]_vars => [Contract!Next]_Contract!vars
  BY ContractStep DEF Coherent, TypeOK
<1> QED
  BY <1>1, <1>2, CoherentAlways, PTL DEF Spec, ImplementsContract, Contract!Spec

=============================================================================
