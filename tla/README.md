# A TLA+ verification of libcaffeine

libcaffeine lets an application broadcast video and audio to caffeine.tv over
WebRTC. The C API (`include/caffeine.h`) is a thin layer over an `Instance`,
which owns at most one `Broadcast` at a time; a `Broadcast` runs a thread of its
own, a websocket client with another, and is called by the application's capture
threads and by WebRTC's. The code is small and its difficulty is there: who may
do what to a broadcast that another thread is starting, failing or ending, which
title, credentials or frame a thread read before another changed them. That is
what this directory models, checks with TLC and proves with TLAPS.

## The system

| part | state | operations | talks to |
|---|---|---|---|
| C API (`Caffeine.cpp`) | none | argument checks, one call each | Instance, and Broadcast through `getBroadcast()` |
| Instance (`Instance.cpp`) | `broadcast`, `broadcastMutex`, `taskQueue`, `sharedCredentials`, `userInfo`, `refreshToken` | signIn, refreshAuth, signOut, startBroadcast, endBroadcast, the failure task | creates, starts and stops Broadcasts; calls the application's failedCallback on the task queue |
| Broadcast (`Broadcast.cpp`) | atomic `state`; the screenshot and subscription promises; title, rating, game, quality under `mutex`; `subscription` | start, stop, sendVideo, sendAudio, setters, the broadcast thread, the subscription's message handler | requests to the server, WebRTC, the Instance through `failedCallback` |
| Subscription (`WebsocketApi.*`) | the connection, weak references to its owner | connect, disconnect, the opened, message and ended handlers on the websocket thread | server; Broadcast's handlers; credentials |
| Requests (`RestApi.cpp`) | shared credentials under a mutex | every HTTP and GraphQL request with its retries, refreshCredentials | server |
| Observers (`PeerConnectionObserver`, `SessionDescriptionObserver`, `StatsObserver`) | promises, a statistics queue | WebRTC's callbacks | Broadcast |
| Media (`AudioDevice`, `VideoCapturer`, `X264Encoder`, `Policy`) | chunk buffer, last timestamp and limits, encoder | sendAudio, sendVideo, Encode, SetRateAllocation, pure checks | WebRTC, x264 |
| Serialization, URLs, GraphQL types, logging | none | conversion | |

What makes each correct, and what is hard about it:

* **Broadcast.** Its `state` is changed by its thread (compare-and-swap) and by
  stop() (plain stores). stop() may come between any two steps. The thread waits
  for a frame from a capture thread and a message from the websocket thread. It
  must not undo a stop, must not die silently, must not leave the server's stage
  live, and stop() must return.
* **Instance.** Failures are reported by four kinds of threads, at any time, even
  after the end of the broadcast, and handled later on a queue; the application
  may end and start broadcasts meanwhile, and again from within failedCallback.
  Each broadcast has its thread joined before it is dropped, and its failure told
  at most once, after it was stopped.
* **Subscription.** Connections are lost, fail, expire; the only thread that runs
  handlers also sleeps in them. One connection must deliver updates, a lost one
  must be replaced, and no handler may touch a Broadcast that is gone.

* **Stage metadata.** Setters, the broadcast thread and heartbeats read fields
  under a lock and send what they read without it. What the server has in the end
  must be what was set last.
* **Session and requests.** Every thread uses one `SharedCredentials`, by reference,
  which signing out destroys and a 401 replaces. Nobody may use credentials that are
  gone, and token, user and broadcast must be of one account.
* **Media.** Buffers and frames of any size at any time, an encoder that is
  initialized, reconfigured and released in any order: arithmetic that must not lose
  a sample, exceed a limit or write past a buffer.

PROJECT.json lists these and every other hazard by source line.

## Modules

| module | what it is |
|---|---|
| `Broadcast` | one Broadcast object: owner, broadcast thread, capture threads, message handler, ICE observer, server |
| `BroadcastContract` | abstract: what a Broadcast promises the Instance, in four variables |
| `Instance` | all broadcasts of an instance, each as the contract says, with the application's calls, the lock and the task queue |
| `Subscription` | the subscription object, its connections, the websocket thread, reference counts and destruction |
| `StageMetadata` | title, rating, game and quality of one broadcast, from the setters to the server |
| `Requests` | `retryRequest`, the credentials, the 401 paths, what each request function makes of an answer |
| `Session` | extends `Requests`: who is signed in, and every thread that makes requests |
| `AudioDevice`, `VideoCapturer`, `X264Encoder` | the three parts of the media path |
| `Media` | the three composed with the broadcast's being online and libwebrtc's encoder thread |
| `MCBroadcast`, `MCInstance`, `MCSubscription`, `MCStageMetadata`, `MCSession`, `MCMedia` | the instances TLC checks |
| `Broadcast_proofs`, `Instance_proofs`, `Subscription_proofs`, `StageMetadata_proofs`, `Session_proofs`, `AudioDevice_proofs`, `Media_proofs` | theorems and proofs |
| `DataLemmas` | lemmas the last proofs share: least and greatest elements, induction over sets of numbers, running totals, quotients |

The modules meet in `BroadcastContract`. `Broadcast` implements it (property
`ImplementsContract`, theorem `KeepsContract`), with `phase` read off the owner,
`alive` off the thread's place and `reported` off the set of reports.
`Instance` runs an array of such contracts, `UsesContract` and theorem
`ContractUsed` saying that each moves only as the contract allows. So what is
shown of the Instance is shown of an Instance over the real Broadcast, except
where the note on fairness below says otherwise. `Subscription` has the threads
of `Broadcast` seen from the websocket: there, Starting, Streaming and Live are
one, and here, connections are nothing but stage updates and errors arriving.
`StageMetadata` and `Session` see the same broadcast thread once more, each with the
steps that matter to it: which requests carry a title or a feed, and who is in a
request at all. In each of them the thread may end at any place where `Broadcast`
lets it fail or stop. Requests, a step of `Broadcast` that may fail before or after
the server acted, are `Requests`' state machine in `Session`.

### Broadcast

`state` is `Broadcast::state`; `pc` is where `broadcastThread` is in `start()` and
`startHeartbeat()`, with a place before each test, request, wait and callback,
since stop() may come there. A step ends where other threads can see its effect.
`owner` is the thread inside start() and stop(). `screenshotNeeded` and
`screenshot` are the flag and the promise of the first frame, `subState` and
`subOpened` those of the subscription; `reports` collects the calls of
`failedCallback`; `stageLive` and `stopSent` are what the server knows. `feedAdded`
says that AddFeed was carried out, not that the feed is on the stage: an answer without
our feed is only logged (line 134), and another client may take the stage over at any
time, which the code learns from a stage update. A request either succeeds, or fails with the server having acted or not. A
wait with a timeout may time out whenever what it waits for is not there. Ticks
of the loop that send nothing, statistics and logging are left out.

Line 488 reads the error of a payload that may have none (`stage.live` false
without an error): undefined, and the place `crashed` if the process dies of it.

### Instance

`broadcast` is the clientId of what the member points to, `at` where every
application thread and the queue's `worker` are, `tasks` the queue. A lock held
over several steps is `mutex`; a critical section without a wait inside is one
step. The failure task is three: the check under the lock (`CheckTask`), the
endBroadcast() that takes the lock again (`EndLock`, `EndJoin`), and the
application's callback, after which the worker may be inside startBroadcast.
Broadcasts are numbered in the order they start.

### Subscription

Objects and connections are numbered too. `member` is `Broadcast::subscription`,
`wsSub` and `wsHolds` are the strong references the running handler has got from
its weak ones. A reference dropped last destroys: a subscription closes its
connection, the Broadcast joins the websocket thread. `Close` does what
websocketpp's does (`third_party/websocketpp`, `connection_impl.hpp:304`):
something for an open connection, an error otherwise. Every connect() may be refused by
`get_connection` (`WebsocketApi.cpp:76`), which installs no handler: after
setupSubscription (`ConnectRefused`) the new subscription stays without a connection,
after a refresh (`ReconnectRefused`) the end of the old one leads to another. A refresh
of the credentials may succeed, fail, or throw on the websocket thread, where nothing
catches it. Three threads use `member`
without a lock, and two may store a subscription's `connection` (the first connect() and
one after a refresh); where two do at once, or connect() is called through a member just
reset, the outcome is undefined: place `crashed`, after which the properties claim
nothing. Temporary references of application threads (`getBroadcast()`) are left
out: they can only delay the destruction, or move it to that thread, which may wait.

### StageMetadata

`at` is where each setter thread and `broadcastThread` is; `sent` what it read under
the lock for the request it is making. `Arrives` is the server carrying a request out,
perhaps more than once (`retryRequest`), and `Returns` the client's seeing it end; a
request may have arrived and still fail. The tests of `state` come after the lock is
released, as at lines 404, 419 and 434 of `Broadcast.cpp`. Titles are short sequences of bytes,
with a tag of two and a limit of six, so that every case of `annotateTitle` occurs: a
blank title, spaces around and inside it, one as long as the limit, with and without
the tag. A request the client has given up does not reach the server later.
`TitleAssumption` is what `Policy.hpp` has of its constants: the default title does not
begin with a blank, and the limit of 255 has room for the tag of 6 with the default
of 17, and for the tag with the 240 bytes that the 60 characters of `caffeine.h:545` have
at most.

### Requests and Session

`req` holds each thread's request: its step, tries, credentials seen and result.
`Answers` is what each `do...` function can make of any answer of the server,
including a conversion that throws, be it of the answer or, with a title cut inside a
character, of the request. `refreshCredentials` is three steps, since it reads
the token, asks, and stores in three critical sections. A thread whose request reads
credentials that are not there, or that lets an exception out of its thread function,
is at `crashed`, after which nothing is claimed.

`app` is the one application thread that signs in and out, starts and ends (the
header does not allow others at the same time); it is in `Session` together with
everything that may still use the credentials: the broadcast thread, which stop()
joins, and `late`, the websocket thread and the statistics queue, which outlive the
broadcast until its detached destruction. `late` may find the credentials gone
(`Instance.cpp:126`): that is a hazard of the code, the place `crashed` its outcome,
and the reason `CredentialsOutliveRequests` speaks of the other threads only.
`mixed` is history: `UserInfoThrows` leaves new credentials with the old user, and a
`late` refresh may store an earlier session's credentials over a new one's.

### Media

A sample is its number, a chunk a function of 1..chunkSize. A step is one turn of
sendAudio's loop. Timestamps are integers, sizes and limits are the code's, with its
integer division. `lastTimestamp` begins as `seconds::min()` in microseconds, an
overflow that yields 0. Integers have no width: the products of the scaling stay far
below 2^31 for any frame a screen has. The encoder's buffer and NAL units are their
lengths, no unit being shorter than the four bytes `rtpFragmentize` insists on
(`X264Encoder.cpp:114`); `totals` is what its loops add up. libwebrtc and x264 are
external: the encoder thread re-initializes when the frame's size changes, and every
call of x264 may fail. The `AudioDevice` belongs to the Instance, so a partial chunk is
carried into the next broadcast.

## Runs

| run | instance | shows |
|---|---|---|
| `broadcast` | 2 capture threads, 5 heartbeat failures as in the code: 131,995 states | lifecycle is safe; stop() returns; a start ends in Live or over; contract implemented |
| `broadcast_live_after_failure` | same | finding: after a failed StartBroadcast the thread goes on to Live |
| `broadcast_end_not_signalled` | same | finding: stage left live when the thread ended on its own failure |
| `instance` | 2 application threads, the worker, 2 broadcasts, 2 queued tasks: 82,347 states | at most one thread, failures told once, in order; calls return |
| `instance_failure_ends_another` | same | finding: a failure task ends the next broadcast |
| `subscription` | 3 disruptions, 4 subscriptions, 7 connections: 67,146 states | one connection at a time, no use after destruction, resubscription |
| `stage_metadata` | 2 setters (symmetric), 3 titles, 2 ratings, 2 games, 1 further quality: 1,603,848 states | the server has what was set last, but for three reasons |
| `session` | 2 accounts, 3 threads and the worker, 2 tries, 1 repeated 401: 206,950 states | credentials outlive requests; one account; only the allowed broadcast; requests return |
| `media` | chunks of 3, 7 samples in calls of 1 to 7, 8 sizes, 4 times, 3 encoder infos, 4 frame rates, 2 broadcasts: 390,244 states | samples in order; frames within limits, apart; buffer never overrun; rate as chosen |
| `media_frames_not_as_commented` | as `media` | finding: frames below the minimum, over the width limit or of odd width |
| `subscription_self_join` | as `subscription` | finding: the Broadcast destroyed on its own websocket thread |
| `subscription_never_destroyed` | same | finding: a connection dropped while connecting is never closed |

Why the bounds are enough. Capture threads interact pairwise, through one flag. A
failure that hits the wrong broadcast needs two of them, a thread that ends one
and starts another, and the worker; a second application thread adds competing
calls; two tasks let a second failure of the same broadcast wait behind the first.
`Broadcasts` and `MaxTasks` bound the environment, not the code: when no clientId
is left startBroadcast is refused, and the bound on tasks never stops a thread's
first report. Three disruptions let an expired credential, a failure during the
reconnection and the late close of the old connection coincide; the numbers of
objects follow from it.
In `stage_metadata` the overtaking of requests is between pairs (two setters, or one
and the thread), and a setter may call any number of times. In `session` two tries are a
first and a last, two accounts are an old and a new one, and one 401 after a refresh
shows the recursion; the code does not bound it, so `RequestsReturn` is of a server
that refuses a finite number of times. In `media` the calls straddle no, one and two
chunk boundaries; the sizes are within all limits, of odd width, tiny, above the
default and the raised limits, 1:3, 3:1 and beyond, and 1281x428, whose cap changes the
height to an odd one that is rounded back; the times lie on both sides of
the distance of both frame rates; the NAL units fill the buffer to the byte or exceed it.

`instance` and `stage_metadata` check for deadlock. The others really stop: a
broadcast whose start() threw or whose process died, a destroyed subscription, a
crashed process in `session`, the bounds on samples and broadcasts in `media`.

### Fairness

* `Broadcast`: weak fairness of the thread and of stop()'s join. Requests return
  (curl's timeouts), every promise but the subscription's and the screenshot's is
  fulfilled by WebRTC, and these two are waited for with `wait_for`. Nothing is
  assumed of frames, updates or of the application calling stop().
* `Instance`: strong fairness of an actor inside a call, because it competes for
  `broadcastMutex`: a waiter is not overtaken for ever. Strong fairness of the
  worker for the same reason. A thread told to stop ends: that is what
  `StopReturns` of `Broadcast` shows. Callbacks return.
* `Subscription`: weak fairness of the threads; strong fairness of the handshakes'
  ends, which wait for the websocket thread to be free. Nothing makes a server
  close a connection.
* `Session`: weak fairness of each thread's request step while the process runs:
  curl's time limits end every request. Nothing is assumed of the application's calls.
* `StageMetadata`, `Media`: none, safety only.

### Properties

In `Broadcast`: `LiveIsReady`, `ScreenshotSetOnce`, `NoSilentExit`,
`StopSignalsServer`, `StopIsFinal`, `QuietAfterStop`, `StopReturns`,
`LiveOrEnds`, `ImplementsContract`, and `Coherent`, the inductive invariant.
`LiveIsReady` says that AddFeed was carried out before Live, and nothing of the stage.
`StopSignalsServer` excuses a thread that had reported a failure: without that
excuse it is false, which is the finding `EndSignalsServer`.
In `Instance`: `ThreadIsOwned`, `FailedAtMostOnce`, `FailedAfterStopped`,
`StartedBeforeFailed`, `CallsReturn`, `FailureStops`, `UsesContract`, and
`Orderly`, inductive.
In `Subscription`: `OneSubscription`, `HandlersHoldBroadcast`, `Resubscribes`,
`DestroyedUnlessDropped`. `Resubscribes` excuses one loss, named `Abandoned`:
`get_connection` failing in setupSubscription, which nobody tries again.
In `StageMetadata`: `TitleUpToDate`, `FeedUpToDate`, `TitleShown`. The first two excuse
what the code gives up: a failed request is not repeated, a change between the reading
for StartBroadcast (AddFeed) and the state it is tested against is not sent, and two
updates in flight arrive in any order.
In `Session`: `CredentialsOutliveRequests`, `SessionIsWhole`, `AllowedToBroadcast`,
`RequestsReturn`. In `Media`: `SamplesInOrder`, `FramesFit`, `FramesApart`,
`FragmentsFit`, `EncoderRate`. `FramesFit` says of a frame that is scaled that it is
within the limits and even, of one sent as it is that it exceeds the width by less than a
line's share, and of both how far the aspect ratio is kept; what the comments say beyond
that is `FramesAsCommented`, which is violated. An excuse in a property is something the
code does give up, without which the property is false; hazards that are excused are
listed in PROJECT.json with a note instead of the property, or besides it. Every property
of a passing run has a variant of the code, kept next to the definition it replaces and
marked *Variant*, that breaks it.

## Findings

1. `Broadcast.cpp:490`: the failed StartBroadcast is reported without a return; the
   broadcast goes Live afterwards. `caffeine.h:105` calls that result "failed to start".
2. `Broadcast.cpp:557`: StopBroadcast is only sent when the loop is left with state
   Stopping. A thread that gave up on heartbeats or UpdateFeed never sends it,
   although `caffeine.h:579` says ending signals the server.
3. `Instance.cpp:203`: the failure task releases the lock between its check and
   endBroadcast(), and may end a broadcast started in between.
4. `Broadcast.cpp:768`, `WebsocketApi.cpp:60`: the last reference dropped on the
   websocket thread makes that thread join itself.
5. `WebsocketApi.hpp:159`: a subscription dropped while connecting leaves a
   connection that nobody closes, and the destruction of the Broadcast waits for it.
6. `VideoCapturer.cpp:161`: three comments that do not hold of every frame. A minimum of
   360 (line 120): a 333x999 frame ends as 240x720, the cap on the height undoing the
   raise. A capped width (136): 1281x428, whose capped height rounds back up to the one it
   had, is sent as it is. An even size (142): so is 641x360. Each of the three conjuncts of
   `FramesAsCommented` is violated by its frame.

Further disagreements met while modelling, which the models take as the code has them:

* `caffeine.h:346` says caff_getRefreshToken is NULL unless signed in. After an exception
  in getUserInfo during a sign-in it is the new account's token; after credentials were
  refreshed on a 401 it is the old token, since `refreshToken` is a copy.
* `Broadcast.cpp:166`: start() asks for the encoder settings, whose conversion may throw,
  after `broadcast` was set (`StartThrows` of `Instance`); nothing resets it, and later
  starts are refused until the application calls caff_endBroadcast, which
  `caffeine.h:581` says it need not.
* `WebsocketApi.cpp:76`: a connection refused in setupSubscription is logged and not
  retried, although one that fails later is.
* `X264Encoder.cpp:371-372` reports a frame of another size to the encoder as a null
  parameter; libwebrtc re-initializes first, so it is not reached.
* `X264Encoder.cpp:413-418`: when encoding fails, x264_picture_clean frees the planes
  that were overwritten with the frame's.
* `Policy.cpp:36` cuts a title longer than documented at a byte, perhaps within a UTF-8
  character, which the JSON library refuses with an exception; on the broadcast
  thread nobody catches it; `Utils.hpp:16` calls isspace with negative ints.

## Proofs

`Broadcast_proofs` holds for any set of capture threads and any `MaxFailures \in Nat`,
`Instance_proofs` for any application threads, broadcasts and bound of tasks,
`Subscription_proofs` for any disruptions, subscriptions and connections,
`StageMetadata_proofs` for any application threads, titles, games and qualities,
`Session_proofs` for any accounts, number of tries and of refused requests,
`AudioDevice_proofs` for any size of chunk and buffer, `Media_proofs` for any frame
sizes, timestamps, encoder infos, NAL units and frame rates. The assumptions are those
of the modules: `MaxFailures` is a number; the worker and the broadcast thread are no
application threads, no thread is called "free", clientIds are numbers and `None` is
none of them, nor a subscription, connection, account or user; the chunk size, the bound
on broadcasts and the frames' sizes (`Caffeine.cpp` takes no others) are positive; NAL
units and titles are as said above.

**Broadcast.** None of the safety properties is inductive: that stop() finds the
stage signalled depends on where the thread is, and `state` alone does not say.
`Coherent` adds it: `PlaceMatchesState` gives `state` as a function of the owner and,
until somebody stops the broadcast, of the thread's place (so a compare-and-swap
that fails means a stop); `EndsReported` and `FirstNews` say which places come
after and before a report; `Obtained` what each place already has; `ScreenshotFlag`
that the flag still set means nobody is at the promise; `LiveStageHandled` where a
thread with a live stage may be. `CoherentAlways` proves it, one lemma per conjunct and
one leaf per action or group of actions; `TypeCorrect`, `LiveReady`, `ScreenshotOnce`,
`NeverSilent`, `ServerSignalled`, `StopFinal` and `StopQuiet` follow. `KeepsContract`
proves the refinement: every action maps to an action of the contract or a stutter.

**Instance.** `Orderly` says who holds the lock, that the current broadcast's phase is
what that place says, that all others are unbegun or over, and that a failure task past
its check knows a broadcast that began and whose failure was not told. The last
conjunct is what makes `FailedAtMostOnce` inductive although the task may end another
broadcast than its own: by the time of the callback its own is over in any case.
`ContractUsed` proves that each broadcast moves only as its contract allows.

**Subscription.** `HandlersHoldBroadcast` follows from what each place holds (`Holds`).
`OneSubscription` speaks of the moments between handlers and needs to know where every
connection is remembered meanwhile: in its subscription, or by the thread about to store
it there (`Known`), and that what is stored belongs where it is (`Stored`). Dropping the
last reference of a subscription then closes the one connection it can have
(`StillSubscribed`). A subscription refreshed before its first connection is stored is the
race `RefreshRaces`, which ends at `crashed`; otherwise whoever makes a connection does so
for a subscription that has none and for which nobody else makes one (`Fresh`).

**StageMetadata.** `TitleUpToDate` speaks of moments without a request on its way;
`TitleOnItsWay` says what holds meanwhile: without an excuse there is one such request
at most, what has arrived of it is on the server, and it says what was set last unless
somebody is about to say otherwise. `Places` says how far the broadcast thread must be
for a setter to send at all; it is why a change can be lost only while StartBroadcast is
on its way. `Types` says that what is in flight was made of a title or a feed there
is, so that `TypeOK` and `TitleShown` are about `annotateTitle`: `Trimmed` and `Titled` say
what is left of a title without its blanks, `Annotated` what the tag and the cut make of
it. `TitleOfNoConcern` covers the steps that touch neither the title nor its
requests, `TitleRead` and `TitleReturns` the two ends of a request. The feed's argument is
the same, with AddFeed for StartBroadcast.

**Session.** `SessionIsWhole` between calls says nothing of the middle of one, where it
is at risk. `IInv` adds `Places`, which request is made at which place of the
application's call; `Signed`, what each place on the way to a broadcast rests on (past
the check of the version somebody is signed in, at the lock he may broadcast, a
thread runs only with a broadcast); `Whole`, that until accounts are mixed a request
has seen the current credentials; `Reqs`, that a request which was answered has seen some.
One lemma per action, each by "moves" lemmas about which records change.
`CredentialsThere`, `WholeSession` and `OnlyTheAllowed` follow: credentials are there
because every place in a request of the application or the thread is one at which
nothing resets them, the broadcast thread being joined before signOut resets them.

**AudioDevice.** `SamplesInOrder` is inductive with the types; the argument is that
`toCopy` fits both the chunk and the call (`ToCopyBounds`), and that a filled chunk is a
further `chunkSize` samples (`OneMore`). `SamplesKeepOrder` is about `AudioSpec`, the
device alone; in `Media` nothing else touches its variables.

**Media.** `MediaInv` joins the audio's invariant to one of the video and one of the
encoder. `VideoInv` says that the frame is the scaled form of one of the application's
under the limits that hold now, so `FramesFit` is about what the scaling computes, for
every size. `AdaptedInSteps` takes its three steps one after the other (`AtLeastMin`,
`HeightAtMost`, `WidthAtMost`), each bounding how far the size is from the original's shape:
an integer division loses less than one width or height of the original (`ScaledDown`).
The cap on the height undoes a raise only by making the frame smaller than it was;
`ScaledFits` adds the rounding to even numbers, and `UnscaledFits` shows why a frame of the
right height can be too wide, and by how little. `FramesApart` needs that
the frame is not later than `lastTimestamp`. `EncoderInv` says that the image in the buffer
is that of some NAL units and has room; `RequiredIsWritten` that the size asked for is
the size written, since a long start code takes the place of each, and
`ImageFits` that the fragments follow each other.

**DataLemmas.** Sums over NAL units and the search for a title's first and last byte need
induction. The library's induction theorems take an operator, so `SetInduction` states it
for a set that contains 0 and with each number the next, and follows from the
well-foundedness of the finite subsets of `Nat`. `RunningTotals` derives that the recursive
function of partial sums exists and is what its definition says.

Only model-checked: everything under fairness (`StopReturns`, `LiveOrEnds`, `CallsReturn`,
`FailureStops`, `Resubscribes`, `DestroyedUnlessDropped`, `RequestsReturn`), liveness
being out of this prover's reach. Every invariant and every other action property of a
passing run is a theorem.

## Not modelled

* caff_freeInstance with a broadcast active (`Instance.cpp:78`), and callbacks that call
  the API from the broadcast thread: startedCallback calling caff_endBroadcast would wait
  for itself (`Instance.cpp:218`).
* caff_initialize and the calls that only report; the cached list of games and the two
  connection checks of signIn, on which no state of the session depends.
* `CaffQL.hpp` (generated), Serialization, Urls, logging: conversion without state. What a
  failed conversion does to its caller is modelled.
* Time, other than that a wait may time out and that frames have timestamps; pixels;
  the statistics queue, which only sends numbers; rate control settings of x264.
* Two application threads in signIn, signOut, startBroadcast at once: `Instance` has the
  latter with endBroadcast, `Session` takes one thread, as the header's calls are not
  documented as thread-safe.
