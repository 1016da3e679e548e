---------------------------- MODULE StageMetadata ----------------------------
(***************************************************************************)
(* The title, rating, game and connection quality of one broadcast and how *)
(* they reach the server (src/src/Broadcast.cpp, src/src/Policy.cpp).      *)
(* Application threads change them at any time; broadcastThread sends what *)
(* they are when it adds the feed and sets the stage live, and what the    *)
(* heartbeats say of the quality.  Each reads the fields under the lock    *)
(* and sends what it read without it, so requests overlap and reach the    *)
(* server in any order, more than once if they are retried.  A request the *)
(* client has given up does not reach it later.                            *)
(*                                                                         *)
(* What else the thread does on its way is in Broadcast.tla.               *)
(***************************************************************************)
EXTENDS Naturals, SequencesExt

CONSTANTS
    Setters,           \* application threads that call the setters
    Bytes,             \* the bytes of titles
    Titles,            \* titles they set, as sequences of bytes
    Games,             \* gameIds
    Qualities,         \* connection qualities a heartbeat answers
    Unknown,           \* caff_ConnectionQualityUnknown
    space,             \* the bytes isspace() is true of
    defaultTitle, seventeenPlusTag, maxTitleLength,  \* Policy.hpp
    documentedLength,  \* the bytes of the longest title caffeine.h documents
    None               \* nothing sent yet

ASSUME MetadataAssumption ==
    /\ "thread" \notin Setters
    /\ None \notin Games
    /\ maxTitleLength \in Nat

(* The default title is no blank, and the limit has room for the tag and it, and for
   the tag and any title as long as documented (Policy.hpp: 6 + 17 and 255; caffeine.h:
   60 characters, which in UTF-8 are 240 bytes at most, so that none of them is cut). *)
ASSUME TitleAssumption ==
    /\ Titles \subseteq Seq(Bytes)
    /\ defaultTitle \in Seq(Bytes) /\ defaultTitle # <<>> /\ defaultTitle[1] # space
    /\ seventeenPlusTag \in Seq(Bytes)
    /\ Len(seventeenPlusTag) + Len(defaultTitle) <= maxTitleLength
    /\ documentedLength \in Nat
    /\ Len(seventeenPlusTag) + documentedLength <= maxTitleLength

Ratings == {"None", "SeventeenPlus"}

VARIABLES
    state,         \* Broadcast::state, from Starting on
    title, rating, gameId, connectionQuality,
    at,            \* where each setter, and broadcastThread, is
    sent,          \* what each has read for the request it is making, or None
    arrived,       \* whose request has reached the server
    onServer,      \* the title and the feed as the server has them
    titleExcused,  \* history: why the server may have another title,
    feedExcused    \* ... another feed

fields == <<title, rating, gameId, connectionQuality>>
requests == <<sent, arrived>>
history == <<titleExcused, feedExcused>>
vars == <<state, fields, at, requests, onServer, history>>

Actors == Setters \cup {"thread"}

-----------------------------------------------------------------------------
(* Policy.cpp and Utils.hpp. *)

trim(s) ==
    LET ink == {i \in DOMAIN s : s[i] # space}
    IN IF ink = {} THEN <<>> ELSE SubSeq(s, Min(ink), Max(ink))

cut(s) == IF Len(s) > maxTitleLength THEN SubSeq(s, 1, maxTitleLength) ELSE s

tag(r) == IF r = "SeventeenPlus" THEN seventeenPlusTag ELSE <<>>

titled(t) == IF t = <<>> THEN defaultTitle ELSE t

\* Variant: a blank title is not taken for an empty one.
annotateTitleUntrimmed(t, r) == cut(tag(r) \o titled(t))

\* Variant: the tag is put in front of the title already cut.
annotateTitleTooLong(t, r) == tag(r) \o cut(titled(trim(t)))

annotateTitle(t, r) == cut(tag(r) \o titled(trim(t)))

-----------------------------------------------------------------------------
(* fullTitle and currentFeedInput read the fields under the lock. *)
fullTitle == [text |-> annotateTitle(title, rating), of |-> title, rating |-> rating]
currentFeedInput == [game |-> gameId, quality |-> connectionQuality]

isOnline == state \in {"Streaming", "Live"}

Init ==
    /\ state = "Starting"
    /\ title \in Titles /\ rating \in Ratings /\ gameId \in Games
    /\ connectionQuality = Unknown
    /\ at = [x \in Actors |-> IF x = "thread" THEN "createFeed" ELSE "idle"]
    /\ sent = [x \in Actors |-> None]
    /\ arrived = [x \in Actors |-> FALSE]
    /\ onServer = [title |-> None, feed |-> None]
    /\ titleExcused = FALSE
    /\ feedExcused = FALSE

Move(x, from, to) == at[x] = from /\ at' = [at EXCEPT ![x] = to]

TitlePlaces == {"sendTitle", "startBroadcast"}
FeedPlaces == {"sendFeed", "addFeed"}

(* x reads what it is to send.  Another request of the kind in flight may reach
   the server before or after this one; alone, it makes good what went before. *)

ReadsTitle(x) ==
    /\ sent' = [sent EXCEPT ![x] = fullTitle]
    /\ titleExcused' = (\E y \in Actors \ {x} : at[y] \in TitlePlaces)
    /\ UNCHANGED <<state, fields, arrived, onServer, feedExcused>>

ReadsFeed(x) ==
    /\ sent' = [sent EXCEPT ![x] = currentFeedInput]
    /\ feedExcused' = (\E y \in Actors \ {x} : at[y] \in FeedPlaces)
    /\ UNCHANGED <<state, fields, arrived, onServer, titleExcused>>

(* The server carries out a request, perhaps not for the first time. *)
Arrives(x) ==
    /\ \/ at[x] \in TitlePlaces /\ onServer' = [onServer EXCEPT !.title = sent[x]]
       \/ at[x] \in FeedPlaces /\ onServer' = [onServer EXCEPT !.feed = sent[x]]
    /\ arrived' = [arrived EXCEPT ![x] = TRUE]
    /\ UNCHANGED <<state, fields, at, sent, history>>

(* The request of x returns: it succeeded only if it has arrived, and may have
   failed then too. *)
Returns(x, ok) ==
    /\ ok => arrived[x]
    /\ arrived' = [arrived EXCEPT ![x] = FALSE]
    /\ titleExcused' = (titleExcused \/ (~ok /\ at[x] \in TitlePlaces))
    /\ feedExcused' = (feedExcused \/ (~ok /\ at[x] \in FeedPlaces))
    /\ UNCHANGED <<state, fields, onServer>>

-----------------------------------------------------------------------------
(* Application threads. *)

Sets(x, place) ==
    /\ Move(x, "idle", place)
    /\ UNCHANGED <<state, connectionQuality, requests, onServer, history>>

SetTitle(x) ==
    /\ Sets(x, "titleTest")
    /\ title' \in Titles \ {title}
    /\ UNCHANGED <<rating, gameId>>

\* Variant: the rating is thought not to be part of the title.
SetRatingOnly(x) ==
    /\ Sets(x, "idle")
    /\ rating' \in Ratings \ {rating}
    /\ UNCHANGED <<title, gameId>>

SetRating(x) ==
    /\ Sets(x, "titleTest")
    /\ rating' \in Ratings \ {rating}
    /\ UNCHANGED <<title, gameId>>

SetGameId(x) ==
    /\ Sets(x, "feedTest")
    /\ gameId' \in Games \ {gameId}
    /\ UNCHANGED <<title, rating>>

(* The tests come after the lock is released.  Not yet Live, broadcastThread is
   to send the title, unless it has read an older one already; likewise the feed. *)

TitleTest(x) ==
    /\ Move(x, "titleTest", IF state = "Live" THEN "readTitle" ELSE "idle")
    /\ titleExcused' = (titleExcused \/ (/\ state # "Live"
                                         /\ at["thread"] \in {"startBroadcast", "toLive"}
                                         /\ sent["thread"] # fullTitle))
    /\ UNCHANGED <<state, fields, requests, onServer, feedExcused>>

FeedTest(x) ==
    /\ Move(x, "feedTest", IF isOnline THEN "readFeed" ELSE "idle")
    /\ feedExcused' = (feedExcused \/ (/\ ~isOnline
                                       /\ at["thread"] \in {"addFeed", "toStreaming"}
                                       /\ sent["thread"] # currentFeedInput))
    /\ UNCHANGED <<state, fields, requests, onServer, titleExcused>>

(* updateTitle and updateFeed; broadcastThread, too, updates the feed. *)

ReadTitle(x) == Move(x, "readTitle", "sendTitle") /\ ReadsTitle(x)
ReadFeed(x) == Move(x, "readFeed", "sendFeed") /\ ReadsFeed(x)

SetterReturns(x) ==
    /\ \E ok \in BOOLEAN, from \in {"sendTitle", "sendFeed"} :
           Move(x, from, "idle") /\ Returns(x, ok)
    /\ sent' = [sent EXCEPT ![x] = None]

-----------------------------------------------------------------------------
(* broadcastThread. *)

ThreadMoves(from, to) == Move("thread", from, to)

(* transitionState is a compare-and-swap: it fails once stop() has been called. *)
Transition(place, from, to, next) ==
    /\ ThreadMoves(place, IF state = from THEN next ELSE "over")
    /\ state' = IF state = from THEN to ELSE state
    /\ sent' = [sent EXCEPT !["thread"] = None]
    /\ UNCHANGED <<fields, arrived, onServer, history>>

CreateFeed ==
    /\ state = "Starting"
    /\ ThreadMoves("createFeed", "addFeed")
    /\ ReadsFeed("thread")

AddFeed ==
    /\ \E ok \in BOOLEAN :
          /\ ThreadMoves("addFeed", IF ok THEN "toStreaming" ELSE "over")
          /\ Returns("thread", ok)
    /\ UNCHANGED sent

ToStreaming == Transition("toStreaming", "Starting", "Streaming", "goLive")

SendStartBroadcast == ThreadMoves("goLive", "startBroadcast") /\ ReadsTitle("thread")

(* A failure is reported, and the thread goes on. *)
StartBroadcast ==
    /\ \E ok \in BOOLEAN : ThreadMoves("startBroadcast", "toLive") /\ Returns("thread", ok)
    /\ UNCHANGED sent

ToLive == Transition("toLive", "Streaming", "Live", "loop")

\* Variant: the new quality is stored and not sent.
HeartbeatStores ==
    /\ state = "Live"
    /\ ThreadMoves("loop", "loop")
    /\ connectionQuality' \in Qualities \ {connectionQuality}
    /\ UNCHANGED <<state, title, rating, gameId, requests, onServer, history>>

(* A heartbeat that tells of another connection quality. *)
Heartbeat ==
    /\ state = "Live"
    /\ ThreadMoves("loop", "readFeed")
    /\ connectionQuality' \in Qualities \ {connectionQuality}
    /\ UNCHANGED <<state, title, rating, gameId, requests, onServer, history>>

UpdateFeed ==
    /\ \E ok \in BOOLEAN :
          /\ ThreadMoves("sendFeed", IF ok THEN "loop" ELSE "over")
          /\ Returns("thread", ok)
    /\ sent' = [sent EXCEPT !["thread"] = None]

(* Told to stop, or something else of what it does failed. *)
ThreadEnds ==
    /\ \E from \in {"createFeed", "goLive", "loop"} : ThreadMoves(from, "over")
    /\ UNCHANGED <<state, fields, requests, onServer, history>>

Stop ==
    /\ state # "Stopping"
    /\ state' = "Stopping"
    /\ UNCHANGED <<fields, at, requests, onServer, history>>

Thread ==
    \/ CreateFeed \/ AddFeed \/ ToStreaming
    \/ SendStartBroadcast \/ StartBroadcast \/ ToLive
    \/ Heartbeat \/ UpdateFeed \/ ThreadEnds

Setter(x) ==
    \/ SetTitle(x) \/ SetRating(x) \/ SetGameId(x)
    \/ TitleTest(x) \/ FeedTest(x) \/ ReadTitle(x) \/ SetterReturns(x)

Next ==
    \/ Thread \/ Stop
    \/ \E x \in Setters : Setter(x)
    \/ \E x \in Actors : ReadFeed(x) \/ Arrives(x)

Spec == Init /\ [][Next]_vars
-----------------------------------------------------------------------------
(* Properties. *)

SetterPlaces == {"idle", "titleTest", "readTitle", "sendTitle", "feedTest", "readFeed", "sendFeed"}
ThreadPlaces ==
    {"createFeed", "addFeed", "toStreaming", "goLive", "startBroadcast", "toLive", "loop",
     "readFeed", "sendFeed", "over"}

FullTitles == {[text |-> annotateTitle(t, r), of |-> t, rating |-> r] :
                  t \in Titles, r \in Ratings}
Feeds == [game : Games, quality : Qualities \cup {Unknown}]

(* Type invariant; no title is longer than the service takes. *)
TypeOK ==
    /\ state \in {"Starting", "Streaming", "Live", "Stopping"}
    /\ title \in Titles /\ rating \in Ratings /\ gameId \in Games
    /\ connectionQuality \in Qualities \cup {Unknown}
    /\ \A x \in Setters : at[x] \in SetterPlaces
    /\ at["thread"] \in ThreadPlaces
    /\ \A x \in Actors : sent[x] \in FullTitles \cup Feeds \cup {None}
    /\ arrived \in [Actors -> BOOLEAN]
    /\ onServer \in [title : FullTitles \cup {None}, feed : Feeds \cup {None}]
    /\ titleExcused \in BOOLEAN /\ feedExcused \in BOOLEAN
    /\ \A full \in FullTitles : Len(full.text) <= maxTitleLength

Quiet(places) == \A x \in Actors : at[x] \notin places

(* Whatever title and rating the threads have set, and whenever they did, they are
   the stage's once the stage is live and nobody is about to send them.  Three
   things in the code excuse the server's having others: a request that failed is
   not repeated; a change made after the StartBroadcast request was put together
   and tested before the stage was Live is never sent; two updates in flight
   arrive in any order. *)
TitleUpToDate ==
    /\ state = "Live"
    /\ Quiet({"titleTest", "readTitle", "sendTitle"})
    /\ ~titleExcused
    => onServer.title = fullTitle

(* So it is with the game and the connection quality from when the feed is online,
   with the AddFeed request in the place of StartBroadcast. *)
FeedUpToDate ==
    /\ isOnline
    /\ Quiet({"feedTest", "readFeed", "sendFeed"})
    /\ ~feedExcused
    => onServer.feed = currentFeedInput

(* The title shown to viewers says what was set: it is tagged exactly if rated 17+,
   never blank, and of a title no longer than documented nothing but spaces around
   it is lost to the tag and the limit, so no character of it is cut in two. *)
TitleShown ==
    onServer.title # None =>
        LET full == onServer.title
            set == full.of
            shown == SubSeq(full.text, Len(tag(full.rating)) + 1, Len(full.text))
            blank == \A i \in DOMAIN set : set[i] = space
        IN /\ IsPrefix(tag(full.rating), full.text)
           /\ shown # <<>> /\ Head(shown) # space
           /\ blank => shown = defaultTitle
           /\ ~blank /\ Len(set) <= documentedLength =>
                 \E first, last \in DOMAIN set :
                    /\ shown = SubSeq(set, first, last)
                    /\ \A i \in DOMAIN set \ (first..last) : set[i] = space
=============================================================================
