------------------------ MODULE StageMetadata_proofs ------------------------
(***************************************************************************)
(* That the server has the title, rating, game and quality that were set   *)
(* last, but for the reasons the properties name, for any application      *)
(* threads and any titles, games and qualities; and that the title it has  *)
(* is the one set, with its tag and within the limit.                      *)
(***************************************************************************)
EXTENDS StageMetadata, DataLemmas, SequenceTheorems

Functions ==
    /\ at = [x \in Actors |-> at[x]]
    /\ sent = [x \in Actors |-> sent[x]]
    /\ arrived \in [Actors -> BOOLEAN]
    /\ onServer = [title |-> onServer.title, feed |-> onServer.feed]
    /\ titleExcused \in BOOLEAN /\ feedExcused \in BOOLEAN

BeforeStreaming == {"createFeed", "addFeed", "toStreaming"}
BeforeLive == {"goLive", "startBroadcast", "toLive"}

(* The thread's place gives the state, unless stop() was called or the thread is over,
   and setters send only when their test of the state has found the thread far enough. *)
Places ==
    /\ \A x \in Setters : at[x] \in SetterPlaces
    /\ at["thread"] \in ThreadPlaces
    /\ state \in {"Starting", "Streaming", "Live", "Stopping"}
    /\ at["thread"] \in BeforeStreaming => state \in {"Starting", "Stopping"}
    /\ at["thread"] \in BeforeLive => state \in {"Streaming", "Stopping"}
    /\ at["thread"] \in {"loop", "readFeed", "sendFeed"} => state \in {"Live", "Stopping"}
    /\ \A x \in Setters : at[x] \in {"readTitle", "sendTitle"} =>
          at["thread"] \notin BeforeStreaming \cup BeforeLive /\ state \in {"Live", "Stopping"}
    /\ \A x \in Setters : at[x] \in {"readFeed", "sendFeed"} =>
          at["thread"] \notin BeforeStreaming /\ state # "Starting"
    /\ \A x \in Actors : arrived[x] => at[x] \in TitlePlaces \cup FeedPlaces

(* Without an excuse one request at most is on its way, what has arrived of it is on the
   server, and what it says is what was set, unless somebody is about to say otherwise. *)
TitleOnItsWay ==
    ~titleExcused =>
        /\ \A x, y \in Actors : at[x] \in TitlePlaces /\ at[y] \in TitlePlaces => x = y
        /\ \A x \in Actors : at[x] \in TitlePlaces /\ arrived[x] => onServer.title = sent[x]
        /\ at["thread"] = "toLive" => onServer.title = sent["thread"]
        /\ state # "Stopping" /\ Quiet({"titleTest", "readTitle"}) =>
              /\ \A x \in Actors : at[x] \in TitlePlaces \cup {"toLive"} => sent[x] = fullTitle
              /\ state = "Live" /\ Quiet(TitlePlaces) => onServer.title = fullTitle

FeedOnItsWay ==
    ~feedExcused =>
        /\ \A x, y \in Actors : at[x] \in FeedPlaces /\ at[y] \in FeedPlaces => x = y
        /\ \A x \in Actors : at[x] \in FeedPlaces /\ arrived[x] => onServer.feed = sent[x]
        /\ at["thread"] = "toStreaming" => onServer.feed = sent["thread"]
        /\ state # "Stopping" /\ Quiet({"feedTest", "readFeed"}) =>
              /\ \A x \in Actors :
                    at[x] \in FeedPlaces \cup {"toStreaming"} => sent[x] = currentFeedInput
              /\ isOnline /\ Quiet(FeedPlaces) => onServer.feed = currentFeedInput

(* What is on its way as a title is one, and likewise the feed. *)
Types ==
    /\ title \in Titles /\ rating \in Ratings /\ gameId \in Games
    /\ connectionQuality \in Qualities \cup {Unknown}
    /\ \A x \in Actors : /\ sent[x] \in FullTitles \cup Feeds \cup {None}
                         /\ at[x] \in TitlePlaces => sent[x] \in FullTitles
                         /\ at[x] \in FeedPlaces => sent[x] \in Feeds
    /\ onServer.title \in FullTitles \cup {None} /\ onServer.feed \in Feeds \cup {None}

IInv == Functions /\ Places /\ Types /\ TitleOnItsWay /\ FeedOnItsWay

-----------------------------------------------------------------------------
(* No application thread is broadcastThread. *)
LEMMA Threads == "thread" \in Actors /\ \A x \in Setters : x \in Actors /\ x # "thread"
  BY MetadataAssumption DEF Actors

(* The full title changes only with the title or the rating. *)
LEMMA SameTitle == ASSUME UNCHANGED <<title, rating>> PROVE UNCHANGED fullTitle
  BY DEF fullTitle

(* What is sent of the feed changes only with the game or the quality. *)
LEMMA SameFeed ==
    ASSUME UNCHANGED <<gameId, connectionQuality>> PROVE UNCHANGED currentFeedInput
  BY DEF currentFeedInput

(* Moving one thread moves no other. *)
LEMMA Moves ==
    ASSUME Functions, NEW x \in Actors, NEW from, NEW to, Move(x, from, to)
    PROVE  /\ at' = [y \in Actors |-> at'[y]]
           /\ at[x] = from /\ at'[x] = to /\ \A y \in Actors \ {x} : at'[y] = at[y]
  BY DEF Functions, Move

(* What a request that returns leaves behind. *)
LEMMA Returned ==
    ASSUME Functions, NEW x \in Actors, NEW ok, Returns(x, ok)
    PROVE  /\ arrived'[x] = FALSE /\ \A y \in Actors \ {x} : arrived'[y] = arrived[y]
           /\ UNCHANGED <<state, title, rating, gameId, connectionQuality, onServer>>
           /\ ~titleExcused' => ~titleExcused /\ (at[x] \in TitlePlaces => arrived[x])
           /\ ~feedExcused' => ~feedExcused /\ (at[x] \in FeedPlaces => arrived[x])
  BY DEF Functions, Returns, fields

-----------------------------------------------------------------------------
(* Functions remain functions. *)
LEMMA FunctionsKept == ASSUME Functions, [Next]_vars PROVE Functions'
<1>0. "thread" \in Actors
  BY Threads
<1>1. CASE Thread
  <2> USE <1>0 DEF Functions, requests, history, fields
  <2>1. CASE CreateFeed
    BY <2>1 DEF CreateFeed, ThreadMoves, Move, ReadsFeed
  <2>2. CASE AddFeed
    BY <2>2 DEF AddFeed, ThreadMoves, Move, Returns
  <2>3. CASE ToStreaming
    BY <2>3 DEF ToStreaming, Transition, ThreadMoves, Move
  <2>4. CASE SendStartBroadcast
    BY <2>4 DEF SendStartBroadcast, ThreadMoves, Move, ReadsTitle
  <2>5. CASE StartBroadcast
    BY <2>5 DEF StartBroadcast, ThreadMoves, Move, Returns
  <2>6. CASE ToLive
    BY <2>6 DEF ToLive, Transition, ThreadMoves, Move
  <2>7. CASE Heartbeat
    BY <2>7 DEF Heartbeat, ThreadMoves, Move
  <2>8. CASE UpdateFeed
    BY <2>8 DEF UpdateFeed, ThreadMoves, Move, Returns
  <2>9. CASE ThreadEnds
    BY <2>9 DEF ThreadEnds, ThreadMoves, Move
  <2> QED
    BY <1>1, <2>1, <2>2, <2>3, <2>4, <2>5, <2>6, <2>7, <2>8, <2>9 DEF Thread
<1>2. CASE Stop
  BY <1>2 DEF Stop, Functions, requests, history
<1>3. ASSUME NEW x \in Setters, Setter(x) PROVE Functions'
  <2> USE DEF Functions, requests, history, fields
  <2>0. x \in Actors
    BY Threads
  <2>1. CASE SetTitle(x) \/ SetRating(x) \/ SetGameId(x)
    BY <2>0, <2>1 DEF SetTitle, SetRating, SetGameId, Sets, Move
  <2>2. CASE TitleTest(x) \/ FeedTest(x)
    BY <2>0, <2>2 DEF TitleTest, FeedTest, Move
  <2>3. CASE ReadTitle(x)
    BY <2>0, <2>3 DEF ReadTitle, ReadsTitle, Move
  <2>4. CASE SetterReturns(x)
    BY <2>0, <2>4 DEF SetterReturns, Returns, Move
  <2> QED
    BY <1>3, <2>1, <2>2, <2>3, <2>4 DEF Setter
<1>4. ASSUME NEW x \in Actors, ReadFeed(x) \/ Arrives(x) PROVE Functions'
  <2> USE DEF Functions, requests, history, fields
  <2>1. CASE ReadFeed(x)
    BY <2>1 DEF ReadFeed, ReadsFeed, Move
  <2>2. CASE Arrives(x)
    BY <2>2 DEF Arrives
  <2> QED
    BY <1>4, <2>1, <2>2
<1>5. CASE UNCHANGED vars
  BY <1>5 DEF vars, Functions, requests, history
<1> QED
  BY <1>1, <1>2, <1>3, <1>4, <1>5 DEF Next

(* Everybody is where the state allows. *)
LEMMA PlacesKept == ASSUME Functions, Places, [Next]_vars PROVE Places'
<1>0. "thread" \in Actors /\ \A x \in Setters : x \in Actors /\ x # "thread"
  BY Threads
<1> USE <1>0 DEF BeforeStreaming, BeforeLive, TitlePlaces, FeedPlaces, requests, fields, history
<1>1. CASE Thread
  <2> USE DEF ThreadMoves, Places, SetterPlaces, ThreadPlaces
  <2>1. CASE CreateFeed
    BY <2>1, Moves DEF CreateFeed, ReadsFeed
  <2>2. CASE AddFeed
    <3>1. PICK ok \in BOOLEAN : /\ Move("thread", "addFeed", IF ok THEN "toStreaming" ELSE "over")
                              /\ Returns("thread", ok)
      BY <2>2 DEF AddFeed
    <3>2. /\ arrived'["thread"] = FALSE /\ \A y \in Actors \ {"thread"} : arrived'[y] = arrived[y]
          /\ state' = state
      BY <3>1, Returned
    <3> QED
      BY <3>1, <3>2, Moves
  <2>3. CASE ToStreaming
    BY <2>3, Moves DEF ToStreaming, Transition
  <2>4. CASE SendStartBroadcast
    BY <2>4, Moves DEF SendStartBroadcast, ReadsTitle
  <2>5. CASE StartBroadcast
    <3>1. PICK ok \in BOOLEAN : /\ Move("thread", "startBroadcast", "toLive")
                              /\ Returns("thread", ok)
      BY <2>5 DEF StartBroadcast
    <3>2. /\ arrived'["thread"] = FALSE /\ \A y \in Actors \ {"thread"} : arrived'[y] = arrived[y]
          /\ state' = state
      BY <3>1, Returned
    <3> QED
      BY <3>1, <3>2, Moves
  <2>6. CASE ToLive
    BY <2>6, Moves DEF ToLive, Transition
  <2>7. CASE Heartbeat
    BY <2>7, Moves DEF Heartbeat
  <2>8. CASE UpdateFeed
    <3>1. PICK ok \in BOOLEAN : /\ Move("thread", "sendFeed", IF ok THEN "loop" ELSE "over")
                              /\ Returns("thread", ok)
      BY <2>8 DEF UpdateFeed
    <3>2. /\ arrived'["thread"] = FALSE /\ \A y \in Actors \ {"thread"} : arrived'[y] = arrived[y]
          /\ state' = state
      BY <3>1, Returned
    <3> QED
      BY <3>1, <3>2, Moves
  <2>9. CASE ThreadEnds
    BY <2>9, Moves DEF ThreadEnds
  <2> QED
    BY <1>1, <2>1, <2>2, <2>3, <2>4, <2>5, <2>6, <2>7, <2>8, <2>9 DEF Thread
<1>2. CASE Stop
  BY <1>2 DEF Stop, Places
<1>3. ASSUME NEW x \in Setters, Setter(x) PROVE Places'
  <2> USE DEF Places, SetterPlaces, ThreadPlaces
  <2>1. CASE SetTitle(x) \/ SetRating(x) \/ SetGameId(x)
    BY <2>1, Moves DEF SetTitle, SetRating, SetGameId, Sets
  <2>2. CASE TitleTest(x) \/ FeedTest(x)
    BY <2>2, Moves DEF TitleTest, FeedTest, isOnline
  <2>3. CASE ReadTitle(x)
    BY <2>3, Moves DEF ReadTitle, ReadsTitle
  <2>4. CASE SetterReturns(x)
    <3>1. PICK from \in {"sendTitle", "sendFeed"}, ok \in BOOLEAN :
             Move(x, from, "idle") /\ Returns(x, ok)
      BY <2>4 DEF SetterReturns
    <3>2. /\ arrived'[x] = FALSE /\ \A y \in Actors \ {x} : arrived'[y] = arrived[y]
          /\ state' = state
      BY <3>1, Returned
    <3> QED
      BY <3>1, <3>2, Moves
  <2> QED
    BY <1>3, <2>1, <2>2, <2>3, <2>4 DEF Setter
<1>4. ASSUME NEW x \in Actors, ReadFeed(x) \/ Arrives(x) PROVE Places'
  <2> USE DEF Places, SetterPlaces, ThreadPlaces
  <2>1. CASE ReadFeed(x)
    BY <2>1, Moves DEF ReadFeed, ReadsFeed, Actors
  <2>2. CASE Arrives(x)
    BY <2>2 DEF Arrives, Functions
  <2> QED
    BY <1>4, <2>1, <2>2
<1>5. CASE UNCHANGED vars
  BY <1>5 DEF vars, Places
<1> QED
  BY <1>1, <1>2, <1>3, <1>4, <1>5 DEF Next

-----------------------------------------------------------------------------
TitleConcerns == TitlePlaces \cup {"titleTest", "readTitle", "toLive"}

(* What does not concern the title leaves it on its way. *)
LEMMA TitleOfNoConcern ==
    ASSUME TitleOnItsWay,
           UNCHANGED <<title, rating>>, onServer'.title = onServer.title,
           ~titleExcused' => ~titleExcused,
           state' # "Stopping" => state # "Stopping", (state = "Live")' => state = "Live",
           \A x \in Actors : at'[x] = at[x] \/ {at[x], at'[x]} \cap TitleConcerns = {},
           \A x \in Actors : at[x] \in TitleConcerns =>
              sent'[x] = sent[x] /\ (arrived'[x] => arrived[x])
    PROVE  TitleOnItsWay'
<1> SUFFICES ASSUME ~titleExcused' PROVE TitleOnItsWay'
  BY DEF TitleOnItsWay
<1>0. "thread" \in Actors
  BY Threads
<1>1. fullTitle' = fullTitle
  BY SameTitle
<1>2. \A x \in Actors : at[x] \in TitleConcerns \/ at'[x] \in TitleConcerns => at'[x] = at[x]
  OBVIOUS
<1>3. /\ Quiet({"titleTest", "readTitle"})' => Quiet({"titleTest", "readTitle"})
      /\ Quiet(TitlePlaces)' => Quiet(TitlePlaces)
  BY <1>2 DEF Quiet, TitleConcerns, TitlePlaces
<1>4. \A x, y \in Actors : at'[x] \in TitlePlaces /\ at'[y] \in TitlePlaces => x = y
  BY <1>2 DEF TitleOnItsWay, TitleConcerns
<1>5. \A x \in Actors : at'[x] \in TitlePlaces /\ arrived'[x] => onServer'.title = sent'[x]
  BY <1>2 DEF TitleOnItsWay, TitleConcerns
<1>6. at'["thread"] = "toLive" => onServer'.title = sent'["thread"]
  BY <1>0, <1>2 DEF TitleOnItsWay, TitleConcerns
<1>7. ASSUME state' # "Stopping", Quiet({"titleTest", "readTitle"})'
      PROVE  \A x \in Actors : at'[x] \in TitlePlaces \cup {"toLive"} => sent'[x] = fullTitle'
  BY <1>1, <1>2, <1>3, <1>7 DEF TitleOnItsWay, TitleConcerns
<1>8. ASSUME state' # "Stopping", Quiet({"titleTest", "readTitle"})', (state = "Live")', Quiet(TitlePlaces)'
      PROVE  onServer'.title = fullTitle'
  BY <1>1, <1>3, <1>8 DEF TitleOnItsWay
<1> QED
  BY <1>4, <1>5, <1>6, <1>7, <1>8 DEF TitleOnItsWay

-----------------------------------------------------------------------------
FeedConcerns == FeedPlaces \cup {"feedTest", "readFeed", "toStreaming"}

(* What does not concern the feed leaves it on its way. *)
LEMMA FeedOfNoConcern ==
    ASSUME FeedOnItsWay,
           UNCHANGED <<gameId, connectionQuality>>, onServer'.feed = onServer.feed,
           ~feedExcused' => ~feedExcused,
           state' # "Stopping" => state # "Stopping", (isOnline)' => isOnline,
           \A x \in Actors : at'[x] = at[x] \/ {at[x], at'[x]} \cap FeedConcerns = {},
           \A x \in Actors : at[x] \in FeedConcerns =>
              sent'[x] = sent[x] /\ (arrived'[x] => arrived[x])
    PROVE  FeedOnItsWay'
<1> SUFFICES ASSUME ~feedExcused' PROVE FeedOnItsWay'
  BY DEF FeedOnItsWay
<1>0. "thread" \in Actors
  BY Threads
<1>1. currentFeedInput' = currentFeedInput
  BY SameFeed
<1>2. \A x \in Actors : at[x] \in FeedConcerns \/ at'[x] \in FeedConcerns => at'[x] = at[x]
  OBVIOUS
<1>3. /\ Quiet({"feedTest", "readFeed"})' => Quiet({"feedTest", "readFeed"})
      /\ Quiet(FeedPlaces)' => Quiet(FeedPlaces)
  BY <1>2 DEF Quiet, FeedConcerns, FeedPlaces
<1>4. \A x, y \in Actors : at'[x] \in FeedPlaces /\ at'[y] \in FeedPlaces => x = y
  BY <1>2 DEF FeedOnItsWay, FeedConcerns
<1>5. \A x \in Actors : at'[x] \in FeedPlaces /\ arrived'[x] => onServer'.feed = sent'[x]
  BY <1>2 DEF FeedOnItsWay, FeedConcerns
<1>6. at'["thread"] = "toStreaming" => onServer'.feed = sent'["thread"]
  BY <1>0, <1>2 DEF FeedOnItsWay, FeedConcerns
<1>7. ASSUME state' # "Stopping", Quiet({"feedTest", "readFeed"})'
      PROVE  \A x \in Actors : at'[x] \in FeedPlaces \cup {"toStreaming"} => sent'[x] = currentFeedInput'
  BY <1>1, <1>2, <1>3, <1>7 DEF FeedOnItsWay, FeedConcerns
<1>8. ASSUME state' # "Stopping", Quiet({"feedTest", "readFeed"})', (isOnline)', Quiet(FeedPlaces)'
      PROVE  onServer'.feed = currentFeedInput'
  BY <1>1, <1>3, <1>8 DEF FeedOnItsWay
<1> QED
  BY <1>4, <1>5, <1>6, <1>7, <1>8 DEF FeedOnItsWay

(* What x reads is up to date, and alone if nothing else is on its way. *)
LEMMA TitleRead ==
    ASSUME Functions, Places, NEW x \in Actors, NEW from, NEW to \in TitlePlaces,
           Move(x, from, to), from \notin TitlePlaces \cup FeedPlaces, ReadsTitle(x),
           at["thread"] # "toLive"
    PROVE  TitleOnItsWay'
<1> SUFFICES ASSUME ~titleExcused' PROVE TitleOnItsWay'
  BY DEF TitleOnItsWay
<1>1. at'[x] = to /\ \A y \in Actors \ {x} : at'[y] = at[y] /\ at[y] \notin TitlePlaces
  BY Moves DEF ReadsTitle
<1>2. \A y \in Actors \ {x} : at'[y] # "toLive"
  BY <1>1 DEF Places, SetterPlaces, Actors
<1>3. ~arrived'[x] /\ sent'[x] = fullTitle
  BY Moves DEF ReadsTitle, Places, Functions
<1>4. fullTitle' = fullTitle
  BY SameTitle DEF ReadsTitle, fields
<1>5. to # "toLive" /\ ~Quiet(TitlePlaces)'
  BY <1>1 DEF Quiet, TitlePlaces
<1>6. "thread" \in Actors
  BY Threads
<1> QED
  BY <1>1, <1>2, <1>3, <1>4, <1>5, <1>6 DEF TitleOnItsWay

(* What x sent has arrived when it is told so. *)
LEMMA TitleReturns ==
    ASSUME Functions, Places, TitleOnItsWay, NEW x \in Actors, NEW ok, NEW from \in TitlePlaces, NEW to,
           Move(x, from, to), Returns(x, ok), to \notin TitleConcerns \/ to = "toLive",
           to = "toLive" => x = "thread" /\ sent' = sent /\ ~(state = "Live"),
           \A y \in Actors \ {x} : sent'[y] = sent[y]
    PROVE  TitleOnItsWay'
<1> SUFFICES ASSUME ~titleExcused' PROVE TitleOnItsWay'
  BY DEF TitleOnItsWay
<1>1. /\ at[x] = from /\ at'[x] = to
      /\ \A y \in Actors \ {x} : at'[y] = at[y]
  BY Moves
<1>2. /\ arrived[x] /\ ~titleExcused
      /\ \A y \in Actors \ {x} : arrived'[y] = arrived[y]
      /\ UNCHANGED <<state, title, rating, gameId, connectionQuality, onServer>>
  BY <1>1, Returned
<1>3. fullTitle' = fullTitle /\ (state = "Live")' = (state = "Live")
  BY <1>2, SameTitle DEF isOnline
<1>4. onServer.title = sent[x] /\ \A y \in Actors \ {x} : at[y] \notin TitlePlaces
  BY <1>1, <1>2 DEF TitleOnItsWay
<1>5. \A y \in Actors : at'[y] \notin TitlePlaces
  BY <1>1, <1>4 DEF TitleConcerns, TitlePlaces
<1>6. at'["thread"] = "toLive" => onServer'.title = sent'["thread"]
  <2>1. CASE x = "thread"
    BY <1>1, <1>2, <1>4, <2>1
  <2>2. CASE x # "thread"
    <3>1. "thread" \in Actors \ {x}
      BY <2>2, Threads
    <3> QED
      BY <1>1, <1>2, <2>2, <3>1 DEF TitleOnItsWay
  <2> QED
    BY <2>1, <2>2
<1>7. ASSUME state' # "Stopping", Quiet({"titleTest", "readTitle"})'
      PROVE  /\ \A y \in Actors : at'[y] = "toLive" => sent'[y] = fullTitle'
             /\ (state = "Live")' => onServer'.title = fullTitle'
  <2>1. Quiet({"titleTest", "readTitle"})
    BY <1>1, <1>7 DEF Quiet, TitlePlaces
  <2>2. sent[x] = fullTitle /\ \A y \in Actors : at[y] = "toLive" => sent[y] = fullTitle
    BY <1>1, <1>2, <1>7, <2>1 DEF TitleOnItsWay
  <2> QED
    BY <1>1, <1>2, <1>3, <1>4, <2>2
<1> QED
  BY <1>5, <1>6, <1>7 DEF TitleOnItsWay


(* What x reads is up to date, and alone if nothing else is on its way. *)
LEMMA FeedRead ==
    ASSUME Functions, Places, NEW x \in Actors, NEW from, NEW to \in FeedPlaces,
           Move(x, from, to), from \notin TitlePlaces \cup FeedPlaces, ReadsFeed(x),
           at["thread"] # "toStreaming"
    PROVE  FeedOnItsWay'
<1> SUFFICES ASSUME ~feedExcused' PROVE FeedOnItsWay'
  BY DEF FeedOnItsWay
<1>1. at'[x] = to /\ \A y \in Actors \ {x} : at'[y] = at[y] /\ at[y] \notin FeedPlaces
  BY Moves DEF ReadsFeed
<1>2. \A y \in Actors \ {x} : at'[y] # "toStreaming"
  BY <1>1 DEF Places, SetterPlaces, Actors
<1>3. ~arrived'[x] /\ sent'[x] = currentFeedInput
  BY Moves DEF ReadsFeed, Places, Functions
<1>4. currentFeedInput' = currentFeedInput
  BY SameFeed DEF ReadsFeed, fields
<1>5. to # "toStreaming" /\ ~Quiet(FeedPlaces)'
  BY <1>1 DEF Quiet, FeedPlaces
<1>6. "thread" \in Actors
  BY Threads
<1> QED
  BY <1>1, <1>2, <1>3, <1>4, <1>5, <1>6 DEF FeedOnItsWay

(* What x sent has arrived when it is told so. *)
LEMMA FeedReturns ==
    ASSUME Functions, Places, FeedOnItsWay, NEW x \in Actors, NEW ok, NEW from \in FeedPlaces, NEW to,
           Move(x, from, to), Returns(x, ok), to \notin FeedConcerns \/ to = "toStreaming",
           to = "toStreaming" => x = "thread" /\ sent' = sent /\ ~(isOnline),
           \A y \in Actors \ {x} : sent'[y] = sent[y]
    PROVE  FeedOnItsWay'
<1> SUFFICES ASSUME ~feedExcused' PROVE FeedOnItsWay'
  BY DEF FeedOnItsWay
<1>1. /\ at[x] = from /\ at'[x] = to
      /\ \A y \in Actors \ {x} : at'[y] = at[y]
  BY Moves
<1>2. /\ arrived[x] /\ ~feedExcused
      /\ \A y \in Actors \ {x} : arrived'[y] = arrived[y]
      /\ UNCHANGED <<state, title, rating, gameId, connectionQuality, onServer>>
  BY <1>1, Returned
<1>3. currentFeedInput' = currentFeedInput /\ (isOnline)' = (isOnline)
  BY <1>2, SameFeed DEF isOnline
<1>4. onServer.feed = sent[x] /\ \A y \in Actors \ {x} : at[y] \notin FeedPlaces
  BY <1>1, <1>2 DEF FeedOnItsWay
<1>5. \A y \in Actors : at'[y] \notin FeedPlaces
  BY <1>1, <1>4 DEF FeedConcerns, FeedPlaces
<1>6. at'["thread"] = "toStreaming" => onServer'.feed = sent'["thread"]
  <2>1. CASE x = "thread"
    BY <1>1, <1>2, <1>4, <2>1
  <2>2. CASE x # "thread"
    <3>1. "thread" \in Actors \ {x}
      BY <2>2, Threads
    <3> QED
      BY <1>1, <1>2, <2>2, <3>1 DEF FeedOnItsWay
  <2> QED
    BY <2>1, <2>2
<1>7. ASSUME state' # "Stopping", Quiet({"feedTest", "readFeed"})'
      PROVE  /\ \A y \in Actors : at'[y] = "toStreaming" => sent'[y] = currentFeedInput'
             /\ (isOnline)' => onServer'.feed = currentFeedInput'
  <2>1. Quiet({"feedTest", "readFeed"})
    BY <1>1, <1>7 DEF Quiet, FeedPlaces
  <2>2. sent[x] = currentFeedInput /\ \A y \in Actors : at[y] = "toStreaming" => sent[y] = currentFeedInput
    BY <1>1, <1>2, <1>7, <2>1 DEF FeedOnItsWay
  <2> QED
    BY <1>1, <1>2, <1>3, <1>4, <2>2
<1> QED
  BY <1>5, <1>6, <1>7 DEF FeedOnItsWay

-----------------------------------------------------------------------------
(* Without an excuse, what was set of the title is on its way. *)
LEMMA TitleKept ==
    ASSUME Functions, Places, TitleOnItsWay, [Next]_vars PROVE TitleOnItsWay'
<1>0. "thread" \in Actors /\ \A x \in Setters : x \in Actors /\ x # "thread"
  BY Threads
<1> USE <1>0 DEF TitlePlaces, FeedPlaces, requests, fields, history
<1>1. CASE Thread
  <2> USE DEF ThreadMoves
  <2>1. CASE CreateFeed
    BY <2>1, Moves, TitleOfNoConcern DEF CreateFeed, ReadsFeed, TitleConcerns, Functions
  <2>2. CASE AddFeed
    <3>1. PICK ok \in BOOLEAN : /\ Move("thread", "addFeed", IF ok THEN "toStreaming" ELSE "over")
                              /\ Returns("thread", ok) /\ UNCHANGED sent
      BY <2>2 DEF AddFeed
    <3>2. /\ at["thread"] = "addFeed" /\ at'["thread"] \in {"toStreaming", "over"}
          /\ \A y \in Actors \ {"thread"} : at'[y] = at[y]
      BY <3>1, Moves
    <3>3. /\ \A y \in Actors \ {"thread"} : arrived'[y] = arrived[y]
          /\ ~titleExcused' => ~titleExcused
          /\ UNCHANGED <<state, title, rating, onServer>>
      BY <3>1, Returned
    <3> QED
      BY <3>1, <3>2, <3>3, TitleOfNoConcern DEF TitleConcerns
  <2>3. CASE ToStreaming
    BY <2>3, Moves, TitleOfNoConcern DEF ToStreaming, Transition, TitleConcerns, Functions
  <2>4. CASE SendStartBroadcast
    BY <2>4, TitleRead, Moves DEF SendStartBroadcast
  <2>5. CASE StartBroadcast
    <3>1. PICK ok \in BOOLEAN : /\ Move("thread", "startBroadcast", "toLive")
                              /\ Returns("thread", ok) /\ UNCHANGED sent
      BY <2>5 DEF StartBroadcast
    <3>2. state # "Live"
      BY <3>1, Moves DEF Places, BeforeLive
    <3> QED
      BY <3>1, <3>2, TitleReturns
  <2>6. CASE ToLive
    <3> SUFFICES ASSUME ~titleExcused' PROVE TitleOnItsWay'
      BY DEF TitleOnItsWay
    <3>1. /\ at["thread"] = "toLive" /\ at'["thread"] \in {"loop", "over"}
          /\ \A y \in Actors \ {"thread"} : at'[y] = at[y] /\ sent'[y] = sent[y]
          /\ state' = IF state = "Streaming" THEN "Live" ELSE state
          /\ ~titleExcused /\ UNCHANGED <<title, rating, onServer, arrived>>
      BY <2>6, Moves DEF ToLive, Transition, Functions
    <3>2. state \in {"Streaming", "Stopping"}
      BY <3>1 DEF Places, BeforeLive
    <3>3. \A y \in Actors : at'[y] \notin TitlePlaces \cup {"toLive"}
      BY <3>1 DEF Places, BeforeLive, SetterPlaces, Actors
    <3>4. fullTitle' = fullTitle /\ onServer.title = sent["thread"]
      BY <3>1, SameTitle DEF TitleOnItsWay
    <3>5. ASSUME state' # "Stopping", Quiet({"titleTest", "readTitle"})'
          PROVE  onServer'.title = fullTitle'
      <4>1. Quiet({"titleTest", "readTitle"}) /\ state # "Stopping"
        BY <3>1, <3>2, <3>5 DEF Quiet
      <4> QED
        BY <3>1, <3>4, <4>1 DEF TitleOnItsWay
    <3> QED
      BY <3>3, <3>5 DEF TitleOnItsWay
  <2>7. CASE Heartbeat
    BY <2>7, Moves, TitleOfNoConcern DEF Heartbeat, TitleConcerns
  <2>8. CASE UpdateFeed
    <3>1. PICK ok \in BOOLEAN : /\ Move("thread", "sendFeed", IF ok THEN "loop" ELSE "over")
                              /\ Returns("thread", ok)
      BY <2>8 DEF UpdateFeed
    <3>2. /\ at["thread"] = "sendFeed" /\ at'["thread"] \in {"loop", "over"}
          /\ \A y \in Actors \ {"thread"} : at'[y] = at[y] /\ sent'[y] = sent[y]
      BY <2>8, <3>1, Moves DEF UpdateFeed, Functions
    <3>3. /\ \A y \in Actors \ {"thread"} : arrived'[y] = arrived[y]
          /\ ~titleExcused' => ~titleExcused
          /\ UNCHANGED <<state, title, rating, onServer>>
      BY <3>1, Returned
    <3> QED
      BY <3>2, <3>3, TitleOfNoConcern DEF TitleConcerns
  <2>9. CASE ThreadEnds
    BY <2>9, Moves, TitleOfNoConcern DEF ThreadEnds, TitleConcerns
  <2> QED
    BY <1>1, <2>1, <2>2, <2>3, <2>4, <2>5, <2>6, <2>7, <2>8, <2>9 DEF Thread
<1>2. CASE Stop
  BY <1>2, TitleOfNoConcern DEF Stop
<1>3. ASSUME NEW x \in Setters, Setter(x) PROVE TitleOnItsWay'
  <2>1. CASE SetTitle(x) \/ SetRating(x)
    <3>1. /\ at[x] = "idle" /\ at'[x] = "titleTest" /\ \A y \in Actors \ {x} : at'[y] = at[y]
          /\ UNCHANGED <<sent, arrived, onServer, titleExcused>>
      BY <2>1, Moves DEF SetTitle, SetRating, Sets
    <3>2. ~Quiet({"titleTest", "readTitle"})'
      BY <3>1 DEF Quiet
    <3> QED
      BY <3>1, <3>2 DEF TitleOnItsWay
  <2>2. CASE SetGameId(x)
    BY <2>2, Moves, TitleOfNoConcern DEF SetGameId, Sets, TitleConcerns
  <2>3. CASE TitleTest(x)
    <3> SUFFICES ASSUME ~titleExcused' PROVE TitleOnItsWay'
      BY DEF TitleOnItsWay
    <3>1. /\ at[x] = "titleTest" /\ at'[x] = IF state = "Live" THEN "readTitle" ELSE "idle"
          /\ \A y \in Actors \ {x} : at'[y] = at[y]
          /\ UNCHANGED <<state, title, rating, sent, arrived, onServer>>
          /\ ~titleExcused
          /\ state # "Live" /\ at["thread"] \in {"startBroadcast", "toLive"} =>
                sent["thread"] = fullTitle
      BY <2>3, Moves DEF TitleTest
    <3>2. fullTitle' = fullTitle
      BY <3>1, SameTitle
    <3>3. ASSUME state' # "Stopping", Quiet({"titleTest", "readTitle"})'
          PROVE  /\ state # "Live"
                 /\ \A y \in Actors : at'[y] \in TitlePlaces \cup {"toLive"} => sent'[y] = fullTitle'
      <4>1. state # "Live"
        BY <3>1, <3>3 DEF Quiet
      <4>2. \A y \in Actors : at'[y] \in TitlePlaces \cup {"toLive"} =>
               y = "thread" /\ at["thread"] \in {"startBroadcast", "toLive"}
        BY <3>1, <3>3, <4>1 DEF Places, SetterPlaces, ThreadPlaces, Actors
      <4> QED
        BY <3>1, <3>2, <4>1, <4>2
    <3> QED
      BY <3>1, <3>3 DEF TitleOnItsWay
  <2>4. CASE FeedTest(x)
    BY <2>4, Moves, TitleOfNoConcern DEF FeedTest, TitleConcerns
  <2>5. CASE ReadTitle(x)
    <3>1. at["thread"] # "toLive"
      BY <2>5, Moves DEF ReadTitle, Places, BeforeLive
    <3> QED
      BY <2>5, <3>1, TitleRead DEF ReadTitle
  <2>6. CASE SetterReturns(x)
    <3>1. PICK from \in {"sendTitle", "sendFeed"}, ok \in BOOLEAN :
             Move(x, from, "idle") /\ Returns(x, ok)
      BY <2>6 DEF SetterReturns
    <3>2. \A y \in Actors \ {x} : sent'[y] = sent[y]
      BY <2>6 DEF SetterReturns, Functions
    <3>3. CASE from = "sendTitle"
      BY <3>1, <3>2, <3>3, TitleReturns DEF TitleConcerns
    <3>4. CASE from = "sendFeed"
      <4>1. /\ at[x] = "sendFeed" /\ at'[x] = "idle"
            /\ \A y \in Actors \ {x} : at'[y] = at[y]
        BY <3>1, <3>4, Moves
      <4>2. /\ \A y \in Actors \ {x} : arrived'[y] = arrived[y]
            /\ ~titleExcused' => ~titleExcused
            /\ UNCHANGED <<state, title, rating, onServer>>
        BY <3>1, Returned
      <4> QED
        BY <3>2, <4>1, <4>2, TitleOfNoConcern DEF TitleConcerns
    <3> QED
      BY <3>1, <3>3, <3>4
  <2> QED
    BY <1>3, <2>1, <2>2, <2>3, <2>4, <2>5, <2>6 DEF Setter
<1>4. ASSUME NEW x \in Actors, ReadFeed(x) PROVE TitleOnItsWay'
  BY <1>4, Moves, TitleOfNoConcern DEF ReadFeed, ReadsFeed, TitleConcerns, Functions
<1>5. ASSUME NEW x \in Actors, Arrives(x) PROVE TitleOnItsWay'
  <2>1. /\ UNCHANGED <<state, title, rating, at, sent, titleExcused>>
        /\ arrived'[x] = TRUE /\ \A y \in Actors \ {x} : arrived'[y] = arrived[y]
    BY <1>5 DEF Arrives, Functions
  <2>2. CASE at[x] \in TitlePlaces
    <3>1. onServer'.title = sent[x] /\ ~Quiet(TitlePlaces)'
      BY <1>5, <2>1, <2>2 DEF Arrives, Functions, Quiet
    <3>2. ~titleExcused => at["thread"] # "toLive"
      BY <2>2 DEF Places, BeforeLive, SetterPlaces, Actors
    <3>3. fullTitle' = fullTitle /\ \A places : Quiet(places)' = Quiet(places)
      BY <2>1, SameTitle DEF Quiet
    <3> QED
      BY <2>1, <2>2, <3>1, <3>2, <3>3 DEF TitleOnItsWay
  <2>3. CASE at[x] \notin TitlePlaces
    <3>1. onServer'.title = onServer.title /\ at[x] \notin TitleConcerns
      BY <1>5, <2>3 DEF Arrives, Functions, TitleConcerns
    <3> QED
      BY <2>1, <3>1, TitleOfNoConcern
  <2> QED
    BY <2>2, <2>3
<1>6. CASE UNCHANGED vars
  BY <1>6, TitleOfNoConcern DEF vars
<1> QED
  BY <1>1, <1>2, <1>3, <1>4, <1>5, <1>6 DEF Next

(* So it is with what was set of the feed. *)
LEMMA FeedKept ==
    ASSUME Functions, Places, FeedOnItsWay, [Next]_vars PROVE FeedOnItsWay'
<1>0. "thread" \in Actors /\ \A x \in Setters : x \in Actors /\ x # "thread"
  BY Threads
<1> USE <1>0 DEF TitlePlaces, FeedPlaces, requests, fields, history
<1>1. CASE Thread
  <2> USE DEF ThreadMoves
  <2>1. CASE CreateFeed
    BY <2>1, FeedRead, Moves DEF CreateFeed
  <2>2. CASE AddFeed
    <3>1. PICK ok \in BOOLEAN : /\ Move("thread", "addFeed", IF ok THEN "toStreaming" ELSE "over")
                              /\ Returns("thread", ok) /\ UNCHANGED sent
      BY <2>2 DEF AddFeed
    <3>2. ~isOnline
      BY <3>1, Moves DEF Places, BeforeStreaming, isOnline
    <3> QED
      BY <3>1, <3>2, FeedReturns DEF FeedConcerns
  <2>3. CASE ToStreaming
    <3> SUFFICES ASSUME ~feedExcused' PROVE FeedOnItsWay'
      BY DEF FeedOnItsWay
    <3>1. /\ at["thread"] = "toStreaming" /\ at'["thread"] \in {"goLive", "over"}
          /\ \A y \in Actors \ {"thread"} : at'[y] = at[y] /\ sent'[y] = sent[y]
          /\ state' = IF state = "Starting" THEN "Streaming" ELSE state
          /\ ~feedExcused /\ UNCHANGED <<gameId, connectionQuality, onServer, arrived>>
      BY <2>3, Moves DEF ToStreaming, Transition, Functions
    <3>2. state \in {"Starting", "Stopping"}
      BY <3>1 DEF Places, BeforeStreaming
    <3>3. \A y \in Actors : at'[y] \notin FeedPlaces \cup {"toStreaming"}
      BY <3>1 DEF Places, BeforeStreaming, SetterPlaces, Actors
    <3>4. currentFeedInput' = currentFeedInput /\ onServer.feed = sent["thread"]
      BY <3>1, SameFeed DEF FeedOnItsWay
    <3>5. ASSUME state' # "Stopping", Quiet({"feedTest", "readFeed"})'
          PROVE  onServer'.feed = currentFeedInput'
      <4>1. Quiet({"feedTest", "readFeed"}) /\ state # "Stopping"
        BY <3>1, <3>2, <3>5 DEF Quiet
      <4> QED
        BY <3>1, <3>4, <4>1 DEF FeedOnItsWay
    <3> QED
      BY <3>3, <3>5 DEF FeedOnItsWay
  <2>4. CASE SendStartBroadcast
    BY <2>4, Moves, FeedOfNoConcern DEF SendStartBroadcast, ReadsTitle, FeedConcerns, Functions,
       isOnline
  <2>5. CASE StartBroadcast
    <3>1. PICK ok \in BOOLEAN : /\ Move("thread", "startBroadcast", "toLive")
                              /\ Returns("thread", ok) /\ UNCHANGED sent
      BY <2>5 DEF StartBroadcast
    <3>2. /\ at["thread"] = "startBroadcast" /\ at'["thread"] = "toLive"
          /\ \A y \in Actors \ {"thread"} : at'[y] = at[y]
      BY <3>1, Moves
    <3>3. /\ \A y \in Actors \ {"thread"} : arrived'[y] = arrived[y]
          /\ ~feedExcused' => ~feedExcused
          /\ UNCHANGED <<state, gameId, connectionQuality, onServer>>
      BY <3>1, Returned
    <3> QED
      BY <3>1, <3>2, <3>3, FeedOfNoConcern DEF FeedConcerns, isOnline
  <2>6. CASE ToLive
    BY <2>6, Moves, FeedOfNoConcern DEF ToLive, Transition, FeedConcerns, Functions, isOnline
  <2>7. CASE Heartbeat
    <3>1. /\ at["thread"] = "loop" /\ at'["thread"] = "readFeed"
          /\ \A y \in Actors \ {"thread"} : at'[y] = at[y]
          /\ UNCHANGED <<sent, arrived, onServer, feedExcused>>
      BY <2>7, Moves DEF Heartbeat
    <3>2. ~Quiet({"feedTest", "readFeed"})'
      BY <3>1 DEF Quiet
    <3> QED
      BY <3>1, <3>2 DEF FeedOnItsWay
  <2>8. CASE UpdateFeed
    <3>1. PICK ok \in BOOLEAN : /\ Move("thread", "sendFeed", IF ok THEN "loop" ELSE "over")
                              /\ Returns("thread", ok)
      BY <2>8 DEF UpdateFeed
    <3>2. \A y \in Actors \ {"thread"} : sent'[y] = sent[y]
      BY <2>8 DEF UpdateFeed, Functions
    <3> QED
      BY <3>1, <3>2, FeedReturns DEF FeedConcerns
  <2>9. CASE ThreadEnds
    BY <2>9, Moves, FeedOfNoConcern DEF ThreadEnds, FeedConcerns, isOnline
  <2> QED
    BY <1>1, <2>1, <2>2, <2>3, <2>4, <2>5, <2>6, <2>7, <2>8, <2>9 DEF Thread
<1>2. CASE Stop
  BY <1>2, FeedOfNoConcern DEF Stop, isOnline
<1>3. ASSUME NEW x \in Setters, Setter(x) PROVE FeedOnItsWay'
  <2>1. CASE SetTitle(x) \/ SetRating(x)
    BY <2>1, Moves, FeedOfNoConcern DEF SetTitle, SetRating, Sets, FeedConcerns, isOnline
  <2>2. CASE SetGameId(x)
    <3>1. /\ at[x] = "idle" /\ at'[x] = "feedTest" /\ \A y \in Actors \ {x} : at'[y] = at[y]
          /\ UNCHANGED <<sent, arrived, onServer, feedExcused>>
      BY <2>2, Moves DEF SetGameId, Sets
    <3>2. ~Quiet({"feedTest", "readFeed"})'
      BY <3>1 DEF Quiet
    <3> QED
      BY <3>1, <3>2 DEF FeedOnItsWay
  <2>3. CASE TitleTest(x)
    BY <2>3, Moves, FeedOfNoConcern DEF TitleTest, FeedConcerns, isOnline
  <2>4. CASE FeedTest(x)
    <3> SUFFICES ASSUME ~feedExcused' PROVE FeedOnItsWay'
      BY DEF FeedOnItsWay
    <3>1. /\ at[x] = "feedTest" /\ at'[x] = IF isOnline THEN "readFeed" ELSE "idle"
          /\ \A y \in Actors \ {x} : at'[y] = at[y]
          /\ UNCHANGED <<state, gameId, connectionQuality, sent, arrived, onServer>>
          /\ ~feedExcused
          /\ ~isOnline /\ at["thread"] \in {"addFeed", "toStreaming"} =>
                sent["thread"] = currentFeedInput
      BY <2>4, Moves DEF FeedTest
    <3>2. currentFeedInput' = currentFeedInput /\ isOnline' = isOnline
      BY <3>1, SameFeed DEF isOnline
    <3>3. ASSUME state' # "Stopping", Quiet({"feedTest", "readFeed"})'
          PROVE  /\ ~isOnline
                 /\ \A y \in Actors :
                       at'[y] \in FeedPlaces \cup {"toStreaming"} => sent'[y] = currentFeedInput'
      <4>1. ~isOnline
        BY <3>1, <3>3 DEF Quiet
      <4>2. state = "Starting"
        BY <3>1, <3>3, <4>1 DEF Places, isOnline
      <4>3. \A y \in Actors : at'[y] \in FeedPlaces \cup {"toStreaming"} =>
               y = "thread" /\ at["thread"] \in {"addFeed", "toStreaming"}
        BY <3>1, <4>1, <4>2 DEF Places, SetterPlaces, ThreadPlaces, Actors
      <4> QED
        BY <3>1, <3>2, <4>1, <4>3
    <3> QED
      BY <3>1, <3>2, <3>3 DEF FeedOnItsWay
  <2>5. CASE ReadTitle(x)
    BY <2>5, Moves, FeedOfNoConcern DEF ReadTitle, ReadsTitle, FeedConcerns, Functions, isOnline
  <2>6. CASE SetterReturns(x)
    <3>1. PICK from \in {"sendTitle", "sendFeed"}, ok \in BOOLEAN :
             Move(x, from, "idle") /\ Returns(x, ok)
      BY <2>6 DEF SetterReturns
    <3>2. \A y \in Actors \ {x} : sent'[y] = sent[y]
      BY <2>6 DEF SetterReturns, Functions
    <3>3. CASE from = "sendFeed"
      BY <3>1, <3>2, <3>3, FeedReturns DEF FeedConcerns
    <3>4. CASE from = "sendTitle"
      <4>1. /\ at[x] = "sendTitle" /\ at'[x] = "idle"
            /\ \A y \in Actors \ {x} : at'[y] = at[y]
        BY <3>1, <3>4, Moves
      <4>2. /\ \A y \in Actors \ {x} : arrived'[y] = arrived[y]
            /\ ~feedExcused' => ~feedExcused
            /\ UNCHANGED <<state, gameId, connectionQuality, onServer>>
        BY <3>1, Returned
      <4> QED
        BY <3>2, <4>1, <4>2, FeedOfNoConcern DEF FeedConcerns, isOnline
    <3> QED
      BY <3>1, <3>3, <3>4
  <2> QED
    BY <1>3, <2>1, <2>2, <2>3, <2>4, <2>5, <2>6 DEF Setter
<1>4. ASSUME NEW x \in Actors, ReadFeed(x) PROVE FeedOnItsWay'
  <2>1. at["thread"] # "toStreaming"
    BY <1>4, Moves DEF ReadFeed, Places, BeforeStreaming, Actors
  <2> QED
    BY <1>4, <2>1, FeedRead DEF ReadFeed
<1>5. ASSUME NEW x \in Actors, Arrives(x) PROVE FeedOnItsWay'
  <2>1. /\ UNCHANGED <<state, gameId, connectionQuality, at, sent, feedExcused>>
        /\ arrived'[x] = TRUE /\ \A y \in Actors \ {x} : arrived'[y] = arrived[y]
    BY <1>5 DEF Arrives, Functions
  <2>2. CASE at[x] \in FeedPlaces
    <3>1. onServer'.feed = sent[x] /\ ~Quiet(FeedPlaces)'
      BY <1>5, <2>1, <2>2 DEF Arrives, Functions, Quiet
    <3>2. ~feedExcused => at["thread"] # "toStreaming"
      BY <2>2 DEF Places, BeforeStreaming, SetterPlaces, Actors
    <3>3. currentFeedInput' = currentFeedInput /\ \A places : Quiet(places)' = Quiet(places)
      BY <2>1, SameFeed DEF Quiet
    <3> QED
      BY <2>1, <2>2, <3>1, <3>2, <3>3 DEF FeedOnItsWay
  <2>3. CASE at[x] \notin FeedPlaces
    <3>1. onServer'.feed = onServer.feed /\ at[x] \notin FeedConcerns
      BY <1>5, <2>3 DEF Arrives, Functions, FeedConcerns
    <3> QED
      BY <2>1, <3>1, FeedOfNoConcern DEF isOnline
  <2> QED
    BY <2>2, <2>3
<1>6. CASE UNCHANGED vars
  BY <1>6, FeedOfNoConcern DEF vars, isOnline
<1> QED
  BY <1>1, <1>2, <1>3, <1>4, <1>5, <1>6 DEF Next

-----------------------------------------------------------------------------
(* What the request of an actor says is changed only by its reading the fields. *)
LEMMA SentChanges ==
    ASSUME Functions, [Next]_vars, NEW x \in Actors
    PROVE  \/ /\ sent'[x] = sent[x]
              /\ at'[x] \in TitlePlaces \cup FeedPlaces => at'[x] = at[x]
           \/ sent'[x] = fullTitle /\ at'[x] \in TitlePlaces
           \/ sent'[x] = currentFeedInput /\ at'[x] \in FeedPlaces
           \/ sent'[x] = None /\ at'[x] \notin TitlePlaces \cup FeedPlaces
<1>0. "thread" \in Actors /\ \A y \in Setters : y \in Actors
  BY Threads
<1> USE <1>0 DEF Functions, Move, ThreadMoves, TitlePlaces, FeedPlaces, requests
<1>1. CASE Thread
  <2>1. CASE CreateFeed
    BY <2>1 DEF CreateFeed, ReadsFeed
  <2>2. CASE AddFeed
    BY <2>2 DEF AddFeed
  <2>3. CASE ToStreaming
    BY <2>3 DEF ToStreaming, Transition
  <2>4. CASE SendStartBroadcast
    BY <2>4 DEF SendStartBroadcast, ReadsTitle
  <2>5. CASE StartBroadcast
    BY <2>5 DEF StartBroadcast
  <2>6. CASE ToLive
    BY <2>6 DEF ToLive, Transition
  <2>7. CASE Heartbeat
    BY <2>7 DEF Heartbeat
  <2>8. CASE UpdateFeed
    BY <2>8 DEF UpdateFeed
  <2>9. CASE ThreadEnds
    BY <2>9 DEF ThreadEnds
  <2> QED
    BY <1>1, <2>1, <2>2, <2>3, <2>4, <2>5, <2>6, <2>7, <2>8, <2>9 DEF Thread
<1>2. CASE Stop
  BY <1>2 DEF Stop
<1>3. ASSUME NEW y \in Setters, Setter(y)
      PROVE  \/ /\ sent'[x] = sent[x]
                /\ at'[x] \in TitlePlaces \cup FeedPlaces => at'[x] = at[x]
             \/ sent'[x] = fullTitle /\ at'[x] \in TitlePlaces
             \/ sent'[x] = currentFeedInput /\ at'[x] \in FeedPlaces
             \/ sent'[x] = None /\ at'[x] \notin TitlePlaces \cup FeedPlaces
  <2>1. CASE SetTitle(y) \/ SetRating(y) \/ SetGameId(y)
    BY <2>1 DEF SetTitle, SetRating, SetGameId, Sets
  <2>2. CASE TitleTest(y) \/ FeedTest(y)
    BY <2>2 DEF TitleTest, FeedTest
  <2>3. CASE ReadTitle(y)
    BY <2>3 DEF ReadTitle, ReadsTitle
  <2>4. CASE SetterReturns(y)
    BY <2>4 DEF SetterReturns
  <2> QED
    BY <1>3, <2>1, <2>2, <2>3, <2>4 DEF Setter
<1>4. ASSUME NEW y \in Actors, ReadFeed(y)
      PROVE  \/ sent'[x] = currentFeedInput /\ at'[x] \in FeedPlaces
             \/ sent'[x] = sent[x] /\ at'[x] = at[x]
  BY <1>4 DEF ReadFeed, ReadsFeed
<1>5. ASSUME NEW y \in Actors, Arrives(y) PROVE sent'[x] = sent[x] /\ at'[x] = at[x]
  BY <1>5 DEF Arrives
<1>6. CASE UNCHANGED vars
  BY <1>6 DEF vars
<1> QED
  BY <1>1, <1>2, <1>3, <1>4, <1>5, <1>6 DEF Next

(* The server gets what is on its way to it. *)
LEMMA ServerChanges ==
    ASSUME Functions, [Next]_vars
    PROVE  \/ UNCHANGED onServer
           \/ \E x \in Actors :
                 \/ at[x] \in TitlePlaces /\ onServer' = [onServer EXCEPT !.title = sent[x]]
                 \/ at[x] \in FeedPlaces /\ onServer' = [onServer EXCEPT !.feed = sent[x]]
<1>1. CASE Thread
  BY <1>1 DEF Thread, CreateFeed, ReadsFeed, AddFeed, Returns, ToStreaming, Transition,
     SendStartBroadcast, ReadsTitle, StartBroadcast, ToLive, Heartbeat, UpdateFeed, ThreadEnds
<1>2. CASE Stop
  BY <1>2 DEF Stop
<1>3. ASSUME NEW x \in Setters, Setter(x) PROVE UNCHANGED onServer
  BY <1>3 DEF Setter, SetTitle, SetRating, SetGameId, Sets, TitleTest, FeedTest, ReadTitle,
     ReadsTitle, SetterReturns, Returns
<1>4. ASSUME NEW x \in Actors, ReadFeed(x) PROVE UNCHANGED onServer
  BY <1>4 DEF ReadFeed, ReadsFeed
<1>5. ASSUME NEW x \in Actors, Arrives(x)
      PROVE  \/ at[x] \in TitlePlaces /\ onServer' = [onServer EXCEPT !.title = sent[x]]
             \/ at[x] \in FeedPlaces /\ onServer' = [onServer EXCEPT !.feed = sent[x]]
  BY <1>5 DEF Arrives
<1>6. CASE UNCHANGED vars
  BY <1>6 DEF vars
<1> QED
  BY <1>1, <1>2, <1>3, <1>4, <1>5, <1>6 DEF Next

(* The fields are set to what the application and the heartbeats may set. *)
LEMMA FieldsKept ==
    ASSUME Types, [Next]_vars
    PROVE  /\ title' \in Titles /\ rating' \in Ratings /\ gameId' \in Games
           /\ connectionQuality' \in Qualities \cup {Unknown}
<1> USE DEF Types, fields
<1>1. CASE Thread
  BY <1>1 DEF Thread, CreateFeed, ReadsFeed, AddFeed, Returns, ToStreaming, Transition,
     SendStartBroadcast, ReadsTitle, StartBroadcast, ToLive, Heartbeat, UpdateFeed, ThreadEnds
<1>2. CASE Stop
  BY <1>2 DEF Stop
<1>3. ASSUME NEW x \in Setters, Setter(x)
      PROVE  /\ title' \in Titles /\ rating' \in Ratings /\ gameId' \in Games
             /\ connectionQuality' \in Qualities \cup {Unknown}
  BY <1>3 DEF Setter, SetTitle, SetRating, SetGameId, Sets, TitleTest, FeedTest, ReadTitle,
     ReadsTitle, SetterReturns, Returns
<1>4. ASSUME NEW x \in Actors, ReadFeed(x) \/ Arrives(x) PROVE UNCHANGED fields
  BY <1>4 DEF ReadFeed, ReadsFeed, Arrives
<1>5. CASE UNCHANGED vars
  BY <1>5 DEF vars
<1> QED
  BY <1>1, <1>2, <1>3, <1>4, <1>5 DEF Next

(* What is read of the fields is a title, or a feed. *)
LEMMA ReadTypes ==
    ASSUME Types PROVE fullTitle \in FullTitles /\ currentFeedInput \in Feeds
BY DEF Types, fullTitle, FullTitles, currentFeedInput, Feeds

(* Titles and feeds arrive where they belong. *)
LEMMA TypesKept == ASSUME Functions, Types, [Next]_vars PROVE Types'
<1>1. /\ title' \in Titles /\ rating' \in Ratings /\ gameId' \in Games
      /\ connectionQuality' \in Qualities \cup {Unknown}
  BY FieldsKept
<1>2. FullTitles' = FullTitles /\ Feeds' = Feeds
  BY DEF FullTitles, Feeds, annotateTitle, Ratings
<1>3. ASSUME NEW x \in Actors
      PROVE  /\ sent'[x] \in FullTitles \cup Feeds \cup {None}
             /\ at'[x] \in TitlePlaces => sent'[x] \in FullTitles
             /\ at'[x] \in FeedPlaces => sent'[x] \in Feeds
  <2>1. TitlePlaces \cap FeedPlaces = {}
    BY DEF TitlePlaces, FeedPlaces
  <2>2. CASE sent'[x] = sent[x] /\ (at'[x] \in TitlePlaces \cup FeedPlaces => at'[x] = at[x])
    BY <2>2 DEF Types
  <2>3. CASE sent'[x] = fullTitle /\ at'[x] \in TitlePlaces
    BY <2>1, <2>3, ReadTypes
  <2>4. CASE sent'[x] = currentFeedInput /\ at'[x] \in FeedPlaces
    BY <2>1, <2>4, ReadTypes
  <2>5. CASE sent'[x] = None /\ at'[x] \notin TitlePlaces \cup FeedPlaces
    BY <2>5
  <2> QED
    BY <2>2, <2>3, <2>4, <2>5, SentChanges
<1>4. onServer'.title \in FullTitles \cup {None} /\ onServer'.feed \in Feeds \cup {None}
  <2>1. CASE UNCHANGED onServer
    BY <2>1 DEF Types
  <2>2. ASSUME NEW x \in Actors, at[x] \in TitlePlaces,
               onServer' = [onServer EXCEPT !.title = sent[x]]
        PROVE  onServer'.title = sent[x] /\ onServer'.feed = onServer.feed
    BY <2>2 DEF Functions
  <2>3. ASSUME NEW x \in Actors, at[x] \in FeedPlaces,
               onServer' = [onServer EXCEPT !.feed = sent[x]]
        PROVE  onServer'.feed = sent[x] /\ onServer'.title = onServer.title
    BY <2>3 DEF Functions
  <2> QED
    BY <2>1, <2>2, <2>3, ServerChanges DEF Types
<1> QED
  BY <1>1, <1>2, <1>3, <1>4 DEF Types

-----------------------------------------------------------------------------
(* Titles. *)

(* What is trimmed is what lies between the first byte that is no space and the last. *)
LEMMA Trimmed ==
    ASSUME NEW t \in Seq(Bytes)
    PROVE  \/ (\A i \in DOMAIN t : t[i] = space) /\ trim(t) = <<>>
           \/ \E first, last \in DOMAIN t :
                 /\ first <= last /\ trim(t) = SubSeq(t, first, last)
                 /\ t[first] # space /\ t[last] # space
                 /\ \A i \in DOMAIN t \ (first..last) : t[i] = space
<1> DEFINE ink == {i \in DOMAIN t : t[i] # space}
<1>1. Len(t) \in Nat /\ DOMAIN t = 1..Len(t)
  BY LenProperties
<1>2. CASE ink = {}
  BY <1>2 DEF trim
<1>3. CASE ink # {}
  <2>1. ink \in SUBSET Nat /\ ink \in SUBSET (0..Len(t))
    BY <1>1
  <2> DEFINE first == Min(ink)
             last == Max(ink)
  <2>2. first \in ink /\ \A i \in ink : first <= i
    <3>1. \E m \in ink : \A i \in ink : m <= i
      <4> HIDE DEF ink
      <4> QED
        BY <1>3, <2>1, LeastElement
    <3> HIDE DEF ink
    <3> QED
      BY <3>1 DEF Min
  <2>3. last \in ink /\ \A i \in ink : i <= last
    <3>1. \E m \in ink : \A i \in ink : i <= m
      <4> HIDE DEF ink
      <4> QED
        BY <1>1, <1>3, <2>1, GreatestElement
    <3>2. \E m \in ink : \A i \in ink : m >= i
      <4>1. PICK m \in ink : \A i \in ink : i <= m
        BY <3>1
      <4>2. \A i \in ink : m >= i
        BY <2>1, <4>1
      <4> HIDE DEF ink
      <4> QED
        BY <4>1, <4>2
    <3>3. last \in ink /\ \A i \in ink : last >= i
      <4> HIDE DEF ink
      <4> QED
        BY <3>2 DEF Max
    <3> QED
      BY <2>1, <3>3
  <2>4. trim(t) = SubSeq(t, first, last)
    BY <1>3 DEF trim
  <2> HIDE DEF first, last
  <2>5. /\ first \in DOMAIN t /\ t[first] # space
        /\ last \in DOMAIN t /\ t[last] # space
        /\ first <= last
    BY <2>2, <2>3
  <2>6. ASSUME NEW i \in DOMAIN t \ (first..last) PROVE t[i] = space
    BY <1>1, <2>2, <2>3, <2>5
  <2> QED
    BY <2>4, <2>5, <2>6
<1> QED
  BY <1>2, <1>3

(* What is put after the tag is no blank: the title without the spaces around it, or
   the default. *)
LEMMA Titled ==
    ASSUME NEW t \in Seq(Bytes)
    PROVE  LET body == titled(trim(t))
           IN  /\ body \in Seq(Bytes) /\ Len(body) \in Nat \ {0} /\ body[1] # space
               /\ \/ body = defaultTitle /\ \A i \in DOMAIN t : t[i] = space
                  \/ \E first, last \in DOMAIN t :
                        /\ body = SubSeq(t, first, last) /\ Len(body) <= Len(t)
                        /\ t[first] # space
                        /\ \A i \in DOMAIN t \ (first..last) : t[i] = space
<1> DEFINE body == titled(trim(t))
<1>1. Len(t) \in Nat /\ DOMAIN t = 1..Len(t) /\ \A i \in 1..Len(t) : t[i] \in Bytes
  BY LenProperties, ElementOfSeq
<1>2. CASE trim(t) = <<>> /\ \A i \in DOMAIN t : t[i] = space
  <2>1. body = defaultTitle
    BY <1>2 DEF titled
  <2>2. defaultTitle \in Seq(Bytes) /\ defaultTitle # <<>> /\ defaultTitle[1] # space
    BY TitleAssumption
  <2>3. Len(defaultTitle) \in Nat \ {0}
    BY <2>2, EmptySeq
  <2> HIDE DEF body
  <2>4. /\ body \in Seq(Bytes) /\ Len(body) \in Nat \ {0} /\ body[1] # space
    BY <2>1, <2>2, <2>3
  <2> QED
    BY <1>2, <2>1, <2>4 DEF body
<1>3. CASE \E first, last \in DOMAIN t :
              /\ first <= last /\ trim(t) = SubSeq(t, first, last)
              /\ t[first] # space /\ t[last] # space
              /\ \A i \in DOMAIN t \ (first..last) : t[i] = space
  <2>1. PICK first \in DOMAIN t, last \in DOMAIN t :
              /\ first <= last /\ trim(t) = SubSeq(t, first, last)
              /\ t[first] # space
              /\ \A i \in DOMAIN t \ (first..last) : t[i] = space
    BY <1>3
  <2> DEFINE part == SubSeq(t, first, last)
  <2>2. /\ first \in Int /\ last \in Int /\ first >= 1 /\ last <= Len(t)
        /\ \A i \in first..last : t[i] \in Bytes
    BY <1>1, <2>1
  <2>3. /\ part \in Seq(Bytes) /\ Len(part) = last - first + 1
        /\ \A i \in 1..last - first + 1 : part[i] = t[first + i - 1]
    BY <2>1, <2>2, SubSeqProperties
  <2>4. Len(part) \in Nat \ {0} /\ Len(part) <= Len(t)
    <3> HIDE DEF part
    <3> QED
      BY <1>1, <2>1, <2>2, <2>3
  <2>5. part[1] # space
    <3>1. 1 \in 1..last - first + 1 /\ first + 1 - 1 = first
      BY <2>1, <2>2
    <3> QED
      BY <2>1, <2>3, <3>1
  <2>6. part # <<>>
    BY <2>4
  <2>7. body = part
    BY <2>1, <2>6 DEF titled
  <2> HIDE DEF body
  <2>8. body \in Seq(Bytes) /\ Len(body) \in Nat \ {0} /\ body[1] # space
    <3> HIDE DEF part
    <3> QED
      BY <2>3, <2>4, <2>5, <2>7
  <2>9. body = SubSeq(t, first, last) /\ Len(body) <= Len(t)
    BY <2>4, <2>7
  <2> QED
    BY <2>1, <2>8, <2>9 DEF body
<1> QED
  BY <1>2, <1>3, Trimmed

(* The tag, if any. *)
LEMMA Tag ==
    ASSUME NEW r
    PROVE  /\ tag(r) \in Seq(Bytes) /\ Len(tag(r)) \in Nat
           /\ Len(tag(r)) <= Len(seventeenPlusTag) /\ Len(seventeenPlusTag) \in Nat
<1>1. seventeenPlusTag \in Seq(Bytes) /\ <<>> \in Seq(Bytes) /\ Len(<<>>) = 0
  BY TitleAssumption, EmptySeq
<1>2. Len(seventeenPlusTag) \in Nat
  BY <1>1, LenProperties
<1> QED
  BY <1>1, <1>2 DEF tag

(* The annotated title is the tag and as much of what follows it as there is room for,
   of which there is some. *)
LEMMA Annotated ==
    ASSUME NEW t \in Seq(Bytes), NEW r
    PROVE  LET p == tag(r)
               body == titled(trim(t))
               text == annotateTitle(t, r)
           IN  /\ Len(text) \in Nat /\ Len(text) <= maxTitleLength
               /\ IsPrefix(p, text)
               /\ \E n \in 1..Len(body) :
                     /\ SubSeq(text, Len(p) + 1, Len(text)) = SubSeq(body, 1, n)
                     /\ Len(p) + Len(body) <= maxTitleLength => n = Len(body)
<1> DEFINE p == tag(r)
           body == titled(trim(t))
           text == annotateTitle(t, r)
           whole == p \o body
           n == IF Len(whole) > maxTitleLength THEN maxTitleLength ELSE Len(whole)
<1>1. /\ p \in Seq(Bytes) /\ Len(p) \in Nat
      /\ Len(p) <= Len(seventeenPlusTag) /\ Len(seventeenPlusTag) \in Nat
  BY Tag
<1>2. body \in Seq(Bytes) /\ Len(body) \in Nat \ {0}
  BY Titled
<1>3. text = cut(whole)
  BY DEF annotateTitle
<1> HIDE DEF p, body, text
<1>4. /\ whole \in Seq(Bytes) /\ Len(whole) = Len(p) + Len(body)
      /\ \A i \in 1..Len(p) + Len(body) : whole[i] = IF i <= Len(p) THEN p[i] ELSE body[i - Len(p)]
  BY <1>1, <1>2, ConcatProperties
<1>5. maxTitleLength \in Nat /\ Len(p) < maxTitleLength
  <2>1. Len(defaultTitle) \in Nat \ {0}
    BY TitleAssumption, EmptySeq
  <2>2. maxTitleLength \in Nat /\ Len(seventeenPlusTag) + Len(defaultTitle) <= maxTitleLength
    BY MetadataAssumption, TitleAssumption
  <2> QED
    BY <1>1, <2>1, <2>2
<1> HIDE DEF whole
<1>6. n \in Nat /\ n <= maxTitleLength /\ n <= Len(whole) /\ n > Len(p)
  BY <1>1, <1>2, <1>4, <1>5
<1>7. text = SubSeq(whole, 1, n)
  <2>1. SubSeq(whole, 1, Len(whole)) = whole
    BY <1>4, SubSeqFull
  <2> QED
    BY <1>3, <2>1 DEF cut
<1> HIDE DEF n
<1>8. text \in Seq(Bytes) /\ Len(text) = n /\ \A i \in 1..n : text[i] = whole[i]
  <2>1. \A i \in 1..n : whole[i] \in Bytes
    BY <1>1, <1>2, <1>4, <1>6, ElementOfSeq
  <2>2. /\ SubSeq(whole, 1, n) \in Seq(Bytes) /\ Len(SubSeq(whole, 1, n)) = n
        /\ \A i \in 1..n : SubSeq(whole, 1, n)[i] = whole[i]
    BY <1>6, <2>1, SubSeqProperties
  <2> QED
    BY <1>7, <2>2
<1>9. IsPrefix(p, text)
  <2>1. SubSeq(p, 1, Len(p)) = p
    BY <1>1, SubSeqFull
  <2>2. \A i \in 1..Len(p) : text[i] \in Bytes /\ text[i] = p[i]
    <3> SUFFICES ASSUME NEW i \in 1..Len(p) PROVE text[i] \in Bytes /\ text[i] = p[i]
      OBVIOUS
    <3>1. i \in 1..n /\ i \in 1..Len(p) + Len(body) /\ i <= Len(p)
      BY <1>1, <1>2, <1>6
    <3>2. text[i] = p[i]
      BY <1>4, <1>8, <3>1
    <3>3. p[i] \in Bytes
      BY <1>1, ElementOfSeq
    <3> QED
      BY <3>2, <3>3
  <2>3. /\ SubSeq(text, 1, Len(p)) \in Seq(Bytes) /\ Len(SubSeq(text, 1, Len(p))) = Len(p)
        /\ \A i \in 1..Len(p) : SubSeq(text, 1, Len(p))[i] = text[i]
    BY <1>1, <2>2, SubSeqProperties
  <2>4. SubSeq(text, 1, Len(p)) = p
    BY <1>1, <2>2, <2>3, SeqEqual
  <2> QED
    BY <1>1, <1>6, <1>8, <2>1, <2>4 DEF IsPrefix
<1> DEFINE m == n - Len(p)
           shown == SubSeq(text, Len(p) + 1, n)
<1>10. m \in 1..Len(body) /\ (Len(p) + Len(body) <= maxTitleLength => m = Len(body))
  BY <1>1, <1>2, <1>4, <1>5, <1>6 DEF n
<1>11. shown = SubSeq(body, 1, m)
  <2>1. ASSUME NEW i \in 1..m PROVE text[Len(p) + i] = body[i] /\ body[i] \in Bytes
    <3>1. Len(p) + i \in 1..n /\ ~(Len(p) + i <= Len(p)) /\ Len(p) + i - Len(p) = i
      BY <1>1, <1>6, <1>10
    <3>2. Len(p) + i \in 1..Len(p) + Len(body) /\ i \in 1..Len(body)
      BY <1>1, <1>2, <1>10
    <3>3. text[Len(p) + i] = body[i]
      BY <1>4, <1>8, <3>1, <3>2
    <3>4. body[i] \in Bytes
      BY <1>2, <3>2, ElementOfSeq
    <3> QED
      BY <3>3, <3>4
  <2>2. \A j \in Len(p) + 1..n : text[j] \in Bytes
    <3> SUFFICES ASSUME NEW j \in Len(p) + 1..n PROVE text[j] \in Bytes
      OBVIOUS
    <3>1. j - Len(p) \in 1..m /\ Len(p) + (j - Len(p)) = j
      BY <1>1, <1>6
    <3> QED
      BY <2>1, <3>1
  <2>3. /\ shown \in Seq(Bytes) /\ Len(shown) = m
        /\ \A i \in 1..m : shown[i] = text[Len(p) + i]
    <3>1. Len(p) + 1 \in Int /\ n \in Int /\ Len(p) + 1 <= n /\ n - (Len(p) + 1) + 1 = m
      BY <1>1, <1>6
    <3>2. /\ shown \in Seq(Bytes) /\ Len(shown) = n - (Len(p) + 1) + 1
          /\ \A i \in 1..n - (Len(p) + 1) + 1 : shown[i] = text[Len(p) + 1 + i - 1]
      BY <2>2, <3>1, SubSeqProperties
    <3>3. \A i \in 1..m : Len(p) + 1 + i - 1 = Len(p) + i
      BY <1>1, <1>10
    <3> HIDE DEF shown, m
    <3> QED
      BY <3>1, <3>2, <3>3
  <2>4. /\ SubSeq(body, 1, m) \in Seq(Bytes) /\ Len(SubSeq(body, 1, m)) = m
        /\ \A i \in 1..m : SubSeq(body, 1, m)[i] = body[i]
    <3>1. m \in Int /\ 1 <= m /\ \A i \in 1..m : body[i] \in Bytes
      BY <1>10, <2>1
    <3> HIDE DEF m
    <3> QED
      BY <3>1, SubSeqProperties
  <2> HIDE DEF shown, m
  <2>5. \A i \in 1..m : shown[i] = SubSeq(body, 1, m)[i]
    BY <2>1, <2>3, <2>4
  <2> QED
    BY <2>3, <2>4, <2>5, SeqEqual
<1> HIDE DEF m
<1> QED
  BY <1>6, <1>8, <1>9, <1>10, <1>11 DEF p, body, text

(* What is made of a title is no longer than the limit. *)
LEMMA TitlesFit ==
    ASSUME NEW full \in FullTitles PROVE Len(full.text) <= maxTitleLength
<1>1. PICK t \in Titles, r \in Ratings :
         full = [text |-> annotateTitle(t, r), of |-> t, rating |-> r]
  BY DEF FullTitles
<1>2. t \in Seq(Bytes)
  BY TitleAssumption
<1> QED
  BY <1>1, <1>2, Annotated

(* What is made of a title shows it. *)
LEMMA TitlesShown ==
    ASSUME onServer.title \in FullTitles PROVE TitleShown
<1> DEFINE full == onServer.title
           t == full.of
           p == tag(full.rating)
           body == titled(trim(t))
           shown == SubSeq(full.text, Len(p) + 1, Len(full.text))
           blank == \A i \in DOMAIN t : t[i] = space
           Whole(s) == \E first, last \in DOMAIN t :
                          /\ s = SubSeq(t, first, last)
                          /\ \A i \in DOMAIN t \ (first..last) : t[i] = space
<1>1. full.text = annotateTitle(t, full.rating) /\ t \in Titles
  BY DEF FullTitles
<1>2. t \in Seq(Bytes)
  BY <1>1, TitleAssumption
<1>3. /\ IsPrefix(p, full.text)
      /\ \E n \in 1..Len(body) :
            /\ shown = SubSeq(body, 1, n)
            /\ Len(p) + Len(body) <= maxTitleLength => n = Len(body)
  <2> HIDE DEF t
  <2> QED
    BY <1>1, <1>2, Annotated
<1>4. PICK n \in 1..Len(body) :
         /\ shown = SubSeq(body, 1, n)
         /\ Len(p) + Len(body) <= maxTitleLength => n = Len(body)
  BY <1>3
<1>5. body \in Seq(Bytes) /\ Len(body) \in Nat \ {0} /\ body[1] # space
  BY <1>2, Titled
<1>6. \/ body = defaultTitle /\ blank
      \/ Whole(body) /\ Len(body) <= Len(t) /\ ~blank
  <2>1. \/ body = defaultTitle /\ blank
        \/ \E first, last \in DOMAIN t :
              /\ body = SubSeq(t, first, last) /\ Len(body) <= Len(t)
              /\ t[first] # space
              /\ \A i \in DOMAIN t \ (first..last) : t[i] = space
    <3> HIDE DEF t
    <3> QED
      BY <1>2, Titled
  <2> HIDE DEF t, body
  <2> QED
    BY <2>1
<1>7. /\ Len(p) \in Nat /\ Len(seventeenPlusTag) \in Nat
      /\ Len(p) <= Len(seventeenPlusTag)
  BY Tag
<1>8. /\ maxTitleLength \in Nat /\ documentedLength \in Nat
      /\ Len(seventeenPlusTag) + Len(defaultTitle) <= maxTitleLength
      /\ Len(seventeenPlusTag) + documentedLength <= maxTitleLength
  BY MetadataAssumption, TitleAssumption
<1>9. Len(t) \in Nat
  BY <1>2, LenProperties
<1> HIDE DEF t, p, body, shown, blank, Whole
<1>10. shown # <<>> /\ Head(shown) # space
  <2>1. \A i \in 1..n : body[i] \in Bytes
    BY <1>4, <1>5, ElementOfSeq
  <2>2. /\ shown \in Seq(Bytes) /\ Len(shown) = n /\ \A i \in 1..n : shown[i] = body[i]
    BY <1>4, <1>5, <2>1, SubSeqProperties
  <2>3. shown[1] = body[1] /\ Len(shown) # 0
    BY <1>4, <1>5, <2>2
  <2> QED
    BY <1>5, <2>2, <2>3
<1>11. Len(p) + Len(body) <= maxTitleLength => shown = body
  BY <1>4, <1>5, SubSeqFull
<1>12. ASSUME blank PROVE shown = defaultTitle
  <2>1. body = defaultTitle
    BY <1>6, <1>12
  <2>2. Len(defaultTitle) \in Nat
    BY <1>5, <2>1
  <2> QED
    BY <1>7, <1>8, <1>11, <2>1, <2>2
<1>13. ASSUME ~blank, Len(t) <= documentedLength PROVE Whole(shown)
  <2>1. Whole(body) /\ Len(body) <= Len(t)
    BY <1>6, <1>13
  <2>2. Len(p) + Len(body) <= maxTitleLength
    BY <1>5, <1>7, <1>8, <1>9, <1>13, <2>1
  <2> QED
    BY <1>11, <2>1, <2>2
<1>14. /\ IsPrefix(p, full.text)
       /\ shown # <<>> /\ Head(shown) # space
       /\ blank => shown = defaultTitle
       /\ ~blank /\ Len(t) <= documentedLength => Whole(shown)
  BY <1>3, <1>10, <1>12, <1>13
<1> QED
  BY <1>14 DEF TitleShown, t, p, shown, blank, Whole

-----------------------------------------------------------------------------
(* The invariant holds at first: nothing has been sent, and the state is Starting. *)
LEMMA Initially == Init => IInv
<1> SUFFICES ASSUME Init PROVE IInv
  OBVIOUS
<1>1. "thread" \in Actors /\ \A x \in Setters : x \in Actors /\ x # "thread"
  BY Threads
<1>2. /\ at["thread"] = "createFeed" /\ \A x \in Setters : at[x] = "idle"
      /\ \A x \in Actors : at[x] \in {"createFeed", "idle"} /\ ~arrived[x]
  BY <1>1 DEF Init
<1>3. Functions
  BY DEF Init, Functions
<1>4. Places
  BY <1>2 DEF Init, Places, SetterPlaces, ThreadPlaces, BeforeStreaming, BeforeLive
<1>5. TitleOnItsWay /\ FeedOnItsWay
  BY <1>2 DEF Init, TitleOnItsWay, FeedOnItsWay, TitlePlaces, FeedPlaces, isOnline
<1>6. Types
  BY <1>2 DEF Init, Types, TitlePlaces, FeedPlaces
<1> QED
  BY <1>3, <1>4, <1>5, <1>6 DEF IInv

(* The inductive invariant of the title and the feed. *)
THEOREM Invariant == Spec => []IInv
<1>1. IInv /\ [Next]_vars => IInv'
  BY FunctionsKept, PlacesKept, TypesKept, TitleKept, FeedKept DEF IInv
<1> QED
  BY Initially, <1>1, PTL DEF Spec

(* Type correctness; and every title there can be is within the limit. *)
THEOREM MetadataTypeCorrect == Spec => []TypeOK
<1>1. ASSUME IInv PROVE TypeOK
  <2>1. Functions /\ Places /\ Types
    BY <1>1 DEF IInv
  <2>2. onServer \in [title : FullTitles \cup {None}, feed : Feeds \cup {None}]
    BY <2>1 DEF Functions, Types
  <2>3. \A full \in FullTitles : Len(full.text) <= maxTitleLength
    BY TitlesFit
  <2>4. /\ title \in Titles /\ rating \in Ratings /\ gameId \in Games
        /\ connectionQuality \in Qualities \cup {Unknown}
        /\ \A x \in Actors : sent[x] \in FullTitles \cup Feeds \cup {None}
    BY <2>1 DEF Types
  <2>5. /\ state \in {"Starting", "Streaming", "Live", "Stopping"}
        /\ \A x \in Setters : at[x] \in SetterPlaces
        /\ at["thread"] \in ThreadPlaces
    BY <2>1 DEF Places
  <2>6. /\ arrived \in [Actors -> BOOLEAN]
        /\ titleExcused \in BOOLEAN /\ feedExcused \in BOOLEAN
    BY <2>1 DEF Functions
  <2> QED
    BY <2>2, <2>3, <2>4, <2>5, <2>6 DEF TypeOK
<1> QED
  BY Invariant, <1>1, PTL

(* The title viewers see is what was set, tagged exactly if rated 17+, never blank, and
   whole if it is no longer than documented: for any titles, tag, default and limit. *)
THEOREM TitleIsShown == Spec => []TitleShown
<1>1. ASSUME IInv PROVE TitleShown
  <2> SUFFICES ASSUME onServer.title # None PROVE TitleShown
    BY DEF TitleShown
  <2>1. onServer.title \in FullTitles
    BY <1>1 DEF IInv, Types
  <2> QED
    BY <2>1, TitlesShown
<1> QED
  BY Invariant, <1>1, PTL

(* The stage's title is the one set last, once it is live and nobody is about to send
   it, unless a request failed, two were in flight together, or the change came between
   the StartBroadcast request's being put together and the stage's being Live. *)
THEOREM TitleReaches == Spec => []TitleUpToDate
<1>1. ASSUME IInv PROVE TitleUpToDate
  <2> SUFFICES ASSUME state = "Live", Quiet({"titleTest", "readTitle", "sendTitle"}), ~titleExcused
               PROVE  onServer.title = fullTitle
    BY DEF TitleUpToDate
  <2>1. \A x \in Actors : at[x] \notin TitlePlaces
    BY <1>1 DEF IInv, Places, SetterPlaces, Actors, BeforeLive, TitlePlaces, Quiet
  <2>2. state # "Stopping" /\ Quiet({"titleTest", "readTitle"}) /\ Quiet(TitlePlaces)
    BY <2>1 DEF Quiet
  <2> QED
    BY <1>1, <2>2 DEF IInv, TitleOnItsWay
<1> QED
  BY Invariant, <1>1, PTL

(* So it is with the game and the connection quality, once the feed is online. *)
THEOREM FeedReaches == Spec => []FeedUpToDate
<1>1. ASSUME IInv PROVE FeedUpToDate
  <2> SUFFICES ASSUME isOnline, Quiet({"feedTest", "readFeed", "sendFeed"}), ~feedExcused
               PROVE  onServer.feed = currentFeedInput
    BY DEF FeedUpToDate
  <2>1. \A x \in Actors : at[x] \notin FeedPlaces
    BY <1>1 DEF IInv, Places, SetterPlaces, Actors, BeforeStreaming, isOnline, FeedPlaces, Quiet
  <2>2. state # "Stopping" /\ Quiet({"feedTest", "readFeed"}) /\ Quiet(FeedPlaces)
    BY <2>1 DEF Quiet, isOnline
  <2> QED
    BY <1>1, <2>2 DEF IInv, FeedOnItsWay
<1> QED
  BY Invariant, <1>1, PTL

=============================================================================
