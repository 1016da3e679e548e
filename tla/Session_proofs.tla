---------------------------- MODULE Session_proofs ----------------------------
(***************************************************************************)
(* That whoever broadcasts is signed in, allowed to and uses his own       *)
(* credentials, for any accounts, number of tries and of refused requests. *)
(* The inductive invariant says what each place in the calls of the        *)
(* application has already made sure of, what its request is, and that the *)
(* credentials differ from the copy of their token only once mixed.        *)
(***************************************************************************)
EXTENDS Session, TLAPS

RequestRecords ==
    [step : Steps, kind : Kinds \cup {None}, tries : 0 .. numRetries, refused : 0 .. MaxRefused,
     seen : Accounts \cup {None},
     result : {None, "ok", "none", "refused", "old", "throw"}]

(* A request that has read credentials has read some. *)
RequestOK(r) ==
    /\ r \in RequestRecords
    /\ r.step \in {"send", "sent"} => r.kind \in Unauthenticated \cup Authenticated
    /\ r.step = "sent" /\ r.kind \in Authenticated => r.seen # None
    /\ r.step = "refreshing" =>
          /\ r.seen # None
          /\ r.kind = "credentials" \/ (r.kind \in Authenticated /\ r.refused < MaxRefused)
    /\ r.step = "done" /\ r.result = "ok" /\ r.kind \in Authenticated => r.seen # None

AtTypes ==
    [app : AppPlaces, thread : {"off", "on", "over"}, late : {"off", "on"},
     worker : {"idle", "ending"}]

NoRequestPlaces == {"idle", "lock", "ending", "signOut"}

Places ==
    /\ at \in AtTypes
    /\ at.app \in NoRequestPlaces <=> req["app"].step = "none"
    /\ at.app = "auth" => req["app"].kind \in {"signIn", "refreshAuth"}
    /\ at.app \in {"userInfo", "allowed"} => req["app"].kind = "userInfo"
    /\ at.app = "version" => req["app"].kind = "version"
    /\ at.app = "encoderInfo" => req["app"].kind = "encoderInfo"
    /\ req["thread"].step # "none" =>
          at.thread = "on" /\ req["thread"].kind \in BroadcastRequests
    /\ ~(AppLocks /\ WorkerLocks)

Values ==
    /\ credentials \in Accounts \cup {None} /\ refreshToken \in Accounts \cup {None}
    /\ userInfo \in Users \cup {None} /\ broadcast \in Accounts \cup {None}
    /\ mixed \in BOOLEAN

(* What a broadcast, and each place on the way to one, rests on. *)
Signed ==
    /\ broadcast # None => isSignedIn /\ canBroadcast /\ userInfo.of = broadcast
    /\ at.thread # "off" => broadcast # None
    /\ at.app \in {"auth", "userInfo", "allowed"} => broadcast = None
    /\ at.app = "userInfo" => credentials # None
    /\ at.app \in {"version", "allowed", "lock"} => isSignedIn
    /\ at.app = "lock" => canBroadcast
    /\ at.app = "encoderInfo" => broadcast # None

Whole ==
    /\ credentials = None <=> refreshToken = None
    /\ credentials = None => userInfo = None
    /\ ~mixed => credentials = refreshToken
    /\ ~mixed /\ at.app \in {"userInfo", "allowed"} /\ req["app"].step \in {"sent", "refreshing", "done"} =>
          req["app"].seen = credentials
    /\ ~mixed /\ userInfo # None /\ at.app # "userInfo" => userInfo.of = credentials

Reqs ==
    /\ req = [t \in Threads |-> req[t]]
    /\ \A t \in Threads : RequestOK(req[t])

IInv == Reqs /\ Places /\ Values /\ Signed /\ Whole

-----------------------------------------------------------------------------
(* No request, and a new one, are in order. *)
LEMMA NoRequestOK == RequestOK(NoRequest) /\ NoRequest.step = "none"
<1>1. 0 \in 0..numRetries /\ 0 \in 0..MaxRefused
  BY RequestsAssumption
<1> QED
  BY <1>1 DEF NoRequest, RequestOK, RequestRecords, Steps

LEMMA NewOK ==
    ASSUME NEW kind \in Unauthenticated \cup Authenticated
    PROVE  RequestOK(New(kind)) /\ New(kind).step = "send" /\ New(kind).kind = kind
<1>1. 1 \in 0..numRetries
  BY RequestsAssumption
<1>2. NoRequest \in RequestRecords
  BY NoRequestOK DEF RequestOK
<1>3. New(kind) \in RequestRecords /\ New(kind).step = "send" /\ New(kind).kind = kind
  BY <1>1, <1>2 DEF New, RequestRecords, Steps, Kinds
<1> QED
  BY <1>3 DEF RequestOK

(* One thread's request changes. *)
LEMMA ReqChanges ==
    ASSUME Reqs, NEW t \in Threads, NEW r, RequestOK(r), req' = [req EXCEPT ![t] = r]
    PROVE  Reqs' /\ req'[t] = r /\ \A u \in Threads \ {t} : req'[u] = req[u]
BY DEF Reqs

(* The application's thread goes to another place with another request. *)
Moved(place) ==
    /\ Reqs' /\ at' \in AtTypes
    /\ at'.app = place /\ at'.thread = at.thread /\ at'.worker = at.worker
    /\ req'["thread"] = req["thread"]

LEMMA AppMoves ==
    ASSUME IInv, NEW place \in AppPlaces, NEW r, RequestOK(r),
           at' = [at EXCEPT !.app = place], req' = [req EXCEPT !["app"] = r]
    PROVE  Moved(place) /\ req'["app"] = r
<1>1. "app" \in Threads /\ "thread" \in Threads \ {"app"} /\ Reqs
  BY SessionAssumption DEF IInv
<1>2. Reqs' /\ req'["app"] = r /\ \A u \in Threads \ {"app"} : req'[u] = req[u]
  BY <1>1, ReqChanges
<1>3. at \in AtTypes
  BY DEF IInv, Places
<1> QED
  BY <1>1, <1>2, <1>3 DEF AtTypes, Moved

LEMMA Begins ==
    ASSUME IInv, NEW place \in AppPlaces, NEW kind \in Unauthenticated \cup Authenticated,
           AppBegins(place, kind)
    PROVE  Moved(place) /\ req'["app"].step = "send" /\ req'["app"].kind = kind
BY NewOK, AppMoves DEF AppBegins

LEMMA GoesTo ==
    ASSUME IInv, NEW place \in AppPlaces, AppGoesTo(place)
    PROVE  Moved(place) /\ req'["app"].step = "none"
BY NoRequestOK, AppMoves DEF AppGoesTo

LEMMA Starts == Init => IInv
<1> SUFFICES ASSUME Init PROVE IInv
  OBVIOUS
<1>1. Reqs
  BY NoRequestOK DEF Init, Reqs
<1>2. req["app"].step = "none" /\ req["thread"].step = "none"
  BY NoRequestOK, SessionAssumption DEF Init
<1>3. Places
  BY <1>2 DEF Init, Places, AtTypes, AppPlaces, NoRequestPlaces, AppLocks, WorkerLocks
<1> QED
  BY <1>1, <1>2, <1>3 DEF Init, IInv, Values, Signed, Whole

(* A request goes on, as the same one. *)
LEMMA RequestMoves ==
    ASSUME IInv, NEW t \in Threads, NEW r, RequestOK(r),
           req[t].step # "none", r.step # "none", r.kind = req[t].kind,
           req' = [req EXCEPT ![t] = r], at' = at
    PROVE  Reqs' /\ Places' /\ req'[t] = r /\ \A u \in Threads \ {t} : req'[u] = req[u]
<1>1. Reqs' /\ req'[t] = r /\ \A u \in Threads \ {t} : req'[u] = req[u]
  BY ReqChanges DEF IInv
<1>2. "app" \in Threads /\ "thread" \in Threads
  BY SessionAssumption
<1>3. Places'
  BY <1>1, <1>2 DEF IInv, Places, AppLocks, WorkerLocks
<1> QED
  BY <1>1, <1>3

(* What the application's thread has read is what there is, as long as the request
   of another thread does not change the credentials. *)
LEMMA WholeKept ==
    ASSUME IInv, NEW t \in Threads, NEW r, req'[t] = r,
           \A u \in Threads \ {t} : req'[u] = req[u],
           UNCHANGED <<credentials, mixed, instanceVars, at>>,
           t = "app" /\ at.app \in {"userInfo", "allowed"} /\ ~mixed
               /\ r.step \in {"sent", "refreshing", "done"} => r.seen = credentials
    PROVE  Values' /\ Signed' /\ Whole'
<1>1. Values' /\ Signed'
  BY DEF IInv, Values, Signed, instanceVars, isSignedIn, canBroadcast
<1>2. "app" \in Threads
  BY SessionAssumption
<1>3. Whole'
  BY <1>2 DEF IInv, Whole, instanceVars
<1> QED
  BY <1>1, <1>3

LEMMA KeepsSend ==
    ASSUME IInv, NEW t \in Threads, Send(t), UNCHANGED <<instanceVars, at>>
    PROVE  IInv'
<1> DEFINE needs == req[t].kind \in Authenticated
           r == [req[t] EXCEPT !.step = IF needs /\ credentials = None THEN "crashed" ELSE "sent",
                               !.seen = IF needs THEN credentials ELSE None]
<1>1. req[t] \in RequestRecords /\ req[t].step = "send" /\ req[t].kind \in Unauthenticated \cup Authenticated
  BY DEF IInv, Reqs, RequestOK, Send
<1>2. credentials \in Accounts \cup {None}
  BY DEF IInv, Values
<1>3. /\ r \in RequestRecords /\ r.kind = req[t].kind
      /\ r.step = (IF needs /\ credentials = None THEN "crashed" ELSE "sent")
      /\ r.seen = (IF needs THEN credentials ELSE None)
  BY <1>1, <1>2 DEF RequestRecords, Steps
<1>4. req' = [req EXCEPT ![t] = r]
  BY DEF Send
<1> HIDE DEF r
<1>5. RequestOK(r)
  BY <1>1, <1>3 DEF RequestOK
<1>6. Reqs' /\ Places' /\ req'[t] = r /\ \A u \in Threads \ {t} : req'[u] = req[u]
  BY <1>1, <1>3, <1>4, <1>5, RequestMoves
<1>7. t = "app" /\ at.app \in {"userInfo", "allowed"} => needs
  BY DEF IInv, Places, Authenticated
<1>8. Values' /\ Signed' /\ Whole'
  BY <1>3, <1>6, <1>7, WholeKept DEF Send
<1> QED
  BY <1>6, <1>8 DEF IInv

LEMMA KeepsComplete ==
    ASSUME IInv, NEW t \in Threads, Complete(t), UNCHANGED <<instanceVars, at>>
    PROVE  IInv'
<1>1. PICK answer \in Answers(req[t].kind) \ {"retry", "unauthorized"} :
          req' = [req EXCEPT ![t] = Done(@, answer)]
  BY DEF Complete
<1> DEFINE r == Done(req[t], answer)
<1>2. RequestOK(req[t]) /\ req[t] \in RequestRecords /\ req[t].step = "sent"
      /\ req[t].kind \in Unauthenticated \cup Authenticated
  BY DEF IInv, Reqs, RequestOK, Complete
<1>3. answer \in {"ok", "none", "refused", "old", "throw"}
  BY <1>2 DEF Answers, Unauthenticated, Authenticated, doCheckVersion, doSignIn, doRefreshAuth, doGetUserInfo, doTrickleCandidates, doHeartbeatStream, doUpdateScreenshot,
     graphqlRequest, doGraphqlRawRequest, doGetEncoderInfo, sendWebrtcStats
<1>4. 0 \in 0..numRetries /\ 0 \in 0..MaxRefused
  BY RequestsAssumption
<1>5. /\ r \in RequestRecords /\ r.kind = req[t].kind /\ r.step = "done" /\ r.seen = req[t].seen
      /\ r.result = answer
  BY <1>2, <1>3, <1>4 DEF RequestRecords, Steps, Done
<1>6. req' = [req EXCEPT ![t] = r]
  BY <1>1
<1> HIDE DEF r
<1>7. RequestOK(r)
  BY <1>2, <1>5 DEF RequestOK
<1>8. Reqs' /\ Places' /\ req'[t] = r /\ \A u \in Threads \ {t} : req'[u] = req[u]
  BY <1>2, <1>5, <1>6, <1>7, RequestMoves
<1>9. t = "app" /\ at.app \in {"userInfo", "allowed"} /\ ~mixed => req[t].seen = credentials
  BY <1>2 DEF IInv, Whole
<1>10. Values' /\ Signed' /\ Whole'
  BY <1>5, <1>8, <1>9, WholeKept DEF Complete
<1> QED
  BY <1>8, <1>10 DEF IInv

LEMMA KeepsRetry ==
    ASSUME IInv, NEW t \in Threads, Retry(t), UNCHANGED <<instanceVars, at>>
    PROVE  IInv'
<1> DEFINE r == IF req[t].tries = numRetries THEN Done(req[t], "none")
                ELSE [req[t] EXCEPT !.step = "send", !.tries = req[t].tries + 1]
<1>1. req[t] \in RequestRecords /\ req[t].step = "sent" /\ req[t].kind \in Unauthenticated \cup Authenticated
  BY DEF IInv, Reqs, RequestOK, Retry
<1>2. req[t].tries \in 0..numRetries /\ 0 \in 0..numRetries /\ 0 \in 0..MaxRefused
      /\ (req[t].tries # numRetries => req[t].tries + 1 \in 0..numRetries)
  BY <1>1, RequestsAssumption DEF RequestRecords
<1>3. /\ r \in RequestRecords /\ r.kind = req[t].kind /\ r.seen = req[t].seen
      /\ r.step = "send" \/ (r.step = "done" /\ r.result = "none")
  BY <1>1, <1>2 DEF RequestRecords, Steps, Done
<1>4. req' = [req EXCEPT ![t] = r]
  BY DEF Retry
<1> HIDE DEF r
<1>5. RequestOK(r)
  BY <1>1, <1>3 DEF RequestOK
<1>6. Reqs' /\ Places' /\ req'[t] = r /\ \A u \in Threads \ {t} : req'[u] = req[u]
  BY <1>1, <1>3, <1>4, <1>5, RequestMoves
<1>7. t = "app" /\ at.app \in {"userInfo", "allowed"} /\ ~mixed => req[t].seen = credentials
  BY <1>1 DEF IInv, Whole
<1>8. UNCHANGED <<credentials, mixed>>
  BY DEF Retry
<1>9. t = "app" /\ at.app \in {"userInfo", "allowed"} /\ ~mixed => r.seen = credentials
  BY <1>3, <1>7
<1> HIDE DEF Retry
<1>10. Values' /\ Signed' /\ Whole'
  BY <1>6, <1>8, <1>9, WholeKept
<1> QED
  BY <1>6, <1>10 DEF IInv

LEMMA KeepsUnauthorized ==
    ASSUME IInv, NEW t \in Threads, Unauthorized(t), UNCHANGED <<instanceVars, at>>
    PROVE  IInv'
<1> DEFINE r == [req[t] EXCEPT !.step = IF credentials = None THEN "crashed" ELSE "refreshing",
                               !.seen = credentials]
<1>1. req[t] \in RequestRecords /\ req[t].step = "sent" /\ req[t].kind \in Unauthenticated \cup Authenticated
  BY DEF IInv, Reqs, RequestOK, Unauthorized
<1>2. "unauthorized" \in Answers(req[t].kind) /\ req[t].refused < MaxRefused
  BY DEF Unauthorized
<1>3. req[t].kind \in Authenticated
  BY <1>1, <1>2 DEF Answers, Unauthenticated, doCheckVersion, doSignIn, doRefreshAuth
<1>4. credentials \in Accounts \cup {None}
  BY DEF IInv, Values
<1>5. /\ r \in RequestRecords /\ r.kind = req[t].kind /\ r.seen = credentials
      /\ r.step = (IF credentials = None THEN "crashed" ELSE "refreshing")
      /\ r.refused = req[t].refused
  BY <1>1, <1>4 DEF RequestRecords, Steps
<1>6. req' = [req EXCEPT ![t] = r]
  BY DEF Unauthorized, ReadToken
<1> HIDE DEF r
<1>7. RequestOK(r)
  BY <1>2, <1>3, <1>5 DEF RequestOK
<1>8. Reqs' /\ Places' /\ req'[t] = r /\ \A u \in Threads \ {t} : req'[u] = req[u]
  BY <1>1, <1>5, <1>6, <1>7, RequestMoves
<1>9. Values' /\ Signed' /\ Whole'
  BY <1>5, <1>8, WholeKept DEF Unauthorized
<1> QED
  BY <1>8, <1>9 DEF IInv

LEMMA KeepsRefreshFailed ==
    ASSUME IInv, NEW t \in Threads, RefreshFailed(t), UNCHANGED <<instanceVars, at>>
    PROVE  IInv'
<1>1. PICK answer \in doRefreshAuth \ {"ok"} :
          req' = [req EXCEPT ![t] = Done(@, IF answer = "throw" THEN "throw" ELSE "none")]
  BY DEF RefreshFailed
<1> DEFINE result == IF answer = "throw" THEN "throw" ELSE "none"
           r == Done(req[t], result)
<1>2. req[t] \in RequestRecords /\ req[t].step = "refreshing"
  BY DEF IInv, Reqs, RequestOK, RefreshFailed
<1>3. 0 \in 0..numRetries /\ 0 \in 0..MaxRefused
  BY RequestsAssumption
<1>4. /\ r \in RequestRecords /\ r.kind = req[t].kind /\ r.step = "done" /\ r.seen = req[t].seen
      /\ r.result # "ok"
  BY <1>2, <1>3 DEF RequestRecords, Steps, Done
<1>5. req' = [req EXCEPT ![t] = r]
  BY <1>1
<1> HIDE DEF r
<1>6. RequestOK(r)
  BY <1>4 DEF RequestOK
<1>7. Reqs' /\ Places' /\ req'[t] = r /\ \A u \in Threads \ {t} : req'[u] = req[u]
  BY <1>2, <1>4, <1>5, <1>6, RequestMoves
<1>8. t = "app" /\ at.app \in {"userInfo", "allowed"} /\ ~mixed => req[t].seen = credentials
  BY <1>2 DEF IInv, Whole
<1>9. Values' /\ Signed' /\ Whole'
  BY <1>4, <1>7, <1>8, WholeKept DEF RefreshFailed
<1> QED
  BY <1>7, <1>9 DEF IInv

(* New credentials take the place of others, never of none. *)
LEMMA KeepsRefreshed ==
    ASSUME IInv, NEW t \in Threads, Refreshed(t), UNCHANGED <<instanceVars, at>>
    PROVE  IInv'
<1>1. RequestOK(req[t]) /\ req[t] \in RequestRecords /\ req[t].step = "refreshing" /\ req[t].seen # None
  BY DEF IInv, Reqs, RequestOK, Refreshed
<1>2. CASE credentials = None
  <2> DEFINE r == [req[t] EXCEPT !.step = "crashed"]
  <2>1. r \in RequestRecords /\ r.kind = req[t].kind /\ r.step = "crashed"
    BY <1>1 DEF RequestRecords, Steps
  <2>2. req' = [req EXCEPT ![t] = r] /\ UNCHANGED <<credentials, mixed>>
    BY <1>2 DEF Refreshed
  <2> HIDE DEF r
  <2>3. RequestOK(r)
    BY <2>1 DEF RequestOK
  <2>4. Reqs' /\ Places' /\ req'[t] = r /\ \A u \in Threads \ {t} : req'[u] = req[u]
    BY <1>1, <2>1, <2>2, <2>3, RequestMoves
  <2>5. Values' /\ Signed' /\ Whole'
    BY <2>1, <2>2, <2>4, WholeKept
  <2> QED
    BY <2>4, <2>5 DEF IInv
<1>3. CASE credentials # None
  <2> DEFINE r == IF req[t].kind = "credentials" THEN Done(req[t], "ok")
                  ELSE [req[t] EXCEPT !.step = "send", !.refused = req[t].refused + 1]
  <2>1. 0 \in 0..numRetries /\ 0 \in 0..MaxRefused
        /\ (req[t].refused < MaxRefused => req[t].refused + 1 \in 0..MaxRefused)
    BY <1>1, RequestsAssumption DEF RequestRecords
  <2>2. req[t].kind = "credentials" \/ (req[t].kind \in Authenticated /\ req[t].refused < MaxRefused)
    BY <1>1 DEF RequestOK
  <2>3. /\ r \in RequestRecords /\ r.kind = req[t].kind /\ r.seen = req[t].seen
        /\ r.step = (IF req[t].kind = "credentials" THEN "done" ELSE "send")
    BY <1>1, <2>1, <2>2 DEF RequestRecords, Steps, Done
  <2>4. /\ req' = [req EXCEPT ![t] = r] /\ credentials' = req[t].seen
        /\ mixed' = (mixed \/ credentials # req[t].seen)
    BY <1>3 DEF Refreshed
  <2> HIDE DEF r
  <2>5. RequestOK(r)
    BY <1>1, <2>2, <2>3 DEF RequestOK, Authenticated
  <2>6. Reqs' /\ Places' /\ req'[t] = r /\ \A u \in Threads \ {t} : req'[u] = req[u]
    BY <1>1, <2>3, <2>4, <2>5, RequestMoves
  <2>7. credentials' \in Accounts /\ "app" \in Threads /\ mixed' \in BOOLEAN
    BY <1>1, <2>4, SessionAssumption DEF RequestRecords, IInv, Values
  <2>8. Values' /\ Signed'
    BY <1>3, <2>7, RequestsAssumption DEF IInv, Values, Signed, instanceVars, isSignedIn, canBroadcast
  <2>9. ~mixed' => credentials' = credentials /\ ~mixed
    BY <2>4
  <2>10. t = "app" /\ at.app \in {"userInfo", "allowed"} => r.step = "send"
    BY <2>3 DEF IInv, Places
  <2>11. Whole'
    BY <1>3, <2>6, <2>7, <2>9, <2>10, RequestsAssumption DEF IInv, Whole, instanceVars
  <2> QED
    BY <2>6, <2>8, <2>11 DEF IInv
<1> QED
  BY <1>2, <1>3
(* The calls of the application's thread, one by one. *)
LEMMA KeepsCallSignIn == IInv /\ CallSignIn => IInv'
<1> SUFFICES ASSUME IInv, CallSignIn PROVE IInv'
  OBVIOUS
<1>1. Moved("auth") /\ req'["app"].step = "send" /\ req'["app"].kind = "signIn"
  BY Begins DEF CallSignIn, AppPlaces, Unauthenticated
<1>2. Places'
  BY <1>1 DEF CallSignIn, IInv, Moved, Places, NoRequestPlaces, AppLocks, WorkerLocks
<1>3. Values' /\ Signed' /\ Whole'
  BY <1>1 DEF CallSignIn, IInv, Places, Moved, Values, Signed, Whole, instanceVars, isSignedIn, canBroadcast
<1> QED
  BY <1>1, <1>2, <1>3 DEF IInv, Moved

LEMMA KeepsCallRefreshAuth == IInv /\ CallRefreshAuth => IInv'
<1> SUFFICES ASSUME IInv, CallRefreshAuth PROVE IInv'
  OBVIOUS
<1>1. Moved("auth") /\ req'["app"].step = "send" /\ req'["app"].kind = "refreshAuth"
  BY Begins DEF CallRefreshAuth, AppPlaces, Unauthenticated
<1>2. Places'
  BY <1>1 DEF CallRefreshAuth, IInv, Moved, Places, NoRequestPlaces, AppLocks, WorkerLocks
<1>3. Values' /\ Signed' /\ Whole'
  BY <1>1 DEF CallRefreshAuth, IInv, Places, Moved, Values, Signed, Whole, instanceVars, isSignedIn, canBroadcast
<1> QED
  BY <1>1, <1>2, <1>3 DEF IInv, Moved

LEMMA KeepsAuthRefused == IInv /\ AuthRefused => IInv'
<1> SUFFICES ASSUME IInv, AuthRefused PROVE IInv'
  OBVIOUS
<1>1. Moved("idle") /\ req'["app"].step = "none"
  BY GoesTo DEF AuthRefused, AppPlaces
<1>2. Places'
  BY <1>1 DEF AuthRefused, IInv, Moved, Places, NoRequestPlaces, AppLocks, WorkerLocks
<1>3. Values' /\ Signed' /\ Whole'
  BY <1>1 DEF AuthRefused, IInv, Places, Moved, Values, Signed, Whole, instanceVars, isSignedIn, canBroadcast, AppHas
<1> QED
  BY <1>1, <1>2, <1>3 DEF IInv, Moved

LEMMA KeepsAuthAccepted == IInv /\ AuthAccepted => IInv'
<1> SUFFICES ASSUME IInv, AuthAccepted PROVE IInv'
  OBVIOUS
<1>1. Moved("userInfo") /\ req'["app"].step = "send" /\ req'["app"].kind = "userInfo"
  BY Begins DEF AuthAccepted, AppPlaces, Authenticated
<1>2. Places'
  BY <1>1 DEF AuthAccepted, IInv, Moved, Places, NoRequestPlaces, AppLocks, WorkerLocks
<1>3. Values' /\ Signed' /\ Whole'
  BY <1>1, RequestsAssumption DEF AuthAccepted, IInv, Places, Moved, Values, Signed, Whole, instanceVars, isSignedIn, canBroadcast, AppHas
<1> QED
  BY <1>1, <1>2, <1>3 DEF IInv, Moved

LEMMA KeepsUserInfoFailed == IInv /\ UserInfoFailed => IInv'
<1> SUFFICES ASSUME IInv, UserInfoFailed PROVE IInv'
  OBVIOUS
<1>1. Moved("idle") /\ req'["app"].step = "none"
  BY GoesTo DEF UserInfoFailed, AppPlaces
<1>2. Places'
  BY <1>1 DEF UserInfoFailed, IInv, Moved, Places, NoRequestPlaces, AppLocks, WorkerLocks
<1>3. Values' /\ Signed' /\ Whole'
  BY <1>1 DEF UserInfoFailed, IInv, Places, Moved, Values, Signed, Whole, instanceVars, isSignedIn, canBroadcast, AppHas
<1> QED
  BY <1>1, <1>2, <1>3 DEF IInv, Moved

LEMMA KeepsUserInfoThrows == IInv /\ UserInfoThrows => IInv'
<1> SUFFICES ASSUME IInv, UserInfoThrows PROVE IInv'
  OBVIOUS
<1>1. Moved("idle") /\ req'["app"].step = "none"
  BY GoesTo DEF UserInfoThrows, AppPlaces
<1>2. Places'
  BY <1>1 DEF UserInfoThrows, IInv, Moved, Places, NoRequestPlaces, AppLocks, WorkerLocks
<1>3. Values' /\ Signed' /\ Whole'
  BY <1>1 DEF UserInfoThrows, IInv, Places, Moved, Values, Signed, Whole, instanceVars, isSignedIn, canBroadcast, AppHas
<1> QED
  BY <1>1, <1>2, <1>3 DEF IInv, Moved

(* The account of a user's information is that of the credentials it was asked with. *)
LEMMA SeenAccount ==
    ASSUME IInv, AppHas("userInfo") \/ AppHas("allowed"), AppResult = "ok"
    PROVE  /\ req["app"].seen \in Accounts
           /\ ~mixed => req["app"].seen = credentials
<1>1. "app" \in Threads
  BY SessionAssumption
<1>2. RequestOK(req["app"])
  BY <1>1 DEF IInv, Reqs
<1>3. req["app"].kind \in Authenticated /\ req["app"].step = "done" /\ req["app"].result = "ok"
  BY DEF AppHas, AppResult, IInv, Places, Authenticated
<1>4. req["app"].seen \in Accounts
  BY <1>2, <1>3 DEF RequestOK, RequestRecords
<1>5. ~mixed => req["app"].seen = credentials
  BY <1>3 DEF AppHas, IInv, Whole
<1> QED
  BY <1>4, <1>5

LEMMA KeepsUserInfoFetched == IInv /\ UserInfoFetched => IInv'
<1> SUFFICES ASSUME IInv, UserInfoFetched PROVE IInv'
  OBVIOUS
<1>1. Moved("idle") /\ req'["app"].step = "none"
  BY GoesTo DEF UserInfoFetched, AppPlaces
<1>2. PICK can \in BOOLEAN : userInfo' = [of |-> req["app"].seen, canBroadcast |-> can]
  BY DEF UserInfoFetched
<1>3. req["app"].seen \in Accounts /\ (~mixed => req["app"].seen = credentials)
  BY SeenAccount DEF UserInfoFetched
<1>4. Places'
  BY <1>1 DEF IInv, Moved, Places, NoRequestPlaces, AppLocks, WorkerLocks
<1>5. Values' /\ Signed' /\ Whole'
  BY <1>1, <1>2, <1>3 DEF UserInfoFetched, AppHas, Users, IInv, Places, Moved, Values, Signed, Whole, instanceVars, isSignedIn, canBroadcast
<1> QED
  BY <1>1, <1>4, <1>5 DEF IInv, Moved

LEMMA KeepsCallStart == IInv /\ CallStart => IInv'
<1> SUFFICES ASSUME IInv, CallStart PROVE IInv'
  OBVIOUS
<1>1. Moved("version") /\ req'["app"].step = "send" /\ req'["app"].kind = "version"
  BY Begins DEF CallStart, AppPlaces, Unauthenticated
<1>2. Places'
  BY <1>1 DEF CallStart, IInv, Moved, Places, NoRequestPlaces, AppLocks, WorkerLocks
<1>3. Values' /\ Signed' /\ Whole'
  BY <1>1 DEF CallStart, IInv, Places, Moved, Values, Signed, Whole, instanceVars, isSignedIn, canBroadcast
<1> QED
  BY <1>1, <1>2, <1>3 DEF IInv, Moved

LEMMA KeepsVersionChecked == IInv /\ VersionChecked => IInv'
<1> SUFFICES ASSUME IInv, VersionChecked PROVE IInv'
  OBVIOUS
<1>1. CASE AppGoesTo("idle")
  <2>1. Moved("idle") /\ req'["app"].step = "none"
    BY <1>1, GoesTo DEF AppPlaces
  <2>2. Places'
    BY <2>1 DEF IInv, Moved, Places, NoRequestPlaces, AppLocks, WorkerLocks
  <2>3. Values' /\ Signed' /\ Whole'
    BY <2>1 DEF VersionChecked, AppHas, IInv, Places, Moved, Values, Signed, Whole, instanceVars, isSignedIn, canBroadcast
  <2> QED
    BY <2>1, <2>2, <2>3 DEF IInv, Moved
<1>2. CASE AppGoesTo("lock") /\ canBroadcast
  <2>1. Moved("lock") /\ req'["app"].step = "none"
    BY <1>2, GoesTo DEF AppPlaces
  <2>2. Places'
    BY <2>1 DEF IInv, Moved, Places, NoRequestPlaces, AppLocks, WorkerLocks
  <2>3. Values' /\ Signed' /\ Whole'
    BY <1>2, <2>1 DEF VersionChecked, AppHas, IInv, Places, Moved, Values, Signed, Whole, instanceVars, isSignedIn, canBroadcast
  <2> QED
    BY <2>1, <2>2, <2>3 DEF IInv, Moved
<1>3. CASE AppBegins("allowed", "userInfo") /\ ~canBroadcast
  <2>1. Moved("allowed") /\ req'["app"].step = "send" /\ req'["app"].kind = "userInfo"
    BY <1>3, Begins DEF AppPlaces, Authenticated
  <2>2. Places'
    BY <2>1 DEF IInv, Moved, Places, NoRequestPlaces, AppLocks, WorkerLocks
  <2>3. Values' /\ Signed' /\ Whole'
    BY <1>3, <2>1 DEF VersionChecked, AppHas, IInv, Places, Moved, Values, Signed, Whole, instanceVars, isSignedIn, canBroadcast
  <2> QED
    BY <2>1, <2>2, <2>3 DEF IInv, Moved
<1> QED
  BY <1>1, <1>2, <1>3 DEF VersionChecked

LEMMA KeepsAllowed == IInv /\ Allowed => IInv'
<1> SUFFICES ASSUME IInv, Allowed PROVE IInv'
  OBVIOUS
<1>1. CASE AppGoesTo("idle") /\ UNCHANGED userInfo
  <2>1. Moved("idle") /\ req'["app"].step = "none"
    BY <1>1, GoesTo DEF AppPlaces
  <2>2. Places'
    BY <2>1 DEF IInv, Moved, Places, NoRequestPlaces, AppLocks, WorkerLocks
  <2>3. Values' /\ Signed' /\ Whole'
    BY <1>1, <2>1 DEF Allowed, AppHas, IInv, Places, Moved, Values, Signed, Whole, instanceVars, isSignedIn, canBroadcast
  <2> QED
    BY <2>1, <2>2, <2>3 DEF IInv, Moved
<1>2. CASE /\ AppResult = "ok" /\ AppGoesTo("lock")
           /\ userInfo' = [of |-> req["app"].seen, canBroadcast |-> TRUE]
  <2>1. Moved("lock") /\ req'["app"].step = "none"
    BY <1>2, GoesTo DEF AppPlaces
  <2>2. Places'
    BY <2>1 DEF IInv, Moved, Places, NoRequestPlaces, AppLocks, WorkerLocks
  <2>3. req["app"].seen \in Accounts /\ (~mixed => req["app"].seen = credentials)
    BY <1>2, SeenAccount DEF Allowed
  <2>4. userInfo' \in Users /\ userInfo'.canBroadcast
    BY <1>2, <2>3 DEF Users
  <2>5. userInfo' # None
    BY <2>4, SessionAssumption
  <2>6. Values' /\ Signed' /\ Whole'
    BY <1>2, <2>1, <2>3, <2>4, <2>5 DEF Allowed, AppHas, IInv, Places, Moved, Values, Signed, Whole, instanceVars, isSignedIn, canBroadcast
  <2> QED
    BY <2>1, <2>2, <2>6 DEF IInv, Moved
<1> QED
  BY <1>1, <1>2 DEF Allowed

LEMMA KeepsStartLock == IInv /\ StartLock => IInv'
<1> SUFFICES ASSUME IInv, StartLock PROVE IInv'
  OBVIOUS
<1>1. CASE broadcast # None
  <2>1. Moved("idle") /\ req'["app"].step = "none"
    BY <1>1, GoesTo DEF StartLock, AppPlaces
  <2>2. Places'
    BY <2>1 DEF IInv, Moved, Places, NoRequestPlaces, AppLocks, WorkerLocks
  <2>3. Values' /\ Signed' /\ Whole'
    BY <1>1, <2>1 DEF StartLock, IInv, Places, Moved, Values, Signed, Whole, instanceVars, isSignedIn, canBroadcast
  <2> QED
    BY <2>1, <2>2, <2>3 DEF IInv, Moved
<1>2. CASE broadcast = None
  <2>1. Moved("encoderInfo") /\ req'["app"].step = "send" /\ req'["app"].kind = "encoderInfo"
    BY <1>2, Begins DEF StartLock, AppPlaces, Authenticated
  <2>2. Places'
    BY <2>1 DEF StartLock, IInv, Moved, Places, NoRequestPlaces, AppLocks, WorkerLocks
  <2>3. userInfo \in Users /\ userInfo.of \in Accounts /\ userInfo.of # None
    BY RequestsAssumption DEF StartLock, IInv, Values, Signed, isSignedIn, Users
  <2>4. broadcast' = userInfo.of
    BY <1>2 DEF StartLock
  <2>5. Values' /\ Signed' /\ Whole'
    BY <2>1, <2>3, <2>4 DEF StartLock, IInv, Places, Moved, Values, Signed, Whole, instanceVars, isSignedIn, canBroadcast
  <2> QED
    BY <2>1, <2>2, <2>5 DEF IInv, Moved
<1> QED
  BY <1>1, <1>2

LEMMA KeepsCallEnd == IInv /\ CallEnd => IInv'
<1> SUFFICES ASSUME IInv, CallEnd PROVE IInv'
  OBVIOUS
<1>1. Moved("ending") /\ req'["app"].step = "none"
  BY GoesTo DEF CallEnd, AppPlaces
<1>2. Places'
  BY <1>1 DEF CallEnd, IInv, Moved, Places, NoRequestPlaces, AppLocks, WorkerLocks
<1>3. Values' /\ Signed' /\ Whole'
  BY <1>1 DEF CallEnd, IInv, Places, Moved, Values, Signed, Whole, instanceVars, isSignedIn, canBroadcast
<1> QED
  BY <1>1, <1>2, <1>3 DEF IInv, Moved

LEMMA KeepsCallSignOut == IInv /\ CallSignOut => IInv'
<1> SUFFICES ASSUME IInv, CallSignOut PROVE IInv'
  OBVIOUS
<1>1. Moved("signOut") /\ req'["app"].step = "none"
  BY GoesTo DEF CallSignOut, AppPlaces
<1>2. Places'
  BY <1>1 DEF CallSignOut, IInv, Moved, Places, NoRequestPlaces, AppLocks, WorkerLocks
<1>3. Values' /\ Signed' /\ Whole'
  BY <1>1 DEF CallSignOut, IInv, Places, Moved, Values, Signed, Whole, instanceVars, isSignedIn, canBroadcast
<1> QED
  BY <1>1, <1>2, <1>3 DEF IInv, Moved

LEMMA KeepsStarted == IInv /\ Started => IInv'
<1> SUFFICES ASSUME IInv, Started PROVE IInv'
  OBVIOUS
<1>1. "app" \in Threads /\ "thread" \in Threads \ {"app"} /\ Reqs /\ at \in AtTypes
  BY SessionAssumption DEF IInv, Places
<1>2. req' = [req EXCEPT !["app"] = NoRequest]
  BY DEF Started
<1>3. Reqs' /\ req'["app"] = NoRequest /\ req'["thread"] = req["thread"]
  BY <1>1, <1>2, NoRequestOK, ReqChanges
<1>4. /\ at' \in AtTypes /\ at'.app = "idle" /\ at'.worker = at.worker
      /\ at'.thread \in {at.thread, "on"}
  BY <1>1 DEF Started, AtTypes, AppPlaces
<1>5. Places'
  BY <1>3, <1>4, NoRequestOK DEF Started, AppHas, IInv, Places, NoRequestPlaces, AppLocks, WorkerLocks
<1>6. Values' /\ Signed' /\ Whole'
  BY <1>3, <1>4, NoRequestOK DEF Started, AppHas, IInv, Places, Values, Signed, Whole, instanceVars, isSignedIn, canBroadcast
<1> QED
  BY <1>3, <1>5, <1>6 DEF IInv

LEMMA KeepsEndBroadcast == IInv /\ EndBroadcast => IInv'
<1> SUFFICES ASSUME IInv, EndBroadcast PROVE IInv'
  OBVIOUS
<1>1. at \in AtTypes
  BY DEF IInv, Places
<1>2. /\ at' \in AtTypes /\ at'.app = "idle" /\ at'.worker = at.worker /\ at'.thread = "off"
  BY <1>1 DEF EndBroadcast, AtTypes, AppPlaces
<1>3. Places' /\ Reqs'
  BY <1>2 DEF EndBroadcast, Reqs, IInv, Places, NoRequestPlaces, AppLocks, WorkerLocks
<1>4. Values' /\ Signed'
  BY <1>2 DEF EndBroadcast, IInv, Places, Values, Signed, Whole, instanceVars, isSignedIn, canBroadcast
<1>5. Whole'
  BY <1>2 DEF EndBroadcast, IInv, Places, Values, Signed, Whole, instanceVars, isSignedIn, canBroadcast
<1> QED
  BY <1>3, <1>4, <1>5 DEF IInv

(* The worker. *)
LEMMA KeepsFailureEnds == IInv /\ FailureEnds => IInv'
<1> SUFFICES ASSUME IInv, FailureEnds PROVE IInv'
  OBVIOUS
<1>1. at \in AtTypes
  BY DEF IInv, Places
<1>2. /\ at' \in AtTypes /\ at'.app = at.app /\ at'.worker = "ending" /\ at'.thread = at.thread
  BY <1>1 DEF FailureEnds, AtTypes
<1>3. Places' /\ Reqs'
  BY <1>2 DEF FailureEnds, Reqs, requestVars, IInv, Places, NoRequestPlaces, AppLocks, WorkerLocks
<1>4. Values' /\ Signed' /\ Whole'
  BY <1>2 DEF FailureEnds, requestVars, NoRequestPlaces, AppLocks, WorkerLocks, IInv, Places, Values, Signed, Whole, instanceVars, isSignedIn, canBroadcast
<1> QED
  BY <1>3, <1>4 DEF IInv

LEMMA KeepsWorkerEnds == IInv /\ WorkerEnds => IInv'
<1> SUFFICES ASSUME IInv, WorkerEnds PROVE IInv'
  OBVIOUS
<1>1. at \in AtTypes
  BY DEF IInv, Places
<1>2. /\ at' \in AtTypes /\ at'.app = at.app /\ at'.worker = "idle" /\ at'.thread = "off"
  BY <1>1 DEF WorkerEnds, AtTypes
<1>3. Places' /\ Reqs'
  BY <1>2 DEF WorkerEnds, Reqs, requestVars, IInv, Places, NoRequestPlaces, AppLocks, WorkerLocks
<1>4. Values' /\ Signed' /\ Whole'
  BY <1>2 DEF WorkerEnds, requestVars, NoRequestPlaces, AppLocks, WorkerLocks, IInv, Places, Values, Signed, Whole, instanceVars, isSignedIn, canBroadcast
<1> QED
  BY <1>3, <1>4 DEF IInv

(* The threads of the broadcast: their requests are not those of the application,
   whose places they leave alone. *)
LEMMA OthersRequest ==
    ASSUME IInv, NEW t \in {"thread", "late"}, NEW r, RequestOK(r),
           t = "thread" /\ r.step # "none" => at.thread = "on" /\ r.kind \in BroadcastRequests,
           req' = [req EXCEPT ![t] = r],
           UNCHANGED <<credentials, mixed, instanceVars, at>>
    PROVE  IInv'
<1>1. t \in Threads /\ "app" \in Threads \ {t} /\ "thread" \in Threads
  BY SessionAssumption
<1>2. Reqs' /\ req'[t] = r /\ \A u \in Threads \ {t} : req'[u] = req[u]
  BY <1>1, ReqChanges DEF IInv
<1>3. req'["app"] = req["app"] /\ (t # "thread" => req'["thread"] = req["thread"])
  BY <1>1, <1>2
<1>4. Places'
  BY <1>2, <1>3 DEF IInv, Places, AppLocks, WorkerLocks
<1>5. Values' /\ Signed' /\ Whole'
  BY <1>3 DEF IInv, Values, Signed, Whole, instanceVars, isSignedIn, canBroadcast
<1> QED
  BY <1>2, <1>4, <1>5 DEF IInv

LEMMA KeepsThreadRequests == IInv /\ ThreadRequests => IInv'
<1> SUFFICES ASSUME IInv, ThreadRequests PROVE IInv'
  OBVIOUS
<1>1. PICK kind \in BroadcastRequests : req' = [req EXCEPT !["thread"] = New(kind)]
  BY DEF ThreadRequests
<1>2. kind \in Unauthenticated \cup Authenticated
  BY DEF BroadcastRequests, Authenticated
<1>3. RequestOK(New(kind)) /\ New(kind).kind = kind
  BY <1>2, NewOK
<1> QED
  BY <1>1, <1>3, OthersRequest DEF ThreadRequests

LEMMA KeepsThreadGoesOn == IInv /\ ThreadGoesOn => IInv'
<1> SUFFICES ASSUME IInv, ThreadGoesOn PROVE IInv'
  OBVIOUS
<1>1. "thread" \in Threads
  BY SessionAssumption
<1>2. RequestOK(req["thread"]) /\ req["thread"].step = "done"
  BY <1>1 DEF IInv, Reqs, ThreadGoesOn
<1>3. at.thread = "on" /\ req["thread"].kind \in BroadcastRequests
  BY <1>2 DEF IInv, Places
<1> DEFINE crashed == [req["thread"] EXCEPT !.step = "crashed"]
<1>4. RequestOK(crashed) /\ crashed.kind = req["thread"].kind
  BY <1>2 DEF RequestOK, RequestRecords, Steps
<1>5. req' = [req EXCEPT !["thread"] = crashed] \/ req' = [req EXCEPT !["thread"] = NoRequest]
  BY DEF ThreadGoesOn
<1>6. UNCHANGED <<credentials, mixed, instanceVars, at>>
  BY DEF ThreadGoesOn
<1> HIDE DEF crashed
<1> QED
  BY <1>3, <1>4, <1>5, <1>6, NoRequestOK, OthersRequest

LEMMA KeepsThreadEnds == IInv /\ ThreadEnds => IInv'
<1> SUFFICES ASSUME IInv, ThreadEnds PROVE IInv'
  OBVIOUS
<1>1. at \in AtTypes
  BY DEF IInv, Places
<1>2. /\ at' \in AtTypes /\ at'.app = at.app /\ at'.worker = at.worker /\ at'.thread = "over"
  BY <1>1 DEF ThreadEnds, AtTypes
<1>3. Places' /\ Reqs'
  BY <1>2 DEF ThreadEnds, Reqs, requestVars, IInv, Places, AppLocks, WorkerLocks
<1>4. Values' /\ Signed' /\ Whole'
  BY <1>2 DEF ThreadEnds, requestVars, IInv, Values, Signed, Whole, instanceVars, isSignedIn,
     canBroadcast
<1> QED
  BY <1>3, <1>4 DEF IInv

LEMMA KeepsLateRequests == IInv /\ LateRequests => IInv'
<1> SUFFICES ASSUME IInv, LateRequests PROVE IInv'
  OBVIOUS
<1> DEFINE late == New("stats")
           refresh == [NoRequest EXCEPT !.step = IF credentials = None THEN "crashed" ELSE "refreshing",
                                        !.kind = "credentials", !.tries = 1, !.seen = credentials]
<1>1. RequestOK(late)
  BY NewOK DEF Authenticated
<1>2. 1 \in 0..numRetries /\ NoRequest \in RequestRecords /\ credentials \in Accounts \cup {None}
  BY RequestsAssumption, NoRequestOK DEF RequestOK, IInv, Values
<1>3. /\ refresh \in RequestRecords /\ refresh.kind = "credentials" /\ refresh.seen = credentials
      /\ refresh.step = IF credentials = None THEN "crashed" ELSE "refreshing"
  BY <1>2 DEF RequestRecords, Steps, Kinds
<1>4. RequestOK(refresh)
  BY <1>3 DEF RequestOK
<1>5. req' = [req EXCEPT !["late"] = late] \/ req' = [req EXCEPT !["late"] = refresh]
  BY DEF LateRequests, ReadToken, New
<1>6. UNCHANGED <<credentials, mixed, instanceVars, at>>
  BY DEF LateRequests
<1> HIDE DEF late, refresh
<1> QED
  BY <1>1, <1>4, <1>5, <1>6, OthersRequest

LEMMA KeepsLateGoesOn == IInv /\ LateGoesOn => IInv'
BY NoRequestOK, OthersRequest DEF LateGoesOn

LEMMA KeepsLateEnds == IInv /\ LateEnds => IInv'
<1> SUFFICES ASSUME IInv, LateEnds PROVE IInv'
  OBVIOUS
<1>1. at \in AtTypes
  BY DEF IInv, Places
<1>2. /\ at' \in AtTypes /\ at'.app = at.app /\ at'.worker = at.worker /\ at'.thread = at.thread
  BY <1>1 DEF LateEnds, AtTypes
<1>3. Places' /\ Reqs'
  BY <1>2 DEF LateEnds, Reqs, requestVars, IInv, Places, AppLocks, WorkerLocks
<1>4. Values' /\ Signed' /\ Whole'
  BY <1>2 DEF LateEnds, requestVars, IInv, Values, Signed, Whole, instanceVars, isSignedIn,
     canBroadcast
<1> QED
  BY <1>3, <1>4 DEF IInv

-----------------------------------------------------------------------------
LEMMA KeepsRequest ==
    ASSUME IInv, NEW t \in Threads, RequestStep(t)
    PROVE  IInv'
BY KeepsSend, KeepsComplete, KeepsRetry, KeepsUnauthorized, KeepsRefreshed, KeepsRefreshFailed
   DEF RequestStep, Request

LEMMA KeepsStutter == IInv /\ UNCHANGED vars => IInv'
BY DEF vars, requestVars, instanceVars, IInv, Reqs, Places, Values, Signed, Whole, AppLocks,
   WorkerLocks, isSignedIn, canBroadcast

LEMMA Invariant == Spec => []IInv
<1>1. IInv /\ [Next]_vars => IInv'
  <2> SUFFICES ASSUME IInv, [Next]_vars PROVE IInv'
    OBVIOUS
  <2>1. CASE App
    BY <2>1, KeepsCallSignIn, KeepsCallRefreshAuth, KeepsAuthRefused, KeepsAuthAccepted, KeepsUserInfoFetched,
       KeepsUserInfoFailed, KeepsUserInfoThrows, KeepsCallStart, KeepsVersionChecked,
       KeepsAllowed, KeepsStartLock, KeepsStarted, KeepsCallEnd, KeepsCallSignOut,
       KeepsEndBroadcast DEF App
  <2>2. CASE Others
    BY <2>2, KeepsFailureEnds, KeepsWorkerEnds, KeepsThreadRequests, KeepsThreadGoesOn,
       KeepsThreadEnds, KeepsLateRequests, KeepsLateGoesOn, KeepsLateEnds DEF Others
  <2>3. CASE \E t \in Threads : RequestStep(t)
    BY <2>3, KeepsRequest
  <2>4. CASE UNCHANGED vars
    BY <2>4, KeepsStutter
  <2> QED
    BY <2>1, <2>2, <2>3, <2>4 DEF Next
<1> QED
  BY <1>1, Starts, PTL DEF Spec

(* Every variable keeps its type, for any accounts, tries and refused requests. *)
THEOREM TypeCorrect == Spec => []TypeOK
<1>1. IInv => TypeOK
  BY DEF IInv, Reqs, RequestOK, RequestRecords, Places, AtTypes, Values, TypeOK, RequestTypes
<1> QED
  BY <1>1, Invariant, PTL

(* Credentials are not destroyed under a request of the application's or of the
   broadcast's thread. *)
THEOREM CredentialsThere == Spec => []CredentialsOutliveRequests
<1>1. IInv => CredentialsOutliveRequests
  <2> SUFFICES ASSUME IInv, NEW t \in Threads \ {"late"}, InUse(t) PROVE credentials # None
    BY DEF CredentialsOutliveRequests
  <2>1. t = "app" \/ t = "thread"
    BY SessionAssumption
  <2>2. CASE t = "app"
    BY <2>2 DEF IInv, Places, Signed, InUse, AtTypes, AppPlaces, NoRequestPlaces, Unauthenticated,
       isSignedIn
  <2>3. CASE t = "thread"
    BY <2>3 DEF IInv, Places, Signed, InUse, isSignedIn
  <2> QED
    BY <2>1, <2>2, <2>3
<1> QED
  BY <1>1, Invariant, PTL

(* Credentials, the copy of their token, the user and the broadcast are of one account
   and come and go together, unless mixed. *)
THEOREM WholeSession == Spec => []SessionIsWhole
<1>1. IInv => SessionIsWhole
  BY DEF IInv, Signed, Whole, SessionIsWhole, isSignedIn
<1> QED
  BY <1>1, Invariant, PTL

(* Nobody broadcasts who is not allowed to, or as somebody else. *)
THEOREM OnlyTheAllowed == Spec => []AllowedToBroadcast
<1>1. IInv => AllowedToBroadcast
  BY DEF IInv, Signed, AllowedToBroadcast
<1> QED
  BY <1>1, Invariant, PTL
=============================================================================
