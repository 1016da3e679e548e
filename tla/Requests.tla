------------------------------ MODULE Requests ------------------------------
(***************************************************************************)
(* The requests of src/src/RestApi.cpp: retryRequest, the credentials that *)
(* every authenticated request reads and, refused with a 401, replaces     *)
(* with refreshed ones, and what each request function makes of an answer: *)
(*                                                                         *)
(*   ok            the answer asked for                                    *)
(*   none          Complete without one (a failure that is not retried)    *)
(*   refused, old  the answer is a refusal the caller is told of           *)
(*   retry         Retryable::Retry                                        *)
(*   unauthorized  a 401, handled by refreshCredentials and recursion      *)
(*   throw         JSON of another shape: the conversion throws            *)
(*                                                                         *)
(* The server is external: any answer may come at any time.  Credentials   *)
(* are known by the account they belong to.                                *)
(***************************************************************************)
EXTENDS Naturals

CONSTANTS
    Threads,     \* threads that make requests
    Accounts,    \* accounts of the service
    None,        \* no account, no value
    numRetries,  \* tries of a request (3 in the code)
    MaxRefused   \* bound: 401s of one request whose refresh succeeded

ASSUME RequestsAssumption ==
    /\ None \notin Accounts
    /\ numRetries \in Nat \ {0}
    /\ MaxRefused \in Nat

VARIABLES
    credentials,  \* SharedCredentials: whose they are, None when not constructed
    req,          \* each thread's request
    mixed         \* history: credentials were stored over another account's

requestVars == <<credentials, req, mixed>>

-----------------------------------------------------------------------------
(* The request functions. *)

doCheckVersion == {"ok", "old", "retry", "throw"}
doSignIn == {"ok", "none", "refused", "throw"}
doRefreshAuth == {"ok", "none", "refused", "throw"}
doGetUserInfo == {"ok", "none", "unauthorized", "throw"}
doTrickleCandidates == {"ok", "retry", "unauthorized"}
doHeartbeatStream == {"ok", "none", "unauthorized", "throw"}
doUpdateScreenshot == {"ok", "retry", "unauthorized"}

(* An answer that cannot be unpacked, or that tells of errors, is none. *)
graphqlRequest == {"ok", "none"}
(* Serializing a request throws, before it is sent, on a title cut inside a character. *)
doGraphqlRawRequest == graphqlRequest \cup {"retry", "unauthorized", "throw"}
doGetEncoderInfo == {"ok", "none", "throw"}
sendWebrtcStats == {"ok", "none"}

Answers(kind) ==
    CASE kind = "version" -> doCheckVersion
      [] kind = "signIn" -> doSignIn
      [] kind = "refreshAuth" -> doRefreshAuth
      [] kind = "userInfo" -> doGetUserInfo
      [] kind = "trickle" -> doTrickleCandidates
      [] kind = "heartbeat" -> doHeartbeatStream
      [] kind = "screenshot" -> doUpdateScreenshot
      [] kind = "graphql" -> doGraphqlRawRequest
      [] kind = "encoderInfo" -> doGetEncoderInfo
      [] kind = "stats" -> sendWebrtcStats

Unauthenticated == {"version", "signIn", "refreshAuth"}
Authenticated ==
    {"userInfo", "trickle", "heartbeat", "screenshot", "graphql", "encoderInfo", "stats"}

(* "credentials" is refreshCredentials called for itself. *)
Kinds == Unauthenticated \cup Authenticated \cup {"credentials"}

Steps == {"none", "send", "sent", "refreshing", "done", "crashed"}

NoRequest == [step |-> "none", kind |-> None, tries |-> 0, refused |-> 0, seen |-> None,
              result |-> None]

New(kind) == [NoRequest EXCEPT !.step = "send", !.kind = kind, !.tries = 1]

Done(r, result) == [r EXCEPT !.step = "done", !.tries = 0, !.refused = 0, !.result = result]

-----------------------------------------------------------------------------
(* authenticatedHeaders: the credentials are read under their lock.  Reading them
   where none are constructed is undefined: place "crashed". *)
Send(t) ==
    /\ req[t].step = "send"
    /\ LET needs == req[t].kind \in Authenticated
       IN req' = [req EXCEPT ![t] =
              [@ EXCEPT !.step = IF needs /\ credentials = None THEN "crashed" ELSE "sent",
                        !.seen = IF needs THEN credentials ELSE None]]
    /\ UNCHANGED <<credentials, mixed>>

(* retryRequest: a Complete answer ends it, the last try too. *)
Complete(t) ==
    /\ req[t].step = "sent"
    /\ \E answer \in Answers(req[t].kind) \ {"retry", "unauthorized"} :
          req' = [req EXCEPT ![t] = Done(@, answer)]
    /\ UNCHANGED <<credentials, mixed>>

\* Variant: the last try is not told from the others.
RetryForever(t) ==
    /\ req[t].step = "sent"
    /\ "retry" \in Answers(req[t].kind)
    /\ req' = [req EXCEPT ![t].step = "send"]
    /\ UNCHANGED <<credentials, mixed>>

\* Variant: one try too many.
RetryOnceMore(t) ==
    /\ req[t].step = "sent"
    /\ "retry" \in Answers(req[t].kind)
    /\ req' = [req EXCEPT ![t] =
          IF @.tries > numRetries THEN Done(@, "none")
          ELSE [@ EXCEPT !.step = "send", !.tries = req[t].tries + 1]]
    /\ UNCHANGED <<credentials, mixed>>

Retry(t) ==
    /\ req[t].step = "sent"
    /\ "retry" \in Answers(req[t].kind)
    /\ req' = [req EXCEPT ![t] =
          IF @.tries = numRetries THEN Done(@, "none")
          ELSE [@ EXCEPT !.step = "send", !.tries = req[t].tries + 1]]
    /\ UNCHANGED <<credentials, mixed>>

(* refreshCredentials first reads the refresh token ... *)
ReadToken(t, r) ==
    req' = [req EXCEPT ![t] =
        [r EXCEPT !.step = IF credentials = None THEN "crashed" ELSE "refreshing",
                  !.seen = credentials]]

Unauthorized(t) ==
    /\ req[t].step = "sent"
    /\ "unauthorized" \in Answers(req[t].kind)
    /\ req[t].refused < MaxRefused
    /\ ReadToken(t, req[t])
    /\ UNCHANGED <<credentials, mixed>>

(* ... asks for new credentials without holding the lock, and stores them in
   whatever SharedCredentials is there by then.  The request is then repeated
   within the same try. *)
Refreshed(t) ==
    /\ req[t].step = "refreshing"
    /\ IF credentials = None
       THEN /\ req' = [req EXCEPT ![t].step = "crashed"]
            /\ UNCHANGED <<credentials, mixed>>
       ELSE /\ req' = [req EXCEPT ![t] =
                  IF @.kind = "credentials" THEN Done(@, "ok")
                  ELSE [@ EXCEPT !.step = "send", !.refused = req[t].refused + 1]]
            /\ credentials' = req[t].seen
            /\ mixed' = (mixed \/ credentials # req[t].seen)

(* A refresh that fails ends the request; one that throws, throws through it. *)
RefreshFailed(t) ==
    /\ req[t].step = "refreshing"
    /\ \E answer \in doRefreshAuth \ {"ok"} :
          req' = [req EXCEPT ![t] = Done(@, IF answer = "throw" THEN "throw" ELSE "none")]
    /\ UNCHANGED <<credentials, mixed>>

Request(t) ==
    Send(t) \/ Complete(t) \/ Retry(t) \/ Unauthorized(t) \/ Refreshed(t) \/ RefreshFailed(t)

RequestTypes ==
    /\ credentials \in Accounts \cup {None}
    /\ mixed \in BOOLEAN
    /\ req \in [Threads -> [step : Steps, kind : Kinds \cup {None}, tries : 0 .. numRetries,
                            refused : 0 .. MaxRefused, seen : Accounts \cup {None},
                            result : {None, "ok", "none", "refused", "old", "throw"}]]
=============================================================================
