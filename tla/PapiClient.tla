------------------------------ MODULE PapiClient ------------------------------
(***************************************************************************)
(* The client of the OneFS API of one cluster (internal/api/api.go):       *)
(* Connect, which logs in and asks for the configuration of the cluster,   *)
(* and RestGet, with the login it makes when the session is due for        *)
(* renewal or when the node that answers does not know it.                 *)
(*                                                                         *)
(* One goroutine makes one call at a time.  What the cluster answers is    *)
(* not modelled: any answer may come at any time.  A request is built with *)
(* the CSRF token the client holds and is kept over retries; the cookie    *)
(* jar follows every answer by itself.  Waits have no length here.         *)
(***************************************************************************)
EXTENDS Naturals

CONSTANT
  Limits        \* the max_retries considered; 0 retries for ever

ASSUME LimitsAssumption == Limits \subseteq Nat

VARIABLES
  auth,       \* AuthType
  limit,      \* MaxRetries
  phase,      \* "connect" up to the end of Connect, then "use"
  pc,         \* what the client is doing
  tries,      \* GETs made in this call
  posts,      \* POSTs made in this login
  cause,      \* why the login: "connect", "timer" or "unauthorized"
  fresh,      \* the request has the token of the session in the cookie jar
  stale,      \* the token of the client is not that of the session in the jar
  reauthDue,  \* reauthTime has passed
  resp,       \* what the last GET of this call left in resp
  result,     \* what RestGet returned
  alive,      \* the request was made before the cancellation
  ctxDone     \* the context of the run is cancelled

cluster == <<auth, limit, phase>>
login == <<posts, cause, stale, reauthDue>>
get == <<tries, fresh>>
answer == <<resp, result>>
vars == <<cluster, pc, login, get, answer, alive, ctxDone>>

MaxTries == IF limit = 0 THEN 1 ELSE limit

TypeOK ==
  /\ auth \in {"session", "basic"}
  /\ limit \in Limits
  /\ phase \in {"connect", "use"}
  /\ pc \in {"new", "post", "postwait", "get", "getwait", "returned"}
  /\ tries \in 0 .. MaxTries
  /\ posts \in 0 .. MaxTries
  /\ cause \in {"none", "connect", "timer", "unauthorized"}
  /\ resp \in {"none", "ok", "unauthorized", "other"}
  /\ result \in {"none", "body", "error"}
  /\ {fresh, stale, reauthDue, alive, ctxDone} \subseteq BOOLEAN

\* Initialize has been called; reauthTime is the zero time.
Init ==
  /\ auth \in {"session", "basic"}
  /\ limit \in Limits
  /\ phase = "connect"
  /\ pc = "new"
  /\ tries = 0 /\ posts = 0
  /\ cause = "none"
  /\ fresh = FALSE /\ stale = FALSE
  /\ reauthDue = (auth = "session")
  /\ resp = "none" /\ result = "none"
  /\ alive = TRUE /\ ctxDone = FALSE

Return(res) ==
  /\ pc' = "returned"
  /\ result' = res

\* The condition and the increment of both retry loops; passes of a loop
\* without an end are not counted.
Again(i) == limit = 0 \/ i < limit
Pass(i) == IF limit = 0 THEN i ELSE i + 1

\* A request made under a cancelled context fails without being sent.
Do(kind) ==
  /\ pc' = kind
  /\ alive' = ~ctxDone

------------------------------------------------------------------------------
(* RestGet.                                                                *)

\* newGetRequest: the token is the one the client holds now.
NewGetRequest == fresh' = ~stale'

\* The first pass of the loop.
FirstGet ==
  /\ Do("get")
  /\ tries' = 1
  /\ NewGetRequest

Login(reason) ==
  /\ Do("post")
  /\ cause' = reason
  /\ posts' = 1

\* Connect: a login, with session authentication, and a first call.
Connect ==
  /\ pc = "new"
  /\ UNCHANGED <<cluster, stale, reauthDue, answer, ctxDone>>
  /\ IF auth = "session"
     THEN Login("connect") /\ UNCHANGED <<tries, fresh>>
     ELSE FirstGet /\ UNCHANGED <<cause, posts>>

\* RestGet is called.  Once Connect has failed nothing calls it any more.
Call ==
  /\ pc = "returned"
  /\ phase = "use" \/ result = "body"
  /\ phase' = "use"
  /\ resp' = "none" /\ result' = "none"
  /\ UNCHANGED <<auth, limit, stale, reauthDue, ctxDone>>
  /\ IF auth = "session" /\ reauthDue
     THEN Login("timer") /\ tries' = 0 /\ UNCHANGED fresh
     ELSE FirstGet /\ UNCHANGED <<cause, posts>>

\* The status is OK: the body is read, which may fail.
GetOk ==
  /\ pc = "get" /\ alive
  /\ resp' = "ok"
  /\ \E res \in {"body", "error"} : Return(res)
  /\ UNCHANGED <<cluster, login, get, alive, ctxDone>>

\* Basic authentication fails for good; a session is renewed.
GetUnauthorized ==
  /\ pc = "get" /\ alive
  /\ resp' = "unauthorized"
  /\ IF auth = "session"
     THEN Login("unauthorized") /\ UNCHANGED result
     ELSE Return("error") /\ UNCHANGED <<posts, cause, alive>>
  /\ UNCHANGED <<cluster, get, stale, reauthDue, ctxDone>>

GetOtherStatus ==
  /\ pc = "get" /\ alive
  /\ resp' = "other"
  /\ Return("error")
  /\ UNCHANGED <<cluster, login, get, alive, ctxDone>>

\* Any error but a refused connection, a cancelled context among them.
GetFails ==
  /\ pc = "get"
  /\ resp' = "none"
  /\ Return("error")
  /\ UNCHANGED <<cluster, login, get, alive, ctxDone>>

GetRefused ==
  /\ pc = "get" /\ alive
  /\ resp' = "none"
  /\ pc' = "getwait"
  /\ UNCHANGED <<cluster, login, get, result, alive, ctxDone>>

\* The same request again, or the end of the loop with the error in hand.
GetWaitOver ==
  /\ pc = "getwait"
  /\ IF Again(tries)
     THEN Do("get") /\ tries' = Pass(tries) /\ UNCHANGED result
     ELSE Return("error") /\ UNCHANGED <<tries, alive>>
  /\ UNCHANGED <<cluster, login, fresh, resp, ctxDone>>

GetWaitCancelled ==
  /\ pc = "getwait" /\ ctxDone
  /\ Return("error")
  /\ UNCHANGED <<cluster, login, get, resp, alive, ctxDone>>

------------------------------------------------------------------------------
(* Authenticate.                                                           *)

\* Mutant: the request that was refused is sent again, with its old token.
GetAgainUnchanged ==
  /\ fresh' = FALSE
  /\ IF Again(tries)
     THEN Do("get") /\ tries' = Pass(tries) /\ UNCHANGED result
     ELSE Return("error") /\ UNCHANGED <<tries, alive>>

\* Mutant: a GET answered with 401 does not count.
GetAgainUncounted ==
  /\ NewGetRequest
  /\ Do("get") /\ UNCHANGED <<tries, result>>

\* Mutant: the pass after the last one is still made.
GetAgainLate ==
  /\ NewGetRequest
  /\ IF Again(tries - 1)
     THEN Do("get") /\ tries' = Pass(tries) /\ UNCHANGED result
     ELSE Return("error") /\ UNCHANGED <<tries, alive>>

\* Mutant: the status is not looked at after the loop.
GetAgainUnverified ==
  /\ NewGetRequest
  /\ IF Again(tries)
     THEN Do("get") /\ tries' = Pass(tries) /\ UNCHANGED result
     ELSE Return("body") /\ UNCHANGED <<tries, alive>>

\* A new request and the next pass of the loop; after the last one the answer
\* in hand is the 401, and the status is looked at once more.
GetAgain ==
  /\ NewGetRequest
  /\ IF Again(tries)
     THEN Do("get") /\ tries' = Pass(tries) /\ UNCHANGED result
     ELSE Return("error") /\ UNCHANGED <<tries, alive>>

\* Status 201 and a body that parses: reauthTime and the token are set.
LoggedIn ==
  /\ pc = "post" /\ alive
  /\ reauthDue' = FALSE /\ stale' = FALSE
  /\ IF cause = "unauthorized" THEN GetAgain ELSE FirstGet /\ UNCHANGED result
  /\ UNCHANGED <<cluster, posts, cause, resp, ctxDone>>

\* Any other status; or 201 and a body that does not parse, when the jar has
\* the new session already and the client still has the token of the old one.
LoginRejected ==
  /\ pc = "post" /\ alive
  /\ stale' \in {stale, TRUE}
  /\ Return("error")
  /\ UNCHANGED <<cluster, posts, cause, reauthDue, get, resp, alive, ctxDone>>

\* Whatever the error is: a wait, after the last POST too.
PostFails ==
  /\ pc = "post"
  /\ pc' = "postwait"
  /\ UNCHANGED <<cluster, login, get, answer, alive, ctxDone>>

\* Mutant: the wait is a sleep that does not look at the context.
PostWaitOverAsleep ==
  /\ pc = "postwait"
  /\ IF Again(posts)
     THEN Do("post") /\ posts' = Pass(posts) /\ UNCHANGED result
     ELSE Return("error") /\ UNCHANGED <<posts, alive>>
  /\ UNCHANGED <<cluster, cause, stale, reauthDue, get, resp, ctxDone>>

\* A wait that begins under a cancelled context ends by that alone.
PostWaitOver ==
  /\ pc = "postwait" /\ alive
  /\ IF Again(posts)
     THEN Do("post") /\ posts' = Pass(posts) /\ UNCHANGED result
     ELSE Return("error") /\ UNCHANGED <<posts, alive>>
  /\ UNCHANGED <<cluster, cause, stale, reauthDue, get, resp, ctxDone>>

PostWaitCancelled ==
  /\ pc = "postwait" /\ ctxDone
  /\ Return("error")
  /\ UNCHANGED <<cluster, login, get, resp, alive, ctxDone>>

------------------------------------------------------------------------------

\* Time passes the end of the session, less the minute of grace.
SessionAges ==
  /\ auth = "session" /\ ~reauthDue
  /\ reauthDue' = TRUE
  /\ UNCHANGED <<cluster, pc, posts, cause, stale, get, answer, alive, ctxDone>>

Cancel ==
  /\ ~ctxDone
  /\ ctxDone' = TRUE
  /\ UNCHANGED <<cluster, pc, login, get, answer, alive>>

\* The collection loop has returned.
GivenUp ==
  /\ pc = "returned" /\ phase = "connect" /\ result = "error"
  /\ UNCHANGED vars

GetReturns ==
  GetOk \/ GetUnauthorized \/ GetOtherStatus \/ GetFails \/ GetRefused

PostReturns == LoggedIn \/ LoginRejected \/ PostFails

Waits == GetWaitOver \/ GetWaitCancelled \/ PostWaitOver \/ PostWaitCancelled

Next ==
  \/ Connect \/ Call
  \/ GetReturns \/ PostReturns \/ Waits
  \/ SessionAges \/ Cancel \/ GivenUp

\* Requests are answered or fail, waits end.
Fairness == WF_vars(GetReturns) /\ WF_vars(PostReturns) /\ WF_vars(Waits)

Spec == Init /\ [][Next]_vars

FairSpec == Spec /\ Fairness

------------------------------------------------------------------------------
(* Properties.                                                             *)

\* What RestGet returns as a body is that of an answer with status OK, and
\* never that of the 401 which the last pass of the loop left in resp.
BodyIsOk == result = "body" => resp = "ok"

\* No request goes out with the token of a session that a login has replaced,
\* whether the login was made for the timer, in the loop or in an earlier call;
\* but for the login whose answer had status 201 and did not parse.
RequestIsFresh == pc = "get" /\ ~fresh => stale

\* With a limit every call returns: neither refused connections nor a cluster
\* that forgets each session at once keeps it for ever.
CallReturns == limit # 0 /\ pc \notin {"new", "returned"} ~> pc = "returned"

\* Cancelling the run ends the call even where retries have no limit.
CancelStops == ctxDone ~> pc \in {"new", "returned"}

==============================================================================
