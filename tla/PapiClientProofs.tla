--------------------------- MODULE PapiClientProofs ---------------------------
(***************************************************************************)
(* The safety of the API client, for every set of retry limits.            *)
(***************************************************************************)
EXTENDS PapiClient, TLAPS

LEMMA MaxTriesIsPositive ==
  ASSUME limit \in Limits
  PROVE  limit \in Nat /\ MaxTries \in Nat /\ MaxTries >= 1
         /\ (limit # 0 => MaxTries = limit)
BY LimitsAssumption DEF MaxTries

\* A pass that the loop's condition lets begin is counted within the limit.
LEMMA PassWithinLimit ==
  ASSUME limit \in Limits, NEW i \in 0 .. MaxTries, Again(i)
  PROVE  Pass(i) \in 0 .. MaxTries
BY MaxTriesIsPositive DEF Again, Pass

\* The client's variables keep their types: no retry loop makes a pass more
\* than max_retries allows.
THEOREM ClientTypeCorrect == Spec => []TypeOK
<1>1. Init => TypeOK
  <2> SUFFICES ASSUME Init PROVE TypeOK
    OBVIOUS
  <2>1. limit \in Limits
    BY DEF Init
  <2>2. 0 \in 0 .. MaxTries
    BY <2>1, MaxTriesIsPositive
  <2>3. {fresh, stale, reauthDue, alive, ctxDone} \subseteq BOOLEAN
    BY DEF Init
  <2> QED
    BY <2>1, <2>2, <2>3 DEF Init, TypeOK
<1>2. TypeOK /\ [Next]_vars => TypeOK'
  <2> SUFFICES ASSUME TypeOK, [Next]_vars PROVE TypeOK'
    OBVIOUS
  <2>1. limit \in Limits /\ limit' = limit /\ auth' = auth
       /\ phase' \in {"connect", "use"}
    BY DEF TypeOK, vars, cluster, Next, Connect, Call, GetReturns, GetOk,
           GetUnauthorized, GetOtherStatus, GetFails, GetRefused, PostReturns,
           LoggedIn, LoginRejected, PostFails, Waits, GetWaitOver,
           GetWaitCancelled, PostWaitOver, PostWaitCancelled, SessionAges,
           Cancel, GivenUp
  <2>2. MaxTries' = MaxTries /\ 0 \in 0 .. MaxTries /\ 1 \in 0 .. MaxTries
    BY <2>1, MaxTriesIsPositive DEF MaxTries
  <2>3. (tries \in 0 .. MaxTries /\ posts \in 0 .. MaxTries)'
    <3>1. ASSUME NEW i \in 0 .. MaxTries, Again(i) PROVE Pass(i) \in 0 .. MaxTries
      BY <3>1, <2>1, PassWithinLimit
    <3>2. tries \in 0 .. MaxTries /\ posts \in 0 .. MaxTries
      BY DEF TypeOK
    <3>3. tries' = tries \/ tries' = 0 \/ tries' = 1
          \/ (Again(tries) /\ tries' = Pass(tries))
      BY DEF vars, login, get, answer, Next, Connect, Call, GetReturns, GetOk,
             GetUnauthorized, GetOtherStatus, GetFails, GetRefused, PostReturns,
             LoggedIn, LoginRejected, PostFails, Waits, GetWaitOver,
             GetWaitCancelled, PostWaitOver, PostWaitCancelled, SessionAges,
             Cancel, GivenUp, FirstGet, GetAgain
    <3>4. posts' = posts \/ posts' = 1 \/ (Again(posts) /\ posts' = Pass(posts))
      BY DEF vars, login, get, answer, Next, Connect, Call, GetReturns, GetOk,
             GetUnauthorized, GetOtherStatus, GetFails, GetRefused, PostReturns,
             LoggedIn, LoginRejected, PostFails, Waits, GetWaitOver,
             GetWaitCancelled, PostWaitOver, PostWaitCancelled, SessionAges,
             Cancel, GivenUp, Login
    <3> QED
      BY <3>1, <3>2, <3>3, <3>4, <2>2
  <2>4. (pc \in {"new", "post", "postwait", "get", "getwait", "returned"})'
    BY DEF TypeOK, vars, Next, Connect, Call, GetReturns, GetOk, GetUnauthorized,
           GetOtherStatus, GetFails, GetRefused, PostReturns, LoggedIn,
           LoginRejected, PostFails, Waits, GetWaitOver, GetWaitCancelled,
           PostWaitOver, PostWaitCancelled, SessionAges, Cancel, GivenUp, FirstGet,
           Login, GetAgain, Do, Return
  <2>5. (cause \in {"none", "connect", "timer", "unauthorized"})'
    BY DEF TypeOK, vars, login, Next, Connect, Call, GetReturns, GetOk, GetUnauthorized,
           GetOtherStatus, GetFails, GetRefused, PostReturns, LoggedIn,
           LoginRejected, PostFails, Waits, GetWaitOver, GetWaitCancelled,
           PostWaitOver, PostWaitCancelled, SessionAges, Cancel, GivenUp, Login
  <2>6. (resp \in {"none", "ok", "unauthorized", "other"})'
    BY DEF TypeOK, vars, answer, Next, Connect, Call, GetReturns, GetOk, GetUnauthorized,
           GetOtherStatus, GetFails, GetRefused, PostReturns, LoggedIn,
           LoginRejected, PostFails, Waits, GetWaitOver, GetWaitCancelled,
           PostWaitOver, PostWaitCancelled, SessionAges, Cancel, GivenUp
  <2>7. (result \in {"none", "body", "error"})'
    BY DEF TypeOK, vars, answer, Next, Connect, Call, GetReturns, GetOk, GetUnauthorized,
           GetOtherStatus, GetFails, GetRefused, PostReturns, LoggedIn,
           LoginRejected, PostFails, Waits, GetWaitOver, GetWaitCancelled,
           PostWaitOver, PostWaitCancelled, SessionAges, Cancel, GivenUp, Return,
           GetAgain
  <2>8. ({fresh, stale, reauthDue, alive, ctxDone} \subseteq BOOLEAN)'
    <3>1. {fresh, stale, reauthDue, alive, ctxDone} \subseteq BOOLEAN
      BY DEF TypeOK
    <3>2. fresh' \in BOOLEAN
      BY <3>1 DEF vars, login, get, Next, Connect, Call, GetReturns, GetOk,
             GetUnauthorized, GetOtherStatus, GetFails, GetRefused, PostReturns,
             LoggedIn, LoginRejected, PostFails, Waits, GetWaitOver,
             GetWaitCancelled, PostWaitOver, PostWaitCancelled, SessionAges,
             Cancel, GivenUp, FirstGet, GetAgain, NewGetRequest
    <3>3. alive' \in BOOLEAN
      BY <3>1 DEF vars, Next, Connect, Call, GetReturns, GetOk,
             GetUnauthorized, GetOtherStatus, GetFails, GetRefused, PostReturns,
             LoggedIn, LoginRejected, PostFails, Waits, GetWaitOver,
             GetWaitCancelled, PostWaitOver, PostWaitCancelled, SessionAges,
             Cancel, GivenUp, FirstGet, GetAgain, Login, Do
    <3>4. {stale', reauthDue', ctxDone'} \subseteq BOOLEAN
      BY <3>1 DEF vars, login, Next, Connect, Call, GetReturns, GetOk,
             GetUnauthorized, GetOtherStatus, GetFails, GetRefused, PostReturns,
             LoggedIn, LoginRejected, PostFails, Waits, GetWaitOver,
             GetWaitCancelled, PostWaitOver, PostWaitCancelled, SessionAges,
             Cancel, GivenUp
    <3> QED
      BY <3>2, <3>3, <3>4
  <2> QED
    BY <2>1, <2>3, <2>4, <2>5, <2>6, <2>7, <2>8 DEF TypeOK
<1> QED
  BY <1>1, <1>2, PTL DEF Spec

\* Inductive: a call that has not returned has no result yet.
BodyInv == BodyIsOk /\ (pc # "returned" => result = "none")

\* RestGet returns a body only from an answer with status OK: the check after
\* the loop catches the 401 of the last pass.
THEOREM BodyComesFromOk == Spec => []BodyIsOk
<1>1. Init => BodyInv
  BY DEF Init, BodyInv, BodyIsOk
<1>2. BodyInv /\ [Next]_vars => BodyInv'
  <2> SUFFICES ASSUME BodyInv, [Next]_vars PROVE BodyInv'
    OBVIOUS
  <2> USE DEF BodyInv, BodyIsOk
  <2>1. CASE Connect \/ Call
    BY <2>1 DEF Connect, Call, answer
  <2>2. CASE GetReturns
    BY <2>2 DEF GetReturns, GetOk, GetUnauthorized, GetOtherStatus, GetFails,
                GetRefused, Login, Return
  <2>3. CASE LoggedIn
    BY <2>3 DEF LoggedIn, GetAgain, FirstGet, Return
  <2>4. CASE LoginRejected
    BY <2>4 DEF LoginRejected, Return
  <2>5. CASE PostFails
    BY <2>5 DEF PostFails, answer
  <2>6. CASE Waits
    BY <2>6 DEF Waits, GetWaitOver, GetWaitCancelled, PostWaitOver,
                PostWaitCancelled, Return
  <2>7. CASE SessionAges \/ Cancel \/ GivenUp \/ UNCHANGED vars
    BY <2>7 DEF SessionAges, Cancel, GivenUp, vars, answer
  <2> QED
    BY <2>1, <2>2, <2>3, <2>4, <2>5, <2>6, <2>7 DEF Next, PostReturns
<1>3. BodyInv => BodyIsOk
  BY DEF BodyInv
<1> QED
  BY <1>1, <1>2, <1>3, PTL DEF Spec

\* Inductive: from the moment it is built, the request of a call has the token
\* the client holds, through every refused connection and every login.
RequestInv == pc \in {"get", "getwait"} /\ ~fresh => stale

\* No request carries the token of a session that was replaced, but for the
\* login whose answer did not parse.
THEOREM RequestsAreFresh == Spec => []RequestIsFresh
<1>1. Init => RequestInv
  BY DEF Init, RequestInv
<1>2. RequestInv /\ [Next]_vars => RequestInv'
  <2> SUFFICES ASSUME RequestInv, [Next]_vars PROVE RequestInv'
    OBVIOUS
  <2> USE DEF RequestInv
  <2>1. CASE Connect \/ Call
    BY <2>1 DEF Connect, Call, FirstGet, NewGetRequest, Login, Do
  <2>2. CASE GetReturns
    BY <2>2 DEF GetReturns, GetOk, GetUnauthorized, GetOtherStatus, GetFails,
                GetRefused, Login, Do, Return, login, get
  <2>3. CASE LoggedIn
    BY <2>3 DEF LoggedIn, GetAgain, FirstGet, NewGetRequest
  <2>4. CASE LoginRejected \/ PostFails
    BY <2>4 DEF LoginRejected, PostFails, Return
  <2>5. CASE Waits
    BY <2>5 DEF Waits, GetWaitOver, GetWaitCancelled, PostWaitOver,
                PostWaitCancelled, Return, Do, login, get
  <2>6. CASE SessionAges \/ Cancel \/ GivenUp \/ UNCHANGED vars
    BY <2>6 DEF SessionAges, Cancel, GivenUp, vars, login, get
  <2> QED
    BY <2>1, <2>2, <2>3, <2>4, <2>5, <2>6 DEF Next, PostReturns
<1>3. RequestInv => RequestIsFresh
  BY DEF RequestInv, RequestIsFresh
<1> QED
  BY <1>1, <1>2, <1>3, PTL DEF Spec

------------------------------------------------------------------------------
(* The end of a call.                                                        *)

Busy == pc \notin {"new", "returned"}

\* A login that is not for the loop of RestGet comes before its first pass.
LoginInv ==
  /\ pc = "new" => tries = 0
  /\ pc \in {"post", "postwait"} /\ cause # "unauthorized" => tries = 0
  /\ pc = "getwait" => alive

\* A login for the timer comes before the loop of RestGet, and no wait for a
\* cluster that refused a GET begins under a cancelled context.
THEOREM LoginInvariant == Spec => []LoginInv
<1>1. Init => LoginInv
  BY DEF Init, LoginInv
<1>2. LoginInv /\ [Next]_vars => LoginInv'
  <2> SUFFICES ASSUME LoginInv, [Next]_vars PROVE LoginInv'
    OBVIOUS
  <2> USE DEF LoginInv
  <2>1. CASE Connect \/ Call
    BY <2>1 DEF Connect, Call, FirstGet, Login, Do
  <2>2. CASE GetReturns
    BY <2>2 DEF GetReturns, GetOk, GetUnauthorized, GetOtherStatus, GetFails,
                GetRefused, Login, Do, Return
  <2>3. CASE LoggedIn
    BY <2>3 DEF LoggedIn, GetAgain, FirstGet, Do, Return
  <2>4. CASE LoginRejected \/ PostFails
    BY <2>4 DEF LoginRejected, PostFails, Return, login, get
  <2>5. CASE Waits
    BY <2>5 DEF Waits, GetWaitOver, GetWaitCancelled, PostWaitOver,
                PostWaitCancelled, Return, Do, login, get
  <2>6. CASE SessionAges \/ Cancel \/ GivenUp \/ UNCHANGED vars
    BY <2>6 DEF SessionAges, Cancel, GivenUp, vars, login, get
  <2> QED
    BY <2>1, <2>2, <2>3, <2>4, <2>5, <2>6 DEF Next, PostReturns
<1> QED BY <1>1, <1>2, PTL DEF Spec

\* How far a pass of the loop over GETs is from its end: a login has its POSTs.
LoginsLeft ==
  IF pc = "get" THEN 2 * MaxTries
  ELSE IF pc \in {"post", "postwait"}
  THEN 2 * (MaxTries - posts) + (IF pc = "post" THEN 1 ELSE 0)
  ELSE 0

Closer ==
  \/ pc' = "returned"
  \/ tries' > tries
  \/ tries' = tries /\ LoginsLeft' < LoginsLeft

GetsCloser == limit # 0 /\ Busy => SessionAges \/ Cancel \/ Closer

LEMMA CloserStep ==
  ASSUME TypeOK, LoginInv, limit # 0, Busy, GetReturns \/ PostReturns \/ Waits
  PROVE  Closer
<1>0. /\ MaxTries \in Nat /\ MaxTries >= 1 /\ MaxTries = limit
      /\ tries \in 0 .. MaxTries /\ posts \in 0 .. MaxTries /\ limit \in Nat
  BY MaxTriesIsPositive DEF TypeOK
<1>1. /\ \A i \in 0 .. MaxTries : Pass(i) = i + 1
      /\ \A i \in 0 .. MaxTries : Again(i) => i < MaxTries
  BY <1>0 DEF Pass, Again
<1>2. CASE GetReturns
  <2>1. CASE GetUnauthorized /\ auth = "session"
    <3>1. pc = "get" /\ pc' = "post" /\ posts' = 1 /\ tries' = tries /\ limit' = limit
      BY <2>1 DEF GetUnauthorized, Login, Do, get, cluster
    <3>2. MaxTries' = MaxTries
      BY <3>1 DEF MaxTries
    <3>3. LoginsLeft = 2 * MaxTries /\ LoginsLeft' = 2 * (MaxTries - 1) + 1
      BY <3>1, <3>2 DEF LoginsLeft
    <3> QED BY <1>0, <3>1, <3>3 DEF Closer
  <2>2. CASE GetRefused
    <3>1. pc = "get" /\ pc' = "getwait" /\ tries' = tries
      BY <2>2 DEF GetRefused, get
    <3>2. LoginsLeft = 2 * MaxTries /\ LoginsLeft' = 0
      BY <3>1 DEF LoginsLeft
    <3> QED BY <1>0, <3>1, <3>2 DEF Closer
  <2>3. CASE ~(GetUnauthorized /\ auth = "session") /\ ~GetRefused
    BY <1>2, <2>3 DEF GetReturns, GetOk, GetUnauthorized, GetOtherStatus, GetFails,
                      Return, Closer
  <2> QED BY <2>1, <2>2, <2>3
<1>3. CASE LoggedIn
  <2>1. CASE cause = "unauthorized"
    <3>1. pc' = "returned" \/ (Again(tries) /\ tries' = Pass(tries))
      BY <1>3, <2>1 DEF LoggedIn, GetAgain, Return
    <3> QED BY <1>0, <1>1, <3>1 DEF Closer
  <2>2. CASE cause # "unauthorized"
    BY <1>3, <2>2 DEF LoggedIn, FirstGet, LoginInv, Closer
  <2> QED BY <2>1, <2>2
<1>4. CASE LoginRejected
  BY <1>4 DEF LoginRejected, Return, Closer
<1>5. CASE PostFails
  <2>1. /\ pc = "post" /\ pc' = "postwait" /\ tries' = tries /\ posts' = posts
        /\ limit' = limit
    BY <1>5 DEF PostFails, get, login, cluster
  <2>2. MaxTries' = MaxTries
    BY <2>1 DEF MaxTries
  <2>3. LoginsLeft = 2 * (MaxTries - posts) + 1 /\ LoginsLeft' = 2 * (MaxTries - posts)
    BY <1>0, <2>1, <2>2 DEF LoginsLeft
  <2> QED BY <1>0, <2>1, <2>3 DEF Closer
<1>6. CASE GetWaitOver
  <2>1. pc' = "returned" \/ (Again(tries) /\ tries' = Pass(tries))
    BY <1>6 DEF GetWaitOver, Return
  <2> QED BY <1>0, <1>1, <2>1 DEF Closer
<1>7. CASE PostWaitOver /\ Again(posts)
  <2>1. /\ pc = "postwait" /\ pc' = "post" /\ tries' = tries /\ posts' = posts + 1
        /\ limit' = limit
    BY <1>0, <1>1, <1>7 DEF PostWaitOver, Do, get, cluster
  <2>2. MaxTries' = MaxTries
    BY <2>1 DEF MaxTries
  <2>3. LoginsLeft = 2 * (MaxTries - posts) /\ LoginsLeft' = 2 * (MaxTries - (posts + 1)) + 1
    BY <1>0, <2>1, <2>2 DEF LoginsLeft
  <2> QED BY <1>0, <2>1, <2>3 DEF Closer
<1>8. CASE (PostWaitOver /\ ~Again(posts)) \/ GetWaitCancelled \/ PostWaitCancelled
  BY <1>8 DEF PostWaitOver, GetWaitCancelled, PostWaitCancelled, Return, Closer
<1> QED
  BY <1>2, <1>3, <1>4, <1>5, <1>6, <1>7, <1>8 DEF PostReturns, Waits

\* With a limit to the retries, every step of a call, but for the time that
\* passes and the cancellation of the run, returns or lowers what is left of it:
\* first the passes of the loop over GETs, which a login does not give back, then
\* the POSTs of the login. Refused connections and sessions that are forgotten at
\* once do not keep a call in any order.
THEOREM CallGetsCloser == Spec => [][GetsCloser]_vars
<1>1. TypeOK /\ LoginInv /\ [Next]_vars => [GetsCloser]_vars
  <2> SUFFICES ASSUME TypeOK, LoginInv, Next, limit # 0, Busy, ~SessionAges, ~Cancel
               PROVE  Closer
    BY DEF GetsCloser
  <2>1. GetReturns \/ PostReturns \/ Waits
    BY DEF Next, Busy, Connect, Call, GivenUp
  <2> QED BY <2>1, CloserStep
<1> QED BY <1>1, ClientTypeCorrect, LoginInvariant, PTL DEF Spec

\* The steps a call can still make under a cancelled context: the answer to a
\* request that was sent before, a wait that began before, a request that is not
\* sent any more, and the wait after it.
StepsLeft ==
  IF Busy
  THEN 1 + (IF alive THEN 2 ELSE 0) + (IF pc \in {"get", "post"} THEN 1 ELSE 0)
  ELSE 0

LeavesSoon == ctxDone /\ Busy => SessionAges \/ StepsLeft' \in 0 .. StepsLeft - 1

\* Once the run is cancelled a call has at most four steps left, but for the time
\* that passes, also where retries have no limit.
THEOREM CancelledCallLeaves == Spec => [][LeavesSoon]_vars
<1>1. TypeOK /\ LoginInv /\ [Next]_vars => [LeavesSoon]_vars
  <2> SUFFICES ASSUME TypeOK, LoginInv, Next, ctxDone, Busy, ~SessionAges
               PROVE  StepsLeft' < StepsLeft
    <3>1. StepsLeft \in Nat /\ StepsLeft' \in Nat
      BY DEF StepsLeft
    <3> QED BY <3>1 DEF LeavesSoon
  <2>1. GetReturns \/ PostReturns \/ Waits
    BY DEF Next, Busy, Connect, Call, GivenUp, Cancel
  <2>2. StepsLeft \in Nat /\ StepsLeft >= 1
    BY DEF StepsLeft
  <2>3. ASSUME pc' = "returned" PROVE StepsLeft' < StepsLeft
    BY <2>2, <2>3 DEF StepsLeft, Busy
  <2>4. ASSUME pc \in {"get", "post"}, pc' \in {"getwait", "postwait"}, alive' = alive
        PROVE  StepsLeft' < StepsLeft
    BY <2>4 DEF StepsLeft, Busy
  <2>5. ASSUME alive, ~alive', Busy' PROVE StepsLeft' < StepsLeft
    BY <2>5 DEF StepsLeft
  <2>6. CASE GetReturns
    <3>1. CASE GetUnauthorized /\ auth = "session"
      BY <2>5, <3>1 DEF GetUnauthorized, Login, Do, Busy
    <3>2. CASE GetRefused
      BY <2>4, <3>2 DEF GetRefused
    <3>3. CASE ~(GetUnauthorized /\ auth = "session") /\ ~GetRefused
      BY <2>3, <2>6, <3>3 DEF GetReturns, GetOk, GetUnauthorized, GetOtherStatus,
                              GetFails, Return
    <3> QED BY <3>1, <3>2, <3>3
  <2>7. CASE LoggedIn
    <3>1. pc' = "returned" \/ (alive /\ ~alive' /\ pc' = "get")
      BY <2>7 DEF LoggedIn, GetAgain, FirstGet, Do, Return
    <3> QED BY <2>3, <2>5, <3>1 DEF Busy
  <2>8. CASE LoginRejected \/ PostFails
    BY <2>3, <2>4, <2>8 DEF LoginRejected, PostFails, Return
  <2>9. CASE Waits
    <3>1. pc' = "returned" \/ (alive /\ ~alive' /\ pc' \in {"get", "post"})
      BY <2>9 DEF Waits, GetWaitOver, GetWaitCancelled, PostWaitOver,
                  PostWaitCancelled, Do, Return, LoginInv
    <3> QED BY <2>3, <2>5, <3>1 DEF Busy
  <2> QED BY <2>1, <2>6, <2>7, <2>8, <2>9 DEF PostReturns
<1> QED BY <1>1, ClientTypeCorrect, LoginInvariant, PTL DEF Spec

==============================================================================
