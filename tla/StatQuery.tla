------------------------------ MODULE StatQuery ------------------------------
(***************************************************************************)
(* One query of the statistics of a bucket (cmd/gostats/isilon_api.go):    *)
(* GetStats, which asks the cluster for the keys in as many requests as    *)
(* the length of a path calls for, and GetStatsWithRetry, which asks again *)
(* for the keys whose results carry a transient error and merges what it   *)
(* is answered into what it has.                                           *)
(*                                                                         *)
(* Requests are made for all devices (devid=all): a key has one result per *)
(* device, each with its own error code.  The slice of results and the     *)
(* index that mergeRetriedResults builds over it are a function from       *)
(* <<key, device>> here.  A result carries the number of the attempt that  *)
(* brought it, so that an old value and a new one can be told apart.       *)
(***************************************************************************)
EXTENDS Naturals, Sequences

CONSTANTS
  Stats,        \* the keys of the bucket, in the order they are asked for
  Sorted,       \* the same keys in the order in which they are asked for again
  Devices,      \* Devices[k]: the devices that report key k
  KeyLen,       \* KeyLen[k]: the length that key k adds to a path
  MaxKeyLen,    \* the length that keys may add to a path
  StatRetries,  \* stat_retries
  StatRetryIntvl, \* stat_retry_interval, in seconds
  Missing       \* no result

Key == {Stats[i] : i \in DOMAIN Stats}
Pair == UNION {{k} \X Devices[k] : k \in Key}

\* The error codes, by what the code does with them: a value (with or without
\* the degraded mark), a code that isTransientStatError knows, any other code.
Codes == {"value", "transient", "permanent"}

Result == [code : Codes, attempt : 0 .. StatRetries]

MaxBackoff == 1280

\* keys has each key of the bucket, once.
Arranges(keys) ==
  /\ keys \in Seq(Key)
  /\ \A k \in Key : \E i \in DOMAIN keys : keys[i] = k
  /\ \A i, j \in DOMAIN keys : keys[i] = keys[j] => i = j

\* parseStatConfig refuses a stat that is listed twice; "&key=" is never empty.
ASSUME QueryAssumption ==
  /\ Arranges(Stats) /\ Arranges(Sorted)
  /\ KeyLen \in [Key -> Nat \ {0}]
  /\ MaxKeyLen \in Nat
  /\ StatRetries \in Nat
  /\ StatRetryIntvl \in Nat \ {0}
  /\ Missing \notin Result

VARIABLES
  pc,         \* "request", "wait" or "returned"
  batches,    \* the key sets of the requests of the GetStats call under way
  sent,       \* how many of these requests have been answered
  got,        \* the results of that call so far
  results,    \* the results of GetStatsWithRetry so far
  failed,     \* failedKeys
  attempt,    \* number of the attempt: 0 is the first query
  backoff,    \* seconds to wait before the next attempt
  err,        \* the error returned: "none", "transport" or "cancelled"
  ctxDone     \* the context of the run is cancelled

callVars == <<batches, sent, got>>
vars == <<pc, callVars, results, failed, attempt, backoff, err, ctxDone>>

TypeOK ==
  /\ pc \in {"request", "wait", "returned"}
  /\ sent \in Nat
  /\ got \in [Pair -> Result \cup {Missing}]
  /\ results \in [Pair -> Result \cup {Missing}]
  /\ failed \in SUBSET Key
  /\ attempt \in 0 .. StatRetries
  /\ backoff \in 1 .. MaxBackoff
  /\ err \in {"none", "transport", "cancelled"}
  /\ ctxDone \in BOOLEAN

Nothing == [p \in Pair |-> Missing]

Transient(r) == r # Missing /\ r.code = "transient"

Settled(r) == r # Missing /\ r.code # "transient"

Capped(s) == IF s > MaxBackoff THEN MaxBackoff ELSE s

------------------------------------------------------------------------------
(* Requests, answers and their merge.                                      *)

\* The length that keys add to a path.
PathLen(keys) ==
  LET len[i \in 0 .. Len(Stats)] ==
        IF i = 0 THEN 0
        ELSE IF Stats[i] \in keys THEN len[i - 1] + KeyLen[Stats[i]]
        ELSE len[i - 1]
  IN  len[Len(Stats)]

PutKey(bs, k) == [bs EXCEPT ![Len(bs)] = @ \cup {k}]

\* Mutant: the length is looked at before the key is counted in.
AddKeyLate(bs, k) ==
  IF PathLen(bs[Len(bs)]) > MaxKeyLen THEN Append(bs, {k}) ELSE PutKey(bs, k)

\* A key that does not fit starts the next request, unless the last one is empty.
AddKey(bs, k) ==
  LET len == PathLen(bs[Len(bs)])
  IN  IF len > 0 /\ len + KeyLen[k] > MaxKeyLen THEN Append(bs, {k}) ELSE PutKey(bs, k)

\* The requests for keys, taken in some order: there is always one.
Batches(order, keys) ==
  LET cut[i \in 0 .. Len(order)] ==
        IF i = 0 THEN <<{}>>
        ELSE IF order[i] \in keys THEN AddKey(cut[i - 1], order[i])
        ELSE cut[i - 1]
  IN  cut[Len(order)]

\* transientFailedKeys
FailedKeys(res) == {k \in Key : \E d \in Devices[k] : Transient(res[<<k, d>>])}

\* Mutant: whatever is answered replaces what was there.
MergeAlways(res, retried) ==
  [p \in Pair |-> IF retried[p] # Missing THEN retried[p] ELSE res[p]]

\* mergeRetriedResults: a pair not seen before is added, a transient one is
\* replaced, and a settled one stays.
Merge(res, retried) ==
  [p \in Pair |-> IF retried[p] # Missing /\ ~Settled(res[p])
                  THEN retried[p] ELSE res[p]]

------------------------------------------------------------------------------
(* The call.                                                               *)

\* GetStats is called for the keys: the first request goes out.
Ask(order, keys) ==
  /\ pc' = "request"
  /\ batches' = Batches(order, keys)
  /\ sent' = 0
  /\ got' = Nothing

\* Mutant: one attempt more than there may be.
ReturnOrWaitLate(fk) ==
  pc' = IF fk # {} /\ attempt <= StatRetries THEN "wait" ELSE "returned"

\* The condition of the retry loop (without retries it is never entered).
ReturnOrWait(fk) ==
  pc' = IF fk # {} /\ attempt < StatRetries THEN "wait" ELSE "returned"

Init ==
  /\ pc = "request"
  /\ batches = Batches(Stats, Key)
  /\ sent = 0
  /\ got = Nothing
  /\ results = Nothing
  /\ failed = {}
  /\ attempt = 0
  /\ backoff = Capped(StatRetryIntvl)
  /\ err = "none"
  /\ ctxDone = FALSE

\* statsloop queries the bucket again: in its next cycle, or after an error.
Call ==
  /\ pc = "returned" /\ ~ctxDone
  /\ Ask(Stats, Key)
  /\ results' = Nothing
  /\ failed' = {}
  /\ attempt' = 0
  /\ backoff' = Capped(StatRetryIntvl)
  /\ err' = "none"
  /\ UNCHANGED ctxDone

\* What the cluster may answer to one request: every device of a key reports
\* an error, a value, or nothing.
Answers(keys) ==
  [{p \in Pair : p[1] \in keys} -> {Missing} \cup [code : Codes, attempt : {attempt}]]

\* got with the answer to one more request.
WithAnswer(ans) == [p \in Pair |-> IF p \in DOMAIN ans THEN ans[p] ELSE got[p]]

\* An answer that is not the last one of the call.
BatchAnswered(ans) ==
  /\ pc = "request" /\ sent + 1 < Len(batches)
  /\ sent' = sent + 1
  /\ got' = WithAnswer(ans)
  /\ UNCHANGED <<pc, batches, results, failed, attempt, backoff, err, ctxDone>>

\* GetStats returns its results.
QueryAnswered(ans) ==
  /\ pc = "request" /\ sent + 1 = Len(batches)
  /\ LET now == WithAnswer(ans)
         res == IF attempt = 0 THEN now ELSE Merge(results, now)
     IN  /\ results' = res
         /\ failed' = FailedKeys(res)
         /\ ReturnOrWait(FailedKeys(res))
  /\ backoff' = IF attempt = 0 THEN backoff ELSE Capped(2 * backoff)
  /\ got' = Nothing
  /\ UNCHANGED <<batches, sent, attempt, err, ctxDone>>

\* The first query fails: there is nothing to return but the error.
QueryFails ==
  /\ pc = "request" /\ attempt = 0
  /\ pc' = "returned"
  /\ err' \in {"transport"} \cup (IF ctxDone THEN {"cancelled"} ELSE {})
  /\ got' = Nothing
  /\ UNCHANGED <<batches, sent, results, failed, attempt, backoff, ctxDone>>

\* Mutant: a failed retry leaves nothing to retry.
RetryFailsForgets ==
  /\ pc = "request" /\ attempt > 0
  /\ failed' = {}
  /\ ReturnOrWait(failed)
  /\ backoff' = Capped(2 * backoff)
  /\ got' = Nothing
  /\ UNCHANGED <<batches, sent, results, attempt, err, ctxDone>>

\* Mutant: an attempt that failed does not count.
RetryFailsUncounted ==
  /\ pc = "request" /\ attempt > 0
  /\ pc' = "wait"
  /\ attempt' = attempt - 1
  /\ backoff' = Capped(2 * backoff)
  /\ got' = Nothing
  /\ UNCHANGED <<batches, sent, results, failed, err, ctxDone>>

\* One request of a retry fails: the answers to the others are dropped, what
\* there was before and the keys to retry stay.
RetryFails ==
  /\ pc = "request" /\ attempt > 0
  /\ ReturnOrWait(failed)
  /\ backoff' = Capped(2 * backoff)
  /\ got' = Nothing
  /\ UNCHANGED <<batches, sent, results, failed, attempt, err, ctxDone>>

RetryTimer ==
  /\ pc = "wait"
  /\ attempt' = attempt + 1
  /\ Ask(Sorted, failed)
  /\ UNCHANGED <<results, failed, backoff, err, ctxDone>>

\* The context ends a wait or a retry: the results so far come with its error.
RetryCancelled ==
  /\ ctxDone
  /\ pc = "wait" \/ (pc = "request" /\ attempt > 0)
  /\ pc' = "returned"
  /\ err' = "cancelled"
  /\ got' = Nothing
  /\ UNCHANGED <<batches, sent, results, failed, attempt, backoff, ctxDone>>

Cancel ==
  /\ ~ctxDone
  /\ ctxDone' = TRUE
  /\ UNCHANGED <<pc, callVars, results, failed, attempt, backoff, err>>

\* statsloop returns.
Terminated == pc = "returned" /\ ctxDone /\ UNCHANGED vars

Answered ==
  \E ans \in Answers(batches[sent + 1]) : BatchAnswered(ans) \/ QueryAnswered(ans)

Returns == Answered \/ QueryFails \/ RetryFails \/ RetryCancelled

Next == Call \/ Returns \/ RetryTimer \/ Cancel \/ Terminated

\* The cluster answers a request or the request fails; timers fire.
Fairness == WF_vars(pc = "request" /\ Returns) /\ WF_vars(RetryTimer)

Spec == Init /\ [][Next]_vars

FairSpec == Spec /\ Fairness

------------------------------------------------------------------------------
(* Properties.                                                             *)

\* While a retry is due or under way, the keys to retry are exactly those of
\* which some device reports a transient failure, also after a retry that failed.
RetriesWhatFailed ==
  (pc = "wait" \/ (pc = "request" /\ attempt > 0)) =>
    failed = {k \in Key : \E d \in Devices[k] :
                            results[<<k, d>>] # Missing /\ results[<<k, d>>].code = "transient"}

\* The requests of a call ask for each of its keys once.  None is longer than a
\* path may be unless one key alone is, and none asks for nothing unless there
\* is nothing to ask for.
BatchesCover ==
  pc = "request" =>
    LET asked == IF attempt = 0 THEN Key ELSE failed
    IN  /\ UNION {batches[i] : i \in DOMAIN batches} = asked
        /\ \A i, j \in DOMAIN batches : i # j => batches[i] \cap batches[j] = {}
        /\ \A i \in DOMAIN batches :
             /\ PathLen(batches[i]) <= MaxKeyLen \/ \E k \in Key : batches[i] = {k}
             /\ batches[i] = {} => asked = {}

\* Answers that GetStatsWithRetry may still wait for.
TriesLeft == StatRetries - attempt + (IF pc = "request" THEN 1 ELSE 0)

Query == INSTANCE RetriedQuery
           WITH Item <- Pair, Blank <- Missing, Tries <- StatRetries + 1,
                Unsettled <- Transient, open <- pc # "returned", known <- results,
                left <- TriesLeft, outcome <- err

\* The batches, the retries and their failures come to what RetriedQuery promises:
\* no answer to a retry, whole or partial, replaces a result that is settled, and
\* a call returns without error only when nothing is left to retry or it has made
\* all the tries it may make.
RefinesQuery == Query!QuerySpec

\* Every call returns, whatever the cluster answers and whether or not it is
\* cancelled: a retry that fails counts as one.
CallReturns == pc # "returned" ~> pc = "returned"

==============================================================================
