--------------------------- MODULE StatQueryProofs ----------------------------
(***************************************************************************)
(* Proofs about StatQuery, for every bucket of keys, every set of devices  *)
(* and every number of retries.                                            *)
(***************************************************************************)
EXTENDS StatQuery, WellFoundedInduction, TLAPS

\* A wait never exceeds the longest one, and is never none.
LEMMA CappedBackoff ==
  ASSUME NEW s \in Nat \ {0}
  PROVE  Capped(s) \in 1 .. MaxBackoff
BY DEF Capped, MaxBackoff

\* Merging keeps the type of the results.
LEMMA MergeType ==
  ASSUME NEW a \in [Pair -> Result \cup {Missing}],
         NEW b \in [Pair -> Result \cup {Missing}]
  PROVE  Merge(a, b) \in [Pair -> Result \cup {Missing}]
BY DEF Merge

\* What the cluster answers, added to what it has answered, is a set of results.
LEMMA AnswerType ==
  ASSUME TypeOK, NEW keys, NEW ans \in Answers(keys)
  PROVE  WithAnswer(ans) \in [Pair -> Result \cup {Missing}]
<1>1. [code : Codes, attempt : {attempt}] \subseteq Result
  BY DEF TypeOK, Result
<1>2. QED
  BY <1>1 DEF Answers, WithAnswer, TypeOK

\* The keys to retry, as the property states them.
LEMMA FailedKeysAre ==
  ASSUME NEW res
  PROVE  FailedKeys(res) = {k \in Key : \E d \in Devices[k] :
                              res[<<k, d>>] # Missing /\ res[<<k, d>>].code = "transient"}
BY DEF FailedKeys, Transient

\* There are keys to retry if and only if there is a transient result.
LEMMA KeysForTransient ==
  ASSUME NEW res
  PROVE  FailedKeys(res) # {} <=> \E p \in Pair : Transient(res[p])
<1>1. ASSUME NEW p \in Pair, Transient(res[p]) PROVE FailedKeys(res) # {}
  <2>1. PICK k \in Key : p \in {k} \X Devices[k]
    BY DEF Pair
  <2>2. PICK d \in Devices[k] : p = <<k, d>>
    BY <2>1
  <2> QED BY <1>1, <2>2 DEF FailedKeys
<1>2. ASSUME NEW k \in FailedKeys(res) PROVE \E p \in Pair : Transient(res[p])
  <2>1. PICK d \in Devices[k] : k \in Key /\ Transient(res[<<k, d>>])
    BY DEF FailedKeys
  <2>2. <<k, d>> \in Pair
    BY <2>1 DEF Pair
  <2> QED BY <2>1, <2>2
<1> QED BY <1>1, <1>2

------------------------------------------------------------------------------
(* The inductive invariant: a wait is for an attempt that may be made, which *)
(* bounds the attempts, and failedKeys agrees with the results all along,    *)
(* which is what makes an empty failedKeys a reason to stop.  Nothing is     *)
(* known before the first answer, so that it has nothing to replace.         *)

RetryInv ==
  /\ pc = "wait" => attempt < StatRetries
  /\ pc = "request" /\ attempt = 0 => results = Nothing
  /\ RetriesWhatFailed

\* The first request is that of attempt 0, with nothing to retry.
LEMMA QueryInit == Init => TypeOK /\ RetryInv
<1>1. Capped(StatRetryIntvl) \in 1 .. MaxBackoff /\ 0 \in 0 .. StatRetries
  BY CappedBackoff, QueryAssumption DEF QueryAssumption
<1>2. Nothing \in [Pair -> Result \cup {Missing}]
  BY DEF Nothing
<1>3. Init => TypeOK
  <2> SUFFICES ASSUME Init PROVE TypeOK
    OBVIOUS
  <2>1. got \in [Pair -> Result \cup {Missing}] /\ results \in [Pair -> Result \cup {Missing}]
    BY <1>2 DEF Init
  <2>2. attempt \in 0 .. StatRetries /\ backoff \in 1 .. MaxBackoff
    BY <1>1 DEF Init
  <2>3. pc = "request" /\ sent = 0 /\ failed = {} /\ err = "none" /\ ctxDone = FALSE
    BY DEF Init
  <2>4. QED
    BY <2>1, <2>2, <2>3 DEF TypeOK
<1>4. Init => RetriesWhatFailed
  <2>1. Init => pc = "request" /\ ~(attempt > 0)
    BY DEF Init
  <2>2. QED
    BY <2>1 DEF RetriesWhatFailed
<1>5. QED
  BY <1>3, <1>4 DEF Init, RetryInv

\* A step keeps the types.
LEMMA QueryTypeStep ==
  ASSUME TypeOK, RetryInv, [Next]_vars
  PROVE  TypeOK'
<1> USE QueryAssumption DEF QueryAssumption
<1>. Nothing \in [Pair -> Result \cup {Missing}]
  BY DEF Nothing
<1>. \A res : FailedKeys(res) \in SUBSET Key
  BY DEF FailedKeys
<1>. Capped(2 * backoff) \in 1 .. MaxBackoff
  <2>1. backoff \in 1 .. 1280
    BY DEF TypeOK, MaxBackoff
  <2>2. 2 * backoff \in Nat \ {0}
    BY <2>1
  <2>3. QED
    BY <2>2, CappedBackoff
<1>1. CASE Call
  <2>1. Capped(StatRetryIntvl) \in 1 .. MaxBackoff /\ 0 \in 0 .. StatRetries
    BY CappedBackoff
  <2>2. QED
    BY <1>1, <2>1 DEF Call, Ask, TypeOK
<1>2. ASSUME NEW ans \in Answers(batches[sent + 1]), BatchAnswered(ans)
      PROVE  TypeOK'
  <2>1. WithAnswer(ans) \in [Pair -> Result \cup {Missing}]
    BY AnswerType
  <2>2. QED
    BY <1>2, <2>1 DEF BatchAnswered, TypeOK
<1>3. ASSUME NEW ans \in Answers(batches[sent + 1]), QueryAnswered(ans)
      PROVE  TypeOK'
  <2>1. WithAnswer(ans) \in [Pair -> Result \cup {Missing}]
    BY AnswerType
  <2>2. Merge(results, WithAnswer(ans)) \in [Pair -> Result \cup {Missing}]
    BY <2>1, MergeType DEF TypeOK
  <2>3. results' \in [Pair -> Result \cup {Missing}]
    BY <1>3, <2>1, <2>2 DEF QueryAnswered
  <2>4. failed' \in SUBSET Key /\ pc' \in {"wait", "returned"}
    BY <1>3 DEF QueryAnswered, ReturnOrWait
  <2>5. QED
    BY <1>3, <2>3, <2>4 DEF QueryAnswered, TypeOK
<1>4. CASE QueryFails \/ RetryFails
  BY <1>4 DEF QueryFails, RetryFails, ReturnOrWait, TypeOK
<1>5. CASE RetryTimer
  <2>1. attempt' \in 0 .. StatRetries
    BY <1>5 DEF RetryTimer, RetryInv, TypeOK
  <2>2. QED
    BY <1>5, <2>1 DEF RetryTimer, Ask, TypeOK
<1>6. CASE RetryCancelled \/ Cancel \/ UNCHANGED vars
  BY <1>6 DEF RetryCancelled, Cancel, callVars, vars, TypeOK
<1>7. QED
  BY <1>1, <1>2, <1>3, <1>4, <1>5, <1>6 DEF Next, Returns, Answered, Terminated

\* A step keeps the rest.
LEMMA RetryInvStep ==
  ASSUME TypeOK, RetryInv, [Next]_vars
  PROVE  RetryInv'
<1> USE QueryAssumption DEF QueryAssumption, RetryInv, RetriesWhatFailed
<1>1. CASE Call
  BY <1>1 DEF Call, Ask
<1>2. ASSUME NEW ans \in Answers(batches[sent + 1]), BatchAnswered(ans)
      PROVE  RetryInv'
  BY <1>2 DEF BatchAnswered
<1>3. ASSUME NEW ans \in Answers(batches[sent + 1]), QueryAnswered(ans)
      PROVE  RetryInv'
  <2>1. failed' = FailedKeys(results') /\ attempt' = attempt
    BY <1>3 DEF QueryAnswered
  <2>2. RetriesWhatFailed'
    BY <2>1, FailedKeysAre
  <2>3. pc' = "wait" => attempt' < StatRetries
    BY <1>3, <2>1 DEF QueryAnswered, ReturnOrWait
  <2>4. pc' \in {"wait", "returned"}
    BY <1>3 DEF QueryAnswered, ReturnOrWait
  <2>5. QED
    BY <2>2, <2>3, <2>4
<1>4. CASE QueryFails
  BY <1>4 DEF QueryFails
<1>5. CASE RetryFails
  BY <1>5 DEF RetryFails, ReturnOrWait
<1>6. CASE RetryTimer
  <2>1. pc' = "request" /\ attempt' > 0 /\ attempt' # 0
    BY <1>6 DEF RetryTimer, Ask, TypeOK
  <2>2. QED
    BY <1>6, <2>1 DEF RetryTimer
<1>7. CASE RetryCancelled
  BY <1>7 DEF RetryCancelled
<1>8. CASE Cancel \/ UNCHANGED vars
  BY <1>8 DEF Cancel, callVars, vars, Transient
<1>9. QED
  BY <1>1, <1>2, <1>3, <1>4, <1>5, <1>6, <1>7, <1>8 DEF Next, Returns, Answered, Terminated

\* The invariant of the query.
THEOREM QueryInvariant == Spec => [](TypeOK /\ RetryInv)
BY QueryInit, QueryTypeStep, RetryInvStep, PTL DEF Spec

\* The query is type-correct: no call makes more attempts than stat_retries
\* allows, and no wait is longer than MaxBackoff.
THEOREM QueryTypeCorrect == Spec => []TypeOK
BY QueryInvariant, PTL

\* The keys of a retry are the keys that need one, also after a failed retry.
THEOREM RetriesExactlyWhatFailed == Spec => []RetriesWhatFailed
BY QueryInvariant, PTL DEF RetryInv

------------------------------------------------------------------------------
(* The refinement.                                                         *)

\* What an answer that completes a GetStats call makes of the results.
LEMMA AnswerImproves ==
  ASSUME TypeOK, RetryInv, NEW ans \in Answers(batches[sent + 1]), QueryAnswered(ans)
  PROVE  Query!Answer
<1> USE QueryAssumption DEF QueryAssumption
<1>1. pc = "request" /\ attempt' = attempt /\ attempt \in Nat /\ StatRetries \in Nat
      /\ attempt <= StatRetries
  BY DEF QueryAnswered, TypeOK
<1>2. pc' = IF FailedKeys(results') # {} /\ attempt < StatRetries THEN "wait" ELSE "returned"
  BY DEF QueryAnswered, ReturnOrWait
<1>3. TriesLeft = StatRetries - attempt + 1 /\ TriesLeft' = StatRetries - attempt
  BY <1>1, <1>2 DEF TriesLeft
<1>4. ASSUME NEW p \in Pair
      PROVE  results'[p] = results[p] \/ (Query!MayImprove(p) /\ results'[p] # Missing)
  <2>1. CASE attempt = 0
    BY <1>1, <2>1 DEF QueryAnswered, RetryInv, Nothing, Query!MayImprove
  <2>2. CASE attempt # 0
    BY <2>2 DEF QueryAnswered, Merge, Settled, Transient, Query!MayImprove
  <2> QED BY <2>1, <2>2
<1>5. (pc' # "returned") = (TriesLeft' > 0 /\ \E p \in Pair : Transient(results'[p]))
  BY <1>1, <1>2, <1>3, KeysForTransient
<1>6. TriesLeft > 0 /\ TriesLeft' = TriesLeft - 1 /\ UNCHANGED err
  BY <1>1, <1>3 DEF QueryAnswered
<1> QED BY <1>1, <1>4, <1>5, <1>6 DEF Query!Answer

\* A retry that fails is an answer that says nothing.
LEMMA FailureIsAnswer ==
  ASSUME TypeOK, RetryInv, RetryFails
  PROVE  Query!Answer
<1> USE QueryAssumption DEF QueryAssumption
<1>1. pc = "request" /\ attempt' = attempt /\ attempt \in Nat /\ StatRetries \in Nat
      /\ attempt <= StatRetries /\ UNCHANGED <<results, err>>
  BY DEF RetryFails, TypeOK
<1>2. failed = FailedKeys(results)
  BY FailedKeysAre DEF RetryFails, RetryInv, RetriesWhatFailed
<1>3. pc' = IF FailedKeys(results) # {} /\ attempt < StatRetries THEN "wait" ELSE "returned"
  BY <1>2 DEF RetryFails, ReturnOrWait
<1>4. TriesLeft = StatRetries - attempt + 1 /\ TriesLeft' = StatRetries - attempt
  BY <1>1, <1>3 DEF TriesLeft
<1>5. (pc' # "returned") = (TriesLeft' > 0 /\ \E p \in Pair : Transient(results'[p]))
  BY <1>1, <1>3, <1>4, KeysForTransient
<1>6. TriesLeft > 0 /\ TriesLeft' = TriesLeft - 1
  BY <1>1, <1>4
<1> QED BY <1>1, <1>5, <1>6 DEF Query!Answer

\* A step that leaves these alone is invisible.
LEMMA QueryStutters ==
  ASSUME UNCHANGED <<results, err>>, TriesLeft' = TriesLeft,
         pc # "returned" <=> pc' # "returned"
  PROVE  UNCHANGED Query!queryVars
BY DEF Query!queryVars

\* A step of the detailed query is a step of the abstract one or is invisible.
LEMMA QueryStep ==
  ASSUME TypeOK, RetryInv, [Next]_vars
  PROVE  [Query!QueryNext]_(Query!queryVars)
<1> USE QueryAssumption DEF QueryAssumption
<1>0. attempt \in Nat /\ StatRetries \in Nat /\ attempt <= StatRetries
  BY DEF TypeOK
<1>1. CASE Call
  <2>1. results' = Query!NothingKnown /\ TriesLeft' = StatRetries + 1
    BY <1>0, <1>1 DEF Call, Ask, Nothing, Query!NothingKnown, TriesLeft
  <2>2. Query!Open
    BY <1>1, <2>1 DEF Call, Ask, Query!Open, Query!Opened, Query!NothingKnown
  <2> QED BY <2>2 DEF Query!QueryNext
<1>2. ASSUME NEW ans \in Answers(batches[sent + 1]), BatchAnswered(ans)
      PROVE  UNCHANGED Query!queryVars
  BY <1>2, QueryStutters DEF BatchAnswered, TriesLeft
<1>3. ASSUME NEW ans \in Answers(batches[sent + 1]), QueryAnswered(ans)
      PROVE  Query!QueryNext
  BY <1>3, AnswerImproves DEF Query!QueryNext
<1>4. CASE QueryFails
  <2>1. TriesLeft = StatRetries + 1 /\ TriesLeft' = TriesLeft - 1
    BY <1>0, <1>4 DEF QueryFails, TriesLeft
  <2>2. Query!FirstFails
    BY <1>4, <2>1 DEF QueryFails, Query!FirstFails
  <2> QED BY <2>2 DEF Query!QueryNext
<1>5. CASE RetryFails
  BY <1>5, FailureIsAnswer DEF Query!QueryNext
<1>6. CASE RetryTimer
  <2>1. TriesLeft' = TriesLeft
    BY <1>0, <1>6 DEF RetryTimer, Ask, TriesLeft
  <2> QED BY <1>6, <2>1, QueryStutters DEF RetryTimer, Ask
<1>7. CASE RetryCancelled
  <2>1. TriesLeft < StatRetries + 1 /\ TriesLeft' \in {TriesLeft, TriesLeft - 1}
    BY <1>0, <1>7 DEF RetryCancelled, RetryInv, TriesLeft
  <2>2. Query!GiveUp
    BY <1>7, <2>1 DEF RetryCancelled, Query!GiveUp
  <2> QED BY <2>2 DEF Query!QueryNext
<1>8. CASE Cancel \/ UNCHANGED vars
  <2>1. UNCHANGED <<pc, results, attempt, err>>
    BY <1>8 DEF Cancel, vars, callVars
  <2> QED BY <2>1, QueryStutters DEF TriesLeft
<1> QED
  BY <1>1, <1>2, <1>3, <1>4, <1>5, <1>6, <1>7, <1>8 DEF Next, Returns, Answered, Terminated

\* The query keeps the promise of RetriedQuery, for every bucket, every number of
\* retries and every answer of the cluster: "successful values are never
\* overwritten by a retry failure", nor by anything else within the call.
THEOREM QueryRefines == Spec => RefinesQuery
<1>1. Init => Query!QueryInit
  <2> SUFFICES ASSUME Init PROVE Query!QueryInit
    OBVIOUS
  <2>1. TriesLeft = StatRetries + 1
    BY QueryAssumption DEF Init, TriesLeft, QueryAssumption
  <2> QED BY <2>1 DEF Init, Nothing, Query!QueryInit, Query!Opened, Query!NothingKnown
<1>2. TypeOK /\ RetryInv /\ [Next]_vars => [Query!QueryNext]_(Query!queryVars)
  BY QueryStep
<1> QED
  BY <1>1, <1>2, QueryInvariant, PTL DEF Spec, RefinesQuery, Query!QuerySpec

------------------------------------------------------------------------------
(* Induction and recursion over the numbers.  The theorems of the library    *)
(* take predicates, which the provers cannot instantiate; these take sets.   *)

\* What the relation of the library says.
LEMMA Before == \A m, n \in Nat : <<m, n>> \in OpToRel(<, Nat) <=> m < n
BY Zenon DEF OpToRel

\* Induction, for a set in the place of a predicate: the least number that is
\* not in the set would have a predecessor that is.
LEMMA Induction ==
  ASSUME NEW S, 0 \in S, \A n \in Nat : n \in S => n + 1 \in S
  PROVE  Nat \subseteq S
<1> DEFINE Rest == Nat \ S
<1> SUFFICES ASSUME Rest # {} PROVE FALSE
  OBVIOUS
<1>1. PICK n \in Rest : \A m \in Rest : ~(<<m, n>> \in OpToRel(<, Nat))
  <2> HIDE DEF Rest
  <2>1. Rest \subseteq Nat
    BY DEF Rest
  <2> QED BY <2>1, NatLessThanWellFounded, WFMin
<1>2. n # 0 /\ n - 1 \in Nat /\ (n - 1) + 1 = n
  OBVIOUS
<1>3. n - 1 \notin S
  BY <1>2
<1>4. \A m \in Rest : ~(m < n)
  BY <1>1, Before, Zenon
<1> QED BY <1>2, <1>3, <1>4

\* f is what N steps make of a.
Follows(f, A, a, N, Step) ==
  /\ f \in [0 .. N -> A]
  /\ f[0] = a
  /\ \A i \in 1 .. N : f[i] = Step[<<i, f[i - 1]>>]

Steps(N, A) == [(1 .. N) \X A -> A]

\* A recursion of N steps has a solution, whatever the steps do.
LEMMA Recursion ==
  ASSUME NEW A, NEW a \in A, NEW N \in Nat, NEW Step \in Steps(N, A)
  PROVE  \E f : Follows(f, A, a, N, Step)
<1> USE DEF Follows
<1> DEFINE S == {n \in Nat : n <= N => \E f : Follows(f, A, a, n, Step)}
<1>1. 0 \in S
  <2>1. Follows([i \in 0 .. 0 |-> a], A, a, 0, Step)
    OBVIOUS
  <2> QED BY <2>1
<1>2. ASSUME NEW n \in Nat, n \in S PROVE n + 1 \in S
  <2> SUFFICES ASSUME n + 1 <= N PROVE \E f : Follows(f, A, a, n + 1, Step)
    OBVIOUS
  <2>1. PICK f : Follows(f, A, a, n, Step)
    BY <1>2
  <2> DEFINE next == Step[<<n + 1, f[n]>>]
             g == [i \in 0 .. n + 1 |-> IF i = n + 1 THEN next ELSE f[i]]
  <2>2. next \in A
    BY <2>1 DEF Steps
  <2>3. g[0] = a /\ g[n + 1] = next /\ g[n] = f[n]
    BY <2>1
  <2>4. ASSUME NEW i \in 1 .. n PROVE g[i] = f[i] /\ g[i - 1] = f[i - 1]
    BY <2>1
  <2>5. g \in [0 .. n + 1 -> A]
    BY <2>1, <2>2
  <2> HIDE DEF g
  <2>6. ASSUME NEW i \in 1 .. n + 1 PROVE g[i] = Step[<<i, g[i - 1]>>]
    <3>1. CASE i = n + 1
      BY <2>3, <3>1
    <3>2. CASE i # n + 1
      <4>1. i \in 1 .. n
        BY <3>2
      <4> QED BY <2>1, <2>4, <4>1
    <3> QED BY <3>1, <3>2
  <2> QED BY <2>3, <2>5, <2>6
<1> HIDE DEF S
<1>3. N \in S
  BY <1>1, <1>2, Induction
<1> QED BY <1>3 DEF S

\* Induction along a recursion of N steps.
LEMMA InductionUpTo ==
  ASSUME NEW N \in Nat, NEW S, 0 \in S, \A i \in 1 .. N : i - 1 \in S => i \in S
  PROVE  \A i \in 0 .. N : i \in S
<1> DEFINE T == {n \in Nat : n <= N => n \in S}
<1>1. 0 \in T
  OBVIOUS
<1>2. ASSUME NEW n \in Nat, n \in T PROVE n + 1 \in T
  <2> SUFFICES ASSUME n + 1 <= N PROVE n + 1 \in S
    OBVIOUS
  <2>1. n + 1 \in 1 .. N /\ (n + 1) - 1 = n /\ n \in S
    BY <1>2
  <2> QED BY <2>1
<1> HIDE DEF T
<1>3. Nat \subseteq T
  BY <1>1, <1>2, Induction
<1> QED BY <1>3 DEF T

------------------------------------------------------------------------------
(* The length of a path.                                                     *)

LEMMA StatsAre ==
  /\ Len(Stats) \in Nat /\ DOMAIN Stats = 1 .. Len(Stats)
  /\ \A i \in 1 .. Len(Stats) : Stats[i] \in Key /\ KeyLen[Stats[i]] \in Nat
<1>1. Stats \in Seq(Key)
  BY QueryAssumption DEF QueryAssumption, Arranges
<1>2. KeyLen \in [Key -> Nat \ {0}]
  BY QueryAssumption DEF QueryAssumption
<1>3. \A i \in 1 .. Len(Stats) : Stats[i] \in Key
  BY <1>1
<1> QED BY <1>1, <1>2, <1>3

\* What the key at place i adds to the length of keys.
Share(keys, i) == IF Stats[i] \in keys THEN KeyLen[Stats[i]] ELSE 0

\* len[i]: the length that the keys have up to place i.
Sums(len, keys) ==
  /\ len \in [0 .. Len(Stats) -> Nat]
  /\ len[0] = 0
  /\ \A i \in 1 .. Len(Stats) : len[i] = len[i - 1] + Share(keys, i)

\* The sum that PathLen is.
LEMMA PathLenDef ==
  ASSUME NEW keys
  PROVE  \E len : Sums(len, keys) /\ PathLen(keys) = len[Len(Stats)]
<1> DEFINE Rec(f) == [i \in 0 .. Len(Stats) |->
                        IF i = 0 THEN 0
                        ELSE IF Stats[i] \in keys THEN f[i - 1] + KeyLen[Stats[i]]
                        ELSE f[i - 1]]
           Step == [p \in (1 .. Len(Stats)) \X Nat |-> p[2] + Share(keys, p[1])]
           len == CHOOSE f : f = Rec(f)
<1>1. Len(Stats) \in Nat /\ \A i \in 1 .. Len(Stats) : Stats[i] \in Key /\ Share(keys, i) \in Nat
  BY StatsAre DEF Share
<1>2. len = Rec(len)
  <2>1. Step \in Steps(Len(Stats), Nat)
    BY <1>1 DEF Steps
  <2>2. PICK f : Follows(f, Nat, 0, Len(Stats), Step)
    <3> HIDE DEF Step
    <3> QED BY <1>1, <2>1, Recursion
  <2>3. f \in [0 .. Len(Stats) -> Nat] /\ f[0] = 0
    BY <2>2 DEF Follows
  <2>4. ASSUME NEW i \in 1 .. Len(Stats) PROVE f[i] = f[i - 1] + Share(keys, i)
    <3>1. <<i, f[i - 1]>> \in (1 .. Len(Stats)) \X Nat
      <4> HIDE DEF Step
      <4>1. i - 1 \in 0 .. Len(Stats)
        BY <1>1
      <4> QED BY <2>3, <4>1
    <3>2. f[i] = Step[<<i, f[i - 1]>>]
      BY <2>2 DEF Follows
    <3> QED BY <3>1, <3>2
  <2> HIDE DEF Step
  <2>5. ASSUME NEW i \in 0 .. Len(Stats) PROVE f[i] = Rec(f)[i]
    <3>1. CASE i = 0
      BY <2>3, <3>1
    <3>2. CASE i # 0
      <4>1. i \in 1 .. Len(Stats) /\ f[i - 1] \in Nat
        <5>1. i - 1 \in 0 .. Len(Stats) /\ i \in 1 .. Len(Stats)
          BY <1>1, <3>2
        <5> QED BY <2>3, <5>1
      <4> QED BY <2>4, <4>1 DEF Share
    <3> QED BY <3>1, <3>2
  <2>6. f = Rec(f)
    BY <2>3, <2>5
  <2> HIDE DEF Rec
  <2> QED BY <2>6
<1>3. PathLen(keys) = len[Len(Stats)]
  BY DEF PathLen
<1> HIDE DEF len
<1>4. len[0] = 0
  BY <1>1, <1>2
<1>5. ASSUME NEW i \in 1 .. Len(Stats), len[i - 1] \in Nat
      PROVE  len[i] = len[i - 1] + Share(keys, i)
  BY <1>1, <1>2, <1>5 DEF Share
<1>6. \A i \in 0 .. Len(Stats) : len[i] \in Nat
  <2> DEFINE S == {i \in 0 .. Len(Stats) : len[i] \in Nat}
  <2>1. 0 \in S /\ \A i \in 1 .. Len(Stats) : i - 1 \in S => i \in S
    BY <1>1, <1>4, <1>5
  <2> HIDE DEF S
  <2>2. \A i \in 0 .. Len(Stats) : i \in S
    BY <1>1, <2>1, InductionUpTo
  <2> QED BY <2>2 DEF S
<1>7. len \in [0 .. Len(Stats) -> Nat]
  BY <1>2, <1>6
<1>8. Sums(len, keys)
  BY <1>4, <1>5, <1>6, <1>7 DEF Sums
<1> QED BY <1>3, <1>8

LEMMA PathLenNat == ASSUME NEW keys PROVE PathLen(keys) \in Nat
<1>1. Len(Stats) \in Nat
  BY StatsAre
<1>2. PICK len : Sums(len, keys) /\ PathLen(keys) = len[Len(Stats)]
  BY PathLenDef
<1> QED BY <1>1, <1>2 DEF Sums

\* No keys add nothing.
LEMMA PathLenNone == PathLen({}) = 0
<1>1. Len(Stats) \in Nat
  BY StatsAre
<1>2. PICK len : Sums(len, {}) /\ PathLen({}) = len[Len(Stats)]
  BY PathLenDef
<1> DEFINE S == {i \in 0 .. Len(Stats) : len[i] = 0}
<1>3. 0 \in S /\ \A i \in 1 .. Len(Stats) : i - 1 \in S => i \in S
  BY <1>1, <1>2 DEF Share, Sums
<1> HIDE DEF S
<1>4. Len(Stats) \in S
  <2>1. \A i \in 0 .. Len(Stats) : i \in S
    BY <1>1, <1>3, InductionUpTo
  <2> QED BY <1>1, <2>1
<1> QED BY <1>2, <1>4 DEF S

\* A key adds its length to the path it is put on, wherever it is in the list.
LEMMA PathLenAdd ==
  ASSUME NEW keys, NEW k \in Key, k \notin keys
  PROVE  PathLen(keys \cup {k}) = PathLen(keys) + KeyLen[k]
<1> DEFINE with == keys \cup {k}
<1>1. Len(Stats) \in Nat /\ KeyLen[k] \in Nat
  BY QueryAssumption DEF QueryAssumption, Arranges
<1>2. PICK p \in 1 .. Len(Stats) : Stats[p] = k /\ \A i \in 1 .. Len(Stats) : i # p => Stats[i] # k
  <2>1. DOMAIN Stats = 1 .. Len(Stats)
    BY QueryAssumption DEF QueryAssumption, Arranges
  <2>2. PICK p \in DOMAIN Stats : Stats[p] = k
    BY QueryAssumption DEF QueryAssumption, Arranges
  <2>3. \A i \in DOMAIN Stats : i # p => Stats[i] # k
    BY <2>2, QueryAssumption DEF QueryAssumption, Arranges
  <2> QED BY <2>1, <2>2, <2>3
<1>3. ASSUME NEW i \in 1 .. Len(Stats)
      PROVE  /\ Share(keys, i) \in Nat
             /\ Share(with, i) = Share(keys, i) + (IF i = p THEN KeyLen[k] ELSE 0)
  <2>1. Stats[i] \in Key /\ KeyLen[Stats[i]] \in Nat
    BY StatsAre
  <2> QED BY <1>2, <2>1 DEF Share
<1> HIDE DEF with
<1>4. PICK a : Sums(a, keys) /\ PathLen(keys) = a[Len(Stats)]
  BY PathLenDef
<1>5. PICK b : Sums(b, with) /\ PathLen(with) = b[Len(Stats)]
  BY PathLenDef
<1> DEFINE Ahead(i) == IF i < p THEN 0 ELSE KeyLen[k]
           S == {i \in 0 .. Len(Stats) : b[i] = a[i] + Ahead(i)}
<1>6. 0 \in S
  BY <1>1, <1>4, <1>5 DEF Sums
<1>7. ASSUME NEW i \in 1 .. Len(Stats), i - 1 \in S PROVE i \in S
  <2>1. /\ a[i] = a[i - 1] + Share(keys, i) /\ b[i] = b[i - 1] + Share(with, i)
        /\ b[i - 1] = a[i - 1] + Ahead(i - 1) /\ a[i - 1] \in Nat
    BY <1>1, <1>4, <1>5, <1>7 DEF Sums
  <2>2. Ahead(i) = Ahead(i - 1) + (IF i = p THEN KeyLen[k] ELSE 0)
    BY <1>1
  <2>3. Ahead(i) \in Nat /\ Ahead(i - 1) \in Nat
    BY <1>1
  <2> HIDE DEF Ahead
  <2>4. b[i] = a[i] + Ahead(i)
    <3> DEFINE more == IF i = p THEN KeyLen[k] ELSE 0
    <3>1. more \in Nat /\ Share(with, i) = Share(keys, i) + more /\ Ahead(i) = Ahead(i - 1) + more
      BY <1>1, <1>3, <2>2
    <3>2. Share(keys, i) \in Nat
      BY <1>3
    <3> HIDE DEF more
    <3> QED BY <2>1, <2>3, <3>1, <3>2
  <2> QED BY <2>4
<1> HIDE DEF S
<1>8. Len(Stats) \in S
  <2>1. \A i \in 1 .. Len(Stats) : i - 1 \in S => i \in S
    BY <1>7
  <2>2. \A i \in 0 .. Len(Stats) : i \in S
    BY <1>1, <1>6, <2>1, InductionUpTo
  <2> QED BY <1>1, <2>2
<1>9. PathLen(with) = PathLen(keys) + KeyLen[k]
  BY <1>1, <1>2, <1>4, <1>5, <1>8 DEF S, Sums
<1> QED BY <1>9 DEF with

\* A path with a key has a length.
LEMMA PathLenPositive ==
  ASSUME NEW keys, NEW k \in Key, k \in keys
  PROVE  PathLen(keys) > 0
<1> DEFINE rest == keys \ {k}
<1>1. PathLen(rest) \in Nat /\ KeyLen[k] \in Nat \ {0}
  BY PathLenNat, QueryAssumption DEF QueryAssumption
<1>2. keys = rest \cup {k} /\ k \notin rest
  OBVIOUS
<1> HIDE DEF rest
<1>3. PathLen(keys) = PathLen(rest) + KeyLen[k]
  BY <1>2, PathLenAdd
<1> QED BY <1>1, <1>3

------------------------------------------------------------------------------
(* The requests of a call.                                                   *)

\* There is always a request under way.
Requests == {bs \in Seq(SUBSET Key) : Len(bs) > 0}

\* What the requests bs have to be when the keys asked have been put on them.
Sound(bs, asked) ==
  /\ bs \in Requests
  /\ UNION {bs[i] : i \in DOMAIN bs} = asked
  /\ \A i, j \in DOMAIN bs : i # j => bs[i] \cap bs[j] = {}
  /\ \A i \in DOMAIN bs :
       /\ PathLen(bs[i]) <= MaxKeyLen \/ \E k \in Key : bs[i] = {k}
       /\ bs[i] = {} => Len(bs) = 1

LEMMA RequestsAre ==
  ASSUME NEW bs \in Requests
  PROVE  /\ Len(bs) \in Nat \ {0}
         /\ DOMAIN bs = 1 .. Len(bs)
         /\ Len(bs) \in DOMAIN bs
         /\ \A i \in DOMAIN bs : bs[i] \in SUBSET Key
BY DEF Requests

\* A key opens a request or is put on the last one.
LEMMA AddKeyIs ==
  ASSUME NEW bs \in Requests, NEW k \in Key
  PROVE  LET last == bs[Len(bs)]
             too  == PathLen(last) + KeyLen[k] > MaxKeyLen
         IN  \/ /\ last # {} /\ too
                /\ AddKey(bs, k) = Append(bs, {k})
             \/ /\ last = {} \/ ~too
                /\ AddKey(bs, k) = [bs EXCEPT ![Len(bs)] = last \cup {k}]
<1> DEFINE last == bs[Len(bs)]
<1>1. last \in SUBSET Key /\ PathLen(last) \in Nat
  BY RequestsAre, PathLenNat
<1>2. PathLen(last) > 0 <=> last # {}
  <2>1. ASSUME last # {} PROVE PathLen(last) > 0
    <3>1. PICK l \in Key : l \in last
      BY <1>1, <2>1
    <3> HIDE DEF last
    <3> QED BY <3>1, PathLenPositive
  <2>2. ASSUME last = {} PROVE ~(PathLen(last) > 0)
    <3>1. PathLen(last) = 0
      BY <2>2, PathLenNone
    <3> QED BY <3>1
  <2> QED BY <2>1, <2>2
<1> QED BY <1>2 DEF AddKey, PutKey

LEMMA AddKeyType ==
  ASSUME NEW bs \in Requests, NEW k \in Key
  PROVE  AddKey(bs, k) \in Requests
<1>1. bs[Len(bs)] \cup {k} \in SUBSET Key /\ {k} \in SUBSET Key
  BY RequestsAre
<1>2. Append(bs, {k}) \in Requests
  BY <1>1 DEF Requests
<1>3. [bs EXCEPT ![Len(bs)] = bs[Len(bs)] \cup {k}] \in Requests
  BY <1>1 DEF Requests
<1> QED BY <1>2, <1>3, AddKeyIs

\* One more key leaves the requests sound.
LEMMA AddKeySound ==
  ASSUME NEW asked \in SUBSET Key, NEW bs, Sound(bs, asked), NEW k \in Key, k \notin asked
  PROVE  Sound(AddKey(bs, k), asked \cup {k})
<1> DEFINE n == Len(bs)
           last == bs[n]
           new == AddKey(bs, k)
<1>1. /\ bs \in Requests /\ n \in Nat \ {0} /\ DOMAIN bs = 1 .. n /\ n \in DOMAIN bs
      /\ \A i \in DOMAIN bs : bs[i] \in SUBSET asked
  BY RequestsAre DEF Sound
<1>2. new \in Requests
  BY <1>1, AddKeyType
<1>3. KeyLen[k] \in Nat /\ MaxKeyLen \in Nat /\ PathLen(last) \in Nat
  BY PathLenNat, QueryAssumption DEF QueryAssumption
<1>4. CASE last # {} /\ new = Append(bs, {k})
  <2>1. /\ DOMAIN new = 1 .. n + 1
        /\ \A i \in 1 .. n : new[i] = bs[i]
        /\ new[n + 1] = {k}
    BY <1>1, <1>4 DEF Requests
  <2> HIDE DEF new
  <2>2. UNION {new[i] : i \in DOMAIN new} = asked \cup {k}
    <3>1. asked \cup {k} \subseteq UNION {new[i] : i \in DOMAIN new}
      BY <1>1, <2>1 DEF Sound
    <3>2. \A i \in DOMAIN new : new[i] \subseteq asked \cup {k}
      BY <1>1, <2>1
    <3> QED BY <3>1, <3>2
  <2>3. ASSUME NEW i \in DOMAIN new, NEW j \in DOMAIN new, i # j
        PROVE  new[i] \cap new[j] = {}
    BY <1>1, <2>1, <2>3 DEF Sound
  <2>4. ASSUME NEW i \in DOMAIN new
        PROVE  new[i] # {} /\ (PathLen(new[i]) <= MaxKeyLen \/ \E l \in Key : new[i] = {l})
    <3>1. CASE i = n + 1
      BY <2>1, <3>1
    <3>2. CASE i # n + 1
      <4>1. i \in 1 .. n /\ i \in DOMAIN bs /\ new[i] = bs[i]
        BY <1>1, <2>1, <3>2
      <4>2. bs[i] # {}
        BY <1>1, <1>4, <4>1 DEF Sound
      <4> QED BY <4>1, <4>2 DEF Sound
    <3> QED BY <3>1, <3>2
  <2> QED
    <3>1. \A i \in DOMAIN new :
            /\ PathLen(new[i]) <= MaxKeyLen \/ \E l \in Key : new[i] = {l}
            /\ new[i] = {} => Len(new) = 1
      BY <2>4
    <3>2. Sound(new, asked \cup {k})
      BY <1>2, <2>2, <2>3, <3>1 DEF Sound
    <3> QED BY <3>2 DEF new
<1>5. CASE /\ last = {} \/ ~(PathLen(last) + KeyLen[k] > MaxKeyLen)
           /\ new = [bs EXCEPT ![n] = last \cup {k}]
  <2>1. /\ DOMAIN new = 1 .. n
        /\ \A i \in 1 .. n : i # n => new[i] = bs[i]
        /\ new[n] = last \cup {k}
    BY <1>1, <1>5, ZenonT(30)
  <2> HIDE DEF new
  <2>2. UNION {new[i] : i \in DOMAIN new} = asked \cup {k}
    <3>1. asked \cup {k} \subseteq UNION {new[i] : i \in DOMAIN new}
      <4>1. ASSUME NEW l \in asked PROVE \E i \in DOMAIN new : l \in new[i]
        <5>1. PICK i \in DOMAIN bs : l \in bs[i]
          BY SMTT(30) DEF Sound
        <5> QED BY <1>1, <2>1, <5>1
      <4> QED BY <1>1, <2>1, <4>1, ZenonT(30)
    <3>2. \A i \in DOMAIN new : new[i] \subseteq asked \cup {k}
      BY <1>1, <2>1, ZenonT(30)
    <3> QED BY <3>1, <3>2
  <2>3. ASSUME NEW i \in DOMAIN new, NEW j \in DOMAIN new, i # j
        PROVE  new[i] \cap new[j] = {}
    <3>1. i \in DOMAIN bs /\ j \in DOMAIN bs /\ bs[i] \cap bs[j] = {}
      BY <1>1, <2>1, <2>3 DEF Sound
    <3>2. k \notin bs[i] /\ k \notin bs[j]
      BY <1>1, <3>1
    <3>3. CASE i = n
      BY <1>1, <2>1, <2>3, <3>1, <3>2, <3>3, ZenonT(30)
    <3>4. CASE j = n
      BY <1>1, <2>1, <2>3, <3>1, <3>2, <3>4, ZenonT(30)
    <3>5. CASE i # n /\ j # n
      BY <1>1, <2>1, <3>1, <3>5
    <3> QED BY <3>3, <3>4, <3>5, ZenonT(30)
  <2>4. PathLen(new[n]) <= MaxKeyLen \/ \E l \in Key : new[n] = {l}
    <3>1. CASE last = {}
      BY <2>1, <3>1
    <3>2. CASE last # {}
      <4>1. k \notin last
        BY <1>1
      <4>2. PathLen(new[n]) = PathLen(last) + KeyLen[k]
        BY <2>1, <4>1, PathLenAdd
      <4> QED BY <1>3, <1>5, <3>2, <4>2
    <3> QED BY <3>1, <3>2
  <2>5. ASSUME NEW i \in DOMAIN new
        PROVE  new[i] # {} /\ (PathLen(new[i]) <= MaxKeyLen \/ \E l \in Key : new[i] = {l})
    <3>1. CASE i = n
      BY <2>1, <2>4, <3>1
    <3>2. CASE i # n
      <4>1. new[i] = bs[i] /\ i \in DOMAIN bs
        BY <1>1, <2>1, <3>2
      <4>2. bs[i] # {}
        BY <1>1, <3>2, <4>1 DEF Sound
      <4> QED BY <4>1, <4>2 DEF Sound
    <3> QED BY <3>1, <3>2
  <2> QED
    <3>1. \A i \in DOMAIN new :
            /\ PathLen(new[i]) <= MaxKeyLen \/ \E l \in Key : new[i] = {l}
            /\ new[i] = {} => Len(new) = 1
      BY <2>5
    <3>2. Sound(new, asked \cup {k})
      BY <1>2, <2>2, <2>3, <3>1 DEF Sound
    <3> QED BY <3>2 DEF new
<1> QED BY <1>1, <1>4, <1>5, AddKeyIs

\* The requests for keys, place by place.
Cuts(cut, order, keys) ==
  /\ cut \in [0 .. Len(order) -> Requests]
  /\ cut[0] = <<{}>>
  /\ \A i \in 1 .. Len(order) :
       cut[i] = IF order[i] \in keys THEN AddKey(cut[i - 1], order[i]) ELSE cut[i - 1]

\* The requests that Batches cuts.
LEMMA BatchesDef ==
  ASSUME NEW order, Arranges(order), NEW keys
  PROVE  \E cut : Cuts(cut, order, keys) /\ Batches(order, keys) = cut[Len(order)]
<1> DEFINE Rec(f) == [i \in 0 .. Len(order) |->
                        IF i = 0 THEN <<{}>>
                        ELSE IF order[i] \in keys THEN AddKey(f[i - 1], order[i])
                        ELSE f[i - 1]]
           Put(bs, i) == IF order[i] \in keys THEN AddKey(bs, order[i]) ELSE bs
           Step == [p \in (1 .. Len(order)) \X Requests |-> Put(p[2], p[1])]
           cut == CHOOSE f : f = Rec(f)
<1>1. Len(order) \in Nat /\ \A i \in 1 .. Len(order) : order[i] \in Key
  BY DEF Arranges
<1>2. <<{}>> \in Requests
  BY DEF Requests
<1>3. ASSUME NEW bs \in Requests, NEW i \in 1 .. Len(order) PROVE Put(bs, i) \in Requests
  BY <1>1, AddKeyType
<1>4. ASSUME NEW f, NEW i \in 1 .. Len(order) PROVE Rec(f)[i] = Put(f[i - 1], i)
  BY <1>1
<1>5. ASSUME NEW f PROVE Rec(f)[0] = <<{}>>
  BY <1>1
<1> HIDE DEF Put
<1>6. cut = Rec(cut)
  <2>1. Step \in Steps(Len(order), Requests)
    BY <1>3 DEF Steps
  <2>2. PICK f : Follows(f, Requests, <<{}>>, Len(order), Step)
    <3> HIDE DEF Step
    <3> QED BY <1>1, <1>2, <2>1, Recursion
  <2>3. f \in [0 .. Len(order) -> Requests] /\ f[0] = <<{}>>
    BY <2>2 DEF Follows
  <2>4. ASSUME NEW i \in 1 .. Len(order) PROVE f[i] = Put(f[i - 1], i)
    <3>1. <<i, f[i - 1]>> \in (1 .. Len(order)) \X Requests
      BY <1>1, <2>3
    <3>2. f[i] = Step[<<i, f[i - 1]>>]
      BY <2>2 DEF Follows
    <3> QED BY <3>1, <3>2
  <2> HIDE DEF Rec
  <2>5. ASSUME NEW i \in 0 .. Len(order) PROVE f[i] = Rec(f)[i]
    <3>1. CASE i = 0
      BY <1>5, <2>3, <3>1
    <3>2. CASE i # 0
      BY <1>1, <1>4, <2>4, <3>2
    <3> QED BY <3>1, <3>2
  <2>6. f = Rec(f)
    BY <2>3, <2>5 DEF Rec
  <2> QED BY <2>6
<1>7. Batches(order, keys) = cut[Len(order)]
  BY DEF Batches
<1> HIDE DEF cut
<1>8. cut[0] = <<{}>> /\ \A i \in 1 .. Len(order) : cut[i] = Put(cut[i - 1], i)
  <2> HIDE DEF Rec
  <2> QED BY <1>4, <1>5, <1>6
<1>9. \A i \in 0 .. Len(order) : cut[i] \in Requests
  <2> DEFINE S == {i \in 0 .. Len(order) : cut[i] \in Requests}
  <2>1. 0 \in S
    <3>1. cut[0] \in Requests
      BY <1>2, <1>8
    <3> QED BY <1>1, <3>1
  <2>2. \A i \in 1 .. Len(order) : i - 1 \in S => i \in S
    BY <1>1, <1>3, <1>8
  <2> HIDE DEF S
  <2>3. \A i \in 0 .. Len(order) : i \in S
    BY <1>1, <2>1, <2>2, InductionUpTo
  <2> QED BY <2>3 DEF S
<1>10. cut \in [0 .. Len(order) -> Requests]
  BY <1>6, <1>9
<1>11. \A i \in 1 .. Len(order) :
         cut[i] = IF order[i] \in keys THEN AddKey(cut[i - 1], order[i]) ELSE cut[i - 1]
  BY <1>8 DEF Put
<1>12. Cuts(cut, order, keys)
  BY <1>8, <1>10, <1>11 DEF Cuts
<1> QED BY <1>7, <1>12

\* The requests for some keys of the bucket are what they have to be, in whatever
\* order they are asked for.
LEMMA BatchesSound ==
  ASSUME NEW order, Arranges(order), NEW keys \in SUBSET Key
  PROVE  Sound(Batches(order, keys), keys)
<1>1. /\ Len(order) \in Nat /\ DOMAIN order = 1 .. Len(order)
      /\ \A i \in 1 .. Len(order) : order[i] \in Key
  BY DEF Arranges
<1>2. PICK cut : Cuts(cut, order, keys) /\ Batches(order, keys) = cut[Len(order)]
  BY BatchesDef
<1> DEFINE Upto(n) == {k \in keys : \E j \in 1 .. n : order[j] = k}
           S == {n \in 0 .. Len(order) : Sound(cut[n], Upto(n))}
<1>3. 0 \in S
  <2>1. Upto(0) = {} /\ 0 \in 0 .. Len(order)
    BY <1>1
  <2>2. <<{}>> \in Requests /\ PathLen({}) <= MaxKeyLen
    BY PathLenNone, QueryAssumption DEF Requests, QueryAssumption
  <2>3. Sound(<<{}>>, {})
    BY <2>2 DEF Sound
  <2>4. cut[0] = <<{}>>
    BY <1>2 DEF Cuts
  <2>5. Sound(cut[0], Upto(0))
    BY <2>1, <2>3, <2>4
  <2> HIDE DEF Upto
  <2> QED BY <2>1, <2>5
<1>4. ASSUME NEW n \in 1 .. Len(order), n - 1 \in S PROVE n \in S
  <2>1. Sound(cut[n - 1], Upto(n - 1)) /\ n \in 0 .. Len(order)
    BY <1>1, <1>4
  <2>2. \A j \in 1 .. n : j = n \/ j \in 1 .. n - 1
    BY <1>1
  <2>3. CASE order[n] \in keys
    <3>1. Upto(n) = Upto(n - 1) \cup {order[n]}
      BY <1>1, <2>2, <2>3
    <3>2. order[n] \notin Upto(n - 1)
      <4>1. \A j \in 1 .. n - 1 : j \in DOMAIN order /\ n \in DOMAIN order /\ j # n
        BY <1>1
      <4> QED BY <4>1 DEF Arranges
    <3>3. Upto(n - 1) \in SUBSET Key /\ order[n] \in Key
      BY <1>1
    <3> HIDE DEF Upto
    <3>4. Sound(AddKey(cut[n - 1], order[n]), Upto(n))
      BY <2>1, <3>1, <3>2, <3>3, AddKeySound
    <3> QED BY <1>2, <2>1, <2>3, <3>4 DEF Cuts
  <2>4. CASE order[n] \notin keys
    <3>1. Upto(n) = Upto(n - 1)
      BY <1>1, <2>2, <2>4
    <3> HIDE DEF Upto
    <3> QED BY <1>2, <2>1, <2>4, <3>1 DEF Cuts
  <2> QED BY <2>3, <2>4
<1>5. Sound(cut[Len(order)], Upto(Len(order)))
  <2> HIDE DEF S
  <2>1. \A n \in 1 .. Len(order) : n - 1 \in S => n \in S
    BY <1>4
  <2>2. \A n \in 0 .. Len(order) : n \in S
    BY <1>1, <1>3, <2>1, InductionUpTo
  <2>3. Len(order) \in S
    BY <1>1, <2>2
  <2> QED BY <2>3 DEF S
<1>6. Upto(Len(order)) = keys
  BY <1>1 DEF Arranges
<1> HIDE DEF Upto
<1> QED BY <1>2, <1>5, <1>6

------------------------------------------------------------------------------
(* The invariant.                                                            *)

\* The requests of the call are those for its keys, all along the call.
RequestsOfCall ==
  pc = "request" =>
    batches = IF attempt = 0 THEN Batches(Stats, Key) ELSE Batches(Sorted, failed)

LEMMA RequestsOfCallStep ==
  ASSUME TypeOK, RequestsOfCall, [Next]_vars
  PROVE  RequestsOfCall'
<1> USE DEF RequestsOfCall
<1>1. CASE Call
  BY <1>1 DEF Call, Ask
<1>2. ASSUME NEW ans \in Answers(batches[sent + 1]), BatchAnswered(ans) \/ QueryAnswered(ans)
      PROVE  RequestsOfCall'
  BY <1>2 DEF BatchAnswered, QueryAnswered, ReturnOrWait
<1>3. CASE QueryFails \/ RetryFails \/ RetryCancelled
  BY <1>3 DEF QueryFails, RetryFails, ReturnOrWait, RetryCancelled
<1>4. CASE RetryTimer
  <2>1. attempt' # 0
    BY <1>4 DEF RetryTimer, TypeOK
  <2> QED BY <1>4, <2>1 DEF RetryTimer, Ask
<1>5. CASE Cancel \/ UNCHANGED vars
  BY <1>5 DEF Cancel, callVars, vars
<1> QED BY <1>1, <1>2, <1>3, <1>4, <1>5 DEF Next, Returns, Answered, Terminated

\* From the call to its return the requests that are made are the batches of the
\* call: of all keys in the order of the bucket at first, and of the keys that
\* failed, sorted, in a retry.
THEOREM RequestsAreOfCall == Spec => []RequestsOfCall
<1>1. Init => RequestsOfCall
  BY DEF Init, RequestsOfCall
<1> QED BY <1>1, RequestsOfCallStep, QueryTypeCorrect, PTL DEF Spec

\* However many keys a bucket has and however long they are, the requests of a
\* call ask for each of them once and keep to the length of a path as far as its
\* keys allow; so do those of each retry for the keys that failed.
THEOREM RequestsCoverKeys == Spec => []BatchesCover
<1>1. TypeOK /\ RequestsOfCall => BatchesCover
  <2> SUFFICES ASSUME TypeOK, RequestsOfCall, pc = "request" PROVE BatchesCover
    BY DEF BatchesCover
  <2> DEFINE asked == IF attempt = 0 THEN Key ELSE failed
  <2>1. Sound(batches, asked)
    BY BatchesSound, QueryAssumption DEF RequestsOfCall, TypeOK, QueryAssumption
  <2>2. \A i \in DOMAIN batches : batches[i] = {} => asked = {}
    <3> HIDE DEF asked
    <3>1. \A i \in DOMAIN batches : batches[i] = {} => Len(batches) = 1 /\ DOMAIN batches = {1}
      BY <2>1, RequestsAre DEF Sound
    <3> QED BY <2>1, <3>1 DEF Sound
  <2> QED BY <2>1, <2>2 DEF BatchesCover, Sound
<1> QED BY <1>1, QueryTypeCorrect, RequestsAreOfCall, PTL

------------------------------------------------------------------------------
(* The end of a call.                                                        *)

\* How far the call is from its return: the attempts that are left, and of an
\* attempt the wait before it.
Place ==
  IF pc = "returned" THEN 0
  ELSE 2 * (StatRetries - attempt) + (IF pc = "request" THEN 2 ELSE 1)

\* The requests of the attempt that are not answered.
RequestsLeft == Len(batches) - sent

Closer ==
  \/ Place' < Place
  \/ /\ Place' = Place
     /\ 0 < RequestsLeft' /\ RequestsLeft' < RequestsLeft

GetsCloser == pc # "returned" => Cancel \/ Closer

LEMMA PlaceStep ==
  ASSUME TypeOK, RetryInv, pc # "returned", Returns \/ RetryTimer
  PROVE  \/ Place' < Place
         \/ \E ans \in Answers(batches[sent + 1]) : BatchAnswered(ans)
<1> USE QueryAssumption DEF QueryAssumption
<1>0. attempt \in Nat /\ StatRetries \in Nat /\ attempt <= StatRetries
  BY DEF TypeOK
<1>1. ASSUME pc = "request", attempt' = attempt, pc' \in {"wait", "returned"}
      PROVE  Place' < Place
  BY <1>0, <1>1 DEF Place
<1>2. ASSUME NEW ans \in Answers(batches[sent + 1]), QueryAnswered(ans)
      PROVE  Place' < Place
  BY <1>1, <1>2 DEF QueryAnswered, ReturnOrWait
<1>3. CASE QueryFails
  BY <1>1, <1>3 DEF QueryFails
<1>4. CASE RetryFails
  BY <1>1, <1>4 DEF RetryFails, ReturnOrWait
<1>5. CASE RetryCancelled
  <2>1. Place > 0 /\ Place' = 0
    BY <1>0, <1>5 DEF RetryCancelled, Place
  <2> QED BY <2>1
<1>6. CASE RetryTimer
  BY <1>0, <1>6 DEF RetryTimer, Ask, Place
<1> QED BY <1>2, <1>3, <1>4, <1>5, <1>6 DEF Returns, Answered

\* Every step of a call but the cancellation of the run lowers what is left of
\* it, first the attempts and then the requests of the attempt: whatever the
\* cluster answers, no sequence of answers, failures and waits keeps a call.
THEOREM CallGetsCloser == Spec => [][GetsCloser]_vars
<1>1. TypeOK /\ RetryInv /\ RequestsOfCall /\ [Next]_vars => [GetsCloser]_vars
  <2> SUFFICES ASSUME TypeOK, RetryInv, RequestsOfCall, Next, pc # "returned", ~Cancel
               PROVE  Closer
    BY DEF GetsCloser
  <2>1. Returns \/ RetryTimer
    BY DEF Next, Call, Terminated
  <2>2. ASSUME NEW ans \in Answers(batches[sent + 1]), BatchAnswered(ans)
        PROVE  Closer
    <3>1. pc = "request" /\ failed \in SUBSET Key
      BY <2>2 DEF BatchAnswered, TypeOK
    <3>2. batches \in Requests
      BY <3>1, BatchesSound, QueryAssumption DEF RequestsOfCall, QueryAssumption, Sound
    <3>3. Len(batches) \in Nat /\ sent \in Nat
      BY <3>2, RequestsAre DEF TypeOK
    <3> QED BY <2>2, <3>3 DEF BatchAnswered, Closer, Place, RequestsLeft
  <2> QED BY <2>1, <2>2, PlaceStep DEF Closer
<1> QED BY <1>1, QueryInvariant, RequestsAreOfCall, PTL DEF Spec

==============================================================================
