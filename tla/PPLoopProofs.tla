----------------------------- MODULE PPLoopProofs -----------------------------
(***************************************************************************)
(* Theorems about PPLoop: types, the datasets of the sink, the labels.     *)
(***************************************************************************)
EXTENDS PPLoop, TLAPS

\* Names are unique on a cluster, and slot 0 is never without its dataset.
ClusterInv ==
  /\ defs[0] = [name |-> System, created |-> 0]
  /\ \A i \in Id : defs[i] # NoDef => defs[i].created <= creations
  /\ \A i, j \in Id :
       NoDef \notin {defs[i], defs[j]} /\ defs[i].name = defs[j].name => i = j

\* So they are in an answer; and what the cluster has and had when it answered
\* is still where the answer says.
AnswerInv ==
  /\ \A i, j \in Id :
       NoDef \notin {di[i], di[j]} /\ di[i].name = di[j].name => i = j
  /\ \A i \in Id : di[i] # NoDef => di[i].created <= listedAt
  /\ di # Empty =>
       /\ di[0] = [name |-> System, created |-> 0]
       /\ \A i \in Id :
            defs[i] # NoDef /\ defs[i].created <= listedAt => di[i] = defs[i]

\* The loop reads and writes datasets of the answer only.
PollInv ==
  /\ \A i \in todo : di[i] # NoDef
  /\ pc \in {"read", "readwait", "write", "writewait"} => di[ds] # NoDef
  /\ pc \in {"write", "writewait"} =>
       got # NoDef /\ (got = di[ds] \/ got.created > listedAt)

Inv == TypeOK /\ ClusterInv /\ AnswerInv /\ PollInv /\ SinkFollowsAnswer

\* An answer with a dataset is not empty.
LEMMA NotEmpty == ASSUME TypeOK, NEW i \in Id, di[i] # NoDef PROVE di # Empty
  BY DEF TypeOK, Slots, Empty

\* Slot 0 is a slot, and the dataset of OneFS itself a dataset.
LEMMA SystemSlot ==
  /\ 0 \in Id
  /\ [name |-> System, created |-> 0] \in Def
  /\ [name |-> System, created |-> 0] # NoDef
  BY PPAssumption DEF PPAssumption, Id, Def


LEMMA InitInv == Init => Inv
<1> SUFFICES ASSUME Init PROVE Inv
  OBVIOUS
<1>1. defs = [i \in Id |-> IF i = 0 THEN [name |-> System, created |-> 0] ELSE NoDef]
  BY DEF Init, SystemOnly, Empty
<1>2. defs \in Slots
  BY <1>1, SystemSlot DEF Slots
<1>3. Empty \in Slots
  BY DEF Empty, Slots
<1>4. TypeOK
  <2>1. {alive, ctxDone} \subseteq BOOLEAN
    BY DEF Init
  <2>2. creations \in 0 .. MaxCreations /\ listedAt \in 0 .. creations
        /\ tries \in 0 .. ProcessorMaxRetries
    BY PPAssumption DEF Init, PPAssumption
  <2> QED
    BY <1>2, <1>3, <2>1, <2>2, SystemSlot DEF Init, TypeOK
<1>5. ClusterInv
  BY <1>1, SystemSlot DEF Init, ClusterInv
<1>6. \A i \in Id : di[i] = NoDef
  BY DEF Init, Empty
<1>7. AnswerInv
  BY <1>6 DEF Init, AnswerInv
<1>8. PollInv /\ SinkFollowsAnswer
  BY DEF Init, PollInv, SinkFollowsAnswer
<1> QED
  BY <1>4, <1>5, <1>7, <1>8 DEF Inv

\* The next read, or the end of the poll, keeps types and stays in the answer.
LEMMA NextRead ==
  ASSUME NEW rest \in SUBSET Id, ReadNext(rest), TypeOK, todo = {} \/ rest # {}
  PROVE  /\ pc' \in {"read", "sleep"}
         /\ todo' \in SUBSET rest
         /\ ds' \in Id
         /\ pc' = "read" => ds' \in rest
         /\ alive' \in BOOLEAN
  BY DEF ReadNext, Begin, TypeOK

\* The datasets of the cluster change: a new one is created after the answer.
LEMMA ClusterStep == ASSUME Inv, ClusterChanges PROVE Inv'
<1>1. UNCHANGED <<pollVars, sinkVars, pc, todo, ds, got, tries, alive, ctxDone>>
  BY DEF ClusterChanges
<1>2. creations \in 0 .. MaxCreations /\ listedAt \in 0 .. creations
      /\ defs \in Slots /\ MaxCreations \in Nat
  BY PPAssumption DEF Inv, TypeOK, PPAssumption
<1>3. PICK i \in Id \ {0} :
        RemoveFromCluster(i) \/ \E n \in Name : CreateOnCluster(i, n)
  BY DEF ClusterChanges
<1>4. CASE RemoveFromCluster(i)
  <2>1. defs' = [defs EXCEPT ![i] = NoDef] /\ creations' = creations
    BY <1>4 DEF RemoveFromCluster
  <2>2. \A j \in Id : defs'[j] = IF j = i THEN NoDef ELSE defs[j]
    BY <1>2, <2>1 DEF Slots
  <2>3. TypeOK'
    <3>1. defs' \in Slots
      BY <1>2, <2>1 DEF Slots
    <3> QED
      BY <1>1, <2>1, <3>1 DEF Inv, TypeOK, pollVars, sinkVars
  <2>4. ClusterInv'
    BY <1>3, <2>1, <2>2, SystemSlot DEF Inv, ClusterInv
  <2>5. AnswerInv'
    BY <1>1, <2>2 DEF Inv, AnswerInv, pollVars
  <2> QED
    BY <1>1, <2>3, <2>4, <2>5 DEF Inv, PollInv, SinkFollowsAnswer, pollVars, sinkVars
<1>5. CASE \E n \in Name : CreateOnCluster(i, n)
  <2>1. PICK n \in Name : CreateOnCluster(i, n)
    BY <1>5
  <2> DEFINE new == [name |-> n, created |-> creations + 1]
  <2>2. creations' = creations + 1 /\ creations < MaxCreations
        /\ defs' = [defs EXCEPT ![i] = new]
    BY <2>1 DEF CreateOnCluster
  <2>3. \A j \in Id : defs'[j] = IF j = i THEN new ELSE defs[j]
    BY <1>2, <2>2 DEF Slots
  <2>4. new \in Def /\ new # NoDef /\ new.created > listedAt
    BY <1>2, <2>2, PPAssumption DEF Def, PPAssumption
  <2>5. TypeOK'
    <3>1. defs' \in Slots
      BY <1>2, <2>2, <2>4 DEF Slots
    <3>2. creations' \in 0 .. MaxCreations /\ listedAt' \in 0 .. creations'
      BY <1>1, <1>2, <2>2 DEF pollVars
    <3> QED
      BY <1>1, <3>1, <3>2 DEF Inv, TypeOK, pollVars, sinkVars
  <2>6. \A j \in Id : defs[j] # NoDef => defs[j].name # n
    BY <2>1 DEF CreateOnCluster, Named
  <2>7. ClusterInv'
    <3>1. \A j \in Id : defs[j] # NoDef => defs[j].created \in Nat
      BY <1>2, PPAssumption DEF Slots, Def, PPAssumption
    <3>2. (\A j \in Id : defs[j] # NoDef => defs[j].created <= creations)'
      BY <1>2, <2>2, <2>3, <3>1 DEF Inv, ClusterInv
    <3>3. (\A j, k \in Id :
             NoDef \notin {defs[j], defs[k]} /\ defs[j].name = defs[k].name => j = k)'
      BY <2>3, <2>4, <2>6 DEF Inv, ClusterInv
    <3>4. (defs[0] = [name |-> System, created |-> 0])'
      BY <1>3, <2>3, SystemSlot DEF Inv, ClusterInv
    <3> QED
      BY <3>2, <3>3, <3>4 DEF ClusterInv
  <2>8. AnswerInv'
    BY <1>1, <1>2, <2>3, <2>4 DEF Inv, AnswerInv, pollVars
  <2> HIDE DEF new
  <2> QED
    BY <1>1, <2>5, <2>7, <2>8 DEF Inv, PollInv, SinkFollowsAnswer, pollVars, sinkVars
<1> QED
  BY <1>3, <1>4, <1>5

\* A dataset that is where it was keeps its entry, and no other does.
LEMMA Follows ==
  ASSUME Inv, sink = "prometheus", UpdateDatasets(defs)
  PROVE  dsm' = defs /\ byKey' = defs
<1>1. dsm = di /\ byKey = di /\ defs \in Slots /\ di \in Slots
  BY DEF Inv, SinkFollowsAnswer, TypeOK
<1>2. defs = [i \in Id |-> defs[i]]
  BY <1>1 DEF Slots
<1>3. ASSUME di # Empty, NEW i \in Id, i = 0 \/ Same(di[i], defs[i])
      PROVE  di[i] = defs[i]
  <2>1. CASE i = 0
    BY <1>3, <2>1 DEF Inv, AnswerInv, ClusterInv
  <2>2. CASE Same(di[i], defs[i])
    <3>1. CASE NoDef \in {di[i], defs[i]}
      BY <2>2, <3>1 DEF Same
    <3>2. CASE NoDef \notin {di[i], defs[i]}
      <4>1. di[i].created = defs[i].created /\ di[i].created <= listedAt
        BY <2>2, <3>2 DEF Same, Inv, AnswerInv
      <4> QED
        BY <1>3, <3>2, <4>1 DEF Inv, AnswerInv
    <3> QED
      BY <3>1, <3>2
  <2> QED
    BY <1>3, <2>1, <2>2
<1> QED
  BY <1>1, <1>2, <1>3 DEF UpdateDatasets

\* An answer holds everything the cluster has, and the sink follows it.
LEMMA ListedStep == ASSUME Inv, Listed PROVE Inv'
<1>1. defs' = defs /\ creations' = creations /\ sink' = sink /\ got' = got
      /\ tries' = tries /\ ctxDone' = ctxDone /\ di' = defs /\ listedAt' = creations
  BY DEF Listed, clusterVars
<1>2. TypeOK /\ defs \in Slots /\ creations \in Nat
  BY PPAssumption DEF Inv, TypeOK, PPAssumption
<1> DEFINE rest == {i \in Id : defs[i] # NoDef}
<1>3. ReadNext(rest) /\ rest \in SUBSET Id /\ 0 \in rest
  BY SystemSlot DEF Listed, Inv, ClusterInv
<1>4. /\ pc' \in {"read", "sleep"} /\ todo' \in SUBSET rest /\ ds' \in Id
      /\ pc' = "read" => ds' \in rest
      /\ alive' \in BOOLEAN
  BY <1>2, <1>3, NextRead
<1>5. sink = "prometheus" => dsm' = defs /\ byKey' = defs
  BY Follows DEF Listed
<1>6. sink # "prometheus" => dsm' = dsm /\ byKey' = byKey
  BY DEF Listed
<1>7. TypeOK'
  <2>1. dsm' \in Slots /\ byKey' \in Slots
    BY <1>2, <1>5, <1>6 DEF TypeOK
  <2>2. listedAt' \in 0 .. creations'
    BY <1>1, <1>2
  <2>3. todo' \in SUBSET Id
    BY <1>4
  <2> QED
    BY <1>1, <1>2, <1>4, <2>1, <2>2, <2>3 DEF TypeOK
<1>8. ClusterInv' /\ AnswerInv'
  BY <1>1 DEF Inv, ClusterInv, AnswerInv
<1>9. PollInv'
  BY <1>1, <1>4 DEF PollInv
<1>10. SinkFollowsAnswer'
  BY <1>1, <1>5 DEF SinkFollowsAnswer
<1> QED
  BY <1>7, <1>8, <1>9, <1>10 DEF Inv

\* What a read brings is the dataset that was listed, or one made since.
LEMMA ReadStep == ASSUME Inv, Read PROVE Inv'
<1>1. UNCHANGED <<clusterVars, pollVars, sinkVars, todo, ds, ctxDone>>
      /\ pc = "read" /\ pc' = "write" /\ tries' = 1 /\ alive' = ~ctxDone
  BY DEF Read, Begin
<1>2. PICK i \in Named(di[ds].name) : got' = defs[i]
  BY DEF Read
<1>3. i \in Id /\ defs[i] # NoDef /\ defs[i].name = di[ds].name
  BY <1>2 DEF Named
<1>4. ds \in Id /\ di[ds] # NoDef /\ defs \in Slots /\ TypeOK
  BY <1>1 DEF Inv, TypeOK, PollInv
<1>5. defs[i] \in Def /\ defs[i].created \in Nat /\ listedAt \in Nat
  BY <1>3, <1>4, PPAssumption DEF Slots, Def, TypeOK, PPAssumption
<1>6. defs[i] = di[ds] \/ defs[i].created > listedAt
  <2>1. SUFFICES ASSUME defs[i].created <= listedAt PROVE defs[i] = di[ds]
    BY <1>5
  <2>2. di # Empty
    BY <1>4, NotEmpty
  <2>3. di[i] = defs[i]
    BY <1>3, <2>1, <2>2 DEF Inv, AnswerInv
  <2>4. i = ds
    BY <1>3, <1>4, <2>3 DEF Inv, AnswerInv
  <2> QED
    BY <2>3, <2>4
<1>7. TypeOK'
  <2>1. tries' \in 0 .. ProcessorMaxRetries
    BY <1>1, PPAssumption DEF PPAssumption
  <2>2. {alive', ctxDone'} \subseteq BOOLEAN
    BY <1>1 DEF Inv, TypeOK
  <2> QED
    BY <1>1, <1>2, <1>5, <2>1, <2>2 DEF Inv, TypeOK, clusterVars, pollVars, sinkVars
<1>8. PollInv'
  BY <1>1, <1>2, <1>3, <1>4, <1>6 DEF Inv, PollInv, pollVars
<1> QED
  BY <1>1, <1>7, <1>8
  DEF Inv, ClusterInv, AnswerInv, SinkFollowsAnswer, clusterVars, pollVars, sinkVars

\* After a write the loop goes on with the datasets of the same answer.
LEMMA WrittenStep == ASSUME Inv, Written PROVE Inv'
<1>1. UNCHANGED <<clusterVars, pollVars, sinkVars, got, tries, ctxDone>>
      /\ ReadNext(todo)
  BY DEF Written
<1>2. todo \in SUBSET Id /\ TypeOK
  BY DEF Inv, TypeOK
<1>3. /\ pc' \in {"read", "sleep"} /\ todo' \in SUBSET todo /\ ds' \in Id
      /\ pc' = "read" => ds' \in todo
      /\ alive' \in BOOLEAN
  BY <1>1, <1>2, NextRead
<1>4. TypeOK'
  BY <1>1, <1>2, <1>3 DEF TypeOK, clusterVars, pollVars, sinkVars
<1>5. PollInv'
  BY <1>1, <1>3 DEF Inv, PollInv, pollVars
<1> QED
  BY <1>1, <1>4, <1>5
  DEF Inv, ClusterInv, AnswerInv, SinkFollowsAnswer, clusterVars, pollVars, sinkVars

\* Failures, waits and cancellation leave the answer and the sink alone.
LEMMA OtherSteps ==
  ASSUME Inv,
         \/ ListFails \/ ReadFails \/ ReadWaitOver \/ WriteFails \/ WriteWaitOver
         \/ SleepOver \/ Cancelled \/ Cancel \/ UNCHANGED vars
  PROVE  Inv'
<1>1. UNCHANGED <<clusterVars, pollVars, sinkVars, todo, ds, got>>
  BY DEF vars, ListFails, ReadFails, ReadWaitOver, WriteFails, WriteWaitOver,
         SleepOver, Cancelled, Cancel
<1>2. /\ pc' \in {"list", "read", "readwait", "write", "writewait", "sleep", "stopped"}
      /\ pc' \in {"write", "writewait"} => pc \in {"write", "writewait"}
      /\ pc' \in {"read", "readwait"} => pc \in {"read", "readwait"}
  BY DEF Inv, TypeOK, vars, Begin, ListFails, ReadFails, ReadWaitOver, WriteFails,
         WriteWaitOver, SleepOver, Cancelled, Cancel
<1>3. tries' \in 0 .. ProcessorMaxRetries
  <2>1. tries \in 0 .. ProcessorMaxRetries /\ ProcessorMaxRetries \in Nat
    BY PPAssumption DEF Inv, TypeOK, PPAssumption
  <2>2. tries' = tries \/ (tries < ProcessorMaxRetries /\ tries' = tries + 1)
    BY DEF vars, ListFails, ReadFails, ReadWaitOver, WriteFails, WriteWaitOver,
           SleepOver, Cancelled, Cancel
  <2> QED
    BY <2>1, <2>2
<1>4. {alive', ctxDone'} \subseteq BOOLEAN
  <2>1. alive' = alive \/ alive' = ~ctxDone
    BY DEF vars, Begin, ListFails, ReadFails, ReadWaitOver, WriteFails,
           WriteWaitOver, SleepOver, Cancelled, Cancel
  <2>2. ctxDone' = ctxDone \/ ctxDone' = TRUE
    BY DEF vars, ListFails, ReadFails, ReadWaitOver, WriteFails, WriteWaitOver,
           SleepOver, Cancelled, Cancel
  <2> QED
    BY <2>1, <2>2 DEF Inv, TypeOK
<1>5. TypeOK'
  BY <1>1, <1>2, <1>3, <1>4 DEF Inv, TypeOK, clusterVars, pollVars, sinkVars
<1>6. PollInv'
  BY <1>1, <1>2 DEF Inv, PollInv, pollVars
<1> QED
  BY <1>1, <1>5, <1>6
  DEF Inv, ClusterInv, AnswerInv, SinkFollowsAnswer, clusterVars, pollVars, sinkVars

\* The inductive invariant of the poll: what the cluster has, what it answered,
\* what the loop reads and what the sink knows belong together.
THEOREM PollInvariant == Spec => []Inv
<1>1. Inv /\ [Next]_vars => Inv'
  <2> SUFFICES ASSUME Inv, [Next]_vars PROVE Inv'
    OBVIOUS
  <2>1. CASE ClusterChanges
    BY <2>1, ClusterStep
  <2>2. CASE Listed
    BY <2>2, ListedStep
  <2>3. CASE Read
    BY <2>3, ReadStep
  <2>4. CASE Written
    BY <2>4, WrittenStep
  <2>5. CASE \/ ListFails \/ ReadFails \/ ReadWaitOver \/ WriteFails
             \/ WriteWaitOver \/ SleepOver \/ Cancelled \/ Cancel
             \/ Terminated \/ UNCHANGED vars
    BY <2>5, OtherSteps DEF Terminated
  <2> QED
    BY <2>1, <2>2, <2>3, <2>4, <2>5 DEF Next, LoopStep
<1> QED
  BY <1>1, InitInv, PTL DEF Spec

\* Every variable of the poll keeps its type, for any slots, names and limits:
\* no write is made more often than stats_processor_max_retries allows.
THEOREM PollTypeCorrect == Spec => []TypeOK
  BY PollInvariant, PTL DEF Inv

\* UpdateDatasets leaves both maps with the datasets of the last answer,
\* whatever was removed, made anew or moved between two polls.
THEOREM SinkFollows == Spec => []SinkFollowsAnswer
  BY PollInvariant, PTL DEF Inv

\* Workloads are labelled by the definition of another dataset only if theirs
\* was created after the poll had asked for the datasets.
THEOREM MislabelsOnlyNew == Spec => []MislabelsOnlyTheNew
<1>1. Inv => MislabelsOnlyTheNew
  BY DEF Inv, PollInv, SinkFollowsAnswer, MislabelsOnlyTheNew
<1> QED
  BY <1>1, PollInvariant, PTL

===============================================================================
