-------------------------------- MODULE PPLoop --------------------------------
(***************************************************************************)
(* The collection loop of goppstats for one cluster                        *)
(* (cmd/goppstats/main.go, statsloop from its second half on) and the      *)
(* datasets its Prometheus sink knows (cmd/goppstats/prometheus.go,        *)
(* UpdateDatasets).                                                        *)
(*                                                                         *)
(* In each poll the loop asks the cluster which datasets there are, brings *)
(* the sink up to date, and then reads the workloads of one dataset after  *)
(* the other, by name, and writes them under the stat key of its slot.     *)
(* Meanwhile the datasets of the cluster may change.  A read that fails is *)
(* made again for ever, a write ProcessorMaxRetries times, and a failed    *)
(* list ends the loop.  Waits have no length here.                         *)
(***************************************************************************)
EXTENDS Naturals

CONSTANTS
  MaxDsID,      \* slots 1 .. MaxDsID are the user's, slot 0 is the system's
  Name,         \* the names a user gives to datasets
  System,       \* the name of the dataset in slot 0
  NoDef,        \* no dataset
  ProcessorMaxRetries,  \* stats_processor_max_retries, after readConfig
  MaxCreations  \* bound: datasets created in one behaviour

Id == 0 .. MaxDsID

\* A dataset is told from all others by its creation time.
Def == [name : Name \cup {System}, created : 0 .. MaxCreations]

ASSUME PPAssumption ==
  /\ {MaxDsID, MaxCreations} \subseteq Nat
  /\ ProcessorMaxRetries \in Nat \ {0}
  /\ System \notin Name
  /\ NoDef \notin Def

VARIABLES
  defs,       \* defs[i]: the dataset the cluster has in slot i
  creations,  \* how many were created; the creation time of the last one
  sink,       \* the back end: "prometheus" or another
  pc,         \* what the loop is doing
  di,         \* di[i]: the dataset in slot i by the last answer
  listedAt,   \* creations at that time
  todo,       \* slots still to be read in this poll
  ds,         \* the slot that is read or written
  got,        \* the dataset whose workloads were read
  tries,      \* writes of these workloads
  dsm,        \* dsm[i]: the dataset the sink has for slot i
  byKey,      \* the same by stat key, of which there is one for each slot
  alive,      \* the request, or the write, began before the cancellation
  ctxDone     \* the context of the run is cancelled

clusterVars == <<defs, creations>>
pollVars == <<di, listedAt>>
sinkVars == <<sink, dsm, byKey>>
vars == <<clusterVars, pollVars, sinkVars, pc, todo, ds, got, tries, alive, ctxDone>>

Slots == [Id -> Def \cup {NoDef}]

TypeOK ==
  /\ defs \in Slots /\ di \in Slots
  /\ dsm \in Slots /\ byKey \in Slots
  /\ creations \in 0 .. MaxCreations
  /\ listedAt \in 0 .. creations
  /\ sink \in {"prometheus", "other"}
  /\ pc \in {"list", "read", "readwait", "write", "writewait", "sleep", "stopped"}
  /\ todo \in SUBSET Id
  /\ ds \in Id
  /\ got \in Def \cup {NoDef}
  /\ tries \in 0 .. ProcessorMaxRetries
  /\ {alive, ctxDone} \subseteq BOOLEAN

Empty == [i \in Id |-> NoDef]

SystemOnly == [Empty EXCEPT ![0] = [name |-> System, created |-> 0]]

\* The loop is set up and enters its first poll.
Init ==
  /\ defs = SystemOnly
  /\ creations = 0
  /\ sink \in {"prometheus", "other"}
  /\ pc = "list"
  /\ di = Empty /\ listedAt = 0
  /\ todo = {} /\ ds = 0
  /\ got = NoDef /\ tries = 0
  /\ dsm = Empty /\ byKey = Empty
  /\ alive = TRUE /\ ctxDone = FALSE

------------------------------------------------------------------------------
(* The user changes the datasets of the cluster.                           *)

Named(n) == {i \in Id : defs[i] # NoDef /\ defs[i].name = n}

CreateOnCluster(i, n) ==
  /\ creations < MaxCreations
  /\ defs[i] = NoDef /\ Named(n) = {}
  /\ creations' = creations + 1
  /\ defs' = [defs EXCEPT ![i] = [name |-> n, created |-> creations']]

RemoveFromCluster(i) ==
  /\ defs[i] # NoDef
  /\ defs' = [defs EXCEPT ![i] = NoDef]
  /\ UNCHANGED creations

ClusterChanges ==
  /\ \E i \in Id \ {0} :
       RemoveFromCluster(i) \/ \E n \in Name : CreateOnCluster(i, n)
  /\ UNCHANGED <<pollVars, sinkVars, pc, todo, ds, got, tries, alive, ctxDone>>

------------------------------------------------------------------------------
(* The datasets of the sink.                                               *)

\* Mutant: a slot that stays in use is taken for unchanged.
SameByPresence(cur, new) == (cur = NoDef) <=> (new = NoDef)

\* Mutant: a dataset is known by its name.
SameByName(cur, new) ==
  IF NoDef \in {cur, new} THEN cur = new ELSE cur.name = new.name

\* A slot has not changed if it is empty still or its creation time is the same.
Same(cur, new) ==
  IF NoDef \in {cur, new} THEN cur = new ELSE cur.created = new.created

\* What changed is cleared and created in both maps.  The first answer fills
\* them; after that slot 0 is not looked at.
UpdateDatasets(new) ==
  LET first == dsm = Empty
      Keep(i) == ~first /\ (i = 0 \/ Same(dsm[i], new[i]))
  IN  /\ dsm' = [i \in Id |-> IF Keep(i) THEN dsm[i] ELSE new[i]]
      /\ byKey' = [i \in Id |-> IF Keep(i) THEN byKey[i] ELSE new[i]]

------------------------------------------------------------------------------
(* One poll.                                                               *)

\* A request made under a cancelled context fails without being sent.
Begin(step) ==
  /\ pc' = step
  /\ alive' = ~ctxDone

\* The next dataset of the answer, whatever its order, or the end of the poll.
ReadNext(rest) ==
  IF rest = {}
  THEN pc' = "sleep" /\ UNCHANGED <<todo, ds, alive>>
  ELSE \E i \in rest : ds' = i /\ todo' = rest \ {i} /\ Begin("read")

\* GetDataSetInfo, and UpdateDatasets if the sink is that of Prometheus.
Listed ==
  /\ pc = "list" /\ alive
  /\ di' = defs /\ listedAt' = creations
  /\ IF sink = "prometheus" THEN UpdateDatasets(defs) ELSE UNCHANGED <<dsm, byKey>>
  /\ ReadNext({i \in Id : defs[i] # NoDef})
  /\ UNCHANGED <<clusterVars, sink, got, tries, ctxDone>>

ListFails ==
  /\ pc = "list"
  /\ pc' = "stopped"
  /\ UNCHANGED <<clusterVars, pollVars, sinkVars, todo, ds, got, tries, alive, ctxDone>>

\* GetPPStats: the dataset that has the name now, whichever it is.
Read ==
  /\ pc = "read" /\ alive
  /\ \E i \in Named(di[ds].name) : got' = defs[i]
  /\ tries' = 1
  /\ Begin("write")
  /\ UNCHANGED <<clusterVars, pollVars, sinkVars, todo, ds, ctxDone>>

\* Any error, also that there is no such dataset.
ReadFails ==
  /\ pc = "read"
  /\ pc' \in {"readwait"} \cup (IF ctxDone THEN {"stopped"} ELSE {})
  /\ UNCHANGED <<clusterVars, pollVars, sinkVars, todo, ds, got, tries, alive, ctxDone>>

\* Mutant: the wait is a sleep that does not look at the context.
ReadWaitOverAsleep ==
  /\ pc = "readwait"
  /\ Begin("read")
  /\ UNCHANGED <<clusterVars, pollVars, sinkVars, todo, ds, got, tries, ctxDone>>

\* A wait that begins under a cancelled context ends by that alone.
ReadWaitOver ==
  /\ pc = "readwait" /\ alive
  /\ Begin("read")
  /\ UNCHANGED <<clusterVars, pollVars, sinkVars, todo, ds, got, tries, ctxDone>>

Written ==
  /\ pc = "write"
  /\ ReadNext(todo)
  /\ UNCHANGED <<clusterVars, pollVars, sinkVars, got, tries, ctxDone>>

\* A wait follows every failed write, the last one too.  The values are all
\* numbers: the sink of Prometheus has nothing to refuse.
WriteFails ==
  /\ pc = "write" /\ sink # "prometheus"
  /\ pc' \in {"writewait"} \cup (IF ctxDone THEN {"stopped"} ELSE {})
  /\ UNCHANGED <<clusterVars, pollVars, sinkVars, todo, ds, got, tries, alive, ctxDone>>

\* Mutant: the writes are not counted against the limit.
WriteWaitOverAgain ==
  /\ pc = "writewait" /\ alive
  /\ Begin("write") /\ tries' = tries + 1
  /\ UNCHANGED <<clusterVars, pollVars, sinkVars, todo, ds, got, ctxDone>>

\* ProcessorMaxRetries writes have failed: the loop returns.
WriteWaitOver ==
  /\ pc = "writewait" /\ alive
  /\ IF tries < ProcessorMaxRetries
     THEN Begin("write") /\ tries' = tries + 1
     ELSE pc' = "stopped" /\ UNCHANGED <<tries, alive>>
  /\ UNCHANGED <<clusterVars, pollVars, sinkVars, todo, ds, got, ctxDone>>

\* Mutant: the datasets are asked for once, before the loop.
SleepOverOnce ==
  /\ pc = "sleep"
  /\ ReadNext({i \in Id : di[i] # NoDef})
  /\ UNCHANGED <<clusterVars, pollVars, sinkVars, got, tries, ctxDone>>

\* The 30 seconds are over, or have been before the poll was.
SleepOver ==
  /\ pc = "sleep"
  /\ Begin("list")
  /\ UNCHANGED <<clusterVars, pollVars, sinkVars, todo, ds, got, tries, ctxDone>>

\* Every wait of the loop also waits for the context.
Cancelled ==
  /\ pc \in {"readwait", "writewait", "sleep"} /\ ctxDone
  /\ pc' = "stopped"
  /\ UNCHANGED <<clusterVars, pollVars, sinkVars, todo, ds, got, tries, alive, ctxDone>>

Cancel ==
  /\ ~ctxDone
  /\ ctxDone' = TRUE
  /\ UNCHANGED <<clusterVars, pollVars, sinkVars, pc, todo, ds, got, tries, alive>>

Terminated == pc = "stopped" /\ UNCHANGED vars

LoopStep ==
  \/ Listed \/ ListFails
  \/ Read \/ ReadFails \/ ReadWaitOver
  \/ Written \/ WriteFails \/ WriteWaitOver
  \/ SleepOver \/ Cancelled

Next == LoopStep \/ ClusterChanges \/ Cancel \/ Terminated

\* The loop goes on whenever it can.  A cluster that is asked again and again
\* for a dataset it has answers in the end.
Fairness == WF_vars(LoopStep) /\ SF_vars(Read)

Spec == Init /\ [][Next]_vars

FairSpec == Spec /\ Fairness

------------------------------------------------------------------------------
(* Properties.                                                             *)

\* Both maps of the sink hold the datasets of the last answer, whatever was
\* removed, made anew or moved to another slot since the answer before: no
\* point is written under a stat key the sink does not know, or under a
\* definition that was gone when the poll began.
SinkFollowsAnswer ==
  sink = "prometheus" => dsm = di /\ byKey = di

\* Workloads are labelled by the definition of another dataset only if theirs
\* was created after the poll had begun: the next poll labels them right.
MislabelsOnlyTheNew ==
  pc = "write" /\ sink = "prometheus" =>
    byKey[ds] = got \/ got.created > listedAt

\* The loop asks, and would ask for ever, for a dataset that is gone.
AsksForGone == pc \in {"read", "readwait"} /\ Named(di[ds].name) = {}

\* A change of the datasets is found by a later poll, unless the loop has died
\* or waits for a dataset that was removed (see README).
FindsChanges ==
  \A i \in Id :
    di[i] # defs[i] ~> di[i] = defs[i] \/ pc = "stopped" \/ AsksForGone

\* Cancelling the run ends the loop wherever it is.
StopsWhenCancelled == ctxDone ~> pc = "stopped"

===============================================================================
