------------------------------ MODULE StatsLoop ------------------------------
(***************************************************************************)
(* The collection loop of one cluster, once it is set up                   *)
(* (cmd/gostats/main.go, statsloop from its second half on;                *)
(* cmd/gostats/pq.go; cmd/gostats/backend.go, WriteStats).                 *)
(*                                                                         *)
(* One goroutine serves a priority queue.  An item is a bucket of regular  *)
(* stats, or one of the summary stats; its priority is the time it is due. *)
(* The loop takes the item due first, waits until it is due, fetches its   *)
(* stats, puts it back one interval later, and writes what it fetched.     *)
(* Nothing else happens meanwhile: while one item fails, all items wait.   *)
(*                                                                         *)
(* Regular stats are fetched again until it works, and written up to       *)
(* ProcessorMaxRetries times.  Summary stats are fetched and written once. *)
(***************************************************************************)
EXTENDS Integers, FiniteSets

CONSTANTS
  Item,                 \* the buckets and the summary stats of the cluster
  Summary,              \* the summary stats among them
  Interval,             \* Interval[i]: time between two collections of i
  ProcessorMaxRetries,  \* stats_processor_max_retries, after readConfig
  ProcessorRetryIntvl,  \* stats_processor_retry_interval
  FetchRetryIntvl,      \* the first wait after a failed fetch
  MaxRetryTime,         \* the wait at which doubling stops
  MaxTime               \* bound: time in one behaviour

ASSUME LoopAssumption ==
  /\ Item # {}
  /\ Summary \subseteq Item
  /\ Interval \in [Item -> Nat \ {0}]
  /\ ProcessorMaxRetries \in Nat \ {0}
  /\ ProcessorRetryIntvl \in Nat
  /\ FetchRetryIntvl \in Nat \ {0}
  /\ MaxRetryTime \in Nat
  /\ MaxTime \in Nat

VARIABLES
  now,        \* the clock; the loop starts at 0
  due,        \* due[i]: priority of item i
  queue,      \* the items in the priority queue
  item,       \* the item taken last
  pc,         \* what the loop does with it
  retryTime,  \* the next wait of the retry loop it is in
  wake,       \* end of the present wait of that loop
  tries,      \* writes of the present data, the one under way included
  ctxDone,    \* the context of the run is cancelled
  count       \* history: count[i], how often i was put back

vars == <<now, due, queue, item, pc, retryTime, wake, tries, ctxDone, count>>

Steps == {"pop", "wait", "fetch", "backoff", "write", "writewait", "stopped"}

TypeOK ==
  /\ now \in 0 .. MaxTime
  /\ due \in [Item -> Nat]
  /\ queue \in SUBSET Item
  /\ item \in Item
  /\ pc \in Steps
  /\ retryTime \in Nat
  /\ wake \in Nat
  /\ tries \in 0 .. ProcessorMaxRetries
  /\ ctxDone \in BOOLEAN
  /\ count \in [Item -> Nat]

\* Every item starts in the queue, due at once; which is first is arbitrary.
Init ==
  /\ now = 0
  /\ due = [i \in Item |-> 0]
  /\ queue = Item
  /\ item \in Item
  /\ pc = "pop"
  /\ retryTime = 0
  /\ wake = 0
  /\ tries = 0
  /\ ctxDone = FALSE
  /\ count = [i \in Item |-> 0]

Regular(i) == i \notin Summary

Doubled(t) == IF t < MaxRetryTime THEN 2 * t ELSE t

Stop == pc' = "stopped"

\* Mutant: the next collection is an interval from now, not from the last one.
PutBackFromNow ==
  /\ due' = [due EXCEPT ![item] = now + Interval[item]]
  /\ queue' = queue \cup {item}
  /\ count' = [count EXCEPT ![item] = @ + 1]

\* heap.Push, one interval after the time the item was due, however late it is.
PutBack ==
  /\ due' = [due EXCEPT ![item] = @ + Interval[item]]
  /\ queue' = queue \cup {item}
  /\ count' = [count EXCEPT ![item] = @ + 1]

------------------------------------------------------------------------------
(* Taking an item and waiting for it.                                      *)

\* container/heap over Less: one of the items that are due first.
Earliest(i) == i \in queue /\ \A j \in queue : due[i] <= due[j]

Pop(i) ==
  /\ pc = "pop" /\ Earliest(i)
  /\ queue' = queue \ {i}
  /\ item' = i
  /\ pc' = IF now < due[i] THEN "wait" ELSE "fetch"
  /\ retryTime' = FetchRetryIntvl
  /\ tries' = 0
  /\ UNCHANGED <<now, due, wake, ctxDone, count>>

WaitOver ==
  /\ pc = "wait" /\ now >= due[item]
  /\ pc' = "fetch"
  /\ UNCHANGED <<now, due, queue, item, retryTime, wake, tries, ctxDone, count>>

------------------------------------------------------------------------------
(* Regular stats.                                                          *)

\* GetStatsWithRetry fails (see StatQuery): again after a wait, for ever.
FetchFails ==
  /\ pc = "fetch" /\ Regular(item)
  /\ pc' = "backoff"
  /\ wake' = now + retryTime
  /\ retryTime' = Doubled(retryTime)
  /\ UNCHANGED <<now, due, queue, item, tries, ctxDone, count>>

BackoffOver ==
  /\ pc = "backoff" /\ now >= wake
  /\ pc' = "fetch"
  /\ UNCHANGED <<now, due, queue, item, retryTime, wake, tries, ctxDone, count>>

\* The stats are there: the item goes back to the queue, then they are written.
Fetched ==
  /\ pc = "fetch" /\ Regular(item)
  /\ PutBack
  /\ pc' = "write"
  /\ tries' = 1
  /\ retryTime' = ProcessorRetryIntvl
  /\ UNCHANGED <<now, item, wake, ctxDone>>

\* One value of an unknown shape, and WriteStats fails before it writes.
DecodeFails ==
  /\ pc = "write" /\ Regular(item) /\ tries = 1
  /\ Stop
  /\ UNCHANGED <<now, due, queue, item, retryTime, wake, tries, ctxDone, count>>

Written ==
  /\ pc = "write" /\ Regular(item)
  /\ pc' = "pop"
  /\ UNCHANGED <<now, due, queue, item, retryTime, wake, tries, ctxDone, count>>

\* A wait follows every failed write, the last one too.
WriteFails ==
  /\ pc = "write" /\ Regular(item)
  /\ pc' = "writewait"
  /\ wake' = now + retryTime
  /\ retryTime' = Doubled(retryTime)
  /\ UNCHANGED <<now, due, queue, item, tries, ctxDone, count>>

\* Mutant: the retries are not counted against the limit.
WriteWaitOverAgain ==
  /\ pc = "writewait" /\ now >= wake
  /\ pc' = "write" /\ tries' = tries + 1
  /\ UNCHANGED <<now, due, queue, item, retryTime, wake, ctxDone, count>>

\* ProcessorMaxRetries writes have failed: the loop returns.
WriteWaitOver ==
  /\ pc = "writewait" /\ now >= wake
  /\ IF tries < ProcessorMaxRetries
     THEN pc' = "write" /\ tries' = tries + 1
     ELSE Stop /\ UNCHANGED tries
  /\ UNCHANGED <<now, due, queue, item, retryTime, wake, ctxDone, count>>

------------------------------------------------------------------------------
(* Summary stats.                                                          *)

SummaryFetched ==
  /\ pc = "fetch" /\ ~Regular(item)
  /\ pc' = "write"
  /\ tries' = 1
  /\ UNCHANGED <<now, due, queue, item, retryTime, wake, ctxDone, count>>

\* Logged; the item goes back to the queue.
SummaryFetchFails ==
  /\ pc = "fetch" /\ ~Regular(item)
  /\ PutBack
  /\ pc' = "pop"
  /\ UNCHANGED <<now, item, retryTime, wake, tries, ctxDone>>

SummaryWritten ==
  /\ pc = "write" /\ ~Regular(item)
  /\ PutBack
  /\ pc' = "pop"
  /\ UNCHANGED <<now, item, retryTime, wake, tries, ctxDone>>

\* There is no retry here: the loop returns.
SummaryWriteFails ==
  /\ pc = "write" /\ ~Regular(item)
  /\ Stop
  /\ UNCHANGED <<now, due, queue, item, retryTime, wake, tries, ctxDone, count>>

------------------------------------------------------------------------------
(* Time and cancellation.                                                  *)

\* Mutant: the wait after a failed fetch is a plain sleep.
CancelledUnlessBackoff ==
  /\ pc \in {"wait", "writewait"} /\ ctxDone
  /\ Stop
  /\ UNCHANGED <<now, due, queue, item, retryTime, wake, tries, ctxDone, count>>

\* Every wait of the loop also waits for the context.
Cancelled ==
  /\ pc \in {"wait", "backoff", "writewait"} /\ ctxDone
  /\ Stop
  /\ UNCHANGED <<now, due, queue, item, retryTime, wake, tries, ctxDone, count>>

Cancel ==
  /\ ~ctxDone
  /\ ctxDone' = TRUE
  /\ UNCHANGED <<now, due, queue, item, pc, retryTime, wake, tries, count>>

\* Waits, requests and writes take time.
Tick ==
  /\ pc \notin {"pop", "stopped"} /\ now < MaxTime
  /\ now' = now + 1
  /\ UNCHANGED <<due, queue, item, pc, retryTime, wake, tries, ctxDone, count>>

Terminated == pc = "stopped" /\ UNCHANGED vars

LoopStep ==
  \/ \E i \in Item : Pop(i)
  \/ WaitOver
  \/ FetchFails \/ BackoffOver \/ Fetched
  \/ DecodeFails \/ Written \/ WriteFails \/ WriteWaitOver
  \/ SummaryFetched \/ SummaryFetchFails \/ SummaryWritten \/ SummaryWriteFails
  \/ Cancelled

Next == LoopStep \/ Cancel \/ Tick \/ Terminated

\* The goroutine goes on whenever it can; its requests and writes return, with
\* a result or with an error.
Fairness == WF_vars(LoopStep)

Spec == Init /\ [][Next]_vars

FairSpec == Spec /\ Fairness

------------------------------------------------------------------------------
(* Properties.                                                             *)

\* The item has been taken and not been put back yet.
InHand ==
  \/ pc \in {"wait", "fetch", "backoff"}
  \/ pc = "write" /\ ~Regular(item)

\* The item that is being served is out of the queue, and nothing else ever
\* is: no error path loses an item, none puts one back twice.
NothingDropped ==
  pc # "stopped" => queue = IF InHand THEN Item \ {item} ELSE Item

\* However long the cluster or the backend stalled the loop, no item gets ahead
\* of another by more than its own interval: none starves.
NoneAhead ==
  \A i, j \in Item : due[i] <= due[j] + Interval[i]

\* When the loop has nothing to do but wait, it has been through every item once
\* for every period that has begun; and it never serves an item early.
EveryPeriodOnce ==
  \A i \in Item :
    /\ pc = "wait" /\ now < due[item] => now < count[i] * Interval[i]
    /\ count[i] > 0 => (count[i] - 1) * Interval[i] <= now

\* Once it is cancelled the loop returns, whatever it is doing and however far
\* it is behind its schedule, and without waiting for a timer.
StopsWhenCancelled == ctxDone ~> pc = "stopped"

==============================================================================
