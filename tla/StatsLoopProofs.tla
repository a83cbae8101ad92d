--------------------------- MODULE StatsLoopProofs ----------------------------
(***************************************************************************)
(* Proofs about StatsLoop, for every set of items and intervals, every     *)
(* retry setting and however long the loop runs (MaxTime is any number).   *)
(***************************************************************************)
EXTENDS StatsLoop, TLAPS

------------------------------------------------------------------------------
(* Types.                                                                  *)

\* The loop is type-correct: in particular regular stats are written at most
\* ProcessorMaxRetries times.
THEOREM LoopTypeCorrect == Spec => []TypeOK
<1> USE LoopAssumption DEF LoopAssumption
<1>1. Init => TypeOK
  <2> SUFFICES ASSUME Init PROVE TypeOK
    OBVIOUS
  <2>1. now \in 0 .. MaxTime /\ tries \in 0 .. ProcessorMaxRetries
    BY DEF Init
  <2>2. due \in [Item -> Nat] /\ count \in [Item -> Nat] /\ queue \in SUBSET Item
    BY DEF Init
  <2>3. pc \in Steps /\ retryTime \in Nat /\ wake \in Nat /\ item \in Item
    BY DEF Init, Steps
  <2>4. ctxDone = FALSE
    BY DEF Init
  <2>5. QED
    BY <2>1, <2>2, <2>3, <2>4 DEF TypeOK
<1>2. TypeOK /\ [Next]_vars => TypeOK'
  <2> SUFFICES ASSUME TypeOK, [Next]_vars PROVE TypeOK'
    OBVIOUS
  <2> USE DEF TypeOK, Steps
  <2>1. ASSUME PutBack
        PROVE  due' \in [Item -> Nat] /\ queue' \in SUBSET Item /\ count' \in [Item -> Nat]
    BY <2>1 DEF PutBack
  <2>2. Doubled(retryTime) \in Nat /\ now + retryTime \in Nat
    BY DEF Doubled
  <2>3. ASSUME NEW i \in Item, Pop(i)
        PROVE  TypeOK'
    BY <2>3 DEF Pop
  <2>4. CASE WaitOver \/ BackoffOver \/ Written \/ Cancelled \/ DecodeFails
    BY <2>4 DEF WaitOver, BackoffOver, Written, Cancelled, DecodeFails, Stop
  <2>5. CASE FetchFails \/ WriteFails
    BY <2>2, <2>5 DEF FetchFails, WriteFails
  <2>6. CASE Fetched
    <3>1. 1 \in 0 .. ProcessorMaxRetries
      OBVIOUS
    <3>2. QED
      BY <2>1, <2>6, <3>1 DEF Fetched
  <2>7. CASE WriteWaitOver
    BY <2>7 DEF WriteWaitOver, Stop
  <2>8. CASE SummaryFetched \/ SummaryWriteFails
    BY <2>8 DEF SummaryFetched, SummaryWriteFails, Stop
  <2>9. CASE SummaryFetchFails \/ SummaryWritten
    BY <2>1, <2>9 DEF SummaryFetchFails, SummaryWritten
  <2>10. CASE Cancel \/ Tick \/ UNCHANGED vars
    <3>1. CASE Cancel
      BY <3>1 DEF Cancel
    <3>2. CASE Tick
      BY <3>2 DEF Tick
    <3>3. CASE UNCHANGED vars
      BY <3>3 DEF vars
    <3>4. QED
      BY <2>10, <3>1, <3>2, <3>3
  <2>11. QED
    BY <2>3, <2>4, <2>5, <2>6, <2>7, <2>8, <2>9, <2>10 DEF Next, LoopStep, Terminated
<1>3. QED
  BY <1>1, <1>2, PTL DEF Spec

------------------------------------------------------------------------------
(* The schedule.                                                           *)

\* What makes the schedule fair is that the item in hand was due first.  The
\* others are not touched meanwhile, so it still is when it is put back.
HandFirst == InHand => \A j \in Item : due[item] <= due[j]

\* Only regular stats are written again.
WaitsForRegular == pc = "writewait" => Regular(item)

ScheduleInv == NothingDropped /\ NoneAhead /\ HandFirst /\ WaitsForRegular

\* Putting back the item that was due first puts it at most an interval ahead.
LEMMA PutBackFair ==
  ASSUME TypeOK, ScheduleInv, InHand, pc # "stopped", PutBack
  PROVE  NoneAhead' /\ queue' = Item
<1>1. \A i \in Item : Interval[i] \in Nat /\ due[i] \in Nat
  BY LoopAssumption DEF LoopAssumption, TypeOK
<1>2. \A i \in Item : due'[i] = IF i = item THEN due[i] + Interval[i] ELSE due[i]
  BY DEF PutBack, TypeOK
<1>3. ASSUME NEW i \in Item, NEW j \in Item
      PROVE  due'[i] <= due'[j] + Interval[i]
  <2>1. due[i] <= due[j] + Interval[i] /\ due[item] <= due[j] /\ item \in Item
    BY DEF ScheduleInv, NoneAhead, HandFirst, TypeOK
  <2>2. CASE i = item
    BY <1>1, <1>2, <2>1, <2>2
  <2>3. CASE i # item
    BY <1>1, <1>2, <2>1, <2>3
  <2>4. QED
    BY <2>2, <2>3
<1>4. queue' = Item
  BY DEF PutBack, ScheduleInv, NothingDropped, TypeOK
<1>5. QED
  BY <1>3, <1>4 DEF NoneAhead

\* No step loses an item or lets one get ahead.
LEMMA ScheduleStep ==
  ASSUME TypeOK, ScheduleInv, [Next]_vars
  PROVE  ScheduleInv'
<1> USE DEF InHand, Regular, WaitsForRegular
<1>1. ASSUME NEW i \in Item, Pop(i)
      PROVE  ScheduleInv'
  <2>1. queue = Item /\ due' = due /\ queue' = Item \ {i} /\ item' = i
    BY <1>1 DEF Pop, ScheduleInv, NothingDropped
  <2>2. \A j \in Item : due[i] <= due[j]
    BY <1>1, <2>1 DEF Pop, Earliest
  <2>3. pc' \in {"wait", "fetch"}
    BY <1>1 DEF Pop
  <2>4. QED
    BY <2>1, <2>2, <2>3 DEF ScheduleInv, NothingDropped, NoneAhead, HandFirst
<1>2. CASE Fetched
  <2>1. pc = "fetch" /\ pc' = "write" /\ item' = item /\ Regular(item) /\ PutBack
    BY <1>2 DEF Fetched
  <2>2. NoneAhead' /\ queue' = Item
    BY <2>1, PutBackFair
  <2>3. QED
    BY <2>1, <2>2 DEF ScheduleInv, NothingDropped, HandFirst
<1>3. CASE SummaryFetchFails \/ SummaryWritten
  <2>1. InHand /\ pc # "stopped" /\ pc' = "pop" /\ PutBack
    BY <1>3 DEF SummaryFetchFails, SummaryWritten
  <2>2. NoneAhead' /\ queue' = Item
    BY <2>1, PutBackFair
  <2>3. QED
    BY <2>1, <2>2 DEF ScheduleInv, NothingDropped, HandFirst
<1>4. CASE WaitOver \/ BackoffOver \/ FetchFails \/ SummaryFetched
  BY <1>4 DEF WaitOver, BackoffOver, FetchFails, SummaryFetched,
              ScheduleInv, NothingDropped, NoneAhead, HandFirst
<1>5. CASE Written \/ WriteFails \/ WriteWaitOver
  BY <1>5 DEF Written, WriteFails, WriteWaitOver, Stop,
              ScheduleInv, NothingDropped, NoneAhead, HandFirst
<1>6. CASE DecodeFails \/ SummaryWriteFails \/ Cancelled
  BY <1>6 DEF DecodeFails, SummaryWriteFails, Cancelled, Stop,
              ScheduleInv, NothingDropped, NoneAhead, HandFirst
<1>7. CASE Cancel \/ Tick \/ UNCHANGED vars
  BY <1>7 DEF Cancel, Tick, vars, ScheduleInv, NothingDropped, NoneAhead, HandFirst
<1>8. QED
  BY <1>1, <1>2, <1>3, <1>4, <1>5, <1>6, <1>7 DEF Next, LoopStep, Terminated

\* The schedule of the loop, whatever fails and for however long.
THEOREM ScheduleHolds == Spec => []ScheduleInv
<1>1. Init => ScheduleInv
  <2>1. \A i \in Item : Interval[i] \in Nat
    BY LoopAssumption DEF LoopAssumption
  <2>2. QED
    BY <2>1 DEF Init, ScheduleInv, NothingDropped, NoneAhead, HandFirst, InHand, WaitsForRegular
<1>2. QED
  BY <1>1, ScheduleStep, LoopTypeCorrect, PTL DEF Spec

\* No item is lost from the queue, on any path through the loop.
THEOREM NothingIsDropped == Spec => []NothingDropped
BY ScheduleHolds, PTL DEF ScheduleInv

\* No item starves: none is ever more than its interval ahead of another.
THEOREM NoneGetsAhead == Spec => []NoneAhead
BY ScheduleHolds, PTL DEF ScheduleInv

------------------------------------------------------------------------------
(* Every period once.                                                      *)

\* The loop keeps to the grid of periods, and does not serve before time.
GridInv ==
  /\ \A i \in Item : due[i] = count[i] * Interval[i]
  /\ \A i \in Item : count[i] > 0 => due[i] <= now + Interval[i]
  /\ InHand /\ pc # "wait" => due[item] <= now

\* A step keeps to the grid.
LEMMA GridStep ==
  ASSUME TypeOK, ScheduleInv, GridInv, [Next]_vars
  PROVE  GridInv'
<1>. /\ \A i \in Item : Interval[i] \in Nat /\ due[i] \in Nat /\ count[i] \in Nat
     /\ now \in Nat /\ item \in Item
  BY LoopAssumption DEF LoopAssumption, TypeOK
<1> USE DEF InHand, Regular
<1>1. ASSUME PutBack, InHand, pc # "wait", now' = now
      PROVE  /\ \A i \in Item : due'[i] = count'[i] * Interval[i]
             /\ \A i \in Item : count'[i] > 0 => due'[i] <= now' + Interval[i]
  <2>1. due[item] <= now
    BY <1>1 DEF GridInv
  <2>2. /\ due'[item] = due[item] + Interval[item]
        /\ count'[item] = count[item] + 1
        /\ \A i \in Item \ {item} : due'[i] = due[i] /\ count'[i] = count[i]
    BY <1>1 DEF PutBack, TypeOK
  <2>3. ASSUME NEW c \in Nat, NEW n \in Nat PROVE c * n + n = (c + 1) * n
    BY <2>3
  <2>4. due'[item] = count'[item] * Interval[item]
    BY <2>2, <2>3 DEF GridInv
  <2>5. ASSUME NEW i \in Item
        PROVE  /\ due'[i] = count'[i] * Interval[i]
               /\ count'[i] > 0 => due'[i] <= now' + Interval[i]
    <3>1. CASE i = item
      BY <1>1, <2>1, <2>2, <2>4, <3>1
    <3>2. CASE i # item
      <4>1. due'[i] = due[i] /\ count'[i] = count[i]
        BY <2>2, <3>2
      <4>2. QED
        BY <1>1, <4>1 DEF GridInv
    <3>3. QED
      BY <3>1, <3>2
  <2>6. QED
    BY <2>5
<1>2. ASSUME NEW i \in Item, Pop(i)
      PROVE  GridInv'
  BY <1>2 DEF Pop, GridInv
<1>3. CASE Fetched \/ SummaryFetchFails \/ SummaryWritten
  <2>1. PutBack /\ InHand /\ pc # "wait" /\ now' = now /\ ~InHand'
    BY <1>3 DEF Fetched, SummaryFetchFails, SummaryWritten
  <2>2. QED
    BY <1>1, <2>1 DEF GridInv
<1>4. CASE WaitOver \/ BackoffOver \/ FetchFails \/ SummaryFetched
  BY <1>4 DEF WaitOver, BackoffOver, FetchFails, SummaryFetched, GridInv
<1>5. CASE Written \/ WriteFails \/ WriteWaitOver
  <2>1. now' = now /\ due' = due /\ count' = count /\ ~InHand'
    BY <1>5 DEF Written, WriteFails, WriteWaitOver, Stop, ScheduleInv, WaitsForRegular
  <2>2. QED
    BY <2>1 DEF GridInv
<1>6. CASE DecodeFails \/ SummaryWriteFails \/ Cancelled
  BY <1>6 DEF DecodeFails, SummaryWriteFails, Cancelled, Stop, GridInv
<1>7. CASE Tick
  BY <1>7 DEF Tick, GridInv
<1>8. CASE Cancel \/ UNCHANGED vars
  BY <1>8 DEF Cancel, vars, GridInv
<1>9. QED
  BY <1>2, <1>3, <1>4, <1>5, <1>6, <1>7, <1>8 DEF Next, LoopStep, Terminated

\* After any stall the loop makes up for every period it has missed, and it
\* never collects before an item is due.
THEOREM EveryPeriodIsServedOnce == Spec => []EveryPeriodOnce
<1>. \A i \in Item : Interval[i] \in Nat
  BY LoopAssumption DEF LoopAssumption
<1>1. Init => GridInv
  BY DEF Init, GridInv, InHand
<1>2. TypeOK /\ ScheduleInv /\ GridInv => EveryPeriodOnce
  <2> SUFFICES ASSUME TypeOK, ScheduleInv, GridInv, NEW i \in Item
               PROVE  /\ pc = "wait" /\ now < due[item] => now < count[i] * Interval[i]
                      /\ count[i] > 0 => (count[i] - 1) * Interval[i] <= now
    BY DEF EveryPeriodOnce
  <2>. due[i] \in Nat /\ due[item] \in Nat /\ count[i] \in Nat /\ now \in Nat
    BY DEF TypeOK
  <2>1. pc = "wait" => due[item] <= due[i]
    BY DEF ScheduleInv, HandFirst, InHand
  <2>2. ASSUME NEW c \in Nat, NEW n \in Nat PROVE (c - 1) * n = c * n - n
    BY <2>2
  <2>3. (count[i] - 1) * Interval[i] = due[i] - Interval[i]
    BY <2>2 DEF GridInv
  <2>4. QED
    BY <2>1, <2>3 DEF GridInv
<1>3. QED
  BY <1>1, <1>2, GridStep, LoopTypeCorrect, ScheduleHolds, PTL DEF Spec

==============================================================================
