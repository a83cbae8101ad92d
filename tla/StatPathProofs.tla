---------------------------- MODULE StatPathProofs ----------------------------
(***************************************************************************)
(* Theorems about StatPath and the Buckets it starts from, for any stats,  *)
(* groups, configurations, metadata and values.                            *)
(*                                                                         *)
(* The last of them is about decoding.  Its proof follows the recursion of *)
(* decodeValue: what decoding and the leaves of a value are at each depth  *)
(* (Decodes, LeafDepths), what the loop over the parts has after some of   *)
(* them (LoopDone), what is made of it after all of them (NestedMatches),  *)
(* and with that, by induction over the depth, that the outcomes for every *)
(* value are those of its leaves (DepthsMatch, StatMatches).               *)
(***************************************************************************)
EXTENDS StatPath, FiniteSetTheorems, WellFoundedInduction, TLAPS

------------------------------------------------------------------------------
(* The buckets.                                                            *)

bvars == <<pc, bucketVars>>

\* No stat is in two active groups: parseStatConfig saw to it.
GroupsDisjoint ==
  \A g, h \in Active : g # h => StatsOf[g] \cap StatsOf[h] = {}

\* An absolute time is no shorter than the minimum.
AbsoluteClamped ==
  \A g \in Active : IsAbsolute(g) => sg[g].absTime >= 2 * conf.min

\* The buckets are what calcBuckets makes of metadata that is complete.
Complete ==
  /\ buckets = CalcBuckets
  /\ ~ZeroInterval
  /\ \A st \in Listed : details[st] # Missing

\* There are no buckets yet, or they are complete.
Made ==
  /\ pc \in {"parse", "details"} => buckets = {}
  /\ pc \in {"loop", "idle", "write"} => Complete
  /\ buckets = {} \/ Complete

ScheduleInv ==
  /\ BucketsTypeOK
  /\ GroupsDisjoint
  /\ AbsoluteClamped
  /\ Made

\* What the division by the halves and quarters of a second leaves.
LEMMA Truncation ==
  \A n \in Nat : /\ n \div 2 \in Nat /\ 2 * (n \div 2) <= n /\ n < 2 * (n \div 2) + 2
                 /\ n \div 4 \in Nat /\ 4 * (n \div 4) <= n /\ n < 4 * (n \div 4) + 4
OBVIOUS

\* Only one half of a second is cut off to none.
LEMMA HalfIsZero == \A n \in Nat : n # 0 /\ n \div 2 = 0 => n = 1
  <1> SUFFICES ASSUME NEW n \in Nat, n # 0, n \div 2 = 0 PROVE n = 1
    OBVIOUS
  <1>1. n < 2 * (n \div 2) + 2
    BY Truncation
  <1> QED BY <1>1

\* Products stay natural.
LEMMA ProductInNat == ASSUME NEW m \in Nat, NEW n \in Nat PROVE m * n \in Nat
OBVIOUS

\* The interval of a stat in an active group: its type and its bounds.
LEMMA IntervalBounds ==
  ASSUME BucketsTypeOK, AbsoluteClamped, BucketsAssumption,
         NEW g \in Active, NEW st \in Stat,
         IsAbsolute(g) \/ details[st] # Missing
  PROVE  /\ CollectIntvl(g, st) \in Nat
         /\ CollectIntvl(g, st) >= conf.min
         /\ ~IsAbsolute(g) =>
              /\ 4 * CollectIntvl(g, st)
                   <= AtLeast(sg[g].multiplier * details[st].updateIntvl, 4 * conf.min)
              /\ sg[g].multiplier * details[st].updateIntvl < 4 * (CollectIntvl(g, st) + 1)
<1>1. /\ conf.min \in Nat /\ sg[g] \in Refresh
      /\ sg[g].absTime \in Nat /\ sg[g].multiplier \in Nat
  BY DEF BucketsTypeOK, Conf, Active, Refresh, Halves
<1>2. CASE IsAbsolute(g)
  <2>1. sg[g].absTime >= 2 * conf.min
    BY <1>2 DEF AbsoluteClamped
  <2>2. CollectIntvl(g, st) = sg[g].absTime \div 2
    BY <1>2 DEF CollectIntvl
  <2> QED BY <1>1, <1>2, <2>1, <2>2, Truncation
<1>3. CASE ~IsAbsolute(g)
  <2>1. details[st].updateIntvl \in Nat
    BY <1>3 DEF BucketsTypeOK, Detail, Halves
  <2> DEFINE product == sg[g].multiplier * details[st].updateIntvl
  <2>2. product \in Nat
    BY <1>1, <2>1, ProductInNat
  <2> HIDE DEF product
  <2>3. AtLeast(product, 4 * conf.min) \in Nat
        /\ AtLeast(product, 4 * conf.min) >= 4 * conf.min
        /\ AtLeast(product, 4 * conf.min) >= product
    BY <1>1, <2>2 DEF AtLeast
  <2>4. CASE details[st].updateIntvl = 0
    <3>1. product = 0
      BY <1>1, <2>4 DEF product
    <3>2. CollectIntvl(g, st) = conf.min
      BY <1>3, <2>4 DEF CollectIntvl
    <3>3. 4 * conf.min <= AtLeast(product, 4 * conf.min) /\ product < 4 * (conf.min + 1)
      BY <1>1, <2>3, <3>1
    <3> QED BY <1>1, <1>3, <3>2, <3>3 DEF product
  <2>5. CASE details[st].updateIntvl # 0
    <3>1. CollectIntvl(g, st) = AtLeast(product, 4 * conf.min) \div 4
      BY <1>3, <2>5 DEF CollectIntvl, product
    <3> DEFINE x == AtLeast(product, 4 * conf.min)
    <3>2. x \div 4 \in Nat /\ 4 * (x \div 4) <= x /\ x < 4 * (x \div 4) + 4
      BY <2>3, Truncation
    <3> HIDE DEF x
    <3>3. x \div 4 >= conf.min /\ product < 4 * (x \div 4 + 1)
      BY <1>1, <2>2, <2>3, <3>2 DEF x
    <3> QED BY <1>3, <3>1, <3>2, <3>3 DEF x, product
  <2> QED BY <2>4, <2>5
<1> QED BY <1>2, <1>3

\* What is collected has metadata, or does not need it.
LEMMA CollectedIsKnown ==
  ASSUME BucketsTypeOK, BucketsAssumption, \A st \in Listed : details[st] # Missing,
         NEW g \in Active, NEW st \in Stat, IsAbsolute(g) \/ st \in Collected(g)
  PROVE  IsAbsolute(g) \/ (st \in StatsOf[g] /\ details[st] # Missing)
BY DEF Collected, Listed, Active, BucketsAssumption

\* A bucket has the key of some stat of an active group, and collects the
\* stats with that key.
LEMMA BucketHasKey ==
  ASSUME BucketsAssumption, NEW b \in CalcBuckets
  PROVE  \E g \in Active, st \in Stat :
           /\ IsAbsolute(g) \/ st \in Collected(g)
           /\ b = BucketOf(Key(g, st))
BY DEF CalcBuckets

\* Each bucket is typed and its interval is that of the stat it was made for.
LEMMA CalcBucketsType ==
  ASSUME BucketsTypeOK, AbsoluteClamped, BucketsAssumption,
         \A st \in Listed : details[st] # Missing
  PROVE  CalcBuckets \in SUBSET Bucket
<1> SUFFICES ASSUME NEW b \in CalcBuckets PROVE b \in Bucket
  OBVIOUS
<1>1. PICK g \in Active, st \in Stat :
        (IsAbsolute(g) \/ st \in Collected(g)) /\ b = BucketOf(Key(g, st))
  BY BucketHasKey
<1>2. CollectIntvl(g, st) \in Nat
  BY <1>1, CollectedIsKnown, IntervalBounds
<1>3. Key(g, st).interval \in Nat /\ Key(g, st).group \in Group \cup {NoGroup}
  BY <1>2 DEF Key, Active
<1> QED BY <1>1, <1>3 DEF BucketOf, Bucket

------------------------------------------------------------------------------
(* The invariant.                                                          *)

LEMMA InitHolds == ASSUME BucketsAssumption, BucketsInit PROVE ScheduleInv
<1>1. BucketsTypeOK
  BY DEF BucketsInit, BucketsTypeOK, BucketsAssumption
<1>2. Active = {}
  BY DEF BucketsInit, Active
<1> QED BY <1>1, <1>2 DEF ScheduleInv, GroupsDisjoint, AbsoluteClamped, Made, BucketsInit

\* The active groups are those that are named, each with its interval.
LEMMA ParseHolds ==
  ASSUME BucketsAssumption, ScheduleInv, ParseStatConfig PROVE ScheduleInv'
<1> USE DEF ParseStatConfig
<1>1. CASE StatTwice
  BY <1>1 DEF ScheduleInv, BucketsTypeOK, GroupsDisjoint, AbsoluteClamped, Made,
              Active, IsAbsolute
<1>2. CASE ~StatTwice
  <2>1. Active' \subseteq Named
    BY <1>2 DEF Active
  <2>2. \A i \in Interval, min \in Nat :
          /\ ParseUpdateIntvl(i, min) \in Refresh
          /\ ParseUpdateIntvl(i, min).absTime # 0 => ParseUpdateIntvl(i, min).absTime >= 2 * min
    BY DEF Interval, ParseUpdateIntvl, Refresh, Halves, AtLeast
  <2>3. conf \in Conf /\ conf.min \in Nat /\ \A g \in Group : conf.intvl[g] \in Interval
    BY DEF ScheduleInv, BucketsTypeOK, Conf
  <2>4. \A g \in Active' : sg'[g] = ParseUpdateIntvl(conf.intvl[g], conf.min)
    BY <1>2, <2>1 DEF Active, Named
  <2>5. sg' \in [Group -> Refresh \cup {Missing}]
    BY <1>2, <2>2, <2>3
  <2>6. BucketsTypeOK'
    BY <2>5 DEF ScheduleInv, BucketsTypeOK
  <2>7. GroupsDisjoint'
    BY <1>2, <2>1 DEF GroupsDisjoint, StatTwice
  <2>8. AbsoluteClamped'
    BY <2>2, <2>3, <2>4 DEF AbsoluteClamped, IsAbsolute, Active
  <2>9. pc' = "details" /\ Made'
    BY <1>2 DEF ScheduleInv, Made
  <2> QED BY <2>6, <2>7, <2>8, <2>9 DEF ScheduleInv
<1> QED BY <1>1, <1>2

LEMMA SetDetailHolds ==
  ASSUME BucketsAssumption, ScheduleInv,
         NEW st \in Stat, NEW d \in Detail, SetDetail(st, d)
  PROVE  ScheduleInv'
<1>1. BucketsTypeOK'
  BY DEF ScheduleInv, BucketsTypeOK, SetDetail
<1>2. GroupsDisjoint' /\ AbsoluteClamped'
  BY DEF ScheduleInv, GroupsDisjoint, AbsoluteClamped, SetDetail, Active, IsAbsolute
<1>3. Made'
  BY DEF ScheduleInv, Made, SetDetail
<1> QED BY <1>1, <1>2, <1>3 DEF ScheduleInv, SetDetail

LEMMA MakeBucketsHolds ==
  ASSUME BucketsAssumption, ScheduleInv, MakeBuckets PROVE ScheduleInv'
<1>1. /\ pc = "details" /\ UNCHANGED <<conf, sg, details>>
      /\ \A st \in Listed : details[st] # Missing
  BY DEF MakeBuckets
<1>2. GroupsDisjoint' /\ AbsoluteClamped'
  BY <1>1 DEF ScheduleInv, GroupsDisjoint, AbsoluteClamped, Active, IsAbsolute
<1>3. CASE ZeroInterval
  BY <1>1, <1>2, <1>3 DEF MakeBuckets, ScheduleInv, BucketsTypeOK, Made
<1>4. CASE ~ZeroInterval
  <2>1. buckets' = CalcBuckets /\ pc' \in {"loop", "idle"}
    BY <1>4 DEF MakeBuckets
  <2>2. BucketsTypeOK'
    BY <1>1, <2>1, CalcBucketsType DEF ScheduleInv, BucketsTypeOK
  <2>3. CalcBuckets' = CalcBuckets /\ ZeroInterval' = ZeroInterval /\ Listed' = Listed
    BY <1>1 DEF CalcBuckets, ZeroInterval, Listed, BucketOf, Key, CollectIntvl, Collected,
                IsAbsolute, Active
  <2>4. Complete'
    BY <1>1, <1>4, <2>1, <2>3 DEF Complete
  <2>5. Made'
    BY <2>1, <2>4 DEF Made
  <2> QED BY <1>2, <2>1, <2>2, <2>5 DEF ScheduleInv
<1> QED BY <1>3, <1>4

\* What does not touch the buckets keeps them, before and after they are made.
LEMMA ScheduleKept ==
  ASSUME ScheduleInv, UNCHANGED bucketVars,
         \/ pc' = pc
         \/ pc \in {"loop", "write"} /\ pc' \in {"loop", "write"}
         \/ pc' \in {"stopped", "exited", "panicked"}
  PROVE  ScheduleInv'
<1>1. UNCHANGED <<conf, sg, details, buckets>>
  BY DEF bucketVars
<1>2. BucketsTypeOK'
  BY <1>1 DEF ScheduleInv, BucketsTypeOK
<1>3. GroupsDisjoint' /\ AbsoluteClamped'
  BY <1>1 DEF ScheduleInv, GroupsDisjoint, AbsoluteClamped, Active, IsAbsolute
<1>4. Complete' = Complete
  <2>1. CalcBuckets' = CalcBuckets /\ ZeroInterval' = ZeroInterval /\ Listed' = Listed
    BY <1>1 DEF CalcBuckets, ZeroInterval, Listed, BucketOf, Key, CollectIntvl, Collected,
                IsAbsolute, Active
  <2> QED BY <1>1, <2>1 DEF Complete
<1>5. Made'
  BY <1>1, <1>4 DEF ScheduleInv, Made
<1> QED BY <1>2, <1>3, <1>5 DEF ScheduleInv

LEMMA ScheduleStep ==
  ASSUME BucketsAssumption, ScheduleInv, BucketsNext PROVE ScheduleInv'
<1>1. CASE ParseStatConfig
  BY <1>1, ParseHolds
<1>2. ASSUME NEW st \in Listed, NEW d \in Detail, SetDetail(st, d) PROVE ScheduleInv'
  <2>1. st \in Stat
    BY DEF Listed, Active, BucketsAssumption
  <2> QED BY <1>2, <2>1, SetDetailHolds
<1>3. CASE FetchStatDetail
  <2>1. \A a \in Answers : [valid |-> TRUE, updateIntvl |-> CurrentIntvl(a)] \in Detail
    BY DEF BucketsAssumption, Detail
  <2> QED BY <1>2, <1>3, <2>1 DEF FetchStatDetail
<1>4. CASE FetchDetailFails
  <2>1. [valid |-> FALSE, updateIntvl |-> 0] \in Detail
    BY DEF Detail, Halves
  <2> QED BY <1>2, <1>4, <2>1 DEF FetchDetailFails
<1>5. CASE MakeBuckets
  BY <1>5, MakeBucketsHolds
<1> QED BY <1>1, <1>3, <1>4, <1>5 DEF BucketsNext

\* The buckets are made of a configuration without a stat in two groups and of
\* metadata that is complete, or not at all.
THEOREM ScheduleInvariant == BucketsSpec => []ScheduleInv
<1>1. BucketsInit => ScheduleInv
  BY InitHolds, BucketsAssumption
<1>2. ScheduleInv /\ [BucketsNext]_bvars => ScheduleInv'
  BY ScheduleStep, ScheduleKept, BucketsAssumption DEF bvars
<1> QED BY <1>1, <1>2, PTL DEF BucketsSpec, bvars

------------------------------------------------------------------------------
(* The properties.                                                         *)

\* What the buckets are made of: a configuration, intervals, metadata and
\* buckets of the right types, whatever the cluster answers.
THEOREM BucketsTypeCorrect == BucketsSpec => []BucketsTypeOK
<1>1. ScheduleInv => BucketsTypeOK
  BY DEF ScheduleInv
<1> QED BY <1>1, ScheduleInvariant, PTL

\* A stat is collected with one group only: the keys that put it in a bucket are
\* one key.
LEMMA OneKey ==
  ASSUME BucketsAssumption, GroupsDisjoint,
         NEW g \in Active, NEW h \in Active, NEW st \in Stat,
         st \in Collected(g), st \in Collected(h)
  PROVE  g = h
BY DEF GroupsDisjoint, Collected

\* A stat is in a bucket if and only if it is collected with a group of that key.
LEMMA StatInBucket ==
  ASSUME NEW st \in Stat
  PROVE  (\E b \in CalcBuckets : st \in b.stats) <=> (\E g \in Active : st \in Collected(g))
<1>1. ASSUME NEW b \in CalcBuckets, st \in b.stats
      PROVE  \E g \in Active : st \in Collected(g)
  BY <1>1 DEF CalcBuckets, BucketOf
<1>2. ASSUME NEW g \in Active, st \in Collected(g)
      PROVE  \E b \in CalcBuckets : st \in b.stats
  <2>1. BucketOf(Key(g, st)) \in CalcBuckets
    <3> <<g, st>> \in Active \X Stat
      BY <1>2
    <3> QED BY <1>2 DEF CalcBuckets
  <2>2. st \in BucketOf(Key(g, st)).stats
    BY <1>2 DEF BucketOf
  <2> QED BY <2>1, <2>2
<1> QED BY <1>1, <1>2

\* A stat is in the bucket of the one key under which its one group collects it.
LEMMA EachStatOnceHolds == ASSUME BucketsAssumption, ScheduleInv PROVE EachStatOnce
<1> SUFFICES ASSUME pc \in {"loop", "idle"} PROVE EachStatOnce
  BY DEF EachStatOnce
<1>1. GroupsDisjoint /\ buckets = CalcBuckets
  BY DEF ScheduleInv, Made, Complete
<1>2. ASSUME NEW st \in Stat
      PROVE  (\E b \in buckets : st \in b.stats) <=>
               (\E g \in Active : st \in StatsOf[g] /\ (IsAbsolute(g) \/ details[st].valid))
  <2>1. \A g \in Active :
          st \in Collected(g) <=> st \in StatsOf[g] /\ (IsAbsolute(g) \/ details[st].valid)
    BY DEF Collected
  <2> QED BY <1>1, <2>1, StatInBucket
<1>3. ASSUME NEW b \in buckets, NEW c \in buckets, b # c
      PROVE  b.stats \cap c.stats = {} /\ (conf.byGroup \/ b.interval # c.interval)
  <2>1. PICK g \in Active, s \in Stat : b = BucketOf(Key(g, s))
    BY <1>1, BucketHasKey
  <2>2. PICK h \in Active, t \in Stat : c = BucketOf(Key(h, t))
    BY <1>1, BucketHasKey
  <2>3. ASSUME NEW st \in b.stats \cap c.stats PROVE FALSE
    <3>1. st \in Stat
      BY <2>1, <2>3 DEF BucketOf
    <3>2. PICK k \in Active : st \in Collected(k) /\ Key(k, st) = Key(g, s)
      BY <2>1, <2>3 DEF BucketOf
    <3>3. PICK l \in Active : st \in Collected(l) /\ Key(l, st) = Key(h, t)
      BY <2>2, <2>3 DEF BucketOf
    <3>4. k = l
      BY <1>1, <3>1, <3>2, <3>3, OneKey
    <3> QED BY <1>3, <2>1, <2>2, <3>2, <3>3, <3>4
  <2>4. ASSUME ~conf.byGroup, b.interval = c.interval PROVE FALSE
    <3>1. Key(g, s) = [interval |-> CollectIntvl(g, s), group |-> NoGroup]
          /\ Key(h, t) = [interval |-> CollectIntvl(h, t), group |-> NoGroup]
      BY <2>4 DEF Key
    <3>2. b.interval = CollectIntvl(g, s) /\ c.interval = CollectIntvl(h, t)
      BY <2>1, <2>2, <3>1 DEF BucketOf
    <3> QED BY <1>3, <2>1, <2>2, <2>4, <3>1, <3>2
  <2> QED BY <2>3, <2>4
<1>4. ASSUME conf.byGroup, NEW b \in buckets
      PROVE  \E g \in Active : b.stats \subseteq StatsOf[g]
  <2>1. PICK g \in Active, s \in Stat : b = BucketOf(Key(g, s))
    BY <1>1, BucketHasKey
  <2>2. ASSUME NEW st \in b.stats PROVE st \in StatsOf[g]
    <3>1. PICK k \in Active : st \in Collected(k) /\ Key(k, st) = Key(g, s)
      BY <2>1, <2>2 DEF BucketOf
    <3>2. k = g
      BY <1>4, <3>1 DEF Key
    <3> QED BY <3>1, <3>2 DEF Collected
  <2> QED BY <2>2
<1> QED BY <1>2, <1>3, <1>4 DEF EachStatOnce

\* Each stat whose metadata arrived, or whose group has an absolute time, is in
\* exactly one bucket, and no other stat is in any: parseStatConfig refuses a
\* stat that is in two groups, and calcBuckets adds to a bucket what other groups
\* put under the same key.
THEOREM EachStatIsOnce == BucketsSpec => []EachStatOnce
<1>1. ScheduleInv => EachStatOnce
  BY EachStatOnceHolds, BucketsAssumption
<1> QED BY <1>1, ScheduleInvariant, PTL

\* The interval of a bucket is that of the stat it was made for, and of each stat
\* that was put under the same key.
LEMMA NeverTooOftenHolds == ASSUME BucketsAssumption, ScheduleInv PROVE NeverTooOften
<1> SUFFICES ASSUME NEW b \in buckets
             PROVE  /\ b.interval >= conf.min
                    /\ b.interval = 0 => \E g \in Active : sg[g].absTime = 1
                    /\ \A st \in b.stats, g \in Active :
                         st \in StatsOf[g] /\ ~IsAbsolute(g) =>
                           LET product == sg[g].multiplier * details[st].updateIntvl
                           IN  /\ 4 * (b.interval + 1) > product
                               /\ 4 * b.interval <= AtLeast(product, 4 * conf.min)
  BY DEF NeverTooOften
<1>1. /\ BucketsTypeOK /\ GroupsDisjoint /\ AbsoluteClamped
      /\ buckets = CalcBuckets /\ ~ZeroInterval
      /\ \A st \in Listed : details[st] # Missing
  BY DEF ScheduleInv, Made, Complete
<1>2. PICK g \in Active, s \in Stat :
        (IsAbsolute(g) \/ s \in Collected(g)) /\ b = BucketOf(Key(g, s))
  BY <1>1, BucketHasKey
<1>3. b.interval = CollectIntvl(g, s)
  BY <1>2 DEF BucketOf, Key
<1>4. IsAbsolute(g) \/ details[s] # Missing
  BY <1>1, <1>2, CollectedIsKnown
<1>5. b.interval >= conf.min
  BY <1>1, <1>3, <1>4, IntervalBounds
<1>6. ASSUME b.interval = 0 PROVE \E h \in Active : sg[h].absTime = 1
  <2>1. IsAbsolute(g)
    BY <1>1, <1>2, <1>3, <1>6 DEF ZeroInterval
  <2>2. sg[g].absTime \in Nat /\ sg[g].absTime # 0
    BY <1>1, <2>1 DEF BucketsTypeOK, Active, Refresh, Halves, IsAbsolute
  <2>3. sg[g].absTime \div 2 = 0
    BY <1>3, <1>6, <2>1 DEF CollectIntvl
  <2>4. sg[g].absTime = 1
    BY <2>2, <2>3, HalfIsZero
  <2> QED BY <2>4
<1>7. ASSUME NEW st \in b.stats, NEW h \in Active, st \in StatsOf[h], ~IsAbsolute(h)
      PROVE  LET product == sg[h].multiplier * details[st].updateIntvl
             IN  /\ 4 * (b.interval + 1) > product
                 /\ 4 * b.interval <= AtLeast(product, 4 * conf.min)
  <2>1. st \in Stat
    BY <1>2 DEF BucketOf
  <2>2. PICK k \in Active : st \in Collected(k) /\ Key(k, st) = Key(g, s)
    BY <1>2 DEF BucketOf
  <2>3. k = h
    BY <1>1, <1>7, <2>2 DEF GroupsDisjoint, Collected
  <2>4. b.interval = CollectIntvl(h, st)
    BY <1>3, <2>2, <2>3 DEF Key
  <2>5. details[st] # Missing
    BY <1>1, <1>7 DEF Listed
  <2>6. /\ 4 * CollectIntvl(h, st)
             <= AtLeast(sg[h].multiplier * details[st].updateIntvl, 4 * conf.min)
        /\ sg[h].multiplier * details[st].updateIntvl < 4 * (CollectIntvl(h, st) + 1)
        /\ CollectIntvl(h, st) \in Nat
    BY <1>1, <1>7, <2>1, <2>5, IntervalBounds
  <2>7. sg[h].multiplier * details[st].updateIntvl \in Nat
    <3>1. sg[h].multiplier \in Nat /\ details[st].updateIntvl \in Nat
      BY <1>1, <2>1, <2>5 DEF BucketsTypeOK, Active, Refresh, Detail, Halves
    <3> QED BY <3>1, ProductInNat
  <2> DEFINE p == sg[h].multiplier * details[st].updateIntvl
             i == CollectIntvl(h, st)
  <2>8. b.interval = i /\ p \in Nat /\ i \in Nat /\ p < 4 * (i + 1)
        /\ 4 * i <= AtLeast(p, 4 * conf.min)
    BY <2>4, <2>6, <2>7
  <2>9. 4 * (b.interval + 1) > p /\ 4 * b.interval <= AtLeast(p, 4 * conf.min)
    <3> HIDE DEF p, i
    <3> QED BY <2>8
  <2> QED BY <2>9
<1> QED BY <1>5, <1>6, <1>7

\* No bucket is collected more often than the minimum allows; a stat of a group
\* with a multiplier is collected at its product, a fraction of a second less at
\* most, or at the minimum; and only an absolute time below a second with a
\* minimum of 0 gives an interval of 0.
THEOREM NeverIsTooOften == BucketsSpec => []NeverTooOften
<1>1. ScheduleInv => NeverTooOften
  BY NeverTooOftenHolds, BucketsAssumption
<1> QED BY <1>1, ScheduleInvariant, PTL

------------------------------------------------------------------------------
(* The way of the results.                                                  *)

PathInv == TypeOK /\ ScheduleInv

LEMMA PathInit == ASSUME Init PROVE PathInv
<1>1. ScheduleInv
  BY InitHolds, BucketsAssumption DEF Init
<1>2. TypeOK
  BY <1>1 DEF Init, BucketsInit, TypeOK, ScheduleInv
<1> QED BY <1>1, <1>2 DEF PathInv

\* The steps up to the buckets: nothing is being collected yet.
LEMMA BucketsStepTyped ==
  ASSUME PathInv, BucketsNext, UNCHANGED <<bucket, todo, points>>
  PROVE  PathInv'
<1>1. ScheduleInv'
  BY ScheduleStep, BucketsAssumption DEF PathInv
<1>2. pc \in {"parse", "details"} /\ pc' \in {"details", "loop", "idle", "exited"}
  BY DEF BucketsNext, ParseStatConfig, FetchStatDetail, FetchDetailFails, SetDetail, MakeBuckets
<1>3. bucket = NoBucket /\ todo = {} /\ points = {}
  BY <1>2 DEF PathInv, TypeOK
<1>4. TypeOK'
  BY <1>1, <1>2, <1>3 DEF TypeOK, ScheduleInv
<1> QED BY <1>1, <1>4 DEF PathInv

LEMMA CollectTyped == ASSUME PathInv, Collect PROVE PathInv'
<1>1. ScheduleInv'
  BY ScheduleKept DEF PathInv, Collect
<1>2. todo' \subseteq Pair
  <2>1. \A st \in bucket'.stats : st \in Stat
    BY DEF Collect, PathInv, ScheduleInv, BucketsTypeOK, Bucket
  <2>2. todo' = UNION {{st} \X DevicesOf[st] : st \in bucket'.stats}
    BY DEF Collect
  <2> QED BY <2>1, <2>2 DEF Pair
<1>3. TypeOK'
  BY <1>1, <1>2 DEF Collect, PathInv, TypeOK, ScheduleInv, bucketVars
<1> QED BY <1>1, <1>3 DEF PathInv

LEMMA ResultTyped ==
  ASSUME PathInv, NEW r \in todo, SkipResult(r) \/ DecodeResult(r)
  PROVE  PathInv'
<1>1. ScheduleInv'
  BY ScheduleKept DEF PathInv, SkipResult, DecodeResult, bucketVars
<1>2. pc = "write" /\ r \in Pair /\ UNCHANGED buckets /\ BucketsTypeOK'
  BY <1>1 DEF SkipResult, DecodeResult, PathInv, TypeOK, ScheduleInv, bucketVars
<1>3. CASE SkipResult(r)
  BY <1>1, <1>2, <1>3 DEF SkipResult, PathInv, TypeOK
<1>4. CASE DecodeResult(r)
  <2>1. PICK v, o :
          IF o.end = "ok"
          THEN /\ points' = points \cup {[of |-> r, value |-> v, fields |-> o.fields, tags |-> o.tags]}
               /\ todo' = todo \ {r}
               /\ UNCHANGED <<pc, bucket>>
          ELSE /\ points' = {} /\ todo' = {} /\ bucket' = NoBucket
               /\ pc' = IF o.end = "error" THEN "stopped"
                        ELSE IF o.end = "die" THEN "exited" ELSE "panicked"
    BY <1>4 DEF DecodeResult
  <2>2. CASE o.end = "ok"
    BY <1>1, <1>2, <2>1, <2>2 DEF PathInv, TypeOK
  <2>3. CASE o.end # "ok"
    BY <1>1, <1>2, <2>1, <2>3 DEF PathInv, TypeOK
  <2> QED BY <2>2, <2>3
<1> QED BY <1>3, <1>4

LEMMA WritePointsTyped == ASSUME PathInv, WritePoints PROVE PathInv'
<1>1. ScheduleInv'
  BY ScheduleKept DEF PathInv, WritePoints
<1>2. TypeOK'
  BY <1>1 DEF PathInv, WritePoints, TypeOK, ScheduleInv
<1> QED BY <1>1, <1>2 DEF PathInv

LEMMA PathStuttered == ASSUME PathInv, UNCHANGED vars PROVE PathInv'
<1>1. UNCHANGED <<pc, bucketVars, bucket, todo, points>>
  BY DEF vars
<1>2. ScheduleInv'
  BY <1>1, ScheduleKept DEF PathInv
<1>3. TypeOK'
  BY <1>1, <1>2 DEF PathInv, TypeOK, ScheduleInv, bucketVars
<1> QED BY <1>2, <1>3 DEF PathInv

\* The buckets stay as they were made, and the results are those of the bucket
\* that is being collected, however long the loop runs.
THEOREM PathInvariant == Spec => []PathInv
<1>1. Init => PathInv
  BY PathInit
<1>2. PathInv /\ [Next]_vars => PathInv'
  BY BucketsStepTyped, CollectTyped, ResultTyped, WritePointsTyped, PathStuttered
     DEF Next, Terminated
<1> QED BY <1>1, <1>2, PTL DEF Spec

\* No point is written of a result that is still to come, and none is left when
\* the write of a bucket has ended, whether it succeeds or a value stops it.
THEOREM PathTypeCorrect == Spec => []TypeOK
<1>1. PathInv => TypeOK
  BY DEF PathInv
<1> QED BY <1>1, PathInvariant, PTL

\* Each stat is in one bucket as long as the loop runs.
THEOREM EachStatStaysOnce == Spec => []EachStatOnce
<1>1. PathInv => EachStatOnce
  BY EachStatOnceHolds, BucketsAssumption DEF PathInv
<1> QED BY <1>1, PathInvariant, PTL

\* No bucket is collected too often, as long as the loop runs.
THEOREM NeverGetsTooOften == Spec => []NeverTooOften
<1>1. PathInv => NeverTooOften
  BY NeverTooOftenHolds, BucketsAssumption DEF PathInv
<1> QED BY <1>1, PathInvariant, PTL

------------------------------------------------------------------------------
(* Induction and recursion over the numbers.  The theorems of the library    *)
(* take predicates, which the provers cannot instantiate; these take sets.   *)

\* What the relation of the library says.
LEMMA Before == \A m, n \in Nat : <<m, n>> \in OpToRel(<, Nat) <=> m < n
BY Zenon DEF OpToRel

\* Induction, for a set in the place of a predicate: the least number that is
\* not in the set would have a predecessor that is.
LEMMA Induction ==
  ASSUME NEW S, 0 \in S, \A n \in Nat : n \in S => n + 1 \in S
  PROVE  Nat \subseteq S
<1> DEFINE Rest == Nat \ S
<1> SUFFICES ASSUME Rest # {} PROVE FALSE
  OBVIOUS
<1>1. PICK n \in Rest : \A m \in Rest : ~(<<m, n>> \in OpToRel(<, Nat))
  <2> HIDE DEF Rest
  <2>1. Rest \subseteq Nat
    BY DEF Rest
  <2> QED BY <2>1, NatLessThanWellFounded, WFMin
<1>2. n # 0 /\ n - 1 \in Nat /\ (n - 1) + 1 = n
  OBVIOUS
<1>3. n - 1 \notin S
  BY <1>2
<1>4. \A m \in Rest : ~(m < n)
  BY <1>1, Before, Zenon
<1> QED BY <1>2, <1>3, <1>4

\* f is what N steps make of a.
Follows(f, A, a, N, Step) ==
  /\ f \in [0 .. N -> A]
  /\ f[0] = a
  /\ \A i \in 1 .. N : f[i] = Step[<<i, f[i - 1]>>]

Steps(N, A) == [(1 .. N) \X A -> A]

\* A recursion of N steps has a solution, whatever the steps do.
LEMMA Recursion ==
  ASSUME NEW A, NEW a \in A, NEW N \in Nat, NEW Step \in Steps(N, A)
  PROVE  \E f : Follows(f, A, a, N, Step)
<1> USE DEF Follows
<1> DEFINE S == {n \in Nat : n <= N => \E f : Follows(f, A, a, n, Step)}
<1>1. 0 \in S
  <2>1. Follows([i \in 0 .. 0 |-> a], A, a, 0, Step)
    OBVIOUS
  <2> QED BY <2>1
<1>2. ASSUME NEW n \in Nat, n \in S PROVE n + 1 \in S
  <2> SUFFICES ASSUME n + 1 <= N PROVE \E f : Follows(f, A, a, n + 1, Step)
    OBVIOUS
  <2>1. PICK f : Follows(f, A, a, n, Step)
    BY <1>2
  <2> DEFINE next == Step[<<n + 1, f[n]>>]
             g == [i \in 0 .. n + 1 |-> IF i = n + 1 THEN next ELSE f[i]]
  <2>2. next \in A
    BY <2>1 DEF Steps
  <2>3. g[0] = a /\ g[n + 1] = next /\ g[n] = f[n]
    BY <2>1
  <2>4. ASSUME NEW i \in 1 .. n PROVE g[i] = f[i] /\ g[i - 1] = f[i - 1]
    BY <2>1
  <2>5. g \in [0 .. n + 1 -> A]
    BY <2>1, <2>2
  <2> HIDE DEF g
  <2>6. ASSUME NEW i \in 1 .. n + 1 PROVE g[i] = Step[<<i, g[i - 1]>>]
    <3>1. CASE i = n + 1
      BY <2>3, <3>1
    <3>2. CASE i # n + 1
      <4>1. i \in 1 .. n
        BY <3>2
      <4> QED BY <2>1, <2>4, <4>1
    <3> QED BY <3>1, <3>2
  <2> QED BY <2>3, <2>5, <2>6
<1> HIDE DEF S
<1>3. N \in S
  BY <1>1, <1>2, Induction
<1> QED BY <1>3 DEF S

\* Induction along a recursion of N steps.
LEMMA InductionUpTo ==
  ASSUME NEW N \in Nat, NEW S, 0 \in S, \A i \in 1 .. N : i - 1 \in S => i \in S
  PROVE  \A i \in 0 .. N : i \in S
<1> DEFINE T == {n \in Nat : n <= N => n \in S}
<1>1. 0 \in T
  OBVIOUS
<1>2. ASSUME NEW n \in Nat, n \in T PROVE n + 1 \in T
  <2> SUFFICES ASSUME n + 1 <= N PROVE n + 1 \in S
    OBVIOUS
  <2>1. n + 1 \in 1 .. N /\ (n + 1) - 1 = n /\ n \in S
    BY <1>2
  <2> QED BY <2>1
<1> HIDE DEF T
<1>3. Nat \subseteq T
  BY <1>1, <1>2, Induction
<1> QED BY <1>3 DEF T

------------------------------------------------------------------------------
(* What decoding works on.                                                  *)

\* The names and the values of fields and tags.
Name ==
  {"", "value"} \cup BaseTags \cup UNION {DOMAIN v.obj : v \in {w \in Json : IsObj(w)}}

Scalar ==
  {v.num : v \in {w \in Json : IsNum(w)}} \cup {v.str : v \in {w \in Json : IsStr(w)}}
    \cup Nat \cup BOOLEAN \cup {"cluster"}

Map == UNION {[names -> Scalar] : names \in SUBSET Name}

Ends == {"ok", "error", "die", "panic"}

\* There are tags for all fields, and more if there are strings in an array.
Out ==
  {o \in [end : Ends, fields : Seq(Map), tags : Seq(Map)] : Len(o.fields) <= Len(o.tags)}

Acc ==
  {acc \in [end : Ends, fields : Map, tags : Map, simple : BOOLEAN,
            subfields : Seq(Map), subtags : Seq(Map)] : Len(acc.subfields) <= Len(acc.subtags)}

LEMMA MapIs ==
  ASSUME NEW f
  PROVE  f \in Map <=> /\ f = [n \in DOMAIN f |-> f[n]]
                       /\ DOMAIN f \subseteq Name
                       /\ \A n \in DOMAIN f : f[n] \in Scalar
<1>1. ASSUME f \in Map
      PROVE  /\ f = [n \in DOMAIN f |-> f[n]]
             /\ DOMAIN f \subseteq Name
             /\ \A n \in DOMAIN f : f[n] \in Scalar
  <2>1. PICK names \in SUBSET Name : f \in [names -> Scalar]
    BY <1>1 DEF Map
  <2> QED BY <2>1
<1>2. ASSUME f = [n \in DOMAIN f |-> f[n]], DOMAIN f \subseteq Name,
             \A n \in DOMAIN f : f[n] \in Scalar
      PROVE  f \in Map
  <2>1. f \in [DOMAIN f -> Scalar]
    BY <1>2
  <2> QED BY <1>2, <2>1 DEF Map
<1> QED BY <1>1, <1>2

LEMMA EmptyIs == Empty \in Map /\ DOMAIN Empty = {}
<1>1. Empty \in [{} -> Scalar] /\ DOMAIN Empty = {}
  BY DEF Empty
<1> QED BY <1>1 DEF Map

LEMMA EntryIs ==
  ASSUME NEW n, NEW x
  PROVE  /\ DOMAIN Entry(n, x) = {n} /\ Entry(n, x)[n] = x
         /\ n \in Name /\ x \in Scalar => Entry(n, x) \in Map
<1>1. DOMAIN Entry(n, x) = {n} /\ Entry(n, x)[n] = x
  BY DEF Entry
<1>2. ASSUME n \in Name, x \in Scalar PROVE Entry(n, x) \in Map
  <2>1. Entry(n, x) \in [{n} -> Scalar]
    BY <1>2 DEF Entry
  <2> QED BY <1>2, <2>1 DEF Map
<1> QED BY <1>1, <1>2

LEMMA OverIs ==
  ASSUME NEW f, NEW g
  PROVE  /\ DOMAIN Over(f, g) = DOMAIN f \cup DOMAIN g
         /\ \A n \in DOMAIN f : Over(f, g)[n] = f[n]
         /\ \A n \in DOMAIN g : n \notin DOMAIN f => Over(f, g)[n] = g[n]
         /\ f \in Map /\ g \in Map => Over(f, g) \in Map
<1>1. /\ DOMAIN Over(f, g) = DOMAIN f \cup DOMAIN g
      /\ \A n \in DOMAIN f : Over(f, g)[n] = f[n]
      /\ \A n \in DOMAIN g : n \notin DOMAIN f => Over(f, g)[n] = g[n]
  BY DEF Over
<1>2. ASSUME f \in Map, g \in Map PROVE Over(f, g) \in Map
  <2>1. DOMAIN Over(f, g) \subseteq Name /\ \A n \in DOMAIN Over(f, g) : Over(f, g)[n] \in Scalar
    BY <1>1, <1>2, MapIs
  <2>2. Over(f, g) = [n \in DOMAIN Over(f, g) |-> Over(f, g)[n]]
    BY DEF Over
  <2> QED BY <2>1, <2>2, MapIs
<1> QED BY <1>1, <1>2

\* The parts of a value are values.
LEMMA PartsAre ==
  ASSUME NEW v \in Nested, NEW k \in DOMAIN Parts(v)
  PROVE  /\ Parts(v)[k] \in Json
         /\ IsArr(v) => DOMAIN v.arr = 1 .. Len(v.arr) /\ Len(v.arr) \in Nat
         /\ ~IsArr(v) => k \in Name
<1>1. CASE IsArr(v)
  BY <1>1, JsonAssumption DEF Nested, Parts, JsonAssumption
<1>2. CASE ~IsArr(v)
  <2>1. IsObj(v) /\ Parts(v) = v.obj /\ v.obj \in [DOMAIN v.obj -> Json]
    BY <1>2, JsonAssumption DEF Nested, IsNested, Parts, JsonAssumption
  <2>2. k \in Name
    BY <2>1 DEF Name, Nested
  <2> QED BY <1>2, <2>1, <2>2
<1> QED BY <1>1, <1>2

LEMMA OutcomeIs ==
  ASSUME NEW fields \in Seq(Map), NEW tags \in Seq(Map), Len(fields) <= Len(tags)
  PROVE  /\ Outcome(fields, tags) \in Out
         /\ Outcome(fields, tags).end = "ok"
         /\ Outcome(fields, tags).fields = fields /\ Outcome(fields, tags).tags = tags
BY DEF Outcome, Out, Ends

LEMMA RowIs ==
  ASSUME NEW S, NEW x \in S
  PROVE  /\ <<x>> \in Seq(S) /\ Len(<<x>>) = 1 /\ <<x>>[1] = x /\ <<x>> # <<>>
         /\ <<>> \in Seq(S) /\ Len(<<>>) = 0
OBVIOUS

LEMMA EndedIs == ASSUME NEW how \in Ends PROVE Ended(how) \in Out /\ Ended(how).end = how
BY DEF Ended, Out

\* What a part decodes to is an outcome.
LEMMA DecodePartType ==
  ASSUME NEW deeper \in [Nested -> SUBSET Out], NEW name \in Name, NEW w \in Json,
         NEW base \in Map
  PROVE  DecodePart(deeper, name, w, base) \in SUBSET Out
<1>1. CASE IsNum(w)
  <2>1. w.num \in Scalar
    BY <1>1 DEF Scalar
  <2>2. Entry(name, w.num) \in Map
    BY <2>1, EntryIs
  <2> DEFINE fields == <<Entry(name, w.num)>>
             tags == <<base>>
  <2>3. Outcome(fields, tags) \in Out
    <3>1. fields \in Seq(Map) /\ tags \in Seq(Map) /\ Len(fields) = 1 /\ Len(tags) = 1
      BY <2>2, RowIs
    <3> HIDE DEF fields, tags
    <3> QED BY <3>1, OutcomeIs
  <2>4. Ended("die") \in Out
    BY EndedIs DEF Ends
  <2> QED BY <1>1, <2>3, <2>4 DEF DecodePart
<1>2. CASE ~IsNum(w) /\ IsStr(w)
  <2>1. w.str \in Scalar
    BY <1>2 DEF Scalar
  <2>2. Over(Entry(name, w.str), base) \in Map
    BY <2>1, EntryIs, OverIs
  <2> DEFINE fields == <<>>
             tags == <<Over(Entry(name, w.str), base)>>
  <2>3. Outcome(fields, tags) \in Out
    <3>1. tags \in Seq(Map) /\ Len(tags) = 1 /\ fields \in Seq(Map) /\ Len(fields) = 0
      BY <2>2, RowIs
    <3> HIDE DEF fields, tags
    <3>2. Len(fields) <= Len(tags)
      BY <3>1
    <3> QED BY <3>1, <3>2, OutcomeIs
  <2> QED BY <1>2, <2>3 DEF DecodePart
<1>3. CASE ~IsNum(w) /\ ~IsStr(w) /\ IsNested(w)
  BY <1>3 DEF DecodePart, Nested
<1>4. CASE ~IsNum(w) /\ ~IsStr(w) /\ ~IsNested(w)
  BY <1>4, EndedIs DEF DecodePart, Ends
<1> QED BY <1>1, <1>2, <1>3, <1>4

LEMMA AddRowsIs ==
  ASSUME NEW acc \in Acc, NEW o \in Out
  PROVE  /\ AddRows(acc, o) \in Acc
         /\ AddRows(acc, o).end = acc.end /\ AddRows(acc, o).simple = FALSE
         /\ AddRows(acc, o).fields = acc.fields /\ AddRows(acc, o).tags = acc.tags
         /\ AddRows(acc, o).subfields = acc.subfields \o o.fields
         /\ AddRows(acc, o).subtags = acc.subtags \o o.tags
<1> DEFINE new == AddRows(acc, o)
<1>1. /\ acc.subfields \in Seq(Map) /\ o.fields \in Seq(Map)
      /\ acc.subtags \in Seq(Map) /\ o.tags \in Seq(Map)
      /\ Len(acc.subfields) <= Len(acc.subtags) /\ Len(o.fields) <= Len(o.tags)
  BY DEF Acc, Out
<1>2. /\ new.end = acc.end /\ new.simple = FALSE
      /\ new.fields = acc.fields /\ new.tags = acc.tags
      /\ new.subfields = acc.subfields \o o.fields
      /\ new.subtags = acc.subtags \o o.tags
  BY DEF AddRows, Acc
<1>3. acc.subfields \o o.fields \in Seq(Map) /\ acc.subtags \o o.tags \in Seq(Map)
  BY <1>1
<1>4. Len(acc.subfields \o o.fields) <= Len(acc.subtags \o o.tags)
  <2>1. \A s, t \in Seq(Map) : Len(s) \in Nat /\ Len(s \o t) = Len(s) + Len(t)
    OBVIOUS
  <2>2. /\ Len(acc.subfields \o o.fields) = Len(acc.subfields) + Len(o.fields)
        /\ Len(acc.subtags \o o.tags) = Len(acc.subtags) + Len(o.tags)
        /\ Len(acc.subfields) \in Nat /\ Len(o.fields) \in Nat
        /\ Len(acc.subtags) \in Nat /\ Len(o.tags) \in Nat
    BY <1>1, <2>1
  <2> DEFINE rows == Len(acc.subfields \o o.fields)
             more == Len(acc.subtags \o o.tags)
             a == Len(acc.subfields)
             b == Len(o.fields)
             c == Len(acc.subtags)
             d == Len(o.tags)
  <2>3. /\ rows = a + b /\ more = c + d
        /\ a \in Nat /\ b \in Nat /\ c \in Nat /\ d \in Nat /\ a <= c /\ b <= d
    BY <1>1, <2>2
  <2> HIDE DEF rows, more, a, b, c, d
  <2>4. rows <= more
    BY <2>3
  <2> QED BY <2>4 DEF rows, more
<1>5. new \in [end : Ends, fields : Map, tags : Map, simple : BOOLEAN,
               subfields : Seq(Map), subtags : Seq(Map)]
  BY <1>3 DEF AddRows, Acc
<1>6. new \in Acc
  BY <1>2, <1>4, <1>5 DEF Acc
<1> QED BY <1>2, <1>6

LEMMA AddPartType ==
  ASSUME NEW v, NEW k, NEW acc \in Acc, NEW o \in Out
  PROVE  AddPart(v, k, acc, o) \in Acc
<1>1. \A how \in Ends : [acc EXCEPT !.end = how] \in Acc
  BY DEF Acc
<1>2. ASSUME o.tags # <<>> PROVE [acc EXCEPT !.tags = Over(o.tags[1], @)] \in Acc
  <2>1. o.tags[1] \in Map /\ acc.tags \in Map
    BY <1>2 DEF Out, Acc
  <2>2. Over(o.tags[1], acc.tags) \in Map
    BY <2>1, OverIs
  <2> QED BY <2>2 DEF Acc
<1>3. ASSUME o.fields # <<>> PROVE [acc EXCEPT !.fields = Over(o.fields[1], @)] \in Acc
  <2>1. o.fields[1] \in Map /\ acc.fields \in Map
    BY <1>3 DEF Out, Acc
  <2>2. Over(o.fields[1], acc.fields) \in Map
    BY <2>1, OverIs
  <2> QED BY <2>2 DEF Acc
<1>4. o.end \in Ends /\ "panic" \in Ends /\ "die" \in Ends
  BY DEF Out, Ends
<1>5. \A isarray : AddMember(acc, o, isarray) \in Acc
  BY <1>1, <1>2, <1>3, <1>4, AddRowsIs DEF AddMember
<1> QED BY <1>1, <1>4, <1>5, AddRowsIs DEF AddPart

LEMMA StartIs == ASSUME NEW base \in Map PROVE Start(base) \in Acc
BY EmptyIs DEF Start, Acc, Ends

------------------------------------------------------------------------------
(* The loop over the parts.                                                 *)

\* acc[i]: what the loop over the parts of v has after i of them.
Loops(acc, v, order, outcomes, base) ==
  /\ acc \in [0 .. Len(order) -> Acc]
  /\ acc[0] = Start(base)
  /\ \A i \in 1 .. Len(order) :
       acc[i] = AddPart(v, order[i], acc[i - 1], outcomes[order[i]])

LEMMA LoopDef ==
  ASSUME NEW v, NEW order, NEW outcomes, NEW base \in Map,
         Len(order) \in Nat, \A i \in 1 .. Len(order) : outcomes[order[i]] \in Out
  PROVE  \E acc : /\ Loops(acc, v, order, outcomes, base)
                  /\ Loop(v, order, outcomes, base) = acc[Len(order)]
<1> DEFINE N == Len(order)
           Rec(f) == [i \in 0 .. N |->
                        IF i = 0 THEN Start(base)
                        ELSE AddPart(v, order[i], f[i - 1], outcomes[order[i]])]
           Step == [p \in (1 .. N) \X Acc |-> AddPart(v, order[p[1]], p[2], outcomes[order[p[1]]])]
           acc == CHOOSE f : f = Rec(f)
<1>1. \E f : f = Rec(f)
  <2>1. Step \in Steps(N, Acc)
    BY AddPartType DEF Steps
  <2>2. PICK f : Follows(f, Acc, Start(base), N, Step)
    <3> HIDE DEF Step, N
    <3>1. N \in Nat
      BY DEF N
    <3> QED BY <2>1, <3>1, Recursion, StartIs
  <2>3. f \in [0 .. N -> Acc] /\ f[0] = Start(base)
    BY <2>2 DEF Follows
  <2>4. ASSUME NEW i \in 1 .. N
        PROVE  f[i] = AddPart(v, order[i], f[i - 1], outcomes[order[i]])
    <3>1. <<i, f[i - 1]>> \in (1 .. N) \X Acc
      BY <2>3
    <3>2. f[i] = Step[<<i, f[i - 1]>>]
      BY <2>2 DEF Follows
    <3> QED BY <3>1, <3>2
  <2>5. ASSUME NEW i \in 0 .. N PROVE f[i] = Rec(f)[i]
    <3>1. CASE i = 0
      BY <2>3, <3>1
    <3>2. CASE i # 0
      <4>1. i \in 1 .. N
        BY <3>2
      <4> QED BY <2>4, <4>1
    <3> QED BY <3>1, <3>2
  <2>6. f = Rec(f)
    BY <2>3, <2>5
  <2> HIDE DEF Rec
  <2> QED BY <2>6
<1>2. acc = Rec(acc)
  <2> HIDE DEF Rec
  <2> QED BY <1>1
<1>3. Loop(v, order, outcomes, base) = acc[N]
  BY DEF Loop
<1> HIDE DEF acc
<1>4. acc[0] = Start(base)
  BY <1>2
<1>5. \A i \in 1 .. N : acc[i] = AddPart(v, order[i], acc[i - 1], outcomes[order[i]])
  BY <1>2
<1>6. \A i \in 0 .. N : acc[i] \in Acc
  <2> DEFINE S == {i \in 0 .. N : acc[i] \in Acc}
  <2>1. 0 \in S
    BY <1>4, StartIs
  <2>2. \A i \in 1 .. N : i - 1 \in S => i \in S
    BY <1>5, AddPartType
  <2> HIDE DEF S
  <2>3. \A i \in 0 .. N : i \in S
    BY <2>1, <2>2, InductionUpTo
  <2> QED BY <2>3 DEF S
<1>7. acc \in [0 .. N -> Acc]
  BY <1>2, <1>6
<1>8. Loops(acc, v, order, outcomes, base)
  BY <1>4, <1>5, <1>7 DEF Loops
<1> HIDE DEF N
<1> QED BY <1>3, <1>8 DEF N

------------------------------------------------------------------------------
(* The rows that are kept.                                                  *)

\* o has the rows up to n that are not to be dropped, and no others.
Keeps(o, fields, tags, n) ==
  /\ o \in Out /\ o.end = "ok" /\ Len(o.fields) = Len(o.tags)
  /\ \A j \in 1 .. Len(o.fields) :
       \E i \in 1 .. n :
         o.fields[j] = fields[i] /\ o.tags[j] = tags[i] /\ ~IsInvalidStat(tags[i])
  /\ \A i \in 1 .. n :
       ~IsInvalidStat(tags[i]) =>
         \E j \in 1 .. Len(o.fields) : o.fields[j] = fields[i] /\ o.tags[j] = tags[i]

\* The outcome o with one row more.
WithRow(o, field, tag) == Outcome(Append(o.fields, field), Append(o.tags, tag))

HasRowMore(new, o, field, tag) ==
  /\ new \in Out /\ new.end = "ok"
  /\ Len(new.fields) = Len(o.fields) + 1 /\ Len(new.tags) = Len(o.tags) + 1
  /\ Len(o.fields) \in Nat /\ Len(o.tags) \in Nat
  /\ \A j \in 1 .. Len(o.fields) : new.fields[j] = o.fields[j]
  /\ \A j \in 1 .. Len(o.tags) : new.tags[j] = o.tags[j]
  /\ new.fields[Len(o.fields) + 1] = field /\ new.tags[Len(o.tags) + 1] = tag

LEMMA WithRowIs ==
  ASSUME NEW o \in Out, NEW field \in Map, NEW tag \in Map
  PROVE  HasRowMore(WithRow(o, field, tag), o, field, tag)
<1> DEFINE new == WithRow(o, field, tag)
           fields == Append(o.fields, field)
           tags == Append(o.tags, tag)
<1>1. o.fields \in Seq(Map) /\ o.tags \in Seq(Map) /\ Len(o.fields) <= Len(o.tags)
  BY DEF Out
<1>2. /\ fields \in Seq(Map) /\ tags \in Seq(Map)
      /\ Len(fields) = Len(o.fields) + 1 /\ Len(tags) = Len(o.tags) + 1
      /\ Len(o.fields) \in Nat /\ Len(o.tags) \in Nat
      /\ \A j \in 1 .. Len(o.fields) : fields[j] = o.fields[j]
      /\ \A j \in 1 .. Len(o.tags) : tags[j] = o.tags[j]
      /\ fields[Len(o.fields) + 1] = field /\ tags[Len(o.tags) + 1] = tag
  BY <1>1
<1>3. new = Outcome(fields, tags)
  BY DEF WithRow
<1> HIDE DEF new, fields, tags
<1>4. Len(fields) <= Len(tags)
  BY <1>1, <1>2
<1>5. new \in Out /\ new.end = "ok" /\ new.fields = fields /\ new.tags = tags
  BY <1>2, <1>3, <1>4, OutcomeIs
<1>6. HasRowMore(new, o, field, tag)
  BY <1>2, <1>5 DEF HasRowMore
<1> QED BY <1>6 DEF new

LEMMA ValidIs ==
  ASSUME NEW fields \in Seq(Map), NEW tags \in Seq(Map), Len(fields) <= Len(tags)
  PROVE  Keeps(Valid(fields, tags), fields, tags, Len(fields))
<1> DEFINE N == Len(fields)
           After(o, i) == IF IsInvalidStat(tags[i]) THEN o ELSE WithRow(o, fields[i], tags[i])
           none == Outcome(<<>>, <<>>)
           Rec(f) == [i \in 0 .. N |->
                        IF i = 0 THEN none
                        ELSE IF IsInvalidStat(tags[i]) THEN f[i - 1]
                        ELSE Outcome(Append(f[i - 1].fields, fields[i]),
                                     Append(f[i - 1].tags, tags[i]))]
           Step == [p \in (1 .. N) \X Out |-> After(p[2], p[1])]
           kept == CHOOSE f : f = Rec(f)
<1>1. N \in Nat /\ \A i \in 1 .. N : fields[i] \in Map /\ tags[i] \in Map
  OBVIOUS
<1>2. none \in Out /\ Keeps(none, fields, tags, 0)
  <2> DEFINE e == <<>>
  <2>1. e \in Seq(Map) /\ Len(e) = 0 /\ none = Outcome(e, e)
    OBVIOUS
  <2> HIDE DEF e, none
  <2>2. none \in Out /\ none.end = "ok" /\ none.fields = e /\ none.tags = e
    <3>1. Len(e) <= Len(e)
      BY <2>1
    <3> QED BY <2>1, <3>1, OutcomeIs
  <2> QED BY <2>1, <2>2 DEF Keeps
<1>3. ASSUME NEW o \in Out, NEW i \in 1 .. N PROVE After(o, i) \in Out
  BY <1>1, WithRowIs DEF HasRowMore
<1>4. ASSUME NEW f, NEW i \in 1 .. N PROVE Rec(f)[i] = After(f[i - 1], i)
  BY <1>1 DEF WithRow
<1>5. ASSUME NEW f PROVE Rec(f)[0] = none
  BY <1>1
<1> HIDE DEF After, N, none
<1>6. kept = Rec(kept)
  <2>1. Step \in Steps(N, Out)
    BY <1>3 DEF Steps
  <2>2. PICK f : Follows(f, Out, none, N, Step)
    <3> HIDE DEF Step
    <3> QED BY <1>1, <1>2, <2>1, Recursion
  <2>3. f \in [0 .. N -> Out] /\ f[0] = none
    BY <2>2 DEF Follows
  <2>4. ASSUME NEW i \in 1 .. N PROVE f[i] = After(f[i - 1], i)
    <3>1. <<i, f[i - 1]>> \in (1 .. N) \X Out
      BY <1>1, <2>3
    <3>2. f[i] = Step[<<i, f[i - 1]>>]
      BY <2>2 DEF Follows
    <3> QED BY <3>1, <3>2
  <2> HIDE DEF Rec
  <2>5. ASSUME NEW i \in 0 .. N PROVE f[i] = Rec(f)[i]
    <3>1. CASE i = 0
      BY <1>5, <2>3, <3>1
    <3>2. CASE i # 0
      BY <1>1, <1>4, <2>4, <3>2
    <3> QED BY <3>1, <3>2
  <2>6. f = Rec(f)
    BY <2>3, <2>5 DEF Rec
  <2> QED BY <2>6
<1>7. Valid(fields, tags) = kept[N]
  BY DEF Valid, N, none
<1> HIDE DEF kept
<1>8. kept[0] = none /\ \A i \in 1 .. N : kept[i] = After(kept[i - 1], i)
  <2> HIDE DEF Rec
  <2> QED BY <1>4, <1>5, <1>6
<1> DEFINE S == {n \in 0 .. N : Keeps(kept[n], fields, tags, n)}
<1>9. 0 \in S
  BY <1>1, <1>2, <1>8
<1>10. ASSUME NEW n \in 1 .. N, n - 1 \in S PROVE n \in S
  <2> DEFINE o == kept[n - 1]
             new == kept[n]
  <2>1. Keeps(o, fields, tags, n - 1) /\ o \in Out
    BY <1>10 DEF Keeps
  <2>2. \A i \in 1 .. n : i = n \/ i \in 1 .. n - 1
    OBVIOUS
  <2>3. \A i \in 1 .. n - 1 : i \in 1 .. n
    OBVIOUS
  <2>4. CASE IsInvalidStat(tags[n])
    <3>1. new = o
      BY <1>8, <2>4 DEF After
    <3> HIDE DEF o, new
    <3>2. Keeps(new, fields, tags, n)
      BY <2>1, <2>2, <2>3, <2>4, <3>1 DEF Keeps
    <3> QED BY <1>1, <3>2 DEF new
  <2>5. CASE ~IsInvalidStat(tags[n])
    <3>1. new = WithRow(o, fields[n], tags[n])
      BY <1>8, <2>5 DEF After
    <3>2. Len(o.fields) \in Nat /\ Len(o.fields) = Len(o.tags)
      BY <2>1 DEF Keeps, Out
    <3> HIDE DEF o, new
    <3>3. /\ new \in Out /\ new.end = "ok"
          /\ Len(new.fields) = Len(o.fields) + 1 /\ Len(new.tags) = Len(o.fields) + 1
          /\ \A j \in 1 .. Len(o.fields) : new.fields[j] = o.fields[j] /\ new.tags[j] = o.tags[j]
          /\ new.fields[Len(o.fields) + 1] = fields[n] /\ new.tags[Len(o.fields) + 1] = tags[n]
      <4>1. HasRowMore(new, o, fields[n], tags[n])
        BY <1>1, <2>1, <3>1, WithRowIs
      <4> QED BY <3>2, <4>1 DEF HasRowMore
    <3>4. ASSUME NEW j \in 1 .. Len(new.fields)
          PROVE  \E i \in 1 .. n : new.fields[j] = fields[i] /\ new.tags[j] = tags[i]
                                     /\ ~IsInvalidStat(tags[i])
      <4>1. CASE j = Len(o.fields) + 1
        BY <2>5, <3>3, <4>1
      <4>2. CASE j # Len(o.fields) + 1
        <5>1. j \in 1 .. Len(o.fields)
          BY <3>2, <3>3, <4>2
        <5> QED BY <2>1, <2>3, <3>3, <5>1 DEF Keeps
      <4> QED BY <4>1, <4>2
    <3>5. ASSUME NEW i \in 1 .. n, ~IsInvalidStat(tags[i])
          PROVE  \E j \in 1 .. Len(new.fields) : new.fields[j] = fields[i] /\ new.tags[j] = tags[i]
      <4>1. CASE i = n
        <5>1. Len(o.fields) + 1 \in 1 .. Len(new.fields)
          BY <3>2, <3>3
        <5> QED BY <3>3, <4>1, <5>1
      <4>2. CASE i # n
        <5>1. PICK j \in 1 .. Len(o.fields) : o.fields[j] = fields[i] /\ o.tags[j] = tags[i]
          BY <2>1, <2>2, <3>5, <4>2 DEF Keeps
        <5>2. j \in 1 .. Len(new.fields)
          BY <3>2, <3>3
        <5> QED BY <3>3, <5>1, <5>2
      <4> QED BY <4>1, <4>2
    <3>6. Keeps(new, fields, tags, n)
      BY <3>3, <3>4, <3>5 DEF Keeps
    <3> QED BY <1>1, <3>6 DEF new
  <2> QED BY <2>4, <2>5
<1> HIDE DEF S
<1>11. N \in S
  <2>1. \A n \in 1 .. N : n - 1 \in S => n \in S
    BY <1>10
  <2>2. \A n \in 0 .. N : n \in S
    BY <1>1, <1>9, <2>1, InductionUpTo
  <2> QED BY <1>1, <2>2
<1> QED BY <1>7, <1>11 DEF S, N

------------------------------------------------------------------------------
(* Decoding, depth by depth.                                                *)

\* The rows that an object makes, before some are dropped.
RowFields(acc) ==
  IF acc.simple THEN <<acc.fields>>
  ELSE [i \in DOMAIN acc.subfields |-> Over(acc.subfields[i], acc.fields)]

RowTags(acc) ==
  IF acc.simple THEN <<acc.tags>>
  ELSE [i \in DOMAIN acc.subfields |-> Over(acc.subtags[i], acc.tags)]

LEMMA RowsAre ==
  ASSUME NEW acc \in Acc
  PROVE  /\ EndObject(acc) = Valid(RowFields(acc), RowTags(acc))
         /\ RowFields(acc) \in Seq(Map) /\ RowTags(acc) \in Seq(Map)
         /\ Len(RowFields(acc)) = Len(RowTags(acc))
         /\ Len(RowFields(acc)) = IF acc.simple THEN 1 ELSE Len(acc.subfields)
<1>1. EndObject(acc) = Valid(RowFields(acc), RowTags(acc))
  BY DEF EndObject, RowFields, RowTags
<1>2. CASE acc.simple
  <2> DEFINE fields == <<acc.fields>>
             tags == <<acc.tags>>
  <2>1. fields \in Seq(Map) /\ tags \in Seq(Map) /\ Len(fields) = 1 /\ Len(tags) = 1
    BY RowIs DEF Acc
  <2>2. RowFields(acc) = fields /\ RowTags(acc) = tags
    BY <1>2 DEF RowFields, RowTags
  <2> HIDE DEF fields, tags
  <2> QED BY <1>1, <1>2, <2>1, <2>2
<1>3. CASE ~acc.simple
  <2> DEFINE N == Len(acc.subfields)
             fields == [i \in 1 .. N |-> Over(acc.subfields[i], acc.fields)]
             tags == [i \in 1 .. N |-> Over(acc.subtags[i], acc.tags)]
  <2>1. /\ acc.subfields \in Seq(Map) /\ acc.subtags \in Seq(Map)
        /\ N \in Nat /\ N <= Len(acc.subtags) /\ DOMAIN acc.subfields = 1 .. N
        /\ acc.fields \in Map /\ acc.tags \in Map
    BY DEF Acc
  <2>2. ASSUME NEW i \in 1 .. N
        PROVE  Over(acc.subfields[i], acc.fields) \in Map /\ Over(acc.subtags[i], acc.tags) \in Map
    <3>1. acc.subfields[i] \in Map /\ acc.subtags[i] \in Map
      BY <2>1
    <3> QED BY <2>1, <3>1, OverIs
  <2>3. RowFields(acc) = fields /\ RowTags(acc) = tags
    BY <1>3, <2>1 DEF RowFields, RowTags
  <2> HIDE DEF N
  <2>4. fields \in Seq(Map) /\ tags \in Seq(Map) /\ Len(fields) = N /\ Len(tags) = N
    BY <2>1, <2>2
  <2> HIDE DEF fields, tags
  <2> QED BY <1>1, <1>3, <2>3, <2>4 DEF N
<1> QED BY <1>2, <1>3

LEMMA EndLoopType == ASSUME NEW v, NEW acc \in Acc PROVE EndLoop(v, acc) \in Out
<1>1. acc.end \in Ends /\ acc.subfields \in Seq(Map) /\ acc.subtags \in Seq(Map)
      /\ Len(acc.subfields) <= Len(acc.subtags)
  BY DEF Acc
<1>2. Ended(acc.end) \in Out /\ Outcome(acc.subfields, acc.subtags) \in Out
  BY <1>1, EndedIs, OutcomeIs
<1>3. EndObject(acc) \in Out
  <2> DEFINE fields == RowFields(acc)
             tags == RowTags(acc)
  <2>1. EndObject(acc) = Valid(fields, tags) /\ fields \in Seq(Map) /\ tags \in Seq(Map)
        /\ Len(fields) = Len(tags)
    BY RowsAre
  <2> HIDE DEF fields, tags
  <2>2. Len(fields) <= Len(tags)
    BY <2>1
  <2>3. Keeps(Valid(fields, tags), fields, tags, Len(fields))
    BY <2>1, <2>2, ValidIs
  <2> QED BY <2>1, <2>3 DEF Keeps
<1> QED BY <1>2, <1>3 DEF EndLoop

\* Every part is visited, in the order of the places or in some order.
LEMMA OrdersAre ==
  ASSUME NEW v \in Nested, NEW order \in Orders(v)
  PROVE  /\ Len(order) \in Nat
         /\ \A i \in 1 .. Len(order) : order[i] \in DOMAIN Parts(v)
         /\ \A k \in DOMAIN Parts(v) : \E i \in 1 .. Len(order) : order[i] = k
<1>1. CASE IsArr(v)
  <2>1. order = [i \in DOMAIN v.arr |-> i] /\ Parts(v) = v.arr
    BY <1>1 DEF Orders, Parts
  <2>2. v.arr \in Seq(Json)
    BY <1>1, JsonAssumption DEF JsonAssumption, Nested
  <2>3. Len(v.arr) \in Nat /\ DOMAIN v.arr = 1 .. Len(v.arr)
    BY <2>2
  <2> DEFINE N == Len(v.arr)
  <2>4. order = [i \in 1 .. N |-> i] /\ N \in Nat
    BY <2>1, <2>3
  <2> HIDE DEF N
  <2>5. Len(order) = N /\ \A i \in 1 .. N : order[i] = i
    BY <2>4
  <2> QED BY <2>1, <2>3, <2>4, <2>5 DEF N
<1>2. CASE ~IsArr(v)
  <2> DEFINE names == DOMAIN v.obj
             N == Cardinality(names)
  <2>1. IsObj(v) /\ Parts(v) = v.obj
    BY <1>2 DEF Nested, IsNested, Parts
  <2>2. N \in Nat
    BY <2>1, JsonAssumption, FS_CardinalityType DEF JsonAssumption, Nested
  <2>3. order \in [1 .. N -> names] /\ \A n \in names : \E i \in DOMAIN order : order[i] = n
    BY <1>2 DEF Orders
  <2> HIDE DEF N
  <2>4. Len(order) = N /\ DOMAIN order = 1 .. N
    BY <2>2, <2>3
  <2> QED BY <2>1, <2>2, <2>3, <2>4
<1> QED BY <1>1, <1>2

\* The outcomes of the parts, and one for each.
LEMMA ChoicesAre ==
  ASSUME NEW deeper \in [Nested -> SUBSET Out], NEW v \in Nested, NEW base \in Map,
         NEW outcomes \in Choices(DecodeParts(deeper, v, base)), NEW k \in DOMAIN Parts(v)
  PROVE  /\ outcomes[k] \in DecodePart(deeper, NameAt(v, k), Parts(v)[k], base)
         /\ outcomes[k] \in Out
<1>1. outcomes[k] \in DecodePart(deeper, NameAt(v, k), Parts(v)[k], base)
  BY DEF Choices, DecodeParts
<1>2. Parts(v)[k] \in Json /\ NameAt(v, k) \in Name
  BY PartsAre DEF Name, NameAt
<1> QED BY <1>1, <1>2, DecodePartType

LEMMA DecodeNestedType ==
  ASSUME NEW deeper \in [Nested -> SUBSET Out], NEW v \in Nested, NEW base \in Map
  PROVE  DecodeNested(deeper, v, base) \in SUBSET Out
<1> SUFFICES ASSUME NEW order \in Orders(v),
                    NEW outcomes \in Choices(DecodeParts(deeper, v, base))
             PROVE  EndLoop(v, Loop(v, order, outcomes, base)) \in Out
  BY DEF DecodeNested
<1>1. Len(order) \in Nat /\ \A i \in 1 .. Len(order) : order[i] \in DOMAIN Parts(v)
  BY OrdersAre
<1>2. \A i \in 1 .. Len(order) : outcomes[order[i]] \in Out
  BY <1>1, ChoicesAre
<1>3. PICK acc : /\ Loops(acc, v, order, outcomes, base)
                 /\ Loop(v, order, outcomes, base) = acc[Len(order)]
  BY <1>1, <1>2, LoopDef
<1>4. acc[Len(order)] \in Acc
  BY <1>1, <1>3 DEF Loops
<1> QED BY <1>3, <1>4, EndLoopType

\* decode[n]: the outcomes of the values that are nested n deep.
Decodes(decode, base) ==
  /\ decode \in [0 .. MaxDepth -> [Nested -> SUBSET Out]]
  /\ decode[0] = [v \in Nested |-> {}]
  /\ \A n \in 1 .. MaxDepth :
       decode[n] = [v \in Nested |-> DecodeNested(decode[n - 1], v, base)]

LEMMA DecodeAllDef ==
  ASSUME NEW base \in Map
  PROVE  \E decode : Decodes(decode, base) /\ DecodeAll(base) = decode[MaxDepth]
<1> DEFINE A == [Nested -> SUBSET Out]
           none == [v \in Nested |-> {}]
           Deeper(d) == [v \in Nested |-> DecodeNested(d, v, base)]
           Rec(f) == [n \in 0 .. MaxDepth |->
                        [v \in Nested |->
                           IF n = 0 THEN {} ELSE DecodeNested(f[n - 1], v, base)]]
           Step == [p \in (1 .. MaxDepth) \X A |-> Deeper(p[2])]
           decode == CHOOSE f : f = Rec(f)
<1>1. MaxDepth \in Nat
  BY JsonAssumption DEF JsonAssumption
<1>2. none \in A
  OBVIOUS
<1>3. ASSUME NEW d \in A PROVE Deeper(d) \in A
  BY DecodeNestedType
<1>4. ASSUME NEW f, NEW n \in 1 .. MaxDepth PROVE Rec(f)[n] = Deeper(f[n - 1])
  BY <1>1
<1>5. ASSUME NEW f PROVE Rec(f)[0] = none
  BY <1>1
<1> HIDE DEF Deeper, none, A
<1>6. decode = Rec(decode)
  <2>1. Step \in Steps(MaxDepth, A)
    BY <1>3 DEF Steps
  <2>2. PICK f : Follows(f, A, none, MaxDepth, Step)
    <3> HIDE DEF Step
    <3> QED BY <1>1, <1>2, <2>1, Recursion
  <2>3. f \in [0 .. MaxDepth -> A] /\ f[0] = none
    BY <2>2 DEF Follows
  <2>4. ASSUME NEW n \in 1 .. MaxDepth PROVE f[n] = Deeper(f[n - 1])
    <3>1. <<n, f[n - 1]>> \in (1 .. MaxDepth) \X A
      BY <1>1, <2>3
    <3>2. f[n] = Step[<<n, f[n - 1]>>]
      BY <2>2 DEF Follows
    <3> QED BY <3>1, <3>2
  <2> HIDE DEF Rec
  <2>5. ASSUME NEW n \in 0 .. MaxDepth PROVE f[n] = Rec(f)[n]
    <3>1. CASE n = 0
      BY <1>5, <2>3, <3>1
    <3>2. CASE n # 0
      BY <1>1, <1>4, <2>4, <3>2
    <3> QED BY <3>1, <3>2
  <2>6. f = Rec(f)
    BY <2>3, <2>5 DEF Rec
  <2> QED BY <2>6
<1>7. DecodeAll(base) = decode[MaxDepth]
  BY DEF DecodeAll
<1> HIDE DEF decode
<1>8. decode[0] = none /\ \A n \in 1 .. MaxDepth : decode[n] = Deeper(decode[n - 1])
  <2> HIDE DEF Rec
  <2> QED BY <1>4, <1>5, <1>6
<1>9. \A n \in 0 .. MaxDepth : decode[n] \in A
  <2> DEFINE S == {n \in 0 .. MaxDepth : decode[n] \in A}
  <2>1. 0 \in S
    BY <1>1, <1>2, <1>8
  <2>2. \A n \in 1 .. MaxDepth : n - 1 \in S => n \in S
    BY <1>1, <1>3, <1>8
  <2> HIDE DEF S
  <2>3. \A n \in 0 .. MaxDepth : n \in S
    BY <1>1, <2>1, <2>2, InductionUpTo
  <2> QED BY <2>3 DEF S
<1>10. decode \in [0 .. MaxDepth -> A]
  BY <1>6, <1>9
<1>11. Decodes(decode, base)
  BY <1>8, <1>10 DEF Decodes, A, none, Deeper
<1> QED BY <1>7, <1>11

------------------------------------------------------------------------------
(* The numbers in a value, depth by depth.                                  *)

Leaf == [field : Name, value : Scalar, tags : Map]

\* The leaves of v when inner has those of the arrays and objects in it.
LeavesOf(inner, v) ==
  {[l EXCEPT !.tags = Over(l.tags, Strings(v))] : l \in LeavesOfParts(inner, v)}

LEMMA StringsAre ==
  ASSUME NEW v \in Nested
  PROVE  /\ Strings(v) \in Map
         /\ IsArr(v) => DOMAIN Strings(v) = {}
         /\ ~IsArr(v) => DOMAIN Strings(v) = {n \in DOMAIN v.obj : IsStr(v.obj[n])}
         /\ \A n \in DOMAIN Strings(v) : Strings(v)[n] = v.obj[n].str
<1>1. CASE IsArr(v)
  <2>1. Strings(v) \in [{} -> Scalar] /\ DOMAIN Strings(v) = {}
    BY <1>1 DEF Strings
  <2> QED BY <1>1, <2>1 DEF Map
<1>2. CASE ~IsArr(v)
  <2> DEFINE names == {n \in DOMAIN v.obj : IsStr(v.obj[n])}
  <2>1. Strings(v) = [n \in names |-> v.obj[n].str]
    BY <1>2 DEF Strings
  <2>2. \A n \in names : n \in Name /\ v.obj[n].str \in Scalar
    <3>1. Parts(v) = v.obj
      BY <1>2 DEF Parts
    <3> QED BY <1>2, <3>1, PartsAre DEF Scalar
  <2>3. Strings(v) \in [names -> Scalar] /\ names \in SUBSET Name
    BY <2>1, <2>2
  <2> QED BY <1>2, <2>1, <2>3 DEF Map
<1> QED BY <1>1, <1>2

LEMMA LeavesOfPartType ==
  ASSUME NEW inner \in [Nested -> SUBSET Leaf], NEW name \in Name, NEW w \in Json
  PROVE  LeavesOfPart(inner, name, w) \in SUBSET Leaf
<1>1. ASSUME IsNum(w) PROVE [field |-> name, value |-> w.num, tags |-> Empty] \in Leaf
  BY <1>1, EmptyIs DEF Leaf, Scalar
<1> QED BY <1>1 DEF LeavesOfPart, Nested

\* A leaf of v is one of a part, with the strings of v.
LEMMA LeavesOfIs ==
  ASSUME NEW inner \in [Nested -> SUBSET Leaf], NEW v \in Nested
  PROVE  /\ LeavesOf(inner, v) \in SUBSET Leaf
         /\ \A l \in LeavesOf(inner, v) :
              \E k \in DOMAIN Parts(v) :
                \E m \in LeavesOfPart(inner, NameAt(v, k), Parts(v)[k]) :
                  /\ m \in Leaf
                  /\ l.field = m.field /\ l.value = m.value /\ l.tags = Over(m.tags, Strings(v))
         /\ \A k \in DOMAIN Parts(v) :
              \A m \in LeavesOfPart(inner, NameAt(v, k), Parts(v)[k]) :
                \E l \in LeavesOf(inner, v) :
                  l.field = m.field /\ l.value = m.value /\ l.tags = Over(m.tags, Strings(v))
<1> DEFINE With(m) == [m EXCEPT !.tags = Over(m.tags, Strings(v))]
<1>1. ASSUME NEW m \in Leaf
      PROVE  /\ With(m) \in Leaf /\ With(m).field = m.field /\ With(m).value = m.value
             /\ With(m).tags = Over(m.tags, Strings(v))
  <2>1. m.tags \in Map /\ Strings(v) \in Map
    BY StringsAre DEF Leaf
  <2>2. Over(m.tags, Strings(v)) \in Map
    BY <2>1, OverIs
  <2> QED BY <2>2 DEF Leaf
<1>2. ASSUME NEW k \in DOMAIN Parts(v)
      PROVE  LeavesOfPart(inner, NameAt(v, k), Parts(v)[k]) \in SUBSET Leaf
  <2>1. NameAt(v, k) \in Name /\ Parts(v)[k] \in Json
    BY PartsAre DEF NameAt, Name
  <2> QED BY <2>1, LeavesOfPartType
<1>3. LeavesOf(inner, v) = {With(m) : m \in LeavesOfParts(inner, v)}
  BY DEF LeavesOf
<1>4. LeavesOfParts(inner, v) =
        UNION {LeavesOfPart(inner, NameAt(v, k), Parts(v)[k]) : k \in DOMAIN Parts(v)}
  BY DEF LeavesOfParts
<1> HIDE DEF With
<1> QED BY <1>1, <1>2, <1>3, <1>4

\* inside[n]: the leaves of the values that are nested n deep.
LeafDepths(inside) ==
  /\ inside \in [0 .. MaxDepth -> [Nested -> SUBSET Leaf]]
  /\ inside[0] = [v \in Nested |-> {}]
  /\ \A n \in 1 .. MaxDepth : inside[n] = [v \in Nested |-> LeavesOf(inside[n - 1], v)]

LEMMA LeavesInsideDef ==
  \E inside : LeafDepths(inside) /\ LeavesInside = inside[MaxDepth]
<1> DEFINE A == [Nested -> SUBSET Leaf]
           none == [v \in Nested |-> {}]
           Deeper(d) == [v \in Nested |-> LeavesOf(d, v)]
           Rec(f) == [n \in 0 .. MaxDepth |->
                        [v \in Nested |->
                           IF n = 0 THEN {} ELSE LeavesOf(f[n - 1], v)]]
           Step == [p \in (1 .. MaxDepth) \X A |-> Deeper(p[2])]
           inside == CHOOSE f : f = Rec(f)
<1>1. MaxDepth \in Nat
  BY JsonAssumption DEF JsonAssumption
<1>2. none \in A
  OBVIOUS
<1>3. ASSUME NEW d \in A PROVE Deeper(d) \in A
  BY LeavesOfIs
<1>4. ASSUME NEW f, NEW n \in 1 .. MaxDepth PROVE Rec(f)[n] = Deeper(f[n - 1])
  BY <1>1
<1>5. ASSUME NEW f PROVE Rec(f)[0] = none
  BY <1>1
<1> HIDE DEF Deeper, none, A
<1>6. inside = Rec(inside)
  <2>1. Step \in Steps(MaxDepth, A)
    BY <1>3 DEF Steps
  <2>2. PICK f : Follows(f, A, none, MaxDepth, Step)
    <3> HIDE DEF Step
    <3> QED BY <1>1, <1>2, <2>1, Recursion
  <2>3. f \in [0 .. MaxDepth -> A] /\ f[0] = none
    BY <2>2 DEF Follows
  <2>4. ASSUME NEW n \in 1 .. MaxDepth PROVE f[n] = Deeper(f[n - 1])
    <3>1. <<n, f[n - 1]>> \in (1 .. MaxDepth) \X A
      BY <1>1, <2>3
    <3>2. f[n] = Step[<<n, f[n - 1]>>]
      BY <2>2 DEF Follows
    <3> QED BY <3>1, <3>2
  <2> HIDE DEF Rec
  <2>5. ASSUME NEW n \in 0 .. MaxDepth PROVE f[n] = Rec(f)[n]
    <3>1. CASE n = 0
      BY <1>5, <2>3, <3>1
    <3>2. CASE n # 0
      BY <1>1, <1>4, <2>4, <3>2
    <3> QED BY <3>1, <3>2
  <2>6. f = Rec(f)
    BY <2>3, <2>5 DEF Rec
  <2> QED BY <2>6
<1>7. LeavesInside = inside[MaxDepth]
  BY DEF LeavesInside, LeavesOf
<1> HIDE DEF inside
<1>8. inside[0] = none /\ \A n \in 1 .. MaxDepth : inside[n] = Deeper(inside[n - 1])
  <2> HIDE DEF Rec
  <2> QED BY <1>4, <1>5, <1>6
<1>9. \A n \in 0 .. MaxDepth : inside[n] \in A
  <2> DEFINE S == {n \in 0 .. MaxDepth : inside[n] \in A}
  <2>1. 0 \in S
    BY <1>1, <1>2, <1>8
  <2>2. \A n \in 1 .. MaxDepth : n - 1 \in S => n \in S
    BY <1>1, <1>3, <1>8
  <2> HIDE DEF S
  <2>3. \A n \in 0 .. MaxDepth : n \in S
    BY <1>1, <2>1, <2>2, InductionUpTo
  <2> QED BY <2>3 DEF S
<1>10. inside \in [0 .. MaxDepth -> A]
  BY <1>6, <1>9
<1>11. LeafDepths(inside)
  BY <1>8, <1>10 DEF LeafDepths, A, none, Deeper
<1> QED BY <1>7, <1>11

------------------------------------------------------------------------------
(* Rows and leaves.                                                         *)

\* The row i has the number l and its strings.
Has(fields, tags, i, l) ==
  /\ l.field \in DOMAIN fields[i] /\ fields[i][l.field] = l.value
  /\ Within(l.tags, tags[i])

\* The rows are those of the leaves: this is what RowsMatchValue says of a point.
Matches(fields, tags, leaves) ==
  /\ Len(fields) = Len(tags)
  /\ \A i \in 1 .. Len(fields) : \A f \in DOMAIN fields[i] :
       \E l \in leaves : l.field = f /\ Has(fields, tags, i, l)
  /\ \A i \in 1 .. Len(fields) : ~IsInvalidStat(tags[i])
  /\ \A l \in leaves :
       ~IsInvalidStat(l.tags) => \E i \in 1 .. Len(fields) : Has(fields, tags, i, l)

\* The names that the rows use.
UsesNames(fields, tags, fieldNames, tagNames) ==
  \A i \in 1 .. Len(fields) :
    DOMAIN fields[i] \subseteq fieldNames /\ DOMAIN tags[i] \subseteq tagNames

LEMMA ConcatIs ==
  ASSUME NEW s \in Seq(Map), NEW t \in Seq(Map)
  PROVE  /\ Len(s) \in Nat /\ Len(t) \in Nat /\ Len(s \o t) = Len(s) + Len(t)
         /\ \A i \in 1 .. Len(s) : (s \o t)[i] = s[i]
         /\ \A i \in 1 .. Len(t) : (s \o t)[Len(s) + i] = t[i]
OBVIOUS

\* f and t are f1 and t1 with f2 and t2 behind them, row by row.
Joins(f, t, f1, t1, f2, t2) ==
  /\ Len(f1) \in Nat /\ Len(f2) \in Nat
  /\ Len(f) = Len(f1) + Len(f2) /\ Len(t) = Len(f1) + Len(f2)
  /\ \A i \in 1 .. Len(f1) : f[i] = f1[i] /\ t[i] = t1[i]
  /\ \A i \in 1 .. Len(f2) : f[Len(f1) + i] = f2[i] /\ t[Len(f1) + i] = t2[i]

LEMMA ConcatsAre ==
  ASSUME NEW f1 \in Seq(Map), NEW t1 \in Seq(Map), NEW f2 \in Seq(Map), NEW t2 \in Seq(Map),
         Len(f1) = Len(t1), Len(f2) = Len(t2)
  PROVE  Joins(f1 \o f2, t1 \o t2, f1, t1, f2, t2)
<1> DEFINE f == f1 \o f2
           t == t1 \o t2
           a == Len(f1)
           b == Len(f2)
           c == Len(t1)
           d == Len(t2)
<1>1. /\ a \in Nat /\ b \in Nat /\ Len(f) = a + b
      /\ \A i \in 1 .. a : f[i] = f1[i]
      /\ \A i \in 1 .. b : f[a + i] = f2[i]
  BY ConcatIs
<1>2. /\ Len(t) = c + d
      /\ \A i \in 1 .. c : t[i] = t1[i]
      /\ \A i \in 1 .. d : t[c + i] = t2[i]
  BY ConcatIs
<1>3. a = c /\ b = d
  OBVIOUS
<1> HIDE DEF f, t, a, b, c, d
<1>4. /\ a \in Nat /\ b \in Nat /\ Len(f) = a + b /\ Len(t) = a + b
      /\ \A i \in 1 .. a : f[i] = f1[i] /\ t[i] = t1[i]
      /\ \A i \in 1 .. b : f[a + i] = f2[i] /\ t[a + i] = t2[i]
  BY <1>1, <1>2, <1>3
<1>5. Joins(f, t, f1, t1, f2, t2)
  BY <1>4 DEF Joins, a, b
<1> QED BY <1>5 DEF f, t

\* Rows that are put one after the other have the leaves of both.
LEMMA MatchesConcat ==
  ASSUME NEW f1 \in Seq(Map), NEW t1 \in Seq(Map), NEW L1, Matches(f1, t1, L1),
         NEW f2 \in Seq(Map), NEW t2 \in Seq(Map), NEW L2, Matches(f2, t2, L2)
  PROVE  Matches(f1 \o f2, t1 \o t2, L1 \cup L2)
<1> DEFINE f == f1 \o f2
           t == t1 \o t2
           a == Len(f1)
           b == Len(f2)
<1>1. /\ a \in Nat /\ b \in Nat /\ Len(f) = a + b /\ Len(t) = a + b
      /\ Len(t1) = a /\ Len(t2) = b
      /\ \A i \in 1 .. a : f[i] = f1[i] /\ t[i] = t1[i]
      /\ \A i \in 1 .. b : f[a + i] = f2[i] /\ t[a + i] = t2[i]
  <2>1. Len(t1) = a /\ Len(t2) = b
    BY DEF Matches
  <2>2. Joins(f1 \o f2, t1 \o t2, f1, t1, f2, t2)
    BY <2>1, ConcatsAre
  <2> HIDE DEF f, t
  <2>3. Joins(f, t, f1, t1, f2, t2)
    BY <2>2 DEF f, t
  <2> QED BY <2>1, <2>3 DEF Joins
<1> HIDE DEF f, t, a, b
<1>2. \A i \in 1 .. a + b : i \in 1 .. a \/ \E j \in 1 .. b : i = a + j
  <2> SUFFICES ASSUME NEW i \in 1 .. a + b, i \notin 1 .. a PROVE \E j \in 1 .. b : i = a + j
    OBVIOUS
  <2>1. i - a \in 1 .. b /\ i = a + (i - a)
    BY <1>1
  <2> QED BY <2>1
<1>3. \A i \in 1 .. a : i \in 1 .. a + b /\ \A l : Has(f, t, i, l) <=> Has(f1, t1, i, l)
  BY <1>1 DEF Has
<1>4. \A i \in 1 .. b : a + i \in 1 .. a + b /\ \A l : Has(f, t, a + i, l) <=> Has(f2, t2, i, l)
  BY <1>1 DEF Has
<1>5. ASSUME NEW i \in 1 .. a + b
      PROVE  /\ ~IsInvalidStat(t[i])
             /\ \A n \in DOMAIN f[i] : \E l \in L1 \cup L2 : l.field = n /\ Has(f, t, i, l)
  <2>1. CASE i \in 1 .. a
    BY <1>1, <1>3, <2>1 DEF Matches, a
  <2>2. ASSUME NEW j \in 1 .. b, i = a + j
        PROVE  /\ ~IsInvalidStat(t[i])
               /\ \A n \in DOMAIN f[i] : \E l \in L1 \cup L2 : l.field = n /\ Has(f, t, i, l)
    BY <1>1, <1>4, <2>2 DEF Matches, b
  <2> QED BY <1>2, <2>1, <2>2
<1>6. ASSUME NEW l \in L1 \cup L2, ~IsInvalidStat(l.tags)
      PROVE  \E i \in 1 .. a + b : Has(f, t, i, l)
  <2>1. CASE l \in L1
    BY <1>3, <1>6, <2>1 DEF Matches, a
  <2>2. CASE l \in L2
    <3>1. PICK j \in 1 .. b : Has(f2, t2, j, l)
      BY <1>6, <2>2 DEF Matches, b
    <3> QED BY <1>4, <3>1
  <2> QED BY <2>1, <2>2
<1> QED BY <1>1, <1>5, <1>6 DEF Matches, f, t

LEMMA NamedConcat ==
  ASSUME NEW f1 \in Seq(Map), NEW t1 \in Seq(Map), NEW f2 \in Seq(Map), NEW t2 \in Seq(Map),
         Len(f1) = Len(t1), Len(f2) = Len(t2), NEW F, NEW T,
         UsesNames(f1, t1, F, T), UsesNames(f2, t2, F, T)
  PROVE  UsesNames(f1 \o f2, t1 \o t2, F, T)
<1> DEFINE f == f1 \o f2
           t == t1 \o t2
           a == Len(f1)
           b == Len(f2)
<1>1. /\ a \in Nat /\ b \in Nat /\ Len(f) = a + b
      /\ \A i \in 1 .. a : f[i] = f1[i] /\ t[i] = t1[i]
      /\ \A i \in 1 .. b : f[a + i] = f2[i] /\ t[a + i] = t2[i]
  <2>1. Joins(f1 \o f2, t1 \o t2, f1, t1, f2, t2)
    BY ConcatsAre
  <2> HIDE DEF f, t
  <2>2. Joins(f, t, f1, t1, f2, t2)
    BY <2>1 DEF f, t
  <2> QED BY <2>2 DEF Joins
<1>2. ASSUME NEW i \in 1 .. a + b PROVE DOMAIN f[i] \subseteq F /\ DOMAIN t[i] \subseteq T
  <2> HIDE DEF f, t
  <2>1. CASE i \in 1 .. a
    BY <1>1, <2>1 DEF UsesNames
  <2>2. CASE i \notin 1 .. a
    <3> DEFINE j == i - a
    <3>1. j \in 1 .. b /\ i = a + j
      BY <1>1, <2>2
    <3> HIDE DEF j
    <3> QED BY <1>1, <3>1 DEF UsesNames
  <2> QED BY <2>1, <2>2
<1> HIDE DEF f, t
<1> QED BY <1>1, <1>2 DEF UsesNames, f, t

------------------------------------------------------------------------------
(* What a regular value gives for one of its parts.                         *)

PartLeaves(inside, v, k) == LeavesOfPart(inside, NameAt(v, k), Parts(v)[k])
PartNumbers(numbers, v, k) == FieldsOf(numbers, NameAt(v, k), Parts(v)[k])
PartStrings(strings, v, k) == IF IsNested(Parts(v)[k]) THEN strings[Parts(v)[k]] ELSE {}

\* The parts that have rows of their own.
IsRows(v, k) == IsArr(v) \/ IsArr(Parts(v)[k])

\* The leaves of values that are nested less deep, and the names in all values.
Setting(strings, numbers, inside) ==
  /\ NamesInside(strings, numbers)
  /\ Regular(strings, numbers)
  /\ inside \in [Nested -> SUBSET Leaf]
  /\ \A w \in Nested : \A l \in inside[w] :
       l.field \in numbers[w] /\ DOMAIN l.tags \subseteq strings[w]

PartOf(strings, numbers, inside, v, k) ==
  /\ PartLeaves(inside, v, k) \subseteq Leaf
  /\ \A m \in PartLeaves(inside, v, k) :
       m.field \in PartNumbers(numbers, v, k) /\ DOMAIN m.tags \subseteq PartStrings(strings, v, k)
  /\ PartNumbers(numbers, v, k) \subseteq numbers[v]
  /\ PartStrings(strings, v, k) \subseteq strings[v]
  /\ PartStrings(strings, v, k) \cap DOMAIN Strings(v) = {}
  /\ ~IsRows(v, k) =>
       /\ PartStrings(strings, v, k) = {}
       /\ \A j \in DOMAIN Parts(v) \ {k} :
            PartNumbers(numbers, v, k) \cap PartNumbers(numbers, v, j) = {}

LEMMA PartsOf ==
  ASSUME NEW strings, NEW numbers, NEW inside, Setting(strings, numbers, inside),
         NEW v \in Nested, NEW k \in DOMAIN Parts(v)
  PROVE  PartOf(strings, numbers, inside, v, k)
<1> DEFINE w == Parts(v)[k]
<1>1. w \in Json /\ NameAt(v, k) \in Name
  BY PartsAre DEF NameAt, Name
<1>2. PartLeaves(inside, v, k) \subseteq Leaf
  BY <1>1, LeavesOfPartType DEF PartLeaves, Setting
<1>3. ASSUME NEW m \in PartLeaves(inside, v, k)
      PROVE  /\ m.field \in PartNumbers(numbers, v, k)
             /\ DOMAIN m.tags \subseteq PartStrings(strings, v, k)
  <2>1. CASE IsNum(w)
    <3>1. m.field = NameAt(v, k) /\ m.tags = Empty
      BY <1>3, <2>1 DEF PartLeaves, LeavesOfPart
    <3> QED BY <2>1, <3>1, EmptyIs DEF PartNumbers, FieldsOf
  <2>2. CASE ~IsNum(w) /\ IsNested(w)
    <3>1. w \in Nested
      BY <1>1, <2>2 DEF Nested
    <3>2. m \in inside[w]
      BY <1>3, <2>2 DEF PartLeaves, LeavesOfPart
    <3>3. m.field \in numbers[w] /\ DOMAIN m.tags \subseteq strings[w]
      BY <3>1, <3>2 DEF Setting
    <3> QED BY <2>2, <3>3 DEF PartNumbers, PartStrings, FieldsOf
  <2>3. CASE ~IsNum(w) /\ ~IsNested(w)
    BY <1>3, <2>3 DEF PartLeaves, LeavesOfPart
  <2> QED BY <2>1, <2>2, <2>3
<1>4. /\ PartNumbers(numbers, v, k) \subseteq numbers[v]
      /\ PartStrings(strings, v, k) \subseteq strings[v]
  BY DEF Setting, NamesInside, PartNumbers, PartStrings
<1>5. CASE IsArr(v)
  <2>1. DOMAIN Strings(v) = {} /\ IsRows(v, k)
    BY <1>5, StringsAre DEF IsRows
  <2> QED BY <1>2, <1>3, <1>4, <2>1 DEF PartOf
<1>6. CASE ~IsArr(v)
  <2>1. /\ Parts(v) = v.obj
        /\ IsArr(w) => strings[w] \cap DOMAIN Strings(v) = {}
        /\ IsObj(w) => strings[w] = {}
        /\ \A j \in DOMAIN v.obj \ {k} :
             \/ IsArr(w) /\ IsArr(v.obj[j])
             \/ FieldsOf(numbers, k, w) \cap FieldsOf(numbers, j, v.obj[j]) = {}
    BY <1>6 DEF Setting, Regular, Parts
  <2>2. PartStrings(strings, v, k) \cap DOMAIN Strings(v) = {}
    BY <2>1 DEF PartStrings, IsNested
  <2>3. ASSUME ~IsRows(v, k)
        PROVE  /\ PartStrings(strings, v, k) = {}
               /\ \A j \in DOMAIN Parts(v) \ {k} :
                    PartNumbers(numbers, v, k) \cap PartNumbers(numbers, v, j) = {}
    BY <1>6, <2>1, <2>3 DEF IsRows, PartStrings, IsNested, PartNumbers, NameAt
  <2> QED BY <1>2, <1>3, <1>4, <2>2, <2>3 DEF PartOf
<1> QED BY <1>5, <1>6

\* The strings of an object are not among the tags of the device.
LEMMA StringNames ==
  ASSUME NEW strings, NEW numbers, NEW inside, Setting(strings, numbers, inside), NEW v \in Nested
  PROVE  /\ DOMAIN Strings(v) \cap BaseTags = {}
         /\ DOMAIN Strings(v) \subseteq strings[v]
<1>1. CASE IsArr(v)
  BY <1>1, StringsAre
<1>2. CASE ~IsArr(v)
  <2>1. IsObj(v) /\ Parts(v) = v.obj /\ DOMAIN Strings(v) = {n \in DOMAIN v.obj : IsStr(v.obj[n])}
    BY <1>2, StringsAre DEF Nested, IsNested, Parts
  <2>2. ASSUME NEW n \in DOMAIN v.obj, IsStr(v.obj[n]) PROVE n \notin BaseTags /\ n \in strings[v]
    BY <1>2, <2>1, <2>2 DEF Setting, Regular, NamesInside, BaseTags
  <2> QED BY <2>1, <2>2
<1> QED BY <1>1, <1>2

\* The leaves of v have names that occur in v, too.
LEMMA LeavesNamed ==
  ASSUME NEW strings, NEW numbers, NEW inside, Setting(strings, numbers, inside), NEW v \in Nested,
         NEW l \in LeavesOf(inside, v)
  PROVE  l.field \in numbers[v] /\ DOMAIN l.tags \subseteq strings[v]
<1>1. inside \in [Nested -> SUBSET Leaf]
  BY DEF Setting
<1>2. PICK k \in DOMAIN Parts(v) : \E m \in PartLeaves(inside, v, k) :
        l.field = m.field /\ l.tags = Over(m.tags, Strings(v))
  BY <1>1, LeavesOfIs DEF PartLeaves
<1> PICK m \in PartLeaves(inside, v, k) : l.field = m.field /\ l.tags = Over(m.tags, Strings(v))
  BY <1>2
<1>3. PartOf(strings, numbers, inside, v, k)
  BY PartsOf
<1>4. DOMAIN Strings(v) \subseteq strings[v]
  BY StringNames
<1>5. DOMAIN l.tags = DOMAIN m.tags \cup DOMAIN Strings(v)
  BY OverIs
<1> QED BY <1>3, <1>4, <1>5 DEF PartOf

------------------------------------------------------------------------------
(* What the parts decode to.                                                *)

\* The outcomes of values that are nested less deep are those of their leaves.
Deeper(deeper, strings, numbers, inside) ==
  /\ deeper \in [Nested -> SUBSET Out]
  /\ \A w \in Nested : \A o \in deeper[w] :
       o.end = "ok" =>
         /\ Matches(o.fields, o.tags, inside[w])
         /\ UsesNames(o.fields, o.tags, numbers[w], BaseTags \cup strings[w])

IsBase(base) == base \in Map /\ DOMAIN base \subseteq BaseTags

\* The outcomes of a part of v that is not a string are those of its leaves.
LEMMA NumberMatches ==
  ASSUME NEW name \in Name, NEW x \in Scalar, NEW base, IsBase(base), NEW o, NEW l,
         o = Outcome(<<Entry(name, x)>>, <<base>>),
         l = [field |-> name, value |-> x, tags |-> Empty]
  PROVE  Matches(o.fields, o.tags, {l}) /\ UsesNames(o.fields, o.tags, {name}, BaseTags)
<1> DEFINE fields == <<Entry(name, x)>>
           tags == <<base>>
<1>1. Entry(name, x) \in Map /\ DOMAIN Entry(name, x) = {name} /\ Entry(name, x)[name] = x
  BY EntryIs
<1>2. /\ fields \in Seq(Map) /\ Len(fields) = 1 /\ fields[1] = Entry(name, x)
      /\ tags \in Seq(Map) /\ Len(tags) = 1 /\ tags[1] = base
  BY <1>1, RowIs DEF IsBase
<1>3. o = Outcome(fields, tags)
  OBVIOUS
<1> HIDE DEF fields, tags
<1>4. o.fields = fields /\ o.tags = tags
  BY <1>2, <1>3, OutcomeIs
<1>5. l.field = name /\ l.value = x /\ DOMAIN l.tags = {}
  BY EmptyIs
<1>6. ~IsInvalidStat(base)
  BY DEF IsBase, BaseTags, IsInvalidStat
<1>7. 1 .. 1 = {1}
  OBVIOUS
<1>8. Has(fields, tags, 1, l)
  BY <1>1, <1>2, <1>5 DEF Has, Within
<1>9. Matches(fields, tags, {l})
  BY <1>1, <1>2, <1>5, <1>6, <1>7, <1>8 DEF Matches
<1>10. UsesNames(fields, tags, {name}, BaseTags)
  BY <1>1, <1>2, <1>7 DEF UsesNames, IsBase
<1> QED BY <1>4, <1>9, <1>10

LEMMA PartMatches ==
  ASSUME NEW strings, NEW numbers, NEW inside, Setting(strings, numbers, inside),
         NEW deeper, Deeper(deeper, strings, numbers, inside), NEW base, IsBase(base),
         NEW v \in Nested, NEW k \in DOMAIN Parts(v), ~IsStr(Parts(v)[k]),
         NEW o \in DecodePart(deeper, NameAt(v, k), Parts(v)[k], base), o.end = "ok"
  PROVE  /\ Matches(o.fields, o.tags, PartLeaves(inside, v, k))
         /\ UsesNames(o.fields, o.tags, PartNumbers(numbers, v, k),
                  BaseTags \cup PartStrings(strings, v, k))
<1> DEFINE w == Parts(v)[k]
           name == NameAt(v, k)
<1>1. w \in Json /\ name \in Name
  BY PartsAre DEF NameAt, Name
<1>2. Ended("die").end # "ok" /\ Ended("error").end # "ok"
  BY DEF Ended
<1>3. IsNum(w) \/ (~IsNum(w) /\ IsNested(w))
  BY <1>2 DEF DecodePart
<1>4. CASE IsNum(w)
  <2> DEFINE l == [field |-> name, value |-> w.num, tags |-> Empty]
  <2>1. w.num \in Scalar
    BY <1>1, <1>4 DEF Scalar
  <2>2. o = Outcome(<<Entry(name, w.num)>>, <<base>>)
    BY <1>2, <1>4 DEF DecodePart
  <2>3. PartLeaves(inside, v, k) = {l} /\ PartNumbers(numbers, v, k) = {name}
    BY <1>4 DEF PartLeaves, LeavesOfPart, PartNumbers, FieldsOf
  <2>4. PartStrings(strings, v, k) = {}
    <3>1. ~IsNested(w)
      BY <1>1, <1>4, JsonAssumption DEF JsonAssumption, IsNested, IsNum, IsArr, IsObj
    <3> QED BY <3>1 DEF PartStrings
  <2> HIDE DEF l, w, name
  <2>5. Matches(o.fields, o.tags, {l}) /\ UsesNames(o.fields, o.tags, {name}, BaseTags)
    BY <1>1, <2>1, <2>2, NumberMatches DEF l
  <2> QED BY <2>3, <2>4, <2>5
<1>5. CASE ~IsNum(w) /\ IsNested(w)
  <2>1. w \in Nested
    BY <1>1, <1>5 DEF Nested
  <2>2. o \in deeper[w]
    BY <1>5 DEF DecodePart
  <2>3. /\ PartLeaves(inside, v, k) = inside[w] /\ PartNumbers(numbers, v, k) = numbers[w]
        /\ PartStrings(strings, v, k) = strings[w]
    BY <1>5 DEF PartLeaves, LeavesOfPart, PartNumbers, FieldsOf, PartStrings
  <2> QED BY <2>1, <2>2, <2>3 DEF Deeper
<1> QED BY <1>3, <1>4, <1>5

------------------------------------------------------------------------------
(* The rows that the loop collects.                                         *)

\* The leaves of the parts V that have rows, and the names in all such parts.
RowLeaves(inside, v, V) == UNION {PartLeaves(inside, v, k) : k \in {j \in V : IsRows(v, j)}}
RowNumbers(numbers, v) ==
  UNION {PartNumbers(numbers, v, k) : k \in {j \in DOMAIN Parts(v) : IsRows(v, j)}}
RowStrings(strings, v) ==
  UNION {PartStrings(strings, v, k) : k \in {j \in DOMAIN Parts(v) : IsRows(v, j)}}

\* The rows after the parts V have been visited.
RowsDone(strings, numbers, inside, v, acc, V) ==
  /\ Matches(acc.subfields, acc.subtags, RowLeaves(inside, v, V))
  /\ UsesNames(acc.subfields, acc.subtags, RowNumbers(numbers, v),
           BaseTags \cup RowStrings(strings, v))

LEMMA RowsStart ==
  ASSUME NEW strings, NEW numbers, NEW inside, NEW v, NEW base
  PROVE  RowsDone(strings, numbers, inside, v, Start(base), {})
<1> DEFINE e == <<>>
<1>1. Start(base).subfields = e /\ Start(base).subtags = e
  BY DEF Start
<1>2. Len(e) = 0 /\ 1 .. 0 = {}
  OBVIOUS
<1>3. RowLeaves(inside, v, {}) = {}
  BY DEF RowLeaves
<1> HIDE DEF e
<1> QED BY <1>1, <1>2, <1>3 DEF RowsDone, Matches, UsesNames

\* Names that are enough stay enough.
LEMMA NamedMore ==
  ASSUME NEW fields, NEW tags, NEW F, NEW T, UsesNames(fields, tags, F, T),
         NEW F2, F \subseteq F2, NEW T2, T \subseteq T2
  PROVE  UsesNames(fields, tags, F2, T2)
BY DEF UsesNames

LEMMA RowsAdded ==
  ASSUME NEW strings, NEW numbers, NEW inside, Setting(strings, numbers, inside),
         NEW deeper, Deeper(deeper, strings, numbers, inside), NEW base, IsBase(base),
         NEW v \in Nested, NEW k \in DOMAIN Parts(v), IsRows(v, k), ~IsStr(Parts(v)[k]),
         NEW o \in Out, o \in DecodePart(deeper, NameAt(v, k), Parts(v)[k], base), o.end = "ok",
         NEW acc \in Acc, NEW V, RowsDone(strings, numbers, inside, v, acc, V)
  PROVE  RowsDone(strings, numbers, inside, v, AddRows(acc, o), V \cup {k})
<1> DEFINE new == AddRows(acc, o)
           F == RowNumbers(numbers, v)
           T == BaseTags \cup RowStrings(strings, v)
<1>1. /\ new.subfields = acc.subfields \o o.fields
      /\ new.subtags = acc.subtags \o o.tags
  BY AddRowsIs
<1>2. /\ acc.subfields \in Seq(Map) /\ acc.subtags \in Seq(Map)
      /\ o.fields \in Seq(Map) /\ o.tags \in Seq(Map)
  BY DEF Acc, Out
<1>3. /\ Matches(o.fields, o.tags, PartLeaves(inside, v, k))
      /\ UsesNames(o.fields, o.tags, PartNumbers(numbers, v, k),
               BaseTags \cup PartStrings(strings, v, k))
  BY PartMatches
<1>4. /\ PartNumbers(numbers, v, k) \subseteq F
      /\ BaseTags \cup PartStrings(strings, v, k) \subseteq T
  BY DEF RowNumbers, RowStrings
<1>5. RowLeaves(inside, v, V \cup {k}) = RowLeaves(inside, v, V) \cup PartLeaves(inside, v, k)
  BY DEF RowLeaves
<1> HIDE DEF new, F, T
<1>6. UsesNames(o.fields, o.tags, F, T)
  BY <1>3, <1>4, NamedMore
<1>7. UsesNames(acc.subfields, acc.subtags, F, T)
  BY DEF RowsDone, F, T
<1>8. Matches(new.subfields, new.subtags, RowLeaves(inside, v, V) \cup PartLeaves(inside, v, k))
  BY <1>1, <1>2, <1>3, MatchesConcat DEF RowsDone
<1>9. UsesNames(new.subfields, new.subtags, F, T)
  <2>1. Len(acc.subfields) = Len(acc.subtags) /\ Len(o.fields) = Len(o.tags)
    BY <1>3 DEF RowsDone, Matches
  <2> QED BY <1>1, <1>2, <1>6, <1>7, <2>1, NamedConcat
<1> QED BY <1>5, <1>8, <1>9 DEF RowsDone, new, F, T

\* A part without rows leaves them as they are.
LEMMA RowsKept ==
  ASSUME NEW strings, NEW numbers, NEW inside, NEW v, NEW k, ~IsRows(v, k),
         NEW acc, NEW new, new.subfields = acc.subfields, new.subtags = acc.subtags,
         NEW V, RowsDone(strings, numbers, inside, v, acc, V)
  PROVE  RowsDone(strings, numbers, inside, v, new, V \cup {k})
<1>1. RowLeaves(inside, v, V \cup {k}) = RowLeaves(inside, v, V)
  BY DEF RowLeaves
<1> QED BY <1>1 DEF RowsDone

------------------------------------------------------------------------------
(* The loop over the members of an object.                                  *)

\* acc has the strings, the fields and whether there are rows, of the parts V.
ObjectDone(inside, v, acc, V) ==
  /\ DOMAIN acc.tags \subseteq BaseTags \cup DOMAIN Strings(v)
  /\ \A n \in DOMAIN Strings(v) : n \in V => n \in DOMAIN acc.tags /\ acc.tags[n] = Strings(v)[n]
  /\ \A f \in DOMAIN acc.fields :
       \E k \in V : ~IsRows(v, k) /\ \E m \in PartLeaves(inside, v, k) :
                                       m.field = f /\ m.value = acc.fields[f]
  /\ \A k \in V : ~IsRows(v, k) =>
       \A m \in PartLeaves(inside, v, k) :
         m.field \in DOMAIN acc.fields /\ acc.fields[m.field] = m.value
  /\ acc.simple <=> \A k \in V : ~IsRows(v, k)
  /\ ~acc.simple => Len(acc.subfields) > 0

WithTags(acc, tags) == [acc EXCEPT !.tags = tags]
WithFields(acc, fields) == [acc EXCEPT !.fields = fields]

LEMMA WithTagsIs ==
  ASSUME NEW acc \in Acc, NEW tags \in Map
  PROVE  /\ WithTags(acc, tags).tags = tags
         /\ WithTags(acc, tags).fields = acc.fields /\ WithTags(acc, tags).simple = acc.simple
         /\ WithTags(acc, tags).subfields = acc.subfields
         /\ WithTags(acc, tags).subtags = acc.subtags
BY DEF WithTags, Acc

LEMMA WithFieldsIs ==
  ASSUME NEW acc \in Acc, NEW fields \in Map
  PROVE  /\ WithFields(acc, fields).fields = fields
         /\ WithFields(acc, fields).tags = acc.tags /\ WithFields(acc, fields).simple = acc.simple
         /\ WithFields(acc, fields).subfields = acc.subfields
         /\ WithFields(acc, fields).subtags = acc.subtags
BY DEF WithFields, Acc

LEMMA ObjectStart ==
  ASSUME NEW inside, NEW v, NEW base, IsBase(base)
  PROVE  ObjectDone(inside, v, Start(base), {})
<1>1. /\ Start(base).tags = base /\ Start(base).fields = Empty /\ Start(base).simple = TRUE
  BY DEF Start
<1> QED BY <1>1, EmptyIs DEF ObjectDone, IsBase

\* A string becomes a tag.
LEMMA StringAdded ==
  ASSUME NEW strings, NEW numbers, NEW inside, Setting(strings, numbers, inside),
         NEW base, IsBase(base), NEW v \in Nested, ~IsArr(v),
         NEW k \in DOMAIN Parts(v), IsStr(Parts(v)[k]),
         NEW acc \in Acc, NEW V, ObjectDone(inside, v, acc, V)
  PROVE  ObjectDone(inside, v, WithTags(acc, Over(Over(Entry(k, Parts(v)[k].str), base), acc.tags)),
                    V \cup {k})
<1> DEFINE x == Parts(v)[k].str
           tag == Over(Entry(k, x), base)
           tags == Over(tag, acc.tags)
           new == WithTags(acc, tags)
           w == Parts(v)[k]
<1>1. Parts(v) = v.obj /\ w \in Json /\ k \in Name
  BY PartsAre DEF Parts
<1>2. k \in DOMAIN Strings(v) /\ Strings(v)[k] = x
  BY <1>1, StringsAre
<1>3. ~IsRows(v, k) /\ PartLeaves(inside, v, k) = {}
  <2>1. ~IsNum(w) /\ ~IsArr(w) /\ ~IsObj(w)
    BY <1>1, JsonAssumption DEF JsonAssumption, IsNum, IsArr, IsObj, IsStr
  <2> QED BY <2>1 DEF IsRows, PartLeaves, LeavesOfPart, IsNested
<1>4. x \in Scalar /\ acc.tags \in Map /\ base \in Map
  BY <1>1 DEF Scalar, Acc, IsBase
<1> HIDE DEF x
<1>5. DOMAIN Entry(k, x) = {k} /\ Entry(k, x)[k] = x /\ Entry(k, x) \in Map
  BY <1>1, <1>4, EntryIs
<1>6. /\ DOMAIN tag = {k} \cup DOMAIN base /\ tag[k] = x /\ tag \in Map
  <2> DEFINE entry == Entry(k, x)
  <2>1. DOMAIN entry = {k} /\ entry[k] = x /\ entry \in Map /\ tag = Over(entry, base)
    BY <1>5
  <2> HIDE DEF entry, tag
  <2>2. k \in DOMAIN entry
    BY <2>1
  <2>3. /\ DOMAIN Over(entry, base) = DOMAIN entry \cup DOMAIN base
        /\ \A n \in DOMAIN entry : Over(entry, base)[n] = entry[n]
        /\ Over(entry, base) \in Map
    BY <1>4, <2>1, OverIs
  <2> QED BY <2>1, <2>2, <2>3
<1> HIDE DEF tag
<1>7. /\ DOMAIN tags = DOMAIN tag \cup DOMAIN acc.tags /\ tags \in Map
      /\ \A n \in DOMAIN tag : tags[n] = tag[n]
      /\ \A n \in DOMAIN acc.tags : n \notin DOMAIN tag => tags[n] = acc.tags[n]
  BY <1>4, <1>6, OverIs, ZenonT(30)
<1> HIDE DEF tags
<1>8. /\ new.tags = tags /\ new.fields = acc.fields /\ new.simple = acc.simple
      /\ new.subfields = acc.subfields
  BY <1>7, WithTagsIs
<1> HIDE DEF new
<1>9. DOMAIN Strings(v) \cap BaseTags = {}
  BY StringNames
<1>10. DOMAIN tags \subseteq BaseTags \cup DOMAIN Strings(v)
  BY <1>2, <1>6, <1>7 DEF ObjectDone, IsBase
<1>11. ASSUME NEW n \in DOMAIN Strings(v), n \in V \cup {k}
       PROVE  n \in DOMAIN tags /\ tags[n] = Strings(v)[n]
  <2>1. CASE n = k
    BY <1>2, <1>6, <1>7, <2>1
  <2>2. CASE n # k
    <3>1. n \notin DOMAIN tag
      BY <1>6, <1>9, <2>2 DEF IsBase
    <3> QED BY <1>7, <1>11, <2>2, <3>1 DEF ObjectDone
  <2> QED BY <2>1, <2>2
<1>12. ObjectDone(inside, v, new, V \cup {k})
  BY <1>3, <1>8, <1>10, <1>11 DEF ObjectDone
<1> QED BY <1>12 DEF new, tags, tag, x

\* A number, or an object that makes one row, becomes fields.
LEMMA FieldsAdded ==
  ASSUME NEW strings, NEW numbers, NEW inside, Setting(strings, numbers, inside),
         NEW v \in Nested, ~IsArr(v), NEW k \in DOMAIN Parts(v), ~IsRows(v, k),
         ~IsStr(Parts(v)[k]), NEW o \in Out, Len(o.fields) = 1,
         Matches(o.fields, o.tags, PartLeaves(inside, v, k)),
         UsesNames(o.fields, o.tags, PartNumbers(numbers, v, k),
               BaseTags \cup PartStrings(strings, v, k)),
         NEW acc \in Acc, NEW V \in SUBSET DOMAIN Parts(v), ObjectDone(inside, v, acc, V)
  PROVE  ObjectDone(inside, v, WithFields(acc, Over(o.fields[1], acc.fields)), V \cup {k})
<1> DEFINE row == o.fields[1]
           fields == Over(row, acc.fields)
           new == WithFields(acc, fields)
<1>1. row \in Map /\ acc.fields \in Map
  BY DEF Out, Acc
<1>2. DOMAIN row \subseteq PartNumbers(numbers, v, k)
  BY DEF UsesNames
<1>3. \A f \in DOMAIN row : \E m \in PartLeaves(inside, v, k) : m.field = f /\ m.value = row[f]
  BY DEF Matches, Has
<1>4. PartOf(strings, numbers, inside, v, k)
  BY PartsOf
<1>5. ASSUME NEW m \in PartLeaves(inside, v, k)
      PROVE  m.field \in DOMAIN row /\ row[m.field] = m.value
  <2>1. DOMAIN m.tags = {}
    BY <1>4 DEF PartOf
  <2>2. ~IsInvalidStat(m.tags)
    BY <2>1 DEF IsInvalidStat
  <2>3. PICK i \in 1 .. Len(o.fields) : Has(o.fields, o.tags, i, m)
    BY <2>2 DEF Matches
  <2>4. i = 1
    BY <2>3
  <2> QED BY <2>3, <2>4 DEF Has
<1> HIDE DEF row
<1>6. /\ DOMAIN fields = DOMAIN row \cup DOMAIN acc.fields /\ fields \in Map
      /\ \A f \in DOMAIN row : fields[f] = row[f]
      /\ \A f \in DOMAIN acc.fields : f \notin DOMAIN row => fields[f] = acc.fields[f]
  <2> DEFINE old == acc.fields
  <2>1. row \in Map /\ old \in Map
    BY <1>1
  <2> HIDE DEF old
  <2>2. /\ DOMAIN Over(row, old) = DOMAIN row \cup DOMAIN old /\ Over(row, old) \in Map
        /\ \A f \in DOMAIN row : Over(row, old)[f] = row[f]
        /\ \A f \in DOMAIN old : f \notin DOMAIN row => Over(row, old)[f] = old[f]
    BY <2>1, OverIs
  <2> QED BY <2>2 DEF old
<1> HIDE DEF fields
<1>7. /\ new.fields = fields /\ new.tags = acc.tags /\ new.simple = acc.simple
      /\ new.subfields = acc.subfields
  BY <1>6, WithFieldsIs
<1> HIDE DEF new
<1>8. ASSUME NEW f \in DOMAIN fields
      PROVE  \E j \in V \cup {k} : ~IsRows(v, j) /\ \E m \in PartLeaves(inside, v, j) :
                                     m.field = f /\ m.value = fields[f]
  <2>1. CASE f \in DOMAIN row
    BY <1>3, <1>6, <2>1
  <2>2. CASE f \notin DOMAIN row
    <3>1. f \in DOMAIN acc.fields /\ fields[f] = acc.fields[f]
      BY <1>6, <2>2
    <3> QED BY <3>1 DEF ObjectDone
  <2> QED BY <2>1, <2>2
<1>9. ASSUME NEW j \in V \cup {k}, ~IsRows(v, j), NEW m \in PartLeaves(inside, v, j)
      PROVE  m.field \in DOMAIN fields /\ fields[m.field] = m.value
  <2>1. CASE j = k
    BY <1>5, <1>6, <1>9, <2>1
  <2>2. CASE j # k
    <3>1. j \in V /\ j \in DOMAIN Parts(v)
      BY <2>2
    <3>2. m.field \in DOMAIN acc.fields /\ acc.fields[m.field] = m.value
      BY <1>9, <3>1 DEF ObjectDone
    <3>3. PartOf(strings, numbers, inside, v, j)
      BY <3>1, PartsOf
    <3>4. m.field \in PartNumbers(numbers, v, j)
      BY <3>3 DEF PartOf
    <3>5. m.field \notin DOMAIN row
      BY <1>2, <1>4, <2>2, <3>1, <3>4 DEF PartOf
    <3> QED BY <1>6, <3>2, <3>5
  <2> QED BY <2>1, <2>2
<1>10. \A n \in DOMAIN Strings(v) : n \in V \cup {k} => n \in V
  BY StringsAre DEF Parts
<1>11. ObjectDone(inside, v, new, V \cup {k})
  <2>1. /\ DOMAIN new.tags \subseteq BaseTags \cup DOMAIN Strings(v)
        /\ \A n \in DOMAIN Strings(v) :
             n \in V \cup {k} => n \in DOMAIN new.tags /\ new.tags[n] = Strings(v)[n]
    BY <1>7, <1>10 DEF ObjectDone
  <2>2. /\ new.simple <=> \A j \in V \cup {k} : ~IsRows(v, j)
        /\ ~new.simple => Len(new.subfields) > 0
    BY <1>7 DEF ObjectDone
  <2> QED BY <1>7, <1>8, <1>9, <2>1, <2>2 DEF ObjectDone
<1> QED BY <1>11 DEF new, fields, row

\* An array adds its rows.
LEMMA ArrayAdded ==
  ASSUME NEW inside, NEW v \in Nested, ~IsArr(v), NEW k \in DOMAIN Parts(v), IsRows(v, k),
         ~IsStr(Parts(v)[k]), NEW o \in Out, Len(o.fields) > 0,
         NEW acc \in Acc, NEW V, ObjectDone(inside, v, acc, V)
  PROVE  ObjectDone(inside, v, AddRows(acc, o), V \cup {k})
<1> DEFINE new == AddRows(acc, o)
           a == Len(acc.subfields)
           b == Len(o.fields)
<1>1. /\ new.tags = acc.tags /\ new.fields = acc.fields /\ new.simple = FALSE
      /\ new.subfields = acc.subfields \o o.fields
  BY AddRowsIs
<1>2. acc.subfields \in Seq(Map) /\ o.fields \in Seq(Map)
  BY DEF Acc, Out
<1>3. a \in Nat /\ b \in Nat /\ Len(acc.subfields \o o.fields) = a + b
  BY <1>2, ConcatIs
<1>4. b > 0
  OBVIOUS
<1> HIDE DEF new, a, b
<1>5. Len(new.subfields) > 0
  BY <1>1, <1>3, <1>4
<1>6. \A n \in DOMAIN Strings(v) : n \in V \cup {k} => n \in V
  BY StringsAre DEF Parts
<1>7. ObjectDone(inside, v, new, V \cup {k})
  <2>1. /\ DOMAIN new.tags \subseteq BaseTags \cup DOMAIN Strings(v)
        /\ \A n \in DOMAIN Strings(v) :
             n \in V \cup {k} => n \in DOMAIN new.tags /\ new.tags[n] = Strings(v)[n]
    BY <1>1, <1>6 DEF ObjectDone
  <2>2. \A f \in DOMAIN new.fields :
          \E j \in V \cup {k} : ~IsRows(v, j) /\ \E m \in PartLeaves(inside, v, j) :
                                       m.field = f /\ m.value = new.fields[f]
    BY <1>1 DEF ObjectDone
  <2>3. \A j \in V \cup {k} : ~IsRows(v, j) =>
          \A m \in PartLeaves(inside, v, j) :
            m.field \in DOMAIN new.fields /\ new.fields[m.field] = m.value
    BY <1>1 DEF ObjectDone
  <2>4. ~new.simple /\ ~(\A j \in V \cup {k} : ~IsRows(v, j))
    BY <1>1
  <2> QED BY <1>5, <2>1, <2>2, <2>3, <2>4 DEF ObjectDone
<1> QED BY <1>7 DEF new

\* What the loop has after the parts V.
LoopDone(strings, numbers, inside, v, acc, V) ==
  /\ RowsDone(strings, numbers, inside, v, acc, V)
  /\ ~IsArr(v) => ObjectDone(inside, v, acc, V)

LEMMA PartAdded ==
  ASSUME NEW strings, NEW numbers, NEW inside, Setting(strings, numbers, inside),
         NEW deeper, Deeper(deeper, strings, numbers, inside), NEW base, IsBase(base),
         NEW v \in Nested, NEW k \in DOMAIN Parts(v),
         NEW o \in Out, o \in DecodePart(deeper, NameAt(v, k), Parts(v)[k], base),
         NEW acc \in Acc, NEW V \in SUBSET DOMAIN Parts(v),
         LoopDone(strings, numbers, inside, v, acc, V),
         acc.end = "ok", AddPart(v, k, acc, o).end = "ok"
  PROVE  LoopDone(strings, numbers, inside, v, AddPart(v, k, acc, o), V \cup {k})
<1> DEFINE new == AddPart(v, k, acc, o)
           w == Parts(v)[k]
<1>1. w \in Json
  BY PartsAre
<1>2. \A how : [acc EXCEPT !.end = how].end = how
  BY DEF Acc
<1>3. o.end = "ok"
  BY <1>2 DEF AddPart
<1>4. RowsDone(strings, numbers, inside, v, acc, V)
  BY DEF LoopDone
<1>5. CASE IsArr(v)
  <2>1. IsRows(v, k) /\ ~IsStr(w)
    BY <1>5 DEF IsRows, Setting, Regular
  <2>2. new = AddRows(acc, o)
    BY <1>3, <1>5 DEF AddPart
  <2>3. RowsDone(strings, numbers, inside, v, AddRows(acc, o), V \cup {k})
    BY <1>3, <1>4, <2>1, RowsAdded
  <2> QED BY <1>5, <2>2, <2>3 DEF LoopDone
<1>6. CASE ~IsArr(v) /\ IsStr(w)
  <2> DEFINE tag == Over(Entry(k, w.str), base)
             fields == <<>>
             tags == <<tag>>
  <2>1. ~IsNum(w) /\ ~IsArr(w) /\ ~IsObj(w)
    BY <1>1, <1>6, JsonAssumption DEF JsonAssumption, IsNum, IsArr, IsObj, IsStr
  <2>2. o.fields = fields /\ o.tags = tags
    BY <1>6, <2>1 DEF DecodePart, NameAt, Outcome
  <2>3. o.fields = <<>> /\ o.tags # <<>> /\ o.tags[1] = tag
    BY <2>2
  <2> HIDE DEF fields, tags, tag
  <2>4. new = WithTags(acc, Over(tag, acc.tags))
    BY <1>3, <1>6, <2>3 DEF AddPart, AddMember, WithTags
  <2>5. ObjectDone(inside, v, new, V \cup {k})
    BY <1>6, <2>4, StringAdded DEF LoopDone, tag
  <2>6. tag \in Map
    <3>1. w.str \in Scalar /\ k \in Name /\ base \in Map
      BY <1>1, <1>6, PartsAre DEF Scalar, IsBase
    <3>2. Entry(k, w.str) \in Map
      BY <3>1, EntryIs
    <3> QED BY <3>1, <3>2, OverIs DEF tag
  <2>7. new.subfields = acc.subfields /\ new.subtags = acc.subtags
    <3>1. acc.tags \in Map
      BY DEF Acc
    <3>2. Over(tag, acc.tags) \in Map
      BY <2>6, <3>1, OverIs
    <3> QED BY <2>4, <3>2, WithTagsIs
  <2>8. ~IsRows(v, k)
    BY <1>6, <2>1 DEF IsRows
  <2> HIDE DEF new
  <2>9. RowsDone(strings, numbers, inside, v, new, V \cup {k})
    BY <1>4, <2>7, <2>8, RowsKept
  <2> QED BY <1>6, <2>5, <2>9 DEF LoopDone, new
<1>7. CASE ~IsArr(v) /\ ~IsStr(w)
  <2>1. /\ Matches(o.fields, o.tags, PartLeaves(inside, v, k))
        /\ UsesNames(o.fields, o.tags, PartNumbers(numbers, v, k),
                 BaseTags \cup PartStrings(strings, v, k))
    BY <1>3, <1>7, PartMatches
  <2>2. o.fields \in Seq(Map) /\ o.tags \in Seq(Map) /\ Len(o.fields) = Len(o.tags)
    BY <2>1 DEF Out, Matches
  <2>3. o.fields = <<>> => o.tags = <<>>
    BY <2>2
  <2>4. new = AddMember(acc, o, IsArr(w))
    BY <1>3, <1>7 DEF AddPart, Parts
  <2>5. o.fields # <<>>
    BY <1>2, <2>3, <2>4 DEF AddMember
  <2>6. Len(o.fields) \in Nat /\ Len(o.fields) > 0
    BY <2>2, <2>5
  <2>7. ObjectDone(inside, v, acc, V)
    BY <1>7 DEF LoopDone
  <2>8. CASE IsArr(w)
    <3>1. IsRows(v, k) /\ new = AddRows(acc, o)
      BY <2>4, <2>5, <2>8 DEF IsRows, AddMember
    <3>2. RowsDone(strings, numbers, inside, v, AddRows(acc, o), V \cup {k})
      BY <1>3, <1>4, <1>7, <3>1, RowsAdded
    <3>3. ObjectDone(inside, v, AddRows(acc, o), V \cup {k})
      BY <1>7, <2>6, <2>7, <3>1, ArrayAdded
    <3> QED BY <3>1, <3>2, <3>3 DEF LoopDone
  <2>9. CASE ~IsArr(w)
    <3> DEFINE fields == Over(o.fields[1], acc.fields)
    <3>1. ~IsRows(v, k)
      BY <1>7, <2>9 DEF IsRows
    <3>2. Len(o.fields) = 1
      BY <1>2, <2>4, <2>5, <2>9 DEF AddMember
    <3>3. new = WithFields(acc, fields)
      BY <2>4, <2>5, <2>9, <3>2 DEF AddMember, WithFields
    <3>4. ObjectDone(inside, v, WithFields(acc, fields), V \cup {k})
      BY <1>7, <2>1, <2>7, <3>1, <3>2, FieldsAdded
    <3>5. fields \in Map
      <4>1. o.fields[1] \in Map /\ acc.fields \in Map
        BY <2>2, <3>2 DEF Acc
      <4> QED BY <4>1, OverIs
    <3> HIDE DEF fields
    <3>6. new.subfields = acc.subfields /\ new.subtags = acc.subtags
      BY <3>3, <3>5, WithFieldsIs
    <3> HIDE DEF new
    <3>7. RowsDone(strings, numbers, inside, v, new, V \cup {k})
      BY <1>4, <3>1, <3>6, RowsKept
    <3> QED BY <3>3, <3>4, <3>7 DEF LoopDone, new
  <2> QED BY <2>8, <2>9
<1> QED BY <1>5, <1>6, <1>7

\* After the loop, unless it has ended before its end.
LEMMA LoopIsDone ==
  ASSUME NEW strings, NEW numbers, NEW inside, Setting(strings, numbers, inside),
         NEW deeper, Deeper(deeper, strings, numbers, inside), NEW base, IsBase(base),
         NEW v \in Nested, NEW order \in Orders(v),
         NEW outcomes \in Choices(DecodeParts(deeper, v, base)),
         NEW acc, Loops(acc, v, order, outcomes, base), acc[Len(order)].end = "ok"
  PROVE  LoopDone(strings, numbers, inside, v, acc[Len(order)], DOMAIN Parts(v))
<1> DEFINE N == Len(order)
           Visited(i) == {order[j] : j \in 1 .. i}
           S == {i \in 0 .. N : acc[i].end = "ok" =>
                                  LoopDone(strings, numbers, inside, v, acc[i], Visited(i))}
<1>1. /\ N \in Nat /\ \A i \in 1 .. N : order[i] \in DOMAIN Parts(v)
      /\ \A k \in DOMAIN Parts(v) : \E i \in 1 .. N : order[i] = k
  BY OrdersAre
<1>2. deeper \in [Nested -> SUBSET Out] /\ base \in Map
  BY DEF Deeper, IsBase
<1>3. /\ acc \in [0 .. N -> Acc] /\ acc[0] = Start(base)
      /\ \A i \in 1 .. N : acc[i] = AddPart(v, order[i], acc[i - 1], outcomes[order[i]])
  BY DEF Loops
<1> HIDE DEF N
<1>4. 0 \in S
  <2>1. Visited(0) = {}
    OBVIOUS
  <2>2. LoopDone(strings, numbers, inside, v, Start(base), {})
    BY RowsStart, ObjectStart DEF LoopDone
  <2>3. 0 \in 0 .. N
    BY <1>1
  <2> HIDE DEF Visited
  <2> QED BY <1>3, <2>1, <2>2, <2>3
<1>5. ASSUME NEW i \in 1 .. N, i - 1 \in S PROVE i \in S
  <2> DEFINE k == order[i]
             o == outcomes[k]
             old == acc[i - 1]
             V == Visited(i - 1)
  <2>1. i \in 0 .. N /\ i - 1 \in 0 .. N
    BY <1>1
  <2>2. SUFFICES ASSUME acc[i].end = "ok"
                 PROVE  LoopDone(strings, numbers, inside, v, acc[i], Visited(i))
    BY <2>1
  <2>3. k \in DOMAIN Parts(v)
    BY <1>1
  <2>4. o \in DecodePart(deeper, NameAt(v, k), Parts(v)[k], base) /\ o \in Out
    BY <1>2, <2>3, ChoicesAre
  <2>5. old \in Acc /\ acc[i] = AddPart(v, k, old, o)
    BY <1>3, <2>1
  <2>6. old.end = "ok"
    BY <2>2, <2>5 DEF AddPart
  <2>7. LoopDone(strings, numbers, inside, v, old, V)
    BY <1>5, <2>6
  <2>8. V \in SUBSET DOMAIN Parts(v)
    <3>1. \A j \in 1 .. i - 1 : j \in 1 .. N
      BY <1>1
    <3> QED BY <1>1, <3>1
  <2>9. Visited(i) = V \cup {k}
    <3>1. \A j \in 1 .. i : j = i \/ j \in 1 .. i - 1
      OBVIOUS
    <3>2. i \in 1 .. i /\ \A j \in 1 .. i - 1 : j \in 1 .. i
      OBVIOUS
    <3> QED BY <3>1, <3>2
  <2> HIDE DEF Visited, k, o, old, V
  <2>10. LoopDone(strings, numbers, inside, v, AddPart(v, k, old, o), V \cup {k})
    BY <2>2, <2>3, <2>4, <2>5, <2>6, <2>7, <2>8, PartAdded
  <2> QED BY <2>5, <2>9, <2>10
<1> HIDE DEF S
<1>6. N \in S
  <2>1. \A i \in 1 .. N : i - 1 \in S => i \in S
    BY <1>5
  <2>2. \A i \in 0 .. N : i \in S
    BY <1>1, <1>4, <2>1, InductionUpTo
  <2> QED BY <1>1, <2>2
<1>7. Visited(N) = DOMAIN Parts(v)
  BY <1>1
<1> QED BY <1>6, <1>7 DEF S, N

------------------------------------------------------------------------------
(* What is made of the loop.                                                *)

LEMMA OverNone ==
  ASSUME NEW f \in Map, NEW g, DOMAIN g = {} PROVE Over(f, g) = f
<1>1. f = [n \in DOMAIN f |-> f[n]]
  BY MapIs
<1>2. Over(f, g) = [n \in DOMAIN f |-> f[n]]
  BY DEF Over
<1> QED BY <1>1, <1>2

\* An array has the rows and the leaves of its parts.
LEMMA ArrayMatches ==
  ASSUME NEW strings, NEW numbers, NEW inside, Setting(strings, numbers, inside),
         NEW v \in Nested, IsArr(v), NEW acc \in Acc,
         LoopDone(strings, numbers, inside, v, acc, DOMAIN Parts(v))
  PROVE  /\ Matches(acc.subfields, acc.subtags, LeavesOf(inside, v))
         /\ UsesNames(acc.subfields, acc.subtags, numbers[v], BaseTags \cup strings[v])
<1>1. \A k \in DOMAIN Parts(v) : IsRows(v, k) /\ PartOf(strings, numbers, inside, v, k)
  BY PartsOf DEF IsRows
<1>2. RowLeaves(inside, v, DOMAIN Parts(v)) = LeavesOf(inside, v)
  <2>1. inside \in [Nested -> SUBSET Leaf] /\ DOMAIN Strings(v) = {}
    BY StringsAre DEF Setting
  <2>2. \A m \in Leaf : Over(m.tags, Strings(v)) = m.tags
    BY <2>1, OverNone DEF Leaf
  <2>3. \A l, m \in Leaf : l.field = m.field /\ l.value = m.value /\ l.tags = m.tags => l = m
    BY DEF Leaf
  <2>4. ASSUME NEW k \in DOMAIN Parts(v), NEW m \in PartLeaves(inside, v, k)
        PROVE  m \in LeavesOf(inside, v)
    <3>1. m \in Leaf
      BY <1>1 DEF PartOf
    <3>2. PICK l \in LeavesOf(inside, v) :
            l.field = m.field /\ l.value = m.value /\ l.tags = Over(m.tags, Strings(v))
      BY <2>1, LeavesOfIs DEF PartLeaves
    <3>3. l \in Leaf
      BY <2>1, LeavesOfIs
    <3> QED BY <2>2, <2>3, <3>1, <3>2, <3>3
  <2>5. ASSUME NEW l \in LeavesOf(inside, v)
        PROVE  \E k \in DOMAIN Parts(v) : l \in PartLeaves(inside, v, k)
    <3>1. PICK k \in DOMAIN Parts(v) : \E m \in PartLeaves(inside, v, k) :
            /\ m \in Leaf
            /\ l.field = m.field /\ l.value = m.value /\ l.tags = Over(m.tags, Strings(v))
      BY <2>1, LeavesOfIs DEF PartLeaves
    <3>2. l \in Leaf
      BY <2>1, LeavesOfIs
    <3> QED BY <2>2, <2>3, <3>1, <3>2
  <2> QED BY <1>1, <2>4, <2>5 DEF RowLeaves
<1>3. /\ RowNumbers(numbers, v) \subseteq numbers[v]
      /\ BaseTags \cup RowStrings(strings, v) \subseteq BaseTags \cup strings[v]
  BY <1>1 DEF RowNumbers, RowStrings, PartOf
<1> QED BY <1>2, <1>3, NamedMore DEF LoopDone, RowsDone

\* The row i of an object, with and without arrays in it.
LEMMA RowAt ==
  ASSUME NEW acc \in Acc, NEW i \in 1 .. Len(RowFields(acc))
  PROVE  /\ acc.simple => RowFields(acc)[i] = acc.fields /\ RowTags(acc)[i] = acc.tags
         /\ ~acc.simple =>
              /\ i \in 1 .. Len(acc.subfields)
              /\ RowFields(acc)[i] = Over(acc.subfields[i], acc.fields)
              /\ RowTags(acc)[i] = Over(acc.subtags[i], acc.tags)
<1>1. CASE acc.simple
  <2>1. i = 1
    BY <1>1, RowsAre
  <2> QED BY <1>1, <2>1 DEF RowFields, RowTags
<1>2. CASE ~acc.simple
  <2>1. i \in 1 .. Len(acc.subfields)
    BY <1>2, RowsAre
  <2>2. DOMAIN acc.subfields = 1 .. Len(acc.subfields)
    BY DEF Acc
  <2> QED BY <1>2, <2>1, <2>2 DEF RowFields, RowTags
<1> QED BY <1>1, <1>2

\* acc has the members of the object v.
ObjectAll(strings, numbers, inside, v, acc) ==
  /\ v \in Nested /\ ~IsArr(v) /\ acc \in Acc
  /\ LoopDone(strings, numbers, inside, v, acc, DOMAIN Parts(v))

\* All rows of an object have its strings, and such as are to be dropped have
\* the name of the operation there.
LEMMA TagsOfRow ==
  ASSUME NEW strings, NEW numbers, NEW inside, Setting(strings, numbers, inside),
         NEW v, NEW acc, ObjectAll(strings, numbers, inside, v, acc),
         NEW i \in 1 .. Len(RowFields(acc))
  PROVE  /\ \A n \in DOMAIN Strings(v) :
              n \in DOMAIN RowTags(acc)[i] /\ RowTags(acc)[i][n] = Strings(v)[n]
         /\ DOMAIN RowTags(acc)[i] \subseteq BaseTags \cup strings[v]
         /\ IsInvalidStat(RowTags(acc)[i]) => IsInvalidStat(Strings(v))
<1> DEFINE tags == RowTags(acc)[i]
           own == acc.tags
           sub == acc.subtags[i]
<1>1. v \in Nested /\ ~IsArr(v) /\ acc \in Acc
  BY DEF ObjectAll
<1>2. /\ DOMAIN own \subseteq BaseTags \cup DOMAIN Strings(v)
      /\ \A n \in DOMAIN Strings(v) : n \in DOMAIN own /\ own[n] = Strings(v)[n]
  <2>1. \A n \in DOMAIN Strings(v) : n \in DOMAIN Parts(v)
    BY <1>1, StringsAre DEF Parts
  <2> QED BY <1>1, <2>1 DEF ObjectAll, LoopDone, ObjectDone
<1>3. DOMAIN Strings(v) \cap BaseTags = {} /\ DOMAIN Strings(v) \subseteq strings[v]
  BY <1>1, StringNames
<1>4. IsInvalidStat(own) => IsInvalidStat(Strings(v))
  BY <1>2 DEF IsInvalidStat, BaseTags
<1>5. CASE acc.simple
  <2>1. tags = own
    BY <1>1, <1>5, RowAt
  <2> HIDE DEF tags, own
  <2>2. /\ \A n \in DOMAIN Strings(v) : n \in DOMAIN tags /\ tags[n] = Strings(v)[n]
        /\ DOMAIN tags \subseteq BaseTags \cup strings[v]
        /\ IsInvalidStat(tags) => IsInvalidStat(Strings(v))
    BY <1>2, <1>3, <1>4, <2>1
  <2> QED BY <2>2 DEF tags
<1>6. CASE ~acc.simple
  <2>1. i \in 1 .. Len(acc.subfields) /\ tags = Over(sub, own)
    BY <1>1, <1>6, RowAt
  <2>2. \A k \in DOMAIN Parts(v) : PartOf(strings, numbers, inside, v, k)
    BY <1>1, PartsOf
  <2>3. /\ RowStrings(strings, v) \cap DOMAIN Strings(v) = {}
        /\ RowStrings(strings, v) \subseteq strings[v]
    BY <2>2 DEF RowStrings, PartOf
  <2>4. DOMAIN sub \subseteq BaseTags \cup RowStrings(strings, v) /\ ~IsInvalidStat(sub)
    BY <2>1 DEF ObjectAll, LoopDone, RowsDone, UsesNames, Matches
  <2> HIDE DEF tags, own, sub
  <2>5. /\ DOMAIN Over(sub, own) = DOMAIN sub \cup DOMAIN own
        /\ \A n \in DOMAIN sub : Over(sub, own)[n] = sub[n]
        /\ \A n \in DOMAIN own : n \notin DOMAIN sub => Over(sub, own)[n] = own[n]
    BY OverIs
  <2>6. \A n \in DOMAIN Strings(v) : n \in DOMAIN tags /\ tags[n] = Strings(v)[n]
    BY <1>2, <1>3, <2>1, <2>3, <2>4, <2>5
  <2>7. DOMAIN tags \subseteq BaseTags \cup strings[v]
    BY <1>2, <1>3, <2>1, <2>3, <2>4, <2>5
  <2>8. ASSUME IsInvalidStat(tags) PROVE IsInvalidStat(Strings(v))
    <3>1. "op_name" \in DOMAIN tags
      BY <2>8 DEF IsInvalidStat
    <3>2. CASE "op_name" \in DOMAIN sub
      BY <2>1, <2>4, <2>5, <2>8, <3>2 DEF IsInvalidStat
    <3>3. CASE "op_name" \notin DOMAIN sub
      BY <1>4, <2>1, <2>5, <2>8, <3>1, <3>3 DEF IsInvalidStat
    <3> QED BY <3>2, <3>3
  <2> QED BY <2>6, <2>7, <2>8 DEF tags
<1> QED BY <1>5, <1>6

\* l is the leaf of v that the leaf m of a part becomes.
Becomes(v, m, l) ==
  l.field = m.field /\ l.value = m.value /\ l.tags = Over(m.tags, Strings(v))

\* The tags that drop a leaf of a part, or the object it is in, drop the leaf.
LEMMA LeafDropped ==
  ASSUME NEW strings, NEW numbers, NEW inside, Setting(strings, numbers, inside),
         NEW v \in Nested, NEW k \in DOMAIN Parts(v), NEW m \in PartLeaves(inside, v, k),
         NEW l, Becomes(v, m, l)
  PROVE  IsInvalidStat(m.tags) \/ IsInvalidStat(Strings(v)) => IsInvalidStat(l.tags)
<1> DEFINE f == m.tags
           g == Strings(v)
<1>1. DOMAIN f \cap DOMAIN g = {}
  <2>1. PartOf(strings, numbers, inside, v, k)
    BY PartsOf
  <2> QED BY <2>1 DEF PartOf
<1> HIDE DEF f, g
<1>2. /\ DOMAIN Over(f, g) = DOMAIN f \cup DOMAIN g
      /\ \A n \in DOMAIN f : Over(f, g)[n] = f[n]
      /\ \A n \in DOMAIN g : n \notin DOMAIN f => Over(f, g)[n] = g[n]
  BY OverIs
<1>3. IsInvalidStat(f) \/ IsInvalidStat(g) => IsInvalidStat(Over(f, g))
  BY <1>1, <1>2 DEF IsInvalidStat
<1> QED BY <1>3 DEF Becomes, f, g

\* The numbers of the rows of an array are in the rows of the object.
LEMMA RowHasRow ==
  ASSUME NEW strings, NEW numbers, NEW inside, Setting(strings, numbers, inside),
         NEW v, NEW acc, ObjectAll(strings, numbers, inside, v, acc),
         NEW i \in 1 .. Len(RowFields(acc)), ~acc.simple,
         NEW m, Has(acc.subfields, acc.subtags, i, m), NEW l, Becomes(v, m, l)
  PROVE  Has(RowFields(acc), RowTags(acc), i, l)
<1> DEFINE sub == acc.subfields[i]
           own == acc.fields
           subtags == acc.subtags[i]
           owntags == acc.tags
           fields == RowFields(acc)[i]
           tags == RowTags(acc)[i]
           f == m.tags
           g == Strings(v)
<1>1. acc \in Acc
  BY DEF ObjectAll
<1>2. fields = Over(sub, own) /\ tags = Over(subtags, owntags)
  BY <1>1, RowAt
<1>3. m.field \in DOMAIN sub /\ sub[m.field] = m.value /\ Within(f, subtags)
  BY DEF Has
<1>4. \A n \in DOMAIN g : n \in DOMAIN tags /\ tags[n] = g[n]
  BY TagsOfRow
<1>5. l.tags = Over(f, g) /\ l.field = m.field /\ l.value = m.value
  BY DEF Becomes
<1> HIDE DEF sub, own, subtags, owntags, fields, tags, f, g
<1>6. m.field \in DOMAIN fields /\ fields[m.field] = m.value
  <2>1. /\ DOMAIN Over(sub, own) = DOMAIN sub \cup DOMAIN own
        /\ \A n \in DOMAIN sub : Over(sub, own)[n] = sub[n]
    BY OverIs
  <2> QED BY <1>2, <1>3, <2>1
<1>7. \A n \in DOMAIN f : n \in DOMAIN tags /\ tags[n] = f[n]
  <2>1. /\ DOMAIN Over(subtags, owntags) = DOMAIN subtags \cup DOMAIN owntags
        /\ \A n \in DOMAIN subtags : Over(subtags, owntags)[n] = subtags[n]
    BY OverIs
  <2> QED BY <1>2, <1>3, <2>1 DEF Within
<1>8. /\ DOMAIN Over(f, g) = DOMAIN f \cup DOMAIN g
      /\ \A n \in DOMAIN f : Over(f, g)[n] = f[n]
      /\ \A n \in DOMAIN g : n \notin DOMAIN f => Over(f, g)[n] = g[n]
  BY OverIs
<1>9. Within(l.tags, tags)
  BY <1>4, <1>5, <1>7, <1>8 DEF Within
<1> QED BY <1>5, <1>6, <1>9 DEF Has, fields, tags

\* The numbers of the object itself are in all of its rows.
LEMMA RowHasOwn ==
  ASSUME NEW strings, NEW numbers, NEW inside, Setting(strings, numbers, inside),
         NEW v, NEW acc, ObjectAll(strings, numbers, inside, v, acc),
         NEW i \in 1 .. Len(RowFields(acc)),
         NEW k \in DOMAIN Parts(v), ~IsRows(v, k), NEW m \in PartLeaves(inside, v, k),
         NEW l, Becomes(v, m, l)
  PROVE  Has(RowFields(acc), RowTags(acc), i, l)
<1> DEFINE own == acc.fields
           sub == acc.subfields[i]
           fields == RowFields(acc)[i]
           tags == RowTags(acc)[i]
           f == m.tags
           g == Strings(v)
<1>1. v \in Nested /\ ~IsArr(v) /\ acc \in Acc
  BY DEF ObjectAll
<1>2. PartOf(strings, numbers, inside, v, k)
  BY <1>1, PartsOf
<1>3. m.field \in DOMAIN own /\ own[m.field] = m.value
  BY <1>1 DEF ObjectAll, LoopDone, ObjectDone
<1>4. DOMAIN f = {} /\ m.field \in PartNumbers(numbers, v, k)
  BY <1>2 DEF PartOf
<1>5. m.field \in DOMAIN fields /\ fields[m.field] = m.value
  <2>1. CASE acc.simple
    <3>1. fields = own
      BY <1>1, <2>1, RowAt
    <3> QED BY <1>3, <3>1
  <2>2. CASE ~acc.simple
    <3>1. i \in 1 .. Len(acc.subfields) /\ fields = Over(sub, own)
      BY <1>1, <2>2, RowAt
    <3>2. DOMAIN sub \subseteq RowNumbers(numbers, v)
      BY <3>1 DEF ObjectAll, LoopDone, RowsDone, UsesNames
    <3>3. m.field \notin RowNumbers(numbers, v)
      BY <1>2, <1>4 DEF PartOf, RowNumbers
    <3>4. m.field \notin DOMAIN sub
      BY <3>2, <3>3
    <3> HIDE DEF own, sub, fields
    <3>5. /\ DOMAIN Over(sub, own) = DOMAIN sub \cup DOMAIN own
          /\ \A n \in DOMAIN own : n \notin DOMAIN sub => Over(sub, own)[n] = own[n]
      BY OverIs
    <3> QED BY <1>3, <3>1, <3>4, <3>5
  <2> QED BY <2>1, <2>2
<1>6. \A n \in DOMAIN g : n \in DOMAIN tags /\ tags[n] = g[n]
  BY TagsOfRow
<1>7. l.tags = Over(f, g) /\ l.field = m.field /\ l.value = m.value
  BY DEF Becomes
<1> HIDE DEF own, sub, fields, tags, f, g
<1>8. /\ DOMAIN Over(f, g) = DOMAIN f \cup DOMAIN g
      /\ \A n \in DOMAIN g : n \notin DOMAIN f => Over(f, g)[n] = g[n]
  BY OverIs
<1>9. Within(l.tags, tags)
  BY <1>4, <1>6, <1>7, <1>8 DEF Within
<1> QED BY <1>5, <1>7, <1>9 DEF Has, fields, tags

\* Every field of a row is a number of the object.
LEMMA RowFromLeaf ==
  ASSUME NEW strings, NEW numbers, NEW inside, Setting(strings, numbers, inside),
         NEW v, NEW acc, ObjectAll(strings, numbers, inside, v, acc),
         NEW i \in 1 .. Len(RowFields(acc)), NEW f \in DOMAIN RowFields(acc)[i]
  PROVE  /\ f \in numbers[v]
         /\ \E l \in LeavesOf(inside, v) : l.field = f /\ Has(RowFields(acc), RowTags(acc), i, l)
<1> DEFINE own == acc.fields
           sub == acc.subfields[i]
           fields == RowFields(acc)[i]
<1>1. v \in Nested /\ ~IsArr(v) /\ acc \in Acc /\ inside \in [Nested -> SUBSET Leaf]
  BY DEF ObjectAll, Setting
<1>2. \A k \in DOMAIN Parts(v) : PartOf(strings, numbers, inside, v, k)
  BY <1>1, PartsOf
<1>3. \A k \in DOMAIN Parts(v) : \A m \in PartLeaves(inside, v, k) :
        \E l \in LeavesOf(inside, v) : Becomes(v, m, l)
  BY <1>1, LeavesOfIs DEF PartLeaves, Becomes
<1>4. CASE f \in DOMAIN own
  <2>1. PICK k \in DOMAIN Parts(v) :
          ~IsRows(v, k) /\ \E m \in PartLeaves(inside, v, k) : m.field = f
    BY <1>1, <1>4 DEF ObjectAll, LoopDone, ObjectDone
  <2>2. PICK m \in PartLeaves(inside, v, k) : m.field = f
    BY <2>1
  <2>3. PICK l \in LeavesOf(inside, v) : Becomes(v, m, l)
    BY <1>3
  <2>4. Has(RowFields(acc), RowTags(acc), i, l)
    BY <2>1, <2>3, RowHasOwn
  <2>5. f \in numbers[v]
    BY <1>2, <2>2 DEF PartOf
  <2> QED BY <2>2, <2>3, <2>4, <2>5 DEF Becomes
<1>5. CASE f \notin DOMAIN own
  <2>1. ~acc.simple
    BY <1>1, <1>5, RowAt
  <2>2. i \in 1 .. Len(acc.subfields) /\ fields = Over(sub, own)
    BY <1>1, <2>1, RowAt
  <2>3. f \in DOMAIN sub
    <3>1. DOMAIN Over(sub, own) = DOMAIN sub \cup DOMAIN own
      BY OverIs
    <3> QED BY <1>5, <2>2, <3>1
  <2>4. PICK m \in RowLeaves(inside, v, DOMAIN Parts(v)) :
          m.field = f /\ Has(acc.subfields, acc.subtags, i, m)
    BY <2>2, <2>3 DEF ObjectAll, LoopDone, RowsDone, Matches
  <2>5. PICK k \in DOMAIN Parts(v) : m \in PartLeaves(inside, v, k)
    BY DEF RowLeaves
  <2>6. PICK l \in LeavesOf(inside, v) : Becomes(v, m, l)
    BY <1>3, <2>5
  <2>7. Has(RowFields(acc), RowTags(acc), i, l)
    BY <2>1, <2>4, <2>6, RowHasRow
  <2>8. f \in numbers[v]
    BY <1>2, <2>4, <2>5 DEF PartOf
  <2> QED BY <2>4, <2>6, <2>7, <2>8 DEF Becomes
<1> QED BY <1>4, <1>5

\* Every number that is not dropped is in a row that is not.
LEMMA LeafInRow ==
  ASSUME NEW strings, NEW numbers, NEW inside, Setting(strings, numbers, inside),
         NEW v, NEW acc, ObjectAll(strings, numbers, inside, v, acc),
         NEW l \in LeavesOf(inside, v), ~IsInvalidStat(l.tags)
  PROVE  \E i \in 1 .. Len(RowFields(acc)) :
           Has(RowFields(acc), RowTags(acc), i, l) /\ ~IsInvalidStat(RowTags(acc)[i])
<1>1. v \in Nested /\ ~IsArr(v) /\ acc \in Acc /\ inside \in [Nested -> SUBSET Leaf]
  BY DEF ObjectAll, Setting
<1>2. PICK k \in DOMAIN Parts(v) : \E m \in PartLeaves(inside, v, k) : Becomes(v, m, l)
  BY <1>1, LeavesOfIs DEF PartLeaves, Becomes
<1>3. PICK m \in PartLeaves(inside, v, k) : Becomes(v, m, l)
  BY <1>2
<1>4. ~IsInvalidStat(m.tags) /\ ~IsInvalidStat(Strings(v))
  BY <1>1, <1>3, LeafDropped
<1>5. \A i \in 1 .. Len(RowFields(acc)) : ~IsInvalidStat(RowTags(acc)[i])
  BY <1>4, TagsOfRow
<1>6. CASE IsRows(v, k)
  <2>1. m \in RowLeaves(inside, v, DOMAIN Parts(v))
    BY <1>6 DEF RowLeaves
  <2>2. PICK i \in 1 .. Len(acc.subfields) : Has(acc.subfields, acc.subtags, i, m)
    BY <1>4, <2>1 DEF ObjectAll, LoopDone, RowsDone, Matches
  <2>3. ~acc.simple
    BY <1>1, <1>6 DEF ObjectAll, LoopDone, ObjectDone
  <2>4. i \in 1 .. Len(RowFields(acc))
    BY <1>1, <2>3, RowsAre
  <2>5. Has(RowFields(acc), RowTags(acc), i, l)
    BY <1>3, <2>2, <2>3, <2>4, RowHasRow
  <2> QED BY <1>5, <2>4, <2>5
<1>7. CASE ~IsRows(v, k)
  <2>1. 1 \in 1 .. Len(RowFields(acc))
    <3>1. acc.simple \/ Len(acc.subfields) > 0
      BY <1>1 DEF ObjectAll, LoopDone, ObjectDone
    <3>2. Len(RowFields(acc)) = IF acc.simple THEN 1 ELSE Len(acc.subfields)
      BY <1>1, RowsAre
    <3>3. Len(acc.subfields) \in Nat
      BY <1>1 DEF Acc
    <3> QED BY <3>1, <3>2, <3>3
  <2>2. Has(RowFields(acc), RowTags(acc), 1, l)
    BY <1>3, <1>7, <2>1, RowHasOwn
  <2> QED BY <1>5, <2>1, <2>2
<1> QED BY <1>6, <1>7

\* An object has the rows that are not dropped, and its leaves.
LEMMA ObjectMatches ==
  ASSUME NEW strings, NEW numbers, NEW inside, Setting(strings, numbers, inside),
         NEW v, NEW acc, ObjectAll(strings, numbers, inside, v, acc)
  PROVE  /\ Matches(EndObject(acc).fields, EndObject(acc).tags, LeavesOf(inside, v))
         /\ UsesNames(EndObject(acc).fields, EndObject(acc).tags, numbers[v],
                      BaseTags \cup strings[v])
<1> DEFINE fields == RowFields(acc)
           tags == RowTags(acc)
           leaves == LeavesOf(inside, v)
           o == EndObject(acc)
           N == Len(fields)
<1>1. acc \in Acc
  BY DEF ObjectAll
<1>2. o = Valid(fields, tags) /\ fields \in Seq(Map) /\ tags \in Seq(Map) /\ Len(fields) = Len(tags)
  BY <1>1, RowsAre
<1>3. N \in Nat
  BY <1>2
<1>4. ASSUME NEW i \in 1 .. N
      PROVE  /\ \A f \in DOMAIN fields[i] :
                  f \in numbers[v] /\ \E l \in leaves : l.field = f /\ Has(fields, tags, i, l)
             /\ DOMAIN tags[i] \subseteq BaseTags \cup strings[v]
  BY <1>4, RowFromLeaf, TagsOfRow
<1>5. ASSUME NEW l \in leaves, ~IsInvalidStat(l.tags)
      PROVE  \E i \in 1 .. N : Has(fields, tags, i, l) /\ ~IsInvalidStat(tags[i])
  BY <1>5, LeafInRow
<1> HIDE DEF fields, tags, leaves, o
<1>6. Keeps(o, fields, tags, N)
  BY <1>2, <1>3, ValidIs
<1> HIDE DEF N
<1>7. /\ Len(o.fields) = Len(o.tags)
      /\ \A j \in 1 .. Len(o.fields) :
           \E i \in 1 .. N :
             o.fields[j] = fields[i] /\ o.tags[j] = tags[i] /\ ~IsInvalidStat(tags[i])
      /\ \A i \in 1 .. N :
           ~IsInvalidStat(tags[i]) =>
             \E j \in 1 .. Len(o.fields) : o.fields[j] = fields[i] /\ o.tags[j] = tags[i]
  BY <1>6 DEF Keeps
<1>8. ASSUME NEW j \in 1 .. Len(o.fields)
      PROVE  /\ ~IsInvalidStat(o.tags[j])
             /\ \A f \in DOMAIN o.fields[j] :
                  f \in numbers[v] /\ \E l \in leaves : l.field = f /\ Has(o.fields, o.tags, j, l)
             /\ DOMAIN o.tags[j] \subseteq BaseTags \cup strings[v]
  <2>1. PICK i \in 1 .. N :
          o.fields[j] = fields[i] /\ o.tags[j] = tags[i] /\ ~IsInvalidStat(tags[i])
    BY <1>7
  <2> QED BY <1>4, <2>1 DEF Has
<1>9. ASSUME NEW l \in leaves, ~IsInvalidStat(l.tags)
      PROVE  \E j \in 1 .. Len(o.fields) : Has(o.fields, o.tags, j, l)
  <2>1. PICK i \in 1 .. N : Has(fields, tags, i, l) /\ ~IsInvalidStat(tags[i])
    BY <1>5, <1>9
  <2>2. PICK j \in 1 .. Len(o.fields) : o.fields[j] = fields[i] /\ o.tags[j] = tags[i]
    BY <1>7, <2>1
  <2> QED BY <2>1, <2>2 DEF Has
<1>10. Matches(o.fields, o.tags, leaves)
  BY <1>7, <1>8, <1>9 DEF Matches
<1>11. UsesNames(o.fields, o.tags, numbers[v], BaseTags \cup strings[v])
  BY <1>8 DEF UsesNames
<1> QED BY <1>10, <1>11 DEF o, leaves

\* One level of nesting.
LEMMA NestedMatches ==
  ASSUME NEW strings, NEW numbers, NEW inside, Setting(strings, numbers, inside),
         NEW deeper, Deeper(deeper, strings, numbers, inside), NEW base, IsBase(base),
         NEW v \in Nested, NEW o \in DecodeNested(deeper, v, base), o.end = "ok"
  PROVE  /\ Matches(o.fields, o.tags, LeavesOf(inside, v))
         /\ UsesNames(o.fields, o.tags, numbers[v], BaseTags \cup strings[v])
<1>1. PICK order \in Orders(v), outcomes \in Choices(DecodeParts(deeper, v, base)) :
        o = EndLoop(v, Loop(v, order, outcomes, base))
  BY DEF DecodeNested
<1>2. deeper \in [Nested -> SUBSET Out] /\ base \in Map
  BY DEF Deeper, IsBase
<1>3. /\ Len(order) \in Nat
      /\ \A i \in 1 .. Len(order) : outcomes[order[i]] \in Out
  BY <1>2, OrdersAre, ChoicesAre
<1>4. PICK acc : /\ Loops(acc, v, order, outcomes, base)
                 /\ Loop(v, order, outcomes, base) = acc[Len(order)]
  BY <1>2, <1>3, LoopDef
<1> DEFINE last == acc[Len(order)]
<1>5. last \in Acc
  BY <1>3, <1>4 DEF Loops
<1>6. o = EndLoop(v, last)
  BY <1>1, <1>4
<1>7. last.end = "ok"
  BY <1>6 DEF EndLoop, Ended
<1>8. LoopDone(strings, numbers, inside, v, last, DOMAIN Parts(v))
  BY <1>4, <1>7, LoopIsDone
<1> HIDE DEF last
<1>9. CASE IsArr(v)
  <2>1. o.fields = last.subfields /\ o.tags = last.subtags
    BY <1>6, <1>7, <1>9 DEF EndLoop, Outcome
  <2> QED BY <1>5, <1>8, <1>9, <2>1, ArrayMatches
<1>10. CASE ~IsArr(v)
  <2>1. o = EndObject(last)
    BY <1>6, <1>7, <1>10 DEF EndLoop
  <2>2. ObjectAll(strings, numbers, inside, v, last)
    BY <1>5, <1>8, <1>10 DEF ObjectAll
  <2> QED BY <2>1, <2>2, ObjectMatches
<1> QED BY <1>9, <1>10

------------------------------------------------------------------------------
(* All levels of nesting.                                                   *)

LEMMA DepthsMatch ==
  ASSUME NEW strings, NEW numbers, NamesInside(strings, numbers), Regular(strings, numbers),
         NEW base, IsBase(base), NEW decode, Decodes(decode, base), NEW inside, LeafDepths(inside)
  PROVE  /\ Setting(strings, numbers, inside[MaxDepth])
         /\ Deeper(decode[MaxDepth], strings, numbers, inside[MaxDepth])
<1> DEFINE S == {n \in 0 .. MaxDepth : /\ Setting(strings, numbers, inside[n])
                                       /\ Deeper(decode[n], strings, numbers, inside[n])}
<1>1. MaxDepth \in Nat
  BY JsonAssumption DEF JsonAssumption
<1>2. \A n \in 0 .. MaxDepth : inside[n] \in [Nested -> SUBSET Leaf]
                               /\ decode[n] \in [Nested -> SUBSET Out]
  BY DEF LeafDepths, Decodes
<1>3. 0 \in S
  <2>1. \A v \in Nested : inside[0][v] = {} /\ decode[0][v] = {}
    BY DEF LeafDepths, Decodes
  <2>2. 0 \in 0 .. MaxDepth
    BY <1>1
  <2>3. Setting(strings, numbers, inside[0]) /\ Deeper(decode[0], strings, numbers, inside[0])
    BY <1>2, <2>1, <2>2 DEF Setting, Deeper
  <2> QED BY <2>2, <2>3
<1>4. ASSUME NEW n \in 1 .. MaxDepth, n - 1 \in S PROVE n \in S
  <2>1. n \in 0 .. MaxDepth
    BY <1>1
  <2> DEFINE in == inside[n - 1]
             de == decode[n - 1]
  <2>2. Setting(strings, numbers, in) /\ Deeper(de, strings, numbers, in)
    BY <1>4
  <2>3. \A v \in Nested : inside[n][v] = LeavesOf(in, v) /\ decode[n][v] = DecodeNested(de, v, base)
    <3>1. inside[n] = [v \in Nested |-> LeavesOf(in, v)]
      BY DEF LeafDepths
    <3>2. decode[n] = [v \in Nested |-> DecodeNested(de, v, base)]
      BY DEF Decodes
    <3> HIDE DEF in, de
    <3> QED BY <3>1, <3>2
  <2> HIDE DEF in, de
  <2>4. \A v \in Nested : \A l \in LeavesOf(in, v) :
          l.field \in numbers[v] /\ DOMAIN l.tags \subseteq strings[v]
    BY <2>2, LeavesNamed
  <2>5. Setting(strings, numbers, inside[n])
    BY <1>2, <2>1, <2>3, <2>4 DEF Setting
  <2>6. ASSUME NEW v \in Nested, NEW o \in DecodeNested(de, v, base), o.end = "ok"
        PROVE  /\ Matches(o.fields, o.tags, LeavesOf(in, v))
               /\ UsesNames(o.fields, o.tags, numbers[v], BaseTags \cup strings[v])
    BY <2>2, <2>6, NestedMatches
  <2>7. Deeper(decode[n], strings, numbers, inside[n])
    BY <1>2, <2>1, <2>3, <2>6 DEF Deeper
  <2> QED BY <2>1, <2>5, <2>7
<1> HIDE DEF S
<1>5. MaxDepth \in S
  <2>1. \A n \in 1 .. MaxDepth : n - 1 \in S => n \in S
    BY <1>4
  <2>2. \A n \in 0 .. MaxDepth : n \in S
    BY <1>1, <1>3, <2>1, InductionUpTo
  <2> QED BY <1>1, <2>2
<1> QED BY <1>5 DEF S

------------------------------------------------------------------------------
(* A whole value.                                                           *)

\* A point has the rows of its value.
PointMatches(p) ==
  /\ p.fields \in Seq(Map) /\ p.tags \in Seq(Map)
  /\ Matches(p.fields, p.tags, Leaves("value", p.value))

LEMMA StatBase ==
  ASSUME NEW device \in Nat, NEW degraded \in BOOLEAN
  PROVE  IsBase(Over(DeviceTags(device), DegradedTags(degraded)))
<1> DEFINE f == DeviceTags(device)
           g == DegradedTags(degraded)
<1>1. f \in Map /\ DOMAIN f \subseteq BaseTags
  <2> DEFINE names == IF device = 0 THEN {} ELSE {"devid", "node"}
             numbered == [n \in names |-> device]
             named == Entry("cluster", "cluster")
  <2>1. BaseTags \subseteq Name /\ device \in Scalar /\ "cluster" \in Scalar
    BY DEF Name, Scalar
  <2>2. names \subseteq BaseTags /\ "cluster" \in BaseTags
    BY DEF BaseTags
  <2>3. numbered \in Map /\ DOMAIN numbered \subseteq BaseTags
    <3>1. numbered \in [names -> Scalar] /\ names \in SUBSET Name
      BY <2>1, <2>2
    <3> QED BY <2>2, <3>1 DEF Map
  <2>4. named \in Map /\ DOMAIN named \subseteq BaseTags
    <3>1. "cluster" \in Name
      BY <2>1, <2>2
    <3>2. DOMAIN Entry("cluster", "cluster") = {"cluster"}
          /\ Entry("cluster", "cluster") \in Map
      BY <2>1, <3>1, EntryIs
    <3> QED BY <2>2, <3>2
  <2>5. f = Over(numbered, named)
    BY DEF DeviceTags
  <2> HIDE DEF f, numbered, named
  <2>6. DOMAIN Over(numbered, named) = DOMAIN numbered \cup DOMAIN named
        /\ Over(numbered, named) \in Map
    BY <2>3, <2>4, OverIs
  <2> QED BY <2>3, <2>4, <2>5, <2>6
<1>2. g \in Map /\ DOMAIN g \subseteq BaseTags
  <2>1. "degraded" \in Name /\ degraded \in Scalar
    BY DEF Name, Scalar, BaseTags
  <2>2. CASE IncludeDegraded
    <3>1. g = Entry("degraded", degraded)
      BY <2>2 DEF DegradedTags
    <3>2. Entry("degraded", degraded) \in Map /\ DOMAIN Entry("degraded", degraded) = {"degraded"}
      BY <2>1, EntryIs
    <3> HIDE DEF g
    <3> QED BY <3>1, <3>2 DEF BaseTags
  <2>3. CASE ~IncludeDegraded
    <3>1. g = Empty
      BY <2>3 DEF DegradedTags
    <3> QED BY <3>1, EmptyIs
  <2> QED BY <2>2, <2>3
<1> HIDE DEF f, g
<1>3. DOMAIN Over(f, g) = DOMAIN f \cup DOMAIN g /\ Over(f, g) \in Map
  BY <1>1, <1>2, OverIs
<1>4. IsBase(Over(f, g))
  BY <1>1, <1>2, <1>3 DEF IsBase
<1> QED BY <1>4 DEF f, g

\* What decodeStat makes of a regular value has the numbers of the value.
LEMMA StatMatches ==
  ASSUME NEW strings, NEW numbers, NamesInside(strings, numbers), Regular(strings, numbers),
         NEW device \in Nat, NEW degraded \in BOOLEAN, NEW v \in Json,
         NEW o \in DecodeStat(device, v, DegradedTags(degraded)), o.end = "ok",
         NEW p, p.fields = o.fields, p.tags = o.tags, p.value = v
  PROVE  PointMatches(p)
<1> DEFINE base == Over(DeviceTags(device), DegradedTags(degraded))
           all == DecodeAll(base)
<1>1. IsBase(base)
  BY StatBase
<1>2. Ended("error").end # "ok" /\ Ended("die").end # "ok"
  BY DEF Ended
<1>3. ~IsStr(v) /\ o \in DecodePart(all, "value", v, base)
  BY <1>2 DEF DecodeStat
<1> HIDE DEF base
<1>4. PICK decode : Decodes(decode, base) /\ all = decode[MaxDepth]
  BY <1>1, DecodeAllDef DEF IsBase
<1> HIDE DEF all
<1>5. PICK inside : LeafDepths(inside) /\ LeavesInside = inside[MaxDepth]
  BY LeavesInsideDef
<1>6. /\ Setting(strings, numbers, LeavesInside)
      /\ Deeper(all, strings, numbers, LeavesInside)
  BY <1>1, <1>4, <1>5, DepthsMatch
<1>7. "value" \in Name /\ all \in [Nested -> SUBSET Out] /\ base \in Map
  BY <1>1, <1>6 DEF Name, Deeper, IsBase
<1>8. o \in Out
  <2>1. DecodePart(all, "value", v, base) \in SUBSET Out
    BY <1>7, DecodePartType
  <2> QED BY <1>3, <2>1
<1>9. Matches(o.fields, o.tags, Leaves("value", v))
  <2>1. CASE IsNum(v)
    <3> DEFINE l == [field |-> "value", value |-> v.num, tags |-> Empty]
    <3>1. v.num \in Scalar
      BY <2>1 DEF Scalar
    <3>2. o = Outcome(<<Entry("value", v.num)>>, <<base>>)
      BY <1>3, <2>1 DEF DecodePart
    <3>3. Leaves("value", v) = {l}
      BY <2>1 DEF Leaves, LeavesOfPart
    <3> HIDE DEF l
    <3>4. Matches(o.fields, o.tags, {l})
      BY <1>1, <1>7, <3>1, <3>2, NumberMatches DEF l
    <3> QED BY <3>3, <3>4
  <2>2. CASE ~IsNum(v) /\ IsNested(v)
    <3>1. v \in Nested /\ o \in all[v]
      BY <1>3, <2>2 DEF Nested, DecodePart
    <3>2. Leaves("value", v) = LeavesInside[v]
      BY <2>2 DEF Leaves, LeavesOfPart
    <3> QED BY <1>6, <3>1, <3>2 DEF Deeper
  <2>3. CASE ~IsNum(v) /\ ~IsNested(v)
    BY <1>2, <1>3, <2>3 DEF DecodePart
  <2> QED BY <2>1, <2>2, <2>3
<1> QED BY <1>8, <1>9 DEF PointMatches, Out

\* This is what the property says of a point.
LEMMA PointRows ==
  ASSUME NEW p, PointMatches(p)
  PROVE  LET leaves == Leaves("value", p.value)
             InRow(i, l) == /\ Within(Entry(l.field, l.value), p.fields[i])
                            /\ Within(l.tags, p.tags[i])
         IN  /\ DOMAIN p.fields = DOMAIN p.tags
             /\ \A i \in DOMAIN p.fields : \A f \in DOMAIN p.fields[i] :
                  \E l \in leaves : l.field = f /\ InRow(i, l)
             /\ \A i \in DOMAIN p.tags : ~IsInvalidStat(p.tags[i])
             /\ \A l \in leaves :
                  ~IsInvalidStat(l.tags) => \E i \in DOMAIN p.fields : InRow(i, l)
<1> DEFINE leaves == Leaves("value", p.value)
           InRow(i, l) == /\ Within(Entry(l.field, l.value), p.fields[i])
                          /\ Within(l.tags, p.tags[i])
<1>1. /\ p.fields \in Seq(Map) /\ p.tags \in Seq(Map)
      /\ Matches(p.fields, p.tags, leaves)
  BY DEF PointMatches
<1>2. /\ Len(p.fields) = Len(p.tags)
      /\ DOMAIN p.fields = 1 .. Len(p.fields) /\ DOMAIN p.tags = 1 .. Len(p.tags)
  BY <1>1 DEF Matches
<1>3. ASSUME NEW i, NEW l, Has(p.fields, p.tags, i, l) PROVE InRow(i, l)
  <2>1. DOMAIN Entry(l.field, l.value) = {l.field} /\ Entry(l.field, l.value)[l.field] = l.value
    BY EntryIs
  <2> QED BY <1>3, <2>1 DEF Has, Within
<1> HIDE DEF leaves, InRow
<1>4. \A i \in DOMAIN p.fields : \A f \in DOMAIN p.fields[i] :
        \E l \in leaves : l.field = f /\ InRow(i, l)
  BY <1>1, <1>2, <1>3 DEF Matches
<1>5. \A i \in DOMAIN p.tags : ~IsInvalidStat(p.tags[i])
  BY <1>1, <1>2 DEF Matches
<1>6. \A l \in leaves : ~IsInvalidStat(l.tags) => \E i \in DOMAIN p.fields : InRow(i, l)
  BY <1>1, <1>2, <1>3 DEF Matches
<1> QED BY <1>2, <1>4, <1>5, <1>6 DEF leaves, InRow

------------------------------------------------------------------------------
(* The points.                                                              *)

PointsMatch == \A p \in points : PointMatches(p)

\* The points stay those of their values when a result is decoded.
LEMMA ResultMatches ==
  ASSUME NEW strings, NEW numbers, NamesInside(strings, numbers), Regular(strings, numbers),
         TypeOK, PointsMatch, NEW r \in todo, DecodeResult(r)
  PROVE  PointsMatch'
<1>1. r[1] \in Stat /\ r[2] \in Nat /\ Values[r[1]] \subseteq Json
  <2>1. PICK st \in Stat : r \in {st} \X DevicesOf[st]
    BY DEF TypeOK, Pair
  <2> QED BY <2>1, PathAssumption DEF PathAssumption
<1>2. PICK v \in Values[r[1]], degraded \in BOOLEAN :
        \E o \in DecodeStat(r[2], v, DegradedTags(degraded)) :
          points' = IF o.end = "ok"
                    THEN points \cup {[of |-> r, value |-> v, fields |-> o.fields, tags |-> o.tags]}
                    ELSE {}
  BY DEF DecodeResult
<1>3. PICK o \in DecodeStat(r[2], v, DegradedTags(degraded)) :
          points' = IF o.end = "ok"
                    THEN points \cup {[of |-> r, value |-> v, fields |-> o.fields, tags |-> o.tags]}
                    ELSE {}
  BY <1>2
<1>4. CASE o.end = "ok"
  <2> DEFINE p == [of |-> r, value |-> v, fields |-> o.fields, tags |-> o.tags]
  <2>1. p.fields = o.fields /\ p.tags = o.tags /\ p.value = v
    OBVIOUS
  <2>2. points' = points \cup {p}
    BY <1>3, <1>4
  <2> HIDE DEF p
  <2>3. PointMatches(p)
    BY <1>1, <1>4, <2>1, StatMatches
  <2> QED BY <2>2, <2>3 DEF PointsMatch
<1>5. CASE o.end # "ok"
  BY <1>3, <1>5 DEF PointsMatch
<1> QED BY <1>4, <1>5

LEMMA PointsKept ==
  ASSUME PointsMatch, points' \subseteq points PROVE PointsMatch'
BY DEF PointsMatch

\* If the values are regular, the rows of every point are those of its value,
\* however they are nested and in whatever order the members of objects are
\* visited: no number is lost, none is in a wrong row, and exactly the operations
\* that are to be dropped are.
THEOREM RowsAreOfValue ==
  ASSUME NEW strings, NEW numbers, NamesInside(strings, numbers), Regular(strings, numbers)
  PROVE  Spec => []RowsMatchValue
<1>1. Init => PointsMatch
  BY DEF Init, PointsMatch
<1>2. TypeOK /\ PointsMatch /\ [Next]_vars => PointsMatch'
  <2> SUFFICES ASSUME TypeOK, PointsMatch, [Next]_vars PROVE PointsMatch'
    OBVIOUS
  <2>1. ASSUME NEW r \in todo, DecodeResult(r) PROVE PointsMatch'
    BY <2>1, ResultMatches
  <2>2. ASSUME NEW r \in todo, SkipResult(r) PROVE PointsMatch'
    BY <2>2, PointsKept DEF SkipResult
  <2>3. CASE Collect
    BY <2>3, PointsKept DEF Collect
  <2>4. CASE WritePoints
    <3>1. points' \subseteq points
      BY <2>4 DEF WritePoints
    <3> QED BY <3>1, PointsKept
  <2>5. CASE UNCHANGED points
    BY <2>5, PointsKept
  <2> QED BY <2>1, <2>2, <2>3, <2>4, <2>5 DEF Next, Terminated, vars
<1>3. PointsMatch => RowsMatchValue
  BY PointRows DEF PointsMatch, RowsMatchValue
<1> QED BY <1>1, <1>2, <1>3, PathTypeCorrect, PTL DEF Spec

==============================================================================
