------------------------------- MODULE Buckets -------------------------------
(***************************************************************************)
(* How the collection loop of gostats comes by its schedule                *)
(* (cmd/gostats/main.go and isilon_api.go): parseStatConfig reads the      *)
(* intervals of the stat groups, fetchStatDetails asks the cluster for the *)
(* metadata of each stat, calcBuckets puts stats of the same interval into *)
(* one bucket.  StatsLoop starts from these buckets.                       *)
(*                                                                         *)
(* The code computes with floating-point seconds.  Here an interval or a   *)
(* multiplier is a natural number of halves, so that a product is a number *)
(* of quarters, and the interval of a bucket a number of whole seconds.    *)
(***************************************************************************)
EXTENDS Naturals, Sequences

CONSTANTS
  Stat,      \* the names of stats
  Group,     \* the stat groups of the configuration file
  StatsOf,   \* StatsOf[g]: the stats listed in the group
  Confs,     \* the configurations to start from
  Answers,   \* the metadata the cluster may send for a stat
  NoPolicies, \* a stat without update policies
  NoGroup,   \* the group of a bucket that is not made by group
  Missing    \* an inactive group; metadata not asked for yet

Halves == Nat

\* update_interval: "*2.5", "30", or a string that is neither.
Interval == [kind : {"multiplier", "absolute", "malformed"}, value : Halves]

\* named[g]: how often the group is among the active ones.
Conf == [intvl : [Group -> Interval], named : [Group -> 0 .. 2],
         min : Nat, byGroup : BOOLEAN]

\* The first policy that is not persistent tells the interval; none is 0.
CurrentIntvl(policies) ==
  IF policies = NoPolicies \/ \A i \in DOMAIN policies : policies[i].persistent
  THEN 0
  ELSE LET Current == {i \in DOMAIN policies : ~policies[i].persistent}
       IN  policies[CHOOSE i \in Current : \A j \in Current : i <= j].interval

ASSUME BucketsAssumption ==
  /\ StatsOf \in [Group -> SUBSET Stat]
  /\ Confs \subseteq Conf
  /\ \A a \in Answers : CurrentIntvl(a) \in Halves
  /\ NoGroup \notin Group
  /\ Missing \notin [multiplier : Halves, absTime : Halves]
  /\ Missing \notin [valid : BOOLEAN, updateIntvl : Halves]

VARIABLES
  pc,       \* "parse", "details", "loop", or how it ended
  conf,     \* the configuration
  sg,       \* sg[g]: multiplier and absolute time of an active group
  details,  \* what is known of a stat
  buckets   \* the result of calcBuckets

bucketVars == <<conf, sg, details, buckets>>

Refresh == [multiplier : Halves, absTime : Halves]
Detail == [valid : BOOLEAN, updateIntvl : Halves]
Bucket == [interval : Nat, group : Group \cup {NoGroup}, stats : SUBSET Stat]

\* "idle": the loop returned for want of buckets; "exited": die() was called.
BucketsTypeOK ==
  /\ conf \in Conf
  /\ sg \in [Group -> Refresh \cup {Missing}]
  /\ details \in [Stat -> Detail \cup {Missing}]
  /\ buckets \in SUBSET Bucket

BucketsInit ==
  /\ pc = "parse"
  /\ conf \in Confs
  /\ sg = [g \in Group |-> Missing]
  /\ details = [st \in Stat |-> Missing]
  /\ buckets = {}

------------------------------------------------------------------------------
(* The configuration.                                                      *)

AtLeast(x, low) == IF x < low THEN low ELSE x

\* What cannot be parsed is a multiplier of 1.
ParseUpdateIntvl(i, min) ==
  IF i.kind = "absolute"
  THEN [multiplier |-> 0, absTime |-> AtLeast(i.value, 2 * min)]
  ELSE [multiplier |-> IF i.kind = "multiplier" THEN i.value ELSE 2, absTime |-> 0]

Named == {g \in Group : conf.named[g] > 0}

\* A stat would be collected twice: it is in two active groups, or in one that
\* is named twice.
StatTwice ==
  \/ \E g, h \in Named : g # h /\ StatsOf[g] \cap StatsOf[h] # {}
  \/ \E g \in Named : conf.named[g] > 1 /\ StatsOf[g] # {}

ParseStatConfig ==
  /\ pc = "parse"
  /\ IF StatTwice
     THEN pc' = "exited" /\ UNCHANGED sg
     ELSE /\ pc' = "details"
          /\ sg' = [g \in Group |->
                      IF g \in Named THEN ParseUpdateIntvl(conf.intvl[g], conf.min)
                      ELSE Missing]
  /\ UNCHANGED <<conf, details, buckets>>

------------------------------------------------------------------------------
(* The metadata.                                                           *)

Active == {g \in Group : sg[g] # Missing}
Listed == UNION {StatsOf[g] : g \in Active}

SetDetail(st, d) ==
  /\ pc = "details" /\ details[st] = Missing
  /\ details' = [details EXCEPT ![st] = d]
  /\ UNCHANGED <<pc, conf, sg, buckets>>

\* The metadata of a stat arrives.
FetchStatDetail ==
  \E st \in Listed, a \in Answers :
    SetDetail(st, [valid |-> TRUE, updateIntvl |-> CurrentIntvl(a)])

\* It does not, whatever the reason: the cluster does not know the stat, the
\* request failed, the run was cancelled.  It is not asked for again.
FetchDetailFails ==
  \E st \in Listed : SetDetail(st, [valid |-> FALSE, updateIntvl |-> 0])

------------------------------------------------------------------------------
(* calcBuckets.                                                            *)

IsAbsolute(g) == sg[g].absTime # 0

\* Only groups with a multiplier look at the metadata.
Collected(g) ==
  IF IsAbsolute(g) THEN StatsOf[g] ELSE {st \in StatsOf[g] : details[st].valid}

\* Mutant: the minimum is applied to the interval of the stat, not to the product.
CollectIntvlClampedEarly(g, st) ==
  IF IsAbsolute(g) THEN sg[g].absTime \div 2
  ELSE IF details[st].updateIntvl = 0 THEN conf.min
  ELSE (sg[g].multiplier * AtLeast(details[st].updateIntvl, 2 * conf.min)) \div 4

\* In whole seconds: the conversion to time.Duration cuts fractions off.
CollectIntvl(g, st) ==
  IF IsAbsolute(g) THEN sg[g].absTime \div 2
  ELSE IF details[st].updateIntvl = 0 THEN conf.min
  ELSE AtLeast(sg[g].multiplier * details[st].updateIntvl, 4 * conf.min) \div 4

Key(g, st) ==
  [interval |-> CollectIntvl(g, st), group |-> IF conf.byGroup THEN g ELSE NoGroup]

\* Mutant: what a group puts under a key replaces what was there.
BucketOfLast(k) ==
  LET last == CHOOSE g \in Active : \E st \in Collected(g) : Key(g, st) = k
  IN  [interval |-> k.interval, group |-> k.group,
       stats |-> {st \in Collected(last) : Key(last, st) = k}]

BucketOf(k) ==
  [interval |-> k.interval, group |-> k.group,
   stats |-> {st \in Stat : \E g \in Active : st \in Collected(g) /\ Key(g, st) = k}]

\* A group with an absolute time has a bucket even if it lists no stats.
CalcBuckets ==
  {BucketOf(Key(p[1], p[2])) :
     p \in {p \in Active \X Stat : IsAbsolute(p[1]) \/ p[2] \in Collected(p[1])}}

\* The two calls of die() in calcBuckets.
ZeroInterval ==
  \E g \in Active :
    /\ ~IsAbsolute(g)
    /\ \/ sg[g].multiplier = 0
       \/ \E st \in Collected(g) : CollectIntvl(g, st) = 0

MakeBuckets ==
  /\ pc = "details" /\ \A st \in Listed : details[st] # Missing
  /\ IF ZeroInterval
     THEN pc' = "exited" /\ UNCHANGED buckets
     ELSE /\ buckets' = CalcBuckets
          /\ pc' = IF CalcBuckets = {} THEN "idle" ELSE "loop"
  /\ UNCHANGED <<conf, sg, details>>

BucketsNext == ParseStatConfig \/ FetchStatDetail \/ FetchDetailFails \/ MakeBuckets

BucketsSpec == BucketsInit /\ [][BucketsNext]_<<pc, bucketVars>>

------------------------------------------------------------------------------
(* Properties.                                                             *)

\* Once the buckets are made, a stat is in one of them if and only if its group
\* is active and its metadata arrived or its group has an absolute time, and it
\* is in no second one.  With fetch_by_statgroup no bucket mixes groups, without
\* it no two buckets have the same interval.
EachStatOnce ==
  pc \in {"loop", "idle"} =>
    /\ \A st \in Stat :
         (\E b \in buckets : st \in b.stats) <=>
           (\E g \in Active : st \in StatsOf[g] /\ (IsAbsolute(g) \/ details[st].valid))
    /\ \A b, c \in buckets :
         b # c => /\ b.stats \cap c.stats = {}
                  /\ conf.byGroup \/ b.interval # c.interval
    /\ conf.byGroup => \A b \in buckets : \E g \in Active : b.stats \subseteq StatsOf[g]

\* No bucket is collected more often than the configured minimum allows, and no
\* stat of a group with a multiplier more often than its product says, but for
\* the fraction of a second that is cut off; nor less often.  An interval is zero
\* only for a group with an absolute time below one second and no minimum.
NeverTooOften ==
  \A b \in buckets :
    /\ b.interval >= conf.min
    /\ b.interval = 0 => \E g \in Active : sg[g].absTime = 1
    /\ \A st \in b.stats, g \in Active :
         st \in StatsOf[g] /\ ~IsAbsolute(g) =>
           LET product == sg[g].multiplier * details[st].updateIntvl
           IN  /\ 4 * (b.interval + 1) > product
               /\ 4 * b.interval <= AtLeast(product, 4 * conf.min)

==============================================================================
