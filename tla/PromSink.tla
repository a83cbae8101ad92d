------------------------------- MODULE PromSink -------------------------------
(***************************************************************************)
(* The Prometheus sink of one cluster (cmd/gostats/prometheus.go,          *)
(* PrometheusSink): what the collection loop writes and what the scrapes   *)
(* of the metrics endpoint find.                                           *)
(*                                                                         *)
(* The loop and any number of scrape handlers share the sink under its     *)
(* mutex; WritePoints and Collect hold it from their first to their last   *)
(* statement, so each is one action.  A metric family holds a sample per   *)
(* set of tags (SampleID) and counts, per label, the samples that carry    *)
(* it: every metric of a family is exported with the labels whose count is *)
(* positive.  Samples expire; a scrape removes the expired ones first.     *)
(***************************************************************************)
EXTENDS Naturals, FiniteSets

CONSTANTS
  Stat,             \* the stats collected
  Family,           \* the metric families
  FamiliesOf,       \* FamiliesOf[st]: one per field of the stat
  Tags,             \* the tag sets that points come with
  Label,            \* the labels
  LabelsOf,         \* LabelsOf[t]: the labels of samples with tags t
  UpdateIntvl,      \* UpdateIntvl[st]: update interval in the stat's metadata
  MinUpdateInvtl,   \* min_update_interval_override
  Multiplier,       \* the multiplier of the stat group
  MinExpiration,    \* 5 seconds
  ExpiryMultiplier, \* expiry_multiplier
  Never,            \* not written yet; not there
  MaxTime           \* bound: time in one behaviour

\* A sample by its expiration.
MetricFamily ==
  [samples : [Tags -> Nat \cup {Never}], labelSet : [Label -> 0 .. Cardinality(Tags)]]

ASSUME SinkAssumption ==
  /\ FamiliesOf \in [Stat -> SUBSET Family]
  /\ \A s, t \in Stat : s # t => FamiliesOf[s] \cap FamiliesOf[t] = {}
  /\ IsFiniteSet(Tags)
  /\ LabelsOf \in [Tags -> SUBSET Label]
  /\ UpdateIntvl \in [Stat -> Nat]
  /\ {MinUpdateInvtl, MaxTime} \subseteq Nat
  /\ {Multiplier, MinExpiration, ExpiryMultiplier} \subseteq Nat \ {0}
  /\ Never \notin Nat \cup MetricFamily

VARIABLES
  now,      \* the clock
  fam,      \* fam[f]: the family, or Never
  page,     \* what the last scrape exported
  written   \* history: when the sample of <<family, tags>> was last written

vars == <<now, fam, page, written>>

Metric == [family : Family, tags : Tags, labels : SUBSET Label]

TypeOK ==
  /\ now \in 0 .. MaxTime
  /\ fam \in [Family -> MetricFamily \cup {Never}]
  /\ page \in SUBSET Metric
  /\ written \in [Family \X Tags -> Nat \cup {Never}]

Init ==
  /\ now = 0
  /\ fam = [f \in Family |-> Never]
  /\ page = {}
  /\ written = [s \in Family \X Tags |-> Never]

Held(fm) == {t \in Tags : fm.samples[t] # Never}

------------------------------------------------------------------------------
(* WritePoints.                                                            *)

AtLeast(x, low) == IF x < low THEN low ELSE x

\* How long a sample of the stat lives.
Expiration(st) == AtLeast(UpdateIntvl[st], MinExpiration) * ExpiryMultiplier

NewFamily ==
  [samples |-> [t \in Tags |-> Never], labelSet |-> [l \in Label |-> 0]]

\* How many samples with these tags carry the label.
Carry(ts, l) == Cardinality({t \in ts : l \in LabelsOf[t]})

\* Samples come and others go.
Count(labelSet, come, go) ==
  [l \in Label |-> labelSet[l] + Carry(come, l) - Carry(go, l)]

Stored(fm, ts, exp) == [t \in Tags |-> IF t \in ts THEN exp ELSE fm.samples[t]]

\* Mutant: the labels of a sample that is replaced stay counted.
AddSamplesAgain(fm, ts, exp) ==
  [samples |-> Stored(fm, ts, exp), labelSet |-> Count(fm.labelSet, ts, {})]

\* Mutant: labels are counted for new samples only, and given up by old ones.
AddSamplesNewOnly(fm, ts, exp) ==
  [samples |-> Stored(fm, ts, exp),
   labelSet |-> Count(fm.labelSet, ts \ Held(fm), ts \cap Held(fm))]

\* addSample, for all the samples of one family in a batch of points: a sample
\* that is replaced gives up its labels.
AddSamples(fm, ts, exp) ==
  [samples |-> Stored(fm, ts, exp),
   labelSet |-> Count(fm.labelSet, ts, ts \cap Held(fm))]

AddMetricFamily(fm, ts, exp) ==
  IF ts = {} THEN fm ELSE AddSamples(IF fm = Never THEN NewFamily ELSE fm, ts, exp)

\* The samples S of the stat are stored.
Store(st, S) ==
  /\ fam' = [f \in Family |->
               AddMetricFamily(fam[f], {t \in Tags : <<f, t>> \in S}, now + Expiration(st))]
  /\ written' = [s \in Family \X Tags |-> IF s \in S THEN now ELSE written[s]]

\* A point of the stat, with any non-empty choice of its tag sets.
WritePoints(st) ==
  /\ \E ts \in SUBSET Tags \ {{}} : Store(st, FamiliesOf[st] \X ts)
  /\ UNCHANGED <<now, page>>

\* A value that is no number: what precedes it in the batch, in no particular
\* order, has been stored.
WritePointsFails(st) ==
  /\ \E S \in SUBSET (FamiliesOf[st] \X Tags) : Store(st, S)
  /\ UNCHANGED <<now, page>>

------------------------------------------------------------------------------
(* Collect.                                                                *)

\* Mutant: samples are removed without their labels.
RemoveSamplesOnly(fm, ts) == [fm EXCEPT !.samples = Stored(fm, ts, Never)]

RemoveSamples(fm, ts) ==
  [samples |-> Stored(fm, ts, Never), labelSet |-> Count(fm.labelSet, {}, ts)]

Expired(fm) == {t \in Held(fm) : now > fm.samples[t]}

\* Mutant: the family goes with the first of its samples that expires.
ExpireFamily(fm) == IF fm = Never \/ Expired(fm) # {} THEN Never ELSE fm

\* Expire, for one family: it goes with its last sample.
Expire(fm) ==
  IF fm = Never \/ Expired(fm) = Held(fm) THEN Never ELSE RemoveSamples(fm, Expired(fm))

Collect ==
  /\ fam' = [f \in Family |-> Expire(fam[f])]
  /\ page' = UNION {[family : {f}, tags : Held(fam'[f]),
                     labels : {{l \in Label : fam'[f].labelSet[l] > 0}}]
                      : f \in {g \in Family : fam'[g] # Never}}
  /\ UNCHANGED <<now, written>>

Tick ==
  /\ now < MaxTime
  /\ now' = now + 1
  /\ page' = {}
  /\ UNCHANGED <<fam, written>>

Next ==
  \/ \E st \in Stat : WritePoints(st) \/ WritePointsFails(st)
  \/ Collect
  \/ Tick

Spec == Init /\ [][Next]_vars

------------------------------------------------------------------------------
(* Properties.                                                             *)

\* The count of a label is the number of samples that carry it, through every
\* replacement, partial write and expiry: else a label would stay on every
\* metric of the family for ever, or be missing from some.
LabelCounts ==
  \A f \in Family : fam[f] # Never =>
    \A l \in Label : fam[f].labelSet[l] = Carry(Held(fam[f]), l)

\* A scrape exports each sample with all its labels, and a family with one set
\* of labels, which is what the Prometheus registry demands of a collector.
PageIsSound ==
  \A m \in page :
    /\ LabelsOf[m.tags] \subseteq m.labels
    /\ \A n \in page : n.family = m.family => n.labels = m.labels
    /\ written[<<m.family, m.tags>>] # Never

\* The sample has been written, and its last write is not too long ago.
Lives(st, f, t) ==
  written[<<f, t>>] # Never /\ now <= written[<<f, t>>] + Expiration(st)

\* A scrape exports a sample if and only if it lives, by its last write: it is not
\* gone because others of its family are, because a batch failed beside it or
\* because an older sample in its place has expired, and none comes back with a
\* family that is made again.
ScrapesAreExact ==
  [][Collect =>
       \A st \in Stat, t \in Tags : \A f \in FamiliesOf[st] :
         (\E m \in page' : m.family = f /\ m.tags = t) <=> Lives(st, f, t)]_vars

------------------------------------------------------------------------------
(* What the documentation says and the code does not do.                   *)

\* calcBuckets: the time between two collections of the stat.
CollectIntvl(st) ==
  IF UpdateIntvl[st] = 0 THEN MinUpdateInvtl
  ELSE AtLeast(Multiplier * UpdateIntvl[st], MinUpdateInvtl)

Present(f, t) == fam[f] # Never /\ t \in Held(fam[f]) \ Expired(fam[f])

\* "With the default multiplier of 2 a sample survives two collection intervals,
\* so a single missed or timed-out collection does not immediately create a
\* scrape gap" (gostats.example.toml): a sample is there until the second
\* collection after the one that wrote it is over.  The code multiplies the
\* interval at which the cluster updates the stat, not that of its collection.
NoScrapeGap ==
  \A st \in Stat, t \in Tags : \A f \in FamiliesOf[st] :
    written[<<f, t>>] # Never /\ now <= written[<<f, t>>] + 2 * CollectIntvl(st)
      => Present(f, t)

==============================================================================
