-------------------------------- MODULE PPSink --------------------------------
(***************************************************************************)
(* What goppstats makes of the workloads of a cluster: points              *)
(* (cmd/goppstats/backend.go), samples on the page for Prometheus          *)
(* (cmd/goppstats/prometheus.go) with the timing of the polls that write   *)
(* them (cmd/goppstats/main.go), and the queries of the dashboards that    *)
(* dashgen writes for them (cmd/dashgen/main.go).                          *)
(*                                                                         *)
(* PPLoop has the errors and the changes of the datasets; here a poll      *)
(* writes all of a fixed set of datasets, after any time.  The fields of a *)
(* workload are treated alike: there is one.  The cluster is the same for  *)
(* all samples.  A tag or label that is empty is one that is not there.    *)
(***************************************************************************)
EXTENDS Naturals

CONSTANTS
  Dataset,
  Metrics,     \* Metrics[d]: the attributes the dataset is broken out by
  Rows,        \* Rows[d]: the workloads the cluster may report for it
  Overflow,    \* the workload types that are not workloads, such as "System"
  Path,        \* the paths an export may have
  Lookups,     \* the settings of lookup_export_ids to start from
  Period,      \* seconds from the start of a poll to that of the next
  Lifetime,    \* seconds that a sample stays on the page
  MaxElapsed,  \* bound: seconds that a poll takes
  None         \* no value: an empty tag, a path not looked up yet

LookupFailed == "unknown"

Plain(r) == r.type \in {None, "Pinned"}

\* A workload: the attributes of its dataset, unless it is no real one; its type;
\* and the number it has if it is pinned.
WorkloadOf(d, r) ==
  /\ r \in [node : STRING, type : STRING \cup {None}, id : STRING \cup {None},
            attrs : [IF Plain(r) THEN Metrics[d] ELSE {} -> STRING]]
  /\ r.type # "Pinned" => r.id = None

Row == UNION {Rows[d] : d \in Dataset}

ExportId == {r.attrs["export_id"] : r \in {r \in Row : "export_id" \in DOMAIN r.attrs}}

ASSUME SinkAssumption ==
  /\ Period \in Nat /\ Lifetime \in Nat /\ MaxElapsed \in Nat
  /\ Period <= Lifetime
  /\ None \notin Path \cup {LookupFailed} /\ None \notin Nat
  /\ Overflow \cap {None, "Pinned"} = {} /\ Lookups \subseteq BOOLEAN
  /\ \A d \in Dataset :
       /\ Metrics[d] \cap {"export_path", "node", "pinned"} = {}
       /\ \A r \in Rows[d] : WorkloadOf(d, r)

VARIABLES
  lookup,   \* lookup_export_ids
  pathOf,   \* exports.pathByID
  pc,       \* "read", "write" or "sleep"
  todo,     \* datasets this poll has still to read
  ds,       \* the dataset that is written
  points,   \* its points
  elapsed,  \* time since the poll began
  wait,     \* the rest of the sleep
  samples,  \* the samples of all families
  late,     \* the poll before took longer than Period
  wrote,    \* wrote[d]: how far into its poll the dataset was last written
  last      \* last[d]: family and identity of the samples that were written

loopVars == <<pc, todo, ds, points, wait>>
history == <<late, wrote, last>>
vars == <<lookup, pathOf, loopVars, elapsed, samples, history>>

Point == [row : Row, path : Path \cup {LookupFailed, None}]

------------------------------------------------------------------------------
(* The names and the labels of the samples.                                *)

\* CreateDataset: the attributes with, if exports are looked up, their paths.
Base(d) ==
  Metrics[d] \cup (IF lookup /\ "export_id" \in Metrics[d] THEN {"export_path"} ELSE {})

\* The family: a regular one has no bucket.
Family(base, bucket) == [base |-> base, bucket |-> bucket]

\* makePromMetrics makes these, and no other.
Families == [base : {Base(d) : d \in Dataset}, bucket : Overflow \cup {None}]

\* Mutant: a pinned workload is put in a bucket of its own.
BucketPinned(p) == p.row.type

\* A pinned workload is a regular one.
Bucket(p) == IF Plain(p.row) THEN None ELSE p.row.type

Tag(p, m) ==
  IF m = "node" THEN p.row.node
  ELSE IF m = "export_path" THEN p.path
  ELSE IF m \in DOMAIN p.row.attrs THEN p.row.attrs[m] ELSE None

\* Mutant: there is no label for what is pinned.
LabelsUnpinned(d, p) ==
  [l \in (IF Plain(p.row) THEN Base(d) ELSE {}) \cup {"node"} |-> Tag(p, l)]

\* Only regular samples have the tags of the dataset for labels.
Labels(d, p) ==
  [l \in (IF Plain(p.row) THEN Base(d) \cup {"pinned"} ELSE {}) \cup {"node"} |->
     IF l = "pinned" THEN IF p.row.type = "Pinned" THEN "true" ELSE "false"
     ELSE Tag(p, l)]

\* Mutant: whatever the cluster calls a type is taken for one.
ValidAlways(p) == TRUE

\* isValidWorkloadType
Valid(p) == Plain(p.row) \/ p.row.type \in Overflow

Sample(d, p) ==
  [fam |-> Family(Base(d), Bucket(p)), id |-> p, labels |-> Labels(d, p), age |-> 0]

Key(s) == <<s.fam, s.id>>

\* What the next scrape finds: Collect drops the samples that have expired.
Page == {s \in samples : s.age <= Lifetime}

------------------------------------------------------------------------------
(* The polls.                                                              *)

TypeOK ==
  /\ lookup \in BOOLEAN
  /\ pathOf \in [ExportId -> Path \cup {LookupFailed, None}]
  /\ pc \in {"read", "write", "sleep"}
  /\ todo \in SUBSET Dataset /\ ds \in Dataset
  /\ points \in SUBSET Point
  /\ elapsed \in Nat /\ wait \in Nat
  /\ \A s \in samples : /\ s.fam \in Families /\ s.id \in Point
                        /\ DOMAIN s.labels \subseteq s.fam.base \cup {"node", "pinned"}
                        /\ s.age \in 0 .. Lifetime + 1
  /\ late \in BOOLEAN
  /\ wrote \in [Dataset -> Nat \cup {None}]
  /\ last \in [Dataset -> SUBSET (Families \X Point)]

Init ==
  /\ lookup \in Lookups
  /\ pathOf = [e \in ExportId |-> None]
  /\ pc = "read" /\ todo = Dataset
  /\ ds \in Dataset /\ points = {}
  /\ elapsed = 0 /\ wait = 0
  /\ samples = {}
  /\ late = FALSE
  /\ wrote = [d \in Dataset |-> None]
  /\ last = [d \in Dataset |-> {}]

\* The answers of the cluster: no workload is in one twice, under two numbers.
Answers(d) ==
  {rows \in SUBSET Rows[d] :
     \A r, q \in rows : r.node = q.node /\ r.type = q.type /\ r.attrs = q.attrs => r = q}

Found == [ExportId -> Path \cup {LookupFailed}]

LooksUp(r) == lookup /\ "export_id" \in DOMAIN r.attrs

\* A path that is known, if only as one that could not be looked up, stays.
PathNow(e, found) == IF pathOf[e] = None THEN found[e] ELSE pathOf[e]

\* Mutant: an export that could not be looked up is looked up again.
RememberedIfFound(rows, found) ==
  [e \in ExportId |->
     IF PathNow(e, found) # LookupFailed /\ \E r \in rows : LooksUp(r) /\ r.attrs["export_id"] = e
     THEN PathNow(e, found) ELSE pathOf[e]]

Remembered(rows, found) ==
  [e \in ExportId |->
     IF \E r \in rows : LooksUp(r) /\ r.attrs["export_id"] = e
     THEN PathNow(e, found) ELSE pathOf[e]]

\* GetPPStats and ppStatsToPoints.
ReadDataset ==
  /\ pc = "read"
  /\ \E d \in todo, found \in Found : \E rows \in Answers(d) :
       /\ ds' = d /\ todo' = todo \ {d}
       /\ pathOf' = Remembered(rows, found)
       /\ points' = {[row |-> r, path |-> IF LooksUp(r) THEN PathNow(r.attrs["export_id"], found)
                                          ELSE None] : r \in rows}
  /\ pc' = "write"
  /\ UNCHANGED <<lookup, elapsed, wait, samples, history>>

\* Mutant: the next poll is due so long after this one has ended.
SleepFromEnd == Period

\* The next poll is due so long after this one began, or was before now.
Sleep == IF elapsed < Period THEN Period - elapsed ELSE 0

\* A sample of the same family and identity is replaced.  After the last
\* dataset the loop sleeps.
WritePoints ==
  /\ pc = "write"
  /\ LET new == {Sample(ds, p) : p \in {p \in points : Valid(p)}}
         keys == {Key(s) : s \in new}
     IN  /\ samples' = {s \in samples : Key(s) \notin keys} \cup new
         /\ last' = [last EXCEPT ![ds] = keys]
  /\ wrote' = [wrote EXCEPT ![ds] = elapsed]
  /\ IF todo = {} THEN pc' = "sleep" /\ wait' = Sleep /\ late' = (elapsed > Period)
     ELSE pc' = "read" /\ UNCHANGED <<wait, late>>
  /\ points' = {}
  /\ UNCHANGED <<lookup, pathOf, todo, ds, elapsed>>

NextPoll ==
  /\ pc = "sleep" /\ wait = 0
  /\ pc' = "read" /\ todo' = Dataset
  /\ elapsed' = 0
  /\ UNCHANGED <<lookup, pathOf, ds, points, wait, samples, history>>

\* Requests take their time; a timer goes off when it is due.
Tick ==
  /\ IF pc = "sleep" THEN wait > 0 /\ wait' = wait - 1
     ELSE elapsed < MaxElapsed /\ UNCHANGED wait
  /\ elapsed' = elapsed + 1
  /\ samples' = {[s EXCEPT !.age = IF @ > Lifetime THEN @ ELSE @ + 1] : s \in samples}
  /\ UNCHANGED <<lookup, pathOf, pc, todo, ds, points, history>>

\* Collect is called: Expire.
Scrape ==
  /\ samples' = Page
  /\ UNCHANGED <<lookup, pathOf, loopVars, elapsed, history>>

Next == ReadDataset \/ WritePoints \/ NextPoll \/ Tick \/ Scrape

Spec == Init /\ [][Next]_vars

------------------------------------------------------------------------------
(* The dashboards: a panel asks for the workloads, grouped by attributes,  *)
(* and for each of the other types.  The flag -export-path is given if, as *)
(* its comment asks, exports are looked up.                                *)

TagName(m) == IF m = "export_id" /\ lookup THEN "export_path" ELSE m

Queries(d) ==
  {[bucket |-> None, by |-> {TagName(m) : m \in Metrics[d]}]} \cup
  {[bucket |-> b, by |-> {}] : b \in Overflow}

\* buildNormalQuery, buildOverflowQuery: the points with these tags.
InfluxSelects(q, p) == IF q.bucket = None THEN Plain(p.row) ELSE p.row.type = q.bucket

\* buildPromNormalQuery, buildPromOverflowQuery: the samples of one family.
PromSelects(d, q, s) == s.fam = Family(Metrics[d], q.bucket)

------------------------------------------------------------------------------
(* Properties.                                                             *)

\* No two metrics of a page have the same name and labels, which are one series
\* to Prometheus; but for a pinned workload that was unpinned and pinned anew, the
\* number of which is an identity and not a label.
PageHasNoDuplicates ==
  \A s, t \in Page :
    s # t /\ s.fam = t.fam /\ s.labels = t.labels =>
      s.id.row.type = "Pinned" /\ t.id.row.type = "Pinned" /\ s.id.row.id # t.id.row.id

\* An export is shown with one path, whatever lookups of other polls gave.
OnePathPerExport ==
  \A s, t \in Page :
    LooksUp(s.id.row) /\ LooksUp(t.id.row) /\ Tag(s.id, "export_id") = Tag(t.id, "export_id") =>
      s.id.path = t.id.path

\* Something that the dataset's last write gave is not on the page.
Gap(d) == \E k \in last[d] : \A s \in Page : Key(s) # k

\* What a write gave stays on the page until the dataset is written again: unless
\* the poll before took longer than it may, or this one has taken longer already
\* than that did to get to the dataset.
NoGapUnlessSlower ==
  \A d \in Dataset : Gap(d) =>
    IF d \in todo \/ (pc = "write" /\ d = ds)
    THEN late \/ elapsed > wrote[d]
    ELSE elapsed > Lifetime

\* One query of the dataset's panels for Prometheus, and only one, selects what
\* its last write put on the page, and groups it by labels it has.
Shown(d) ==
  \A s \in Page : Key(s) \in last[d] =>
    \E q \in Queries(d) : /\ {r \in Queries(d) : PromSelects(d, r, s)} = {q}
                          /\ q.by \subseteq DOMAIN s.labels

\* A panel shows each row once, whichever the back end: the queries for InfluxDB
\* part the points of a dataset among them, those for Prometheus the samples of a
\* dataset whose exports are not looked up.
DashboardsShowAll ==
  /\ \A p \in points : Valid(p) =>
       \E q \in Queries(ds) : {r \in Queries(ds) : InfluxSelects(r, p)} = {q}
  /\ \A d \in Dataset : (lookup /\ "export_id" \in Metrics[d]) \/ Shown(d)

===============================================================================
