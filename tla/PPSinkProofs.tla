----------------------------- MODULE PPSinkProofs -----------------------------
(***************************************************************************)
(* Theorems about PPSink, for any datasets, workloads and lengths of the   *)
(* period and of a sample's life.                                          *)
(***************************************************************************)
EXTENDS PPSink, TLAPS

\* The points are rows of the dataset that is written.
PointsOfDs == \A p \in points : p \in Point /\ p.row \in Rows[ds]

\* A sample is what WritePoints made of some point, but for its age.
Aged(d, p, a) ==
  [fam |-> Family(Base(d), Bucket(p)), id |-> p, labels |-> Labels(d, p), age |-> a]

Exported(d, p) == d \in Dataset /\ p \in Point /\ p.row \in Rows[d] /\ Valid(p)

SamplesMade ==
  \A s \in samples : \E d \in Dataset, p \in Point, a \in 0 .. Lifetime + 1 :
    Exported(d, p) /\ s = Aged(d, p, a)

\* A family has one sample of an identity.
OneSample == \A s, t \in samples : Key(s) = Key(t) => s = t

\* The path of an export in points and samples is the one remembered.
PathKept(p) ==
  IF LooksUp(p.row)
  THEN p.path = pathOf[p.row.attrs["export_id"]] /\ p.path # None
  ELSE p.path = None

PathsKept == (\A p \in points : PathKept(p)) /\ (\A s \in samples : PathKept(s.id))

ContentInv == TypeOK /\ PointsOfDs /\ SamplesMade /\ OneSample /\ PathsKept

------------------------------------------------------------------------------
(* Points and samples.                                                     *)

LEMMA RowIsTyped ==
  ASSUME SinkAssumption, NEW d \in Dataset, NEW r \in Rows[d]
  PROVE  r \in Row /\ WorkloadOf(d, r)
BY DEF SinkAssumption, Row

LEMMA FamilyTells ==
  ASSUME NEW x, NEW y, NEW u, NEW v, Family(x, y) = Family(u, v)
  PROVE  x = u /\ y = v
<1>1. Family(x, y).base = Family(u, v).base /\ Family(x, y).bucket = Family(u, v).bucket
  OBVIOUS
<1> QED BY <1>1 DEF Family

\* An export that is looked up is one of the exports there are.
LEMMA ExportKnown ==
  ASSUME NEW r \in Row, LooksUp(r)
  PROVE  r.attrs["export_id"] \in ExportId
BY DEF LooksUp, ExportId

\* What WritePoints makes of a point has the type of a sample.
LEMMA SampleTyped ==
  ASSUME SinkAssumption, NEW d, NEW p, Exported(d, p), NEW a \in 0 .. Lifetime + 1,
         NEW s, s = Aged(d, p, a)
  PROVE  /\ s.fam \in Families /\ s.id = p /\ p \in Point
         /\ DOMAIN s.labels \subseteq s.fam.base \cup {"node", "pinned"}
         /\ s.age \in 0 .. Lifetime + 1
<1>1. s.fam = Family(Base(d), Bucket(p)) /\ s.labels = Labels(d, p) /\ s.id = p /\ s.age = a
  BY DEF Aged
<1>2. Bucket(p) \in Overflow \cup {None}
  BY DEF Exported, Valid, Bucket
<1>3. Family(Base(d), Bucket(p)) \in Families /\ Family(Base(d), Bucket(p)).base = Base(d)
  BY <1>2 DEF Family, Families, Exported
<1>4. DOMAIN Labels(d, p) \subseteq Base(d) \cup {"node", "pinned"}
  BY DEF Labels
<1> QED BY <1>1, <1>3, <1>4 DEF Exported

LEMMA ContentInit == ASSUME SinkAssumption, Init PROVE ContentInv
<1>1. TypeOK
  BY DEF Init, TypeOK, SinkAssumption
<1> QED
  BY <1>1 DEF Init, ContentInv, PointsOfDs, SamplesMade, OneSample, PathsKept

\* How samples are made does not change.
LEMMA MadeStays ==
  ASSUME UNCHANGED lookup
  PROVE  /\ Families' = Families
         /\ \A d, p, a : Aged(d, p, a)' = Aged(d, p, a) /\ Exported(d, p)' = Exported(d, p)
<1>1. \A d : Base(d)' = Base(d)
  BY DEF Base
<1> QED
  BY <1>1, ZenonT(30) DEF Families, Aged, Exported, Family, Labels, Tag, Bucket, Valid, Plain

LEMMA ReadKeepsContent ==
  ASSUME SinkAssumption, ContentInv, ReadDataset
  PROVE  ContentInv'
<1>1. PICK d \in todo, found \in Found : \E rows \in Answers(d) :
        /\ ds' = d /\ todo' = todo \ {d}
        /\ pathOf' = Remembered(rows, found)
        /\ points' = {[row |-> r, path |-> IF LooksUp(r) THEN PathNow(r.attrs["export_id"], found)
                                           ELSE None] : r \in rows}
  BY DEF ReadDataset
<1>2. PICK rows \in Answers(d) :
        /\ ds' = d /\ todo' = todo \ {d}
        /\ pathOf' = Remembered(rows, found)
        /\ points' = {[row |-> r, path |-> IF LooksUp(r) THEN PathNow(r.attrs["export_id"], found)
                                           ELSE None] : r \in rows}
  BY <1>1
<1>3. UNCHANGED <<lookup, samples, elapsed, wait, late, wrote, last>> /\ pc' = "write"
  BY DEF ReadDataset, history
<1>4. rows \subseteq Rows[d] /\ d \in Dataset
  BY DEF Answers, ContentInv, TypeOK
<1>5. \A e \in ExportId : /\ PathNow(e, found) \in Path \cup {LookupFailed}
                          /\ PathNow(e, found) # None
  BY DEF Found, PathNow, ContentInv, TypeOK, SinkAssumption, LookupFailed
<1>6. \A r \in rows : /\ r \in Rows[d] /\ r \in Row
                      /\ LooksUp(r) => r.attrs["export_id"] \in ExportId
  BY <1>4, RowIsTyped, ExportKnown
<1>7. \A p \in points' : p \in Point /\ p.row \in Rows[d]
  BY <1>2, <1>5, <1>6 DEF Point
<1>8. TypeOK'
  <2>1. pathOf' \in [ExportId -> Path \cup {LookupFailed, None}]
    BY <1>2, <1>5 DEF Remembered, ContentInv, TypeOK
  <2>2. points' \in SUBSET Point
    BY <1>7
  <2>3. Families' = Families
    BY <1>3, MadeStays
  <2> QED
    BY <1>2, <1>3, <1>4, <2>1, <2>2, <2>3 DEF ContentInv, TypeOK
<1>9. PointsOfDs'
  BY <1>2, <1>7 DEF PointsOfDs
<1>10. SamplesMade'
  BY <1>3, MadeStays DEF ContentInv, SamplesMade
<1>11. OneSample'
  BY <1>3 DEF ContentInv, OneSample, Key
<1>12. \A e \in ExportId : pathOf[e] # None => pathOf'[e] = pathOf[e]
  BY <1>2 DEF Remembered, PathNow
<1>13. ASSUME NEW s \in samples' PROVE PathKept(s.id)'
  <2>1. s \in samples /\ PathKept(s.id) /\ s.id.row \in Row
    BY <1>3 DEF ContentInv, PathsKept, TypeOK, Point
  <2> QED
    BY <1>3, <1>12, <2>1, ExportKnown DEF PathKept, LooksUp
<1>14. ASSUME NEW p \in points' PROVE PathKept(p)'
  <2>1. PICK r \in rows :
          p = [row |-> r, path |-> IF LooksUp(r) THEN PathNow(r.attrs["export_id"], found) ELSE None]
    BY <1>2
  <2>2. CASE LooksUp(r)
    <3>1. pathOf'[r.attrs["export_id"]] = PathNow(r.attrs["export_id"], found)
      BY <1>2, <1>6, <2>2 DEF Remembered
    <3> QED
      BY <1>3, <1>5, <1>6, <2>1, <2>2, <3>1 DEF PathKept, LooksUp
  <2>3. CASE ~LooksUp(r)
    BY <1>3, <2>1, <2>3 DEF PathKept, LooksUp
  <2> QED BY <2>2, <2>3
<1> QED
  BY <1>8, <1>9, <1>10, <1>11, <1>13, <1>14 DEF ContentInv, PathsKept

LEMMA WriteKeepsContent ==
  ASSUME SinkAssumption, ContentInv, WritePoints
  PROVE  ContentInv'
<1> DEFINE new == {Sample(ds, p) : p \in {p \in points : Valid(p)}}
           keys == {Key(s) : s \in new}
<1>1. /\ samples' = {s \in samples : Key(s) \notin keys} \cup new
      /\ last' = [last EXCEPT ![ds] = keys]
      /\ wrote' = [wrote EXCEPT ![ds] = elapsed]
      /\ points' = {} /\ UNCHANGED <<lookup, pathOf, todo, ds, elapsed>>
  BY DEF WritePoints
<1>2. ds \in Dataset /\ elapsed \in Nat
  BY DEF ContentInv, TypeOK
<1>3. \A p \in points : Valid(p) => Exported(ds, p) /\ Sample(ds, p) = Aged(ds, p, 0)
  BY <1>2 DEF ContentInv, PointsOfDs, Exported, Sample, Aged
<1>4. \A s \in new : \E p \in points : Exported(ds, p) /\ s = Aged(ds, p, 0)
  BY <1>3
<1>5. 0 \in 0 .. Lifetime + 1
  BY DEF SinkAssumption
<1>6. keys \subseteq Families \X Point
  BY <1>4, <1>5, SampleTyped DEF Key
<1> HIDE DEF new, keys
<1>7. SamplesMade'
  <2>1. \A s \in samples' : \E d \in Dataset, p \in Point, a \in 0 .. Lifetime + 1 :
          Exported(d, p) /\ s = Aged(d, p, a)
    BY <1>1, <1>2, <1>4, <1>5 DEF ContentInv, SamplesMade, Exported
  <2> QED BY <1>1, <2>1, MadeStays DEF SamplesMade
<1>8. \A s \in samples' : /\ s.fam \in Families /\ s.id \in Point
                          /\ DOMAIN s.labels \subseteq s.fam.base \cup {"node", "pinned"}
                          /\ s.age \in 0 .. Lifetime + 1
  BY <1>1, <1>4, <1>5, SampleTyped DEF ContentInv, TypeOK
<1>9. /\ pc' \in {"read", "sleep"} /\ wait' \in Nat /\ late' \in BOOLEAN
  <2>1. Sleep \in Nat
    BY <1>2, SinkAssumption DEF Sleep, SinkAssumption
  <2>2. pc' \in {"read", "sleep"} /\ wait' \in Nat
    BY <2>1 DEF WritePoints, ContentInv, TypeOK
  <2>3. late' \in BOOLEAN
    <3>1. late \in BOOLEAN /\ (elapsed > Period) \in BOOLEAN
      BY DEF ContentInv, TypeOK
    <3>2. late' = (elapsed > Period) \/ late' = late
      BY DEF WritePoints
    <3> QED BY <3>1, <3>2, Zenon
  <2> QED BY <2>2, <2>3
<1>10. TypeOK'
  <2>1. last' \in [Dataset -> SUBSET (Families \X Point)]
    BY <1>1, <1>6 DEF ContentInv, TypeOK
  <2>2. wrote' \in [Dataset -> Nat \cup {None}]
    BY <1>1, <1>2 DEF ContentInv, TypeOK
  <2> QED
    BY <1>1, <1>2, <1>8, <1>9, <2>1, <2>2, MadeStays DEF ContentInv, TypeOK
<1>11. OneSample'
  <2>1. \A s, t \in new : Key(s) = Key(t) => s = t
    BY <1>4 DEF Key, Aged
  <2>2. \A s \in new : Key(s) \in keys
    BY DEF keys
  <2> QED
    BY <1>1, <2>1, <2>2 DEF ContentInv, OneSample, Key
<1>12. PointsOfDs'
  BY <1>1 DEF PointsOfDs
<1>13. PathsKept'
  <2>1. \A s \in new : s.id \in points
    BY <1>4 DEF Aged
  <2> QED BY <1>1, <2>1 DEF ContentInv, PathsKept, PathKept, LooksUp
<1> QED
  BY <1>7, <1>10, <1>11, <1>12, <1>13 DEF ContentInv

LEMMA TickKeepsContent ==
  ASSUME SinkAssumption, ContentInv, Tick
  PROVE  ContentInv'
<1> DEFINE Older(s) == [s EXCEPT !.age = IF @ > Lifetime THEN @ ELSE @ + 1]
<1>1. /\ samples' = {Older(s) : s \in samples} /\ elapsed' = elapsed + 1
      /\ UNCHANGED <<lookup, pathOf, pc, todo, ds, points, late, wrote, last>>
  BY DEF Tick, history
<1>2. wait' \in Nat
  BY DEF Tick, ContentInv, TypeOK
<1>3. ASSUME NEW s \in samples
      PROVE  /\ Older(s).fam = s.fam /\ Older(s).id = s.id /\ Older(s).labels = s.labels
             /\ Older(s).age \in 0 .. Lifetime + 1
             /\ \E d \in Dataset, p \in Point, a \in 0 .. Lifetime + 1 :
                  Exported(d, p) /\ Older(s) = Aged(d, p, a)
  <2>1. PICK d \in Dataset, p \in Point, a \in 0 .. Lifetime + 1 :
          Exported(d, p) /\ s = Aged(d, p, a)
    BY DEF ContentInv, SamplesMade
  <2> DEFINE b == IF a > Lifetime THEN a ELSE a + 1
  <2>2. b \in 0 .. Lifetime + 1
    BY SinkAssumption DEF SinkAssumption
  <2>3. Older(s) = Aged(d, p, b)
    BY <2>1 DEF Aged
  <2> HIDE DEF b
  <2> QED BY <2>1, <2>2, <2>3 DEF Aged
<1>4. \A s, t \in samples : Older(s).fam = Older(t).fam /\ Older(s).id = Older(t).id => s = t
  BY <1>3 DEF ContentInv, OneSample, Key
<1> HIDE DEF Older
<1>5. TypeOK'
  <2>1. \A s \in samples' : /\ s.fam \in Families /\ s.id \in Point
                            /\ DOMAIN s.labels \subseteq s.fam.base \cup {"node", "pinned"}
                            /\ s.age \in 0 .. Lifetime + 1
    BY <1>1, <1>3 DEF ContentInv, TypeOK
  <2> QED
    BY <1>1, <1>2, <2>1, MadeStays DEF ContentInv, TypeOK
<1>6. SamplesMade'
  BY <1>1, <1>3, MadeStays DEF SamplesMade
<1>7. OneSample'
  BY <1>1, <1>4 DEF OneSample, Key
<1>8. PathsKept' /\ PointsOfDs'
  BY <1>1, <1>3 DEF ContentInv, PathsKept, PathKept, LooksUp, PointsOfDs
<1> QED BY <1>5, <1>6, <1>7, <1>8 DEF ContentInv

LEMMA RestKeepsContent ==
  ASSUME SinkAssumption, ContentInv, NextPoll \/ Scrape \/ UNCHANGED vars
  PROVE  ContentInv'
<1>1. /\ samples' \subseteq samples
      /\ UNCHANGED <<lookup, pathOf, ds, points, late, wrote, last, wait>>
      /\ elapsed' \in Nat /\ pc' \in {"read", "write", "sleep"} /\ todo' \in SUBSET Dataset
  BY DEF NextPoll, Scrape, Page, vars, loopVars, history, ContentInv, TypeOK
<1>2. TypeOK'
  BY <1>1, MadeStays DEF ContentInv, TypeOK
<1>3. SamplesMade'
  BY <1>1, MadeStays DEF ContentInv, SamplesMade
<1>4. OneSample' /\ PathsKept' /\ PointsOfDs'
  BY <1>1 DEF ContentInv, OneSample, Key, PathsKept, PathKept, LooksUp, PointsOfDs
<1> QED BY <1>2, <1>3, <1>4 DEF ContentInv

\* What is on the page and what is known of exports belong together, whatever is
\* written, renamed, looked up or expires.
THEOREM ContentInvariant == ASSUME SinkAssumption PROVE Spec => []ContentInv
<1>1. Init => ContentInv
  BY ContentInit
<1>2. ContentInv /\ [Next]_vars => ContentInv'
  BY ReadKeepsContent, WriteKeepsContent, TickKeepsContent, RestKeepsContent DEF Next
<1> QED BY <1>1, <1>2, PTL DEF Spec

\* Every sample has a family that makePromMetrics made, with labels of its
\* dataset only, whatever types of workloads the cluster may invent.
THEOREM SinkTypeCorrect == ASSUME SinkAssumption PROVE Spec => []TypeOK
<1>1. ContentInv => TypeOK
  BY DEF ContentInv
<1> QED BY <1>1, ContentInvariant, PTL

\* An export has one path on the page: the first that was looked up, though it
\* may be that of a failure.
THEOREM OnePath == ASSUME SinkAssumption PROVE Spec => []OnePathPerExport
<1>1. ContentInv => OnePathPerExport
  <2> SUFFICES ASSUME ContentInv, NEW s \in Page, NEW t \in Page,
                      LooksUp(s.id.row), LooksUp(t.id.row),
                      Tag(s.id, "export_id") = Tag(t.id, "export_id")
               PROVE  s.id.path = t.id.path
    BY DEF OnePathPerExport
  <2>1. Tag(s.id, "export_id") = s.id.row.attrs["export_id"]
        /\ Tag(t.id, "export_id") = t.id.row.attrs["export_id"]
    BY DEF Tag, LooksUp
  <2>2. PathKept(s.id) /\ PathKept(t.id)
    BY DEF ContentInv, PathsKept, Page
  <2> QED BY <2>1, <2>2 DEF PathKept
<1> QED BY <1>1, ContentInvariant, PTL

------------------------------------------------------------------------------
(* Duplicates.                                                             *)

\* The labels of two regular points of one family tell their tags, but for the
\* number of what is pinned.
LEMMA LabelsTellTags ==
  ASSUME SinkAssumption, NEW c, NEW d, NEW p, NEW q,
         Exported(c, p), Exported(d, q), PathKept(p), PathKept(q),
         Plain(p.row), Plain(q.row), Base(c) = Base(d), Labels(c, p) = Labels(d, q)
  PROVE  /\ p.row.node = q.row.node /\ p.row.attrs = q.row.attrs
         /\ p.row.type = q.row.type /\ p.path = q.path
<1>1. WorkloadOf(c, p.row) /\ WorkloadOf(d, q.row) /\ c \in Dataset /\ d \in Dataset
  BY RowIsTyped DEF Exported
<1>2. Metrics[c] = Base(c) \ {"export_path"} /\ Metrics[d] = Base(d) \ {"export_path"}
  BY <1>1, SinkAssumption DEF Base, SinkAssumption
<1>3. Metrics[c] = Metrics[d] /\ DOMAIN p.row.attrs = Metrics[c] /\ DOMAIN q.row.attrs = Metrics[c]
  BY <1>1, <1>2 DEF WorkloadOf
<1>4. ASSUME NEW l \in Base(c) \cup {"node"}, l # "pinned" PROVE Tag(p, l) = Tag(q, l)
  <2>1. Labels(c, p)[l] = Tag(p, l) /\ Labels(d, q)[l] = Tag(q, l)
    BY <1>4 DEF Labels
  <2> QED BY <2>1
<1>5. p.row.node = q.row.node
  BY <1>4 DEF Tag
<1>6. p.row.attrs = q.row.attrs
  <2>1. ASSUME NEW m \in Metrics[c] PROVE p.row.attrs[m] = q.row.attrs[m]
    <3>1. m \notin {"node", "export_path", "pinned"}
      BY <1>1, SinkAssumption DEF SinkAssumption
    <3>2. Tag(p, m) = Tag(q, m)
      BY <1>2, <1>4, <3>1
    <3> QED BY <1>3, <3>1, <3>2 DEF Tag
  <2> QED BY <1>1, <1>3, <2>1 DEF WorkloadOf
<1>7. p.row.type = q.row.type
  <2>1. /\ Labels(c, p)["pinned"] = IF p.row.type = "Pinned" THEN "true" ELSE "false"
        /\ Labels(d, q)["pinned"] = IF q.row.type = "Pinned" THEN "true" ELSE "false"
    BY DEF Labels
  <2> QED BY <2>1 DEF Plain
<1>8. p.path = q.path
  <2>1. CASE lookup /\ "export_id" \in Metrics[c]
    <3>1. "export_path" \in Base(c) /\ "export_path" # "pinned" /\ "export_path" # "node"
      BY <2>1 DEF Base
    <3>2. Tag(p, "export_path") = Tag(q, "export_path")
      BY <1>4, <3>1
    <3> QED BY <3>1, <3>2 DEF Tag
  <2>2. CASE ~(lookup /\ "export_id" \in Metrics[c])
    BY <1>3, <2>2 DEF PathKept, LooksUp
  <2> QED BY <2>1, <2>2
<1> QED BY <1>5, <1>6, <1>7, <1>8

\* A page never has two metrics of the same name and labels, but for a workload
\* that was pinned anew: what tells samples apart are tags that are labels too.
THEOREM NoDuplicates == ASSUME SinkAssumption PROVE Spec => []PageHasNoDuplicates
<1>1. ContentInv => PageHasNoDuplicates
  <2> SUFFICES ASSUME ContentInv, NEW s \in samples, NEW t \in samples,
                      s # t, s.fam = t.fam, s.labels = t.labels
               PROVE  s.id.row.type = "Pinned" /\ t.id.row.type = "Pinned"
                      /\ s.id.row.id # t.id.row.id
    BY DEF PageHasNoDuplicates, Page
  <2>1. PICK c \in Dataset, p \in Point, a \in 0 .. Lifetime + 1 : Exported(c, p) /\ s = Aged(c, p, a)
    BY DEF ContentInv, SamplesMade
  <2>2. PICK d \in Dataset, q \in Point, b \in 0 .. Lifetime + 1 : Exported(d, q) /\ t = Aged(d, q, b)
    BY DEF ContentInv, SamplesMade
  <2>3. /\ s.id = p /\ t.id = q /\ s.labels = Labels(c, p) /\ t.labels = Labels(d, q)
        /\ s.fam = Family(Base(c), Bucket(p)) /\ t.fam = Family(Base(d), Bucket(q))
    BY <2>1, <2>2 DEF Aged
  <2>4. p # q
    BY <2>3 DEF ContentInv, OneSample, Key
  <2>5. Base(c) = Base(d) /\ Bucket(p) = Bucket(q)
    <3>1. Family(Base(c), Bucket(p)) = Family(Base(d), Bucket(q))
      BY <2>3
    <3> QED BY <3>1, FamilyTells
  <2>6. PathKept(p) /\ PathKept(q)
    BY <2>3 DEF ContentInv, PathsKept
  <2>7. WorkloadOf(c, p.row) /\ WorkloadOf(d, q.row)
    BY <2>1, <2>2, RowIsTyped DEF Exported
  <2>8. p = [row |-> p.row, path |-> p.path] /\ q = [row |-> q.row, path |-> q.path]
    BY DEF Point
  <2>9. /\ p.row = [node |-> p.row.node, type |-> p.row.type, id |-> p.row.id,
                    attrs |-> p.row.attrs]
        /\ q.row = [node |-> q.row.node, type |-> q.row.type, id |-> q.row.id,
                    attrs |-> q.row.attrs]
    BY <2>7 DEF WorkloadOf
  <2>10. CASE Plain(p.row)
    <3>1. Plain(q.row)
      BY <2>2, <2>5, <2>10, SinkAssumption DEF Bucket, Exported, Valid, SinkAssumption
    <3>2. /\ p.row.node = q.row.node /\ p.row.attrs = q.row.attrs
          /\ p.row.type = q.row.type /\ p.path = q.path
      BY <2>1, <2>2, <2>3, <2>5, <2>6, <2>10, <3>1, LabelsTellTags
    <3>3. p.row.id # q.row.id
      BY <2>4, <2>8, <2>9, <3>2
    <3> QED BY <2>3, <2>7, <3>2, <3>3 DEF WorkloadOf
  <2>11. CASE ~Plain(p.row)
    <3>1. ~Plain(q.row) /\ p.row.type = q.row.type
      BY <2>1, <2>5, <2>11, SinkAssumption DEF Bucket, Exported, Valid, SinkAssumption, Plain
    <3>2. p.row.attrs = q.row.attrs /\ p.row.id = None /\ q.row.id = None
      <4>1. p.row.attrs \in [{} -> STRING] /\ q.row.attrs \in [{} -> STRING]
        BY <2>7, <2>11, <3>1 DEF WorkloadOf
      <4> QED BY <2>7, <2>11, <3>1, <4>1 DEF WorkloadOf, Plain
    <3>3. p.path = None /\ q.path = None
      BY <2>6, <2>7, <2>11, <3>1 DEF PathKept, LooksUp, WorkloadOf
    <3>4. p.row.node = q.row.node
      <4>1. Labels(c, p)["node"] = p.row.node /\ Labels(d, q)["node"] = q.row.node
        BY DEF Labels, Tag
      <4> QED BY <2>3, <4>1
    <3> QED BY <2>4, <2>8, <2>9, <3>1, <3>2, <3>3, <3>4
  <2> QED BY <2>10, <2>11
<1> QED BY <1>1, ContentInvariant, PTL

------------------------------------------------------------------------------
(* Gaps: while the poll before kept to its time, what has not been written  *)
(* yet is as old as the rest of that poll and this one.                     *)

Unwritten(d) == d \in todo \/ (pc = "write" /\ d = ds)

\* A sample for the key is held that is at most so old.
Held(k, age) == \E s \in samples : Key(s) = k /\ s.age <= age

Fresh(d) ==
  /\ wrote[d] \in Nat /\ wrote[d] <= elapsed
  /\ elapsed - wrote[d] <= Lifetime => \A k \in last[d] : Held(k, elapsed - wrote[d])

Aging(d) ==
  /\ wrote[d] \in Nat /\ wrote[d] <= Period
  /\ Period + elapsed - wrote[d] <= Lifetime =>
       \A k \in last[d] : Held(k, Period + elapsed - wrote[d])

TimingInv ==
  /\ pc = "write" => ds \notin todo
  /\ pc = "sleep" => todo = {} /\ (late \/ elapsed + wait = Period)
  /\ \A d \in Dataset :
       IF Unwritten(d) THEN last[d] = {} \/ late \/ Aging(d) ELSE Fresh(d)

LEMMA TimingInit == ASSUME SinkAssumption, Init PROVE TimingInv
BY DEF Init, TimingInv, Unwritten

LEMMA ReadKeepsTiming ==
  ASSUME SinkAssumption, ContentInv, TimingInv, ReadDataset
  PROVE  TimingInv'
<1>1. /\ UNCHANGED <<samples, elapsed, wait, late, wrote, last>>
      /\ pc = "read" /\ pc' = "write" /\ ds' \in todo /\ todo' = todo \ {ds'}
  BY DEF ReadDataset, history
<1>2. \A d \in Dataset : Unwritten(d)' <=> Unwritten(d)
  BY <1>1 DEF Unwritten
<1> QED
  BY <1>1, <1>2 DEF TimingInv, Fresh, Aging, Held, Key

LEMMA WriteKeepsTiming ==
  ASSUME SinkAssumption, ContentInv, TimingInv, WritePoints
  PROVE  TimingInv'
<1> DEFINE new == {Sample(ds, p) : p \in {p \in points : Valid(p)}}
           keys == {Key(s) : s \in new}
<1>1. /\ samples' = {s \in samples : Key(s) \notin keys} \cup new
      /\ last' = [last EXCEPT ![ds] = keys]
      /\ wrote' = [wrote EXCEPT ![ds] = elapsed]
      /\ UNCHANGED <<todo, ds, elapsed>> /\ pc = "write"
      /\ IF todo = {} THEN pc' = "sleep" /\ wait' = Sleep /\ late' = (elapsed > Period)
         ELSE pc' = "read" /\ UNCHANGED <<wait, late>>
  BY DEF WritePoints
<1>2. /\ ds \in Dataset /\ elapsed \in Nat /\ Period \in Nat /\ Lifetime \in Nat
      /\ last \in [Dataset -> SUBSET (Families \X Point)]
      /\ wrote \in [Dataset -> Nat \cup {None}]
      /\ \A s \in samples : s.age \in Nat
  BY SinkAssumption DEF ContentInv, TypeOK, SinkAssumption
<1>3. \A s \in new : s.age = 0
  BY DEF Sample
<1>4. \A k \in keys : \E s \in new : Key(s) = k
  OBVIOUS
<1> HIDE DEF new, keys
<1>5. ASSUME NEW k, NEW n \in Nat, Held(k, n) PROVE Held(k, n)'
  <2>1. CASE k \in keys
    <3>1. PICK s \in new : <<s.fam, s.id>> = k
      BY <1>4, <2>1 DEF Key
    <3>2. s \in samples' /\ s.age <= n
      BY <1>1, <1>3
    <3> QED BY <3>1, <3>2 DEF Held, Key
  <2>2. CASE k \notin keys
    <3>1. PICK s \in samples : Key(s) = k /\ s.age <= n
      BY <1>5 DEF Held
    <3>2. s \in samples' /\ <<s.fam, s.id>> = k
      BY <1>1, <2>2, <3>1 DEF Key
    <3> QED BY <3>1, <3>2 DEF Held, Key
  <2> QED BY <2>1, <2>2
<1>6. CASE ds \notin todo
  <2>1. ~Unwritten(ds)' /\ Fresh(ds)'
    <3>1. ASSUME NEW k \in keys PROVE Held(k, 0)'
      <4>1. PICK s \in new : <<s.fam, s.id>> = k
        BY <1>4 DEF Key
      <4>2. s \in samples' /\ s.age <= 0
        BY <1>1, <1>3
      <4> QED BY <4>1, <4>2 DEF Held, Key
    <3>2. elapsed - elapsed = 0
      BY <1>2
    <3> QED BY <1>1, <1>2, <1>6, <3>1, <3>2 DEF Unwritten, Fresh
  <2>2. ASSUME NEW d \in Dataset, d # ds
        PROVE  IF Unwritten(d)' THEN last'[d] = {} \/ late' \/ Aging(d)' ELSE Fresh(d)'
    <3>1. last'[d] = last[d] /\ wrote'[d] = wrote[d] /\ (Unwritten(d)' <=> Unwritten(d))
      BY <1>1, <1>2, <2>2 DEF Unwritten
    <3>2. CASE Unwritten(d)
      <4>1. late' = late
        BY <1>1, <2>2, <3>2 DEF Unwritten
      <4>2. ASSUME Aging(d) PROVE Aging(d)'
        <5>1. Period + elapsed - wrote[d] \in Nat
          BY <1>2, <4>2 DEF Aging
        <5> QED BY <1>1, <1>5, <3>1, <4>2, <5>1 DEF Aging
      <4> QED BY <3>1, <3>2, <4>1, <4>2 DEF TimingInv
    <3>3. CASE ~Unwritten(d)
      <4>1. Fresh(d)
        BY <3>3 DEF TimingInv
      <4>2. elapsed - wrote[d] \in Nat
        BY <1>2, <4>1 DEF Fresh
      <4>3. Fresh(d)'
        BY <1>1, <1>5, <3>1, <4>1, <4>2 DEF Fresh
      <4> QED BY <3>1, <3>3, <4>3
    <3> QED BY <3>2, <3>3
  <2>3. pc' = "sleep" => todo' = {} /\ (late' \/ elapsed' + wait' = Period)
    <3>1. CASE elapsed > Period
      <4>1. pc' = "sleep" => todo' = {} /\ late' = (elapsed > Period)
        BY <1>1
      <4> QED BY <3>1, <4>1
    <3>2. CASE ~(elapsed > Period)
      <4>1. elapsed + Sleep = Period
        BY <1>2, <3>2 DEF Sleep
      <4> QED BY <1>1, <4>1
    <3> QED BY <3>1, <3>2
  <2>4. pc' # "write" /\ \A d \in Dataset :
          IF Unwritten(d)' THEN last'[d] = {} \/ late' \/ Aging(d)' ELSE Fresh(d)'
    BY <1>1, <2>1, <2>2
  <2> QED BY <2>3, <2>4 DEF TimingInv
<1> QED BY <1>1, <1>6 DEF TimingInv

LEMMA TickKeepsTiming ==
  ASSUME SinkAssumption, ContentInv, TimingInv, Tick
  PROVE  TimingInv'
<1> DEFINE Older(s) == [s EXCEPT !.age = IF @ > Lifetime THEN @ ELSE @ + 1]
<1>1. /\ samples' = {Older(s) : s \in samples} /\ elapsed' = elapsed + 1
      /\ UNCHANGED <<pc, todo, ds, late, wrote, last>>
      /\ pc = "sleep" => wait' = wait - 1 /\ wait > 0
  BY DEF Tick, history
<1>2. /\ elapsed \in Nat /\ wait \in Nat /\ Period \in Nat /\ Lifetime \in Nat
      /\ \A s \in samples : s.age \in Nat
  BY SinkAssumption DEF ContentInv, TypeOK, SinkAssumption
<1>3. ASSUME NEW s \in samples
      PROVE  Older(s).fam = s.fam /\ Older(s).id = s.id /\ Older(s).age <= s.age + 1
  <2>1. PICK d \in Dataset, p \in Point, a \in 0 .. Lifetime + 1 :
          Exported(d, p) /\ s = Aged(d, p, a)
    BY DEF ContentInv, SamplesMade
  <2>2. /\ Older(s).fam = s.fam /\ Older(s).id = s.id
        /\ Older(s).age = IF a > Lifetime THEN a ELSE a + 1
        /\ s.age = a
    BY <2>1 DEF Aged
  <2> QED BY <1>2, <2>2
<1> HIDE DEF Older
<1>4. ASSUME NEW k, NEW n \in Nat, Held(k, n) PROVE Held(k, n + 1)'
  <2>1. PICK s \in samples : Key(s) = k /\ s.age <= n
    BY <1>4 DEF Held
  <2>2. Older(s) \in samples' /\ Key(Older(s)) = k
    BY <1>1, <1>3, <2>1 DEF Key
  <2>3. Older(s).age <= n + 1
    <3>1. Older(s).age <= s.age + 1 /\ s.age \in Nat
      BY <1>2, <1>3
    <3>2. Older(s).age \in Nat
      BY TickKeepsContent, <1>1, <2>2, SinkAssumption DEF ContentInv, TypeOK, SinkAssumption
    <3> QED BY <2>1, <3>1, <3>2
  <2> QED BY <2>2, <2>3 DEF Held, Key
<1>5. ASSUME NEW d \in Dataset
      PROVE  IF Unwritten(d)' THEN last'[d] = {} \/ late' \/ Aging(d)' ELSE Fresh(d)'
  <2>1. Unwritten(d)' <=> Unwritten(d)
    BY <1>1 DEF Unwritten
  <2>2. ASSUME Aging(d) PROVE Aging(d)'
    <3>0. PICK n \in Nat : n = Period + elapsed - wrote[d]
      BY <1>2, <2>2 DEF Aging
    <3>1. Period + elapsed' - wrote'[d] = n + 1 /\ wrote'[d] \in Nat
          /\ wrote'[d] <= Period
      BY <1>1, <1>2, <2>2, <3>0 DEF Aging
    <3>2. ASSUME n + 1 <= Lifetime, NEW k \in last[d] PROVE Held(k, n + 1)'
      <4>1. n <= Lifetime
        BY <1>2, <3>2
      <4>2. Held(k, n)
        BY <2>2, <3>0, <3>2, <4>1 DEF Aging
      <4> QED BY <1>4, <4>2
    <3> QED BY <1>1, <3>1, <3>2 DEF Aging
  <2>3. ASSUME Fresh(d) PROVE Fresh(d)'
    <3>0. PICK n \in Nat : n = elapsed - wrote[d]
      BY <1>2, <2>3 DEF Fresh
    <3>1. elapsed' - wrote'[d] = n + 1 /\ wrote'[d] \in Nat /\ wrote'[d] <= elapsed'
      BY <1>1, <1>2, <2>3, <3>0 DEF Fresh
    <3>2. ASSUME n + 1 <= Lifetime, NEW k \in last[d] PROVE Held(k, n + 1)'
      <4>1. n <= Lifetime
        BY <1>2, <3>2
      <4>2. Held(k, n)
        BY <2>3, <3>0, <3>2, <4>1 DEF Fresh
      <4> QED BY <1>4, <4>2
    <3> QED BY <1>1, <3>1, <3>2 DEF Fresh
  <2> QED BY <1>1, <2>1, <2>2, <2>3 DEF TimingInv
<1>6. pc' = "sleep" => todo' = {} /\ (late' \/ elapsed' + wait' = Period)
  BY <1>1, <1>2 DEF TimingInv
<1> QED BY <1>1, <1>5, <1>6 DEF TimingInv

LEMMA NextPollKeepsTiming ==
  ASSUME SinkAssumption, ContentInv, TimingInv, NextPoll
  PROVE  TimingInv'
<1>1. /\ pc = "sleep" /\ wait = 0 /\ pc' = "read" /\ todo' = Dataset /\ elapsed' = 0
      /\ UNCHANGED <<samples, late, wrote, last>>
  BY DEF NextPoll, history
<1>2. elapsed \in Nat /\ Period \in Nat /\ (late \/ elapsed = Period)
  BY <1>1, SinkAssumption DEF ContentInv, TypeOK, TimingInv, SinkAssumption
<1>3. ASSUME NEW d \in Dataset, ~late PROVE Aging(d)'
  <2>1. Fresh(d) /\ elapsed = Period
    BY <1>1, <1>2, <1>3 DEF TimingInv, Unwritten
  <2>2. Period + 0 - wrote[d] = elapsed - wrote[d]
    BY <1>2, <2>1 DEF Fresh
  <2> QED BY <1>1, <2>1, <2>2 DEF Fresh, Aging, Held, Key
<1> QED BY <1>1, <1>3 DEF TimingInv, Unwritten

LEMMA ScrapeKeepsTiming ==
  ASSUME SinkAssumption, ContentInv, TimingInv, Scrape \/ UNCHANGED vars
  PROVE  TimingInv'
<1>1. /\ \A s \in samples : s.age <= Lifetime => s \in samples'
      /\ UNCHANGED <<pc, todo, ds, points, elapsed, wait, late, wrote, last>>
  BY DEF Scrape, Page, vars, loopVars, history
<1>2. /\ elapsed \in Nat /\ Period \in Nat /\ Lifetime \in Nat
      /\ \A s \in samples : s.age \in Nat
  BY SinkAssumption DEF ContentInv, TypeOK, SinkAssumption
<1>3. ASSUME NEW k, NEW n \in Nat, n <= Lifetime, Held(k, n) PROVE Held(k, n)'
  <2>1. PICK s \in samples : Key(s) = k /\ s.age <= n
    BY <1>3 DEF Held
  <2>2. s \in samples'
    BY <1>1, <1>2, <1>3, <2>1
  <2> QED BY <2>1, <2>2 DEF Held, Key
<1>4. ASSUME NEW d \in Dataset
      PROVE  /\ Unwritten(d)' <=> Unwritten(d)
             /\ Aging(d) => Aging(d)'
             /\ Fresh(d) => Fresh(d)'
  <2>1. Unwritten(d)' <=> Unwritten(d)
    BY <1>1 DEF Unwritten
  <2>2. ASSUME Aging(d) PROVE Aging(d)'
    <3>1. Period + elapsed - wrote[d] \in Nat
      BY <1>2, <2>2 DEF Aging
    <3> QED BY <1>1, <1>3, <2>2, <3>1 DEF Aging
  <2>3. ASSUME Fresh(d) PROVE Fresh(d)'
    <3>1. elapsed - wrote[d] \in Nat
      BY <1>2, <2>3 DEF Fresh
    <3> QED BY <1>1, <1>3, <2>3, <3>1 DEF Fresh
  <2> QED BY <2>1, <2>2, <2>3
<1> QED BY <1>1, <1>4 DEF TimingInv

\* The page misses what a dataset's last write gave only if a poll was slow: the
\* one before took longer than Period, or the present one has taken longer to get
\* to the dataset than the last one that wrote it.
THEOREM GapsAreSlow == ASSUME SinkAssumption PROVE Spec => []NoGapUnlessSlower
<1>1. Init => TimingInv
  BY TimingInit
<1>2. ContentInv /\ TimingInv /\ [Next]_vars => TimingInv'
  BY ReadKeepsTiming, WriteKeepsTiming, TickKeepsTiming, NextPollKeepsTiming,
     ScrapeKeepsTiming DEF Next
<1>3. ContentInv /\ TimingInv => NoGapUnlessSlower
  <2> SUFFICES ASSUME ContentInv, TimingInv, NEW d \in Dataset, Gap(d)
               PROVE  IF Unwritten(d) THEN late \/ elapsed > wrote[d] ELSE elapsed > Lifetime
    BY DEF NoGapUnlessSlower, Unwritten
  <2>1. /\ elapsed \in Nat /\ Period \in Nat /\ Lifetime \in Nat /\ Period <= Lifetime
        /\ \A s \in samples : s.age \in Nat
    BY SinkAssumption DEF ContentInv, TypeOK, SinkAssumption
  <2>2. PICK k \in last[d] : \A s \in Page : Key(s) # k
    BY DEF Gap
  <2>3. ASSUME NEW n \in Nat, n <= Lifetime, Held(k, n) PROVE FALSE
    BY <2>1, <2>2, <2>3 DEF Held, Page
  <2>4. CASE Unwritten(d)
    <3>1. last[d] # {} /\ (late \/ Aging(d))
      BY <2>2, <2>4 DEF TimingInv
    <3>2. ASSUME Aging(d), ~(elapsed > wrote[d]) PROVE FALSE
      <4>1. wrote[d] \in Nat /\ wrote[d] <= Period /\ elapsed <= wrote[d]
        BY <2>1, <3>2 DEF Aging
      <4>2. Period + elapsed - wrote[d] \in Nat /\ Period + elapsed - wrote[d] <= Lifetime
        BY <2>1, <4>1
      <4> QED BY <2>2, <2>3, <3>2, <4>2 DEF Aging
    <3> QED BY <2>4, <3>1, <3>2
  <2>5. CASE ~Unwritten(d)
    <3>1. Fresh(d)
      BY <2>5 DEF TimingInv
    <3>2. ASSUME elapsed <= Lifetime PROVE FALSE
      <4>1. elapsed - wrote[d] \in Nat /\ elapsed - wrote[d] <= Lifetime
        BY <2>1, <3>1, <3>2 DEF Fresh
      <4> QED BY <2>2, <2>3, <3>1, <4>1 DEF Fresh
    <3> QED BY <2>1, <2>5, <3>2
  <2> QED BY <2>4, <2>5
<1> QED BY <1>1, <1>2, <1>3, ContentInvariant, PTL DEF Spec

------------------------------------------------------------------------------
(* Dashboards.                                                             *)

\* The keys of a dataset are those of its points.
LastOfDs ==
  \A d \in Dataset : \A k \in last[d] :
    \E p \in Point : Exported(d, p) /\ k = <<Family(Base(d), Bucket(p)), p>>

LEMMA LastStep ==
  ASSUME ContentInv, LastOfDs, [Next]_vars
  PROVE  LastOfDs'
<1>1. /\ \A d : Base(d)' = Base(d)
      /\ \A d, p : Exported(d, p)' = Exported(d, p)
  BY DEF Base, Exported, Valid, Plain, Next, ReadDataset, WritePoints, NextPoll, Tick, Scrape, vars
<1>2. CASE WritePoints
  <2> DEFINE keys == {Key(s) : s \in {Sample(ds, p) : p \in {p \in points : Valid(p)}}}
  <2>1. /\ last' = [last EXCEPT ![ds] = keys]
        /\ \A k \in keys : \E p \in points : Valid(p) /\ k = Key(Sample(ds, p))
    BY <1>2 DEF WritePoints
  <2> HIDE DEF keys
  <2>2. ASSUME NEW k \in keys
        PROVE  \E p \in Point : Exported(ds, p) /\ k = <<Family(Base(ds), Bucket(p)), p>>
    <3>1. PICK p \in points : Valid(p) /\ k = Key(Sample(ds, p))
      BY <2>1
    <3>2. k = <<Family(Base(ds), Bucket(p)), p>>
      BY <3>1 DEF Key, Sample
    <3>3. Exported(ds, p) /\ p \in Point
      BY <3>1 DEF ContentInv, TypeOK, PointsOfDs, Exported
    <3> QED BY <3>2, <3>3
  <2>3. last \in [Dataset -> SUBSET (Families \X Point)]
    BY DEF ContentInv, TypeOK
  <2>4. \A d \in Dataset : \A k \in last'[d] :
          \E p \in Point : Exported(d, p) /\ k = <<Family(Base(d), Bucket(p)), p>>
    BY <2>1, <2>2, <2>3 DEF LastOfDs
  <2> QED BY <1>1, <2>4 DEF LastOfDs, Family, Bucket, Plain
<1>3. CASE ~WritePoints
  <2>1. UNCHANGED last
    BY <1>3 DEF Next, ReadDataset, NextPoll, Tick, Scrape, vars, history
  <2> QED BY <1>1, <2>1 DEF LastOfDs, Family, Bucket, Plain
<1> QED BY <1>2, <1>3

\* The queries of a panel part the points of its dataset.
LEMMA PanelsPartPoints ==
  ASSUME SinkAssumption, NEW d \in Dataset, NEW p \in Point, Valid(p)
  PROVE  \E q \in Queries(d) : {r \in Queries(d) : InfluxSelects(r, p)} = {q}
<1> DEFINE regular == [bucket |-> None, by |-> {TagName(m) : m \in Metrics[d]}]
           other(b) == [bucket |-> b, by |-> {}]
<1>1. Queries(d) = {regular} \cup {other(b) : b \in Overflow}
  BY DEF Queries
<1>2. regular.bucket = None /\ \A b : other(b).bucket = b
  OBVIOUS
<1> HIDE DEF regular, other
<1>3. CASE Plain(p.row)
  <2>1. \A r \in Queries(d) : InfluxSelects(r, p) <=> r = regular
    BY <1>1, <1>2, <1>3, SinkAssumption DEF InfluxSelects, Plain, SinkAssumption
  <2> QED BY <1>1, <2>1
<1>4. CASE ~Plain(p.row)
  <2>1. p.row.type \in Overflow
    BY <1>4 DEF Valid
  <2>2. \A r \in Queries(d) : InfluxSelects(r, p) <=> r = other(p.row.type)
    BY <1>1, <1>2, <1>4, <2>1, SinkAssumption DEF InfluxSelects, SinkAssumption
  <2> QED BY <1>1, <2>1, <2>2
<1> QED BY <1>3, <1>4

\* And the samples of its dataset, if the names of both agree.
LEMMA PanelsPartSamples ==
  ASSUME SinkAssumption, ContentInv, LastOfDs, NEW d \in Dataset,
         ~(lookup /\ "export_id" \in Metrics[d])
  PROVE  Shown(d)
<1> SUFFICES ASSUME NEW s \in samples, Key(s) \in last[d]
             PROVE  \E q \in Queries(d) : /\ {r \in Queries(d) : PromSelects(d, r, s)} = {q}
                                          /\ q.by \subseteq DOMAIN s.labels
  BY DEF Shown, Page
<1>1. PICK p \in Point : Exported(d, p) /\ Key(s) = <<Family(Base(d), Bucket(p)), p>>
  BY DEF LastOfDs
<1>2. PICK c \in Dataset, q \in Point, a \in 0 .. Lifetime + 1 :
        Exported(c, q) /\ s = Aged(c, q, a)
  BY DEF ContentInv, SamplesMade
<1>3. s.fam = Family(Base(c), Bucket(q)) /\ s.id = q /\ s.labels = Labels(c, q)
  BY <1>2 DEF Aged
<1>4. p = q /\ s.fam = Family(Base(d), Bucket(p))
  BY <1>1, <1>3 DEF Key
<1>5. Base(c) = Base(d)
  <2>1. Family(Base(c), Bucket(q)) = Family(Base(d), Bucket(p))
    BY <1>3, <1>4
  <2> QED BY <2>1, FamilyTells
<1>6. Base(d) = Metrics[d] /\ \A m \in Metrics[d] : TagName(m) = m
  BY DEF Base, TagName
<1> DEFINE regular == [bucket |-> None, by |-> {TagName(m) : m \in Metrics[d]}]
           other(b) == [bucket |-> b, by |-> {}]
<1>7. Queries(d) = {regular} \cup {other(b) : b \in Overflow}
  BY DEF Queries
<1>8. /\ regular.bucket = None /\ regular.by = Metrics[d]
      /\ \A b : other(b).bucket = b /\ other(b).by = {}
  BY <1>6
<1> HIDE DEF regular, other
<1>9. \A r : PromSelects(d, r, s) <=> r.bucket = Bucket(p)
  <2>1. \A r : PromSelects(d, r, s) <=> Family(Base(d), Bucket(p)) = Family(Metrics[d], r.bucket)
    BY <1>4 DEF PromSelects
  <2> QED BY <1>6, <2>1, FamilyTells
<1>10. CASE Plain(p.row)
  <2>1. \A r \in Queries(d) : PromSelects(d, r, s) <=> r = regular
    BY <1>7, <1>8, <1>9, <1>10, SinkAssumption DEF Bucket, SinkAssumption
  <2>2. regular.by \subseteq DOMAIN s.labels
    BY <1>3, <1>4, <1>5, <1>6, <1>8, <1>10 DEF Labels
  <2> QED BY <1>7, <2>1, <2>2
<1>11. CASE ~Plain(p.row)
  <2>1. Bucket(p) = p.row.type /\ p.row.type \in Overflow
    BY <1>1, <1>11 DEF Exported, Valid, Bucket
  <2>2. \A r \in Queries(d) : PromSelects(d, r, s) <=> r = other(p.row.type)
    BY <1>7, <1>8, <1>9, <2>1, SinkAssumption DEF SinkAssumption
  <2> QED BY <1>7, <1>8, <2>1, <2>2
<1> QED BY <1>10, <1>11

\* A panel shows each row once, on either back end, unless exports are looked up
\* for Prometheus.
THEOREM PanelsShowAll == ASSUME SinkAssumption PROVE Spec => []DashboardsShowAll
<1>1. Init => LastOfDs
  BY DEF Init, LastOfDs
<1>2. ContentInv /\ LastOfDs /\ [Next]_vars => LastOfDs'
  BY LastStep
<1>3. ContentInv /\ LastOfDs => DashboardsShowAll
  <2> SUFFICES ASSUME ContentInv, LastOfDs PROVE DashboardsShowAll
    OBVIOUS
  <2>1. ds \in Dataset /\ points \subseteq Point
    BY DEF ContentInv, TypeOK
  <2> QED BY <2>1, PanelsPartPoints, PanelsPartSamples DEF DashboardsShowAll
<1> QED BY <1>1, <1>2, <1>3, ContentInvariant, PTL DEF Spec

\* "Prometheus metric naming (must match goppstats/prometheus.go conventions)",
\* says dashgen: but of a dataset whose exports are looked up no query of the
\* dashboards for Prometheus selects any sample, for its family has export_path
\* in its name.
LookedUpIsMissed ==
  \A d \in Dataset : lookup /\ "export_id" \in Metrics[d] =>
    \A s \in Page : Key(s) \in last[d] => \A q \in Queries(d) : ~PromSelects(d, q, s)

THEOREM PanelsMissLookedUp == ASSUME SinkAssumption PROVE Spec => []LookedUpIsMissed
<1>1. Init => LastOfDs
  BY DEF Init, LastOfDs
<1>2. ContentInv /\ LastOfDs /\ [Next]_vars => LastOfDs'
  BY LastStep
<1>3. LastOfDs => LookedUpIsMissed
  <2> SUFFICES ASSUME LastOfDs, NEW d \in Dataset, lookup, "export_id" \in Metrics[d],
                      NEW s, Key(s) \in last[d], NEW q, PromSelects(d, q, s)
               PROVE  FALSE
    BY DEF LookedUpIsMissed
  <2>1. PICK p : Key(s) = <<Family(Base(d), Bucket(p)), p>>
    BY DEF LastOfDs
  <2>2. Family(Base(d), Bucket(p)) = Family(Metrics[d], q.bucket)
    BY <2>1 DEF Key, PromSelects
  <2>3. Base(d) = Metrics[d]
    BY <2>2, FamilyTells
  <2>4. "export_path" \in Base(d) /\ "export_path" \notin Metrics[d]
    BY SinkAssumption DEF Base, SinkAssumption
  <2> QED BY <2>3, <2>4
<1> QED BY <1>1, <1>2, <1>3, ContentInvariant, PTL DEF Spec

===============================================================================
