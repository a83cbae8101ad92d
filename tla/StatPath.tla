------------------------------- MODULE StatPath -------------------------------
(***************************************************************************)
(* The way of a stat from the configuration file to the back end: the      *)
(* buckets (Buckets), and for each collection of a bucket the results of   *)
(* the cluster, which WriteStats (cmd/gostats/backend.go) sorts by their   *)
(* error code and decodes (DecodeValue) into the points it hands to the    *)
(* sink.  How often a query or a write is tried is in StatQuery and        *)
(* StatsLoop; here a query succeeds and a write does.                      *)
(***************************************************************************)
EXTENDS Buckets, DecodeValue

CONSTANTS
  DevicesOf,       \* DevicesOf[st]: the devices that report a stat, 0 for the cluster
  Values,          \* Values[st]: the JSON values a stat can have
  IncludeDegraded, \* include_degraded
  NoBucket         \* nothing is being collected

ASSUME PathAssumption ==
  /\ DevicesOf \in [Stat -> SUBSET Nat]
  /\ Values \in [Stat -> SUBSET Json]
  /\ IncludeDegraded \in BOOLEAN
  /\ NoBucket \notin Bucket

VARIABLES
  bucket,  \* the bucket whose results WriteStats goes through
  todo,    \* the results still to come
  points   \* the points so far

vars == <<pc, bucketVars, bucket, todo, points>>

Pair == UNION {{st} \X DevicesOf[st] : st \in Stat}

\* "stopped": WriteStats returned an error and the loop ended; "panicked": the
\* process crashed.
TypeOK ==
  /\ pc \in {"parse", "details", "loop", "idle", "exited", "write", "stopped", "panicked"}
  /\ BucketsTypeOK
  /\ bucket \in buckets \cup {NoBucket}
  /\ todo \in SUBSET Pair
  /\ \A p \in points : p.of \in Pair \ todo
  /\ pc # "write" => bucket = NoBucket /\ todo = {} /\ points = {}

Init ==
  /\ BucketsInit
  /\ bucket = NoBucket
  /\ todo = {}
  /\ points = {}

\* statsloop takes a bucket and gets an answer to its query.
Collect ==
  /\ pc = "loop"
  /\ pc' = "write"
  /\ bucket' \in buckets
  /\ todo' = UNION {{st} \X DevicesOf[st] : st \in bucket'.stats}
  /\ UNCHANGED <<bucketVars, points>>

\* A result without a value: the error code is one of those that are skipped.
SkipResult(r) ==
  /\ pc = "write"
  /\ todo' = todo \ {r}
  /\ UNCHANGED <<pc, bucketVars, bucket, points>>

DegradedTags(degraded) ==
  IF IncludeDegraded THEN Entry("degraded", degraded) ELSE Empty

\* Mutant: the points before one that cannot be decoded are kept.
DecodeResultKeeps(r) ==
  /\ pc = "write"
  /\ todo' = todo \ {r}
  /\ \E v \in Values[r[1]], degraded \in BOOLEAN :
       \E o \in DecodeStat(r[2], v, DegradedTags(degraded)) :
         /\ points' = IF o.end # "ok" THEN points
                      ELSE points \cup {[of |-> r, value |-> v, fields |-> o.fields, tags |-> o.tags]}
         /\ pc' = IF o.end = "ok" THEN pc ELSE "stopped"
  /\ UNCHANGED <<bucketVars, bucket>>

\* A result with a value, degraded or not.  One that cannot be decoded ends the
\* collection of the cluster, and none of the points is written.
DecodeResult(r) ==
  /\ pc = "write"
  /\ \E v \in Values[r[1]], degraded \in BOOLEAN :
       \E o \in DecodeStat(r[2], v, DegradedTags(degraded)) :
         IF o.end = "ok"
         THEN /\ points' = points \cup {[of |-> r, value |-> v, fields |-> o.fields, tags |-> o.tags]}
              /\ todo' = todo \ {r}
              /\ UNCHANGED <<pc, bucket>>
         ELSE /\ points' = {} /\ todo' = {} /\ bucket' = NoBucket
              /\ pc' = IF o.end = "error" THEN "stopped"
                       ELSE IF o.end = "die" THEN "exited" ELSE "panicked"
  /\ UNCHANGED bucketVars

\* WriteStats hands the points over, and the loop goes on.
WritePoints ==
  /\ pc = "write" /\ todo = {}
  /\ pc' = "loop"
  /\ bucket' = NoBucket
  /\ points' = {}
  /\ UNCHANGED <<bucketVars, todo>>

Terminated == pc \in {"idle", "exited", "stopped", "panicked"} /\ UNCHANGED vars

Next ==
  \/ BucketsNext /\ UNCHANGED <<bucket, todo, points>>
  \/ Collect
  \/ \E r \in todo : SkipResult(r) \/ DecodeResult(r)
  \/ WritePoints
  \/ Terminated

Spec == Init /\ [][Next]_vars

------------------------------------------------------------------------------
(* Properties.                                                             *)

\* Rows and numbers correspond, in whatever order the members of objects are
\* visited: each field of a row is a number of the value, with the strings of
\* all objects around it among the tags of the row; and each number is in such
\* a row, unless it belongs to an operation that is dropped.
RowsMatchValue ==
  \A p \in points :
    LET leaves == Leaves("value", p.value)
        Has(i, l) == /\ Within(Entry(l.field, l.value), p.fields[i])
                     /\ Within(l.tags, p.tags[i])
    IN  /\ DOMAIN p.fields = DOMAIN p.tags
        /\ \A i \in DOMAIN p.fields : \A f \in DOMAIN p.fields[i] :
             \E l \in leaves : l.field = f /\ Has(i, l)
        /\ \A i \in DOMAIN p.tags : ~IsInvalidStat(p.tags[i])
        /\ \A l \in leaves : ~IsInvalidStat(l.tags) => \E i \in DOMAIN p.fields : Has(i, l)

\* "isInvalidStat checks the supplied tags and returns a boolean which, if true,
\* specifies that this statistic should be dropped": no value crashes the process.
NeverPanics == pc # "panicked"

==============================================================================
