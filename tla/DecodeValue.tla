----------------------------- MODULE DecodeValue -----------------------------
(***************************************************************************)
(* The decoding of the value of a stat (cmd/gostats/backend.go): decodeStat *)
(* and decodeValue flatten a JSON value into rows of fields and tags.      *)
(*                                                                         *)
(* A JSON value is a record with one field that tells its kind:            *)
(*   [num |-> n]   [str |-> s]   [null |-> TRUE]                           *)
(*   [arr |-> sequence of values]   [obj |-> function from names to values] *)
(* Go returns two slices, one of fields and one of tags, and the code      *)
(* relies on their having the same length; so they are two sequences here. *)
(* It visits the members of an object in any order, so that decoding gives *)
(* the set of all outcomes.  decodeValue calls itself for the parts of a   *)
(* value; here a function of the depth that is left gives the outcomes of  *)
(* all values of that depth.                                               *)
(***************************************************************************)
EXTENDS Naturals, Sequences, FiniteSets

CONSTANTS
  Json,    \* the JSON values there are
  MaxDepth \* how deep encoding/json lets a value be nested

IsNum(v) == "num" \in DOMAIN v
IsStr(v) == "str" \in DOMAIN v
IsArr(v) == "arr" \in DOMAIN v
IsObj(v) == "obj" \in DOMAIN v
IsNested(v) == IsArr(v) \/ IsObj(v)
Nested == {v \in Json : IsNested(v)}

\* The elements of an array by place, the members of an object by name.
Parts(v) == IF IsArr(v) THEN v.arr ELSE v.obj

\* The name decodeValue is given for a part: elements of an array have none.
NameAt(v, k) == IF IsArr(v) THEN "" ELSE k

ASSUME JsonAssumption ==
  /\ MaxDepth \in Nat
  /\ \A v \in Json :
       /\ \E kind \in {"num", "str", "null", "arr", "obj"} : DOMAIN v = {kind}
       /\ IsArr(v) => v.arr \in Seq(Json)
       /\ IsObj(v) => v.obj \in [DOMAIN v.obj -> Json] /\ IsFiniteSet(DOMAIN v.obj)

\* How a call ends: "ok", "error" (returned to the caller), "die" (the process
\* exits with a message), "panic" (the process crashes).
Outcome(fields, tags) == [end |-> "ok", fields |-> fields, tags |-> tags]
Ended(how) == [end |-> how, fields |-> <<>>, tags |-> <<>>]

\* Maps of fields and of tags; maps.Copy(g, f) makes g to be Over(f, g).
Empty == [x \in {} |-> x]
Entry(name, x) == [n \in {name} |-> x]
Over(f, g) == [n \in DOMAIN f \cup DOMAIN g |-> IF n \in DOMAIN f THEN f[n] ELSE g[n]]

\* isInvalidStat
IsInvalidStat(tags) ==
  "op_name" \in DOMAIN tags /\ tags["op_name"] \in {"change_notify", "read_directory_change"}

\* Rows i of both sequences, without those that are to be dropped.
Valid(fields, tags) ==
  LET kept[i \in 0 .. Len(fields)] ==
        IF i = 0 THEN Outcome(<<>>, <<>>)
        ELSE IF IsInvalidStat(tags[i]) THEN kept[i - 1]
        ELSE Outcome(Append(kept[i - 1].fields, fields[i]), Append(kept[i - 1].tags, tags[i]))
  IN  kept[Len(fields)]

\* The loop over the parts of a value: the fields and tags of an object itself,
\* and the rows of an array, or of the arrays in an object.
Start(base) ==
  [end |-> "ok", fields |-> Empty, tags |-> base, simple |-> TRUE,
   subfields |-> <<>>, subtags |-> <<>>]

AddRows(acc, o) ==
  [acc EXCEPT !.simple = FALSE, !.subfields = @ \o o.fields, !.subtags = @ \o o.tags]

\* One member of an object has been decoded.  Its rows are told apart by their
\* number: none means a string, which has tags only.
AddMember(acc, o, isarray) ==
  IF o.fields = <<>>
  THEN IF o.tags = <<>> THEN [acc EXCEPT !.end = "panic"]
       ELSE [acc EXCEPT !.tags = Over(o.tags[1], @)]
  ELSE IF isarray THEN AddRows(acc, o)
  ELSE IF Len(o.fields) = 1 THEN [acc EXCEPT !.fields = Over(o.fields[1], @)]
  ELSE [acc EXCEPT !.end = "die"]

\* The part at k of v has been decoded, unless the loop has ended before.
AddPart(v, k, acc, o) ==
  IF acc.end # "ok" THEN acc
  ELSE IF o.end # "ok" THEN [acc EXCEPT !.end = o.end]
  ELSE IF IsArr(v) THEN AddRows(acc, o)
  ELSE AddMember(acc, o, IsArr(v.obj[k]))

\* The parts of v in the order they are visited, with an outcome for each.
Loop(v, order, outcomes, base) ==
  LET acc[i \in 0 .. Len(order)] ==
        IF i = 0 THEN Start(base)
        ELSE AddPart(v, order[i], acc[i - 1], outcomes[order[i]])
  IN  acc[Len(order)]

\* Mutant: the tags of the object are not given to the rows of its arrays.
EndObjectBare(acc) ==
  IF acc.simple THEN Valid(<<acc.fields>>, <<acc.tags>>)
  ELSE Valid([i \in DOMAIN acc.subfields |-> Over(acc.subfields[i], acc.fields)], acc.subtags)

\* After the last member: one row, or one for each row of the arrays.
EndObject(acc) ==
  IF acc.simple THEN Valid(<<acc.fields>>, <<acc.tags>>)
  ELSE Valid([i \in DOMAIN acc.subfields |-> Over(acc.subfields[i], acc.fields)],
             [i \in DOMAIN acc.subfields |-> Over(acc.subtags[i], acc.tags)])

EndLoop(v, acc) ==
  IF acc.end # "ok" THEN Ended(acc.end)
  ELSE IF IsArr(v) THEN Outcome(acc.subfields, acc.subtags)
  ELSE EndObject(acc)

\* range visits an array from the first element to the last, a map in any order.
Orders(v) ==
  IF IsArr(v) THEN {[i \in DOMAIN v.arr |-> i]}
  ELSE LET names == DOMAIN v.obj
       IN  {order \in [1 .. Cardinality(names) -> names] :
              \A n \in names : \E i \in DOMAIN order : order[i] = n}

\* The outcomes for a part of a value, named name: deeper has those of the
\* arrays and objects.
DecodePart(deeper, name, v, base) ==
  IF IsNum(v) THEN {IF name = "" THEN Ended("die") ELSE Outcome(<<Entry(name, v.num)>>, <<base>>)}
  ELSE IF IsStr(v) THEN {Outcome(<<>>, <<Over(Entry(name, v.str), base)>>)}
  ELSE IF IsNested(v) THEN deeper[v]
  ELSE {Ended("error")}

DecodeParts(deeper, v, base) ==
  [k \in DOMAIN Parts(v) |-> DecodePart(deeper, NameAt(v, k), Parts(v)[k], base)]

\* sets[k] is a set: all ways to choose one element of each.
Choices(sets) ==
  {way \in [DOMAIN sets -> UNION {sets[k] : k \in DOMAIN sets}] :
     \A k \in DOMAIN sets : way[k] \in sets[k]}

\* The outcomes for an array or an object.
DecodeNested(deeper, v, base) ==
  {EndLoop(v, Loop(v, order, outcomes, base)) :
     order \in Orders(v), outcomes \in Choices(DecodeParts(deeper, v, base))}

\* decodeValue: what an array or an object decodes to under the tags base, if it
\* is not nested deeper than it may be.
DecodeAll(base) ==
  LET decode[n \in 0 .. MaxDepth] ==
        [v \in Nested |->
           IF n = 0 THEN {} ELSE DecodeNested(decode[n - 1], v, base)]
  IN  decode[MaxDepth]

\* The tags of all rows of a stat.
BaseTags == {"cluster", "degraded", "devid", "node"}

\* Device 0 is the cluster; another is a node, and its number stands for both
\* numbers of the node.  There is one cluster here.
DeviceTags(device) ==
  Over([n \in IF device = 0 THEN {} ELSE {"devid", "node"} |-> device],
       Entry("cluster", "cluster"))

\* decodeStat: a string alone has nothing to write.
DecodeStat(device, v, degradedTags) ==
  IF IsStr(v) THEN {Ended("error")}
  ELSE LET base == Over(DeviceTags(device), degradedTags)
       IN  DecodePart(DecodeAll(base), "value", v, base)

------------------------------------------------------------------------------
(* What decoding has to produce.                                           *)

\* The strings among the members of an object.
Strings(v) ==
  LET names == IF IsArr(v) THEN {} ELSE {n \in DOMAIN v.obj : IsStr(v.obj[n])}
  IN  [n \in names |-> v.obj[n].str]

LeavesOfPart(deeper, name, v) ==
  IF IsNum(v) THEN {[field |-> name, value |-> v.num, tags |-> Empty]}
  ELSE IF IsNested(v) THEN deeper[v]
  ELSE {}

LeavesOfParts(deeper, v) ==
  UNION {LeavesOfPart(deeper, NameAt(v, k), Parts(v)[k]) : k \in DOMAIN Parts(v)}

LeavesInside ==
  LET inside[n \in 0 .. MaxDepth] ==
        [v \in Nested |->
           IF n = 0 THEN {}
           ELSE {[l EXCEPT !.tags = Over(l.tags, Strings(v))] :
                   l \in LeavesOfParts(inside[n - 1], v)}]
  IN  inside[MaxDepth]

\* The numbers in a value, each with its name and the strings of the objects it
\* is in.
Leaves(name, v) == LeavesOfPart(LeavesInside, name, v)

\* Every entry of part is one of whole.
Within(part, whole) ==
  \A n \in DOMAIN part : n \in DOMAIN whole /\ whole[n] = part[n]

\* The names of the fields that a part named name makes, when numbers has those
\* of arrays and objects.
FieldsOf(numbers, name, v) ==
  IF IsNum(v) THEN {name} ELSE IF IsNested(v) THEN numbers[v] ELSE {}

\* strings[v] and numbers[v] have the names of the strings and of the numbers in
\* v, at any depth.
NamesInside(strings, numbers) ==
  \A v \in Nested : \A k \in DOMAIN Parts(v) :
    LET w == Parts(v)[k]
    IN  /\ IsObj(v) /\ IsStr(w) => k \in strings[v]
        /\ IsNested(w) => strings[w] \subseteq strings[v]
        /\ FieldsOf(numbers, NameAt(v, k), w) \subseteq numbers[v]

\* What decodeValue relies on but never looks at.  Arrays have no strings.  The
\* strings of an object are not named as a tag of all rows or as a string inside
\* one of its arrays; an object in it has none, they would be lost; and two
\* members make different fields, unless each makes rows of its own.
Regular(strings, numbers) ==
  \A v \in Nested : \A k \in DOMAIN Parts(v) :
    LET w == Parts(v)[k]
    IN  IF IsArr(v) THEN ~IsStr(w)
        ELSE /\ IsStr(w) => k \notin BaseTags
             /\ IsArr(w) => strings[w] \cap DOMAIN Strings(v) = {}
             /\ IsObj(w) => strings[w] = {}
             /\ \A j \in DOMAIN v.obj \ {k} :
                  \/ IsArr(w) /\ IsArr(v.obj[j])
                  \/ FieldsOf(numbers, k, w) \cap FieldsOf(numbers, j, v.obj[j]) = {}

==============================================================================
