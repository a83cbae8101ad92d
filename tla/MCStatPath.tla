------------------------------ MODULE MCStatPath ------------------------------
(* Instances of StatPath for TLC: three stats in two groups, and a group   *)
(* that shares a stat with one of them.                                     *)
EXTENDS StatPath

CONSTANTS a, b, c, g1, g2, g3

MCStat == {a, b, c}
MCGroup == {g1, g2, g3}
MCStatsOf == [g \in MCGroup |-> CASE g = g1 -> {a, b} [] g = g2 -> {c} [] g = g3 -> {b}]

Times(n) == [kind |-> "multiplier", value |-> n]
Every(n) == [kind |-> "absolute", value |-> n]
Malformed == [kind |-> "malformed", value |-> 0]

\* Intervals of g1 and g2, how often g1 and g3 are named, the minimum.
Some(i1, i2, n1, n3, m) ==
  {[intvl |-> [g \in MCGroup |-> IF g = g1 THEN i1 ELSE i2],
    named |-> [g \in MCGroup |-> CASE g = g1 -> n1 [] g = g2 -> 1 [] g = g3 -> n3],
    min |-> m, byGroup |-> by] : by \in BOOLEAN}

\* Fractions, zeros with and without a minimum, strings that do not parse, two
\* groups with the same interval, a group named twice, a stat in two groups.
MCConfs ==
  Some(Times(1), Every(1), 1, 0, 0) \cup Some(Times(1), Every(4), 1, 0, 2) \cup
  Some(Malformed, Every(0), 1, 0, 0) \cup Some(Every(5), Times(3), 1, 0, 1) \cup
  Some(Times(0), Malformed, 0, 1, 1) \cup
  Some(Times(2), Times(2), 2, 0, 1) \cup Some(Times(2), Times(2), 1, 1, 1)

Persistent(n) == [persistent |-> TRUE, interval |-> n]
Current(n) == [persistent |-> FALSE, interval |-> n]

\* On demand, every half second, every two seconds.
MCAnswers == {NoPolicies, <<Current(1), Current(8)>>, <<Persistent(600), Current(4)>>}

Num(n) == [num |-> n]
Str(s) == [str |-> s]
Arr(s) == [arr |-> s]
Obj(f) == [obj |-> f]

\* An operation of a protocol, and one with a name that is to be dropped.
Op(name, n) == Obj([op_name |-> Str(name), op_rate |-> Num(n)])
Notify == Op("change_notify", 9)

\* A client with its classes of operations.
Client(addr, n, ops) == Obj([addr |-> Str(addr), id |-> Num(n), ops |-> Arr(ops)])

Null == [null |-> TRUE]

\* A number, a count with its parts, or no value at all.
Numbers == {Num(5), Obj([hits |-> Num(5), inner |-> Obj([misses |-> Num(6)])]), Str("x"), Null}

\* Operations, of which one or all are dropped; a number where none may be.
Lists == {Arr(<<>>), Arr(<<Op("read", 1), Notify, Op("write", 2)>>), Arr(<<Notify>>), Arr(<<Num(1)>>)}

\* Clients, also with two arrays and with a part of the operations dropped.
Clients ==
  {Arr(<<Client("x", 1, <<Op("read", 3), Notify>>), Client("y", 2, <<Op("read", 4), Op("write", 4)>>)>>),
   Obj([count |-> Num(7), in |-> Arr(<<Op("read", 1)>>), out |-> Arr(<<Op("write", 2)>>)])}

MCValues == [st \in MCStat |-> CASE st = a -> Numbers [] st = b -> Lists [] st = c -> Clients]
MCDevices == [st \in MCStat |-> CASE st = a -> {1, 2} [] st = b -> {0} [] st = c -> {1}]

\* Clients without operations, or only with such as are dropped.
WithBare == [st \in MCStat |-> {Arr(<<Client("x", 1, <<Notify>>)>>), Arr(<<Client("x", 1, <<>>)>>)}]

RECURSIVE Closure(_)
\* The values with all their parts.
Closure(values) ==
  LET parts(v) == IF IsArr(v) THEN {v.arr[i] : i \in DOMAIN v.arr}
                  ELSE IF IsObj(v) THEN {v.obj[n] : n \in DOMAIN v.obj}
                  ELSE {}
      inner == UNION {parts(v) : v \in values}
  IN  IF inner = {} THEN values ELSE values \cup Closure(inner)

MCJson == Closure(UNION {MCValues[st] \cup WithBare[st] : st \in MCStat})

RECURSIVE NamesIn(_, _)
\* The names of the strings, or of the numbers, that are inside a value.
NamesIn(kind, v) ==
  LET inner(k) == IF IsNested(Parts(v)[k]) THEN NamesIn(kind, Parts(v)[k])
                  ELSE IF kind \in DOMAIN Parts(v)[k] THEN {NameAt(v, k)} ELSE {}
  IN  UNION {inner(k) : k \in DOMAIN Parts(v)}

StringsIn == [v \in Nested |-> NamesIn("str", v)]
NumbersIn == [v \in Nested |-> NamesIn("num", v)]

\* The values are such as StatPathProofs asks for.
ASSUME ValuesAreRegular ==
  NamesInside(StringsIn, NumbersIn) /\ Regular(StringsIn, NumbersIn)

==============================================================================
