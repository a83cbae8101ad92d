------------------------------ MODULE MCPromSink ------------------------------
(* An instance of PromSink for TLC.  Time is in units of 5 seconds.         *)
EXTENDS PromSink

CONSTANTS multi, single, in, out, value, node, op

MCStat == {multi, single}
MCFamily == {in, out, value}
MCFamiliesOf == [st \in MCStat |-> IF st = multi THEN {in, out} ELSE {value}]

\* One tag set with both labels, one without the second.
MCTags == {"node", "node_op"}
MCLabel == {node, op}
MCLabelsOf == [t \in MCTags |-> IF t = "node" THEN {node} ELSE {node, op}]

\* The fields of one stat come every 5 seconds, the other has no interval.
MCUpdateIntvl == [st \in MCStat |-> IF st = multi THEN 1 ELSE 0]

==============================================================================
