----------------------------- MODULE MCStatQuery -----------------------------
(* An instance of StatQuery for TLC: three keys in two requests, one of them *)
(* for a node statistic of two nodes.                                        *)
EXTENDS StatQuery

MCStats == <<"node", "cluster", "other">>
MCSorted == <<"cluster", "node", "other">>
MCDevices == [k \in {"node", "cluster", "other"} |-> IF k = "node" THEN {1, 2} ELSE {0}]
MCKeyLen == [k \in {"node", "cluster", "other"} |-> IF k = "other" THEN 3 ELSE 2]

==============================================================================
