------------------------------- MODULE MCPPSink -------------------------------
(* An instance of PPSink for TLC: a dataset by exports with all types of rows, *)
(* and one by protocols with a type nobody knows.                             *)
EXTENDS PPSink

MCMetrics == [d \in {"exports", "protocols"} |->
                IF d = "exports" THEN {"export_id"} ELSE {"protocol"}]

NoAttrs == [m \in {} |-> None]

Of(node, attrs, type, id) == [node |-> node, attrs |-> attrs, type |-> type, id |-> id]

Export == [m \in {"export_id"} |-> "7"]

Protocol == [m \in {"protocol"} |-> "nfs"]

MCRows ==
  [d \in {"exports", "protocols"} |->
     IF d = "exports"
     THEN {Of("1", Export, None, None), Of("1", Export, "Pinned", "31"),
           Of("1", Export, "Pinned", "32"), Of("1", NoAttrs, "System", None)}
     ELSE {Of("2", Protocol, None, None), Of("2", NoAttrs, "unheard of", None)}]

===============================================================================
