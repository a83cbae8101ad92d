----------------------------- MODULE MCStatsLoop -----------------------------
(* An instance of StatsLoop for TLC: two buckets and one of the summary stats. *)
EXTENDS StatsLoop

CONSTANTS fast, slow, summary

MCItem == {fast, slow, summary}
MCSummary == {summary}

\* In units of 5 seconds: the summary stats are due every 5 seconds.
MCInterval == [i \in MCItem |-> IF i = slow THEN 3 ELSE IF i = fast THEN 2 ELSE 1]

==============================================================================
