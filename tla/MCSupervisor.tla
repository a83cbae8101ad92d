---------------------------- MODULE MCSupervisor -----------------------------
(* Instances of Supervisor for TLC: one or two clusters, a handful of files. *)
EXTENDS Supervisor

CONSTANTS c1, c2

\* A text is named for what is particular about it.
MCBroken == {"garbled"}

\* Every flaw a configuration can have although it decodes.
FlawedTexts == {"influxdb", "prometheus", "garbled"} \cup (Flaws \ {"none"})

\* Sound files, which differ in their clusters and in their backends.
SoundTexts == {"both", "prometheus", "garbled"}

EnabledOver(S) ==
  [t \in S \ MCBroken |-> IF t = "prometheus" THEN {c1} ELSE Cluster]
FlawedEnabled == EnabledOver(FlawedTexts)
SoundEnabled == EnabledOver(SoundTexts)

FlawOver(S) == [t \in S \ MCBroken |-> IF t \in Flaws THEN t ELSE "none"]
FlawedFlaw == FlawOver(FlawedTexts)
SoundFlaw == FlawOver(SoundTexts)

BackendOver(S) ==
  [t \in S \ MCBroken |-> IF t \in Backends THEN t ELSE "influxdbv2"]
FlawedBackend == BackendOver(FlawedTexts)
SoundBackend == BackendOver(SoundTexts)

OneCluster == {c1}
TwoClusters == {c1, c2}

==============================================================================
