\* A reload of a flawed file against the promise that a failed reload is survived.
SPECIFICATION Spec
CONSTANTS
  c1 = c1
  c2 = c2
  Cluster <- OneCluster
  Texts <- FlawedTexts
  Broken <- MCBroken
  Enabled <- FlawedEnabled
  Flaw <- FlawedFlaw
  Backend <- FlawedBackend
  Absent = Absent
  NoConf = NoConf
  MaxEdits = 1
  MaxHups = 1
INVARIANT ReloadNeverKills
