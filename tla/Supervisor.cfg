\* Every kind of file, edits and restarts: safety and refinement.
SPECIFICATION Spec
CONSTANTS
  c1 = c1
  c2 = c2
  Cluster <- TwoClusters
  Texts <- FlawedTexts
  Broken <- MCBroken
  Enabled <- FlawedEnabled
  Flaw <- FlawedFlaw
  Backend <- FlawedBackend
  Absent = Absent
  NoConf = NoConf
  MaxEdits = 2
  MaxHups = 0
INVARIANTS
  TypeOK
  OneConfiguration
  NoLostEdit
  NobodyLeftBehind
  WatchOnFile
PROPERTY RefinesService
