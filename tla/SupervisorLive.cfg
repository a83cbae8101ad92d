\* Sound files, under the fairness of the Go scheduler: liveness.
SPECIFICATION FairSpec
CONSTANTS
  c1 = c1
  c2 = c2
  Cluster <- OneCluster
  Texts <- SoundTexts
  Broken <- MCBroken
  Enabled <- SoundEnabled
  Flaw <- SoundFlaw
  Backend <- SoundBackend
  Absent = Absent
  NoConf = NoConf
  MaxEdits = 2
  MaxHups = 1
PROPERTIES
  ShutdownCompletes
  ReloadServed
  StaleEndpointCloses
