\* Values in which all of an array is dropped, or which have an empty one.
SPECIFICATION Spec
CONSTANTS
  a = a
  b = b
  c = c
  g1 = g1
  g2 = g2
  g3 = g3
  Stat <- MCStat
  Group <- MCGroup
  StatsOf <- MCStatsOf
  Confs <- MCConfs
  Answers <- MCAnswers
  NoPolicies = NoPolicies
  NoGroup = NoGroup
  Missing = Missing
  DevicesOf <- MCDevices
  Values <- WithBare
  Json <- MCJson
  MaxDepth = 5
  IncludeDegraded = TRUE
  NoBucket = NoBucket
INVARIANT NeverPanics
