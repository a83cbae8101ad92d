\* Every way of the metadata, the buckets, and the results of their collections.
SPECIFICATION Spec
CONSTANTS
  a = a
  b = b
  c = c
  g1 = g1
  g2 = g2
  g3 = g3
  Stat <- MCStat
  Group <- MCGroup
  StatsOf <- MCStatsOf
  Confs <- MCConfs
  Answers <- MCAnswers
  NoPolicies = NoPolicies
  NoGroup = NoGroup
  Missing = Missing
  DevicesOf <- MCDevices
  Values <- MCValues
  Json <- MCJson
  MaxDepth = 5
  IncludeDegraded = TRUE
  NoBucket = NoBucket
INVARIANTS
  TypeOK
  EachStatOnce
  NeverTooOften
  RowsMatchValue
