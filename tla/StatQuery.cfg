\* Every answer of the cluster to a query and its retries.
SPECIFICATION FairSpec
CONSTANTS
  Stats <- MCStats
  Sorted <- MCSorted
  Devices <- MCDevices
  KeyLen <- MCKeyLen
  MaxKeyLen = 4
  StatRetries = 2
  StatRetryIntvl = 1000
  Missing = Missing
INVARIANTS
  TypeOK
  RetriesWhatFailed
  BatchesCover
PROPERTIES
  RefinesQuery
  CallReturns
