\* The loop over two buckets and a summary, with failures of every kind.
SPECIFICATION FairSpec
CONSTANTS
  fast = fast
  slow = slow
  summary = summary
  Item <- MCItem
  Summary <- MCSummary
  Interval <- MCInterval
  ProcessorMaxRetries = 3
  ProcessorRetryIntvl = 1
  FetchRetryIntvl = 2
  MaxRetryTime = 4
  MaxTime = 12
INVARIANTS
  TypeOK
  EveryPeriodOnce
PROPERTY StopsWhenCancelled
