\* Datasets removed, made anew and moved between the polls.
SPECIFICATION FairSpec
CONSTANTS
  MaxDsID = 2
  Name = {"a", "b"}
  System = "System"
  NoDef = NoDef
  ProcessorMaxRetries = 2
  MaxCreations = 3
INVARIANTS
  TypeOK
  SinkFollowsAnswer
  MislabelsOnlyTheNew
PROPERTIES
  FindsChanges
  StopsWhenCancelled
