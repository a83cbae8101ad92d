\* Both kinds of authentication and every sequence of answers, with three
\* attempts at each request and with no limit to them.
SPECIFICATION FairSpec
CONSTANT Limits = {0, 1, 3}
INVARIANTS
  TypeOK
  BodyIsOk
  RequestIsFresh
PROPERTIES
  CallReturns
  CancelStops
