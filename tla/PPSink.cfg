\* Polls of any length, pages scraped at any time, failed lookups of exports.
SPECIFICATION Spec
CONSTANTS
  Dataset = {"exports", "protocols"}
  Metrics <- MCMetrics
  Rows <- MCRows
  Overflow = {"System", "Excluded"}
  Path = {"/ifs/a"}
  Lookups = {TRUE, FALSE}
  Period = 1
  Lifetime = 1
  MaxElapsed = 2
  None = None
INVARIANTS
  TypeOK
  PageHasNoDuplicates
  OnePathPerExport
  NoGapUnlessSlower
  DashboardsShowAll
