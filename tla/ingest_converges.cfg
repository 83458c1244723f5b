SPECIFICATION FairSpec
CONSTANTS
  Item = {a, b}
  Delivered = {a}
  Failing = {b}
  Untitled = FALSE
  PageSize = 2
  MaxRev = 2
  MaxHandling = 1
  MaxCrash = 1
INVARIANTS OneEventPerOutage
PROPERTIES LiveConverges
