SPECIFICATION FairSpec
CONSTANTS
  Item = {a}
  Delivered = {a}
  Failing = {}
  Untitled = FALSE
  PageSize = 1
  MaxRev = 2
  MaxHandling = 1
  MaxCrash = 0
PROPERTIES Converges
