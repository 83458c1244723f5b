SPECIFICATION Spec
CONSTANTS
  Item = {a}
  Delivered = {a}
  Failing = {a}
  Untitled = TRUE
  PageSize = 1
  MaxRev = 3
  MaxHandling = 1
  MaxCrash = 1
INVARIANTS TypeOK AckedIsApplied CursorCovers
PROPERTIES ImplementsMirror
