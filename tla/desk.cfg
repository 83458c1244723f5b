SPECIFICATION Spec
CONSTANTS
  Item = {a, b}
  Texts <- MCEither
  Writers = {"editor", "ai"}
  Dated = {a}
  Changing = {a}
  MaxRev = 2
  MaxUp = 2
  MaxReviews = 0
  MaxOpen = 1
INVARIANTS NumbersNeverReused CitedRemovalFlagged NoLostEdit EveryClaimTraces
PROPERTIES RemovalNeedsNote
