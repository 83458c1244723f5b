SPECIFICATION IndexSpec
CONSTANTS
  Item = {a}
  Texts <- MCOneText
  Writers = {"editor", "ai"}
  Dated = {}
  Changing = {a}
  MaxRev = 2
  MaxUp = 2
  MaxReviews = 2
  MaxOpen = 1
  MinSources = 1
INVARIANTS NothingUnreviewedPublic SystemKeepsText SearchIsCurrent HeldTextIsQueued
PROPERTIES ImplementsEdition
