SPECIFICATION DiscussionSpec
CONSTANTS
  Item = {a, b}
  Texts <- MCThreadTexts
  Writers = {"editor"}
  Dated = {}
  Changing = {a, b}
  MaxRev = 2
  MaxUp = 1
  MaxReviews = 0
  MaxOpen = 1
  MaxQueue = 2
SYMMETRY Sym
INVARIANTS ThreadFollows NoThreadForDrafts
