SPECIFICATION Spec
CONSTANTS
  Item = {a}
  Texts <- MCOneText
  Writers = {"editor"}
  Dated = {}
  Changing = {a}
  MaxRev = 1
  MaxUp = 1
  MaxReviews = 0
  MaxOpen = 2
PROPERTIES RetractedNotPublished
