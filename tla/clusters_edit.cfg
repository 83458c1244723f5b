SPECIFICATION Spec
CONSTANTS
  i1 = i1
  i2 = i2
  i3 = i3
  i4 = i4
  Item = {i1, i2, i3, i4}
  Word <- MCWord
  Terms <- MCTerms
  Entities <- MCEntities
  Outlet <- MCOutlet
  Day <- MCDay
  Window = 3
  CommonDays = 30
  OwnLeast = 3
  AllLeast = 20
  Withdrawn = {i1}
  Early = {i4}
  Alike <- MCAlike
  MaxCluster = 3
  MaxAudit = 3
INVARIANTS ItemsInOpenClusters ResolveEnds AuditExplainsMembership CoreIsCurrent SharedStoryJoins
PROPERTIES ReverseUndoes JoinsOwnStory ImplementsMoves
