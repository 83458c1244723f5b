SPECIFICATION FairSpec
CONSTANTS
  busy = busy
  calm = calm
  r1 = r1
  r2 = r2
  r3 = r3
  s1 = s1
  s2 = s2
  Cluster = {busy, calm}
  Report = {r1, r2, r3, s1, s2}
  Of <- MCOf
  Outlet <- MCOutlet
  Seeded = {r1, r2, s1, s2}
  Steady = {calm}
  Sweep = {1}
  Reader = {11}
  Kind = {"person", "ai_editor"}
  MinOutlets = 2
  Limit = 1
  Shortlist = 2
  MaxVer = 1
  Early = {r3}
  MaxReviewing = 1
INVARIANTS TypeOK IndexedMatchesReports ListedIsIndexable NothingOverlooked
PROPERTIES SweepCatchesUp
