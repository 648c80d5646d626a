CONSTANTS
  c = c
  r1 = r1
  r2 = r2
  l1 = l1
  Coord = c
  Routers = {r1, r2}
  Leaves = {l1}
  Links <- Triangle
  HopLimit = 4
  StaleAge = 2
  NoParent = NoParent
  NoCost = 255
  MaxFaults = 1
  MaxLosses = 1
SPECIFICATION FairSpec
INVARIANTS TypeOK Rooted RestsShortest
PROPERTIES Converges
