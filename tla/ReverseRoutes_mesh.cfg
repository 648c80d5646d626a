CONSTANTS
  c = c
  r1 = r1
  r2 = r2
  d = d
  Coord = c
  Routers = {r1, r2}
  Leaves = {d}
  Talkers = {d}
  Range <- Mesh
  Fragile <- Weak
  Unstable = {c}
  HopLimit = 2
  MaxRoutes = 2
  NoParent = NoParent
  NoRoute = NoRoute
  MaxUplinks = 2
  MaxCommands = 1
  MaxTroubles = 1
SPECIFICATION FairSpec
INVARIANTS TypeOK RoutesLead CommandsDescend
PROPERTIES Heals
