CONSTANTS
  d1 = d1
  d2 = d2
  Devices = {d1, d2}
  IdModulus = 2
  MaxAsked = 2
  MaxRestarts = 1
  Nothing = Nothing
SPECIFICATION FairSpec
INVARIANTS TypeOK NoFalseResult NoOrphan
PROPERTIES FreshKept KeepsPromise StaleForgotten
