CONSTANTS
  a1 = a1
  a2 = a2
  Attrs = {a1}
  OnChangeOnly = FALSE
  Nothing = Nothing
  MaxChanges = 2
  MaxFaults = 1
  MaxStops = 1
  MaxPowerCuts = 1
SPECIFICATION FairSpec
INVARIANTS TypeOK
PROPERTIES KeepsSettings ReportsCatchUp FlashCatchesUp
