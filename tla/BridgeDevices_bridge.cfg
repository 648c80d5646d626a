CONSTANTS
  d1 = d1
  n1 = n1
  light = light
  switch = switch
  plain = plain
  Devices = {d1}
  Caps = {light, switch}
  Basic = {switch}
  Models = {plain}
  DefaultModel = plain
  ModelCaps <- Suggests
  Names <- TheNames
  Unnamed = Unnamed
  MaxTroubles = 1
  Nothing = Nothing
SPECIFICATION FairSpec
INVARIANTS TypeOK SigHonest NamesOnFile AvailTells
PROPERTIES CapsSettle CatchesUp
