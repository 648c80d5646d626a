CONSTANTS
  Has = {"on", "level", "mode", "percent", "system", "heat", "cool", "identify"}
  Driven = {"on", "level", "mode", "percent"}
  Handled = {}
  Docs <- Payloads
  Touched = {"on", "mode"}
  AppValues = {0, 3}
  Pressers = {"app"}
  Actions = {"short", "double"}
  Nothing = Nothing
  MaxFrames = 2
  MaxLocal = 2
  MaxPresses = 2
SPECIFICATION Spec
INVARIANTS TypeOK ShowsHardware RepeatHarmless PressPaired
CHECK_DEADLOCK FALSE
