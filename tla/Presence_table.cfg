CONSTANTS
  d1 = d1
  d2 = d2
  Devices = {d1, d2}
  Nobody = Nobody
  MaxPeers = 2
  MaxLines = 1
  Troubles = {"unpair", "sweep", "restart"}
  MaxEvents = 2
SPECIFICATION Spec
INVARIANTS OneRowEach
SYMMETRY SymDevices
