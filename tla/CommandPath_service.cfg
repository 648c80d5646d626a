CONSTANTS
  Devices = {d1, d2}
  HostIds = {3}
  IdModulus = 2
  MaxPending = 2
  MaxRetries = 1
  AttemptWidth = 4
  MaxRoutes = 2
  MaxPeers = 1
  MaxSends = 2
  MaxRestarts = 1
  Free = Free
  Idle = Idle
SPECIFICATION Spec
INVARIANTS TypeOK NoFalseSuccess HonestTimeout
PROPERTIES ImplementsService
SYMMETRY Symmetry
