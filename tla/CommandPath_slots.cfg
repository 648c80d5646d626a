CONSTANTS
  Devices = {d1}
  HostIds = {4}
  IdModulus = 3
  MaxPending = 2
  MaxRetries = 1
  AttemptWidth = 4
  MaxRoutes = 1
  MaxPeers = 1
  MaxSends = 3
  MaxRestarts = 0
  Free = Free
  Idle = Idle
SPECIFICATION Spec
INVARIANTS UniquePending
PROPERTIES NoRetryAfterAck
