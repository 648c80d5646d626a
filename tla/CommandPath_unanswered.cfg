CONSTANTS
  Devices = {d1}
  HostIds = {1, 2}
  IdModulus = 3
  MaxPending = 1
  MaxRetries = 1
  AttemptWidth = 4
  MaxRoutes = 1
  MaxPeers = 1
  MaxSends = 2
  MaxRestarts = 0
  Free = Free
  Idle = Idle
SPECIFICATION FairSpec
PROPERTIES EveryCommandAnswered
