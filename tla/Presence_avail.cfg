CONSTANTS
  d1 = d1
  d2 = d2
  Devices = {d1}
  Nobody = Nobody
  MaxPeers = 1
  MaxLines = 1
  Troubles = {"silence", "unpair", "sweep", "loss", "bridge", "restart", "broker", "save"}
  MaxEvents = 2
SPECIFICATION FairSpec
INVARIANTS TypeOK BrokerAgrees
PROPERTIES AliveComesOnline
