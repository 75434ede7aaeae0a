\* Safety and liveness of the client connections.
SPECIFICATION FairSpec
CONSTANTS
  MaxFD = 2
  NoFD = NoFD
  RX = RX
  TX = TX
  Nobody = Nobody
  Remains = {"no data", "data", "crash"}
INVARIANTS
  Consistent
  SendsFromLiveContainer
  SendsReachClient
PROPERTY
  Progress
  DispatchSpec
