\* Safety, refinement and liveness of the feed: two agent threads, two sources.
SPECIFICATION FairSpec
CONSTANTS
  udp = udp
  tcp = tcp
  x = x
  y = y
  Agents <- MCAgents
  UDPAgents <- MCUDPAgents
  IDs <- MCIDs
  MaxQueue = 2
  TX = TX
  Cleaner = Cleaner
  Nobody = Nobody
  NoID = NoID
INVARIANTS
  Consistent
  LookupStillHolds
  NoLostUpdate
PROPERTIES
  RelaySpec
  Progress
