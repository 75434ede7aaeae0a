\* The last update before a lull: one source is enough to lose its announcement.
SPECIFICATION FairSpec
CONSTANTS
  udp = udp
  tcp = tcp
  x = x
  y = y
  Agents <- MCAgents
  UDPAgents <- MCUDPAgents
  IDs <- MCIDs
  MaxQueue = 2
  TX = TX
  Cleaner = Cleaner
  Nobody = Nobody
  NoID = NoID
PROPERTY
  EventuallyForwarded
