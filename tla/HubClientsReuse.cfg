\* A descriptor closed after a failed send is given to the next connection.
SPECIFICATION Spec
CONSTANTS
  MaxFD = 2
  NoFD = NoFD
  RX = RX
  TX = TX
  Nobody = Nobody
  Remains = {"no data"}
INVARIANT
  NeverReachesAnother
