SPECIFICATION FairSpec
CONSTANTS
  Conn = {c1, c2}
  NoConn = noconn
  Device = {d1}
  NoDevice = nodev
  MaxPairings = 1
  MaxClients = 2

PROPERTIES SetupReleased SetupReopens
