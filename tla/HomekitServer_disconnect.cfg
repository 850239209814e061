SPECIFICATION FairSpec
CONSTANTS
  Conn = {c1}
  NoConn = noconn
  Device = {d1}
  NoDevice = nodev
  MaxPairings = 2
  MaxClients = 1

PROPERTY RemovedSessionsClose
