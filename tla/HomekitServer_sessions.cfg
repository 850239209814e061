SPECIFICATION Spec
CONSTANTS
  Conn = {c1, c2}
  NoConn = noconn
  Device = {d1, d2, d3}
  NoDevice = nodev
  MaxPairings = 2
  MaxClients = 2
SYMMETRY Symmetry
CONSTRAINT IdIntact
INVARIANT SessionPairingId
PROPERTY NoAdminEnablesPairing
