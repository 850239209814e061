SPECIFICATION Spec
CONSTANTS
  Conn = {c1, c2, c3}
  NoConn = noconn
  Device = {d1}
  NoDevice = nodev
  MaxPairings = 2
  MaxClients = 2
SYMMETRY Symmetry
INVARIANTS TypeOK ClientCount SetupContextOwned PairedWithoutSetup SetupStepOwner SecureSession
PROPERTY SetupNotTakenOver
