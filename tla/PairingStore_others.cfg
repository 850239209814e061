SPECIFICATION Spec
CONSTANTS
  Device = {d1, d2}
  NoDevice = nodev
  MaxPairings = 2
  MaxCrashes = 0
  MaxFaults = 0
SYMMETRY Symmetry
PROPERTY OthersKept
