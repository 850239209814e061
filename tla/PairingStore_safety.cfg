SPECIFICATION Spec
CONSTANTS
  Device = {d1, d2, d3}
  NoDevice = nodev
  MaxPairings = 3
  MaxCrashes = 1
  MaxFaults = 1
SYMMETRY Symmetry
INVARIANTS TypeOK RecordsBeforeErased Faithful UniqueRecords
PROPERTY ImplementsPairingList
