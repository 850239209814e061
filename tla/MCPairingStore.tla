-------------------------- MODULE MCPairingStore --------------------------
(* PairingStore on a small chip.  The controllers are interchangeable.     *)
EXTENDS PairingStore, TLC

Symmetry == Permutations(Device)
=============================================================================
