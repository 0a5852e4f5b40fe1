-------------------------- MODULE MCVitaQmBluetooth ---------------------------
(* Instances of VitaQmBluetooth for model checking.                         *)
EXTENDS VitaQmBluetooth

CONSTANTS m1, m2

Symmetric == Permutations(Macs)
==============================================================================
