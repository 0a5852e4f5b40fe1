------------------------------ MODULE MCQmState ------------------------------
(* Instances of QmState for model checking.                                 *)
EXTENDS QmState, TLC

\* Devices are interchangeable as far as ZeroWordMacs does not name one; only
\* for runs without liveness.
DeviceSymmetry == Permutations(Macs)
==============================================================================
