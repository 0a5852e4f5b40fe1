----------------------------- MODULE MCUmodRing ------------------------------
(* Instances of UmodRing for model checking.                                *)
EXTENDS UmodRing, TLC

\* The words of an event are stored and loaded in any order; only for runs
\* without liveness.
WordSymmetry == Permutations(Words)
==============================================================================
