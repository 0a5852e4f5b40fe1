---------------------------- MODULE MCKmodEvent ------------------------------
(* Instances of KmodEvent for model checking.                               *)
EXTENDS KmodEvent
==============================================================================
