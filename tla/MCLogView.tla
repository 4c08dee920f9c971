------------------------------ MODULE MCLogView -----------------------------
(* Instances of LogView for TLC.                                             *)
EXTENDS LogView, TLC

Symmetry == Permutations(Requests)
===========================================================================
