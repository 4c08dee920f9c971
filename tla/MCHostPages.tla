---------------------------- MODULE MCHostPages ----------------------------
(* Instances of HostPages for TLC.                                           *)
EXTENDS HostPages
=============================================================================
