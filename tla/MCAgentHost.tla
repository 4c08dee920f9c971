---------------------------- MODULE MCAgentHost ----------------------------
(* Instances of AgentHost for TLC: processes, builds, platforms and identities  *)
(* are interchangeable.                                                      *)
EXTENDS AgentHost, TLC

Symmetry == Permutations(Runs) \cup Permutations(Releases) \cup Permutations(Urls)
                \cup Permutations(Ids)
===========================================================================
