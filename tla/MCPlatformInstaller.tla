----------------------- MODULE MCPlatformInstaller ------------------------
(* Instances of PlatformInstaller for TLC: processes and releases are          *)
(* interchangeable.                                                          *)
EXTENDS PlatformInstaller, TLC

Symmetry == Permutations(Runs) \cup Permutations(Releases)
===========================================================================
