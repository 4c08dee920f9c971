-------------------------- MODULE MCContainerPanel --------------------------
(* Instances of ContainerPanel for TLC.                                      *)
EXTENDS ContainerPanel
=============================================================================
