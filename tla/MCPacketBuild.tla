---------------------------- MODULE MCPacketBuild ----------------------------
(* Instances of PacketBuild for TLC.                                          *)
EXTENDS PacketBuild, TLC

Symmetry == Permutations(Builds) \cup Permutations(Clients)
=============================================================================
