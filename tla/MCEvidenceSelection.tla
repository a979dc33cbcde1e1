------------------------ MODULE MCEvidenceSelection ------------------------
(***************************************************************************)
(* EvidenceSelection for TLC: four passages and a figure of two papers,    *)
(* and a profile of two required roles.                                    *)
(***************************************************************************)
EXTENDS EvidenceSelection

CONSTANTS p1, p2

MCPapers == {p1, p2}
MCRoles == <<"background", "method">>
Symmetry == Permutations(MCPapers)
=============================================================================
