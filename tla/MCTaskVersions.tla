--------------------------- MODULE MCTaskVersions ---------------------------
(* Instances of TaskVersions for TLC.                                         *)
EXTENDS TaskVersions, TLC

CONSTANTS x1, x2, c1, c2

Symmetry == Permutations({x1, x2}) \cup Permutations({c1, c2})
=============================================================================
