------------------------ MODULE MCSchemaCompilation ------------------------
(* Instances of SchemaCompilation for TLC.                                    *)
EXTENDS SchemaCompilation, TLC

CONSTANTS r1, k1, k2, c1, c2

Symmetry == Permutations({c1, c2})
=============================================================================
