--------------------------- MODULE MCExtractionRun ---------------------------
(* Instances of ExtractionRun for TLC.                                        *)
EXTENDS ExtractionRun, TLC

Symmetry == Permutations(Jobs) \cup Permutations(Clients)
=============================================================================
