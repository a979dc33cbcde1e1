------------------------------ MODULE MCReview ------------------------------
(* A record with a missing required field and one without evidence.           *)
EXTENDS Review, TLC

MCFirst == {1}
MCSecond == {2}
MCBoth == {1, 2}

Symmetry == Permutations(Clients)
=============================================================================
