-------------------------- MODULE MCCliController --------------------------
(* Three cards of two papers.  With the first two selected only the method is  *)
(* missing; with one of them every kind of gap is there.  The statement of the *)
(* second is one that a ledger takes and a draft does not, that of the third   *)
(* one that neither takes.  The cards may be enriched again as the third alone. *)
EXTENDS CliController

CONSTANTS e1, e2, e3

MCEvidence == {e1, e2, e3}
MCRole == [e \in MCEvidence |-> IF e = e1 THEN "mechanism" ELSE "limitation"]
MCPaper == [e \in MCEvidence |-> IF e = e1 THEN "p1" ELSE "p2"]
MCCluster == [e \in MCEvidence |-> "c"]
MCValue == [e \in MCEvidence |-> IF e = e1 THEN "oxide" ELSE "nitride"]
MCWording == [e \in MCEvidence |-> IF e = e1 THEN "plain" ELSE IF e = e2 THEN "final" ELSE "overclaim"]
MCRoles == {"limitation", "method"}
MCBatches == {{e1, e2}, {e3}}
=============================================================================
