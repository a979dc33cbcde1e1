------------------------ MODULE MCResearchController ------------------------
(* ResearchController for TLC: every plan kind a template asks for.           *)
EXTENDS ResearchController

AllPlans == 0 .. 4
=============================================================================
