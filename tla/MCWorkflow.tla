----------------------------- MODULE MCWorkflow -----------------------------
(* An instance of Workflow for TLC.  The manifest has a step of every kind:   *)
(* a corpus stage, a controlled step, generation and one that is not built.   *)
(* With two workers there are at most two requests: two runs need no more.    *)
EXTENDS Workflow, TLC

Manifest == <<"corpus-stage", "research-controller", "agent-step", "unavailable">>

MCSpec == WorkflowInit /\ [][WorkflowNext /\ (workers = 2 => requests' <= 2)]_workflow_vars

Symmetry == Permutations(Runs) \cup Permutations(Clients)
=============================================================================
