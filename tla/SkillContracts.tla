---------------------------- MODULE SkillContracts ----------------------------
(* The contracts between the research skills: the paths a request may name,    *)
(* what the class of a file's schema asks of the file, what the gate of the    *)
(* controller asks of it, and what a skill asks of the files it reads.         *)
(*                                                                            *)
(* The builders of ResearchSkills are modelled without these checks.  That     *)
(* none of them refuses what a builder makes, or a mixture of what several     *)
(* have made, is a property of the runs (NothingIsRefused in CliController).   *)
(* Versions, ids of the task and flags that a builder writes as constants are  *)
(* left out, and so are the phrases a text must not have: MayRefuse.           *)
EXTENDS ResearchSkills

-----------------------------------------------------------------------------
(* Input paths.  "chain" stands for the files of the chain and those of their  *)
(* renderings a skill takes, "markdown" for every other rendering.             *)

Paths == {"chain", "retrieval", "chunk", "unenriched", "markdown"}

validate_landscape_input_artifacts == {"retrieval", "unenriched", "markdown"}
validate_gap_mapping_input_artifacts == Paths \ {"chain"}
validate_idea_generation_input_artifacts == Paths \ {"chain"}
validate_screening_input_artifacts == Paths \ {"chain"}
validate_experiment_matrix_input_artifacts == Paths \ {"chain"}
validate_claim_ledger_input_artifacts == Paths \ {"chain"}
validate_manuscript_drafting_input_artifacts == Paths \ {"chain"}

(* The paths a skill refuses; the first two take anything.                    *)
Refused == <<{}, {},
             validate_landscape_input_artifacts,
             validate_gap_mapping_input_artifacts,
             validate_idea_generation_input_artifacts,
             validate_screening_input_artifacts,
             validate_experiment_matrix_input_artifacts,
             validate_claim_ledger_input_artifacts,
             validate_manuscript_drafting_input_artifacts>>

-----------------------------------------------------------------------------
(* The landscape: no cluster without evidence.                                *)

LandscapeCluster(S) == S # {}

LandscapeArtifact(a) ==
    \A k \in {ClusterOf[e] : e \in a.evidence} : LandscapeCluster(Cluster(a.evidence, k))

(* The gap map.  A gap is based on its cluster, its evidence, a warning of the *)
(* coverage, or what it was diagnosed from.                                   *)
GapBasis(g) ==
    [landscape_cluster_ids |-> {g.id} \cap {ClusterOf[e] : e \in g.evidence},
     evidence_ids |-> g.evidence,
     coverage_warnings |-> {g.id} \cap {"missing_role", "dominant_source"},
     diagnostic_refs |-> {g.id}]

has_support(b) == \E field \in DOMAIN b : b[field] # {}

GapRecord(g) == has_support(GapBasis(g))

GapMapArtifact(a) == \A g \in a.gaps : GapRecord(g)

(* The gaps a selected card is listed under.                                  *)
SupportingEvidence(e, a) ==
    {g.id : g \in {g \in a.gaps : \/ e \in GapBasis(g).evidence_ids
                                  \/ GapBasis(g).coverage_warnings # {}
                                  \/ GapBasis(g).diagnostic_refs # {}}}

validate_gap_map_artifact(a) ==
    /\ GapMapArtifact(a)
    /\ a.evidence # {}
    /\ \A e \in a.evidence : SupportingEvidence(e, a) \subseteq {g.id : g \in a.gaps}

-----------------------------------------------------------------------------
(* The ideas.                                                                 *)

CandidateIdeaGapBasis(i) == {i.gap} \ {""}
CandidateIdeaEvidenceBasis(i) == i.evidence

CandidateIdeaRecord(i) == CandidateIdeaGapBasis(i) # {} /\ CandidateIdeaEvidenceBasis(i) # {}

CandidateIdeaArtifact(a) == \A i \in a.ideas : CandidateIdeaRecord(i)

validate_candidate_ideas_artifact(a) == CandidateIdeaArtifact(a) /\ IdeaEvidence(a) # {}

validate_candidate_ideas_for_screening(a) == a.ideas # {} /\ CandidateIdeaArtifact(a)

(* The screening, whose records are the words of a language model.             *)
ScreenedIdeaRecord(x) == x.idea # "" /\ x.evidence # {}

IdeaScreeningArtifact(x) == ScreenedIdeaRecord(x)

(* What the matrix, the ledger and the draft ask of a screening.               *)
validate_screening_v2_for_downstream(x) == ScreenedIdeaRecord(x) /\ x.triaged = Triages

(* They read one status of each kind, whatever was judged.                     *)
normalize_screened_idea_for_downstream(x) ==
    [idea |-> x.idea, evidence |-> x.evidence,
     status |-> {"requires_external_search", "requires_expert_review", "requires_risk_review"}]

Conservative ==
    {"requires_external_search", "requires_expert_review", "requires_risk_review",
     "insufficient_evidence", "unknown"}

validate_screening_for_experiment_matrix(x) ==
    LET n == normalize_screened_idea_for_downstream(x)
    IN  n.evidence # {} /\ n.status \subseteq Conservative

-----------------------------------------------------------------------------
(* The matrix of experiments.                                                 *)

ExperimentCandidate(c) == c.idea # "" /\ c.evidence # {}

validate_experiment_matrix_artifact(c) == ExperimentCandidate(c)

validate_experiment_matrix_for_claim_ledger(c) == c.idea # "" /\ c.evidence # {}

(* The ledger: what is claimed of a claim by its type.                         *)
claim_status(c) ==
    CASE c.type = "literature_observation" -> "evidence_supported_literature_claim"
      [] c.type = "gap_statement" ->
           IF c.evidence # {} THEN "evidence_grounded_candidate" ELSE "insufficient_support"
      [] c.type = "candidate_hypothesis" -> "hypothesis_requires_validation"
      [] c.type = "screening_assessment" -> "screening_preliminary"
      [] c.type = "experiment_matrix_rationale" -> "matrix_planning_scaffold"
      [] c.type = "limitation_statement" -> "insufficient_support"

(* Only a claim that says it has too little support may cite nothing.          *)
ClaimRecord(c) == claim_status(c) # "insufficient_support" => c.evidence # {}

ClaimLedgerArtifact(a) == \A c \in a.claims : ClaimRecord(c)

validate_claim_ledger_artifact(a) ==
    ClaimLedgerArtifact(a) /\ a.evidence # {} /\ a.claims # {}

validate_claim_ledger_for_drafting(a) == a.claims # {} /\ ClaimLedgerArtifact(a)

(* The draft.                                                                 *)
ManuscriptSectionDraftArtifact(a) == a.evidence # {} /\ a.blocks # {}

-----------------------------------------------------------------------------
(* What the class of the file that skill i makes and its gate ask of it.       *)
Passes(i, d) ==
    CASE i = 3 -> LandscapeArtifact(d["landscape"])
      [] i = 4 -> validate_gap_map_artifact(d["gaps"])
      [] i = 5 -> validate_candidate_ideas_artifact(d["ideas"])
      [] i = 6 -> IdeaScreeningArtifact(d["screening"])
      [] i = 7 -> validate_experiment_matrix_artifact(d["matrix"])
      [] i = 8 -> validate_claim_ledger_artifact(d["ledger"])
      [] i = 9 -> ManuscriptSectionDraftArtifact(d["draft"])
      [] OTHER -> TRUE

(* What skill i asks of the files it reads.                                   *)
Takes(i, d) ==
    CASE i = 6 -> validate_candidate_ideas_for_screening(d["ideas"])
      [] i = 7 -> /\ validate_screening_v2_for_downstream(d["screening"])
                  /\ validate_screening_for_experiment_matrix(d["screening"])
      [] i = 8 -> /\ validate_screening_v2_for_downstream(d["screening"])
                  /\ validate_experiment_matrix_for_claim_ledger(d["matrix"])
      [] i = 9 -> /\ validate_screening_v2_for_downstream(d["screening"])
                  /\ validate_claim_ledger_for_drafting(d["ledger"])
      [] OTHER -> TRUE
=============================================================================
