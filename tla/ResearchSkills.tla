--------------------------- MODULE ResearchSkills ---------------------------
(* What the research skills make of the files of a task workspace, from the   *)
(* enriched evidence cards to a drafted section.  The skills but the screening *)
(* are functions of the files they read; their artifacts are reduced to the    *)
(* references they carry: which evidence a landscape, a gap, an idea, a claim  *)
(* or a block of the draft names.                                             *)
(*                                                                            *)
(* A skill takes the first few of a list in places; the order of a list is     *)
(* not kept, so the model takes any so many.  Markdown renderings are read by  *)
(* nobody and left out.  A definition named Bug... is a mutated form of the    *)
(* one after it.                                                              *)
EXTENDS Integers, FiniteSets

CONSTANTS
    Evidence,       \* evidence ids
    RoleOf,         \* the primary role of a card
    PaperOf,        \* its paper
    ClusterOf,      \* its role, material and defect type: the key of its cluster, and the id
                    \* of a gap on it, which begins with gap_sparse_cluster_
    ValueOf,        \* its value on one of the axes of comparison, or "unknown"
    Wording,        \* its statement: "plain", "overclaim", or "final", a phrase only the draft refuses
    RequiredRoles,  \* the roles of the task profile
    MaxIdeas,       \* gaps an idea is made of: 10
    MaxLiterature,  \* literature claims of a ledger: 3
    MaxCited,       \* bound: ids a screening record cites of a kind
    Missing         \* no such file

ASSUME SkillConstants ==
    /\ RoleOf \in [Evidence -> STRING] /\ DOMAIN PaperOf = Evidence
    /\ DOMAIN ClusterOf = Evidence /\ DOMAIN ValueOf = Evidence
    /\ Wording \in [Evidence -> {"plain", "overclaim", "final"}]
    /\ RequiredRoles \subseteq STRING
    /\ \A e \in Evidence : ClusterOf[e] \notin {"", "missing_role", "dominant_source", "limited_axis"}
    /\ MaxIdeas \in Nat /\ MaxLiterature \in Nat /\ MaxCited \in Nat

-----------------------------------------------------------------------------
(* The skills in the order of the chain.  A contract names the files a skill   *)
(* requires, the one it makes and the diagnostics it writes next to it.        *)

Contract(reads, artifact, diagnostics) ==
    [reads |-> reads, artifact |-> artifact, diagnostics |-> diagnostics]

(* What a contract requires of the skill before it.                           *)
After(c) == c.reads \cup ({c.artifact, c.diagnostics} \ {"none"})

(* The initial cards are not modelled; enriched cards have no diagnostics.     *)
enrich_evidence_cards == Contract({}, "enriched", "none")
rank_evidence == Contract(After(enrich_evidence_cards), "selection", "coverage")
landscape_stub == Contract(After(rank_evidence), "landscape", "landscape_diag")
gap_mapping_stub == Contract(After(landscape_stub), "gaps", "gaps_diag")
idea_generation_stub == Contract(After(gap_mapping_stub), "ideas", "ideas_diag")
screening_stub == Contract(After(idea_generation_stub), "screening", "screening_diag")
experiment_matrix_stub == Contract(After(screening_stub), "matrix", "matrix_diag")
claim_ledger_stub == Contract(After(experiment_matrix_stub), "ledger", "ledger_diag")
manuscript_drafting_stub == Contract(After(claim_ledger_stub), "draft", "draft_diag")

Chain == <<enrich_evidence_cards, rank_evidence, landscape_stub, gap_mapping_stub,
           idea_generation_stub, screening_stub, experiment_matrix_stub,
           claim_ledger_stub, manuscript_drafting_stub>>

Positions == 1 .. 9

Artifacts == [i \in Positions |-> Chain[i].artifact]
Diagnostics == [i \in Positions |-> Chain[i].diagnostics]
Writes(i) == {Artifacts[i], Diagnostics[i]} \ {"none"}
Files == UNION {Writes(i) : i \in Positions}

Smaller(m, n) == IF m < n THEN m ELSE n

-----------------------------------------------------------------------------
(* Ranking.  A budget may be asked for, zero too, so any cards may be chosen.  *)

Cards(d) == d["enriched"]
Selected(d) == d["selection"].selected

Missed(S) == RequiredRoles \ {RoleOf[e] : e \in S}

(* One paper has more than half of the selected cards.                        *)
Dominant(S) ==
    \E e \in S : 2 * Cardinality({x \in S : PaperOf[x] = PaperOf[e]}) > Cardinality(S)

Rankings(d) ==
    {[artifact |-> [ranked |-> Cards(d), selected |-> S],
      diagnostics |-> [missing |-> Missed(S), dominant |-> Dominant(S)]] : S \in SUBSET Cards(d)}

BugBase(d) == Cards(d)

(* The selected cards, or all of them when none is selected.                  *)
Base(d) == IF Selected(d) = {} THEN Cards(d) ELSE Selected(d)

(* The landscape groups them; its coverage repeats what the diagnostics of the *)
(* ranking say.                                                               *)
Landscapes(d) ==
    LET coverage == [missing |-> d["coverage"].missing,
                     dominant |-> d["coverage"].dominant \/ Dominant(Selected(d))]
    IN  {[artifact |-> [evidence |-> Base(d), missing |-> coverage.missing,
                        dominant |-> coverage.dominant],
          diagnostics |-> coverage]}

-----------------------------------------------------------------------------
(* Gaps.                                                                      *)

Gap(id, role, S) == [id |-> id, role |-> role, evidence |-> S]

(* Every missing role makes a gap, all of the same id, and one gap of an id is *)
(* kept: the first the landscape names, or its diagnostics, or the ranking's.  *)
FirstMissing(d) ==
    IF d["landscape"].missing # {} THEN d["landscape"].missing
    ELSE IF d["landscape_diag"].missing # {} THEN d["landscape_diag"].missing
    ELSE d["coverage"].missing

RoleGaps(d) ==
    IF FirstMissing(d) = {} THEN {{}}
    ELSE {{Gap("missing_role", r, Selected(d))} : r \in FirstMissing(d)}

DominantGap(d) ==
    IF \/ d["landscape"].dominant \/ d["landscape_diag"].dominant \/ d["coverage"].dominant
       \/ Dominant(Selected(d))
    THEN {Gap("dominant_source", "none", Selected(d))} ELSE {}

Cluster(S, k) == {e \in S : ClusterOf[e] = k}

(* A cluster of the landscape with one card.                                  *)
SparseGaps(d) ==
    LET S == d["landscape"].evidence
    IN  {Gap(ClusterOf[e], "none", {e}) : e \in {x \in S : Cluster(S, ClusterOf[x]) = {x}}}

(* At most one known value on the axis, in the landscape and the selection.    *)
AxisGap(d) ==
    LET known == {ValueOf[e] : e \in d["landscape"].evidence \cup Selected(d)} \ {"unknown"}
    IN  IF Cardinality(known) <= 1 THEN {Gap("limited_axis", "none", Selected(d))} ELSE {}

GapMap(G, d) ==
    [evidence |-> Selected(d), gaps |-> G \cup DominantGap(d) \cup SparseGaps(d) \cup AxisGap(d)]

(* Nothing is mapped without cards and a selection.                           *)
GapMaps(d) ==
    {[artifact |-> GapMap(G, d), diagnostics |-> "written"] :
       G \in {G \in RoleGaps(d) : Cards(d) # {} /\ Selected(d) # {}}}

-----------------------------------------------------------------------------
(* Ideas: one of each of the first gaps, on the evidence of the gap that is    *)
(* still among the cards or the selection; none without.                      *)

Basis(g, d) == g.evidence \cap (Cards(d) \cup Selected(d))

Idea(g, d) == [gap |-> g.id, evidence |-> Basis(g, d)]

Ideas(G, d) == {Idea(g, d) : g \in {x \in G : Basis(x, d) # {}}}

IdeaEvidence(a) == UNION {i.evidence : i \in a.ideas}

IdeaSets(d) ==
    LET gaps == d["gaps"].gaps
        taken == {G \in SUBSET gaps : Cardinality(G) = Smaller(MaxIdeas, Cardinality(gaps))}
    IN  {[artifact |-> [ideas |-> Ideas(G, d)], diagnostics |-> "written"] :
           G \in {G \in taken : /\ Cards(d) # {} /\ Selected(d) # {} /\ d["gaps"].evidence # {}
                                /\ Ideas(G, d) # {}}}

-----------------------------------------------------------------------------
(* Screening: the answer of a language model, taken when every id it cites is  *)
(* in the packet the model was given.  An answer holds a record per idea; they *)
(* are checked, carried on and claimed one by one, and one stands for all.     *)
(* The gaps and papers it cites are checked as the evidence is and left out.   *)

BugPacketEvidence(d) == Evidence

PacketEvidence(d) == IdeaEvidence(d["ideas"]) \cap Base(d)

Some(S) == {T \in SUBSET S : T # {} /\ Cardinality(T) <= MaxCited}

(* What it has to judge, and that no search outside was made.                 *)
Triages == {"local_novelty", "external_search", "feasibility", "risk", "overall"}

Answers(d) ==
    [idea : {i.gap : i \in d["ideas"].ideas}, evidence : Some(PacketEvidence(d)), triaged : {Triages}]

(* The artifact is the answer, the diagnostics are written for any answer.     *)
Screened(a) == [artifact |-> a, diagnostics |-> "written"]

Screenings(d) == {Screened(a) : a \in Answers(d)}

(* The matrix makes a candidate of a screened idea, whether or not the idea is *)
(* among the candidate ideas.                                                 *)
Candidate(x) == [idea |-> x.idea, evidence |-> x.evidence]

Matrices(d) == {[artifact |-> Candidate(d["screening"]), diagnostics |-> "written"]}

-----------------------------------------------------------------------------
(* The claim ledger.                                                          *)

Claim(type, gaps, S) == [type |-> type, gaps |-> gaps, evidence |-> S]

Ranked(d) == d["selection"].ranked \cup Selected(d)

(* The first few cards, the enriched ones before those of the ranking.        *)
FirstCards(d) ==
    LET all == Cards(d) \cup Ranked(d)
    IN  {L \in SUBSET all : /\ Cardinality(L) = Smaller(MaxLiterature, Cardinality(all))
                            /\ L \subseteq Cards(d) \/ Cards(d) \subseteq L}

LiteratureClaims(L) == {Claim("literature_observation", {}, {e}) : e \in L}

GapClaims(d) == {Claim("gap_statement", {g.id}, g.evidence) : g \in d["gaps"].gaps}

(* A hypothesis and a rationale for the candidate, the assessment of the       *)
(* screened idea (their gaps are left out), and the limitations, which cite    *)
(* nothing.                                                                   *)
ChainClaims(d) ==
    {Claim("candidate_hypothesis", {}, d["matrix"].evidence),
     Claim("screening_assessment", {}, d["screening"].evidence),
     Claim("experiment_matrix_rationale", {}, d["matrix"].evidence),
     Claim("limitation_statement", {}, {})}

LedgerEvidence(d) ==
    d["matrix"].evidence \cup d["screening"].evidence \cup IdeaEvidence(d["ideas"])
      \cup d["gaps"].evidence \cup d["landscape"].evidence

Overclaims(L) == \E e \in L : Wording[e] = "overclaim"

Ledger(L, d) ==
    [evidence |-> LedgerEvidence(d),
     claims |-> LiteratureClaims(L) \cup GapClaims(d) \cup ChainClaims(d)]

Ledgers(d) ==
    {[artifact |-> Ledger(L, d), diagnostics |-> "written"] :
       L \in {L \in FirstCards(d) : ~Overclaims(L)}}

(* The draft: a block of every claim that has evidence.  A literature claim    *)
(* repeats the statement of its card.                                         *)
Blocks(d) == {c \in d["ledger"].claims : c.type # "limitation_statement" /\ c.evidence # {}}

BugFinal(d) ==
    \E c \in d["ledger"].claims :
      c.type = "literature_observation" /\ Overclaims(c.evidence)

Final(d) ==
    \E c \in d["ledger"].claims :
      c.type = "literature_observation" /\ \E e \in c.evidence : Wording[e] # "plain"

Draft(B, d) ==
    [evidence |-> d["ledger"].evidence \cup UNION {b.evidence : b \in B}, blocks |-> B]

Drafts(d) ==
    {[artifact |-> Draft(B, d), diagnostics |-> "written"] : B \in {B \in {Blocks(d)} : ~Final(d)}}

-----------------------------------------------------------------------------
(* The results a skill may come to on the files it reads.                     *)
Results(i, d) ==
    CASE i = 2 -> Rankings(d)
      [] i = 3 -> Landscapes(d)
      [] i = 4 -> GapMaps(d)
      [] i = 5 -> IdeaSets(d)
      [] i = 6 -> Screenings(d)
      [] i = 7 -> Matrices(d)
      [] i = 8 -> Ledgers(d)
      [] i = 9 -> Drafts(d)

(* Whether a skill may find that it must not write its artifact.  From the     *)
(* ideas on each has a list of phrases of its own, which the text of a card or *)
(* of a model may hold.                                                       *)
MayRefuse(i, d) == i \in 5 .. 9 \/ (i = 4 /\ Results(i, d) = {})
=============================================================================
