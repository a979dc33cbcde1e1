------------------------- MODULE CliControllerProofs -------------------------
(* Proofs about the files of the skills: what they cite, that nobody refuses   *)
(* them, and what a chain called in order has made, for any evidence, any      *)
(* bounds and any order of calls, over failures between two writes.           *)
EXTENDS CliController, TLAPS

(* The inductive invariant.                                                   *)
CitesInv == DOMAIN disk = Files /\ NothingInvented

(* The files by their names.                                                  *)
LEMMA Names ==
  /\ Positions = {1, 2, 3, 4, 5, 6, 7, 8, 9}
  /\ Artifacts[1] = "enriched" /\ Artifacts[2] = "selection" /\ Artifacts[3] = "landscape"
  /\ Artifacts[4] = "gaps" /\ Artifacts[5] = "ideas" /\ Artifacts[6] = "screening"
  /\ Artifacts[7] = "matrix" /\ Artifacts[8] = "ledger" /\ Artifacts[9] = "draft"
<1>1. Positions = {1, 2, 3, 4, 5, 6, 7, 8, 9}
  BY DEF Positions
<1> QED BY <1>1 DEF Artifacts, Chain, Contract, enrich_evidence_cards, rank_evidence,
          landscape_stub, gap_mapping_stub, idea_generation_stub, screening_stub,
          experiment_matrix_stub, claim_ledger_stub, manuscript_drafting_stub

LEMMA DiagnosticNames ==
  ASSUME NEW i \in Positions
  PROVE  Diagnostics[i] \in {"none", "coverage", "landscape_diag", "gaps_diag", "ideas_diag",
                             "screening_diag", "matrix_diag", "ledger_diag", "draft_diag"}
BY Names DEF Diagnostics, Chain, Contract, enrich_evidence_cards, rank_evidence,
      landscape_stub, gap_mapping_stub, idea_generation_stub, screening_stub,
      experiment_matrix_stub, claim_ledger_stub, manuscript_drafting_stub

(* The file of a position of the chain is a file and none of the diagnostics. *)
LEMMA ArtifactIsFile ==
  ASSUME NEW i \in Positions
  PROVE  Artifacts[i] \in Files /\ Artifacts[i] # "none"
<1>1. Artifacts[i] # "none"
  BY Names
<1> QED BY <1>1 DEF Files, Writes

(* Diagnostics cite nothing.                                                  *)
LEMMA DiagnosticsCiteNothing ==
  ASSUME NEW i \in Positions, NEW j \in Positions, NEW c
  PROVE  Cites(Diagnostics[i], c) = {} /\ Artifacts[j] # Diagnostics[i]
<1>1. Artifacts[j] # Diagnostics[i]
  BY DiagnosticNames, Names
<1> DEFINE f == Diagnostics[i]
<1>2. /\ f # "enriched" /\ f # "selection" /\ f # "gaps" /\ f # "ideas"
      /\ f \notin {"landscape", "screening", "matrix"} /\ f # "ledger" /\ f # "draft"
  BY DiagnosticNames
<1> HIDE DEF f
<1>3. Cites(f, c) = {}
  BY <1>2 DEF Cites
<1> QED BY <1>1, <1>3 DEF f

(* A skill requires what the one before it requires, and what that one makes.  *)
LEMMA ReadsWhatIsBefore ==
  ASSUME NEW i \in Positions, NEW j \in Positions, j < i
  PROVE  Artifacts[j] \in Reads(i)
<1> DEFINE Onward(k) == Reads(k) \cup {Artifacts[k]} \subseteq Reads(k + 1)
<1>1. \A k \in 1 .. 8 : Onward(k)
  <2>1. /\ Reads(2) = After(Chain[1]) /\ Reads(3) = After(Chain[2]) /\ Reads(4) = After(Chain[3])
        /\ Reads(5) = After(Chain[4]) /\ Reads(6) = After(Chain[5]) /\ Reads(7) = After(Chain[6])
        /\ Reads(8) = After(Chain[7]) /\ Reads(9) = After(Chain[8])
    BY DEF Reads, Chain, Contract, rank_evidence, landscape_stub, gap_mapping_stub,
           idea_generation_stub, screening_stub, experiment_matrix_stub, claim_ledger_stub,
           manuscript_drafting_stub
  <2>2. ASSUME NEW k \in 1 .. 8 PROVE Reads(k) \cup {Artifacts[k]} \subseteq After(Chain[k])
    <3>1. Artifacts[k] = Chain[k].artifact /\ Artifacts[k] # "none"
      BY ArtifactIsFile DEF Artifacts, Positions
    <3> QED BY <3>1 DEF After, Reads
  <2>3. ASSUME NEW k \in 1 .. 8 PROVE Reads(k + 1) = After(Chain[k])
    BY <2>1
  <2> QED BY <2>2, <2>3
<1> HIDE DEF Onward
<1> QED
  BY <1>1, Names DEF Onward

(* A skill that finds its inputs reads what the skills before it cite.        *)
LEMMA InputsAreSound ==
  ASSUME CitesInv, NEW i \in Positions, Ready(i), NEW j \in Positions, j < i
  PROVE  Cites(Artifacts[j], disk[Artifacts[j]]) \subseteq ever
<1>1. Artifacts[j] \in Files
  BY ArtifactIsFile
<1>2. Artifacts[j] \in Reads(i)
  BY ReadsWhatIsBefore
<1> QED BY <1>1, <1>2 DEF Ready, CitesInv, NothingInvented
-----------------------------------------------------------------------------
(* What each skill makes cites only what it was given.                        *)

LEMMA RankingsSound ==
  ASSUME NEW d, NEW E, Cards(d) \subseteq E, NEW r \in Rankings(d)
  PROVE  r.artifact.ranked \cup r.artifact.selected \subseteq E
BY DEF Rankings

LEMMA BaseSound ==
  ASSUME NEW d, NEW E, Cards(d) \subseteq E, Selected(d) \subseteq E
  PROVE  Base(d) \subseteq E
BY DEF Base

LEMMA LandscapesSound ==
  ASSUME NEW d, NEW E, Cards(d) \subseteq E, Selected(d) \subseteq E, NEW r \in Landscapes(d)
  PROVE  r.artifact.evidence \subseteq E
BY BaseSound DEF Landscapes

(* The gaps of every kind are on the selection or on a card of the landscape. *)
LEMMA GapMapsSound ==
  ASSUME NEW d, NEW E, Selected(d) \subseteq E, d["landscape"].evidence \subseteq E,
         NEW r \in GapMaps(d)
  PROVE  r.artifact.evidence \cup UNION {g.evidence : g \in r.artifact.gaps} \subseteq E
<1>1. PICK G \in RoleGaps(d) :
        /\ r.artifact.evidence = Selected(d)
        /\ r.artifact.gaps = G \cup DominantGap(d) \cup SparseGaps(d) \cup AxisGap(d)
  BY DEF GapMaps, GapMap
<1>2. \A g \in G : g.evidence \subseteq E
  BY <1>1 DEF RoleGaps, Gap
<1>3. \A g \in DominantGap(d) : g.evidence \subseteq E
  BY DEF DominantGap, Gap
<1>4. \A g \in SparseGaps(d) : g.evidence \subseteq E
  BY DEF SparseGaps, Gap
<1>5. \A g \in AxisGap(d) : g.evidence \subseteq E
  BY DEF AxisGap, Gap
<1>6. \A g \in r.artifact.gaps : g.evidence \subseteq E
  BY <1>1, <1>2, <1>3, <1>4, <1>5
<1> QED BY <1>1, <1>6

LEMMA IdeaSetsSound ==
  ASSUME NEW d, NEW E, \A g \in d["gaps"].gaps : g.evidence \subseteq E, NEW r \in IdeaSets(d)
  PROVE  IdeaEvidence(r.artifact) \subseteq E
<1>1. PICK G \in SUBSET d["gaps"].gaps : r.artifact = [ideas |-> Ideas(G, d)]
  BY DEF IdeaSets
<1>2. \A x \in r.artifact.ideas : x.evidence \subseteq E
  BY <1>1 DEF Ideas, Idea, Basis
<1> QED BY <1>2 DEF IdeaEvidence

LEMMA ScreeningsSound ==
  ASSUME NEW d, NEW E, IdeaEvidence(d["ideas"]) \subseteq E, NEW r \in Screenings(d)
  PROVE  r.artifact.evidence \subseteq E
<1>1. r.artifact \in Answers(d)
  BY DEF Screenings, Screened
<1>2. r.artifact.evidence \in Some(PacketEvidence(d))
  BY <1>1 DEF Answers
<1> QED BY <1>2 DEF Some, PacketEvidence

(* A ledger cites the cards its literature claims are of, and what the         *)
(* artifacts before it cite.                                                  *)
LEMMA LedgersSound ==
  ASSUME NEW d, NEW E, Cards(d) \cup Ranked(d) \subseteq E, LedgerEvidence(d) \subseteq E,
         \A g \in d["gaps"].gaps : g.evidence \subseteq E,
         NEW r \in Ledgers(d)
  PROVE  r.artifact.evidence \cup UNION {q.evidence : q \in r.artifact.claims} \subseteq E
<1>1. PICK L \in FirstCards(d) :
        /\ r.artifact.evidence = LedgerEvidence(d)
        /\ r.artifact.claims = LiteratureClaims(L) \cup GapClaims(d) \cup ChainClaims(d)
  BY DEF Ledgers, Ledger
<1>2. \A q \in LiteratureClaims(L) : q.evidence \subseteq E
  BY DEF LiteratureClaims, Claim, FirstCards
<1>3. \A q \in GapClaims(d) : q.evidence \subseteq E
  BY DEF GapClaims, Claim
<1>4. \A q \in ChainClaims(d) : q.evidence \subseteq E
  BY DEF ChainClaims, Claim, LedgerEvidence
<1>5. \A q \in r.artifact.claims : q.evidence \subseteq E
  BY <1>1, <1>2, <1>3, <1>4
<1> QED BY <1>1, <1>5

LEMMA DraftsSound ==
  ASSUME NEW d, NEW E, d["ledger"].evidence \subseteq E,
         \A q \in d["ledger"].claims : q.evidence \subseteq E,
         NEW r \in Drafts(d)
  PROVE  r.artifact.evidence \cup UNION {b.evidence : b \in r.artifact.blocks} \subseteq E
<1>1. /\ r.artifact.blocks = Blocks(d)
      /\ r.artifact.evidence = d["ledger"].evidence \cup UNION {b.evidence : b \in Blocks(d)}
  BY DEF Drafts, Draft
<1>2. \A b \in Blocks(d) : b.evidence \subseteq E
  BY DEF Blocks
<1> QED BY <1>1, <1>2

-----------------------------------------------------------------------------
(* What the ids in the file of each position are.                             *)
LEMMA CitesAre ==
  ASSUME NEW c
  PROVE  /\ Cites(Artifacts[1], c) = c
         /\ Cites(Artifacts[2], c) = c.ranked \cup c.selected
         /\ Cites(Artifacts[3], c) = c.evidence
         /\ Cites(Artifacts[4], c) = c.evidence \cup UNION {g.evidence : g \in c.gaps}
         /\ Cites(Artifacts[5], c) = IdeaEvidence(c)
         /\ Cites(Artifacts[6], c) = c.evidence
         /\ Cites(Artifacts[7], c) = c.evidence
         /\ Cites(Artifacts[8], c) = c.evidence \cup UNION {q.evidence : q \in c.claims}
         /\ Cites(Artifacts[9], c) = c.evidence \cup UNION {b.evidence : b \in c.blocks}
BY Names DEF Cites

(* No skill cites what was never enriched.                                    *)
LEMMA ResultsAreSound ==
  ASSUME CitesInv, NEW i \in Positions, i > 1, Ready(i), NEW r \in Results(i, disk)
  PROVE  Cites(Artifacts[i], r.artifact) \subseteq ever
<1> DEFINE In(j) == Cites(Artifacts[j], disk[Artifacts[j]])
<1>1. \A j \in Positions : j < i => In(j) \subseteq ever
  BY InputsAreSound
<1> HIDE DEF In
<1>2. i > 1 => Cards(disk) \subseteq ever
  BY <1>1, Names, CitesAre DEF In, Cards
<1>3. i > 2 => Ranked(disk) \subseteq ever /\ Selected(disk) \subseteq ever
  BY <1>1, Names, CitesAre DEF In, Ranked, Selected
<1>4. i > 3 => disk["landscape"].evidence \subseteq ever
  BY <1>1, Names, CitesAre DEF In
<1>5. i > 4 => disk["gaps"].evidence \subseteq ever /\ \A g \in disk["gaps"].gaps : g.evidence \subseteq ever
  <2>1. i > 4 => In(4) \subseteq ever
    BY <1>1, Names
  <2>2. In(4) = disk["gaps"].evidence \cup UNION {g.evidence : g \in disk["gaps"].gaps}
    BY Names, CitesAre DEF In
  <2> QED BY <2>1, <2>2
<1>6. i > 5 => IdeaEvidence(disk["ideas"]) \subseteq ever
  BY <1>1, Names, CitesAre DEF In
<1>7. i > 6 => disk["screening"].evidence \subseteq ever
  BY <1>1, Names, CitesAre DEF In
<1>8. i > 7 => disk["matrix"].evidence \subseteq ever
  BY <1>1, Names, CitesAre DEF In
<1>9. i > 8 => /\ disk["ledger"].evidence \subseteq ever
               /\ \A q \in disk["ledger"].claims : q.evidence \subseteq ever
  <2>1. i > 8 => In(8) \subseteq ever
    BY <1>1, Names
  <2>2. In(8) = disk["ledger"].evidence \cup UNION {q.evidence : q \in disk["ledger"].claims}
    BY Names, CitesAre DEF In
  <2> QED BY <2>1, <2>2
<1>10. CASE i = 2
  <2>1. r \in Rankings(disk)
    BY <1>10 DEF Results
  <2> QED BY <1>2, <1>10, <2>1, RankingsSound, CitesAre
<1>11. CASE i = 3
  <2>1. r \in Landscapes(disk)
    BY <1>11 DEF Results
  <2> QED BY <1>2, <1>3, <1>11, <2>1, LandscapesSound, CitesAre
<1>12. CASE i = 4
  <2>1. r \in GapMaps(disk)
    BY <1>12 DEF Results
  <2> QED BY <1>3, <1>4, <1>12, <2>1, GapMapsSound, CitesAre
<1>13. CASE i = 5
  <2>1. r \in IdeaSets(disk)
    BY <1>13 DEF Results
  <2> QED BY <1>5, <1>13, <2>1, IdeaSetsSound, CitesAre
<1>14. CASE i = 6
  <2>1. r \in Screenings(disk)
    BY <1>14 DEF Results
  <2> QED BY <1>6, <1>14, <2>1, ScreeningsSound, CitesAre
<1>15. CASE i = 7
  <2>1. r.artifact.evidence = disk["screening"].evidence
    BY <1>15 DEF Results, Matrices, Candidate
  <2> QED BY <1>7, <1>15, <2>1, CitesAre
<1>16. CASE i = 8
  <2>1. r \in Ledgers(disk)
    BY <1>16 DEF Results
  <2>2. LedgerEvidence(disk) \subseteq ever
    BY <1>4, <1>5, <1>6, <1>7, <1>8, <1>16 DEF LedgerEvidence
  <2>3. Cards(disk) \cup Ranked(disk) \subseteq ever
    BY <1>2, <1>3, <1>16
  <2>4. \A g \in disk["gaps"].gaps : g.evidence \subseteq ever
    BY <1>5, <1>16
  <2>5. r.artifact.evidence \cup UNION {q.evidence : q \in r.artifact.claims} \subseteq ever
    BY <2>1, <2>2, <2>3, <2>4, LedgersSound
  <2>6. Cites(Artifacts[8], r.artifact)
          = r.artifact.evidence \cup UNION {q.evidence : q \in r.artifact.claims}
    BY CitesAre
  <2> QED BY <1>16, <2>5, <2>6
<1>17. CASE i = 9
  <2>1. r \in Drafts(disk)
    BY <1>17 DEF Results
  <2>2. /\ disk["ledger"].evidence \subseteq ever
        /\ \A q \in disk["ledger"].claims : q.evidence \subseteq ever
    BY <1>9, <1>17
  <2>3. r.artifact.evidence \cup UNION {b.evidence : b \in r.artifact.blocks} \subseteq ever
    BY <2>1, <2>2, DraftsSound
  <2>4. Cites(Artifacts[9], r.artifact)
          = r.artifact.evidence \cup UNION {b.evidence : b \in r.artifact.blocks}
    BY CitesAre
  <2> QED BY <1>17, <2>3, <2>4
<1> QED BY Names, <1>10, <1>11, <1>12, <1>13, <1>14, <1>15, <1>16, <1>17

-----------------------------------------------------------------------------
(* A file that cites only what was enriched goes over another one.            *)
LEMMA WriteKeeps ==
  ASSUME CitesInv, NEW i \in Positions, NEW a, Cites(Artifacts[i], a) \subseteq ever',
         ever \subseteq ever', disk' = [disk EXCEPT ![Artifacts[i]] = a]
  PROVE  CitesInv'
<1>1. DOMAIN disk' = Files
  BY DEF CitesInv
<1>2. ASSUME NEW f \in Files, OnDisk(f)'
      PROVE  Cites(f, disk'[f]) \subseteq ever'
  <2>1. CASE f = Artifacts[i]
    BY <2>1 DEF CitesInv
  <2>2. CASE f # Artifacts[i]
    BY <1>2, <2>2 DEF CitesInv, NothingInvented, OnDisk
  <2> QED BY <2>1, <2>2
<1> QED BY <1>1, <1>2 DEF CitesInv, NothingInvented

LEMMA DiagnosticsKeep ==
  ASSUME CitesInv, NEW i \in Positions, NEW j \in Positions, NEW a, NEW b,
         Cites(Artifacts[j], a) \subseteq ever', ever' = ever,
         \/ disk' = [disk EXCEPT ![Artifacts[j]] = a, ![Diagnostics[i]] = b]
         \/ disk' = [disk EXCEPT ![Diagnostics[i]] = b]
  PROVE  CitesInv'
<1>1. DOMAIN disk' = Files
  BY DEF CitesInv
<1>2. ASSUME NEW f \in Files, OnDisk(f)'
      PROVE  Cites(f, disk'[f]) \subseteq ever'
  <2>1. CASE f = Diagnostics[i]
    BY <2>1, DiagnosticsCiteNothing
  <2>2. CASE f = Artifacts[j] /\ f # Diagnostics[i] /\ disk'[f] = a
    BY <2>2
  <2>3. CASE f # Diagnostics[i] /\ disk'[f] = disk[f]
    BY <1>2, <2>3 DEF CitesInv, NothingInvented, OnDisk
  <2> QED BY <2>1, <2>2, <2>3 DEF CitesInv
<1> QED BY <1>1, <1>2 DEF CitesInv, NothingInvented

(* A skill that succeeds, or whose process ends after it, keeps the invariant. *)
LEMMA DoneKeeps ==
  ASSUME CitesInv, NEW i \in Positions, Done(i)
  PROVE  CitesInv'
<1>1. CASE i = 1
  <2>1. PICK B \in Batches : Enriched(B)
    BY <1>1 DEF Done
  <2>2. Cites(Artifacts[1], B) \subseteq ever' /\ ever \subseteq ever'
    BY <2>1, CitesAre DEF Enriched
  <2>3. disk' = [disk EXCEPT ![Artifacts[1]] = B]
    BY <2>1, Names DEF Enriched
  <2> QED BY <1>1, <2>2, <2>3, WriteKeeps
<1>2. CASE i # 1
  <2>1. i > 1
    BY <1>2, Names
  <2>2. PICK r \in Results(i, disk) : Built(i, r)
    BY <1>2 DEF Done
  <2>3. Cites(Artifacts[i], r.artifact) \subseteq ever /\ ever' = ever
    BY <2>1, <2>2, ResultsAreSound DEF Done, Built
  <2>4. disk' = [disk EXCEPT ![Artifacts[i]] = r.artifact, ![Diagnostics[i]] = r.diagnostics]
    BY <2>2 DEF Built
  <2> QED BY <2>3, <2>4, DiagnosticsKeep
<1> QED BY <1>1, <1>2

LEMMA EndsKeeps == ASSUME CitesInv, NEW s, Ends(s) PROVE CitesInv'
BY DEF Ends, CitesInv, NothingInvented, OnDisk

LEMMA CalledArePositions == Called \subseteq Positions
<1>1. ASSUME NEW q \in Decisions, Calls(q) PROVE q.skill \in Positions
  BY <1>1 DEF Decisions, Calls, Accepted, Granted, Positions
<1> QED BY <1>1 DEF Called

LEMMA CallKeeps == ASSUME CitesInv, NEW i \in Called, Call(i) PROVE CitesInv'
<1> i \in Positions
  BY CalledArePositions
<1>1. CASE skill_refuses(i)
  <2>1. ever' = ever /\ (disk' = disk \/ disk' = [disk EXCEPT ![Diagnostics[i]] = "written"])
    BY <1>1 DEF skill_refuses
  <2>2. CASE disk' = disk
    BY <2>1, <2>2 DEF CitesInv, NothingInvented, OnDisk
  <2>3. CASE disk' = [disk EXCEPT ![Diagnostics[i]] = "written"]
    <3>1. Cites(Artifacts[1], {}) \subseteq ever' /\ 1 \in Positions
      BY CitesAre, Names
    <3> QED BY <2>1, <2>3, <3>1, DiagnosticsKeep
  <2> QED BY <2>1, <2>2, <2>3
<1>2. CASE skill_succeeds(i)
  BY <1>2, DoneKeeps DEF skill_succeeds
<1>3. CASE stops_between(i)
  <2>1. PICK r \in Results(i, disk) : disk' = [disk EXCEPT ![Artifacts[i]] = r.artifact]
    BY <1>3 DEF stops_between
  <2>2. Cites(Artifacts[i], r.artifact) \subseteq ever /\ ever' = ever
    BY <1>3, <2>1, ResultsAreSound DEF stops_between
  <2> QED BY <2>1, <2>2, WriteKeeps
<1>4. CASE dies(i)
  BY <1>4, DoneKeeps DEF dies
<1> QED BY <1>1, <1>2, <1>3, <1>4 DEF Call

(* Whatever the agent asks for, in whatever order, and wherever a round stops: *)
(* no gap, idea, claim or block of a draft cites evidence that was never among *)
(* the enriched cards.                                                        *)
THEOREM EvidenceIsTraceable == Spec => []NothingInvented
<1>1. Init => CitesInv
  BY DEF Init, CitesInv, NothingInvented, OnDisk
<1>2. ASSUME CitesInv, [Next]_vars PROVE CitesInv'
  <2>1. CASE decide
    BY <1>2, <2>1, EndsKeeps DEF decide
  <2>2. CASE skill_blocked \/ skill_fails \/ budget_exceeded
    BY <1>2, <2>2, EndsKeeps DEF skill_blocked, skill_fails, budget_exceeded
  <2>3. CASE \E i \in Called : Call(i)
    BY <1>2, <2>3, CallKeeps
  <2>4. CASE UNCHANGED vars
    BY <1>2, <2>4 DEF vars, CitesInv, NothingInvented, OnDisk
  <2> QED BY <1>2, <2>1, <2>2, <2>3, <2>4 DEF Next, run_once
<1>3. CitesInv => NothingInvented
  BY DEF CitesInv
<1> QED BY <1>1, <1>2, <1>3, PTL DEF Spec

-----------------------------------------------------------------------------
(* A draft that is made says no more than the literature may.                 *)
LEMMA DraftsArePlain ==
  ASSUME NEW d, NEW r \in Drafts(d), NEW b \in r.artifact.blocks,
         b.type = "literature_observation", NEW e \in b.evidence
  PROVE  Wording[e] = "plain"
<1>1. b \in d["ledger"].claims /\ ~Final(d)
  BY DEF Drafts, Draft, Blocks
<1> QED BY <1>1 DEF Final

(* A call leaves the draft as it is or puts another one in its place.         *)
LEMMA DraftIsReplacedWhole ==
  ASSUME DOMAIN disk = Files, NEW i \in Positions, Call(i)
  PROVE  /\ DOMAIN disk' = Files
         /\ disk'["draft"] = disk["draft"] \/ \E r \in Drafts(disk) : disk'["draft"] = r.artifact
<1>1. /\ "draft" \in Files /\ Artifacts[9] = "draft" /\ 9 \in Positions
  BY Names, ArtifactIsFile
<1>2. Diagnostics[i] # "draft" /\ (i # 9 => Artifacts[i] # "draft")
  BY Names, DiagnosticNames
<1>3. CASE UNCHANGED disk
  BY <1>3
<1>4. CASE disk' = [disk EXCEPT ![Diagnostics[i]] = "written"]
  BY <1>1, <1>2, <1>4
<1>5. CASE \E B \in Batches : disk' = [disk EXCEPT !["enriched"] = B]
  BY <1>1, <1>5
<1>6. ASSUME i # 1,
             \E r \in Results(i, disk) :
               \/ disk' = [disk EXCEPT ![Artifacts[i]] = r.artifact, ![Diagnostics[i]] = r.diagnostics]
               \/ disk' = [disk EXCEPT ![Artifacts[i]] = r.artifact]
      PROVE  /\ DOMAIN disk' = Files
             /\ disk'["draft"] = disk["draft"] \/ \E r \in Drafts(disk) : disk'["draft"] = r.artifact
  <2>1. PICK r \in Results(i, disk) :
               \/ disk' = [disk EXCEPT ![Artifacts[i]] = r.artifact, ![Diagnostics[i]] = r.diagnostics]
               \/ disk' = [disk EXCEPT ![Artifacts[i]] = r.artifact]
    BY <1>6
  <2>2. DOMAIN disk' = Files
    BY <2>1
  <2>3. CASE i = 9
    <3>1. r \in Drafts(disk)
      BY <2>3 DEF Results
    <3>2. disk'["draft"] = r.artifact
      BY <1>1, <1>2, <2>1, <2>3
    <3> QED BY <2>2, <3>1, <3>2
  <2>4. CASE i # 9
    BY <1>1, <1>2, <2>1, <2>2, <2>4
  <2> QED BY <2>3, <2>4
<1>7. CASE Done(i)
  <2>1. CASE i = 1
    BY <1>5, <1>7, <2>1 DEF Done, Enriched
  <2>2. CASE i # 1
    BY <1>6, <1>7, <2>2 DEF Done, Built
  <2> QED BY <2>1, <2>2
<1>8. CASE stops_between(i)
  <2>1. i # 1
    BY <1>8 DEF stops_between
  <2>2. \E r \in Results(i, disk) : disk' = [disk EXCEPT ![Artifacts[i]] = r.artifact]
    BY <1>8 DEF stops_between
  <2> QED BY <1>6, <2>1, <2>2
<1>9. CASE skill_refuses(i)
  BY <1>3, <1>4, <1>9 DEF skill_refuses
<1> QED BY <1>7, <1>8, <1>9 DEF Call, skill_succeeds, dies

(* Whatever the ledger let through, and however files were mixed: no draft    *)
(* repeats a statement that claims more than the literature may.              *)
THEOREM DraftsClaimNoMore == Spec => []NoOverclaimDrafted
<1> DEFINE Inv == DOMAIN disk = Files /\ NoOverclaimDrafted
<1>1. Init => Inv
  <2>1. "draft" \in Files
    BY Names, ArtifactIsFile
  <2> QED BY <2>1 DEF Init, NoOverclaimDrafted, OnDisk
<1>2. ASSUME Inv, [Next]_vars PROVE Inv'
  <2>1. CASE UNCHANGED disk
    BY <1>2, <2>1 DEF NoOverclaimDrafted, OnDisk
  <2>2. CASE \E i \in Called : Call(i)
    <3>1. PICK i \in Positions : Call(i)
      BY <2>2, CalledArePositions
    <3>2. DOMAIN disk' = Files
      BY <1>2, <3>1, DraftIsReplacedWhole
    <3>3. CASE disk'["draft"] = disk["draft"]
      BY <1>2, <3>2, <3>3 DEF NoOverclaimDrafted, OnDisk
    <3>4. CASE \E r \in Drafts(disk) : disk'["draft"] = r.artifact
      BY <3>2, <3>4, DraftsArePlain DEF NoOverclaimDrafted
    <3> QED BY <1>2, <3>1, <3>3, <3>4, DraftIsReplacedWhole
  <2>3. CASE decide \/ skill_blocked \/ skill_fails \/ budget_exceeded \/ UNCHANGED vars
    BY <2>1, <2>3 DEF decide, skill_blocked, skill_fails, budget_exceeded, Ends, vars
  <2> QED BY <1>2, <2>2, <2>3 DEF Next, run_once
<1>3. Inv => NoOverclaimDrafted
  OBVIOUS
<1> QED BY <1>1, <1>2, <1>3, PTL DEF Spec

-----------------------------------------------------------------------------
(* What a skill makes holds what its files should, on inputs that do.        *)

LEMMA DiagnosticsAre ==
  /\ Diagnostics[1] = "none" /\ Diagnostics[2] = "coverage" /\ Diagnostics[3] = "landscape_diag"
  /\ Diagnostics[4] = "gaps_diag" /\ Diagnostics[5] = "ideas_diag"
  /\ Diagnostics[6] = "screening_diag" /\ Diagnostics[7] = "matrix_diag"
  /\ Diagnostics[8] = "ledger_diag" /\ Diagnostics[9] = "draft_diag"
BY Names DEF Diagnostics, Chain, Contract, enrich_evidence_cards, rank_evidence,
      landscape_stub, gap_mapping_stub, idea_generation_stub, screening_stub,
      experiment_matrix_stub, claim_ledger_stub, manuscript_drafting_stub

(* Diagnostics nobody reads.                                                   *)
Written == {"gaps_diag", "ideas_diag", "screening_diag", "matrix_diag", "ledger_diag", "draft_diag"}

LEMMA ContentsAre ==
  /\ Contents("enriched") = SUBSET Evidence
  /\ Contents("selection") = [ranked : SUBSET Evidence, selected : SUBSET Evidence]
  /\ Contents("coverage") = Coverages /\ Contents("landscape_diag") = Coverages
  /\ Contents("landscape")
       = [evidence : SUBSET Evidence, missing : SUBSET RequiredRoles, dominant : BOOLEAN]
  /\ Contents("gaps") = [evidence : Cited, gaps : SUBSET Gaps]
  /\ Contents("ideas") = [ideas : (SUBSET [gap : GapIds, evidence : Cited]) \ {{}}]
  /\ Contents("screening") = [idea : GapIds, evidence : Cited, triaged : {Triages}]
  /\ Contents("matrix") = [idea : GapIds, evidence : Cited]
  /\ Contents("ledger") = {c \in [evidence : Cited, claims : SUBSET Claims] : Claiming(c)}
  /\ Contents("draft") = [evidence : Cited, blocks : (SUBSET Claims) \ {{}}]
  /\ \A f \in Written : Contents(f) = {"written"}
<1>1. Contents("enriched") = SUBSET Evidence
  BY DEF Contents
<1>2. Contents("selection") = [ranked : SUBSET Evidence, selected : SUBSET Evidence]
  BY DEF Contents
<1>3. Contents("coverage") = Coverages /\ Contents("landscape_diag") = Coverages
  BY DEF Contents
<1>4. Contents("landscape")
       = [evidence : SUBSET Evidence, missing : SUBSET RequiredRoles, dominant : BOOLEAN]
  BY DEF Contents
<1>5. Contents("gaps") = [evidence : Cited, gaps : SUBSET Gaps]
  BY DEF Contents
<1>6. Contents("ideas") = [ideas : (SUBSET [gap : GapIds, evidence : Cited]) \ {{}}]
  BY DEF Contents
<1>7. Contents("screening") = [idea : GapIds, evidence : Cited, triaged : {Triages}]
  BY DEF Contents
<1>8. Contents("matrix") = [idea : GapIds, evidence : Cited]
  BY DEF Contents
<1>9. Contents("ledger") = {c \in [evidence : Cited, claims : SUBSET Claims] : Claiming(c)}
  BY DEF Contents
<1>10. Contents("draft") = [evidence : Cited, blocks : (SUBSET Claims) \ {{}}]
  BY DEF Contents
<1>11. \A f \in Written : Contents(f) = {"written"}
  BY DEF Contents, Written
<1> QED BY <1>1, <1>2, <1>3, <1>4, <1>5, <1>6, <1>7, <1>8, <1>9, <1>10, <1>11

LEMMA RankingsTyped ==
  ASSUME NEW d, Cards(d) \subseteq Evidence, NEW r \in Rankings(d)
  PROVE  r.artifact \in Contents("selection") /\ r.diagnostics \in Contents("coverage")
<1>1. PICK S \in SUBSET Cards(d) :
        r = [artifact |-> [ranked |-> Cards(d), selected |-> S],
             diagnostics |-> [missing |-> Missed(S), dominant |-> Dominant(S)]]
  BY DEF Rankings
<1>2. Missed(S) \subseteq RequiredRoles
  BY DEF Missed
<1>3. Dominant(S) \in BOOLEAN
  BY DEF Dominant
<1> QED BY <1>1, <1>2, <1>3, ContentsAre DEF Coverages

LEMMA LandscapesTyped ==
  ASSUME NEW d, Cards(d) \subseteq Evidence, Selected(d) \subseteq Evidence,
         d["coverage"] \in Contents("coverage"), NEW r \in Landscapes(d)
  PROVE  r.artifact \in Contents("landscape") /\ r.diagnostics \in Contents("landscape_diag")
<1> DEFINE c == [missing |-> d["coverage"].missing,
                 dominant |-> d["coverage"].dominant \/ Dominant(Selected(d))]
<1>1. r = [artifact |-> [evidence |-> Base(d), missing |-> c.missing, dominant |-> c.dominant],
           diagnostics |-> c]
  BY DEF Landscapes
<1>2. Base(d) \subseteq Evidence
  BY BaseSound
<1>3. c \in Coverages
  <2>1. d["coverage"] \in Coverages
    BY ContentsAre
  <2>2. d["coverage"].missing \subseteq RequiredRoles /\ c.dominant \in BOOLEAN
    BY <2>1 DEF Coverages
  <2> QED BY <2>2 DEF Coverages
<1> HIDE DEF c
<1> QED BY <1>1, <1>2, <1>3, ContentsAre DEF Coverages

LEMMA GapIdsAre ==
  /\ "missing_role" \in GapIds /\ "dominant_source" \in GapIds /\ "limited_axis" \in GapIds
  /\ \A e \in Evidence : ClusterOf[e] \in GapIds
  /\ "" \notin GapIds
BY SkillConstants DEF GapIds

LEMMA GapTyped ==
  ASSUME NEW id \in GapIds, NEW role \in RequiredRoles \cup {"none"}, NEW S \in Cited
  PROVE  Gap(id, role, S) \in Gaps
BY DEF Gap, Gaps

LEMMA GapMapsTyped ==
  ASSUME NEW d, Selected(d) \subseteq Evidence, d["landscape"].evidence \subseteq Evidence,
         d["landscape"].missing \subseteq RequiredRoles,
         d["landscape_diag"].missing \subseteq RequiredRoles,
         d["coverage"].missing \subseteq RequiredRoles, NEW r \in GapMaps(d)
  PROVE  r.artifact \in Contents("gaps") /\ r.diagnostics \in Contents("gaps_diag")
<1>1. PICK G \in RoleGaps(d) :
        /\ Selected(d) # {} /\ r = [artifact |-> GapMap(G, d), diagnostics |-> "written"]
  BY DEF GapMaps
<1>2. Selected(d) \in Cited
  BY <1>1 DEF Cited
<1>3. FirstMissing(d) \subseteq RequiredRoles
  BY DEF FirstMissing
<1>4. G \subseteq Gaps
  <2>1. \A g \in G : \E x \in FirstMissing(d) : g = Gap("missing_role", x, Selected(d))
    BY <1>1 DEF RoleGaps
  <2> QED BY <1>2, <1>3, <2>1, GapIdsAre, GapTyped
<1>5. DominantGap(d) \subseteq Gaps
  BY <1>2, GapIdsAre, GapTyped DEF DominantGap
<1>6. SparseGaps(d) \subseteq Gaps
  <2>1. \A e \in Evidence : {e} \in Cited /\ ClusterOf[e] \in GapIds
    BY GapIdsAre DEF Cited
  <2>2. \A g \in SparseGaps(d) : \E e \in Evidence : g = Gap(ClusterOf[e], "none", {e})
    BY DEF SparseGaps
  <2>3. \A e \in Evidence : Gap(ClusterOf[e], "none", {e}) \in Gaps
    BY <2>1, GapTyped
  <2> QED BY <2>2, <2>3
<1>7. AxisGap(d) \subseteq Gaps
  BY <1>2, GapIdsAre, GapTyped DEF AxisGap
<1>8. r.artifact \in Contents("gaps")
  BY <1>1, <1>2, <1>4, <1>5, <1>6, <1>7, ContentsAre DEF GapMap
<1> QED BY <1>1, <1>8, ContentsAre DEF Written

LEMMA IdeaSetsTyped ==
  ASSUME NEW d, d["gaps"].gaps \subseteq Gaps, NEW r \in IdeaSets(d)
  PROVE  r.artifact \in Contents("ideas") /\ r.diagnostics \in Contents("ideas_diag")
<1>1. PICK G \in SUBSET d["gaps"].gaps :
        Ideas(G, d) # {} /\ r = [artifact |-> [ideas |-> Ideas(G, d)], diagnostics |-> "written"]
  BY DEF IdeaSets
<1>2. \A i \in Ideas(G, d) : i \in [gap : GapIds, evidence : Cited]
  BY <1>1 DEF Ideas, Idea, Basis, Gaps, Cited
<1>3. [ideas |-> Ideas(G, d)] \in [ideas : (SUBSET [gap : GapIds, evidence : Cited]) \ {{}}]
  BY <1>1, <1>2
<1> QED BY <1>1, <1>3, ContentsAre DEF Written

LEMMA ScreeningsTyped ==
  ASSUME NEW d, d["ideas"] \in Contents("ideas"), NEW r \in Screenings(d)
  PROVE  r.artifact \in Contents("screening") /\ r.diagnostics \in Contents("screening_diag")
<1>1. PICK a \in Answers(d) : r = [artifact |-> a, diagnostics |-> "written"]
  BY DEF Screenings, Screened
<1>2. a \in [idea : {i.gap : i \in d["ideas"].ideas}, evidence : Some(PacketEvidence(d)),
              triaged : {Triages}]
  BY <1>1 DEF Answers
<1> \A i \in d["ideas"].ideas : i \in [gap : GapIds, evidence : Cited]
  <2>1. d["ideas"] \in [ideas : (SUBSET [gap : GapIds, evidence : Cited]) \ {{}}]
    BY ContentsAre
  <2> QED BY <2>1
<1>3. {i.gap : i \in d["ideas"].ideas} \subseteq GapIds
  OBVIOUS
<1>4. PacketEvidence(d) \subseteq Evidence
  BY DEF PacketEvidence, IdeaEvidence, Cited
<1>5. Some(PacketEvidence(d)) \subseteq Cited
  BY <1>4 DEF Some, Cited
<1>6. a \in [idea : GapIds, evidence : Cited, triaged : {Triages}]
  BY <1>2, <1>3, <1>5
<1> QED BY <1>1, <1>6, ContentsAre DEF Written

LEMMA MatricesTyped ==
  ASSUME NEW d, d["screening"] \in Contents("screening"), NEW r \in Matrices(d)
  PROVE  r.artifact \in Contents("matrix") /\ r.diagnostics \in Contents("matrix_diag")
<1>1. d["screening"] \in [idea : GapIds, evidence : Cited, triaged : {Triages}]
  BY ContentsAre
<1>2. Candidate(d["screening"]) \in [idea : GapIds, evidence : Cited]
  BY <1>1 DEF Candidate
<1>3. r = [artifact |-> Candidate(d["screening"]), diagnostics |-> "written"]
  BY DEF Matrices
<1>4. r.artifact \in Contents("matrix")
  BY <1>2, <1>3, ContentsAre
<1> QED BY <1>3, <1>4, ContentsAre DEF Written

LEMMA LedgersTyped ==
  ASSUME NEW d, Cards(d) \subseteq Evidence, Ranked(d) \subseteq Evidence,
         d["landscape"].evidence \subseteq Evidence, d["gaps"] \in Contents("gaps"),
         d["ideas"] \in Contents("ideas"), d["screening"] \in Contents("screening"),
         d["matrix"] \in Contents("matrix"), NEW r \in Ledgers(d)
  PROVE  r.artifact \in Contents("ledger") /\ r.diagnostics \in Contents("ledger_diag")
<1>1. PICK L \in FirstCards(d) : r = [artifact |-> Ledger(L, d), diagnostics |-> "written"]
  BY DEF Ledgers
<1>2. L \subseteq Evidence
  BY <1>1 DEF FirstCards
<1>3. LiteratureClaims(L) \subseteq Claims
  BY <1>2 DEF LiteratureClaims, Claim, Claims, ClaimTypes
<1>4. GapClaims(d) \subseteq Claims
  <2>1. d["gaps"] \in [evidence : Cited, gaps : SUBSET Gaps]
    BY ContentsAre
  <2>2. \A g \in d["gaps"].gaps : g.id \in GapIds /\ g.evidence \in Cited
    BY <2>1 DEF Gaps
  <2> QED BY <2>2 DEF GapClaims, Claim, Claims, ClaimTypes, Cited
<1>5. d["matrix"].evidence \in Cited /\ d["screening"].evidence \in Cited
  <2>1. d["matrix"] \in [idea : GapIds, evidence : Cited]
    BY ContentsAre
  <2>2. d["screening"] \in [idea : GapIds, evidence : Cited, triaged : {Triages}]
    BY ContentsAre
  <2> QED BY <2>1, <2>2
<1>6. ChainClaims(d) \subseteq Claims
  BY <1>5 DEF ChainClaims, Claim, Claims, ClaimTypes, Cited
<1>7. LedgerEvidence(d) \in Cited
  <2>1. d["ideas"] \in [ideas : (SUBSET [gap : GapIds, evidence : Cited]) \ {{}}]
    BY ContentsAre
  <2>2. d["gaps"] \in [evidence : Cited, gaps : SUBSET Gaps]
    BY ContentsAre
  <2>3. IdeaEvidence(d["ideas"]) \subseteq Evidence
    BY <2>1 DEF IdeaEvidence, Cited
  <2>4. d["gaps"].evidence \subseteq Evidence
    BY <2>2 DEF Cited
  <2> QED BY <1>5, <2>3, <2>4 DEF LedgerEvidence, Cited
<1>8. Claim("candidate_hypothesis", {}, d["matrix"].evidence) \in ChainClaims(d)
  BY DEF ChainClaims
<1>9. r.artifact \in [evidence : Cited, claims : SUBSET Claims] /\ Claiming(r.artifact)
  <2>1. r.artifact \in [evidence : Cited, claims : SUBSET Claims]
    BY <1>1, <1>3, <1>4, <1>6, <1>7 DEF Ledger
  <2>2. Claim("candidate_hypothesis", {}, d["matrix"].evidence) \in r.artifact.claims
    BY <1>1, <1>8 DEF Ledger
  <2>3. Claim("candidate_hypothesis", {}, d["matrix"].evidence).type # "limitation_statement"
    BY DEF Claim
  <2> QED BY <2>1, <2>2, <2>3 DEF Claiming
<1> QED BY <1>1, <1>9, ContentsAre DEF Written

LEMMA DraftsTyped ==
  ASSUME NEW d, d["ledger"] \in Contents("ledger"), NEW r \in Drafts(d)
  PROVE  r.artifact \in Contents("draft") /\ r.diagnostics \in Contents("draft_diag")
<1>1. r = [artifact |-> Draft(Blocks(d), d), diagnostics |-> "written"]
  BY DEF Drafts
<1>2. d["ledger"] \in [evidence : Cited, claims : SUBSET Claims] /\ Claiming(d["ledger"])
  BY ContentsAre
<1>3. Blocks(d) \subseteq Claims
  BY <1>2 DEF Blocks
<1>4. Blocks(d) # {}
  BY <1>2 DEF Blocks, Claiming, Claims
<1>5. d["ledger"].evidence \cup UNION {b.evidence : b \in Blocks(d)} \in Cited
  BY <1>2, <1>3 DEF Claims, Cited
<1>6. Draft(Blocks(d), d) \in [evidence : Cited, blocks : (SUBSET Claims) \ {{}}]
  BY <1>3, <1>4, <1>5 DEF Draft
<1> QED BY <1>1, <1>6, ContentsAre DEF Written

-----------------------------------------------------------------------------
(* The files before a position of the chain.                                 *)

(* The files of the positions before one of the chain hold what they should.  *)
Filled(i, d) ==
    \A j \in Positions : j < i =>
      /\ d[Artifacts[j]] \in Contents(Artifacts[j])
      /\ j > 1 => d[Diagnostics[j]] \in Contents(Diagnostics[j])

LEMMA DiagnosticsFile ==
  ASSUME NEW i \in Positions, i > 1
  PROVE  Diagnostics[i] \in Files /\ Diagnostics[i] # "none" /\ Diagnostics[i] # "enriched"
<1>1. Diagnostics[i] # "none" /\ Diagnostics[i] # "enriched"
  BY Names, DiagnosticsAre
<1> QED BY <1>1 DEF Files, Writes

LEMMA ReadsDiagnostics ==
  ASSUME NEW i \in Positions, NEW j \in Positions, 1 < j, j < i
  PROVE  Diagnostics[j] \in Reads(i)
<1> DEFINE Onward(k) == Reads(k) \cup {Diagnostics[k]} \subseteq Reads(k + 1)
<1>1. \A k \in 2 .. 8 : Onward(k)
  <2>1. /\ Reads(3) = After(Chain[2]) /\ Reads(4) = After(Chain[3])
        /\ Reads(5) = After(Chain[4]) /\ Reads(6) = After(Chain[5]) /\ Reads(7) = After(Chain[6])
        /\ Reads(8) = After(Chain[7]) /\ Reads(9) = After(Chain[8])
    BY DEF Reads, Chain, Contract, rank_evidence, landscape_stub, gap_mapping_stub,
           idea_generation_stub, screening_stub, experiment_matrix_stub, claim_ledger_stub,
           manuscript_drafting_stub
  <2>2. ASSUME NEW k \in 2 .. 8 PROVE Reads(k) \cup {Diagnostics[k]} \subseteq After(Chain[k])
    <3>1. Diagnostics[k] = Chain[k].diagnostics /\ Diagnostics[k] # "none"
      BY DiagnosticsFile DEF Diagnostics, Positions
    <3> QED BY <3>1 DEF After, Reads
  <2>3. ASSUME NEW k \in 2 .. 8 PROVE Reads(k + 1) = After(Chain[k])
    BY <2>1
  <2> QED BY <2>2, <2>3
<1> HIDE DEF Onward
<1> QED
  BY <1>1, Names DEF Onward

LEMMA ReadyIsFilled ==
  ASSUME TypeOK, NEW i \in Positions, Ready(i)
  PROVE  Filled(i, disk)
<1>1. ASSUME NEW j \in Positions, j < i PROVE disk[Artifacts[j]] \in Contents(Artifacts[j])
  BY <1>1, ArtifactIsFile, ReadsWhatIsBefore DEF Ready, TypeOK
<1>2. ASSUME NEW j \in Positions, j < i, j > 1
      PROVE  disk[Diagnostics[j]] \in Contents(Diagnostics[j])
  BY <1>2, DiagnosticsFile, ReadsDiagnostics DEF Ready, TypeOK
<1> QED BY <1>1, <1>2 DEF Filled

(* What that says of each file.                                               *)
LEMMA FilledMeans ==
  ASSUME NEW i \in Positions, NEW d, Filled(i, d)
  PROVE  /\ i > 1 => Cards(d) \subseteq Evidence
         /\ i > 2 => d["selection"].ranked \subseteq Evidence /\ Selected(d) \subseteq Evidence
         /\ i > 2 => d["coverage"] \in Contents("coverage")
         /\ i > 2 => d["coverage"].missing \subseteq RequiredRoles
         /\ i > 3 => /\ d["landscape"].evidence \subseteq Evidence
                     /\ d["landscape"].missing \subseteq RequiredRoles
                     /\ d["landscape_diag"].missing \subseteq RequiredRoles
         /\ i > 4 => d["gaps"] \in Contents("gaps") /\ d["gaps"].gaps \subseteq Gaps
         /\ i > 5 => d["ideas"] \in Contents("ideas")
         /\ i > 6 => d["screening"] \in Contents("screening")
         /\ i > 7 => d["matrix"] \in Contents("matrix")
         /\ i > 8 => d["ledger"] \in Contents("ledger")
<1>1. /\ i > 1 => d["enriched"] \in Contents("enriched")
      /\ i > 2 => d["selection"] \in Contents("selection") /\ d["coverage"] \in Contents("coverage")
      /\ i > 3 => /\ d["landscape"] \in Contents("landscape")
                  /\ d["landscape_diag"] \in Contents("landscape_diag")
      /\ i > 4 => d["gaps"] \in Contents("gaps")
      /\ i > 5 => d["ideas"] \in Contents("ideas")
      /\ i > 6 => d["screening"] \in Contents("screening")
      /\ i > 7 => d["matrix"] \in Contents("matrix")
      /\ i > 8 => d["ledger"] \in Contents("ledger")
  BY Names, DiagnosticsAre DEF Filled
<1>2. i > 1 => Cards(d) \subseteq Evidence
  BY <1>1, ContentsAre DEF Cards
<1>3. i > 2 => d["selection"].ranked \subseteq Evidence /\ Selected(d) \subseteq Evidence
  <2>1. i > 2 => d["selection"] \in [ranked : SUBSET Evidence, selected : SUBSET Evidence]
    BY <1>1, ContentsAre
  <2> QED BY <2>1 DEF Selected
<1>4. ASSUME NEW c \in Coverages PROVE c.missing \subseteq RequiredRoles
  BY DEF Coverages
<1>5. i > 2 => d["coverage"].missing \subseteq RequiredRoles
  BY <1>1, <1>4, ContentsAre
<1>6. i > 3 => d["landscape_diag"].missing \subseteq RequiredRoles
  BY <1>1, <1>4, ContentsAre
<1>7. i > 3 => /\ d["landscape"].evidence \subseteq Evidence
               /\ d["landscape"].missing \subseteq RequiredRoles
  <2>1. i > 3 => d["landscape"] \in [evidence : SUBSET Evidence, missing : SUBSET RequiredRoles,
                                     dominant : BOOLEAN]
    BY <1>1, ContentsAre
  <2> QED BY <2>1
<1>8. i > 4 => d["gaps"].gaps \subseteq Gaps
  <2>1. i > 4 => d["gaps"] \in [evidence : Cited, gaps : SUBSET Gaps]
    BY <1>1, ContentsAre
  <2> QED BY <2>1
<1> QED BY <1>1, <1>2, <1>3, <1>5, <1>6, <1>7, <1>8

LEMMA ResultsTyped ==
  ASSUME NEW i \in Positions, i > 1, NEW d, Filled(i, d), NEW r \in Results(i, d)
  PROVE  /\ r.artifact \in Contents(Artifacts[i])
         /\ r.diagnostics \in Contents(Diagnostics[i])
<1>1. CASE i = 2
  <2>1. r \in Rankings(d) /\ Cards(d) \subseteq Evidence
    BY <1>1, FilledMeans DEF Results
  <2> QED BY <1>1, <2>1, RankingsTyped, Names, DiagnosticsAre
<1>2. CASE i = 3
  <2>1. /\ r \in Landscapes(d) /\ Cards(d) \subseteq Evidence /\ Selected(d) \subseteq Evidence
        /\ d["coverage"] \in Contents("coverage")
    BY <1>2, FilledMeans DEF Results
  <2> QED BY <1>2, <2>1, LandscapesTyped, Names, DiagnosticsAre
<1>3. CASE i = 4
  <2>1. /\ r \in GapMaps(d) /\ Selected(d) \subseteq Evidence
        /\ d["landscape"].evidence \subseteq Evidence /\ d["landscape"].missing \subseteq RequiredRoles
        /\ d["landscape_diag"].missing \subseteq RequiredRoles
        /\ d["coverage"].missing \subseteq RequiredRoles
    BY <1>3, FilledMeans DEF Results
  <2> QED BY <1>3, <2>1, GapMapsTyped, Names, DiagnosticsAre
<1>4. CASE i = 5
  <2>1. r \in IdeaSets(d) /\ d["gaps"].gaps \subseteq Gaps
    BY <1>4, FilledMeans DEF Results
  <2> QED BY <1>4, <2>1, IdeaSetsTyped, Names, DiagnosticsAre
<1>5. CASE i = 6
  <2>1. r \in Screenings(d) /\ d["ideas"] \in Contents("ideas")
    BY <1>5, FilledMeans DEF Results
  <2> QED BY <1>5, <2>1, ScreeningsTyped, Names, DiagnosticsAre
<1>6. CASE i = 7
  <2>1. r \in Matrices(d) /\ d["screening"] \in Contents("screening")
    BY <1>6, FilledMeans DEF Results
  <2> QED BY <1>6, <2>1, MatricesTyped, Names, DiagnosticsAre
<1>7. CASE i = 8
  <2>1. /\ r \in Ledgers(d) /\ Cards(d) \subseteq Evidence /\ Ranked(d) \subseteq Evidence
        /\ d["landscape"].evidence \subseteq Evidence /\ d["gaps"] \in Contents("gaps")
        /\ d["ideas"] \in Contents("ideas") /\ d["screening"] \in Contents("screening")
        /\ d["matrix"] \in Contents("matrix")
    BY <1>7, FilledMeans DEF Results, Ranked
  <2> QED BY <1>7, <2>1, LedgersTyped, Names, DiagnosticsAre
<1>8. CASE i = 9
  <2>1. r \in Drafts(d) /\ d["ledger"] \in Contents("ledger")
    BY <1>8, FilledMeans DEF Results
  <2> QED BY <1>8, <2>1, DraftsTyped, Names, DiagnosticsAre
<1> QED BY Names, <1>1, <1>2, <1>3, <1>4, <1>5, <1>6, <1>7, <1>8

-----------------------------------------------------------------------------
(* One call keeps the files whole and the manifest true.                     *)

(* A file that holds what it should is there.                                 *)
LEMMA HeldIsThere ==
  ASSUME NEW f \in Files, NEW c \in Contents(f)
  PROVE  c # Missing
<1>1. CASE f = "enriched"
  BY <1>1, ContentsAre, MissingIsNoContents
<1>2. CASE f # "enriched"
  BY <1>2, MissingIsNoContents
<1> QED BY <1>1, <1>2

LEMMA FilesAre ==
  /\ Writes(1) = {Artifacts[1]}
  /\ \A i \in Positions : i > 1 => Writes(i) = {Artifacts[i], Diagnostics[i]}
  /\ \A i \in Positions : Writes(i) \subseteq Files
<1>1. Writes(1) = {Artifacts[1]}
  BY Names, DiagnosticsAre DEF Writes
<1>2. \A i \in Positions : i > 1 => Writes(i) = {Artifacts[i], Diagnostics[i]}
  BY ArtifactIsFile, DiagnosticsFile DEF Writes
<1> QED BY <1>1, <1>2 DEF Files

(* The part of the types that is about the disk.                               *)
Stored == DOMAIN disk = Files /\ \A f \in Files : OnDisk(f) => disk[f] \in Contents(f)

(* A call that succeeds leaves its files with what they should hold.          *)
LEMMA DoneStores ==
  ASSUME TypeOK, NEW i \in Positions, Done(i)
  PROVE  /\ Stored' /\ \A f \in Files : OnDisk(f) \/ f \in Writes(i) => OnDisk(f)'
         /\ ever' \subseteq Evidence /\ built' \in 0 .. 9 /\ again' \in 0 .. MaxAgain
<1>1. again' \in 0 .. MaxAgain
  BY ControllerConstants DEF Done, Counted, TypeOK
<1>2. CASE i = 1
  <2>1. PICK B \in Batches : Enriched(B)
    BY <1>2 DEF Done
  <2>2. B \in Contents("enriched") /\ "enriched" \in Files /\ B # Missing
    <3>1. "enriched" \in Files
      BY Names, ArtifactIsFile
    <3>2. B \in Contents("enriched")
      BY ControllerConstants, ContentsAre
    <3> QED BY <3>1, <3>2, HeldIsThere
  <2>3. Stored'
    BY <2>1, <2>2 DEF Enriched, TypeOK, Stored, OnDisk
  <2>4. \A f \in Files : OnDisk(f) \/ f = "enriched" => OnDisk(f)'
    BY <2>1, <2>2 DEF Enriched, TypeOK, OnDisk
  <2>5. ever' \subseteq Evidence /\ built' \in 0 .. 9
    BY <2>1, ControllerConstants DEF Enriched, TypeOK
  <2>6. Writes(i) = {"enriched"}
    BY <1>2, Names, FilesAre
  <2> QED BY <1>1, <2>3, <2>4, <2>5, <2>6
<1>3. CASE i # 1
  <2>1. i > 1
    BY <1>3, Names
  <2>2. PICK r \in Results(i, disk) : Built(i, r)
    BY <1>3 DEF Done
  <2> DEFINE a == Artifacts[i]
             b == Diagnostics[i]
  <2>3. r.artifact \in Contents(a) /\ r.diagnostics \in Contents(b)
    BY <2>1, ReadyIsFilled, ResultsTyped DEF Done
  <2>4. a \in Files /\ b \in Files /\ a # b
    BY <2>1, ArtifactIsFile, DiagnosticsFile, DiagnosticsCiteNothing
  <2>5. r.artifact # Missing /\ r.diagnostics # Missing
    BY <2>3, <2>4, HeldIsThere
  <2>6. Writes(i) = {a, b}
    BY <2>1, FilesAre
  <2>7. disk' = [disk EXCEPT ![a] = r.artifact, ![b] = r.diagnostics]
    BY <2>2 DEF Built
  <2> HIDE DEF a, b
  <2>8. Stored'
    BY <2>3, <2>4, <2>7 DEF TypeOK, Stored, OnDisk
  <2>9. \A f \in Files : OnDisk(f) \/ f \in Writes(i) => OnDisk(f)'
    BY <2>4, <2>5, <2>6, <2>7 DEF TypeOK, OnDisk
  <2>10. ever' \subseteq Evidence /\ built' \in 0 .. 9
    BY <2>2, Names DEF Built, TypeOK, Positions
  <2> QED BY <1>1, <2>8, <2>9, <2>10
<1> QED BY <1>2, <1>3

(* The inductive invariant of what is on disk.                                 *)
CliSafe == TypeOK /\ CompletedIsPublished

LEMMA CallKeepsTypes ==
  ASSUME CliSafe, NEW i \in Positions, Call(i)
  PROVE  CliSafe'
<1> USE DEF CliSafe
<1>0. Writes(i) \subseteq Files
  BY FilesAre
<1>1. CASE skill_refuses(i)
  <2> DEFINE b == Diagnostics[i]
  <2>1. /\ UNCHANGED <<manifest, completed, ever, built, again, failures>>
        /\ status' = "validation_failed"
        /\ \/ disk' = disk
           \/ i = 6 /\ disk' = [disk EXCEPT ![b] = "written"]
    BY <1>1 DEF skill_refuses
  <2>2. i = 6 => b \in Files /\ "written" \in Contents(b)
    BY DiagnosticsFile, DiagnosticsAre, ContentsAre DEF Written
  <2>3. i = 6 => "written" # Missing
    BY <2>2, HeldIsThere
  <2> HIDE DEF b
  <2>4. Stored' /\ \A f \in Files : OnDisk(f) => OnDisk(f)'
    BY <2>1, <2>2, <2>3 DEF TypeOK, Stored, OnDisk
  <2>5. TypeOK'
    BY <2>1, <2>4 DEF TypeOK, Stored, Statuses
  <2>6. CompletedIsPublished'
    BY <2>1, <2>4 DEF CompletedIsPublished, TypeOK
  <2> QED BY <2>5, <2>6
<1>2. CASE skill_succeeds(i)
  <2>1. Done(i) /\ Recorded(i) /\ UNCHANGED failures
    BY <1>2 DEF skill_succeeds
  <2>2. /\ status' \in {"running", "validation_failed"}
        /\ completed' = completed \/ completed' = completed \cup {i}
    BY <1>2 DEF skill_succeeds, Completed
  <2>3. /\ Stored' /\ \A f \in Files : OnDisk(f) \/ f \in Writes(i) => OnDisk(f)'
        /\ ever' \subseteq Evidence /\ built' \in 0 .. 9 /\ again' \in 0 .. MaxAgain
    BY <2>1, DoneStores
  <2>4. TypeOK'
    BY <1>0, <2>1, <2>2, <2>3 DEF TypeOK, Stored, Statuses, Recorded
  <2>5. CompletedIsPublished'
    BY <1>0, <2>1, <2>2, <2>3 DEF CompletedIsPublished, TypeOK, Recorded
  <2> QED BY <2>4, <2>5
<1>3. CASE stops_between(i)
  <2>1. PICK r \in Results(i, disk) : disk' = [disk EXCEPT ![Artifacts[i]] = r.artifact]
    BY <1>3 DEF stops_between
  <2>2. i > 1 /\ Filled(i, disk)
    BY <1>3, ReadyIsFilled DEF stops_between
  <2> DEFINE a == Artifacts[i]
  <2>3. a \in Files /\ r.artifact \in Contents(a)
    BY <2>2, ResultsTyped, ArtifactIsFile
  <2>4. r.artifact # Missing
    BY <2>3, HeldIsThere
  <2>5. disk' = [disk EXCEPT ![a] = r.artifact]
    BY <2>1
  <2> HIDE DEF a
  <2>6. Stored' /\ \A f \in Files : OnDisk(f) => OnDisk(f)'
    BY <2>3, <2>4, <2>5 DEF TypeOK, Stored, OnDisk
  <2>7. /\ UNCHANGED <<manifest, completed, ever>> /\ status' \in {"failed", status}
        /\ again' \in 0 .. MaxAgain /\ failures' \in 0 .. MaxFailures
    BY <1>3, ControllerConstants DEF stops_between, Counted, Fault, TypeOK
  <2>8. built' \in 0 .. 9
    BY <1>3, <2>2, Names DEF stops_between, Smaller, TypeOK
  <2>9. TypeOK'
    BY <2>6, <2>7, <2>8 DEF TypeOK, Stored, Statuses
  <2>10. CompletedIsPublished'
    BY <2>6, <2>7 DEF CompletedIsPublished, TypeOK
  <2> QED BY <2>9, <2>10
<1>4. CASE dies(i)
  <2>1. /\ Done(i)
        /\ Recorded(i) \/ UNCHANGED manifest
        /\ UNCHANGED <<status, completed>> /\ failures' \in 0 .. MaxFailures
    BY <1>4, ControllerConstants DEF dies, Fault, TypeOK
  <2>2. /\ Stored' /\ \A f \in Files : OnDisk(f) \/ f \in Writes(i) => OnDisk(f)'
        /\ ever' \subseteq Evidence /\ built' \in 0 .. 9 /\ again' \in 0 .. MaxAgain
    BY <2>1, DoneStores
  <2>3. TypeOK'
    BY <1>0, <2>1, <2>2 DEF TypeOK, Stored, Recorded
  <2>4. CompletedIsPublished'
    BY <1>0, <2>1, <2>2 DEF CompletedIsPublished, TypeOK, Recorded
  <2> QED BY <2>3, <2>4
<1> QED BY <1>1, <1>2, <1>3, <1>4 DEF Call

-----------------------------------------------------------------------------
(* What holds what it should is not refused.                                 *)

LEMMA NoEmptyId == ASSUME NEW id \in GapIds PROVE id # ""
BY GapIdsAre

LEMMA LandscapePasses == ASSUME NEW c PROVE LandscapeArtifact(c)
BY DEF LandscapeArtifact, LandscapeCluster, Cluster

LEMMA GapMapPasses ==
  ASSUME NEW c \in Contents("gaps")
  PROVE  validate_gap_map_artifact(c)
<1>1. c.evidence # {} /\ \A g \in c.gaps : g.evidence # {}
  <2>1. c \in [evidence : Cited, gaps : SUBSET Gaps]
    BY ContentsAre
  <2> QED BY <2>1 DEF Gaps, Cited
<1>2. ASSUME NEW g \in c.gaps PROVE GapRecord(g)
  <2>1. "evidence_ids" \in DOMAIN GapBasis(g) /\ GapBasis(g)["evidence_ids"] = g.evidence
    BY DEF GapBasis
  <2> QED BY <1>1, <2>1 DEF GapRecord, has_support
<1>3. \A e \in c.evidence : SupportingEvidence(e, c) \subseteq {g.id : g \in c.gaps}
  BY DEF SupportingEvidence
<1> QED BY <1>1, <1>2, <1>3 DEF validate_gap_map_artifact, GapMapArtifact

LEMMA IdeasPass ==
  ASSUME NEW c \in Contents("ideas")
  PROVE  validate_candidate_ideas_artifact(c) /\ validate_candidate_ideas_for_screening(c)
<1>1. c.ideas # {} /\ \A x \in c.ideas : x.gap \in GapIds /\ x.evidence # {}
  <2>1. c \in [ideas : (SUBSET [gap : GapIds, evidence : Cited]) \ {{}}]
    BY ContentsAre
  <2> QED BY <2>1 DEF Cited
<1>2. \A x \in c.ideas : x.gap # ""
  BY <1>1, NoEmptyId
<1>3. CandidateIdeaArtifact(c)
  <2>1. \A x \in c.ideas : x.gap \in CandidateIdeaGapBasis(x)
    BY <1>2 DEF CandidateIdeaGapBasis
  <2>2. \A x \in c.ideas : CandidateIdeaRecord(x)
    BY <1>1, <2>1 DEF CandidateIdeaRecord, CandidateIdeaEvidenceBasis
  <2> QED BY <2>2 DEF CandidateIdeaArtifact
<1>4. IdeaEvidence(c) # {}
  BY <1>1 DEF IdeaEvidence
<1> QED BY <1>1, <1>3, <1>4 DEF validate_candidate_ideas_artifact,
     validate_candidate_ideas_for_screening

LEMMA ScreeningPasses ==
  ASSUME NEW c \in Contents("screening")
  PROVE  /\ IdeaScreeningArtifact(c) /\ validate_screening_v2_for_downstream(c)
         /\ validate_screening_for_experiment_matrix(c)
<1>1. c.idea \in GapIds /\ c.evidence # {} /\ c.triaged = Triages
  <2>1. c \in [idea : GapIds, evidence : Cited, triaged : {Triages}]
    BY ContentsAre
  <2> QED BY <2>1 DEF Cited
<1>2. c.idea # ""
  BY <1>1, NoEmptyId
<1> QED BY <1>1, <1>2 DEF IdeaScreeningArtifact, ScreenedIdeaRecord,
     validate_screening_v2_for_downstream, validate_screening_for_experiment_matrix,
     normalize_screened_idea_for_downstream, Conservative

LEMMA MatrixPasses ==
  ASSUME NEW c \in Contents("matrix")
  PROVE  validate_experiment_matrix_artifact(c) /\ validate_experiment_matrix_for_claim_ledger(c)
<1>1. c.idea \in GapIds /\ c.evidence # {}
  <2>1. c \in [idea : GapIds, evidence : Cited]
    BY ContentsAre
  <2> QED BY <2>1 DEF Cited
<1> QED BY <1>1, NoEmptyId DEF validate_experiment_matrix_artifact, ExperimentCandidate,
     validate_experiment_matrix_for_claim_ledger

LEMMA LedgerPasses ==
  ASSUME NEW c \in Contents("ledger")
  PROVE  validate_claim_ledger_artifact(c) /\ validate_claim_ledger_for_drafting(c)
<1>1. c \in [evidence : Cited, claims : SUBSET Claims] /\ Claiming(c)
  BY ContentsAre
<1>2. c.evidence # {} /\ c.claims # {} /\ c.claims \subseteq Claims
  BY <1>1 DEF Cited, Claiming
<1>3. ASSUME NEW q \in Claims PROVE ClaimRecord(q)
  <2>1. q.type # "limitation_statement" => q.evidence # {}
    BY DEF Claims
  <2>2. q.type = "limitation_statement" => claim_status(q) = "insufficient_support"
    BY DEF claim_status
  <2> QED BY <2>1, <2>2 DEF ClaimRecord
<1>4. ClaimLedgerArtifact(c)
  BY <1>2, <1>3 DEF ClaimLedgerArtifact
<1> QED BY <1>2, <1>4 DEF validate_claim_ledger_artifact, validate_claim_ledger_for_drafting

LEMMA DraftPasses ==
  ASSUME NEW c \in Contents("draft")
  PROVE  ManuscriptSectionDraftArtifact(c)
<1>1. c \in [evidence : Cited, blocks : (SUBSET Claims) \ {{}}]
  BY ContentsAre
<1> QED BY <1>1 DEF ManuscriptSectionDraftArtifact, Cited

(* Files that hold what they should are refused by nobody.                    *)
LEMMA NobodyRefuses == TypeOK => NothingIsRefused
<1> SUFFICES ASSUME TypeOK, NEW i \in Positions
             PROVE  /\ OnDisk(Artifacts[i]) => Passes(i, disk)
                    /\ Ready(i) => Takes(i, disk)
  BY DEF NothingIsRefused
<1>1. ASSUME OnDisk(Artifacts[i]) PROVE Passes(i, disk)
  <2>1. disk[Artifacts[i]] \in Contents(Artifacts[i])
    BY <1>1, ArtifactIsFile DEF TypeOK
  <2>2. CASE i = 3
    BY <2>2, LandscapePasses DEF Passes
  <2>3. CASE i = 4
    BY <2>1, <2>3, Names, GapMapPasses DEF Passes
  <2>4. CASE i = 5
    BY <2>1, <2>4, Names, IdeasPass DEF Passes
  <2>5. CASE i = 6
    BY <2>1, <2>5, Names, ScreeningPasses DEF Passes
  <2>6. CASE i = 7
    BY <2>1, <2>6, Names, MatrixPasses DEF Passes
  <2>7. CASE i = 8
    BY <2>1, <2>7, Names, LedgerPasses DEF Passes
  <2>8. CASE i = 9
    BY <2>1, <2>8, Names, DraftPasses DEF Passes
  <2>9. CASE i \notin {3, 4, 5, 6, 7, 8, 9}
    BY <2>9 DEF Passes
  <2> QED BY <2>2, <2>3, <2>4, <2>5, <2>6, <2>7, <2>8, <2>9
<1>2. ASSUME Ready(i) PROVE Takes(i, disk)
  <2>1. Filled(i, disk)
    BY <1>2, ReadyIsFilled
  <2>2. CASE i = 6
    <3>1. disk["ideas"] \in Contents("ideas")
      BY <2>1, <2>2, FilledMeans
    <3> QED BY <2>2, <3>1, IdeasPass DEF Takes
  <2>3. CASE i = 7
    <3>1. disk["screening"] \in Contents("screening")
      BY <2>1, <2>3, FilledMeans
    <3> QED BY <2>3, <3>1, ScreeningPasses DEF Takes
  <2>4. CASE i = 8
    <3>1. disk["screening"] \in Contents("screening") /\ disk["matrix"] \in Contents("matrix")
      BY <2>1, <2>4, FilledMeans
    <3> QED BY <2>4, <3>1, ScreeningPasses, MatrixPasses DEF Takes
  <2>5. CASE i = 9
    <3>1. disk["screening"] \in Contents("screening") /\ disk["ledger"] \in Contents("ledger")
      BY <2>1, <2>5, FilledMeans
    <3> QED BY <2>5, <3>1, ScreeningPasses, LedgerPasses DEF Takes
  <2>6. CASE i \notin {6, 7, 8, 9}
    BY <2>6 DEF Takes
  <2> QED BY <2>2, <2>3, <2>4, <2>5, <2>6
<1> QED BY <1>1, <1>2

LEMMA StatusesAre == \A q \in Decisions : StatusOf(q) \in Statuses
BY DEF StatusOf, Statuses

LEMMA EndsKeepsTypes == ASSUME CliSafe, NEW s \in Statuses, Ends(s) PROVE CliSafe'
BY DEF CliSafe, Ends, TypeOK, CompletedIsPublished, OnDisk

LEMMA InitIsSafe == Init => CliSafe
<1> SUFFICES ASSUME Init PROVE CliSafe
  OBVIOUS
<1>1. \A f \in Files : ~OnDisk(f)
  BY DEF Init, OnDisk
<1> QED BY <1>1, ControllerConstants DEF Init, CliSafe, TypeOK, Statuses, CompletedIsPublished

LEMMA StepIsSafe == ASSUME CliSafe, [Next]_vars PROVE CliSafe'
<1>1. CASE decide
  BY <1>1, EndsKeepsTypes, StatusesAre DEF decide
<1>2. CASE skill_blocked \/ skill_fails \/ budget_exceeded
  BY <1>2, EndsKeepsTypes DEF skill_blocked, skill_fails, budget_exceeded, Statuses
<1>3. CASE \E i \in Called : Call(i)
  BY <1>3, CallKeepsTypes, CalledArePositions
<1>4. CASE UNCHANGED vars
  BY <1>4 DEF vars, CliSafe, TypeOK, CompletedIsPublished, OnDisk
<1> QED BY <1>1, <1>2, <1>3, <1>4 DEF Next, run_once

(* Wherever a round stops and however files are mixed: a file that is there    *)
(* holds what its kind holds, a step that is noted has its files, recorded and *)
(* on disk, no draft claims more than it may, and no file is refused by its    *)
(* class, its gate or the skills that read it.                                 *)
THEOREM CliCorrect == Spec => []CliInv
<1>1. Init => CliSafe
  BY InitIsSafe
<1>2. CliSafe /\ [Next]_vars => CliSafe'
  BY StepIsSafe
<1>3. CliSafe => TypeOK /\ CompletedIsPublished /\ NothingIsRefused
  BY NobodyRefuses DEF CliSafe
<1>4. Spec => []NoOverclaimDrafted
  BY DraftsClaimNoMore
<1>5. Spec => [](TypeOK /\ CompletedIsPublished /\ NothingIsRefused)
  BY <1>1, <1>2, <1>3, PTL DEF Spec
<1> QED BY <1>4, <1>5, PTL DEF CliInv

-----------------------------------------------------------------------------
(* What a skill makes is a matter of the files before its own.               *)

(* Two workspaces with the same files of the positions before one of the chain. *)
SameBefore(i, d, e) ==
    \A j \in Positions : j < i =>
      /\ d[Artifacts[j]] = e[Artifacts[j]]
      /\ j > 1 => d[Diagnostics[j]] = e[Diagnostics[j]]

LEMMA SameMeans ==
  ASSUME NEW i \in Positions, NEW d, NEW e, SameBefore(i, d, e)
  PROVE  /\ i > 1 => d["enriched"] = e["enriched"]
         /\ i > 2 => d["selection"] = e["selection"] /\ d["coverage"] = e["coverage"]
         /\ i > 3 => d["landscape"] = e["landscape"] /\ d["landscape_diag"] = e["landscape_diag"]
         /\ i > 4 => d["gaps"] = e["gaps"]
         /\ i > 5 => d["ideas"] = e["ideas"]
         /\ i > 6 => d["screening"] = e["screening"]
         /\ i > 7 => d["matrix"] = e["matrix"]
         /\ i > 8 => d["ledger"] = e["ledger"]
BY Names, DiagnosticsAre DEF SameBefore

LEMMA RankingsSame ==
  ASSUME NEW d, NEW e, d["enriched"] = e["enriched"]
  PROVE  Rankings(d) = Rankings(e)
BY DEF Rankings, Cards

LEMMA LandscapesSame ==
  ASSUME NEW d, NEW e, d["enriched"] = e["enriched"], d["selection"] = e["selection"],
         d["coverage"] = e["coverage"]
  PROVE  Landscapes(d) = Landscapes(e)
BY DEF Landscapes, Cards, Selected, Base

LEMMA GapMapsSame ==
  ASSUME NEW d, NEW e, d["enriched"] = e["enriched"], d["selection"] = e["selection"],
         d["coverage"] = e["coverage"], d["landscape"] = e["landscape"],
         d["landscape_diag"] = e["landscape_diag"]
  PROVE  GapMaps(d) = GapMaps(e)
<1>1. Cards(d) = Cards(e) /\ Selected(d) = Selected(e)
  BY DEF Cards, Selected
<1>2. FirstMissing(d) = FirstMissing(e)
  BY DEF FirstMissing
<1>3. RoleGaps(d) = RoleGaps(e)
  BY <1>1, <1>2 DEF RoleGaps
<1>4. DominantGap(d) = DominantGap(e)
  BY <1>1 DEF DominantGap
<1>5. SparseGaps(d) = SparseGaps(e)
  BY DEF SparseGaps
<1>6. AxisGap(d) = AxisGap(e)
  BY <1>1 DEF AxisGap
<1>7. \A G : GapMap(G, d) = GapMap(G, e)
  BY <1>1, <1>4, <1>5, <1>6 DEF GapMap
<1> QED BY <1>1, <1>3, <1>7 DEF GapMaps

LEMMA IdeaSetsSame ==
  ASSUME NEW d, NEW e, d["enriched"] = e["enriched"], d["selection"] = e["selection"],
         d["gaps"] = e["gaps"]
  PROVE  IdeaSets(d) = IdeaSets(e)
<1>1. Cards(d) = Cards(e) /\ Selected(d) = Selected(e)
  BY DEF Cards, Selected
<1>2. \A g : Basis(g, d) = Basis(g, e) /\ Idea(g, d) = Idea(g, e)
  BY <1>1 DEF Basis, Idea
<1>3. \A G : Ideas(G, d) = Ideas(G, e)
  BY <1>2 DEF Ideas
<1> QED BY <1>1, <1>3 DEF IdeaSets

LEMMA ScreeningsSame ==
  ASSUME NEW d, NEW e, d["enriched"] = e["enriched"], d["selection"] = e["selection"],
         d["ideas"] = e["ideas"]
  PROVE  Screenings(d) = Screenings(e)
<1>1. PacketEvidence(d) = PacketEvidence(e)
  BY DEF PacketEvidence, Base, Cards, Selected
<1>2. Answers(d) = Answers(e)
  BY <1>1 DEF Answers
<1> QED BY <1>2 DEF Screenings

LEMMA LedgersSame ==
  ASSUME NEW d, NEW e, d["enriched"] = e["enriched"], d["selection"] = e["selection"],
         d["landscape"] = e["landscape"], d["gaps"] = e["gaps"], d["ideas"] = e["ideas"],
         d["screening"] = e["screening"], d["matrix"] = e["matrix"]
  PROVE  Ledgers(d) = Ledgers(e)
<1>1. Cards(d) = Cards(e) /\ Ranked(d) = Ranked(e)
  BY DEF Cards, Ranked, Selected
<1>2. FirstCards(d) = FirstCards(e)
  BY <1>1 DEF FirstCards
<1>3. GapClaims(d) = GapClaims(e) /\ ChainClaims(d) = ChainClaims(e)
  BY DEF GapClaims, ChainClaims
<1>4. LedgerEvidence(d) = LedgerEvidence(e)
  BY DEF LedgerEvidence
<1>5. \A L : Ledger(L, d) = Ledger(L, e)
  BY <1>3, <1>4 DEF Ledger
<1> QED BY <1>2, <1>5 DEF Ledgers

LEMMA DraftsSame ==
  ASSUME NEW d, NEW e, d["ledger"] = e["ledger"]
  PROVE  Drafts(d) = Drafts(e)
<1>1. Blocks(d) = Blocks(e) /\ (Final(d) <=> Final(e))
  BY DEF Blocks, Final
<1>2. \A B : Draft(B, d) = Draft(B, e)
  BY DEF Draft
<1> QED BY <1>1, <1>2 DEF Drafts

(* What a skill makes is a matter of the files before its own.                *)
LEMMA ResultsSame ==
  ASSUME NEW i \in Positions, i > 1, NEW d, NEW e, SameBefore(i, d, e)
  PROVE  Results(i, d) = Results(i, e)
<1>1. CASE i = 2
  BY <1>1, SameMeans, RankingsSame DEF Results
<1>2. CASE i = 3
  BY <1>2, SameMeans, LandscapesSame DEF Results
<1>3. CASE i = 4
  BY <1>3, SameMeans, GapMapsSame DEF Results
<1>4. CASE i = 5
  BY <1>4, SameMeans, IdeaSetsSame DEF Results
<1>5. CASE i = 6
  BY <1>5, SameMeans, ScreeningsSame DEF Results
<1>6. CASE i = 7
  BY <1>6, SameMeans DEF Results, Matrices
<1>7. CASE i = 8
  BY <1>7, SameMeans, LedgersSame DEF Results
<1>8. CASE i = 9
  BY <1>8, SameMeans, DraftsSame DEF Results
<1> QED BY Names, <1>1, <1>2, <1>3, <1>4, <1>5, <1>6, <1>7, <1>8

-----------------------------------------------------------------------------
(* The files of a position are a result on those before it.                    *)
MadeAt(i, d) ==
    \E r \in Results(i, d) : d[Artifacts[i]] = r.artifact /\ d[Diagnostics[i]] = r.diagnostics

LEMMA ChainMadeIs ==
  ChainMade <=> (built > 0 => OnDisk("enriched")) /\ \A i \in 2 .. built : MadeAt(i, disk)
BY DEF ChainMade, MadeAt

LEMMA DistinctFiles ==
  ASSUME NEW i \in Positions, NEW j \in Positions, i # j
  PROVE  /\ Artifacts[i] # Artifacts[j] /\ Artifacts[i] # Diagnostics[j]
         /\ Diagnostics[i] # Diagnostics[j]
<1>1. Artifacts[i] # Artifacts[j]
  BY Names
<1>2. Diagnostics[i] # Diagnostics[j]
  BY Names, DiagnosticsAre
<1> QED BY <1>1, <1>2, DiagnosticsCiteNothing

LEMMA StillMade ==
  ASSUME NEW k \in Positions, 1 < k, MadeAt(k, disk),
         \A j \in Positions : j <= k =>
           /\ disk'[Artifacts[j]] = disk[Artifacts[j]]
           /\ j > 1 => disk'[Diagnostics[j]] = disk[Diagnostics[j]]
  PROVE  MadeAt(k, disk)'
<1>1. SameBefore(k, disk, disk')
  BY Names DEF SameBefore
<1>2. Results(k, disk) = Results(k, disk')
  BY <1>1, ResultsSame
<1> QED BY <1>2, Names DEF MadeAt

(* A file of a later position changes nothing before it.                      *)
LEMMA LaterWrite ==
  ASSUME NEW i \in Positions, NEW k \in Positions, 1 < k, k < i, MadeAt(k, disk),
         DOMAIN disk = Files, DOMAIN disk' = Files,
         \A f \in Files \ {Artifacts[i], Diagnostics[i]} : disk'[f] = disk[f]
  PROVE  MadeAt(k, disk)'
<1>1. ASSUME NEW j \in Positions, j < i
      PROVE  /\ disk'[Artifacts[j]] = disk[Artifacts[j]]
             /\ j > 1 => disk'[Diagnostics[j]] = disk[Diagnostics[j]]
  BY <1>1, DistinctFiles, ArtifactIsFile, DiagnosticsFile, Names
<1> QED BY <1>1, Names, StillMade

(* The inductive invariant of the chain.                                       *)
Chained == TypeOK /\ ChainMade

LEMMA DoneChains ==
  ASSUME Chained, NEW i \in Positions, Done(i), TypeOK'
  PROVE  ChainMade'
<1> USE DEF Chained
<1>1. CASE i = 1
  <2>1. built' = 1
    BY <1>1 DEF Done, Enriched
  <2>2. "enriched" \in Files /\ "enriched" \in Writes(1)
    BY Names, ArtifactIsFile, FilesAre
  <2>3. OnDisk("enriched")'
    BY <1>1, <2>2, DoneStores
  <2> QED BY <2>1, <2>3 DEF ChainMade
<1>2. CASE i # 1
  <2>1. i > 1
    BY <1>2, Names
  <2>2. PICK r \in Results(i, disk) : Built(i, r)
    BY <1>2 DEF Done
  <2> DEFINE a == Artifacts[i]
             b == Diagnostics[i]
  <2>3. disk' = [disk EXCEPT ![a] = r.artifact, ![b] = r.diagnostics]
    BY <2>2 DEF Built
  <2>4. a \in Files /\ b \in Files /\ a # b
    BY <2>1, ArtifactIsFile, DiagnosticsFile, DiagnosticsCiteNothing
  <2> HIDE DEF a, b
  <2>5. /\ disk'[a] = r.artifact /\ disk'[b] = r.diagnostics
        /\ \A f \in Files \ {a, b} : disk'[f] = disk[f]
        /\ DOMAIN disk = Files /\ DOMAIN disk' = Files
    BY <2>3, <2>4 DEF TypeOK
  <2> USE DEF a, b
  <2>6. ASSUME NEW k \in 2 .. built, k < i PROVE MadeAt(k, disk)'
    <3>1. MadeAt(k, disk) /\ k \in Positions
      BY ChainMadeIs DEF TypeOK, Positions
    <3> QED BY <2>5, <2>6, <3>1, LaterWrite
  <2>7. MadeAt(i, disk)'
    <3>1. SameBefore(i, disk, disk')
      BY <2>5, DistinctFiles, ArtifactIsFile, DiagnosticsFile, Names DEF SameBefore
    <3>2. Results(i, disk) = Results(i, disk')
      BY <2>1, <3>1, ResultsSame
    <3> QED BY <2>5, <3>2 DEF MadeAt
  <2>8. \A k \in 2 .. built' : k = i \/ (k \in 2 .. built /\ k < i)
    BY <2>1, <2>2 DEF Built, TypeOK, Positions
  <2>9. \A k \in 2 .. built' : MadeAt(k, disk)'
    BY <2>6, <2>7, <2>8
  <2>10. built' > 0 => OnDisk("enriched")'
    <3>1. built' > 0 => built > 0
      BY <2>1, <2>2 DEF Built, TypeOK, Positions
    <3>2. disk'["enriched"] = disk["enriched"]
      BY <2>1, <2>5, Names, DistinctFiles, ArtifactIsFile, DiagnosticsFile
    <3> QED BY <3>1, <3>2 DEF ChainMade, OnDisk
  <2> QED BY <2>9, <2>10 DEF ChainMade, MadeAt
<1> QED BY <1>1, <1>2

LEMMA CallChains ==
  ASSUME Chained, NEW i \in Positions, Call(i), TypeOK'
  PROVE  ChainMade'
<1> USE DEF Chained
<1>1. CASE skill_refuses(i)
  <2> DEFINE b == Diagnostics[i]
  <2>1. /\ built' = built
        /\ \/ disk' = disk
           \/ i = 6 /\ disk' = [disk EXCEPT ![b] = "written"]
    BY <1>1 DEF skill_refuses
  <2>2. CASE disk' = disk
    BY <2>1, <2>2 DEF ChainMade, OnDisk
  <2>3. built' > 0 => OnDisk("enriched")'
    <3>1. i = 6 => b # "enriched"
      BY DiagnosticsFile
    <3>2. disk'["enriched"] = disk["enriched"]
      BY <2>1, <3>1, Names, ArtifactIsFile DEF TypeOK
    <3> QED BY <2>1, <3>2 DEF ChainMade, OnDisk
  <2>4. CASE i = 6 /\ disk' = [disk EXCEPT ![b] = "written"]
    <3>1. b \in Files /\ b # "enriched"
      BY <2>4, DiagnosticsFile
    <3>2. CASE built >= 6
      <4>1. 6 \in 2 .. built
        BY <3>2 DEF TypeOK
      <4>2. PICK r \in Results(6, disk) : disk[b] = r.diagnostics
        BY <2>4, <4>1 DEF ChainMade
      <4>3. r.diagnostics = "written"
        BY <4>2 DEF Results, Screenings, Screened
      <4>4. \A f \in Files : disk'[f] = disk[f]
        BY <2>4, <3>1, <4>2, <4>3 DEF TypeOK
      <4>5. ASSUME NEW k \in 2 .. built PROVE MadeAt(k, disk)'
        <5>1. MadeAt(k, disk) /\ k \in Positions /\ 1 < k
          BY ChainMadeIs DEF TypeOK, Positions
        <5> QED BY <4>4, <5>1, ArtifactIsFile, DiagnosticsFile, StillMade
      <4>6. \A k \in 2 .. built' : MadeAt(k, disk)'
        BY <2>1, <4>5
      <4> QED BY <2>1, <2>3, <4>6 DEF ChainMade, MadeAt
    <3>3. CASE built < 6
      <4>1. ASSUME NEW k \in 2 .. built PROVE MadeAt(k, disk)'
        <5>1. MadeAt(k, disk) /\ k \in Positions /\ 1 < k /\ k < i
          BY <2>4, <3>3, ChainMadeIs DEF TypeOK, Positions
        <5>2. DOMAIN disk = Files /\ DOMAIN disk' = Files
          BY DEF TypeOK
        <5>3. \A f \in Files \ {Artifacts[i], Diagnostics[i]} : disk'[f] = disk[f]
          BY <2>4, <5>2
        <5> QED BY <5>1, <5>2, <5>3, LaterWrite
      <4>2. \A k \in 2 .. built' : MadeAt(k, disk)'
        BY <2>1, <4>1
      <4> QED BY <2>3, <4>2 DEF ChainMade, MadeAt
    <3> QED BY <3>2, <3>3 DEF TypeOK
  <2> QED BY <2>1, <2>2, <2>4
<1>2. CASE skill_succeeds(i)
  BY <1>2, DoneChains DEF skill_succeeds
<1>3. CASE stops_between(i)
  <2>1. PICK r \in Results(i, disk) : disk' = [disk EXCEPT ![Artifacts[i]] = r.artifact]
    BY <1>3 DEF stops_between
  <2>2. i > 1 /\ built' = Smaller(built, i - 1)
    BY <1>3 DEF stops_between
  <2>3. ASSUME NEW k \in 2 .. built' PROVE MadeAt(k, disk)'
    <3>1. MadeAt(k, disk) /\ k \in Positions /\ 1 < k /\ k < i
      BY <2>2, ChainMadeIs DEF TypeOK, Positions, Smaller
    <3>2. DOMAIN disk = Files /\ DOMAIN disk' = Files
      BY DEF TypeOK
    <3>3. \A f \in Files \ {Artifacts[i], Diagnostics[i]} : disk'[f] = disk[f]
      BY <2>1, <3>2
    <3> QED BY <3>1, <3>2, <3>3, LaterWrite
  <2>4. built' > 0 => OnDisk("enriched")'
    <3>1. disk'["enriched"] = disk["enriched"] /\ (built' > 0 => built > 0)
      BY <2>1, <2>2, Names, ArtifactIsFile DEF TypeOK, Smaller
    <3> QED BY <3>1 DEF ChainMade, OnDisk
  <2> QED BY <2>3, <2>4 DEF ChainMade, MadeAt
<1>4. CASE dies(i)
  BY <1>4, DoneChains DEF dies
<1> QED BY <1>1, <1>2, <1>3, <1>4 DEF Call

-----------------------------------------------------------------------------
(* A chain that was called in order.                                         *)

LEMMA MadeBefore ==
  ASSUME Chained, NEW i \in Positions, 1 < i, i <= built
  PROVE  \E r \in Results(i, disk) :
           disk[Artifacts[i]] = r.artifact /\ disk[Diagnostics[i]] = r.diagnostics
<1>1. i \in 2 .. built
  BY Names DEF Chained, TypeOK
<1> QED BY <1>1 DEF Chained, ChainMade

(* The ranking of such a chain.                                               *)
LEMMA RankingMade ==
  ASSUME Chained, built >= 2
  PROVE  /\ disk["selection"].ranked = Cards(disk) /\ Selected(disk) \subseteq Cards(disk)
         /\ disk["coverage"].missing = Missed(Selected(disk))
<1>1. PICK r \in Results(2, disk) : disk["selection"] = r.artifact /\ disk["coverage"] = r.diagnostics
  BY MadeBefore, Names, DiagnosticsAre
<1>2. PICK S \in SUBSET Cards(disk) :
        r = [artifact |-> [ranked |-> Cards(disk), selected |-> S],
             diagnostics |-> [missing |-> Missed(S), dominant |-> Dominant(S)]]
  BY <1>1 DEF Results, Rankings
<1>3. Selected(disk) = S
  BY <1>1, <1>2 DEF Selected
<1> QED BY <1>1, <1>2, <1>3

LEMMA BuiltGoesOn ==
  ASSUME Chained, NEW m \in Nat, NEW n \in Nat, n <= m, built >= m
  PROVE  built >= n
BY DEF Chained, TypeOK

LEMMA LandscapeMade ==
  ASSUME Chained, built >= 3
  PROVE  /\ disk["landscape"].evidence = Base(disk)
         /\ disk["landscape"].missing = Missed(Selected(disk))
         /\ disk["landscape_diag"].missing = Missed(Selected(disk))
<1>1. PICK r \in Results(3, disk) :
        disk["landscape"] = r.artifact /\ disk["landscape_diag"] = r.diagnostics
  BY MadeBefore, Names, DiagnosticsAre
<1>2. /\ r.artifact.evidence = Base(disk) /\ r.artifact.missing = disk["coverage"].missing
      /\ r.diagnostics.missing = disk["coverage"].missing
  BY <1>1 DEF Results, Landscapes
<1>3. disk["coverage"].missing = Missed(Selected(disk))
  BY RankingMade, BuiltGoesOn
<1> QED BY <1>1, <1>2, <1>3

(* A gap map of the chain: its gaps are on the selection, and those of a role  *)
(* name the roles that are missed.                                            *)
LEMMA GapsMade ==
  ASSUME Chained, built >= 4
  PROVE  /\ Selected(disk) # {} /\ disk["gaps"].evidence = Selected(disk)
         /\ disk["landscape"].evidence = Selected(disk)
         /\ \A g \in disk["gaps"].gaps : g.evidence \subseteq Selected(disk)
         /\ LET missing == {g.role : g \in {g \in disk["gaps"].gaps : g.id = "missing_role"}}
            IN  /\ missing \subseteq Missed(Selected(disk))
                /\ missing = {} <=> Missed(Selected(disk)) = {}
<1> DEFINE S == Selected(disk)
           D == DominantGap(disk) \cup SparseGaps(disk) \cup AxisGap(disk)
           missing == {g.role : g \in {g \in disk["gaps"].gaps : g.id = "missing_role"}}
<1>1. PICK r \in Results(4, disk) : disk["gaps"] = r.artifact
  BY MadeBefore, Names
<1>2. PICK G \in RoleGaps(disk) : S # {} /\ r.artifact = GapMap(G, disk)
  BY <1>1 DEF Results, GapMaps
<1>3. disk["gaps"].evidence = S /\ disk["gaps"].gaps = G \cup D
  BY <1>1, <1>2 DEF GapMap
<1>4. disk["landscape"].evidence = S
  <2>1. disk["landscape"].evidence = Base(disk)
    BY LandscapeMade, BuiltGoesOn
  <2> QED BY <1>2, <2>1 DEF Base
<1>5. FirstMissing(disk) = Missed(S)
  <2>1. /\ disk["landscape"].missing = Missed(S) /\ disk["landscape_diag"].missing = Missed(S)
        /\ disk["coverage"].missing = Missed(S)
    BY LandscapeMade, RankingMade, BuiltGoesOn
  <2> QED BY <2>1 DEF FirstMissing
<1>6. \/ Missed(S) = {} /\ G = {}
      \/ \E x \in Missed(S) : G = {Gap("missing_role", x, S)}
  BY <1>2, <1>5 DEF RoleGaps
<1>7. S \subseteq Evidence
  <2>1. S \subseteq Cards(disk)
    BY RankingMade, BuiltGoesOn
  <2>2. OnDisk("enriched") /\ "enriched" \in Files
    BY Names, ArtifactIsFile DEF Chained, ChainMade, TypeOK
  <2>3. Cards(disk) \subseteq Evidence
    BY <2>2, ContentsAre DEF Chained, TypeOK, Cards
  <2> QED BY <2>1, <2>3
<1>8. \A g \in D : g.evidence \subseteq S /\ g.id # "missing_role"
  <2>1. \A g \in DominantGap(disk) : g.evidence \subseteq S /\ g.id # "missing_role"
    BY DEF DominantGap, Gap
  <2>2. \A g \in AxisGap(disk) : g.evidence \subseteq S /\ g.id # "missing_role"
    BY DEF AxisGap, Gap
  <2>3. \A e \in S : ClusterOf[e] # "missing_role"
    BY <1>7, SkillConstants
  <2>4. \A g \in SparseGaps(disk) : \E e \in S : g = Gap(ClusterOf[e], "none", {e})
    BY <1>4 DEF SparseGaps
  <2>5. \A g \in SparseGaps(disk) : g.evidence \subseteq S /\ g.id # "missing_role"
    BY <2>3, <2>4 DEF Gap
  <2> QED BY <2>1, <2>2, <2>5
<1> HIDE DEF D, S
<1>9. \A g \in G : g.evidence \subseteq S /\ g.id = "missing_role"
  BY <1>6 DEF Gap
<1>10. missing = {g.role : g \in G}
  BY <1>3, <1>8, <1>9
<1>11. missing \subseteq Missed(S) /\ (missing = {} <=> Missed(S) = {})
  <2>1. CASE Missed(S) = {} /\ G = {}
    BY <1>10, <2>1
  <2>2. CASE \E x \in Missed(S) : G = {Gap("missing_role", x, S)}
    <3>1. PICK x \in Missed(S) : G = {Gap("missing_role", x, S)}
      BY <2>2
    <3>2. missing = {x}
      BY <1>10, <3>1 DEF Gap
    <3> QED BY <3>1, <3>2
  <2> QED BY <1>6, <2>1, <2>2
<1>12. \A g \in disk["gaps"].gaps : g.evidence \subseteq S
  BY <1>3, <1>8, <1>9
<1> QED BY <1>2, <1>3, <1>4, <1>11, <1>12 DEF S

(* Ideas are on the evidence of their gap.                                    *)
LEMMA IdeasMade ==
  ASSUME Chained, built >= 5
  PROVE  /\ IdeaEvidence(disk["ideas"]) \subseteq Selected(disk)
         /\ \A x \in disk["ideas"].ideas :
              \E g \in disk["gaps"].gaps : g.id = x.gap /\ g.evidence = x.evidence
<1>1. PICK r \in Results(5, disk) : disk["ideas"] = r.artifact
  BY MadeBefore, Names
<1>2. PICK G \in SUBSET disk["gaps"].gaps : r.artifact = [ideas |-> Ideas(G, disk)]
  BY <1>1 DEF Results, IdeaSets
<1>3. \A g \in disk["gaps"].gaps : g.evidence \subseteq Selected(disk)
  BY GapsMade, BuiltGoesOn
<1>4. \A g \in G : Idea(g, disk) = [gap |-> g.id, evidence |-> g.evidence]
  BY <1>2, <1>3 DEF Idea, Basis
<1>5. \A x \in disk["ideas"].ideas : \E g \in G : x = [gap |-> g.id, evidence |-> g.evidence]
  BY <1>1, <1>2, <1>4 DEF Ideas
<1> QED BY <1>2, <1>3, <1>5 DEF IdeaEvidence

LEMMA ScreeningMade ==
  ASSUME Chained, built >= 6
  PROVE  /\ disk["screening"].evidence \subseteq Selected(disk)
         /\ \E x \in disk["ideas"].ideas : x.gap = disk["screening"].idea
<1>1. PICK r \in Results(6, disk) : disk["screening"] = r.artifact
  BY MadeBefore, Names
<1>2. r.artifact \in Answers(disk)
  BY <1>1 DEF Results, Screenings, Screened
<1>3. /\ r.artifact.idea \in {i.gap : i \in disk["ideas"].ideas}
      /\ r.artifact.evidence \in Some(PacketEvidence(disk))
  BY <1>2 DEF Answers
<1>4. PacketEvidence(disk) \subseteq Selected(disk)
  BY IdeasMade, BuiltGoesOn DEF PacketEvidence
<1> QED BY <1>1, <1>3, <1>4 DEF Some

LEMMA MatrixMade ==
  ASSUME Chained, built >= 7
  PROVE  /\ disk["matrix"].evidence = disk["screening"].evidence
         /\ disk["matrix"].idea = disk["screening"].idea
<1>1. PICK r \in Results(7, disk) : disk["matrix"] = r.artifact
  BY MadeBefore, Names
<1> QED BY <1>1 DEF Results, Matrices, Candidate

(* What a ledger claims of the literature may cite any of the cards.          *)
LEMMA LedgerMade ==
  ASSUME Chained, built >= 8
  PROVE  /\ disk["ledger"].evidence \subseteq Selected(disk)
         /\ \A c \in disk["ledger"].claims : c.type # "literature_observation" =>
              c.evidence \subseteq Selected(disk)
         /\ \A c \in disk["ledger"].claims : c.evidence \subseteq Cards(disk)
         /\ \A c \in disk["ledger"].claims : c.gaps \subseteq {g.id : g \in disk["gaps"].gaps}
<1> DEFINE S == Selected(disk)
<1>1. PICK r \in Results(8, disk) : disk["ledger"] = r.artifact
  BY MadeBefore, Names
<1>2. PICK L \in FirstCards(disk) : r.artifact = Ledger(L, disk)
  BY <1>1 DEF Results, Ledgers
<1>3. /\ S \subseteq Cards(disk) /\ Ranked(disk) \subseteq Cards(disk)
  BY RankingMade, BuiltGoesOn DEF Ranked
<1>4. /\ disk["screening"].evidence \subseteq S /\ disk["matrix"].evidence \subseteq S
      /\ IdeaEvidence(disk["ideas"]) \subseteq S
      /\ disk["gaps"].evidence = S /\ disk["landscape"].evidence = S
      /\ \A g \in disk["gaps"].gaps : g.evidence \subseteq S
  BY ScreeningMade, MatrixMade, IdeasMade, GapsMade, BuiltGoesOn
<1>5. LedgerEvidence(disk) \subseteq S
  BY <1>4 DEF LedgerEvidence
<1>6. \A c \in LiteratureClaims(L) :
        c.type = "literature_observation" /\ c.gaps = {} /\ c.evidence \subseteq Cards(disk)
  BY <1>2, <1>3 DEF FirstCards, LiteratureClaims, Claim
<1>7. \A c \in GapClaims(disk) :
        c.evidence \subseteq S /\ c.gaps \subseteq {g.id : g \in disk["gaps"].gaps}
  BY <1>4 DEF GapClaims, Claim
<1>8. \A c \in ChainClaims(disk) : c.evidence \subseteq S /\ c.gaps = {}
  BY <1>4 DEF ChainClaims, Claim
<1>9. /\ disk["ledger"].evidence = LedgerEvidence(disk)
      /\ disk["ledger"].claims = LiteratureClaims(L) \cup GapClaims(disk) \cup ChainClaims(disk)
  BY <1>1, <1>2 DEF Ledger
<1> HIDE DEF S
<1> QED BY <1>3, <1>5, <1>6, <1>7, <1>8, <1>9 DEF S

LEMMA DraftMade ==
  ASSUME Chained, built = 9
  PROVE  /\ disk["draft"].blocks \subseteq disk["ledger"].claims
         /\ disk["draft"].evidence
              = disk["ledger"].evidence \cup UNION {b.evidence : b \in disk["draft"].blocks}
<1>1. PICK r \in Results(9, disk) : disk["draft"] = r.artifact
  BY MadeBefore, Names
<1>2. r.artifact = Draft(Blocks(disk), disk)
  BY <1>1 DEF Results, Drafts
<1> QED BY <1>1, <1>2 DEF Draft, Blocks

LEMMA ChainHolds == Chained => ChainInv
<1> SUFFICES ASSUME Chained PROVE ChainInv
  OBVIOUS
<1> DEFINE S == Selected(disk)
<1>1. ASSUME NEW m \in 1 .. 9, built >= m, NEW n \in 1 .. 9, n <= m PROVE built >= n
  BY <1>1, BuiltGoesOn
<1>2. built >= 2 => disk["selection"].ranked = Cards(disk) /\ S \subseteq Cards(disk)
  BY RankingMade
<1>3. built >= 3 => disk["landscape"].evidence = (IF S = {} THEN Cards(disk) ELSE S)
  BY LandscapeMade DEF Base
<1>4. built >= 4 => Cites(Artifacts[4], disk[Artifacts[4]]) \subseteq S
  <2>1. built >= 4 => disk["gaps"].evidence \cup UNION {g.evidence : g \in disk["gaps"].gaps} \subseteq S
    BY GapsMade
  <2> QED BY <2>1, CitesAre, Names
<1>5. built >= 5 => Cites(Artifacts[5], disk[Artifacts[5]]) \subseteq S
  BY IdeasMade, CitesAre, Names
<1>6. built >= 6 => Cites(Artifacts[6], disk[Artifacts[6]]) \subseteq S
  BY ScreeningMade, CitesAre, Names
<1>7. built >= 7 => Cites(Artifacts[7], disk[Artifacts[7]]) \subseteq S
  <2>1. built >= 7 => disk["matrix"].evidence \subseteq S
    BY <1>1, MatrixMade, ScreeningMade
  <2> QED BY <2>1, CitesAre, Names
<1>8. \A i \in 4 .. Smaller(built, 7) : Cites(Artifacts[i], disk[Artifacts[i]]) \subseteq S
  <2>1. ASSUME NEW i \in 4 .. Smaller(built, 7) PROVE i \in {4, 5, 6, 7} /\ built >= i
    BY DEF Chained, TypeOK, Smaller
  <2> QED BY <1>4, <1>5, <1>6, <1>7, <2>1
<1>9. built >= 8 =>
        /\ disk["ledger"].evidence
              \cup UNION {c.evidence : c \in {c \in disk["ledger"].claims : c.type # "literature_observation"}}
            \subseteq S
        /\ Cites("ledger", disk["ledger"]) \subseteq Cards(disk)
  <2>1. Cites("ledger", disk["ledger"])
          = disk["ledger"].evidence \cup UNION {q.evidence : q \in disk["ledger"].claims}
    BY CitesAre, Names
  <2>2. built >= 8 => S \subseteq Cards(disk)
    BY <1>1, <1>2
  <2> QED BY <2>1, <2>2, LedgerMade
<1>10. built = 9 =>
        /\ UNION {c.evidence : c \in {c \in disk["draft"].blocks : c.type # "literature_observation"}}
            \subseteq S
        /\ Cites("draft", disk["draft"]) \subseteq Cards(disk)
  <2>1. Cites("draft", disk["draft"])
          = disk["draft"].evidence \cup UNION {q.evidence : q \in disk["draft"].blocks}
    BY CitesAre, Names
  <2>2. built = 9 => S \subseteq Cards(disk) /\ built >= 8
    BY <1>1, <1>2
  <2>3. built = 9 => /\ \A b \in disk["draft"].blocks : b.evidence \subseteq Cards(disk)
                     /\ \A b \in disk["draft"].blocks :
                          b.type # "literature_observation" => b.evidence \subseteq S
                     /\ disk["draft"].evidence \subseteq Cards(disk)
    BY <2>2, LedgerMade, DraftMade
  <2> QED BY <2>1, <2>3
<1>11. CitesTheSelection
  BY <1>2, <1>3, <1>8, <1>9, <1>10 DEF CitesTheSelection
<1>12. IdsResolve
  <2>1. built >= 6 => \E x \in disk["ideas"].ideas : x.gap = disk["screening"].idea
    BY ScreeningMade
  <2>2. built >= 7 => disk["matrix"].idea = disk["screening"].idea
    BY MatrixMade
  <2>3. built >= 8 => \A c \in disk["ledger"].claims :
                        c.gaps \subseteq {g.id : g \in disk["gaps"].gaps}
    BY LedgerMade
  <2>4. built = 9 => disk["draft"].blocks \subseteq disk["ledger"].claims
    BY DraftMade
  <2>5. built >= 5 => \A x \in disk["ideas"].ideas :
                        \E g \in disk["gaps"].gaps : g.id = x.gap /\ g.evidence = x.evidence
    BY IdeasMade
  <2> QED BY <2>1, <2>2, <2>3, <2>4, <2>5 DEF IdsResolve
<1>13. RoleGapsAreTrue
  BY GapsMade DEF RoleGapsAreTrue
<1> QED BY <1>11, <1>12, <1>13 DEF ChainInv, Chained

(* Whatever was called again, refused or stopped half way between: the files   *)
(* of a chain called in order cite its selection, their ids resolve and the    *)
(* roles they miss are those it misses.                                        *)
THEOREM ChainCorrect == Spec => []ChainInv
<1> DEFINE Inv == CliSafe /\ ChainMade
<1>1. Init => Inv
  <2>1. Init => CliSafe
    BY InitIsSafe
  <2>2. Init => ChainMade
    BY DEF Init, ChainMade
  <2> QED BY <2>1, <2>2
<1>2. ASSUME Inv, [Next]_vars PROVE Inv'
  <2>1. CliSafe'
    BY <1>2, StepIsSafe
  <2>2. Chained /\ TypeOK'
    BY <1>2, <2>1 DEF Chained, CliSafe
  <2>3. CASE \E i \in Called : Call(i)
    BY <2>2, <2>3, CallChains, CalledArePositions, <2>1
  <2>4. CASE UNCHANGED <<disk, built>>
    BY <1>2, <2>1, <2>4 DEF ChainMade, OnDisk
  <2>5. CASE decide \/ skill_blocked \/ skill_fails \/ budget_exceeded \/ UNCHANGED vars
    BY <2>4, <2>5 DEF decide, skill_blocked, skill_fails, budget_exceeded, Ends, vars
  <2> QED BY <1>2, <2>3, <2>5 DEF Next, run_once
<1>3. Inv => ChainInv
  BY ChainHolds DEF Chained, CliSafe
<1> QED BY <1>1, <1>2, <1>3, PTL DEF Spec
=============================================================================
