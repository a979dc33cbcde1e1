----------------------------- MODULE PlanProofs -----------------------------
(* Proofs about what carries out a plan of steps: the controller and its       *)
(* workspace (what state.json, the manifest and the files say of each other,   *)
(* that each file was made from the files that are there now, and that a run   *)
(* keeps within its budget, for any plans, any finds, and any number of runs   *)
(* and of exceptions), and the workflow engine (who runs a workflow's steps,   *)
(* what its status says of them and what a resume keeps, for any number of     *)
(* steps, requests, runs, workers and crashes).                                *)
EXTENDS ResearchController, Workflow, WellFoundedInduction, FiniteSetTheorems, TLAPS

-----------------------------------------------------------------------------
(* The plans and the files by their names.                                    *)

Places == 1 .. 10

LEMMA PlaceNames ==
  /\ ScreeningPlan[1] = "retrieve_sources" /\ ScreeningPlan[2] = "create_evidence_seeds"
  /\ ScreeningPlan[3] = "extract_evidence_cards" /\ ScreeningPlan[4] = "enrich_evidence_cards"
  /\ ScreeningPlan[5] = "rank_evidence"
  /\ ScreeningPlan[6] = "build_minimal_topic_to_evidence_report"
  /\ ScreeningPlan[7] = "build_landscape" /\ ScreeningPlan[8] = "map_gaps"
  /\ ScreeningPlan[9] = "generate_candidate_ideas"
  /\ ScreeningPlan[10] = "screen_novelty_feasibility_risk"
  /\ DOMAIN ScreeningPlan = Places
BY DEF ScreeningPlan, Places

LEMMA RequestedIs ==
  ASSUME plan \in Plans
  PROVE  /\ DOMAIN Requested = 1 .. 6 + plan /\ 6 + plan \in 6 .. 10
         /\ \A i \in DOMAIN Requested : i \in Places /\ Requested[i] = ScreeningPlan[i]
<1>1. plan \in 0 .. 4
  BY ConstantsAssumption
<1>2. plan # 4 => Requested = FirstSkills(6 + plan)
  BY <1>1 DEF Requested, MinimalPlan, LandscapePlan, GapMappingPlan, IdeaGenerationPlan
<1>3. plan = 4 => Requested = ScreeningPlan
  BY DEF Requested
<1>4. CASE plan # 4
  BY <1>1, <1>2, <1>4 DEF FirstSkills, Places
<1>5. CASE plan = 4
  BY <1>3, <1>5, PlaceNames DEF Places
<1> QED BY <1>4, <1>5

(* The place of the skill that writes a file.                                 *)
Owner ==
  [packet |-> 1, warnings |-> 1, seeds |-> 2, initial |-> 3, enriched |-> 4,
   selection |-> 5, coverage |-> 5, report_md |-> 6, report_json |-> 6,
   landscape |-> 7, landscape_md |-> 7, landscape_diagnostics |-> 7,
   gaps |-> 8, gaps_md |-> 8, gaps_diagnostics |-> 8,
   ideas |-> 9, ideas_md |-> 9, ideas_diagnostics |-> 9,
   screening |-> 10, screening_md |-> 10, screening_diagnostics |-> 10]

LEMMA OutputsAre ==
  /\ ToSet(Outputs(ScreeningPlan[1])) = {"packet", "warnings"}
  /\ ToSet(Outputs(ScreeningPlan[2])) = {"seeds"}
  /\ ToSet(Outputs(ScreeningPlan[3])) = {"initial"}
  /\ ToSet(Outputs(ScreeningPlan[4])) = {"enriched"}
  /\ ToSet(Outputs(ScreeningPlan[5])) = {"selection", "coverage"}
  /\ ToSet(Outputs(ScreeningPlan[6])) = {"report_md", "report_json"}
  /\ ToSet(Outputs(ScreeningPlan[7])) = {"landscape", "landscape_md", "landscape_diagnostics"}
  /\ ToSet(Outputs(ScreeningPlan[8])) = {"gaps", "gaps_md", "gaps_diagnostics"}
  /\ ToSet(Outputs(ScreeningPlan[9])) = {"ideas", "ideas_md", "ideas_diagnostics"}
  /\ ToSet(Outputs(ScreeningPlan[10])) = {"screening", "screening_md", "screening_diagnostics"}
<1>1. ASSUME NEW a PROVE ToSet(<<a>>) = {a}
  BY DEF ToSet
<1>2. ASSUME NEW a, NEW b PROVE ToSet(<<a, b>>) = {a, b}
  BY DEF ToSet
<1>3. ASSUME NEW a, NEW b, NEW c PROVE ToSet(<<a, b, c>>) = {a, b, c}
  BY DEF ToSet
<1> QED BY <1>1, <1>2, <1>3, PlaceNames DEF Outputs

LEMMA OutputsOwned ==
  ASSUME NEW i \in Places, NEW f \in ToSet(Outputs(ScreeningPlan[i]))
  PROVE  Owner[f] = i
BY OutputsAre DEF Places, Owner

LEMMA OwnersDiffer ==
  ASSUME NEW i \in Places, NEW j \in Places, i # j
  PROVE  ToSet(Outputs(ScreeningPlan[i])) \cap ToSet(Outputs(ScreeningPlan[j])) = {}
BY OutputsOwned

LEMMA CheckedAre ==
  ASSUME NEW i \in Places
  PROVE  /\ Checked(ScreeningPlan[i]) \subseteq ToSet(Outputs(ScreeningPlan[i]))
         /\ Checked(ScreeningPlan[i]) # {}
         /\ i # 1 => Checked(ScreeningPlan[i]) = ToSet(Outputs(ScreeningPlan[i]))
         /\ i = 1 => Checked(ScreeningPlan[i]) = {"packet"}
<1>1. CASE i = 1
  BY <1>1, OutputsAre, PlaceNames DEF Checked
<1>2. CASE i = 5
  BY <1>2, OutputsAre, PlaceNames DEF Checked
<1>3. CASE i \in {2, 3, 4, 6, 7, 8, 9, 10}
  <2>1. Checked(ScreeningPlan[i]) = ToSet(Outputs(ScreeningPlan[i]))
    BY <1>3, PlaceNames DEF Checked
  <2> QED BY <1>3, <2>1, OutputsAre
<1> QED BY <1>1, <1>2, <1>3 DEF Places

(* A skill reads what a choice looks at of the skills before it.              *)
LEMMA InputsAre ==
  ASSUME NEW i \in Places, NEW f \in Inputs(ScreeningPlan[i])
  PROVE  \E j \in Places : j < i /\ f \in Checked(ScreeningPlan[j])
<1> DEFINE At(j, g) == j \in Places /\ g \in Checked(ScreeningPlan[j])
<1>1. /\ At(1, "packet") /\ At(2, "seeds") /\ At(3, "initial") /\ At(4, "enriched")
      /\ At(5, "selection") /\ At(5, "coverage") /\ At(7, "landscape")
      /\ At(7, "landscape_diagnostics") /\ At(8, "gaps") /\ At(8, "gaps_diagnostics")
      /\ At(9, "ideas") /\ At(9, "ideas_diagnostics")
  BY CheckedAre, OutputsAre DEF Places
<1> HIDE DEF At
<1>2. \E j \in Places : j < i /\ At(j, f)
  <2>1. CASE i = 1
    BY <2>1, PlaceNames DEF Inputs
  <2>2. CASE i = 2
    BY <1>1, <2>2, PlaceNames DEF Inputs, Places
  <2>3. CASE i = 3
    BY <1>1, <2>3, PlaceNames DEF Inputs, Places
  <2>4. CASE i = 4
    BY <1>1, <2>4, PlaceNames DEF Inputs, Places
  <2>5. CASE i = 5
    BY <1>1, <2>5, PlaceNames DEF Inputs, Places
  <2>6. CASE i = 6
    <3>1. f \in {"enriched", "selection", "coverage"}
      BY <2>6, PlaceNames DEF Inputs, Selected
    <3> QED BY <1>1, <2>6, <3>1 DEF Places
  <2>7. CASE i = 7
    <3>1. f \in {"enriched", "selection", "coverage"}
      BY <2>7, PlaceNames DEF Inputs, Selected
    <3> QED BY <1>1, <2>7, <3>1 DEF Places
  <2>8. CASE i = 8
    <3>1. f \in {"enriched", "selection", "coverage", "landscape", "landscape_diagnostics"}
      BY <2>8, PlaceNames DEF Inputs, Selected
    <3> QED BY <1>1, <2>8, <3>1 DEF Places
  <2>9. CASE i = 9
    <3>1. f \in {"enriched", "selection", "coverage", "landscape", "landscape_diagnostics",
                 "gaps", "gaps_diagnostics"}
      BY <2>9, PlaceNames DEF Inputs, Selected
    <3> QED BY <1>1, <2>9, <3>1 DEF Places
  <2>10. CASE i = 10
    <3>1. f \in {"enriched", "selection", "coverage", "landscape", "landscape_diagnostics",
                 "gaps", "gaps_diagnostics", "ideas", "ideas_diagnostics"}
      BY <2>10, PlaceNames DEF Inputs, Selected
    <3> QED BY <1>1, <2>10, <3>1 DEF Places
  <2> QED BY <2>1, <2>2, <2>3, <2>4, <2>5, <2>6, <2>7, <2>8, <2>9, <2>10 DEF Places
<1> QED BY <1>2 DEF At

-----------------------------------------------------------------------------
(* The least open place, and what the places say of the files.                *)

LEMMA MinimumIs ==
  ASSUME NEW S, S \subseteq Nat, S # {}
  PROVE  Min(S) \in S /\ \A y \in S : Min(S) <= y
<1> DEFINE R == OpToRel(<, Nat)
<1>1. IsWellFoundedOn(R, Nat)
  BY NatLessThanWellFounded
<1>2. \A x, y \in Nat : y < x => <<y, x>> \in R
  BY DEF OpToRel
<1> HIDE DEF R
<1>3. PICK x \in S : \A y \in S : ~(<<y, x>> \in R)
  BY <1>1, WFMin
<1>4. ASSUME NEW y \in S PROVE x <= y
  <2>1. x \in Nat /\ y \in Nat
    OBVIOUS
  <2>2. ~(y < x)
    BY <1>2, <1>3, <2>1
  <2> QED BY <2>1, <2>2
<1> QED BY <1>4 DEF Min

LEMMA FilesAre ==
  /\ Skills = {ScreeningPlan[i] : i \in Places}
  /\ \A i \in Places : /\ ToSet(Outputs(ScreeningPlan[i])) \subseteq Files
                       /\ Checked(ScreeningPlan[i]) \subseteq Files
  /\ \A f \in Files : \E i \in Places : f \in ToSet(Outputs(ScreeningPlan[i]))
<1>1. Skills = {ScreeningPlan[i] : i \in Places}
  BY PlaceNames DEF Skills, ToSet
<1>2. \A i \in Places : Checked(ScreeningPlan[i]) \subseteq ToSet(Outputs(ScreeningPlan[i]))
  BY CheckedAre
<1> QED BY <1>1, <1>2 DEF Files

LEMMA NamesDiffer ==
  /\ \A i, j \in Places : ScreeningPlan[i] = ScreeningPlan[j] => i = j
  /\ \A i \in Places : ScreeningPlan[i] # "none"
BY PlaceNames DEF Places

LEMMA FilesOfPlaces ==
  ASSUME NEW i \in Places, NEW s \in Skills, NEW f \in ToSet(Outputs(ScreeningPlan[i])),
         f \in ToSet(Outputs(s))
  PROVE  s = ScreeningPlan[i]
BY FilesAre, OwnersDiffer

(* What is written is a sequence of files, and not empty.                     *)
LEMMA ToWrite ==
  ASSUME NEW i \in Places
  PROVE  Outputs(ScreeningPlan[i]) \in Seq(Files) /\ Outputs(ScreeningPlan[i]) # <<>>
<1> DEFINE q == Outputs(ScreeningPlan[i])
<1>1. q \in Seq(ToSet(q))
  <2>1. ASSUME NEW a PROVE <<a>> \in Seq(ToSet(<<a>>))
    BY DEF ToSet
  <2>2. ASSUME NEW a, NEW b PROVE <<a, b>> \in Seq(ToSet(<<a, b>>))
    BY DEF ToSet
  <2>3. ASSUME NEW a, NEW b, NEW c PROVE <<a, b, c>> \in Seq(ToSet(<<a, b, c>>))
    BY DEF ToSet
  <2>4. \/ \E a : q = <<a>>
        \/ \E a, b : q = <<a, b>>
        \/ \E a, b, c : q = <<a, b, c>>
    BY PlaceNames DEF Outputs, Places
  <2> QED BY <2>1, <2>2, <2>3, <2>4
<1>2. ToSet(q) \subseteq Files
  BY FilesAre
<1>3. ToSet(q) # {}
  BY CheckedAre
<1>4. q # <<>>
  BY <1>3 DEF ToSet
<1> HIDE DEF q
<1>5. q \in Seq(Files)
  BY <1>1, <1>2
<1> QED BY <1>4, <1>5 DEF q

(* A sequence that is not empty, and the set of what is in it.                *)
LEMMA HeadTail ==
  ASSUME NEW S, NEW q \in Seq(S), q # <<>>
  PROVE  /\ Head(q) \in ToSet(q) /\ Tail(q) \in Seq(S)
         /\ ToSet(q) = {Head(q)} \cup ToSet(Tail(q))
         /\ Len(q) = 1 => ToSet(q) = {Head(q)}
         /\ Len(q) # 1 => Tail(q) # <<>>
<1>1. Len(q) \in Nat \ {0} /\ DOMAIN q = 1 .. Len(q) /\ Head(q) = q[1]
  OBVIOUS
<1>2. Tail(q) \in Seq(S) /\ Len(Tail(q)) = Len(q) - 1
      /\ \A i \in 1 .. Len(q) - 1 : Tail(q)[i] = q[i + 1]
  OBVIOUS
<1>3. ToSet(q) = {q[i] : i \in 1 .. Len(q)}
  BY <1>1 DEF ToSet
<1>4. ToSet(Tail(q)) = {Tail(q)[i] : i \in 1 .. Len(q) - 1}
  <2>1. DOMAIN Tail(q) = 1 .. Len(q) - 1
    BY <1>2
  <2> QED BY <2>1 DEF ToSet
<1>5. ASSUME NEW x \in ToSet(q) PROVE x = Head(q) \/ x \in ToSet(Tail(q))
  <2>1. PICK i \in 1 .. Len(q) : x = q[i]
    BY <1>3
  <2>2. CASE i = 1
    BY <2>1, <2>2, <1>1
  <2>3. CASE i # 1
    <3>1. i - 1 \in 1 .. Len(q) - 1 /\ Tail(q)[i - 1] = q[i]
      BY <2>3, <1>1, <1>2
    <3> QED BY <2>1, <3>1, <1>4
  <2> QED BY <2>2, <2>3
<1>6. ASSUME NEW x \in ToSet(Tail(q)) PROVE x \in ToSet(q)
  <2>1. PICK i \in 1 .. Len(q) - 1 : x = q[i + 1]
    BY <1>2, <1>4
  <2>2. i + 1 \in 1 .. Len(q)
    BY <1>1
  <2> QED BY <2>1, <2>2, <1>3
<1>7. Head(q) \in ToSet(q)
  BY <1>1, <1>3
<1>8. Len(q) # 1 => Tail(q) # <<>>
  BY <1>1, <1>2
<1>9. Len(q) = 1 => ToSet(q) = {Head(q)}
  BY <1>1, <1>3
<1> QED BY <1>2, <1>5, <1>6, <1>7, <1>8, <1>9

(* _determine_next_skill takes the first place of the plan with a file missing. *)
LEMMA Chosen ==
  ASSUME plan \in Plans
  PROVE  \/ NextSkill = "none" /\ \A i \in DOMAIN Requested : IsBuilt(i)
         \/ \E k \in DOMAIN Requested :
              /\ NextSkill = Requested[k] /\ NextSkill # "none" /\ ~IsBuilt(k)
              /\ \A j \in DOMAIN Requested : j < k => IsBuilt(j)
<1> DEFINE open == {i \in DOMAIN Requested : \E f \in Checked(Requested[i]) : ~OnDisk(f)}
<1>1. \A i \in DOMAIN Requested : i \in open <=> ~IsBuilt(i)
  BY DEF IsBuilt
<1>2. NextSkill = IF open = {} THEN "none" ELSE Requested[Min(open)]
  BY DEF NextSkill
<1>3. open \subseteq DOMAIN Requested
  OBVIOUS
<1> HIDE DEF open
<1>4. CASE open = {}
  BY <1>1, <1>2, <1>4
<1>5. CASE open # {}
  <2>1. open \subseteq Nat
    BY <1>3, RequestedIs DEF Places
  <2>2. Min(open) \in open /\ \A y \in open : Min(open) <= y
    BY <2>1, <1>5, MinimumIs
  <2>3. ASSUME NEW j \in DOMAIN Requested, j < Min(open) PROVE j \notin open
    <3>1. SUFFICES ASSUME j \in open PROVE FALSE
      OBVIOUS
    <3>2. Min(open) \in Nat /\ j \in Nat /\ Min(open) <= j
      BY <2>1, <2>2, <3>1
    <3> QED BY <2>3, <3>2
  <2>4. Min(open) \in DOMAIN Requested /\ Requested[Min(open)] # "none"
    BY <2>2, <1>3, RequestedIs, NamesDiffer
  <2> QED BY <2>2, <2>3, <2>4, <1>1, <1>2, <1>5
<1> QED BY <1>4, <1>5

-----------------------------------------------------------------------------
(* The files, through steps that leave them alone and the one that writes.    *)

DiskTyped ==
  /\ DOMAIN disk = Files
  /\ \A s \in Skills : \A f \in ToSet(Outputs(s)) : OnDisk(f) => disk[f] \in FilesOf(s)

FilesInv ==
  /\ plan \in Plans /\ executions \in Nat
  /\ DiskTyped /\ FilesInOrder /\ FilesAreSound /\ DerivedFromCurrent

LEMMA FileIs ==
  ASSUME FilesInv, NEW f \in Files, OnDisk(f)
  PROVE  \E i \in DOMAIN Requested :
           /\ i \in Places /\ Requested[i] = ScreeningPlan[i] /\ IsBegun(i)
           /\ f \in ToSet(Outputs(ScreeningPlan[i]))
           /\ disk[f] \in FilesOf(ScreeningPlan[i])
<1>1. PICK i \in DOMAIN Requested : f \in ToSet(Outputs(Requested[i]))
  BY DEF FilesInv, FilesInOrder
<1>2. i \in Places /\ Requested[i] = ScreeningPlan[i]
  BY RequestedIs DEF FilesInv
<1>3. ScreeningPlan[i] \in Skills
  BY <1>2, FilesAre
<1>4. disk[f] \in FilesOf(ScreeningPlan[i])
  BY <1>1, <1>2, <1>3 DEF FilesInv, DiskTyped
<1> QED BY <1>1, <1>2, <1>4 DEF IsBegun

(* What a skill that has everything before it reads is on disk, and nothing it *)
(* writes is among it.                                                        *)
LEMMA InputsOnDisk ==
  ASSUME plan \in Plans, NEW k \in DOMAIN Requested,
         \A j \in DOMAIN Requested : j < k => IsBuilt(j),
         NEW g \in Inputs(ScreeningPlan[k])
  PROVE  /\ g \in Files /\ OnDisk(g)
         /\ \E j \in DOMAIN Requested : j \in Places /\ j < k /\ g \in ToSet(Outputs(ScreeningPlan[j]))
<1>1. k \in Places /\ DOMAIN Requested = 1 .. 6 + plan /\ 6 + plan \in Nat
  BY RequestedIs
<1>2. PICK j \in Places : j < k /\ g \in Checked(ScreeningPlan[j])
  BY <1>1, InputsAre
<1>3. j \in DOMAIN Requested
  BY <1>1, <1>2 DEF Places
<1>4. Requested[j] = ScreeningPlan[j]
  BY <1>3, RequestedIs
<1>5. g \in ToSet(Outputs(ScreeningPlan[j])) /\ g \in Files
  BY <1>2, CheckedAre, FilesAre
<1>6. OnDisk(g)
  BY <1>2, <1>3, <1>4 DEF IsBuilt
<1> QED BY <1>2, <1>3, <1>5, <1>6

(* A step that leaves the files of the skills alone.                          *)
LEMMA FilesStand ==
  ASSUME FilesInv, plan' = plan, DOMAIN disk' = Files, \A f \in Files : disk'[f] = disk[f],
         executions' \in Nat, executions <= executions'
  PROVE  /\ FilesInv' /\ Requested' = Requested
         /\ \A f \in Files : OnDisk(f)' <=> OnDisk(f)
         /\ \A i \in DOMAIN Requested : (IsBuilt(i)' <=> IsBuilt(i)) /\ (IsBegun(i)' <=> IsBegun(i))
<1>1. Requested' = Requested
  BY DEF Requested, MinimalPlan, LandscapePlan, GapMappingPlan, IdeaGenerationPlan
<1>2. \A f \in Files : OnDisk(f)' <=> OnDisk(f)
  BY DEF OnDisk
<1>3. \A i \in DOMAIN Requested : /\ ToSet(Outputs(Requested[i])) \subseteq Files
                                  /\ Checked(Requested[i]) \subseteq Files
  BY RequestedIs, FilesAre DEF FilesInv
<1>4. \A i \in DOMAIN Requested : (IsBuilt(i)' <=> IsBuilt(i)) /\ (IsBegun(i)' <=> IsBegun(i))
  BY <1>1, <1>2, <1>3 DEF IsBuilt, IsBegun
<1>5. DiskTyped'
  <2>1. \A s \in Skills : ToSet(Outputs(s)) \subseteq Files
    BY DEF Files
  <2> QED BY <2>1, <1>2 DEF FilesInv, DiskTyped
<1>6. FilesInOrder'
  BY <1>1, <1>2, <1>4 DEF FilesInv, FilesInOrder
<1>7. FilesAreSound'
  <2> SUFFICES ASSUME NEW i \in DOMAIN Requested, NEW f \in ToSet(Outputs(Requested[i])), OnDisk(f)
               PROVE  /\ disk'[f].by <= executions'
                      /\ i >= 3 => disk'[f].found \in {"usable", "nothing"}
                      /\ i >= 8 => disk'[f].found = "usable" /\ disk'["selection"].found = "usable"
    BY <1>1, <1>2, <1>3 DEF FilesAreSound
  <2>1. f \in Files /\ disk'[f] = disk[f]
    BY <1>3
  <2>2. disk'["selection"] = disk["selection"]
    BY OutputsAre, FilesAre DEF Places
  <2>3. disk[f].by \in Nat
    BY <2>1, FileIs DEF FilesOf
  <2>4. disk[f].by <= executions
    BY DEF FilesInv, FilesAreSound
  <2>5. disk[f].by <= executions'
    BY <2>3, <2>4 DEF FilesInv
  <2> QED BY <2>1, <2>2, <2>5 DEF FilesInv, FilesAreSound
<1>8. DerivedFromCurrent'
  <2> SUFFICES ASSUME NEW f \in Files, OnDisk(f), NEW g \in DOMAIN disk[f].read
               PROVE  OnDisk(g)' /\ disk[f].read[g] = disk'[g].by
    BY <1>2 DEF DerivedFromCurrent
  <2>1. OnDisk(g) /\ disk[f].read[g] = disk[g].by
    BY DEF FilesInv, DerivedFromCurrent
  <2>2. g \in Files
    <3>1. PICK i \in DOMAIN Requested : i \in Places /\ disk[f] \in FilesOf(ScreeningPlan[i])
      BY FileIs
    <3>2. g \in Inputs(ScreeningPlan[i])
      BY <3>1 DEF FilesOf
    <3> QED BY <3>1, <3>2, InputsAre, FilesAre
  <2> QED BY <2>1, <2>2, <1>2
<1> QED BY <1>1, <1>2, <1>4, <1>5, <1>6, <1>7, <1>8 DEF FilesInv

(* A file of the skill at work is written, with nothing after it there.       *)
WrittenAt(k, h) ==
  /\ k \in DOMAIN Requested /\ skill = Requested[k]
  /\ \A j \in DOMAIN Requested : j < k => IsBuilt(j)
  /\ \A i \in DOMAIN Requested : k < i => ~IsBegun(i)
  /\ h \in ToSet(Outputs(skill)) /\ executions > 0 /\ content \in acquire
  /\ k >= 3 => content \in {"usable", "nothing"}
  /\ k >= 8 => content = "usable" /\ disk["selection"].found = "usable"
  /\ disk' = [disk EXCEPT ![h] = [by |-> executions, found |-> content,
                                  read |-> [f \in Inputs(skill) |-> disk[f].by]]]
  /\ plan' = plan /\ executions' = executions

LEMMA FileWritten ==
  ASSUME FilesInv, NEW k, NEW h, WrittenAt(k, h)
  PROVE  /\ FilesInv' /\ Requested' = Requested
         /\ OnDisk(h)' /\ \A f \in Files : OnDisk(f) => OnDisk(f)'
         /\ \A i \in DOMAIN Requested : IsBuilt(i) => IsBuilt(i)'
         /\ \A i \in DOMAIN Requested : k < i => ~IsBegun(i)'
         /\ k >= 8 => disk'["selection"].found = "usable"
<1> DEFINE R == [by |-> executions, found |-> content,
                 read |-> [f \in Inputs(skill) |-> disk[f].by]]
<1> USE DEF WrittenAt
<1>1. Requested' = Requested
  BY DEF Requested, MinimalPlan, LandscapePlan, GapMappingPlan, IdeaGenerationPlan
<1>2. /\ k \in Places /\ skill = ScreeningPlan[k] /\ DOMAIN Requested = 1 .. 6 + plan
      /\ 6 + plan \in Nat
      /\ \A i \in DOMAIN Requested : i \in Places /\ Requested[i] = ScreeningPlan[i]
  BY RequestedIs DEF FilesInv
<1>3. h \in Files /\ DOMAIN disk = Files /\ skill \in Skills
  BY <1>2, FilesAre DEF FilesInv, DiskTyped
<1>4. disk'[h] = R /\ \A f \in Files : f # h => disk'[f] = disk[f]
  BY <1>3
<1>5. R \in FilesOf(skill)
  <2>1. \A g \in Inputs(skill) : disk[g].by \in Nat
    <3> SUFFICES ASSUME NEW g \in Inputs(skill) PROVE disk[g].by \in Nat
      OBVIOUS
    <3>1. g \in Files /\ OnDisk(g)
      BY <1>2, InputsOnDisk DEF FilesInv
    <3> QED BY <3>1, FileIs DEF FilesOf
  <2>2. executions \in Nat \ {0}
    BY DEF FilesInv
  <2> QED BY <2>1, <2>2 DEF FilesOf
<1> HIDE DEF R
<1>6. OnDisk(h)' /\ \A f \in Files : f # h => (OnDisk(f)' <=> OnDisk(f))
  BY <1>3, <1>4, <1>5, MissingIsNoFile DEF OnDisk
<1>7. \A i \in DOMAIN Requested : /\ ToSet(Outputs(Requested[i])) \subseteq Files
                                  /\ Checked(Requested[i]) \subseteq Files
  BY <1>2, FilesAre
<1>8. \A i \in DOMAIN Requested : IsBuilt(i) => IsBuilt(i)'
  BY <1>1, <1>6, <1>7 DEF IsBuilt
<1>9. \A i \in DOMAIN Requested : i # k => h \notin ToSet(Outputs(Requested[i]))
  BY <1>2, OwnersDiffer
<1>10. \A i \in DOMAIN Requested : i # k => (IsBegun(i)' <=> IsBegun(i))
  BY <1>1, <1>6, <1>7, <1>9 DEF IsBegun
<1>11. \A i \in DOMAIN Requested : k < i => ~IsBegun(i)'
  BY <1>2, <1>10 DEF Places
<1>12. DiskTyped'
  <2>1. DOMAIN disk' = Files
    BY <1>3
  <2>2. ASSUME NEW s \in Skills, NEW f \in ToSet(Outputs(s)), OnDisk(f)'
        PROVE  disk'[f] \in FilesOf(s)
    <3>1. f \in Files
      BY DEF Files
    <3>2. CASE f = h
      <4>1. s = skill
        BY <1>2, <3>2, FilesOfPlaces
      <4> QED BY <1>4, <1>5, <3>2, <4>1
    <3>3. CASE f # h
      <4>1. OnDisk(f) /\ disk'[f] = disk[f]
        BY <1>4, <1>6, <2>2, <3>1, <3>3
      <4> QED BY <4>1 DEF FilesInv, DiskTyped
    <3> QED BY <3>2, <3>3
  <2> QED BY <2>1, <2>2 DEF DiskTyped
<1>13. FilesInOrder'
  <2>1. ASSUME NEW f \in Files, OnDisk(f)'
        PROVE  \E i \in DOMAIN Requested : f \in ToSet(Outputs(Requested[i]))
    <3>1. CASE f = h
      BY <3>1
    <3>2. CASE f # h
      BY <1>6, <2>1, <3>2 DEF FilesInv, FilesInOrder
    <3> QED BY <3>1, <3>2
  <2>2. ASSUME NEW i \in DOMAIN Requested, NEW j \in DOMAIN Requested, j < i, IsBegun(i)'
        PROVE  IsBuilt(j)'
    <3>1. CASE i = k
      BY <1>8, <2>2, <3>1
    <3>2. CASE i # k
      BY <1>8, <1>10, <2>2, <3>2 DEF FilesInv, FilesInOrder
    <3> QED BY <3>1, <3>2
  <2> QED BY <1>1, <2>1, <2>2 DEF FilesInOrder
<1>14. k >= 8 => disk'["selection"].found = "usable"
  <2>1. "selection" \in ToSet(Outputs(ScreeningPlan[5])) /\ 5 \in Places
    BY OutputsAre DEF Places
  <2>2. "selection" \in Files
    BY <2>1, FilesAre
  <2>3. k >= 8 => h # "selection"
    BY <1>2, <2>1, OwnersDiffer
  <2> QED BY <1>4, <2>2, <2>3
<1>15. FilesAreSound'
  <2>1. ASSUME NEW i \in DOMAIN Requested, NEW f \in ToSet(Outputs(Requested[i])), OnDisk(f)'
        PROVE  /\ disk'[f].by <= executions
               /\ i >= 3 => disk'[f].found \in {"usable", "nothing"}
               /\ i >= 8 => disk'[f].found = "usable" /\ disk'["selection"].found = "usable"
    <3>1. f \in Files /\ i \in Places /\ executions \in Nat
      BY <1>2, <1>7 DEF FilesInv
    <3>2. CASE f = h
      <4>1. i = k
        BY <1>9, <3>2
      <4>2. disk'[f].by = executions /\ disk'[f].found = content
        BY <1>4, <3>2 DEF R
      <4> QED BY <1>14, <3>1, <4>1, <4>2
    <3>3. CASE f # h
      <4>1. OnDisk(f) /\ disk'[f] = disk[f]
        BY <1>4, <1>6, <2>1, <3>1, <3>3
      <4>2. IsBegun(i)
        BY <4>1 DEF IsBegun
      <4>3. i >= 8 => k >= 8
        BY <1>2, <3>1, <4>2 DEF Places
      <4> QED BY <1>14, <4>1, <4>3 DEF FilesInv, FilesAreSound
    <3> QED BY <3>2, <3>3
  <2> QED BY <1>1, <2>1 DEF FilesAreSound
<1>16. DerivedFromCurrent'
  <2>1. ASSUME NEW f \in Files, OnDisk(f)', NEW g \in DOMAIN disk'[f].read
        PROVE  OnDisk(g)' /\ disk'[f].read[g] = disk'[g].by
    <3>1. CASE f = h
      <4>1. g \in Inputs(skill) /\ disk'[f].read[g] = disk[g].by
        BY <1>4, <3>1 DEF R
      <4>2. g \in Files /\ OnDisk(g) /\ \E j \in DOMAIN Requested :
               j \in Places /\ j < k /\ g \in ToSet(Outputs(ScreeningPlan[j]))
        BY <1>2, <4>1, InputsOnDisk DEF FilesInv
      <4>3. g # h
        BY <1>2, <1>9, <4>2 DEF Places
      <4> QED BY <1>4, <1>6, <4>1, <4>2, <4>3
    <3>2. CASE f # h
      <4>1. OnDisk(f) /\ disk'[f] = disk[f]
        BY <1>4, <1>6, <2>1, <3>2
      <4>2. PICK i \in DOMAIN Requested :
              i \in Places /\ IsBegun(i) /\ disk[f] \in FilesOf(ScreeningPlan[i])
        BY <4>1, FileIs
      <4>3. g \in Inputs(ScreeningPlan[i])
        BY <4>1, <4>2 DEF FilesOf
      <4>4. \A j \in DOMAIN Requested : j < i => IsBuilt(j)
        BY <4>2 DEF FilesInv, FilesInOrder
      <4>5. g \in Files /\ OnDisk(g) /\ \E j \in DOMAIN Requested :
               j \in Places /\ j < i /\ g \in ToSet(Outputs(ScreeningPlan[j]))
        BY <4>3, <4>4, InputsOnDisk DEF FilesInv
      <4>6. ~(k < i)
        BY <4>2
      <4>7. g # h
        BY <1>2, <1>9, <4>2, <4>5, <4>6 DEF Places
      <4>8. disk[f].read[g] = disk[g].by
        BY <4>1 DEF FilesInv, DerivedFromCurrent
      <4> QED BY <1>4, <1>6, <4>1, <4>5, <4>7, <4>8
    <3> QED BY <3>1, <3>2
  <2> QED BY <2>1 DEF DerivedFromCurrent
<1>17. FilesInv'
  BY <1>12, <1>13, <1>15, <1>16 DEF FilesInv
<1> QED BY <1>1, <1>6, <1>8, <1>11, <1>14, <1>17

-----------------------------------------------------------------------------
(* The skill at work.                                                         *)

(* The inductive invariant, but for what follows from it.                     *)
Core ==
  /\ TypeOK /\ FilesInv /\ DoneIsBuilt /\ CompletedIsRecorded /\ ListedIsBuilt /\ WithinBudget
  /\ WorkInOrder /\ WritesInOrder

(* The skill at work is at a place of the plan, with its inputs there.        *)
LEMMA AtWork ==
  ASSUME Core, Working
  PROVE  \E k \in DOMAIN Requested :
           /\ k \in Places /\ skill = ScreeningPlan[k] /\ skill # "none" /\ skill \in Skills
           /\ AtPlace(k) /\ \A g \in Inputs(skill) : g \in Files /\ OnDisk(g)
<1>1. PICK k \in DOMAIN Requested : AtPlace(k)
  BY DEF Core, WorkInOrder
<1>2. k \in Places /\ Requested[k] = ScreeningPlan[k]
  BY RequestedIs DEF Core, TypeOK
<1>3. skill = ScreeningPlan[k] /\ skill # "none" /\ skill \in Skills
  BY <1>1, <1>2, NamesDiffer, FilesAre DEF AtPlace
<1>4. \A g \in Inputs(skill) : g \in Files /\ OnDisk(g)
  BY <1>1, <1>3, InputsOnDisk DEF AtPlace, Core, TypeOK
<1> QED BY <1>1, <1>2, <1>3, <1>4

(* So nobody refuses it, and the gates find its files.                        *)
LEMMA PresentInputs ==
  ASSUME Core
  PROVE  InputsPresent
<1>1. ASSUME pc = "execute" PROVE Refusal(skill) = "none"
  <2>1. PICK k \in DOMAIN Requested : k \in Places /\ skill = ScreeningPlan[k]
                                      /\ \A g \in Inputs(skill) : OnDisk(g)
    BY <1>1, AtWork DEF Working
  <2>2. PreflightReads(skill) \subseteq Inputs(skill)
    BY <2>1, PlaceNames DEF PreflightReads, Inputs, Selected, Places
  <2> QED BY <2>1, <2>2 DEF Refusal
<1>2. ASSUME pc = "gates" PROVE GatesPass(skill)
  BY <1>2 DEF Core, WritesInOrder, Working, GatesPass
<1> QED BY <1>1, <1>2 DEF InputsPresent

LEMMA EvidenceOfGaps ==
  ASSUME Core
  PROVE  GapsHaveEvidence
<1> SUFFICES ASSUME NEW f \in {"gaps", "ideas", "screening"}, OnDisk(f)
             PROVE  disk[f].found = "usable"
  BY DEF GapsHaveEvidence
<1>1. PICK j \in Places : j \in {8, 9, 10} /\ f \in ToSet(Outputs(ScreeningPlan[j]))
  BY OutputsAre DEF Places
<1>2. f \in Files
  BY <1>1, FilesAre
<1>3. PICK i \in DOMAIN Requested : i \in Places /\ f \in ToSet(Outputs(ScreeningPlan[i]))
                                    /\ Requested[i] = ScreeningPlan[i]
  BY <1>2, FileIs DEF Core
<1>4. i = j
  BY <1>1, <1>3, OwnersDiffer
<1> QED BY <1>1, <1>3, <1>4 DEF Core, FilesInv, FilesAreSound, Places

(* What a skill that is about to write makes of its inputs.                   *)
LEMMA FindsOfFiles ==
  ASSUME Core, NEW i \in Places, NEW k \in DOMAIN Requested, i < k, IsBuilt(i),
         NEW f \in Checked(ScreeningPlan[i])
  PROVE  /\ OnDisk(f) /\ disk[f].found \in acquire
         /\ i >= 3 => disk[f].found \in {"usable", "nothing"}
         /\ i >= 8 => disk["selection"].found = "usable"
<1>1. DOMAIN Requested = 1 .. 6 + plan /\ 6 + plan \in Nat
  BY RequestedIs DEF Core, TypeOK
<1>2. i \in DOMAIN Requested
  BY <1>1 DEF Places
<1>3. Requested[i] = ScreeningPlan[i] /\ ScreeningPlan[i] \in Skills
  BY <1>2, RequestedIs, FilesAre DEF Core, TypeOK
<1>4. f \in ToSet(Outputs(Requested[i])) /\ OnDisk(f)
  BY <1>3, CheckedAre DEF IsBuilt
<1>5. disk[f] \in FilesOf(ScreeningPlan[i])
  BY <1>3, <1>4 DEF Core, FilesInv, DiskTyped
<1>6. disk[f].found \in acquire
  BY <1>5 DEF FilesOf
<1>7. i >= 3 => disk[f].found \in {"usable", "nothing"}
  BY <1>2, <1>4 DEF Core, FilesInv, FilesAreSound
<1>8. i >= 8 => disk["selection"].found = "usable"
  BY <1>2, <1>4 DEF Core, FilesInv, FilesAreSound
<1> QED BY <1>4, <1>6, <1>7, <1>8

(* What it makes: usable from the gaps on, because a skill that writes them     *)
(* refuses an empty selection and the screening comes after the gaps.         *)
LEMMA MadeContents ==
  ASSUME Core, NEW k \in DOMAIN Requested, AtPlace(k), NEW c \in Made(skill),
         NEW r \in Outcomes(skill)
  PROVE  /\ c \in acquire
         /\ k >= 3 => c \in {"usable", "nothing"}
         /\ k >= 8 /\ Written(skill, r) # <<>> =>
              c = "usable" /\ disk["selection"].found = "usable"
<1>1. /\ k \in Places /\ skill = ScreeningPlan[k]
      /\ \A i \in Places : i < k => IsBuilt(i)
  <2>1. DOMAIN Requested = 1 .. 6 + plan /\ 6 + plan \in Nat /\ k \in Places
        /\ Requested[k] = ScreeningPlan[k]
    BY RequestedIs DEF Core, TypeOK
  <2>2. \A i \in Places : i < k => i \in DOMAIN Requested
    BY <2>1 DEF Places
  <2> QED BY <2>1, <2>2 DEF AtPlace
<1> DEFINE At(i, g) == i \in Places /\ g \in Checked(ScreeningPlan[i])
<1>2. /\ At(1, "packet") /\ At(2, "seeds") /\ At(3, "initial") /\ At(4, "enriched")
      /\ At(5, "selection") /\ At(8, "gaps")
  BY CheckedAre, OutputsAre DEF Places
<1>3. ASSUME NEW i \in Places, NEW g, i < k, At(i, g)
      PROVE  /\ disk[g].found \in acquire
             /\ i >= 3 => disk[g].found \in {"usable", "nothing"}
             /\ i >= 8 => disk["selection"].found = "usable"
  BY <1>1, <1>3, FindsOfFiles
<1> HIDE DEF At
<1>4. CASE k = 1
  BY <1>1, <1>4, PlaceNames DEF Made
<1>5. CASE k = 2
  BY <1>1, <1>2, <1>3, <1>5, PlaceNames DEF Made, create_evidence_seeds, Places
<1>6. CASE k = 3
  <2>1. c = IF disk["seeds"].found = "usable" THEN "usable" ELSE "nothing"
    BY <1>1, <1>6, PlaceNames DEF Made, extract_evidence_cards
  <2>2. disk["seeds"].found \in acquire /\ "nothing" \in acquire
    BY <1>2, <1>3, <1>6 DEF Places, acquire, TimeoutPacket
  <2> QED BY <1>6, <2>1, <2>2
<1>7. CASE k = 4
  <2>1. c = disk["initial"].found
    BY <1>1, <1>7, PlaceNames DEF Made, enrich_evidence_cards
  <2> QED BY <1>2, <1>3, <1>7, <2>1 DEF Places
<1>8. CASE k = 5
  <2>1. c = disk["enriched"].found
    BY <1>1, <1>8, PlaceNames DEF Made, rank_evidence
  <2> QED BY <1>2, <1>3, <1>8, <2>1 DEF Places
<1>9. CASE k \in 6 .. 10
  <2>1. c = disk["selection"].found
    BY <1>1, <1>9, PlaceNames DEF Made, build_minimal_report, Places
  <2>2. c \in acquire /\ c \in {"usable", "nothing"}
    BY <1>2, <1>3, <1>9, <2>1 DEF Places
  <2>3. CASE k \in {8, 9}
    <3>1. skill \in NeedsEvidence /\ skill # "retrieve_sources"
          /\ skill # "screen_novelty_feasibility_risk"
      BY <1>1, <2>3, PlaceNames DEF NeedsEvidence, Places
    <3>2. Written(skill, r) # <<>> => r # "validation_failed"
      BY <3>1 DEF Written
    <3>3. Written(skill, r) # <<>> => c # "nothing"
      BY <2>1, <3>1, <3>2 DEF Outcomes
    <3> QED BY <2>1, <2>2, <2>3, <3>3
  <2>4. CASE k = 10
    <3>1. disk["selection"].found = "usable"
      BY <1>2, <1>3, <2>4 DEF Places
    <3> QED BY <2>1, <2>2, <2>4, <3>1
  <2>5. CASE k \in {6, 7}
    BY <2>2, <2>5
  <2> QED BY <1>9, <2>3, <2>4, <2>5
<1> QED BY <1>1, <1>4, <1>5, <1>6, <1>7, <1>8, <1>9 DEF Places

-----------------------------------------------------------------------------
(* The steps before the first round, and those that end a run.                *)

(* What the rows, state.json and the manifest say stays true while no file     *)
(* goes.                                                                      *)
LEMMA RecordsStand ==
  ASSUME Core, Requested' = Requested, \A f \in Files : OnDisk(f) => OnDisk(f)'
  PROVE  /\ step' \in {step} \cup {"pending", "running", "blocked", "failed"} => DoneIsBuilt'
         /\ artifacts' \cup emitted' \subseteq artifacts \cup emitted => ListedIsBuilt'
         /\ (\/ state' = state
             \/ state # Missing /\ state'.completed \subseteq state.completed)
            /\ (manifest # Missing => manifest' # Missing /\ manifest \subseteq manifest')
              => CompletedIsRecorded'
<1>1. \A i \in DOMAIN Requested : Checked(Requested[i]) \subseteq Files
  BY RequestedIs, FilesAre DEF Core, TypeOK
<1>2. ASSUME step' \in {step} \cup {"pending", "running", "blocked", "failed"}
      PROVE  DoneIsBuilt'
  <2>1. step' = "done" => step = "done"
    BY <1>2
  <2> QED BY <1>1, <2>1 DEF Core, DoneIsBuilt
<1>3. ASSUME artifacts' \cup emitted' \subseteq artifacts \cup emitted
      PROVE  ListedIsBuilt'
  <2>1. artifacts \cup emitted \subseteq Files
    BY DEF Core, TypeOK
  <2> QED BY <1>3, <2>1 DEF Core, ListedIsBuilt
<1>4. ASSUME \/ state' = state
             \/ state # Missing /\ state'.completed \subseteq state.completed,
             manifest # Missing => manifest' # Missing /\ manifest \subseteq manifest'
      PROVE  CompletedIsRecorded'
  <2> SUFFICES ASSUME state' # Missing, NEW s \in state'.completed, NEW f \in ToSet(Outputs(s))
               PROVE  manifest' # Missing /\ f \in manifest' /\ OnDisk(f)'
    BY DEF CompletedIsRecorded
  <2>1. state # Missing /\ s \in state.completed
    BY <1>4
  <2>2. manifest # Missing /\ f \in manifest /\ OnDisk(f)
    BY <2>1 DEF Core, CompletedIsRecorded
  <2>3. s \in Skills
    BY <2>1 DEF Core, TypeOK, States
  <2>4. f \in Files
    BY <2>3 DEF Files
  <2> QED BY <1>4, <2>2, <2>4
<1> QED BY <1>2, <1>3, <1>4

LEMMA StateIs ==
  ASSUME Core, state # Missing
  PROVE  /\ state \in States /\ state.completed \subseteq Skills
         /\ \A s \in Results \cup {"initialized", "running", "completed"} :
              /\ [state EXCEPT !.status = s] \in States
              /\ [state EXCEPT !.status = s].completed = state.completed
         /\ \A S \in SUBSET Skills : [status |-> "running", completed |-> S] \in States
<1>1. state \in States
  BY DEF Core, TypeOK
<1> QED BY <1>1 DEF States

LEMMA CoreInit ==
  ASSUME Init
  PROVE  Core
<1>1. plan \in Plans /\ \A f \in Files : ~OnDisk(f)
  BY DEF Init, OnDisk
<1>2. /\ DOMAIN Requested = 1 .. 6 + plan /\ plan \in 0 .. 4
      /\ \A i \in DOMAIN Requested : ToSet(Outputs(Requested[i])) \subseteq Files
  BY <1>1, RequestedIs, FilesAre, ConstantsAssumption
<1>3. \A s \in Skills : ToSet(Outputs(s)) \subseteq Files
  BY DEF Files
<1>4. DiskTyped
  BY <1>1, <1>3 DEF Init, DiskTyped
<1>5. TypeOK
  <2>1. todo \in Seq(Files)
    BY DEF Init
  <2>2. result \in Results /\ step \in {"pending", "running", "done", "blocked", "failed"}
        /\ pc = "idle" /\ skill \in Skills \cup {"none"} /\ content \in acquire \cup {"none"}
    BY DEF Init, Results
  <2>3. runs \in 0 .. MaxRuns /\ failures \in 0 .. MaxFailures /\ step_index \in Nat
        /\ executions \in Nat
    BY ConstantsAssumption DEF Init
  <2>4. exists \in BOOLEAN /\ plan_md \in BOOLEAN
    BY DEF Init
  <2>5. artifacts \subseteq Files /\ emitted \subseteq Files
    BY DEF Init
  <2>6. state \in States \cup {Missing} /\ manifest \in (SUBSET Files) \cup {Missing}
    BY DEF Init
  <2> QED BY <1>1, <1>4, <2>1, <2>2, <2>3, <2>4, <2>5, <2>6 DEF TypeOK, DiskTyped
<1>6. FilesInv
  BY <1>1, <1>2, <1>4
    DEF Init, FilesInv, FilesInOrder, IsBegun, FilesAreSound, DerivedFromCurrent
<1>7. WithinBudget
  BY <1>2 DEF Init, WithinBudget, MaxSteps
<1> QED
  BY <1>5, <1>6, <1>7 DEF Init, Core, DoneIsBuilt, CompletedIsRecorded, ListedIsBuilt,
          WorkInOrder, Working, Finished, WritesInOrder

(* A run that ends, or has not come to its first round.                       *)
LEMMA Opening ==
  ASSUME Core, plan' = plan, executions' = executions,
         FilesInv', Requested' = Requested,
         pc' \in {"idle", "mkdir", "plan", "state", "manifest", "replan", "begin"},
         pc' # "idle" => step_index' = 0, step_index' \in {step_index, 0},
         pc' = "manifest" => state' # Missing /\ state'.completed = {}
  PROVE  WithinBudget' /\ WorkInOrder' /\ WritesInOrder'
<1>1. WithinBudget'
  BY ConstantsAssumption DEF Core, TypeOK, WithinBudget, MaxSteps
<1>2. ~Working' /\ ~Finished'
  BY DEF Working, Finished
<1> QED BY <1>1, <1>2 DEF WorkInOrder, WritesInOrder

LEMMA Opens ==
  ASSUME Core, \/ \E r \in BOOLEAN : start(r)
               \/ mkdir \/ write_plan \/ reset_state \/ reset_manifest \/ file_not_found \/ raises
  PROVE  Core'
<1>1. /\ plan' = plan /\ executions' = executions /\ DOMAIN disk' = Files
      /\ \A f \in Files : disk'[f] = disk[f]
  <2>1. DOMAIN disk = Files
    BY DEF Core, TypeOK
  <2> QED
    BY <2>1
      DEF start, mkdir, Kept, write_plan, reset_state, reset_manifest, file_not_found,
             raises, files
<1>2. /\ FilesInv' /\ Requested' = Requested /\ \A f \in Files : OnDisk(f)' <=> OnDisk(f)
  <2>1. executions \in Nat
    BY DEF Core, TypeOK
  <2> QED BY <1>1, <2>1, FilesStand DEF Core
<1>3. pc' \in {"idle", "mkdir", "plan", "state", "manifest", "replan", "begin"}
  BY DEF start, mkdir, write_plan, reset_state, reset_manifest, file_not_found, raises,
      Goto, Return
<1>4. pc' # "idle" => step_index' = 0
  BY DEF start, mkdir, write_plan, reset_state, reset_manifest, file_not_found, raises,
      Goto, Return,
         Core, WorkInOrder
<1>5. step_index' \in {step_index, 0}
  BY DEF start, mkdir, write_plan, reset_state, reset_manifest, file_not_found, raises
<1>6. /\ pc' = "manifest" => state' # Missing /\ state'.completed = {}
      /\ state' = state \/ state' = [status |-> "initialized", completed |-> {}]
      /\ state' \in States \cup {Missing}
  <2>1. [status |-> "initialized", completed |-> {}] \in States
    BY DEF States
  <2>2. state \in States \cup {Missing}
    BY DEF Core, TypeOK
  <2>3. CASE reset_state
    BY <2>1, <2>3, MissingIsNoFile DEF reset_state, Goto
  <2>4. CASE ~reset_state
    <3>1. state' = state /\ pc' # "manifest"
      BY <2>4 DEF start, mkdir, write_plan, reset_manifest, file_not_found, raises,
          Goto, Return, files
    <3> QED BY <2>2, <3>1
  <2> QED BY <2>3, <2>4
<1>7. WithinBudget' /\ WorkInOrder' /\ WritesInOrder'
  BY <1>1, <1>2, <1>3, <1>4, <1>5, <1>6, Opening
<1>8. /\ step' = step /\ artifacts' = artifacts /\ emitted' \in {emitted, {}}
  BY DEF start, mkdir, write_plan, reset_state, reset_manifest, file_not_found, raises,
      row
<1>9. DoneIsBuilt' /\ ListedIsBuilt'
  BY <1>2, <1>8, RecordsStand
<1>10. CompletedIsRecorded'
  <2>1. CASE state' = state /\ manifest' = manifest
    BY <1>2, <2>1, RecordsStand
  <2>2. CASE state' # Missing /\ state'.completed = {}
    BY <2>2 DEF CompletedIsRecorded
  <2>3. CASE reset_manifest
    BY <2>3, <2>2 DEF reset_manifest, Core, WritesInOrder
  <2>4. ~reset_manifest => manifest' = manifest
    BY DEF start, mkdir, write_plan, reset_state, file_not_found, raises, files
  <2>5. state' # Missing \/ state' = state
    BY <1>6, MissingIsNoFile DEF States
  <2> QED BY <1>6, <2>1, <2>2, <2>3, <2>4, <2>5
<1>11. TypeOK'
  <2>1. /\ exists' \in BOOLEAN /\ plan_md' \in BOOLEAN /\ manifest' \in (SUBSET Files) \cup {Missing}
        /\ skill' \in Skills \cup {"none"} /\ result' \in Results /\ todo' \in Seq(Files)
        /\ content' \in acquire \cup {"none"} /\ runs' \in 0 .. MaxRuns
        /\ failures' \in 0 .. MaxFailures
    <3>1. <<>> \in Seq(Files) /\ "success" \in Results
      BY DEF Results
    <3>2. UNCHANGED call \/ Return
      BY DEF start, mkdir, write_plan, reset_state, reset_manifest, file_not_found,
          raises, Goto
    <3>3. /\ skill' \in Skills \cup {"none"} /\ result' \in Results /\ todo' \in Seq(Files)
          /\ content' \in acquire \cup {"none"}
      BY <3>1, <3>2 DEF Core, TypeOK, Return, call
    <3>4. /\ exists' \in {exists, TRUE} /\ plan_md' \in {plan_md, TRUE}
          /\ manifest' \in {manifest, {}}
      BY DEF start, mkdir, write_plan, reset_state, reset_manifest, file_not_found,
          raises, files
    <3>5. exists' \in BOOLEAN /\ plan_md' \in BOOLEAN /\ manifest' \in (SUBSET Files) \cup {Missing}
      BY <3>4 DEF Core, TypeOK
    <3>6. /\ runs' = runs \/ (runs < MaxRuns /\ runs' = runs + 1)
          /\ failures' = failures \/ (failures < MaxFailures /\ failures' = failures + 1)
      BY DEF start, mkdir, write_plan, reset_state, reset_manifest, file_not_found,
          raises
    <3>7. runs' \in 0 .. MaxRuns /\ failures' \in 0 .. MaxFailures
      BY <3>6, ConstantsAssumption DEF Core, TypeOK
    <3> QED BY <3>3, <3>5, <3>7
  <2>2. step_index' \in Nat /\ artifacts' \subseteq Files /\ emitted' \subseteq Files
    BY <1>5, <1>8 DEF Core, TypeOK
  <2> QED
    BY <1>1, <1>2, <1>3, <1>6, <1>8, <2>1, <2>2 DEF Core, TypeOK, FilesInv, DiskTyped
<1> QED BY <1>2, <1>7, <1>9, <1>10, <1>11 DEF Core

-----------------------------------------------------------------------------
(* A round up to the first write.                                             *)

(* A step that writes none of the files of the skills.                        *)
LEMMA DiskStands ==
  ASSUME Core, plan' = plan, disk' = disk, executions' \in {executions, executions + 1}
  PROVE  /\ FilesInv' /\ Requested' = Requested
         /\ \A f \in Files : OnDisk(f)' <=> OnDisk(f)
         /\ \A i \in DOMAIN Requested : (IsBuilt(i)' <=> IsBuilt(i)) /\ (IsBegun(i)' <=> IsBegun(i))
<1>1. executions \in Nat /\ DOMAIN disk = Files
  BY DEF Core, TypeOK
<1>2. executions' \in Nat /\ executions <= executions'
  BY <1>1
<1> QED BY <1>1, <1>2, FilesStand DEF Core

LEMMA Begins ==
  ASSUME Core, begin
  PROVE  Core'
<1>1. /\ FilesInv' /\ Requested' = Requested /\ \A f \in Files : OnDisk(f)' <=> OnDisk(f)
  BY DiskStands DEF begin, files
<1>2. DoneIsBuilt' /\ ListedIsBuilt' /\ CompletedIsRecorded'
  BY <1>1, RecordsStand DEF begin, files
<1>3. TypeOK' /\ WithinBudget'
  BY <1>1 DEF Core, TypeOK, WithinBudget, MaxSteps, begin, files, Goto, call, FilesInv,
      DiskTyped
<1>4. DOMAIN Requested = 1 .. 6 + plan /\ 6 + plan \in Nat /\ step_index = 0
  BY RequestedIs DEF Core, TypeOK, WorkInOrder, begin
<1>5. pc' = "choose" /\ step_index' = 0 /\ plan' = plan
  BY <1>4 DEF begin, Goto
<1>6. ~Working' /\ ~Finished'
  BY <1>5 DEF Working, Finished
<1>7. WorkInOrder' /\ WritesInOrder'
  BY <1>1, <1>4, <1>5, <1>6 DEF WorkInOrder, WritesInOrder
<1> QED BY <1>1, <1>2, <1>3, <1>7 DEF Core

LEMMA Chooses ==
  ASSUME Core, choose
  PROVE  Core'
<1>1. /\ FilesInv' /\ Requested' = Requested /\ \A f \in Files : OnDisk(f)' <=> OnDisk(f)
      /\ \A i \in DOMAIN Requested : (IsBuilt(i)' <=> IsBuilt(i)) /\ (IsBegun(i)' <=> IsBegun(i))
  BY DiskStands DEF choose, files
<1>2. DoneIsBuilt' /\ ListedIsBuilt' /\ CompletedIsRecorded'
  BY <1>1, RecordsStand DEF choose, files, row
<1>3. /\ DOMAIN Requested = 1 .. 6 + plan /\ 6 + plan \in Nat /\ plan \in Nat
      /\ \A i \in DOMAIN Requested : i \in Places /\ Requested[i] = ScreeningPlan[i]
  BY RequestedIs, ConstantsAssumption DEF Core, TypeOK
<1>4. /\ step_index \in 0 .. 6 + plan /\ \A i \in DOMAIN Requested : ~IsBuilt(i) => step_index < i
      /\ step_index' = step_index + 1 /\ skill' = NextSkill /\ plan' = plan
      /\ pc' = IF NextSkill = "none" THEN "finish" ELSE "execute"
  BY DEF Core, WorkInOrder, choose
<1>5. WithinBudget' /\ step_index' \in Nat
  BY <1>3, <1>4 DEF WithinBudget, MaxSteps
<1>6. CASE NextSkill = "none" /\ \A i \in DOMAIN Requested : IsBuilt(i)
  <2>1. pc' = "finish" /\ skill' = "none"
    BY <1>4, <1>6
  <2>2. ~Working'
    BY <2>1 DEF Working
  <2>3. WorkInOrder' /\ WritesInOrder' /\ skill' \in Skills \cup {"none"}
    BY <1>1, <1>6, <2>1, <2>2 DEF WorkInOrder, WritesInOrder
  <2>4. TypeOK'
    BY <1>1, <1>5, <2>1, <2>3 DEF Core, TypeOK, choose, files, row, FilesInv, DiskTyped
  <2> QED BY <1>1, <1>2, <1>5, <2>3, <2>4 DEF Core
<1>7. ASSUME NEW k \in DOMAIN Requested, NextSkill = Requested[k], NextSkill # "none", ~IsBuilt(k),
             \A j \in DOMAIN Requested : j < k => IsBuilt(j)
      PROVE  Core'
  <2>1. pc' = "execute" /\ skill' = Requested[k] /\ skill' # "none"
    BY <1>4, <1>7
  <2>2. step_index' <= k
    BY <1>3, <1>4, <1>7
  <2>3. \A i \in DOMAIN Requested : k < i => ~IsBegun(i)
    BY <1>7 DEF Core, FilesInv, FilesInOrder
  <2>4. AtPlace(k)'
    BY <1>1, <1>7, <2>1, <2>2, <2>3 DEF AtPlace
  <2>5. ~Finished'
    BY <2>1 DEF Finished
  <2>6. WorkInOrder' /\ WritesInOrder'
    BY <1>1, <2>1, <2>4, <2>5 DEF WorkInOrder, WritesInOrder
  <2>7. skill' \in Skills
    BY <1>3, <2>1, FilesAre
  <2>8. TypeOK'
    BY <1>1, <1>5, <2>1, <2>7 DEF Core, TypeOK, choose, files, row, FilesInv, DiskTyped
  <2> QED BY <1>1, <1>2, <1>5, <2>6, <2>8 DEF Core
<1> QED BY <1>6, <1>7, Chosen DEF Core, TypeOK

LEMMA Finishes ==
  ASSUME Core, finish
  PROVE  Core'
<1>1. /\ FilesInv' /\ Requested' = Requested /\ \A f \in Files : OnDisk(f)' <=> OnDisk(f)
      /\ \A i \in DOMAIN Requested : (IsBuilt(i)' <=> IsBuilt(i)) /\ (IsBegun(i)' <=> IsBegun(i))
  BY DiskStands DEF finish
<1>2. state' \in States /\ state'.completed = state.completed
  BY StateIs DEF finish
<1>3. DoneIsBuilt' /\ ListedIsBuilt' /\ CompletedIsRecorded'
  BY <1>1, <1>2, RecordsStand DEF finish, row
<1>4. /\ skill = "none" /\ \A i \in DOMAIN Requested : IsBuilt(i)
      /\ pc' = "report" /\ skill' = "none"
  BY DEF Core, WorkInOrder, Finished, finish, Goto, call
<1>5. ~Working'
  BY <1>4 DEF Working
<1>6. WorkInOrder' /\ WritesInOrder'
  BY <1>1, <1>4, <1>5 DEF WorkInOrder, WritesInOrder
<1>7. TypeOK' /\ WithinBudget'
  BY <1>1, <1>2, <1>4
    DEF Core, TypeOK, WithinBudget, MaxSteps, finish, row, Goto, call, FilesInv,
     DiskTyped
<1> QED BY <1>1, <1>3, <1>6, <1>7 DEF Core

LEMMA Executes ==
  ASSUME Core, execute
  PROVE  Core'
<1>1. begin_skill
  BY PresentInputs DEF execute, InputsPresent
<1>2. /\ FilesInv' /\ Requested' = Requested /\ \A f \in Files : OnDisk(f)' <=> OnDisk(f)
      /\ \A i \in DOMAIN Requested : (IsBuilt(i)' <=> IsBuilt(i)) /\ (IsBegun(i)' <=> IsBegun(i))
  BY <1>1, DiskStands DEF execute, begin_skill, files
<1>3. DoneIsBuilt' /\ ListedIsBuilt' /\ CompletedIsRecorded'
  BY <1>2, RecordsStand DEF execute, files, row
<1>4. PICK r \in Outcomes(skill), c \in Made(skill) :
        /\ result' = r /\ content' = c /\ todo' = Written(skill, r)
        /\ pc' = IF Written(skill, r) = <<>> THEN "record" ELSE "write"
  BY <1>1 DEF begin_skill
<1>5. PICK k \in DOMAIN Requested :
        k \in Places /\ skill = ScreeningPlan[k] /\ AtPlace(k) /\ skill # "none"
  BY AtWork DEF execute, Working
<1>6. /\ c \in acquire /\ c # "none"
      /\ k >= 3 => c \in {"usable", "nothing"}
      /\ k >= 8 /\ Written(skill, r) # <<>> =>
           c = "usable" /\ disk["selection"].found = "usable"
  BY <1>5, MadeContents, ConstantsAssumption DEF acquire, TimeoutPacket
<1>7. r \in Results
  BY DEF Outcomes, Results
<1>8. Outputs(skill) \in Seq(Files) /\ Outputs(skill) # <<>>
  BY <1>5, ToWrite
<1>9. /\ r = "success" => Written(skill, r) = Outputs(skill)
      /\ Written(skill, r) \in Seq(Files)
      /\ ToSet(Written(skill, r)) \subseteq ToSet(Outputs(skill))
  <2>1. CASE r = "success"
    BY <1>8, <2>1 DEF Written
  <2>2. CASE r = "validation_failed" /\ skill = "screen_novelty_feasibility_risk"
    <3>1. k = 10
      <4>1. 10 \in Places /\ ScreeningPlan[10] = ScreeningPlan[k]
        BY <1>5, <2>2, PlaceNames DEF Places
      <4> QED BY <1>5, <4>1, NamesDiffer
    <3>2. "screening_diagnostics" \in ToSet(Outputs(skill))
      BY <1>5, <3>1, OutputsAre
    <3>3. "screening_diagnostics" \in Files
      BY <1>5, <3>2, FilesAre
    <3>4. Written(skill, r) = <<"screening_diagnostics">>
      BY <2>2 DEF Written
    <3>5. ToSet(<<"screening_diagnostics">>) = {"screening_diagnostics"}
      BY DEF ToSet
    <3>6. ASSUME NEW x \in Files PROVE <<x>> \in Seq(Files)
      OBVIOUS
    <3> QED BY <2>2, <3>2, <3>3, <3>4, <3>5, <3>6
  <2>3. CASE r # "success" /\ ~(r = "validation_failed" /\ skill = "screen_novelty_feasibility_risk")
    <3>1. Written(skill, r) = <<>>
      BY <2>3 DEF Written
    <3>2. ToSet(<<>>) = {}
      BY DEF ToSet
    <3> QED BY <2>3, <3>1, <3>2
  <2> QED BY <2>1, <2>2, <2>3
<1>10. /\ pc' = IF todo' = <<>> THEN "record" ELSE "write"
       /\ skill' = skill /\ step_index' = step_index /\ executions' = executions + 1
  BY <1>1, <1>4 DEF execute, begin_skill
<1>11. DOMAIN Requested = 1 .. 6 + plan /\ disk' = disk /\ executions \in Nat
  BY RequestedIs DEF Core, TypeOK, execute, files
<1>12. AtPlace(k)'
  <2>1. pc = "execute"
    BY DEF execute
  <2> QED BY <1>2, <1>4, <1>5, <1>6, <1>10, <1>11, <2>1 DEF AtPlace
<1>13. ~Finished'
  BY <1>10 DEF Finished
<1>14. WorkInOrder'
  BY <1>2, <1>10, <1>12, <1>13 DEF WorkInOrder
<1>15. WritesInOrder'
  <2>1. executions' > 0
    BY <1>10, <1>11
  <2>2. result' = "success" => pc' = "write"
    BY <1>4, <1>8, <1>9, <1>10
  <2> QED BY <1>4, <1>6, <1>9, <1>10, <2>1, <2>2 DEF WritesInOrder
<1>16. TypeOK'
  BY <1>2, <1>4, <1>6, <1>7, <1>9, <1>10, <1>11
     DEF Core, TypeOK, execute, files, row, FilesInv, DiskTyped
<1>17. WithinBudget'
  BY <1>10 DEF Core, WithinBudget, MaxSteps, execute
<1> QED BY <1>2, <1>3, <1>14, <1>15, <1>16, <1>17 DEF Core

-----------------------------------------------------------------------------
(* Writing and recording.                                                     *)

LEMMA Writes ==
  ASSUME Core, write_file
  PROVE  Core'
<1>1. PICK k \in DOMAIN Requested :
        k \in Places /\ skill = ScreeningPlan[k] /\ AtPlace(k) /\ skill # "none" /\ skill \in Skills
  BY AtWork DEF write_file, Working
<1>2. /\ pc = "write" /\ todo # <<>> /\ ToSet(todo) \subseteq ToSet(Outputs(skill))
      /\ executions > 0 /\ content \in acquire
  BY DEF Core, WritesInOrder, TypeOK, write_file
<1>3. /\ todo \in Seq(Files) /\ Head(todo) \in ToSet(todo) /\ todo' = Tail(todo)
      /\ Tail(todo) \in Seq(Files) /\ ToSet(todo) = {Head(todo)} \cup ToSet(Tail(todo))
      /\ Len(todo) = 1 => ToSet(todo) = {Head(todo)}
      /\ Len(todo) # 1 => Tail(todo) # <<>>
  BY <1>2, HeadTail DEF Core, TypeOK, write_file
<1>4. PICK h : h = Head(todo) /\ h \in ToSet(Outputs(skill))
  BY <1>2, <1>3
<1>5. /\ skill' = skill /\ result' = result /\ content' = content /\ step_index' = step_index
      /\ executions' = executions /\ plan' = plan /\ state' = state /\ manifest' = manifest
      /\ pc' = IF Len(todo) = 1 THEN "record" ELSE "write"
      /\ UNCHANGED <<step, artifacts, emitted>>
  BY DEF write_file, row
<1>6. /\ skill = Requested[k] /\ step_index <= k
      /\ \A j \in DOMAIN Requested : j < k => IsBuilt(j)
      /\ \A i \in DOMAIN Requested : k < i => ~IsBegun(i)
      /\ k >= 3 => content \in {"usable", "nothing"}
      /\ k >= 8 => content = "usable" /\ disk["selection"].found = "usable"
  BY <1>1, <1>2 DEF AtPlace
<1>7. disk' = [disk EXCEPT ![h] = [by |-> executions, found |-> content,
                                   read |-> [f \in Inputs(skill) |-> disk[f].by]]]
  BY <1>4 DEF write_file
<1>8. /\ FilesInv' /\ Requested' = Requested
      /\ OnDisk(h)' /\ \A f \in Files : OnDisk(f) => OnDisk(f)'
      /\ \A i \in DOMAIN Requested : IsBuilt(i) => IsBuilt(i)'
      /\ \A i \in DOMAIN Requested : k < i => ~IsBegun(i)'
      /\ k >= 8 => disk'["selection"].found = "usable"
  <2>1. WrittenAt(k, h)
    BY <1>2, <1>4, <1>5, <1>6, <1>7 DEF WrittenAt
  <2> QED BY <2>1, FileWritten DEF Core
<1>9. DoneIsBuilt' /\ ListedIsBuilt' /\ CompletedIsRecorded'
  BY <1>5, <1>8, RecordsStand
<1>10. AtPlace(k)'
  BY <1>5, <1>6, <1>8 DEF AtPlace
<1>11. ~Finished'
  BY <1>5 DEF Finished
<1>12. WorkInOrder'
  BY <1>5, <1>8, <1>10, <1>11 DEF WorkInOrder
<1>13. WritesInOrder'
  <2>1. ASSUME result = "success", NEW f \in ToSet(Outputs(skill))
        PROVE  OnDisk(f)' \/ (pc' = "write" /\ f \in ToSet(todo'))
    <3>1. f \in Files
      BY <1>1, FilesAre
    <3>2. OnDisk(f) \/ f \in ToSet(todo)
      BY <1>2, <2>1 DEF Core, WritesInOrder, Working
    <3>3. CASE OnDisk(f)
      BY <1>8, <3>1, <3>3
    <3>5. CASE f = h
      BY <1>8, <3>5
    <3>4. CASE f \in ToSet(todo) /\ f # h
      <4>1. f \in ToSet(Tail(todo)) /\ Len(todo) # 1
        BY <1>3, <1>4, <3>4
      <4> QED BY <1>3, <1>5, <4>1
    <3> QED BY <3>2, <3>3, <3>4, <3>5
  <2>2. pc' = "write" =>
          /\ todo' # <<>> /\ ToSet(todo') \subseteq ToSet(Outputs(skill'))
          /\ executions' > 0 /\ content' # "none"
    BY <1>2, <1>3, <1>5 DEF Core, WritesInOrder
  <2>3. pc' \in {"write", "record"}
    BY <1>5
  <2> QED BY <1>5, <2>1, <2>2, <2>3 DEF WritesInOrder
<1>14. TypeOK' /\ WithinBudget'
  BY <1>3, <1>5, <1>8
    DEF Core, TypeOK, WithinBudget, MaxSteps, write_file, row, FilesInv, DiskTyped
<1> QED BY <1>8, <1>9, <1>12, <1>13, <1>14 DEF Core

(* The rest of a round, up to its report.                                     *)
LEMMA Settles ==
  ASSUME Core, skill_raises \/ record \/ run_validation_gates
               \/ update_after_success \/ update_after_terminal_tool_result
  PROVE  Core'
<1>1. PICK k \in DOMAIN Requested :
        k \in Places /\ skill = ScreeningPlan[k] /\ AtPlace(k) /\ skill # "none" /\ skill \in Skills
  BY AtWork DEF skill_raises, record, run_validation_gates, update_after_success,
     update_after_terminal_tool_result, Working
<1>2. /\ plan' = plan /\ disk' = disk /\ executions' = executions /\ step_index' = step_index
      /\ skill' = skill /\ UNCHANGED <<step, artifacts, emitted>> /\ content' = content
      /\ pc' \in {"record", "gates", "update", "report"}
  BY DEF skill_raises, record, run_validation_gates, update_after_success,
     update_after_terminal_tool_result, files, row, Goto, call
<1>3. /\ FilesInv' /\ Requested' = Requested /\ \A f \in Files : OnDisk(f)' <=> OnDisk(f)
      /\ \A i \in DOMAIN Requested : (IsBuilt(i)' <=> IsBuilt(i)) /\ (IsBegun(i)' <=> IsBegun(i))
  BY <1>2, DiskStands
<1>4. DoneIsBuilt' /\ ListedIsBuilt'
  BY <1>2, <1>3, RecordsStand
<1>5. /\ manifest # Missing => manifest' # Missing /\ manifest \subseteq manifest'
      /\ manifest' \in (SUBSET Files) \cup {Missing}
      /\ state' \in States \cup {Missing}
      /\ result' \in Results /\ todo' \in Seq(Files)
  <2>0. manifest \in (SUBSET Files) \cup {Missing} /\ state \in States \cup {Missing}
        /\ result \in Results /\ todo \in Seq(Files) /\ <<>> \in Seq(Files)
        /\ ToSet(Outputs(skill)) \subseteq Files
    BY <1>1, FilesAre DEF Core, TypeOK
  <2>1. CASE skill_raises
    BY <2>0, <2>1 DEF skill_raises, files, Results
  <2>2. CASE record
    <3>1. manifest' \in SUBSET Files
      BY <2>0, <2>2 DEF record
    <3>2. manifest' # Missing
      BY <3>1, MissingIsNoFile
    <3> QED BY <2>0, <2>2, <3>1, <3>2 DEF record, Goto, call
  <2>3. CASE run_validation_gates
    BY <2>0, <2>3 DEF run_validation_gates, files, Results
  <2>4. CASE update_after_success
    <3>1. state.completed \cup {skill} \subseteq Skills
      BY <1>1, <2>4, StateIs DEF update_after_success
    <3> QED BY <2>0, <2>4, <3>1, StateIs DEF update_after_success, Goto, call
  <2>5. CASE update_after_terminal_tool_result
    BY <2>0, <2>5, StateIs DEF update_after_terminal_tool_result, Goto, call
  <2> QED BY <2>1, <2>2, <2>3, <2>4, <2>5
<1>6. /\ result' = "success" => result = "success" /\ (pc # "write" \/ pc' = "write")
      /\ pc' \in {"gates", "update"} => manifest' # Missing
      /\ pc' = "update" /\ result' = "success" => \A f \in ToSet(Outputs(skill)) : f \in manifest'
      /\ pc' = "gates" /\ result' = "success" => \A f \in ToSet(Outputs(skill)) : f \in manifest'
  <2>1. manifest' = manifest \/ record
    BY DEF skill_raises, run_validation_gates, update_after_success,
       update_after_terminal_tool_result, files
  <2> QED
    BY <1>5, <2>1 DEF skill_raises, record, run_validation_gates, update_after_success,
     update_after_terminal_tool_result, Goto, call, Core, WritesInOrder, Working
<1>7. result = "success" /\ pc # "write" /\ pc # "execute" => \A f \in ToSet(Outputs(skill)) : OnDisk(f)
  BY DEF skill_raises, record, run_validation_gates, update_after_success,
     update_after_terminal_tool_result, Core, WritesInOrder, Working
<1>8. CompletedIsRecorded'
  <2>1. CASE update_after_success
    <3>1. /\ result = "success" /\ pc = "update" /\ manifest' = manifest /\ state # Missing
          /\ state'.completed = state.completed \cup {skill}
      BY <2>1 DEF update_after_success
    <3>2. \A f \in ToSet(Outputs(skill)) : manifest # Missing /\ f \in manifest /\ OnDisk(f)
      BY <1>7, <3>1 DEF Core, WritesInOrder, Working
    <3>3. \A s \in state.completed : \A f \in ToSet(Outputs(s)) :
            manifest # Missing /\ f \in manifest /\ OnDisk(f)
      BY <3>1 DEF Core, CompletedIsRecorded
    <3>4. \A s \in Skills : ToSet(Outputs(s)) \subseteq Files
      BY DEF Files
    <3>5. state.completed \subseteq Skills
      BY <3>1, StateIs
    <3> QED BY <1>1, <1>3, <3>1, <3>2, <3>3, <3>4, <3>5 DEF CompletedIsRecorded
  <2>2. CASE update_after_terminal_tool_result
    <3>1. state # Missing /\ state'.completed = state.completed
      BY <2>2, StateIs DEF update_after_terminal_tool_result, Core, TypeOK
    <3> QED BY <1>3, <1>5, <3>1, RecordsStand
  <2>3. CASE skill_raises \/ record \/ run_validation_gates
    <3>1. state' = state
      BY <2>3 DEF skill_raises, record, run_validation_gates, files
    <3> QED BY <1>3, <1>5, <3>1, RecordsStand
  <2> QED BY <2>1, <2>2, <2>3
<1>9. AtPlace(k)' /\ ~Finished'
  <2>1. skill' # "none" /\ pc' \notin {"execute", "write"}
    BY <1>1, <1>2
  <2> QED BY <1>1, <1>2, <1>3, <2>1 DEF AtPlace, Finished
<1>10. WorkInOrder'
  BY <1>2, <1>3, <1>9 DEF WorkInOrder
<1>11. WritesInOrder'
  <2>1. pc' \notin {"write", "manifest", "execute"}
    BY <1>2
  <2>2. ASSUME result' = "success", NEW f \in ToSet(Outputs(skill))
        PROVE  OnDisk(f)'
    <3>1. pc # "write" /\ result = "success" /\ pc # "execute"
      BY <1>6, <2>1, <2>2
        DEF skill_raises, record, run_validation_gates, update_after_success,
         update_after_terminal_tool_result
    <3>2. f \in Files
      BY <1>1, FilesAre
    <3> QED BY <1>3, <1>7, <3>1, <3>2
  <2> QED BY <1>2, <1>6, <2>1, <2>2 DEF WritesInOrder
<1>12. failures' \in 0 .. MaxFailures /\ runs' = runs /\ exists' = exists /\ plan_md' = plan_md
  <2>1. failures' = failures \/ (failures < MaxFailures /\ failures' = failures + 1)
    BY DEF skill_raises, record, run_validation_gates, update_after_success,
       update_after_terminal_tool_result
  <2>2. failures' \in 0 .. MaxFailures
    BY <2>1, ConstantsAssumption DEF Core, TypeOK
  <2> QED BY <2>2 DEF skill_raises, record, run_validation_gates, update_after_success,
       update_after_terminal_tool_result, files
<1>13. TypeOK' /\ WithinBudget'
  BY <1>2, <1>3, <1>5, <1>12
    DEF Core, TypeOK, WithinBudget, MaxSteps, FilesInv, DiskTyped
<1> QED BY <1>3, <1>4, <1>8, <1>10, <1>11, <1>13 DEF Core

-----------------------------------------------------------------------------
(* The end of a round, and the theorems.                                      *)

LEMMA Succeeds ==
  ASSUME Core, round_succeeds
  PROVE  Core'
<1>1. PICK k \in DOMAIN Requested :
        k \in Places /\ skill = ScreeningPlan[k] /\ AtPlace(k) /\ skill # "none" /\ skill \in Skills
  BY AtWork DEF round_succeeds, Working
<1>2. /\ FilesInv' /\ Requested' = Requested /\ \A f \in Files : OnDisk(f)' <=> OnDisk(f)
      /\ \A i \in DOMAIN Requested : (IsBuilt(i)' <=> IsBuilt(i)) /\ (IsBegun(i)' <=> IsBegun(i))
  BY DiskStands DEF round_succeeds, files
<1>3. /\ state' = state /\ manifest' = manifest /\ step_index' = step_index /\ plan' = plan
      /\ executions' = executions /\ emitted' = emitted \cup ToSet(Outputs(skill))
      /\ step' \in {step, "blocked"} /\ artifacts' \in {artifacts, emitted'}
      /\ pc' \in {"idle", "choose"} /\ skill' \in {skill, "none"}
  BY DEF round_succeeds, files, EndRun, Goto, Return, row, call, emit_artifacts
<1>4. DoneIsBuilt' /\ CompletedIsRecorded'
  BY <1>2, <1>3, RecordsStand
<1>5. \A f \in ToSet(Outputs(skill)) : f \in Files /\ OnDisk(f)
  BY <1>1, FilesAre DEF round_succeeds, Core, WritesInOrder, Working
<1>6. ListedIsBuilt'
  <2> SUFFICES ASSUME NEW f \in artifacts \cup emitted \cup ToSet(Outputs(skill))
               PROVE  OnDisk(f)' /\ \E i \in DOMAIN Requested : f \in ToSet(Outputs(Requested[i]))
    BY <1>2, <1>3 DEF ListedIsBuilt
  <2>1. CASE f \in ToSet(Outputs(skill))
    BY <1>1, <1>2, <1>5, <2>1 DEF AtPlace
  <2>2. CASE f \in artifacts \cup emitted
    <3>1. f \in Files
      BY <2>2 DEF Core, TypeOK
    <3> QED BY <1>2, <2>2, <3>1 DEF Core, ListedIsBuilt
  <2> QED BY <2>1, <2>2
<1>7. ~Working' /\ ~Finished'
  BY <1>3 DEF Working, Finished
<1>8. /\ step_index \in 0 .. 6 + plan
      /\ \A i \in DOMAIN Requested : ~IsBuilt(i) => step_index < i
  <2>1. DOMAIN Requested = 1 .. 6 + plan /\ 6 + plan \in Nat /\ step_index \in Nat /\ step_index <= k
    BY <1>1, RequestedIs DEF Core, TypeOK, AtPlace
  <2>2. IsBuilt(k)
    BY <1>1, <1>5, CheckedAre DEF IsBuilt, AtPlace
  <2>3. \A j \in DOMAIN Requested : j < k => IsBuilt(j)
    BY <1>1 DEF AtPlace
  <2> QED BY <2>1, <2>2, <2>3
<1>9. WorkInOrder' /\ WritesInOrder'
  BY <1>2, <1>3, <1>7, <1>8 DEF WorkInOrder, WritesInOrder
<1>10. result' \in Results /\ todo' \in Seq(Files) /\ content' \in acquire \cup {"none"}
  <2>1. <<>> \in Seq(Files)
    OBVIOUS
  <2>2. Return \/ UNCHANGED call
    BY DEF round_succeeds, EndRun, Goto
  <2> QED BY <2>1, <2>2 DEF Core, TypeOK, Return, call, Results
<1>11. runs' = runs /\ failures' = failures /\ exists' = exists /\ plan_md' = plan_md
  BY DEF round_succeeds, files
<1>12. artifacts' \subseteq Files /\ emitted' \subseteq Files
  BY <1>3, <1>5 DEF Core, TypeOK
<1>13. TypeOK' /\ WithinBudget'
  BY <1>1, <1>2, <1>3, <1>10, <1>11, <1>12
    DEF Core, TypeOK, WithinBudget, MaxSteps, FilesInv, DiskTyped
<1> QED BY <1>2, <1>4, <1>6, <1>9, <1>13 DEF Core

LEMMA Ends ==
  ASSUME Core, round_ends
  PROVE  Core'
<1>1. /\ plan' = plan /\ executions' = executions /\ state' = state /\ manifest' = manifest
      /\ step_index' = step_index /\ emitted' = emitted /\ artifacts' = emitted /\ disk' = disk
      /\ step' \in {"done", "blocked", "failed"} /\ (step' = "done" => skill = "none")
      /\ runs' = runs /\ failures' = failures /\ exists' = exists /\ plan_md' = plan_md /\ Return
  BY DEF round_ends, files, EndRun
<1>2. /\ FilesInv' /\ Requested' = Requested /\ \A f \in Files : OnDisk(f)' <=> OnDisk(f)
      /\ \A i \in DOMAIN Requested : (IsBuilt(i)' <=> IsBuilt(i)) /\ (IsBegun(i)' <=> IsBegun(i))
  BY <1>1, DiskStands
<1>3. CompletedIsRecorded' /\ ListedIsBuilt'
  BY <1>1, <1>2, RecordsStand
<1>4. DoneIsBuilt'
  <2>1. step' = "done" => \A i \in DOMAIN Requested : IsBuilt(i)
    BY <1>1 DEF round_ends, Core, WorkInOrder, Finished
  <2> QED BY <1>2, <2>1 DEF DoneIsBuilt, IsBuilt
<1>5. WithinBudget' /\ WorkInOrder' /\ WritesInOrder'
  BY <1>1, <1>2, Opening DEF Return
<1>6. TypeOK'
  <2>1. <<>> \in Seq(Files)
    OBVIOUS
  <2> QED BY <1>1, <1>2, <2>1 DEF Core, TypeOK, Return, Results, FilesInv, DiskTyped
<1> QED BY <1>2, <1>3, <1>4, <1>5, <1>6 DEF Core

LEMMA Stutters ==
  ASSUME Core, UNCHANGED vars
  PROVE  Core'
<1>1. /\ UNCHANGED <<plan, step, artifacts, emitted, exists, plan_md, state, manifest, disk>>
      /\ UNCHANGED <<pc, skill, result, todo, content, step_index, executions, runs, failures>>
  BY DEF vars, row, files, call
<1>2. /\ FilesInv' /\ Requested' = Requested /\ \A f \in Files : OnDisk(f)' <=> OnDisk(f)
      /\ \A i \in DOMAIN Requested : (IsBuilt(i)' <=> IsBuilt(i)) /\ (IsBegun(i)' <=> IsBegun(i))
  BY <1>1, DiskStands
<1>3. DoneIsBuilt' /\ CompletedIsRecorded' /\ ListedIsBuilt'
  BY <1>1, <1>2, RecordsStand
<1>4. \A k \in DOMAIN Requested : AtPlace(k) => AtPlace(k)'
  BY <1>1, <1>2 DEF AtPlace
<1>5. WorkInOrder'
  <2>1. (Working' <=> Working) /\ (Finished' <=> Finished)
    BY <1>1 DEF Working, Finished
  <2> QED BY <1>1, <1>2, <1>4, <2>1 DEF Core, WorkInOrder
<1>6. WritesInOrder'
  BY <1>1 DEF Core, WritesInOrder, Working, OnDisk
<1>7. TypeOK' /\ WithinBudget'
  BY <1>1, <1>2 DEF Core, TypeOK, WithinBudget, MaxSteps, FilesInv, DiskTyped
<1> QED BY <1>2, <1>3, <1>5, <1>6, <1>7 DEF Core

LEMMA CoreNext ==
  ASSUME Core, [Next]_vars
  PROVE  Core'
BY Opens, Begins, Chooses, Finishes, Executes, Writes, Settles, Succeeds, Ends, Stutters
  DEF Next

(* What the runs check follows.                                               *)
LEMMA CoreSays == Core => ControllerInv /\ DerivedFromCurrent
BY PresentInputs, EvidenceOfGaps DEF Core, FilesInv, ControllerInv

LEMMA CoreAlways == Spec => []Core
<1>1. Init => Core
  BY CoreInit
<1>2. Core /\ [Next]_vars => Core'
  BY CoreNext
<1> QED BY <1>1, <1>2, PTL DEF Spec

(* State, manifest, files and the budget agree, and no gap is built on a search *)
(* that found nothing usable: ControllerInv, whatever raises and whenever a     *)
(* run starts again or resumes.                                               *)
THEOREM ControllerCorrect == Spec => []ControllerInv
BY CoreAlways, CoreSays, PTL

(* Choosing by what is missing never replaces a file that others were made     *)
(* from: DerivedFromCurrent.                                                  *)
THEOREM FilesAreCurrent == Spec => []DerivedFromCurrent
BY CoreAlways, CoreSays, PTL

-----------------------------------------------------------------------------
(* The workflow engine.  The inductive invariant is WorkflowOrder: while        *)
(* requests do not cross (or there is one worker) at most one run is live, so   *)
(* what a run has computed of the steps is still so when it publishes it.       *)

(* What the step of a run leaves: the requests, the other runs, the status    *)
(* unless it is the run's last step, and the steps unless it is live.         *)
RunMoves(r) ==
    /\ UNCHANGED <<cpc, req, crun, workers, crossed>>
    /\ \A s \in Runs \ {r} :
         rpc'[s] = rpc[s] /\ resume'[s] = resume[s] /\ at'[s] = at[s] /\ final'[s] = final[s]
    /\ Pending(r)' => Pending(r)
    /\ status' # status => Live(r) /\ ~Pending(r)'
    /\ step_status' # step_status => Live(r) /\ Live(r)'
    /\ crashes' = 0 => crashes = 0

LEMMA RunStepMoves ==
    ASSUME WorkflowAssumption, WorkflowTypes, NEW r \in Runs, RunStep(r) \/ crash(r)
    PROVE  RunMoves(r)
<1>1. CASE dispatch(r)
  BY <1>1 DEF dispatch, RunGoto, clients, bounds, WorkflowTypes, RunMoves, Pending,
      Live, Looping
<1>2. CASE next_step(r)
  BY <1>2 DEF next_step, RunGoto, Advance, clients, bounds, WorkflowTypes, RunMoves,
      Pending, Live, Looping
<1>3. CASE check_pause(r)
  BY <1>3 DEF check_pause, RunGoto, clients, bounds, WorkflowTypes, RunMoves, Pending,
      Live, Looping
<1>4. CASE pause(r)
  BY <1>4
    DEF pause, RunGoto, clients, bounds, WorkflowTypes, RunMoves, Pending, Live, Looping
<1>5. CASE r_ref_get(r)
  BY <1>5 DEF r_ref_get, RunGoto, clients, bounds, WorkflowTypes, RunMoves, Pending,
      Live, Looping
<1>6. CASE unpause_put(r)
  BY <1>6 DEF unpause_put, End, clients, bounds, WorkflowTypes, RunMoves, Pending,
      Live, Looping
<1>7. CASE begin_step(r)
  BY <1>7 DEF begin_step, RunGoto, clients, bounds, WorkflowTypes, RunMoves, Pending,
      Live, Looping
<1>8. CASE corpus_run_id(r)
  BY <1>8 DEF corpus_run_id, RunGoto, clients, bounds, WorkflowTypes, RunMoves,
      Pending, Live, Looping
<1>9. CASE r_ref_put(r)
  BY <1>9 DEF r_ref_put, RunGoto, clients, bounds, WorkflowTypes, RunMoves, Pending,
      Live, Looping
<1>10. CASE runner_done(r) \/ runner_blocked(r)
  BY <1>10 DEF runner_done, runner_blocked, Advance, clients, bounds, WorkflowTypes,
      RunMoves, Pending, Live, Looping
<1>11. CASE runner_failed(r) \/ runner_raises(r)
  BY <1>11 DEF runner_failed, runner_raises, RunGoto, clients, bounds, WorkflowTypes,
      RunMoves, Pending, Live, Looping
<1>12. CASE record_failure(r) \/ publish_final(r)
  BY <1>12 DEF record_failure, publish_final, End, clients, bounds, WorkflowTypes,
      RunMoves, Pending, Live, Looping
<1>13. CASE compute_final(r)
  BY <1>13
    DEF compute_final, clients, bounds, WorkflowTypes, RunMoves, Pending, Live, Looping
<1>14. CASE crash(r)
  BY <1>14
    DEF crash, End, clients, Busy, WorkflowTypes, RunMoves, Pending, Live, Looping
<1> QED
  BY <1>1, <1>2, <1>3, <1>4, <1>5, <1>6, <1>7, <1>8, <1>9, <1>10, <1>11, <1>12, <1>13,
      <1>14 DEF RunStep

(* The statuses a run may end with, and the types.                            *)
LEMMA FinalIsStatus == FinalStatus \in Statuses
BY DEF FinalStatus, Statuses

(* The local variables of a run are of their types, wherever it goes.         *)
RunLocals ==
    /\ rpc \in [Runs -> RunPCs]
    /\ resume \in [Runs -> BOOLEAN]
    /\ at \in [Runs -> 1 .. N + 1]
    /\ final \in [Runs -> Statuses]
    /\ \A r \in Runs : rpc[r] \in Looping \ {"next", "raise", "final", "publish"} => at[r] \in Steps

(* A run that ends or goes on to its next step keeps them.                    *)
LEMMA EndTypes ==
    ASSUME WorkflowAssumption, RunLocals, NEW r \in Runs, NEW l \in {"finished", "dead"}, End(r, l)
    PROVE  RunLocals'
<1>1. 1 \in 1 .. N + 1 /\ "draft" \in Statuses BY WorkflowAssumption DEF Statuses
<1> QED BY <1>1 DEF End, RunLocals, RunPCs, Busy, Looping

LEMMA AdvanceTypes ==
    ASSUME WorkflowAssumption, RunLocals, NEW r \in Runs, at[r] \in Steps, Advance(r)
    PROVE  RunLocals'
<1>1. at[r] + 1 \in 1 .. N + 1 BY WorkflowAssumption DEF Steps
<1> QED BY <1>1 DEF Advance, RunLocals, RunPCs, Busy, Looping

(* Every step of a run keeps the types, and every step of a request.         *)
LEMMA RunTypes ==
    ASSUME WorkflowAssumption, WorkflowTypes, NEW r \in Runs, RunStep(r) \/ crash(r)
    PROVE  WorkflowTypes'
<1> USE DEF RunPCs, Busy, Looping
<1>0. NoRef \in EngineRefs /\ N \in Nat \ {0}
  BY WorkflowAssumption DEF NoRef, EngineRefs
<1>l. RunLocals BY DEF WorkflowTypes, RunLocals
<1>1. CASE dispatch(r)
  BY <1>1 DEF dispatch, RunGoto, clients, bounds, WorkflowTypes
<1>2. CASE next_step(r)
  <2>1. CASE Advance(r) /\ at[r] <= N
    <3>1. at[r] \in Steps BY <1>0, <2>1 DEF WorkflowTypes, Steps
    <3>2. RunLocals' BY <1>l, <2>1, <3>1, AdvanceTypes
    <3> QED BY <1>2, <3>2 DEF next_step, clients, bounds, WorkflowTypes, RunLocals
  <2>2. CASE \E l \in {"final", "check_pause"} : RunGoto(r, l) /\ (l = "check_pause" => at[r] <= N)
    <3>1. at[r] <= N => at[r] \in Steps BY <1>0 DEF WorkflowTypes, Steps
    <3> QED BY <1>2, <2>2, <3>1 DEF next_step, RunGoto, clients, bounds, WorkflowTypes
  <2> QED BY <1>2, <2>1, <2>2 DEF next_step
<1>3. CASE check_pause(r)
  BY <1>3 DEF check_pause, RunGoto, clients, bounds, WorkflowTypes
<1>4. CASE pause(r)
  BY <1>4 DEF pause, RunGoto, clients, bounds, WorkflowTypes, Statuses
<1>5. CASE r_ref_get(r)
  BY <1>5 DEF r_ref_get, RunGoto, clients, bounds, WorkflowTypes
<1>6. CASE unpause_put(r)
  <2>1. engine_ref' \in EngineRefs
    <3>1. seen[r] \in EngineRefs BY DEF WorkflowTypes
    <3> QED BY <1>6, <3>1 DEF unpause_put, EngineRefs
  <2>2. seen' \in [Clients \cup Runs -> EngineRefs]
    BY <1>0, <1>6 DEF unpause_put, Forgets, WorkflowTypes
  <2>3. RunLocals' BY <1>l, <1>6, EndTypes DEF unpause_put
  <2> QED
    BY <1>6, <2>1, <2>2, <2>3 DEF unpause_put, clients, bounds, WorkflowTypes, RunLocals
<1>7. CASE begin_step(r)
  BY <1>7 DEF begin_step, SetStep, RunGoto, clients, bounds, WorkflowTypes, StepStatuses
<1>8. CASE corpus_run_id(r)
  BY <1>8 DEF corpus_run_id, RunGoto, clients, bounds, WorkflowTypes
<1>9. CASE r_ref_put(r)
  <2>1. engine_ref' \in EngineRefs
    <3>1. seen[r] \in EngineRefs /\ at[r] \in Steps BY <1>9 DEF WorkflowTypes, r_ref_put
    <3> QED BY <1>9, <3>1 DEF r_ref_put, EngineRefs
  <2>2. seen' \in [Clients \cup Runs -> EngineRefs]
    BY <1>0, <1>9 DEF r_ref_put, Forgets, WorkflowTypes
  <2> QED BY <1>9, <2>1, <2>2 DEF r_ref_put, RunGoto, clients, bounds, WorkflowTypes
<1>10. CASE runner_done(r) \/ runner_blocked(r)
  <2>1. RunLocals'
    BY <1>l, <1>10, AdvanceTypes DEF runner_done, runner_blocked, RunLocals
  <2>2. step_status' \in [Steps -> StepStatuses]
    BY <1>10 DEF runner_done, runner_blocked, SetStep, WorkflowTypes, StepStatuses
  <2> QED
    BY <1>10, <2>1, <2>2
      DEF runner_done, runner_blocked, clients, bounds, WorkflowTypes, RunLocals
<1>11. CASE runner_failed(r) \/ runner_raises(r)
  BY <1>11 DEF runner_failed, runner_raises, SetStep, RunGoto, clients, bounds,
      WorkflowTypes, StepStatuses
<1>12. CASE record_failure(r) \/ publish_final(r)
  <2>1. RunLocals' BY <1>l, <1>12, EndTypes DEF record_failure, publish_final
  <2>2. status' \in Statuses
    BY <1>12 DEF record_failure, publish_final, WorkflowTypes, Statuses
  <2> QED
    BY <1>12, <2>1, <2>2
      DEF record_failure, publish_final, clients, bounds, WorkflowTypes, RunLocals
<1>13. CASE compute_final(r)
  BY <1>13, FinalIsStatus DEF compute_final, clients, bounds, WorkflowTypes
<1>14. CASE crash(r)
  <2>1. seen' \in [Clients \cup Runs -> EngineRefs]
    BY <1>0, <1>14 DEF crash, Forgets, WorkflowTypes
  <2>2. RunLocals' BY <1>l, <1>14, EndTypes DEF crash
  <2>3. crashes' \in 0 .. MaxCrashes
    BY <1>14, WorkflowAssumption DEF crash, WorkflowTypes
  <2> QED BY <1>14, <2>1, <2>2, <2>3 DEF crash, clients, WorkflowTypes, RunLocals
<1> QED
  BY <1>1, <1>2, <1>3, <1>4, <1>5, <1>6, <1>7, <1>8, <1>9, <1>10, <1>11, <1>12, <1>13,
      <1>14 DEF RunStep

LEMMA ClientTypes ==
    ASSUME WorkflowAssumption, WorkflowTypes, NEW c \in Clients,
           (\E q \in Requests : request(c, q)) \/ soft_delete(c) \/ ClientStep(c)
    PROVE  WorkflowTypes'
<1>0. NoRef \in EngineRefs BY DEF NoRef, EngineRefs
<1>1. ASSUME NEW q \in Requests, request(c, q) PROVE WorkflowTypes'
  <2>1. requests' \in 0 .. MaxRequests
    BY <1>1, WorkflowAssumption DEF request, WorkflowTypes
  <2> QED BY <1>1, <2>1 DEF request, run_vars, WorkflowTypes
<1>2. CASE soft_delete(c)
  <2>1. requests' \in 0 .. MaxRequests
    BY <1>2, WorkflowAssumption DEF soft_delete, WorkflowTypes
  <2> QED BY <1>2, <2>1 DEF soft_delete, clients, run_vars, WorkflowTypes, Statuses
<1>3. CASE create_job(c)
  <2>1. PICK r \in Runs : /\ rpc' = [rpc EXCEPT ![r] = "queued"]
                          /\ resume' = [resume EXCEPT ![r] = (req[c] = "resume")]
                          /\ crun' = [crun EXCEPT ![c] = r]
    BY <1>3 DEF create_job
  <2>2. "queued" \in RunPCs /\ (req[c] = "resume") \in BOOLEAN BY DEF RunPCs
  <2>3. resume' \in [Runs -> BOOLEAN] BY <2>1, <2>2 DEF WorkflowTypes
  <2>4. rpc' \in [Runs -> RunPCs] /\ crun' \in [Clients -> Runs \cup {NoRun}]
    BY <2>1, <2>2 DEF WorkflowTypes
  <2>5. \A s \in Runs : rpc'[s] \in Looping => rpc'[s] = rpc[s]
    BY <2>1 DEF WorkflowTypes, Looping
  <2> QED BY <1>3, <2>3, <2>4, <2>5 DEF create_job, bounds, WorkflowTypes
<1>4. CASE c_ref_get(c)
  BY <1>4 DEF c_ref_get, CGoto, run_vars, bounds, WorkflowTypes
<1>5. CASE c_ref_put(c)
  <2>1. engine_ref' \in EngineRefs
    <3>1. seen[c] \in EngineRefs /\ crun[c] \in Runs \cup {NoRun} BY DEF WorkflowTypes
    <3> QED BY <1>5, <3>1 DEF c_ref_put, EngineRefs
  <2>2. seen' \in [Clients \cup Runs -> EngineRefs]
    BY <1>0, <1>5 DEF c_ref_put, Forgets, WorkflowTypes
  <2> QED
    BY <1>5, <2>1, <2>2 DEF c_ref_put, CGoto, CEnd, run_vars, bounds, WorkflowTypes
<1>6. CASE set_running(c)
  BY <1>6 DEF set_running, CEnd, run_vars, bounds, WorkflowTypes, Statuses
<1> QED BY <1>1, <1>2, <1>3, <1>4, <1>5, <1>6 DEF ClientStep

(* A run that leaves its worker frees it; one that is dispatched finds one    *)
(* free.                                                                      *)
LEMMA FewerWork ==
    ASSUME WorkflowTypes, WorkersTaken, Occupied' \subseteq Occupied, workers' = workers
    PROVE  WorkersTaken'
<1>1. /\ IsFiniteSet(Occupied') /\ Cardinality(Occupied') <= Cardinality(Occupied)
      /\ Cardinality(Occupied') \in Nat /\ Cardinality(Occupied) \in Nat
  BY FS_Subset, FS_CardinalityType DEF WorkersTaken
<1> QED BY <1>1 DEF WorkersTaken, WorkflowTypes

LEMMA RunsTakeWorkers ==
    ASSUME WorkflowAssumption, WorkflowTypes, WorkersTaken, NEW r \in Runs, RunStep(r) \/ crash(r)
    PROVE  WorkersTaken'
<1>1. RunMoves(r) BY RunStepMoves
<1>2. CASE dispatch(r)
  <2>1. Occupied' = Occupied \cup {r} /\ r \notin Occupied
    BY <1>2 DEF dispatch, RunGoto, Occupied, WorkflowTypes, Busy, Looping
  <2>2. IsFiniteSet(Occupied') /\ Cardinality(Occupied') = Cardinality(Occupied) + 1
    BY <2>1, FS_AddElement DEF WorkersTaken
  <2>3. Cardinality(Occupied) \in Nat BY FS_CardinalityType DEF WorkersTaken
  <2> QED BY <1>1, <1>2, <2>2, <2>3 DEF RunMoves, dispatch, WorkersTaken, WorkflowTypes
<1>3. CASE ~dispatch(r)
  <2>1. rpc[r] \in Busy
    BY <1>3
      DEF RunStep, next_step, check_pause, pause, r_ref_get, unpause_put, begin_step,
       corpus_run_id, r_ref_put, runner_done, runner_blocked, runner_failed, runner_raises,
       record_failure, compute_final, publish_final, crash, Busy, Looping
  <2>2. Occupied' \subseteq Occupied BY <1>1, <2>1 DEF RunMoves, Occupied
  <2> QED BY <1>1, <2>2, FewerWork DEF RunMoves
<1> QED BY <1>2, <1>3

(* At most one run executes steps at a time, if requests come in turn.        *)
LEMMA OneIsLive ==
    ASSUME WorkflowOrder, InTurn, NEW r \in Runs, NEW s \in Runs, Live(r), Live(s)
    PROVE  r = s
<1>1. CASE workers = 1
  <2>1. r \in Occupied /\ s \in Occupied BY DEF Live, Occupied, Busy
  <2>2. IsFiniteSet(Occupied) /\ Cardinality(Occupied) <= 1
    BY <1>1 DEF WorkflowOrder, WorkersTaken
  <2>3. ASSUME r # s PROVE FALSE
    <3>1. Cardinality({r} \cup {s}) = 2
      <4>1. IsFiniteSet({r}) /\ Cardinality({r}) = 1 BY FS_Singleton
      <4>2. Cardinality({r} \cup {s}) = Cardinality({r}) + 1
        BY <2>3, <4>1, FS_AddElement
      <4> QED BY <4>1, <4>2
    <3>2. Cardinality({r} \cup {s}) <= Cardinality(Occupied) /\ Cardinality(Occupied) \in Nat
      BY <2>1, <2>2, FS_Subset, FS_CardinalityType
    <3> QED BY <2>2, <3>1, <3>2
  <2> QED BY <2>3
<1>2. CASE ~crossed
  BY <1>2 DEF WorkflowOrder, RequestsInTurn, Pending
<1> QED BY <1>1, <1>2 DEF InTurn

(* What a run does never puts two requests in flight.                         *)
LEMMA RunsLeaveRequests ==
    ASSUME WorkflowOrder, NEW r \in Runs, RunMoves(r)
    PROVE  RequestsInTurn'
<1>1. \A s \in Runs : Pending(s)' => Pending(s)
  BY DEF RunMoves, Pending, Live
<1>2. RequestsInTurn BY DEF WorkflowOrder
<1>3. ASSUME ~crossed, NEW s \in Runs, Pending(s)'
      PROVE  status' = "running" \/ \E c \in Clients : crun[c] = s /\ cpc[c] # "idle"
  <2>1. Pending(s) BY <1>1, <1>3
  <2>2. CASE status' = status BY <1>2, <1>3, <2>1, <2>2 DEF RequestsInTurn
  <2>3. CASE status' # status
    <3>1. Pending(r) /\ ~Pending(r)' BY <2>3 DEF RunMoves, Pending
    <3>2. r = s BY <1>2, <1>3, <2>1, <3>1 DEF RequestsInTurn
    <3> QED BY <1>3, <3>1, <3>2
  <2> QED BY <2>2, <2>3
<1> QED BY <1>1, <1>2, <1>3 DEF RunMoves, RequestsInTurn

(* A request touches no step and no run that is live.                         *)
LEMMA RequestsLeaveWork ==
    ASSUME WorkflowAssumption, WorkflowOrder, NEW c \in Clients,
           (\E q \in Requests : request(c, q)) \/ soft_delete(c) \/ ClientStep(c)
    PROVE  /\ WorkersTaken'
           /\ UNCHANGED <<step_status, final, workers, crashes>>
           /\ \A r \in Runs :
                /\ Live(r)' = Live(r)
                /\ Live(r) => rpc'[r] = rpc[r] /\ resume'[r] = resume[r] /\ at'[r] = at[r]
           /\ status' \in {status, "running", "deleted"}
           /\ crossed => crossed'
<1>1. /\ UNCHANGED <<step_status, final, workers, crashes, at>>
      /\ status' \in {status, "running", "deleted"}
      /\ crossed => crossed'
  <2>1. CASE \E q \in Requests : request(c, q) BY <2>1 DEF request, run_vars
  <2>2. CASE soft_delete(c) BY <2>2 DEF soft_delete, run_vars
  <2>3. CASE create_job(c) BY <2>3 DEF create_job, bounds
  <2>4. CASE c_ref_get(c) BY <2>4 DEF c_ref_get, run_vars, bounds
  <2>5. CASE c_ref_put(c) BY <2>5 DEF c_ref_put, run_vars, bounds
  <2>6. CASE set_running(c) BY <2>6 DEF set_running, run_vars, bounds
  <2> QED BY <2>1, <2>2, <2>3, <2>4, <2>5, <2>6 DEF ClientStep
<1>2. WorkflowTypes BY DEF WorkflowOrder
<1>3. \A r \in Runs : \/ rpc'[r] = rpc[r] /\ resume'[r] = resume[r]
                      \/ rpc[r] = "absent" /\ rpc'[r] = "queued"
  <2>1. CASE create_job(c)
    <3>1. PICK s \in Runs : /\ rpc[s] = "absent" /\ rpc' = [rpc EXCEPT ![s] = "queued"]
                            /\ resume' = [resume EXCEPT ![s] = (req[c] = "resume")]
      BY <2>1 DEF create_job
    <3> QED BY <1>2, <3>1 DEF WorkflowTypes
  <2>2. CASE ~create_job(c)
    BY <2>2
      DEF request, soft_delete, ClientStep, c_ref_get, c_ref_put, set_running, run_vars
  <2> QED BY <2>1, <2>2
<1>4. Occupied' = Occupied BY <1>3 DEF Occupied, Busy, Looping
<1>5. WorkersTaken' BY <1>1, <1>4 DEF WorkflowOrder, WorkersTaken
<1>6. ASSUME NEW r \in Runs
      PROVE  /\ Live(r)' = Live(r)
             /\ Live(r) => rpc'[r] = rpc[r] /\ resume'[r] = resume[r] /\ at'[r] = at[r]
  BY <1>1, <1>3 DEF Live, Looping
<1> QED BY <1>1, <1>5, <1>6

(* A request that is accepted when no other is in flight is the only one.     *)
LEMMA RequestsStayInTurn ==
    ASSUME WorkflowAssumption, WorkflowOrder, NEW c \in Clients,
           (\E q \in Requests : request(c, q)) \/ soft_delete(c) \/ ClientStep(c)
    PROVE  RequestsInTurn'
<1>0. WorkflowTypes /\ RequestsInTurn /\ NoRun \notin Runs
  BY WorkflowAssumption DEF WorkflowOrder
<1>1. ASSUME NEW q \in Requests, request(c, q) PROVE RequestsInTurn'
  <2>1. \A d \in Clients : cpc'[d] # cpc[d] => d = c
    BY <1>0, <1>1 DEF request, WorkflowTypes
  <2>2. \A r \in Runs : Pending(r)' = Pending(r)
    BY <1>1 DEF request, run_vars, Pending, Live
  <2>3. ~crossed' => ~crossed /\ \A d \in Clients \ {c} : cpc[d] = "idle"
    BY <1>1 DEF request, Crosses
  <2>4. \A d \in Clients :
          /\ crun'[d] # NoRun => cpc'[d] \notin {"idle", "create"}
          /\ crun'[d] # NoRun \/ cpc'[d] = "create" => req'[d] # "pause"
    BY <1>0, <1>1 DEF request, RequestsInTurn, WorkflowTypes
  <2>5. ASSUME ~crossed', NEW r \in Runs, Pending(r) PROVE status = "running" /\ q = "pause"
    <3>1. status = "running"
      <4>1. ASSUME NEW d \in Clients, crun[d] = r, cpc[d] # "idle" PROVE FALSE
        BY <1>1, <2>3, <2>5, <4>1 DEF request
      <4> QED BY <1>0, <2>3, <2>5, <4>1 DEF RequestsInTurn
    <3> QED BY <1>1, <3>1, WorkflowAssumption DEF request, MayStart
  <2>6. status' = status /\ cpc' = [cpc EXCEPT ![c] = IF q = "pause" THEN "ref_get" ELSE "create"]
    BY <1>1 DEF request
  <2> QED BY <1>0, <2>1, <2>2, <2>3, <2>4, <2>5, <2>6 DEF RequestsInTurn, WorkflowTypes
<1>2. CASE soft_delete(c)
  <2>1. \A r \in Runs : Pending(r)' = Pending(r)
    BY <1>2 DEF soft_delete, run_vars, Pending, Live
  <2>2. ~crossed' => ~crossed /\ status # "running" /\ \A d \in Clients : cpc[d] = "idle"
    BY <1>2 DEF soft_delete, Crosses
  <2> QED BY <1>0, <1>2, <2>1, <2>2 DEF soft_delete, clients, RequestsInTurn
<1>3. CASE create_job(c)
  <2>1. PICK r \in Runs : /\ rpc[r] = "absent" /\ rpc' = [rpc EXCEPT ![r] = "queued"]
                          /\ crun' = [crun EXCEPT ![c] = r]
    BY <1>3 DEF create_job
  <2>2. cpc[c] = "create" /\ cpc' = [cpc EXCEPT ![c] = "ref_get"] /\ UNCHANGED <<status, req, crossed>>
    BY <1>3 DEF create_job, bounds
  <2>3. \A s \in Runs : Pending(s)' => s = r \/ Pending(s)
    BY <1>0, <2>1 DEF Pending, Live, WorkflowTypes
  <2>4. req[c] # "pause" BY <1>0, <2>2 DEF RequestsInTurn
  <2> QED BY <1>0, <2>1, <2>2, <2>3, <2>4 DEF RequestsInTurn, WorkflowTypes
<1>4. CASE c_ref_get(c)
  <2>1. \A r \in Runs : Pending(r)' = Pending(r)
    BY <1>4 DEF c_ref_get, run_vars, Pending, Live
  <2> QED
    BY <1>0, <1>4, <2>1 DEF c_ref_get, CGoto, bounds, RequestsInTurn, WorkflowTypes
<1>5. CASE c_ref_put(c)
  <2>1. \A r \in Runs : Pending(r)' = Pending(r)
    BY <1>5 DEF c_ref_put, run_vars, Pending, Live
  <2>2. CASE req[c] = "pause"
    BY <1>0, <1>5, <2>1, <2>2 DEF c_ref_put, CEnd, bounds, RequestsInTurn, WorkflowTypes
  <2>3. CASE req[c] # "pause"
    BY <1>0, <1>5, <2>1, <2>3
      DEF c_ref_put, CGoto, bounds, RequestsInTurn, WorkflowTypes
  <2> QED BY <2>2, <2>3
<1>6. CASE set_running(c)
  <2>1. \A r \in Runs : Pending(r)' = Pending(r)
    BY <1>6 DEF set_running, run_vars, Pending, Live
  <2> QED
    BY <1>0, <1>6, <2>1 DEF set_running, CEnd, bounds, RequestsInTurn, WorkflowTypes
<1> QED BY <1>1, <1>2, <1>3, <1>4, <1>5, <1>6 DEF ClientStep

(* Nothing is told of the steps that is not so.                               *)
LEMMA FinalDescribes == ASSUME WorkflowTypes PROVE Describes(FinalStatus)
BY DEF FinalStatus, Describes

(* What a run publishes it has computed while nobody else was live.           *)
LEMMA RunsStayInOrder ==
    ASSUME WorkflowAssumption, WorkflowOrder, NEW r \in Runs, RunStep(r) \/ crash(r), RunMoves(r)
    PROVE  RunsInOrder'
<1> SUFFICES ASSUME InTurn' PROVE RunsInOrder' BY DEF RunsInOrder
<1>0. WorkflowTypes /\ InTurn /\ RunsInOrder BY DEF WorkflowOrder, RunMoves, InTurn
<1>1. ASSUME NEW s \in Runs, Live(s), Live(r) PROVE s = r BY <1>0, <1>1, OneIsLive
<1>2. \A s \in Runs \ {r} : Live(s) => step_status' = step_status
  BY <1>1 DEF RunMoves
<1>3. ASSUME NEW s \in Runs, rpc'[s] = "publish" PROVE Describes(final[s])'
  <2>1. CASE s # r
    <3>1. Live(s) /\ rpc[s] = "publish" /\ final'[s] = final[s]
      BY <1>3, <2>1 DEF RunMoves, Live, Looping
    <3>2. step_status' = step_status /\ Describes(final[s])
      BY <1>0, <1>2, <2>1, <3>1 DEF RunsInOrder
    <3> QED BY <3>1, <3>2 DEF Describes
  <2>2. CASE s = r
    <3>1. CASE compute_final(r)
      <4>1. final'[r] = FinalStatus /\ step_status' = step_status
        BY <1>0, <3>1 DEF compute_final, WorkflowTypes
      <4>2. Describes(FinalStatus) BY <1>0, FinalDescribes
      <4> QED BY <2>2, <4>1, <4>2 DEF Describes
    <3>2. CASE ~compute_final(r)
      BY <1>0, <1>3, <2>2, <3>2
        DEF RunStep, dispatch, next_step, check_pause, pause, r_ref_get,
         unpause_put, begin_step, corpus_run_id, r_ref_put, runner_done, runner_blocked,
         runner_failed, runner_raises, record_failure, publish_final, crash, RunGoto, End,
         Advance, WorkflowTypes
    <3> QED BY <3>1, <3>2
  <2> QED BY <2>1, <2>2
<1>4. ASSUME crashes' = 0, \A s \in Runs : ~Live(s)' PROVE Describes(status)'
  <2>1. CASE Live(r)
    <3>1. CASE pause(r) BY <3>1 DEF pause, Describes
    <3>2. CASE record_failure(r) BY <3>2 DEF record_failure, Describes
    <3>3. CASE publish_final(r)
      <4>1. rpc[r] = "publish" /\ status' = final[r] /\ step_status' = step_status
        BY <3>3 DEF publish_final
      <4>2. Describes(final[r]) BY <1>0, <4>1 DEF RunsInOrder
      <4> QED BY <4>1, <4>2 DEF Describes
    <3>4. CASE crash(r) BY <1>0, <1>4, <3>4 DEF crash, WorkflowTypes
    <3>5. CASE ~pause(r) /\ ~record_failure(r) /\ ~publish_final(r) /\ ~crash(r)
      <4>1. Live(r)'
        BY <1>0, <2>1, <3>5 DEF RunStep, dispatch, next_step, check_pause, r_ref_get,
           unpause_put, begin_step, corpus_run_id, r_ref_put, runner_done, runner_blocked,
           runner_failed, runner_raises, compute_final, RunGoto, Advance, WorkflowTypes,
           Live, Looping
      <4> QED BY <1>4, <4>1
    <3> QED BY <3>1, <3>2, <3>3, <3>4, <3>5
  <2>2. CASE ~Live(r)
    <3>1. status' = status /\ step_status' = step_status BY <2>2 DEF RunMoves
    <3>2. \A s \in Runs : ~Live(s)
      <4>1. ASSUME NEW s \in Runs \ {r} PROVE ~Live(s)
        BY <1>4 DEF RunMoves, Live
      <4> QED BY <2>2, <4>1
    <3>3. crashes = 0 BY <1>4 DEF RunMoves
    <3> QED BY <1>0, <3>1, <3>2, <3>3 DEF RunsInOrder, Describes
  <2> QED BY <2>1, <2>2
<1>5. ASSUME NEW s \in Runs, rpc'[s] \in AtStep, resume'[s] PROVE step_status'[at'[s]] # "done"
  <2>1. CASE s # r
    <3>1. Live(s) /\ rpc[s] \in AtStep /\ resume[s] /\ at'[s] = at[s]
      BY <1>5, <2>1 DEF RunMoves, Live, Looping, AtStep
    <3> QED BY <1>0, <1>2, <2>1, <3>1 DEF RunsInOrder
  <2>2. CASE s = r
    <3>1. CASE next_step(r)
      BY <1>0, <1>5, <2>2, <3>1
        DEF next_step, Skips, RunGoto, Advance, AtStep, WorkflowTypes
    <3>2. CASE begin_step(r)
      BY <1>0, <2>2, <3>2 DEF begin_step, SetStep, RunGoto, Looping, WorkflowTypes
    <3>3. CASE check_pause(r) \/ r_ref_get(r) \/ corpus_run_id(r) \/ r_ref_put(r)
      <4>1. rpc[r] \in AtStep /\ resume'[r] = resume[r] /\ at'[r] = at[r]
            /\ step_status' = step_status
        BY <1>0, <1>5, <2>2, <3>3
        DEF check_pause, r_ref_get, corpus_run_id, r_ref_put, RunGoto, AtStep,
            WorkflowTypes
      <4> QED BY <1>0, <1>5, <2>2, <4>1 DEF RunsInOrder
    <3>4. CASE ~next_step(r) /\ ~begin_step(r) /\ ~check_pause(r) /\ ~r_ref_get(r)
               /\ ~corpus_run_id(r) /\ ~r_ref_put(r)
      BY <1>0, <1>5, <2>2, <3>4 DEF RunStep, dispatch, pause, unpause_put, runner_done,
         runner_blocked, runner_failed, runner_raises, record_failure, compute_final,
         publish_final, crash, RunGoto, End, Advance, AtStep, WorkflowTypes
    <3> QED BY <3>1, <3>2, <3>3, <3>4
  <2> QED BY <2>1, <2>2
<1> QED BY <1>3, <1>4, <1>5 DEF RunsInOrder

(* Nor does a request undo what the runs rely on.                             *)
LEMMA RequestsLeaveOrder ==
    ASSUME WorkflowAssumption, WorkflowOrder, NEW c \in Clients,
           (\E q \in Requests : request(c, q)) \/ soft_delete(c) \/ ClientStep(c)
    PROVE  RunsInOrder'
<1> SUFFICES ASSUME InTurn' PROVE RunsInOrder' BY DEF RunsInOrder
<1>1. /\ UNCHANGED <<step_status, final, workers, crashes>>
      /\ \A r \in Runs : /\ Live(r)' = Live(r)
                         /\ Live(r) => rpc'[r] = rpc[r] /\ resume'[r] = resume[r] /\ at'[r] = at[r]
      /\ status' \in {status, "running", "deleted"}
      /\ crossed => crossed'
  BY RequestsLeaveWork
<1>2. RunsInOrder /\ InTurn BY <1>1 DEF WorkflowOrder, InTurn
<1>3. ASSUME NEW s \in Runs, rpc'[s] = "publish" PROVE Describes(final[s])'
  <2>1. Live(s)' BY <1>3 DEF Live, Looping
  <2>2. Describes(final[s]) BY <1>1, <1>2, <1>3, <2>1 DEF RunsInOrder
  <2> QED BY <1>1, <2>2 DEF Describes
<1>4. ASSUME crashes' = 0, \A s \in Runs : ~Live(s)' PROVE Describes(status)'
  <2>1. Describes(status) BY <1>1, <1>2, <1>4 DEF RunsInOrder
  <2> QED BY <1>1, <2>1 DEF Describes
<1>5. ASSUME NEW s \in Runs, rpc'[s] \in AtStep, resume'[s] PROVE step_status'[at'[s]] # "done"
  <2>1. Live(s)' BY <1>5 DEF Live, Looping, AtStep
  <2> QED BY <1>1, <1>2, <1>5, <2>1 DEF RunsInOrder
<1> QED BY <1>3, <1>4, <1>5 DEF RunsInOrder

(* The start, a stutter and every step.                                       *)
LEMMA WorkflowStarts == WorkflowAssumption /\ WorkflowInit => WorkflowOrder
<1> SUFFICES ASSUME WorkflowAssumption, WorkflowInit PROVE WorkflowOrder OBVIOUS
<1>1. WorkflowTypes
  <2>1. NoRef \in EngineRefs /\ 1 \in 1 .. N + 1
    BY WorkflowAssumption DEF NoRef, EngineRefs
  <2>2. crashes \in 0 .. MaxCrashes /\ requests \in 0 .. MaxRequests
    BY WorkflowAssumption DEF WorkflowInit
  <2> QED
    BY <2>1, <2>2
      DEF WorkflowInit, WorkflowTypes, Statuses, StepStatuses, RunPCs, Looping
<1>2. Occupied = {} BY DEF WorkflowInit, Occupied, Busy, Looping
<1>3. IsFiniteSet(Occupied) /\ Cardinality(Occupied) = 0 BY <1>2, FS_EmptySet
<1>4. WorkersTaken BY <1>1, <1>3 DEF WorkersTaken, WorkflowTypes
<1>5. \A r \in Runs : ~Pending(r) BY DEF WorkflowInit, Pending, Live, Looping
<1>6. RequestsInTurn BY <1>5 DEF WorkflowInit, RequestsInTurn
<1>7. RunsInOrder BY DEF WorkflowInit, RunsInOrder, Describes, AtStep
<1> QED BY <1>1, <1>4, <1>6, <1>7 DEF WorkflowOrder

LEMMA WorkflowStutters == ASSUME WorkflowOrder, UNCHANGED workflow_vars PROVE WorkflowOrder'
<1>1. /\ UNCHANGED <<status, step_status, engine_ref, cpc, req, crun, rpc, resume, at, final>>
      /\ UNCHANGED <<seen, acked, workers, crossed, requests, crashes>>
  BY DEF workflow_vars, clients, run_vars, bounds
<1>2. WorkflowTypes' BY <1>1, Zenon DEF WorkflowOrder, WorkflowTypes
<1>3. WorkersTaken'
  <2>1. Occupied' = Occupied BY <1>1 DEF Occupied
  <2> QED BY <1>1, <2>1 DEF WorkflowOrder, WorkersTaken
<1>4. RequestsInTurn' BY <1>1 DEF WorkflowOrder, RequestsInTurn, Pending, Live
<1>5. RunsInOrder' BY <1>1 DEF WorkflowOrder, RunsInOrder, InTurn, Describes, Live
<1> QED BY <1>2, <1>3, <1>4, <1>5 DEF WorkflowOrder

LEMMA WorkflowSteps ==
    ASSUME WorkflowAssumption, WorkflowOrder, [WorkflowNext]_workflow_vars PROVE WorkflowOrder'
<1>1. ASSUME NEW c \in Clients,
             (\E q \in Requests : request(c, q)) \/ soft_delete(c) \/ ClientStep(c)
      PROVE  WorkflowOrder'
  BY <1>1, ClientTypes, RequestsLeaveWork, RequestsStayInTurn, RequestsLeaveOrder
    DEF WorkflowOrder
<1>2. ASSUME NEW r \in Runs, RunStep(r) \/ crash(r) PROVE WorkflowOrder'
  <2>1. RunMoves(r) BY <1>2, RunStepMoves DEF WorkflowOrder
  <2> QED
    BY <1>2, <2>1, RunTypes, RunsTakeWorkers, RunsLeaveRequests, RunsStayInOrder
      DEF WorkflowOrder
<1> QED BY <1>1, <1>2, WorkflowStutters DEF WorkflowNext

(* One run at a time, and a status that describes the steps.                  *)
LEMMA OrderIsEnough == ASSUME WorkflowOrder PROVE OneRun /\ SettledMatchesSteps
<1>1. ASSUME InTurn PROVE Cardinality({r \in Runs : Live(r)}) <= 1
  <2>1. CASE {r \in Runs : Live(r)} = {} BY <2>1, FS_EmptySet
  <2>2. CASE \E r \in Runs : Live(r)
    <3>1. PICK r \in Runs : Live(r) BY <2>2
    <3>2. {s \in Runs : Live(s)} = {r} BY <1>1, <3>1, OneIsLive
    <3> QED BY <3>2, FS_Singleton
  <2> QED BY <2>1, <2>2
<1>2. SettledMatchesSteps
  BY DEF SettledMatchesSteps, WorkflowOrder, RunsInOrder, Live, Looping
<1> QED BY <1>1, <1>2 DEF OneRun

(* The workflow engine, whatever its requests, workers and crashes: with requests *)
(* in turn one run executes at a time, and a workflow that has settled describes *)
(* its steps: WorkflowInv.                                                       *)
THEOREM WorkflowCorrect == WorkflowSpec => []WorkflowInv
<1>1. WorkflowSpec => []WorkflowOrder
  BY WorkflowAssumption, WorkflowStarts, WorkflowSteps, PTL DEF WorkflowSpec
<1>2. WorkflowOrder => WorkflowInv BY OrderIsEnough DEF WorkflowInv
<1> QED BY <1>1, <1>2, PTL

(* A resume redoes no step that is done: ResumeKeepsDone.                        *)
THEOREM ResumedKeepDone == WorkflowSpec => ResumeKeepsDone
<1> DEFINE Redone == \A i \in Steps : InTurn /\ step_status[i] = "done" /\ step_status'[i] # "done"
                       => \E r \in Runs : Live(r) /\ ~resume[r] /\ at[r] = i
<1>1. WorkflowSpec => []WorkflowOrder
  BY WorkflowAssumption, WorkflowStarts, WorkflowSteps, PTL DEF WorkflowSpec
<1>2. ASSUME WorkflowOrder, WorkflowNext PROVE Redone
  <2> SUFFICES ASSUME NEW i \in Steps, InTurn, step_status[i] = "done", step_status'[i] # "done"
               PROVE  \E r \in Runs : Live(r) /\ ~resume[r] /\ at[r] = i
    OBVIOUS
  <2>1. PICK r \in Runs : RunStep(r) \/ crash(r)
    BY <1>2, WorkflowAssumption, RequestsLeaveWork DEF WorkflowNext
  <2>2. rpc[r] \in {"begin", "body"} /\ at[r] = i
    BY <1>2, <2>1
      DEF RunStep, dispatch, next_step, check_pause, pause, r_ref_get, unpause_put,
       begin_step, corpus_run_id, r_ref_put, runner_done, runner_blocked, runner_failed,
       runner_raises, record_failure, compute_final, publish_final, crash, SetStep,
       WorkflowOrder, WorkflowTypes
  <2>3. ~resume[r] BY <1>2, <2>2 DEF WorkflowOrder, RunsInOrder, AtStep
  <2> QED BY <2>2, <2>3 DEF Live, Looping
<1>3. WorkflowOrder /\ [WorkflowNext]_workflow_vars => [Redone]_workflow_vars BY <1>2
<1> QED BY <1>1, <1>3, PTL DEF WorkflowSpec, ResumeKeepsDone
=============================================================================
