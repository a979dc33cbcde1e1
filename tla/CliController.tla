--------------------------- MODULE CliController ---------------------------
(* CliBackedMinimalController: rounds of run_once driven by the decisions of  *)
(* an external agent, the skills they call and the workspace on disk.         *)
(*                                                                            *)
(* The agent may ask for any skill at any time: nothing remembers which skills *)
(* have run, and a skill that runs again replaces its files under those made   *)
(* of them.  A round is one thread of one process, so it is a step; an         *)
(* exception or a crash leaves a prefix of its writes.  run_until_stop is a    *)
(* sequence of rounds that may run out of its budget after any of them, since  *)
(* max_steps is the caller's; run_once is called alone too, and after a        *)
(* terminal status.                                                           *)
EXTENDS SkillContracts

CONSTANTS
    Batches,      \* the evidence sets an extraction may produce
    MaxAgain,     \* bound: calls of a skill whose artifact is there already
    MaxFailures   \* bound: rounds that stop half way

ASSUME ControllerConstants ==
    /\ Batches \subseteq SUBSET Evidence
    /\ MaxAgain \in Nat /\ MaxFailures \in Nat

VARIABLES
    disk,       \* the files of the skills
    manifest,   \* audit/artifact_manifest.json: the files it records
    status,     \* state.json: status
    completed,  \* state.json: completed_steps, positions of the chain
    ever,       \* history: every id that has been among the enriched cards
    built,      \* history: so many skills of the chain were built in order
    again, failures

vars == <<disk, manifest, status, completed, ever, built, again, failures>>

-----------------------------------------------------------------------------
(* Decisions.                                                                 *)

Statuses == {"initialized", "running", "completed", "blocked", "failed",
             "validation_failed", "budget_exceeded"}

(* The paths a request may name: "outside" is what the workspace policy does   *)
(* not grant, chunks included.                                                *)
Inputs == (Paths \ {"chunk"}) \cup {"outside"}

(* What the agent prints: a decision, with the input paths of its request; 0   *)
(* is a skill that is not available.                                          *)
Decisions ==
    [type : {"CALL_TOOL"}, skill : Positions \cup {0}, inputs : Inputs]
      \cup [type : {"STOP_SUCCESS", "STOP_BLOCKED", "other", "unparseable"}]

(* validate_cli_skill_request.                                                *)
Granted(q) == q.skill # 0 /\ q.inputs # "outside"

(* parse_cli_output.                                                          *)
Accepted(q) == q.type # "unparseable" /\ (q.type = "CALL_TOOL" => Granted(q))

(* _preflight_inputs, or the skill itself, which looks at the paths first.     *)
Forbidden(q) == q.inputs \in Refused[q.skill]

Calls(q) == q.type = "CALL_TOOL" /\ Accepted(q) /\ ~Forbidden(q)

Called == {q.skill : q \in {q \in Decisions : Calls(q)}}

(* The status a decision that calls no skill leaves.                          *)
StatusOf(q) ==
    IF ~Accepted(q) THEN "blocked"
    ELSE IF q.type = "STOP_SUCCESS" THEN "completed"
    ELSE IF q.type = "CALL_TOOL" THEN "validation_failed" ELSE "blocked"

-----------------------------------------------------------------------------
Init ==
    /\ disk = [f \in Files |-> Missing]
    /\ manifest = {} /\ status = "initialized" /\ completed = {}
    /\ ever = {} /\ built = 0
    /\ again = 0 /\ failures = 0

OnDisk(f) == disk[f] # Missing

(* The files a skill looks for, whatever the request names.                   *)
Reads(i) == Chain[i].reads

Ready(i) == \A f \in Reads(i) : OnDisk(f)

(* Artifacts are made anew a bounded number of times.                         *)
Counted(i) ==
    again' = (IF OnDisk(Artifacts[i]) THEN again + 1 ELSE again) /\ again' <= MaxAgain

Ends(s) ==
    /\ status' = s
    /\ UNCHANGED <<disk, manifest, completed, ever, built, again, failures>>

(* A round that calls no skill.                                               *)
decide == \E s \in {StatusOf(q) : q \in {q \in Decisions : ~Calls(q)}} : Ends(s)

(* run_until_stop after max_steps rounds.                                     *)
budget_exceeded == status = "running" /\ Ends("budget_exceeded")

(* missing_input_artifact, or no language model to screen with.               *)
skill_blocked == (\E i \in Called : ~Ready(i) \/ i = 6) /\ Ends("blocked")

(* A skill refuses; a screening leaves the diagnostics of the answer.         *)
skill_refuses(i) ==
    /\ Ready(i) /\ (MayRefuse(i, disk) \/ ~Takes(i, disk))
    /\ disk' = IF i = 6 THEN [disk EXCEPT ![Diagnostics[i]] = "written"] ELSE disk
    /\ status' = "validation_failed"
    /\ UNCHANGED <<manifest, completed, ever, built, again, failures>>

(* The files of a round that succeeds: its result goes over the old files, and *)
(* what was built of those is no longer built in order.                       *)
Enriched(B) ==
    /\ disk' = [disk EXCEPT !["enriched"] = B]
    /\ ever' = ever \cup B
    /\ built' = 1

Built(i, r) ==
    /\ disk' = [disk EXCEPT ![Artifacts[i]] = r.artifact, ![Diagnostics[i]] = r.diagnostics]
    /\ built' = IF built >= i - 1 THEN i ELSE built
    /\ UNCHANGED ever

Done(i) ==
    /\ Ready(i) /\ Takes(i, disk) /\ Counted(i)
    /\ IF i = 1 THEN \E B \in Batches : Enriched(B)
                ELSE \E r \in Results(i, disk) : Built(i, r)

Recorded(i) == manifest' = manifest \cup Writes(i)

(* The gates read the files again.                                            *)
Gated(i) == (\A f \in Writes(i) : OnDisk(f)') /\ Passes(i, disk')

Completed(i) == status' = "running" /\ completed' = completed \cup {i}

skill_succeeds(i) ==
    /\ Done(i) /\ Recorded(i)
    /\ IF Gated(i) THEN Completed(i) ELSE status' = "validation_failed" /\ UNCHANGED completed
    /\ UNCHANGED failures

(* An exception before the first write; execute_evidence_skill catches it.    *)
skill_fails == Ends("failed")

Fault == failures < MaxFailures /\ failures' = failures + 1

(* The artifact is written and the diagnostics are not: an exception, or the   *)
(* end of the process, which leaves the status as it is.                      *)
stops_between(i) ==
    /\ Fault /\ i > 1 /\ Ready(i) /\ Takes(i, disk) /\ Counted(i)
    /\ \E r \in Results(i, disk) : disk' = [disk EXCEPT ![Artifacts[i]] = r.artifact]
    /\ built' = Smaller(built, i - 1)
    /\ status' \in {"failed", status}
    /\ UNCHANGED <<manifest, completed, ever>>

(* The process ends, or the manifest or the state cannot be written, after the *)
(* skill has returned.                                                        *)
dies(i) ==
    /\ Fault /\ Done(i)
    /\ Recorded(i) \/ UNCHANGED manifest
    /\ UNCHANGED <<status, completed>>

Call(i) == skill_refuses(i) \/ skill_succeeds(i) \/ stops_between(i) \/ dies(i)

run_once == decide \/ skill_blocked \/ skill_fails \/ \E i \in Called : Call(i)

Next == run_once \/ budget_exceeded

Spec == Init /\ [][Next]_vars

-----------------------------------------------------------------------------
(* Properties.                                                                *)

(* What a file of a skill holds.  A gap of the map has evidence; an idea has    *)
(* some too and the gap of it; what a candidate, a ledger or a draft cites is   *)
(* not empty, nor is what it consists of.                                      *)
GapIds == {"missing_role", "dominant_source", "limited_axis"} \cup {ClusterOf[e] : e \in Evidence}

ClaimTypes ==
    {"literature_observation", "gap_statement", "candidate_hypothesis", "screening_assessment",
     "experiment_matrix_rationale", "limitation_statement"}

Cited == (SUBSET Evidence) \ {{}}

Coverages == [missing : SUBSET RequiredRoles, dominant : BOOLEAN]

Gaps == [id : GapIds, role : RequiredRoles \cup {"none"}, evidence : Cited]

Claims == {c \in [type : ClaimTypes, gaps : SUBSET GapIds, evidence : SUBSET Evidence] :
             c.type # "limitation_statement" => c.evidence # {}}

(* Apart from the limitations, a ledger claims something.                     *)
Claiming(c) == \E q \in c.claims : q.type # "limitation_statement"

Contents(f) ==
    CASE f = "enriched" -> SUBSET Evidence
      [] f = "selection" -> [ranked : SUBSET Evidence, selected : SUBSET Evidence]
      [] f \in {"coverage", "landscape_diag"} -> Coverages
      [] f = "landscape" -> [evidence : SUBSET Evidence, missing : SUBSET RequiredRoles,
                             dominant : BOOLEAN]
      [] f = "gaps" -> [evidence : Cited, gaps : SUBSET Gaps]
      [] f = "ideas" -> [ideas : (SUBSET [gap : GapIds, evidence : Cited]) \ {{}}]
      [] f = "screening" -> [idea : GapIds, evidence : Cited, triaged : {Triages}]
      [] f = "matrix" -> [idea : GapIds, evidence : Cited]
      [] f = "ledger" -> {c \in [evidence : Cited, claims : SUBSET Claims] : Claiming(c)}
      [] f = "draft" -> [evidence : Cited, blocks : (SUBSET Claims) \ {{}}]
      [] OTHER -> {"written"}

(* A file that is not there is no file with any contents.                     *)
ASSUME MissingIsNoContents ==
    /\ \A S \in SUBSET Evidence : S # Missing
    /\ \A f \in Files \ {"enriched"} : Missing \notin Contents(f)

TypeOK ==
    /\ DOMAIN disk = Files /\ \A f \in Files : OnDisk(f) => disk[f] \in Contents(f)
    /\ manifest \subseteq Files /\ status \in Statuses /\ completed \subseteq Positions
    /\ ever \subseteq Evidence /\ built \in 0 .. 9
    /\ again \in 0 .. MaxAgain /\ failures \in 0 .. MaxFailures

(* A step noted as completed has its files, and the manifest has them, though  *)
(* a round may stop between any two of its writes.                            *)
CompletedIsPublished ==
    /\ \A i \in completed : Writes(i) \subseteq manifest
    /\ \A f \in manifest : OnDisk(f)

(* The evidence ids in a file.                                                *)
Cites(f, c) ==
    CASE f = "enriched" -> c
      [] f = "selection" -> c.ranked \cup c.selected
      [] f = "gaps" -> c.evidence \cup UNION {g.evidence : g \in c.gaps}
      [] f = "ideas" -> IdeaEvidence(c)
      [] f \in {"landscape", "screening", "matrix"} -> c.evidence
      [] f = "ledger" -> c.evidence \cup UNION {q.evidence : q \in c.claims}
      [] f = "draft" -> c.evidence \cup UNION {b.evidence : b \in c.blocks}
      [] OTHER -> {}

(* No file, a draft written of a mixture of old and new files included, cites  *)
(* evidence that was never among the enriched cards.                          *)
NothingInvented == \A f \in Files : OnDisk(f) => Cites(f, disk[f]) \subseteq ever

(* The files that a chain called in order has built, over what re-runs and     *)
(* failures left before, cite the selection of that chain.  The claims on the  *)
(* literature may cite any of its cards, and a landscape all of them.          *)
CitesTheSelection ==
    LET S == Selected(disk)
        Others(C) == UNION {c.evidence : c \in {c \in C : c.type # "literature_observation"}}
    IN  /\ built >= 2 => disk["selection"].ranked = Cards(disk) /\ S \subseteq Cards(disk)
        /\ built >= 3 => disk["landscape"].evidence = (IF S = {} THEN Cards(disk) ELSE S)
        /\ \A i \in 4 .. Smaller(built, 7) : Cites(Artifacts[i], disk[Artifacts[i]]) \subseteq S
        /\ built >= 8 => /\ disk["ledger"].evidence \cup Others(disk["ledger"].claims) \subseteq S
                         /\ Cites("ledger", disk["ledger"]) \subseteq Cards(disk)
        /\ built = 9 => /\ Others(disk["draft"].blocks) \subseteq S
                        /\ Cites("draft", disk["draft"]) \subseteq Cards(disk)

(* In such a chain every id resolves: an idea to a gap whose evidence it has,  *)
(* a screened idea to an idea, a candidate to a screened idea, the gap of a    *)
(* claim to the gap map and a block to a claim.                               *)
IdsResolve ==
    LET G == disk["gaps"].gaps
        gapIds == {g.id : g \in G}
    IN  /\ built >= 5 => \A x \in disk["ideas"].ideas : \E g \in G : g.id = x.gap /\ g.evidence = x.evidence
        /\ built >= 6 => \E x \in disk["ideas"].ideas : x.gap = disk["screening"].idea
        /\ built >= 7 => disk["matrix"].idea = disk["screening"].idea
        /\ built >= 8 => \A c \in disk["ledger"].claims : c.gaps \subseteq gapIds
        /\ built = 9 => disk["draft"].blocks \subseteq disk["ledger"].claims

(* A role that such a chain reports as missing is missing from its selection,  *)
(* and a chain whose selection misses a role reports one.                     *)
RoleGapsAreTrue ==
    built >= 4 =>
      LET missing == {g.role : g \in {g \in disk["gaps"].gaps : g.id = "missing_role"}}
      IN  missing \subseteq Missed(Selected(disk)) /\ (missing = {} <=> Missed(Selected(disk)) = {})

(* What makes the three above true: in such a chain the files of each skill     *)
(* are still a result of that skill on the files of the ones before it, though  *)
(* skills were called again, refused and stopped half way in between.          *)
ChainMade ==
    /\ built > 0 => OnDisk("enriched")
    /\ \A i \in 2 .. built :
         \E r \in Results(i, disk) :
           disk[Artifacts[i]] = r.artifact /\ disk[Diagnostics[i]] = r.diagnostics

(* No draft repeats a statement that claims more than literature may, whatever *)
(* the ledger let through and however the files were mixed.                   *)
NoOverclaimDrafted ==
    OnDisk("draft") =>
      \A b \in disk["draft"].blocks : b.type = "literature_observation" =>
        \A e \in b.evidence : Wording[e] = "plain"

(* No file that a skill has made is refused by its class, its gate or a skill  *)
(* that reads it, and no mixture of files made of different ones: a task never *)
(* comes to a standstill in its own files.                                    *)
NothingIsRefused ==
    \A i \in Positions : /\ OnDisk(Artifacts[i]) => Passes(i, disk)
                         /\ Ready(i) => Takes(i, disk)

CliInv == TypeOK /\ CompletedIsPublished /\ NoOverclaimDrafted /\ NothingIsRefused

ChainInv == CitesTheSelection /\ IdsResolve /\ RoleGapsAreTrue /\ ChainMade

(* Refuted: a completed task has something on disk.  STOP_SUCCESS is believed. *)
CompletedHasAnArtifact == status = "completed" => completed # {}

(* Refuted: what is on disk cites the evidence that is selected now.           *)
CurrentlySelected == OnDisk("draft") /\ OnDisk("selection") =>
    disk["draft"].evidence \subseteq disk["selection"].ranked

(* Refuted: the gap map has every missing role.                               *)
EveryMissingRole ==
    built >= 4 => \A r \in Missed(Selected(disk)) : \E g \in disk["gaps"].gaps : g.role = r

(* Refuted: the ledger's evidence has the evidence of its claims.              *)
LedgerListsItsEvidence ==
    OnDisk("ledger") => Cites("ledger", disk["ledger"]) \subseteq disk["ledger"].evidence
=============================================================================
