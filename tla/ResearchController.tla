------------------------- MODULE ResearchController -------------------------
(* One controlled research step of a workflow: ResearchControllerRunner       *)
(* .execute, the rounds of PlatformNativeFallbackController.run_once, the      *)
(* skills it calls and the task workspace on disk.                            *)
(*                                                                            *)
(* A workspace is a directory: plan.md, state.json, an artifact manifest and  *)
(* the files of the skills, each written whole (a temporary file that is      *)
(* renamed).  Nothing ever deletes a file.  The controller keeps no record of *)
(* its place: it picks the first skill of its plan with a file missing.  One  *)
(* worker runs the workflow at a time (Workflow!OneRun), so the steps below   *)
(* are as coarse as exceptions allow: any write may raise.  A worker that     *)
(* dies leaves its workflow "running", and nothing touches the workspace      *)
(* again.                                                                     *)
EXTENDS Integers, Sequences, SequencesExt

CONSTANTS
    Plans,        \* the plan kinds a template asks for, 0 .. 4
    Finds,        \* what a search may find
    MaxRuns,      \* bound: starts and resumes in a behaviour
    MaxFailures,  \* bound: exceptions in a behaviour
    Missing       \* no such file

ASSUME ConstantsAssumption ==
    /\ Plans \subseteq 0 .. 4
    /\ Finds \subseteq {"nothing", "unusable", "usable"}
    /\ MaxRuns \in Nat /\ MaxFailures \in Nat

VARIABLES
    plan,      \* controller_plan_kind of the step
    step,      \* workflow_steps.status
    artifacts, \* workflow_steps.artifact_ids
    emitted,   \* the artifact_ids the runner has collected in this run
    exists,    \* the workspace directory exists
    plan_md,   \* plan.md exists
    state,     \* state.json: status and completed_steps
    manifest,  \* audit/artifact_manifest.json: the paths it records
    disk,      \* the files of the skills
    pc, skill, result, todo, content,  \* the controller, between two writes
    step_index,                        \* rounds of the current run
    executions,                        \* skill executions so far
    runs, failures

files == <<exists, plan_md, state, manifest, disk>>
call == <<skill, result, todo, content>>
row == <<step, artifacts>>
vars == <<plan, row, emitted, files, pc, call, step_index, executions, runs, failures>>

-----------------------------------------------------------------------------
(* The skills and their files.  Contents matter as far as some skill looks at *)
(* them: whether there is nothing, only passages no card can be made of, or    *)
(* usable evidence.                                                           *)

(* The plan builders: each explicit plan adds a skill to the one before it.   *)
ScreeningPlan ==
    <<"retrieve_sources", "create_evidence_seeds", "extract_evidence_cards",
      "enrich_evidence_cards", "rank_evidence", "build_minimal_topic_to_evidence_report",
      "build_landscape", "map_gaps", "generate_candidate_ideas", "screen_novelty_feasibility_risk">>

FirstSkills(n) == [i \in 1 .. n |-> ScreeningPlan[i]]

MinimalPlan == FirstSkills(6)
LandscapePlan == FirstSkills(7)
GapMappingPlan == FirstSkills(8)
IdeaGenerationPlan == FirstSkills(9)

(* ResearchControllerRunner._PLAN_BUILDERS.                                   *)
Requested ==
    <<MinimalPlan, LandscapePlan, GapMappingPlan, IdeaGenerationPlan, ScreeningPlan>>[plan + 1]

Skills == ToSet(ScreeningPlan)

(* ResearchControllerRunner._MAX_STEPS.                                       *)
MaxSteps == 10 + plan

BugOutputs(s) ==
    CASE s = "retrieve_sources" -> <<"packet", "warnings">>
      [] s = "create_evidence_seeds" -> <<"seeds">>
      [] s = "extract_evidence_cards" -> <<"initial">>
      [] s = "enrich_evidence_cards" -> <<"enriched">>
      [] s = "rank_evidence" -> <<"selection">>
      [] s = "build_minimal_topic_to_evidence_report" -> <<"report_md", "report_json">>
      [] s = "build_landscape" -> <<"landscape", "landscape_md", "landscape_diagnostics">>
      [] s = "map_gaps" -> <<"gaps", "gaps_md", "gaps_diagnostics">>
      [] s = "generate_candidate_ideas" -> <<"ideas", "ideas_md", "ideas_diagnostics">>
      [] OTHER -> <<"screening", "screening_md", "screening_diagnostics">>

(* The files a skill writes when it succeeds, in this order.                  *)
Outputs(s) ==
    CASE s = "retrieve_sources" -> <<"packet", "warnings">>
      [] s = "create_evidence_seeds" -> <<"seeds">>
      [] s = "extract_evidence_cards" -> <<"initial">>
      [] s = "enrich_evidence_cards" -> <<"enriched">>
      [] s = "rank_evidence" -> <<"selection", "coverage">>
      [] s = "build_minimal_topic_to_evidence_report" -> <<"report_md", "report_json">>
      [] s = "build_landscape" -> <<"landscape", "landscape_md", "landscape_diagnostics">>
      [] s = "map_gaps" -> <<"gaps", "gaps_md", "gaps_diagnostics">>
      [] s = "generate_candidate_ideas" -> <<"ideas", "ideas_md", "ideas_diagnostics">>
      [] OTHER -> <<"screening", "screening_md", "screening_diagnostics">>

Selected == {"enriched", "selection", "coverage"}

(* _input_artifacts_for.                                                      *)
Inputs(s) ==
    CASE s = "retrieve_sources" -> {}
      [] s = "create_evidence_seeds" -> {"packet"}
      [] s = "extract_evidence_cards" -> {"seeds"}
      [] s = "enrich_evidence_cards" -> {"initial"}
      [] s = "rank_evidence" -> {"enriched"}
      [] s \in {"build_minimal_topic_to_evidence_report", "build_landscape"} -> Selected
      [] s = "map_gaps" -> Selected \cup {"landscape", "landscape_diagnostics"}
      [] s = "generate_candidate_ideas" ->
           Selected \cup {"landscape", "landscape_diagnostics", "gaps", "gaps_diagnostics"}
      [] OTHER -> Selected \cup {"landscape", "landscape_diagnostics", "gaps", "gaps_diagnostics",
                                 "ideas", "ideas_diagnostics"}

(* The files whose absence makes _determine_next_skill choose a skill: those  *)
(* it writes, but for the warnings of the search.                             *)
Checked(s) ==
    CASE s = "retrieve_sources" -> {"packet"}
      [] s = "rank_evidence" -> {"selection", "coverage"}
      [] OTHER -> ToSet(Outputs(s))

Files == UNION {ToSet(Outputs(s)) \cup Checked(s) : s \in Skills}

OnDisk(f) == disk[f] # Missing

(* _determine_next_skill: a skill, or "none" when the plan is complete.       *)
NextSkill ==
    LET open == {i \in DOMAIN Requested : \E f \in Checked(Requested[i]) : ~OnDisk(f)}
    IN  IF open = {} THEN "none" ELSE Requested[Min(open)]

(* What the files of a skill hold, by what it reads.  A search may find        *)
(* nothing, passages no card can be made of, or usable ones.  The runner gives *)
(* up a search at its deadline and goes on as if nothing had been found; the   *)
(* late answer goes to a queue nobody reads.                                   *)
TimeoutPacket == "nothing"
acquire == Finds \cup {TimeoutPacket}

create_evidence_seeds == disk["packet"].found

(* A passage without text, path or paper makes no card; there is neither an    *)
(* extractor nor a classifier.                                                 *)
extract_evidence_cards == IF disk["seeds"].found = "usable" THEN "usable" ELSE "nothing"
enrich_evidence_cards == disk["initial"].found

(* Without a budget every card is ranked and some are selected.                *)
rank_evidence == disk["enriched"].found

(* The report is written of the selected cards, or of none.                   *)
build_minimal_report == disk["selection"].found

Made(s) ==
    CASE s = "retrieve_sources" -> acquire
      [] s = "create_evidence_seeds" -> {create_evidence_seeds}
      [] s = "extract_evidence_cards" -> {extract_evidence_cards}
      [] s = "enrich_evidence_cards" -> {enrich_evidence_cards}
      [] s = "rank_evidence" -> {rank_evidence}
      [] s = "build_minimal_topic_to_evidence_report" -> {build_minimal_report}
      [] OTHER -> {disk["selection"].found}

BugNeedsEvidence == {}

(* The skills that refuse when there is no card, or none is selected.         *)
NeedsEvidence == {"map_gaps", "generate_candidate_ideas"}

(* How a skill with its inputs may end.  A search may fail; screening needs a  *)
(* language model, which may not be configured, not be reachable or answer     *)
(* what does not validate.                                                     *)
Outcomes(s) ==
    IF s = "retrieve_sources" THEN {"success", "failed"}
    ELSE IF s \in NeedsEvidence /\ "nothing" \in {disk["enriched"].found, disk["selection"].found}
         THEN {"validation_failed"}
    ELSE IF s = "screen_novelty_feasibility_risk"
         THEN {"success", "validation_failed", "failed", "blocked"}
    ELSE {"success"}

(* _preflight reads the cards and the selection: a file that is missing there  *)
(* fails its validation, any other blocks the step.                           *)
PreflightReads(s) ==
    CASE s = "enrich_evidence_cards" -> {"initial"}
      [] s = "rank_evidence" -> {"enriched"}
      [] s = "build_minimal_topic_to_evidence_report" -> {"enriched", "selection"}
      [] OTHER -> {}

Refusal(s) ==
    IF \E f \in PreflightReads(s) : ~OnDisk(f) THEN "validation_failed"
    ELSE IF \E f \in Inputs(s) : ~OnDisk(f) THEN "blocked" ELSE "none"

(* _run_validation_gates: the files of a skill that reports them, and the      *)
(* manifest, can be read.  What is in them a skill has validated before it     *)
(* wrote it; what the gates ask of the later files see SkillContracts.         *)
GatesPass(s) == manifest # Missing /\ (result = "success" => \A f \in ToSet(Outputs(s)) : OnDisk(f))

(* What is written: everything, or the diagnostics of an answer refused.      *)
Written(s, r) ==
    IF r = "success" THEN Outputs(s)
    ELSE IF r = "validation_failed" /\ s = "screen_novelty_feasibility_risk"
         THEN <<"screening_diagnostics">> ELSE <<>>

(* _should_block_for_empty_evidence.                                          *)
BlocksOnEmpty == plan # 0 /\ skill = "retrieve_sources" /\ content = "nothing"

BugKept(f) == f # "packet"

(* create_workspace makes directories that may exist and leaves their files.  *)
Kept(f) == TRUE

-----------------------------------------------------------------------------
Results == {"success", "failed", "validation_failed", "blocked"}

States == [status : Results \cup {"initialized", "running", "completed"},
           completed : SUBSET Skills]

(* A file of a skill: the execution that wrote it, the find it goes back to,   *)
(* and the executions of the files it was made from.                           *)
FilesOf(s) == [by : Nat \ {0}, found : acquire, read : [Inputs(s) -> Nat]]

(* A file that is not there is none of these.                                 *)
ASSUME MissingIsNoFile ==
    /\ Missing \notin States
    /\ \A s \in Skills : Missing \notin FilesOf(s)
    /\ \A S \in SUBSET Files : S # Missing

TypeOK ==
    /\ plan \in Plans
    /\ step \in {"pending", "running", "done", "blocked", "failed"}
    /\ exists \in BOOLEAN /\ plan_md \in BOOLEAN
    /\ state \in States \cup {Missing}
    /\ manifest \in (SUBSET Files) \cup {Missing}
    /\ DOMAIN disk = Files
    /\ \A s \in Skills : \A f \in ToSet(Outputs(s)) : OnDisk(f) => disk[f] \in FilesOf(s)
    /\ artifacts \subseteq Files /\ emitted \subseteq Files
    /\ pc \in {"idle", "mkdir", "plan", "state", "manifest", "replan", "begin", "choose",
               "execute", "write", "record", "gates", "update", "report", "finish"}
    /\ skill \in Skills \cup {"none"} /\ result \in Results
    /\ todo \in Seq(Files) /\ content \in acquire \cup {"none"}
    /\ step_index \in Nat /\ executions \in Nat
    /\ runs \in 0 .. MaxRuns /\ failures \in 0 .. MaxFailures

Init ==
    /\ plan \in Plans
    /\ step = "pending" /\ artifacts = {} /\ emitted = {}
    /\ exists = FALSE /\ plan_md = FALSE
    /\ state = Missing /\ manifest = Missing
    /\ disk = [f \in Files |-> Missing]
    /\ pc = "idle" /\ skill = "none" /\ result = "success" /\ todo = <<>> /\ content = "none"
    /\ step_index = 0 /\ executions = 0 /\ runs = 0 /\ failures = 0

(* The run is over: nothing of the controller object survives it.             *)
Return ==
    /\ pc' = "idle"
    /\ skill' = "none" /\ result' = "success" /\ todo' = <<>> /\ content' = "none"

Goto(l) == pc' = l /\ UNCHANGED call

-----------------------------------------------------------------------------
(* The runner opens the workspace.                                            *)

(* WorkflowOrchestrator.start or resume of a workflow that is not running; a  *)
(* resume passes over a step that is done.  A start makes the workspace anew, *)
(* a resume when there is none; a resume repairs a missing plan.              *)
start(r) ==
    /\ pc = "idle" /\ runs < MaxRuns
    /\ r => step # "done"
    /\ runs' = runs + 1
    /\ step_index' = 0 /\ emitted' = {}
    /\ Goto(IF ~r \/ ~exists THEN "mkdir" ELSE IF ~plan_md THEN "replan" ELSE "begin")
    /\ UNCHANGED <<plan, row, files, executions, failures>>

mkdir ==
    /\ pc = "mkdir"
    /\ exists' = TRUE
    /\ disk' = [f \in Files |-> IF Kept(f) THEN disk[f] ELSE Missing]
    /\ Goto("plan")
    /\ UNCHANGED <<plan, row, emitted, plan_md, state, manifest, step_index, executions, runs, failures>>

write_plan ==
    /\ pc \in {"plan", "replan"}
    /\ plan_md' = TRUE
    /\ Goto(IF pc = "plan" THEN "state" ELSE "begin")
    /\ UNCHANGED <<plan, row, emitted, exists, state, manifest, disk, step_index, executions, runs, failures>>

reset_state ==
    /\ pc = "state"
    /\ state' = [status |-> "initialized", completed |-> {}]
    /\ Goto("manifest")
    /\ UNCHANGED <<plan, row, emitted, exists, plan_md, manifest, disk, step_index, executions, runs, failures>>

reset_manifest ==
    /\ pc = "manifest"
    /\ manifest' = {}
    /\ Goto("begin")
    /\ UNCHANGED <<plan, row, emitted, exists, plan_md, state, disk, step_index, executions, runs, failures>>

begin ==
    /\ pc = "begin"
    /\ step' = "running"
    /\ Goto("choose")
    /\ UNCHANGED <<plan, artifacts, emitted, files, step_index, executions, runs, failures>>

-----------------------------------------------------------------------------
(* A round: run_once, and what the runner makes of its result.                *)

choose ==
    /\ pc = "choose"
    /\ step_index' = step_index + 1
    /\ skill' = NextSkill
    /\ pc' = IF NextSkill = "none" THEN "finish" ELSE "execute"
    /\ UNCHANGED <<plan, row, emitted, files, result, todo, content, executions, runs, failures>>

(* STOP_SUCCESS.                                                              *)
finish ==
    /\ pc = "finish" /\ state # Missing
    /\ state' = [state EXCEPT !.status = "completed"]
    /\ Goto("report")
    /\ UNCHANGED <<plan, row, emitted, exists, plan_md, manifest, disk,
                   step_index, executions, runs, failures>>

(* _preflight and missing_inputs, then execute_evidence_skill up to its first  *)
(* write.                                                                     *)
refuse ==
    /\ result' = Refusal(skill) /\ pc' = "update"
    /\ UNCHANGED <<todo, content, executions>>

begin_skill ==
    /\ \E r \in Outcomes(skill), c \in Made(skill) :
         /\ result' = r /\ content' = c
         /\ todo' = Written(skill, r)
         /\ pc' = IF Written(skill, r) = <<>> THEN "record" ELSE "write"
    /\ executions' = executions + 1

execute ==
    /\ pc = "execute"
    /\ IF Refusal(skill) # "none" THEN refuse ELSE begin_skill
    /\ UNCHANGED <<plan, row, emitted, files, skill, step_index, runs, failures>>

write_file ==
    /\ pc = "write"
    /\ disk' = [disk EXCEPT ![Head(todo)] =
                  [by |-> executions, found |-> content,
                   read |-> [f \in Inputs(skill) |-> disk[f].by]]]
    /\ todo' = Tail(todo)
    /\ pc' = IF Len(todo) = 1 THEN "record" ELSE "write"
    /\ UNCHANGED <<plan, row, emitted, exists, plan_md, state, manifest, skill, result, content,
                   step_index, executions, runs, failures>>

(* execute_evidence_skill turns an exception of a skill into a result.        *)
skill_raises ==
    /\ pc = "write" /\ failures < MaxFailures
    /\ failures' = failures + 1
    /\ result' = "failed" /\ todo' = <<>>
    /\ pc' = "record"
    /\ UNCHANGED <<plan, row, emitted, files, skill, content, step_index, executions, runs>>

(* record_skill_execution_result.                                             *)
record ==
    /\ pc = "record" /\ manifest # Missing
    /\ manifest' = manifest \cup (IF result = "success" THEN ToSet(Outputs(skill)) ELSE {})
    /\ Goto("gates")
    /\ UNCHANGED <<plan, row, emitted, exists, plan_md, state, disk,
                   step_index, executions, runs, failures>>

(* A gate that fails outweighs what the skill says of itself.                 *)
run_validation_gates ==
    /\ pc = "gates"
    /\ result' = IF GatesPass(skill) THEN result ELSE "validation_failed"
    /\ pc' = "update"
    /\ UNCHANGED <<plan, row, emitted, files, skill, todo, content,
                   step_index, executions, runs, failures>>

(* _update_after_success.                                                     *)
update_after_success ==
    /\ pc = "update" /\ result = "success" /\ state # Missing
    /\ state' = [status |-> "running", completed |-> state.completed \cup {skill}]
    /\ Goto("report")
    /\ UNCHANGED <<plan, row, emitted, exists, plan_md, manifest, disk,
                   step_index, executions, runs, failures>>

(* _update_after_terminal_tool_result.                                        *)
update_after_terminal_tool_result ==
    /\ pc = "update" /\ result # "success" /\ state # Missing
    /\ state' = [state EXCEPT !.status = result]
    /\ Goto("report")
    /\ UNCHANGED <<plan, row, emitted, exists, plan_md, manifest, disk,
                   step_index, executions, runs, failures>>

(* The run ends with the step's status, and its artifacts are those of the    *)
(* skills this run has executed.                                              *)
EndRun(status) ==
    /\ step' = status /\ artifacts' = emitted'
    /\ Return

(* The files of a skill that succeeded are copied and listed.                 *)
emit_artifacts == ToSet(Outputs(skill))

(* _write_plan_summary, and what the runner makes of the result.              *)
round_succeeds ==
    /\ pc = "report" /\ skill # "none" /\ result = "success"
    /\ emitted' = emitted \cup emit_artifacts
    /\ IF BlocksOnEmpty THEN EndRun("blocked") ELSE Goto("choose") /\ UNCHANGED row
    /\ UNCHANGED <<plan, files, step_index, executions, runs, failures>>

round_ends ==
    /\ pc = "report"
    /\ UNCHANGED emitted
    /\ \/ skill = "none" /\ EndRun("done")
       \/ skill # "none" /\ result = "blocked" /\ EndRun("blocked")
       \/ skill # "none" /\ result \in {"failed", "validation_failed"} /\ EndRun("failed")
    /\ UNCHANGED <<plan, files, step_index, executions, runs, failures>>

(* The file a step needs is not there: FileNotFoundError ends the run.        *)
Unreadable == IF pc = "record" THEN manifest = Missing
              ELSE pc \in {"update", "finish"} /\ state = Missing

file_not_found ==
    /\ Unreadable
    /\ Return
    /\ UNCHANGED <<plan, row, emitted, files, step_index, executions, runs, failures>>

(* Any other write raises, that of plan.md after state.json included: the     *)
(* orchestrator records the failure of the workflow and leaves the step as it *)
(* is, and its artifacts.                                                     *)
raises ==
    /\ pc \in {"plan", "replan", "state", "manifest", "choose", "record", "gates", "update", "report",
               "finish"}
    /\ failures < MaxFailures
    /\ failures' = failures + 1
    /\ Return
    /\ UNCHANGED <<plan, row, emitted, files, step_index, executions, runs>>

Next ==
    \/ \E r \in BOOLEAN : start(r)
    \/ mkdir \/ write_plan \/ reset_state \/ reset_manifest \/ begin
    \/ choose \/ finish \/ execute \/ write_file \/ skill_raises
    \/ record \/ run_validation_gates
    \/ update_after_success \/ update_after_terminal_tool_result
    \/ round_succeeds \/ round_ends \/ file_not_found \/ raises

Spec == Init /\ [][Next]_vars

-----------------------------------------------------------------------------
(* Properties.                                                                *)

(* A step that is done has every file of its plan, whatever runs built them.  *)
DoneIsBuilt == step = "done" => \A i \in DOMAIN Requested : \A f \in Checked(Requested[i]) : OnDisk(f)

(* state.json names a skill as completed only when the manifest records its   *)
(* files and they are there: a failure between the writes of                  *)
(* create_workspace or of a round leaves too little, never too much.          *)
CompletedIsRecorded ==
    state # Missing =>
      \A s \in state.completed : \A f \in ToSet(Outputs(s)) :
        manifest # Missing /\ f \in manifest /\ OnDisk(f)

(* No gap and no idea is built on a search that found nothing usable, though  *)
(* a resume goes on where the runner had blocked.                             *)
GapsHaveEvidence ==
    \A f \in {"gaps", "ideas", "screening"} : OnDisk(f) => disk[f].found = "usable"

(* The chosen skill finds its inputs, so neither _preflight nor the check for  *)
(* missing inputs ever refuses one of these plans, and the gates pass what the *)
(* skills have made.                                                           *)
InputsPresent ==
    /\ pc = "execute" => Refusal(skill) = "none"
    /\ pc = "gates" => GatesPass(skill)

(* A step lists only files that are there, and none of a plan it does not     *)
(* have, whichever runs made them and wherever the last one failed.           *)
ListedIsBuilt ==
    \A f \in artifacts \cup emitted :
      OnDisk(f) /\ \E i \in DOMAIN Requested : f \in ToSet(Outputs(Requested[i]))

(* Every file was made from the files that are on disk now, over failures,    *)
(* resumes and restarts: choosing by what is missing never replaces a file    *)
(* that others were made from.                                                *)
DerivedFromCurrent ==
    \A f \in Files : OnDisk(f) =>
      \A g \in DOMAIN disk[f].read : OnDisk(g) /\ disk[f].read[g] = disk[g].by

(* A run ends within the budget of its plan, which run_once never looks at:   *)
(* a skill that succeeds is not chosen again.                                 *)
WithinBudget == step_index <= MaxSteps

(* The files come in the order of the plan: when one of a skill is there, the   *)
(* files of every skill before it that the choice looks at are there.          *)
IsBuilt(i) == \A f \in Checked(Requested[i]) : OnDisk(f)

IsBegun(i) == \E f \in ToSet(Outputs(Requested[i])) : OnDisk(f)

FilesInOrder ==
    /\ \A f \in Files : OnDisk(f) => \E i \in DOMAIN Requested : f \in ToSet(Outputs(Requested[i]))
    /\ \A i, j \in DOMAIN Requested : j < i /\ IsBegun(i) => IsBuilt(j)

(* A file goes back to the execution that wrote it and, by the third skill, to  *)
(* a search whose finds were told usable from not; from the gaps on, to usable *)
(* ones, which the selection still has.                                        *)
FilesAreSound ==
    \A i \in DOMAIN Requested : \A f \in ToSet(Outputs(Requested[i])) : OnDisk(f) =>
      /\ disk[f].by <= executions
      /\ i >= 3 => disk[f].found \in {"usable", "nothing"}
      /\ i >= 8 => disk[f].found = "usable" /\ disk["selection"].found = "usable"

(* A skill at work has everything before it; while it writes nothing after it  *)
(* is there.                                                                   *)
AtPlace(k) ==
    /\ skill = Requested[k] /\ step_index <= k
    /\ \A j \in DOMAIN Requested : j < k => IsBuilt(j)
    /\ pc \in {"execute", "write"} => \A i \in DOMAIN Requested : k < i => ~IsBegun(i)
    /\ pc = "write" => /\ k >= 3 => content \in {"usable", "nothing"}
                       /\ k >= 8 => content = "usable" /\ disk["selection"].found = "usable"

Working == pc \in {"execute", "write", "record", "gates", "update"} \/ (pc = "report" /\ skill # "none")

Finished == pc \in {"finish", "report"} /\ skill = "none"

WorkInOrder ==
    /\ Working => \E k \in DOMAIN Requested : AtPlace(k)
    /\ Finished => \A i \in DOMAIN Requested : IsBuilt(i)
    /\ pc = "finish" => skill = "none"
    /\ pc = "choose" => /\ step_index \in 0 .. 6 + plan
                        /\ \A i \in DOMAIN Requested : ~IsBuilt(i) => step_index < i
    /\ pc \in {"mkdir", "plan", "state", "manifest", "replan", "begin"} => step_index = 0

(* What is still to be written and recorded of a skill that succeeds.          *)
WritesInOrder ==
    /\ pc = "write" => /\ todo # <<>> /\ ToSet(todo) \subseteq ToSet(Outputs(skill))
                       /\ executions > 0 /\ content # "none"
    /\ Working /\ result = "success" =>
         \A f \in ToSet(Outputs(skill)) :
           /\ pc # "execute" => OnDisk(f) \/ (pc = "write" /\ f \in ToSet(todo))
           /\ pc \in {"gates", "update"} => manifest # Missing /\ f \in manifest
    /\ pc = "gates" => manifest # Missing
    /\ pc = "manifest" => state # Missing /\ state.completed = {}

(* State, manifest, files and the budget agree.                               *)
ControllerInv ==
    /\ TypeOK /\ DoneIsBuilt /\ CompletedIsRecorded /\ GapsHaveEvidence /\ InputsPresent
    /\ ListedIsBuilt /\ WithinBudget
    /\ FilesInOrder /\ FilesAreSound /\ WorkInOrder /\ WritesInOrder

(* What the runner's message says of an empty search: a plan beyond the       *)
(* minimal one does not go on without evidence.  Refuted: a resume does.      *)
LandscapeHasEvidence == OnDisk("landscape") => disk["landscape"].found # "nothing"

(* "Try again after the search was widened": a later run searches again.      *)
(* Refuted: the empty packet is a file, and no skill with its file is run.    *)
RetrySearchesAgain ==
    [][pc = "choose" /\ step_index = 0 /\ OnDisk("packet") /\ disk["packet"].found = "nothing"
         => skill' = "retrieve_sources" \/ pc' = "idle"]_vars

(* A step that is done lists all its files: what workflow_insights and the     *)
(* display read.  Refuted: a run that resumes lists only what it made itself.  *)
DoneListsEverything ==
    step = "done" => \A i \in DOMAIN Requested : ToSet(Outputs(Requested[i])) \subseteq artifacts

(* Every file is in the manifest between runs.  Refuted: a restart empties    *)
(* the manifest and keeps the files.                                          *)
EveryFileIsRecorded ==
    pc = "idle" /\ step = "done" => \A f \in Files : OnDisk(f) => manifest # Missing /\ f \in manifest

(* The files of one skill come from one execution.  Refuted for screening,    *)
(* whose diagnostics a refused answer writes alone.                           *)
OutputsAgree ==
    \A s \in Skills : (\A f \in ToSet(Outputs(s)) : OnDisk(f)) =>
      \A f, g \in ToSet(Outputs(s)) : disk[f].by = disk[g].by
=============================================================================
