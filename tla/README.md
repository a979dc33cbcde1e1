# A TLA+ model of the literature research platform

The platform is a web application in which a researcher searches the literature,
runs research workflows and extracts structured data from papers.  A FastAPI
server and one or more worker processes (`python -m worker`) share one
PostgreSQL database; nothing else is shared between processes.  This directory
models the parts of `src/backend` in which several of these actors read and
write the same rows, checks them with TLC, and proves the results that matter
most with TLAPS.

All paths below are relative to `src/backend`.

1. [The system](#1-the-system)
2. [What is hard](#2-what-is-hard)
3. [The modules](#3-the-modules)
4. [The runs](#4-the-runs)
5. [What the runs found](#5-what-the-runs-found)
6. [The proofs](#6-the-proofs)
7. [What is not modelled](#7-what-is-not-modelled)
8. [The plan](#8-the-plan)

## 1. The system

| Part | State | Operations | Correct when |
|---|---|---|---|
| Job queue `core/worker/queue.py` | tables `jobs`, `job_events` | enqueue, claim, complete, fail, cancel, append_event, recover_stale_jobs | a job with one attempt runs at most once, a settled job stays settled, every queued job settles, the event stream says "done" when and only when it is over |
| Worker loop `core/worker/runtime.py`, `worker/` | none of its own | run_once: recover, claim, execute, settle | it settles exactly what it claimed |
| Literature jobs `modules/literature_search/job_store.py`, `job_runner.py` | the same tables | submit for a worker, or submit and execute inline | as the queue |
| Workflow engine `modules/workflow/` (orchestrator, store, runners) | `workflow_runs` (status, `engine_ref` JSON), `workflow_steps` | start, resume, pause, delete, the loop over the steps | one run at a time, a pause takes effect, a started workflow settles, what is done is not done again, a deleted workflow stays deleted |
| Extraction runs `modules/structured_extraction/extraction_runs.py` | `structured_extraction_runs`, `_run_items`, `_records`, task stats | start, cancel, resume, reap, execute | completed items are kept, records match items, a run settles, cancel holds, a run is counted once, reviewed records stay |
| Evidence packet builds `structured_extraction/evidence_packets.py` | builds, staged items, packet versions | build in a request, start, cancel, the worker | a completed build has published a version of its own with all its items; a build ends |
| Review, multimodal review, export `structured_extraction/review.py`, `multimodal_review.py`, `exports.py` | field states, event log, suggestions, review jobs, exports | accept, reject, edit, lock, bulk, undo, suggest, export | no review is lost, the log explains every value, a job misses no field, an export warns of what nobody has reviewed |
| Collections, schemas, contracts `structured_extraction/collection.py`, `schema_designer.py`, `prompt_contract.py` | candidates, numbered versions, drafts, the task's row | decide, freeze, save, duplicate, compile a contract | frozen versions never change, what is current is complete |
| Schema compilation `structured_extraction/schema_compilation_store.py` | compilations, their core jobs, the draft | queue, compile, repair, stream, resolve, apply, edit | one is active, what may be applied is covered, a draft tells its source truly |
| Accounts `core/auth_store.py`, `core/user_store.py` | `users`, `auth_sessions`, `api_tokens` | signup, login, update profile, administrate users, tokens | once there is an administrator there always is one, only the first account becomes one by signing up, every request ends |
| Sessions and turns `core/session_store.py`, `api/chat_router.py` | turns, messages, citations | create a turn, stream, save, cite, settle, delete the newest turn | a completed turn has its citations, no turn is left running |
| Agent loop and citations `modules/literature_search/agent/` | per turn, in memory: messages, budgets, the registry of aliases | rounds of tool calls, forced synthesis, audit, finalising | a marker names the evidence it named when it was written, what is stored is what was audited |
| Research controller `modules/research_agent_controller/`, `research_workspace/` | a directory of files per step: plan, state, manifest, results | choose the next skill, execute, record, stop, resume; or do what an external agent decides | results are made from the files that are there, state and manifest tell no more than is there, the budget holds |
| Research skills `research_agent_controller/skills/` | the files they read and write | cards, selection, landscape, gaps, ideas, screening, matrix, ledger, draft | what a file cites is evidence that was there, ids resolve, a reported gap is one, a draft claims no more than its evidence |
| Evidence workflow, retrieval `modules/evidence_workflow/`, `literature_search/retrieval/` | none (functions), an external index | search, recover, select passages, judge them; make cards, rank and select them | no paper takes the pool over, the context is full and diverse, quotas give way only to fill the budget and never silently, no required role is lost |
| Memory, settings, secrets `core/` | one row per user | read, write | single-row |
| Web server `api/`, `main.py`; frontend `src/frontend` | none | requests | each request is an operation of a part above |

How they interact.

* A request handler calls a service; the service changes its own tables and
  queues a job (`JobQueue.enqueue`).  The job's id goes back into the service's
  row: `workflow_runs.engine_ref.orchestrator_job_id`,
  `structured_extraction_runs.core_job_id`.
* A worker claims the job and calls the handler registered for its type, which
  calls the same service again (`WorkflowOrchestrator._run`,
  `StructuredExtractionRunService.execute_core_job`).  From here requests and
  worker share rows without any lock but PostgreSQL's statement atomicity.
* A request cancels or pauses by a column that the worker polls
  (`cancel_requested`, status `cancelling`, `engine_ref.pause_requested`).
* The corpus-stage runner of a workflow submits a literature job and executes
  it inline in the worker of the workflow.
* A step of a workflow runs the research controller inside the worker; its
  files outlive the run and a resume finds them again.
* Packet builds, review jobs, extraction runs and compilations each put the id
  of a core job into their own row *after* they have queued it.
* A chat turn runs inside the request that asked for it; other requests of the
  same session read its messages and may delete it.
* The browser follows `job_events` of the job that `engine_ref` names.

Three facts hold everywhere and shape every module.  Nearly every statement is
a transaction of its own, so what a process has read may be out of date when
it writes.  `heartbeat_job` has no caller: a lease is never renewed, and a
running handler does lose it.  Every caller leaves `max_attempts` at its
default of 1, so a job is not retried unless somebody asks for it.

## 2. What is hard

`PROJECT.json` lists each hazard at its line, with the properties that watch
it.  They fall into these groups.

* *Leases without renewal.*  A job that outlives its lease is taken for stale
  while its worker still executes it (`queue.py:226`), two workers recover the
  same job from what they read before either wrote (`queue.py:236`), and the
  late worker settles the row whatever it says by now (`queue.py:131`).
* *Check, then act.*  The status is read in one transaction and written in the
  next: start of a workflow (`orchestrator.py:99`), cancel of a job
  (`queue.py:197`), cancel of an extraction run (`extraction_runs.py:186`).
* *Whole-column writes.*  `engine_ref` and the task's `stats` are JSON columns
  that are read, changed and written back (`workflow/store.py:206`,
  `extraction_runs.py:505`, `structured_extraction/store.py:213`): concurrent
  writers lose each other's keys.
* *Publication order.*  The job is queued before the row says so
  (`orchestrator.py:110`) or before it names the job (`extraction_runs.py:90`):
  a fast worker or a fast cancel gets in between.
* *Numbers and rows computed apart.*  The next version of a packet, a
  collection or a schema and the rows a reviewer lacks are read in one
  statement and inserted in another (`evidence_packets.py:44`,
  `collection.py:321`, `review.py:344`): a primary key or nothing decides.
* *Crashes.*  A dead worker or request leaves `running` rows that only recovery,
  a resume or nothing at all will move.
* *Exceptions halfway.*  Handlers write in several steps and an exception after
  any of them must leave a status, or files, that a resume can go on from.
* *Names that change.*  Evidence is cited by an alias that is given early and
  compacted late (`citations.py:249`), across turns that others delete.
* *Locks.*  Accounts are the one place with real locks, two advisory ones and
  row locks, taken by overlapping operations in one transaction, and one more by
  the foreign key of the audit event at its end (`auth_store.py:707`).

## 3. The modules

Each component has a module; `MC<Module>` adds what TLC needs (symmetry,
manifests as sequences); the theorems and proofs about one or two modules are in
a module `...Proofs` that extends them (the diagram below).  Definitions keep the
names of the functions they model; `PROJECT.json` "map" gives the lines.  A
definition named `Bug...` is a mutated form of the definition that follows it
and is used by no specification: it shows that a property notices the mistake.

How they are composed.  `JobLifecycle` says what the queue promises to those
who submit jobs; `JobQueue` implements it (checked and proved).  `PacketBuild`,
`Review` and `SchemaCompilation` instantiate it for their core jobs, so that
their workers take a job when the queue lets them and lose it when a lease
ends.  `Workflow` and `ExtractionRun` use the same promise by assumption: a job
is dispatched to one worker, once, and not again after a crash.
`ResearchController` is one step of `Workflow`.  `ChatSession` extends
`AgentLoop`, which extends `Citations`.  `Credentials` extends
`AuthStore`: every step of it is a step of `AuthStore` or leaves the accounts
alone (proved).  `CliController` extends
`SkillContracts`, which extends `ResearchSkills`.  `WORKER_CONCURRENCY` is 1 by
default: `MaxRunning` is the number of workers in `ExtractionRun`, and
`Workflow` has 1 to `MaxRunning`.

```
JobLifecycle <-- implemented by -- JobQueue <-- JobQueueProofs
  ^ INSTANCE: PacketBuild, Review, SchemaCompilation
  ^ by assumption: Workflow (a step: ResearchController), ExtractionRun
ResearchController, Workflow <-- PlanProofs
EvidenceSelection, PacketBuild <-- EvidenceProofs
SchemaCompilation, TaskVersions <-- SchemaProofs
Citations <-- AgentLoop <-- ChatSession; AuthStore <-- Credentials
ChatSession, Credentials <-- SessionProofs
ExtractionRun <-- ExtractionRunProofs
Review <-- ReviewProofs
ResearchSkills <-- SkillContracts <-- CliController <-- CliControllerProofs
```

### JobQueue

One variable per column of `jobs` that some statement reads (`status`,
`attempt_count`, `max_attempts`, `locked_at`, `next_run_at` as the Boolean
`due`, `cancel_requested`), `events` for the types of events appended so far,
and the program counter of each process.  Every transaction is one action:

| Code | Actions |
|---|---|
| `enqueue` | `enqueue`, then `append_event` |
| `recover_stale_jobs` | `select_stale`, per job `recover_get` and `requeue_stale`, or the `fail` it calls; `recovered` |
| `claim_next` | `claim`, `claim_none` |
| handler | `handler_returns`, `handler_raises`; the handler itself takes any time |
| `_execute` after the handler | `check_cancel`, `complete`, `fail_get`, `fail_retry` or `fail_write` |
| `cancel` | `request_cancel`, `cancel_get`, `cancel_queued` or `cancel_running` |
| `JobRunner.submit`, `run_inline` | `submit`, `start` and the handler of a runner |
| time | `lease_expires`, `backoff_elapses` |
| process death | `crash` (a worker is restarted at once, its call is lost) |

A runner (`Runners`) submits a job of `InlineJobs`, which it then executes itself
beside the workers; `MaxJobs` bounds the jobs that a behaviour submits.

Time is abstract: a lease is `"live"` until it is `"expired"`, a retry is not
`due` until it is.  `locked_by` and priorities are left out because no
statement reads the first and `SKIP LOCKED` lets a claim pass over any row.

### Workflow

One workflow: its status, the status of each step, `engine_ref` as a record of
the keys that matter (`pause`, `job`, `corpus`), each request and each queued
run with its program counter and the `engine_ref` it has read.  `Kind` gives
the runner of each step.  The three runners are modelled by their writes and
outcomes: corpus-stage records its sub-job in `engine_ref`, agent-step depends
on an earlier corpus step, research-controller may be interrupted by a pause
between its own steps, and each of them may finish, block, fail or raise.  A
step that has no runner is skipped as unavailable.  `workers` is how many
workers there are; `crossed` notes that two requests overlapped, and `InTurn`
says that they have not: it is the condition of `OneRun`.

### ExtractionRun

One run: its status, `core_job_id`, `counted_at`, the status of each item, the
number of records of each item, whether a review event or an export exists,
the task's status and run count, and the core jobs that execute it.  Requests
and workers interleave at every statement, exceptions at every statement of
the worker that the code catches (`raised`: one is caught, what is raised in
`_fail_run` itself is not), crashes between any two statements.

Abstractions that a reader of the code should know:

* a request reads the run's columns in one step, and so does `_finalize_run`;
  no statement in between writes another of them;
* the merge of chunks into records is one record for each completed item: what
  is in a record is left to a later module;
* the task is `ready` before its first run, so `previous_task_status` is too;
* `job[j] = "finished"` means the handler returned, whether the queue then says
  completed or failed;
* a failure to insert an item event is not modelled apart from the statement
  it accompanies, and the order of claims is free.

### AuthStore

The transactions that read or write `users.role` and `users.status`: sign-up
(under `ADMIN_BOOTSTRAP_ADVISORY_LOCK_ID`), what an administrator does to a user
(`update_user_admin`, under `ADMIN_MUTATION_ADVISORY_LOCK_ID` and then the
user's row "for update"; without a role or a status, and for
`reset_password_admin`, under the row only), what takes one's own row and
leaves role and status alone (`touch_user`: login, a new API token, the
profile), and `UserStore`'s insert for an
external subject.  Every statement is a step under READ COMMITTED; writes become
visible at commit, which frees the locks.  The last statement inserts the audit
event, whose foreign key to the acting user waits for whoever has that user's row
"for update" (`WaitsForRow`); it is one step with the commit, because what it
locks is freed there at once.  Two administrators who act on each other
therefore wait in a circle, and PostgreSQL rolls one of them back
(`Deadlocked`).  Any transaction may be rolled back at any statement.
`DevHeader` is the development mode in which every caller is an administrator;
`Asked` are the changes of role and status that callers ask for.

Who may call the administration API is checked when the request begins and not
again in its transaction (`api/admin_router.py`): `MayAdminister` therefore
stands at the beginning of `update_user_admin`.

### Credentials

`AuthStore` with the rows of `auth_sessions` and `api_tokens`: whose each
credential is (`owner`), which one a request is about to insert (`issued`) and
which ones it has revoked (`revoked`), both visible at its commit.  A login or a
new token reads that the user is active in one statement and inserts in a later
one; the foreign key of the new row waits for whoever has the user's row "for
update", and an update of the user waits for it.  `update_user_admin` revokes
all that a user has when it disables the user, with the role and status it
writes.  Logging out and revoking are one step each (`Gone`): they update
credentials and end with the audit event.  Callers are authenticated at the
beginning of a request (`Authenticated`: a header of the proxy, or a credential
of an active user).

A login that has read "active" before a disabling and inserts after its commit
leaves a live credential of a disabled account.  It opens nothing, since
`user_for_session_token` and `user_for_api_token` ask for `status = 'active'`,
but it is valid again when the account is enabled, while the design says that
disabling revokes all (`src/docs/superpowers/specs/2026-07-09-formal-user-management-design.md:88`).
`DisableRevokes` therefore is about the step that disables.

Left out: what requests wait for on the rows of credentials themselves,
`change_password`, the reissue of CSRF tokens.

### JobLifecycle

A job is absent, pending, running or settled, and has been dispatched so many
times.  `Submit`, `Dispatch` (from pending only), `RunInline` (by its submitter,
without a dispatch), `Retry` (a job with several attempts only) and `Settle`.
The refinement mapping of `JobQueue` reads the life of a job off its status
(`Life`) and the number of its dispatches off `attempt_count`.

### PacketBuild

Builds of one task: the row, its staged items, the packet versions and the core
job of each build.  A request may start a build, build at once, or cancel; the
worker stages item by item, polls for the cancel, finalises (version row, items,
manifest) and reports.  The primary key of the versions is `MayInsert`.
Everything that can raise does, and ends in `failed`; the crash of a worker
leaves a build `running`, and nothing recovers it (`reap_orphaned_build_jobs` is
called by a test only).

### Review

One record of a finished run: a row for each field (absent until somebody asks
for the record), the event log, the suggestions of review jobs, exports and
their count.  Every action on a field is four steps: rows that are missing are
inserted, the row is read and written, its event is inserted, the row is linked
to the event.  Undo runs in another order, as in the code.  A review job reads
all rows once and inserts its suggestions one at a time.

### TaskVersions

The candidates a user has decided on, frozen collections with their papers, the
draft of the schema, frozen schemas, contracts, and what the task's row says of
them.  Each freeze computes its number, inserts the version, inserts papers and
then updates the task, with any other request or a crash in between.

### SchemaCompilation

Compilations with their execution status, their result (which requirement is
mapped to what, and whether it has errors) and their core job; the draft and the
frozen schemas with the compilation they name as source.  The index that allows
one active compilation is `MayBeActive`.  The stream of a compilation is an
action: it gives the compilation up when its core job has failed, which happens
while the worker whose lease has expired still computes, and whose late result
is written.

### Citations, AgentLoop, ChatSession

`Citations` has the registry of one answer as operators: `AliasFor` and
`register_evidence` (evidence that reads like an earlier abstract shares its
alias), `resolve_answer` and the compaction at the end.  `AgentLoop` is one run
of the loop: what the model writes and calls is free within what it was shown,
budgets and guards are those of the code, the streamed text is kept apart from
the draft, and the audit cleans, replaces or passes it.  `ChatSession` is the
requests around it.  A text is the sequence of its pieces and a piece its kind
and markers; what the audit thinks of a text is a choice, what it then does is
not.  It is assumed that `enforce_citations` is on (its default) and that no
tool passes on evidence that is not in the context.

### ResearchController

One controlled step: the plan kind, the workspace on disk (which execution wrote
each file, from which versions of which others, and whether the search behind it
found nothing, passages no card can be made of, or usable evidence), state,
manifest, the artifacts the step lists, and the controller between two writes:
preflight, skill, record, gates, state, plan summary, the list of this run.  Any
write may raise.  What a skill makes follows from what it reads
(`extract_evidence_cards`, `rank_evidence` and so on).  The action `start` is a start or a resume of the workflow; a start creates the
workspace again over the files that are there.

### EvidenceSelection

From the search to the evidence of a report.  `search` is the search of
`build_packet` and its recoveries; `take`, `sort_pool`, `flag` and `top_up` are
the loops of `select_evidence`, a turn of a loop each; `judge` makes the verdicts
of the packet; `convert` turns passages and linked figures into seeds;
`rank_card` makes a card of one and ranks it; `select_role`, `select_card` and
`next_loop` are the four loops of `select_representative_evidence`.  Lists are
given in the order that their sort makes, so a passage or a card is its
position; scores of passages are tenths, and the score of a card is only its
place.  Between the two halves nothing but the seeds is kept, because nothing
else is read.  Near likeness of abstracts is a relation that is not transitive.

### ResearchSkills, SkillContracts, CliController

`ResearchSkills` has the chain of nine skills from the enriched cards to a
drafted section: the files each reads and writes (`Contract`, from the skill
contracts and validators) and what it makes of them (`Rankings`, `Landscapes`,
`GapMaps`, `IdeaSets`, `Screenings`, `Matrices`, `Ledgers`, `Drafts`).  An
artifact is the references that it carries; text is only whether a statement is
a phrase that the ledger or the draft refuses (`Wording`).  What a skill takes
from the front of a list is any so many of its elements, and a record of a
screening answer stands for all of them, because each is checked, carried on
and claimed by itself.

`SkillContracts` has what is asked of an artifact from three sides: its class
(`GapRecord`, `CandidateIdeaRecord`, `ClaimRecord` and so on, which raise on
what they do not take), the gate of the controller that reads the file again
(`Passes`) and the skills that read it later (`Takes`), with the paths that each
skill refuses (`Refused`).  The builders are modelled without these checks, so
that they never refuse anything is a result (`NothingIsRefused`).

`CliController` is the controller that an external agent drives.  A round is a
step: the answer is parsed, a request is granted or not, inputs are refused,
the skill runs on what is on disk now, and files, manifest and state are
written.  Nothing remembers which skills have run: the agent may repeat one, and
its files are then replaced under those made of them.  `stops_between` and
`dies` are exceptions and crashes between two writes.  `ever` and `built` are
history: the ids that have been among the cards, and how much of the chain was
built in order over whatever was there.

Left out: the initial cards and the report (the skills before and beside the
chain), the gaps and papers that a screening answer cites (checked as its
evidence is), all axes of comparison but one, audit logs and Markdown.

## 4. The runs

| Run | Checks | Instance | Distinct states |
|---|---|---|---|
| `queue_workers` | `AttemptInv`, `ExclusiveExecution`, `Accounted`, `SettledStays`, `CancelledBeforeClaim`, `EventuallySettles`, `ImplementsLifecycle` | 1 job of 1 or 2 attempts, or one executed inline, 2 workers, 1 client, 1 runner, 1 cancel, 1 crash | 621,231 |
| `workflow_requests` | `WorkflowInv`, `ResumeKeepsDone` | a step of every kind; 2 clients, 3 requests (2 of them with two workers), delete included, 2 runs, 1 or 2 workers, 1 crash | 2,010,054 |
| `extraction_serial` | `ExtractionInv`, `RunIsDriven`, `CompletedItemsKept` | 2 items, 2 jobs, 2 clients, 2 requests of every kind, 1 crash, 1 reap, 1 worker | 1,525,683 |
| `packet_overlap` | `BuildInv`, `CompletedIsPublished`, `BuildSettles` | 2 builds, 1 item, 2 clients, 3 requests, 2 workers, 1 crash | 554,313 |
| `review_overlap` | `ReviewInv`, `ReviewKept`, `CompletedJobCovers`, `ExportsTell` | 2 fields, 1 review job, 2 clients, 3 requests, 1 crash | 3,278,784 |
| `versions_overlap` | `VersionsInv`, `VersionsKept` | 2 candidates, 2 collections, 1 schema, 1 contract, 2 clients, 1 crash | 2,369,668 |
| `compilation_overlap` | `CompilationInv`, `ValidIsCovered`, `UnmodifiedWasValid` | 1 requirement, 2 compilations, 2 clients, 3 requests, 1 frozen schema, 1 crash | 1,436,019 |
| `chat_overlap` | `SessionInv`, `AliasesAreTrue`, `AuditHolds`, `AliasesKept` | 2 requests, 3 pieces of evidence, 2 rounds and 2 tool calls, 1 deletion, 1 death | 309,080 |
| `research_runs` | `ControllerInv`, `DerivedFromCurrent` | all 5 plan kinds, 4 starts or resumes, 3 results of a search, 2 exceptions | 1,153,034 |
| `selection_inputs` | `PoolInv`, `RolesInv` | up to 4 passages of 2 papers with 2 scores, pool of 3 or 4, 2 per paper, context of 3; up to 1 figure, 3 cards, 2 required roles | 1,525,740 |
| `cli_rounds` | `CliInv`, `NothingInvented`, `ChainInv` | 3 cards of 2 papers, 2 sets of cards, 2 repeated skills, 1 round that stops half way | 994,049 |
| `auth_accounts` | `AccessInv`, `AdminRemains`, `FirstAdminOnly`, `DisableRevokes`, `RequestsEnd`, no deadlock | 2 sign-ups, 1 subject, 1 credential, 2 transactions; changes that promote, disable, or leave role and status | 444,986 |

An invariant with a collective name is the conjunction of the type invariant
and of parts named in its module: `Accounted` is `AttemptsBounded`,
`DoneMeansSettled`, `DoneIsPublished` and `RunningIsOwned`; `WorkflowInv` has
`OneRun` and `SettledMatchesSteps`, with `WorkflowOrder` as the reason that they
hold; `ExtractionInv` has
`ReviewableRecordsComplete` and `CountedAtMostOnce`; `AccessInv` is `AuthInv`
(`AccountInv`, `FirstAdminInv` and `LocksInv`) and `CredentialsInv`; `BuildInv` has `NothingMissing`, `StagedCleared`
and, among the parts of `BuildOrder`, `StoppedNeverRuns`; `ReviewInv` has `StateIsLogged`, `ResolvedIsLogged`,
`RequestsInOrder` and `ScansInOrder`; `ExportsTell` has `ExportWarns`,
`ExportsCounted` and `CountsInOrder`;
`VersionsInv` has `CurrentComplete` and `ReferencesExist`, with `RowsAreTrue`
and `RequestsInOrder` as the reason that they hold; `CompilationInv` has
`OneActive` and `ActiveIsDriven`; `SessionInv` has `CompletedIsCited` and
`RunningIsServed`, with `SessionOrder` as the reason that they hold; `AuditHolds`
has `SavedIsAudited` and `AuditTells`; `ControllerInv` has `DoneIsBuilt`, `CompletedIsRecorded`,
`GapsHaveEvidence`, `InputsPresent` and `WithinBudget`; `CliInv` has
`CompletedIsPublished`, `NoOverclaimDrafted` and `NothingIsRefused`; `ChainInv`
has `CitesTheSelection`, `IdsResolve` and `RoleGapsAreTrue`; `PoolInv` has `HardCap`, `NoDuplicates`,
`BestArePooled`, `ContextIsDiverse` and `NothingIsTold`; `RolesInv` is `RolesKept` and
`SelectionInv`, which has `BudgetUsed`, `CapsTold` and `WithinQuotaFirst`, with `LoopsTookAll` as the
reason that they hold.

What they show.

* The queue keeps its promises for one-attempt jobs although no write checks
  the row it overwrites: nobody but a worker dispatches the job, at most once,
  and no late settlement makes it live again.  Jobs with several attempts are
  weaker, and `AttemptsBounded` says by how much: racing recoveries may exceed
  `max_attempts`, by fewer than the number of workers.
* A queued job settles, through crashes, expired leases and backoff; the one
  exception is a job executed inline by a runner that crashed, which has no
  lease and which nothing recovers (`EventuallySettles` and `RunningIsOwned`
  name it).
* While requests come in turn, or with one worker, one run of a workflow
  executes at a time.  The final status describes the steps and a resume never
  repeats what is done, one worker or two, whatever overlaps.
* With one extraction worker, which is the default (`WORKER_CONCURRENCY`),
  completed items and records survive every overlap of resumes, cancels and
  crashes, and a run has always somebody who will end it.
* Two builds that took the same version do not both complete, neither mixes its
  items into the other's, and a build that nobody cancels ends.
* No review is lost to a row that another request found missing; the log
  explains every value unless a revert died in the middle.
* A freeze that dies leaves a version that is incomplete, and nothing ever names
  it: the task is told last.
* A compilation given up while its worker still computes may come back to life,
  but never beside another one; what may be applied has no unresolved
  requirement; a draft marked as unmodified contains what its source had.
* Compacting aliases changes no citation, an invented marker resolves to
  nothing, the stored text of an answer is the audited one, whatever was
  streamed before.
* Choosing the next skill by the files that are missing never leaves a result
  made from files that were replaced, however runs fail, are resumed or start
  again; it also means that a search once answered is never repeated (section 5).
* However an agent repeats skills, and wherever a round stops, no file cites
  evidence that was never a card, a completed step has its files, and no draft
  repeats a statement that is refused.  Files that were built in order also
  resolve each other's ids, stay within the selection, and report no role as
  missing that is there.
* Whatever the search finds, one paper has at most its share of the pool, near
  duplicates included, and more than its share of the context only when no other
  passage is left.  Quotas on cards are broken only to fill the budget, the
  warning then given, and every required role that some card has is kept if the
  budget has room.
* Once there is an administrator one always remains, sign-up makes one only when
  there is none.  Every request ends: those that wait in a circle do so for rows
  of users, where the database breaks it, and never for the advisory locks.
* The step that disables an account leaves it without a session or a token,
  those included that other requests inserted since it began.

Bounds, and why they are enough.

* *Two workers and one job* contain every race of the queue: its statements
  touch one row each, so jobs interfere only in that a worker that has one does
  not take another.  The job is one of one or two attempts or one that its
  runner executes inline.  The proofs remove both bounds for the properties they
  cover.
* *One crash* separates any two statements; a second one adds only a repetition
  for a job that is not retried.  Two attempts are the least with a retry.
* *Two requests in flight, three in all* is the least in which a request reads
  before and writes after another that is itself a reaction to a third (start,
  pause, resume; queue, resolve, apply).  `MaxRequests`, `MaxCrashes`,
  `MaxCancels`, `MaxReaps`, `MaxFrozen`, `MaxDeletes`, `MaxDeaths`, `MaxRuns`, `MaxJobs`
  and `MaxFailures` bound behaviours and stand in the guards of the actions that
  use them up.
* *Two steps, two items, two fields* are the least with one before and one after
  an interruption; the pipeline of `workflow_requests` has four, one of each
  kind, and each of its steps may be the first that is not done.
* *Two builds* with *one item* each: what one build does to the other's items
  shows with one, and `CompletedIsPublished` counts it.
* *Three pieces of evidence*, the middle one similar to the two others, are the
  least in which similarity is not transitive; *two messages* the least with a
  history.
* *Four runs and two exceptions* of the controller: a first run that fails, a
  resume or restart that fails elsewhere, one that completes, and one after it.
* *Two papers, four passages, three cards*: the least in which a paper exceeds
  its share while another is left out, a pool is cut before the end of the list,
  and a role, a quota and the budget each exclude the choice that another asks
  for.  `MaxFound`, `MaxAssets` and `MaxCards` bound the inputs.
* *Two sets of cards* that have no card in common, *two repeated skills*: the
  least in which a file made of the old cards stands behind one made of the new
  and is read together with it.  `MaxAgain` and `MaxFailures` bound behaviours;
  `MaxLiterature` (3 in the code) and `MaxCited` bound a choice among cards of
  which each is treated alike.
* *Two overlapping transactions on three users* are the least in which each of
  two administrators is the one the other relies on, while a third signs up.
  *One credential* is the least that one request inserts while another revokes;
  requests act on credentials one by one.

Deadlock.  `auth_accounts` checks for it, and the queue does as well: its
workers poll for ever.  Elsewhere a behaviour may come to rest once its bounded
requests are used up, so deadlock is not checked.

Fairness.  Weak fairness of each process: a worker is a loop that the operating
system schedules, a request in flight is a thread of the server, and a handler
either returns or raises because its calls to services have timeouts (the one
exception known is in the hazards: the pump of corpus-stage waits for ever for a
sub-job that was cancelled, and its worker with it).  Nobody is
assumed to make a request, to cancel or to crash, and a crashed worker is
restarted by its supervisor.  Leases and backoffs elapse because time does.
`PacketBuild` assumes it of its workers and requests and of the queue's
dispatch, which `EventuallySettles` justifies.
`Credentials` assumes strong fairness of a request's next statement because
PostgreSQL grants a lock to its waiters in the order they came, so that a
waiter is not passed over for ever, and weak fairness of the rollback of a
request that is refused or deadlocked, which PostgreSQL looks for after
`deadlock_timeout`.

## 5. What does not hold

While modelling we stated more than the code keeps.  These properties stand in
their modules, each refuted by TLC on the instance given here; no run repeats
them.  Where a comment or message of the code promises the property it is
quoted.

| Property | Instance | What happens |
|---|---|---|
| `CooperativeCancellation` (`JobQueue`) | `queue_workers` | the worker that sees the cancel request calls `cancel`, which for a running row only requests again; the job stays running until its lease expires and ends as failed |
| `PauseHonoured` (`Workflow`) | two controlled steps, no deletion | a runner's read-modify-write of `engine_ref` erases an acknowledged pause |
| `DeletedStays` (`Workflow`) | `workflow_requests` | a run still executing writes its final status over `deleted` |
| `OneRun` (`Workflow`) without the condition `InTurn` | two clients that start, two workers | both starts read the status (`orchestrator.py:98`) before either writes it (110) |
| `WorkflowSettles` (`Workflow`) | one start, `FairSpec` | the run ends before `start` writes `running` (110), which then stays |
| `StreamFollowsRun` (`Workflow`) | one start | a runner's write of `engine_ref` erases the id of the job that the browser follows |
| `ReviewedRecordsStay` (`ExtractionRun`) | `extraction_serial` | the second job of a run resumed while queued replaces reviewed records |
| `CancellingEnds` (`ExtractionRun`) | two clients, one cancel, one job, `FairSpec` | a cancel that overlaps the end leaves the run `cancelling` |
| `CancelledStays` (`ExtractionRun`) | two clients, one cancel, one job | a cancel before `core_job_id` is written (`extraction_runs.py:90-97`) stops no job, and the worker sets `running` (279) |
| `RunIsCounted` (`ExtractionRun`) | one cancel, one job | a cancel writes the old `stats` back over the count (505-513) |
| `CompletedItemsKept` (`ExtractionRun`) | one resume, `MaxRunning = 2` | two workers execute the two jobs of one run side by side |
| `LandscapeHasEvidence` (`ResearchController`) | plan 1, two runs | a resume goes on behind the block for an empty search ("无法继续执行", `research_controller.py:28`) and builds a landscape from nothing; gaps and ideas are refused |
| `RetrySearchesAgain` (`ResearchController`) | plan 1, two runs | the message of the block tells the user to widen the search or to index and retry (`research_controller.py:29`), but the empty packet is a file and the search is never repeated |
| `DoneListsEverything` (`ResearchController`) | plan 0, two runs | a run that resumes lists only the files it made itself: the step is done, and `workflow_insights` (`orchestrator.py:254`) finds no cards and no selection |
| `EveryFileIsRecorded` (`ResearchController`) | plan 0, two starts | a restart empties the manifest and keeps the files |
| `OutputsAgree` (`ResearchController`) | plan 4, three runs, one exception | a refused screening leaves its diagnostics beside the files of another execution |
| `EveryThemeCounts` (`EvidenceSelection`) | `LlmContext = PoolSize = 2` | `judge_breadth` looks for missing clusters in the pool (`breadth.py:95`): a theme that the pool has passed over is not missed |
| `OneCardPerFigure` (`EvidenceSelection`) | `MaxAssets = 2` | `_collect_assets` lists a figure once for each passage that links to it (`packet.py:250`), with another evidence id, so the check for duplicates keeps both |
| `RelaxedIsNeeded` (`EvidenceSelection`) | `selection_inputs` | `selection_caps_relaxed_to_fill_budget` is also given when the only card of a role is selected already (`ranking.py:183-185`) |
| `CompletedHasAnArtifact` (`CliController`) | `cli_rounds` | the decision `STOP_SUCCESS` is believed (`cli_backed_controller.py:170`): a task is completed with nothing on disk |
| `CurrentlySelected` (`CliController`) | `cli_rounds` | a ranking that is repeated leaves the draft of the old selection in place, and nothing marks it |
| `EveryMissingRole` (`CliController`) | `cli_rounds` with two roles missing | all gaps of missing roles have one id (`gap_tools.py:243`) and one is kept (596), while the contract derives gaps from the "missing roles from coverage diagnostics" (`docs/p2_m9_gap_mapping_skill_contract.md:128`) |
| `LedgerListsItsEvidence` (`CliController`) | `cli_rounds` | claims on the literature cite cards that are not selected, which the ledger's own list of evidence leaves out |

Also seen while modelling, and not stated as properties:

* the design of user management
  (`src/docs/.../formal-user-management-design.md:528`) always allows the first
  sign-up, while `auth_store.py:29` refuses every sign-up when it is disabled;
* two administrators who act on each other's accounts deadlock on the audit
  event's foreign key (`auth_store.py:707`, `0001_initial_postgres_schema.py:60`):
  one request ends with an error of the database that no handler expects.  So do
  `reset_password_admin` and a `change_password` of the same user, which lock the
  user's row and its password in opposite orders (passwords are not modelled);
* `recover_stale_jobs` leaves an inline job of a crashed runner running;
* a build or compilation whose worker or request dies stays active, and every
  later start returns the dead one;
* `budgets.py:57` promises "context <= selection <= pool", but a caller's limit
  below the size of the context leaves a pool smaller than the selection;
* a packet whose vector index is unavailable tells that as its fallback and not
  that its evidence is weak;
* deleting a turn while it streams leaves its later messages, search results and
  trace behind without a turn, and citations that reuse one of its evidence
  records dangling;
* an alias that two earlier messages used resolves to the newer one, and an
  alias of this turn hides it; the oldest of the recent messages may be cut in
  the middle of its citations by the row limit;
* the record of an audit lists evidence by the aliases before compaction;
* when the model fails in mid-stream the partial text is stored unaudited and
  the turn completes; a blank forced synthesis completes a turn without a
  message;
* a client that disconnects leaves its turn running: `recover_stale_running_turns`
  returns before it looks at any.

## 6. The proofs

All theorems hold for every value of the constants, under the assumptions that
stand in the modules and that TLC evaluates on every run:

* `ConstantsAssumption` of each module (where two of them meet in a proof it has
  a name of its own: `WorkflowAssumption`, `BuildAssumption`,
  `VersionsAssumption`, `LoopAssumption`, `SimilarAssumption`, `ChatAssumption`,
  `SkillConstants`, `ControllerConstants`): bounds are naturals, ids are
  distinct from the null values, kinds of processes are disjoint; in
  `EvidenceSelection` also that a profile requires at least one role; in
  `AuthStore` and `TaskVersions` that finitely many requests are served at a
  time;
* `WorkersAreFinite` (`JobQueue`): there are finitely many workers, which
  `AttemptsBounded` counts;
* `MissingIsNoFile`, `MissingIsNoContents` (the controllers): the value that
  stands for "not on disk" is not the contents of a file;
* in `ResearchSkills`, that the ids of clusters are none of the other ids of
  gaps, as their prefixes see to.

Three theorems of `SessionProofs` have the hypothesis that `DevHeader` is off,
two of `ExtractionRunProofs` that `MaxRunning = 1`: without it TLC has
counterexamples to what they say.  No set of items, jobs, requests or evidence
is assumed to be finite unless a property counts its members or a proof goes
round among them.

The way is the same in every module.  The invariant that a run checks is made
inductive by conjuncts of its own ("Why these hold" in the modules), which the
same run checks, so that TLC has seen each of them on the small instance before
it was proved.  A lemma for each group of actions says what it changes and what
it leaves alone, a lemma for each conjunct that it is kept, and the theorem puts
them together.

### JobQueueProofs

| Theorem | Says |
|---|---|
| `TypeCorrect` | `Spec => []TypeOK` |
| `AttemptsAreInvariant` | `Spec => []AttemptInv`, the inductive invariant |
| `DispatchedOnce` | `Spec => []SingleAttempt`: a job with one attempt is dispatched at most once |
| `OneExecutor` | `Spec => []ExclusiveExecution`: no two workers execute it at the same time |
| `SettledForGood` | `Spec => SettledStays`: once settled, it is never queued or running again |
| `CancelledForGood` | `Spec => CancelledBeforeClaim`: cancelled before a claim, it is never run, failed or queued again |
| `QueueImplementsLifecycle` | `Spec => ImplementsLifecycle`: the queue implements `JobLifecycle` |
| `QueueIsAccounted` | `Spec => []Accounted`: attempts, row, events and leases agree, for jobs of any number of attempts |

`SingleAttempt` alone is not inductive: it says nothing about a worker that is
about to requeue the row.  A claim needs a `queued` row, so the question is who
can make a row queued again.  `recover_stale_jobs` and `fail` can, after having
read that an attempt is left, and with one attempt none is left once the row has
been claimed.  `AttemptInv` says exactly that: an unclaimed row has no attempts
(`FreshUntilClaimed`); a lease, a stale selection and a worker that executes,
settles or requeues a job all mean that it was claimed (`LeaseMeansClaimed`,
`WorkIsClaimed`); and a process
that is about to requeue has seen `max_attempts >= 2` (`RequeueMeansRetries`).
`ControlOK`, `WorkExists` and `ClaimsLeft` tie the program counters to the jobs
they work on.  The proof has one lemma per action; `NextInv` combines them.
`ExclusiveExecution` then follows because a second executor would need a second
claim, and `SettledStays` because every write to a settled row of such a job
settles it again.  `CancelledBeforeClaim`, which is about jobs of any number of
attempts, follows from `WorkIsClaimed`: whoever could still write the row has
claimed the job before, and no attempt means that nobody has.

`QueueImplementsLifecycle` maps each action to a step of `JobLifecycle` or a
stutter; the only cases that need `AttemptInv` are the writes that settle or
requeue a row which was read before (a late `complete`, a stale requeue): they
are a `Settle` or a `Retry` because the row was claimed and, for a requeue,
because an attempt was left.

`Accounted` is about jobs with several attempts as well.  That the attempts
exceed `max_attempts` by fewer than the number of workers (`AttemptsBounded`)
needs a count of who may still requeue the row: `RequeuesCounted` adds them to
the attempts that were handed out, and a recovery that has read the row uses up
its own place in that sum.  The events are proved with `DoneOwedWhenSettled`
("done" is only owed once the row is settled), the leases with `RunningIsRun`
(an inline job runs at its runner, in code that ends by settling it).

### SessionProofs

Accounts:

| Theorem | Says |
|---|---|
| `TypeCorrect` | `Spec => []TypeOK` |
| `AccountsCorrect` | `Spec => []AccountInv` |
| `LastAdminRemains` | `Spec => AdminRemains`: no step takes the last administrator away |
| `FirstAdminCorrect` | without dev-header mode, `Spec => []FirstAdminInv` |
| `FirstAdmin` | without dev-header mode, `Spec => FirstAdminOnly` |
| `RequestsGoOn` | `Spec => []LocksInv`: while there are requests one of them goes on or is rolled back |
| `AuthCorrect` | without dev-header mode, `Spec => []AuthInv`: all parts together |
| `CredentialsImplement` | `CredentialsSpec => Spec`: what holds of accounts holds with credentials |
| `CredentialsCorrect` | `CredentialsSpec => []CredentialsInv` |
| `AccessCorrect` | without dev-header mode, `CredentialsSpec => []AccessInv` |
| `DisabledLoseAll` | `CredentialsSpec => DisableRevokes`: the commit that disables a user leaves no credential |

`check_last_admin` reads the other administrators and the commit comes two
statements later.  `AccountInv` carries the check to the commit: whoever is about
to commit a change of role or status holds the mutation lock, so no other such
commit happens in between, and sign-ups only add administrators (`Grows`).
Locks exclude because each lock has one holder, so it is enough to follow who
holds it at which statement.  `FirstAdminInv` does the same for sign-up, and
needs one more idea: sign-up and update take *different* advisory locks.  What
keeps them apart is that a change of role needs an administrator to ask for it,
and while there is none nobody asks; once there is one, `AdminRemains` keeps it
so.  In dev-header mode nobody is needed to ask, and the argument, like the
property, does not hold.

`RequestsGoOn` is what liveness rests on, for any number of requests.  Where
nobody goes on, whoever waits for an advisory lock waits, at one or two removes,
for a transaction at its commit (`HoldersRun`), and that one for another at its
commit.  A function on a finite set goes round somewhere (`CircleExists`: of the
sets it maps into themselves take a smallest one), so there is a circle, and it
is one that the database breaks.  That the one that goes on is not always the
same is fairness, which TLC checks.

`DisabledLoseAll` is about two statements and a commit: an update revokes what
the user has when it writes the status, and nothing may come in between.
`CredentialsInv` says why: whoever inserts a credential of a user, and whoever
is between the check and the commit of an update of that user, has the user's
row, so they exclude each other.  The credentials of other users do not matter,
and those that vanish (logged out, revoked, expired) do no harm
(`CredentialsKept`).  Because no credential is inserted by two requests, a
commit gives it to one user only (`OnlyCommits`).

Sessions:

| Theorem | Says |
|---|---|
| `SessionCorrect` | `ChatSpec => []SessionInv`: turns, messages and citations agree, however turns, deletions and deaths overlap |
| `CitationsAreTrue` | `ChatSpec => []AliasesAreTrue`: compacting the aliases of an answer changes no citation |
| `AuditsHold` | `ChatSpec => []AuditHolds`: what is stored is what was audited, and the audit is right |
| `AliasesStay` | `ChatSpec => AliasesKept`: no step of a loop gives an alias to other evidence |

The inductive invariant `SessionAll` says three things of each stream: its
locals make sense and its registry is in order (`LocalsTrue`), what the reader
has been sent at each statement is what the code believes (`StreamInOrder`:
nothing before the first round, the draft before the audit, the audited text
after it), and its rows are those it has written (`RowsTrue`).  Streams meet in
the deletion of a turn and in the recent messages, whose aliases each of them
may read; so a step needs one lemma about the stream that takes it and one about
the rows it leaves to the others.

`AliasesAreTrue` needs what the recursive functions of `Citations` do with
sequences of any length.  `RegisterAll` is by counting: after k items the
registry is in order and no alias has changed.  Compaction is a renaming by the
number of aliases whose first occurrence is no later than this one's; it is
one-to-one because first occurrences differ (`RenamingIsOneToOne`), so that looking up the new alias finds what the old one
meant (`FinalIsTrue`), in the manifest, in an earlier message, or nowhere.

### EvidenceProofs

The selection of evidence:

| Theorem | Says |
|---|---|
| `SelectionCorrect` | `Spec => []SelectionInv` |
| `CapsAreTold` | `Spec => []CapsTold`: a quota is never exceeded without the warning |
| `BudgetIsUsed` | `Spec => []BudgetUsed`: the budget is never exceeded and in the end used up |
| `RolesAreKept` | `Spec => []RolesKept`: no required role that some card has is lost when the budget has room |
| `RolesCorrect` | `Spec => []RolesInv`: both together |
| `PoolCorrect` | `Spec => []PoolInv`: the pool of passages and the context made of it, for any search |

`SelectionInv` is inductive.  `CapsTold` and the first half of `BudgetUsed` need
only that a card is taken one at a time under its guard.  That the budget is
used up, and that the last loop breaks the quota of a paper only when no other
card is left, depends on what earlier loops have passed over: `LoopsTookAll`
says that a card which a loop has passed is selected or its paper has had its
share, and a share once used up stays so because shares only grow.
`select_role` chooses with `Best`; that a best card exists is a lemma about the
least position (`BestIsOne`).

`RolesKept` counts: `RolesInTurn` says that after n roles at most as many cards
are selected as there are roles among them that some card has, so that with room
for one card each no role finds the budget used up.  For the pool,
`TakenInOrder` and `FlaggedInOrder` say of each loop what `LoopsTookAll` says of
the cards: the loop has looked at the positions before its own, and what it has
passed over it has taken or its paper has had its share.  `BestArePooled` and
`ContextIsDiverse` compare what was taken with what was left, which is then a
matter of positions, since lists are in the order of their sort.

The builds of a packet:

| Theorem | Says |
|---|---|
| `BuildsCorrect` | `BuildSpec => []BuildInv`: what builds publish and leave behind |
| `CompletedArePublished` | `BuildSpec => []CompletedIsPublished`: a completed build names a version of its own with all its items |

`BuildOrder` is inductive.  It says of each request (`RequestInOrder`) and of
each worker (`WorkInOrder`) what it may rely on at its statement.  A version that
a process has inserted stays its own because an insertion touches absent versions
only (`MayInsert`), so that of two builds with one number the second raises.
`StagedCleared` needs who is responsible for rows that are still staged
(`LeftStaged`): a worker that failed, or a request that is about to delete them.
`StoppedNeverRuns` needs that a request which found the build queued, and a
worker that has not been dispatched, agree: `JobLifecycle` lets a pending job be
cancelled or dispatched, not both.  That the versions stay within the bound of
the model (`VersionsCounted`) is no property of the code, but without it a
number could be computed that the model has no row for: it adds up the requests
that are still to compute one.

### CliControllerProofs

| Theorem | Says |
|---|---|
| `EvidenceIsTraceable` | `Spec => []NothingInvented`: no file ever cites evidence that was never among the enriched cards |
| `DraftsClaimNoMore` | `Spec => []NoOverclaimDrafted`: no draft has a literature claim with a refused statement |
| `CliCorrect` | `Spec => []CliInv`: these, and no file is refused by its gate or by a skill that reads it |
| `ChainCorrect` | `Spec => []ChainInv`: what a chain called in order has made is a result on the files before it |

`NothingInvented` is the hard one: the files on disk may come from different
rounds, so no relation between them can be relied on.  `CitesInv` is inductive
all the same, because each skill only copies and intersects what its files cite
(one lemma per skill, `ReadsWhatIsBefore` for which files these are), what they
cite has been among the cards, and `ever` only grows.  A screening answer is the
one place where ids come from outside, and `PacketEvidence` bounds it: without
that check the proof, and the run, fail.

That nothing is refused holds file by file: `Contents` gives for each file what
its builder can make of any files at all, and every gate and every reading skill
takes all of it (`NobodyRefuses`).  So no mixture of old and new files brings a
task to a standstill.  Relations between the files hold only in a chain that was
called in order: `ChainMade` says that each of its files is still a result of its
skill on what is on disk now, since whatever replaces a file cuts the chain at
it; `CitesTheSelection`, `IdsResolve` and `RoleGapsAreTrue` then follow from what
one skill makes of another's result.

### PlanProofs

The research controller:

| Theorem | Says |
|---|---|
| `ControllerCorrect` | `Spec => []ControllerInv`: state, manifest, files and budget agree, for any plans, finds, runs and exceptions |
| `FilesAreCurrent` | `Spec => []DerivedFromCurrent`: no file was made from one that has been replaced since |

`DerivedFromCurrent` compares a file with all it was made from, and a skill that
runs replaces its files without looking for what was made of them.  It holds
because the choice by missing files keeps the files in the order of the plan:
`FilesInOrder` says that where one file of a skill is there, all that the choice
looks at are there for every skill before it, so a skill that is chosen has
nothing behind it (`AtPlace` in `WorkInOrder`), through every write that raises
(`WritesInOrder`).  Gaps rest on evidence because of `FilesAreSound`, which
follows the finds of the search through the files.  That the first missing skill
exists is the least-counterexample principle for naturals
(`NatLessThanWellFounded`), the form of induction used in all these proofs.

The workflow engine:

| Theorem | Says |
|---|---|
| `WorkflowCorrect` | `WorkflowSpec => []WorkflowInv`: one run at a time, and a final status that describes the steps |
| `ResumedKeepDone` | `WorkflowSpec => ResumeKeepsDone`: a resume redoes no step that is done |

Both hold under `InTurn`: one worker, or requests that never overlapped.  The
two cases have different reasons.  With one worker at most one run is live
because it occupies the worker (`WorkersTaken` counts).  With several workers the
status has to exclude a second run, and it does so only if the request that
queued the first one has finished or is the one in flight: `RequestsInTurn` says
who that is at each statement.  `RunsInOrder` then follows one run through its
steps: what it is about to publish describes them, and nobody else writes them.

### SchemaProofs

| Theorem | Says |
|---|---|
| `CompilationCorrect` | `Spec => []CompilationInv`: one compilation is active at most, and somebody will end it |
| `ValidCovered` | `Spec => []ValidIsCovered`: what may be applied has no unresolved requirement and no errors |
| `UnmodifiedIsValid` | `Spec => []UnmodifiedWasValid`: what claims to be unmodified contains what its source had |
| `VersionsCorrect` | `VersionsSpec => []VersionsInv`: what is current or based on is complete, what is named exists |
| `VersionsStay` | `VersionsSpec => VersionsKept`: overlapping freezes never change a frozen version |

One inductive invariant, `CompilationAll`, has all of them.  The hard case of
`OneActive` is the worker whose lease has expired: it reports progress of a
compilation that was given up, which makes it active again.  `MayBeActive` (the
partial unique index) forbids that beside another active one; and for
`ActiveIsDriven` the worker itself is then the one who ends it, so the invariant
must not forget it.  `JobsInOrder` ties a compilation to its core job and to the
request that is about to link the two.  `UnmodifiedWasValid` needs a history of
what was valid (`ValidIsRecorded`), because a later resolution changes the row
behind a draft that was made from it, and must cover the drafts that requests
hold and have yet to write (`Claims`).

The last two are about the other half of the component, `TaskVersions`, whose
invariant is inductive as it stands.  A freeze goes through up to four
transactions and carries what it has read from one to the next.  `InOrder` says,
for each step of a request, what of that stays true while others freeze, save
drafts or die: the version it has inserted is there with its papers, its draft
is based on a complete collection, the statistics it writes back were once
those of some version.  Its case for the three insertions only bounds the number
that was computed by the versions there are and one more; that no other request
has taken it in the meantime is the unique index (`Taken`), which makes the
insertion fail and which `VersionsKept` rests on.  Versions only grow
(`VersionsGrow`), so whatever is complete or exists stays so (`StaysTrue`).

### ExtractionRunProofs

| Theorem | Says |
|---|---|
| `ExtractionCorrect` | with one worker, `Spec => []ExtractionInv`: records match items, and a run is counted once |
| `WorkIsKept` | with one worker, `Spec => CompletedItemsKept` |
| `RunDriven` | with any number of workers, `Spec => []RunIsDriven` |

With one worker no two jobs of a run are executed at a time, but one may take
over at any statement where another has crashed.  `WorkOf` says, for each
statement of the worker, what it may rely on until its end: the items it has
selected are not completed, there are no records while it merges, and what it
merges is every completed item.  Requests keep that (`WorkIsLeft`) since none of
them writes items or records of a run with a worker.  A run is counted once
because reading `counted_at`, deciding and writing are one chain: `CountInOrder`
says that only the worker that has set `counted` may carry an update which
counts, and that nobody who has read the task's stats before has them counted.

`RunIsDriven` is proved without the hypothesis.  A queued job keeps a run going
only when no request has already decided to cancel it (`Doomed`): then it is that
request that goes on to write the status.

### ReviewProofs

| Theorem | Says |
|---|---|
| `ReviewCorrect` | `Spec => []ReviewInv`: the log explains rows and resolved suggestions |
| `ReviewsAreKept` | `Spec => []ReviewKept`: no fresh row over a reviewed one |
| `JobsCover` | `Spec => []CompletedJobCovers`: a completed job has all suggestions and no other |
| `ExportsAreTold` | `Spec => []ExportsTell`: exports warn and are counted |

Requests on one record overlap at every statement, so most of the proof is about
what a request has read and still relies on.  `RequestsInOrder` says it for each
statement: the rows are there before anybody reads one, a suggestion or an event
that is asked for exists, and a request that links a row to its event finds in
the log what it is about to write.  Nobody takes a row, an event or a suggestion
away (`Frame`); so what a request relies on survives the steps of all others
(`OthersStay`), and each action needs one lemma, about the client that takes it
(`Keeps`).  Two steps are not of that kind.  An insert of missing rows carries
rows that were computed earlier; it touches absent rows only, and an event of a
field implies that all rows are there, which is why no review is lost
(`ReviewKept`).  And an undo writes the row before its event: `Unlogged` names
the row that the log does not explain for that one step, until the undo, or the
crash that the property excepts, is over.

A job reads all rows when it starts.  `ScansInOrder` relates its suggestions to
the fields that it has passed, which at its end is `CompletedJobCovers`.
Exports that overlap share a count; `CountsInOrder` counts the requests
that are about to count theirs, and bounds both what stands in the task and what
each of them has read by the exports less that number.

### Only model-checked

Every invariant and every action property of the runs has a theorem.  What stays
with TLC for good are the liveness properties (`EventuallySettles`,
`BuildSettles`, `RequestsEnd`): fairness and ENABLED are beyond the provers used
here.  Of `RequestsEnd` the part without fairness is proved (`RequestsGoOn`).

The theorems of the library that take an operator, induction among them, cannot
be instantiated by the provers.  Where a proof needs induction over data it
counts: a set of naturals that is not empty has a least element
(`LeastPosition`), so what holds of 0 and of each successor holds of all
(`ByCounting`).

## 7. What is not modelled

* Text and data: prompts, parsing of model answers, normalisation of schemas,
  the weights of scores, rendering of exports and reports.  Outcomes of language
  models and external services are choices.
* A second worker in one workspace of the research controller: it takes two
  overlapping starts and two workers (`OneRun` above), and then any file may mix
  with any other.
* In `ResearchController`, `run_until_stop`: the runner has a loop of its own.
  In `ResearchSkills`, the initial cards and the report (above).
* `reap_orphaned_build_jobs`: only a test calls it.  `heartbeat_job`: no caller.
* Of tasks, their status, archive flag and deletion; of collections, groups of
  duplicates and screening by a language model; of a session, titles,
  attachments, traces and `update_research_state`, whose read-modify-write loses
  updates as `stats` does.
* A tool call that has timed out goes on in its thread: its result is dropped,
  its side effects on the index are external.
* Of users, passwords and CSRF tokens: each is a check of one request.
* The readiness query, configuration and registry of workers: reads only.
* Web routes (but the chat and the stream of a compilation) beyond which
  requests there are: they turn exceptions into status codes.  The frontend,
  memory, settings, the LLM client and the migrations, for the reasons in
  `PROJECT.json` "components".
* Placeholders that report themselves as not implemented (idea discovery,
  experiment bridge).
* A crash of a web request in the middle is modelled wherever it leaves state
  behind that somebody acts on (all modules but `Workflow`).

## 8. The plan

What is left to prove needs models that are not there yet: that a queued job of
`JobQueue` and a run of `Workflow` agree, once the two are composed.

Modules.

1. **WorkflowJobs**: `JobQueue` composed with `Workflow`, with the pump of
   corpus-stage, which is where its liveness hazard lies.
2. Pure algorithms against their definitions: merge of chunk results,
   backoff, merge of novelty results.
