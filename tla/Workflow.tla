------------------------------ MODULE Workflow ------------------------------
(* One research workflow: the requests that start, resume, pause and delete   *)
(* it (api/workflow_router.py, WorkflowOrchestrator.start and request_pause), *)
(* the orchestrator loop that a worker runs for each "workflow.run" job, the  *)
(* three step runners, and the workflow store.                                *)
(*                                                                            *)
(* Every statement on the store is a step of its own.  engine_ref is one JSON *)
(* column: set_engine_ref reads it in one transaction and writes all of it    *)
(* back in another.  The queue is used through what JobQueue establishes for  *)
(* jobs with max_attempts = 1: a job is dispatched to one worker, once, and a *)
(* job whose worker died is never run again.                                  *)
EXTENDS Integers, FiniteSets

CONSTANTS
    N,             \* number of steps in the manifest
    Kind,          \* the runner of each step, or "unavailable"
    Runs,          \* ids of the workflow.run jobs
    Clients,       \* web requests in flight at the same time
    Requests,      \* the requests clients make
    MaxRunning,    \* at most so many workers on the "workflow" queue
    MaxRequests,   \* bound: requests in a behaviour
    MaxCrashes,    \* bound: worker crashes in a behaviour
    NoRun          \* "no job"

Steps == 1 .. N

ASSUME WorkflowAssumption ==
    /\ N \in Nat \ {0}
    /\ Kind \in [Steps -> {"corpus-stage", "agent-step", "research-controller", "unavailable"}]
    /\ Requests \subseteq {"start", "resume", "pause", "delete"}
    /\ MaxRunning \in Nat \ {0} /\ MaxRequests \in Nat /\ MaxCrashes \in Nat
    /\ NoRun \notin Runs

VARIABLES
    status,          \* workflow_runs.status
    step_status,            \* workflow_steps.status
    engine_ref,      \* the engine_ref column
    cpc, req, crun,  \* per client: place in its request, the request, its job
    rpc, resume, at, \* per run: place in _run, the resume flag, current step
    seen,            \* per client and run: the engine_ref it has read
    final,           \* per run: the final status it has computed
    acked,           \* a pause was acknowledged and no run has started since
    workers,         \* how many workers there are
    crossed,         \* history: requests that overlapped, or deleted a running workflow
    requests, crashes

clients == <<cpc, req, crun>>
run_vars == <<rpc, resume, at, final>>
bounds == <<workers, crossed, requests, crashes>>
workflow_vars == <<status, step_status, engine_ref, clients, run_vars, seen, acked, bounds>>

Statuses == {"draft", "running", "paused", "completed", "partial", "blocked",
             "failed", "deleted"}
StepStatuses == {"pending", "unavailable", "running", "done", "failed", "blocked"}
EngineRefs == [pause : BOOLEAN, job : Runs \cup {NoRun}, corpus : SUBSET Steps]
NoRef == [pause |-> FALSE, job |-> NoRun, corpus |-> {}]

(* A run is inside the loop, or still has the engine_ref to write after it.   *)
Looping == {"next", "check_pause", "begin", "corpus", "ref_get", "ref_put", "body",
            "raise", "final", "publish", "pause"}
Busy == Looping \cup {"unpause_get", "unpause_put"}
RunPCs == Busy \cup {"absent", "queued", "finished", "dead"}

WorkflowTypes ==
    /\ status \in Statuses
    /\ step_status \in [Steps -> StepStatuses]
    /\ engine_ref \in EngineRefs
    /\ cpc \in [Clients -> {"idle", "create", "ref_get", "ref_put", "set_running"}]
    /\ req \in [Clients -> Requests \cup {"none"}]
    /\ crun \in [Clients -> Runs \cup {NoRun}]
    /\ rpc \in [Runs -> RunPCs]
    /\ resume \in [Runs -> BOOLEAN]
    /\ at \in [Runs -> 1 .. N + 1]
    /\ seen \in [Clients \cup Runs -> EngineRefs]
    /\ final \in [Runs -> Statuses]
    /\ acked \in BOOLEAN
    /\ workers \in 1 .. MaxRunning /\ crossed \in BOOLEAN
    /\ requests \in 0 .. MaxRequests /\ crashes \in 0 .. MaxCrashes
    /\ \A r \in Runs : rpc[r] \in Looping \ {"next", "raise", "final", "publish"} => at[r] \in Steps

(* WorkflowStore.create.                                                      *)
WorkflowInit ==
    /\ status = "draft"
    /\ step_status = [i \in Steps |-> IF Kind[i] = "unavailable" THEN "unavailable" ELSE "pending"]
    /\ engine_ref = NoRef
    /\ cpc = [c \in Clients |-> "idle"]
    /\ req = [c \in Clients |-> "none"]
    /\ crun = [c \in Clients |-> NoRun]
    /\ rpc = [r \in Runs |-> "absent"]
    /\ resume = [r \in Runs |-> FALSE]
    /\ at = [r \in Runs |-> 1]
    /\ seen = [x \in Clients \cup Runs |-> NoRef]
    /\ final = [r \in Runs |-> "draft"]
    /\ acked = FALSE
    /\ workers \in 1 .. MaxRunning /\ crossed = FALSE
    /\ requests = 0 /\ crashes = 0

-----------------------------------------------------------------------------
(* Conditions and values.  A definition named Bug... is a mutated form of the *)
(* one after it.                                                              *)

BugMayStart == TRUE

(* The guard of WorkflowOrchestrator.start.                                   *)
MayStart == status # "running"

BugSkipNone(r) == FALSE

(* Resume skips the steps that are done.                                      *)
Skips(r) == resume[r] /\ step_status[at[r]] = "done"

BugFinalStatus ==
    IF \E i \in Steps : step_status[i] = "failed" THEN "failed"
    ELSE IF \E i \in Steps : step_status[i] = "done" THEN "completed" ELSE "blocked"

(* WorkflowOrchestrator._final_status.                                        *)
FinalStatus ==
    IF \E i \in Steps : step_status[i] = "failed" THEN "failed"
    ELSE IF \A i \in Steps : step_status[i] = "done" THEN "completed"
    ELSE IF \E i \in Steps : step_status[i] = "done" THEN "partial" ELSE "blocked"

-----------------------------------------------------------------------------
(* Requests.                                                                  *)

CGoto(c, l) == cpc' = [cpc EXCEPT ![c] = l] /\ UNCHANGED <<req, crun>>

Crosses(c) == \E d \in Clients \ {c} : cpc[d] # "idle"

(* The local variables of what has ended are forgotten.                       *)
CEnd(c) ==
    /\ cpc' = [cpc EXCEPT ![c] = "idle"]
    /\ req' = [req EXCEPT ![c] = "none"]
    /\ crun' = [crun EXCEPT ![c] = NoRun]

Forgets(x) == seen' = [seen EXCEPT ![x] = NoRef]

(* A request is accepted: start and resume read the status first (a running   *)
(* workflow is refused), pause reads the row and goes on to set_engine_ref.   *)
request(c, q) ==
    /\ cpc[c] = "idle" /\ requests < MaxRequests
    /\ q \in {"start", "resume"} => MayStart /\ \E r \in Runs : rpc[r] = "absent"
    /\ q # "delete"
    /\ req' = [req EXCEPT ![c] = q]
    /\ cpc' = [cpc EXCEPT ![c] = IF q = "pause" THEN "ref_get" ELSE "create"]
    /\ requests' = requests + 1 /\ crossed' = (crossed \/ Crosses(c))
    /\ UNCHANGED <<status, step_status, engine_ref, crun, run_vars, seen, acked, workers, crashes>>

(* job_store.create of the orchestrator job, in the "workflow" queue.         *)
create_job(c) ==
    /\ cpc[c] = "create"
    /\ \E r \in Runs :
         /\ rpc[r] = "absent"
         /\ rpc' = [rpc EXCEPT ![r] = "queued"]
         /\ resume' = [resume EXCEPT ![r] = (req[c] = "resume")]
         /\ crun' = [crun EXCEPT ![c] = r]
    /\ cpc' = [cpc EXCEPT ![c] = "ref_get"]
    /\ acked' = FALSE
    /\ UNCHANGED <<status, step_status, engine_ref, req, at, seen, final, bounds>>

(* set_engine_ref, in two transactions.                                       *)
c_ref_get(c) ==
    /\ cpc[c] = "ref_get"
    /\ seen' = [seen EXCEPT ![c] = engine_ref]
    /\ CGoto(c, "ref_put")
    /\ UNCHANGED <<status, step_status, engine_ref, run_vars, acked, bounds>>

c_ref_put(c) ==
    /\ cpc[c] = "ref_put" /\ Forgets(c)
    /\ IF req[c] = "pause"
       THEN /\ engine_ref' = [seen[c] EXCEPT !.pause = TRUE]
            /\ acked' = TRUE
            /\ CEnd(c)
       ELSE /\ engine_ref' = [seen[c] EXCEPT !.job = crun[c]]
            /\ CGoto(c, "set_running")
            /\ UNCHANGED acked
    /\ UNCHANGED <<status, step_status, run_vars, bounds>>

set_running(c) ==
    /\ cpc[c] = "set_running"
    /\ status' = "running"
    /\ CEnd(c)
    /\ UNCHANGED <<step_status, engine_ref, run_vars, seen, acked, bounds>>

(* soft_delete, whatever the status.                                          *)
soft_delete(c) ==
    /\ cpc[c] = "idle" /\ requests < MaxRequests /\ "delete" \in Requests
    /\ status' = "deleted"
    /\ requests' = requests + 1 /\ crossed' = (crossed \/ Crosses(c) \/ status = "running")
    /\ UNCHANGED <<step_status, engine_ref, clients, run_vars, seen, acked, workers, crashes>>

-----------------------------------------------------------------------------
(* The orchestrator loop, WorkflowOrchestrator._run.                          *)

RunGoto(r, l) == rpc' = [rpc EXCEPT ![r] = l] /\ UNCHANGED <<resume, at, final>>

End(r, l) ==
    /\ rpc' = [rpc EXCEPT ![r] = l]
    /\ resume' = [resume EXCEPT ![r] = FALSE]
    /\ at' = [at EXCEPT ![r] = 1]
    /\ final' = [final EXCEPT ![r] = "draft"]

Advance(r) ==
    /\ rpc' = [rpc EXCEPT ![r] = "next"]
    /\ at' = [at EXCEPT ![r] = @ + 1]
    /\ UNCHANGED <<resume, final>>

SetStep(r, s) == step_status' = [step_status EXCEPT ![at[r]] = s]

Occupied == {x \in Runs : rpc[x] \in Busy}

dispatch(r) ==
    /\ rpc[r] = "queued"
    /\ Cardinality(Occupied) < workers
    /\ RunGoto(r, "next")
    /\ UNCHANGED <<status, step_status, engine_ref, clients, seen, acked, bounds>>

(* The next step: skip what a resumed run finds done; stop at the end or at   *)
(* the first step that is not available.                                      *)
next_step(r) ==
    /\ rpc[r] = "next"
    /\ \/ at[r] > N /\ RunGoto(r, "final")
       \/ at[r] <= N /\ Skips(r) /\ Advance(r)
       \/ /\ at[r] <= N /\ ~Skips(r)
          /\ RunGoto(r, IF Kind[at[r]] = "unavailable" THEN "final" ELSE "check_pause")
    /\ UNCHANGED <<status, step_status, engine_ref, clients, seen, acked, bounds>>

(* The pause check reads engine_ref; the controller writes its references     *)
(* before it marks the step running, the other runners mark it first.         *)
check_pause(r) ==
    /\ rpc[r] = "check_pause"
    /\ RunGoto(r, IF engine_ref.pause THEN "pause"
               ELSE IF Kind[at[r]] = "research-controller" THEN "ref_get" ELSE "begin")
    /\ UNCHANGED <<status, step_status, engine_ref, clients, seen, acked, bounds>>

pause(r) ==
    /\ rpc[r] = "pause"
    /\ status' = "paused"
    /\ RunGoto(r, "unpause_get")
    /\ UNCHANGED <<step_status, engine_ref, clients, seen, acked, bounds>>

r_ref_get(r) ==
    /\ rpc[r] \in {"ref_get", "unpause_get"}
    /\ seen' = [seen EXCEPT ![r] = engine_ref]
    /\ RunGoto(r, IF rpc[r] = "ref_get" THEN "ref_put" ELSE "unpause_put")
    /\ UNCHANGED <<status, step_status, engine_ref, clients, acked, bounds>>

unpause_put(r) ==
    /\ rpc[r] = "unpause_put"
    /\ engine_ref' = [seen[r] EXCEPT !.pause = FALSE]
    /\ End(r, "finished") /\ Forgets(r)
    /\ UNCHANGED <<status, step_status, clients, acked, bounds>>

(* The runner marks its step running.                                         *)
begin_step(r) ==
    /\ rpc[r] = "begin"
    /\ SetStep(r, "running")
    /\ RunGoto(r, IF Kind[at[r]] = "corpus-stage" THEN "corpus" ELSE "body")
    /\ UNCHANGED <<status, engine_ref, clients, seen, acked, bounds>>

(* A resumed corpus stage takes the run_id its step has; any other makes one  *)
(* and records it.                                                            *)
corpus_run_id(r) ==
    /\ rpc[r] = "corpus"
    /\ RunGoto(r, IF resume[r] /\ at[r] \in engine_ref.corpus THEN "body" ELSE "ref_get")
    /\ UNCHANGED <<status, step_status, engine_ref, clients, seen, acked, bounds>>

r_ref_put(r) ==
    /\ rpc[r] = "ref_put" /\ Forgets(r)
    /\ IF Kind[at[r]] = "corpus-stage"
       THEN /\ engine_ref' = [seen[r] EXCEPT !.corpus = @ \cup {at[r]}]
            /\ RunGoto(r, "body")
       ELSE /\ engine_ref' = seen[r]
            /\ RunGoto(r, "begin")
    /\ UNCHANGED <<status, step_status, clients, acked, bounds>>

(* The runner's work and its outcome.  Generation without evidence fails; the *)
(* controller may be blocked, which lets the loop go on to the next step.     *)
runner_done(r) ==
    /\ rpc[r] = "body"
    /\ Kind[at[r]] = "agent-step" => engine_ref.corpus # {}
    /\ SetStep(r, "done")
    /\ Advance(r)
    /\ UNCHANGED <<status, engine_ref, clients, seen, acked, bounds>>

runner_blocked(r) ==
    /\ rpc[r] = "body" /\ Kind[at[r]] = "research-controller"
    /\ SetStep(r, "blocked")
    /\ Advance(r)
    /\ UNCHANGED <<status, engine_ref, clients, seen, acked, bounds>>

(* StepFailed: the runner has marked the step failed.                         *)
runner_failed(r) ==
    /\ rpc[r] = "body"
    /\ SetStep(r, "failed")
    /\ RunGoto(r, "raise")
    /\ UNCHANGED <<status, engine_ref, clients, seen, acked, bounds>>

(* Any other exception leaves the step as it is.                              *)
runner_raises(r) ==
    /\ rpc[r] = "body"
    /\ RunGoto(r, "raise")
    /\ UNCHANGED <<status, step_status, engine_ref, clients, seen, acked, bounds>>

record_failure(r) ==
    /\ rpc[r] = "raise"
    /\ status' = "failed"
    /\ End(r, "finished")
    /\ UNCHANGED <<step_status, engine_ref, clients, seen, acked, bounds>>

compute_final(r) ==
    /\ rpc[r] = "final"
    /\ final' = [final EXCEPT ![r] = FinalStatus]
    /\ rpc' = [rpc EXCEPT ![r] = "publish"]
    /\ UNCHANGED <<status, step_status, engine_ref, clients, resume, at, seen, acked, bounds>>

publish_final(r) ==
    /\ rpc[r] = "publish"
    /\ status' = final[r]
    /\ End(r, "finished")
    /\ UNCHANGED <<step_status, engine_ref, clients, seen, acked, bounds>>

(* The worker dies.  Its job fails when the lease expires; nothing writes the *)
(* workflow.                                                                  *)
crash(r) ==
    /\ crashes < MaxCrashes
    /\ rpc[r] \in Busy
    /\ crashes' = crashes + 1
    /\ End(r, "dead") /\ Forgets(r)
    /\ UNCHANGED <<status, step_status, engine_ref, clients, acked, workers, crossed, requests>>

-----------------------------------------------------------------------------
ClientStep(c) == create_job(c) \/ c_ref_get(c) \/ c_ref_put(c) \/ set_running(c)

RunStep(r) ==
    \/ dispatch(r) \/ next_step(r) \/ check_pause(r) \/ pause(r) \/ r_ref_get(r)
    \/ unpause_put(r) \/ begin_step(r) \/ corpus_run_id(r) \/ r_ref_put(r)
    \/ runner_done(r) \/ runner_blocked(r) \/ runner_failed(r) \/ runner_raises(r)
    \/ record_failure(r) \/ compute_final(r) \/ publish_final(r)

WorkflowNext ==
    \/ \E c \in Clients :
         \/ \E q \in Requests : request(c, q)
         \/ soft_delete(c) \/ ClientStep(c)
    \/ \E r \in Runs : RunStep(r) \/ crash(r)

WorkflowSpec == WorkflowInit /\ [][WorkflowNext]_workflow_vars

(* Requests in flight end and workers go on; nobody has to make a request.    *)
FairSpec ==
    /\ WorkflowSpec
    /\ \A c \in Clients : WF_workflow_vars(ClientStep(c))
    /\ \A r \in Runs : WF_workflow_vars(RunStep(r))

-----------------------------------------------------------------------------
(* Properties.                                                                *)

Live(r) == rpc[r] \in Looping

(* What should make runs take turns: one worker, or requests in turn.         *)
InTurn == workers = 1 \/ ~crossed

(* start refuses a running workflow so that one run at a time executes its    *)
(* steps, if nobody deletes it or starts it twice at the same time.           *)
OneRun == InTurn => Cardinality({r \in Runs : Live(r)}) <= 1

(* What a status says of the steps.                                           *)
Describes(s) ==
    /\ s = "completed" => \A i \in Steps : step_status[i] = "done"
    /\ s = "partial" => \E i, j \in Steps : step_status[i] = "done" /\ step_status[j] # "done"
    /\ s = "blocked" => \A i \in Steps : step_status[i] # "done"

(* When nothing is queued or in flight, the status a run published describes  *)
(* the steps it left; with one worker, whatever the requests do.              *)
SettledMatchesSteps ==
    (crashes = 0 /\ InTurn /\ \A r \in Runs : rpc[r] \in {"absent", "finished"}) =>
        Describes(status)

(* Why these hold.  There are as many runs at work as workers at most; ...    *)
WorkersTaken == IsFiniteSet(Occupied) /\ Cardinality(Occupied) <= workers

(* ... as long as requests come in turn, one of them is in flight, and a run  *)
(* is queued or live only while the status says so, or the request that       *)
(* started it is still to set it;                                             *)
Pending(r) == Live(r) \/ rpc[r] = "queued"

RequestsInTurn ==
    /\ \A c \in Clients :
         /\ crun[c] # NoRun => cpc[c] \notin {"idle", "create"}
         /\ crun[c] # NoRun \/ cpc[c] = "create" => req[c] # "pause"
    /\ ~crossed =>
        /\ \A c, d \in Clients : cpc[c] # "idle" /\ cpc[d] # "idle" => c = d
        /\ \A r, s \in Runs : Pending(r) /\ Pending(s) => r = s
        /\ \A r \in Runs : Pending(r) =>
             status = "running" \/ \E c \in Clients : crun[c] = r /\ cpc[c] # "idle"
        /\ \A c \in Clients : cpc[c] = "create" => \A r \in Runs : ~Pending(r)

(* ... what a run is about to publish describes the steps, and so does what   *)
(* was published until the next run; and a resumed run is not at a step that  *)
(* is done.                                                                   *)
AtStep == {"check_pause", "begin", "corpus", "ref_get", "ref_put", "body"}

RunsInOrder ==
    InTurn =>
        /\ \A r \in Runs : rpc[r] = "publish" => Describes(final[r])
        /\ crashes = 0 /\ (\A r \in Runs : ~Live(r)) => Describes(status)
        /\ \A r \in Runs : rpc[r] \in AtStep /\ resume[r] => step_status[at[r]] # "done"

WorkflowOrder == WorkflowTypes /\ WorkersTaken /\ RequestsInTurn /\ RunsInOrder

(* One run at a time, and a status that tells what its steps came to.         *)
WorkflowInv == WorkflowOrder /\ OneRun /\ SettledMatchesSteps

(* A resumed run never executes again what an earlier run had done.           *)
ResumeKeepsDone ==
    [][\A i \in Steps : InTurn /\ step_status[i] = "done" /\ step_status'[i] # "done"
         => \E r \in Runs : Live(r) /\ ~resume[r] /\ at[r] = i]_workflow_vars

(* A workflow that was started settles.                                       *)
WorkflowSettles == status = "running" ~> status # "running"

(* "The SSE endpoint tails that job": while one run executes and no request   *)
(* is in flight, engine_ref names its job.                                    *)
StreamFollowsRun ==
    \A r \in Runs :
        (Live(r) /\ \A c \in Clients : cpc[c] = "idle") => engine_ref.job = r

(* An acknowledged pause takes effect before another step begins.             *)
PauseHonoured ==
    [][acked => \A r \in Runs : ~(rpc[r] = "check_pause" /\ rpc'[r] \in {"begin", "ref_get"})]_workflow_vars

(* A run that goes on after its workflow was deleted does not put it back     *)
(* into the list.                                                             *)
DeletedStays ==
    [][status = "deleted" /\ status' # "deleted" => \E c \in Clients : cpc[c] = "set_running"]_workflow_vars
=============================================================================
