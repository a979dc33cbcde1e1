---------------------------- MODULE ExtractionRun ----------------------------
(* One structured-extraction run: StructuredExtractionRunService with the     *)
(* requests that start, cancel, resume, review and export it, and the worker  *)
(* that executes one "structured.extraction_run" job at a time per process.   *)
(*                                                                            *)
(* Each statement of the service commits on its own (store.py), so a request  *)
(* and a worker interleave between any two of them.  The queue is used        *)
(* through what JobQueue establishes: a job is dispatched once, and a job     *)
(* whose worker died is never dispatched again.                               *)
EXTENDS Integers, FiniteSets

CONSTANTS
    N,             \* number of packet items
    Jobs,          \* core job ids
    Clients,       \* web requests in flight at the same time
    Requests,      \* the requests clients make
    MaxRunning,    \* workers on the "structured-extraction" queue
    MaxRequests,   \* bound: requests after the first start
    MaxCrashes,    \* bound: crashes of a worker or of a request
    MaxReaps,      \* bound: calls of reap_orphaned_runs
    NoJob          \* "core_job_id is null"

Items == 1 .. N

ASSUME ConstantsAssumption ==
    /\ N \in Nat \ {0} /\ MaxRunning \in Nat \ {0}
    /\ MaxRequests \in Nat /\ MaxCrashes \in Nat /\ MaxReaps \in Nat
    /\ Requests \subseteq {"cancel", "resume", "resume_failed", "review", "export"}
    /\ NoJob \notin Jobs /\ Jobs \cap Clients = {}

VARIABLES
    status, core_job, counted,  \* structured_extraction_runs: status, core_job_id, counted_at
    item,                       \* structured_extraction_run_items.status
    records,                    \* rows of structured_extraction_records from each item
    locked,                     \* a review event or an export of the run exists
    task, run_count,            \* structured_extraction_tasks: status, stats.run_count
    job,                        \* status of the core jobs
    pc,                         \* where each request and each worker is
    req, ref,                   \* per request: what it does, the core job it knows
    todo,                       \* per worker: items (completed ones, when merging) it has read
    final,                      \* per worker: the status it will write
    raised,                     \* per worker: an exception has been caught
    update, seen,               \* per process: pending task update, run_count it has read
    requests, crashes, reaps

run == <<status, core_job, counted>>
tasks == <<task, run_count>>
client == <<req, ref>>
worker == <<todo, final, raised>>
bounds == <<requests, crashes, reaps>>
vars == <<run, item, records, locked, tasks, job, pc, client, worker, update, seen, bounds>>

Procs == Clients \cup Jobs
TERMINAL_STATUSES == {"completed", "completed_with_errors", "failed", "cancelled", "interrupted"}
ACTIVE_STATUSES == {"queued", "running", "cancelling"}
ItemStatuses == {"queued", "running", "completed", "failed", "interrupted"}
TaskStatuses == {"ready", "extracting", "review_required", "failed", "exported"}
Reviewable == {"completed", "completed_with_errors"}
NoUpdate == [to |-> "ready", count |-> FALSE]

WorkerPCs == {"idle", "begin", "select", "next", "extract", "check", "merge_delete", "merge_read",
              "merge_insert", "final_get", "final_put", "cancel_put", "task_get", "task_put",
              "artifacts"}
ClientPCs == {"idle", "core_cancel", "cancel_put", "cancelling_put", "cancelling_core",
              "resume_items", "resume_run", "enqueue", "link", "lock", "task_get", "task_put"}

TypeOK ==
    /\ status \in {"absent"} \cup ACTIVE_STATUSES \cup TERMINAL_STATUSES
    /\ core_job \in Jobs \cup {NoJob} /\ counted \in BOOLEAN
    /\ item \in [Items -> ItemStatuses]
    /\ records \in [Items -> Nat]
    /\ locked \in BOOLEAN
    /\ task \in TaskStatuses /\ run_count \in Nat
    /\ job \in [Jobs -> {"absent", "queued", "running", "finished", "cancelled", "dead"}]
    /\ pc \in [Procs -> WorkerPCs \cup ClientPCs]
    /\ \A j \in Jobs : pc[j] \in WorkerPCs /\ (pc[j] # "idle" <=> job[j] = "running")
    /\ \A c \in Clients : pc[c] \in ClientPCs /\ (pc[c] = "link" => ref[c] \in Jobs)
    /\ req \in [Clients -> Requests \cup {"start"}]
    /\ ref \in [Clients -> Jobs \cup {NoJob}]
    /\ todo \in [Jobs -> SUBSET Items]
    /\ \A j \in Jobs : pc[j] \in {"extract", "check"} => todo[j] # {}
    /\ final \in [Jobs -> TERMINAL_STATUSES]
    /\ raised \in [Jobs -> BOOLEAN]
    /\ update \in [Procs -> [to : TaskStatuses, count : BOOLEAN]]
    /\ seen \in [Procs -> Nat]
    /\ requests \in 0 .. MaxRequests /\ crashes \in 0 .. MaxCrashes /\ reaps \in 0 .. MaxReaps

Init ==
    /\ status = "absent" /\ core_job = NoJob /\ counted = FALSE
    /\ item = [i \in Items |-> "queued"]
    /\ records = [i \in Items |-> 0]
    /\ locked = FALSE
    /\ task = "ready" /\ run_count = 0
    /\ job = [j \in Jobs |-> "absent"]
    /\ pc = [p \in Procs |-> "idle"]
    /\ req = [c \in Clients |-> "start"]
    /\ ref = [c \in Clients |-> NoJob]
    /\ todo = [j \in Jobs |-> {}]
    /\ final = [j \in Jobs |-> "failed"]
    /\ raised = [j \in Jobs |-> FALSE]
    /\ update = [p \in Procs |-> NoUpdate]
    /\ seen = [p \in Procs |-> 0]
    /\ requests = 0 /\ crashes = 0 /\ reaps = 0

-----------------------------------------------------------------------------
(* Conditions and values.  A definition named Bug... is a mutated form of the *)
(* one that follows it.                                                       *)

BugRetried(q) == ItemStatuses \ {"failed"}

(* resume: the items it queues again; failed ones if the request says so.     *)
Retried(q) == {"queued", "running", "interrupted"}
              \cup IF q = "resume_failed" THEN {"failed"} ELSE {}

(* _run_is_locked.                                                            *)
Locked == locked

(* _recovery_status_from_run.                                                 *)
Resumable(q) ==
    /\ ~Locked
    /\ status \in {"failed", "interrupted", "cancelled", "completed_with_errors", "queued"}
    /\ \E i \in Items : item[i] \in Retried(q)

(* _should_count_run.                                                         *)
ShouldCount == ~counted

BugClear == records

(* _merge_records deletes the records of the run before it writes them.       *)
Clear == [i \in Items |-> 0]

BugFinal == IF \E i \in Items : item[i] = "failed" THEN "running" ELSE "completed"

(* The status _finalize_run gives the run.                                    *)
Final ==
    IF \E i \in Items : item[i] = "failed"
    THEN IF \E i \in Items : item[i] = "completed" \/ records[i] > 0
         THEN "completed_with_errors" ELSE "failed"
    ELSE "completed"

-----------------------------------------------------------------------------
(* Requests.                                                                  *)

Goto(p, l) == pc' = [pc EXCEPT ![p] = l]

(* p goes on to _set_task_status: it reads the task, then writes it.          *)
SetTask(p, to, count) ==
    /\ Goto(p, "task_get")
    /\ update' = [update EXCEPT ![p] = [to |-> to, count |-> count]]

task_get(p) ==
    /\ pc[p] = "task_get"
    /\ seen' = [seen EXCEPT ![p] = run_count]
    /\ Goto(p, "task_put")
    /\ UNCHANGED <<run, item, records, locked, tasks, job, client, worker, update, bounds>>

(* A worker that has begun goes on to its items, one that has ended to the    *)
(* artifacts; a request is done.                                              *)
task_put(p) ==
    /\ pc[p] = "task_put"
    /\ task' = update[p].to
    /\ run_count' = seen[p] + IF update[p].count THEN 1 ELSE 0
    /\ Goto(p, IF p \in Clients THEN "idle"
               ELSE IF update[p].to = "extracting" THEN "select" ELSE "artifacts")
    /\ update' = [update EXCEPT ![p] = NoUpdate]
    /\ seen' = [seen EXCEPT ![p] = 0]
    /\ UNCHANGED <<run, item, records, locked, job, client, worker, bounds>>

(* start: the run and its items are there before the core job is.             *)
start(c) ==
    /\ status = "absent" /\ pc[c] = "idle"
    /\ status' = "queued"
    /\ req' = [req EXCEPT ![c] = "start"]
    /\ Goto(c, "enqueue")
    /\ UNCHANGED <<core_job, counted, item, records, locked, tasks, job, ref, worker, update,
                   seen, bounds>>

enqueue(c) ==
    /\ pc[c] = "enqueue"
    /\ \E j \in Jobs :
         /\ job[j] = "absent"
         /\ job' = [job EXCEPT ![j] = "queued"]
         /\ ref' = [ref EXCEPT ![c] = j]
    /\ Goto(c, "link")
    /\ UNCHANGED <<run, item, records, locked, tasks, req, worker, update, seen, bounds>>

link(c) ==
    /\ pc[c] = "link"
    /\ core_job' = ref[c]
    /\ ref' = [ref EXCEPT ![c] = NoJob]
    /\ Goto(c, "idle")
    /\ UNCHANGED <<status, counted, item, records, locked, tasks, job, req, worker, update, seen,
                   bounds>>

(* A request arrives and reads the run; what it read decides where it goes.   *)
Arrive(c, q, l) ==
    /\ pc[c] = "idle" /\ requests < MaxRequests /\ q \in Requests
    /\ status # "absent"
    /\ requests' = requests + 1
    /\ req' = [req EXCEPT ![c] = q]
    /\ Goto(c, l)
    /\ UNCHANGED <<run, item, records, locked, tasks, job, worker, update, seen, crashes, reaps>>

cancel(c) ==
    /\ status \notin TERMINAL_STATUSES
    /\ Arrive(c, "cancel", IF status = "queued" THEN "core_cancel" ELSE "cancelling_put")
    /\ ref' = [ref EXCEPT ![c] = core_job]

cancelling_put(c) ==
    /\ pc[c] = "cancelling_put"
    /\ status' = "cancelling"
    /\ Goto(c, "cancelling_core")
    /\ UNCHANGED <<core_job, counted, item, records, locked, tasks, job, client, worker, update,
                   seen, bounds>>

(* JobQueue.cancel stops a job only while it is queued.                       *)
core_cancel(c) ==
    /\ pc[c] \in {"core_cancel", "cancelling_core"}
    /\ job' = [j \in Jobs |-> IF j = ref[c] /\ job[j] = "queued" THEN "cancelled" ELSE job[j]]
    /\ ref' = [ref EXCEPT ![c] = NoJob]
    /\ Goto(c, IF pc[c] = "core_cancel" THEN "cancel_put" ELSE "idle")
    /\ UNCHANGED <<run, item, records, locked, tasks, req, worker, update, seen, bounds>>

(* _finalize_cancelled, by a request and by a worker.                         *)
cancel_put(p) ==
    /\ pc[p] = "cancel_put"
    /\ status' = "cancelled"
    /\ SetTask(p, "ready", FALSE)
    /\ UNCHANGED <<core_job, counted, item, records, locked, tasks, job, client, worker, seen, bounds>>

(* (The third conjunct leaves every request that will enqueue a core job.)    *)
resume(c, q) ==
    /\ q \in {"resume", "resume_failed"}
    /\ Resumable(q)
    /\ Cardinality({j \in Jobs : job[j] = "absent"})
         > Cardinality({k \in Clients : pc[k] \in {"resume_items", "resume_run", "enqueue"}})
    /\ Arrive(c, q, "resume_items")
    /\ UNCHANGED ref

resume_items(c) ==
    /\ pc[c] = "resume_items"
    /\ item' = [i \in Items |-> IF item[i] \in Retried(req[c]) THEN "queued" ELSE item[i]]
    /\ Goto(c, "resume_run")
    /\ UNCHANGED <<run, records, locked, tasks, job, client, worker, update, seen, bounds>>

resume_run(c) ==
    /\ pc[c] = "resume_run"
    /\ status' = "queued"
    /\ Goto(c, "enqueue")
    /\ UNCHANGED <<core_job, counted, item, records, locked, tasks, job, client, worker, update,
                   seen, bounds>>

(* A review action or an export resolves the run first (_resolve_run).        *)
review(c, q) ==
    /\ q \in {"review", "export"}
    /\ status \in Reviewable /\ \E i \in Items : records[i] > 0
    /\ Arrive(c, q, "lock")
    /\ UNCHANGED ref

lock(c) ==
    /\ pc[c] = "lock"
    /\ locked' = TRUE
    /\ IF req[c] = "export"
       THEN SetTask(c, "exported", FALSE)
       ELSE Goto(c, "idle") /\ UNCHANGED update
    /\ UNCHANGED <<run, item, records, tasks, job, client, worker, seen, bounds>>

-----------------------------------------------------------------------------
(* The worker, _run_worker.                                                   *)

Running(j) == job[j] = "running"

claim(j) ==
    /\ job[j] = "queued"
    /\ Cardinality({k \in Jobs : Running(k)}) < MaxRunning
    /\ job' = [job EXCEPT ![j] = "running"]
    /\ Goto(j, "begin")
    /\ UNCHANGED <<run, item, records, locked, tasks, client, worker, update, seen, bounds>>

(* Running, whatever the status was.                                          *)
begin(j) ==
    /\ pc[j] = "begin"
    /\ status' = "running"
    /\ SetTask(j, "extracting", FALSE)
    /\ UNCHANGED <<core_job, counted, item, records, locked, tasks, job, client, worker, seen, bounds>>

(* The items it will execute are those that are not completed.                *)
select_items(j) ==
    /\ pc[j] = "select"
    /\ todo' = [todo EXCEPT ![j] = {i \in Items : item[i] # "completed"}]
    /\ Goto(j, "next")
    /\ UNCHANGED <<run, item, records, locked, tasks, job, client, final, raised, update, seen,
                   bounds>>

Current(j) == CHOOSE i \in todo[j] : \A k \in todo[j] : i <= k

(* The status is read before each item; then the item is marked running.      *)
next_item(j) ==
    /\ pc[j] = "next"
    /\ IF todo[j] = {} THEN Goto(j, "merge_delete") /\ UNCHANGED item
       ELSE IF status = "cancelling" THEN Goto(j, "cancel_put") /\ UNCHANGED item
       ELSE /\ item' = [item EXCEPT ![Current(j)] = "running"]
            /\ Goto(j, "extract")
    /\ UNCHANGED <<run, records, locked, tasks, job, client, worker, update, seen, bounds>>

extracted(j) ==
    /\ pc[j] = "extract"
    /\ \E s \in {"completed", "failed"} : item' = [item EXCEPT ![Current(j)] = s]
    /\ Goto(j, "check")
    /\ UNCHANGED <<run, records, locked, tasks, job, client, worker, update, seen, bounds>>

(* LLMUnavailable, or any exception outside the handling of one item, is      *)
(* caught once and goes to _fail_run.                                         *)
worker_raises(j) ==
    /\ pc[j] \in {"select", "extract", "merge_delete", "merge_read", "merge_insert", "artifacts"}
    /\ ~raised[j]
    /\ raised' = [raised EXCEPT ![j] = TRUE]
    /\ todo' = [todo EXCEPT ![j] = {}]
    /\ Goto(j, "final_get")
    /\ UNCHANGED <<run, item, records, locked, tasks, job, client, final, update, seen, bounds>>

(* The status is read again after each item.                                  *)
check_cancel(j) ==
    /\ pc[j] = "check"
    /\ todo' = [todo EXCEPT ![j] = @ \ {Current(j)}]
    /\ Goto(j, IF status = "cancelling" THEN "cancel_put" ELSE "next")
    /\ UNCHANGED <<run, item, records, locked, tasks, job, client, final, raised, update, seen,
                   bounds>>

merge_delete(j) ==
    /\ pc[j] = "merge_delete"
    /\ records' = Clear
    /\ Goto(j, "merge_read")
    /\ UNCHANGED <<run, item, locked, tasks, job, client, worker, update, seen, bounds>>

merge_read(j) ==
    /\ pc[j] = "merge_read"
    /\ todo' = [todo EXCEPT ![j] = {i \in Items : item[i] = "completed"}]
    /\ Goto(j, "merge_insert")
    /\ UNCHANGED <<run, item, records, locked, tasks, job, client, final, raised, update, seen,
                   bounds>>

merge_insert(j) ==
    /\ pc[j] = "merge_insert"
    /\ records' = [i \in Items |-> records[i] + IF i \in todo[j] THEN 1 ELSE 0]
    /\ todo' = [todo EXCEPT ![j] = {}]
    /\ Goto(j, "final_get")
    /\ UNCHANGED <<run, item, locked, tasks, job, client, final, raised, update, seen,
                   bounds>>

(* _finalize_run and _fail_run read counted_at, then write the run.           *)
final_get(j) ==
    /\ pc[j] = "final_get"
    /\ final' = [final EXCEPT ![j] = IF raised[j] THEN "failed" ELSE Final]
    /\ update' = [update EXCEPT ![j] = [to |-> "ready", count |-> ShouldCount]]
    /\ Goto(j, "final_put")
    /\ UNCHANGED <<run, item, records, locked, tasks, job, client, todo, raised, seen, bounds>>

final_put(j) ==
    /\ pc[j] = "final_put"
    /\ status' = final[j]
    /\ counted' = TRUE
    /\ final' = [final EXCEPT ![j] = "failed"]
    /\ SetTask(j, IF final[j] = "failed" THEN "failed" ELSE "review_required", update[j].count)
    /\ UNCHANGED <<core_job, item, records, locked, tasks, job, client, todo, raised, seen, bounds>>

(* _write_artifacts; then the handler returns (or, having caught an exception *)
(* before, raises) and the worker is free.                                    *)
write_artifacts(j) ==
    /\ pc[j] = "artifacts"
    /\ Goto(j, "idle")
    /\ job' = [job EXCEPT ![j] = "finished"]
    /\ raised' = [raised EXCEPT ![j] = FALSE]
    /\ UNCHANGED <<run, item, records, locked, tasks, client, todo, final, update, seen, bounds>>

-----------------------------------------------------------------------------
(* Failures.                                                                  *)

(* A worker or a web process dies; the database keeps what was committed.     *)
crash(p) ==
    /\ crashes < MaxCrashes /\ pc[p] # "idle"
    /\ crashes' = crashes + 1
    /\ Goto(p, "idle")
    /\ job' = IF p \in Jobs THEN [job EXCEPT ![p] = "dead"] ELSE job
    /\ ref' = IF p \in Clients THEN [ref EXCEPT ![p] = NoJob] ELSE ref
    /\ todo' = IF p \in Jobs THEN [todo EXCEPT ![p] = {}] ELSE todo
    /\ final' = IF p \in Jobs THEN [final EXCEPT ![p] = "failed"] ELSE final
    /\ raised' = IF p \in Jobs THEN [raised EXCEPT ![p] = FALSE] ELSE raised
    /\ update' = [update EXCEPT ![p] = NoUpdate]
    /\ seen' = [seen EXCEPT ![p] = 0]
    /\ UNCHANGED <<run, item, records, locked, tasks, req, requests, reaps>>

(* reap_orphaned_runs, called when nothing of the run is executing.           *)
reap_orphaned_runs ==
    /\ reaps < MaxReaps
    /\ status \in ACTIVE_STATUSES
    /\ \A p \in Procs : pc[p] = "idle"
    /\ status' = "interrupted"
    /\ item' = [i \in Items |-> IF item[i] \in {"queued", "running"} THEN "interrupted" ELSE item[i]]
    /\ reaps' = reaps + 1
    /\ UNCHANGED <<core_job, counted, records, locked, tasks, job, pc, client, worker, update,
                   seen, requests, crashes>>

-----------------------------------------------------------------------------
ClientStep(c) ==
    \/ enqueue(c) \/ link(c) \/ cancelling_put(c) \/ core_cancel(c) \/ resume_items(c)
    \/ resume_run(c) \/ lock(c) \/ cancel_put(c) \/ task_get(c) \/ task_put(c)

WorkerStep(j) ==
    \/ claim(j) \/ begin(j) \/ select_items(j) \/ next_item(j) \/ extracted(j)
    \/ worker_raises(j) \/ check_cancel(j) \/ merge_delete(j) \/ merge_read(j)
    \/ merge_insert(j) \/ final_get(j) \/ final_put(j) \/ cancel_put(j)
    \/ task_get(j) \/ task_put(j) \/ write_artifacts(j)

Next ==
    \/ \E c \in Clients :
         \/ start(c) \/ cancel(c) \/ ClientStep(c)
         \/ \E q \in Requests : resume(c, q) \/ review(c, q)
    \/ \E j \in Jobs : WorkerStep(j)
    \/ \E p \in Procs : crash(p)
    \/ reap_orphaned_runs

Spec == Init /\ [][Next]_vars

(* Requests in flight end and workers go on; nobody has to make a request.    *)
FairSpec ==
    /\ Spec
    /\ \A c \in Clients : WF_vars(ClientStep(c))
    /\ \A j \in Jobs : WF_vars(WorkerStep(j))

-----------------------------------------------------------------------------
(* Properties.                                                                *)

(* The work of a completed item is never done again or lost, by resumes,      *)
(* restarts and second jobs of the run.                                       *)
CompletedItemsKept ==
    [][\A i \in Items : item[i] = "completed" => item'[i] = "completed"]_vars

(* What a reviewer finds under a completed run is one record of each item     *)
(* that was completed, and of no other.                                       *)
Recorded == \A i \in Items : records[i] = IF item[i] = "completed" THEN 1 ELSE 0
ReviewableRecordsComplete == status \in Reviewable => Recorded

(* However often a run is resumed, it is counted once in its task.            *)
CountedAtMostOnce == run_count <= 1

(* Why these hold: one worker at a time takes items that are not completed,   *)
(* and gives the run a status under which it is reviewed only with a record   *)
(* of each completed item,                                                    *)
AtItems(j) ==
    \/ pc[j] \in {"select", "next", "extract", "check", "merge_delete", "merge_read", "merge_insert"}
    \/ pc[j] \in {"task_get", "task_put"} /\ update[j].to = "extracting"
WorkOf(j) ==
    /\ AtItems(j) => status \notin Reviewable
    /\ pc[j] \in {"next", "extract"} => \A i \in todo[j] : item[i] # "completed"
    /\ pc[j] = "check" => \A i \in todo[j] \ {Current(j)} : item[i] # "completed"
    /\ pc[j] \in {"merge_read", "merge_insert"} => \A i \in Items : records[i] = 0
    /\ pc[j] = "merge_insert" => todo[j] = {i \in Items : item[i] = "completed"}
    /\ pc[j] = "final_get" /\ ~raised[j] => Recorded
    /\ pc[j] = "final_put" /\ final[j] \in Reviewable => Recorded
WorkInOrder == (\A j, k \in Jobs : Running(j) /\ Running(k) => j = k) /\ \A j \in Jobs : WorkOf(j)

(* and only that worker may be about to count the run, which nobody has read  *)
(* as counted.                                                                *)
Uncounted == run_count = 0 /\ \A p \in Procs : seen[p] = 0
CountInOrder ==
    /\ ~counted => Uncounted
    /\ \A p \in Procs : seen[p] <= 1
    /\ \A p \in Procs : update[p].count =>
         /\ p \in Jobs /\ pc[p] \in {"final_put", "task_get", "task_put"} /\ Uncounted
         /\ pc[p] \in {"task_get", "task_put"} => counted

(* A request knows core jobs that exist.                                      *)
JobsKnown == \A j \in {core_job} \cup {ref[c] : c \in Clients} : j # NoJob => job[j] # "absent"

(* The type invariant and what must hold of records and counts at all times.  *)
ExtractionInv ==
    /\ TypeOK /\ ReviewableRecordsComplete /\ CountedAtMostOnce
    /\ WorkInOrder /\ CountInOrder /\ JobsKnown

(* A request has found the job in the row and is about to cancel it.          *)
Doomed(j) == \E c \in Clients : pc[c] = "cancelling_core" /\ ref[c] = j

(* As long as nothing crashed, a run that is queued or running has somebody   *)
(* who will take it to an end, whatever resumes, cancels and exceptions       *)
(* overlap: a request that queues it or has stopped its job, a core job that  *)
(* waits for a worker and that no request is about to cancel, or a worker     *)
(* that has yet to write the final status.                                    *)
RunIsDriven ==
    crashes = 0 /\ status \in {"queued", "running"} =>
        \/ \E c \in Clients : pc[c] \in {"enqueue", "core_cancel", "cancel_put", "cancelling_put"}
        \/ \E j \in Jobs : job[j] = "queued" /\ ~Doomed(j)
        \/ \E j \in Jobs :
             /\ pc[j] \notin {"idle", "artifacts"}
             /\ pc[j] \in {"task_get", "task_put"} => update[j].to = "extracting"

(* "run_locked_by_review_or_export": the records of a run that was reviewed   *)
(* or exported are not replaced.                                              *)
ReviewedRecordsStay == [][locked => records' = records]_vars

(* A cancelled run stays cancelled until a resume queues it again.            *)
CancelledStays == [][status = "cancelled" => status' \in {"cancelled", "queued"}]_vars

(* A run that is being cancelled gets cancelled, or ends.                     *)
CancellingEnds == status = "cancelling" ~> status # "cancelling"

(* A run that has ended and is left alone is counted in its task.             *)
RunIsCounted ==
    (status \in Reviewable /\ \A p \in Procs : pc[p] = "idle") => run_count = 1
=============================================================================
