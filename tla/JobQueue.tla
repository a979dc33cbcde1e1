------------------------------ MODULE JobQueue ------------------------------
(* The durable job queue (core/worker/queue.py), the worker loop that drains  *)
(* it (core/worker/runtime.py), the requests that submit and cancel jobs, and *)
(* the workflow runner that submits a literature job and runs it inline       *)
(* (JobRunner.submit + run_inline).                                           *)
(*                                                                            *)
(* One variable per column of the jobs table that some statement reads; each  *)
(* database transaction is one step, so that what a process has read may be   *)
(* out of date by the time it writes.  No statement reads locked_by, and SKIP *)
(* LOCKED lets a claim pass over any row that another transaction holds, so   *)
(* neither the owner's name nor the priority order is kept.                   *)
EXTENDS Integers, Sequences, FiniteSets

CONSTANTS
    Jobs,            \* job ids
    InlineJobs,      \* the jobs a Runner submits and then runs itself
    Workers,         \* worker processes (python -m worker)
    Clients,         \* web requests: one enqueue or cancel call at a time
    Runners,         \* corpus-stage runners: submit, then run_inline
    AttemptLimits,   \* max_attempts values given to enqueue
    MaxJobsPerTick,  \* WorkerRuntime.max_jobs_per_tick
    MaxJobs,         \* bound: jobs submitted in a behaviour
    MaxCancels,      \* bound: cancel requests in a behaviour
    MaxCrashes,      \* bound: process crashes in a behaviour
    NoJob            \* "no current job"

ASSUME ConstantsAssumption ==
    /\ InlineJobs \subseteq Jobs
    /\ NoJob \notin Jobs
    /\ AttemptLimits \subseteq Nat \ {0}
    /\ MaxJobsPerTick \in Nat \ {0}
    /\ MaxJobs \in Nat /\ MaxCancels \in Nat /\ MaxCrashes \in Nat
    /\ Workers \cap Clients = {} /\ Workers \cap Runners = {}
    /\ Clients \cap Runners = {}

ASSUME WorkersAreFinite == IsFiniteSet(Workers)

VARIABLES
    status, attempt_count, max_attempts,   \* columns of jobs
    locked_at,          \* "none", "live" or "expired" (older than the lease)
    due,                \* next_run_at <= now
    cancel_requested,
    events,             \* job_events: the types of the events appended so far
    pc,                 \* where each process is in its code
    job,                \* the job it works on
    out,                \* the events it still has to append ...
    ret,                \* ... and where it goes when it has
    stale,              \* recover_stale_jobs: selected ids not yet treated
    left,               \* claims left in this tick
    cancels, crashes    \* how much of the bounds is used

row == <<status, attempt_count, max_attempts, locked_at, due, cancel_requested>>
loop == <<stale, left>>
bounds == <<cancels, crashes>>
vars == <<row, events, pc, job, out, ret, loop, bounds>>

Procs == Workers \cup Clients \cup Runners

TERMINAL_STATUSES == {"completed", "failed", "cancelled", "interrupted"}

EventTypes == {"queued", "stage", "result", "retry", "error", "cancelled",
               "cancel_requested", "done"}

(* Where a process can be, and where it can go when it has appended events.   *)
WorkerPCs == {"idle", "recover", "requeue_stale", "claim", "run", "check_cancel",
              "complete", "fail", "retry", "fail_write", "cancel", "cancel_queued",
              "cancel_running", "append"}
ClientPCs == {"idle", "cancel", "cancel_queued", "cancel_running", "append"}
RunnerPCs == {"idle", "start", "run", "complete", "fail_write", "append"}

PCsOf(p) == IF p \in Workers THEN WorkerPCs
            ELSE IF p \in Clients THEN ClientPCs ELSE RunnerPCs
ReturnsOf(p) == IF p \in Workers THEN {"idle", "recover", "claim", "run"}
                ELSE IF p \in Clients THEN {"idle"} ELSE {"idle", "start", "run"}

(* The places in the loop that are outside any call on a job.                 *)
Outside == {"idle", "recover", "claim"}

TypeOK ==
    /\ status \in [Jobs -> {"absent", "queued", "running"} \cup TERMINAL_STATUSES]
    /\ attempt_count \in [Jobs -> Nat]
    /\ max_attempts \in [Jobs -> Nat \ {0}]
    /\ locked_at \in [Jobs -> {"none", "live", "expired"}]
    /\ due \in [Jobs -> BOOLEAN]
    /\ cancel_requested \in [Jobs -> BOOLEAN]
    /\ events \in [Jobs -> SUBSET EventTypes]
    /\ pc \in [Procs -> WorkerPCs \cup RunnerPCs]
    /\ job \in [Procs -> Jobs \cup {NoJob}]
    /\ out \in [Procs -> Seq(EventTypes)]
    /\ ret \in [Procs -> Outside \cup {"run", "start"}]
    /\ stale \in [Workers -> SUBSET Jobs]
    /\ left \in [Workers -> 0 .. MaxJobsPerTick]
    /\ cancels \in Nat /\ crashes \in Nat

Init ==
    /\ status = [j \in Jobs |-> "absent"]
    /\ attempt_count = [j \in Jobs |-> 0]
    /\ max_attempts = [j \in Jobs |-> 1]
    /\ locked_at = [j \in Jobs |-> "none"]
    /\ due = [j \in Jobs |-> FALSE]
    /\ cancel_requested = [j \in Jobs |-> FALSE]
    /\ events = [j \in Jobs |-> {}]
    /\ pc = [p \in Procs |-> "idle"]
    /\ job = [p \in Procs |-> NoJob]
    /\ out = [p \in Procs |-> <<>>]
    /\ ret = [p \in Procs |-> "idle"]
    /\ stale = [w \in Workers |-> {}]
    /\ left = [w \in Workers |-> 0]
    /\ cancels = 0 /\ crashes = 0

-----------------------------------------------------------------------------
(* Control of a process.  Each definition named Bug... is a mutated form of   *)
(* the one after it: the runs show which property breaks with that bug.       *)

(* p goes to l in its code, still working on the same job.                    *)
Goto(p, l) ==
    /\ pc' = [pc EXCEPT ![p] = l]
    /\ UNCHANGED <<job, out, ret>>

(* The events p still owes after its transaction, in order, each appended in  *)
(* a transaction of its own; then it goes to l.                               *)
Owe(p, evs, l) ==
    /\ pc' = [pc EXCEPT ![p] = "append"]
    /\ out' = [out EXCEPT ![p] = evs]
    /\ ret' = [ret EXCEPT ![p] = l]
    /\ UNCHANGED job

(* Where p continues after a call that settles its job: a worker that has not *)
(* claimed in this tick is recovering and goes on with its list, one that has *)
(* executed takes the next claim of its tick or starts a new tick.            *)
After(p) ==
    IF p \notin Workers THEN "idle"
    ELSE IF left[p] = MaxJobsPerTick THEN "recover"
    ELSE IF left[p] > 0 THEN "claim" ELSE "idle"

Return(p) ==
    /\ pc' = [pc EXCEPT ![p] = After(p)]
    /\ job' = [job EXCEPT ![p] = NoJob]
    /\ UNCHANGED <<out, ret>>

(* append_event: the row lock makes read-max-and-insert one atomic step, so   *)
(* indices are contiguous; only which types a stream holds is kept.           *)
append_event(p) ==
    /\ pc[p] = "append"
    /\ events' = [events EXCEPT ![job[p]] = @ \cup {Head(out[p])}]
    /\ out' = [out EXCEPT ![p] = Tail(@)]
    /\ IF Tail(out[p]) = <<>>
       THEN /\ pc' = [pc EXCEPT ![p] = ret[p]]
            /\ job' = [job EXCEPT ![p] = IF ret[p] \in {"run", "start"} THEN @ ELSE NoJob]
            /\ ret' = [ret EXCEPT ![p] = "idle"]
       ELSE UNCHANGED <<pc, job, ret>>
    /\ UNCHANGED <<row, loop, bounds>>

-----------------------------------------------------------------------------
(* The conditions and values the statements share.                            *)

BugAttemptsOffByOne(j) == attempt_count[j] <= max_attempts[j]

(* The retry condition of fail and of recover_stale_jobs.                     *)
MayRetry(j) == attempt_count[j] < max_attempts[j]

BugClaimsCancelled(j) == status[j] \in {"queued", "cancelled"} /\ due[j]

BugClaimsRunning(j) == status[j] \in {"queued", "running"} /\ due[j]

(* The where clause of claim.                                                 *)
Claimable(j) == status[j] = "queued" /\ due[j]

BugNoStaleJobs == {}

(* The where clause of recover_stale_jobs.                                    *)
StaleJobs == {j \in Jobs : status[j] = "running" /\ locked_at[j] = "expired"}

BugLease(j) == UNCHANGED locked_at

(* claim takes the lease in the transaction that sets the status.             *)
Lease(j) == locked_at' = [locked_at EXCEPT ![j] = "live"]

(* What fail and a cancel of a running job append after their update.         *)
FailEvents == <<"error", "done">>

BugCancelRequestedEvents == <<"cancel_requested", "done">>

CancelRequestedEvents == <<"cancel_requested">>

-----------------------------------------------------------------------------
(* Submitting.                                                                *)

(* JobQueue.enqueue: the row first, the "queued" event in a later transaction.*)
Insert(p, j, limit, l) ==
    /\ pc[p] = "idle"
    /\ status[j] = "absent"
    /\ Cardinality({k \in Jobs : status[k] # "absent"}) < MaxJobs
    /\ status' = [status EXCEPT ![j] = "queued"]
    /\ max_attempts' = [max_attempts EXCEPT ![j] = limit]
    /\ due' = [due EXCEPT ![j] = TRUE]
    /\ pc' = [pc EXCEPT ![p] = "append"]
    /\ job' = [job EXCEPT ![p] = j]
    /\ out' = [out EXCEPT ![p] = <<"queued">>]
    /\ ret' = [ret EXCEPT ![p] = l]
    /\ UNCHANGED <<attempt_count, locked_at, cancel_requested, events, loop, bounds>>

enqueue(c) ==
    \E j \in Jobs \ InlineJobs, limit \in AttemptLimits : Insert(c, j, limit, "idle")

(* JobRunner.submit of a corpus stage, which goes on to run_inline.           *)
submit(r) == \E j \in InlineJobs : Insert(r, j, 1, "start")

(* JobStore.start: running whatever the row says, and no lease is taken.      *)
start(r) ==
    /\ pc[r] = "start"
    /\ status' = [status EXCEPT ![job[r]] = "running"]
    /\ Owe(r, <<"stage">>, "run")
    /\ UNCHANGED <<attempt_count, max_attempts, locked_at, due, cancel_requested,
                   events, loop, bounds>>

-----------------------------------------------------------------------------
(* The worker loop.                                                           *)

(* run_once: read the ids whose lease has expired.                            *)
select_stale(w) ==
    /\ pc[w] = "idle"
    /\ stale' = [stale EXCEPT ![w] = StaleJobs]
    /\ left' = [left EXCEPT ![w] = MaxJobsPerTick]
    /\ Goto(w, "recover")
    /\ UNCHANGED <<row, events, bounds>>

(* recover_stale_jobs reads each selected row again, and fail() a second time:*)
(* attempt_count only grows, so both reads lead to the same branch.           *)
recover_get(w, j) ==
    /\ pc[w] = "recover" /\ j \in stale[w]
    /\ stale' = [stale EXCEPT ![w] = @ \ {j}]
    /\ job' = [job EXCEPT ![w] = j]
    /\ pc' = [pc EXCEPT ![w] = IF MayRetry(j) THEN "requeue_stale" ELSE "fail_write"]
    /\ UNCHANGED <<row, events, out, ret, left, bounds>>

requeue_stale(w) ==
    /\ pc[w] = "requeue_stale"
    /\ status' = [status EXCEPT ![job[w]] = "queued"]
    /\ locked_at' = [locked_at EXCEPT ![job[w]] = "none"]
    /\ due' = [due EXCEPT ![job[w]] = TRUE]
    /\ Owe(w, <<"retry">>, "recover")
    /\ UNCHANGED <<attempt_count, max_attempts, cancel_requested, events, loop, bounds>>

recovered(w) ==
    /\ pc[w] = "recover" /\ stale[w] = {}
    /\ Goto(w, "claim")
    /\ UNCHANGED <<row, events, loop, bounds>>

claim(w, j) ==
    /\ pc[w] = "claim"
    /\ Claimable(j)
    /\ status' = [status EXCEPT ![j] = "running"]
    /\ Lease(j)
    /\ attempt_count' = [attempt_count EXCEPT ![j] = @ + 1]
    /\ left' = [left EXCEPT ![w] = @ - 1]
    /\ pc' = [pc EXCEPT ![w] = "append"]
    /\ job' = [job EXCEPT ![w] = j]
    /\ out' = [out EXCEPT ![w] = <<"stage">>]
    /\ ret' = [ret EXCEPT ![w] = "run"]
    /\ UNCHANGED <<max_attempts, due, cancel_requested, events, stale, bounds>>

claim_none(w) ==
    /\ pc[w] = "claim"
    /\ \A j \in Jobs : ~Claimable(j)
    /\ Goto(w, "idle")
    /\ UNCHANGED <<row, events, loop, bounds>>

(* The handler returns: a worker then reads cancel_requested, an inline run   *)
(* completes without looking.                                                 *)
handler_returns(p) ==
    /\ pc[p] = "run"
    /\ Goto(p, IF p \in Workers THEN "check_cancel" ELSE "complete")
    /\ UNCHANGED <<row, events, loop, bounds>>

(* The handler raises: WorkerRuntime fails with retry, JobStore.fail without. *)
handler_raises(p) ==
    /\ pc[p] = "run"
    /\ Goto(p, IF p \in Workers THEN "fail" ELSE "fail_write")
    /\ UNCHANGED <<row, events, loop, bounds>>

check_cancel(w) ==
    /\ pc[w] = "check_cancel"
    /\ Goto(w, IF cancel_requested[job[w]] THEN "cancel" ELSE "complete")
    /\ UNCHANGED <<row, events, loop, bounds>>

-----------------------------------------------------------------------------
(* Settling: every write is by job_id alone, whatever the row says by then.   *)

complete(p) ==
    /\ pc[p] = "complete"
    /\ status' = [status EXCEPT ![job[p]] = "completed"]
    /\ locked_at' = [locked_at EXCEPT ![job[p]] = "none"]
    /\ Owe(p, <<"result", "done">>, After(p))
    /\ UNCHANGED <<attempt_count, max_attempts, due, cancel_requested, events, loop, bounds>>

fail_get(w) ==
    /\ pc[w] = "fail"
    /\ Goto(w, IF MayRetry(job[w]) THEN "retry" ELSE "fail_write")
    /\ UNCHANGED <<row, events, loop, bounds>>

fail_retry(w) ==
    /\ pc[w] = "retry"
    /\ status' = [status EXCEPT ![job[w]] = "queued"]
    /\ locked_at' = [locked_at EXCEPT ![job[w]] = "none"]
    /\ due' = [due EXCEPT ![job[w]] = FALSE]
    /\ Owe(w, <<"retry">>, After(w))
    /\ UNCHANGED <<attempt_count, max_attempts, cancel_requested, events, loop, bounds>>

fail_write(p) ==
    /\ pc[p] = "fail_write"
    /\ status' = [status EXCEPT ![job[p]] = "failed"]
    /\ locked_at' = [locked_at EXCEPT ![job[p]] = "none"]
    /\ Owe(p, FailEvents, After(p))
    /\ UNCHANGED <<attempt_count, max_attempts, due, cancel_requested, events, loop, bounds>>

-----------------------------------------------------------------------------
(* JobQueue.cancel, called by a request and by a worker whose handler has     *)
(* returned: the row is read, then written by what was read.                  *)

request_cancel(c, j) ==
    /\ pc[c] = "idle" /\ cancels < MaxCancels
    /\ status[j] # "absent"
    /\ cancels' = cancels + 1
    /\ job' = [job EXCEPT ![c] = j]
    /\ pc' = [pc EXCEPT ![c] = "cancel"]
    /\ UNCHANGED <<row, events, out, ret, loop, crashes>>

cancel_get(p) ==
    /\ pc[p] = "cancel"
    /\ IF status[job[p]] \in TERMINAL_STATUSES THEN Return(p)
       ELSE Goto(p, IF status[job[p]] = "queued" THEN "cancel_queued" ELSE "cancel_running")
    /\ UNCHANGED <<row, events, loop, bounds>>

cancel_queued(p) ==
    /\ pc[p] = "cancel_queued"
    /\ status' = [status EXCEPT ![job[p]] = "cancelled"]
    /\ cancel_requested' = [cancel_requested EXCEPT ![job[p]] = TRUE]
    /\ Owe(p, <<"cancelled", "done">>, After(p))
    /\ UNCHANGED <<attempt_count, max_attempts, locked_at, due, events, loop, bounds>>

cancel_running(p) ==
    /\ pc[p] = "cancel_running"
    /\ cancel_requested' = [cancel_requested EXCEPT ![job[p]] = TRUE]
    /\ Owe(p, CancelRequestedEvents, After(p))
    /\ UNCHANGED <<status, attempt_count, max_attempts, locked_at, due, events, loop, bounds>>

-----------------------------------------------------------------------------
(* Time and failures.                                                         *)

(* The lease runs out: nothing renews it while a handler runs.                *)
lease_expires(j) ==
    /\ locked_at[j] = "live"
    /\ locked_at' = [locked_at EXCEPT ![j] = "expired"]
    /\ UNCHANGED <<status, attempt_count, max_attempts, due, cancel_requested,
                   events, pc, job, out, ret, loop, bounds>>

(* next_run_at of a retried job has come (BACKOFF_SECONDS).                   *)
backoff_elapses(j) ==
    /\ status[j] = "queued" /\ ~due[j]
    /\ due' = [due EXCEPT ![j] = TRUE]
    /\ UNCHANGED <<status, attempt_count, max_attempts, locked_at, cancel_requested,
                   events, pc, job, out, ret, loop, bounds>>

(* A process dies and is started again: what it had read and what it still    *)
(* owed are gone, the database keeps what was committed.                      *)
crash(p) ==
    /\ crashes < MaxCrashes
    /\ pc[p] # "idle"
    /\ crashes' = crashes + 1
    /\ pc' = [pc EXCEPT ![p] = "idle"]
    /\ job' = [job EXCEPT ![p] = NoJob]
    /\ out' = [out EXCEPT ![p] = <<>>]
    /\ ret' = [ret EXCEPT ![p] = "idle"]
    /\ stale' = IF p \in Workers THEN [stale EXCEPT ![p] = {}] ELSE stale
    /\ UNCHANGED <<row, events, left, cancels>>

-----------------------------------------------------------------------------
WorkerStep(w) ==
    \/ select_stale(w) \/ requeue_stale(w) \/ recovered(w) \/ claim_none(w)
    \/ \E j \in Jobs : recover_get(w, j) \/ claim(w, j)
    \/ check_cancel(w) \/ fail_get(w) \/ fail_retry(w)

CallStep(p) ==
    \/ append_event(p) \/ handler_returns(p) \/ handler_raises(p)
    \/ complete(p) \/ fail_write(p)
    \/ cancel_get(p) \/ cancel_queued(p) \/ cancel_running(p)

Next ==
    \/ \E w \in Workers : WorkerStep(w)
    \/ \E c \in Clients : enqueue(c) \/ \E j \in Jobs : request_cancel(c, j)
    \/ \E r \in Runners : submit(r) \/ start(r)
    \/ \E p \in Procs : CallStep(p) \/ crash(p)
    \/ \E j \in Jobs : lease_expires(j) \/ backoff_elapses(j)

Spec == Init /\ [][Next]_vars

(* Workers and runners keep taking steps, a handler returns or raises, leases *)
(* run out and backoffs elapse.  Nobody has to submit or cancel, and no       *)
(* process has to crash.                                                      *)
Fairness ==
    /\ \A w \in Workers : WF_vars(WorkerStep(w) \/ CallStep(w))
    /\ \A c \in Clients : WF_vars(CallStep(c))
    /\ \A r \in Runners : WF_vars(start(r) \/ CallStep(r))
    /\ \A j \in Jobs : WF_vars(lease_expires(j)) /\ WF_vars(backoff_elapses(j))

FairSpec == Spec /\ Fairness

-----------------------------------------------------------------------------
(* Properties.                                                                *)

Settled(j) == status[j] \in TERMINAL_STATUSES

(* The jobs that max_attempts = 1 (the default every caller leaves) and a     *)
(* single executor make simple: nothing but a worker runs them, once.         *)
Plain(j) == max_attempts[j] = 1 /\ j \notin InlineJobs

Executes(w, j) ==
    /\ job[w] = j
    /\ \/ pc[w] \in {"run", "check_cancel", "complete", "fail"}
       \/ pc[w] = "append" /\ ret[w] = "run"

Owes(p, j, e) == job[p] = j /\ \E i \in 1 .. Len(out[p]) : out[p][i] = e
Published(j, e) == e \in events[j]

(* A job submitted with max_attempts = 1 is dispatched to a worker at most    *)
(* once, however leases expire, workers crash and recoveries race.            *)
SingleAttempt == \A j \in Jobs : max_attempts[j] = 1 => attempt_count[j] <= 1

(* Why SingleAttempt holds, as an inductive invariant.                        *)
(* Each kind of process is in its own code; it has a job exactly inside a     *)
(* call on one, and events to append exactly when it is appending.            *)
ControlOK ==
    \A p \in Procs :
        /\ pc[p] \in PCsOf(p) /\ ret[p] \in ReturnsOf(p)
        /\ pc[p] \in Outside <=> job[p] = NoJob
        /\ pc[p] = "append" <=> out[p] # <<>>

(* A row that is absent, or queued with max_attempts = 1, was never claimed.  *)
FreshUntilClaimed ==
    \A j \in Jobs :
        /\ status[j] = "absent" => attempt_count[j] = 0
        /\ status[j] = "queued" /\ max_attempts[j] = 1 => attempt_count[j] = 0

(* Only a claim takes a lease, and only leased rows are selected as stale.    *)
LeaseMeansClaimed ==
    /\ \A j \in Jobs : locked_at[j] # "none" => attempt_count[j] >= 1
    /\ \A w \in Workers : \A j \in stale[w] : attempt_count[j] >= 1

(* What a worker executes, settles or queues again was claimed.               *)
WorkIsClaimed ==
    \A w \in Workers :
        /\ pc[w] \in {"run", "check_cancel", "complete", "fail", "retry",
                      "fail_write", "requeue_stale"} => attempt_count[job[w]] >= 1
        /\ pc[w] = "append" /\ ret[w] = "run" => attempt_count[job[w]] >= 1

(* A process about to queue a job again has seen an attempt left of several.  *)
RequeueMeansRetries ==
    \A p \in Procs : pc[p] \in {"retry", "requeue_stale"} => max_attempts[job[p]] >= 2

(* Processes hold existing jobs, and runners inline ones.                     *)
WorkExists ==
    /\ \A p \in Procs : job[p] # NoJob => status[job[p]] # "absent"
    /\ \A w \in Workers : \A j \in stale[w] : status[j] # "absent"
    /\ \A r \in Runners : job[r] # NoJob => job[r] \in InlineJobs

(* The parts of the loop that have a number of claims left.                   *)
ClaimsLeft ==
    \A w \in Workers :
        /\ pc[w] \in {"recover", "requeue_stale"} => left[w] = MaxJobsPerTick
        /\ pc[w] = "append" /\ ret[w] = "recover" => left[w] = MaxJobsPerTick
        /\ pc[w] = "claim" => left[w] >= 1
        /\ pc[w] = "append" /\ ret[w] = "claim" => left[w] >= 1

(* The inductive invariant: all of these, with the types.                     *)
AttemptInv ==
    /\ TypeOK
    /\ ControlOK
    /\ FreshUntilClaimed
    /\ LeaseMeansClaimed
    /\ WorkIsClaimed
    /\ RequeueMeansRetries
    /\ WorkExists
    /\ ClaimsLeft
    /\ SingleAttempt

(* Recoveries and failures that read the row before another worker's claim    *)
(* may each queue the job once more: max_attempts is exceeded, but by less    *)
(* than the number of workers.                                                *)
AttemptsBounded ==
    \A j \in Jobs : attempt_count[j] <= max_attempts[j] + Cardinality(Workers) - 1

(* No two workers are executing a job with max_attempts = 1 at the same time, *)
(* although its lease may expire under a handler and claims do not look at it.*)
ExclusiveExecution ==
    \A j \in Jobs : max_attempts[j] = 1 =>
        \A w1, w2 \in Workers : Executes(w1, j) /\ Executes(w2, j) => w1 = w2

(* Once a plain job is settled no recovery, retry, claim or cancel makes it   *)
(* queued or running again.                                                   *)
SettledStays == [][\A j \in Jobs : Settled(j) /\ Plain(j) => Settled(j)']_vars

(* The event stream of a plain job says "done" only when the job is settled:  *)
(* a reader that stops there has not missed an execution.                     *)
DoneMeansSettled == \A j \in Jobs : Plain(j) /\ Published(j, "done") => Settled(j)

(* As long as nothing crashed, a settled job has its "done" event, or a       *)
(* process is about to append it: no stream is left open.                     *)
DoneIsPublished ==
    crashes = 0 =>
        \A j \in Jobs : Settled(j) =>
            Published(j, "done") \/ \E p \in Procs : Owes(p, j, "done")

(* A running job is under a lease, so that recovery can find it, or it is an  *)
(* inline job whose runner is at work (or has crashed).                       *)
RunningIsOwned ==
    \A j \in Jobs : status[j] = "running" =>
        \/ locked_at[j] # "none"
        \/ j \in InlineJobs /\ (crashes > 0 \/ \E r \in Runners : job[r] = j)

(* Why AttemptsBounded holds.  A worker has decided to queue j again only     *)
(* while an attempt was left; once none is left, those that had decided, and  *)
(* the one time j may be queued already, are all the claims still to come,    *)
(* and the worker that made the last regular claim is not among them.         *)
Requeuers(j) == {w \in Workers : pc[w] \in {"retry", "requeue_stale"} /\ job[w] = j}
ClaimsToCome(j) == Cardinality(Requeuers(j)) + (IF status[j] = "queued" THEN 1 ELSE 0)
RequeuesCounted ==
    \A j \in Jobs :
        \/ attempt_count[j] < max_attempts[j]
        \/ attempt_count[j] + ClaimsToCome(j) <= max_attempts[j] + Cardinality(Workers) - 1

(* Why DoneMeansSettled holds: "done" is only owed once the row is settled,   *)
(* and a row that does not exist has no events.                               *)
DoneOwedWhenSettled ==
    /\ \A p \in Procs : \A j \in Jobs : Owes(p, j, "done") /\ Plain(j) => Settled(j)
    /\ \A j \in Jobs : status[j] = "absent" => events[j] = {} /\ max_attempts[j] = 1

(* Why RunningIsOwned holds: the runner of an inline job is in the part of    *)
(* its code that ends by settling the job.                                    *)
RunsInline(r, j) ==
    /\ job[r] = j
    /\ pc[r] \in {"run", "complete", "fail_write"} \/ (pc[r] = "append" /\ ret[r] = "run")
RunningIsRun ==
    \A j \in Jobs : status[j] = "running" /\ locked_at[j] = "none" =>
        j \in InlineJobs /\ (crashes > 0 \/ \E r \in Runners : RunsInline(r, j))

(* The row, its attempts, its event stream and its lease agree at all times:  *)
(* nobody runs a job more often than it may be run, a stream that has ended   *)
(* belongs to a settled job and every settled job's stream ends, and no job   *)
(* is running that neither recovery nor a live runner would ever settle.  The *)
(* last three parts make the others inductive.                                *)
Accounted ==
    /\ AttemptsBounded /\ DoneMeansSettled /\ DoneIsPublished /\ RunningIsOwned
    /\ RequeuesCounted /\ DoneOwedWhenSettled /\ RunningIsRun

(* A job cancelled while no worker had claimed it is never run and stays      *)
(* cancelled.                                                                 *)
CancelledBeforeClaim ==
    [][\A j \in Jobs \ InlineJobs :
         status[j] = "cancelled" /\ attempt_count[j] = 0
             => (status[j] = "cancelled" /\ attempt_count[j] = 0)']_vars

(* Every queued job is settled in the end, after crashes too; only a job run  *)
(* inline by a runner that crashed may stay running for ever.                 *)
EventuallySettles ==
    \A j \in Jobs : status[j] = "queued" ~> Settled(j) \/ (j \in InlineJobs /\ crashes > 0)

(* "running jobs use cooperative cancellation": a worker whose handler has    *)
(* returned and that saw the request cancels the job.                         *)
CooperativeCancellation ==
    \A w \in Workers, j \in Jobs :
        pc[w] = "cancel" /\ job[w] = j ~> status[j] = "cancelled"
-----------------------------------------------------------------------------
(* The abstract queue (JobLifecycle) that this one implements.                *)

Life == [j \in Jobs |-> IF status[j] = "absent" THEN "absent"
                        ELSE IF status[j] = "queued" THEN "pending"
                        ELSE IF status[j] = "running" THEN "running" ELSE "settled"]

Lifecycle == INSTANCE JobLifecycle WITH
    life <- Life, limit <- max_attempts, attempts <- attempt_count

(* Whatever leases, crashes, recoveries and cancels do, the rows only take    *)
(* the steps of a job's life cycle: a worker takes a job from pending only,   *)
(* and nothing is pending again but a job with several attempts.              *)
ImplementsLifecycle == Lifecycle!Spec
=============================================================================
