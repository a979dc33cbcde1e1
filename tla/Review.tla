------------------------------- MODULE Review -------------------------------
(* Reviewing the record of a finished extraction run (review.py), suggestions *)
(* made by a multimodal review job (multimodal_review.py) and exports         *)
(* (exports.py) of modules/structured_extraction.  Every statement commits on *)
(* its own, so requests interleave between any two of them.  The core job of  *)
(* a review job is a job of JobLifecycle.                                     *)
(*                                                                            *)
(* One record is modelled, with the fields 1 .. NFields in the order of the   *)
(* schema; a value is NoValue, the extracted one or an edited one.            *)
EXTENDS Integers, Sequences, FiniteSets, FiniteSetsExt

CONSTANTS
    NFields,
    Required,          \* the fields the schema requires
    EvidenceRequired,  \* the fields that must name their evidence
    Extracted,         \* the fields the run has found a value for
    Evidenced,         \* those whose value names its evidence
    Jobs,              \* ids of multimodal review jobs
    Clients,           \* web requests in flight at the same time
    MaxRequests,       \* bound: requests in a behaviour
    MaxCrashes         \* bound: crashes of workers and of requests

Fields == 1 .. NFields

ASSUME ConstantsAssumption ==
    /\ NFields \in Nat \ {0} /\ MaxRequests \in Nat /\ MaxCrashes \in Nat
    /\ Required \subseteq Fields /\ EvidenceRequired \subseteq Fields
    /\ Extracted \subseteq Fields /\ Evidenced \subseteq Extracted
    /\ IsFiniteSet(Jobs) /\ IsFiniteSet(Clients)

VARIABLES
    state,       \* ..._review_field_states: a row for each field, or Absent
    log,         \* ..._review_events, in the order of event_id
    suggestion,  \* ..._multimodal_review_suggestions: by job and field
    job,         \* ..._multimodal_review_jobs
    life, attempts,   \* the core job of each job, see JobLifecycle
    exports,     \* ..._exports, in the order of insertion
    export_count,     \* stats.export_count of the task
    mem,         \* what each request is at and has read
    scan,        \* what the worker of each job is at and has read
    asked,       \* jobs that somebody asked to cancel
    requests, crashes

bounds == <<requests, crashes>>
core == <<life, attempts>>
vars == <<state, log, suggestion, job, core, exports, export_count, mem, scan, asked, bounds>>

Queue == INSTANCE JobLifecycle WITH
    Jobs <- Jobs, InlineJobs <- {}, AttemptLimits <- {1}, limit <- [j \in Jobs |-> 1]

NoValue == "none"
Values == {NoValue, "base", "edited"}
FieldStatuses == {"unreviewed", "accepted", "edited", "rejected", "locked",
                  "rerun_required", "multimodal_pending"}
ACTIVE_JOB_STATUSES == {"queued", "running", "cancelling"}
FieldActions == {"accept_field", "edit_field", "reject_field", "lock_field", "unlock_field",
                 "mark_rerun_required"}
BulkActions == FieldActions \ {"edit_field"}

NoEvent == 0
Shown == [value : Values, status : FieldStatuses, locked : BOOLEAN]
Absent == [value |-> NoValue, status |-> "absent", locked |-> FALSE, last |-> NoEvent]
NoSuggestion == [status |-> "absent", value |-> NoValue]
NoJob == [status |-> "absent", linked |-> FALSE, count |-> 0]
Idle == [pc |-> "idle", op |-> "none", todo |-> <<>>, target |-> 0, job |-> "none",
         seen |-> [f \in Fields |-> Absent], event |-> NoEvent]
NotScanning == [pc |-> "absent", rows |-> [f \in Fields |-> NoValue], next |-> 1]

(* What of a row an event records: value, status and lock.                    *)
Show(s) == [value |-> s.value, status |-> s.status, locked |-> s.locked]

(* A row of a field, an event, a suggestion, a review job and an export.      *)
FieldRows == [value : Values, status : FieldStatuses, locked : BOOLEAN, last : Nat]
MultimodalEvents == {"accept_multimodal_suggestion", "reject_multimodal_suggestion"}
EventTypes == FieldActions \cup {"revert_event"} \cup MultimodalEvents
Events == [field : Fields, type : EventTypes, job : Jobs \cup {"none"},
           old : Shown \cup {Show(Absent)}, new : Shown \cup {Show(Absent)}]
Suggestions == [status : {"absent", "pending", "accepted", "rejected"}, value : Values]
ReviewJobs == [status : ACTIVE_JOB_STATUSES \cup {"absent", "completed", "failed", "cancelled"},
               linked : BOOLEAN, count : 0 .. NFields]
ExportsOfRows == [unreviewed_fields_present : BOOLEAN, statuses : SUBSET FieldStatuses,
                  values : SUBSET Values]

(* Where a request is, and what it has read.                                  *)
OnField == {"read_state", "insert_event", "put_state", "revert_put", "revert_link"}
OnJob == {"enqueue", "link", "cancel_queued", "cancelling", "core_cancel"}
PCs == {"idle", "select_states", "insert_states", "read_rows", "insert_export", "export_get",
        "export_put", "select_active", "insert_job", "insert_reject", "mark"} \cup OnField \cup OnJob
Ops == FieldActions \cup {"none", "table", "export", "start_job", "cancel_job", "revert_event",
                          "accept_suggestion", "reject_suggestion"}
Mems == [pc : PCs, op : Ops, todo : Seq(Fields), target : Nat, job : Jobs \cup {"none"},
         seen : [Fields -> FieldRows \cup {Absent}], event : Nat]
Scans == [pc : {"absent", "set_running", "scan", "done"}, rows : [Fields -> Values],
          next : 1 .. NFields + 1]

TypeOK ==
    /\ state \in [Fields -> FieldRows \cup {Absent}]
    /\ log \in Seq(Events)
    /\ \A f \in Fields : state[f].last # NoEvent =>
         state[f].last <= Len(log) /\ log[state[f].last].field = f
    /\ suggestion \in [Jobs -> [Fields -> Suggestions]]
    /\ job \in [Jobs -> ReviewJobs]
    /\ life \in [Jobs -> {"absent", "pending", "running", "settled"}] /\ attempts \in [Jobs -> Nat]
    /\ exports \in Seq(ExportsOfRows) /\ export_count \in Nat
    /\ mem \in [Clients -> Mems] /\ scan \in [Jobs -> Scans]
    /\ requests \in 0 .. MaxRequests /\ crashes \in 0 .. MaxCrashes /\ asked \subseteq Jobs

Init ==
    /\ state = [f \in Fields |-> Absent]
    /\ log = <<>>
    /\ suggestion = [j \in Jobs |-> [f \in Fields |-> NoSuggestion]]
    /\ job = [j \in Jobs |-> NoJob]
    /\ Queue!Init
    /\ exports = <<>> /\ export_count = 0
    /\ mem = [c \in Clients |-> Idle]
    /\ scan = [j \in Jobs |-> NotScanning]
    /\ asked = {} /\ requests = 0 /\ crashes = 0

-----------------------------------------------------------------------------
(* Values.  A definition named Bug... is a mutated form of the one after it.  *)

base_value(f) == IF f \in Extracted THEN "base" ELSE NoValue

is_missing_value(v) == v = NoValue

(* _initial_quality: the flags a row is inserted with, which nothing changes. *)
Flags(f) ==
    (IF f \in Required /\ is_missing_value(base_value(f)) THEN {"missing_required_field"} ELSE {})
    \cup (IF f \in EvidenceRequired /\ ~is_missing_value(base_value(f))
          THEN {IF f \in Evidenced THEN "evidence_found" ELSE "no_evidence"} ELSE {})

(* What the job suggests an action for: flag_issue, or suggest_edit.          *)
Flagged(f) == Flags(f) \cap {"missing_required_field", "no_evidence"} # {}

Unreviewed(f) ==
    [value |-> base_value(f), status |-> "unreviewed", locked |-> FALSE, last |-> NoEvent]

(* _apply_field_action: the next value, status and lock of field f, read as s.*)
Applied(op, f, s, lock) ==
    CASE op = "accept_field" -> [value |-> base_value(f), status |-> "accepted", locked |-> TRUE]
      [] op = "edit_field"   -> [value |-> "edited", status |-> "edited", locked |-> lock]
      [] op = "reject_field" -> [value |-> NoValue, status |-> "rejected", locked |-> TRUE]
      [] op = "lock_field"   -> [value |-> s.value, locked |-> TRUE,
                                 status |-> IF s.status = "unreviewed" THEN "locked" ELSE s.status]
      [] op = "unlock_field" -> [value |-> s.value, locked |-> FALSE,
                                 status |-> IF s.status = "locked" THEN "unreviewed" ELSE s.status]
      [] op = "mark_rerun_required" ->
                                [value |-> s.value, status |-> "rerun_required", locked |-> FALSE]

(* accept_suggestion: a suggestion without a value keeps the value read.      *)
Suggested(s, v) ==
    [value |-> IF v = NoValue THEN s.value ELSE v, status |-> "multimodal_pending", locked |-> FALSE]

BugReviewStatus(statuses) ==
    IF statuses \subseteq {"unreviewed"} THEN "unreviewed"
    ELSE IF "multimodal_pending" \in statuses THEN "multimodal_pending"
    ELSE IF statuses \cap {"accepted", "edited", "rejected", "locked"} # {} THEN "reviewed"
    ELSE "partially_reviewed"

(* _review_status of a record whose fields have these statuses.               *)
ReviewStatus(statuses) ==
    IF statuses \subseteq {"unreviewed"} THEN "unreviewed"
    ELSE IF "multimodal_pending" \in statuses THEN "multimodal_pending"
    ELSE IF statuses \subseteq {"accepted", "edited", "rejected", "locked"} THEN "reviewed"
    ELSE "partially_reviewed"

(* _summary and _export_records of the rows an export has read.               *)
Export(rows) ==
    LET statuses == {rows[f].status : f \in Fields} IN
    [unreviewed_fields_present |-> ReviewStatus(statuses) \in {"unreviewed", "partially_reviewed"},
     statuses |-> statuses,
     values |-> {rows[f].value : f \in {g \in Fields : rows[g].status # "rejected"}}]

BugMayInsert(f) == TRUE

(* The primary key (task, run, record, field) of the field states.            *)
MayInsert(f) == state[f] = Absent

BugFirstField == 2

(* Where the loop of _run_job begins.                                         *)
FirstField == 1

(* What reject_suggestion does first with a suggestion it has read as pending.*)
AfterReject == "insert_reject"

-----------------------------------------------------------------------------
(* Requests.                                                                  *)

Goto(c, pc) == mem' = IF pc = "idle" THEN [mem EXCEPT ![c] = Idle] ELSE [mem EXCEPT ![c].pc = pc]

Begin(c, m) ==
    /\ mem[c].pc = "idle"
    /\ requests < MaxRequests /\ requests' = requests + 1
    /\ mem' = [mem EXCEPT ![c] = m]
    /\ UNCHANGED <<state, log, suggestion, job, core, exports, export_count, scan, crashes>>

Asking(op) == [Idle EXCEPT !.pc = "select_states", !.op = op]

(* table and record: they write nothing but the rows that are missing.        *)
table(c) == Begin(c, Asking("table")) /\ UNCHANGED asked

(* accept_field, edit_field, ...: one field.                                  *)
field_action(c) ==
    \E op \in FieldActions, f \in Fields, lock \in BOOLEAN :
        /\ lock \/ op = "edit_field"
        /\ Begin(c, [Asking(op) EXCEPT !.todo = <<f>>, !.target = IF lock THEN 1 ELSE 0])
        /\ UNCHANGED asked

(* bulk: one action after the other, none of them undone when one raises.     *)
bulk(c) ==
    \E op \in BulkActions :
        /\ Begin(c, [Asking(op) EXCEPT !.todo = [f \in Fields |-> f], !.target = 1])
        /\ UNCHANGED asked

(* Only an event that recorded the old state can be reverted.                 *)
Revertible(e) == log[e].type \notin MultimodalEvents

revert_event(c) ==
    \E e \in 1 .. Len(log) :
        /\ Revertible(e)
        /\ Begin(c, [Asking("revert_event") EXCEPT !.todo = <<log[e].field>>, !.target = e])
        /\ UNCHANGED asked

(* accept_suggestion and reject_suggestion do nothing unless they read        *)
(* 'pending'.                                                                 *)
accept_suggestion(c) ==
    \E j \in Jobs, f \in Fields :
        /\ suggestion[j][f].status = "pending"
        /\ Begin(c, [Asking("accept_suggestion") EXCEPT !.todo = <<f>>, !.job = j])
        /\ UNCHANGED asked

reject_suggestion(c) ==
    \E j \in Jobs, f \in Fields :
        /\ suggestion[j][f].status = "pending"
        /\ Begin(c, [Idle EXCEPT !.pc = AfterReject, !.op = "reject_suggestion", !.todo = <<f>>, !.job = j])
        /\ UNCHANGED asked

create_export(c) == Begin(c, Asking("export")) /\ UNCHANGED asked

start_job(c) == Begin(c, Asking("start_job")) /\ UNCHANGED asked

(* cancel_job of a job that is read as active.                                *)
cancel_job(c) ==
    \E j \in Jobs :
        /\ job[j].status \in ACTIVE_JOB_STATUSES
        /\ Begin(c, [Idle EXCEPT !.op = "cancel_job", !.job = j,
                       !.pc = IF job[j].status = "queued" THEN "cancel_queued" ELSE "cancelling",
                       !.target = IF job[j].linked THEN 1 ELSE 0])
        /\ asked' = asked \cup {j}

-----------------------------------------------------------------------------
(* _ensure_states, with which every request on rows begins.  The code selects *)
(* and inserts field by field; no other step changes a row that is not there. *)

AfterEnsure(op) ==
    CASE op = "table" -> "idle"
      [] op = "export" -> "read_rows"
      [] op = "start_job" -> "select_active"
      [] OTHER -> "read_state"

select_states(c) ==
    /\ mem[c].pc = "select_states"
    /\ IF \E f \in Fields : state[f] = Absent
       THEN mem' = [mem EXCEPT ![c].pc = "insert_states", ![c].seen = state]
       ELSE Goto(c, AfterEnsure(mem[c].op))
    /\ UNCHANGED <<state, log, suggestion, job, core, exports, export_count, scan, asked, bounds>>

Unseen(c) == {f \in Fields : mem[c].seen[f] = Absent}

insert_states(c) ==
    /\ mem[c].pc = "insert_states"
    /\ \A f \in Unseen(c) : MayInsert(f)
    /\ state' = [f \in Fields |-> IF f \in Unseen(c) THEN Unreviewed(f) ELSE state[f]]
    /\ mem' = IF AfterEnsure(mem[c].op) = "idle" THEN [mem EXCEPT ![c] = Idle]
              ELSE [mem EXCEPT ![c].pc = AfterEnsure(mem[c].op), ![c].seen = Idle.seen]
    /\ UNCHANGED <<log, suggestion, job, core, exports, export_count, scan, asked, bounds>>

(* Another request has inserted a row in between: this one raises.            *)
insert_conflict(c) ==
    /\ mem[c].pc = "insert_states"
    /\ \E f \in Unseen(c) : ~MayInsert(f)
    /\ Goto(c, "idle")
    /\ UNCHANGED <<state, log, suggestion, job, core, exports, export_count, scan, asked, bounds>>

-----------------------------------------------------------------------------
(* Actions on a field: the row is read, the event inserted, the row written.  *)

Field(c) == Head(mem[c].todo)
Seen(c) == mem[c].seen[Field(c)]

(* What request c makes of the row it has read.                               *)
NextShown(c) ==
    CASE mem[c].op = "accept_suggestion" -> Suggested(Seen(c), suggestion[mem[c].job][Field(c)].value)
      [] mem[c].op = "revert_event" -> log[mem[c].target].old
      [] OTHER -> Applied(mem[c].op, Field(c), Seen(c), mem[c].target = 1)

BugRecorded(c) == Show(Seen(c))

(* What its event records as the new state.                                   *)
Recorded(c) == NextShown(c)

EventType(op) == IF op = "accept_suggestion" THEN "accept_multimodal_suggestion" ELSE op

read_state(c) ==
    /\ mem[c].pc = "read_state"
    /\ mem' = [mem EXCEPT ![c].seen[Field(c)] = state[Field(c)],
                          ![c].pc = IF mem[c].op = "revert_event" THEN "revert_put" ELSE "insert_event"]
    /\ UNCHANGED <<state, log, suggestion, job, core, exports, export_count, scan, asked, bounds>>

insert_event(c) ==
    /\ mem[c].pc = "insert_event"
    /\ log' = Append(log, [field |-> Field(c), type |-> EventType(mem[c].op), job |-> mem[c].job,
                           old |-> Show(Seen(c)), new |-> Recorded(c)])
    /\ mem' = [mem EXCEPT ![c].event = Len(log) + 1,
                          ![c].pc = IF mem[c].op = "revert_event" THEN "revert_link" ELSE "put_state"]
    /\ UNCHANGED <<state, suggestion, job, core, exports, export_count, scan, asked, bounds>>

put_state(c) ==
    /\ mem[c].pc = "put_state"
    /\ state' = [state EXCEPT ![Field(c)] =
                   [value |-> NextShown(c).value, status |-> NextShown(c).status,
                    locked |-> NextShown(c).locked, last |-> mem[c].event]]
    /\ IF mem[c].op = "accept_suggestion" THEN Goto(c, "mark")
       ELSE IF Len(mem[c].todo) = 1 THEN Goto(c, "idle")
       ELSE mem' = [mem EXCEPT ![c].pc = "read_state", ![c].todo = Tail(@),
                               ![c].event = NoEvent, ![c].seen = Idle.seen]
    /\ UNCHANGED <<log, suggestion, job, core, exports, export_count, scan, asked, bounds>>

(* revert_event writes the row before it inserts its event.                   *)
revert_put(c) ==
    /\ mem[c].pc = "revert_put"
    /\ state' = [state EXCEPT ![Field(c)] =
                   [value |-> NextShown(c).value, status |-> NextShown(c).status,
                    locked |-> NextShown(c).locked, last |-> NoEvent]]
    /\ Goto(c, "insert_event")
    /\ UNCHANGED <<log, suggestion, job, core, exports, export_count, scan, asked, bounds>>

revert_link(c) ==
    /\ mem[c].pc = "revert_link"
    /\ state' = [state EXCEPT ![Field(c)].last = mem[c].event]
    /\ Goto(c, "idle")
    /\ UNCHANGED <<log, suggestion, job, core, exports, export_count, scan, asked, bounds>>

(* reject_suggestion inserts an event and leaves the row alone.               *)
insert_reject(c) ==
    /\ mem[c].pc = "insert_reject"
    /\ log' = Append(log, [field |-> Field(c), type |-> "reject_multimodal_suggestion",
                           job |-> mem[c].job, old |-> Show(Absent), new |-> Show(Absent)])
    /\ Goto(c, "mark")
    /\ UNCHANGED <<state, suggestion, job, core, exports, export_count, scan, asked, bounds>>

(* The suggestion is resolved, whatever its status is by now.                 *)
mark(c) ==
    /\ mem[c].pc = "mark"
    /\ suggestion' = [suggestion EXCEPT ![mem[c].job][Field(c)].status =
                        IF mem[c].op = "accept_suggestion" THEN "accepted" ELSE "rejected"]
    /\ Goto(c, "idle")
    /\ UNCHANGED <<state, log, job, core, exports, export_count, scan, asked, bounds>>

-----------------------------------------------------------------------------
(* Exports.  The rows are read by one statement; writing the files changes    *)
(* nothing that is modelled.                                                  *)

read_rows(c) ==
    /\ mem[c].pc = "read_rows"
    /\ mem' = [mem EXCEPT ![c].pc = "insert_export", ![c].seen = state]
    /\ UNCHANGED <<state, log, suggestion, job, core, exports, export_count, scan, asked, bounds>>

insert_export(c) ==
    /\ mem[c].pc = "insert_export"
    /\ exports' = Append(exports, Export(mem[c].seen))
    /\ mem' = [mem EXCEPT ![c] = [Idle EXCEPT !.op = "export", !.pc = "export_get"]]
    /\ UNCHANGED <<state, log, suggestion, job, core, export_count, scan, asked, bounds>>

(* _mark_exported reads the task's stats and writes them back.                *)
export_get(c) ==
    /\ mem[c].pc = "export_get"
    /\ mem' = [mem EXCEPT ![c].pc = "export_put", ![c].target = export_count]
    /\ UNCHANGED <<state, log, suggestion, job, core, exports, export_count, scan, asked, bounds>>

(* The count that _mark_exported writes when it has read n.                   *)
Exported(n) == n + 1

export_put(c) ==
    /\ mem[c].pc = "export_put"
    /\ export_count' = Exported(mem[c].target)
    /\ Goto(c, "idle")
    /\ UNCHANGED <<state, log, suggestion, job, core, exports, scan, asked, bounds>>

-----------------------------------------------------------------------------
(* Starting and cancelling a review job.                                      *)

(* An active job is returned instead of a new one.                            *)
select_active(c) ==
    /\ mem[c].pc = "select_active"
    /\ Goto(c, IF \E j \in Jobs : job[j].status \in ACTIVE_JOB_STATUSES THEN "idle" ELSE "insert_job")
    /\ UNCHANGED <<state, log, suggestion, job, core, exports, export_count, scan, asked, bounds>>

Unused == {j \in Jobs : job[j].status = "absent"}
NewJob == CHOOSE j \in Unused : TRUE

insert_job(c) ==
    /\ mem[c].pc = "insert_job" /\ Unused # {}
    /\ job' = [job EXCEPT ![NewJob].status = "queued"]
    /\ mem' = [mem EXCEPT ![c].pc = "enqueue", ![c].job = NewJob]
    /\ UNCHANGED <<state, log, suggestion, core, exports, export_count, scan, asked, bounds>>

enqueue(c) ==
    /\ mem[c].pc = "enqueue"
    /\ Queue!Submit(mem[c].job)
    /\ Goto(c, "link")
    /\ UNCHANGED <<state, log, suggestion, job, exports, export_count, scan, asked, bounds>>

link(c) ==
    /\ mem[c].pc = "link"
    /\ job' = [job EXCEPT ![mem[c].job].linked = TRUE]
    /\ Goto(c, "idle")
    /\ UNCHANGED <<state, log, suggestion, core, exports, export_count, scan, asked, bounds>>

(* The status is written by what was read before.                             *)
cancel_put(c) ==
    /\ mem[c].pc \in {"cancel_queued", "cancelling"}
    /\ job' = [job EXCEPT ![mem[c].job].status =
                 IF mem[c].pc = "cancel_queued" THEN "cancelled" ELSE "cancelling"]
    /\ Goto(c, "core_cancel")
    /\ UNCHANGED <<state, log, suggestion, core, exports, export_count, scan, asked, bounds>>

(* The core job, when the row that was read named it.                         *)
core_cancel(c) ==
    /\ mem[c].pc = "core_cancel"
    /\ \/ /\ mem[c].target = 1 /\ life[mem[c].job] \in {"pending", "running"}
          /\ life' = [life EXCEPT ![mem[c].job] = "settled"]
       \/ /\ mem[c].target = 0 \/ life[mem[c].job] # "pending"
          /\ life' = life
    /\ Goto(c, "idle")
    /\ UNCHANGED <<state, log, suggestion, job, attempts, exports, export_count, scan, asked, bounds>>

-----------------------------------------------------------------------------
(* The worker, _run_job.                                                      *)

dispatch(j) ==
    /\ Queue!Dispatch(j)
    /\ scan' = [scan EXCEPT ![j].pc = "set_running"]
    /\ UNCHANGED <<state, log, suggestion, job, exports, export_count, mem, asked, bounds>>

(* The status is set, whatever it is, and the rows are read: the values the   *)
(* suggestions will carry are those of this moment.                           *)
set_running(j) ==
    /\ scan[j].pc = "set_running"
    /\ job' = [job EXCEPT ![j].status = "running"]
    /\ scan' = [scan EXCEPT ![j] = [pc |-> "scan", next |-> FirstField,
                                    rows |-> [f \in Fields |-> state[f].value]]]
    /\ UNCHANGED <<state, log, suggestion, core, exports, export_count, mem, asked, bounds>>

Ends(j, status) ==
    /\ job' = [job EXCEPT ![j].status = status]
    /\ scan' = [scan EXCEPT ![j] = [NotScanning EXCEPT !.pc = "done"]]

run_cancelled(j) ==
    /\ scan[j].pc = "scan" /\ scan[j].next <= NFields
    /\ job[j].status = "cancelling"
    /\ Ends(j, "cancelled")
    /\ UNCHANGED <<state, log, suggestion, core, exports, export_count, mem, asked, bounds>>

(* One field: a suggestion for it if it is flagged, then the progress.        *)
scan_field(j) ==
    LET f == scan[j].next IN
    /\ scan[j].pc = "scan" /\ f <= NFields
    /\ job[j].status # "cancelling"
    /\ IF Flagged(f)
       THEN /\ suggestion' = [suggestion EXCEPT ![j][f] = [status |-> "pending", value |-> scan[j].rows[f]]]
            /\ job' = [job EXCEPT ![j].count = @ + 1]
       ELSE UNCHANGED <<suggestion, job>>
    /\ scan' = [scan EXCEPT ![j].next = f + 1]
    /\ UNCHANGED <<state, log, core, exports, export_count, mem, asked, bounds>>

complete(j) ==
    /\ scan[j].pc = "scan" /\ scan[j].next > NFields
    /\ Ends(j, "completed")
    /\ UNCHANGED <<state, log, suggestion, core, exports, export_count, mem, asked, bounds>>

(* Anything in the loop may raise, and writing the artifacts after it.        *)
fail(j) ==
    /\ scan[j].pc = "scan"
    /\ Ends(j, "failed")
    /\ UNCHANGED <<state, log, suggestion, core, exports, export_count, mem, asked, bounds>>

(* A process dies; a request that has written nothing leaves nothing behind.  *)
crash ==
    /\ crashes < MaxCrashes /\ crashes' = crashes + 1
    /\ \/ \E c \in Clients :
            /\ \/ mem[c].pc \in {"put_state", "revert_link", "mark", "export_put", "enqueue", "link",
                                 "core_cancel"}
               \/ mem[c].op = "revert_event" /\ mem[c].pc = "insert_event"
            /\ Goto(c, "idle") /\ scan' = scan
       \/ \E j \in Jobs :
            /\ scan[j].pc \in {"set_running", "scan"}
            /\ scan' = [scan EXCEPT ![j] = [NotScanning EXCEPT !.pc = "done"]] /\ mem' = mem
    /\ UNCHANGED <<state, log, suggestion, job, core, exports, export_count, asked, requests>>

-----------------------------------------------------------------------------
Requests(c) ==
    \/ table(c) \/ field_action(c) \/ bulk(c) \/ revert_event(c)
    \/ accept_suggestion(c) \/ reject_suggestion(c) \/ create_export(c)
    \/ start_job(c) \/ cancel_job(c)

ClientStep(c) ==
    \/ select_states(c) \/ insert_states(c) \/ insert_conflict(c)
    \/ read_state(c) \/ insert_event(c) \/ put_state(c) \/ revert_put(c) \/ revert_link(c)
    \/ insert_reject(c) \/ mark(c)
    \/ read_rows(c) \/ insert_export(c) \/ export_get(c) \/ export_put(c)
    \/ select_active(c) \/ insert_job(c) \/ enqueue(c) \/ link(c) \/ cancel_put(c) \/ core_cancel(c)

WorkerStep(j) ==
    \/ dispatch(j) \/ set_running(j) \/ run_cancelled(j) \/ scan_field(j) \/ complete(j) \/ fail(j)

Next ==
    \/ \E c \in Clients : Requests(c) \/ ClientStep(c)
    \/ \E j \in Jobs : WorkerStep(j)
    \/ crash

Spec == Init /\ [][Next]_vars

-----------------------------------------------------------------------------
(* Properties.                                                                *)

Reverting(f) ==
    \E c \in Clients : mem[c].op = "revert_event" /\ mem[c].pc \in {"insert_event", "revert_link"} /\ Field(c) = f

Logging(f) == Reverting(f) \/ \E c \in Clients : mem[c].pc = "put_state" /\ Field(c) = f

(* No review gets lost when requests overlap that find rows missing: once an  *)
(* action on a field is over, the row of the field names an event, and is     *)
(* never the fresh row again that another request wanted to insert.           *)
ReviewKept ==
    crashes = 0 => \A e \in 1 .. Len(log) :
        log[e].type # "reject_multimodal_suggestion" /\ ~Logging(log[e].field)
            => state[log[e].field].last # NoEvent

(* A row that an undo has put back and has yet to log.                        *)
Unlogged(f) ==
    \E c \in Clients : /\ mem[c].op = "revert_event" /\ mem[c].pc = "insert_event"
                       /\ Field(c) = f /\ Show(state[f]) = NextShown(c)

(* Whatever overlaps, a row shows the extracted value unreviewed or what some *)
(* event of its field has recorded, so that the event log explains every      *)
(* value that is exported; only what an undo has put back and is about to log *)
(* is not explained yet, and what one left that died before it could.         *)
StateIsLogged ==
    crashes = 0 => \A f \in Fields :
        \/ state[f] = Absent \/ Show(state[f]) = Show(Unreviewed(f)) \/ Unlogged(f)
        \/ \E e \in 1 .. Len(log) : log[e].field = f /\ log[e].new = Show(state[f])

(* The log has an event of the type for field f, on a suggestion of job j.     *)
IsLogged(f, j, type) ==
    \E e \in 1 .. Len(log) : log[e].field = f /\ log[e].job = j /\ log[e].type = type

(* A suggestion is never resolved without the event of an action of that kind *)
(* on it, also when two requests resolve it at the same time or one dies.     *)
ResolvedIsLogged ==
    \A j \in Jobs, f \in Fields :
        /\ suggestion[j][f].status = "accepted" => IsLogged(f, j, "accept_multimodal_suggestion")
        /\ suggestion[j][f].status = "rejected" => IsLogged(f, j, "reject_multimodal_suggestion")

(* A completed review job has made one suggestion for each field whose value  *)
(* is missing or lacks evidence, and none of them is missed because of        *)
(* reviews, other jobs or cancels at the same time.                           *)
CompletedJobCovers ==
    \A j \in Jobs : job[j].status = "completed" =>
        /\ {f \in Fields : suggestion[j][f].status # "absent"} = {f \in Fields : Flagged(f)}
        /\ job[j].count = Cardinality({f \in Fields : Flagged(f)})

(* An export without the warning unreviewed_fields_present has no field left  *)
(* that nobody has reviewed, unless a suggestion was accepted for another     *)
(* one: then the record counts as multimodal_pending and nothing is said.     *)
ExportWarns ==
    \A i \in 1 .. Len(exports) :
        exports[i].statuses \cap {"unreviewed", "rerun_required"} # {} =>
            \/ exports[i].unreviewed_fields_present
            \/ "multimodal_pending" \in exports[i].statuses

(* The task counts no export that does not exist, and once an export is done  *)
(* the count is not zero; overlapping exports may share a count.              *)
ExportsCounted ==
    /\ export_count <= Len(exports)
    /\ exports # <<>> /\ crashes = 0 /\ (\A c \in Clients : mem[c].op # "export")
         => export_count > 0

(* Why these hold: rows are there before anybody reads or writes one and      *)
(* before there is an event of a row,                                         *)
WithRows == {"read_rows", "insert_export"} \cup OnField
AllThere == \A f \in Fields : state[f] # Absent
RowsAreRead(c) ==
    /\ mem[c].pc \in WithRows => AllThere
    /\ mem[c].pc = "insert_states" => \A f \in Fields : mem[c].seen[f] # Absent => state[f] # Absent
    /\ mem[c].pc = "insert_export" => \A f \in Fields : mem[c].seen[f] # Absent
    /\ mem[c].pc \in OnField \ {"read_state"} => Seen(c) # Absent
EventsOfRows ==
    \A e \in 1 .. Len(log) : log[e].type # "reject_multimodal_suggestion" =>
        AllThere /\ log[e].old \in Shown /\ log[e].new \in Shown

(* a request on a field knows the suggestion or the event that it asks for,   *)
FieldOps == FieldActions \cup {"revert_event", "accept_suggestion"}
Asks(c) ==
    /\ mem[c].op \in FieldOps \cup {"reject_suggestion"} => mem[c].todo # <<>>
    /\ mem[c].op = "revert_event" => mem[c].target \in 1 .. Len(log) /\ Revertible(mem[c].target)
    /\ mem[c].op \in {"accept_suggestion", "reject_suggestion"} =>
         mem[c].job \in Jobs /\ suggestion[mem[c].job][Field(c)].status # "absent"
    /\ mem[c].pc \in OnJob => mem[c].job \in Jobs

(* takes the steps of its kind of request,                                    *)
Course(c) ==
    /\ mem[c].pc \in {"select_states", "insert_states"} =>
         mem[c].op \in FieldOps \cup {"table", "export", "start_job"}
    /\ mem[c].pc \in OnField => mem[c].op \in FieldOps
    /\ mem[c].pc = "put_state" => mem[c].op # "revert_event"
    /\ mem[c].pc \in {"revert_put", "revert_link"} => mem[c].op = "revert_event"
    /\ mem[c].pc = "insert_reject" => mem[c].op = "reject_suggestion"
    /\ mem[c].pc = "mark" => mem[c].op \in {"accept_suggestion", "reject_suggestion"}
    /\ mem[c].pc \in {"export_get", "export_put"} => mem[c].op = "export"
    /\ mem[c].pc \in {"select_active", "insert_job"} => mem[c].op = "start_job"

(* and once its event is in the log, writes what the event says.              *)
Resolution(op) ==
    IF op = "accept_suggestion" THEN "accept_multimodal_suggestion" ELSE "reject_multimodal_suggestion"
EventIsWritten(c) ==
    /\ mem[c].pc \in {"put_state", "revert_link"} =>
         /\ mem[c].event \in 1 .. Len(log)
         /\ log[mem[c].event].field = Field(c) /\ log[mem[c].event].new = NextShown(c)
         /\ log[mem[c].event].type = EventType(mem[c].op) /\ log[mem[c].event].job = mem[c].job
    /\ mem[c].pc = "mark" => IsLogged(Field(c), mem[c].job, Resolution(mem[c].op))

RequestsInOrder ==
    /\ EventsOfRows
    /\ \A c \in Clients : RowsAreRead(c) /\ Asks(c) /\ Course(c) /\ EventIsWritten(c)

(* The worker of a job comes once, goes through the fields one after the      *)
(* other and has made the suggestions for those that it has passed.           *)
Passed(j) == {f \in Fields : f < scan[j].next /\ Flagged(f)}
Made(j) == {f \in Fields : suggestion[j][f].status # "absent"}
ScansInOrder ==
    \A j \in Jobs :
      /\ life[j] \in {"absent", "pending"} => scan[j].pc = "absent"
      /\ scan[j].pc \in {"absent", "set_running"} => Made(j) = {} /\ job[j].count = 0
      /\ scan[j].pc = "scan" => Made(j) = Passed(j) /\ job[j].count = Cardinality(Passed(j))
      /\ job[j].status = "completed" => scan[j].pc = "done"

(* Everyone who is about to count an export has one that nobody has counted,  *)
(* and writes no more than there are.                                         *)
Counting == {c \in Clients : mem[c].pc \in {"export_get", "export_put"}}
CountsInOrder ==
    /\ export_count + Cardinality(Counting) <= Len(exports)
    /\ \A c \in Clients : mem[c].pc = "export_put" => mem[c].target + Cardinality(Counting) <= Len(exports)
    /\ exports # <<>> /\ crashes = 0 /\ Counting = {} => export_count > 0

(* The log explains what rows and suggestions have come to.                   *)
ReviewInv ==
    /\ TypeOK /\ StateIsLogged /\ ResolvedIsLogged
    /\ RequestsInOrder /\ ScansInOrder

(* Exports warn of what nobody has reviewed and are counted.                  *)
ExportsTell == ExportWarns /\ ExportsCounted /\ CountsInOrder
=============================================================================
