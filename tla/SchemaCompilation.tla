-------------------------- MODULE SchemaCompilation --------------------------
(* Compiling a schema from the user's text (schema_compilation_store.py,      *)
(* schema_compiler.py) and what becomes of the result: it may be resolved,    *)
(* applied to the draft of the schema, edited there, frozen and duplicated    *)
(* again (schema_designer.py).  A compilation runs as a core job, a job of    *)
(* JobLifecycle, and the stream of its progress marks it failed when the core *)
(* job has failed (structured_extraction_router.py).                          *)
(*                                                                            *)
(* Every statement commits on its own.  A schema is the set of requirements   *)
(* that have a field in it.                                                   *)
EXTENDS Integers, FiniteSets

CONSTANTS
    Requirements,   \* what the user's text asks for
    Compilations,   \* ids of compilations
    Clients,        \* web requests in flight at the same time
    MaxRequests,    \* bound: requests of the clients
    MaxFrozen,      \* bound: frozen versions
    MaxCrashes      \* bound: requests and workers that die

ASSUME ConstantsAssumption ==
    /\ IsFiniteSet(Requirements) /\ IsFiniteSet(Compilations) /\ IsFiniteSet(Clients)
    /\ "none" \notin Compilations
    /\ MaxRequests \in Nat /\ MaxFrozen \in Nat /\ MaxCrashes \in Nat

VARIABLES
    compilation,   \* ..._schema_compilations
    life, attempts,   \* the core job of each, see JobLifecycle
    core_failed,   \* the core jobs whose status is "failed"
    draft,         \* ..._schema_drafts: the row of the task, or NoDraft
    frozen,        \* ..._schema_versions: what they say of their source
    mem,           \* what each request is at and has read
    worker,        \* what the worker of each core job is at
    valid,         \* history: the schemas a compilation had while it was valid
    requests, crashes

bounds == <<requests, crashes>>
core == <<life, attempts, core_failed>>
vars == <<compilation, core, draft, frozen, mem, worker, valid, bounds>>

Queue == INSTANCE JobLifecycle WITH
    Jobs <- Compilations, InlineJobs <- {}, AttemptLimits <- {1},
    limit <- [k \in Compilations |-> 1]

Schemas == SUBSET Requirements
Active == {"queued", "running"}
(* "valid" stands for valid_with_warnings too, "not_valid" for pending,       *)
(* needs_review, failed and llm_unavailable: none of these may be applied.    *)
Statuses == {"valid", "not_valid"}
Dispositions == {"user_schema", "other", "unresolved"}

(* A row without result maps no requirement: its requirements_json is empty.  *)
NoMapping == [r \in Requirements |-> "absent"]
Absent == [exec |-> "absent", status |-> "not_valid", mapping |-> NoMapping, sound |-> FALSE, linked |-> FALSE]
NoDraft == [tree |-> {}, source |-> "none", modified |-> FALSE, saved |-> FALSE]
Idle == [pc |-> "idle", k |-> "none", mapping |-> NoMapping, sound |-> FALSE, draft |-> NoDraft]

Drafts == [tree : Schemas, source : Compilations \cup {"none"}, modified : BOOLEAN, saved : BOOLEAN]

Mappings == [Requirements -> Dispositions] \cup {NoMapping}
Rows == [exec : Active \cup {"absent", "completed", "failed"}, status : Statuses,
         mapping : Mappings, sound : BOOLEAN, linked : BOOLEAN]
OnRow == {"enqueue", "link", "stream_fail", "resolve_put"}
Mems == [pc : OnRow \cup {"idle", "insert", "merge", "draft_put"}, k : Compilations \cup {"none"},
         mapping : Mappings, sound : BOOLEAN, draft : Drafts]
AtWork == {"compile", "repair", "report", "complete"}

TypeOK ==
    /\ compilation \in [Compilations -> Rows]
    /\ life \in [Compilations -> {"absent", "pending", "running", "settled"}]
    /\ attempts \in [Compilations -> Nat]
    /\ mem \in [Clients -> Mems]
    /\ worker \in [Compilations -> AtWork \cup {"absent", "settle", "settle_failed", "done"}]
    /\ draft \in Drafts /\ frozen \subseteq Drafts
    /\ valid \subseteq Compilations \X Schemas
    /\ core_failed \subseteq Compilations /\ requests \in 0 .. MaxRequests /\ crashes \in 0 .. MaxCrashes

Init ==
    /\ compilation = [k \in Compilations |-> Absent]
    /\ Queue!Init /\ core_failed = {}
    /\ draft = NoDraft /\ frozen = {} /\ valid = {}
    /\ mem = [c \in Clients |-> Idle]
    /\ worker = [k \in Compilations |-> "absent"]
    /\ requests = 0 /\ crashes = 0

-----------------------------------------------------------------------------
(* What the statuses mean.  A definition named Bug... is a mutated form of    *)
(* the one after it.                                                          *)

Tree(mapping) == {r \in Requirements : mapping[r] = "user_schema"}

Unresolved(mapping) == {r \in Requirements : mapping[r] = "unresolved"}

BugAssembled(mapping, sound, llm) ==
    IF sound /\ (llm \/ Tree(mapping) # {}) THEN "valid" ELSE "not_valid"

(* _assemble_result: errors or a requirement that is left unresolved need a   *)
(* review, and without a model there is a result only if the text declares it.*)
Assembled(mapping, sound, llm) ==
    IF sound /\ Unresolved(mapping) = {} /\ (llm \/ Tree(mapping) # {}) THEN "valid" ELSE "not_valid"

Resolved(mapping, sound) ==
    IF sound /\ Unresolved(mapping) = {} THEN "valid" ELSE "not_valid"

BugMayBeActive(k) == TRUE

(* The unique index over the rows that are queued or running.                 *)
MayBeActive(k) == \A j \in Compilations \ {k} : compilation[j].exec \notin Active

(* Row k becomes row; the history is told when its schema is valid.           *)
Write(k, row) ==
    /\ compilation' = [compilation EXCEPT ![k] = row]
    /\ valid' = IF row.status = "valid" THEN valid \cup {<<k, Tree(row.mapping)>>} ELSE valid

BugModified(existing, new) == existing.source # new.source \/ existing.tree # new.tree

(* _source_compilation_modified of a draft that the user saves.               *)
Modified(existing, new) ==
    /\ new.source # "none"
    /\ \/ ~existing.saved \/ existing.source # new.source
       \/ existing.modified \/ existing.tree # new.tree

Goto(c, pc) == mem' = IF pc = "idle" THEN [mem EXCEPT ![c] = Idle] ELSE [mem EXCEPT ![c].pc = pc]

Begin(c) == mem[c].pc = "idle" /\ requests < MaxRequests /\ requests' = requests + 1

-----------------------------------------------------------------------------
(* Starting a compilation.                                                    *)

Unused == {k \in Compilations : compilation[k].exec = "absent"}
New == CHOOSE k \in Unused : TRUE

(* An active compilation is returned instead of a new one.                    *)
select_active(c) ==
    /\ Begin(c) /\ Unused # {}
    /\ \A k \in Compilations : compilation[k].exec \notin Active
    /\ Goto(c, "insert")
    /\ UNCHANGED <<compilation, core, draft, frozen, worker, valid, crashes>>

(* The row comes first, then the core job, then the id of the job in the row. *)
AfterInsert == "enqueue"

insert(c) ==
    /\ mem[c].pc = "insert" /\ Unused # {} /\ MayBeActive(New)
    /\ Write(New, [Absent EXCEPT !.exec = "queued"])
    /\ mem' = [mem EXCEPT ![c].pc = AfterInsert, ![c].k = New]
    /\ UNCHANGED <<core, draft, frozen, worker, bounds>>

(* The index rejects the row: the active one is returned, or the error raised.*)
insert_conflict(c) ==
    /\ mem[c].pc = "insert" /\ (IF Unused = {} THEN TRUE ELSE ~MayBeActive(New))
    /\ Goto(c, "idle")
    /\ UNCHANGED <<compilation, core, draft, frozen, worker, valid, bounds>>

enqueue(c) ==
    /\ mem[c].pc = "enqueue"
    /\ Queue!Submit(mem[c].k)
    /\ Goto(c, "link")
    /\ UNCHANGED <<compilation, core_failed, draft, frozen, worker, valid, bounds>>

(* fail.                                                                      *)
Failed(k) == [compilation[k] EXCEPT !.exec = "failed", !.status = "not_valid"]

enqueue_raises(c) ==
    /\ mem[c].pc = "enqueue"
    /\ Write(mem[c].k, Failed(mem[c].k))
    /\ Goto(c, "idle")
    /\ UNCHANGED <<core, draft, frozen, worker, bounds>>

link(c) ==
    /\ mem[c].pc = "link"
    /\ Write(mem[c].k, [compilation[mem[c].k] EXCEPT !.linked = TRUE])
    /\ Goto(c, "idle")
    /\ UNCHANGED <<core, draft, frozen, worker, bounds>>

(* The results a compilation may have.                                        *)
Results ==
    {[exec |-> "completed", status |-> Assembled(m, s, l), mapping |-> m, sound |-> s, linked |-> FALSE] :
        m \in [Requirements -> Dispositions], s \in BOOLEAN, l \in BOOLEAN}

(* schema_assist compiles while the request waits and stores the result.      *)
create ==
    /\ Unused # {}
    /\ \E row \in Results : Write(New, row)
    /\ UNCHANGED <<core, draft, frozen, mem, worker, bounds>>

-----------------------------------------------------------------------------
(* The stream: it reads the compilation and the core job, which has failed.   *)

stream(c) ==
    /\ Begin(c)
    /\ \E k \in Compilations :
         /\ compilation[k].linked /\ compilation[k].exec \in Active /\ k \in core_failed
         /\ mem' = [mem EXCEPT ![c].pc = "stream_fail", ![c].k = k]
    /\ UNCHANGED <<compilation, core, draft, frozen, worker, valid, crashes>>

stream_fail(c) ==
    /\ mem[c].pc = "stream_fail"
    /\ Write(mem[c].k, Failed(mem[c].k))
    /\ Goto(c, "idle")
    /\ UNCHANGED <<core, draft, frozen, worker, bounds>>

-----------------------------------------------------------------------------
(* Resolving requirements of a compilation, by the row that was read.         *)

(* Of a resolution only the disposition is modelled: whether the rest of it   *)
(* leaves errors is open.  A list of resolutions may be empty.                *)
resolve(c) ==
    /\ Begin(c)
    /\ \E k \in Compilations, m \in [Requirements -> Dispositions] \cup {NoMapping}, s \in BOOLEAN :
         LET read == compilation[k] IN
         /\ read.exec # "absent"
         /\ \A r \in Requirements : m[r] # read.mapping[r] =>
                read.mapping[r] # "absent" /\ m[r] # "unresolved"
         /\ m = read.mapping => s = read.sound
         /\ mem' = [mem EXCEPT ![c].pc = "resolve_put", ![c].k = k, ![c].mapping = m, ![c].sound = s]
    /\ UNCHANGED <<compilation, core, draft, frozen, worker, valid, crashes>>

resolve_put(c) ==
    LET k == mem[c].k  m == mem[c].mapping  s == mem[c].sound IN
    /\ mem[c].pc = "resolve_put"
    /\ Write(k, [compilation[k] EXCEPT !.mapping = m, !.sound = s, !.status = Resolved(m, s)])
    /\ Goto(c, "idle")
    /\ UNCHANGED <<core, draft, frozen, worker, bounds>>

-----------------------------------------------------------------------------
(* The draft.                                                                 *)

(* apply: only a valid compilation, replacing the draft or merged with it.    *)
apply(c) ==
    /\ Begin(c)
    /\ \E k \in Compilations, merge \in BOOLEAN :
         /\ compilation[k].exec # "absent" /\ compilation[k].status = "valid"
         /\ mem' = [mem EXCEPT ![c].pc = IF merge THEN "merge" ELSE "draft_put",
                ![c].draft = [tree |-> Tree(compilation[k].mapping), source |-> k,
                              modified |-> FALSE, saved |-> TRUE]]
    /\ UNCHANGED <<compilation, core, draft, frozen, worker, valid, crashes>>

merge_draft(c) ==
    /\ mem[c].pc = "merge"
    /\ mem' = [mem EXCEPT ![c].pc = "draft_put", ![c].draft.tree = @ \cup draft.tree]
    /\ UNCHANGED <<compilation, core, draft, frozen, worker, valid, bounds>>

(* save_draft: the user's own schema, which may name a compilation.           *)
save_draft(c) ==
    /\ Begin(c)
    /\ \E tree \in Schemas, k \in (Compilations \ Unused) \cup {"none"} :
         LET new == [tree |-> tree, source |-> k, modified |-> FALSE, saved |-> TRUE] IN
         mem' = [mem EXCEPT ![c].pc = "draft_put", ![c].draft = [new EXCEPT !.modified = Modified(draft, new)]]
    /\ UNCHANGED <<compilation, core, draft, frozen, worker, valid, crashes>>

(* duplicate_to_draft: a version with what it says of its source.             *)
duplicate_to_draft(c) ==
    /\ Begin(c)
    /\ \E version \in frozen :
         mem' = [mem EXCEPT ![c].pc = "draft_put", ![c].draft = version]
    /\ UNCHANGED <<compilation, core, draft, frozen, worker, valid, crashes>>

draft_put(c) ==
    /\ mem[c].pc = "draft_put"
    /\ draft' = mem[c].draft
    /\ Goto(c, "idle")
    /\ UNCHANGED <<compilation, core, frozen, worker, valid, bounds>>

(* freeze copies the draft it has read; an empty one is refused.              *)
freeze ==
    /\ draft.saved /\ draft.tree # {} /\ Cardinality(frozen) < MaxFrozen
    /\ frozen' = frozen \cup {draft}
    /\ UNCHANGED <<compilation, core, draft, mem, worker, valid, bounds>>

-----------------------------------------------------------------------------
(* The worker.                                                                *)

dispatch(k) ==
    /\ Queue!Dispatch(k)
    /\ worker' = [worker EXCEPT ![k] = "compile"]
    /\ UNCHANGED <<compilation, core_failed, draft, frozen, mem, valid, bounds>>

(* The compiler reports each phase before and after the model is asked, so    *)
(* the row says running; a result that is not valid may be repaired once.     *)
progress(k) ==
    /\ worker[k] \in AtWork \ {"complete"} /\ MayBeActive(k)
    /\ Write(k, [compilation[k] EXCEPT !.exec = "running"])
    /\ \E next \in CASE worker[k] = "compile" -> {"repair", "report"}
                      [] worker[k] = "repair"  -> {"report"}
                      [] worker[k] = "report"  -> {"complete"} :
         worker' = [worker EXCEPT ![k] = next]
    /\ UNCHANGED <<core, draft, frozen, mem, bounds>>

(* The index rejects the report, or the compiler raises: fail.                *)
raises(k) ==
    /\ worker[k] \in AtWork
    /\ Write(k, Failed(k))
    /\ worker' = [worker EXCEPT ![k] = "settle_failed"]
    /\ UNCHANGED <<core, draft, frozen, mem, bounds>>

complete(k) ==
    /\ worker[k] = "complete"
    /\ \E row \in Results : Write(k, [row EXCEPT !.linked = compilation[k].linked])
    /\ worker' = [worker EXCEPT ![k] = "settle"]
    /\ UNCHANGED <<core, draft, frozen, mem, bounds>>

settle(k) ==
    /\ worker[k] \in {"settle", "settle_failed"}
    /\ Queue!Settle(k)
    /\ core_failed' = IF worker[k] = "settle" THEN core_failed \ {k} ELSE core_failed \cup {k}
    /\ worker' = [worker EXCEPT ![k] = "done"]
    /\ UNCHANGED <<compilation, draft, frozen, mem, valid, bounds>>

(* The lease has expired, whether the worker is alive or not.                 *)
lease_expires(k) ==
    /\ life[k] = "running"
    /\ Queue!Settle(k)
    /\ core_failed' = core_failed \cup {k}
    /\ UNCHANGED <<compilation, draft, frozen, mem, worker, valid, bounds>>

(* A process dies; a request that has written nothing leaves nothing behind.  *)
crash ==
    /\ crashes < MaxCrashes /\ crashes' = crashes + 1
    /\ \/ \E c \in Clients : mem[c].pc \in {"enqueue", "link"} /\ Goto(c, "idle") /\ worker' = worker
       \/ \E k \in Compilations :
            /\ worker[k] \notin {"absent", "done"}
            /\ worker' = [worker EXCEPT ![k] = "done"] /\ mem' = mem
    /\ UNCHANGED <<compilation, core, draft, frozen, valid, requests>>

-----------------------------------------------------------------------------
QueueRequest(c) == insert(c) \/ insert_conflict(c) \/ enqueue(c) \/ enqueue_raises(c) \/ link(c)

Requests(c) ==
    \/ select_active(c) \/ stream(c) \/ stream_fail(c) \/ resolve(c) \/ resolve_put(c)
    \/ apply(c) \/ merge_draft(c) \/ save_draft(c) \/ duplicate_to_draft(c) \/ draft_put(c)

WorkerStep(k) == dispatch(k) \/ progress(k) \/ raises(k) \/ complete(k) \/ settle(k)

Next ==
    \/ \E c \in Clients : QueueRequest(c) \/ Requests(c)
    \/ create \/ freeze
    \/ \E k \in Compilations : WorkerStep(k) \/ lease_expires(k)
    \/ crash

Spec == Init /\ [][Next]_vars

-----------------------------------------------------------------------------
(* Properties.                                                                *)

(* At most one compilation of the task is active, also when two requests      *)
(* queue one at the same time, and when a worker whose lease has expired      *)
(* reports progress of a compilation that was given up for a newer one.       *)
OneActive == Cardinality({k \in Compilations : compilation[k].exec \in Active}) <= 1

(* A compilation that may be applied leaves no requirement unresolved and has *)
(* no errors, whatever resolutions, results and failures overlap.             *)
ValidIsCovered ==
    \A k \in Compilations : compilation[k].status = "valid" =>
        compilation[k].sound /\ Unresolved(compilation[k].mapping) = {}

(* The draft, the versions and what a request is about to write as the draft. *)
Claims == {draft} \cup frozen \cup {mem[c].draft : c \in Clients}

(* A draft or version that claims to be its source compilation unmodified     *)
(* contains a schema which that compilation had while it was valid, across    *)
(* edits, merges, freezes, duplicates and later resolutions.                  *)
UnmodifiedWasValid ==
    \A d \in Claims : d.source # "none" /\ ~d.modified =>
        \E v \in valid : v[1] = d.source /\ v[2] \subseteq d.tree

(* Unless a process has died, a compilation that is active has somebody who   *)
(* will end it, so that it cannot keep the user from compiling again: the     *)
(* request that queues it, a core job that waits for a worker, or the worker, *)
(* even when its lease has expired and the compilation was given up before.   *)
ActiveIsDriven ==
    crashes = 0 => \A k \in Compilations : compilation[k].exec \in Active =>
        \/ \E c \in Clients : mem[c].k = k /\ mem[c].pc = "enqueue"
        \/ life[k] = "pending"
        \/ worker[k] \in AtWork

(* Why these hold: a request knows the row it works on, the core job exists   *)
(* before the row names it and is taken before its worker is at work, and the *)
(* history has the schema of every compilation that is valid.                 *)
JobsInOrder ==
    /\ \A c \in Clients : mem[c].pc \in OnRow => mem[c].k \in Compilations
    /\ \A c \in Clients : mem[c].pc = "link" => life[mem[c].k] # "absent"
    /\ \A k \in Compilations : compilation[k].linked => life[k] # "absent"
    /\ \A k \in Compilations : life[k] \in {"absent", "pending"} => worker[k] = "absent"
ValidIsRecorded ==
    \A k \in Compilations : compilation[k].status = "valid" =>
        <<k, Tree(compilation[k].mapping)>> \in valid

(* The task's compilations: at most one is active, and it is being driven.    *)
CompilationInv == TypeOK /\ OneActive /\ ActiveIsDriven /\ JobsInOrder /\ ValidIsRecorded
=============================================================================
