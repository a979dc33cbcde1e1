----------------------------- MODULE PacketBuild -----------------------------
(* Evidence packet builds (structured_extraction/evidence_packets.py): a      *)
(* numbered packet version of one task is built by a worker, as a job that    *)
(* can be cancelled, or inside a request.  The core job of a build is a job   *)
(* of JobLifecycle; every statement of the service commits on its own.        *)
(*                                                                            *)
(* An item (one paper and one field group) is its index.  The columns that    *)
(* only show progress are left out.                                           *)
EXTENDS Integers, FiniteSets, FiniteSetsExt

CONSTANTS
    Builds,        \* ids of build jobs
    N,             \* papers times field groups
    Clients,       \* web requests in flight at the same time
    MaxRunning,    \* workers on the "structured-extraction" queue
    MaxRequests,   \* bound: requests in a behaviour
    MaxCrashes,    \* bound: crashes of workers and of requests
    NoOne          \* "no process"

Items == 1 .. N
Procs == Builds \cup Clients
MaxVersion == MaxRequests

ASSUME BuildAssumption ==
    /\ N \in Nat /\ MaxRunning \in Nat \ {0}
    /\ MaxRequests \in Nat /\ MaxCrashes \in Nat
    /\ Builds \cap Clients = {} /\ NoOne \notin Procs

VARIABLES
    status, target, result, linked,   \* columns of ..._packet_build_jobs
    staged,          \* rows of ..._packet_build_items: the item indices
    published,       \* ..._packet_versions and _items: who wrote it, item_count, items
    life, dispatched,   \* the core job of each build, see JobLifecycle
    place,           \* where each request and each worker is
    todo,            \* the items a publishing process has still to insert
    version,         \* the version a request has computed
    about, seen,     \* the build a request is about, and what it has read of it
    cancels,         \* builds that somebody asked to cancel
    stopped,         \* builds whose core job a cancel has found pending
    requests, crashes

jobrows == <<status, target, result, linked>>
core == <<life, dispatched>>
procs == <<place, todo, version, about, seen>>
bounds == <<requests, crashes>>
asks == <<cancels, stopped>>
build_vars == <<jobrows, staged, published, core, procs, asks, bounds>>

Queue == INSTANCE JobLifecycle WITH
    Jobs <- Builds, InlineJobs <- {}, AttemptLimits <- {1},
    limit <- [b \in Builds |-> 1], attempts <- dispatched

TERMINAL_BUILD_STATUSES == {"completed", "failed", "cancelled", "interrupted"}
ActiveStatuses == {"queued", "running", "cancelling"}
Unpublished == [by |-> NoOne, count |-> 0, items |-> {}]
NotSeen == [status |-> "absent", linked |-> FALSE]

Publishing == {"insert_version", "insert_items"}
WorkerPCs == Publishing \cup {"absent", "set_running", "check", "stage",
    "last_check", "finalizing", "complete", "finish_cancelled",
    "fail", "done", "dead"}
ClientPCs == Publishing \cup {"idle", "next_version", "insert", "enqueue", "link", "sync_version",
    "cancel_queued", "cancel_delete", "cancelling", "core_cancel"}

BuildTypes ==
    /\ status \in [Builds -> {"absent"} \cup ActiveStatuses \cup TERMINAL_BUILD_STATUSES]
    /\ target \in [Builds -> 0 .. MaxVersion] /\ result \in [Builds -> 0 .. MaxVersion]
    /\ linked \in [Builds -> BOOLEAN]
    /\ staged \in [Builds -> SUBSET Items]
    /\ published \in [1 .. MaxVersion ->
                     [by : Procs \cup {NoOne}, count : 0 .. N, items : SUBSET Items]]
    /\ life \in [Builds -> {"absent", "pending", "running", "settled"}]
    /\ dispatched \in [Builds -> 0 .. 1]
    /\ place \in [Procs -> WorkerPCs \cup ClientPCs]
    /\ todo \in [Procs -> SUBSET Items]
    /\ version \in [Clients -> 0 .. MaxVersion]
    /\ about \in [Clients -> Builds \cup {NoOne}]
    /\ seen \in [Clients -> [status : {"absent"} \cup ActiveStatuses, linked : BOOLEAN]]
    /\ cancels \subseteq Builds /\ stopped \subseteq cancels
    /\ requests \in 0 .. MaxRequests /\ crashes \in 0 .. MaxCrashes

BuildInit ==
    /\ status = [b \in Builds |-> "absent"]
    /\ target = [b \in Builds |-> 0] /\ result = [b \in Builds |-> 0]
    /\ linked = [b \in Builds |-> FALSE]
    /\ staged = [b \in Builds |-> {}]
    /\ published = [v \in 1 .. MaxVersion |-> Unpublished]
    /\ Queue!Init
    /\ place = [p \in Procs |-> IF p \in Builds THEN "absent" ELSE "idle"]
    /\ todo = [p \in Procs |-> {}]
    /\ version = [c \in Clients |-> 0]
    /\ about = [c \in Clients |-> NoOne]
    /\ seen = [c \in Clients |-> NotSeen]
    /\ cancels = {} /\ stopped = {}
    /\ requests = 0 /\ crashes = 0

-----------------------------------------------------------------------------
(* What statements read and write.  A definition named Bug... is a mutated    *)
(* form of the one after it.                                                  *)

(* p goes to l in its code; what it has read is gone when it is over.         *)
Goto(p, l) ==
    /\ place' = [place EXCEPT ![p] = l]
    /\ IF l \in {"idle", "done", "dead"}
       THEN /\ todo' = [todo EXCEPT ![p] = {}]
            /\ version' = [c \in Clients |-> IF c = p THEN 0 ELSE version[c]]
            /\ about' = [c \in Clients |-> IF c = p THEN NoOne ELSE about[c]]
            /\ seen' = [c \in Clients |-> IF c = p THEN NotSeen ELSE seen[c]]
       ELSE UNCHANGED <<todo, version, about, seen>>

Existing == {v \in 1 .. MaxVersion : published[v].by # NoOne}

(* _next_version: after every version that exists or that a build aims at.    *)
NextVersion == 1 + Max({0} \cup Existing \cup {target[b] : b \in Builds} \cup {result[b] : b \in Builds})

BugMayInsert(v) == TRUE

(* The primary key (task_id, packet_version) of the versions.                 *)
MayInsert(v) == published[v].by = NoOne

(* The staged rows of a build, read back when it is finalised.                *)
StagedItems(b) == staged[b]

(* The delete statement on the staged rows of a build.                        *)
DeleteStaged(b) == [staged EXCEPT ![b] = {}]

BugFailedStatus == "running"

(* What the last except clause of _worker_entry writes.                       *)
FailedStatus == "failed"

BugCoreAfterCancel(b) == life

(* JobQueue.cancel of the core job: one that is pending is settled.           *)
CoreAfterCancel(b) == [life EXCEPT ![b] = "settled"]

(* The version a process publishes.                                           *)
Publishes(p) == IF p \in Builds THEN target[p] ELSE version[p]

-----------------------------------------------------------------------------
(* Starting a build job.                                                      *)

Request(c) == place[c] = "idle" /\ requests < MaxRequests /\ requests' = requests + 1

(* start_build_job returns the active build if it finds one; the context is   *)
(* checked before the version is computed, and a request without one ends.    *)
start_build_job(c) ==
    /\ Request(c)
    /\ \A b \in Builds : status[b] \notin ActiveStatuses
    /\ Goto(c, "next_version")
    /\ UNCHANGED <<jobrows, staged, published, core, asks, crashes>>

next_version(c) ==
    /\ place[c] \in {"next_version", "sync_version"}
    /\ version' = [version EXCEPT ![c] = NextVersion]
    /\ place' = [place EXCEPT ![c] = IF @ = "next_version" THEN "insert" ELSE "insert_version"]
    /\ todo' = [todo EXCEPT ![c] = IF place[c] = "sync_version" THEN Items ELSE {}]
    /\ UNCHANGED <<jobrows, staged, published, core, about, seen, asks, bounds>>

(* A new id; which one makes no difference.                                   *)
Unused == {b \in Builds : status[b] = "absent"}
NewBuild == CHOOSE b \in Unused : TRUE

insert_job(c) ==
    /\ place[c] = "insert"
    /\ Unused # {}
    /\ status' = [status EXCEPT ![NewBuild] = "queued"]
    /\ target' = [target EXCEPT ![NewBuild] = version[c]]
    /\ about' = [about EXCEPT ![c] = NewBuild]
    /\ place' = [place EXCEPT ![c] = "enqueue"]
    /\ UNCHANGED <<result, linked, staged, published, core, todo, version, seen, asks, bounds>>

enqueue(c) ==
    /\ place[c] = "enqueue"
    /\ Queue!Submit(about[c])
    /\ Goto(c, "link")
    /\ UNCHANGED <<jobrows, staged, published, asks, bounds>>

link(c) ==
    /\ place[c] = "link"
    /\ linked' = [linked EXCEPT ![about[c]] = TRUE]
    /\ Goto(c, "idle")
    /\ UNCHANGED <<status, target, result, staged, published, core, asks, bounds>>

(* build: a version is built inside the request, without a job.               *)
build(c) ==
    /\ Request(c)
    /\ Goto(c, "sync_version")
    /\ UNCHANGED <<jobrows, staged, published, core, asks, crashes>>

-----------------------------------------------------------------------------
(* Cancelling: the row is read, then written by what was read.                *)

cancel_build_job(c, b) ==
    /\ Request(c)
    /\ status[b] \in ActiveStatuses
    /\ about' = [about EXCEPT ![c] = b]
    /\ seen' = [seen EXCEPT ![c] = [status |-> status[b], linked |-> linked[b]]]
    /\ place' = [place EXCEPT ![c] = IF status[b] = "queued" THEN "cancel_queued" ELSE "cancelling"]
    /\ cancels' = cancels \cup {b}
    /\ UNCHANGED <<stopped, jobrows, staged, published, core, todo, version, crashes>>

(* _finish_cancelled of a build that was read as queued.                      *)
cancel_queued(c) ==
    /\ place[c] = "cancel_queued"
    /\ status' = [status EXCEPT ![about[c]] = "cancelled"]
    /\ Goto(c, "cancel_delete")
    /\ UNCHANGED <<target, result, linked, staged, published, core, asks, bounds>>

cancel_delete(c) ==
    /\ place[c] = "cancel_delete"
    /\ staged' = DeleteStaged(about[c])
    /\ Goto(c, "core_cancel")
    /\ UNCHANGED <<jobrows, published, core, asks, bounds>>

cancelling(c) ==
    /\ place[c] = "cancelling"
    /\ status' = [status EXCEPT ![about[c]] = "cancelling"]
    /\ Goto(c, "core_cancel")
    /\ UNCHANGED <<target, result, linked, staged, published, core, asks, bounds>>

(* The core job, if the row that was read named it: a pending one is settled, *)
(* a running one goes on (or is settled under its worker, when the worker     *)
(* claimed it between the two statements of JobQueue.cancel).                 *)
core_cancel(c) ==
    /\ place[c] = "core_cancel"
    /\ \/ /\ seen[c].linked /\ life[about[c]] \in {"pending", "running"}
          /\ life' = CoreAfterCancel(about[c])
       \/ /\ ~seen[c].linked \/ life[about[c]] # "pending"
          /\ life' = life
    /\ stopped' = IF seen[c].linked /\ life[about[c]] = "pending"
                  THEN stopped \cup {about[c]} ELSE stopped
    /\ Goto(c, "idle")
    /\ UNCHANGED <<jobrows, staged, published, dispatched, cancels, bounds>>

-----------------------------------------------------------------------------
(* The worker, _worker_entry.                                                 *)

Working(b) == place[b] \notin {"absent", "done", "dead"}

dispatch(b) ==
    /\ place[b] = "absent"
    /\ Cardinality({x \in Builds : Working(x)}) < MaxRunning
    /\ Queue!Dispatch(b)
    /\ Goto(b, "set_running")
    /\ UNCHANGED <<jobrows, staged, published, asks, bounds>>

(* The context is read again, then the status is set, whatever it is.  The    *)
(* worker deletes staged rows in a statement of its own, here and below:      *)
(* nobody but the worker itself would notice, unless it dies in between.      *)
set_running(b) ==
    /\ place[b] = "set_running"
    /\ status' = [status EXCEPT ![b] = "running"]
    /\ staged' = DeleteStaged(b)
    /\ place' = [place EXCEPT ![b] = IF Items = {} THEN "last_check" ELSE "check"]
    /\ todo' = [todo EXCEPT ![b] = Items]
    /\ UNCHANGED <<target, result, linked, published, core, version, about, seen, asks, bounds>>

(* should_cancel, asked before an item, while it is built and before it is    *)
(* staged: no statement writes between these, so one check stands for them.   *)
should_cancel(b) ==
    /\ place[b] \in {"check", "last_check"}
    /\ Goto(b, IF status[b] = "cancelling" THEN "finish_cancelled"
               ELSE IF place[b] = "check" THEN "stage" ELSE "finalizing")
    /\ UNCHANGED <<jobrows, staged, published, core, asks, bounds>>

(* The next item is built and staged, in the order of papers and groups.      *)
stage_item(b) ==
    /\ place[b] = "stage"
    /\ staged' = [staged EXCEPT ![b] = @ \cup {Min(todo[b])}]
    /\ todo' = [todo EXCEPT ![b] = @ \ {Min(@)}]
    /\ place' = [place EXCEPT ![b] = IF Cardinality(todo[b]) = 1 THEN "last_check" ELSE "check"]
    /\ UNCHANGED <<jobrows, published, core, version, about, seen, asks, bounds>>

finish_cancelled(b) ==
    /\ place[b] = "finish_cancelled"
    /\ status' = [status EXCEPT ![b] = "cancelled"]
    /\ staged' = DeleteStaged(b)
    /\ Goto(b, "done")
    /\ UNCHANGED <<target, result, linked, published, core, asks, bounds>>

(* The staged items are read back.                                            *)
finalize(b) ==
    /\ place[b] = "finalizing"
    /\ todo' = [todo EXCEPT ![b] = StagedItems(b)]
    /\ place' = [place EXCEPT ![b] = "insert_version"]
    /\ UNCHANGED <<jobrows, staged, published, core, version, about, seen, asks, bounds>>

complete(b) ==
    /\ place[b] = "complete"
    /\ status' = [status EXCEPT ![b] = "completed"]
    /\ result' = [result EXCEPT ![b] = target[b]]
    /\ staged' = DeleteStaged(b)
    /\ Goto(b, "done")
    /\ UNCHANGED <<target, linked, published, core, asks, bounds>>

-----------------------------------------------------------------------------
(* Publishing a version (_insert_packet_version), by a worker or a request:   *)
(* the row with its item count, then the items, then the artifact file.       *)

AfterPublishing(p) == IF p \in Builds THEN "complete" ELSE "idle"
OnError(p) == IF p \in Builds THEN "fail" ELSE "idle"

insert_version(p) ==
    /\ place[p] = "insert_version" /\ MayInsert(Publishes(p))
    /\ published' = [published EXCEPT ![Publishes(p)] =
                    [by |-> p, count |-> Cardinality(todo[p]), items |-> {}]]
    /\ Goto(p, "insert_items")
    /\ UNCHANGED <<jobrows, staged, core, asks, bounds>>

(* The version was published by another process since it was computed.        *)
version_taken(p) ==
    /\ place[p] = "insert_version" /\ ~MayInsert(Publishes(p))
    /\ Goto(p, OnError(p))
    /\ UNCHANGED <<jobrows, staged, published, core, asks, bounds>>

(* The items and the artifact.  No other process writes to a version that p   *)
(* has published, so they are one step; ...                                   *)
insert_items(p) ==
    /\ place[p] = "insert_items"
    /\ published' = [published EXCEPT ![Publishes(p)].items = todo[p]]
    /\ Goto(p, AfterPublishing(p))
    /\ UNCHANGED <<jobrows, staged, core, asks, bounds>>

(* ... but an insert or the file system may raise after any of the items.     *)
insert_raises(p) ==
    /\ place[p] = "insert_items"
    /\ \E n \in 0 .. N :
          published' = [published EXCEPT ![Publishes(p)].items = {i \in todo[p] : i <= n}]
    /\ Goto(p, OnError(p))
    /\ UNCHANGED <<jobrows, staged, core, asks, bounds>>

(* The context or the index raises.                                           *)
raises(b) ==
    /\ place[b] \in {"set_running", "stage"}
    /\ Goto(b, "fail")
    /\ UNCHANGED <<jobrows, staged, published, core, asks, bounds>>

fail(b) ==
    /\ place[b] = "fail"
    /\ status' = [status EXCEPT ![b] = FailedStatus]
    /\ Goto(b, "done")
    /\ UNCHANGED <<target, result, linked, staged, published, core, asks, bounds>>

-----------------------------------------------------------------------------
(* A process dies, and nothing writes the build.  (What the queue does with   *)
(* the job of a worker that returned or died is read by nothing here.)  A     *)
(* request that dies before its first write leaves nothing behind.            *)
crash(p) ==
    /\ crashes < MaxCrashes
    /\ crashes' = crashes + 1
    /\ \/ p \in Builds /\ Working(p) /\ Goto(p, "dead")
       \/ place[p] \in {"enqueue", "link", "cancel_delete", "core_cancel"} /\ Goto(p, "idle")
    /\ UNCHANGED <<jobrows, staged, published, core, asks, requests>>

-----------------------------------------------------------------------------
Publish(p) ==
    \/ insert_version(p) \/ version_taken(p) \/ insert_items(p) \/ insert_raises(p)

ClientStep(c) ==
    \/ next_version(c) \/ insert_job(c) \/ enqueue(c) \/ link(c)
    \/ cancel_queued(c) \/ cancel_delete(c) \/ cancelling(c) \/ core_cancel(c) \/ Publish(c)

WorkerStep(b) ==
    \/ dispatch(b) \/ raises(b) \/ set_running(b) \/ should_cancel(b)
    \/ stage_item(b) \/ finish_cancelled(b) \/ finalize(b) \/ complete(b)
    \/ fail(b) \/ Publish(b)

BuildNext ==
    \/ \E c \in Clients :
         \/ start_build_job(c) \/ build(c) \/ ClientStep(c) \/ crash(c)
         \/ \E b \in Builds : cancel_build_job(c, b)
    \/ \E b \in Builds : WorkerStep(b) \/ crash(b)

BuildSpec == BuildInit /\ [][BuildNext]_build_vars

(* Requests in flight end and workers go on; nobody has to make a request.    *)
FairSpec ==
    /\ BuildSpec
    /\ \A c \in Clients : WF_build_vars(ClientStep(c))
    /\ \A b \in Builds : WF_build_vars(WorkerStep(b))

-----------------------------------------------------------------------------
(* Properties.                                                                *)

(* The version v of a publishing process p, before and after its items; after *)
(* them they are all there unless somebody cancelled.                         *)
Writes(p, v, items) ==
    published[v].by = p /\ published[v].count = Cardinality(items)

Wrote(b, v) ==
    /\ published[v].by = b /\ Cardinality(published[v].items) = published[v].count
    /\ b \notin cancels => published[v].items = Items

Cancelling == {"cancel_queued", "cancel_delete", "cancelling", "core_cancel"}

(* What a worker has not staged yet.                                          *)
Unstaged(b) == IF place[b] = "finalizing" THEN {} ELSE todo[b]

(* A completed build names a version that it alone has published, with as     *)
(* many items as the version says: two builds that took the same next version *)
(* do not both complete, and neither mixes its items into the other's.        *)
CompletedIsPublished ==
    \A b \in Builds : status[b] = "completed" =>
        LET v == result[b] IN
            v \in Existing /\ published[v].by = b /\ Cardinality(published[v].items) = published[v].count

(* Nothing but a cancel makes a completed build publish fewer items than its  *)
(* task has: overlapping builds do not touch each other's staged items.       *)
NothingMissing ==
    \A b \in Builds \ cancels : status[b] = "completed" => published[result[b]].items = Items

(* A build that a cancel has stopped or that has completed leaves no staged   *)
(* items behind once nobody works on it, however the cancel and the worker    *)
(* overlap.                                                                   *)
StagedCleared ==
    crashes = 0 => \A b \in Builds :
        /\ status[b] \in {"cancelled", "completed"}
        /\ ~Working(b)
        /\ \A c \in Clients : about[c] = b => place[c] # "cancel_delete"
        => staged[b] = {}

(* A build whose cancel found its job pending never runs and stays cancelled, *)
(* whatever other requests have read before.                                  *)
StoppedNeverRuns == \A b \in stopped : dispatched[b] = 0 /\ status[b] = "cancelled"

(* Why these hold.  What a request relies on at each of its statements: its   *)
(* version, the build it is about, and, when that build has never been        *)
(* dispatched, that it was read as queued.                                    *)
RequestInOrder(c) ==
    /\ place[c] \in ClientPCs
    /\ place[c] \in Publishing \cup {"insert"} => version[c] \in 1 .. MaxVersion
    /\ place[c] = "insert_items" => Writes(c, version[c], todo[c])
    /\ place[c] \in {"enqueue", "link"} => about[c] \in Builds /\ status[about[c]] # "absent"
    /\ place[c] \in Cancelling =>
         /\ about[c] \in cancels
         /\ place[c] \in {"cancel_queued", "cancel_delete"} => seen[c].status = "queued"
         /\ place[c] = "cancelling" => seen[c].status \in {"running", "cancelling"}
         /\ dispatched[about[c]] = 0 => seen[c].status = "queued"
    /\ place[c] \in {"cancel_delete", "core_cancel"} /\ dispatched[about[c]] = 0 =>
         status[about[c]] = "cancelled"

(* What the worker of a build has staged and has still to stage, and what the *)
(* version it publishes has; a build keeps its number once it is there.       *)
WorkInOrder(b) ==
    /\ place[b] \in {"check", "stage"} => todo[b] # {}
    /\ place[b] = "last_check" => todo[b] = {}
    /\ b \notin cancels =>
         /\ place[b] \in {"check", "stage", "last_check", "finalizing"} =>
              staged[b] = Items \ Unstaged(b)
         /\ place[b] \in Publishing => todo[b] = Items
    /\ place[b] = "insert_items" => Writes(b, target[b], todo[b])
    /\ place[b] = "complete" => Wrote(b, target[b])
    /\ status[b] = "completed" =>
         place[b] = "done" /\ result[b] = target[b] /\ Wrote(b, target[b])

BuildInOrder(b) ==
    /\ place[b] \in WorkerPCs
    /\ status[b] = "absent" => place[b] = "absent" /\ life[b] = "absent" /\ b \notin cancels
    /\ status[b] # "absent" => target[b] \in 1 .. MaxVersion
    /\ place[b] # "absent" => dispatched[b] = 1
    /\ place[b] = "absent" => staged[b] = {}
    /\ dispatched[b] = 1 => life[b] \in {"running", "settled"} /\ status[b] # "absent"
    /\ dispatched[b] = 0 => status[b] \in {"absent", "queued", "cancelled"}
    /\ b \in stopped => life[b] = "settled"

(* Staged rows are left only by a worker that failed, or for a request that   *)
(* is about to delete them.                                                   *)
LeftStaged(b) ==
    crashes = 0 =>
        /\ place[b] # "dead"
        /\ place[b] = "done" /\ staged[b] # {} =>
             \/ status[b] \in {"failed", "cancelling"}
             \/ \E c \in Clients : about[c] = b /\ place[c] = "cancel_delete"

(* A version number is computed at most once in a request.                    *)
Computing == {c \in Clients : place[c] \in {"next_version", "sync_version"}}
Numbers == {0} \cup Existing \cup {version[c] : c \in Clients}
               \cup {target[b] : b \in Builds} \cup {result[b] : b \in Builds}

VersionsCounted ==
    IsFiniteSet(Computing) /\ \A v \in Numbers : v + Cardinality(Computing) <= requests

(* What every statement keeps, from which the properties above follow.        *)
BuildOrder ==
    /\ BuildTypes
    /\ StoppedNeverRuns
    /\ \A c \in Clients : RequestInOrder(c)
    /\ \A b \in Builds : WorkInOrder(b) /\ BuildInOrder(b) /\ LeftStaged(b)
    /\ VersionsCounted

(* What a build leaves behind, together with the types and with why it holds. *)
BuildInv == BuildOrder /\ NothingMissing /\ StagedCleared

(* A build that nobody cancels ends, also when its version was taken by       *)
(* another or something raised half way through.                              *)
BuildSettles ==
    \A b \in Builds : []<>(status[b] \notin ActiveStatuses \/ b \in cancels \/ crashes > 0)
=============================================================================
