---------------------------- MODULE SchemaProofs ----------------------------
(* What holds of every reachable state of SchemaCompilation, for any text,    *)
(* any number of compilations, requests, frozen versions and processes that   *)
(* die.  All of it is proved from one inductive invariant, CompilationAll:    *)
(* each of its parts is one that the runs check.  The steps of the module are *)
(* grouped by what they may do to the rows (RowsChange), to what the requests *)
(* have read (MemsChange), to the workers and core jobs (WorkersChange,       *)
(* LivesChange) and to the drafts (DraftsChange).                             *)
(* The last part is about the versions of a task, TaskVersions, for any       *)
(* candidates, numbers of fields, requests that overlap and that die.  Its    *)
(* invariant VersionsInv is inductive as it stands.                           *)
EXTENDS SchemaCompilation, TaskVersions, Sequences, FiniteSetTheorems, TLAPS

-----------------------------------------------------------------------------
(* Rows, results and ids.                                                     *)

(* A compilation that is not used yet.                                        *)
LEMMA NewIsUnused == ASSUME Unused # {} PROVE New \in Compilations /\ compilation[New].exec = "absent"
BY DEF New, Unused

(* The schema of a mapping is one, and no requirement of a row without result *)
(* is mapped.                                                                 *)
LEMMA TreeIsSchema == \A m : Tree(m) \in Schemas
BY DEF Tree, Schemas

(* A row without result is a row, and so is every result, which is completed  *)
(* and has no core job yet.                                                   *)
LEMMA RowTypes ==
  /\ [exec |-> "absent", status |-> "not_valid", mapping |-> NoMapping, sound |-> FALSE, linked |-> FALSE] \in Rows
  /\ \A row \in Results : row \in Rows /\ row.exec = "completed" /\ row.linked = FALSE
  /\ NoMapping \in Mappings
<1>1. NoMapping \in Mappings
  BY DEF Mappings
<1>2. ASSUME NEW row \in Results PROVE row \in Rows /\ row.exec = "completed" /\ row.linked = FALSE
  <2>1. PICK m \in [Requirements -> Dispositions], s \in BOOLEAN, l \in BOOLEAN :
          row = [exec |-> "completed", status |-> Assembled(m, s, l), mapping |-> m, sound |-> s,
                 linked |-> FALSE]
    BY DEF Results
  <2>2. Assembled(m, s, l) \in Statuses /\ m \in Mappings
    BY DEF Assembled, Statuses, Mappings
  <2> QED BY <2>1, <2>2 DEF Rows
<1>3. "not_valid" \in Statuses
  BY DEF Statuses
<1> QED BY <1>1, <1>2, <1>3 DEF Rows

(* What a step may do with the row of a compilation.                          *)
RowMay(k, row) ==
  /\ row.status = "valid" => row.sound /\ Unresolved(row.mapping) = {}
  /\ row.linked => compilation[k].linked \/ life[k] # "absent"
  /\ row.exec \in Active =>
       \/ compilation[k].exec \in Active
       \/ MayBeActive(k)
  /\ row.exec \in Active /\ compilation[k].exec \notin Active =>
       \/ worker'[k] \in AtWork
       \/ \E c \in Clients : mem'[c].pc = "enqueue" /\ mem'[c].k = k

(* Every step leaves the rows alone or writes one of them in such a way.      *)
LEMMA RowsChange ==
  ASSUME TypeOK, JobsInOrder, ValidIsCovered, [Next]_vars
  PROVE  \/ UNCHANGED <<compilation, valid>>
         \/ \E k \in Compilations, row \in Rows : Write(k, row) /\ RowMay(k, row)
<1> DEFINE Goal == \E k \in Compilations, row \in Rows : Write(k, row) /\ RowMay(k, row)
<1>0. /\ \A k \in Compilations : compilation[k] \in Rows
      /\ \A k \in Compilations : /\ compilation[k].exec \in Active \cup {"absent", "completed", "failed"}
                                 /\ compilation[k].status \in Statuses
                                 /\ compilation[k].mapping \in Mappings
                                 /\ compilation[k].sound \in BOOLEAN /\ compilation[k].linked \in BOOLEAN
  <2>1. \A k \in Compilations : compilation[k] \in Rows
    BY DEF TypeOK
  <2> QED BY <2>1 DEF Rows
<1>1. ASSUME NEW k \in Compilations, Write(k, Failed(k)) PROVE Goal
  <2>1. Failed(k) \in Rows /\ Failed(k).exec = "failed" /\ Failed(k).status = "not_valid"
        /\ Failed(k).linked = compilation[k].linked
    BY <1>0 DEF Failed, Rows, Statuses
  <2>2. RowMay(k, Failed(k))
    BY <2>1 DEF RowMay, Active
  <2> QED BY <1>1, <2>1, <2>2
<1>2. ASSUME NEW c \in Clients, mem[c].pc \in OnRow PROVE mem[c].k \in Compilations
  BY <1>2 DEF JobsInOrder
<1>3. ASSUME NEW c \in Clients, insert(c) PROVE Goal
  <2> DEFINE row == [Absent EXCEPT !.exec = "queued"]
  <2>1. New \in Compilations /\ compilation[New].exec = "absent"
    BY <1>3, NewIsUnused DEF insert
  <2>2. row \in Rows /\ row.status = "not_valid" /\ row.linked = FALSE
    BY RowTypes DEF Absent, Rows, Active, Statuses
  <2>3. MayBeActive(New) /\ Write(New, row)
    BY <1>3 DEF insert
  <2>4. mem'[c].pc = "enqueue" /\ mem'[c].k = New
    BY <1>3 DEF insert, AfterInsert, TypeOK, Mems
  <2>5. RowMay(New, row)
    BY <2>2, <2>3, <2>4 DEF RowMay
  <2> QED BY <2>1, <2>2, <2>3, <2>5
<1>4. ASSUME NEW c \in Clients, link(c) PROVE Goal
  <2> DEFINE k == mem[c].k
             row == [compilation[k] EXCEPT !.linked = TRUE]
  <2>1. k \in Compilations /\ life[k] # "absent"
    BY <1>2, <1>4 DEF link, OnRow, JobsInOrder
  <2>2. row \in Rows /\ row.status = compilation[k].status /\ row.exec = compilation[k].exec
        /\ row.mapping = compilation[k].mapping /\ row.sound = compilation[k].sound
    BY <1>0, <2>1 DEF Rows
  <2>3. Write(k, row)
    BY <1>4 DEF link
  <2> HIDE DEF row
  <2>4. RowMay(k, row)
    BY <2>1, <2>2 DEF RowMay, ValidIsCovered
  <2> QED BY <2>1, <2>2, <2>3, <2>4
<1>5. ASSUME NEW c \in Clients, resolve_put(c) PROVE Goal
  <2> DEFINE k == mem[c].k
             m == mem[c].mapping
             s == mem[c].sound
             row == [compilation[k] EXCEPT !.mapping = m, !.sound = s, !.status = Resolved(m, s)]
  <2>1. k \in Compilations /\ m \in Mappings /\ s \in BOOLEAN
    <3>1. mem[c] \in Mems
      BY DEF TypeOK
    <3> QED BY <1>2, <1>5, <3>1 DEF resolve_put, OnRow, Mems
  <2>2. Resolved(m, s) \in Statuses /\ (Resolved(m, s) = "valid" => s /\ Unresolved(m) = {})
    BY DEF Resolved, Statuses
  <2>3. row \in Rows /\ row.status = Resolved(m, s) /\ row.exec = compilation[k].exec
        /\ row.mapping = m /\ row.sound = s /\ row.linked = compilation[k].linked
    BY <1>0, <2>1, <2>2 DEF Rows
  <2>4. Write(k, row)
    BY <1>5 DEF resolve_put
  <2> HIDE DEF row, m, s, k
  <2>5. RowMay(k, row)
    BY <2>2, <2>3 DEF RowMay
  <2> QED BY <2>1, <2>3, <2>4, <2>5
<1>6. ASSUME NEW row \in Results PROVE row \in Rows /\ (row.status = "valid" => row.sound /\ Unresolved(row.mapping) = {})
  <2>1. PICK m \in [Requirements -> Dispositions], s \in BOOLEAN, l \in BOOLEAN :
          row = [exec |-> "completed", status |-> Assembled(m, s, l), mapping |-> m, sound |-> s,
                 linked |-> FALSE]
    BY <1>6 DEF Results
  <2>2. Assembled(m, s, l) = "valid" => s /\ Unresolved(m) = {}
    BY DEF Assembled
  <2> QED BY <2>1, <2>2, RowTypes
<1>7. ASSUME create PROVE Goal
  <2>1. PICK row \in Results : Write(New, row)
    BY <1>7 DEF create
  <2>2. New \in Compilations
    BY <1>7, NewIsUnused DEF create
  <2>3. row.exec = "completed" /\ row.linked = FALSE
    BY RowTypes
  <2>4. RowMay(New, row)
    BY <1>6, <2>3 DEF RowMay, Active
  <2> QED BY <1>6, <2>1, <2>2, <2>4
<1>8. ASSUME NEW k \in Compilations, progress(k) PROVE Goal
  <2> DEFINE row == [compilation[k] EXCEPT !.exec = "running"]
  <2>1. row \in Rows /\ row.status = compilation[k].status /\ row.exec = "running"
        /\ row.mapping = compilation[k].mapping /\ row.sound = compilation[k].sound
        /\ row.linked = compilation[k].linked
    BY <1>0 DEF Rows, Active
  <2>2. Write(k, row) /\ MayBeActive(k)
    BY <1>8 DEF progress
  <2>3. worker'[k] \in AtWork
    BY <1>8 DEF progress, AtWork, TypeOK
  <2> HIDE DEF row
  <2>4. RowMay(k, row)
    BY <2>1, <2>2, <2>3 DEF RowMay, ValidIsCovered
  <2> QED BY <2>1, <2>2, <2>4
<1>9. ASSUME NEW k \in Compilations, complete(k) PROVE Goal
  <2>1. PICK r \in Results : Write(k, [r EXCEPT !.linked = compilation[k].linked])
    BY <1>9 DEF complete
  <2> DEFINE row == [r EXCEPT !.linked = compilation[k].linked]
  <2>2. row \in Rows /\ row.exec = "completed" /\ row.linked = compilation[k].linked
        /\ (row.status = "valid" => row.sound /\ Unresolved(row.mapping) = {})
    BY <1>0, <1>6, RowTypes DEF Rows
  <2> HIDE DEF row
  <2>3. RowMay(k, row)
    BY <2>2 DEF RowMay, Active
  <2> QED BY <2>1, <2>2, <2>3 DEF row
<1>10. ASSUME NEW c \in Clients, enqueue_raises(c) \/ stream_fail(c) PROVE Goal
  BY <1>1, <1>2, <1>10 DEF enqueue_raises, stream_fail, OnRow
<1>11. ASSUME NEW k \in Compilations, raises(k) PROVE Goal
  BY <1>1, <1>11 DEF raises
<1> HIDE DEF Goal
<1>12. ASSUME NEW c \in Clients, QueueRequest(c) \/ Requests(c)
       PROVE  UNCHANGED <<compilation, valid>> \/ Goal
  <2>1. CASE insert(c) \/ link(c) \/ resolve_put(c) \/ enqueue_raises(c) \/ stream_fail(c)
    BY <1>3, <1>4, <1>5, <1>10, <2>1
  <2>2. CASE insert_conflict(c) \/ enqueue(c) \/ select_active(c) \/ stream(c) \/ resolve(c) \/ apply(c)
    BY <2>2 DEF insert_conflict, enqueue, select_active, stream, resolve, apply
  <2>3. CASE merge_draft(c) \/ save_draft(c) \/ duplicate_to_draft(c) \/ draft_put(c)
    BY <2>3 DEF merge_draft, save_draft, duplicate_to_draft, draft_put
  <2> QED BY <1>12, <2>1, <2>2, <2>3 DEF QueueRequest, Requests
<1>13. ASSUME NEW k \in Compilations, WorkerStep(k) \/ lease_expires(k)
       PROVE  UNCHANGED <<compilation, valid>> \/ Goal
  <2>1. CASE progress(k) \/ complete(k) \/ raises(k)
    BY <1>8, <1>9, <1>11, <2>1
  <2>2. CASE dispatch(k) \/ settle(k) \/ lease_expires(k)
    BY <2>2 DEF dispatch, settle, lease_expires
  <2> QED BY <1>13, <2>1, <2>2 DEF WorkerStep
<1>14. ASSUME freeze \/ crash \/ UNCHANGED vars PROVE UNCHANGED <<compilation, valid>>
  BY <1>14 DEF freeze, crash, vars
<1>15. UNCHANGED <<compilation, valid>> \/ Goal
  BY <1>7, <1>12, <1>13, <1>14 DEF Next
<1> QED BY <1>15 DEF Goal

(* What a row that is written becomes, and the others.                        *)
LEMMA WriteIs ==
  ASSUME TypeOK, NEW k \in Compilations, NEW row \in Rows, Write(k, row)
  PROVE  /\ compilation' \in [Compilations -> Rows]
         /\ \A j \in Compilations : compilation'[j] = IF j = k THEN row ELSE compilation[j]
         /\ valid \subseteq valid' /\ valid' \subseteq Compilations \X Schemas
         /\ row.status = "valid" => <<k, Tree(row.mapping)>> \in valid'
<1>1. compilation' = [compilation EXCEPT ![k] = row]
  BY DEF Write
<1>2. /\ compilation' \in [Compilations -> Rows]
      /\ \A j \in Compilations : compilation'[j] = IF j = k THEN row ELSE compilation[j]
  BY <1>1 DEF TypeOK
<1>3. Tree(row.mapping) \in Schemas /\ valid \subseteq Compilations \X Schemas
  BY TreeIsSchema DEF TypeOK
<1>4. /\ valid \subseteq valid' /\ valid' \subseteq Compilations \X Schemas
      /\ row.status = "valid" => <<k, Tree(row.mapping)>> \in valid'
  BY <1>3 DEF Write
<1> QED BY <1>2, <1>4

(* The core jobs: what a step does to their lives.                            *)
LEMMA LivesChange ==
  ASSUME TypeOK, JobsInOrder, [Next]_vars
  PROVE  /\ life' \in [Compilations -> {"absent", "pending", "running", "settled"}]
         /\ attempts' \in [Compilations -> Nat]
         /\ \A k \in Compilations : life[k] # "absent" => life'[k] # "absent"
<1>0. /\ life \in [Compilations -> {"absent", "pending", "running", "settled"}]
      /\ attempts \in [Compilations -> Nat]
  BY DEF TypeOK
<1>1. ASSUME NEW c \in Clients, enqueue(c)
      PROVE  mem[c].k \in Compilations /\ life' = [life EXCEPT ![mem[c].k] = "pending"] /\ attempts' = attempts
  BY <1>1 DEF enqueue, Queue!Submit, JobsInOrder, OnRow
<1>2. ASSUME NEW k \in Compilations, dispatch(k)
      PROVE  life' = [life EXCEPT ![k] = "running"] /\ attempts' = [attempts EXCEPT ![k] = @ + 1]
  BY <1>2 DEF dispatch, Queue!Dispatch
<1>3. ASSUME NEW k \in Compilations, settle(k) \/ lease_expires(k)
      PROVE  life' = [life EXCEPT ![k] = "settled"] /\ attempts' = attempts
  BY <1>3 DEF settle, lease_expires, Queue!Settle
<1>4. CASE UNCHANGED <<life, attempts>>
  BY <1>0, <1>4
<1>5. ASSUME NEW c \in Clients, QueueRequest(c) \/ Requests(c), ~enqueue(c)
      PROVE UNCHANGED <<life, attempts>>
  BY <1>5 DEF QueueRequest, Requests, insert, insert_conflict, enqueue_raises, link, core,
     select_active, stream, stream_fail, resolve, resolve_put, apply, merge_draft, save_draft,
     duplicate_to_draft, draft_put
<1>6. ASSUME NEW k \in Compilations, WorkerStep(k), ~dispatch(k), ~settle(k)
      PROVE UNCHANGED <<life, attempts>>
  BY <1>6 DEF WorkerStep, progress, raises, complete, core
<1>7. ASSUME create \/ freeze \/ crash \/ UNCHANGED vars PROVE UNCHANGED <<life, attempts>>
  BY <1>7 DEF create, freeze, crash, vars, core
<1>8. CASE \E c \in Clients : enqueue(c)
  BY <1>0, <1>1, <1>8
<1>9. CASE \E k \in Compilations : dispatch(k)
  BY <1>0, <1>2, <1>9
<1>10. CASE \E k \in Compilations : settle(k) \/ lease_expires(k)
  BY <1>0, <1>3, <1>10
<1> QED BY <1>4, <1>5, <1>6, <1>7, <1>8, <1>9, <1>10 DEF Next

(* The workers.                                                               *)
LEMMA WorkersChange ==
  ASSUME TypeOK, JobsInOrder, [Next]_vars
  PROVE  /\ worker' \in [Compilations -> AtWork \cup {"absent", "settle", "settle_failed", "done"}]
         /\ \A k \in Compilations : worker[k] \in AtWork =>
              worker'[k] \in AtWork \/ crashes' # 0 \/ compilation'[k].exec \notin Active
         /\ \A k \in Compilations : life[k] = "pending" =>
              life'[k] = "pending" \/ worker'[k] \in AtWork
         /\ \A k \in Compilations : life'[k] \in {"absent", "pending"} => worker'[k] = "absent"
<1> DEFINE W == AtWork \cup {"absent", "settle", "settle_failed", "done"}
           StaysKept(k) == worker[k] \in AtWork =>
                        worker'[k] \in AtWork \/ crashes' # 0 \/ compilation'[k].exec \notin Active
           StaysTaken(k) == life[k] = "pending" => life'[k] = "pending" \/ worker'[k] \in AtWork
           Waits(k) == life'[k] \in {"absent", "pending"} => worker'[k] = "absent"
<1>0. /\ worker \in [Compilations -> W]
      /\ life \in [Compilations -> {"absent", "pending", "running", "settled"}]
      /\ compilation \in [Compilations -> Rows]
      /\ \A k \in Compilations : life[k] \in {"absent", "pending"} => worker[k] = "absent"
  BY DEF TypeOK, JobsInOrder
<1> USE DEF AtWork
<1>1. CASE \E c \in Clients : enqueue(c)
  <2>1. PICK c \in Clients : enqueue(c)
    BY <1>1
  <2>2. /\ mem[c].k \in Compilations /\ life[mem[c].k] = "absent" /\ worker' = worker
        /\ life' = [life EXCEPT ![mem[c].k] = "pending"]
    BY <2>1 DEF enqueue, Queue!Submit, JobsInOrder, OnRow
  <2> QED BY <1>0, <2>2
<1>2. CASE \E k \in Compilations : dispatch(k)
  <2>1. PICK k \in Compilations : dispatch(k)
    BY <1>2
  <2>2. life[k] = "pending" /\ life' = [life EXCEPT ![k] = "running"] /\ worker' = [worker EXCEPT ![k] = "compile"]
    BY <2>1 DEF dispatch, Queue!Dispatch
  <2> QED BY <1>0, <2>2
<1>3. CASE \E k \in Compilations : settle(k)
  <2>1. PICK k \in Compilations : settle(k)
    BY <1>3
  <2>2. /\ worker[k] \in {"settle", "settle_failed"} /\ life' = [life EXCEPT ![k] = "settled"]
        /\ worker' = [worker EXCEPT ![k] = "done"]
    BY <2>1 DEF settle, Queue!Settle
  <2> QED BY <1>0, <2>2
<1>4. CASE \E k \in Compilations : lease_expires(k)
  <2>1. PICK k \in Compilations : lease_expires(k)
    BY <1>4
  <2>2. life[k] = "running" /\ life' = [life EXCEPT ![k] = "settled"] /\ worker' = worker
    BY <2>1 DEF lease_expires, Queue!Settle
  <2> QED BY <1>0, <2>2
<1>5. CASE \E k \in Compilations : progress(k)
  <2>1. PICK k \in Compilations : progress(k)
    BY <1>5
  <2>2. PICK next \in AtWork : worker' = [worker EXCEPT ![k] = next]
    BY <2>1 DEF progress
  <2>3. worker[k] \in AtWork /\ life' = life
    BY <2>1 DEF progress, core
  <2> QED BY <1>0, <2>2, <2>3
<1>6. CASE \E k \in Compilations : raises(k)
  <2>1. PICK k \in Compilations : raises(k)
    BY <1>6
  <2>2. /\ worker[k] \in AtWork /\ life' = life /\ worker' = [worker EXCEPT ![k] = "settle_failed"]
        /\ compilation' = [compilation EXCEPT ![k] = Failed(k)]
    BY <2>1 DEF raises, core, Write
  <2>3. compilation'[k].exec \notin Active
    BY <1>0, <2>2 DEF Failed, Active, Rows
  <2> QED BY <1>0, <2>2, <2>3
<1>7. CASE \E k \in Compilations : complete(k)
  <2>1. PICK k \in Compilations : complete(k)
    BY <1>7
  <2>2. PICK r \in Results : Write(k, [r EXCEPT !.linked = compilation[k].linked])
    BY <2>1 DEF complete
  <2>3. worker[k] \in AtWork /\ life' = life /\ worker' = [worker EXCEPT ![k] = "settle"]
    BY <2>1 DEF complete, core
  <2>4. compilation'[k].exec \notin Active
    BY <1>0, <2>2, RowTypes DEF Write, Active, Rows
  <2> QED BY <1>0, <2>3, <2>4
<1>8. CASE crash
  <2>1. crashes' # 0 /\ life' = life
    BY <1>8 DEF crash, core, TypeOK
  <2>2. worker' = worker \/ \E k \in Compilations : worker[k] # "absent" /\ worker' = [worker EXCEPT ![k] = "done"]
    BY <1>8 DEF crash
  <2> QED BY <1>0, <2>1, <2>2
<1>9. CASE worker' = worker /\ life' = life
  BY <1>0, <1>9
<1>10. ASSUME NEW c \in Clients, QueueRequest(c) \/ Requests(c), ~enqueue(c)
       PROVE worker' = worker /\ life' = life
  BY <1>10 DEF QueueRequest, Requests, insert, insert_conflict, enqueue_raises, link, core,
     select_active, stream, stream_fail, resolve, resolve_put, apply, merge_draft, save_draft,
     duplicate_to_draft, draft_put
<1>11. ASSUME create \/ freeze \/ UNCHANGED vars PROVE worker' = worker /\ life' = life
  BY <1>11 DEF create, freeze, vars, core
<1> QED BY <1>1, <1>2, <1>3, <1>4, <1>5, <1>6, <1>7, <1>8, <1>9, <1>10, <1>11 DEF Next, WorkerStep

-----------------------------------------------------------------------------
(* The requests.                                                              *)

(* What is proved together.                                                   *)
CompilationAll == CompilationInv /\ ValidIsCovered /\ UnmodifiedWasValid

(* The claim of a draft to be its source unmodified is true.                  *)
Supported(d) == d.source # "none" /\ ~d.modified => \E v \in valid : v[1] = d.source /\ v[2] \subseteq d.tree

(* What a step may make of a request.                                         *)
MemMay(c, m) ==
  /\ m.pc \in OnRow => m.k \in Compilations
  /\ m.pc = "link" => life'[m.k] # "absent"
  /\ mem[c].pc = "enqueue" =>
       crashes' # 0 \/ life'[mem[c].k] = "pending" \/ compilation'[mem[c].k].exec \notin Active
  /\ Supported(m.draft)

(* A request that is at nothing holds no draft.                               *)
LEMMA IdleIsMem == Idle \in Mems /\ Idle.pc = "idle" /\ Idle.draft = NoDraft /\ NoDraft \in Drafts
<1>1. NoDraft \in Drafts
  BY DEF NoDraft, Drafts, Schemas
<1> QED BY <1>1, RowTypes DEF Idle, Mems

(* A request may end, unless it is the one that drives a compilation.         *)
LEMMA IdleMay ==
  ASSUME NEW c \in Clients,
         mem[c].pc = "enqueue" =>
           crashes' # 0 \/ life'[mem[c].k] = "pending" \/ compilation'[mem[c].k].exec \notin Active
  PROVE  MemMay(c, Idle)
BY IdleIsMem DEF MemMay, OnRow, Supported, NoDraft

(* What the invariant says of one request, of the draft and of a version.     *)
LEMMA MemsAre ==
  ASSUME CompilationAll
  PROVE  /\ \A c \in Clients :
              /\ mem[c] \in Mems /\ mem[c].k \in Compilations \cup {"none"}
              /\ mem[c].mapping \in Mappings /\ mem[c].sound \in BOOLEAN /\ mem[c].draft \in Drafts
              /\ mem[c].pc \in OnRow => mem[c].k \in Compilations
              /\ mem[c].pc = "link" => life[mem[c].k] # "absent"
              /\ Supported(mem[c].draft)
         /\ draft \in Drafts /\ Supported(draft) /\ \A d \in frozen : d \in Drafts /\ Supported(d)
<1>1. \A c \in Clients : mem[c] \in Mems
  BY DEF CompilationAll, CompilationInv, TypeOK
<1>2. \A d \in Claims : Supported(d)
  BY DEF CompilationAll, UnmodifiedWasValid, Supported
<1>3. draft \in Drafts /\ frozen \subseteq Drafts
  BY DEF CompilationAll, CompilationInv, TypeOK
<1> QED BY <1>1, <1>2, <1>3 DEF Claims, Mems, CompilationAll, CompilationInv, JobsInOrder

(* Every step leaves the requests alone or moves one of them in such a way.   *)
LEMMA MemsChange ==
  ASSUME CompilationAll, [Next]_vars
  PROVE  \/ UNCHANGED mem
         \/ \E c \in Clients, m \in Mems : mem' = [mem EXCEPT ![c] = m] /\ MemMay(c, m)
<1> DEFINE Goal == \E c \in Clients, m \in Mems : mem' = [mem EXCEPT ![c] = m] /\ MemMay(c, m)
<1>0. /\ TypeOK /\ JobsInOrder /\ mem \in [Clients -> Mems]
      /\ \A k \in Compilations : compilation[k] \in Rows
  BY DEF CompilationAll, CompilationInv, TypeOK
<1>1. /\ \A c \in Clients :
           /\ mem[c] \in Mems /\ mem[c].k \in Compilations \cup {"none"}
           /\ mem[c].mapping \in Mappings /\ mem[c].sound \in BOOLEAN /\ mem[c].draft \in Drafts
           /\ mem[c].pc \in OnRow => mem[c].k \in Compilations
           /\ mem[c].pc = "link" => life[mem[c].k] # "absent"
           /\ Supported(mem[c].draft)
      /\ draft \in Drafts /\ Supported(draft) /\ \A d \in frozen : d \in Drafts /\ Supported(d)
  BY MemsAre
<1>2. ASSUME NEW c \in Clients, Goto(c, "idle"),
             mem[c].pc = "enqueue" => crashes' # 0 \/ compilation'[mem[c].k].exec \notin Active
      PROVE  Goal
  <2>1. mem' = [mem EXCEPT ![c] = Idle]
    BY <1>2 DEF Goto
  <2>2. MemMay(c, Idle)
    BY <1>2, IdleMay
  <2> QED BY <2>1, <2>2, IdleIsMem
<1>3. ASSUME NEW c \in Clients, mem[c].pc # "enqueue", NEW m \in Mems, mem' = [mem EXCEPT ![c] = m],
             m.pc \in OnRow => m.k \in Compilations, m.pc # "link", Supported(m.draft)
      PROVE  Goal
  <2>1. MemMay(c, m)
    BY <1>3 DEF MemMay
  <2> QED BY <1>3, <2>1
<1> HIDE DEF Goal
<1>4. ASSUME NEW c \in Clients,
             insert_conflict(c) \/ stream_fail(c) \/ resolve_put(c) \/ link(c) \/ draft_put(c)
      PROVE  Goal
  BY <1>2, <1>4 DEF insert_conflict, stream_fail, resolve_put, link, draft_put
<1>5. ASSUME NEW c \in Clients, enqueue_raises(c) PROVE Goal
  <2>1. mem[c].k \in Compilations /\ compilation' = [compilation EXCEPT ![mem[c].k] = Failed(mem[c].k)]
    BY <1>1, <1>5 DEF enqueue_raises, Write, OnRow
  <2>2. compilation'[mem[c].k].exec \notin Active
    BY <1>0, <2>1 DEF Failed, Active, Rows, TypeOK
  <2> QED BY <1>2, <1>5, <2>2 DEF enqueue_raises
<1>6. ASSUME NEW c \in Clients, enqueue(c) PROVE Goal
  <2> DEFINE m == [mem[c] EXCEPT !.pc = "link"]
  <2>1. /\ mem[c].k \in Compilations /\ life' = [life EXCEPT ![mem[c].k] = "pending"]
        /\ mem' = [mem EXCEPT ![c] = m]
    BY <1>0, <1>1, <1>6 DEF enqueue, Queue!Submit, Goto, OnRow
  <2>2. m \in Mems /\ m.k = mem[c].k /\ m.pc = "link" /\ m.draft = mem[c].draft
    BY <1>1 DEF Mems, OnRow
  <2>3. life'[mem[c].k] = "pending"
    BY <1>0, <2>1 DEF TypeOK
  <2> HIDE DEF m
  <2>4. MemMay(c, m)
    BY <1>1, <2>1, <2>2, <2>3 DEF MemMay
  <2> QED BY <2>1, <2>2, <2>4 DEF Goal
<1>7. ASSUME NEW c \in Clients, insert(c) PROVE Goal
  <2> DEFINE m == [mem[c] EXCEPT !.pc = "enqueue", !.k = New]
  <2>1. New \in Compilations /\ mem' = [mem EXCEPT ![c] = m] /\ mem[c].pc = "insert"
    BY <1>0, <1>7, NewIsUnused DEF insert, AfterInsert
  <2>2. m \in Mems /\ m.k = New /\ m.pc = "enqueue" /\ m.draft = mem[c].draft
    BY <1>1, <2>1 DEF Mems, OnRow
  <2> HIDE DEF m
  <2> QED BY <1>1, <1>3, <2>1, <2>2
<1>8. ASSUME NEW c \in Clients, select_active(c) PROVE Goal
  <2> DEFINE m == [mem[c] EXCEPT !.pc = "insert"]
  <2>1. mem' = [mem EXCEPT ![c] = m] /\ mem[c].pc = "idle"
    BY <1>0, <1>8 DEF select_active, Begin, Goto
  <2>2. m \in Mems /\ m.pc = "insert" /\ m.draft = mem[c].draft
    BY <1>1 DEF Mems
  <2> HIDE DEF m
  <2> QED BY <1>1, <1>3, <2>1, <2>2 DEF OnRow
<1>9. ASSUME NEW c \in Clients, stream(c) PROVE Goal
  <2>1. PICK k \in Compilations : mem' = [mem EXCEPT ![c].pc = "stream_fail", ![c].k = k]
    BY <1>9 DEF stream
  <2> DEFINE m == [mem[c] EXCEPT !.pc = "stream_fail", !.k = k]
  <2>2. mem' = [mem EXCEPT ![c] = m] /\ mem[c].pc = "idle"
    BY <1>0, <1>9, <2>1 DEF stream, Begin
  <2>3. m \in Mems /\ m.pc = "stream_fail" /\ m.k = k /\ m.draft = mem[c].draft
    BY <1>1 DEF Mems, OnRow
  <2> HIDE DEF m
  <2> QED BY <1>1, <1>3, <2>2, <2>3
<1>10. ASSUME NEW c \in Clients, resolve(c) PROVE Goal
  <2>1. PICK k \in Compilations, mp \in Mappings, s \in BOOLEAN :
          mem' = [mem EXCEPT ![c].pc = "resolve_put", ![c].k = k, ![c].mapping = mp, ![c].sound = s]
    BY <1>10 DEF resolve, Mappings
  <2> DEFINE m == [mem[c] EXCEPT !.pc = "resolve_put", !.k = k, !.mapping = mp, !.sound = s]
  <2>2. mem' = [mem EXCEPT ![c] = m] /\ mem[c].pc = "idle"
    BY <1>0, <1>10, <2>1 DEF resolve, Begin
  <2>3. m \in Mems /\ m.pc = "resolve_put" /\ m.k = k /\ m.draft = mem[c].draft
    BY <1>1 DEF Mems, OnRow
  <2> HIDE DEF m
  <2> QED BY <1>1, <1>3, <2>2, <2>3
<1>11. ASSUME NEW c \in Clients, NEW d \in Drafts, Supported(d), mem[c].pc = "idle" \/ mem[c].pc = "merge",
              NEW pc \in {"merge", "draft_put"}, mem' = [mem EXCEPT ![c].pc = pc, ![c].draft = d]
       PROVE  Goal
  <2> DEFINE m == [mem[c] EXCEPT !.pc = pc, !.draft = d]
  <2>1. mem' = [mem EXCEPT ![c] = m]
    BY <1>0, <1>11
  <2>2. m \in Mems /\ m.pc = pc /\ m.draft = d
    BY <1>1 DEF Mems
  <2> HIDE DEF m
  <2> QED BY <1>3, <1>11, <2>1, <2>2 DEF OnRow
<1>12. ASSUME NEW c \in Clients, apply(c) PROVE Goal
  <2>1. PICK k \in Compilations, merge \in BOOLEAN :
          /\ compilation[k].status = "valid"
          /\ mem' = [mem EXCEPT ![c].pc = IF merge THEN "merge" ELSE "draft_put",
               ![c].draft = [tree |-> Tree(compilation[k].mapping), source |-> k,
                             modified |-> FALSE, saved |-> TRUE]]
    BY <1>12 DEF apply
  <2> DEFINE d == [tree |-> Tree(compilation[k].mapping), source |-> k, modified |-> FALSE, saved |-> TRUE]
  <2>2. d \in Drafts
    BY TreeIsSchema DEF Drafts
  <2>3. <<k, Tree(compilation[k].mapping)>> \in valid
    BY <2>1 DEF CompilationAll, CompilationInv, ValidIsRecorded
  <2>4. Supported(d)
    BY <2>3 DEF Supported
  <2>5. mem[c].pc = "idle"
    BY <1>12 DEF apply, Begin
  <2>6. mem' = [mem EXCEPT ![c].pc = IF merge THEN "merge" ELSE "draft_put", ![c].draft = d]
    BY <2>1
  <2> HIDE DEF d
  <2> QED BY <1>11, <2>2, <2>4, <2>5, <2>6
<1>13. ASSUME NEW c \in Clients, merge_draft(c) PROVE Goal
  <2> DEFINE d == [mem[c].draft EXCEPT !.tree = @ \cup draft.tree]
  <2>1. mem[c].pc = "merge" /\ mem' = [mem EXCEPT ![c].pc = "draft_put", ![c].draft = d]
    BY <1>0, <1>1, <1>13 DEF merge_draft, Mems
  <2>2. d \in Drafts /\ d.source = mem[c].draft.source /\ d.modified = mem[c].draft.modified
        /\ mem[c].draft.tree \subseteq d.tree
    BY <1>1 DEF Drafts, Schemas
  <2>3. Supported(d)
    BY <1>1, <2>2 DEF Supported
  <2> HIDE DEF d
  <2> QED BY <1>11, <2>1, <2>2, <2>3
<1>14. ASSUME NEW c \in Clients, save_draft(c) PROVE Goal
  <2>1. PICK tree \in Schemas, k \in (Compilations \ Unused) \cup {"none"} :
          LET new == [tree |-> tree, source |-> k, modified |-> FALSE, saved |-> TRUE] IN
          mem' = [mem EXCEPT ![c].pc = "draft_put", ![c].draft = [new EXCEPT !.modified = Modified(draft, new)]]
    BY <1>14 DEF save_draft
  <2> DEFINE new == [tree |-> tree, source |-> k, modified |-> FALSE, saved |-> TRUE]
             d == [new EXCEPT !.modified = Modified(draft, new)]
  <2>2. Modified(draft, new) \in BOOLEAN
    BY DEF Modified
  <2>3. d \in Drafts /\ d.source = k /\ d.tree = tree /\ d.modified = Modified(draft, new)
    BY <2>2 DEF Drafts
  <2>4. Supported(d)
    <3>1. k # "none" /\ ~Modified(draft, new) => draft.source = k /\ ~draft.modified /\ draft.tree = tree
      BY DEF Modified
    <3> QED BY <1>1, <2>3, <3>1 DEF Supported
  <2>5. mem[c].pc = "idle" /\ mem' = [mem EXCEPT ![c].pc = "draft_put", ![c].draft = d]
    BY <1>14, <2>1 DEF save_draft, Begin
  <2> HIDE DEF d
  <2> QED BY <1>11, <2>3, <2>4, <2>5
<1>15. ASSUME NEW c \in Clients, duplicate_to_draft(c) PROVE Goal
  <2>1. PICK version \in frozen : mem' = [mem EXCEPT ![c].pc = "draft_put", ![c].draft = version]
    BY <1>15 DEF duplicate_to_draft
  <2>2. mem[c].pc = "idle" /\ version \in Drafts /\ Supported(version)
    BY <1>1, <1>15 DEF duplicate_to_draft, Begin
  <2> QED BY <1>11, <2>1, <2>2
<1>16. ASSUME crash PROVE UNCHANGED mem \/ Goal
  <2>1. crashes' # 0
    BY <1>0, <1>16 DEF crash, TypeOK
  <2> QED BY <1>2, <1>16, <2>1 DEF crash
<1>17. ASSUME NEW c \in Clients, QueueRequest(c) \/ Requests(c) PROVE Goal
  BY <1>4, <1>5, <1>6, <1>7, <1>8, <1>9, <1>10, <1>12, <1>13, <1>14, <1>15, <1>17
     DEF QueueRequest, Requests
<1>18. ASSUME create \/ freeze \/ UNCHANGED vars PROVE UNCHANGED mem
  BY <1>18 DEF create, freeze, vars
<1>19. ASSUME NEW k \in Compilations, WorkerStep(k) \/ lease_expires(k) PROVE UNCHANGED mem
  BY <1>19 DEF WorkerStep, lease_expires, dispatch, progress, raises, complete, settle
<1>20. UNCHANGED mem \/ Goal
  BY <1>16, <1>17, <1>18, <1>19 DEF Next
<1> QED BY <1>20 DEF Goal

-----------------------------------------------------------------------------
(* The invariant.                                                             *)

(* A set has at most one element when any two of its elements are the same.   *)
LEMMA AtMostOne ==
  ASSUME NEW S, IsFiniteSet(S)
  PROVE  Cardinality(S) <= 1 <=> \A x, y \in S : x = y
<1>1. ASSUME \A x, y \in S : x = y PROVE Cardinality(S) <= 1
  <2>1. CASE S = {}
    BY <2>1, FS_EmptySet
  <2>2. CASE S # {}
    <3>1. PICK x \in S : TRUE
      BY <2>2
    <3>2. S = {x}
      BY <1>1, <3>1
    <3>3. Cardinality({x}) = 1
      BY FS_Singleton
    <3> QED BY <3>2, <3>3
  <2> QED BY <2>1, <2>2
<1>2. ASSUME NEW x \in S, NEW y \in S, Cardinality(S) <= 1, x # y PROVE FALSE
  <2>1. IsFiniteSet({x}) /\ Cardinality({x}) = 1
    BY FS_Singleton
  <2>2. IsFiniteSet({x} \cup {y}) /\ Cardinality({x} \cup {y}) = 2
    <3>1. y \notin {x}
      BY <1>2
    <3> QED BY <2>1, <3>1, FS_AddElement
  <2>3. {x} \cup {y} \subseteq S
    OBVIOUS
  <2>4. Cardinality({x} \cup {y}) <= Cardinality(S) /\ Cardinality(S) \in Nat
    BY <2>3, FS_Subset, FS_CardinalityType
  <2> QED BY <1>2, <2>2, <2>4
<1> QED BY <1>1, <1>2

(* One compilation is active exactly when no two different ones are.          *)
LEMMA OneActiveIs ==
  OneActive <=> \A j, k \in Compilations :
                  compilation[j].exec \in Active /\ compilation[k].exec \in Active => j = k
<1> DEFINE S == {k \in Compilations : compilation[k].exec \in Active}
<1>1. IsFiniteSet(S)
  <2>1. IsFiniteSet(Compilations)
    BY ConstantsAssumption
  <2> QED BY <2>1, FS_Subset
<1>2. Cardinality(S) <= 1 <=> \A x, y \in S : x = y
  <2> HIDE DEF S
  <2> QED BY <1>1, AtMostOne
<1> QED BY <1>2 DEF OneActive

(* The draft is written by the request that holds it, a version is a draft.   *)
LEMMA DraftsChange ==
  ASSUME CompilationAll, [Next]_vars
  PROVE  /\ draft' = draft \/ \E c \in Clients : draft' = mem[c].draft
         /\ frozen' \subseteq frozen \cup {draft}
<1>1. ASSUME NEW c \in Clients, QueueRequest(c) \/ Requests(c), ~draft_put(c)
      PROVE draft' = draft /\ frozen' = frozen
  BY <1>1 DEF QueueRequest, Requests, insert, insert_conflict, enqueue, enqueue_raises, link,
     select_active, stream, stream_fail, resolve, resolve_put, apply, merge_draft, save_draft,
     duplicate_to_draft
<1>2. ASSUME NEW c \in Clients, draft_put(c) PROVE draft' = mem[c].draft /\ frozen' = frozen
  BY <1>2 DEF draft_put
<1>3. ASSUME freeze PROVE draft' = draft /\ frozen' = frozen \cup {draft}
  BY <1>3 DEF freeze
<1>4. ASSUME create \/ crash \/ UNCHANGED vars PROVE draft' = draft /\ frozen' = frozen
  BY <1>4 DEF create, crash, vars
<1>5. ASSUME NEW k \in Compilations, WorkerStep(k) \/ lease_expires(k)
      PROVE draft' = draft /\ frozen' = frozen
  BY <1>5 DEF WorkerStep, lease_expires, dispatch, progress, raises, complete, settle
<1> QED BY <1>1, <1>2, <1>3, <1>4, <1>5 DEF Next

(* What is counted: no process comes back to life.                            *)
LEMMA CountsChange ==
  ASSUME TypeOK, [Next]_vars
  PROVE  /\ core_failed' \subseteq Compilations
         /\ requests' \in 0 .. MaxRequests
         /\ crashes' \in 0 .. MaxCrashes /\ (crashes' = 0 => crashes = 0)
<1>0. core_failed \subseteq Compilations /\ requests \in 0 .. MaxRequests /\ crashes \in 0 .. MaxCrashes
  BY DEF TypeOK
<1>00. MaxRequests \in Nat /\ MaxCrashes \in Nat
  BY ConstantsAssumption
<1>1. ASSUME NEW c \in Clients, QueueRequest(c) PROVE UNCHANGED <<core_failed, requests, crashes>>
  BY <1>1 DEF QueueRequest, insert, insert_conflict, enqueue, enqueue_raises, link, core, bounds
<1>2. ASSUME NEW c \in Clients, Requests(c)
      PROVE  /\ UNCHANGED <<core_failed, crashes>>
             /\ requests' = requests \/ (requests < MaxRequests /\ requests' = requests + 1)
  BY <1>2 DEF Requests, select_active, stream, stream_fail, resolve, resolve_put, apply, merge_draft,
     save_draft, duplicate_to_draft, draft_put, Begin, core, bounds
<1>3. ASSUME NEW k \in Compilations, WorkerStep(k) \/ lease_expires(k)
      PROVE  UNCHANGED <<requests, crashes>> /\ core_failed' \subseteq core_failed \cup {k}
  BY <1>3 DEF WorkerStep, lease_expires, dispatch, progress, raises, complete, settle, core, bounds
<1>4. ASSUME create \/ freeze \/ UNCHANGED vars PROVE UNCHANGED <<core_failed, requests, crashes>>
  BY <1>4 DEF create, freeze, vars, core, bounds
<1>5. ASSUME crash
      PROVE  UNCHANGED <<core_failed, requests>> /\ crashes < MaxCrashes /\ crashes' = crashes + 1
  BY <1>5 DEF crash, core
<1>6. CASE \E c \in Clients : QueueRequest(c)
  BY <1>0, <1>1, <1>6
<1>7. CASE \E c \in Clients : Requests(c)
  BY <1>0, <1>00, <1>2, <1>7
<1>8. CASE \E k \in Compilations : WorkerStep(k) \/ lease_expires(k)
  BY <1>0, <1>3, <1>8
<1>9. CASE create \/ freeze \/ UNCHANGED vars
  BY <1>0, <1>4, <1>9
<1>10. CASE crash
  BY <1>0, <1>00, <1>5, <1>10
<1> QED BY <1>6, <1>7, <1>8, <1>9, <1>10 DEF Next

(* What the rows keep: their type, the cover of those that are valid, and the *)
(* record of their schemas, which grows.                                      *)
LEMMA RowsKeep ==
  ASSUME CompilationAll, [Next]_vars
  PROVE  /\ compilation' \in [Compilations -> Rows]
         /\ valid \subseteq valid' /\ valid' \subseteq Compilations \X Schemas
         /\ ValidIsCovered' /\ ValidIsRecorded'
         /\ \A k \in Compilations : compilation'[k].linked => life'[k] # "absent"
<1>0. /\ TypeOK /\ JobsInOrder /\ ValidIsCovered /\ ValidIsRecorded
      /\ compilation \in [Compilations -> Rows] /\ valid \subseteq Compilations \X Schemas
      /\ \A k \in Compilations : compilation[k].linked => life[k] # "absent"
  BY DEF CompilationAll, CompilationInv, TypeOK, JobsInOrder
<1>1. \A k \in Compilations : life[k] # "absent" => life'[k] # "absent"
  BY <1>0, LivesChange
<1>2. CASE UNCHANGED <<compilation, valid>>
  BY <1>0, <1>1, <1>2 DEF ValidIsCovered, ValidIsRecorded
<1>3. ASSUME NEW k \in Compilations, NEW row \in Rows, Write(k, row), RowMay(k, row)
      PROVE  /\ compilation' \in [Compilations -> Rows]
             /\ valid \subseteq valid' /\ valid' \subseteq Compilations \X Schemas
             /\ ValidIsCovered' /\ ValidIsRecorded'
             /\ \A j \in Compilations : compilation'[j].linked => life'[j] # "absent"
  <2>1. /\ compilation' \in [Compilations -> Rows]
        /\ \A j \in Compilations : compilation'[j] = IF j = k THEN row ELSE compilation[j]
        /\ valid \subseteq valid' /\ valid' \subseteq Compilations \X Schemas
        /\ row.status = "valid" => <<k, Tree(row.mapping)>> \in valid'
    BY <1>0, <1>3, WriteIs
  <2>2. /\ row.status = "valid" => row.sound /\ Unresolved(row.mapping) = {}
        /\ row.linked => life[k] # "absent"
    BY <1>0, <1>3 DEF RowMay
  <2>3. ValidIsCovered'
    BY <1>0, <2>1, <2>2 DEF ValidIsCovered
  <2>4. ValidIsRecorded'
    BY <1>0, <2>1 DEF ValidIsRecorded
  <2>5. \A j \in Compilations : compilation'[j].linked => life'[j] # "absent"
    BY <1>0, <1>1, <2>1, <2>2
  <2> QED BY <2>1, <2>3, <2>4, <2>5
<1> QED BY <1>0, <1>2, <1>3, RowsChange

(* No step makes a second compilation active.                                 *)
LEMMA OneStaysActive ==
  ASSUME CompilationAll, [Next]_vars
  PROVE  OneActive'
<1>0. TypeOK /\ JobsInOrder /\ ValidIsCovered /\ OneActive
  BY DEF CompilationAll, CompilationInv
<1> DEFINE Pairs == \A j, k \in Compilations :
                      compilation[j].exec \in Active /\ compilation[k].exec \in Active => j = k
<1>1. Pairs
  BY <1>0, OneActiveIs
<1>2. Pairs'
  <2>1. CASE UNCHANGED <<compilation, valid>>
    BY <1>1, <2>1
  <2>2. ASSUME NEW k \in Compilations, NEW row \in Rows, Write(k, row), RowMay(k, row) PROVE Pairs'
    <3>1. \A j \in Compilations : compilation'[j] = IF j = k THEN row ELSE compilation[j]
      BY <1>0, <2>2, WriteIs
    <3>2. row.exec \in Active => \A j \in Compilations \ {k} : compilation[j].exec \notin Active
      BY <1>1, <2>2 DEF RowMay, MayBeActive
    <3> QED BY <1>1, <3>1, <3>2
  <2> HIDE DEF Pairs
  <2> QED BY <1>0, <2>1, <2>2, RowsChange
<1>3. (OneActive <=> Pairs)'
  BY OneActiveIs, PTL
<1> QED BY <1>2, <1>3

(* Unless a process dies, who drives an active compilation hands it on.       *)
LEMMA ActiveStaysDriven ==
  ASSUME CompilationAll, [Next]_vars
  PROVE  ActiveIsDriven'
<1>0. TypeOK /\ JobsInOrder /\ ValidIsCovered /\ ActiveIsDriven /\ mem \in [Clients -> Mems]
  BY DEF CompilationAll, CompilationInv, TypeOK
<1> SUFFICES ASSUME crashes' = 0, NEW k \in Compilations, compilation'[k].exec \in Active
             PROVE  \/ \E c \in Clients : mem'[c].k = k /\ mem'[c].pc = "enqueue"
                    \/ life'[k] = "pending"
                    \/ worker'[k] \in AtWork
  BY DEF ActiveIsDriven
<1>1. crashes = 0
  BY <1>0, CountsChange
<1>2. CASE compilation[k].exec \notin Active
  <2>1. PICK j \in Compilations, row \in Rows : Write(j, row) /\ RowMay(j, row)
    BY <1>0, <1>2, RowsChange
  <2>2. \A i \in Compilations : compilation'[i] = IF i = j THEN row ELSE compilation[i]
    BY <1>0, <2>1, WriteIs
  <2>3. j = k /\ row.exec \in Active
    BY <1>2, <2>2
  <2> QED BY <1>2, <2>1, <2>3 DEF RowMay
<1>3. CASE compilation[k].exec \in Active
  <2>1. CASE life[k] = "pending" \/ worker[k] \in AtWork
    BY <1>0, <2>1, WorkersChange
  <2>2. ASSUME NEW c \in Clients, mem[c].k = k, mem[c].pc = "enqueue"
        PROVE  (mem'[c].k = k /\ mem'[c].pc = "enqueue") \/ life'[k] = "pending"
    <3>1. CASE UNCHANGED mem
      BY <2>2, <3>1
    <3>2. ASSUME NEW d \in Clients, NEW m \in Mems, mem' = [mem EXCEPT ![d] = m], MemMay(d, m)
          PROVE  (mem'[c].k = k /\ mem'[c].pc = "enqueue") \/ life'[k] = "pending"
      BY <1>0, <2>2, <3>2 DEF MemMay
    <3> QED BY <3>1, <3>2, MemsChange
  <2> QED BY <1>0, <1>1, <1>3, <2>1, <2>2 DEF ActiveIsDriven
<1> QED BY <1>2, <1>3

(* What the requests keep: their type, the rows they know, and claims that    *)
(* are true.                                                                  *)
LEMMA MemsKeep ==
  ASSUME CompilationAll, [Next]_vars
  PROVE  /\ mem' \in [Clients -> Mems]
         /\ draft' \in Drafts /\ frozen' \subseteq Drafts
         /\ \A c \in Clients : mem'[c].pc \in OnRow => mem'[c].k \in Compilations
         /\ \A c \in Clients : mem'[c].pc = "link" => life'[mem'[c].k] # "absent"
         /\ UnmodifiedWasValid'
<1>0. TypeOK /\ JobsInOrder /\ mem \in [Clients -> Mems]
  BY DEF CompilationAll, CompilationInv, TypeOK
<1>1. /\ \A c \in Clients :
           /\ mem[c] \in Mems /\ mem[c].draft \in Drafts
           /\ mem[c].pc \in OnRow => mem[c].k \in Compilations
           /\ mem[c].pc = "link" => life[mem[c].k] # "absent"
           /\ Supported(mem[c].draft)
      /\ draft \in Drafts /\ Supported(draft) /\ \A d \in frozen : d \in Drafts /\ Supported(d)
  BY MemsAre
<1>2. \A k \in Compilations : life[k] # "absent" => life'[k] # "absent"
  BY <1>0, LivesChange
<1>3. valid \subseteq valid'
  BY RowsKeep
<1>4. \A c \in Clients : mem'[c] = mem[c] \/ (mem'[c] \in Mems /\ MemMay(c, mem'[c]))
  <2>1. CASE UNCHANGED mem
    BY <2>1
  <2>2. ASSUME NEW d \in Clients, NEW m \in Mems, mem' = [mem EXCEPT ![d] = m], MemMay(d, m)
        PROVE  \A c \in Clients : mem'[c] = mem[c] \/ (mem'[c] \in Mems /\ MemMay(c, mem'[c]))
    BY <1>0, <2>2
  <2> QED BY <2>1, <2>2, MemsChange
<1>5. mem' \in [Clients -> Mems]
  <2>1. CASE UNCHANGED mem
    BY <1>0, <2>1
  <2>2. ASSUME NEW d \in Clients, NEW m \in Mems, mem' = [mem EXCEPT ![d] = m], MemMay(d, m)
        PROVE  mem' \in [Clients -> Mems]
    BY <1>0, <2>2
  <2> QED BY <2>1, <2>2, MemsChange
<1>6. /\ \A c \in Clients : mem'[c].pc \in OnRow => mem'[c].k \in Compilations
      /\ \A c \in Clients : mem'[c].pc = "link" => life'[mem'[c].k] # "absent"
      /\ \A c \in Clients : Supported(mem'[c].draft)
  <2> SUFFICES ASSUME NEW c \in Clients
               PROVE  /\ mem'[c].pc \in OnRow => mem'[c].k \in Compilations
                      /\ mem'[c].pc = "link" => life'[mem'[c].k] # "absent"
                      /\ Supported(mem'[c].draft)
    OBVIOUS
  <2>1. CASE mem'[c] = mem[c]
    BY <1>1, <1>2, <2>1 DEF OnRow
  <2>2. CASE MemMay(c, mem'[c])
    BY <2>2 DEF MemMay
  <2> QED BY <1>4, <2>1, <2>2
<1>7. draft' \in Drafts /\ Supported(draft') /\ \A d \in frozen' : d \in Drafts /\ Supported(d)
  BY <1>1, DraftsChange
<1>8. \A d \in Claims' : Supported(d)
  BY <1>6, <1>7 DEF Claims
<1>9. UnmodifiedWasValid'
  BY <1>3, <1>8 DEF UnmodifiedWasValid, Supported
<1> QED BY <1>5, <1>6, <1>7, <1>9

(* Every step keeps all of it.                                                *)
LEMMA CompilationSteps == CompilationAll /\ [Next]_vars => CompilationAll'
<1> SUFFICES ASSUME CompilationAll, [Next]_vars PROVE CompilationAll'
  OBVIOUS
<1>0. TypeOK /\ JobsInOrder
  BY DEF CompilationAll, CompilationInv
<1>1. TypeOK'
  BY <1>0, RowsKeep, MemsKeep, LivesChange, WorkersChange, CountsChange DEF TypeOK
<1>2. JobsInOrder'
  BY <1>0, RowsKeep, MemsKeep, WorkersChange DEF JobsInOrder
<1>3. OneActive' /\ ActiveIsDriven'
  BY OneStaysActive, ActiveStaysDriven
<1>4. ValidIsRecorded' /\ ValidIsCovered' /\ UnmodifiedWasValid'
  BY RowsKeep, MemsKeep
<1> QED BY <1>1, <1>2, <1>3, <1>4 DEF CompilationAll, CompilationInv

(* Before anything is compiled it holds.                                      *)
LEMMA CompilationStarts == Init => CompilationAll
<1> SUFFICES ASSUME Init PROVE CompilationAll
  OBVIOUS
<1> USE DEF Init
<1>0. MaxRequests \in Nat /\ MaxCrashes \in Nat
  BY ConstantsAssumption
<1>1. Absent \in Rows /\ Absent.exec = "absent" /\ Absent.status = "not_valid" /\ Absent.linked = FALSE
  BY RowTypes DEF Absent
<1>2. \A k \in Compilations : compilation[k] = Absent /\ life[k] = "absent" /\ worker[k] = "absent"
  BY DEF Queue!Init
<1>3. TypeOK
  BY <1>0, <1>1, IdleIsMem DEF TypeOK, Queue!Init
<1>4. \A k \in Compilations : compilation[k].exec \notin Active /\ compilation[k].status # "valid"
        /\ ~compilation[k].linked
  BY <1>1, <1>2 DEF Active
<1>5. OneActive
  BY <1>4, OneActiveIs
<1>6. ActiveIsDriven /\ ValidIsRecorded /\ ValidIsCovered
  BY <1>4 DEF ActiveIsDriven, ValidIsRecorded, ValidIsCovered
<1>7. JobsInOrder
  BY <1>2, <1>4, IdleIsMem DEF JobsInOrder, OnRow
<1>8. UnmodifiedWasValid
  <2>1. \A d \in Claims : d = NoDraft
    BY IdleIsMem DEF Claims
  <2> QED BY <2>1 DEF UnmodifiedWasValid, NoDraft
<1> QED BY <1>3, <1>5, <1>6, <1>7, <1>8 DEF CompilationAll, CompilationInv

-----------------------------------------------------------------------------
(* The theorems.                                                              *)

(* At most one compilation of the task is active and somebody drives it,      *)
(* whatever requests, workers and leases that expire do in between.           *)
THEOREM CompilationCorrect == Spec => []CompilationInv
<1>1. CompilationAll => CompilationInv
  BY DEF CompilationAll
<1> QED BY <1>1, CompilationStarts, CompilationSteps, PTL DEF Spec

(* A compilation that may be applied leaves no requirement of the text        *)
(* unresolved and has no errors.                                              *)
THEOREM ValidCovered == Spec => []ValidIsCovered
<1>1. CompilationAll => ValidIsCovered
  BY DEF CompilationAll
<1> QED BY <1>1, CompilationStarts, CompilationSteps, PTL DEF Spec

(* A draft, version or pending write that claims to be its source unmodified  *)
(* has a schema which that compilation had while it was valid.                *)
THEOREM UnmodifiedIsValid == Spec => []UnmodifiedWasValid
<1>1. CompilationAll => UnmodifiedWasValid
  BY DEF CompilationAll
<1> QED BY <1>1, CompilationStarts, CompilationSteps, PTL DEF Spec

-----------------------------------------------------------------------------
(* The other half of the component: the versions of a task, TaskVersions.     *)
(* Its variables and constants are its own.                                  *)

(* A frozen version never changes, but for the papers it lists.               *)
VersionsGrow ==
  /\ Len(collections') >= Len(collections)
  /\ Kept(schemas, schemas') /\ Kept(contracts, contracts')
  /\ \A v \in 1 .. Len(collections) :
       /\ collections'[v].ids = collections[v].ids /\ collections'[v].count = collections[v].count
       /\ collections[v].papers \subseteq collections'[v].papers
       /\ collections'[v].papers \subseteq collections'[v].ids

(* Which requests a step may concern.                                         *)
OnlyRequest(c) == \A d \in Callers \ {c} : doing'[d] = doing[d]

(* What a request remembers, and the rows of a contract.                      *)
VersionMem ==
  [pc : Steps, ids : SUBSET Candidates, version : Nat, fields : Nat,
   base : CollectionNumber, schema : SchemaNumber, papers : Nat]
ContractRow == [collection : CollectionNumber, schema : SchemaNumber]

(* The versions of each kind are numbered.                                    *)
LEMMA VersionLengths ==
  ASSUME VersionTypes
  PROVE  Len(collections) \in Nat /\ Len(schemas) \in Nat /\ Len(contracts) \in Nat
BY DEF VersionTypes

(* Of a set of candidates the number is known.                                *)
LEMMA PaperNumbers ==
  ASSUME VersionsAssumption, NEW s, s \subseteq Candidates PROVE Cardinality(s) \in Nat
<1>1. IsFiniteSet(Candidates)
  BY DEF VersionsAssumption
<1> QED BY <1>1, FS_Subset, FS_CardinalityType

(* What a sequence of rows of one type is of any larger type.                 *)
LEMMA LargerType == ASSUME NEW S, NEW T, S \subseteq T, NEW s \in Seq(S) PROVE s \in Seq(T)
<1>1. Len(s) \in Nat /\ s = [v \in 1 .. Len(s) |-> s[v]] /\ \A v \in 1 .. Len(s) : s[v] \in T
  OBVIOUS
<1> QED BY <1>1

(* Put writes row v, or appends it when it is the next one.                   *)
LEMMA PutNext ==
  ASSUME NEW S, NEW s \in Seq(S), NEW row \in S, NEW v \in 1 .. Len(s) + 1, ~Taken(s, v)
  PROVE  /\ Put(s, v, row) \in Seq(S) /\ Len(Put(s, v, row)) = Len(s) + 1 /\ v = Len(s) + 1
         /\ Put(s, v, row)[v] = row /\ \A i \in 1 .. Len(s) : Put(s, v, row)[i] = s[i]
<1>1. Len(s) \in Nat /\ v = Len(s) + 1
  BY DEF Taken
<1>2. Put(s, v, row) = Append(s, row)
  BY <1>1 DEF Put
<1> QED BY <1>1, <1>2

(* What is complete stays complete, and what can be told of versions still    *)
(* can.                                                                       *)
LEMMA StaysTrue ==
  ASSUME VersionTypes, RowsAreTrue, VersionsGrow, Len(collections') \in Nat, Len(schemas') \in Nat,
         Len(contracts') \in Nat
  PROVE  /\ \A v : Complete(v) => Complete(v)'
         /\ \A n : Counted(n) => Counted(n)'
         /\ \A n : HasFields(n) => HasFields(n)'
         /\ \A v : Exists(collections, v) => Exists(collections, v)'
            /\ collections'[v].ids = collections[v].ids
         /\ \A v : Exists(schemas, v) => Exists(schemas, v)' /\ schemas'[v] = schemas[v]
<1>1. Len(collections) \in Nat /\ Len(schemas) \in Nat
  BY VersionLengths
<1>2. ASSUME NEW v \in 1 .. Len(collections) PROVE v \in 1 .. Len(collections')
  BY <1>1 DEF VersionsGrow
<1>3. ASSUME NEW v \in 1 .. Len(schemas) PROVE v \in 1 .. Len(schemas') /\ schemas'[v] = schemas[v]
  BY <1>1 DEF VersionsGrow, Kept
<1>4. ASSUME NEW v, Complete(v) PROVE Complete(v)'
  <2>1. v \in 1 .. Len(collections) /\ collections[v].papers = collections[v].ids
        /\ collections[v].count = Cardinality(collections[v].papers)
    BY <1>4 DEF Complete
  <2>2. collections'[v].papers = collections'[v].ids /\ collections'[v].papers = collections[v].papers
        /\ collections'[v].count = collections[v].count
    BY <2>1 DEF VersionsGrow
  <2> QED BY <1>2, <2>1, <2>2 DEF Complete
<1>5. ASSUME NEW n, Counted(n) PROVE Counted(n)'
  BY <1>2, <1>5 DEF Counted, VersionsGrow
<1>6. ASSUME NEW n, HasFields(n) PROVE HasFields(n)'
  BY <1>3, <1>6 DEF HasFields
<1>7. ASSUME NEW v, Exists(collections, v) PROVE Exists(collections, v)'
       /\ collections'[v].ids = collections[v].ids
  BY <1>2, <1>7 DEF Exists, VersionsGrow
<1>8. ASSUME NEW v, Exists(schemas, v) PROVE Exists(schemas, v)' /\ schemas'[v] = schemas[v]
  BY <1>3, <1>8 DEF Exists
<1> QED BY <1>4, <1>5, <1>6, <1>7, <1>8

(* A request that a step does not concern is in order after it.               *)
LEMMA OthersInOrder ==
  ASSUME VersionTypes, RowsAreTrue, VersionsGrow, NEW d \in Callers, InOrder(d),
         doing'[d] = doing[d],
         Len(collections') \in Nat, Len(schemas') \in Nat, Len(contracts') \in Nat
  PROVE  InOrder(d)'
<1>1. /\ 1 .. Len(collections) + 1 \subseteq 1 .. Len(collections') + 1
      /\ 1 .. Len(schemas) + 1 \subseteq 1 .. Len(schemas') + 1
      /\ 1 .. Len(contracts) + 1 \subseteq 1 .. Len(contracts') + 1
  BY VersionLengths DEF VersionsGrow, Kept
<1> QED BY <1>1, StaysTrue DEF InOrder

-----------------------------------------------------------------------------
(* What a step of request c has to do.                                        *)
VersionsKeep(c) ==
  /\ VersionsGrow /\ VersionTypes' /\ RowsAreTrue' /\ CurrentComplete' /\ ReferencesExist'
  /\ OnlyRequest(c) /\ InOrder(c)'

(* A step that only reads is fine when what it has read is.                   *)
LEMMA VersionReadsKeep ==
  ASSUME VersionsInv, NEW c \in Callers, NEW m \in VersionMem,
         doing' = [doing EXCEPT ![c] = m],
         deaths' \in 0 .. MaxDeaths, UNCHANGED tables, InOrder(c)'
  PROVE  VersionsKeep(c)
<1> USE DEF VersionsInv, tables
<1>1. doing \in [Callers -> VersionMem]
  BY DEF VersionTypes, VersionMem
<1>2. doing' \in [Callers -> VersionMem] /\ OnlyRequest(c)
  BY <1>1 DEF OnlyRequest
<1>3. VersionTypes'
  BY <1>2 DEF VersionTypes, VersionMem, Schema, SchemaNumber, CollectionNumber, Collection
<1>4. VersionsGrow
  BY DEF VersionsGrow, Kept, RowsAreTrue, VersionTypes
<1>5. RowsAreTrue' /\ CurrentComplete' /\ ReferencesExist'
  BY DEF RowsAreTrue, CurrentComplete, Complete, ReferencesExist
<1> QED BY <1>2, <1>3, <1>4, <1>5 DEF VersionsKeep

(* What a request at its step knows of its own memory.                        *)
LEMMA VersionMemTypes ==
  ASSUME VersionTypes, NEW c \in Callers
  PROVE  /\ doing[c] \in VersionMem /\ IdleRequest \in VersionMem
         /\ doing \in [Callers -> VersionMem]
         /\ \A l \in Steps : [doing[c] EXCEPT !.pc = l] \in VersionMem
<1>1. doing \in [Callers -> VersionMem]
  BY DEF VersionTypes, VersionMem
<1>2. 0 \in CollectionNumber /\ 0 \in SchemaNumber
  BY VersionLengths DEF CollectionNumber, SchemaNumber
<1>3. IdleRequest \in VersionMem
  BY <1>2 DEF IdleRequest, VersionMem, Steps
<1> QED BY <1>1, <1>3 DEF VersionMem

(* What a request has read becomes part of its memory.                        *)
LEMMA VersionMemWith ==
  ASSUME NEW m \in VersionMem, NEW l \in Steps
  PROVE  /\ \A s \in SUBSET Candidates : [m EXCEPT !.pc = l, !.ids = s] \in VersionMem
         /\ \A n \in Nat : /\ [m EXCEPT !.pc = l, !.version = n] \in VersionMem
                           /\ [m EXCEPT !.pc = l, !.fields = n] \in VersionMem
                           /\ [m EXCEPT !.pc = l, !.papers = n] \in VersionMem
         /\ \A n \in Nat, b \in CollectionNumber : [m EXCEPT !.pc = l, !.fields = n,
            !.base = b] \in VersionMem
         /\ \A b \in CollectionNumber, v \in SchemaNumber :
              [m EXCEPT !.pc = l, !.base = b, !.schema = v] \in VersionMem
BY DEF VersionMem

(* A request that is over is in order.                                        *)
LEMMA IdleInOrder == ASSUME NEW c \in Callers, doing[c].pc = "idle" PROVE InOrder(c)
BY DEF InOrder

(* Where a request goes, everything else it remembers staying.                *)
LEMMA VersionGotoIs ==
  ASSUME VersionTypes, NEW c \in Callers, NEW l \in Steps, VersionGoto(c, l)
  PROVE  /\ doing' = [doing EXCEPT
                             ![c] = IF l = "idle" THEN IdleRequest ELSE [doing[c] EXCEPT !.pc = l]]
         /\ l = "idle" => doing'[c] = IdleRequest /\ doing'[c].pc = "idle"
         /\ l # "idle" => doing'[c] = [doing[c] EXCEPT !.pc = l]
BY VersionMemTypes DEF VersionGoto, IdleRequest, VersionTypes

(* Freezing a collection: what is included is read, then the next number.     *)
LEMMA FreezeCollectionKeeps ==
  ASSUME VersionsInv, NEW c \in Callers, freeze_collection(c) PROVE VersionsKeep(c)
<1> DEFINE m == [doing[c] EXCEPT !.pc = "collection_next", !.ids = included]
<1>1. VersionTypes
  BY DEF VersionsInv
<1>2. doing' = [doing EXCEPT ![c] = m] /\ deaths' \in 0 .. MaxDeaths
      /\ UNCHANGED tables
  BY <1>1, VersionMemTypes DEF freeze_collection, VersionTypes
<1>3. m \in VersionMem
  BY <1>1, VersionMemTypes, VersionMemWith DEF Steps, VersionTypes
<1>4. doing'[c].pc = "collection_next"
  BY <1>1, <1>2, VersionMemTypes DEF VersionMem
<1>5. InOrder(c)'
  BY <1>4 DEF InOrder
<1> QED BY <1>2, <1>3, <1>5, VersionReadsKeep

(* The next number of a table is computed.                                    *)
LEMMA NextVersionKeeps ==
  ASSUME VersionsInv, NEW c \in Callers,
         next_collection_version(c) \/ next_schema_version(c) \/ next_contract_version(c)
  PROVE  VersionsKeep(c)
<1>1. VersionTypes /\ InOrder(c)
  BY DEF VersionsInv, RequestsInOrder
<1>2. /\ Len(collections) + 1 \in Nat /\ Len(schemas) + 1 \in Nat /\ Len(contracts) + 1 \in Nat
      /\ Len(collections) + 1 \in 1 .. Len(collections) + 1
      /\ Len(schemas) + 1 \in 1 .. Len(schemas) + 1 /\ Len(contracts) + 1 \in 1 .. Len(contracts) + 1
  BY <1>1, VersionLengths
<1>3. PICK l \in {"collection_insert", "schema_insert", "contract_insert"}, n \in Nat :
        /\ l = "collection_insert" => n = Len(collections) + 1
        /\ l = "schema_insert" => n = Len(schemas) + 1 /\ doing[c].pc = "schema_next"
        /\ l = "contract_insert" => n = Len(contracts) + 1 /\ doing[c].pc = "contract_next"
        /\ doing' = [doing EXCEPT ![c].pc = l, ![c].version = n]
        /\ UNCHANGED <<tables, deaths>>
  BY <1>2 DEF next_collection_version, next_schema_version, next_contract_version
<1> DEFINE m == [doing[c] EXCEPT !.pc = l, !.version = n]
<1>4. doing' = [doing EXCEPT ![c] = m] /\ deaths' \in 0 .. MaxDeaths
      /\ UNCHANGED tables
  BY <1>1, <1>3, VersionMemTypes DEF VersionTypes
<1>5. m \in VersionMem
  BY <1>1, <1>3, VersionMemTypes, VersionMemWith DEF Steps
<1>6. doing'[c].pc = l /\ doing'[c].version = n
      /\ doing'[c].base = doing[c].base /\ doing'[c].schema = doing[c].schema
  BY <1>1, <1>4, VersionMemTypes DEF VersionMem
<1>7. InOrder(c)'
  BY <1>1, <1>2, <1>3, <1>6 DEF InOrder, tables, Complete, Exists
<1> QED BY <1>4, <1>5, <1>7, VersionReadsKeep

(* The statistics that a request will write back are read.                    *)
LEMMA StatsReadKeeps ==
  ASSUME VersionsInv, NEW c \in Callers, collection_get(c) \/ schema_get(c)
         PROVE VersionsKeep(c)
<1>1. VersionTypes /\ InOrder(c) /\ ReferencesExist
  BY DEF VersionsInv, RequestsInOrder
<1>2. CASE collection_get(c)
  <2> DEFINE m == [doing[c] EXCEPT !.pc = "collection_put", !.fields = task.fields]
  <2>1. doing' = [doing EXCEPT ![c] = m] /\ deaths' \in 0 .. MaxDeaths
        /\ UNCHANGED tables
    BY <1>1, <1>2, VersionMemTypes DEF collection_get, VersionTypes
  <2>2. m \in VersionMem
    BY <1>1, VersionMemTypes, VersionMemWith DEF Steps, VersionTypes
  <2>3. doing'[c].pc = "collection_put" /\ doing'[c].fields = task.fields
        /\ doing'[c].version = doing[c].version /\ doing'[c].ids = doing[c].ids
    BY <1>1, <2>1, VersionMemTypes DEF VersionMem
  <2>4. doing[c].pc = "collection_get"
    BY <1>2 DEF collection_get
  <2>5. task.fields # 0 => HasFields(task.fields)
    BY <1>1 DEF ReferencesExist, HasFields
  <2>6. InOrder(c)'
    BY <1>1, <2>1, <2>3, <2>4, <2>5 DEF InOrder, tables, Complete, Exists, HasFields
  <2> QED BY <2>1, <2>2, <2>6, VersionReadsKeep
<1>3. CASE schema_get(c)
  <2> DEFINE m == [doing[c] EXCEPT !.pc = "schema_put", !.papers = task.papers]
  <2>1. doing' = [doing EXCEPT ![c] = m] /\ deaths' \in 0 .. MaxDeaths
        /\ UNCHANGED tables
    BY <1>1, <1>3, VersionMemTypes DEF schema_get, VersionTypes
  <2>2. m \in VersionMem
    BY <1>1, VersionMemTypes, VersionMemWith DEF Steps, VersionTypes
  <2>3. doing'[c].pc = "schema_put" /\ doing'[c].papers = task.papers
        /\ doing'[c].version = doing[c].version
        /\ doing'[c].fields = doing[c].fields
    BY <1>1, <2>1, VersionMemTypes DEF VersionMem
  <2>4. doing[c].pc = "schema_get"
    BY <1>3 DEF schema_get
  <2>5. task.papers # 0 => Counted(task.papers)
    BY <1>1 DEF ReferencesExist, Counted
  <2>6. InOrder(c)'
    BY <1>1, <2>1, <2>3, <2>4, <2>5 DEF InOrder, tables, Exists, Counted
  <2> QED BY <2>1, <2>2, <2>6, VersionReadsKeep
<1> QED BY <1>2, <1>3

(* A draft is about to be saved, based on the current collection.             *)
LEMMA SaveDraftKeeps ==
  ASSUME VersionsInv, NEW c \in Callers, NEW n \in Nat, save_schema_draft(c, n) PROVE VersionsKeep(c)
<1> DEFINE m == [doing[c] EXCEPT !.pc = "draft_put", !.fields = n, !.base = task.collection]
<1>1. VersionTypes /\ CurrentComplete
  BY DEF VersionsInv
<1>2. doing' = [doing EXCEPT ![c] = m] /\ deaths' \in 0 .. MaxDeaths
      /\ UNCHANGED tables
  BY <1>1, VersionMemTypes DEF save_schema_draft, VersionTypes
<1>3. m \in VersionMem
  BY <1>1, VersionMemTypes, VersionMemWith DEF Steps, VersionTypes
<1>4. doing'[c].pc = "draft_put" /\ doing'[c].base = task.collection
  BY <1>1, <1>2, VersionMemTypes DEF VersionMem
<1>5. Complete(task.collection)
  BY <1>1 DEF save_schema_draft, CurrentComplete
<1>6. InOrder(c)'
  BY <1>2, <1>4, <1>5 DEF InOrder, Complete, tables
<1> QED BY <1>2, <1>3, <1>6, VersionReadsKeep

(* The draft is read to be frozen: it has a collection.                       *)
LEMMA FreezeSchemaKeeps ==
  ASSUME VersionsInv, NEW c \in Callers, freeze_schema(c) PROVE VersionsKeep(c)
<1> DEFINE m == [doing[c] EXCEPT !.pc = "schema_next", !.fields = version_draft.fields,
       !.base = version_draft.base]
<1>1. VersionTypes /\ CurrentComplete /\ RowsAreTrue
  BY DEF VersionsInv
<1>2. doing' = [doing EXCEPT ![c] = m] /\ deaths' \in 0 .. MaxDeaths
      /\ UNCHANGED tables
  BY <1>1, VersionMemTypes DEF freeze_schema, VersionTypes
<1>3. m \in VersionMem
  BY <1>1, VersionMemTypes, VersionMemWith DEF Steps, VersionTypes, Schema
<1>4. doing'[c].pc = "schema_next" /\ doing'[c].base = version_draft.base
  BY <1>1, <1>2, VersionMemTypes DEF VersionMem
<1>5. Complete(version_draft.base)
  BY <1>1 DEF freeze_schema, CurrentComplete, RowsAreTrue
<1>6. InOrder(c)'
  BY <1>2, <1>4, <1>5 DEF InOrder, Complete, tables
<1> QED BY <1>2, <1>3, <1>6, VersionReadsKeep

(* A contract is asked for, of versions that exist.                           *)
LEMMA CompileContractKeeps ==
  ASSUME VersionsInv, NEW c \in Callers, compile_contract(c) PROVE VersionsKeep(c)
<1>1. VersionTypes
  BY DEF VersionsInv
<1>2. PICK v \in 1 .. Len(collections), w \in 1 .. Len(schemas) :
        doing' = [doing EXCEPT ![c].pc = "contract_next", ![c].base = v, ![c].schema = w]
  BY DEF compile_contract, Exists
<1> DEFINE m == [doing[c] EXCEPT !.pc = "contract_next", !.base = v, !.schema = w]
<1>3. doing' = [doing EXCEPT ![c] = m] /\ deaths' \in 0 .. MaxDeaths
      /\ UNCHANGED tables
  BY <1>1, <1>2, VersionMemTypes DEF compile_contract, VersionTypes
<1>4. v \in CollectionNumber /\ w \in SchemaNumber
  BY <1>1, VersionLengths DEF CollectionNumber, SchemaNumber
<1>5. m \in VersionMem
  BY <1>1, <1>4, VersionMemTypes, VersionMemWith DEF Steps
<1>6. doing'[c].pc = "contract_next" /\ doing'[c].base = v /\ doing'[c].schema = w
  BY <1>1, <1>3, VersionMemTypes DEF VersionMem
<1>7. InOrder(c)'
  BY <1>3, <1>6 DEF InOrder, Exists, tables
<1> QED BY <1>3, <1>5, <1>7, VersionReadsKeep

(* A request raises or dies.                                                  *)
LEMMA VersionEndsKeep ==
  ASSUME VersionsInv, NEW c \in Callers, conflict(c) \/ request_dies(c) PROVE VersionsKeep(c)
<1>1. VersionTypes
  BY DEF VersionsInv
<1>2. VersionGoto(c, "idle") /\ deaths' \in 0 .. MaxDeaths /\ UNCHANGED tables
  BY <1>1, VersionsAssumption DEF conflict, request_dies, VersionTypes
<1>3. doing' = [doing EXCEPT ![c] = IdleRequest] /\ doing'[c].pc = "idle"
  BY <1>1, <1>2, VersionGotoIs DEF Steps
<1>4. InOrder(c)'
  BY <1>3 DEF InOrder
<1> QED BY <1>1, <1>2, <1>3, <1>4, VersionMemTypes, VersionReadsKeep

-----------------------------------------------------------------------------
(* Steps that write.                                                          *)
TaskRow == [collection : CollectionNumber, schema : SchemaNumber, papers : Nat, fields : Nat]

(* With more versions, what had a type still has it.                          *)
LEMMA VersionTypesGrow ==
  ASSUME VersionTypes, Len(collections') \in Nat, Len(schemas') \in Nat,
         Len(collections') >= Len(collections), Len(schemas') >= Len(schemas)
  PROVE  /\ CollectionNumber \subseteq CollectionNumber'
         /\ SchemaNumber \subseteq SchemaNumber'
         /\ schemas \in Seq(Schema') /\ contracts \in Seq(ContractRow')
         /\ version_draft \in Schema' /\ task \in TaskRow' /\ VersionMem \subseteq VersionMem'
         /\ Schema \subseteq Schema'
<1>1. CollectionNumber \subseteq CollectionNumber' /\ SchemaNumber \subseteq SchemaNumber'
  BY VersionLengths DEF CollectionNumber, SchemaNumber
<1>2. Schema \subseteq Schema' /\ ContractRow \subseteq ContractRow'
      /\ VersionMem \subseteq VersionMem' /\ TaskRow \subseteq TaskRow'
  BY <1>1 DEF Schema, ContractRow, VersionMem, TaskRow
<1>3. schemas \in Seq(Schema) /\ contracts \in Seq(ContractRow) /\ version_draft \in Schema
      /\ task \in TaskRow
  BY DEF VersionTypes, ContractRow, TaskRow
<1> HIDE DEF Schema, ContractRow, VersionMem, TaskRow
<1>4. schemas \in Seq(Schema') /\ contracts \in Seq(ContractRow')
  BY <1>2, <1>3, LargerType
<1> QED BY <1>1, <1>2, <1>3, <1>4

(* A step that writes one table and the memory of its request, which knows    *)
(* nothing new, keeps the types.                                              *)
LEMMA WritesAreTyped ==
  ASSUME VersionTypes, NEW c \in Callers, NEW m \in VersionMem,
         doing' = [doing EXCEPT ![c] = m],
         included' \subseteq Candidates, collections' \in Seq(Collection),
              version_draft' \in Schema',
         schemas' \in Seq(Schema'), contracts' \in Seq(ContractRow'), task' \in TaskRow',
         deaths' \in 0 .. MaxDeaths, VersionMem \subseteq VersionMem'
  PROVE  VersionTypes' /\ OnlyRequest(c) /\ doing'[c] = m
<1>1. doing' \in [Callers -> VersionMem] /\ OnlyRequest(c) /\ doing'[c] = m
  BY VersionMemTypes DEF OnlyRequest
<1>2. doing' \in [Callers -> VersionMem']
  BY <1>1
<1> HIDE DEF VersionMem
<1>3. VersionTypes'
  BY <1>2 DEF VersionTypes, VersionMem, Schema, ContractRow, TaskRow, SchemaNumber,
     CollectionNumber, Collection
<1> QED BY <1>1, <1>3

(* Decisions of the user concern no version.                                  *)
LEMMA DecisionKeeps ==
  ASSUME VersionsInv, NEW x \in Candidates, NEW d, set_decision(x, d)
  PROVE  VersionsGrow /\ VersionTypes' /\ RowsAreTrue' /\ CurrentComplete' /\ ReferencesExist'
       /\ doing' = doing
<1> USE DEF VersionsInv, set_decision
<1>1. VersionTypes'
  BY DEF VersionTypes, Schema, SchemaNumber, CollectionNumber, Collection
<1>2. VersionsGrow
  BY DEF VersionsGrow, Kept, RowsAreTrue, VersionTypes
<1>3. RowsAreTrue' /\ CurrentComplete' /\ ReferencesExist'
  BY DEF RowsAreTrue, CurrentComplete, Complete, ReferencesExist
<1> QED BY <1>1, <1>2, <1>3

(* The row of a collection is inserted, without its papers.                   *)
LEMMA InsertCollectionKeeps ==
  ASSUME VersionsAssumption, VersionsInv, NEW c \in Callers, insert_collection(c)
  PROVE  VersionsKeep(c)
<1> DEFINE r == [count |-> Cardinality(doing[c].ids), ids |-> doing[c].ids, papers |-> {}]
           v == doing[c].version
           m == [doing[c] EXCEPT !.pc = "insert_papers"]
<1>1. VersionTypes /\ InOrder(c) /\ RowsAreTrue /\ CurrentComplete /\ ReferencesExist
  BY DEF VersionsInv, RequestsInOrder
<1>2. doing[c].pc = "collection_insert" /\ v \in 1 .. Len(collections) + 1
      /\ ~Taken(collections, v)
  BY <1>1 DEF insert_collection, InOrder
<1>3. r \in Collection /\ collections \in Seq(Collection)
  <2>1. doing[c].ids \subseteq Candidates
    BY <1>1, VersionMemTypes DEF VersionMem
  <2> QED BY <1>1, <2>1, PaperNumbers DEF Collection, VersionTypes
<1>4. collections' = Put(collections, v, r)
  BY DEF insert_collection
<1> HIDE DEF v, r
<1>5. /\ collections' \in Seq(Collection) /\ Len(collections') = Len(collections) + 1
      /\ v = Len(collections) + 1
      /\ collections'[v] = r /\ \A i \in 1 .. Len(collections) : collections'[i] = collections[i]
  BY <1>2, <1>3, <1>4, PutNext
<1>6. UNCHANGED <<included, version_draft, schemas, contracts, task, deaths>>
  BY DEF insert_collection
<1>7. /\ Len(collections) \in Nat /\ Len(schemas) \in Nat /\ Len(contracts) \in Nat
      /\ Len(collections') \in Nat /\ Len(schemas') \in Nat /\ Len(contracts') \in Nat
  BY <1>1, <1>5, <1>6, VersionLengths
<1>8. doing' = [doing EXCEPT ![c] = m] /\ m \in VersionMem
  BY <1>1, VersionGotoIs, VersionMemTypes DEF insert_collection, AfterVersion, Steps
<1>9. VersionTypes' /\ OnlyRequest(c) /\ doing'[c] = m
  <2>1. /\ version_draft \in Schema' /\ schemas \in Seq(Schema')
        /\ contracts \in Seq(ContractRow')
        /\ task \in TaskRow' /\ VersionMem \subseteq VersionMem'
    BY <1>1, <1>5, <1>6, <1>7, VersionTypesGrow
  <2>2. included' \subseteq Candidates /\ deaths' \in 0 .. MaxDeaths
    BY <1>1, <1>6 DEF VersionTypes
  <2> HIDE DEF m
  <2> QED BY <1>1, <1>5, <1>6, <1>8, <2>1, <2>2, WritesAreTyped
<1>10. VersionsGrow
  BY <1>1, <1>5, <1>6, <1>7 DEF VersionsGrow, Kept, RowsAreTrue
<1>11. RowsAreTrue'
  BY <1>1, <1>5, <1>6, <1>7 DEF RowsAreTrue, r
<1>12. CurrentComplete' /\ ReferencesExist'
  BY <1>1, <1>6, <1>7, <1>10, StaysTrue DEF CurrentComplete, ReferencesExist, Counted
<1>13. m.pc = "insert_papers" /\ m.version = v /\ m.ids = doing[c].ids
  BY <1>1, VersionMemTypes DEF VersionMem, v
<1>14. InOrder(c)'
  BY <1>5, <1>7, <1>9, <1>13 DEF InOrder, Exists, r
<1> QED BY <1>9, <1>10, <1>11, <1>12, <1>14 DEF VersionsKeep

(* A row of a sequence is replaced by another.                                *)
LEMMA RowReplaced ==
  ASSUME NEW S, NEW s \in Seq(S), NEW v \in 1 .. Len(s), NEW row \in S
  PROVE  [s EXCEPT ![v] = row] \in Seq(S)
OBVIOUS

(* A paper that the version lists is inserted; with the last one the version  *)
(* is complete.                                                               *)
LEMMA InsertPaperKeeps ==
  ASSUME VersionsInv, NEW c \in Callers, insert_paper(c) PROVE VersionsKeep(c)
<1>0. PICK v : v = doing[c].version
  OBVIOUS
<1>1. VersionTypes /\ InOrder(c) /\ RowsAreTrue /\ CurrentComplete /\ ReferencesExist
  BY DEF VersionsInv, RequestsInOrder
<1>2. doing[c].pc = "insert_papers" /\ v \in 1 .. Len(collections)
      /\ collections[v].ids = doing[c].ids
  BY <1>0, <1>1 DEF insert_paper, InOrder, Exists
<1>3. PICK x \in doing[c].ids \ collections[v].papers :
        /\ collections' = [collections EXCEPT ![v].papers = @ \cup {x}]
        /\ VersionGoto(c, IF collections'[v].papers = doing[c].ids THEN "collection_get" ELSE "insert_papers")
  BY <1>0 DEF insert_paper
<1> DEFINE l == IF collections'[v].papers = doing[c].ids THEN "collection_get" ELSE "insert_papers"
           m == [doing[c] EXCEPT !.pc = l]
<1>4. UNCHANGED <<included, version_draft, schemas, contracts, task, deaths>>
  BY DEF insert_paper
<1>5. collections \in Seq(Collection) /\ Len(collections) \in Nat
      /\ \A i \in 1 .. Len(collections) : collections[i] \in Collection
  BY <1>1, VersionLengths DEF VersionTypes
<1>6. m \in VersionMem /\ doing' = [doing EXCEPT ![c] = m]
  BY <1>1, <1>3, VersionGotoIs, VersionMemTypes DEF Steps
<1>7. m.pc = l /\ m.version = v /\ m.ids = doing[c].ids
  BY <1>0, <1>1, VersionMemTypes DEF VersionMem
<1> HIDE DEF l, m
<1>8. /\ collections'[v] = [collections[v] EXCEPT !.papers = @ \cup {x}]
      /\ \A i \in 1 .. Len(collections) : i # v => collections'[i] = collections[i]
      /\ Len(collections') = Len(collections)
  <2>1. collections = [i \in 1 .. Len(collections) |-> collections[i]]
    BY <1>5
  <2>2. collections' = [i \in 1 .. Len(collections) |->
                          IF i = v THEN [collections[v] EXCEPT !.papers = @ \cup {x}] ELSE collections[i]]
    BY <1>2, <1>3, <2>1
  <2>3. Len(collections') = Len(collections)
    BY <1>5, <2>2
  <2> QED BY <1>2, <2>2, <2>3
<1>9. collections'[v].ids = collections[v].ids /\ collections'[v].count = collections[v].count
      /\ collections'[v].papers = collections[v].papers \cup {x}
  BY <1>2, <1>5, <1>8 DEF Collection
<1>10. collections'[v] \in Collection
  BY <1>2, <1>3, <1>5, <1>8 DEF Collection
<1>11. collections' \in Seq(Collection)
  <2>1. collections' = [collections EXCEPT ![v] = collections'[v]]
    BY <1>3, <1>5, <1>8
  <2> QED BY <1>2, <1>5, <1>10, <2>1, RowReplaced
<1>12. /\ Len(schemas) \in Nat /\ Len(contracts) \in Nat
       /\ Len(collections') \in Nat /\ Len(schemas') \in Nat /\ Len(contracts') \in Nat
  BY <1>1, <1>4, <1>5, <1>8, VersionLengths
<1>13. VersionTypes' /\ OnlyRequest(c) /\ doing'[c] = m
  <2>1. /\ version_draft \in Schema' /\ schemas \in Seq(Schema')
        /\ contracts \in Seq(ContractRow')
        /\ task \in TaskRow' /\ VersionMem \subseteq VersionMem'
    BY <1>1, <1>4, <1>5, <1>8, <1>12, VersionTypesGrow
  <2>2. included' \subseteq Candidates /\ deaths' \in 0 .. MaxDeaths
    BY <1>1, <1>4 DEF VersionTypes
  <2> QED BY <1>1, <1>4, <1>6, <1>11, <2>1, <2>2, WritesAreTyped
<1>14. VersionsGrow
  BY <1>1, <1>2, <1>3, <1>4, <1>8, <1>9, <1>12 DEF VersionsGrow, Kept, RowsAreTrue
<1>15. RowsAreTrue'
  BY <1>1, <1>2, <1>3, <1>4, <1>8, <1>9 DEF RowsAreTrue
<1>16. CurrentComplete' /\ ReferencesExist'
  BY <1>1, <1>4, <1>12, <1>14, StaysTrue DEF CurrentComplete, ReferencesExist, Counted
<1>17. m.pc \in {"collection_get", "insert_papers"} /\ (m.pc = "collection_get" => Complete(v)')
  <2>1. m.pc = "collection_get" => collections'[v].papers = doing[c].ids
    BY <1>7 DEF l
  <2>2. v \in 1 .. Len(collections') /\ collections'[v].ids = doing[c].ids
    BY <1>2, <1>8, <1>9
  <2>3. collections'[v].count = Cardinality(collections'[v].ids)
    BY <1>15, <2>2 DEF RowsAreTrue
  <2> QED BY <1>7, <2>1, <2>2, <2>3 DEF l, Complete
<1>18. InOrder(c)'
  BY <1>2, <1>7, <1>8, <1>9, <1>13, <1>17 DEF InOrder, Exists
<1> QED BY <1>13, <1>14, <1>15, <1>16, <1>18 DEF VersionsKeep

(* A step that writes no version and ends its request: what it has written is *)
(* in the draft or in the row of the task.                                    *)
LEMMA VersionPutsKeep ==
  ASSUME VersionsInv, NEW c \in Callers, VersionGoto(c, "idle"), version_draft' \in Schema,
         task' \in TaskRow,
         UNCHANGED <<included, collections, schemas, contracts, deaths>>,
         version_draft' # NoSchemaDraft => Complete(version_draft'.base),
         task'.collection # 0 => Complete(task'.collection),
         task'.papers # 0 => Counted(task'.papers), task'.fields # 0 => HasFields(task'.fields),
         version_draft' = version_draft \/ version_draft'.base # 0
  PROVE  VersionsKeep(c)
<1>1. VersionTypes /\ RowsAreTrue /\ CurrentComplete /\ ReferencesExist
  BY DEF VersionsInv
<1>2. doing' = [doing EXCEPT ![c] = IdleRequest] /\ IdleRequest \in VersionMem
      /\ doing'[c].pc = "idle"
  BY <1>1, VersionGotoIs, VersionMemTypes DEF Steps
<1>3. /\ schemas \in Seq(Schema') /\ contracts \in Seq(ContractRow')
      /\ VersionMem \subseteq VersionMem'
      /\ Schema \subseteq Schema' /\ TaskRow = TaskRow'
  <2>1. Len(collections') \in Nat /\ Len(schemas') \in Nat
        /\ Len(collections') >= Len(collections) /\ Len(schemas') >= Len(schemas)
    BY <1>1, VersionLengths
  <2>2. TaskRow = TaskRow'
    BY DEF TaskRow, CollectionNumber, SchemaNumber
  <2> QED BY <1>1, <2>1, <2>2, VersionTypesGrow
<1>4. VersionTypes' /\ OnlyRequest(c)
  <2>1. included' \subseteq Candidates /\ deaths' \in 0 .. MaxDeaths
        /\ collections' \in Seq(Collection)
    BY <1>1 DEF VersionTypes
  <2> HIDE DEF IdleRequest
  <2> QED BY <1>1, <1>2, <1>3, <2>1, WritesAreTyped
<1>5. VersionsGrow
  BY <1>1 DEF VersionsGrow, Kept, RowsAreTrue, VersionTypes
<1>6. RowsAreTrue'
  BY <1>1 DEF RowsAreTrue, NoSchemaDraft
<1>7. CurrentComplete'
  <2>1. version_draft'.base # 0 => Complete(version_draft'.base)
    BY DEF NoSchemaDraft
  <2>2. \A v \in 1 .. Len(schemas) : Complete(schemas[v].base)
    BY <1>1 DEF CurrentComplete
  <2>3. \A v : Complete(v) => Complete(v)'
    BY DEF Complete
  <2>4. task'.collection # 0 => Complete(task'.collection)
    OBVIOUS
  <2> QED BY <2>1, <2>2, <2>4 DEF CurrentComplete, Complete
<1>8. ReferencesExist'
  BY <1>1 DEF ReferencesExist, Counted, HasFields
<1>9. InOrder(c)'
  BY <1>2 DEF InOrder
<1> QED BY <1>4, <1>5, <1>6, <1>7, <1>8, <1>9 DEF VersionsKeep

(* The draft is saved.                                                        *)
LEMMA DraftPutKeeps ==
  ASSUME VersionsInv, NEW c \in Callers, schema_draft_put(c) PROVE VersionsKeep(c)
<1>1. VersionTypes /\ InOrder(c) /\ ReferencesExist /\ CurrentComplete
      /\ doing[c].pc = "draft_put"
  BY DEF VersionsInv, RequestsInOrder, schema_draft_put
<1>2. Complete(doing[c].base) /\ doing[c].base # 0
  BY <1>1 DEF InOrder, Complete
<1>3. version_draft' = [fields |-> doing[c].fields, base |-> doing[c].base]
  BY DEF schema_draft_put, Base
<1>4. version_draft' \in Schema /\ task' \in TaskRow
  BY <1>1, <1>3, VersionMemTypes DEF schema_draft_put, Schema, VersionMem, TaskRow, VersionTypes
<1>5. /\ task'.collection # 0 => Complete(task'.collection)
      /\ task'.papers # 0 => Counted(task'.papers)
      /\ task'.fields # 0 => HasFields(task'.fields)
  BY <1>1 DEF schema_draft_put, CurrentComplete, ReferencesExist, Counted, HasFields
<1> QED BY <1>2, <1>3, <1>4, <1>5, VersionPutsKeep DEF schema_draft_put

(* The task is told of the frozen collection.                                 *)
LEMMA CollectionPutKeeps ==
  ASSUME VersionsAssumption, VersionsInv, NEW c \in Callers, collection_put(c)
  PROVE  VersionsKeep(c)
<1>1. VersionTypes /\ InOrder(c) /\ RowsAreTrue /\ CurrentComplete /\ ReferencesExist
      /\ doing[c].pc = "collection_put" /\ doing[c] \in VersionMem
  BY VersionMemTypes DEF VersionsInv, RequestsInOrder, collection_put
<1>2. Complete(doing[c].version)
      /\ collections[doing[c].version].ids = doing[c].ids
      /\ (doing[c].fields # 0 => HasFields(doing[c].fields))
  BY <1>1 DEF InOrder
<1>3. Counted(PaperCount(c))
  BY <1>2 DEF Complete, Counted, PaperCount
<1>4. /\ task'.collection = doing[c].version /\ task'.papers = PaperCount(c)
      /\ task'.fields = doing[c].fields
      /\ task' = [task EXCEPT !.collection = doing[c].version, !.papers = PaperCount(c),
         !.fields = doing[c].fields]
  BY <1>1 DEF collection_put, VersionTypes
<1>5. task' \in TaskRow
  <2>1. doing[c].version \in CollectionNumber
    BY <1>1, <1>2, VersionLengths DEF Complete, CollectionNumber
  <2>2. PaperCount(c) \in Nat /\ doing[c].fields \in Nat
    BY <1>1, PaperNumbers DEF PaperCount, VersionMem
  <2> QED BY <1>1, <1>4, <2>1, <2>2 DEF TaskRow, VersionTypes
<1>6. version_draft' = version_draft /\ version_draft \in Schema
      /\ (version_draft # NoSchemaDraft => Complete(version_draft.base))
  BY <1>1 DEF collection_put, VersionTypes, CurrentComplete, RowsAreTrue
<1> QED BY <1>2, <1>3, <1>4, <1>5, <1>6, VersionPutsKeep DEF collection_put

(* The task is told of the frozen schema.                                     *)
LEMMA SchemaPutKeeps ==
  ASSUME VersionsInv, NEW c \in Callers, schema_put(c) PROVE VersionsKeep(c)
<1>1. VersionTypes /\ InOrder(c) /\ RowsAreTrue /\ CurrentComplete /\ ReferencesExist
      /\ doing[c].pc = "schema_put" /\ doing[c] \in VersionMem
  BY VersionMemTypes DEF VersionsInv, RequestsInOrder, schema_put
<1>2. doing[c].version \in 1 .. Len(schemas)
      /\ schemas[doing[c].version].fields = doing[c].fields
      /\ (doing[c].papers # 0 => Counted(doing[c].papers))
  BY <1>1 DEF InOrder, Exists
<1>3. HasFields(doing[c].fields)
  BY <1>2 DEF HasFields
<1>4. /\ task'.collection = task.collection /\ task'.papers = doing[c].papers
      /\ task'.fields = doing[c].fields
      /\ task' = [task EXCEPT !.schema = doing[c].version, !.fields = doing[c].fields,
         !.papers = doing[c].papers]
  BY <1>1 DEF schema_put, VersionTypes
<1>5. task' \in TaskRow
  <2>1. doing[c].version \in SchemaNumber
    BY <1>1, <1>2, VersionLengths DEF SchemaNumber
  <2>2. doing[c].papers \in Nat /\ doing[c].fields \in Nat
    BY <1>1 DEF VersionMem
  <2> QED BY <1>1, <1>4, <2>1, <2>2 DEF TaskRow, VersionTypes
<1>6. version_draft' = version_draft /\ version_draft \in Schema
      /\ (version_draft # NoSchemaDraft => Complete(version_draft.base))
  BY <1>1 DEF schema_put, VersionTypes, CurrentComplete, RowsAreTrue
<1>7. task.collection # 0 => Complete(task.collection)
  BY <1>1 DEF CurrentComplete
<1> QED BY <1>2, <1>3, <1>4, <1>5, <1>6, <1>7, VersionPutsKeep DEF schema_put

(* The row of a schema is inserted.                                           *)
LEMMA InsertSchemaKeeps ==
  ASSUME VersionsInv, NEW c \in Callers, insert_schema(c) PROVE VersionsKeep(c)
<1>0. PICK v, r : v = doing[c].version
       /\ r = [fields |-> doing[c].fields, base |-> doing[c].base]
  OBVIOUS
<1> DEFINE m == [doing[c] EXCEPT !.pc = "schema_get"]
<1>1. VersionTypes /\ InOrder(c) /\ RowsAreTrue /\ CurrentComplete /\ ReferencesExist
  BY DEF VersionsInv, RequestsInOrder
<1>2. doing[c].pc = "schema_insert" /\ v \in 1 .. Len(schemas) + 1 /\ ~Taken(schemas, v)
      /\ Complete(r.base)
  BY <1>0, <1>1 DEF insert_schema, InOrder
<1>3. r \in Schema /\ schemas \in Seq(Schema)
  BY <1>0, <1>1, VersionMemTypes DEF VersionMem, Schema, VersionTypes
<1>4. schemas' = Put(schemas, v, r) /\ UNCHANGED <<included, collections, version_draft, contracts,
       task, deaths>>
  BY <1>0 DEF insert_schema
<1>5. /\ schemas' \in Seq(Schema) /\ Len(schemas') = Len(schemas) + 1 /\ v = Len(schemas) + 1
      /\ schemas'[v] = r /\ \A i \in 1 .. Len(schemas) : schemas'[i] = schemas[i]
  <2> HIDE DEF Schema
  <2>1. PICK S, s, w : S = Schema /\ s = schemas /\ w = v
    OBVIOUS
  <2>2. /\ Put(s, w, r) \in Seq(S) /\ Len(Put(s, w, r)) = Len(s) + 1 /\ w = Len(s) + 1
        /\ Put(s, w, r)[w] = r /\ \A i \in 1 .. Len(s) : Put(s, w, r)[i] = s[i]
    BY <1>2, <1>3, <2>1, PutNext
  <2> QED BY <1>4, <2>1, <2>2
<1>6. /\ Len(collections) \in Nat /\ Len(schemas) \in Nat /\ Len(contracts) \in Nat
      /\ Len(collections') \in Nat /\ Len(schemas') \in Nat /\ Len(contracts') \in Nat
  BY <1>1, <1>4, <1>5, VersionLengths
<1>7. doing' = [doing EXCEPT ![c] = m] /\ m \in VersionMem
  BY <1>1, VersionGotoIs, VersionMemTypes DEF insert_schema, Steps
<1>8. m.pc = "schema_get" /\ m.version = v /\ m.fields = r.fields
  BY <1>0, <1>1, VersionMemTypes DEF VersionMem
<1>9. VersionTypes' /\ OnlyRequest(c) /\ doing'[c] = m
  <2>1. /\ version_draft \in Schema' /\ contracts \in Seq(ContractRow') /\ task \in TaskRow'
        /\ VersionMem \subseteq VersionMem'
    BY <1>1, <1>4, <1>5, <1>6, VersionTypesGrow
  <2>2. /\ included' \subseteq Candidates /\ deaths' \in 0 .. MaxDeaths
        /\ collections' \in Seq(Collection)
        /\ Schema' = Schema
    BY <1>1, <1>4 DEF VersionTypes, Schema, CollectionNumber
  <2> HIDE DEF m, Schema
  <2> QED BY <1>1, <1>4, <1>5, <1>7, <2>1, <2>2, WritesAreTyped
<1>10. VersionsGrow
  BY <1>1, <1>4, <1>5, <1>6 DEF VersionsGrow, Kept, RowsAreTrue
<1>11. RowsAreTrue'
  BY <1>1, <1>4 DEF RowsAreTrue
<1>12. CurrentComplete' /\ ReferencesExist'
  <2>1. ASSUME NEW i \in 1 .. Len(schemas') PROVE Complete(schemas'[i].base)
    <3>1. CASE i = v
      BY <1>2, <1>5, <3>1
    <3>2. CASE i # v
      BY <1>1, <1>5, <1>6, <3>2 DEF CurrentComplete
    <3> QED BY <3>1, <3>2
  <2>2. ASSUME NEW k, Complete(k) PROVE Complete(k)'
    BY <1>4, <2>2 DEF Complete
  <2>3. CurrentComplete'
    BY <1>1, <1>4, <2>1, <2>2 DEF CurrentComplete
  <2>4. ReferencesExist'
    BY <1>1, <1>4, <1>6, <1>10, StaysTrue DEF ReferencesExist, HasFields
  <2> QED BY <2>3, <2>4
<1>13. InOrder(c)'
  BY <1>5, <1>6, <1>8, <1>9 DEF InOrder, Exists
<1> QED BY <1>9, <1>10, <1>11, <1>12, <1>13 DEF VersionsKeep

(* The row of a contract is inserted.                                         *)
LEMMA InsertContractKeeps ==
  ASSUME VersionsInv, NEW c \in Callers, insert_contract(c) PROVE VersionsKeep(c)
<1>0. PICK v, r : v = doing[c].version
       /\ r = [collection |-> doing[c].base, schema |-> doing[c].schema]
  OBVIOUS
<1>1. VersionTypes /\ InOrder(c) /\ RowsAreTrue /\ CurrentComplete /\ ReferencesExist
  BY DEF VersionsInv, RequestsInOrder
<1>2. doing[c].pc = "contract_insert" /\ v \in 1 .. Len(contracts) + 1 /\ ~Taken(contracts, v)
      /\ r.collection # 0 /\ r.schema # 0
  BY <1>0, <1>1 DEF insert_contract, InOrder, Exists
<1>3. r \in ContractRow /\ contracts \in Seq(ContractRow)
  BY <1>0, <1>1, VersionMemTypes DEF VersionMem, ContractRow, VersionTypes
<1>4. contracts' = Put(contracts, v, r) /\ UNCHANGED <<included, collections, version_draft,
       schemas, task, deaths>>
  BY <1>0 DEF insert_contract
<1>5. /\ contracts' \in Seq(ContractRow) /\ Len(contracts') = Len(contracts) + 1
      /\ v = Len(contracts) + 1
      /\ contracts'[v] = r /\ \A i \in 1 .. Len(contracts) : contracts'[i] = contracts[i]
  <2> HIDE DEF ContractRow
  <2> QED BY <1>2, <1>3, <1>4, PutNext
<1>6. /\ Len(collections) \in Nat /\ Len(schemas) \in Nat /\ Len(contracts) \in Nat
      /\ Len(contracts') \in Nat
  BY <1>1, <1>5, VersionLengths
<1>7. doing' = [doing EXCEPT ![c] = IdleRequest] /\ IdleRequest \in VersionMem
      /\ doing'[c].pc = "idle"
  BY <1>1, VersionGotoIs, VersionMemTypes DEF insert_contract, Steps
<1>8. VersionTypes' /\ OnlyRequest(c)
  <2>1. /\ included' \subseteq Candidates /\ deaths' \in 0 .. MaxDeaths
        /\ collections' \in Seq(Collection)
        /\ version_draft' \in Schema /\ schemas' \in Seq(Schema) /\ task' \in TaskRow
    BY <1>1, <1>4 DEF VersionTypes, TaskRow
  <2>2. Schema' = Schema /\ ContractRow' = ContractRow /\ TaskRow' = TaskRow
        /\ VersionMem' = VersionMem
    BY <1>4 DEF Schema, ContractRow, TaskRow, VersionMem, CollectionNumber, SchemaNumber
  <2> HIDE DEF IdleRequest, Schema, ContractRow, TaskRow, VersionMem
  <2> QED BY <1>1, <1>5, <1>7, <2>1, <2>2, WritesAreTyped
<1>9. VersionsGrow
  BY <1>1, <1>4, <1>5, <1>6 DEF VersionsGrow, Kept, RowsAreTrue
<1>10. RowsAreTrue' /\ CurrentComplete'
  BY <1>1, <1>4 DEF RowsAreTrue, CurrentComplete, Complete
<1>11. ReferencesExist'
  <2>1. ASSUME NEW i \in 1 .. Len(contracts') PROVE contracts'[i].collection # 0
         /\ contracts'[i].schema # 0
    <3>1. CASE i = v
      BY <1>2, <1>5, <3>1
    <3>2. CASE i # v
      BY <1>1, <1>5, <1>6, <3>2 DEF ReferencesExist
    <3> QED BY <3>1, <3>2
  <2> QED BY <1>1, <1>4, <2>1 DEF ReferencesExist
<1>12. InOrder(c)'
  BY <1>7 DEF InOrder
<1> QED BY <1>8, <1>9, <1>10, <1>11, <1>12 DEF VersionsKeep

-----------------------------------------------------------------------------
(* Every step.                                                                *)
LEMMA VersionStepKeeps ==
  ASSUME VersionsAssumption, VersionsInv, [VersionsNext]_version_vars
  PROVE  VersionsInv' /\ (VersionsGrow \/ UNCHANGED version_vars)
<1>1. VersionTypes /\ RowsAreTrue /\ \A c \in Callers : InOrder(c)
  BY DEF VersionsInv, RequestsInOrder
<1>2. ASSUME NEW c \in Callers, VersionsKeep(c) PROVE VersionsInv' /\ VersionsGrow
  <2>1. Len(collections') \in Nat /\ Len(schemas') \in Nat /\ Len(contracts') \in Nat
    BY <1>2 DEF VersionsKeep, VersionTypes
  <2>2. \A d \in Callers \ {c} : InOrder(d)'
    BY <1>1, <1>2, <2>1, OthersInOrder DEF VersionsKeep, OnlyRequest
  <2> QED BY <1>2, <2>2 DEF VersionsKeep, VersionsInv, RequestsInOrder
<1>3. ASSUME NEW x \in Candidates, NEW d, set_decision(x, d) PROVE VersionsInv' /\ VersionsGrow
  <2>1. VersionsGrow /\ VersionTypes' /\ RowsAreTrue' /\ CurrentComplete' /\ ReferencesExist'
        /\ doing' = doing
    BY <1>3, DecisionKeeps
  <2>2. Len(collections') \in Nat /\ Len(schemas') \in Nat /\ Len(contracts') \in Nat
    BY <2>1 DEF VersionTypes
  <2>3. \A c \in Callers : InOrder(c)'
    BY <1>1, <2>1, <2>2, OthersInOrder
  <2> QED BY <2>1, <2>3 DEF VersionsInv, RequestsInOrder
<1>4. ASSUME NEW c \in Callers, \/ \E n \in FieldCounts : save_schema_draft(c, n)
                                \/ duplicate_schema_to_draft(c)
      PROVE VersionsKeep(c)
  <2>1. CASE \E n \in FieldCounts : save_schema_draft(c, n)
    BY <2>1, SaveDraftKeeps DEF VersionsAssumption
  <2>2. CASE duplicate_schema_to_draft(c)
    <3>1. PICK v \in 1 .. Len(schemas) : save_schema_draft(c, schemas[v].fields)
      BY <2>2 DEF duplicate_schema_to_draft
    <3>2. schemas[v].fields \in Nat
      <4>1. schemas \in Seq(Schema)
        BY <1>1 DEF VersionTypes
      <4>2. schemas[v] \in Schema
        <5> HIDE DEF Schema
        <5> QED BY <4>1
      <4> QED BY <4>2 DEF Schema
    <3> QED BY <3>1, <3>2, SaveDraftKeeps
  <2> QED BY <1>4, <2>1, <2>2
<1>5. CASE UNCHANGED version_vars
  <2>1. VersionTypes' /\ CurrentComplete' /\ ReferencesExist' /\ RowsAreTrue'
    BY <1>5 DEF VersionsInv, version_vars, tables, VersionTypes, CurrentComplete, ReferencesExist,
       RowsAreTrue, Complete,
       Schema, CollectionNumber, SchemaNumber, Collection
  <2>2. RequestsInOrder'
    BY <1>1, <1>5 DEF version_vars, tables, RequestsInOrder, InOrder, Exists, Complete,
       Counted, HasFields
  <2> QED BY <1>5, <2>1, <2>2 DEF VersionsInv
<1> QED BY <1>2, <1>3, <1>4, <1>5, FreezeCollectionKeeps, NextVersionKeeps, InsertCollectionKeeps,
           InsertPaperKeeps, StatsReadKeeps, CollectionPutKeeps, DraftPutKeeps, FreezeSchemaKeeps,
           InsertSchemaKeeps, SchemaPutKeeps, CompileContractKeeps, InsertContractKeeps, VersionEndsKeep
        DEF VersionsNext

(* What the task, its draft, schemas and contracts name is there, complete    *)
(* and told truly, however freezes overlap or die.                            *)
THEOREM VersionsCorrect == VersionsSpec => []VersionsInv
<1>1. VersionsInit => VersionsInv
  <2> SUFFICES ASSUME VersionsInit PROVE VersionsInv
    OBVIOUS
  <2>1. collections \in Seq(Collection) /\ schemas \in Seq(Schema)
        /\ contracts \in Seq(ContractRow)
        /\ Len(collections) = 0 /\ Len(schemas) = 0 /\ Len(contracts) = 0
    BY DEF VersionsInit
  <2>2. CollectionNumber = {0} /\ SchemaNumber = {0}
    BY <2>1 DEF CollectionNumber, SchemaNumber
  <2>3. version_draft \in Schema /\ task \in TaskRow /\ doing \in [Callers -> VersionMem]
        /\ deaths \in 0 .. MaxDeaths
    BY <2>2, VersionsAssumption
       DEF VersionsInit, NoSchemaDraft, Schema, TaskRow, VersionMem, IdleRequest, Steps
  <2>4. VersionTypes
    BY <2>1, <2>3 DEF VersionsInit, VersionTypes, ContractRow, TaskRow, VersionMem
  <2>5. \A c \in Callers : doing[c].pc = "idle"
    BY DEF VersionsInit, IdleRequest
  <2>6. RequestsInOrder
    BY <2>5 DEF RequestsInOrder, InOrder
  <2>7. CurrentComplete /\ ReferencesExist /\ RowsAreTrue
    BY <2>1 DEF VersionsInit, CurrentComplete, ReferencesExist, RowsAreTrue, NoSchemaDraft
  <2> QED BY <2>4, <2>6, <2>7 DEF VersionsInv
<1>2. VersionsInv /\ [VersionsNext]_version_vars => VersionsInv'
  BY VersionStepKeeps, VersionsAssumption
<1> QED BY <1>1, <1>2, PTL DEF VersionsSpec

(* A frozen version never changes, but that the papers it lists are added.    *)
THEOREM VersionsStay == VersionsSpec => VersionsKept
<1> DEFINE Step == /\ Kept(schemas, schemas') /\ Kept(contracts, contracts')
                   /\ Len(collections') >= Len(collections)
                   /\ \A v \in 1 .. Len(collections) :
                        /\ collections'[v].ids = collections[v].ids /\ collections'[v].count = collections[v].count
                        /\ collections[v].papers \subseteq collections'[v].papers
<1>1. VersionsInv /\ [VersionsNext]_version_vars => [Step]_version_vars
  BY VersionStepKeeps, VersionsAssumption DEF VersionsGrow
<1> QED BY <1>1, VersionsCorrect, PTL DEF VersionsSpec, VersionsKept
=============================================================================
