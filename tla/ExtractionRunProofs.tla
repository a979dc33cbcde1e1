------------------------- MODULE ExtractionRunProofs -------------------------
(* What holds of every reachable state of ExtractionRun, for any number of    *)
(* items, core jobs, requests, crashes and reaps.  That records, items and    *)
(* the count agree is proved for one worker, the default of the deployment    *)
(* (MaxRunning = 1): TLC has counterexamples with two.  That a run is driven  *)
(* holds with any number of workers.                                          *)
(*                                                                            *)
(* ExtractionInv is inductive: a step of a request leaves the work of the     *)
(* worker alone (WorkIsLeft), the one worker has only its own work to keep in *)
(* order (WorkOfOne), and the count is read, decided and written (CountIsRead,*)
(* CountIsDecided) or left alone (CountIsLeft).                               *)
EXTENDS ExtractionRun, FiniteSetTheorems, WellFoundedInduction, TLAPS

-----------------------------------------------------------------------------
(* Types.                                                                     *)

(* The items are numbered.                                                    *)
LEMMA ItemsAreNumbers == Items \subseteq Nat
BY ConstantsAssumption DEF Items

(* The first of some items is one of them.                                    *)
LEMMA CurrentIsOne ==
  ASSUME NEW j \in Jobs, todo[j] # {}, todo[j] \subseteq Items
  PROVE  Current(j) \in todo[j]
<1> DEFINE S == todo[j]
<1>1. S \subseteq Nat /\ S # {}
  BY ItemsAreNumbers
<1> HIDE DEF S
<1>2. PICK i \in S : \A k \in S : <<k, i>> \notin OpToRel(<, Nat)
  BY <1>1, WFMin, NatLessThanWellFounded, Zenon
<1>3. \A k \in S : ~ (k < i)
  BY <1>1, <1>2, Zenon DEF OpToRel
<1>4. \A k \in S : i <= k
  BY <1>1, <1>3
<1> QED BY <1>4 DEF Current, S

(* What is assumed of the constants.                                          *)
LEMMA ConstantsAre ==
  /\ NoJob \notin Jobs /\ Jobs \cap Clients = {}
  /\ Requests \subseteq {"cancel", "resume", "resume_failed", "review", "export"}
  /\ MaxRequests \in Nat /\ MaxCrashes \in Nat /\ MaxReaps \in Nat
BY ConstantsAssumption

(* The first state has the types.                                             *)
LEMMA TypeStarts == Init => TypeOK
<1> SUFFICES ASSUME Init PROVE TypeOK
  OBVIOUS
<1>1. /\ requests \in 0 .. MaxRequests /\ crashes \in 0 .. MaxCrashes /\ reaps \in 0 .. MaxReaps
      /\ records \in [Items -> Nat] /\ seen \in [Procs -> Nat] /\ run_count \in Nat
  BY ConstantsAre DEF Init
<1>2. /\ pc \in [Procs -> WorkerPCs \cup ClientPCs] /\ \A p \in Procs : pc[p] = "idle"
      /\ update \in [Procs -> [to : TaskStatuses, count : BOOLEAN]]
  BY DEF Init, WorkerPCs, ClientPCs, NoUpdate, TaskStatuses
<1>3. \A j \in Jobs : job[j] = "absent"
  BY DEF Init
<1>4. /\ \A j \in Jobs : pc[j] \in WorkerPCs /\ (pc[j] # "idle" <=> job[j] = "running")
      /\ \A c \in Clients : pc[c] \in ClientPCs /\ (pc[c] = "link" => ref[c] \in Jobs)
      /\ \A j \in Jobs : pc[j] \in {"extract", "check"} => todo[j] # {}
  BY <1>2, <1>3 DEF Procs, WorkerPCs, ClientPCs
<1>5. /\ status \in {"absent"} \cup ACTIVE_STATUSES \cup TERMINAL_STATUSES
      /\ core_job \in Jobs \cup {NoJob} /\ counted \in BOOLEAN /\ locked \in BOOLEAN
      /\ item \in [Items -> ItemStatuses] /\ task \in TaskStatuses
      /\ final \in [Jobs -> TERMINAL_STATUSES]
  BY DEF Init, ItemStatuses, TaskStatuses, TERMINAL_STATUSES
<1>6. /\ job \in [Jobs -> {"absent", "queued", "running", "finished", "cancelled", "dead"}]
      /\ req \in [Clients -> Requests \cup {"start"}] /\ ref \in [Clients -> Jobs \cup {NoJob}]
      /\ todo \in [Jobs -> SUBSET Items] /\ raised \in [Jobs -> BOOLEAN]
  BY DEF Init
<1> QED BY <1>1, <1>2, <1>4, <1>5, <1>6 DEF TypeOK

(* Every step keeps the types.                                                *)
LEMMA TypeSteps == TypeOK /\ [Next]_vars => TypeOK'
<1> SUFFICES ASSUME TypeOK, [Next]_vars PROVE TypeOK'
  OBVIOUS
<1> USE ConstantsAre DEF TypeOK, Procs, WorkerPCs, ClientPCs, ItemStatuses, TaskStatuses, NoUpdate,
   TERMINAL_STATUSES, ACTIVE_STATUSES, Goto, SetTask, run, tasks, client, worker, bounds
<1>1. ASSUME NEW p \in Procs, task_get(p) PROVE TypeOK'
  BY <1>1 DEF task_get
<1>2. ASSUME NEW p \in Procs, task_put(p) PROVE TypeOK'
  BY <1>2 DEF task_put
<1>3. ASSUME NEW p \in Procs, cancel_put(p) PROVE TypeOK'
  BY <1>3 DEF cancel_put
<1>4. ASSUME NEW p \in Procs, crash(p) PROVE TypeOK'
  BY <1>4 DEF crash
<1>5. ASSUME NEW c \in Clients, start(c) PROVE TypeOK'
  BY <1>5 DEF start
<1>6. ASSUME NEW c \in Clients, enqueue(c) PROVE TypeOK'
  BY <1>6 DEF enqueue
<1>7. ASSUME NEW c \in Clients, link(c) PROVE TypeOK'
  BY <1>7 DEF link
<1>8. ASSUME NEW c \in Clients, cancel(c) PROVE TypeOK'
  BY <1>8 DEF cancel, Arrive
<1>9. ASSUME NEW c \in Clients, cancelling_put(c) PROVE TypeOK'
  BY <1>9 DEF cancelling_put
<1>10. ASSUME NEW c \in Clients, core_cancel(c) PROVE TypeOK'
  BY <1>10 DEF core_cancel
<1>11. ASSUME NEW c \in Clients, NEW q \in Requests, resume(c, q) PROVE TypeOK'
  BY <1>11 DEF resume, Arrive
<1>12. ASSUME NEW c \in Clients, resume_items(c) PROVE TypeOK'
  BY <1>12 DEF resume_items
<1>13. ASSUME NEW c \in Clients, resume_run(c) PROVE TypeOK'
  BY <1>13 DEF resume_run
<1>14. ASSUME NEW c \in Clients, NEW q \in Requests, review(c, q) PROVE TypeOK'
  BY <1>14 DEF review, Arrive
<1>15. ASSUME NEW c \in Clients, lock(c) PROVE TypeOK'
  <2>1. /\ locked' = TRUE /\ pc[c] = "lock"
        /\ UNCHANGED <<run, item, records, tasks, job, client, worker, seen, bounds>>
    BY <1>15 DEF lock
  <2>2. pc' = [pc EXCEPT ![c] = "task_get"] \/ pc' = [pc EXCEPT ![c] = "idle"]
    BY <1>15 DEF lock
  <2>3. update' = update \/ update' = [update EXCEPT ![c] = [to |-> "exported", count |-> FALSE]]
    BY <1>15 DEF lock
  <2>4. update' \in [Procs -> [to : TaskStatuses, count : BOOLEAN]]
    <3>1. CASE update' = update
      BY <3>1
    <3>2. CASE update' = [update EXCEPT ![c] = [to |-> "exported", count |-> FALSE]]
      BY <3>2
    <3> QED BY <2>3, <3>1, <3>2
  <2>5. pc' \in [Procs -> WorkerPCs \cup ClientPCs] /\ \A j \in Jobs : pc'[j] = pc[j]
    <3>1. CASE pc' = [pc EXCEPT ![c] = "task_get"]
      BY <3>1
    <3>2. CASE pc' = [pc EXCEPT ![c] = "idle"]
      BY <3>2
    <3> QED BY <2>2, <3>1, <3>2
  <2>6. \A d \in Clients : pc'[d] \in ClientPCs /\ (pc'[d] = "link" => ref[d] \in Jobs)
    BY <2>2
  <2> QED BY <2>1, <2>4, <2>5, <2>6
<1>16. ASSUME NEW j \in Jobs, claim(j) PROVE TypeOK'
  BY <1>16 DEF claim
<1>17. ASSUME NEW j \in Jobs, begin(j) PROVE TypeOK'
  BY <1>17 DEF begin
<1>18. ASSUME NEW j \in Jobs, select_items(j) PROVE TypeOK'
  BY <1>18 DEF select_items
<1>19. ASSUME NEW j \in Jobs, next_item(j) PROVE TypeOK'
  <2> DEFINE i == Current(j)
  <2>1. item' = item \/ item' = [item EXCEPT ![i] = "running"]
    BY <1>19 DEF next_item
  <2> HIDE DEF i
  <2>2. item' \in [Items -> ItemStatuses]
    BY <2>1
  <2>3. \/ pc' = [pc EXCEPT ![j] = "merge_delete"] \/ pc' = [pc EXCEPT ![j] = "cancel_put"]
        \/ pc' = [pc EXCEPT ![j] = "extract"] /\ todo[j] # {}
    BY <1>19 DEF next_item
  <2>4. pc[j] = "next" /\ UNCHANGED <<run, records, locked, tasks, job, client, worker, update, seen, bounds>>
    BY <1>19 DEF next_item
  <2>5. pc' \in [Procs -> WorkerPCs \cup ClientPCs] /\ \A c \in Clients : pc'[c] = pc[c]
    BY <2>3
  <2>6. \A k \in Jobs : pc'[k] \in WorkerPCs /\ (pc'[k] # "idle" <=> job[k] = "running")
                      /\ (pc'[k] \in {"extract", "check"} => todo[k] # {})
    BY <2>3, <2>4
  <2> QED BY <2>2, <2>4, <2>5, <2>6
<1>20. ASSUME NEW j \in Jobs, extracted(j) PROVE TypeOK'
  <2> DEFINE i == Current(j)
  <2>1. \E s \in {"completed", "failed"} : item' = [item EXCEPT ![i] = s]
    BY <1>20 DEF extracted
  <2> HIDE DEF i
  <2>2. item' \in [Items -> ItemStatuses]
    BY <2>1
  <2> QED BY <1>20, <2>2 DEF extracted
<1>21. ASSUME NEW j \in Jobs, worker_raises(j) PROVE TypeOK'
  BY <1>21 DEF worker_raises
<1>22. ASSUME NEW j \in Jobs, check_cancel(j) PROVE TypeOK'
  BY <1>22 DEF check_cancel
<1>23. ASSUME NEW j \in Jobs, merge_delete(j) PROVE TypeOK'
  BY <1>23 DEF merge_delete, Clear
<1>24. ASSUME NEW j \in Jobs, merge_read(j) PROVE TypeOK'
  BY <1>24 DEF merge_read
<1>25. ASSUME NEW j \in Jobs, merge_insert(j) PROVE TypeOK'
  BY <1>25 DEF merge_insert
<1>26. ASSUME NEW j \in Jobs, final_get(j) PROVE TypeOK'
  BY <1>26 DEF final_get, Final, ShouldCount
<1>27. ASSUME NEW j \in Jobs, final_put(j) PROVE TypeOK'
  BY <1>27 DEF final_put
<1>28. ASSUME NEW j \in Jobs, write_artifacts(j) PROVE TypeOK'
  BY <1>28 DEF write_artifacts
<1>29. ASSUME reap_orphaned_runs PROVE TypeOK'
  BY <1>29 DEF reap_orphaned_runs
<1>30. ASSUME UNCHANGED vars PROVE TypeOK'
  BY <1>30 DEF vars
<1> QED BY <1>1, <1>2, <1>3, <1>4, <1>5, <1>6, <1>7, <1>8, <1>9, <1>10, <1>11, <1>12, <1>13, <1>14,
  <1>15, <1>16, <1>17, <1>18, <1>19, <1>20, <1>21, <1>22, <1>23, <1>24, <1>25, <1>26, <1>27, <1>28,
  <1>29, <1>30 DEF Next, ClientStep, WorkerStep

-----------------------------------------------------------------------------
(* The workers.                                                               *)

(* At most one job is running.                                                *)
OneRuns == \A j, k \in Jobs : Running(j) /\ Running(k) => j = k

(* A job is claimed when none is running.                                     *)
LEMMA ClaimedAlone ==
  ASSUME MaxRunning = 1, OneRuns, NEW j \in Jobs, claim(j)
  PROVE  \A k \in Jobs : ~Running(k)
<1>1. ASSUME NEW k \in Jobs, Running(k) PROVE FALSE
  <2>1. {i \in Jobs : Running(i)} = {k}
    BY <1>1 DEF OneRuns
  <2>2. Cardinality({k}) = 1
    BY FS_Singleton
  <2>3. Cardinality({i \in Jobs : Running(i)}) < 1
    BY DEF claim
  <2> QED BY <2>1, <2>2, <2>3
<1> QED BY <1>1

(* Which items are completed is the same after a step.                        *)
SameCompleted == \A i \in Items : item'[i] = "completed" <=> item[i] = "completed"

(* What holds of the work is kept by a step that leaves the worker alone.     *)
LEMMA WorkIsLeft ==
  ASSUME TypeOK, ReviewableRecordsComplete, WorkInOrder, TypeOK',
         \A j \in Jobs : pc'[j] = pc[j] /\ update'[j] = update[j] /\ (Running(j)' => Running(j)),
         UNCHANGED <<records, worker>>, SameCompleted,
         status' \in Reviewable => status' = status
  PROVE  ReviewableRecordsComplete' /\ WorkInOrder'
<1>1. Recorded => Recorded'
  BY DEF Recorded, SameCompleted
<1>2. ReviewableRecordsComplete'
  BY <1>1 DEF ReviewableRecordsComplete
<1>3. ASSUME NEW j \in Jobs PROVE WorkOf(j)'
  <2>0. WorkOf(j) /\ todo' = todo /\ final' = final /\ raised' = raised /\ todo[j] \subseteq Items
    BY DEF WorkInOrder, worker, TypeOK
  <2>1. Current(j)' = Current(j) /\ (AtItems(j)' <=> AtItems(j))
    BY <2>0 DEF Current, AtItems
  <2>2. {i \in Items : item'[i] = "completed"} = {i \in Items : item[i] = "completed"}
    BY DEF SameCompleted
  <2> QED BY <1>1, <2>0, <2>1, <2>2 DEF WorkOf, SameCompleted
<1>4. OneRuns'
  BY DEF WorkInOrder, OneRuns
<1> QED BY <1>2, <1>3, <1>4 DEF WorkInOrder, OneRuns

(* A worker that is idle has no work to be kept in order.                     *)
Resting == \A j \in Jobs : pc[j] = "idle" => WorkOf(j)

(* Nothing has to be shown of an idle worker.                                 *)
LEMMA IdleWork == Resting
BY DEF Resting, WorkOf, AtItems

(* A step of the one worker has only its own work to keep in order.           *)
LEMMA WorkOfOne ==
  ASSUME TypeOK, TypeOK', NEW j \in Jobs,
         \A k \in Jobs : k # j => ~Running(k) /\ pc'[k] = pc[k] /\ job'[k] = job[k],
         WorkOf(j)'
  PROVE  WorkInOrder'
<1>1. ASSUME NEW k \in Jobs, k # j PROVE ~Running(k)' /\ WorkOf(k)'
  <2>1. ~Running(k) /\ pc'[k] = "idle"
    BY <1>1 DEF TypeOK, Running
  <2>2. Resting'
    BY IdleWork, PTL
  <2> QED BY <1>1, <2>1, <2>2 DEF Running, Resting
<1> QED BY <1>1 DEF WorkInOrder

(* The requests leave the work alone.                                         *)
LEMMA RequestsLeaveWork ==
  ASSUME TypeOK, TypeOK', ReviewableRecordsComplete, WorkInOrder, NEW c \in Clients,
         \/ start(c) \/ cancel(c) \/ ClientStep(c)
         \/ \E q \in Requests : resume(c, q) \/ review(c, q)
  PROVE  ReviewableRecordsComplete' /\ WorkInOrder'
<1>0. c \notin Jobs
  BY ConstantsAre
<1> DEFINE PcLeft == \A j \in Jobs : pc'[j] = pc[j] /\ update'[j] = update[j]
           JobLeft == \A j \in Jobs : Running(j)' => Running(j)
           DataLeft == UNCHANGED <<records, worker>> /\ SameCompleted
           StatusLeft == status' \in Reviewable => status' = status
           Left == PcLeft /\ JobLeft /\ DataLeft /\ StatusLeft
<1> USE DEF Goto, SetTask, Running, SameCompleted, Reviewable
<1>00. /\ pc \in [Procs -> WorkerPCs \cup ClientPCs] /\ c \in Procs /\ Jobs \subseteq Procs
       /\ update \in [Procs -> [to : TaskStatuses, count : BOOLEAN]]
       /\ job \in [Jobs -> {"absent", "queued", "running", "finished", "cancelled", "dead"}]
       /\ item \in [Items -> ItemStatuses]
  BY DEF TypeOK, Procs
<1>1. ASSUME start(c) PROVE Left
  <2>1. PcLeft
    BY <1>0, <1>00, <1>1 DEF start
  <2> QED BY <1>1, <2>1 DEF start
<1>2. ASSUME cancel(c) PROVE Left
  <2>1. PcLeft
    BY <1>0, <1>00, <1>2 DEF cancel, Arrive
  <2> QED BY <1>2, <2>1 DEF cancel, Arrive, run
<1>3. ASSUME NEW q \in Requests, resume(c, q) PROVE Left
  <2>1. PcLeft
    BY <1>0, <1>00, <1>3 DEF resume, Arrive
  <2> QED BY <1>3, <2>1 DEF resume, Arrive, run
<1>4. ASSUME NEW q \in Requests, review(c, q) PROVE Left
  <2>1. PcLeft
    BY <1>0, <1>00, <1>4 DEF review, Arrive
  <2> QED BY <1>4, <2>1 DEF review, Arrive, run
<1>5. ASSUME enqueue(c) PROVE Left
  <2>1. PcLeft
    BY <1>0, <1>00, <1>5 DEF enqueue
  <2>2. JobLeft
    BY <1>00, <1>5 DEF enqueue
  <2> QED BY <1>5, <2>1, <2>2 DEF enqueue, run
<1>6. ASSUME link(c) \/ cancelling_put(c) \/ resume_run(c) PROVE Left
  <2>1. PcLeft
    BY <1>0, <1>00, <1>6 DEF link, cancelling_put, resume_run
  <2> QED BY <1>6, <2>1 DEF link, cancelling_put, resume_run
<1>7. ASSUME core_cancel(c) PROVE Left
  <2>1. PcLeft
    BY <1>0, <1>00, <1>7 DEF core_cancel
  <2>2. JobLeft
    BY <1>00, <1>7 DEF core_cancel
  <2> QED BY <1>7, <2>1, <2>2 DEF core_cancel, run
<1>8. ASSUME resume_items(c) PROVE Left
  <2>1. PcLeft
    BY <1>0, <1>00, <1>8 DEF resume_items
  <2>2. SameCompleted
    BY <1>00, <1>8 DEF resume_items, Retried
  <2> QED BY <1>8, <2>1, <2>2 DEF resume_items, run
<1>9. ASSUME lock(c) PROVE Left
  <2>1. \A j \in Jobs : pc'[j] = pc[j]
    <3>1. pc' = [pc EXCEPT ![c] = "task_get"] \/ pc' = [pc EXCEPT ![c] = "idle"]
      BY <1>9 DEF lock
    <3> QED BY <1>0, <1>00, <3>1
  <2>2. \A j \in Jobs : update'[j] = update[j]
    <3>1. update' = update \/ update' = [update EXCEPT ![c] = [to |-> "exported", count |-> FALSE]]
      BY <1>9 DEF lock
    <3> QED BY <1>0, <1>00, <3>1
  <2> QED BY <1>9, <2>1, <2>2 DEF lock, run
<1>10. ASSUME cancel_put(c) PROVE Left
  <2>1. PcLeft
    BY <1>0, <1>00, <1>10 DEF cancel_put
  <2> QED BY <1>10, <2>1 DEF cancel_put
<1>11. ASSUME task_get(c) PROVE Left
  <2>1. PcLeft
    BY <1>0, <1>00, <1>11 DEF task_get
  <2> QED BY <1>11, <2>1 DEF task_get, run
<1>12. ASSUME task_put(c) PROVE Left
  <2>1. PcLeft
    BY <1>0, <1>00, <1>12 DEF task_put
  <2> QED BY <1>12, <2>1 DEF task_put, run
<1> HIDE DEF Left
<1>13. Left
  BY <1>1, <1>2, <1>3, <1>4, <1>5, <1>6, <1>7, <1>8, <1>9, <1>10, <1>11, <1>12 DEF ClientStep
<1> HIDE DEF Goto, SetTask, Running, SameCompleted, Reviewable
<1> QED BY <1>13, WorkIsLeft DEF Left

(* The worker keeps its own work in order.                                    *)
LEMMA WorkerKeepsWork ==
  ASSUME MaxRunning = 1, TypeOK, TypeOK', ReviewableRecordsComplete, WorkInOrder,
         NEW j \in Jobs, WorkerStep(j)
  PROVE  ReviewableRecordsComplete' /\ WorkInOrder'
<1>0. /\ j \notin Clients /\ j \in Procs /\ Jobs \subseteq Procs
      /\ pc \in [Procs -> WorkerPCs \cup ClientPCs]
      /\ update \in [Procs -> [to : TaskStatuses, count : BOOLEAN]]
      /\ job \in [Jobs -> {"absent", "queued", "running", "finished", "cancelled", "dead"}]
      /\ item \in [Items -> ItemStatuses] /\ records \in [Items -> Nat]
      /\ todo \in [Jobs -> SUBSET Items] /\ final \in [Jobs -> TERMINAL_STATUSES]
      /\ raised \in [Jobs -> BOOLEAN]
      /\ \A k \in Jobs : pc[k] # "idle" <=> Running(k)
      /\ pc[j] \in {"extract", "check"} => todo[j] # {}
  BY ConstantsAre DEF TypeOK, Procs, Running
<1>1. WorkOf(j) /\ OneRuns
  BY DEF WorkInOrder, OneRuns
<1>2. \A k \in Jobs : k # j => ~Running(k) /\ pc'[k] = pc[k] /\ job'[k] = job[k]
  <2>1. \A k \in Jobs : k # j => ~Running(k)
    <3>1. CASE claim(j)
      BY <1>1, <3>1, ClaimedAlone
    <3>2. CASE ~claim(j)
      <4>1. pc[j] # "idle"
        BY <3>2 DEF WorkerStep, begin, select_items, next_item, extracted, worker_raises, check_cancel,
           merge_delete, merge_read, merge_insert, final_get, final_put, cancel_put, task_get, task_put,
           write_artifacts
      <4> QED BY <1>0, <1>1, <4>1 DEF OneRuns
    <3> QED BY <3>1, <3>2
  <2>2. \A k \in Jobs : k # j => pc'[k] = pc[k]
    <3>1. \E l : pc' = [pc EXCEPT ![j] = l]
      BY DEF WorkerStep, claim, begin, select_items, next_item, extracted, worker_raises, check_cancel,
         merge_delete, merge_read, merge_insert, final_get, final_put, cancel_put, task_get, task_put,
         write_artifacts, Goto, SetTask
    <3> QED BY <1>0, <3>1
  <2>3. \A k \in Jobs : k # j => job'[k] = job[k]
    <3>1. job' = job \/ \E s : job' = [job EXCEPT ![j] = s]
      BY DEF WorkerStep, claim, begin, select_items, next_item, extracted, worker_raises, check_cancel,
         merge_delete, merge_read, merge_insert, final_get, final_put, cancel_put, task_get, task_put,
         write_artifacts
    <3> QED BY <1>0, <3>1
  <2> QED BY <2>1, <2>2, <2>3
<1> DEFINE Goal == ReviewableRecordsComplete' /\ WorkOf(j)'
<1> USE DEF Goto, SetTask
<1>3. ASSUME claim(j) \/ write_artifacts(j) PROVE Goal
  <2>1. UNCHANGED <<run, item, records>> /\ pc'[j] \in {"begin", "idle"}
    BY <1>0, <1>3 DEF claim, write_artifacts
  <2> QED BY <2>1 DEF WorkOf, AtItems, ReviewableRecordsComplete, Recorded, run
<1>4. ASSUME begin(j) PROVE Goal
  <2>1. status' = "running" /\ pc'[j] = "task_get"
    BY <1>0, <1>4 DEF begin
  <2> QED BY <2>1 DEF WorkOf, AtItems, ReviewableRecordsComplete, Reviewable
<1>5. ASSUME task_get(j) \/ task_put(j) PROVE Goal
  <2>1. /\ UNCHANGED <<run, item, records>> /\ pc[j] \in {"task_get", "task_put"}
        /\ \/ pc'[j] = "task_put" /\ update'[j] = update[j]
           \/ pc'[j] = "select" /\ update[j].to = "extracting"
           \/ pc'[j] = "artifacts"
    BY <1>0, <1>5 DEF task_get, task_put
  <2>2. AtItems(j)' => AtItems(j)
    BY <2>1 DEF AtItems
  <2> QED BY <1>1, <2>1, <2>2 DEF WorkOf, ReviewableRecordsComplete, Recorded, run
<1>6. ASSUME select_items(j) PROVE Goal
  <2>1. UNCHANGED <<run, item, records>> /\ pc[j] = "select" /\ pc'[j] = "next"
        /\ todo'[j] = {i \in Items : item[i] # "completed"}
    BY <1>0, <1>6 DEF select_items
  <2> QED BY <1>1, <2>1 DEF WorkOf, AtItems, ReviewableRecordsComplete, Recorded, run
<1>7. ASSUME next_item(j) PROVE Goal
  <2>0. pc[j] = "next" /\ UNCHANGED <<run, records, todo, raised, final>>
    BY <1>7 DEF next_item, worker
  <2>1. status \notin Reviewable /\ \A i \in todo[j] : item[i] # "completed"
    BY <1>1, <2>0 DEF WorkOf, AtItems
  <2>2. CASE todo[j] = {}
    <3>1. pc'[j] = "merge_delete" /\ item' = item
      BY <1>0, <1>7, <2>2 DEF next_item
    <3> QED BY <2>0, <2>1, <3>1 DEF WorkOf, AtItems, ReviewableRecordsComplete, run
  <2>3. CASE todo[j] # {} /\ status = "cancelling"
    <3>1. pc'[j] = "cancel_put"
      BY <1>0, <1>7, <2>3 DEF next_item
    <3> QED BY <2>0, <2>1, <3>1 DEF WorkOf, AtItems, ReviewableRecordsComplete, run
  <2>4. CASE todo[j] # {} /\ status # "cancelling"
    <3>1. pc'[j] = "extract" /\ item' = [item EXCEPT ![Current(j)] = "running"]
      BY <1>0, <1>7, <2>4 DEF next_item
    <3>2. \A i \in todo'[j] : item'[i] # "completed"
      BY <1>0, <2>0, <2>1, <3>1
    <3> QED BY <2>0, <2>1, <3>1, <3>2 DEF WorkOf, AtItems, ReviewableRecordsComplete, run
  <2> QED BY <2>2, <2>3, <2>4
<1>8. ASSUME extracted(j) PROVE Goal
  <2>0. pc[j] = "extract" /\ pc'[j] = "check" /\ UNCHANGED <<run, records, todo, raised, final>>
    BY <1>0, <1>8 DEF extracted, worker
  <2>1. status \notin Reviewable /\ \A i \in todo[j] : item[i] # "completed"
    BY <1>1, <2>0 DEF WorkOf, AtItems
  <2>2. Current(j)' = Current(j)
    BY <2>0 DEF Current
  <2>3. \A i \in todo[j] \ {Current(j)} : item'[i] = item[i]
    BY <1>0, <1>8 DEF extracted
  <2> QED BY <2>0, <2>1, <2>2, <2>3 DEF WorkOf, AtItems, ReviewableRecordsComplete, run
<1>9. ASSUME worker_raises(j) PROVE Goal
  <2>1. UNCHANGED <<run, item, records>> /\ pc'[j] = "final_get" /\ raised'[j] = TRUE
    BY <1>0, <1>9 DEF worker_raises
  <2> QED BY <2>1 DEF WorkOf, AtItems, ReviewableRecordsComplete, Recorded, run
<1>10. ASSUME check_cancel(j) PROVE Goal
  <2>1. UNCHANGED <<run, item, records>> /\ pc[j] = "check" /\ pc'[j] \in {"cancel_put", "next"}
        /\ todo'[j] = todo[j] \ {Current(j)}
    BY <1>0, <1>10 DEF check_cancel
  <2>2. status \notin Reviewable /\ \A i \in todo'[j] : item[i] # "completed"
    BY <1>1, <2>1 DEF WorkOf, AtItems
  <2> QED BY <2>1, <2>2 DEF WorkOf, AtItems, ReviewableRecordsComplete, run
<1>11. ASSUME merge_delete(j) PROVE Goal
  <2>1. UNCHANGED <<run, item>> /\ pc[j] = "merge_delete" /\ pc'[j] = "merge_read"
        /\ \A i \in Items : records'[i] = 0
    BY <1>0, <1>11 DEF merge_delete, Clear
  <2>2. status \notin Reviewable
    BY <1>1, <2>1 DEF WorkOf, AtItems
  <2> QED BY <2>1, <2>2 DEF WorkOf, AtItems, ReviewableRecordsComplete, run
<1>12. ASSUME merge_read(j) PROVE Goal
  <2>1. UNCHANGED <<run, item, records>> /\ pc[j] = "merge_read" /\ pc'[j] = "merge_insert"
        /\ todo'[j] = {i \in Items : item[i] = "completed"}
    BY <1>0, <1>12 DEF merge_read
  <2>2. status \notin Reviewable /\ \A i \in Items : records[i] = 0
    BY <1>1, <2>1 DEF WorkOf, AtItems
  <2> QED BY <2>1, <2>2 DEF WorkOf, AtItems, ReviewableRecordsComplete, run
<1>13. ASSUME merge_insert(j) PROVE Goal
  <2>1. UNCHANGED <<run, item>> /\ pc[j] = "merge_insert" /\ pc'[j] = "final_get"
        /\ \A i \in Items : records'[i] = records[i] + IF i \in todo[j] THEN 1 ELSE 0
    BY <1>0, <1>13 DEF merge_insert
  <2>2. status \notin Reviewable /\ (\A i \in Items : records[i] = 0)
        /\ todo[j] = {i \in Items : item[i] = "completed"}
    BY <1>1, <2>1 DEF WorkOf, AtItems
  <2>3. Recorded'
    BY <2>1, <2>2 DEF Recorded
  <2> QED BY <2>1, <2>2, <2>3 DEF WorkOf, AtItems, ReviewableRecordsComplete, run
<1>14. ASSUME final_get(j) PROVE Goal
  <2>1. UNCHANGED <<run, item, records>> /\ pc[j] = "final_get" /\ pc'[j] = "final_put"
        /\ (raised[j] => final'[j] = "failed")
    BY <1>0, <1>14 DEF final_get
  <2>2. Recorded' <=> Recorded
    BY <2>1 DEF Recorded
  <2> QED BY <1>1, <2>1, <2>2 DEF WorkOf, AtItems, ReviewableRecordsComplete, run, Reviewable
<1>15. ASSUME final_put(j) PROVE Goal
  <2>1. UNCHANGED <<item, records>> /\ pc[j] = "final_put" /\ pc'[j] = "task_get" /\ status' = final[j]
        /\ update'[j].to # "extracting"
    BY <1>0, <1>15 DEF final_put
  <2>2. Recorded' <=> Recorded
    BY <2>1 DEF Recorded
  <2> QED BY <1>1, <2>1, <2>2 DEF WorkOf, AtItems, ReviewableRecordsComplete
<1>16. ASSUME cancel_put(j) PROVE Goal
  <2>1. status' = "cancelled" /\ pc'[j] = "task_get"
    BY <1>0, <1>16 DEF cancel_put
  <2> QED BY <2>1 DEF WorkOf, AtItems, ReviewableRecordsComplete, Reviewable
<1> HIDE DEF Goal
<1>17. Goal
  BY <1>3, <1>4, <1>5, <1>6, <1>7, <1>8, <1>9, <1>10, <1>11, <1>12, <1>13, <1>14, <1>15, <1>16
     DEF WorkerStep
<1> QED BY <1>2, <1>17, WorkOfOne DEF Goal

(* A process that dies and the reaper leave the work in order.                *)
LEMMA FailuresKeepWork ==
  ASSUME TypeOK, TypeOK', ReviewableRecordsComplete, WorkInOrder,
         (\E p \in Procs : crash(p)) \/ reap_orphaned_runs
  PROVE  ReviewableRecordsComplete' /\ WorkInOrder'
<1>1. ASSUME reap_orphaned_runs PROVE ReviewableRecordsComplete' /\ WorkInOrder'
  <2>1. /\ \A j \in Jobs : pc'[j] = pc[j] /\ update'[j] = update[j] /\ (Running(j)' => Running(j))
        /\ UNCHANGED <<records, worker>> /\ status' = "interrupted"
    BY <1>1 DEF reap_orphaned_runs, Running
  <2>2. SameCompleted
    BY <1>1 DEF reap_orphaned_runs, SameCompleted, TypeOK
  <2> QED BY <2>1, <2>2, WorkIsLeft DEF Reviewable
<1>2. ASSUME NEW p \in Procs, crash(p) PROVE ReviewableRecordsComplete' /\ WorkInOrder'
  <2>0. /\ pc \in [Procs -> WorkerPCs \cup ClientPCs] /\ pc' = [pc EXCEPT ![p] = "idle"]
        /\ update \in [Procs -> [to : TaskStatuses, count : BOOLEAN]]
        /\ update' = [update EXCEPT ![p] = NoUpdate]
        /\ job \in [Jobs -> {"absent", "queued", "running", "finished", "cancelled", "dead"}]
        /\ UNCHANGED <<run, item, records>> /\ Jobs \subseteq Procs /\ Jobs \cap Clients = {}
        /\ todo \in [Jobs -> SUBSET Items]
        /\ raised \in [Jobs -> BOOLEAN] /\ final \in [Jobs -> TERMINAL_STATUSES]
    BY <1>2, ConstantsAre DEF crash, TypeOK, Goto, Procs
  <2>1. ReviewableRecordsComplete'
    BY <2>0 DEF ReviewableRecordsComplete, Recorded, run
  <2>2. ASSUME NEW j \in Jobs PROVE WorkOf(j)'
    <3>1. CASE j = p
      <4>1. pc'[j] = "idle"
        BY <2>0, <3>1
      <4>2. Resting'
        BY IdleWork, PTL
      <4> QED BY <4>1, <4>2 DEF Resting
    <3>2. CASE j # p
      <4>1. pc'[j] = pc[j] /\ update'[j] = update[j] /\ (Recorded' <=> Recorded)
        BY <2>0, <3>2 DEF Recorded
      <4>2. todo'[j] = todo[j] /\ final'[j] = final[j] /\ raised'[j] = raised[j]
        BY <1>2, <2>0, <3>2 DEF crash
      <4>3. Current(j)' = Current(j)
        BY <4>2 DEF Current
      <4>4. WorkOf(j)
        BY DEF WorkInOrder
      <4> QED BY <2>0, <4>1, <4>2, <4>3, <4>4 DEF WorkOf, AtItems, run
    <3> QED BY <3>1, <3>2
  <2>3. \A j \in Jobs : Running(j)' => Running(j)
    BY <1>2, <2>0 DEF crash, Running
  <2> QED BY <2>1, <2>2, <2>3 DEF WorkInOrder
<1> QED BY <1>1, <1>2

(* Every step keeps the work in order.                                        *)
LEMMA WorkSteps ==
  ASSUME MaxRunning = 1, TypeOK, TypeOK', ReviewableRecordsComplete, WorkInOrder, [Next]_vars
  PROVE  ReviewableRecordsComplete' /\ WorkInOrder'
<1>1. ASSUME UNCHANGED vars PROVE ReviewableRecordsComplete' /\ WorkInOrder'
  <2>1. /\ \A j \in Jobs : pc'[j] = pc[j] /\ update'[j] = update[j] /\ (Running(j)' => Running(j))
        /\ UNCHANGED <<records, worker>> /\ status' = status /\ SameCompleted
    BY <1>1 DEF vars, Running, SameCompleted, run
  <2> QED BY <2>1, WorkIsLeft
<1> QED BY <1>1, RequestsLeaveWork, WorkerKeepsWork, FailuresKeepWork DEF Next

-----------------------------------------------------------------------------
(* Completed items.                                                           *)

(* No step takes back that an item is completed.                              *)
LEMMA CompletedStays ==
  ASSUME TypeOK, WorkInOrder, [Next]_vars
  PROVE  \A i \in Items : item[i] = "completed" => item'[i] = "completed"
<1>0. item \in [Items -> ItemStatuses] /\ \A j \in Jobs : todo[j] \subseteq Items
  BY DEF TypeOK
<1> DEFINE Kept == \A i \in Items : item[i] = "completed" => item'[i] = "completed"
<1>1. ASSUME NEW j \in Jobs, next_item(j) \/ extracted(j) PROVE Kept
  <2>1. pc[j] \in {"next", "extract"} /\ \A i \in todo[j] : item[i] # "completed"
    BY <1>1 DEF next_item, extracted, WorkInOrder, WorkOf
  <2>2. \/ item' = item
        \/ todo[j] # {} /\ \E s : item' = [item EXCEPT ![Current(j)] = s]
    <3>1. CASE next_item(j)
      BY <3>1 DEF next_item
    <3>2. CASE extracted(j)
      BY <3>2 DEF extracted, TypeOK
    <3> QED BY <1>1, <3>1, <3>2
  <2>3. ASSUME todo[j] # {} PROVE Current(j) \in todo[j]
    BY <1>0, <2>3, CurrentIsOne
  <2> DEFINE f == Current(j)
  <2>4. todo[j] # {} => f \in todo[j]
    BY <2>3
  <2>5. \/ item' = item
        \/ todo[j] # {} /\ \E s : item' = [item EXCEPT ![f] = s]
    BY <2>2
  <2> HIDE DEF f
  <2> QED BY <1>0, <2>1, <2>4, <2>5
<1>2. ASSUME NEW c \in Clients, resume_items(c) PROVE Kept
  BY <1>0, <1>2 DEF resume_items, Retried
<1>3. ASSUME reap_orphaned_runs PROVE Kept
  BY <1>0, <1>3 DEF reap_orphaned_runs
<1> HIDE DEF Kept
<1>4. ASSUME item' = item PROVE Kept
  BY <1>4 DEF Kept
<1>5. ASSUME NEW p \in Procs, task_get(p) \/ task_put(p) \/ cancel_put(p) \/ crash(p) PROVE item' = item
  BY <1>5 DEF task_get, task_put, cancel_put, crash
<1>6. ASSUME NEW c \in Clients, start(c) \/ cancel(c) \/ enqueue(c) \/ link(c) \/ cancelling_put(c)
        \/ core_cancel(c) \/ resume_run(c) \/ lock(c)
      PROVE item' = item
  BY <1>6 DEF start, cancel, Arrive, enqueue, link, cancelling_put, core_cancel, resume_run, lock
<1>7. ASSUME NEW c \in Clients, NEW q \in Requests, resume(c, q) \/ review(c, q) PROVE item' = item
  BY <1>7 DEF resume, review, Arrive
<1>8. ASSUME NEW j \in Jobs, claim(j) \/ begin(j) \/ select_items(j) \/ worker_raises(j)
        \/ check_cancel(j) \/ merge_delete(j) \/ merge_read(j)
      PROVE item' = item
  BY <1>8 DEF claim, begin, select_items, worker_raises, check_cancel, merge_delete, merge_read
<1>9. ASSUME NEW j \in Jobs, merge_insert(j) \/ final_get(j) \/ final_put(j) \/ write_artifacts(j)
      PROVE item' = item
  BY <1>9 DEF merge_insert, final_get, final_put, write_artifacts
<1>10. ASSUME UNCHANGED vars PROVE item' = item
  BY <1>10 DEF vars
<1>11. Clients \subseteq Procs /\ Jobs \subseteq Procs
  BY DEF Procs
<1>12. ASSUME NEW c \in Clients, ClientStep(c) PROVE Kept
  BY <1>2, <1>4, <1>5, <1>6, <1>11, <1>12 DEF ClientStep
<1>13. ASSUME NEW j \in Jobs, WorkerStep(j) PROVE Kept
  BY <1>1, <1>4, <1>5, <1>8, <1>9, <1>11, <1>13 DEF WorkerStep
<1>14. Kept
  BY <1>3, <1>4, <1>5, <1>6, <1>7, <1>10, <1>12, <1>13 DEF Next
<1> QED BY <1>14 DEF Kept

-----------------------------------------------------------------------------
(* Counting.                                                                  *)

(* Where a process may be about to count the run.                             *)
Counting == {"final_put", "task_get", "task_put"}

(* A step that neither reads nor writes the count keeps it in order.          *)
LEMMA CountIsLeft ==
  ASSUME TypeOK, CountedAtMostOnce, CountInOrder,
         UNCHANGED <<run_count, seen>>, counted' = counted \/ counted' = TRUE,
         \A p \in Procs :
           \/ update'[p] = update[p] /\ (pc'[p] = pc[p] \/ pc[p] \notin Counting)
           \/ ~update'[p].count
  PROVE  CountedAtMostOnce' /\ CountInOrder'
<1>1. Uncounted' <=> Uncounted
  BY DEF Uncounted
<1>2. CountedAtMostOnce' /\ \A p \in Procs : seen'[p] <= 1
  BY DEF CountedAtMostOnce, CountInOrder
<1>3. ~counted' => Uncounted'
  BY <1>1 DEF CountInOrder, TypeOK
<1>4. ASSUME NEW p \in Procs, update'[p].count
      PROVE  /\ p \in Jobs /\ pc'[p] \in Counting /\ Uncounted'
             /\ pc'[p] \in {"task_get", "task_put"} => counted'
  <2>1. update'[p] = update[p] /\ (pc'[p] = pc[p] \/ pc[p] \notin Counting)
    BY <1>4
  <2>2. /\ p \in Jobs /\ pc[p] \in Counting /\ Uncounted
        /\ pc[p] \in {"task_get", "task_put"} => counted
    BY <1>4, <2>1 DEF CountInOrder, Counting
  <2> QED BY <1>1, <2>1, <2>2
<1> QED BY <1>2, <1>3, <1>4 DEF CountInOrder, Counting

(* Reading the count, writing it, and dying with it.                          *)
LEMMA CountIsRead ==
  ASSUME TypeOK, TypeOK', CountedAtMostOnce, CountInOrder, WorkInOrder, NEW p \in Procs,
         task_get(p) \/ task_put(p) \/ crash(p)
  PROVE  CountedAtMostOnce' /\ CountInOrder'
<1>0. /\ pc \in [Procs -> WorkerPCs \cup ClientPCs] /\ seen \in [Procs -> Nat] /\ run_count \in Nat
      /\ update \in [Procs -> [to : TaskStatuses, count : BOOLEAN]]
      /\ run_count <= 1 /\ \A q \in Procs : seen[q] <= 1
      /\ \A q \in Procs : update[q].count =>
           /\ q \in Jobs /\ pc[q] \in Counting /\ Uncounted
           /\ pc[q] \in {"task_get", "task_put"} => counted
      /\ ~counted => Uncounted
  BY DEF TypeOK, CountedAtMostOnce, CountInOrder, Counting
<1>1. CASE task_get(p)
  <2>1. /\ seen' = [seen EXCEPT ![p] = run_count] /\ pc' = [pc EXCEPT ![p] = "task_put"] /\ pc[p] = "task_get"
        /\ UNCHANGED <<run_count, counted, update>>
    BY <1>1 DEF task_get, Goto, run, tasks
  <2>2. Uncounted => Uncounted'
    BY <1>0, <2>1 DEF Uncounted
  <2>3. CountedAtMostOnce' /\ \A q \in Procs : seen'[q] <= 1
    BY <1>0, <2>1 DEF CountedAtMostOnce
  <2>4. \A q \in Procs : update'[q].count =>
           /\ q \in Jobs /\ pc'[q] \in Counting /\ Uncounted'
           /\ pc'[q] \in {"task_get", "task_put"} => counted'
    BY <1>0, <2>1, <2>2 DEF Counting
  <2> QED BY <1>0, <2>1, <2>2, <2>3, <2>4 DEF CountInOrder, Counting
<1>2. CASE crash(p)
  <2>1. /\ seen' = [seen EXCEPT ![p] = 0] /\ pc' = [pc EXCEPT ![p] = "idle"]
        /\ update' = [update EXCEPT ![p] = NoUpdate] /\ UNCHANGED <<run_count, counted>>
    BY <1>2 DEF crash, Goto, run, tasks
  <2>2. Uncounted => Uncounted'
    BY <1>0, <2>1 DEF Uncounted
  <2>3. CountedAtMostOnce' /\ \A q \in Procs : seen'[q] <= 1
    BY <1>0, <2>1 DEF CountedAtMostOnce
  <2>4. \A q \in Procs : update'[q].count =>
           /\ q \in Jobs /\ pc'[q] \in Counting /\ Uncounted'
           /\ pc'[q] \in {"task_get", "task_put"} => counted'
    BY <1>0, <2>1, <2>2 DEF NoUpdate
  <2> QED BY <1>0, <2>1, <2>2, <2>3, <2>4 DEF CountInOrder, Counting
<1>3. CASE task_put(p)
  <2>1. /\ seen' = [seen EXCEPT ![p] = 0] /\ pc[p] = "task_put"
        /\ \A q \in Procs \ {p} : pc'[q] = pc[q]
        /\ run_count' = seen[p] + IF update[p].count THEN 1 ELSE 0
        /\ update' = [update EXCEPT ![p] = NoUpdate] /\ counted' = counted
    BY <1>0, <1>3 DEF task_put, Goto, run
  <2>2. CASE update[p].count
    <3>1. p \in Jobs /\ Uncounted /\ counted
      BY <1>0, <2>1, <2>2
    <3>2. run_count' = 1 /\ \A q \in Procs : seen'[q] <= 1
      BY <1>0, <2>1, <2>2, <3>1 DEF Uncounted
    <3>3. ASSUME NEW q \in Procs, update'[q].count PROVE FALSE
      <4>1. q # p /\ update[q].count
        BY <1>0, <2>1, <3>3 DEF NoUpdate
      <4>2. q \in Jobs /\ pc[q] \in Counting
        BY <1>0, <4>1
      <4>3. Running(q) /\ Running(p)
        BY <2>1, <3>1, <4>2 DEF Counting, TypeOK, Running
      <4> QED BY <3>1, <4>1, <4>2, <4>3 DEF WorkInOrder
    <3> QED BY <2>1, <3>1, <3>2, <3>3 DEF CountInOrder, CountedAtMostOnce
  <2>3. CASE ~update[p].count
    <3>1. run_count' = seen[p]
      BY <1>0, <2>1, <2>3
    <3>2. Uncounted => Uncounted'
      BY <1>0, <2>1, <3>1 DEF Uncounted
    <3>3. CountedAtMostOnce' /\ \A q \in Procs : seen'[q] <= 1
      BY <1>0, <2>1, <3>1 DEF CountedAtMostOnce
    <3>4. \A q \in Procs : update'[q].count =>
           /\ q \in Jobs /\ pc'[q] \in Counting /\ Uncounted'
           /\ pc'[q] \in {"task_get", "task_put"} => counted'
      BY <1>0, <2>1, <3>2 DEF NoUpdate
    <3> QED BY <1>0, <2>1, <3>2, <3>3, <3>4 DEF CountInOrder, Counting
  <2> QED BY <2>2, <2>3
<1> QED BY <1>1, <1>2, <1>3

(* The worker decides to count the run when it has read it as not counted.    *)
LEMMA CountIsDecided ==
  ASSUME TypeOK, CountedAtMostOnce, CountInOrder, NEW j \in Jobs, final_get(j) \/ final_put(j)
  PROVE  CountedAtMostOnce' /\ CountInOrder'
<1>0. /\ pc \in [Procs -> WorkerPCs \cup ClientPCs] /\ j \in Procs /\ counted \in BOOLEAN
      /\ update \in [Procs -> [to : TaskStatuses, count : BOOLEAN]]
      /\ \A q \in Procs : update[q].count =>
           /\ q \in Jobs /\ pc[q] \in Counting /\ Uncounted
           /\ pc[q] \in {"task_get", "task_put"} => counted
      /\ ~counted => Uncounted
  BY DEF TypeOK, CountInOrder, Counting, Procs
<1>1. UNCHANGED <<run_count, seen>> /\ (Uncounted' <=> Uncounted)
  BY DEF final_get, final_put, tasks, Uncounted
<1>2. CountedAtMostOnce' /\ \A q \in Procs : seen'[q] <= 1
  BY <1>1 DEF CountedAtMostOnce, CountInOrder
<1>3. CASE final_get(j)
  <2>1. /\ pc' = [pc EXCEPT ![j] = "final_put"] /\ counted' = counted
        /\ update' = [update EXCEPT ![j] = [to |-> "ready", count |-> ~counted]]
    BY <1>3 DEF final_get, Goto, run, ShouldCount
  <2>2. ASSUME NEW q \in Procs, update'[q].count
        PROVE  /\ q \in Jobs /\ pc'[q] \in Counting /\ Uncounted'
               /\ pc'[q] \in {"task_get", "task_put"} => counted'
    <3>1. CASE q = j
      BY <1>0, <1>1, <2>1, <2>2, <3>1 DEF Counting
    <3>2. CASE q # j
      BY <1>0, <1>1, <2>1, <2>2, <3>2
    <3> QED BY <3>1, <3>2
  <2> QED BY <1>0, <1>1, <1>2, <2>1, <2>2 DEF CountInOrder, Counting
<1>4. CASE final_put(j)
  <2>1. /\ pc' = [pc EXCEPT ![j] = "task_get"] /\ counted' = TRUE
        /\ \E to : update' = [update EXCEPT ![j] = [to |-> to, count |-> update[j].count]]
    BY <1>4 DEF final_put, Goto, SetTask
  <2>2. ASSUME NEW q \in Procs, update'[q].count
        PROVE  /\ q \in Jobs /\ pc'[q] \in Counting /\ Uncounted'
               /\ pc'[q] \in {"task_get", "task_put"} => counted'
    <3>1. update[q].count
      BY <1>0, <2>1, <2>2
    <3> QED BY <1>0, <1>1, <2>1, <3>1 DEF Counting
  <2> QED BY <1>1, <1>2, <2>1, <2>2 DEF CountInOrder, Counting
<1> QED BY <1>3, <1>4

(* Every other step leaves the count alone.                                   *)
LEMMA CountSteps ==
  ASSUME TypeOK, TypeOK', CountedAtMostOnce, CountInOrder, WorkInOrder, [Next]_vars
  PROVE  CountedAtMostOnce' /\ CountInOrder'
<1> DEFINE Left == /\ UNCHANGED <<run_count, seen>> /\ counted' = counted
                   /\ \A p \in Procs :
                        \/ update'[p] = update[p] /\ (pc'[p] = pc[p] \/ pc[p] \notin Counting)
                        \/ ~update'[p].count
<1>0. /\ pc \in [Procs -> WorkerPCs \cup ClientPCs] /\ Jobs \subseteq Procs /\ Clients \subseteq Procs
      /\ update \in [Procs -> [to : TaskStatuses, count : BOOLEAN]]
  BY DEF TypeOK, Procs
<1>1. ASSUME UNCHANGED <<run_count, seen, counted, update>>,
             NEW p \in Procs, pc[p] \notin Counting, \E l : pc' = [pc EXCEPT ![p] = l]
      PROVE  Left
  BY <1>0, <1>1
<1>2. ASSUME UNCHANGED <<run_count, seen, counted>>, NEW p \in Procs,
             NEW to, update' = [update EXCEPT ![p] = [to |-> to, count |-> FALSE]],
             \E l : pc' = [pc EXCEPT ![p] = l]
      PROVE  Left
  BY <1>0, <1>2
<1> HIDE DEF Left
<1> USE DEF run, tasks, Counting
<1>3. ASSUME NEW c \in Clients, start(c) \/ cancel(c) \/ enqueue(c) \/ link(c) \/ cancelling_put(c)
      PROVE  Left
  <2>1. /\ UNCHANGED <<run_count, seen, counted, update>> /\ pc[c] \notin Counting
        /\ \E l : pc' = [pc EXCEPT ![c] = l]
    BY <1>3 DEF start, cancel, Arrive, enqueue, link, cancelling_put, Goto
  <2> QED BY <1>0, <1>1, <2>1
<1>4. ASSUME NEW c \in Clients, core_cancel(c) \/ resume_items(c) \/ resume_run(c)
      PROVE  Left
  <2>1. /\ UNCHANGED <<run_count, seen, counted, update>> /\ pc[c] \notin Counting
        /\ \E l : pc' = [pc EXCEPT ![c] = l]
    BY <1>4 DEF core_cancel, resume_items, resume_run, Goto
  <2> QED BY <1>0, <1>1, <2>1
<1>5. ASSUME NEW c \in Clients, NEW q \in Requests, resume(c, q) \/ review(c, q) PROVE Left
  <2>1. /\ UNCHANGED <<run_count, seen, counted, update>> /\ pc[c] \notin Counting
        /\ \E l : pc' = [pc EXCEPT ![c] = l]
    BY <1>5 DEF resume, review, Arrive, Goto
  <2> QED BY <1>0, <1>1, <2>1
<1>6. ASSUME NEW c \in Clients, lock(c) PROVE Left
  <2>1. UNCHANGED <<run_count, seen, counted>> /\ pc[c] = "lock"
    BY <1>6 DEF lock
  <2>2. CASE req[c] = "export"
    <3>1. /\ update' = [update EXCEPT ![c] = [to |-> "exported", count |-> FALSE]]
          /\ pc' = [pc EXCEPT ![c] = "task_get"]
      BY <1>6, <2>2 DEF lock, SetTask, Goto
    <3> QED BY <1>0, <1>2, <2>1, <3>1
  <2>3. CASE req[c] # "export"
    <3>1. update' = update /\ pc' = [pc EXCEPT ![c] = "idle"]
      BY <1>6, <2>3 DEF lock, Goto
    <3> QED BY <1>0, <1>1, <2>1, <3>1
  <2> QED BY <2>2, <2>3
<1>7. ASSUME NEW p \in Procs, cancel_put(p) PROVE Left
  <2>1. /\ update' = [update EXCEPT ![p] = [to |-> "ready", count |-> FALSE]]
        /\ UNCHANGED <<run_count, seen, counted>> /\ pc' = [pc EXCEPT ![p] = "task_get"]
    BY <1>7 DEF cancel_put, SetTask, Goto
  <2> QED BY <1>2, <2>1
<1>8. ASSUME NEW j \in Jobs, begin(j) PROVE Left
  <2>1. /\ update' = [update EXCEPT ![j] = [to |-> "extracting", count |-> FALSE]]
        /\ UNCHANGED <<run_count, seen, counted>> /\ pc' = [pc EXCEPT ![j] = "task_get"]
    BY <1>8 DEF begin, SetTask, Goto
  <2> QED BY <1>0, <1>2, <2>1
<1>9. ASSUME NEW j \in Jobs, claim(j) PROVE Left
  <2>1. /\ UNCHANGED <<run_count, seen, counted, update>> /\ pc[j] \notin Counting
        /\ \E l : pc' = [pc EXCEPT ![j] = l]
    BY <1>9 DEF claim, Goto, TypeOK
  <2> QED BY <1>0, <1>1, <2>1
<1>10. ASSUME NEW j \in Jobs, select_items(j) \/ next_item(j) \/ extracted(j) \/ worker_raises(j)
         \/ check_cancel(j)
       PROVE Left
  <2>1. UNCHANGED <<run_count, seen, counted, update>> /\ pc[j] \notin Counting
    BY <1>10 DEF select_items, next_item, extracted, worker_raises, check_cancel
  <2>2. \E l : pc' = [pc EXCEPT ![j] = l]
    BY <1>10 DEF select_items, next_item, extracted, worker_raises, check_cancel, Goto
  <2> QED BY <1>0, <1>1, <2>1, <2>2
<1>11. ASSUME NEW j \in Jobs, merge_delete(j) \/ merge_read(j) \/ merge_insert(j) \/ write_artifacts(j)
       PROVE Left
  <2>1. /\ UNCHANGED <<run_count, seen, counted, update>> /\ pc[j] \notin Counting
        /\ \E l : pc' = [pc EXCEPT ![j] = l]
    BY <1>11 DEF merge_delete, merge_read, merge_insert, write_artifacts, Goto
  <2> QED BY <1>0, <1>1, <2>1
<1>12. ASSUME reap_orphaned_runs \/ UNCHANGED vars PROVE Left
  BY <1>12 DEF reap_orphaned_runs, vars, Left
<1>13. CASE Left
  <2>1. /\ UNCHANGED <<run_count, seen>> /\ counted' = counted
        /\ \A p \in Procs :
             \/ update'[p] = update[p] /\ (pc'[p] = pc[p] \/ pc[p] \notin Counting)
             \/ ~update'[p].count
    BY <1>13 DEF Left
  <2> HIDE DEF Counting
  <2> QED BY <2>1, CountIsLeft
<1>14. CASE \E p \in Procs : task_get(p) \/ task_put(p) \/ crash(p)
  BY <1>14, CountIsRead
<1>15. CASE \E j \in Jobs : final_get(j) \/ final_put(j)
  BY <1>15, CountIsDecided
<1>16. ASSUME NEW c \in Clients, ClientStep(c)
       PROVE  Left \/ task_get(c) \/ task_put(c)
  BY <1>0, <1>3, <1>4, <1>6, <1>7, <1>16 DEF ClientStep
<1>17. ASSUME NEW j \in Jobs, WorkerStep(j)
       PROVE  Left \/ task_get(j) \/ task_put(j) \/ final_get(j) \/ final_put(j)
  BY <1>0, <1>7, <1>8, <1>9, <1>10, <1>11, <1>17 DEF WorkerStep
<1> QED BY <1>0, <1>3, <1>5, <1>12, <1>13, <1>14, <1>15, <1>16, <1>17 DEF Next

-----------------------------------------------------------------------------
(* Who drives the run.                                                        *)

(* A step of process p.                                                       *)
RequestOf(c) == start(c) \/ cancel(c) \/ ClientStep(c) \/ \E q \in Requests : resume(c, q) \/ review(c, q)
StepOf(p) == (p \in Clients /\ RequestOf(p)) \/ (p \in Jobs /\ WorkerStep(p)) \/ crash(p)

(* A step of a process moves no other process.                                *)
LEMMA StepMoves ==
  ASSUME TypeOK, NEW p \in Procs, StepOf(p)
  PROVE  \A q \in Procs \ {p} : pc'[q] = pc[q] /\ update'[q] = update[q]
<1>0. /\ pc \in [Procs -> WorkerPCs \cup ClientPCs]
      /\ update \in [Procs -> [to : TaskStatuses, count : BOOLEAN]]
  BY DEF TypeOK
<1> DEFINE Moved == /\ pc' = pc \/ \E l : pc' = [pc EXCEPT ![p] = l]
                    /\ update' = update \/ \E u : update' = [update EXCEPT ![p] = u]
<1> USE DEF Goto, SetTask
<1>1. ASSUME start(p) \/ cancel(p) \/ enqueue(p) \/ link(p) \/ cancelling_put(p) \/ core_cancel(p)
        \/ resume_items(p) \/ resume_run(p)
      PROVE Moved
  BY <1>1 DEF start, cancel, Arrive, enqueue, link, cancelling_put, core_cancel, resume_items, resume_run
<1>2. ASSUME NEW q \in Requests, resume(p, q) \/ review(p, q) PROVE Moved
  BY <1>2 DEF resume, review, Arrive
<1>3. ASSUME lock(p) \/ cancel_put(p) \/ task_get(p) \/ task_put(p) PROVE Moved
  BY <1>3 DEF lock, cancel_put, task_get, task_put
<1>4. ASSUME claim(p) \/ begin(p) \/ select_items(p) \/ next_item(p) \/ extracted(p) \/ worker_raises(p)
        \/ check_cancel(p) \/ merge_delete(p) \/ merge_read(p)
      PROVE Moved
  BY <1>4 DEF claim, begin, select_items, next_item, extracted, worker_raises, check_cancel, merge_delete,
     merge_read
<1>5. ASSUME merge_insert(p) \/ final_get(p) \/ final_put(p) \/ write_artifacts(p) \/ crash(p)
      PROVE Moved
  BY <1>5 DEF merge_insert, final_get, final_put, write_artifacts, crash
<1> HIDE DEF Moved
<1>6. Moved
  BY <1>1, <1>2, <1>3, <1>4, <1>5 DEF StepOf, RequestOf, ClientStep, WorkerStep
<1> QED BY <1>0, <1>6 DEF Moved

(* Every step is one of a process, of the reaper or of nobody.                *)
LEMMA WhoSteps ==
  ASSUME [Next]_vars
  PROVE  (\E p \in Procs : StepOf(p)) \/ reap_orphaned_runs \/ UNCHANGED vars
BY DEF Next, StepOf, RequestOf, Procs

(* What a process is at after a step that is not its own.                     *)
LEMMA OthersWait ==
  ASSUME TypeOK, [Next]_vars, NEW p \in Procs, ~StepOf(p)
  PROVE  pc'[p] = pc[p] /\ update'[p] = update[p]
<1>1. CASE \E q \in Procs : StepOf(q)
  BY <1>1, StepMoves
<1>2. CASE reap_orphaned_runs \/ UNCHANGED vars
  BY <1>2 DEF reap_orphaned_runs, vars
<1> QED BY <1>1, <1>2, WhoSteps

-----------------------------------------------------------------------------
(* Core jobs.                                                                 *)

(* JobsKnown of the row and of each request.                                  *)
LEMMA KnownIs ==
  JobsKnown <=> /\ core_job # NoJob => job[core_job] # "absent"
                /\ \A c \in Clients : ref[c] # NoJob => job[ref[c]] # "absent"
BY DEF JobsKnown

(* What a step does to the core jobs: those that exist go on to exist, and a  *)
(* queued one waits unless it is claimed or a request cancels it.             *)
LEMMA JobsChange ==
  ASSUME TypeOK, [Next]_vars
  PROVE  /\ \A j \in Jobs : job[j] # "absent" => job'[j] # "absent"
         /\ \A j \in Jobs : job[j] = "queued" =>
              job'[j] = "queued" \/ claim(j) \/ \E c \in Clients : core_cancel(c) /\ ref[c] = j
<1>0. /\ job \in [Jobs -> {"absent", "queued", "running", "finished", "cancelled", "dead"}]
      /\ \A j \in Jobs : pc[j] # "idle" <=> job[j] = "running"
  BY DEF TypeOK
<1> DEFINE Goal == /\ \A j \in Jobs : job[j] # "absent" => job'[j] # "absent"
                   /\ \A j \in Jobs : job[j] = "queued" =>
                        job'[j] = "queued" \/ claim(j) \/ \E c \in Clients : core_cancel(c) /\ ref[c] = j
<1>1. ASSUME NEW j \in Jobs, job' = [job EXCEPT ![j] = "queued"], job[j] = "absent" PROVE Goal
  BY <1>0, <1>1
<1>2. ASSUME NEW j \in Jobs, claim(j) PROVE Goal
  <2>1. job' = [job EXCEPT ![j] = "running"]
    BY <1>2 DEF claim
  <2> QED BY <1>0, <1>2, <2>1
<1>3. ASSUME NEW c \in Clients, core_cancel(c) PROVE Goal
  <2>1. job' = [j \in Jobs |-> IF j = ref[c] /\ job[j] = "queued" THEN "cancelled" ELSE job[j]]
    BY <1>3 DEF core_cancel
  <2> QED BY <1>0, <1>3, <2>1
<1>4. ASSUME NEW j \in Jobs, NEW s \in {"finished", "dead"}, pc[j] # "idle", job' = [job EXCEPT ![j] = s]
      PROVE Goal
  BY <1>0, <1>4
<1>5. ASSUME job' = job PROVE Goal
  BY <1>5
<1> HIDE DEF Goal
<1>6. ASSUME NEW c \in Clients, enqueue(c) PROVE Goal
  BY <1>1, <1>6 DEF enqueue
<1>7. ASSUME NEW j \in Jobs, write_artifacts(j) PROVE Goal
  BY <1>4, <1>7 DEF write_artifacts
<1>8. ASSUME NEW p \in Procs, crash(p) PROVE Goal
  BY <1>4, <1>5, <1>8 DEF crash
<1>9. ASSUME NEW c \in Clients, start(c) \/ cancel(c) \/ link(c) \/ cancelling_put(c)
        \/ resume_items(c) \/ resume_run(c) \/ lock(c)
      PROVE job' = job
  BY <1>9 DEF start, cancel, Arrive, link, cancelling_put, resume_items, resume_run, lock
<1>10. ASSUME NEW c \in Clients, NEW q \in Requests, resume(c, q) \/ review(c, q) PROVE job' = job
  BY <1>10 DEF resume, review, Arrive
<1>11. ASSUME NEW p, cancel_put(p) \/ task_get(p) \/ task_put(p) PROVE job' = job
  BY <1>11 DEF cancel_put, task_get, task_put
<1>12. ASSUME NEW j \in Jobs, begin(j) \/ select_items(j) \/ next_item(j) \/ extracted(j) \/ worker_raises(j)
         \/ check_cancel(j) \/ merge_delete(j) \/ merge_read(j)
       PROVE job' = job
  BY <1>12 DEF begin, select_items, next_item, extracted, worker_raises, check_cancel, merge_delete, merge_read
<1>13. ASSUME NEW j \in Jobs, merge_insert(j) \/ final_get(j) \/ final_put(j) PROVE job' = job
  BY <1>13 DEF merge_insert, final_get, final_put
<1>14. ASSUME reap_orphaned_runs \/ UNCHANGED vars PROVE job' = job
  BY <1>14 DEF reap_orphaned_runs, vars
<1>15. ASSUME NEW c \in Clients, ClientStep(c) PROVE Goal
  BY <1>3, <1>5, <1>6, <1>9, <1>11, <1>15 DEF ClientStep
<1>16. ASSUME NEW j \in Jobs, WorkerStep(j) PROVE Goal
  BY <1>2, <1>5, <1>7, <1>11, <1>12, <1>13, <1>16 DEF WorkerStep
<1>17. Goal
  BY <1>5, <1>8, <1>9, <1>10, <1>14, <1>15, <1>16 DEF Next
<1> QED BY <1>17 DEF Goal

(* What a request knows of the jobs, and the row.                             *)
LEMMA RefsChange ==
  ASSUME TypeOK, [Next]_vars
  PROVE  /\ core_job' = core_job \/ \E c \in Clients : link(c) /\ core_job' = ref[c]
         /\ \A c \in Clients :
              \/ ref'[c] = ref[c] \/ ref'[c] = NoJob
              \/ ref'[c] = core_job /\ pc'[c] \in {"core_cancel", "cancelling_put"}
              \/ ref'[c] \in Jobs /\ job[ref'[c]] = "absent" /\ job'[ref'[c]] # "absent" /\ pc'[c] = "link"
<1>0. /\ ref \in [Clients -> Jobs \cup {NoJob}] /\ pc \in [Procs -> WorkerPCs \cup ClientPCs]
      /\ job \in [Jobs -> {"absent", "queued", "running", "finished", "cancelled", "dead"}]
      /\ Clients \subseteq Procs
  BY DEF TypeOK, Procs
<1> DEFINE R == \A c \in Clients :
              \/ ref'[c] = ref[c] \/ ref'[c] = NoJob
              \/ ref'[c] = core_job /\ pc'[c] \in {"core_cancel", "cancelling_put"}
              \/ ref'[c] \in Jobs /\ job[ref'[c]] = "absent" /\ job'[ref'[c]] # "absent" /\ pc'[c] = "link"
           C == core_job' = core_job \/ \E c \in Clients : link(c) /\ core_job' = ref[c]
<1>1. ASSUME NEW c \in Clients, cancel(c) PROVE R /\ C
  <2>1. /\ ref' = [ref EXCEPT ![c] = core_job] /\ core_job' = core_job
        /\ pc' = [pc EXCEPT ![c] = IF status = "queued" THEN "core_cancel" ELSE "cancelling_put"]
    BY <1>1 DEF cancel, Arrive, Goto, run
  <2> QED BY <1>0, <2>1
<1>2. ASSUME NEW c \in Clients, enqueue(c) PROVE R /\ C
  <2>1. PICK j \in Jobs : /\ job[j] = "absent" /\ job' = [job EXCEPT ![j] = "queued"]
                          /\ ref' = [ref EXCEPT ![c] = j]
    BY <1>2 DEF enqueue
  <2>2. core_job' = core_job /\ pc' = [pc EXCEPT ![c] = "link"]
    BY <1>2 DEF enqueue, run, Goto
  <2> QED BY <1>0, <2>1, <2>2
<1>3. ASSUME NEW c \in Clients, link(c) \/ core_cancel(c) PROVE R /\ C
  <2>1. ref' = [ref EXCEPT ![c] = NoJob]
    BY <1>3 DEF link, core_cancel
  <2>2. C
    BY <1>3 DEF link, core_cancel, run
  <2> QED BY <1>0, <2>1, <2>2
<1>4. ASSUME NEW p \in Procs, crash(p) PROVE R /\ C
  <2>1. core_job' = core_job /\ (ref' = ref \/ ref' = [ref EXCEPT ![p] = NoJob])
    BY <1>4 DEF crash, run
  <2> QED BY <1>0, <2>1
<1>5. ASSUME ref' = ref, core_job' = core_job PROVE R /\ C
  BY <1>5
<1> HIDE DEF R, C
<1>6. ASSUME NEW c \in Clients, start(c) \/ cancelling_put(c) \/ resume_items(c) \/ resume_run(c) \/ lock(c)
      PROVE R /\ C
  BY <1>5, <1>6 DEF start, cancelling_put, resume_items, resume_run, lock, run, client
<1>7. ASSUME NEW c \in Clients, NEW q \in Requests, resume(c, q) \/ review(c, q) PROVE R /\ C
  BY <1>5, <1>7 DEF resume, review, Arrive, run
<1>8. ASSUME NEW p, cancel_put(p) \/ task_get(p) \/ task_put(p) PROVE R /\ C
  BY <1>5, <1>8 DEF cancel_put, task_get, task_put, run, client
<1>9. ASSUME NEW j \in Jobs, claim(j) \/ begin(j) \/ select_items(j) \/ next_item(j) \/ extracted(j)
        \/ worker_raises(j) \/ check_cancel(j) \/ merge_delete(j) \/ merge_read(j)
      PROVE R /\ C
  BY <1>5, <1>9 DEF claim, begin, select_items, next_item, extracted, worker_raises, check_cancel,
     merge_delete, merge_read, run, client
<1>10. ASSUME NEW j \in Jobs, merge_insert(j) \/ final_get(j) \/ final_put(j) \/ write_artifacts(j)
       PROVE R /\ C
  BY <1>5, <1>10 DEF merge_insert, final_get, final_put, write_artifacts, run, client
<1>11. ASSUME reap_orphaned_runs \/ UNCHANGED vars PROVE R /\ C
  BY <1>5, <1>11 DEF reap_orphaned_runs, vars, run, client
<1>12. ASSUME NEW c \in Clients, ClientStep(c) PROVE R /\ C
  BY <1>2, <1>3, <1>6, <1>8, <1>12 DEF ClientStep
<1>13. ASSUME NEW j \in Jobs, WorkerStep(j) PROVE R /\ C
  BY <1>8, <1>9, <1>10, <1>13 DEF WorkerStep
<1>14. R /\ C
  BY <1>1, <1>4, <1>6, <1>7, <1>11, <1>12, <1>13 DEF Next
<1> QED BY <1>14 DEF R, C

(* Every step keeps what is known of the jobs.                                *)
LEMMA KnownSteps ==
  ASSUME TypeOK, JobsKnown, [Next]_vars
  PROVE  JobsKnown'
<1>0. /\ core_job # NoJob => core_job \in Jobs /\ job[core_job] # "absent"
      /\ \A c \in Clients : ref[c] # NoJob => ref[c] \in Jobs /\ job[ref[c]] # "absent"
  BY KnownIs DEF TypeOK
<1>1. \A j \in Jobs : job[j] # "absent" => job'[j] # "absent"
  BY JobsChange
<1>2. core_job' # NoJob => job'[core_job'] # "absent"
  BY <1>0, <1>1, RefsChange
<1>3. \A c \in Clients : ref'[c] # NoJob => job'[ref'[c]] # "absent"
  BY <1>0, <1>1, RefsChange
<1> DEFINE K == /\ core_job # NoJob => job[core_job] # "absent"
                /\ \A c \in Clients : ref[c] # NoJob => job[ref[c]] # "absent"
<1>4. (JobsKnown <=> K)'
  BY KnownIs, PTL
<1> QED BY <1>2, <1>3, <1>4

-----------------------------------------------------------------------------
(* The drivers of a run: a request, a core job, a worker.                     *)
RequestDrives(c) == pc[c] \in {"enqueue", "core_cancel", "cancel_put", "cancelling_put"}
JobDrives(j) == job[j] = "queued" /\ ~Doomed(j)
WorkerDrives(j) ==
  /\ pc[j] \notin {"idle", "artifacts"}
  /\ pc[j] \in {"task_get", "task_put"} => update[j].to = "extracting"
Driven ==
  \/ \E c \in Clients : RequestDrives(c)
  \/ \E j \in Jobs : JobDrives(j)
  \/ \E j \in Jobs : WorkerDrives(j)

(* RunIsDriven by its drivers.                                                *)
LEMMA DrivenIs == RunIsDriven <=> (crashes = 0 /\ status \in {"queued", "running"} => Driven)
BY DEF RunIsDriven, Driven, RequestDrives, JobDrives, WorkerDrives

(* The status becomes queued or running by one who will drive the run.        *)
LEMMA StatusChange ==
  ASSUME TypeOK, [Next]_vars, status' \in {"queued", "running"}
  PROVE  status' = status \/ Driven'
<1>0. /\ pc \in [Procs -> WorkerPCs \cup ClientPCs] /\ Clients \subseteq Procs /\ Jobs \subseteq Procs
      /\ update \in [Procs -> [to : TaskStatuses, count : BOOLEAN]]
      /\ final \in [Jobs -> TERMINAL_STATUSES]
  BY DEF TypeOK, Procs
<1>1. ASSUME NEW c \in Clients, start(c) \/ resume_run(c) PROVE Driven'
  <2>1. pc' = [pc EXCEPT ![c] = "enqueue"]
    BY <1>1 DEF start, resume_run, Goto
  <2> QED BY <1>0, <2>1 DEF Driven, RequestDrives
<1>2. ASSUME NEW j \in Jobs, begin(j) PROVE Driven'
  <2>1. /\ pc' = [pc EXCEPT ![j] = "task_get"]
        /\ update' = [update EXCEPT ![j] = [to |-> "extracting", count |-> FALSE]]
    BY <1>2 DEF begin, SetTask, Goto
  <2> QED BY <1>0, <2>1 DEF Driven, WorkerDrives
<1>3. ASSUME NEW p, cancel_put(p) \/ cancelling_put(p) PROVE FALSE
  BY <1>3 DEF cancel_put, cancelling_put
<1>4. ASSUME NEW j \in Jobs, final_put(j) PROVE FALSE
  BY <1>0, <1>4 DEF final_put, TERMINAL_STATUSES
<1>5. ASSUME NEW c \in Clients, cancel(c) \/ enqueue(c) \/ link(c) \/ core_cancel(c) \/ resume_items(c)
        \/ lock(c)
      PROVE status' = status
  BY <1>5 DEF cancel, Arrive, enqueue, link, core_cancel, resume_items, lock, run
<1>6. ASSUME NEW c \in Clients, NEW q \in Requests, resume(c, q) \/ review(c, q) PROVE status' = status
  BY <1>6 DEF resume, review, Arrive, run
<1>7. ASSUME NEW p, task_get(p) \/ task_put(p) \/ crash(p) PROVE status' = status
  BY <1>7 DEF task_get, task_put, crash, run
<1>8. ASSUME NEW j \in Jobs, claim(j) \/ select_items(j) \/ next_item(j) \/ extracted(j)
        \/ worker_raises(j) \/ check_cancel(j) \/ merge_delete(j) \/ merge_read(j)
      PROVE status' = status
  BY <1>8 DEF claim, select_items, next_item, extracted, worker_raises, check_cancel, merge_delete,
     merge_read, run
<1>9. ASSUME NEW j \in Jobs, merge_insert(j) \/ final_get(j) \/ write_artifacts(j) PROVE status' = status
  BY <1>9 DEF merge_insert, final_get, write_artifacts, run
<1>10. ASSUME reap_orphaned_runs PROVE FALSE
  BY <1>10 DEF reap_orphaned_runs
<1>11. ASSUME UNCHANGED vars PROVE status' = status
  BY <1>11 DEF vars, run
<1>12. ASSUME NEW c \in Clients, ClientStep(c) PROVE status' = status \/ Driven'
  BY <1>1, <1>3, <1>5, <1>7, <1>12 DEF ClientStep
<1>13. ASSUME NEW j \in Jobs, WorkerStep(j) PROVE status' = status \/ Driven'
  BY <1>2, <1>3, <1>4, <1>7, <1>8, <1>9, <1>13 DEF WorkerStep
<1> QED BY <1>1, <1>5, <1>6, <1>7, <1>10, <1>11, <1>12, <1>13 DEF Next

(* A process dies only when it is counted.                                    *)
LEMMA DeathsCount ==
  ASSUME TypeOK, [Next]_vars, crashes' = 0
  PROVE  crashes = 0 /\ \A p \in Procs : ~crash(p)
<1>1. crashes \in Nat
  BY ConstantsAre DEF TypeOK
<1>2. ASSUME NEW p \in Procs, crash(p) PROVE FALSE
  BY <1>1, <1>2 DEF crash
<1>3. ASSUME NEW c \in Clients, RequestOf(c) PROVE crashes' = crashes
  <2>1. ASSUME start(c) \/ cancel(c) \/ enqueue(c) \/ link(c) \/ cancelling_put(c) \/ core_cancel(c)
          \/ resume_items(c)
        PROVE crashes' = crashes
    BY <2>1 DEF start, cancel, Arrive, enqueue, link, cancelling_put, core_cancel, resume_items, bounds, vars
  <2>2. ASSUME resume_run(c) \/ lock(c) \/ cancel_put(c) \/ task_get(c) \/ task_put(c)
        PROVE crashes' = crashes
    BY <2>2 DEF resume_run, lock, cancel_put, task_get, task_put, bounds
  <2>3. ASSUME NEW q \in Requests, resume(c, q) \/ review(c, q) PROVE crashes' = crashes
    BY <2>3 DEF resume, review, Arrive
  <2> QED BY <1>3, <2>1, <2>2, <2>3 DEF RequestOf, ClientStep
<1>4. ASSUME NEW j \in Jobs, WorkerStep(j) PROVE crashes' = crashes
  <2>1. ASSUME claim(j) \/ begin(j) \/ select_items(j) \/ next_item(j) \/ extracted(j) \/ worker_raises(j)
          \/ check_cancel(j)
        PROVE crashes' = crashes
    BY <2>1 DEF claim, begin, select_items, next_item, extracted, worker_raises, check_cancel, bounds
  <2>2. ASSUME merge_delete(j) \/ merge_read(j) \/ merge_insert(j) \/ final_get(j) \/ final_put(j)
          \/ cancel_put(j) \/ task_get(j) \/ task_put(j) \/ write_artifacts(j)
        PROVE crashes' = crashes
    BY <2>2 DEF merge_delete, merge_read, merge_insert, final_get, final_put, cancel_put, task_get, task_put,
       write_artifacts, bounds
  <2> QED BY <1>4, <2>1, <2>2 DEF WorkerStep
<1>5. ASSUME reap_orphaned_runs \/ UNCHANGED vars PROVE crashes' = crashes
  BY <1>5 DEF reap_orphaned_runs, vars, bounds
<1> QED BY <1>2, <1>3, <1>4, <1>5, WhoSteps DEF StepOf

(* A request that drives the run goes on, hands it to a core job, or gives    *)
(* the run a status that nobody has to drive.                                 *)
LEMMA RequestHandsOn ==
  ASSUME TypeOK, JobsKnown, [Next]_vars, crashes' = 0, status' \in {"queued", "running"},
         NEW c \in Clients, RequestDrives(c)
  PROVE  Driven'
<1>0. /\ pc \in [Procs -> WorkerPCs \cup ClientPCs] /\ c \in Procs /\ Clients \subseteq Procs
      /\ c \notin Jobs /\ ~crash(c)
      /\ job \in [Jobs -> {"absent", "queued", "running", "finished", "cancelled", "dead"}]
      /\ ref \in [Clients -> Jobs \cup {NoJob}]
      /\ \A d \in Clients : ref[d] # NoJob => job[ref[d]] # "absent"
  BY ConstantsAre, DeathsCount, KnownIs DEF TypeOK, Procs
<1>1. CASE ~StepOf(c)
  <2>1. pc'[c] = pc[c]
    BY <1>0, <1>1, OthersWait
  <2> QED BY <2>1 DEF RequestDrives, Driven
<1>2. CASE StepOf(c)
  <2>1. enqueue(c) \/ core_cancel(c) \/ cancel_put(c) \/ cancelling_put(c)
    BY <1>0, <1>2 DEF StepOf, RequestOf, ClientStep, RequestDrives, start, cancel, Arrive, resume, review,
       link, resume_items, resume_run, lock, task_get, task_put
  <2>2. CASE cancel_put(c) \/ cancelling_put(c)
    BY <2>2 DEF cancel_put, cancelling_put
  <2>3. CASE core_cancel(c)
    <3>1. pc' = [pc EXCEPT ![c] = IF pc[c] = "core_cancel" THEN "cancel_put" ELSE "idle"]
      BY <2>3 DEF core_cancel, Goto
    <3>2. pc[c] = "core_cancel"
      BY <2>3 DEF core_cancel, RequestDrives
    <3> QED BY <1>0, <3>1, <3>2 DEF Driven, RequestDrives
  <2>4. CASE enqueue(c)
    <3>1. PICK j \in Jobs : /\ job[j] = "absent" /\ job' = [job EXCEPT ![j] = "queued"]
                            /\ ref' = [ref EXCEPT ![c] = j]
      BY <2>4 DEF enqueue
    <3>2. pc' = [pc EXCEPT ![c] = "link"]
      BY <2>4 DEF enqueue, Goto
    <3>3. ASSUME NEW d \in Clients, pc'[d] = "cancelling_core", ref'[d] = j PROVE FALSE
      <4>1. d # c
        BY <1>0, <3>2, <3>3
      <4>2. ref[d] = j /\ j # NoJob
        BY <1>0, <3>1, <3>3, <4>1, ConstantsAre
      <4> QED BY <1>0, <3>1, <4>2
    <3>4. JobDrives(j)'
      BY <1>0, <3>1, <3>3 DEF JobDrives, Doomed
    <3> QED BY <3>4 DEF Driven
  <2> QED BY <2>1, <2>2, <2>3, <2>4
<1> QED BY <1>1, <1>2

(* A core job that drives the run waits or is claimed.                        *)
LEMMA JobHandsOn ==
  ASSUME TypeOK, JobsKnown, [Next]_vars, status' \in {"queued", "running"},
         NEW j \in Jobs, JobDrives(j)
  PROVE  Driven'
<1>0. /\ pc \in [Procs -> WorkerPCs \cup ClientPCs] /\ Clients \subseteq Procs /\ Jobs \subseteq Procs
      /\ job \in [Jobs -> {"absent", "queued", "running", "finished", "cancelled", "dead"}]
      /\ job[j] = "queued" /\ ~Doomed(j) /\ j # NoJob
  BY ConstantsAre DEF TypeOK, Procs, JobDrives
<1>1. CASE claim(j)
  <2>1. pc' = [pc EXCEPT ![j] = "begin"]
    BY <1>1 DEF claim, Goto
  <2> QED BY <1>0, <2>1 DEF Driven, WorkerDrives
<1>2. ASSUME NEW c \in Clients, core_cancel(c), ref[c] = j PROVE Driven'
  <2>1. pc[c] = "core_cancel"
    BY <1>0, <1>2 DEF core_cancel, Doomed
  <2>2. pc' = [pc EXCEPT ![c] = "cancel_put"]
    BY <1>2, <2>1 DEF core_cancel, Goto
  <2> QED BY <1>0, <2>2 DEF Driven, RequestDrives
<1>3. CASE job'[j] = "queued"
  <2>1. ASSUME NEW c \in Clients, pc'[c] = "cancelling_core", ref'[c] = j PROVE FALSE
    <3>1. ref'[c] = ref[c]
      BY <1>0, <2>1, RefsChange
    <3>2. pc[c] # "cancelling_core"
      BY <1>0, <2>1, <3>1 DEF Doomed
    <3>3. StepOf(c) /\ c \in Procs /\ c \notin Jobs
      BY <1>0, <2>1, <3>2, OthersWait, ConstantsAre
    <3>4. ~cancelling_put(c)
      BY DEF cancelling_put
    <3>5. CASE crash(c)
      BY <1>0, <2>1, <3>3, <3>5 DEF crash, Goto
    <3>6. CASE RequestOf(c)
      <4>1. ASSUME start(c) \/ cancel(c) \/ enqueue(c) \/ link(c) \/ core_cancel(c)
            PROVE pc'[c] # "cancelling_core"
        BY <1>0, <3>3, <4>1 DEF start, cancel, Arrive, enqueue, link, core_cancel, Goto
      <4>2. ASSUME resume_items(c) \/ resume_run(c) \/ cancel_put(c) \/ task_get(c) \/ task_put(c)
            PROVE pc'[c] # "cancelling_core"
        BY <1>0, <3>3, <4>2 DEF resume_items, resume_run, cancel_put, task_get, task_put, Goto, SetTask
      <4>3. ASSUME lock(c) PROVE pc'[c] # "cancelling_core"
        <5>1. pc' = [pc EXCEPT ![c] = "task_get"] \/ pc' = [pc EXCEPT ![c] = "idle"]
          BY <4>3 DEF lock, SetTask, Goto
        <5> QED BY <1>0, <3>3, <5>1
      <4>4. ASSUME NEW q \in Requests, resume(c, q) \/ review(c, q) PROVE pc'[c] # "cancelling_core"
        BY <1>0, <3>3, <4>4 DEF resume, review, Arrive, Goto
      <4> QED BY <2>1, <3>4, <3>6, <4>1, <4>2, <4>3, <4>4 DEF RequestOf, ClientStep
    <3> QED BY <3>3, <3>5, <3>6 DEF StepOf
  <2>2. JobDrives(j)'
    BY <1>3, <2>1 DEF JobDrives, Doomed
  <2> QED BY <2>2 DEF Driven
<1> QED BY <1>0, <1>1, <1>2, <1>3, JobsChange

(* A worker drives the run until it has written the final status.             *)
LEMMA WorkerHandsOn ==
  ASSUME TypeOK, [Next]_vars, crashes' = 0, status' \in {"queued", "running"},
         NEW j \in Jobs, WorkerDrives(j)
  PROVE  Driven'
<1>0. /\ pc \in [Procs -> WorkerPCs \cup ClientPCs] /\ j \in Procs /\ j \notin Clients /\ ~crash(j)
      /\ update \in [Procs -> [to : TaskStatuses, count : BOOLEAN]]
      /\ final \in [Jobs -> TERMINAL_STATUSES] /\ pc[j] \in WorkerPCs
      /\ pc[j] # "idle" <=> job[j] = "running"
  BY ConstantsAre, DeathsCount DEF TypeOK, Procs
<1>1. CASE ~StepOf(j)
  <2>1. pc'[j] = pc[j] /\ update'[j] = update[j]
    BY <1>0, <1>1, OthersWait
  <2> QED BY <2>1 DEF WorkerDrives, Driven
<1>2. CASE WorkerStep(j)
  <2> DEFINE Works == pc'[j] \notin {"idle", "artifacts", "task_get", "task_put"}
  <2>1. ASSUME Works PROVE Driven'
    BY <2>1 DEF WorkerDrives, Driven
  <2>2. ASSUME cancel_put(j) \/ final_put(j) PROVE FALSE
    BY <1>0, <2>2 DEF cancel_put, final_put, TERMINAL_STATUSES
  <2>3. ASSUME claim(j) \/ write_artifacts(j) PROVE FALSE
    BY <1>0, <2>3 DEF claim, write_artifacts, WorkerDrives
  <2>4. ASSUME begin(j) PROVE Driven'
    <3>1. /\ pc' = [pc EXCEPT ![j] = "task_get"]
          /\ update' = [update EXCEPT ![j] = [to |-> "extracting", count |-> FALSE]]
      BY <2>4 DEF begin, SetTask, Goto
    <3> QED BY <1>0, <3>1 DEF Driven, WorkerDrives
  <2>5. ASSUME task_get(j) PROVE Driven'
    <3>1. pc' = [pc EXCEPT ![j] = "task_put"] /\ update' = update /\ pc[j] = "task_get"
      BY <2>5 DEF task_get, Goto
    <3> QED BY <1>0, <3>1 DEF Driven, WorkerDrives
  <2>6. ASSUME task_put(j) PROVE Works
    <3>1. pc[j] = "task_put"
      BY <2>6 DEF task_put
    <3>2. update[j].to = "extracting"
      BY <3>1 DEF WorkerDrives
    <3>3. pc' = [pc EXCEPT ![j] = "select"]
      BY <1>0, <2>6, <3>2 DEF task_put, Goto
    <3> QED BY <1>0, <3>3
  <2>7. ASSUME select_items(j) \/ next_item(j) \/ extracted(j) \/ worker_raises(j) \/ check_cancel(j)
        PROVE Works
    BY <1>0, <2>7 DEF select_items, next_item, extracted, worker_raises, check_cancel, Goto
  <2>8. ASSUME merge_delete(j) \/ merge_read(j) \/ merge_insert(j) \/ final_get(j)
        PROVE Works
    BY <1>0, <2>8 DEF merge_delete, merge_read, merge_insert, final_get, Goto
  <2> HIDE DEF Works
  <2> QED BY <1>2, <2>1, <2>2, <2>3, <2>4, <2>5, <2>6, <2>7, <2>8 DEF WorkerStep
<1> QED BY <1>0, <1>1, <1>2 DEF StepOf

(* Every step keeps the run driven.                                           *)
LEMMA DrivenSteps ==
  ASSUME TypeOK, JobsKnown, RunIsDriven, [Next]_vars
  PROVE  RunIsDriven'
<1>1. ASSUME crashes' = 0, status' \in {"queued", "running"} PROVE Driven'
  <2>1. CASE status' = status
    <3>1. Driven
      BY <1>1, <2>1, DeathsCount, DrivenIs
    <3> QED BY <1>1, <3>1, RequestHandsOn, JobHandsOn, WorkerHandsOn DEF Driven
  <2> QED BY <1>1, <2>1, StatusChange
<1>2. (RunIsDriven <=> (crashes = 0 /\ status \in {"queued", "running"} => Driven))'
  BY DrivenIs, PTL
<1> QED BY <1>1, <1>2

-----------------------------------------------------------------------------
(* The theorems.                                                              *)

(* At first nothing is executed, counted or driven.                           *)
LEMMA ExtractionStarts == Init => ExtractionInv /\ RunIsDriven
<1> SUFFICES ASSUME Init PROVE ExtractionInv /\ RunIsDriven
  OBVIOUS
<1>1. TypeOK
  BY TypeStarts
<1>2. /\ status = "absent" /\ core_job = NoJob /\ counted = FALSE /\ run_count = 0
      /\ \A p \in Procs : pc[p] = "idle" /\ update[p] = NoUpdate /\ seen[p] = 0
      /\ \A j \in Jobs : job[j] = "absent" /\ pc[j] = "idle"
      /\ \A c \in Clients : ref[c] = NoJob
  BY DEF Init, Procs
<1>3. ReviewableRecordsComplete /\ RunIsDriven
  BY <1>2 DEF ReviewableRecordsComplete, Reviewable, RunIsDriven
<1>4. CountedAtMostOnce /\ CountInOrder
  BY <1>2 DEF CountedAtMostOnce, CountInOrder, Uncounted, NoUpdate
<1>5. WorkInOrder
  BY <1>2, IdleWork DEF WorkInOrder, Resting, Running
<1>6. JobsKnown
  BY <1>2, KnownIs
<1> QED BY <1>1, <1>3, <1>4, <1>5, <1>6 DEF ExtractionInv

(* With one worker every step keeps all of it.                                *)
LEMMA ExtractionSteps ==
  ASSUME MaxRunning = 1
  PROVE  ExtractionInv /\ [Next]_vars => ExtractionInv'
<1> SUFFICES ASSUME ExtractionInv, [Next]_vars PROVE ExtractionInv'
  OBVIOUS
<1>1. /\ TypeOK /\ ReviewableRecordsComplete /\ CountedAtMostOnce /\ WorkInOrder /\ CountInOrder
      /\ JobsKnown
  BY DEF ExtractionInv
<1>2. TypeOK'
  BY <1>1, TypeSteps
<1>3. ReviewableRecordsComplete' /\ WorkInOrder'
  BY <1>1, <1>2, WorkSteps
<1>4. CountedAtMostOnce' /\ CountInOrder'
  BY <1>1, <1>2, CountSteps
<1>5. JobsKnown'
  BY <1>1, KnownSteps
<1> QED BY <1>2, <1>3, <1>4, <1>5 DEF ExtractionInv

(* With one worker a reviewer finds one record of each completed item under a *)
(* completed run and the run is counted once, whatever requests, resumes,     *)
(* second jobs of the run, exceptions, crashes and reaps overlap.             *)
THEOREM ExtractionCorrect == ASSUME MaxRunning = 1 PROVE Spec => []ExtractionInv
<1>1. Init => ExtractionInv
  BY ExtractionStarts
<1> QED BY <1>1, ExtractionSteps, PTL DEF Spec

(* With one worker no step does the work of a completed item again, or loses  *)
(* it.                                                                        *)
THEOREM WorkIsKept == ASSUME MaxRunning = 1 PROVE Spec => CompletedItemsKept
<1>1. ExtractionInv /\ [Next]_vars =>
        [\A i \in Items : item[i] = "completed" => item'[i] = "completed"]_vars
  BY CompletedStays DEF ExtractionInv
<1> QED BY <1>1, ExtractionCorrect, PTL DEF Spec, CompletedItemsKept

(* With any number of workers: as long as nothing has crashed, a run that is  *)
(* queued or running has somebody who will take it to an end.                 *)
THEOREM RunDriven == Spec => []RunIsDriven
<1> DEFINE Drives == TypeOK /\ JobsKnown /\ RunIsDriven
<1>1. Init => Drives
  BY ExtractionStarts DEF ExtractionInv
<1>2. Drives /\ [Next]_vars => Drives'
  BY TypeSteps, KnownSteps, DrivenSteps
<1>3. Drives => RunIsDriven
  OBVIOUS
<1> QED BY <1>1, <1>2, <1>3, PTL DEF Spec
==============================================================================
