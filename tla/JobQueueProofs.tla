--------------------------- MODULE JobQueueProofs ---------------------------
(* Theorems about JobQueue, for every set of jobs, workers, clients and       *)
(* runners and every bound.                                                   *)
EXTENDS JobQueue, FiniteSetTheorems, TLAPS

(* The initial state satisfies the invariant: no job exists yet.              *)
LEMMA InitInv == Init => AttemptInv
  <1> SUFFICES ASSUME Init PROVE AttemptInv
    OBVIOUS
  <1> USE ConstantsAssumption DEF Init
  <1>1. TypeOK
    BY DEF TypeOK, Outside, WorkerPCs, TERMINAL_STATUSES
  <1>2. ControlOK
    BY DEF ControlOK, PCsOf, ReturnsOf, WorkerPCs, ClientPCs, RunnerPCs, Outside, Procs
  <1>3. FreshUntilClaimed /\ LeaseMeansClaimed /\ SingleAttempt
    BY DEF FreshUntilClaimed, LeaseMeansClaimed, SingleAttempt
  <1>4. WorkIsClaimed /\ RequeueMeansRetries /\ ClaimsLeft
    BY DEF WorkIsClaimed, RequeueMeansRetries, ClaimsLeft, Procs
  <1>5. WorkExists
    BY DEF WorkExists, Procs
  <1> QED BY <1>1, <1>2, <1>3, <1>4, <1>5 DEF AttemptInv

(* Appending an event changes no row, and the process goes where it was to go.*)
LEMMA AppendEventInv ==
  ASSUME AttemptInv, NEW p \in Procs, append_event(p) PROVE AttemptInv'
  <1> USE ConstantsAssumption DEF AttemptInv, append_event, row, loop, bounds
  <1>1. /\ job[p] \in Jobs /\ out[p] # <<>> /\ out[p] \in Seq(EventTypes)
        /\ ret[p] \in ReturnsOf(p)
    BY DEF TypeOK, ControlOK, Outside
  <1>2. Head(out[p]) \in EventTypes /\ Tail(out[p]) \in Seq(EventTypes)
    BY <1>1
  <1>3. ASSUME Tail(out[p]) = <<>> PROVE TypeOK' /\ ControlOK'
    <2>1. TypeOK'
      BY <1>1, <1>2, <1>3 DEF TypeOK, ReturnsOf, WorkerPCs, RunnerPCs, Outside
    <2>2. ControlOK'
      BY <1>1, <1>3 DEF TypeOK, ControlOK, PCsOf, ReturnsOf, WorkerPCs, ClientPCs, RunnerPCs, Outside
    <2> QED BY <2>1, <2>2
  <1>4. ASSUME Tail(out[p]) # <<>> PROVE TypeOK' /\ ControlOK'
    <2>1. TypeOK'
      BY <1>1, <1>2, <1>4 DEF TypeOK
    <2>2. ControlOK'
      BY <1>1, <1>4 DEF TypeOK, ControlOK
    <2> QED BY <2>1, <2>2
  <1>5. FreshUntilClaimed' /\ LeaseMeansClaimed' /\ SingleAttempt'
    BY DEF FreshUntilClaimed, LeaseMeansClaimed, SingleAttempt
  <1>6. WorkIsClaimed'
    <2>1. /\ pc' = pc /\ job' = job /\ ret' = ret
          \/ /\ pc' = [pc EXCEPT ![p] = ret[p]] /\ ret' = [ret EXCEPT ![p] = "idle"]
             /\ ret[p] = "run" => job' = job
             /\ \A w \in Procs \ {p} : job'[w] = job[w]
      BY DEF TypeOK
    <2>2. pc[p] = "append" /\ attempt_count' = attempt_count
          /\ pc \in [Procs -> WorkerPCs \cup RunnerPCs] /\ ret \in [Procs -> Outside \cup {"run", "start"}]
      BY DEF TypeOK
    <2>3. p \in Workers => ret[p] \in {"idle", "recover", "claim", "run"}
      BY <1>1 DEF ReturnsOf
    <2> HIDE DEF append_event, AttemptInv
    <2>4. WorkIsClaimed
      BY DEF AttemptInv
    <2> QED BY <2>1, <2>2, <2>3, <2>4 DEF WorkIsClaimed, Procs
  <1>7. RequeueMeansRetries'
    BY <1>1 DEF RequeueMeansRetries, Procs, TypeOK, ReturnsOf
  <1>8. ClaimsLeft'
    BY <1>1 DEF ClaimsLeft, Procs, TypeOK, ReturnsOf
  <1>9. WorkExists'
    <2>1. /\ UNCHANGED <<status, stale>> /\ WorkExists
          /\ job' \in {job, [job EXCEPT ![p] = NoJob]} /\ DOMAIN job = Procs
      BY DEF TypeOK
    <2> HIDE DEF append_event, AttemptInv
    <2> QED BY <2>1 DEF WorkExists, Procs
  <1> QED BY <1>3, <1>4, <1>5, <1>6, <1>7, <1>8, <1>9

(* A new row is queued and never claimed.                                     *)
LEMMA EnqueueInv ==
  ASSUME AttemptInv, NEW c \in Clients, enqueue(c) PROVE AttemptInv'
  <1> USE ConstantsAssumption DEF AttemptInv, enqueue, Insert, row, loop, bounds
  <1>1. <<"queued">> \in Seq(EventTypes) /\ <<"queued">> # <<>>
    BY DEF EventTypes
  <1>2. TypeOK'
    BY <1>1 DEF TypeOK, ControlOK, PCsOf, ReturnsOf, WorkerPCs, ClientPCs, RunnerPCs, Outside, Procs, TERMINAL_STATUSES
  <1>3. ControlOK'
    BY <1>1 DEF TypeOK, ControlOK, PCsOf, ReturnsOf, WorkerPCs, ClientPCs, RunnerPCs, Outside, Procs
  <1>4. FreshUntilClaimed' /\ LeaseMeansClaimed' /\ SingleAttempt'
    BY DEF FreshUntilClaimed, LeaseMeansClaimed, SingleAttempt, TypeOK, ControlOK, Procs, Outside, WorkExists, RequeueMeansRetries, TERMINAL_STATUSES
  <1>5. WorkIsClaimed'
    BY DEF WorkIsClaimed, LeaseMeansClaimed, Procs, TypeOK, ControlOK, Outside, ReturnsOf
  <1>6. RequeueMeansRetries'
    BY <1>1 DEF RequeueMeansRetries, WorkIsClaimed, LeaseMeansClaimed, Procs, TypeOK, ControlOK, ReturnsOf, Outside, WorkExists
  <1>7. ClaimsLeft'
    BY DEF ClaimsLeft, Procs, TypeOK, ControlOK, ReturnsOf, Outside
  <1>8. WorkExists'
    BY DEF WorkExists, Procs, TypeOK, ControlOK, Outside, TERMINAL_STATUSES
  <1> QED BY <1>2, <1>3, <1>4, <1>5, <1>6, <1>7, <1>8

(* So is the row of an inline job.                                           *)
LEMMA SubmitInv ==
  ASSUME AttemptInv, NEW r \in Runners, submit(r) PROVE AttemptInv'
  <1> USE ConstantsAssumption DEF AttemptInv, submit, Insert, row, loop, bounds
  <1>1. <<"queued">> \in Seq(EventTypes) /\ <<"queued">> # <<>>
    BY DEF EventTypes
  <1>2. TypeOK'
    BY <1>1 DEF TypeOK, ControlOK, PCsOf, ReturnsOf, WorkerPCs, ClientPCs, RunnerPCs, Outside, Procs, TERMINAL_STATUSES
  <1>3. ControlOK'
    BY <1>1 DEF TypeOK, ControlOK, PCsOf, ReturnsOf, WorkerPCs, ClientPCs, RunnerPCs, Outside, Procs
  <1>4. FreshUntilClaimed' /\ LeaseMeansClaimed' /\ SingleAttempt'
    BY DEF FreshUntilClaimed, LeaseMeansClaimed, SingleAttempt, TypeOK, ControlOK, Procs, Outside, WorkExists, RequeueMeansRetries, TERMINAL_STATUSES
  <1>5. WorkIsClaimed'
    BY DEF WorkIsClaimed, LeaseMeansClaimed, Procs, TypeOK, ControlOK, Outside, ReturnsOf
  <1>6. RequeueMeansRetries'
    BY <1>1 DEF RequeueMeansRetries, WorkIsClaimed, LeaseMeansClaimed, Procs, TypeOK, ControlOK, ReturnsOf, Outside, WorkExists
  <1>7. ClaimsLeft'
    BY DEF ClaimsLeft, Procs, TypeOK, ControlOK, ReturnsOf, Outside
  <1>8. WorkExists'
    BY DEF WorkExists, Procs, TypeOK, ControlOK, Outside, TERMINAL_STATUSES
  <1> QED BY <1>2, <1>3, <1>4, <1>5, <1>6, <1>7, <1>8

(* start makes the row running without a lease.                               *)
LEMMA StartInv ==
  ASSUME AttemptInv, NEW r \in Runners, start(r) PROVE AttemptInv'
  <1> USE ConstantsAssumption DEF AttemptInv, start, Owe, row, loop, bounds
  <1>1. <<"stage">> \in Seq(EventTypes) /\ <<"stage">> # <<>>
    BY DEF EventTypes
  <1>2. TypeOK'
    BY <1>1 DEF TypeOK, ControlOK, PCsOf, ReturnsOf, WorkerPCs, ClientPCs, RunnerPCs, Outside, Procs, TERMINAL_STATUSES
  <1>3. ControlOK'
    BY <1>1 DEF TypeOK, ControlOK, PCsOf, ReturnsOf, WorkerPCs, ClientPCs, RunnerPCs, Outside, Procs
  <1>4. FreshUntilClaimed' /\ LeaseMeansClaimed' /\ SingleAttempt'
    BY DEF FreshUntilClaimed, LeaseMeansClaimed, SingleAttempt, TypeOK, ControlOK, Procs, Outside, WorkExists, RequeueMeansRetries, TERMINAL_STATUSES
  <1>5. WorkIsClaimed'
    BY DEF WorkIsClaimed, LeaseMeansClaimed, Procs, TypeOK, ControlOK, Outside, ReturnsOf
  <1>6. RequeueMeansRetries'
    BY <1>1 DEF RequeueMeansRetries, WorkIsClaimed, LeaseMeansClaimed, Procs, TypeOK, ControlOK, ReturnsOf, Outside, WorkExists
  <1>7. ClaimsLeft'
    BY DEF ClaimsLeft, Procs, TypeOK, ControlOK, ReturnsOf, Outside
  <1>8. WorkExists'
    BY DEF WorkExists, Procs, TypeOK, ControlOK, Outside, TERMINAL_STATUSES
  <1> QED BY <1>2, <1>3, <1>4, <1>5, <1>6, <1>7, <1>8

(* Only leased rows are selected.                                             *)
LEMMA SelectStaleInv ==
  ASSUME AttemptInv, NEW w \in Workers, select_stale(w) PROVE AttemptInv'
  <1> USE ConstantsAssumption DEF AttemptInv, select_stale, StaleJobs, Goto, row, loop, bounds
  <1>2. TypeOK'
    BY DEF TypeOK, ControlOK, PCsOf, ReturnsOf, WorkerPCs, ClientPCs, RunnerPCs, Outside, Procs, TERMINAL_STATUSES
  <1>3. ControlOK'
    BY DEF TypeOK, ControlOK, PCsOf, ReturnsOf, WorkerPCs, ClientPCs, RunnerPCs, Outside, Procs
  <1>4. FreshUntilClaimed' /\ LeaseMeansClaimed' /\ SingleAttempt'
    BY DEF FreshUntilClaimed, LeaseMeansClaimed, SingleAttempt, TypeOK, ControlOK, Procs, Outside, WorkExists, RequeueMeansRetries, TERMINAL_STATUSES
  <1>5. WorkIsClaimed'
    BY DEF WorkIsClaimed, LeaseMeansClaimed, Procs, TypeOK, ControlOK, Outside, ReturnsOf
  <1>6. RequeueMeansRetries'
    BY DEF RequeueMeansRetries, WorkIsClaimed, LeaseMeansClaimed, Procs, TypeOK, ControlOK, ReturnsOf, Outside, WorkExists
  <1>7. ClaimsLeft'
    BY DEF ClaimsLeft, Procs, TypeOK, ControlOK, ReturnsOf, Outside
  <1>8. WorkExists'
    BY DEF WorkExists, Procs, TypeOK, ControlOK, Outside, TERMINAL_STATUSES
  <1> QED BY <1>2, <1>3, <1>4, <1>5, <1>6, <1>7, <1>8

(* A worker queues a claimed job again only when it has another attempt.      *)
LEMMA RecoverGetInv ==
  ASSUME AttemptInv, NEW w \in Workers, NEW j \in Jobs, recover_get(w, j) PROVE AttemptInv'
  <1> USE ConstantsAssumption DEF AttemptInv, recover_get, MayRetry, row, loop, bounds
  <1>2. TypeOK'
    BY DEF TypeOK, ControlOK, PCsOf, ReturnsOf, WorkerPCs, ClientPCs, RunnerPCs, Outside, Procs, TERMINAL_STATUSES
  <1>3. ControlOK'
    BY DEF TypeOK, ControlOK, PCsOf, ReturnsOf, WorkerPCs, ClientPCs, RunnerPCs, Outside, Procs
  <1>4. FreshUntilClaimed' /\ LeaseMeansClaimed' /\ SingleAttempt'
    BY DEF FreshUntilClaimed, LeaseMeansClaimed, SingleAttempt, TypeOK, ControlOK, Procs, Outside, WorkExists, RequeueMeansRetries, TERMINAL_STATUSES
  <1>5. WorkIsClaimed'
    BY DEF WorkIsClaimed, LeaseMeansClaimed, Procs, TypeOK, ControlOK, Outside, ReturnsOf
  <1>6. RequeueMeansRetries'
    BY DEF RequeueMeansRetries, WorkIsClaimed, LeaseMeansClaimed, Procs, TypeOK, ControlOK, ReturnsOf, Outside, WorkExists
  <1>7. ClaimsLeft'
    BY DEF ClaimsLeft, Procs, TypeOK, ControlOK, ReturnsOf, Outside
  <1>8. WorkExists'
    BY DEF WorkExists, Procs, TypeOK, ControlOK, Outside, TERMINAL_STATUSES
  <1> QED BY <1>2, <1>3, <1>4, <1>5, <1>6, <1>7, <1>8

(* The job it queues again has max_attempts > 1.                              *)
LEMMA RequeueStaleInv ==
  ASSUME AttemptInv, NEW w \in Workers, requeue_stale(w) PROVE AttemptInv'
  <1> USE ConstantsAssumption DEF AttemptInv, requeue_stale, Owe, row, loop, bounds
  <1>1. <<"retry">> \in Seq(EventTypes) /\ <<"retry">> # <<>>
    BY DEF EventTypes
  <1>2. TypeOK'
    BY <1>1 DEF TypeOK, ControlOK, PCsOf, ReturnsOf, WorkerPCs, ClientPCs, RunnerPCs, Outside, Procs, TERMINAL_STATUSES
  <1>3. ControlOK'
    BY <1>1 DEF TypeOK, ControlOK, PCsOf, ReturnsOf, WorkerPCs, ClientPCs, RunnerPCs, Outside, Procs
  <1>4. FreshUntilClaimed' /\ LeaseMeansClaimed' /\ SingleAttempt'
    BY DEF FreshUntilClaimed, LeaseMeansClaimed, SingleAttempt, TypeOK, ControlOK, Procs, Outside, WorkExists, RequeueMeansRetries, TERMINAL_STATUSES
  <1>5. WorkIsClaimed'
    BY DEF WorkIsClaimed, LeaseMeansClaimed, Procs, TypeOK, ControlOK, Outside, ReturnsOf
  <1>6. RequeueMeansRetries'
    BY <1>1 DEF RequeueMeansRetries, WorkIsClaimed, LeaseMeansClaimed, Procs, TypeOK, ControlOK, ReturnsOf, Outside, WorkExists
  <1>7. ClaimsLeft'
    BY DEF ClaimsLeft, Procs, TypeOK, ControlOK, ReturnsOf, Outside
  <1>8. WorkExists'
    BY DEF WorkExists, Procs, TypeOK, ControlOK, Outside, TERMINAL_STATUSES
  <1> QED BY <1>2, <1>3, <1>4, <1>5, <1>6, <1>7, <1>8

(* Going on to claim changes no row.                                          *)
LEMMA RecoveredInv ==
  ASSUME AttemptInv, NEW w \in Workers, recovered(w) PROVE AttemptInv'
  <1> USE ConstantsAssumption DEF AttemptInv, recovered, Goto, row, loop, bounds
  <1>2. TypeOK'
    BY DEF TypeOK, ControlOK, PCsOf, ReturnsOf, WorkerPCs, ClientPCs, RunnerPCs, Outside, Procs, TERMINAL_STATUSES
  <1>3. ControlOK'
    BY DEF TypeOK, ControlOK, PCsOf, ReturnsOf, WorkerPCs, ClientPCs, RunnerPCs, Outside, Procs
  <1>4. FreshUntilClaimed' /\ LeaseMeansClaimed' /\ SingleAttempt'
    BY DEF FreshUntilClaimed, LeaseMeansClaimed, SingleAttempt, TypeOK, ControlOK, Procs, Outside, WorkExists, RequeueMeansRetries, TERMINAL_STATUSES
  <1>5. WorkIsClaimed'
    BY DEF WorkIsClaimed, LeaseMeansClaimed, Procs, TypeOK, ControlOK, Outside, ReturnsOf
  <1>6. RequeueMeansRetries'
    BY DEF RequeueMeansRetries, WorkIsClaimed, LeaseMeansClaimed, Procs, TypeOK, ControlOK, ReturnsOf, Outside, WorkExists
  <1>7. ClaimsLeft'
    BY DEF ClaimsLeft, Procs, TypeOK, ControlOK, ReturnsOf, Outside
  <1>8. WorkExists'
    BY DEF WorkExists, Procs, TypeOK, ControlOK, Outside, TERMINAL_STATUSES
  <1> QED BY <1>2, <1>3, <1>4, <1>5, <1>6, <1>7, <1>8

(* A claim is the first one of a job with max_attempts = 1.                   *)
LEMMA ClaimInv ==
  ASSUME AttemptInv, NEW w \in Workers, NEW j \in Jobs, claim(w, j) PROVE AttemptInv'
  <1> USE ConstantsAssumption DEF AttemptInv, claim, Claimable, Lease, row, loop, bounds
  <1>1. <<"stage">> \in Seq(EventTypes) /\ <<"stage">> # <<>>
    BY DEF EventTypes
  <1>2. TypeOK'
    BY <1>1 DEF TypeOK, ControlOK, PCsOf, ReturnsOf, WorkerPCs, ClientPCs, RunnerPCs, Outside, Procs, TERMINAL_STATUSES, ClaimsLeft
  <1>3. ControlOK'
    BY <1>1 DEF TypeOK, ControlOK, PCsOf, ReturnsOf, WorkerPCs, ClientPCs, RunnerPCs, Outside, Procs
  <1>4. FreshUntilClaimed' /\ LeaseMeansClaimed' /\ SingleAttempt'
    BY DEF FreshUntilClaimed, LeaseMeansClaimed, SingleAttempt, TypeOK, ControlOK, Procs, Outside, WorkExists, RequeueMeansRetries, TERMINAL_STATUSES
  <1>5. WorkIsClaimed'
    BY DEF WorkIsClaimed, LeaseMeansClaimed, Procs, TypeOK, ControlOK, Outside, ReturnsOf
  <1>6. RequeueMeansRetries'
    BY <1>1 DEF RequeueMeansRetries, WorkIsClaimed, LeaseMeansClaimed, Procs, TypeOK, ControlOK, ReturnsOf, Outside, WorkExists
  <1>7. ClaimsLeft'
    BY DEF ClaimsLeft, Procs, TypeOK, ControlOK, ReturnsOf, Outside
  <1>8. WorkExists'
    BY DEF WorkExists, Procs, TypeOK, ControlOK, Outside, TERMINAL_STATUSES
  <1> QED BY <1>2, <1>3, <1>4, <1>5, <1>6, <1>7, <1>8

(* Finding nothing to claim changes no row.                                   *)
LEMMA ClaimNoneInv ==
  ASSUME AttemptInv, NEW w \in Workers, claim_none(w) PROVE AttemptInv'
  <1> USE ConstantsAssumption DEF AttemptInv, claim_none, Goto, row, loop, bounds
  <1>2. TypeOK'
    BY DEF TypeOK, ControlOK, PCsOf, ReturnsOf, WorkerPCs, ClientPCs, RunnerPCs, Outside, Procs, TERMINAL_STATUSES
  <1>3. ControlOK'
    BY DEF TypeOK, ControlOK, PCsOf, ReturnsOf, WorkerPCs, ClientPCs, RunnerPCs, Outside, Procs
  <1>4. FreshUntilClaimed' /\ LeaseMeansClaimed' /\ SingleAttempt'
    BY DEF FreshUntilClaimed, LeaseMeansClaimed, SingleAttempt, TypeOK, ControlOK, Procs, Outside, WorkExists, RequeueMeansRetries, TERMINAL_STATUSES
  <1>5. WorkIsClaimed'
    BY DEF WorkIsClaimed, LeaseMeansClaimed, Procs, TypeOK, ControlOK, Outside, ReturnsOf
  <1>6. RequeueMeansRetries'
    BY DEF RequeueMeansRetries, WorkIsClaimed, LeaseMeansClaimed, Procs, TypeOK, ControlOK, ReturnsOf, Outside, WorkExists
  <1>7. ClaimsLeft'
    BY DEF ClaimsLeft, Procs, TypeOK, ControlOK, ReturnsOf, Outside
  <1>8. WorkExists'
    BY DEF WorkExists, Procs, TypeOK, ControlOK, Outside, TERMINAL_STATUSES
  <1> QED BY <1>2, <1>3, <1>4, <1>5, <1>6, <1>7, <1>8

(* Running a handler changes no row of the queue.                             *)
LEMMA HandlerReturnsInv ==
  ASSUME AttemptInv, NEW p \in Procs, handler_returns(p) PROVE AttemptInv'
  <1> USE ConstantsAssumption DEF AttemptInv, handler_returns, Goto, row, loop, bounds
  <1>2. TypeOK'
    BY DEF TypeOK, ControlOK, PCsOf, ReturnsOf, WorkerPCs, ClientPCs, RunnerPCs, Outside, Procs, TERMINAL_STATUSES
  <1>3. ControlOK'
    <2>1. /\ pc[p] = "run" /\ UNCHANGED <<job, out, ret>>
          /\ pc' = [pc EXCEPT ![p] = IF p \in Workers THEN "check_cancel" ELSE "complete"]
          /\ pc \in [Procs -> WorkerPCs \cup RunnerPCs] /\ ControlOK
      BY DEF TypeOK
    <2>2. p \in Workers \/ p \in Runners
      BY <2>1 DEF ControlOK, PCsOf, ClientPCs, Procs
    <2>3. pc'[p] \in PCsOf(p) /\ pc'[p] \notin Outside \cup {"append"}
      BY <2>1, <2>2 DEF PCsOf, WorkerPCs, RunnerPCs, Outside
    <2>4. pc[p] \notin Outside \cup {"append"}
      BY <2>1 DEF Outside
    <2>5. \A x \in Procs \ {p} : pc'[x] = pc[x]
      BY <2>1
    <2> HIDE DEF handler_returns, AttemptInv
    <2> QED BY <2>1, <2>3, <2>4, <2>5 DEF ControlOK
  <1>4. FreshUntilClaimed' /\ LeaseMeansClaimed' /\ SingleAttempt'
    BY DEF FreshUntilClaimed, LeaseMeansClaimed, SingleAttempt, TypeOK, ControlOK, Procs, Outside, WorkExists, RequeueMeansRetries, TERMINAL_STATUSES
  <1>5. WorkIsClaimed'
    BY DEF WorkIsClaimed, LeaseMeansClaimed, Procs, TypeOK, ControlOK, Outside, ReturnsOf
  <1>6. RequeueMeansRetries'
    BY DEF RequeueMeansRetries, WorkIsClaimed, LeaseMeansClaimed, Procs, TypeOK, ControlOK, ReturnsOf, Outside, WorkExists
  <1>7. ClaimsLeft'
    BY DEF ClaimsLeft, Procs, TypeOK, ControlOK, ReturnsOf, Outside
  <1>8. WorkExists'
    BY DEF WorkExists, Procs, TypeOK, ControlOK, Outside, TERMINAL_STATUSES
  <1> QED BY <1>2, <1>3, <1>4, <1>5, <1>6, <1>7, <1>8

(* Nor does an exception, until it is recorded.                               *)
LEMMA HandlerRaisesInv ==
  ASSUME AttemptInv, NEW p \in Procs, handler_raises(p) PROVE AttemptInv'
  <1> USE ConstantsAssumption DEF AttemptInv, handler_raises, Goto, row, loop, bounds
  <1>2. TypeOK'
    BY DEF TypeOK, ControlOK, PCsOf, ReturnsOf, WorkerPCs, ClientPCs, RunnerPCs, Outside, Procs, TERMINAL_STATUSES
  <1>3. ControlOK'
    <2>1. /\ pc[p] = "run" /\ UNCHANGED <<job, out, ret>>
          /\ pc' = [pc EXCEPT ![p] = IF p \in Workers THEN "fail" ELSE "fail_write"]
          /\ pc \in [Procs -> WorkerPCs \cup RunnerPCs] /\ ControlOK
      BY DEF TypeOK
    <2>2. p \in Workers \/ p \in Runners
      BY <2>1 DEF ControlOK, PCsOf, ClientPCs, Procs
    <2>3. pc'[p] \in PCsOf(p) /\ pc'[p] \notin Outside \cup {"append"}
      BY <2>1, <2>2 DEF PCsOf, WorkerPCs, RunnerPCs, Outside
    <2>4. pc[p] \notin Outside \cup {"append"}
      BY <2>1 DEF Outside
    <2>5. \A x \in Procs \ {p} : pc'[x] = pc[x]
      BY <2>1
    <2> HIDE DEF handler_raises, AttemptInv
    <2> QED BY <2>1, <2>3, <2>4, <2>5 DEF ControlOK
  <1>4. FreshUntilClaimed' /\ LeaseMeansClaimed' /\ SingleAttempt'
    BY DEF FreshUntilClaimed, LeaseMeansClaimed, SingleAttempt, TypeOK, ControlOK, Procs, Outside, WorkExists, RequeueMeansRetries, TERMINAL_STATUSES
  <1>5. WorkIsClaimed'
    BY DEF WorkIsClaimed, LeaseMeansClaimed, Procs, TypeOK, ControlOK, Outside, ReturnsOf
  <1>6. RequeueMeansRetries'
    BY DEF RequeueMeansRetries, WorkIsClaimed, LeaseMeansClaimed, Procs, TypeOK, ControlOK, ReturnsOf, Outside, WorkExists
  <1>7. ClaimsLeft'
    BY DEF ClaimsLeft, Procs, TypeOK, ControlOK, ReturnsOf, Outside
  <1>8. WorkExists'
    BY DEF WorkExists, Procs, TypeOK, ControlOK, Outside, TERMINAL_STATUSES
  <1> QED BY <1>2, <1>3, <1>4, <1>5, <1>6, <1>7, <1>8

(* Nor does reading cancel_requested.                                         *)
LEMMA CheckCancelInv ==
  ASSUME AttemptInv, NEW w \in Workers, check_cancel(w) PROVE AttemptInv'
  <1> USE ConstantsAssumption DEF AttemptInv, check_cancel, Goto, row, loop, bounds
  <1>2. TypeOK'
    BY DEF TypeOK, ControlOK, PCsOf, ReturnsOf, WorkerPCs, ClientPCs, RunnerPCs, Outside, Procs, TERMINAL_STATUSES
  <1>3. ControlOK'
    BY DEF TypeOK, ControlOK, PCsOf, ReturnsOf, WorkerPCs, ClientPCs, RunnerPCs, Outside, Procs
  <1>4. FreshUntilClaimed' /\ LeaseMeansClaimed' /\ SingleAttempt'
    BY DEF FreshUntilClaimed, LeaseMeansClaimed, SingleAttempt, TypeOK, ControlOK, Procs, Outside, WorkExists, RequeueMeansRetries, TERMINAL_STATUSES
  <1>5. WorkIsClaimed'
    BY DEF WorkIsClaimed, LeaseMeansClaimed, Procs, TypeOK, ControlOK, Outside, ReturnsOf
  <1>6. RequeueMeansRetries'
    BY DEF RequeueMeansRetries, WorkIsClaimed, LeaseMeansClaimed, Procs, TypeOK, ControlOK, ReturnsOf, Outside, WorkExists
  <1>7. ClaimsLeft'
    BY DEF ClaimsLeft, Procs, TypeOK, ControlOK, ReturnsOf, Outside
  <1>8. WorkExists'
    BY DEF WorkExists, Procs, TypeOK, ControlOK, Outside, TERMINAL_STATUSES
  <1> QED BY <1>2, <1>3, <1>4, <1>5, <1>6, <1>7, <1>8

(* Completing settles the job and frees the lease.                            *)
LEMMA CompleteInv ==
  ASSUME AttemptInv, NEW p \in Procs, complete(p) PROVE AttemptInv'
  <1> USE ConstantsAssumption DEF AttemptInv, complete, Owe, After, row, loop, bounds
  <1>1. <<"result", "done">> \in Seq(EventTypes) /\ <<"result", "done">> # <<>>
    BY DEF EventTypes
  <1>2. TypeOK'
    BY <1>1 DEF TypeOK, ControlOK, PCsOf, ReturnsOf, WorkerPCs, ClientPCs, RunnerPCs, Outside, Procs, TERMINAL_STATUSES
  <1>3. ControlOK'
    BY <1>1 DEF TypeOK, ControlOK, PCsOf, ReturnsOf, WorkerPCs, ClientPCs, RunnerPCs, Outside, Procs
  <1>4. FreshUntilClaimed' /\ LeaseMeansClaimed' /\ SingleAttempt'
    BY DEF FreshUntilClaimed, LeaseMeansClaimed, SingleAttempt, TypeOK, ControlOK, Procs, Outside, WorkExists, RequeueMeansRetries, TERMINAL_STATUSES
  <1>5. WorkIsClaimed'
    BY DEF WorkIsClaimed, LeaseMeansClaimed, Procs, TypeOK, ControlOK, Outside, ReturnsOf
  <1>6. RequeueMeansRetries'
    BY <1>1 DEF RequeueMeansRetries, WorkIsClaimed, LeaseMeansClaimed, Procs, TypeOK, ControlOK, ReturnsOf, Outside, WorkExists
  <1>7. ClaimsLeft'
    BY DEF ClaimsLeft, Procs, TypeOK, ControlOK, ReturnsOf, Outside
  <1>8. WorkExists'
    BY DEF WorkExists, Procs, TypeOK, ControlOK, Outside, TERMINAL_STATUSES
  <1> QED BY <1>2, <1>3, <1>4, <1>5, <1>6, <1>7, <1>8

(* fail chooses to retry only when there is another attempt.                  *)
LEMMA FailGetInv ==
  ASSUME AttemptInv, NEW w \in Workers, fail_get(w) PROVE AttemptInv'
  <1> USE ConstantsAssumption DEF AttemptInv, fail_get, Goto, MayRetry, row, loop, bounds
  <1>1. job[w] \in Jobs /\ attempt_count[job[w]] >= 1
    BY DEF TypeOK, ControlOK, Outside, WorkIsClaimed, Procs
  <1>2. TypeOK'
    BY <1>1 DEF TypeOK, ControlOK, PCsOf, ReturnsOf, WorkerPCs, ClientPCs, RunnerPCs, Outside, Procs, TERMINAL_STATUSES
  <1>3. ControlOK'
    BY <1>1 DEF TypeOK, ControlOK, PCsOf, ReturnsOf, WorkerPCs, ClientPCs, RunnerPCs, Outside, Procs
  <1>4. FreshUntilClaimed' /\ LeaseMeansClaimed' /\ SingleAttempt'
    BY DEF FreshUntilClaimed, LeaseMeansClaimed, SingleAttempt, TypeOK, ControlOK, Procs, Outside, WorkExists, RequeueMeansRetries, TERMINAL_STATUSES
  <1>5. WorkIsClaimed'
    BY DEF WorkIsClaimed, LeaseMeansClaimed, Procs, TypeOK, ControlOK, Outside, ReturnsOf
  <1>6. RequeueMeansRetries'
    BY <1>1 DEF RequeueMeansRetries, WorkIsClaimed, LeaseMeansClaimed, Procs, TypeOK, ControlOK, ReturnsOf, Outside, WorkExists
  <1>7. ClaimsLeft'
    BY DEF ClaimsLeft, Procs, TypeOK, ControlOK, ReturnsOf, Outside
  <1>8. WorkExists'
    BY DEF WorkExists, Procs, TypeOK, ControlOK, Outside, TERMINAL_STATUSES
  <1> QED BY <1>2, <1>3, <1>4, <1>5, <1>6, <1>7, <1>8

(* The job it queues again has max_attempts > 1.                              *)
LEMMA FailRetryInv ==
  ASSUME AttemptInv, NEW w \in Workers, fail_retry(w) PROVE AttemptInv'
  <1> USE ConstantsAssumption DEF AttemptInv, fail_retry, Owe, After, row, loop, bounds
  <1>1. <<"retry">> \in Seq(EventTypes) /\ <<"retry">> # <<>>
    BY DEF EventTypes
  <1>2. TypeOK'
    BY <1>1 DEF TypeOK, ControlOK, PCsOf, ReturnsOf, WorkerPCs, ClientPCs, RunnerPCs, Outside, Procs, TERMINAL_STATUSES
  <1>3. ControlOK'
    BY <1>1 DEF TypeOK, ControlOK, PCsOf, ReturnsOf, WorkerPCs, ClientPCs, RunnerPCs, Outside, Procs
  <1>4. FreshUntilClaimed' /\ LeaseMeansClaimed' /\ SingleAttempt'
    BY DEF FreshUntilClaimed, LeaseMeansClaimed, SingleAttempt, TypeOK, ControlOK, Procs, Outside, WorkExists, RequeueMeansRetries, TERMINAL_STATUSES
  <1>5. WorkIsClaimed'
    BY DEF WorkIsClaimed, LeaseMeansClaimed, Procs, TypeOK, ControlOK, Outside, ReturnsOf
  <1>6. RequeueMeansRetries'
    BY <1>1 DEF RequeueMeansRetries, WorkIsClaimed, LeaseMeansClaimed, Procs, TypeOK, ControlOK, ReturnsOf, Outside, WorkExists
  <1>7. ClaimsLeft'
    BY DEF ClaimsLeft, Procs, TypeOK, ControlOK, ReturnsOf, Outside
  <1>8. WorkExists'
    BY DEF WorkExists, Procs, TypeOK, ControlOK, Outside, TERMINAL_STATUSES
  <1> QED BY <1>2, <1>3, <1>4, <1>5, <1>6, <1>7, <1>8

(* Failing settles the job and frees the lease.                               *)
LEMMA FailWriteInv ==
  ASSUME AttemptInv, NEW p \in Procs, fail_write(p) PROVE AttemptInv'
  <1> USE ConstantsAssumption DEF AttemptInv, fail_write, Owe, After, FailEvents, row, loop, bounds
  <1>1. <<"error", "done">> \in Seq(EventTypes) /\ <<"error", "done">> # <<>>
    BY DEF EventTypes
  <1>2. TypeOK'
    BY <1>1 DEF TypeOK, ControlOK, PCsOf, ReturnsOf, WorkerPCs, ClientPCs, RunnerPCs, Outside, Procs, TERMINAL_STATUSES
  <1>3. ControlOK'
    BY <1>1 DEF TypeOK, ControlOK, PCsOf, ReturnsOf, WorkerPCs, ClientPCs, RunnerPCs, Outside, Procs
  <1>4. FreshUntilClaimed' /\ LeaseMeansClaimed' /\ SingleAttempt'
    BY DEF FreshUntilClaimed, LeaseMeansClaimed, SingleAttempt, TypeOK, ControlOK, Procs, Outside, WorkExists, RequeueMeansRetries, TERMINAL_STATUSES
  <1>5. WorkIsClaimed'
    BY DEF WorkIsClaimed, LeaseMeansClaimed, Procs, TypeOK, ControlOK, Outside, ReturnsOf
  <1>6. RequeueMeansRetries'
    BY <1>1 DEF RequeueMeansRetries, WorkIsClaimed, LeaseMeansClaimed, Procs, TypeOK, ControlOK, ReturnsOf, Outside, WorkExists
  <1>7. ClaimsLeft'
    BY DEF ClaimsLeft, Procs, TypeOK, ControlOK, ReturnsOf, Outside
  <1>8. WorkExists'
    BY DEF WorkExists, Procs, TypeOK, ControlOK, Outside, TERMINAL_STATUSES
  <1> QED BY <1>2, <1>3, <1>4, <1>5, <1>6, <1>7, <1>8

(* A cancel request starts by naming an existing job.                         *)
LEMMA RequestCancelInv ==
  ASSUME AttemptInv, NEW c \in Clients, NEW j \in Jobs, request_cancel(c, j) PROVE AttemptInv'
  <1> USE ConstantsAssumption DEF AttemptInv, request_cancel, row, loop, bounds
  <1>2. TypeOK'
    BY DEF TypeOK, ControlOK, PCsOf, ReturnsOf, WorkerPCs, ClientPCs, RunnerPCs, Outside, Procs, TERMINAL_STATUSES
  <1>3. ControlOK'
    BY DEF TypeOK, ControlOK, PCsOf, ReturnsOf, WorkerPCs, ClientPCs, RunnerPCs, Outside, Procs
  <1>4. FreshUntilClaimed' /\ LeaseMeansClaimed' /\ SingleAttempt'
    BY DEF FreshUntilClaimed, LeaseMeansClaimed, SingleAttempt, TypeOK, ControlOK, Procs, Outside, WorkExists, RequeueMeansRetries, TERMINAL_STATUSES
  <1>5. WorkIsClaimed'
    BY DEF WorkIsClaimed, LeaseMeansClaimed, Procs, TypeOK, ControlOK, Outside, ReturnsOf
  <1>6. RequeueMeansRetries'
    BY DEF RequeueMeansRetries, WorkIsClaimed, LeaseMeansClaimed, Procs, TypeOK, ControlOK, ReturnsOf, Outside, WorkExists
  <1>7. ClaimsLeft'
    BY DEF ClaimsLeft, Procs, TypeOK, ControlOK, ReturnsOf, Outside
  <1>8. WorkExists'
    BY DEF WorkExists, Procs, TypeOK, ControlOK, Outside, TERMINAL_STATUSES
  <1> QED BY <1>2, <1>3, <1>4, <1>5, <1>6, <1>7, <1>8

(* Reading the row changes nothing, and a cancel of a settled job returns.    *)
LEMMA CancelGetInv ==
  ASSUME AttemptInv, NEW p \in Procs, cancel_get(p) PROVE AttemptInv'
  <1> USE ConstantsAssumption DEF AttemptInv, cancel_get, row, loop, bounds
  <1>1. job[p] \in Jobs /\ ~(p \in Runners) /\ out[p] = <<>> /\ p \in DOMAIN pc /\ p \in DOMAIN job
    BY DEF TypeOK, ControlOK, PCsOf, RunnerPCs, Outside, Procs
  <1>2. ASSUME status[job[p]] \in TERMINAL_STATUSES PROVE AttemptInv'
    <2>1. After(p) \in Outside /\ (p \in Clients => After(p) = "idle")
      BY DEF After, Outside
    <2>2. /\ pc' = [pc EXCEPT ![p] = After(p)]
          /\ job' = [job EXCEPT ![p] = NoJob]
          /\ UNCHANGED <<out, ret, row, events, loop, bounds>>
      BY <1>2 DEF Return
    <2> HIDE DEF cancel_get
    <2>3. TypeOK'
      BY <2>1, <2>2 DEF TypeOK, WorkerPCs, Outside
    <2>4. ControlOK'
      BY <1>1, <2>1, <2>2 DEF TypeOK, ControlOK, PCsOf, WorkerPCs, ClientPCs, Outside, Procs
    <2>5. FreshUntilClaimed' /\ LeaseMeansClaimed' /\ SingleAttempt'
      BY <2>2 DEF FreshUntilClaimed, LeaseMeansClaimed, SingleAttempt
    <2>6. WorkIsClaimed' /\ RequeueMeansRetries'
      BY <2>1, <2>2 DEF WorkIsClaimed, RequeueMeansRetries, TypeOK, Procs, Outside
    <2>7. ClaimsLeft'
      BY <2>1, <2>2 DEF ClaimsLeft, After, TypeOK, Procs, Outside
    <2>8. WorkExists'
      BY <2>2 DEF WorkExists, TypeOK, Procs
    <2> QED BY <2>3, <2>4, <2>5, <2>6, <2>7, <2>8
  <1>3. ASSUME ~(status[job[p]] \in TERMINAL_STATUSES) PROVE AttemptInv'
    <2> DEFINE l == IF status[job[p]] = "queued" THEN "cancel_queued" ELSE "cancel_running"
    <2>1. l \in {"cancel_queued", "cancel_running"}
      OBVIOUS
    <2>2. /\ pc' = [pc EXCEPT ![p] = l]
          /\ UNCHANGED <<job, out, ret, row, events, loop, bounds>>
          /\ pc[p] = "cancel"
      BY <1>3 DEF Goto
    <2> HIDE DEF cancel_get, l
    <2>3. TypeOK'
      BY <2>1, <2>2 DEF TypeOK, WorkerPCs
    <2>4. ControlOK'
      BY <1>1, <2>1, <2>2 DEF TypeOK, ControlOK, PCsOf, WorkerPCs, ClientPCs, Outside, Procs
    <2>5. FreshUntilClaimed' /\ LeaseMeansClaimed' /\ SingleAttempt'
      BY <2>2 DEF FreshUntilClaimed, LeaseMeansClaimed, SingleAttempt
    <2>6. WorkIsClaimed' /\ RequeueMeansRetries' /\ ClaimsLeft' /\ WorkExists'
      BY <2>1, <2>2 DEF WorkIsClaimed, RequeueMeansRetries, ClaimsLeft, WorkExists, TypeOK, Procs
    <2> QED BY <2>3, <2>4, <2>5, <2>6
  <1> QED BY <1>2, <1>3

(* Cancelling settles the job; it may leave a lease behind.                   *)
LEMMA CancelQueuedInv ==
  ASSUME AttemptInv, NEW p \in Procs, cancel_queued(p) PROVE AttemptInv'
  <1> USE ConstantsAssumption DEF AttemptInv, cancel_queued, Owe, After, row, loop, bounds
  <1>1. <<"cancelled", "done">> \in Seq(EventTypes) /\ <<"cancelled", "done">> # <<>>
    BY DEF EventTypes
  <1>2. TypeOK'
    BY <1>1 DEF TypeOK, ControlOK, PCsOf, ReturnsOf, WorkerPCs, ClientPCs, RunnerPCs, Outside, Procs, TERMINAL_STATUSES
  <1>3. ControlOK'
    BY <1>1 DEF TypeOK, ControlOK, PCsOf, ReturnsOf, WorkerPCs, ClientPCs, RunnerPCs, Outside, Procs
  <1>4. FreshUntilClaimed' /\ LeaseMeansClaimed' /\ SingleAttempt'
    BY DEF FreshUntilClaimed, LeaseMeansClaimed, SingleAttempt, TypeOK, ControlOK, Procs, Outside, WorkExists, RequeueMeansRetries, TERMINAL_STATUSES
  <1>5. WorkIsClaimed'
    BY DEF WorkIsClaimed, LeaseMeansClaimed, Procs, TypeOK, ControlOK, Outside, ReturnsOf
  <1>6. RequeueMeansRetries'
    BY <1>1 DEF RequeueMeansRetries, WorkIsClaimed, LeaseMeansClaimed, Procs, TypeOK, ControlOK, ReturnsOf, Outside, WorkExists
  <1>7. ClaimsLeft'
    BY DEF ClaimsLeft, Procs, TypeOK, ControlOK, ReturnsOf, Outside
  <1>8. WorkExists'
    BY DEF WorkExists, Procs, TypeOK, ControlOK, Outside, TERMINAL_STATUSES
  <1> QED BY <1>2, <1>3, <1>4, <1>5, <1>6, <1>7, <1>8

(* Asking a running job to cancel changes only the flag.                      *)
LEMMA CancelRunningInv ==
  ASSUME AttemptInv, NEW p \in Procs, cancel_running(p) PROVE AttemptInv'
  <1> USE ConstantsAssumption DEF AttemptInv, cancel_running, Owe, After, CancelRequestedEvents, row, loop, bounds
  <1>1. <<"cancel_requested">> \in Seq(EventTypes) /\ <<"cancel_requested">> # <<>>
    BY DEF EventTypes
  <1>2. TypeOK'
    BY <1>1 DEF TypeOK, ControlOK, PCsOf, ReturnsOf, WorkerPCs, ClientPCs, RunnerPCs, Outside, Procs, TERMINAL_STATUSES
  <1>3. ControlOK'
    BY <1>1 DEF TypeOK, ControlOK, PCsOf, ReturnsOf, WorkerPCs, ClientPCs, RunnerPCs, Outside, Procs
  <1>4. FreshUntilClaimed' /\ LeaseMeansClaimed' /\ SingleAttempt'
    BY DEF FreshUntilClaimed, LeaseMeansClaimed, SingleAttempt, TypeOK, ControlOK, Procs, Outside, WorkExists, RequeueMeansRetries, TERMINAL_STATUSES
  <1>5. WorkIsClaimed'
    BY DEF WorkIsClaimed, LeaseMeansClaimed, Procs, TypeOK, ControlOK, Outside, ReturnsOf
  <1>6. RequeueMeansRetries'
    BY <1>1 DEF RequeueMeansRetries, WorkIsClaimed, LeaseMeansClaimed, Procs, TypeOK, ControlOK, ReturnsOf, Outside, WorkExists
  <1>7. ClaimsLeft'
    BY DEF ClaimsLeft, Procs, TypeOK, ControlOK, ReturnsOf, Outside
  <1>8. WorkExists'
    BY DEF WorkExists, Procs, TypeOK, ControlOK, Outside, TERMINAL_STATUSES
  <1> QED BY <1>2, <1>3, <1>4, <1>5, <1>6, <1>7, <1>8

(* An expired lease is still the lease of a claimed job.                      *)
LEMMA LeaseExpiresInv ==
  ASSUME AttemptInv, NEW j \in Jobs, lease_expires(j) PROVE AttemptInv'
  <1> USE ConstantsAssumption DEF AttemptInv, lease_expires, row, loop, bounds
  <1>2. TypeOK'
    BY DEF TypeOK, ControlOK, PCsOf, ReturnsOf, WorkerPCs, ClientPCs, RunnerPCs, Outside, Procs, TERMINAL_STATUSES
  <1>3. ControlOK'
    BY DEF TypeOK, ControlOK, PCsOf, ReturnsOf, WorkerPCs, ClientPCs, RunnerPCs, Outside, Procs
  <1>4. FreshUntilClaimed' /\ LeaseMeansClaimed' /\ SingleAttempt'
    BY DEF FreshUntilClaimed, LeaseMeansClaimed, SingleAttempt, TypeOK, ControlOK, Procs, Outside, WorkExists, RequeueMeansRetries, TERMINAL_STATUSES
  <1>5. WorkIsClaimed'
    BY DEF WorkIsClaimed, LeaseMeansClaimed, Procs, TypeOK, ControlOK, Outside, ReturnsOf
  <1>6. RequeueMeansRetries'
    BY DEF RequeueMeansRetries, WorkIsClaimed, LeaseMeansClaimed, Procs, TypeOK, ControlOK, ReturnsOf, Outside, WorkExists
  <1>7. ClaimsLeft'
    BY DEF ClaimsLeft, Procs, TypeOK, ControlOK, ReturnsOf, Outside
  <1>8. WorkExists'
    BY DEF WorkExists, Procs, TypeOK, ControlOK, Outside, TERMINAL_STATUSES
  <1> QED BY <1>2, <1>3, <1>4, <1>5, <1>6, <1>7, <1>8

(* Becoming due changes no column the invariant reads.                        *)
LEMMA BackoffElapsesInv ==
  ASSUME AttemptInv, NEW j \in Jobs, backoff_elapses(j) PROVE AttemptInv'
  <1> USE ConstantsAssumption DEF AttemptInv, backoff_elapses, row, loop, bounds
  <1>2. TypeOK'
    BY DEF TypeOK, ControlOK, PCsOf, ReturnsOf, WorkerPCs, ClientPCs, RunnerPCs, Outside, Procs, TERMINAL_STATUSES
  <1>3. ControlOK'
    BY DEF TypeOK, ControlOK, PCsOf, ReturnsOf, WorkerPCs, ClientPCs, RunnerPCs, Outside, Procs
  <1>4. FreshUntilClaimed' /\ LeaseMeansClaimed' /\ SingleAttempt'
    BY DEF FreshUntilClaimed, LeaseMeansClaimed, SingleAttempt, TypeOK, ControlOK, Procs, Outside, WorkExists, RequeueMeansRetries, TERMINAL_STATUSES
  <1>5. WorkIsClaimed'
    BY DEF WorkIsClaimed, LeaseMeansClaimed, Procs, TypeOK, ControlOK, Outside, ReturnsOf
  <1>6. RequeueMeansRetries'
    BY DEF RequeueMeansRetries, WorkIsClaimed, LeaseMeansClaimed, Procs, TypeOK, ControlOK, ReturnsOf, Outside, WorkExists
  <1>7. ClaimsLeft'
    BY DEF ClaimsLeft, Procs, TypeOK, ControlOK, ReturnsOf, Outside
  <1>8. WorkExists'
    BY DEF WorkExists, Procs, TypeOK, ControlOK, Outside, TERMINAL_STATUSES
  <1> QED BY <1>2, <1>3, <1>4, <1>5, <1>6, <1>7, <1>8

(* A crash forgets what the process held.                                     *)
LEMMA CrashInv ==
  ASSUME AttemptInv, NEW p \in Procs, crash(p) PROVE AttemptInv'
  <1> USE ConstantsAssumption DEF AttemptInv, crash, row, loop, bounds
  <1>2. TypeOK'
    BY DEF TypeOK, ControlOK, PCsOf, ReturnsOf, WorkerPCs, ClientPCs, RunnerPCs, Outside, Procs, TERMINAL_STATUSES
  <1>3. ControlOK'
    BY DEF TypeOK, ControlOK, PCsOf, ReturnsOf, WorkerPCs, ClientPCs, RunnerPCs, Outside, Procs
  <1>4. FreshUntilClaimed' /\ LeaseMeansClaimed' /\ SingleAttempt'
    BY DEF FreshUntilClaimed, LeaseMeansClaimed, SingleAttempt, TypeOK, ControlOK, Procs, Outside, WorkExists, RequeueMeansRetries, TERMINAL_STATUSES
  <1>5. WorkIsClaimed'
    BY DEF WorkIsClaimed, LeaseMeansClaimed, Procs, TypeOK, ControlOK, Outside, ReturnsOf
  <1>6. RequeueMeansRetries'
    BY DEF RequeueMeansRetries, WorkIsClaimed, LeaseMeansClaimed, Procs, TypeOK, ControlOK, ReturnsOf, Outside, WorkExists
  <1>7. ClaimsLeft'
    BY DEF ClaimsLeft, Procs, TypeOK, ControlOK, ReturnsOf, Outside
  <1>8. WorkExists'
    BY DEF WorkExists, Procs, TypeOK, ControlOK, Outside, TERMINAL_STATUSES
  <1> QED BY <1>2, <1>3, <1>4, <1>5, <1>6, <1>7, <1>8

(* Every step preserves the invariant.                                        *)
LEMMA NextInv == AttemptInv /\ [Next]_vars => AttemptInv'
  <1> SUFFICES ASSUME AttemptInv, [Next]_vars PROVE AttemptInv'
    OBVIOUS
  <1>1. CASE \E w \in Workers : WorkerStep(w)
    BY <1>1, SelectStaleInv, RequeueStaleInv, RecoveredInv, ClaimNoneInv, RecoverGetInv,
       ClaimInv, CheckCancelInv, FailGetInv, FailRetryInv DEF WorkerStep
  <1>2. CASE \E c \in Clients : enqueue(c) \/ \E j \in Jobs : request_cancel(c, j)
    BY <1>2, EnqueueInv, RequestCancelInv
  <1>3. CASE \E r \in Runners : submit(r) \/ start(r)
    BY <1>3, SubmitInv, StartInv
  <1>4. CASE \E p \in Procs : CallStep(p) \/ crash(p)
    BY <1>4, AppendEventInv, HandlerReturnsInv, HandlerRaisesInv, CompleteInv, FailWriteInv,
       CancelGetInv, CancelQueuedInv, CancelRunningInv, CrashInv DEF CallStep
  <1>5. CASE \E j \in Jobs : lease_expires(j) \/ backoff_elapses(j)
    BY <1>5, LeaseExpiresInv, BackoffElapsesInv
  <1>6. CASE UNCHANGED vars
    BY <1>6 DEF vars, row, loop, bounds, AttemptInv, TypeOK, ControlOK, FreshUntilClaimed,
       LeaseMeansClaimed, WorkIsClaimed, RequeueMeansRetries, WorkExists, ClaimsLeft,
       SingleAttempt
  <1> QED BY <1>1, <1>2, <1>3, <1>4, <1>5, <1>6 DEF Next

(* The invariant holds in every reachable state, and the types with it.       *)
THEOREM AttemptsAreInvariant == Spec => []AttemptInv
  BY InitInv, NextInv, PTL DEF Spec

(* The tables and the processes' own variables stay within their types.       *)
THEOREM TypeCorrect == Spec => []TypeOK
  <1>1. AttemptInv => TypeOK
    BY DEF AttemptInv
  <1> QED BY <1>1, AttemptsAreInvariant, PTL

(* A job submitted with max_attempts = 1 is dispatched at most once, whatever *)
(* the interleaving of workers, recoveries, cancels and crashes.              *)
THEOREM DispatchedOnce == Spec => []SingleAttempt
  <1>1. AttemptInv => SingleAttempt
    BY DEF AttemptInv
  <1> QED BY <1>1, AttemptsAreInvariant, PTL

(* A claim of such a job is its first, so nobody executes it; no other step   *)
(* makes a worker start to execute.                                           *)
LEMMA StepKeepsExclusive ==
  ASSUME AttemptInv, [Next]_vars, ExclusiveExecution
  PROVE ExclusiveExecution'
  <1> SUFFICES ASSUME NEW k \in Jobs, max_attempts'[k] = 1,
                      NEW w1 \in Workers, NEW w2 \in Workers,
                      Executes(w1, k)', Executes(w2, k)'
               PROVE w1 = w2
    BY DEF ExclusiveExecution
  <1> USE DEF AttemptInv, row, loop, bounds
  <1>1. CASE \E w \in Workers, j \in Jobs : claim(w, j)
    <2> PICK w \in Workers, j \in Jobs : claim(w, j)
      BY <1>1
    <2>1. status[j] = "queued" /\ max_attempts' = max_attempts
      BY DEF claim, Claimable
    <2>2. CASE j = k
      <3>1. attempt_count[k] = 0
        BY <2>1, <2>2 DEF FreshUntilClaimed
      <3>2. \A x \in Workers : ~Executes(x, k)
        BY <3>1 DEF Executes, WorkIsClaimed
      <3>3. \A x \in Workers : x # w => (Executes(x, k)' <=> Executes(x, k))
        BY DEF claim, Executes, TypeOK, Procs
      <3> QED BY <3>2, <3>3
    <2>3. CASE j # k
      <3>1. ~Executes(w, k)'
        BY <2>3 DEF claim, Executes, TypeOK, Procs
      <3>2. \A x \in Workers : x # w => (Executes(x, k)' <=> Executes(x, k))
        BY DEF claim, Executes, TypeOK, Procs
      <3> QED BY <2>1, <3>1, <3>2 DEF ExclusiveExecution
    <2> QED BY <2>2, <2>3
  <1>2. ASSUME max_attempts[k] = max_attempts'[k],
               \A x \in Workers : Executes(x, k)' => Executes(x, k)
        PROVE w1 = w2
    BY <1>2 DEF ExclusiveExecution
  <1>3. ASSUME NEW p \in Procs, p \notin Workers,
               NEW j \in Jobs, NEW limit, NEW l, Insert(p, j, limit, l)
        PROVE w1 = w2
    <2>1. \A x \in Workers : Executes(x, k)' => Executes(x, k)
      BY <1>3 DEF Insert, Executes, TypeOK, Procs
    <2>2. \A x \in Workers : Executes(x, k) => status[k] # "absent"
      BY ConstantsAssumption DEF Executes, WorkExists, Procs
    <2>3. max_attempts[k] = max_attempts'[k]
      BY <1>3, <2>1, <2>2 DEF Insert, TypeOK
    <2> QED BY <1>2, <2>1, <2>3
  <1>4. ASSUME NEW w \in Workers, WorkerStep(w), ~ \E j \in Jobs : claim(w, j)
        PROVE w1 = w2
    <2>1. max_attempts' = max_attempts
      BY <1>4 DEF WorkerStep, select_stale, requeue_stale, recovered, claim_none,
         recover_get, check_cancel, fail_get, fail_retry
    <2>2. CASE select_stale(w) \/ recovered(w) \/ claim_none(w) \/ check_cancel(w) \/ fail_get(w)
      <3>1. \A x \in Workers : Executes(x, k)' => Executes(x, k)
        BY <2>2 DEF select_stale, recovered, claim_none, check_cancel, fail_get, Goto,
           Executes, TypeOK, Procs
      <3> QED BY <1>2, <2>1, <3>1
    <2>3. CASE requeue_stale(w) \/ fail_retry(w)
      <3>1. \A x \in Workers : Executes(x, k)' => Executes(x, k)
        BY <2>3 DEF requeue_stale, fail_retry, Owe, After, Executes, TypeOK, Procs
      <3> QED BY <1>2, <2>1, <3>1
    <2>4. CASE \E j \in Jobs : recover_get(w, j)
      <3>1. \A x \in Workers : Executes(x, k)' => Executes(x, k)
        BY <2>4 DEF recover_get, Executes, TypeOK, Procs
      <3> QED BY <1>2, <2>1, <3>1
    <2> QED BY <1>4, <2>2, <2>3, <2>4 DEF WorkerStep
  <1>5. ASSUME NEW p \in Procs, CallStep(p) \/ crash(p) PROVE w1 = w2
    <2>1. max_attempts' = max_attempts
      BY <1>5 DEF CallStep, append_event, handler_returns, handler_raises, complete,
         fail_write, cancel_get, cancel_queued, cancel_running, crash
    <2>2. CASE append_event(p)
      <3>1. p \in Workers => ret[p] \in {"idle", "recover", "claim", "run"}
        BY DEF ControlOK, ReturnsOf
      <3>2. /\ pc[p] = "append"
            /\ \/ /\ pc' = [pc EXCEPT ![p] = ret[p]] /\ (ret[p] = "run" => UNCHANGED job)
                  /\ ret' = [ret EXCEPT ![p] = "idle"]
               \/ UNCHANGED <<pc, job, ret>>
            /\ \A x \in Procs : x # p => job'[x] = job[x] /\ ret'[x] = ret[x]
        BY <2>2 DEF append_event, TypeOK
      <3>3. \A x \in Workers : Executes(x, k)' => Executes(x, k)
        BY <3>1, <3>2 DEF Executes, TypeOK, Procs
      <3> QED BY <1>2, <2>1, <3>3
    <2>3. CASE handler_returns(p) \/ handler_raises(p) \/ crash(p)
      <3>1. \A x \in Workers : Executes(x, k)' => Executes(x, k)
        BY <2>3 DEF handler_returns, handler_raises, crash, Goto, Executes, TypeOK, Procs
      <3> QED BY <1>2, <2>1, <3>1
    <2>4. CASE complete(p) \/ fail_write(p) \/ cancel_queued(p) \/ cancel_running(p)
      <3>1. \A x \in Workers : Executes(x, k)' => Executes(x, k)
        BY <2>4 DEF complete, fail_write, cancel_queued, cancel_running, Owe, After,
           Executes, TypeOK, Procs
      <3> QED BY <1>2, <2>1, <3>1
    <2>5. CASE cancel_get(p)
      <3>1. \A x \in Workers : Executes(x, k)' => Executes(x, k)
        BY <2>5 DEF cancel_get, Goto, Return, After, Executes, TypeOK, Procs
      <3> QED BY <1>2, <2>1, <3>1
    <2> QED BY <1>5, <2>2, <2>3, <2>4, <2>5 DEF CallStep
  <1>6. CASE \E c \in Clients : enqueue(c) \/ \E j \in Jobs : request_cancel(c, j)
    <2>1. CASE \E c \in Clients : enqueue(c)
      BY <1>3, <2>1, ConstantsAssumption DEF enqueue, Procs
    <2>2. CASE \E c \in Clients, j \in Jobs : request_cancel(c, j)
      <3>1. max_attempts' = max_attempts /\ \A x \in Workers : Executes(x, k)' => Executes(x, k)
        BY <2>2 DEF request_cancel, Executes, TypeOK, Procs
      <3> QED BY <1>2, <3>1
    <2> QED BY <1>6, <2>1, <2>2
  <1>7. CASE \E r \in Runners : submit(r) \/ start(r)
    <2>1. CASE \E r \in Runners : submit(r)
      BY <1>3, <2>1, ConstantsAssumption DEF submit, Procs
    <2>2. CASE \E r \in Runners : start(r)
      <3>1. max_attempts' = max_attempts /\ \A x \in Workers : Executes(x, k)' => Executes(x, k)
        BY <2>2, ConstantsAssumption DEF start, Owe, Executes, TypeOK, Procs
      <3> QED BY <1>2, <3>1
    <2> QED BY <1>7, <2>1, <2>2
  <1>8. CASE \E j \in Jobs : lease_expires(j) \/ backoff_elapses(j)
    <2>1. max_attempts' = max_attempts /\ \A x \in Workers : Executes(x, k)' => Executes(x, k)
      BY <1>8 DEF lease_expires, backoff_elapses, Executes
    <2> QED BY <1>2, <2>1
  <1>9. CASE UNCHANGED vars
    <2>1. max_attempts' = max_attempts /\ \A x \in Workers : Executes(x, k)' => Executes(x, k)
      BY <1>9 DEF vars, Executes
    <2> QED BY <1>2, <2>1
  <1> QED BY <1>1, <1>4, <1>5, <1>6, <1>7, <1>8, <1>9 DEF Next

(* A job submitted with max_attempts = 1 is never executed by two workers at  *)
(* a time, even when its lease expires while its handler runs.                *)
THEOREM OneExecutor == Spec => []ExclusiveExecution
  <1>1. Init => ExclusiveExecution
    BY DEF Init, ExclusiveExecution, Executes, Procs
  <1>2. AttemptInv /\ ExclusiveExecution /\ [Next]_vars => ExclusiveExecution'
    BY StepKeepsExclusive
  <1> QED BY <1>1, <1>2, AttemptsAreInvariant, PTL DEF Spec

(* A step keeps a settled plain job settled: only a retry, a recovery, a      *)
(* start or a claim writes "queued" or "running", and none of them can apply. *)
LEMMA StepKeepsSettled ==
  ASSUME AttemptInv, [Next]_vars, NEW k \in Jobs, Settled(k), Plain(k)
  PROVE Settled(k)'
  <1> USE DEF AttemptInv, Settled, TERMINAL_STATUSES, row, loop, bounds
  <1>1. ASSUME NEW w \in Workers, WorkerStep(w) PROVE Settled(k)'
    <2>1. CASE requeue_stale(w) \/ fail_retry(w)
      BY <2>1 DEF requeue_stale, fail_retry, Plain, RequeueMeansRetries, Procs, TypeOK
    <2>2. CASE \E j \in Jobs : claim(w, j)
      BY <2>2 DEF claim, Claimable, TypeOK
    <2>3. CASE \E j \in Jobs : recover_get(w, j)
      BY <2>3 DEF recover_get
    <2>4. CASE select_stale(w) \/ recovered(w) \/ claim_none(w) \/ check_cancel(w) \/ fail_get(w)
      BY <2>4 DEF select_stale, recovered, claim_none, check_cancel, fail_get
    <2> QED BY <1>1, <2>1, <2>2, <2>3, <2>4 DEF WorkerStep
  <1>2. ASSUME NEW c \in Clients, enqueue(c) \/ \E j \in Jobs : request_cancel(c, j)
        PROVE Settled(k)'
    BY <1>2 DEF enqueue, Insert, request_cancel, TypeOK
  <1>3. ASSUME NEW r \in Runners, submit(r) PROVE Settled(k)'
    BY <1>3, ConstantsAssumption DEF submit, Insert, TypeOK
  <1>4. ASSUME NEW r \in Runners, start(r) PROVE Settled(k)'
    <2>1. job[r] # k
      BY <1>4 DEF start, WorkExists, Plain, ControlOK, Outside, Procs
    <2> QED BY <1>4, <2>1 DEF start, TypeOK
  <1>5. ASSUME NEW p \in Procs, CallStep(p) \/ crash(p) PROVE Settled(k)'
    BY <1>5 DEF CallStep, append_event, handler_returns, handler_raises, complete, fail_write,
       cancel_get, cancel_queued, cancel_running, crash, TypeOK
  <1>6. ASSUME NEW j \in Jobs, lease_expires(j) \/ backoff_elapses(j) PROVE Settled(k)'
    BY <1>6 DEF lease_expires, backoff_elapses
  <1>7. CASE UNCHANGED vars
    BY <1>7 DEF vars
  <1> QED BY <1>1, <1>2, <1>3, <1>4, <1>5, <1>6, <1>7 DEF Next

(* A plain job that is completed, failed or cancelled never runs again.       *)
THEOREM SettledForGood == Spec => SettledStays
  <1>1. AttemptInv /\ [Next]_vars
          => [\A j \in Jobs : Settled(j) /\ Plain(j) => Settled(j)']_vars
    BY StepKeepsSettled
  <1> QED BY <1>1, AttemptsAreInvariant, PTL DEF Spec, SettledStays

(* A step leaves a job alone that was cancelled before any worker claimed it: *)
(* whoever would settle or queue it has claimed it, or is the runner of an    *)
(* inline job, and a claim wants it queued.                                   *)
LEMMA StepKeepsCancelled ==
  ASSUME AttemptInv, [Next]_vars, NEW k \in Jobs \ InlineJobs,
         status[k] = "cancelled", attempt_count[k] = 0
  PROVE status'[k] = "cancelled" /\ attempt_count'[k] = 0
  <1> DEFINE Kept == status'[k] = "cancelled" /\ attempt_count'[k] = 0
  <1> USE DEF AttemptInv, row, loop, bounds
  <1>1. ASSUME NEW w \in Workers, requeue_stale(w) \/ fail_retry(w) PROVE Kept
    <2>1. job[w] # k
      BY <1>1 DEF requeue_stale, fail_retry, WorkIsClaimed
    <2> QED BY <1>1, <2>1 DEF requeue_stale, fail_retry, TypeOK
  <1>2. ASSUME NEW w \in Workers, WorkerStep(w), ~(requeue_stale(w) \/ fail_retry(w)) PROVE Kept
    BY <1>2 DEF WorkerStep, select_stale, recovered, claim_none, recover_get,
       claim, Claimable, check_cancel, fail_get, TypeOK
  <1>3. ASSUME NEW p \in Procs, complete(p) \/ fail_write(p) PROVE Kept
    <2>1. p \in Workers \/ p \in Runners
      BY <1>3 DEF complete, fail_write, ControlOK, PCsOf, ClientPCs, Procs
    <2>2. job[p] # k
      <3>1. CASE p \in Workers
        BY <1>3, <3>1 DEF complete, fail_write, WorkIsClaimed
      <3>2. CASE p \in Runners
        BY <1>3, <3>2 DEF complete, fail_write, WorkExists, ControlOK, Outside, Procs
      <3> QED BY <2>1, <3>1, <3>2
    <2> QED BY <1>3, <2>2 DEF complete, fail_write, TypeOK
  <1>4. ASSUME NEW p \in Procs, CallStep(p) \/ crash(p), ~(complete(p) \/ fail_write(p)) PROVE Kept
    BY <1>4 DEF CallStep, append_event, handler_returns, handler_raises, cancel_get,
       cancel_queued, cancel_running, crash, TypeOK
  <1>5. ASSUME NEW c \in Clients, enqueue(c) \/ \E j \in Jobs : request_cancel(c, j) PROVE Kept
    BY <1>5 DEF enqueue, Insert, request_cancel, TypeOK
  <1>6. ASSUME NEW r \in Runners, submit(r) PROVE Kept
    BY <1>6 DEF submit, Insert, TypeOK
  <1>7. ASSUME NEW r \in Runners, start(r) PROVE Kept
    <2>1. job[r] # k
      BY <1>7 DEF start, WorkExists, ControlOK, Outside, Procs
    <2> QED BY <1>7, <2>1 DEF start, TypeOK
  <1>8. ASSUME NEW j \in Jobs, lease_expires(j) \/ backoff_elapses(j) PROVE Kept
    BY <1>8 DEF lease_expires, backoff_elapses
  <1>9. CASE UNCHANGED vars
    BY <1>9 DEF vars
  <1> QED BY <1>1, <1>2, <1>3, <1>4, <1>5, <1>6, <1>7, <1>8, <1>9 DEF Next

(* A job cancelled while no worker had claimed it is never run, failed or     *)
(* queued again, whatever recoveries and claims are under way.                *)
THEOREM CancelledForGood == Spec => CancelledBeforeClaim
  <1>1. AttemptInv /\ [Next]_vars
          => [\A j \in Jobs \ InlineJobs :
                status[j] = "cancelled" /\ attempt_count[j] = 0
                  => (status[j] = "cancelled" /\ attempt_count[j] = 0)']_vars
    BY StepKeepsCancelled
  <1> QED BY <1>1, AttemptsAreInvariant, PTL DEF Spec, CancelledBeforeClaim

-----------------------------------------------------------------------------
(* The queue implements JobLifecycle.                                         *)

(* A write to one row's status that leaves attempts and limits alone changes  *)
(* the life of that job only.                                                 *)
LEMMA LifeOfOneJob ==
  ASSUME TypeOK, NEW j \in Jobs, NEW s, status' = [status EXCEPT ![j] = s]
  PROVE  Life' = [Life EXCEPT ![j] = IF s = "absent" THEN "absent"
                                     ELSE IF s = "queued" THEN "pending"
                                     ELSE IF s = "running" THEN "running" ELSE "settled"]
  BY DEF TypeOK, Life

(* A step that writes no status, limit or count stutters.                     *)
LEMMA QuietStep ==
  ASSUME UNCHANGED <<status, max_attempts, attempt_count>>
  PROVE  UNCHANGED Lifecycle!vars
  BY DEF Lifecycle!vars, Life

(* Every step of the queue is a step of the life cycle, or none.              *)
LEMMA StepImplements ==
  ASSUME AttemptInv, [Next]_vars PROVE [Lifecycle!Next]_(Lifecycle!vars)
  <1> USE DEF AttemptInv, row, loop, bounds
  <1>1. ASSUME NEW p \in Procs, NEW j \in Jobs, NEW limit \in AttemptLimits \cup {1}, NEW l,
               Insert(p, j, limit, l)
        PROVE  [Lifecycle!Next]_(Lifecycle!vars)
    <2>1. Life' = [Life EXCEPT ![j] = "pending"]
      BY <1>1, LifeOfOneJob DEF Insert
    <2>2. Life[j] = "absent"
      BY <1>1 DEF Insert, Life
    <2>3. Lifecycle!Submit(j)
      BY <1>1, <2>1, <2>2 DEF Insert, Lifecycle!Submit
    <2> QED BY <2>3 DEF Lifecycle!Next
  <1>2. ASSUME NEW w \in Workers, WorkerStep(w) PROVE [Lifecycle!Next]_(Lifecycle!vars)
    <2>1. CASE requeue_stale(w) \/ fail_retry(w)
      <3>a. pc[w] \in {"retry", "requeue_stale"} /\ w \in Procs
        BY <2>1 DEF requeue_stale, fail_retry, Procs
      <3>b. job[w] \in Jobs
        BY <3>a DEF ControlOK, Outside, TypeOK
      <3>1. job[w] \in Jobs /\ status[job[w]] # "absent" /\ max_attempts[job[w]] # 1
        BY <3>a, <3>b, ConstantsAssumption DEF WorkExists, RequeueMeansRetries
      <3>2. Life' = [Life EXCEPT ![job[w]] = "pending"]
        BY <2>1, <3>1, LifeOfOneJob DEF requeue_stale, fail_retry
      <3>3. Life[job[w]] # "absent"
        BY <3>1 DEF Life
      <3>4. Lifecycle!Retry(job[w])
        BY <2>1, <3>1, <3>2, <3>3 DEF requeue_stale, fail_retry, Lifecycle!Retry
      <3> QED BY <3>1, <3>4 DEF Lifecycle!Next
    <2>2. ASSUME NEW j \in Jobs, claim(w, j) PROVE [Lifecycle!Next]_(Lifecycle!vars)
      <3>1. Life' = [Life EXCEPT ![j] = "running"]
        BY <2>2, LifeOfOneJob DEF claim
      <3>2. Life[j] = "pending"
        BY <2>2 DEF claim, Claimable, Life
      <3>3. Lifecycle!Dispatch(j)
        BY <2>2, <3>1, <3>2 DEF claim, Lifecycle!Dispatch
      <3> QED BY <3>3 DEF Lifecycle!Next
    <2>3. CASE \/ select_stale(w) \/ recovered(w) \/ claim_none(w) \/ check_cancel(w) \/ fail_get(w)
               \/ \E j \in Jobs : recover_get(w, j)
      BY <2>3, QuietStep DEF select_stale, recovered, claim_none, check_cancel, fail_get, recover_get
    <2> QED BY <1>2, <2>1, <2>2, <2>3 DEF WorkerStep
  <1>3. ASSUME NEW r \in Runners, start(r) PROVE [Lifecycle!Next]_(Lifecycle!vars)
    <2>1. job[r] \in InlineJobs /\ status[job[r]] # "absent"
      BY <1>3 DEF start, ControlOK, WorkExists, Outside, Procs
    <2>2. Life' = [Life EXCEPT ![job[r]] = "running"]
      BY <1>3, <2>1, LifeOfOneJob, ConstantsAssumption DEF start
    <2>3. Life[job[r]] # "absent"
      BY <2>1, ConstantsAssumption DEF Life
    <2>4. Lifecycle!RunInline(job[r])
      BY <1>3, <2>1, <2>2, <2>3 DEF start, Lifecycle!RunInline
    <2> QED BY <2>1, <2>4, ConstantsAssumption DEF Lifecycle!Next
  <1>4. ASSUME NEW p \in Procs, complete(p) \/ fail_write(p) \/ cancel_queued(p)
        PROVE  [Lifecycle!Next]_(Lifecycle!vars)
    <2>1. job[p] \in Jobs /\ status[job[p]] # "absent"
      BY <1>4 DEF complete, fail_write, cancel_queued, ControlOK, WorkExists, Outside, TypeOK
    <2>2. Life' = [Life EXCEPT ![job[p]] = "settled"]
      BY <1>4, <2>1, LifeOfOneJob DEF complete, fail_write, cancel_queued
    <2>3. Life[job[p]] # "absent"
      BY <2>1 DEF Life
    <2>4. Lifecycle!Settle(job[p])
      BY <1>4, <2>1, <2>2, <2>3 DEF complete, fail_write, cancel_queued, Lifecycle!Settle
    <2> QED BY <2>1, <2>4 DEF Lifecycle!Next
  <1>5. ASSUME NEW p \in Procs,
               \/ append_event(p) \/ handler_returns(p) \/ handler_raises(p)
               \/ cancel_get(p) \/ cancel_running(p) \/ crash(p)
        PROVE  [Lifecycle!Next]_(Lifecycle!vars)
    BY <1>5, QuietStep DEF append_event, handler_returns, handler_raises, cancel_get,
       cancel_running, crash
  <1>6. ASSUME NEW c \in Clients, enqueue(c) \/ \E j \in Jobs : request_cancel(c, j)
        PROVE  [Lifecycle!Next]_(Lifecycle!vars)
    <2>1. CASE enqueue(c)
      BY <1>1, <2>1 DEF enqueue, Procs
    <2>2. CASE \E j \in Jobs : request_cancel(c, j)
      BY <2>2, QuietStep DEF request_cancel
    <2> QED BY <1>6, <2>1, <2>2
  <1>7. ASSUME NEW r \in Runners, submit(r) PROVE [Lifecycle!Next]_(Lifecycle!vars)
    BY <1>1, <1>7, ConstantsAssumption DEF submit, Procs
  <1>8. ASSUME NEW j \in Jobs, lease_expires(j) \/ backoff_elapses(j)
        PROVE  [Lifecycle!Next]_(Lifecycle!vars)
    BY <1>8, QuietStep DEF lease_expires, backoff_elapses
  <1>9. CASE UNCHANGED vars
    BY <1>9, QuietStep DEF vars
  <1> QED BY <1>2, <1>3, <1>4, <1>5, <1>6, <1>7, <1>8, <1>9 DEF Next, CallStep

(* The queue implements the abstract job life cycle: the components that      *)
(* submit jobs may rely on JobLifecycle instead of on rows and leases.        *)
THEOREM QueueImplementsLifecycle == Spec => ImplementsLifecycle
  <1>1. Init => Lifecycle!Init
    BY DEF Init, Lifecycle!Init, Life
  <1>2. AttemptInv /\ [Next]_vars => [Lifecycle!Next]_(Lifecycle!vars)
    BY StepImplements
  <1> QED BY <1>1, <1>2, AttemptsAreInvariant, PTL DEF Spec, Lifecycle!Spec, ImplementsLifecycle

-----------------------------------------------------------------------------
(* Attempts, streams and leases agree: Accounted, which is inductive together *)
(* with AttemptInv.                                                           *)

(* A row that exists stays, with its limit.                                   *)
LEMMA RowStays ==
  ASSUME AttemptInv, [Next]_vars, NEW k \in Jobs, status[k] # "absent"
  PROVE status'[k] # "absent" /\ max_attempts'[k] = max_attempts[k]
  <1> USE DEF AttemptInv, TERMINAL_STATUSES, row, loop, bounds
  <1>0. /\ status \in [Jobs -> {"absent", "queued", "running"} \cup TERMINAL_STATUSES]
        /\ max_attempts \in [Jobs -> Nat \ {0}]
    BY DEF TypeOK
  <1>1. ASSUME NEW w \in Workers, WorkerStep(w) PROVE status'[k] # "absent" /\ UNCHANGED max_attempts
    BY <1>1 DEF WorkerStep, select_stale, requeue_stale, recovered, claim_none, recover_get,
       claim, check_cancel, fail_get, fail_retry, TypeOK
  <1>2. ASSUME NEW c \in Clients, enqueue(c) \/ \E j \in Jobs : request_cancel(c, j)
        PROVE status'[k] # "absent" /\ max_attempts'[k] = max_attempts[k]
    BY <1>0, <1>2 DEF enqueue, Insert, request_cancel
  <1>3. ASSUME NEW r \in Runners, submit(r) \/ start(r)
        PROVE status'[k] # "absent" /\ max_attempts'[k] = max_attempts[k]
    BY <1>0, <1>3 DEF submit, start, Insert
  <1>4. ASSUME NEW p \in Procs, CallStep(p) \/ crash(p) PROVE status'[k] # "absent" /\ UNCHANGED max_attempts
    BY <1>4 DEF CallStep, append_event, handler_returns, handler_raises, complete, fail_write,
       cancel_get, cancel_queued, cancel_running, crash, TypeOK
  <1>5. ASSUME NEW j \in Jobs, lease_expires(j) \/ backoff_elapses(j)
        PROVE status'[k] # "absent" /\ UNCHANGED max_attempts
    BY <1>5 DEF lease_expires, backoff_elapses
  <1>6. CASE UNCHANGED vars
    BY <1>6 DEF vars
  <1> QED BY <1>1, <1>2, <1>3, <1>4, <1>5, <1>6 DEF Next

(* A row that is not there yet keeps its default limit.                       *)
LEMMA AbsentUntouched ==
  ASSUME AttemptInv, [Next]_vars, NEW k \in Jobs, status[k] = "absent", status'[k] = "absent"
  PROVE max_attempts'[k] = max_attempts[k]
  <1> USE DEF AttemptInv, row, loop, bounds
  <1>1. ASSUME NEW p \in Procs, NEW j \in Jobs, NEW limit, NEW l, Insert(p, j, limit, l)
        PROVE max_attempts'[k] = max_attempts[k]
    BY <1>1 DEF Insert, TypeOK
  <1>2. CASE UNCHANGED max_attempts
    BY <1>2
  <1>3. ASSUME NEW w \in Workers, WorkerStep(w) PROVE UNCHANGED max_attempts
    BY <1>3 DEF WorkerStep, select_stale, requeue_stale, recovered, claim_none, recover_get,
       claim, check_cancel, fail_get, fail_retry
  <1>4. ASSUME NEW c \in Clients, enqueue(c) \/ \E j \in Jobs : request_cancel(c, j)
        PROVE max_attempts'[k] = max_attempts[k]
    BY <1>1, <1>4 DEF enqueue, request_cancel, Procs
  <1>5. ASSUME NEW r \in Runners, submit(r) \/ start(r) PROVE max_attempts'[k] = max_attempts[k]
    BY <1>1, <1>5, ConstantsAssumption DEF submit, start, Procs
  <1>6. ASSUME NEW p \in Procs, CallStep(p) \/ crash(p) PROVE UNCHANGED max_attempts
    BY <1>6 DEF CallStep, append_event, handler_returns, handler_raises, complete, fail_write,
       cancel_get, cancel_queued, cancel_running, crash
  <1>7. ASSUME NEW j \in Jobs, lease_expires(j) \/ backoff_elapses(j) PROVE UNCHANGED max_attempts
    BY <1>7 DEF lease_expires, backoff_elapses
  <1>8. CASE UNCHANGED vars
    BY <1>8 DEF vars
  <1> QED BY <1>1, <1>2, <1>3, <1>4, <1>5, <1>6, <1>7, <1>8 DEF Next

(* Only the process that owes it appends an event to a stream.                *)
LEMMA OnlyOwedIsPublished ==
  ASSUME AttemptInv, [Next]_vars, NEW k \in Jobs
  PROVE /\ events[k] \subseteq events'[k]
        /\ \A e \in events'[k] \ events[k] : \E p \in Procs : Owes(p, k, e)
  <1> USE DEF AttemptInv, row, loop, bounds
  <1>1. ASSUME NEW p \in Procs, append_event(p)
        PROVE /\ events[k] \subseteq events'[k]
              /\ \A e \in events'[k] \ events[k] : Owes(p, k, e)
    <2>1. job[p] \in Jobs /\ out[p] # <<>> /\ out[p] \in Seq(EventTypes)
      BY <1>1 DEF append_event, TypeOK, ControlOK, Outside
    <2>2. Head(out[p]) = out[p][1] /\ 1 \in 1 .. Len(out[p])
      BY <2>1
    <2> QED BY <1>1, <2>1, <2>2 DEF append_event, TypeOK, Owes
  <1>2. CASE UNCHANGED events
    BY <1>2
  <1>3. ASSUME NEW w \in Workers, WorkerStep(w) PROVE UNCHANGED events
    BY <1>3 DEF WorkerStep, select_stale, requeue_stale, recovered, claim_none, recover_get,
       claim, check_cancel, fail_get, fail_retry
  <1>4. ASSUME NEW c \in Clients, enqueue(c) \/ \E j \in Jobs : request_cancel(c, j)
        PROVE UNCHANGED events
    BY <1>4 DEF enqueue, Insert, request_cancel
  <1>5. ASSUME NEW r \in Runners, submit(r) \/ start(r) PROVE UNCHANGED events
    BY <1>5 DEF submit, start, Insert
  <1>6. ASSUME NEW p \in Procs, CallStep(p) \/ crash(p), ~append_event(p) PROVE UNCHANGED events
    BY <1>6 DEF CallStep, handler_returns, handler_raises, complete, fail_write,
       cancel_get, cancel_queued, cancel_running, crash
  <1>7. ASSUME NEW j \in Jobs, lease_expires(j) \/ backoff_elapses(j) PROVE UNCHANGED events
    BY <1>7 DEF lease_expires, backoff_elapses
  <1>8. CASE UNCHANGED vars
    BY <1>8 DEF vars
  <1> QED BY <1>1, <1>2, <1>3, <1>4, <1>5, <1>6, <1>7, <1>8 DEF Next

(* What settles a row leaves "done" to be appended to its stream.             *)
LEMMA SettlingOwesDone ==
  ASSUME AttemptInv, [Next]_vars, NEW k \in Jobs, ~Settled(k), Settled(k)'
  PROVE \E p \in Procs : Owes(p, k, "done")'
  <1> USE DEF AttemptInv, Settled, TERMINAL_STATUSES, row, loop, bounds
  <1>0. status \in [Jobs -> {"absent", "queued", "running"} \cup TERMINAL_STATUSES]
    BY DEF TypeOK
  <1>1. ASSUME NEW p \in Procs, complete(p) \/ fail_write(p) \/ cancel_queued(p)
        PROVE Owes(p, k, "done")'
    <2>1. job[p] = k /\ job' = job
      BY <1>1 DEF complete, fail_write, cancel_queued, Owe, TypeOK
    <2>2. out'[p] \in {<<"result", "done">>, <<"error", "done">>, <<"cancelled", "done">>}
      BY <1>1 DEF complete, fail_write, cancel_queued, Owe, FailEvents, TypeOK
    <2>3. out'[p][2] = "done" /\ 2 \in 1 .. Len(out'[p])
      BY <2>2
    <2> QED BY <2>1, <2>3 DEF Owes
  <1>2. ASSUME NEW w \in Workers, WorkerStep(w) PROVE FALSE
    BY <1>2 DEF WorkerStep, select_stale, requeue_stale, recovered, claim_none, recover_get,
       claim, check_cancel, fail_get, fail_retry, TypeOK
  <1>3. ASSUME NEW c \in Clients, enqueue(c) \/ \E j \in Jobs : request_cancel(c, j)
        PROVE FALSE
    BY <1>0, <1>3 DEF enqueue, Insert, request_cancel
  <1>4. ASSUME NEW r \in Runners, submit(r) \/ start(r) PROVE FALSE
    BY <1>0, <1>4 DEF submit, start, Insert
  <1>5. ASSUME NEW p \in Procs, CallStep(p) \/ crash(p),
               ~(complete(p) \/ fail_write(p) \/ cancel_queued(p))
        PROVE FALSE
    BY <1>5 DEF CallStep, append_event, handler_returns, handler_raises,
       cancel_get, cancel_running, crash
  <1>6. ASSUME NEW j \in Jobs, lease_expires(j) \/ backoff_elapses(j) PROVE FALSE
    BY <1>6 DEF lease_expires, backoff_elapses
  <1>7. CASE UNCHANGED vars
    BY <1>7 DEF vars
  <1> QED BY <1>1, <1>2, <1>3, <1>4, <1>5, <1>6, <1>7 DEF Next

(* A process comes to owe "done" only by settling the row.                    *)
LEMMA OwingDoneMeansSettled ==
  ASSUME AttemptInv, [Next]_vars, NEW p \in Procs, NEW k \in Jobs, Owes(p, k, "done")'
  PROVE Owes(p, k, "done") \/ Settled(k)'
  <1> USE DEF AttemptInv, Settled, TERMINAL_STATUSES, row, loop, bounds
  <1>1. ASSUME NEW q \in Procs, append_event(q) PROVE Owes(p, k, "done")
    <2>1. CASE q # p
      BY <1>1, <2>1 DEF append_event, Owes, TypeOK
    <2>2. CASE q = p
      <3>1. out[p] # <<>> /\ out[p] \in Seq(EventTypes)
        BY <1>1, <2>2 DEF append_event, TypeOK, ControlOK
      <3>2. out'[p] = Tail(out[p])
        BY <1>1, <2>2 DEF append_event, TypeOK
      <3>3. \A i \in 1 .. Len(Tail(out[p])) : Tail(out[p])[i] = out[p][i + 1] /\ i + 1 \in 1 .. Len(out[p])
        BY <3>1
      <3>4. PICK i \in 1 .. Len(Tail(out[p])) : Tail(out[p])[i] = "done"
        BY <3>2 DEF Owes
      <3>5. Tail(out[p]) # <<>>
        <4>1. Len(<<>>) = 0 /\ 1 .. 0 = {}
          OBVIOUS
        <4> QED BY <3>4, <4>1
      <3>6. job'[p] = job[p]
        BY <1>1, <2>2, <3>5 DEF append_event
      <3> QED BY <3>3, <3>4, <3>6 DEF Owes
    <2> QED BY <2>1, <2>2
  <1>2. ASSUME NEW q \in Procs, NEW l, NEW evs,
               job' = job, out' = [out EXCEPT ![q] = evs],
               evs \in {<<"stage">>, <<"retry">>, <<"cancel_requested">>}
        PROVE Owes(p, k, "done")
    <2>1. \A i \in 1 .. Len(evs) : evs[i] # "done"
      BY <1>2
    <2> QED BY <1>2, <2>1 DEF Owes, TypeOK
  <1>3. ASSUME NEW q \in Procs, NEW j \in Jobs, NEW evs, evs \in {<<>>, <<"stage">>, <<"queued">>},
               job' = [job EXCEPT ![q] = j], out' = [out EXCEPT ![q] = evs]
        PROVE Owes(p, k, "done")
    <2>1. \A i \in 1 .. Len(evs) : evs[i] # "done"
      BY <1>3
    <2> QED BY <1>3, <2>1 DEF Owes, TypeOK
  <1>4. ASSUME NEW q \in Procs, complete(q) \/ fail_write(q) \/ cancel_queued(q)
        PROVE Owes(p, k, "done") \/ Settled(k)'
    <2>a. job[q] \in Jobs
      BY <1>4 DEF complete, fail_write, cancel_queued, TypeOK, ControlOK, Outside
    <2>1. /\ job' = job /\ \E evs : out' = [out EXCEPT ![q] = evs]
          /\ Settled(job[q])'
      BY <1>4, <2>a DEF complete, fail_write, cancel_queued, Owe, TypeOK
    <2>2. q # p => out'[p] = out[p]
      BY <2>1 DEF TypeOK
    <2> QED BY <2>1, <2>2 DEF Owes
  <1>5. ASSUME NEW q \in Procs, UNCHANGED out, job' = job \/ job' = [job EXCEPT ![q] = NoJob]
        PROVE Owes(p, k, "done")
    BY <1>5, ConstantsAssumption DEF Owes, TypeOK
  <1>6. ASSUME NEW w \in Workers, WorkerStep(w) PROVE Owes(p, k, "done")
    <2>1. w \in Procs
      BY DEF Procs
    <2>2. CASE requeue_stale(w) \/ fail_retry(w)
      BY <1>2, <2>1, <2>2 DEF requeue_stale, fail_retry, Owe
    <2>3. CASE \E j \in Jobs : claim(w, j)
      BY <1>3, <2>1, <2>3 DEF claim
    <2>4. CASE \E j \in Jobs : recover_get(w, j)
      <3>1. out[w] = <<>>
        BY <2>1, <2>4 DEF recover_get, ControlOK
      <3>2. out = [out EXCEPT ![w] = <<>>]
        BY <3>1 DEF TypeOK
      <3> QED BY <1>3, <2>1, <2>4, <3>2 DEF recover_get
    <2>5. CASE select_stale(w) \/ recovered(w) \/ claim_none(w) \/ check_cancel(w) \/ fail_get(w)
      BY <1>5, <2>1, <2>5 DEF select_stale, recovered, claim_none, check_cancel, fail_get, Goto
    <2> QED BY <1>6, <2>2, <2>3, <2>4, <2>5 DEF WorkerStep
  <1>7. ASSUME NEW c \in Clients, enqueue(c) \/ \E j \in Jobs : request_cancel(c, j)
        PROVE Owes(p, k, "done")
    <2>1. c \in Procs
      BY DEF Procs
    <2>2. CASE enqueue(c)
      BY <1>3, <2>1, <2>2 DEF enqueue, Insert
    <2>3. CASE \E j \in Jobs : request_cancel(c, j)
      <3>1. out[c] = <<>>
        BY <2>1, <2>3 DEF request_cancel, ControlOK
      <3>2. out = [out EXCEPT ![c] = <<>>]
        BY <3>1 DEF TypeOK
      <3> QED BY <1>3, <2>1, <2>3, <3>2 DEF request_cancel
    <2> QED BY <1>7, <2>2, <2>3
  <1>8. ASSUME NEW r \in Runners, submit(r) \/ start(r) PROVE Owes(p, k, "done")
    BY <1>2, <1>3, <1>8, ConstantsAssumption DEF submit, start, Insert, Owe, Procs
  <1>9. ASSUME NEW q \in Procs, CallStep(q) PROVE Owes(p, k, "done") \/ Settled(k)'
    <2>1. CASE append_event(q)
      BY <1>1, <2>1
    <2>2. CASE complete(q) \/ fail_write(q) \/ cancel_queued(q)
      BY <1>4, <2>2
    <2>3. CASE handler_returns(q) \/ handler_raises(q) \/ cancel_get(q)
      BY <1>5, <2>3 DEF handler_returns, handler_raises, cancel_get, Goto, Return
    <2>4. CASE cancel_running(q)
      BY <1>2, <2>4 DEF cancel_running, CancelRequestedEvents, Owe
    <2> QED BY <1>9, <2>1, <2>2, <2>3, <2>4 DEF CallStep
  <1>10. ASSUME NEW q \in Procs, crash(q) PROVE Owes(p, k, "done")
    BY <1>10, ConstantsAssumption DEF crash, Owes, TypeOK
  <1>11. ASSUME NEW j \in Jobs, lease_expires(j) \/ backoff_elapses(j) PROVE Owes(p, k, "done")
    BY <1>11 DEF lease_expires, backoff_elapses, Owes
  <1>12. CASE UNCHANGED vars
    BY <1>12 DEF vars, Owes
  <1> QED BY <1>6, <1>7, <1>8, <1>9, <1>10, <1>11, <1>12 DEF Next

(* "done" is published, and owed, for plain jobs only when they are settled.  *)
LEMMA StepKeepsDoneSettled ==
  ASSUME AttemptInv, [Next]_vars, DoneMeansSettled, DoneOwedWhenSettled
  PROVE  DoneMeansSettled' /\ DoneOwedWhenSettled'
  <1>1. ASSUME NEW k \in Jobs, Plain(k)', status[k] # "absent" PROVE Plain(k)
    BY <1>1, RowStays DEF Plain
  <1>2. \A p \in Procs : \A k \in Jobs : Owes(p, k, "done") => status[k] # "absent"
    BY ConstantsAssumption DEF AttemptInv, WorkExists, Owes
  <1>3. ASSUME NEW k \in Jobs, Plain(k)', Published(k, "done")' PROVE Settled(k)'
    <2>1. CASE "done" \in events[k]
      <3>1. status[k] # "absent"
        BY <2>1 DEF DoneOwedWhenSettled
      <3>2. Plain(k)
        BY <1>1, <1>3, <3>1
      <3>3. Settled(k)
        BY <2>1, <3>2 DEF DoneMeansSettled, Published
      <3> QED BY <3>2, <3>3, StepKeepsSettled
    <2>2. CASE "done" \notin events[k]
      <3>1. PICK p \in Procs : Owes(p, k, "done")
        BY <1>3, <2>2, OnlyOwedIsPublished DEF Published
      <3>2. Plain(k)
        BY <1>1, <1>2, <1>3, <3>1
      <3>3. Settled(k)
        BY <3>1, <3>2 DEF DoneOwedWhenSettled
      <3> QED BY <3>2, <3>3, StepKeepsSettled
    <2> QED BY <2>1, <2>2
  <1>4. ASSUME NEW p \in Procs, NEW k \in Jobs, Owes(p, k, "done")', Plain(k)' PROVE Settled(k)'
    <2>1. CASE Owes(p, k, "done")
      <3>1. Plain(k)
        BY <1>1, <1>2, <1>4, <2>1
      <3>2. Settled(k)
        BY <2>1, <3>1 DEF DoneOwedWhenSettled
      <3> QED BY <3>1, <3>2, StepKeepsSettled
    <2>2. CASE Settled(k)'
      BY <2>2
    <2> QED BY <1>4, <2>1, <2>2, OwingDoneMeansSettled
  <1>5. ASSUME NEW k \in Jobs, status'[k] = "absent"
        PROVE events'[k] = {} /\ max_attempts'[k] = 1
    <2>1. status[k] = "absent"
      BY <1>5, RowStays
    <2>2. events[k] = {} /\ max_attempts[k] = 1
      BY <2>1 DEF DoneOwedWhenSettled
    <2>3. \A p \in Procs : \A e : ~Owes(p, k, e)
      BY <2>1, ConstantsAssumption DEF AttemptInv, WorkExists, Owes
    <2>4. events'[k] = {}
      BY <2>2, <2>3, OnlyOwedIsPublished
    <2>5. max_attempts'[k] = max_attempts[k]
      BY <1>5, <2>1, AbsentUntouched
    <2> QED BY <2>2, <2>4, <2>5
  <1> QED BY <1>3, <1>4, <1>5 DEF DoneMeansSettled, DoneOwedWhenSettled, Published

(* The owed "done" is published or still owed, unless a process crashed.      *)
LEMMA OwedDoneStays ==
  ASSUME AttemptInv, [Next]_vars, NEW p \in Procs, NEW k \in Jobs, Owes(p, k, "done")
  PROVE  \/ Owes(p, k, "done")' \/ Published(k, "done")' \/ crashes' # 0
  <1> USE DEF AttemptInv, row, loop, bounds
  <1>1. pc[p] = "append" /\ job[p] = k /\ out[p] # <<>>
    <2>1. Len(<<>>) = 0 /\ 1 .. 0 = {}
      OBVIOUS
    <2> QED BY <2>1 DEF Owes, ControlOK
  <1>2. ASSUME UNCHANGED <<job, out>> PROVE Owes(p, k, "done")'
    BY <1>2 DEF Owes
  <1>3. ASSUME NEW q \in Procs, q # p,
               \/ job' = job \/ \E j : job' = [job EXCEPT ![q] = j],
               \/ out' = out \/ \E evs : out' = [out EXCEPT ![q] = evs]
        PROVE Owes(p, k, "done")'
    BY <1>3 DEF Owes, TypeOK
  <1>4. CASE append_event(p)
    <2>1. out[p] \in Seq(EventTypes) /\ out[p] # <<>> /\ job[p] \in Jobs
      BY <1>1 DEF TypeOK
    <2>2. PICK i \in 1 .. Len(out[p]) : out[p][i] = "done"
      BY DEF Owes
    <2>3. CASE i = 1
      <3>1. Head(out[p]) = "done"
        BY <2>1, <2>2, <2>3
      <3> QED BY <1>1, <1>4, <3>1 DEF append_event, Published, TypeOK
    <2>4. CASE i # 1
      <3>1. i - 1 \in 1 .. Len(Tail(out[p])) /\ Tail(out[p])[i - 1] = "done"
        BY <2>1, <2>2, <2>4
      <3>2. Tail(out[p]) # <<>>
        <4>1. Len(<<>>) = 0 /\ 1 .. 0 = {}
          OBVIOUS
        <4> QED BY <3>1, <4>1
      <3>3. job' = job /\ out'[p] = Tail(out[p])
        BY <1>4, <3>2 DEF append_event, TypeOK
      <3> QED BY <1>1, <3>1, <3>3 DEF Owes
    <2> QED BY <2>3, <2>4
  <1>5. ASSUME NEW q \in Procs, append_event(q), q # p PROVE Owes(p, k, "done")'
    BY <1>5 DEF append_event, Owes, TypeOK
  <1>6. ASSUME NEW w \in Workers, WorkerStep(w) PROVE Owes(p, k, "done")'
    <2>1. w # p /\ w \in Procs
      BY <1>1, <1>6 DEF WorkerStep, select_stale, requeue_stale, recovered, claim_none,
         recover_get, claim, check_cancel, fail_get, fail_retry, Procs
    <2>2. \/ job' = job \/ \E j : job' = [job EXCEPT ![w] = j]
      BY <1>6 DEF WorkerStep, select_stale, requeue_stale, recovered, claim_none,
         recover_get, claim, check_cancel, fail_get, fail_retry, Goto, Owe
    <2>3. \/ out' = out \/ \E evs : out' = [out EXCEPT ![w] = evs]
      BY <1>6 DEF WorkerStep, select_stale, requeue_stale, recovered, claim_none,
         recover_get, claim, check_cancel, fail_get, fail_retry, Goto, Owe
    <2> QED BY <1>3, <2>1, <2>2, <2>3
  <1>7. ASSUME NEW c \in Clients, enqueue(c) \/ \E j \in Jobs : request_cancel(c, j)
        PROVE Owes(p, k, "done")'
    BY <1>1, <1>3, <1>7 DEF enqueue, Insert, request_cancel, Procs
  <1>8. ASSUME NEW r \in Runners, submit(r) \/ start(r) PROVE Owes(p, k, "done")'
    BY <1>1, <1>3, <1>8 DEF submit, Insert, start, Owe, Procs
  <1>9. ASSUME NEW q \in Procs, CallStep(q), ~append_event(q) PROVE Owes(p, k, "done")'
    <2>1. q # p
      BY <1>1, <1>9 DEF CallStep, handler_returns, handler_raises, complete, fail_write,
         cancel_get, cancel_queued, cancel_running
    <2>2. /\ job' = job \/ \E j : job' = [job EXCEPT ![q] = j]
          /\ out' = out \/ \E evs : out' = [out EXCEPT ![q] = evs]
      BY <1>9 DEF CallStep, handler_returns, handler_raises, complete, fail_write,
         cancel_get, cancel_queued, cancel_running, Goto, Owe, Return
    <2> QED BY <1>3, <2>1, <2>2
  <1>10. ASSUME NEW q \in Procs, crash(q) PROVE crashes' # 0
    BY <1>10 DEF crash, TypeOK
  <1>11. ASSUME NEW j \in Jobs, lease_expires(j) \/ backoff_elapses(j) PROVE Owes(p, k, "done")'
    BY <1>2, <1>11 DEF lease_expires, backoff_elapses
  <1>12. CASE UNCHANGED vars
    BY <1>2, <1>12 DEF vars
  <1> QED BY <1>4, <1>5, <1>6, <1>7, <1>8, <1>9, <1>10, <1>11, <1>12 DEF Next, CallStep

(* Crashes are only counted up.                                               *)
LEMMA CrashesGrow == ASSUME AttemptInv, [Next]_vars, crashes' = 0 PROVE crashes = 0
  <1> USE DEF AttemptInv, bounds
  <1>1. ASSUME NEW w \in Workers, WorkerStep(w) PROVE UNCHANGED crashes
    BY <1>1 DEF WorkerStep, select_stale, requeue_stale, recovered, claim_none,
       recover_get, claim, check_cancel, fail_get, fail_retry
  <1>2. ASSUME NEW c \in Clients, enqueue(c) \/ \E j \in Jobs : request_cancel(c, j)
        PROVE UNCHANGED crashes
    BY <1>2 DEF enqueue, Insert, request_cancel
  <1>3. ASSUME NEW r \in Runners, submit(r) \/ start(r) PROVE UNCHANGED crashes
    BY <1>3 DEF submit, Insert, start
  <1>4. ASSUME NEW p \in Procs, CallStep(p) PROVE UNCHANGED crashes
    BY <1>4 DEF CallStep, append_event, handler_returns, handler_raises, complete, fail_write,
       cancel_get, cancel_queued, cancel_running
  <1>5. ASSUME NEW p \in Procs, crash(p) PROVE FALSE
    BY <1>5 DEF crash, TypeOK
  <1>6. ASSUME NEW j \in Jobs, lease_expires(j) \/ backoff_elapses(j) PROVE UNCHANGED crashes
    BY <1>6 DEF lease_expires, backoff_elapses
  <1>7. CASE UNCHANGED vars
    BY <1>7 DEF vars
  <1> QED BY <1>1, <1>2, <1>3, <1>4, <1>5, <1>6, <1>7 DEF Next

(* Every settled job's "done" is published or owed, while nothing crashed.    *)
LEMMA StepKeepsDonePublished ==
  ASSUME AttemptInv, [Next]_vars, DoneIsPublished PROVE DoneIsPublished'
  <1> SUFFICES ASSUME crashes' = 0, NEW k \in Jobs, Settled(k)'
               PROVE  Published(k, "done")' \/ \E p \in Procs : Owes(p, k, "done")'
    BY DEF DoneIsPublished
  <1>1. CASE ~Settled(k)
    BY <1>1, SettlingOwesDone
  <1>2. CASE Settled(k) /\ Published(k, "done")
    BY <1>2, OnlyOwedIsPublished DEF Published
  <1>3. ASSUME NEW p \in Procs, Owes(p, k, "done")
        PROVE  Published(k, "done")' \/ Owes(p, k, "done")'
    BY <1>3, OwedDoneStays
  <1> QED BY <1>1, <1>2, <1>3, CrashesGrow DEF DoneIsPublished

(* A running row without a lease is run inline, until its runner settles it.  *)
LEMMA StepKeepsRunningRun ==
  ASSUME AttemptInv, [Next]_vars, RunningIsRun PROVE RunningIsRun'
  <1> SUFFICES ASSUME NEW k \in Jobs, status'[k] = "running", locked_at'[k] = "none"
               PROVE  k \in InlineJobs /\ (crashes' > 0 \/ \E r \in Runners : RunsInline(r, k)')
    BY DEF RunningIsRun
  <1> USE DEF AttemptInv, row, loop, bounds
  <1> DEFINE Same == status[k] = "running" /\ locked_at[k] = "none" /\ crashes' = crashes
  <1>1. ASSUME Same, \A r \in Runners : RunsInline(r, k) => RunsInline(r, k)'
        PROVE  k \in InlineJobs /\ (crashes' > 0 \/ \E r \in Runners : RunsInline(r, k)')
    BY <1>1 DEF RunningIsRun
  <1>2. ASSUME NEW w \in Workers, WorkerStep(w)
        PROVE  Same /\ \A r \in Runners : RunsInline(r, k) => RunsInline(r, k)'
    <2>1. Same
      BY <1>2 DEF WorkerStep, select_stale, requeue_stale, recovered, claim_none, recover_get,
         claim, Lease, check_cancel, fail_get, fail_retry, TypeOK
    <2>2. \A q \in Procs : q # w => job'[q] = job[q] /\ pc'[q] = pc[q] /\ ret'[q] = ret[q]
      BY <1>2 DEF WorkerStep, select_stale, requeue_stale, recovered, claim_none, recover_get,
         claim, check_cancel, fail_get, fail_retry, Goto, Owe, TypeOK
    <2> QED BY <2>1, <2>2, ConstantsAssumption DEF RunsInline, Procs
  <1>3. ASSUME NEW c \in Clients, enqueue(c) \/ \E j \in Jobs : request_cancel(c, j)
        PROVE  Same /\ \A r \in Runners : RunsInline(r, k) => RunsInline(r, k)'
    <2>1. Same
      BY <1>3 DEF enqueue, Insert, request_cancel, TypeOK
    <2>2. CASE enqueue(c)
      <3>1. \A q \in Procs : q # c => job'[q] = job[q] /\ pc'[q] = pc[q] /\ ret'[q] = ret[q]
        BY <2>2 DEF enqueue, Insert, TypeOK
      <3> QED BY <2>1, <3>1, ConstantsAssumption DEF RunsInline, Procs
    <2>3. CASE \E j \in Jobs : request_cancel(c, j)
      <3>1. \A q \in Procs : q # c => job'[q] = job[q] /\ pc'[q] = pc[q] /\ ret'[q] = ret[q]
        BY <2>3 DEF request_cancel, TypeOK
      <3> QED BY <2>1, <3>1, ConstantsAssumption DEF RunsInline, Procs
    <2> QED BY <1>3, <2>2, <2>3
  <1>4. ASSUME NEW r \in Runners, submit(r)
        PROVE  Same /\ \A q \in Runners : RunsInline(q, k) => RunsInline(q, k)'
    <2>1. Same
      BY <1>4, ConstantsAssumption DEF submit, Insert, TypeOK
    <2>2. pc[r] = "idle" /\ \A q \in Procs : q # r => job'[q] = job[q] /\ pc'[q] = pc[q] /\ ret'[q] = ret[q]
      BY <1>4 DEF submit, Insert, TypeOK
    <2> QED BY <2>1, <2>2 DEF RunsInline, Procs
  <1>5. ASSUME NEW r \in Runners, start(r)
        PROVE  k \in InlineJobs /\ (crashes' > 0 \/ \E q \in Runners : RunsInline(q, k)')
    <2>0. r \in Procs /\ job[r] \in InlineJobs
      BY <1>5 DEF start, Procs, ControlOK, WorkExists, Outside
    <2>1. CASE job[r] = k
      <3>1. RunsInline(r, k)'
        BY <1>5, <2>0, <2>1 DEF start, Owe, RunsInline, TypeOK
      <3> QED BY <2>0, <2>1, <3>1
    <2>2. CASE job[r] # k
      <3>1. Same
        BY <1>5, <2>2 DEF start, TypeOK
      <3>2. \A q \in Runners : RunsInline(q, k) => RunsInline(q, k)'
        BY <1>5, <2>2 DEF start, Owe, RunsInline, TypeOK, Procs
      <3> QED BY <1>1, <3>1, <3>2
    <2> QED BY <2>1, <2>2
  <1>6. ASSUME NEW p \in Procs, complete(p) \/ fail_write(p)
        PROVE  Same /\ \A r \in Runners : RunsInline(r, k) => RunsInline(r, k)'
    <2>1. job[p] # k
      BY <1>6 DEF complete, fail_write, TypeOK
    <2>2. Same
      BY <1>6, <2>1 DEF complete, fail_write, TypeOK
    <2>3. \A q \in Procs : q # p => job'[q] = job[q] /\ pc'[q] = pc[q] /\ ret'[q] = ret[q]
      BY <1>6 DEF complete, fail_write, Owe, TypeOK
    <2> QED BY <2>1, <2>2, <2>3 DEF RunsInline, Procs
  <1>7. ASSUME NEW p \in Procs, append_event(p) \/ handler_returns(p) \/ handler_raises(p)
        PROVE  Same /\ \A r \in Runners : RunsInline(r, k) => RunsInline(r, k)'
    <2>1. Same
      BY <1>7 DEF append_event, handler_returns, handler_raises
    <2>2. CASE append_event(p)
      <3>1. CASE UNCHANGED <<pc, job, ret>>
        BY <2>1, <3>1 DEF RunsInline
      <3>2. CASE Tail(out[p]) = <<>>
        BY <2>2, <3>2 DEF append_event, RunsInline, TypeOK, Procs
      <3> QED BY <2>1, <2>2, <3>1, <3>2 DEF append_event
    <2>3. CASE handler_returns(p) \/ handler_raises(p)
      <3>1. \A r \in Runners : RunsInline(r, k) => RunsInline(r, k)'
        BY <2>3, ConstantsAssumption DEF handler_returns, handler_raises, Goto, RunsInline, TypeOK, Procs
      <3> QED BY <2>1, <3>1
    <2> QED BY <1>7, <2>1, <2>2, <2>3
  <1>8. ASSUME NEW p \in Procs, cancel_get(p) \/ cancel_queued(p) \/ cancel_running(p)
        PROVE  Same /\ \A r \in Runners : RunsInline(r, k) => RunsInline(r, k)'
    <2>1. Same
      BY <1>8 DEF cancel_get, cancel_queued, cancel_running, TypeOK
    <2>2. p \notin Runners
      BY <1>8, ConstantsAssumption DEF cancel_get, cancel_queued, cancel_running, ControlOK, PCsOf, RunnerPCs, Procs
    <2>3. \A q \in Procs : q # p => job'[q] = job[q] /\ pc'[q] = pc[q] /\ ret'[q] = ret[q]
      BY <1>8 DEF cancel_get, cancel_queued, cancel_running, Goto, Return, Owe, TypeOK
    <2> QED BY <2>1, <2>2, <2>3 DEF RunsInline, Procs
  <1>9. ASSUME NEW p \in Procs, crash(p)
        PROVE  k \in InlineJobs /\ crashes' > 0
    BY <1>9 DEF crash, TypeOK, RunningIsRun
  <1>10. ASSUME NEW j \in Jobs, lease_expires(j) \/ backoff_elapses(j)
        PROVE  Same /\ \A r \in Runners : RunsInline(r, k) => RunsInline(r, k)'
    BY <1>10 DEF lease_expires, backoff_elapses, RunsInline, TypeOK
  <1>11. CASE UNCHANGED vars
    BY <1>1, <1>11 DEF vars, RunsInline
  <1> HIDE DEF Same
  <1> QED BY <1>1, <1>2, <1>3, <1>4, <1>5, <1>6, <1>7, <1>8, <1>9, <1>10, <1>11 DEF Next, CallStep

(* A set of workers is finite, and misses a worker when it is smaller.        *)
LEMMA RequeuersCount ==
  ASSUME NEW S \in SUBSET Workers
  PROVE  /\ IsFiniteSet(S) /\ Cardinality(S) \in Nat
         /\ Cardinality(S) <= Cardinality(Workers)
         /\ \A w \in Workers : w \notin S => Cardinality(S) + 1 <= Cardinality(Workers)
         /\ \A w \in S : Cardinality(S \ {w}) + 1 = Cardinality(S)
  <1>1. /\ IsFiniteSet(S) /\ Cardinality(S) \in Nat /\ Cardinality(S) <= Cardinality(Workers)
    BY WorkersAreFinite, FS_Subset, FS_CardinalityType
  <1>2. ASSUME NEW w \in Workers, w \notin S PROVE Cardinality(S) + 1 <= Cardinality(Workers)
    <2>1. Cardinality(S \cup {w}) = Cardinality(S) + 1
      BY <1>1, <1>2, FS_AddElement
    <2>2. S \cup {w} \in SUBSET Workers
      OBVIOUS
    <2> QED BY <2>1, <2>2, WorkersAreFinite, FS_Subset
  <1>3. ASSUME NEW w \in S PROVE Cardinality(S \ {w}) + 1 = Cardinality(S)
    <2>1. Cardinality(S \ {w}) = Cardinality(S) - 1
      BY <1>1, FS_RemoveElement
    <2> QED BY <1>1, <2>1
  <1> QED BY <1>1, <1>2, <1>3

(* Queueing a job again uses up one of the requeues that were decided, and    *)
(* the claim that reaches max_attempts is made by a worker that decided none. *)
LEMMA StepKeepsRequeuesCounted ==
  ASSUME AttemptInv, [Next]_vars, RequeuesCounted PROVE RequeuesCounted'
  <1> SUFFICES ASSUME NEW k \in Jobs
               PROVE  \/ attempt_count'[k] < max_attempts'[k]
                      \/ attempt_count'[k] + ClaimsToCome(k)' <= max_attempts'[k] + Cardinality(Workers) - 1
    BY DEF RequeuesCounted
  <1> USE DEF AttemptInv, row, loop, bounds
  <1> DEFINE R  == Requeuers(k)
             S  == Requeuers(k)'
             Goal == \/ attempt_count'[k] < max_attempts'[k]
                     \/ attempt_count'[k] + ClaimsToCome(k)' <= max_attempts'[k] + Cardinality(Workers) - 1
             Same == attempt_count'[k] = attempt_count[k] /\ max_attempts'[k] = max_attempts[k]
             Quiet == Same /\ (status'[k] = "queued" => status[k] = "queued")
             Others(p) == \A q \in Procs : q # p => job'[q] = job[q] /\ pc'[q] = pc[q]
  <1>1. R \in SUBSET Workers /\ S \in SUBSET Workers
    BY DEF Requeuers
  <1>2. /\ Cardinality(R) \in Nat /\ Cardinality(S) \in Nat /\ Cardinality(Workers) \in Nat
        /\ IsFiniteSet(R)
    BY <1>1, RequeuersCount, WorkersAreFinite, FS_CardinalityType
  <1>3. attempt_count[k] \in Nat /\ max_attempts[k] \in Nat
    BY DEF TypeOK
  <1>4. \/ attempt_count[k] < max_attempts[k]
        \/ attempt_count[k] + Cardinality(R) + (IF status[k] = "queued" THEN 1 ELSE 0)
               <= max_attempts[k] + Cardinality(Workers) - 1
    BY <1>2, <1>3 DEF RequeuesCounted, ClaimsToCome
  <1>5. ASSUME Quiet, S \subseteq R PROVE Goal
    <2>1. Cardinality(S) <= Cardinality(R)
      BY <1>2, <1>5, FS_Subset
    <2> QED BY <1>2, <1>3, <1>4, <1>5, <2>1 DEF ClaimsToCome
  <1>6. ASSUME Same, attempt_count[k] < max_attempts[k] PROVE Goal
    BY <1>6
  <1>7. ASSUME NEW p \in Procs, pc'[p] \notin {"retry", "requeue_stale"}, Others(p)
        PROVE  S \subseteq R
    BY <1>7 DEF Requeuers, Procs
  <1>8. ASSUME NEW w \in Workers, requeue_stale(w) \/ fail_retry(w) PROVE Goal
    <2>1. Same /\ Others(w) /\ pc'[w] = "append" /\ job' = job /\ w \in Procs
      BY <1>8 DEF requeue_stale, fail_retry, Owe, TypeOK, Procs
    <2>2. CASE job[w] # k
      <3>1. Quiet
        BY <1>8, <2>1, <2>2 DEF requeue_stale, fail_retry, TypeOK
      <3> QED BY <1>5, <1>7, <2>1, <3>1
    <2>3. CASE job[w] = k
      <3>1. w \in R
        BY <1>8, <2>3 DEF Requeuers, requeue_stale, fail_retry
      <3>2. S \subseteq R \ {w}
        BY <2>1 DEF Requeuers, Procs
      <3>3. Cardinality(R \ {w}) + 1 = Cardinality(R) /\ IsFiniteSet(R \ {w})
        BY <1>1, <1>2, <3>1, RequeuersCount, FS_RemoveElement
      <3>4. Cardinality(S) <= Cardinality(R \ {w})
        BY <3>2, <3>3, FS_Subset
      <3>5. Cardinality(S) + 1 <= Cardinality(R)
        <4>1. Cardinality(R \ {w}) \in Nat
          BY <3>3, FS_CardinalityType
        <4> HIDE DEF R, S
        <4> QED BY <1>2, <3>3, <3>4, <4>1
      <3> QED BY <1>2, <1>3, <1>4, <2>1, <3>5 DEF ClaimsToCome
    <2> QED BY <2>2, <2>3
  <1>9. ASSUME NEW w \in Workers, NEW j \in Jobs, claim(w, j) PROVE Goal
    <2>1. /\ Others(w) /\ pc[w] = "claim" /\ pc'[w] = "append" /\ w \in Procs
          /\ max_attempts' = max_attempts
      BY <1>9 DEF claim, TypeOK, Procs
    <2>2. S \subseteq R
      BY <1>7, <2>1
    <2>3. CASE j # k
      <3>1. Quiet
        BY <1>9, <2>3 DEF claim, TypeOK
      <3> QED BY <1>5, <2>2, <3>1
    <2>4. CASE j = k
      <3>1. /\ status[k] = "queued" /\ status'[k] = "running"
            /\ attempt_count'[k] = attempt_count[k] + 1
        BY <1>9, <2>4 DEF claim, Claimable, TypeOK
      <3>2. w \notin R
        BY <2>1 DEF Requeuers
      <3>3. Cardinality(R) + 1 <= Cardinality(Workers)
        BY <1>1, <3>2, RequeuersCount
      <3>4. Cardinality(S) <= Cardinality(R)
        BY <1>2, <2>2, FS_Subset
      <3>5. ClaimsToCome(k)' = Cardinality(S)
        BY <1>2, <3>1 DEF ClaimsToCome
      <3>6. max_attempts'[k] = max_attempts[k]
        BY <2>1
      <3> HIDE DEF R, S
      <3> QED BY <1>2, <1>3, <1>4, <3>1, <3>3, <3>4, <3>5, <3>6
    <2> QED BY <2>3, <2>4
  <1>10. ASSUME NEW w \in Workers, NEW j \in Jobs, recover_get(w, j) PROVE Goal
    <2>1. Quiet /\ Others(w) /\ w \in Procs /\ job'[w] = j
      BY <1>10 DEF recover_get, TypeOK, Procs
    <2>2. CASE attempt_count[k] < max_attempts[k]
      BY <1>6, <2>1, <2>2
    <2>3. CASE ~(attempt_count[k] < max_attempts[k]) /\ j = k
      <3>1. pc'[w] = "fail_write"
        BY <1>10, <2>3 DEF recover_get, MayRetry, TypeOK, Procs
      <3> QED BY <1>5, <1>7, <2>1, <3>1
    <2>4. CASE j # k
      <3>1. S \subseteq R
        BY <2>1, <2>4 DEF Requeuers, Procs
      <3> QED BY <1>5, <2>1, <3>1
    <2> QED BY <2>2, <2>3, <2>4
  <1>11. ASSUME NEW w \in Workers, fail_get(w) PROVE Goal
    <2>1. Quiet /\ Others(w) /\ w \in Procs /\ job' = job
      BY <1>11 DEF fail_get, Goto, TypeOK, Procs
    <2>2. CASE attempt_count[k] < max_attempts[k]
      BY <1>6, <2>1, <2>2
    <2>3. CASE ~(attempt_count[k] < max_attempts[k]) /\ job[w] = k
      <3>1. pc'[w] = "fail_write"
        BY <1>11, <2>3 DEF fail_get, Goto, MayRetry, TypeOK, Procs
      <3> QED BY <1>5, <1>7, <2>1, <3>1
    <2>4. CASE job[w] # k
      <3>1. S \subseteq R
        BY <2>1, <2>4 DEF Requeuers, Procs
      <3> QED BY <1>5, <2>1, <3>1
    <2> QED BY <2>2, <2>3, <2>4
  <1>12. ASSUME NEW w \in Workers,
                select_stale(w) \/ recovered(w) \/ claim_none(w) \/ check_cancel(w)
         PROVE  Goal
    <2>1. Quiet /\ Others(w) /\ w \in Procs
      BY <1>12 DEF select_stale, recovered, claim_none, check_cancel, Goto, TypeOK, Procs
    <2>2. pc'[w] \notin {"retry", "requeue_stale"}
      BY <1>12, <2>1 DEF select_stale, recovered, claim_none, check_cancel, Goto, TypeOK
    <2> QED BY <1>5, <1>7, <2>1, <2>2
  <1>13. ASSUME NEW p \in Procs, p \notin Workers, NEW j \in Jobs,
                NEW limit \in AttemptLimits \cup {1}, NEW l, Insert(p, j, limit, l)
         PROVE  Goal
    <2>1. Others(p) /\ pc'[p] = "append"
      BY <1>13 DEF Insert, TypeOK
    <2>2. CASE j # k
      <3>1. Quiet
        BY <1>13, <2>2 DEF Insert, TypeOK
      <3> QED BY <1>5, <1>7, <2>1, <3>1
    <2>3. CASE j = k
      <3>1. attempt_count'[k] = 0 /\ max_attempts'[k] = limit
        BY <1>13, <2>3 DEF Insert, FreshUntilClaimed, TypeOK
      <3>2. limit \in Nat \ {0}
        BY ConstantsAssumption
      <3> QED BY <3>1, <3>2
    <2> QED BY <2>2, <2>3
  <1>14. ASSUME NEW c \in Clients, NEW j \in Jobs, request_cancel(c, j) PROVE Goal
    <2>1. Quiet /\ Others(c) /\ c \in Procs /\ pc'[c] = "cancel"
      BY <1>14 DEF request_cancel, TypeOK, Procs
    <2> QED BY <1>5, <1>7, <2>1
  <1>15. ASSUME NEW r \in Runners, start(r) PROVE Goal
    <2>1. Quiet /\ Others(r) /\ r \in Procs /\ pc'[r] = "append"
      BY <1>15 DEF start, Owe, TypeOK, Procs
    <2> QED BY <1>5, <1>7, <2>1
  <1>16. ASSUME NEW p \in Procs, append_event(p) PROVE Goal
    <2>1. Quiet /\ Others(p)
      BY <1>16 DEF append_event, TypeOK
    <2>2. ret[p] \notin {"retry", "requeue_stale"} /\ pc[p] = "append"
      BY <1>16 DEF append_event, ControlOK, ReturnsOf
    <2>3. pc'[p] \notin {"retry", "requeue_stale"}
      BY <1>16, <2>2 DEF append_event, TypeOK
    <2> QED BY <1>5, <1>7, <2>1, <2>3
  <1>17. ASSUME NEW p \in Procs,
                \/ handler_returns(p) \/ handler_raises(p) \/ complete(p) \/ fail_write(p)
                \/ cancel_queued(p) \/ cancel_running(p)
         PROVE  Goal
    <2>1. Others(p) /\ Same
      BY <1>17 DEF handler_returns, handler_raises, complete, fail_write,
         cancel_queued, cancel_running, Goto, Owe, TypeOK
    <2>2. status'[k] = "queued" => status[k] = "queued"
      BY <1>17 DEF handler_returns, handler_raises, complete, fail_write,
         cancel_queued, cancel_running, TypeOK
    <2>3. pc'[p] \notin {"retry", "requeue_stale"}
      BY <1>17 DEF handler_returns, handler_raises, complete, fail_write,
         cancel_queued, cancel_running, Goto, Owe, TypeOK
    <2> QED BY <1>5, <1>7, <2>1, <2>2, <2>3
  <1>18. ASSUME NEW p \in Procs, cancel_get(p) PROVE Goal
    <2>1. Others(p) /\ Quiet
      BY <1>18 DEF cancel_get, Goto, Return, TypeOK
    <2>2. pc'[p] \notin {"retry", "requeue_stale"}
      BY <1>18 DEF cancel_get, Goto, Return, After, TypeOK
    <2> QED BY <1>5, <1>7, <2>1, <2>2
  <1>19. ASSUME NEW p \in Procs, crash(p) PROVE Goal
    <2>1. Others(p) /\ Quiet /\ pc'[p] = "idle"
      BY <1>19 DEF crash, TypeOK
    <2> QED BY <1>5, <1>7, <2>1
  <1>20. ASSUME UNCHANGED <<status, attempt_count, max_attempts, pc, job>> PROVE Goal
    <2>1. Quiet /\ S \subseteq R
      BY <1>20 DEF Requeuers
    <2> QED BY <1>5, <2>1
  <1>21. CASE \E w \in Workers : WorkerStep(w)
    BY <1>8, <1>9, <1>10, <1>11, <1>12, <1>21 DEF WorkerStep
  <1>22. CASE \E c \in Clients : enqueue(c) \/ \E j \in Jobs : request_cancel(c, j)
    BY <1>13, <1>14, <1>22, ConstantsAssumption DEF enqueue, Procs
  <1>23. CASE \E r \in Runners : submit(r) \/ start(r)
    BY <1>13, <1>15, <1>23, ConstantsAssumption DEF submit, Procs
  <1>24. CASE \E p \in Procs : CallStep(p) \/ crash(p)
    BY <1>16, <1>17, <1>18, <1>19, <1>24 DEF CallStep
  <1>25. CASE \E j \in Jobs : lease_expires(j) \/ backoff_elapses(j)
    BY <1>20, <1>25 DEF lease_expires, backoff_elapses
  <1>26. CASE UNCHANGED vars
    BY <1>20, <1>26 DEF vars
  <1>27. Goal
    BY <1>21, <1>22, <1>23, <1>24, <1>25, <1>26 DEF Next
  <1> QED BY <1>27

(* The parts that bound and locate the work follow from those that count it.  *)
LEMMA CountsBoundAttempts == AttemptInv /\ RequeuesCounted => AttemptsBounded
  <1> SUFFICES ASSUME AttemptInv, RequeuesCounted, NEW k \in Jobs
               PROVE attempt_count[k] <= max_attempts[k] + Cardinality(Workers) - 1
    BY DEF AttemptsBounded
  <1>1. Requeuers(k) \in SUBSET Workers
    BY DEF Requeuers
  <1>2. Cardinality(Requeuers(k)) \in Nat /\ Cardinality(Workers) \in Nat
    BY <1>1, RequeuersCount, WorkersAreFinite, FS_CardinalityType
  <1>3. attempt_count[k] \in Nat /\ max_attempts[k] \in Nat
    BY DEF AttemptInv, TypeOK
  <1> QED BY <1>2, <1>3 DEF RequeuesCounted, ClaimsToCome

(* A job that a runner runs is a runner's job.                                *)
LEMMA RunIsOwned == RunningIsRun => RunningIsOwned
  BY DEF RunningIsRun, RunningIsOwned, RunsInline

(* The initial state: no job exists and nothing is owed.                      *)
LEMMA InitAccounted == Init => Accounted
  <1> SUFFICES ASSUME Init PROVE Accounted
    OBVIOUS
  <1>1. AttemptInv
    BY InitInv
  <1>2. RequeuesCounted
    BY DEF Init, RequeuesCounted
  <1>3. DoneMeansSettled /\ DoneIsPublished /\ RunningIsRun
    BY DEF Init, DoneMeansSettled, DoneIsPublished, RunningIsRun, Published, Settled,
       TERMINAL_STATUSES
  <1>4. DoneOwedWhenSettled
    BY ConstantsAssumption DEF Init, DoneOwedWhenSettled, Owes, Procs
  <1> QED BY <1>1, <1>2, <1>3, <1>4, CountsBoundAttempts, RunIsOwned DEF Accounted

(* Whatever leases, crashes, retries, recoveries and cancels do: a job is     *)
(* dispatched fewer than max_attempts + |Workers| times, the stream of a      *)
(* plain job ends only when it is settled, a settled job's stream ends unless *)
(* a process crashed, and a running job has a lease or a runner.              *)
THEOREM QueueIsAccounted == Spec => []Accounted
  <1>1. AttemptInv /\ Accounted /\ [Next]_vars => Accounted'
    <2> SUFFICES ASSUME AttemptInv, Accounted, [Next]_vars PROVE Accounted'
      OBVIOUS
    <2>1. AttemptInv' /\ RequeuesCounted'
      BY NextInv, StepKeepsRequeuesCounted DEF Accounted
    <2>2. AttemptsBounded'
      BY <2>1, CountsBoundAttempts, PTL
    <2>3. DoneMeansSettled' /\ DoneOwedWhenSettled'
      BY StepKeepsDoneSettled DEF Accounted
    <2>4. DoneIsPublished'
      BY StepKeepsDonePublished DEF Accounted
    <2>5. RunningIsRun'
      BY StepKeepsRunningRun DEF Accounted
    <2>6. RunningIsOwned'
      BY <2>5, RunIsOwned, PTL
    <2> QED BY <2>1, <2>2, <2>3, <2>4, <2>5, <2>6 DEF Accounted
  <1> QED BY <1>1, InitAccounted, AttemptsAreInvariant, PTL DEF Spec
=============================================================================
