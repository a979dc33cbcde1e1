---------------------------- MODULE JobLifecycle ----------------------------
(* What the job queue promises to the components that submit jobs, without    *)
(* leases, workers, events or cancel requests: a job is pending, then it is   *)
(* running, then it is settled.  A worker takes it from pending only, and     *)
(* counts that; only a job submitted with several attempts is ever pending    *)
(* again; only a job that its submitter runs itself is ever running without   *)
(* having been taken.                                                         *)
EXTENDS Naturals

CONSTANTS
    Jobs,       \* job ids
    InlineJobs, \* the jobs whose submitter runs them itself
    AttemptLimits   \* the numbers of attempts jobs are submitted with

VARIABLES
    life,       \* "absent", "pending", "running" or "settled"
    limit,      \* max_attempts
    attempts    \* how often a worker has taken the job

vars == <<life, limit, attempts>>

Init ==
    /\ life = [j \in Jobs |-> "absent"]
    /\ limit = [j \in Jobs |-> 1]
    /\ attempts = [j \in Jobs |-> 0]

Submit(j) ==
    /\ life[j] = "absent"
    /\ life' = [life EXCEPT ![j] = "pending"]
    /\ \E n \in AttemptLimits \cup {1} : limit' = [limit EXCEPT ![j] = n]
    /\ UNCHANGED attempts

Dispatch(j) ==
    /\ life[j] = "pending"
    /\ life' = [life EXCEPT ![j] = "running"]
    /\ attempts' = [attempts EXCEPT ![j] = @ + 1]
    /\ UNCHANGED limit

RunInline(j) ==
    /\ j \in InlineJobs /\ life[j] # "absent"
    /\ life' = [life EXCEPT ![j] = "running"]
    /\ UNCHANGED <<limit, attempts>>

Retry(j) ==
    /\ limit[j] # 1 /\ life[j] # "absent"
    /\ life' = [life EXCEPT ![j] = "pending"]
    /\ UNCHANGED <<limit, attempts>>

Settle(j) ==
    /\ life[j] # "absent"
    /\ life' = [life EXCEPT ![j] = "settled"]
    /\ UNCHANGED <<limit, attempts>>

Next ==
    \E j \in Jobs : Submit(j) \/ Dispatch(j) \/ RunInline(j) \/ Retry(j) \/ Settle(j)

Spec == Init /\ [][Next]_vars
=============================================================================
