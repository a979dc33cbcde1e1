---------------------------- MODULE SessionProofs ----------------------------
(***************************************************************************)
(* Proofs about AuthStore, for any accounts and any number of requests,    *)
(* and about ChatSession, for any number of turns that are answered at the *)
(* same time, any evidence, any relation "Similar" on it and any limits.   *)
(***************************************************************************)
EXTENDS Credentials, ChatSession, SequenceTheorems, FiniteSetTheorems, WellFoundedInduction,
        TLAPS

(* A set of positions that is not empty has a least one.                      *)
LEMMA LeastPosition ==
  ASSUME NEW S, S \subseteq Nat, S # {}
  PROVE  \E i \in S : \A j \in S : i <= j
<1>1. PICK i \in S : \A j \in S : <<j, i>> \notin OpToRel(<, Nat)
  BY WFMin, NatLessThanWellFounded, Zenon
<1>2. \A j \in S : ~ (j < i)
  BY <1>1, Zenon DEF OpToRel
<1> QED BY <1>2

(* Every step keeps the types.                                                *)
LEMMA TypesStep == TypeOK /\ [Next]_vars => TypeOK'
<1> SUFFICES ASSUME TypeOK, [Next]_vars PROVE TypeOK'
  OBVIOUS
<1> USE DEF TypeOK
<1>1. ASSUME NEW r \in Requests, NEW u \in Emails, signup(r, u) PROVE TypeOK'
  BY <1>1 DEF signup, Begin, Goto, Keep, Patches, Users, locks
<1>2. ASSUME NEW r \in Requests, NEW u \in Users, touch_user(r, u) PROVE TypeOK'
  BY <1>2 DEF touch_user, Begin, Goto, Keep, Patches, locks
<1>3. ASSUME NEW r \in Requests, NEW a \in Users, NEW u \in Users, NEW p \in Asked,
             update_user_admin(r, a, u, p)
      PROVE TypeOK'
  BY <1>3, ConstantsAssumption DEF update_user_admin, MayAdminister, Begin, Goto, locks
<1>4. ASSUME NEW r \in Requests, lock_bootstrap(r) PROVE TypeOK'
  BY <1>4 DEF lock_bootstrap, Goto
<1>5. ASSUME NEW r \in Requests, read_admin(r) PROVE TypeOK'
  BY <1>5 DEF read_admin, Goto, locks
<1>6. ASSUME NEW r \in Requests, insert_user(r) PROVE TypeOK'
  BY <1>6 DEF insert_user, Goto, locks
<1>7. ASSUME NEW r \in Requests, lock_mutation(r) PROVE TypeOK'
  BY <1>7 DEF lock_mutation, Goto
<1>8. ASSUME NEW r \in Requests, select_user_for_update(r) PROVE TypeOK'
  BY <1>8 DEF select_user_for_update, Goto
<1>9. ASSUME NEW r \in Requests, check_last_admin(r) PROVE TypeOK'
  BY <1>9 DEF check_last_admin, Goto, locks
<1>10. ASSUME NEW r \in Requests, End(r), role' \in [Users -> {"user", "admin"}],
              status' \in [Users -> {"absent", "active", "disabled"}]
       PROVE TypeOK'
  BY <1>10 DEF End, Goto, Released, Freed, Keep, Patches
<1>11. ASSUME NEW r \in Requests, commit_signup(r) PROVE TypeOK'
  BY <1>10, <1>11 DEF commit_signup
<1>12. ASSUME NEW r \in Requests, commit_update(r) PROVE TypeOK'
  <2>1. target[r] \in Users
    BY <1>12 DEF commit_update
  <2>2. NewRole(r) \in {"user", "admin"} /\ NewStatus(r) \in {"absent", "active", "disabled"}
    BY <2>1 DEF NewRole, NewStatus, Patches
  <2> QED BY <1>10, <1>12, <2>2 DEF commit_update
<1>13. ASSUME NEW r \in Requests, rollback(r) PROVE TypeOK'
  BY <1>10, <1>13 DEF rollback
<1>14. ASSUME NEW u \in Subjects, get_or_create_user_for_subject(u) PROVE TypeOK'
  BY <1>14 DEF get_or_create_user_for_subject, Users, locks
<1>15. CASE UNCHANGED vars
  BY <1>15 DEF vars
<1> QED
  BY <1>1, <1>2, <1>3, <1>4, <1>5, <1>6, <1>7, <1>8, <1>9, <1>11, <1>12, <1>13, <1>14,
      <1>15
  DEF Next, Statement

(* The types are an invariant: what a request writes at its commit is a role  *)
(* and a status, and it has a user to write them to.                          *)
THEOREM TypeCorrect == Spec => []TypeOK
<1>1. Init => TypeOK
  BY ConstantsAssumption DEF Init, TypeOK, Keep, Patches
<1> QED BY <1>1, TypesStep, PTL DEF Spec

-----------------------------------------------------------------------------
(* What a step does to roles and statuses.                                    *)

(* A patch that changes nothing takes no administrator away.                  *)
LEMMA KeepRemovesNobody ==
    ASSUME NEW r \in Requests, patch[r] = Keep PROVE ~RemovesLastAdmin(r)
BY DEF RemovesLastAdmin, ActiveAdmin, NewRole, NewStatus, Keep

(* Nor does it change the rows.                                               *)
LEMMA KeepChangesNothing ==
    ASSUME TypeOK, NEW r \in Requests, patch[r] = Keep, commit_update(r)
    PROVE  UNCHANGED <<role, status>>
<1>1. NewRole(r) = role[target[r]] /\ NewStatus(r) = status[target[r]]
  BY DEF NewRole, NewStatus, Keep
<1> QED BY <1>1 DEF commit_update, TypeOK

(* The step takes no account and no administrator away.                       *)
Grows ==
    \A u \in Users : /\ ActiveAdmin(u) => ActiveAdmin(u)'
                     /\ status[u] # "absent" => status'[u] # "absent"

(* A request that takes away no last administrator still takes away none when *)
(* others only add administrators and leave the row of its user alone.        *)
LEMMA StaysNotLast ==
    ASSUME Grows, NEW r \in Requests, ~RemovesLastAdmin(r),
           target'[r] = target[r], patch'[r] = patch[r],
           role'[target[r]] = role[target[r]], status'[target[r]] = status[target[r]]
    PROVE  ~RemovesLastAdmin(r)'
<1>1. NewRole(r)' = NewRole(r) /\ NewStatus(r)' = NewStatus(r)
  BY DEF NewRole, NewStatus
<1>2. /\ role'[target'[r]] = role[target[r]] /\ status'[target'[r]] = status[target[r]]
      /\ target'[r] = target[r]
  OBVIOUS
<1>3. ASSUME NEW u \in Users \ {target[r]}, ActiveAdmin(u) PROVE ActiveAdmin(u)'
  BY <1>3 DEF Grows
<1> QED BY <1>1, <1>2, <1>3 DEF RemovesLastAdmin, ActiveAdmin

-----------------------------------------------------------------------------
(* The part of AccountInv about one request.                                  *)
Safe(r) ==
    /\ op[r] # "update" => patch[r] = Keep
    /\ pc[r] # "idle" => pc[r] \in IF op[r] = "signup"
                                   THEN {"lock_bootstrap", "read_admin", "insert", "commit"}
                                   ELSE {"lock_mutation", "lock_row", "check", "commit"}
    /\ pc[r] # "idle" => IF op[r] = "signup" THEN target[r] \in Emails
                                            ELSE status[target[r]] # "absent"
    /\ pc[r] \in {"read_admin", "insert"} => bootstrap = r
    /\ pc[r] = "commit" /\ op[r] = "signup" => bootstrap = r /\ status[target[r]] = "absent"
    /\ pc[r] \in {"lock_row", "check", "commit"} /\ patch[r] # Keep => mutation = r
    /\ pc[r] = "commit" /\ op[r] # "signup" => ~RemovesLastAdmin(r)

(* AccountInv says that every request is safe.                                *)
LEMMA AccountInvSafe == AccountInv <=> \A r \in Requests : Safe(r)
BY DEF AccountInv, Safe

(* The request r of the lemmas below is one that does not move.               *)
Waits(r) ==
    /\ pc'[r] = pc[r] /\ op'[r] = op[r] /\ target'[r] = target[r] /\ patch'[r] = patch[r]

(* A step that leaves roles and statuses alone and takes no lock from r.      *)
LEMMA QuietStep ==
    ASSUME NEW r \in Requests, Safe(r), Waits(r), UNCHANGED <<role, status>>,
           bootstrap = r => bootstrap' = r, mutation = r => mutation' = r
    PROVE  Safe(r)'
<1>1. RemovesLastAdmin(r)' <=> RemovesLastAdmin(r)
  BY DEF RemovesLastAdmin, ActiveAdmin, NewRole, NewStatus, Waits
<1> QED BY <1>1 DEF Safe, Waits

(* The end of a transaction of another request q takes no lock from r.        *)
LEMMA EndKeepsLocks ==
    ASSUME TypeOK, NEW q \in Requests, NEW r \in Requests, q # r, End(q)
    PROVE  /\ Waits(r)
           /\ bootstrap = r => bootstrap' = r
           /\ mutation = r => mutation' = r
BY DEF End, Goto, Released, Freed, Waits, TypeOK

(* An idle request without a patch is safe.                                   *)
LEMMA IdleSafe ==
    ASSUME NEW r \in Requests, pc[r] = "idle", patch[r] = Keep PROVE Safe(r)
BY DEF Safe

(* A request whose transaction has ended is safe.                             *)
LEMMA EndSafe == ASSUME TypeOK, NEW r \in Requests, End(r) PROVE Safe(r)'
BY DEF End, Goto, Safe, TypeOK

-----------------------------------------------------------------------------
(* Each step of a request q leaves every request safe.                        *)

(* A statement of q that commits nothing: q itself, and the others.           *)
LEMMA StatementSafe ==
    ASSUME TypeOK, AccountInv, NEW q \in Requests,
           \/ \E u \in Emails : signup(q, u)
           \/ \E u \in Users : touch_user(q, u)
           \/ \E a, u \in Users, p \in Asked : update_user_admin(q, a, u, p)
           \/ lock_bootstrap(q) \/ read_admin(q) \/ insert_user(q) \/ lock_mutation(q)
           \/ select_user_for_update(q) \/ check_last_admin(q)
    PROVE  AccountInv'
<1>1. \A r \in Requests : Safe(r)
  BY AccountInvSafe
<1>2. /\ UNCHANGED <<role, status>>
      /\ bootstrap' # bootstrap => bootstrap = NoOne /\ bootstrap' = q
      /\ mutation' # mutation => mutation = NoOne /\ mutation' = q
      /\ \A r \in Requests : r # q => Waits(r)
  BY DEF signup, touch_user, update_user_admin, Begin, Goto, lock_bootstrap,
      read_admin, insert_user,
         lock_mutation, select_user_for_update, check_last_admin, MayLock, locks, Waits, TypeOK
<1>3. ASSUME NEW r \in Requests, r # q PROVE Safe(r)'
  BY <1>1, <1>2, <1>3, QuietStep, ConstantsAssumption
<1>4. Safe(q)'
  <2>1. CASE \E u \in Emails : signup(q, u)
    BY <2>1 DEF signup, Begin, Goto, Safe, TypeOK
  <2>2. CASE \E u \in Users : touch_user(q, u)
    BY <2>2, <1>2 DEF touch_user, Begin, Goto, Safe, TypeOK
  <2>3. CASE \E a, u \in Users, p \in Asked : update_user_admin(q, a, u, p)
    BY <2>3, <1>2 DEF update_user_admin, Begin, Goto, Safe, TypeOK
  <2>4. CASE lock_bootstrap(q)
    BY <2>4, <1>1, <1>2 DEF lock_bootstrap, Goto, Safe, TypeOK
  <2>5. CASE read_admin(q)
    BY <2>5, <1>1, <1>2 DEF read_admin, Goto, Safe, TypeOK, locks
  <2>6. CASE insert_user(q)
    BY <2>6, <1>1, <1>2 DEF insert_user, Goto, Safe, TypeOK, locks
  <2>7. CASE lock_mutation(q)
    BY <2>7, <1>1, <1>2 DEF lock_mutation, Goto, Safe, TypeOK
  <2>8. CASE select_user_for_update(q)
    <3>1. op[q] = "update" \/ patch'[q] = Keep
      BY <2>8, <1>1 DEF select_user_for_update, Safe
    <3>2. op[q] # "update" => ~RemovesLastAdmin(q)'
      BY <2>8, <3>1 DEF select_user_for_update, RemovesLastAdmin, ActiveAdmin, NewRole,
          NewStatus, Keep
    <3> QED BY <2>8, <3>2, <1>1, <1>2 DEF select_user_for_update, Goto, Safe, TypeOK
  <2>9. CASE check_last_admin(q)
    <3>1. ~RemovesLastAdmin(q)'
      BY <2>9 DEF check_last_admin, RemovesLastAdmin, ActiveAdmin, NewRole, NewStatus
    <3> QED BY <2>9, <3>1, <1>1, <1>2 DEF check_last_admin, Goto, Safe, TypeOK, locks
  <2> QED BY <2>1, <2>2, <2>3, <2>4, <2>5, <2>6, <2>7, <2>8, <2>9
<1> QED BY <1>3, <1>4 DEF AccountInv, Safe

(* The end of q when no row changes.                                          *)
LEMMA RollbackSafe ==
    ASSUME TypeOK, AccountInv, NEW q \in Requests, End(q), UNCHANGED <<role, status>>
    PROVE  AccountInv'
<1>1. \A r \in Requests : Safe(r)
  BY AccountInvSafe
<1>2. \A r \in Requests : r # q => Safe(r)'
  BY <1>1, EndKeepsLocks, QuietStep
<1> QED BY <1>2, EndSafe DEF AccountInv, Safe

(* A sign-up adds a row that no update is about.                              *)
LEMMA SignupSafe ==
    ASSUME TypeOK, AccountInv, NEW q \in Requests, commit_signup(q) PROVE AccountInv'
<1>1. \A r \in Requests : Safe(r)
  BY AccountInvSafe
<1>2. End(q) /\ target[q] \in Users /\ status[target[q]] = "absent" /\ bootstrap = q
  BY <1>1 DEF commit_signup, Safe, TypeOK
<1>3. Grows
  BY <1>2 DEF commit_signup, Grows, ActiveAdmin, TypeOK
<1>4. ASSUME NEW r \in Requests, r # q PROVE Safe(r)'
  <2>1. Waits(r) /\ (mutation = r => mutation' = r) /\ bootstrap # r
    BY <1>2, <1>4, EndKeepsLocks
  <2>2. CASE pc[r] = "idle"
    BY <1>1, <2>1, <2>2 DEF Safe, Waits
  <2>3. CASE pc[r] # "idle" /\ op[r] = "signup"
    BY <1>1, <2>1, <2>3 DEF Safe, Waits
  <2>4. CASE pc[r] # "idle" /\ op[r] # "signup"
    <3>1. target[r] \in Users /\ target[r] # target[q]
      BY <1>1, <1>2, <2>4 DEF Safe, TypeOK
    <3>2. role'[target[r]] = role[target[r]] /\ status'[target[r]] = status[target[r]]
      BY <3>1 DEF commit_signup, TypeOK
    <3>3. ~RemovesLastAdmin(r) => ~RemovesLastAdmin(r)'
      BY <1>3, <2>1, <3>2, StaysNotLast DEF Waits
    <3> QED BY <1>1, <2>1, <2>4, <3>2, <3>3 DEF Safe, Waits
  <2> QED BY <2>2, <2>3, <2>4
<1> QED BY <1>2, <1>4, EndSafe DEF AccountInv, Safe

(* With a patch, q holds the advisory lock: no other request that has taken   *)
(* a row has a patch.                                                         *)
LEMMA UpdateSafe ==
    ASSUME TypeOK, AccountInv, NEW q \in Requests, commit_update(q) PROVE AccountInv'
<1>1. \A r \in Requests : Safe(r)
  BY AccountInvSafe
<1>2. End(q) /\ pc[q] = "commit" /\ op[q] # "signup"
  BY DEF commit_update
<1>3. CASE patch[q] = Keep
  BY <1>2, <1>3, KeepChangesNothing, RollbackSafe
<1>4. CASE patch[q] # Keep
  <2>1. mutation = q /\ target[q] \in Users /\ status[target[q]] # "absent"
    BY <1>1, <1>2, <1>4 DEF Safe, TypeOK
  <2>2. NewStatus(q) # "absent"
    BY <2>1 DEF NewStatus, TypeOK, Patches
  <2>3. \A u \in Users : status[u] = "absent" <=> status'[u] = "absent"
    BY <2>1, <2>2 DEF commit_update, TypeOK
  <2>4. ASSUME NEW r \in Requests, r # q PROVE Safe(r)'
    <3>1. Waits(r) /\ (bootstrap = r => bootstrap' = r) /\ mutation # r
      BY <1>2, <2>1, <2>4, EndKeepsLocks
    <3>2. pc[r] \in {"lock_row", "check", "commit"} => patch[r] = Keep
      BY <1>1, <3>1 DEF Safe
    <3>3. pc[r] = "commit" => ~RemovesLastAdmin(r)'
      BY <3>1, <3>2 DEF Waits, RemovesLastAdmin, ActiveAdmin, NewRole, NewStatus, Keep
    <3>4. pc[r] # "idle" => target[r] \in Users
      BY DEF TypeOK
    <3> QED BY <1>1, <2>3, <3>1, <3>2, <3>3, <3>4 DEF Safe, Waits
  <2> QED BY <1>2, <2>4, EndSafe DEF AccountInv, Safe
<1> QED BY <1>3, <1>4

(* So does the first request of an external subject.                          *)
LEMMA SubjectSafe ==
    ASSUME TypeOK, AccountInv, NEW u \in Subjects, get_or_create_user_for_subject(u)
    PROVE  AccountInv'
<1> USE DEF get_or_create_user_for_subject
<1>1. \A r \in Requests : Safe(r)
  BY AccountInvSafe
<1>2. u \in Users /\ u \notin Emails
  BY ConstantsAssumption DEF Users
<1>3. Grows
  BY <1>2 DEF Grows, ActiveAdmin, TypeOK
<1>4. ASSUME NEW r \in Requests PROVE Safe(r)'
  <2>1. Waits(r) /\ UNCHANGED <<bootstrap, mutation>>
    BY DEF Waits, locks
  <2>2. CASE pc[r] = "idle"
    BY <1>1, <2>1, <2>2 DEF Safe, Waits
  <2>3. CASE pc[r] # "idle"
    <3>1. target[r] \in Users /\ target[r] # u
      BY <1>1, <1>2, <2>3 DEF Safe, TypeOK
    <3>2. role'[target[r]] = role[target[r]] /\ status'[target[r]] = status[target[r]]
      BY <3>1 DEF TypeOK
    <3>3. ~RemovesLastAdmin(r) => ~RemovesLastAdmin(r)'
      BY <1>3, <2>1, <3>2, StaysNotLast DEF Waits
    <3> QED BY <1>1, <2>1, <3>2, <3>3 DEF Safe, Waits
  <2> QED BY <2>2, <2>3
<1> QED BY <1>4 DEF AccountInv, Safe

-----------------------------------------------------------------------------
(* What each transaction relies on holds until it commits: the inductive      *)
(* invariant behind the two theorems after it.                                *)
THEOREM AccountsCorrect == Spec => []AccountInv
<1>1. Init => AccountInv
  BY DEF Init, AccountInv
<1>2. TypeOK /\ AccountInv /\ [Next]_vars => AccountInv'
  <2> SUFFICES ASSUME TypeOK, AccountInv, [Next]_vars PROVE AccountInv'
    OBVIOUS
  <2>1. ASSUME NEW q \in Requests, Statement(q) PROVE AccountInv'
    BY <2>1, StatementSafe, SignupSafe, UpdateSafe DEF Statement
  <2>2. ASSUME NEW q \in Requests, rollback(q) PROVE AccountInv'
    BY <2>2, RollbackSafe DEF rollback
  <2>3. ASSUME NEW q \in Requests,
               \/ \E u \in Emails : signup(q, u)
               \/ \E u \in Users : touch_user(q, u)
               \/ \E a, u \in Users, p \in Asked : update_user_admin(q, a, u, p)
        PROVE AccountInv'
    BY <2>3, StatementSafe
  <2>4. CASE UNCHANGED vars
    BY <2>4
      DEF vars, locks, AccountInv, RemovesLastAdmin, ActiveAdmin, NewRole, NewStatus
  <2> QED BY <2>1, <2>2, <2>3, <2>4, SubjectSafe DEF Next
<1> QED BY <1>1, <1>2, TypeCorrect, PTL DEF Spec

(* Roles and statuses change in three places only.                            *)
LEMMA RowsChange ==
    ASSUME [Next]_vars
    PROVE  \/ UNCHANGED <<role, status>>
           \/ \E q \in Requests : commit_signup(q)
           \/ \E q \in Requests : commit_update(q)
           \/ \E u \in Subjects : get_or_create_user_for_subject(u)
BY DEF Next, vars, Statement, signup, touch_user, update_user_admin, Begin,
    lock_bootstrap,
       read_admin, insert_user, lock_mutation, select_user_for_update, check_last_admin, rollback

(* No step takes the last administrator away.                                 *)
LEMMA AdminStep ==
    ASSUME TypeOK, AccountInv, [Next]_vars, HasAdmin PROVE HasAdmin'
<1>1. CASE UNCHANGED <<role, status>>
  BY <1>1 DEF HasAdmin, ActiveAdmin
<1>2. ASSUME NEW q \in Requests, commit_signup(q) PROVE HasAdmin'
  <2>1. status[target[q]] = "absent"
    BY <1>2 DEF AccountInv, commit_signup
  <2> QED BY <1>2, <2>1 DEF HasAdmin, ActiveAdmin, commit_signup, TypeOK
<1>3. ASSUME NEW q \in Requests, commit_update(q) PROVE HasAdmin'
  <2>1. target[q] \in Users /\ ~RemovesLastAdmin(q)
    BY <1>3 DEF AccountInv, commit_update, TypeOK
  <2>2. \/ \E u \in Users \ {target[q]} : ActiveAdmin(u)
        \/ NewRole(q) = "admin" /\ NewStatus(q) = "active"
    BY <2>1 DEF RemovesLastAdmin, HasAdmin
  <2> QED BY <1>3, <2>1, <2>2 DEF HasAdmin, ActiveAdmin, commit_update, TypeOK
<1>4. ASSUME NEW u \in Subjects, get_or_create_user_for_subject(u) PROVE HasAdmin'
  BY <1>4 DEF HasAdmin, ActiveAdmin, get_or_create_user_for_subject, TypeOK
<1> QED BY <1>1, <1>2, <1>3, <1>4, RowsChange

(* The last active administrator is never disabled or demoted, whatever       *)
(* administrators and callers in dev-header mode do at the same time.         *)
THEOREM LastAdminRemains == Spec => AdminRemains
<1>1. TypeOK /\ AccountInv /\ [Next]_vars => [HasAdmin => HasAdmin']_vars
  BY AdminStep
<1> QED BY <1>1, TypeCorrect, AccountsCorrect, PTL DEF Spec, AdminRemains

-----------------------------------------------------------------------------
(* Where every caller must be an administrator, an update that changes a role *)
(* means there is one, and a sign-up that found none finds none until it      *)
(* commits.                                                                   *)
THEOREM FirstAdminCorrect == ASSUME ~DevHeader PROVE Spec => []FirstAdminInv
<1>1. Init => FirstAdminInv
  BY DEF Init, FirstAdminInv
<1>2. ASSUME TypeOK, AccountInv, FirstAdminInv, [Next]_vars PROVE FirstAdminInv'
  <2>1. CASE UNCHANGED <<role, status>>
    <3>1. HasAdmin' <=> HasAdmin
      BY <2>1 DEF HasAdmin, ActiveAdmin
    <3>2. ASSUME NEW q \in Requests, Statement(q) PROVE FirstAdminInv'
      BY <1>2, <3>1, <3>2, ConstantsAssumption
      DEF FirstAdminInv, TypeOK, Statement, lock_bootstrap, read_admin, insert_user,
          lock_mutation,
          select_user_for_update, check_last_admin, commit_signup, commit_update, MayLock, End,
          Released, Freed, locks, AccountInv
    <3>3. ASSUME NEW q \in Requests, rollback(q) PROVE FirstAdminInv'
      BY <1>2, <3>1, <3>3 DEF FirstAdminInv, TypeOK, rollback, End, Released, Freed
    <3>4. ASSUME NEW q \in Requests, NEW u \in Emails, signup(q, u) PROVE FirstAdminInv'
      BY <1>2, <3>1, <3>4 DEF FirstAdminInv, TypeOK, signup, Begin, locks
    <3>5. ASSUME NEW q \in Requests, NEW u \in Users, touch_user(q, u) PROVE FirstAdminInv'
      BY <1>2, <3>1, <3>5 DEF FirstAdminInv, TypeOK, touch_user, Begin, locks
    <3>6. ASSUME NEW q \in Requests, NEW a \in Users, NEW u \in Users, NEW p \in Asked,
                 update_user_admin(q, a, u, p)
          PROVE FirstAdminInv'
      BY <1>2, <3>1, <3>6 DEF FirstAdminInv, TypeOK, update_user_admin, MayAdminister, ActiveAdmin, Begin, locks,
             HasAdmin
    <3>7. ASSUME UNCHANGED vars PROVE FirstAdminInv'
      BY <1>2, <3>1, <3>7 DEF FirstAdminInv, vars, locks
    <3>8. ASSUME NEW u \in Subjects, get_or_create_user_for_subject(u) PROVE FirstAdminInv'
      BY <1>2, <3>1, <3>8 DEF FirstAdminInv, get_or_create_user_for_subject, locks
    <3> QED BY <1>2, <3>2, <3>3, <3>4, <3>5, <3>6, <3>7, <3>8 DEF Next
  <2>2. ASSUME NEW q \in Requests, commit_signup(q) PROVE FirstAdminInv'
    <3>1. bootstrap = q
      BY <1>2, <2>2 DEF AccountInv, commit_signup
    <3>2. \A r \in Requests : grant'[r] # "admin"
      BY <1>2, <2>2, <3>1 DEF FirstAdminInv, TypeOK, commit_signup, End
    <3>3. \A r \in Requests : patch'[r] # Keep => patch[r] # Keep
      BY <2>2 DEF commit_signup, End, TypeOK
    <3> QED BY <1>2, <3>2, <3>3, AdminStep DEF FirstAdminInv
  <2>3. ASSUME NEW q \in Requests, commit_update(q), ~UNCHANGED <<role, status>>
        PROVE FirstAdminInv'
    <3>1. HasAdmin
      BY <1>2, <2>3, KeepChangesNothing DEF FirstAdminInv
    <3>2. \A r \in Requests : grant'[r] # "admin"
      BY <1>2, <2>3, <3>1 DEF FirstAdminInv, TypeOK, commit_update, End
    <3> QED BY <1>2, <3>1, <3>2, AdminStep DEF FirstAdminInv
  <2>4. ASSUME NEW u \in Subjects, get_or_create_user_for_subject(u) PROVE FirstAdminInv'
    <3>1. HasAdmin' <=> HasAdmin
      BY <1>2, <2>4
        DEF HasAdmin, ActiveAdmin, get_or_create_user_for_subject, TypeOK, Users
    <3> QED BY <1>2, <2>4, <3>1 DEF FirstAdminInv, get_or_create_user_for_subject, locks
  <2> QED BY <1>2, <2>1, <2>2, <2>3, <2>4, RowsChange
<1> QED BY <1>1, <1>2, TypeCorrect, AccountsCorrect, PTL DEF Spec

-----------------------------------------------------------------------------
(* Who has a lock, and who goes on.                                           *)

(* The first part of LocksInv: only a transaction that runs has a lock.       *)
HoldersRun ==
    \A r \in Requests :
       /\ bootstrap = r => pc[r] \in {"read_admin", "insert", "commit"}
       /\ mutation = r => pc[r] \in {"lock_row", "check", "commit"}
       /\ \A u \in Users : row[u] = r => target[r] = u /\ pc[r] \in {"check", "commit"}

(* Every step keeps it.                                                       *)
LEMMA HoldersStep ==
    ASSUME TypeOK, AccountInv, HoldersRun, [Next]_vars PROVE HoldersRun'
<1> USE DEF HoldersRun, TypeOK
<1>1. ASSUME NEW r \in Requests, NEW o, NEW a, NEW u, NEW p, NEW l, Begin(r, o, a, u, p, l)
      PROVE  HoldersRun'
  BY <1>1 DEF Begin, Goto, locks
<1>2. ASSUME NEW r \in Requests, End(r) PROVE HoldersRun'
  BY <1>2, ConstantsAssumption DEF End, Goto, Released, Freed
<1>3. ASSUME NEW r \in Requests, lock_bootstrap(r) PROVE HoldersRun'
  BY <1>3 DEF lock_bootstrap, Goto, MayLock, AccountInv
<1>4. ASSUME NEW r \in Requests, read_admin(r) PROVE HoldersRun'
  BY <1>4 DEF read_admin, Goto, locks
<1>5. ASSUME NEW r \in Requests, insert_user(r) PROVE HoldersRun'
  BY <1>5 DEF insert_user, Goto, locks
<1>6. ASSUME NEW r \in Requests, lock_mutation(r) PROVE HoldersRun'
  BY <1>6 DEF lock_mutation, Goto, MayLock, AccountInv
<1>7. ASSUME NEW r \in Requests, select_user_for_update(r) PROVE HoldersRun'
  BY <1>7 DEF select_user_for_update, Goto
<1>8. ASSUME NEW r \in Requests, check_last_admin(r) PROVE HoldersRun'
  BY <1>8 DEF check_last_admin, Goto, locks
<1>9. ASSUME NEW u \in Subjects, get_or_create_user_for_subject(u) PROVE HoldersRun'
  BY <1>9 DEF get_or_create_user_for_subject, locks
<1>10. CASE UNCHANGED vars
  BY <1>10 DEF vars, locks
<1> QED
  BY <1>1, <1>2, <1>3, <1>4, <1>5, <1>6, <1>7, <1>8, <1>9, <1>10
  DEF Next, Statement, signup, touch_user, update_user_admin, commit_signup, commit_update,
      rollback

(* A function on a finite set that is not empty goes round somewhere: of the  *)
(* sets that it maps into themselves a smallest one is its own image.         *)
LEMMA CircleExists ==
    ASSUME NEW C, IsFiniteSet(C), C # {}, NEW f \in [C -> C]
    PROVE  \E D \in SUBSET C : D # {} /\ {f[x] : x \in D} = D
<1> DEFINE Image(D) == {f[x] : x \in D}
           MapsIn(D) == D # {} /\ Image(D) \subseteq D
           Sizes == {n \in Nat : \E D \in SUBSET C : MapsIn(D) /\ Cardinality(D) = n}
<1>1. \A D \in SUBSET C : IsFiniteSet(D) /\ Cardinality(D) \in Nat
  BY FS_Subset, FS_CardinalityType
<1>2. PICK n \in Sizes : \A m \in Sizes : n <= m
  <2>1. MapsIn(C) OBVIOUS
  <2>2. Cardinality(C) \in Sizes BY <1>1, <2>1
  <2> HIDE DEF Sizes
  <2>3. Sizes \subseteq Nat BY DEF Sizes
  <2> QED BY <2>2, <2>3, LeastPosition
<1>3. PICK D \in SUBSET C : MapsIn(D) /\ Cardinality(D) = n
  OBVIOUS
<1>4. Image(D) \in SUBSET D /\ MapsIn(Image(D))
  BY <1>3
<1>5. n <= Cardinality(Image(D))
  BY <1>1, <1>2, <1>4
<1>6. Image(D) = D
  <2> HIDE DEF Image
  <2> QED BY <1>1, <1>3, <1>4, <1>5, FS_Subset
<1> QED BY <1>3, <1>6

(* Where nobody goes on, a transaction at its commit waits for another one at *)
(* its commit, and so they wait in a circle.                                  *)
LEMMA SomebodyGoesOn ==
    ASSUME TypeOK, AccountInv, HoldersRun, NEW r \in Requests, pc[r] # "idle"
    PROVE  \E q \in Requests : GoesOn(q)
<1> SUFFICES ASSUME \A q \in Requests : ~GoesOn(q) PROVE FALSE
  OBVIOUS
<1> DEFINE C == {q \in Requests : pc[q] = "commit"}
           f == [q \in C |-> row[actor[q]]]
<1>1. \A q \in Requests :
         /\ pc[q] \in {"idle", "lock_bootstrap", "lock_mutation", "lock_row", "commit"}
         /\ pc[q] = "lock_bootstrap" => bootstrap # NoOne
         /\ pc[q] = "lock_mutation" => mutation # NoOne
         /\ pc[q] = "lock_row" => row[target[q]] # NoOne
         /\ pc[q] = "commit" => \E h \in Requests : WaitsForRow(q, h)
  BY DEF GoesOn, MayLock, TypeOK
<1>2. ASSUME NEW q \in Requests, pc[q] = "lock_row" PROVE C # {}
  <2>1. target[q] \in Users /\ row[target[q]] \in Requests BY <1>1, <1>2 DEF TypeOK
  <2>2. pc[row[target[q]]] \in {"check", "commit"} BY <2>1 DEF HoldersRun
  <2> QED BY <1>1, <2>1, <2>2
<1>3. C # {}
  <2>1. CASE pc[r] = "lock_bootstrap"
    <3>1. bootstrap \in Requests BY <1>1, <2>1 DEF TypeOK
    <3> QED BY <1>1, <3>1 DEF HoldersRun
  <2>2. CASE pc[r] = "lock_mutation"
    <3>1. mutation \in Requests BY <1>1, <2>2 DEF TypeOK
    <3>2. pc[mutation] \in {"lock_row", "check", "commit"} BY <3>1 DEF HoldersRun
    <3> QED BY <1>1, <1>2, <3>1, <3>2
  <2> QED BY <1>1, <1>2, <2>1, <2>2
<1>4. ASSUME NEW q \in C PROVE WaitsForRow(q, f[q]) /\ f[q] \in C
  <2>1. PICK h \in Requests : WaitsForRow(q, h) BY <1>1
  <2>2. actor[q] \in Users /\ row[actor[q]] = h BY <2>1 DEF WaitsForRow, TypeOK
  <2>3. pc[h] \in {"check", "commit"} BY <2>2 DEF HoldersRun
  <2> QED BY <1>1, <2>1, <2>2, <2>3
<1>5. IsFiniteSet(C) /\ f \in [C -> C]
  <2>1. IsFiniteSet(C)
    <3>1. C \subseteq Requests OBVIOUS
    <3> QED BY <3>1, FS_Subset, ConstantsAssumption
  <2> QED BY <1>4, <2>1
<1> HIDE DEF C, f
<1>6. PICK D \in SUBSET C : D # {} /\ {f[x] : x \in D} = D
  BY <1>3, <1>5, CircleExists
<1>7. \A q \in D : \E h, w \in D : WaitsForRow(q, h) /\ WaitsForRow(w, q)
  BY <1>4, <1>6
<1>8. D \in SUBSET Requests
  BY DEF C
<1>9. PICK q \in D : Deadlocked(q)
  BY <1>6, <1>7, <1>8 DEF Deadlocked
<1> QED BY <1>8, <1>9 DEF GoesOn

(* However many requests there are and whatever locks they have, as long as   *)
(* there is one, one of them goes on or is rolled back: they cannot all wait. *)
THEOREM RequestsGoOn == Spec => []LocksInv
<1>1. Init => HoldersRun
  BY ConstantsAssumption DEF Init, HoldersRun
<1>2. TypeOK /\ AccountInv /\ HoldersRun /\ [Next]_vars => HoldersRun'
  BY HoldersStep
<1>3. TypeOK /\ AccountInv /\ HoldersRun => LocksInv
  BY SomebodyGoesOn DEF LocksInv, HoldersRun
<1> QED BY <1>1, <1>2, <1>3, TypeCorrect, AccountsCorrect, PTL DEF Spec

(* Types, grants and locks together, as the run checks them.                  *)
THEOREM AuthCorrect == ASSUME ~DevHeader PROVE Spec => []AuthInv
<1> QED BY TypeCorrect, AccountsCorrect, FirstAdminCorrect, RequestsGoOn, PTL DEF AuthInv

(* Only the first account is made an administrator by signing up, in every    *)
(* deployment in which the callers of the admin API are administrators.       *)
THEOREM FirstAdmin == ASSUME ~DevHeader PROVE Spec => FirstAdminOnly
<1>1. ASSUME TypeOK, AccountInv, FirstAdminInv, [Next]_vars,
             NEW u \in Users, status[u] = "absent", ActiveAdmin(u)'
      PROVE  ~HasAdmin
  <2>1. ~UNCHANGED <<role, status>>
    BY <1>1 DEF ActiveAdmin
  <2>2. ASSUME NEW q \in Requests, commit_signup(q) PROVE ~HasAdmin
    BY <1>1, <2>2 DEF commit_signup, ActiveAdmin, FirstAdminInv, TypeOK
  <2>3. ASSUME NEW q \in Requests, commit_update(q) PROVE FALSE
    BY <1>1, <2>3 DEF commit_update, ActiveAdmin, AccountInv, TypeOK
  <2>4. ASSUME NEW v \in Subjects, get_or_create_user_for_subject(v) PROVE FALSE
    BY <1>1, <2>4 DEF get_or_create_user_for_subject, ActiveAdmin, TypeOK, Users
  <2> QED BY <1>1, <2>1, <2>2, <2>3, <2>4, RowsChange
<1>2. TypeOK /\ AccountInv /\ FirstAdminInv /\ [Next]_vars
      => [\A u \in Users : status[u] = "absent" /\ ActiveAdmin(u)' => ~HasAdmin]_vars
  BY <1>1
<1> QED
  BY <1>2, TypeCorrect, AccountsCorrect, FirstAdminCorrect, PTL DEF Spec, FirstAdminOnly

-----------------------------------------------------------------------------
(* Credentials.                                                               *)

(* Every step is a step of AuthStore or leaves what AuthStore is about alone.  *)
LEMMA CredentialsStep == [CredentialsNext]_cvars => [Next]_vars
<1> SUFFICES ASSUME [CredentialsNext]_cvars PROVE [Next]_vars
  OBVIOUS
<1>1. ASSUME NEW r \in Requests, NEW u \in Users, touch_user(r, u) PROVE Next
  BY <1>1 DEF Next
<1>2. ASSUME NEW r \in Requests, NEW a \in Users, NEW u \in Users, NEW p \in Asked,
             change_user(r, a, u, p)
      PROVE Next
  BY <1>2 DEF Next, change_user
<1>3. ASSUME NEW r \in Requests, Proceed(r) \/ give_up(r) PROVE Next
  BY <1>3 DEF Next, Statement, Proceed, take_row, update_row, commit, give_up
<1>4. ASSUME NEW r \in Requests, NEW a \in Users, NEW u \in Users, reset_password_admin(r, a, u)
      PROVE Next
  BY <1>2, <1>4, ConstantsAssumption DEF reset_password_admin
<1>5. ASSUME NEW r \in Requests, NEW u \in Emails, signup(r, u) PROVE Next
  BY <1>5 DEF Next
<1>6. ASSUME NEW u \in Subjects, get_or_create_user_for_subject(u) PROVE Next
  BY <1>6 DEF Next
<1> QED
  BY <1>1, <1>2, <1>3, <1>4, <1>5, <1>6
  DEF CredentialsNext, cvars, login, create_api_token, Issues, update_profile, logout,
      revoke_credential, revoke_user_credentials, Gone, expires

(* So what is proved of accounts holds where credentials come and go.         *)
THEOREM CredentialsImplement == CredentialsSpec => Spec
<1>1. CredentialsInit => Init
  BY DEF CredentialsInit
<1> QED BY <1>1, CredentialsStep, PTL DEF CredentialsSpec, Spec

(* No user is deleted.                                                        *)
LEMMA UsersStay ==
    ASSUME TypeOK, AccountInv, [Next]_vars, NEW u \in Users, status[u] # "absent"
    PROVE  status'[u] # "absent"
<1>1. ASSUME NEW q \in Requests, commit_signup(q) PROVE status'[u] # "absent"
  BY <1>1 DEF commit_signup, TypeOK
<1>2. ASSUME NEW q \in Requests, commit_update(q) PROVE status'[u] # "absent"
  <2>1. NewStatus(q) # "absent" \/ target[q] # u
    BY DEF NewStatus, TypeOK, Patches
  <2> QED BY <1>2, <2>1 DEF commit_update, TypeOK
<1>3. ASSUME NEW v \in Subjects, get_or_create_user_for_subject(v) PROVE status'[u] # "absent"
  BY <1>3 DEF get_or_create_user_for_subject, TypeOK
<1> QED BY <1>1, <1>2, <1>3, RowsChange

(* The part of CredentialsInv about one request.                              *)
Guarded(r) ==
    /\ pc[r] \in {"check", "commit"} /\ op[r] # "signup" => row[target[r]] = r
    /\ issued[r] # {} => op[r] = "touch" /\ pc[r] \in {"lock_row", "commit"}
    /\ \A c \in issued[r] :
          /\ owner[c] = NoOne
          /\ \A q \in Requests \ {r} : c \notin issued[q] \cup revoked[q]
    /\ revoked[r] # {} => pc[r] = "commit" /\ patch[r].status = "disabled"
    /\ pc[r] = "commit" /\ patch[r].status = "disabled" => Held(target[r]) \subseteq revoked[r]

(* The part about credentials, and both.                                      *)
Owned == \A c \in Credentials : owner[c] # NoOne => status[owner[c]] # "absent"

LEMMA CredentialsInvIs ==
    CredentialsInv <=> CredentialTypes /\ Owned /\ \A r \in Requests : Guarded(r)
BY DEF CredentialsInv, Owned, Guarded

(* A step of q that does not touch credentials: the others have what they had. *)
LEMMA OthersGuarded ==
    ASSUME NEW r \in Requests, Guarded(r), Waits(r), UNCHANGED credential_vars,
           \A u \in Users : row[u] = r => row'[u] = r,
           pc[r] # "idle" => target[r] \in Users
    PROVE  Guarded(r)'
BY DEF Guarded, Waits, credential_vars, Held

(* A request begins, perhaps with a credential that nobody has or inserts.    *)
LEMMA BeginGuarded ==
    ASSUME TypeOK, CredentialsInv, NEW q \in Requests, NEW o, NEW a, NEW u, NEW p, NEW l,
           Begin(q, o, a, u, p, l), l \notin {"check", "commit"}, UNCHANGED <<owner, revoked>>,
           \/ UNCHANGED issued
           \/ \E c \in Credentials : /\ owner[c] = NoOne /\ ~InUse(c)
                                     /\ o = "touch" /\ l = "lock_row"
                                     /\ issued' = [issued EXCEPT ![q] = {c}]
    PROVE  \A r \in Requests : Guarded(r)'
<1>1. \A r \in Requests : Guarded(r)
  BY CredentialsInvIs
<1>2. /\ CredentialTypes
      /\ pc[q] = "idle" /\ pc' = [pc EXCEPT ![q] = l] /\ op' = [op EXCEPT ![q] = o]
      /\ \A r \in Requests : r # q => Waits(r)
      /\ UNCHANGED row /\ revoked[q] = {} /\ issued[q] = {}
  BY <1>1, CredentialsInvIs DEF Begin, Goto, locks, Waits, TypeOK, Guarded
<1>3. pc'[q] = l /\ op'[q] = o
  BY <1>2 DEF TypeOK
<1>4. CASE UNCHANGED issued
  <2>1. ASSUME NEW r \in Requests, r # q PROVE Guarded(r)'
    BY <1>1, <1>2, <1>4, <2>1, OthersGuarded DEF credential_vars, TypeOK
  <2>2. Guarded(q)'
    BY <1>2, <1>3, <1>4 DEF Guarded
  <2> QED BY <2>1, <2>2
<1>5. ASSUME NEW c \in Credentials, owner[c] = NoOne, ~InUse(c), o = "touch", l = "lock_row",
             issued' = [issued EXCEPT ![q] = {c}]
      PROVE  \A r \in Requests : Guarded(r)'
  <2>1. issued'[q] = {c} /\ \A r \in Requests : r # q => issued'[r] = issued[r]
    BY <1>2, <1>5 DEF CredentialTypes
  <2>2. ASSUME NEW r \in Requests, r # q PROVE Guarded(r)'
    <3>1. \A d \in issued[r] : d # c
      BY <1>5 DEF InUse
    <3>2. \A d \in issued[r], s \in Requests \ {r} : d \notin issued'[s]
      BY <1>1, <2>1, <3>1 DEF Guarded
    <3> QED BY <1>1, <1>2, <2>1, <2>2, <3>2 DEF Guarded, Waits, Held
  <2>3. Guarded(q)'
    BY <1>2, <1>3, <1>5, <2>1 DEF Guarded, InUse
  <2> QED BY <2>2, <2>3
<1> QED BY <1>4, <1>5

(* A statement that does nothing to credentials.                              *)
LEMMA StatementGuarded ==
    ASSUME TypeOK, AccountInv, CredentialsInv, NEW q \in Requests, UNCHANGED credential_vars,
           \/ lock_bootstrap(q) \/ read_admin(q) \/ insert_user(q) \/ lock_mutation(q)
           \/ take_row(q)
    PROVE  \A r \in Requests : Guarded(r)'
<1>1. \A r \in Requests : Guarded(r) /\ Safe(r)
  BY CredentialsInvIs, AccountInvSafe
<1>2. /\ \A r \in Requests : r # q => Waits(r)
      /\ Waits(q) \/ pc' = [pc EXCEPT ![q] = pc'[q]]
      /\ UNCHANGED <<op, target, patch>>
      /\ row' = row \/ (MayLock(row[target[q]]) /\ row' = [row EXCEPT ![target[q]] = q])
  BY DEF lock_bootstrap, read_admin, insert_user, lock_mutation, take_row,
         select_user_for_update, Goto, locks, Waits, TypeOK
<1>3. ASSUME NEW r \in Requests, r # q PROVE Guarded(r)'
  <2>1. \A u \in Users : row[u] = r => row'[u] = r
    BY <1>2, ConstantsAssumption DEF MayLock, TypeOK
  <2>2. pc[r] # "idle" => target[r] \in Users
    BY DEF TypeOK
  <2> QED BY <1>1, <1>2, <1>3, <2>1, <2>2, OthersGuarded
<1>4. Guarded(q)'
  <2>1. issued'[q] = issued[q] /\ revoked'[q] = revoked[q] /\ owner' = owner
    BY DEF credential_vars
  <2>2. \A c \in issued'[q] :
           owner'[c] = NoOne /\ \A s \in Requests \ {q} : c \notin issued'[s] \cup revoked'[s]
    BY <1>1 DEF Guarded, credential_vars
  <2>3. CASE lock_bootstrap(q) \/ read_admin(q) \/ insert_user(q)
    <3>1. op'[q] = "signup" /\ patch'[q] = Keep /\ issued[q] = {} /\ revoked[q] = {}
      BY <1>1, <1>2, <2>3 DEF lock_bootstrap, read_admin, insert_user, Safe, Guarded
    <3> QED BY <2>1, <3>1 DEF Guarded, Keep
  <2>4. CASE lock_mutation(q)
    <3>1. pc'[q] = "lock_row" /\ issued[q] = {} /\ revoked[q] = {}
      BY <1>1, <2>4 DEF lock_mutation, Goto, TypeOK, Guarded
    <3> QED BY <2>1, <3>1 DEF Guarded
  <2>5. CASE take_row(q)
    <3>1. /\ pc[q] = "lock_row" /\ row'[target'[q]] = q /\ revoked[q] = {}
          /\ pc'[q] = IF op[q] = "update" THEN "check" ELSE "commit"
      BY <1>1, <1>2, <2>5 DEF take_row, select_user_for_update, Goto, TypeOK, Guarded
    <3>2. pc'[q] = "commit" => patch'[q] = Keep
      BY <1>1, <1>2, <3>1 DEF Safe
    <3> QED BY <1>1, <1>2, <2>1, <2>2, <3>1, <3>2 DEF Guarded, Keep
  <2> QED BY <2>3, <2>4, <2>5
<1> QED BY <1>3, <1>4

(* What is revoked has an owner, so nobody is about to insert it.             *)
LEMMA RevokesGuarded ==
    ASSUME TypeOK, CredentialsInv, NEW q \in Requests, update_row(q)
    PROVE  \A r \in Requests : Guarded(r)'
<1>1. CredentialTypes /\ \A r \in Requests : Guarded(r)
  BY CredentialsInvIs
<1>2. /\ \A r \in Requests : r # q => Waits(r) /\ revoked'[r] = revoked[r]
      /\ pc[q] = "check" /\ pc'[q] = "commit" /\ UNCHANGED <<op, target, patch, row>>
      /\ UNCHANGED <<owner, issued>> /\ target[q] \in Users /\ issued[q] = {}
      /\ revoked'[q] = Revokes(q)
  BY <1>1 DEF update_row, check_last_admin, Goto, locks, Waits, TypeOK, CredentialTypes, Guarded
<1>3. \A c \in Revokes(q) : owner[c] # NoOne
  BY <1>2, ConstantsAssumption DEF Revokes, Held
<1>4. ASSUME NEW r \in Requests, r # q PROVE Guarded(r)'
  <2>1. \A c \in issued[r], s \in Requests \ {r} : c \notin issued[s] \cup revoked'[s]
    BY <1>1, <1>2, <1>3 DEF Guarded
  <2> QED BY <1>1, <1>2, <1>4, <2>1 DEF Guarded, Waits, Held
<1>5. Guarded(q)'
  BY <1>1, <1>2 DEF Guarded, Revokes, Held
<1> QED BY <1>4, <1>5

(* The end of q: what it inserts belongs to a user whose row it has, which no *)
(* other request can have that has revoked the credentials of that user.      *)
LEMMA EndGuarded ==
    ASSUME TypeOK, AccountInv, CredentialsInv, NEW q \in Requests, End(q), Closed(q),
           \/ UNCHANGED owner
           \/ pc[q] = "commit" /\ owner' = [c \in Credentials |-> OwnerAfter(q, c)]
    PROVE  \A r \in Requests : Guarded(r)'
<1>1. CredentialTypes /\ \A r \in Requests : Guarded(r) /\ Safe(r)
  BY CredentialsInvIs, AccountInvSafe
<1>2. /\ issued'[q] = {} /\ revoked'[q] = {} /\ pc'[q] = "idle"
      /\ \A r \in Requests : r # q => issued'[r] = issued[r] /\ revoked'[r] = revoked[r]
  BY <1>1 DEF Closed, CredentialTypes, End, Goto, TypeOK
<1>3. Guarded(q)'
  BY <1>2 DEF Guarded
<1>4. ASSUME NEW r \in Requests, r # q PROVE Guarded(r)'
  <2>1. Waits(r)
    BY <1>4, EndKeepsLocks
  <2>2. row[target[r]] = r /\ pc[r] # "idle" => row'[target'[r]] = r
    BY <1>4, <2>1 DEF End, Released, Freed, Waits, TypeOK
  <2>3. ASSUME NEW c \in issued[r]
        PROVE  /\ owner'[c] = NoOne
               /\ \A s \in Requests \ {r} : c \notin issued'[s] \cup revoked'[s]
    <3>1. /\ owner[c] = NoOne /\ c \notin issued[q] /\ c \in Credentials
          /\ \A s \in Requests \ {r} : c \notin issued[s] \cup revoked[s]
      BY <1>1, <1>4 DEF Guarded, CredentialTypes
    <3> QED BY <1>2, <3>1 DEF OwnerAfter
  <2>4. ASSUME pc[r] = "commit", patch[r].status = "disabled"
        PROVE  Held(target[r])' \subseteq revoked[r]
    <3>1. op[r] # "signup" /\ target[r] \in Users /\ Held(target[r]) \subseteq revoked[r]
      BY <1>1, <2>4 DEF Safe, Guarded, Keep, TypeOK
    <3>2. ASSUME NEW c \in Credentials, owner'[c] = target[r], owner[c] # target[r] PROVE FALSE
      <4>1. pc[q] = "commit" /\ c \in issued[q] /\ target[q] = target[r]
        BY <3>1, <3>2, ConstantsAssumption DEF OwnerAfter
      <4>2. row[target[q]] = q /\ row[target[r]] = r
        BY <1>1, <2>4, <3>1, <4>1 DEF Guarded
      <4> QED BY <1>4, <4>1, <4>2
    <3>3. target'[r] = target[r]
      BY <2>1 DEF Waits
    <3> QED BY <3>1, <3>2, <3>3 DEF Held
  <2>5. /\ pc'[r] = pc[r] /\ op'[r] = op[r] /\ patch'[r] = patch[r]
        /\ issued'[r] = issued[r] /\ revoked'[r] = revoked[r] /\ target'[r] = target[r]
    BY <1>2, <1>4, <2>1 DEF Waits
  <2>6. pc[r] = "commit" /\ patch[r].status = "disabled" => Held(target[r])' \subseteq revoked'[r]
    BY <2>4, <2>5
  <2> QED BY <1>1, <2>2, <2>3, <2>5, <2>6 DEF Guarded
<1> QED BY <1>3, <1>4

(* Credentials go, and no transaction has them.                               *)
LEMMA GoneGuarded ==
    ASSUME CredentialsInv, UNCHANGED <<vars, issued, revoked>>,
           \A c \in Credentials : owner'[c] = owner[c] \/ owner'[c] = NoOne,
           TypeOK
    PROVE  \A r \in Requests : Guarded(r)'
<1> SUFFICES ASSUME NEW r \in Requests PROVE Guarded(r)'
  OBVIOUS
<1>1. Guarded(r) /\ CredentialTypes
  BY CredentialsInvIs
<1>2. \A c \in issued[r] : owner'[c] = NoOne
  BY <1>1 DEF Guarded, CredentialTypes
<1>3. pc[r] = "commit" => Held(target[r])' \subseteq Held(target[r])
  <2>1. pc[r] = "commit" => target[r] \in Users /\ target'[r] = target[r]
    BY DEF TypeOK, vars
  <2> QED BY <2>1, ConstantsAssumption DEF Held
<1> QED BY <1>1, <1>2, <1>3 DEF Guarded, vars, locks

(* Whoever owns a credential has a row in users.                              *)
LEMMA OwnedStep ==
    ASSUME TypeOK, AccountInv, CredentialsInv, [CredentialsNext]_cvars,
           \A c \in Credentials : \/ owner'[c] = owner[c] \/ owner'[c] = NoOne
                                  \/ owner'[c] \in Users /\ status[owner'[c]] # "absent"
    PROVE  Owned'
<1> SUFFICES ASSUME NEW c \in Credentials, owner'[c] # NoOne PROVE status'[owner'[c]] # "absent"
  BY DEF Owned
<1>1. owner'[c] \in Users /\ status[owner'[c]] # "absent"
  BY CredentialsInvIs DEF Owned, CredentialTypes
<1> QED BY <1>1, UsersStay, CredentialsStep

(* Every step keeps CredentialsInv.                                           *)
LEMMA CredentialsKept ==
    ASSUME TypeOK, AccountInv, CredentialsInv, [CredentialsNext]_cvars
    PROVE  CredentialsInv'
<1>1. CredentialTypes /\ Owned /\ \A r \in Requests : Guarded(r) /\ Safe(r)
  BY CredentialsInvIs, AccountInvSafe
<1> DEFINE Fine == /\ CredentialTypes' /\ \A r \in Requests : Guarded(r)'
                   /\ \A c \in Credentials :
                         \/ owner'[c] = owner[c] \/ owner'[c] = NoOne
                         \/ owner'[c] \in Users /\ status[owner'[c]] # "absent"
<1>2. ASSUME NEW q \in Requests, NEW o, NEW a, NEW u, NEW p, NEW l,
             Begin(q, o, a, u, p, l), l \notin {"check", "commit"}, UNCHANGED credential_vars
      PROVE  Fine
  BY <1>1, <1>2, BeginGuarded DEF credential_vars, CredentialTypes
<1>3. ASSUME NEW q \in Requests, NEW u \in Users, NEW c \in Credentials, Issues(q, u, c)
      PROVE  Fine
  <2>1. \A r \in Requests : Guarded(r)'
    <3>1. /\ Begin(q, "touch", u, u, Keep, "lock_row") /\ UNCHANGED <<owner, revoked>>
          /\ owner[c] = NoOne /\ ~InUse(c) /\ issued' = [issued EXCEPT ![q] = {c}]
      BY <1>3 DEF Issues, touch_user
    <3>2. "lock_row" \notin {"check", "commit"}
      OBVIOUS
    <3>3. \E d \in Credentials : /\ owner[d] = NoOne /\ ~InUse(d)
                                 /\ "touch" = "touch" /\ "lock_row" = "lock_row"
                                 /\ issued' = [issued EXCEPT ![q] = {d}]
      BY <3>1
    <3> QED BY <3>1, <3>2, <3>3, BeginGuarded
  <2> QED BY <1>1, <1>3, <2>1 DEF Issues, CredentialTypes
<1>4. ASSUME NEW q \in Requests, NEW a \in Users, NEW u \in Users, NEW p \in Asked,
             change_user(q, a, u, p)
      PROVE  Fine
  BY <1>2, <1>4 DEF change_user, update_user_admin
<1>5. ASSUME NEW q \in Requests, Proceed(q) PROVE Fine
  <2>1. CASE UNCHANGED credential_vars /\ (\/ lock_bootstrap(q) \/ read_admin(q)
                                          \/ insert_user(q) \/ lock_mutation(q) \/ take_row(q))
    BY <1>1, <2>1, StatementGuarded DEF credential_vars, CredentialTypes
  <2>2. CASE update_row(q)
    <3>1. Revokes(q) \in SUBSET Credentials
      BY DEF Revokes, Held
    <3> QED BY <1>1, <2>2, <3>1, RevokesGuarded DEF update_row, CredentialTypes
  <2>3. CASE commit(q)
    <3>1. /\ pc[q] = "commit" /\ End(q) /\ Closed(q) /\ target[q] \in Users
          /\ owner' = [c \in Credentials |-> OwnerAfter(q, c)]
      BY <2>3 DEF commit, commit_signup, commit_update, TypeOK
    <3>2. ASSUME NEW c \in Credentials
          PROVE  /\ owner'[c] \in Users \cup {NoOne}
                 /\ \/ owner'[c] = owner[c] \/ owner'[c] = NoOne
                    \/ owner'[c] \in Users /\ status[owner'[c]] # "absent"
      <4>1. c \in issued[q] => status[target[q]] # "absent"
        BY <1>1, <3>1 DEF Guarded, Safe
      <4> QED BY <1>1, <3>1, <4>1 DEF OwnerAfter, CredentialTypes
    <3>3. CredentialTypes'
      BY <1>1, <3>1, <3>2 DEF CredentialTypes, Closed
    <3> QED BY <3>1, <3>2, <3>3, EndGuarded
  <2> QED BY <1>5, <2>1, <2>2, <2>3 DEF Proceed, take_row
<1>6. ASSUME NEW q \in Requests, give_up(q) PROVE Fine
  BY <1>1, <1>6, EndGuarded DEF give_up, rollback, Closed, CredentialTypes
<1>7. ASSUME NEW C \in SUBSET Credentials, Gone(C) PROVE Fine
  <2>1. \A c \in Credentials : owner'[c] = owner[c] \/ owner'[c] = NoOne
    BY <1>7 DEF Gone
  <2>2. owner' \in [Credentials -> Users \cup {NoOne}]
    BY <1>1, <1>7 DEF Gone, CredentialTypes
  <2> QED BY <1>1, <1>7, <2>1, <2>2, GoneGuarded DEF Gone, CredentialTypes
<1>8. ASSUME NEW c \in Credentials, expires(c) PROVE Fine
  BY <1>1, <1>8, GoneGuarded DEF expires, CredentialTypes
<1>9. ASSUME NEW u \in Subjects, get_or_create_user_for_subject(u), UNCHANGED credential_vars
      PROVE  Fine
  <2>1. ASSUME NEW r \in Requests PROVE Guarded(r)'
    <3>1. Waits(r) /\ UNCHANGED row /\ (pc[r] # "idle" => target[r] \in Users)
      BY <1>9 DEF get_or_create_user_for_subject, Waits, locks, TypeOK
    <3> QED BY <1>1, <1>9, <3>1, OthersGuarded
  <2> QED BY <1>1, <1>9, <2>1 DEF credential_vars, CredentialTypes
<1>10. ASSUME UNCHANGED cvars PROVE Fine
  <2>1. ASSUME NEW r \in Requests PROVE Guarded(r)'
    BY <1>1, <1>10 DEF cvars, credential_vars, vars, locks, Guarded, Held
  <2>2. owner' = owner /\ issued' = issued /\ revoked' = revoked
    BY <1>10 DEF cvars, credential_vars
  <2> QED BY <1>1, <2>1, <2>2 DEF CredentialTypes
<1>11. Fine
  <2>1. ASSUME NEW q \in Requests, NEW u \in Emails, signup(q, u), UNCHANGED credential_vars
        PROVE  Fine
    BY <1>2, <2>1 DEF signup
  <2>2. ASSUME NEW q \in Requests, NEW u \in Users, NEW c \in Credentials,
               login(q, u, c) \/ create_api_token(q, u, c)
        PROVE  Fine
    BY <1>3, <2>2 DEF login, create_api_token
  <2>3. ASSUME NEW q \in Requests, NEW u \in Users, update_profile(q, u) PROVE Fine
    BY <1>2, <2>3 DEF update_profile, touch_user
  <2>4. ASSUME NEW q \in Requests, NEW a \in Users, NEW u \in Users, reset_password_admin(q, a, u)
        PROVE  Fine
    BY <1>4, <2>4, ConstantsAssumption DEF reset_password_admin
  <2>5. ASSUME NEW u \in Users, NEW c \in Credentials, logout(u, c) \/ revoke_credential(u, c)
        PROVE  Fine
    BY <1>7, <2>5 DEF logout, revoke_credential
  <2>6. ASSUME NEW a \in Users, NEW u \in Users, NEW C \in SUBSET Credentials,
               revoke_user_credentials(a, u, C)
        PROVE  Fine
    BY <1>7, <2>6 DEF revoke_user_credentials
  <2> HIDE DEF Fine
  <2> QED
    BY <1>4, <1>5, <1>6, <1>8, <1>9, <1>10, <2>1, <2>2, <2>3, <2>4, <2>5, <2>6
    DEF CredentialsNext
<1> QED BY <1>11, OwnedStep DEF CredentialsInv, Owned, Guarded

(* However requests overlap, a credential is inserted for a user whose row    *)
(* the transaction has, and an administrator who disables the user has it     *)
(* from the statement that revokes all credentials to the commit.             *)
THEOREM CredentialsCorrect == CredentialsSpec => []CredentialsInv
<1>1. CredentialsInit => CredentialsInv
  BY DEF CredentialsInit, CredentialsInv, CredentialTypes, Init
<1>2. TypeOK /\ AccountInv /\ CredentialsInv /\ [CredentialsNext]_cvars => CredentialsInv'
  BY CredentialsKept
<1> QED
  BY <1>1, <1>2, TypeCorrect, AccountsCorrect, CredentialsImplement, PTL DEF CredentialsSpec

(* All that transactions rely on, about accounts and about credentials, where *)
(* the callers of the admin API are administrators.                           *)
THEOREM AccessCorrect == ASSUME ~DevHeader PROVE CredentialsSpec => []AccessInv
<1> QED BY AuthCorrect, CredentialsImplement, CredentialsCorrect, PTL DEF AccessInv

(* Roles and statuses change at commits, and where a subject is first seen.   *)
LEMMA OnlyCommits ==
    ASSUME [CredentialsNext]_cvars
    PROVE  \/ UNCHANGED <<role, status>>
           \/ \E q \in Requests : commit(q)
           \/ \E u \in Subjects : get_or_create_user_for_subject(u)
BY DEF CredentialsNext, cvars, vars, signup, touch_user, change_user, update_user_admin,
       reset_password_admin, Begin, login, create_api_token, Issues, update_profile, Proceed,
       lock_bootstrap, read_admin, insert_user, lock_mutation, take_row, select_user_for_update,
       update_row, check_last_admin, give_up, rollback, logout, revoke_credential,
       revoke_user_credentials, Gone, expires

(* A user who is disabled has no credential left at that moment.              *)
THEOREM DisabledLoseAll == CredentialsSpec => DisableRevokes
<1>1. ASSUME TypeOK, AccountInv, CredentialsInv, [CredentialsNext]_cvars,
             NEW u \in Users, status[u] # "disabled", status'[u] = "disabled"
      PROVE  Held(u)' = {}
  <2>1. PICK q \in Requests : commit(q) /\ commit_update(q)
    <3>1. ASSUME NEW q \in Requests, commit_signup(q) PROVE FALSE
      BY <1>1, <3>1 DEF commit_signup, TypeOK
    <3>2. ASSUME NEW v \in Subjects, get_or_create_user_for_subject(v) PROVE FALSE
      BY <1>1, <3>2 DEF get_or_create_user_for_subject, TypeOK
    <3>3. \E q \in Requests : commit(q)
      BY <1>1, <3>2, OnlyCommits
    <3> QED BY <3>1, <3>3 DEF commit
  <2>2. target[q] = u /\ patch[q].status = "disabled" /\ pc[q] = "commit"
    BY <1>1, <2>1 DEF commit_update, NewStatus, TypeOK
  <2>3. Held(u) \subseteq revoked[q] /\ issued[q] = {}
    BY <1>1, <2>2 DEF CredentialsInv, AccountInv, Keep
  <2>4. owner' = [c \in Credentials |-> OwnerAfter(q, c)]
    BY <2>1 DEF commit
  <2>5. ASSUME NEW c \in Credentials, owner'[c] = u PROVE FALSE
    BY <1>1, <2>3, <2>4, <2>5, ConstantsAssumption DEF OwnerAfter, Held
  <2> QED BY <2>5 DEF Held
<1>2. TypeOK /\ AccountInv /\ CredentialsInv /\ [CredentialsNext]_cvars
      => [\A u \in Users : status[u] # "disabled" /\ status'[u] = "disabled"
                           => Held(u)' = {}]_cvars
  BY <1>1
<1> QED
  BY <1>2, TypeCorrect, AccountsCorrect, CredentialsImplement, CredentialsCorrect, PTL
  DEF CredentialsSpec, DisableRevokes

-----------------------------------------------------------------------------
(***************************************************************************)
(* ChatSession.                                                            *)
(***************************************************************************)
(* The least element of a set, as Citations takes it.                         *)
LEMMA LeastIs ==
  ASSUME NEW S, S \subseteq Nat, S # {}
  PROVE  Least(S) \in S /\ \A j \in S : Least(S) <= j
BY LeastPosition DEF Least

(* What is so of 0 and of the number after each is so of all.                 *)
LEMMA ByCounting ==
  ASSUME NEW S, 0 \in S, \A n \in Nat : n \in S => n + 1 \in S
  PROVE  Nat \subseteq S
<1> SUFFICES ASSUME Nat \ S # {} PROVE FALSE OBVIOUS
<1>1. PICK m \in Nat \ S : \A k \in Nat \ S : m <= k
  BY LeastPosition
<1>2. m - 1 \in Nat /\ m - 1 \in S
  BY <1>1
<1> QED BY <1>1, <1>2

(* A registry: the aliases are those of the evidence there is, and an alias   *)
(* stands for evidence that is its primary evidence or similar to it.         *)
Registered(reg) ==
  /\ reg.manifest \in Seq(Evidence)
  /\ reg.alias \in [Evidence -> {0} \cup Aliases(reg)]
  /\ \A e \in Evidence : reg.alias[e] # 0 =>
       \/ e = reg.manifest[reg.alias[e]]
       \/ <<e, reg.manifest[reg.alias[e]]>> \in Similar

KeepsAliases(reg, new) ==
  \A a \in Aliases(reg) : a \in Aliases(new) /\ new.manifest[a] = reg.manifest[a]

LEMMA NewIsRegistered == Registered(NewRegistry)
BY DEF Registered, NewRegistry, Aliases

LEMMA RegisterOne ==
  ASSUME NEW reg, Registered(reg), NEW e \in Evidence
  PROVE  Registered(register_evidence(reg, e)) /\ KeepsAliases(reg, register_evidence(reg, e))
<1> DEFINE a == AliasFor(reg, e)
           m == reg.manifest
           new == register_evidence(reg, e)
           near == {x \in Aliases(reg) : <<e, m[x]>> \in Similar}
<1>1. m \in Seq(Evidence) /\ Len(m) \in Nat /\ Aliases(reg) = 1 .. Len(m)
  BY DEF Registered, Aliases
<1>2. near # {} => Least(near) \in near
  <2>1. near \subseteq Nat BY <1>1
  <2> HIDE DEF near
  <2> QED BY <2>1, LeastIs
<1>3. \/ a \in Aliases(reg) /\ (e = m[a] \/ <<e, m[a]>> \in Similar)
      \/ a = Len(m) + 1
  BY <1>1, <1>2 DEF AliasFor, Registered
<1>4. new = [manifest |-> IF a \in Aliases(reg) THEN m ELSE Append(m, e),
             alias |-> [reg.alias EXCEPT ![e] = a]]
  BY DEF register_evidence
<1> SUFFICES Registered(new) /\ KeepsAliases(reg, new) OBVIOUS
<1> HIDE DEF a, new, near
<1>5. CASE a \in Aliases(reg)
  <2>1. new.manifest = m /\ new.alias = [reg.alias EXCEPT ![e] = a]
    BY <1>4, <1>5
  <2>2. Aliases(new) = Aliases(reg) BY <2>1 DEF Aliases
  <2>3. a \in Nat \ {0} BY <1>1, <1>5
  <2>4. KeepsAliases(reg, new) BY <2>1, <2>2 DEF KeepsAliases
  <2>5. new.alias \in [Evidence -> {0} \cup Aliases(new)]
    BY <1>5, <2>1, <2>2 DEF Registered
  <2>6. ASSUME NEW x \in Evidence, new.alias[x] # 0
        PROVE  x = m[new.alias[x]] \/ <<x, m[new.alias[x]]>> \in Similar
    <3>1. CASE x = e
      <4>1. new.alias[x] = a BY <2>1, <3>1 DEF Registered
      <4>2. e = m[a] \/ <<e, m[a]>> \in Similar BY <1>1, <1>3, <1>5
      <4> QED BY <3>1, <4>1, <4>2
    <3>2. CASE x # e
      <4>1. new.alias[x] = reg.alias[x] BY <2>1, <3>2 DEF Registered
      <4> QED BY <2>6, <4>1 DEF Registered
    <3> QED BY <3>1, <3>2
  <2> QED BY <1>1, <2>1, <2>4, <2>5, <2>6 DEF Registered
<1>6. CASE a \notin Aliases(reg)
  <2>1. a = Len(m) + 1
    BY <1>3, <1>6
  <2>2. new.manifest = Append(m, e) /\ new.alias = [reg.alias EXCEPT ![e] = a]
    BY <1>4, <1>6
  <2>3. /\ Append(m, e) \in Seq(Evidence) /\ Len(Append(m, e)) = Len(m) + 1
        /\ Append(m, e)[Len(m) + 1] = e
        /\ \A x \in 1 .. Len(m) : Append(m, e)[x] = m[x]
    BY <1>1, AppendProperties
  <2>4. Aliases(new) = 1 .. Len(m) + 1
    BY <2>2, <2>3 DEF Aliases
  <2>5. KeepsAliases(reg, new) BY <1>1, <2>2, <2>3, <2>4 DEF KeepsAliases
  <2>6. new.alias \in [Evidence -> {0} \cup Aliases(new)]
    BY <1>1, <2>1, <2>2, <2>4 DEF Registered
  <2>7. ASSUME NEW x \in Evidence, new.alias[x] # 0
        PROVE  \/ x = new.manifest[new.alias[x]]
               \/ <<x, new.manifest[new.alias[x]]>> \in Similar
    <3>1. CASE x = e
      <4>1. new.alias[x] = a BY <2>2, <3>1 DEF Registered
      <4> QED BY <2>1, <2>2, <2>3, <3>1, <4>1
    <3>2. CASE x # e
      <4>1. new.alias[x] = reg.alias[x] BY <2>2, <3>2 DEF Registered
      <4>2. reg.alias[x] \in 1 .. Len(m) BY <1>1, <2>7, <4>1 DEF Registered
      <4>3. new.manifest[reg.alias[x]] = m[reg.alias[x]] BY <2>2, <2>3, <4>2
      <4> QED BY <2>7, <4>1, <4>3 DEF Registered
    <3> QED BY <3>1, <3>2
  <2> QED BY <2>2, <2>3, <2>5, <2>6, <2>7 DEF Registered
<1> QED BY <1>5, <1>6

(* What a call returns is registered item by item.                            *)
LEMMA RegisterAll ==
  ASSUME NEW reg, Registered(reg), NEW items \in Seq(Evidence)
  PROVE  /\ Registered(register_tool_evidence(reg, items))
         /\ KeepsAliases(reg, register_tool_evidence(reg, items))
<1> DEFINE N == Len(items)
           Item(f, n) == IF n = 0 THEN reg ELSE register_evidence(f[n - 1], items[n])
           Upto(f, k) == f = [n \in 0 .. k |-> Item(f, n)]
           P == {k \in Nat : k <= N => \E f : Upto(f, k)}
<1>1. N \in Nat /\ \A n \in 1 .. N : items[n] \in Evidence
  OBVIOUS
<1>2. 0 \in P
  <2> DEFINE f == [n \in 0 .. 0 |-> reg]
  <2>1. Upto(f, 0) OBVIOUS
  <2> QED BY <2>1
<1>3. ASSUME NEW k \in Nat, k \in P PROVE k + 1 \in P
  <2> SUFFICES ASSUME k + 1 <= N PROVE \E g : Upto(g, k + 1)
    OBVIOUS
  <2>1. PICK f : Upto(f, k)
    BY <1>1, <1>3
  <2> DEFINE g == [n \in 0 .. k + 1 |->
                      IF n <= k THEN f[n] ELSE register_evidence(f[k], items[k + 1])]
  <2>2. ASSUME NEW n \in 0 .. k + 1 PROVE g[n] = Item(g, n)
    BY <2>1
  <2>3. Upto(g, k + 1)
    BY <2>2
  <2> QED BY <2>3
<1>4. \E f : Upto(f, N)
  <2> HIDE DEF P
  <2>1. N \in P BY <1>1, <1>2, <1>3, ByCounting
  <2> QED BY <1>1, <2>1 DEF P
<1> DEFINE after == CHOOSE f : Upto(f, N)
<1>5. Upto(after, N)
  BY <1>4
<1>6. register_tool_evidence(reg, items) = after[N]
  BY Zenon DEF register_tool_evidence
<1> DEFINE Q == {k \in Nat : k <= N => Registered(after[k]) /\ KeepsAliases(reg, after[k])}
<1> HIDE DEF after
<1>7. 0 \in Q
  <2>1. after[0] = reg BY <1>1, <1>5
  <2> QED BY <2>1 DEF KeepsAliases
<1>8. ASSUME NEW k \in Nat, k \in Q PROVE k + 1 \in Q
  <2> SUFFICES ASSUME k + 1 <= N
               PROVE  Registered(after[k + 1]) /\ KeepsAliases(reg, after[k + 1])
    OBVIOUS
  <2>1. after[k + 1] = register_evidence(after[k], items[k + 1])
    BY <1>1, <1>5
  <2>2. Registered(after[k]) /\ KeepsAliases(reg, after[k])
    BY <1>1, <1>8
  <2>3. items[k + 1] \in Evidence BY <1>1
  <2>4. Registered(after[k + 1]) /\ KeepsAliases(after[k], after[k + 1])
    BY <2>1, <2>2, <2>3, RegisterOne
  <2> QED BY <2>2, <2>4 DEF KeepsAliases
<1>9. N \in Q
  <2> HIDE DEF Q
  <2> QED BY <1>1, <1>7, <1>8, ByCounting
<1> QED BY <1>6, <1>9

(* Compacting gives different aliases to different evidence, and only numbers *)
(* that are aliases of the registry.                                          *)
LEMMA RenamingIsOneToOne ==
  ASSUME NEW reg, Registered(reg), NEW answer, DOMAIN answer \subseteq Nat,
         NEW a \in Cited(answer) \cap Aliases(reg)
  PROVE  /\ NewAlias(reg, answer, a) \in Aliases(reg)
         /\ \A b \in Cited(answer) \cap Aliases(reg) :
              NewAlias(reg, answer, b) = NewAlias(reg, answer, a) => b = a
<1> DEFINE R == Cited(answer) \cap Aliases(reg)
           At(x) == {i \in DOMAIN answer : answer[i] = x}
           F(x) == FirstSeen(answer, x)
           Before(x) == {y \in R : F(y) <= F(x)}
<1>1. Aliases(reg) = 1 .. Len(reg.manifest) /\ Len(reg.manifest) \in Nat
  BY DEF Registered, Aliases
<1>2. /\ IsFiniteSet(Aliases(reg)) /\ Cardinality(Aliases(reg)) = Len(reg.manifest)
      /\ R \subseteq Aliases(reg)
  BY <1>1, FS_Interval
<1>3. ASSUME NEW S \in SUBSET R
      PROVE  IsFiniteSet(S) /\ Cardinality(S) \in 0 .. Len(reg.manifest)
  <2>1. S \subseteq Aliases(reg) BY <1>2, <1>3
  <2> HIDE DEF R
  <2> QED BY <1>1, <1>2, <2>1, FS_Subset, FS_CardinalityType
<1>4. ASSUME NEW x \in R PROVE F(x) \in Nat /\ answer[F(x)] = x
  <2>1. At(x) \subseteq Nat /\ At(x) # {} BY DEF Cited
  <2>2. Least(At(x)) \in At(x)
    <3> HIDE DEF At
    <3> QED BY <2>1, LeastIs
  <2> QED BY <2>1, <2>2 DEF FirstSeen
<1>5. \A x \in R : NewAlias(reg, answer, x) = Cardinality(Before(x))
  BY DEF NewAlias
<1>6. ASSUME NEW x \in R PROVE Cardinality(Before(x)) \in 1 .. Len(reg.manifest)
  <2>1. Before(x) \in SUBSET R /\ Before(x) # {} BY <1>4
  <2> HIDE DEF Before, R
  <2> QED BY <1>3, <2>1, FS_EmptySet
<1>7. ASSUME NEW x \in R, NEW y \in R, F(x) < F(y)
      PROVE  Cardinality(Before(x)) # Cardinality(Before(y))
  <2>1. /\ Before(x) \in SUBSET Before(y) /\ Before(y) \in SUBSET R
        /\ y \in Before(y) \ Before(x)
    BY <1>4, <1>7
  <2>2. IsFiniteSet(Before(y)) BY <1>3, <2>1
  <2> HIDE DEF Before, R, F
  <2> QED BY <2>1, <2>2, FS_Subset
<1>8. ASSUME NEW b \in R, Cardinality(Before(b)) = Cardinality(Before(a)) PROVE b = a
  <2>1. F(a) \in Nat /\ F(b) \in Nat /\ answer[F(a)] = a /\ answer[F(b)] = b
    BY <1>4
  <2>2. ~ (F(a) < F(b)) /\ ~ (F(b) < F(a))
    <3>1. a \in R OBVIOUS
    <3> HIDE DEF F, Before, R
    <3> QED BY <1>7, <1>8, <3>1
  <2> HIDE DEF F
  <2> QED BY <2>1, <2>2
<1> HIDE DEF Before
<1> QED BY <1>1, <1>5, <1>6, <1>8

(* What the audit of a final answer tells of an alias is what the alias meant  *)
(* while the model wrote; nothing that is not missing is told to be nothing.  *)
FinalIsTrue(reg, hist, answer, f) ==
  /\ DOMAIN f.answer = DOMAIN answer
  /\ f.answer = [i \in DOMAIN answer |-> f.answer[i]]
  /\ \A i \in DOMAIN answer : Told(f, f.answer[i]) = Meaning(reg, hist, answer[i])
  /\ DOMAIN f.rows \subseteq Nat /\ f.rows = [a \in DOMAIN f.rows |-> f.rows[a]]
  /\ f.missing = {} => \A a \in Cited(f.answer) : Told(f, a) # Nothing

LEMMA FinalAnswer ==
  ASSUME NEW reg, Registered(reg), NEW hist, NEW answer, DOMAIN answer \subseteq Nat,
         NEW f, f = finalize_answer(reg, hist, answer)
  PROVE  FinalIsTrue(reg, hist, answer, f)
<1> DEFINE N == Renaming(reg, hist, answer)
           final == Rewritten(answer, N)
           current == {a \in Cited(final) : Origin(N, a) \in Aliases(reg)}
           reused == {a \in Cited(final) \ current : Citing(hist, a) # {}}
           R == Renamed(reg, hist, answer)
<1>1. f = [answer |-> final,
           rows |-> [a \in current |-> reg.manifest[Origin(N, a)]],
           reused |-> [a \in reused |-> FindHistorical(hist, a)],
           missing |-> (Cited(final) \ current) \ reused]
  BY Zenon DEF finalize_answer
<1>2. /\ f.answer = final /\ DOMAIN f.rows = current /\ DOMAIN f.reused = reused
      /\ f.missing = (Cited(final) \ current) \ reused
      /\ \A a \in current : f.rows[a] = reg.manifest[Origin(N, a)]
      /\ \A a \in reused : f.reused[a] = FindHistorical(hist, a)
      /\ f.rows = [a \in current |-> f.rows[a]]
  <2> HIDE DEF final, current, reused, N
  <2> QED BY <1>1
<1>3. /\ DOMAIN N = R
      /\ \A a \in R : N[a] = NewAlias(reg, answer, a)
  BY DEF Renaming
<1>4. /\ DOMAIN final = DOMAIN answer /\ final = [i \in DOMAIN answer |-> final[i]]
      /\ \A i \in DOMAIN answer :
           final[i] = IF answer[i] \in R THEN N[answer[i]] ELSE answer[i]
  <2> HIDE DEF N, R
  <2> QED BY <1>3 DEF Rewritten
<1>5. Aliases(reg) = 1 .. Len(reg.manifest) /\ Len(reg.manifest) \in Nat
  BY DEF Registered, Aliases
<1>6. R \subseteq Cited(answer) \cap Aliases(reg)
  BY DEF Renamed
<1>7. ASSUME NEW a \in R PROVE N[a] \in Aliases(reg) /\ Origin(N, N[a]) = a
  <2>1. N[a] \in Aliases(reg) /\ \A b \in R : N[b] = N[a] => b = a
    <3> HIDE DEF N, R
    <3> QED BY <1>3, <1>6, RenamingIsOneToOne
  <2> HIDE DEF N, R
  <2> QED BY <1>3, <2>1 DEF Origin
<1>8. ASSUME NEW a, a \notin Aliases(reg) PROVE Origin(N, a) = a
  <2> HIDE DEF N, R
  <2> QED BY <1>3, <1>7, <1>8 DEF Origin
<1>9. ASSUME NEW i \in DOMAIN answer
      PROVE  Told(f, final[i]) = Meaning(reg, hist, answer[i])
  <2>1. final[i] \in Cited(final) BY <1>4 DEF Cited
  <2>2. CASE answer[i] \in R
    <3>1. /\ final[i] = N[answer[i]] /\ Origin(N, final[i]) = answer[i]
          /\ answer[i] \in Aliases(reg)
      BY <1>4, <1>6, <1>7, <2>2
    <3> HIDE DEF N, R, final
    <3> QED BY <1>2, <2>1, <3>1 DEF Told, Meaning
  <2>3. CASE answer[i] \notin R /\ answer[i] \in Aliases(reg)
    <3>1. final[i] = answer[i] BY <1>4, <2>3
    <3>2. R = {} BY <2>3 DEF Renamed, Cited
    <3>3. Origin(N, answer[i]) = answer[i]
      <4> HIDE DEF N, R
      <4> QED BY <1>3, <3>2 DEF Origin
    <3> HIDE DEF N, R, final
    <3> QED BY <1>2, <2>1, <2>3, <3>1, <3>3 DEF Told, Meaning
  <2>4. CASE answer[i] \notin R /\ answer[i] \notin Aliases(reg)
    <3>1. final[i] = answer[i] BY <1>4, <2>4
    <3>2. Origin(N, answer[i]) = answer[i] BY <1>8, <2>4
    <3>3. final[i] \notin current BY <2>4, <3>1, <3>2
    <3>4. final[i] \in reused <=> Citing(hist, answer[i]) # {} BY <2>1, <3>1, <3>3
    <3> HIDE DEF N, R, final, current, reused
    <3> QED BY <1>2, <2>4, <3>1, <3>3, <3>4 DEF Told, Meaning
  <2> QED BY <2>2, <2>3, <2>4
<1>10. current \subseteq Nat
  <2> SUFFICES ASSUME NEW a \in current PROVE a \in Nat OBVIOUS
  <2>1. CASE \E o \in R : N[o] = a
    BY <1>5, <1>7, <2>1
  <2>2. CASE ~ \E o \in R : N[o] = a
    <3>1. Origin(N, a) = a
      <4> HIDE DEF N, R
      <4> QED BY <1>3, <2>2 DEF Origin
    <3> QED BY <1>5, <3>1
  <2> QED BY <2>1, <2>2
<1>11. ASSUME f.missing = {}, NEW a \in Cited(final) PROVE Told(f, a) # Nothing
  <2>1. a \in current \/ a \in reused
    <3> HIDE DEF current, reused, final
    <3> QED BY <1>2, <1>11
  <2> HIDE DEF current, reused, final, N
  <2> QED BY <1>2, <2>1 DEF Told, Nothing
<1> HIDE DEF N, final, current, reused, R
<1> QED BY <1>2, <1>4, <1>9, <1>10, <1>11 DEF FinalIsTrue

(* Texts cite their aliases in order, and the audit works on one piece.       *)
LEMMA TextsAre ==
  ASSUME LoopAssumption, NEW s \in Streams, NEW m \in Texts(s)
  PROVE  DOMAIN m \subseteq Nat
<1>1. PICK n \in 0 .. MaxMarks[s] :
        m \in [1..n -> Known(loop[s]) \cup {Len(loop[s].registry.manifest) + 1}]
  BY DEF Texts
<1>2. MaxMarks[s] \in Nat BY DEF LoopAssumption
<1> QED BY <1>1, <1>2

LEMMA OnePiece ==
  ASSUME NEW kind, NEW marks, DOMAIN marks \subseteq Nat
  PROVE  /\ IsDraft(<<Piece(kind, marks)>>)
         /\ MarksOf(<<Piece(kind, marks)>>) = marks
         /\ Cleaned(<<Piece(kind, marks)>>) = <<Piece("answer", marks)>>
<1> DEFINE d == <<Piece(kind, marks)>>
<1>1. DOMAIN d = {1} /\ d[1] = [kind |-> kind, marks |-> marks] /\ d # << >>
  BY DEF Piece
<1>2. MarksOf(d) = marks BY <1>1 DEF MarksOf
<1>3. IsDraft(d) BY <1>1 DEF IsDraft
<1>4. Cleaned(d) = <<Piece("answer", marks)>> BY <1>1 DEF Cleaned
<1> QED BY <1>2, <1>3, <1>4

LEMMA FinalPiece ==
  ASSUME NEW kind, NEW marks, NEW f
  PROVE  Final(<<Piece(kind, marks)>>, f) = <<Piece(kind, f.answer)>>
BY DEF Final, Piece

LEMMA NoPiece ==
  /\ IsDraft(<< >>) /\ MarksOf(<< >>) = << >> /\ Cleaned(<< >>) = << >>
  /\ \A f : Final(<< >>, f) = << >>
BY DEF IsDraft, MarksOf, Cleaned, Final

(* What passes the gate is again one piece, or none.                          *)
LEMMA GatedIsDraft ==
  ASSUME LoopAssumption, NEW s \in Streams, IsDraft(loop[s].draft),
         NEW g \in run_grounding(s, loop[s])
  PROVE  IsDraft(Gated(loop[s], g))
<1>1. IsDraft(Cleaned(loop[s].draft))
  <2>1. CASE loop[s].draft = << >> BY <2>1, NoPiece
  <2>2. CASE loop[s].draft # << >>
    <3>1. PICK k, m : loop[s].draft = <<Piece(k, m)>> /\ DOMAIN m \subseteq Nat
      BY <2>2 DEF IsDraft
    <3>2. Cleaned(loop[s].draft) = <<Piece("answer", m)>> BY <3>1, OnePiece
    <3> QED BY <3>1, <3>2, OnePiece
  <2> QED BY <2>1, <2>2
<1>2. IsDraft(g.rewritten)
  <2>1. CASE g.rewritten = << >> BY <2>1, NoPiece
  <2>2. CASE g.rewritten # << >>
    <3>1. CASE g \in {NoGrounding, NotAnswerable}
      BY <2>2, <3>1 DEF NoGrounding, NotAnswerable
    <3>2. CASE g \notin {NoGrounding, NotAnswerable}
      <4>1. g.rewritten \in {<<Piece("answer", m)>> : m \in Texts(s)}
        BY <2>2, <3>2 DEF run_grounding
      <4>2. PICK m \in Texts(s) : g.rewritten = <<Piece("answer", m)>>
        BY <4>1
      <4> QED BY <4>2, TextsAre, OnePiece
    <3> QED BY <3>1, <3>2
  <2> QED BY <2>1, <2>2
<1>3. IsDraft(<<NonAnswer>>)
  <2>1. DOMAIN << >> \subseteq Nat OBVIOUS
  <2> QED BY <2>1, OnePiece DEF NonAnswer
<1> QED BY <1>1, <1>2, <1>3, Zenon DEF Gated

(* The audit: every alias of the text that passes the gate keeps its meaning,  *)
(* the text the reader is left with is the audited one, and its status is so. *)
LEMMA AuditIsTrue ==
  ASSUME LoopAssumption, NEW s \in Streams, Registered(loop[s].registry),
         IsDraft(loop[s].draft), bubble[s] = loop[s].draft,
         NEW g \in run_grounding(s, loop[s]),
         NEW gated, gated = Gated(loop[s], g),
         NEW f, f = Finalized(loop[s], gated),
         NEW final, final = Final(gated, f)
  PROVE  /\ Shown(s, loop[s], gated, final) = final
         /\ DOMAIN f.rows \subseteq Nat /\ f.rows = [a \in DOMAIN f.rows |-> f.rows[a]]
         /\ \A i \in DOMAIN MarksOf(gated) :
              Told(f, MarksOf(final)[i]) =
                Meaning(loop[s].registry, loop[s].history, MarksOf(gated)[i])
         /\ audit_status(loop[s], g, f) = "verified" =>
              /\ \A a \in Cited(MarksOf(final)) : Told(f, a) # Nothing
              /\ loop[s].mode = "audit" => MarksOf(final) # << >>
         /\ (~ Available(loop[s]) /\ loop[s].mode # "off") => final = <<NonAnswer>>
<1> DEFINE l == loop[s]
           marks == MarksOf(gated)
<1>1. IsDraft(gated) BY GatedIsDraft
<1>2. /\ DOMAIN marks \subseteq Nat
      /\ MarksOf(final) = IF gated = << >> THEN << >> ELSE f.answer
      /\ gated = << >> => marks = << >>
      /\ final = << >> \/ \E p : final = <<p>>
  <2>1. CASE gated = << >>
    <3>1. marks = << >> /\ final = << >> BY <2>1, NoPiece
    <3> QED BY <2>1, <3>1, NoPiece
  <2>2. CASE gated # << >>
    <3>1. PICK k, m : gated = <<Piece(k, m)>> /\ DOMAIN m \subseteq Nat
      BY <1>1, <2>2 DEF IsDraft
    <3>2. marks = m BY <3>1, OnePiece
    <3>4. final = <<Piece(k, f.answer)>>
      <4>1. Final(<<Piece(k, m)>>, f) = <<Piece(k, f.answer)>> BY FinalPiece
      <4> QED BY <3>1, <4>1
    <3>3. MarksOf(final) = f.answer BY <3>4 DEF MarksOf, Piece
    <3> QED BY <2>2, <3>1, <3>2, <3>3, <3>4
  <2> QED BY <2>1, <2>2
<1>3. f = finalize_answer(l.registry, l.history, marks) BY DEF Finalized
<1>q. FinalIsTrue(l.registry, l.history, marks, f)
  <2> HIDE DEF l, marks
  <2>1. Registered(l.registry) BY DEF l
  <2> QED BY <1>2, <1>3, <2>1, FinalAnswer
<1>4. /\ DOMAIN f.answer = DOMAIN marks
      /\ f.answer = [i \in DOMAIN marks |-> f.answer[i]]
      /\ \A i \in DOMAIN marks : Told(f, f.answer[i]) = Meaning(l.registry, l.history, marks[i])
      /\ DOMAIN f.rows \subseteq Nat /\ f.rows = [a \in DOMAIN f.rows |-> f.rows[a]]
      /\ f.missing = {} => \A a \in Cited(f.answer) : Told(f, a) # Nothing
  BY <1>q DEF FinalIsTrue
<1>5. gated = << >> => f.answer = << >>
  BY <1>2, <1>4
<1>6. MarksOf(final) = f.answer BY <1>2, <1>5
<1>7. Shown(s, l, gated, final) = final
  <2>1. Reset \o final = final BY <1>2 DEF Reset
  <2> QED BY <2>1 DEF Shown
<1>8. ASSUME audit_status(l, g, f) = "verified"
      PROVE  /\ \A a \in Cited(f.answer) : Told(f, a) # Nothing
             /\ l.mode = "audit" => f.answer # << >>
  <2>1. f.missing = {} BY <1>8 DEF audit_status
  <2>2. ASSUME l.mode = "audit" PROVE g = NoGrounding /\ Available(l) /\ f.answer # << >>
    <3>1. g = NoGrounding BY <1>8, <2>2 DEF audit_status
    <3>2. Available(l)
      BY <2>2, <3>1 DEF run_grounding, NoGrounding, NotAnswerable
    <3> QED BY <1>8, <2>1, <2>2, <3>1, <3>2 DEF audit_status
  <2> QED BY <1>4, <2>1, <2>2
<1>9. ASSUME ~ Available(l), l.mode # "off" PROVE final = <<NonAnswer>>
  <2>1. g = NotAnswerable BY <1>9 DEF run_grounding
  <2>2. gated = <<NonAnswer>> BY <2>1 DEF Gated, NotAnswerable, NoGrounding
  <2>3. marks = << >> /\ final = <<Piece("non_answer", f.answer)>>
    <3>1. DOMAIN << >> \subseteq Nat OBVIOUS
    <3>2. gated = <<Piece("non_answer", << >>)>> BY <2>2 DEF NonAnswer
    <3>3. marks = << >> BY <3>1, <3>2, OnePiece
    <3>4. final = <<Piece("non_answer", f.answer)>>
      <4>1. Final(<<Piece("non_answer", << >>)>>, f) = <<Piece("non_answer", f.answer)>>
        BY FinalPiece
      <4> QED BY <3>2, <4>1
    <3> QED BY <3>3, <3>4
  <2>4. f.answer = << >> BY <1>4, <2>3
  <2> QED BY <2>3, <2>4 DEF NonAnswer
<1> QED BY <1>4, <1>6, <1>7, <1>8, <1>9

-----------------------------------------------------------------------------
(* What is so of the locals of a loop, whatever it does next.                 *)
AuditedTrue(l) ==
  l.audit # NoAudit =>
    /\ \A i \in DOMAIN MarksOf(l.draft) :
         Told(l.audit, MarksOf(l.audit.text)[i]) =
           Meaning(l.registry, l.history, MarksOf(l.draft)[i])
    /\ l.audit.status = "verified" =>
         /\ \A a \in Cited(MarksOf(l.audit.text)) : Told(l.audit, a) # Nothing
         /\ l.mode = "audit" => MarksOf(l.audit.text) # << >>
    /\ (~ Available(l) /\ l.mode # "off") => l.audit.text = <<NonAnswer>>
    /\ DOMAIN l.audit.rows \subseteq Nat
    /\ l.audit.rows = [a \in DOMAIN l.audit.rows |-> l.audit.rows[a]]

LocalsTrue(s, l) == LocalsTyped(s, l) /\ Registered(l.registry) /\ AuditedTrue(l)

(* The rows of one request and what they say.                                 *)
RowsTrue(s) ==
  /\ RowsInOrder(s)
  /\ Exists(s) <=> turn[s] \in {"running", "completed", "failed"}
  /\ (turn[s] = "completed" /\ message[s].audit # NoAudit) =>
       citations[s] = message[s].audit.rows
  /\ citations[s] # << >> => Exists(s) /\ message[s] # NoMessage
  /\ turn[s] = "running" => stage[s] \notin {"idle", "done", "raised"}
  /\ message[s].audit # NoAudit => message[s].text = message[s].audit.text
  /\ (message[s].audit = NoAudit /\ ~ message[s].error) => ~ ModelText(message[s].text)

TablesTyped ==
  /\ stage \in [Streams -> Steps]
  /\ turn \in [Streams -> {"none", "running", "completed", "failed", "deleted"}]
  /\ created \in Seq(Streams)
  /\ DOMAIN loop = Streams /\ DOMAIN bubble = Streams
  /\ DOMAIN message = Streams /\ DOMAIN citations = Streams
  /\ \A i, j \in DOMAIN created : created[i] = created[j] => i = j

(* All that the runs check, stream by stream: it is inductive as it stands.   *)
SessionAll ==
  /\ TablesTyped
  /\ \A s \in Streams : LocalsTrue(s, loop[s]) /\ StreamInOrder(s) /\ RowsTrue(s)

LEMMA AllSays == SessionAll => SessionInv /\ AliasesAreTrue /\ AuditHolds
<1> SUFFICES ASSUME SessionAll PROVE SessionInv /\ AliasesAreTrue /\ AuditHolds
  OBVIOUS
<1>1. /\ TablesTyped
      /\ \A s \in Streams : LocalsTrue(s, loop[s]) /\ StreamInOrder(s) /\ RowsTrue(s)
  BY DEF SessionAll
<1>2. ChatTypes BY <1>1 DEF TablesTyped, LocalsTrue, RowsTrue, ChatTypes
<1>3. SessionOrder BY <1>1 DEF TablesTyped, RowsTrue, SessionOrder
<1>4. CompletedIsCited /\ RunningIsServed
  BY <1>1 DEF RowsTrue, CompletedIsCited, RunningIsServed
<1>5. AliasesAreTrue
  BY <1>1 DEF LocalsTrue, Registered, AuditedTrue, AliasesAreTrue
<1>6. SavedIsAudited BY <1>1 DEF RowsTrue, SavedIsAudited, ModelText
<1>7. AuditTells BY <1>1 DEF LocalsTrue, AuditedTrue, AuditTells
<1> QED BY <1>2, <1>3, <1>4, <1>5, <1>6, <1>7 DEF SessionInv, AuditHolds

(* The locals at the start, and when there is a draft.                        *)
LEMMA IdleIsTrue ==
  ASSUME LoopAssumption, NEW s \in Streams
  PROVE  LocalsTrue(s, Idle) /\ Idle.audit = NoAudit /\ Idle.round = 0
<1>1. /\ Rounds[s] \in Nat \ {0} /\ Budget[s] \in Nat
      /\ MaxSearches \in Nat /\ MaxIdenticalFailures \in Nat
  BY DEF LoopAssumption
<1>2. LocalsTyped(s, Idle)
  BY <1>1, NewIsRegistered DEF LocalsTyped, Idle, Registered
<1>3. Registered(Idle.registry) /\ Idle.audit = NoAudit /\ Idle.round = 0
  BY NewIsRegistered DEF Idle
<1> QED BY <1>2, <1>3 DEF LocalsTrue, AuditedTrue

LEMMA StartedIsTrue ==
  ASSUME LoopAssumption, NEW s \in Streams, NEW mode, NEW history
  PROVE  /\ LocalsTrue(s, Started(mode, history))
         /\ Started(mode, history).audit = NoAudit /\ Started(mode, history).round = 0
<1> DEFINE l == Started(mode, history)
<1>1. LocalsTrue(s, Idle) /\ Idle.audit = NoAudit /\ Idle.round = 0 BY IdleIsTrue
<1>2. /\ DOMAIN l = DOMAIN Idle /\ l.round = Idle.round /\ l.used = Idle.used
      /\ l.searches = Idle.searches /\ l.failures = Idle.failures /\ l.todo = Idle.todo
      /\ l.registry = Idle.registry /\ l.audit = Idle.audit
  BY DEF Started, Idle
<1> SUFFICES LocalsTrue(s, l) /\ l.audit = NoAudit /\ l.round = 0 OBVIOUS
<1> HIDE DEF l
<1>3. LocalsTyped(s, l) BY <1>1, <1>2 DEF LocalsTrue, LocalsTyped
<1>4. Registered(l.registry) /\ AuditedTrue(l)
  BY <1>1, <1>2 DEF LocalsTrue, AuditedTrue
<1> QED BY <1>1, <1>2, <1>3, <1>4 DEF LocalsTrue

LEMMA DraftedIsTrue ==
  ASSUME LoopAssumption, NEW s \in Streams, NEW l, LocalsTrue(s, l), NEW draft
  PROVE  /\ LocalsTrue(s, Drafted(l, draft)) /\ Drafted(l, draft).audit = NoAudit
         /\ Drafted(l, draft).registry = l.registry /\ Drafted(l, draft).draft = draft
<1> DEFINE k == Started(l.mode, l.history)
           d == Drafted(l, draft)
<1>1. LocalsTrue(s, k) /\ k.audit = NoAudit BY StartedIsTrue
<1>2. DOMAIN k = DOMAIN Idle BY <1>1 DEF LocalsTrue, LocalsTyped
<1>3. DOMAIN Idle = {"mode", "history", "registry", "round", "todo", "used", "searches",
                     "failures", "late", "draft", "audit"}
  BY DEF Idle
<1>4. d = [k EXCEPT !.registry = l.registry, !.draft = draft] BY DEF Drafted
<1> HIDE DEF k
<1>5. /\ DOMAIN d = DOMAIN Idle /\ d.round = k.round /\ d.used = k.used
      /\ d.searches = k.searches /\ d.failures = k.failures /\ d.todo = k.todo
      /\ d.registry = l.registry /\ d.audit = k.audit /\ d.draft = draft
  BY <1>2, <1>3, <1>4
<1> SUFFICES LocalsTrue(s, d) /\ d.audit = NoAudit /\ d.registry = l.registry /\ d.draft = draft
  OBVIOUS
<1> HIDE DEF d
<1>6. LocalsTyped(s, d) BY <1>1, <1>5 DEF LocalsTrue, LocalsTyped
<1>7. Registered(d.registry) /\ AuditedTrue(d)
  BY <1>1, <1>5 DEF LocalsTrue, AuditedTrue
<1> QED BY <1>1, <1>5, <1>6, <1>7 DEF LocalsTrue

(* What a step of stream s has to keep; it leaves the others alone.           *)
StreamKeeps(s) ==
  /\ stage' \in [Streams -> Steps]
  /\ DOMAIN loop' = Streams /\ DOMAIN bubble' = Streams
  /\ \A q \in Streams \ {s} :
       stage'[q] = stage[q] /\ loop'[q] = loop[q] /\ bubble'[q] = bubble[q]
  /\ LocalsTrue(s, loop'[s]) /\ StreamInOrder(s)'

LEMMA KeepsAll ==
  ASSUME SessionAll, NEW s \in Streams, StreamKeeps(s), RowsTrue(s)',
         turn' \in [Streams -> {"none", "running", "completed", "failed", "deleted"}],
         created' \in Seq(Streams), DOMAIN message' = Streams, DOMAIN citations' = Streams,
         \A i, j \in DOMAIN created' : created'[i] = created'[j] => i = j,
         \A q \in Streams \ {s} :
           /\ turn'[q] = turn[q] /\ message'[q] = message[q] /\ citations'[q] = citations[q]
           /\ Exists(q)' <=> Exists(q)
  PROVE  SessionAll'
<1>1. TablesTyped' BY DEF TablesTyped, StreamKeeps
<1>2. ASSUME NEW q \in Streams \ {s}
      PROVE  LocalsTrue(q, loop'[q]) /\ StreamInOrder(q)' /\ RowsTrue(q)'
  <2>1. LocalsTrue(q, loop[q]) /\ StreamInOrder(q) /\ RowsTrue(q) BY DEF SessionAll
  <2>2. stage'[q] = stage[q] /\ loop'[q] = loop[q] /\ bubble'[q] = bubble[q]
    BY DEF StreamKeeps
  <2>3. /\ turn'[q] = turn[q] /\ message'[q] = message[q] /\ citations'[q] = citations[q]
        /\ Exists(q)' <=> Exists(q)
    OBVIOUS
  <2>4. LocalsTrue(q, loop'[q]) BY <2>1, <2>2
  <2>5. StreamInOrder(q)' BY <2>1, <2>2 DEF StreamInOrder
  <2>6. RowsTrue(q)' BY <2>1, <2>2, <2>3 DEF RowsTrue, RowsInOrder, Uncited, ToCite
  <2> QED BY <2>4, <2>5, <2>6
<1> QED BY <1>1, <1>2 DEF SessionAll, StreamKeeps

(* A step of a stream whose turn has no message yet and still has none.       *)
LEMMA KeepsRows ==
  ASSUME SessionAll, NEW s \in Streams, StreamKeeps(s), UNCHANGED rows,
         stage[s] \in Unsaved \ {"idle"}, stage'[s] \in Unsaved \ {"idle"}
  PROVE  SessionAll'
<1>1. RowsTrue(s) BY DEF SessionAll
<1>2. /\ turn' = turn /\ created' = created /\ message' = message /\ citations' = citations
      /\ \A q \in Streams : Exists(q)' <=> Exists(q)
  BY DEF rows, Exists
<1>3. RowsTrue(s)'
  <2>1. AuditedTrue(loop'[s]) BY DEF StreamKeeps, LocalsTrue
  <2> QED
    BY <1>1, <1>2, <2>1 DEF RowsTrue, RowsInOrder, AuditedTrue, Unsaved, Steps
<1>4. TablesTyped BY DEF SessionAll
<1> QED BY <1>2, <1>3, <1>4, KeepsAll DEF TablesTyped

-----------------------------------------------------------------------------
(* The steps of the loop.  Each leaves locals that are true and its stream in *)
(* order.                                                                     *)
LEMMA TextIsDraft ==
  ASSUME LoopAssumption, NEW s \in Streams, NEW m \in Texts(s), NEW kind
  PROVE  IsDraft(<<Piece(kind, m)>>)
BY TextsAre, OnePiece

LEMMA KeptIsReset ==
  ASSUME SessionAll, NEW s \in Streams, stage[s] = "model"
  PROVE  Kept(s) = << >>
<1>1. LocalsTyped(s, loop[s]) /\ StreamInOrder(s) BY DEF SessionAll, LocalsTrue
<1>2. loop[s].round \in Nat BY <1>1 DEF LocalsTyped
<1> QED BY <1>1, <1>2 DEF StreamInOrder, Kept, Reset

LEMMA answers_Keeps ==
  ASSUME LoopAssumption, SessionAll, NEW s \in Streams, answers(s)
  PROVE  StreamKeeps(s) /\ stage[s] \in Unsaved \ {"idle"} /\ stage'[s] \in Unsaved \ {"idle"}
<1>1. PICK marks \in Texts(s), kind \in {"answer", "narrated"} :
        /\ Go(s, "model", "audit")
        /\ loop' = [loop EXCEPT ![s] = Drafted(@, <<Piece(kind, marks)>>)]
        /\ bubble' = [bubble EXCEPT ![s] = Append(Kept(s), Piece(kind, marks))]
  BY DEF answers
<1> DEFINE draft == <<Piece(kind, marks)>>
<1>2. /\ stage \in [Streams -> Steps] /\ DOMAIN loop = Streams /\ DOMAIN bubble = Streams
      /\ LocalsTrue(s, loop[s])
  BY DEF SessionAll, TablesTyped
<1>3. bubble'[s] = draft
  <2>1. Kept(s) = << >> BY <1>1, KeptIsReset DEF Go
  <2> QED BY <1>1, <1>2, <2>1
<1>4. /\ loop'[s] = Drafted(loop[s], draft)
      /\ LocalsTrue(s, loop'[s]) /\ loop'[s].audit = NoAudit /\ loop'[s].draft = draft
  <2>1. loop'[s] = Drafted(loop[s], draft) BY <1>1, <1>2
  <2> HIDE DEF draft
  <2> QED BY <1>2, <2>1, DraftedIsTrue
<1>5. IsDraft(draft) BY TextIsDraft
<1>6. stage[s] = "model" /\ stage'[s] = "audit" /\ stage' \in [Streams -> Steps]
  BY <1>1, <1>2 DEF Go, Steps
<1> HIDE DEF draft
<1>7. StreamInOrder(s)' BY <1>3, <1>4, <1>5, <1>6 DEF StreamInOrder
<1>8. \A q \in Streams \ {s} :
        stage'[q] = stage[q] /\ loop'[q] = loop[q] /\ bubble'[q] = bubble[q]
  BY <1>1, <1>2 DEF Go
<1>9. DOMAIN loop' = Streams /\ DOMAIN bubble' = Streams
  BY <1>1, <1>2
<1> QED BY <1>4, <1>6, <1>7, <1>8, <1>9 DEF StreamKeeps, Unsaved, Steps

LEMMA blank_Keeps ==
  ASSUME LoopAssumption, SessionAll, NEW s \in Streams, blank(s)
  PROVE  StreamKeeps(s) /\ stage[s] \in Unsaved \ {"idle"} /\ stage'[s] \in Unsaved \ {"idle"}
<1>1. stage[s] = "model" /\ stage' = [stage EXCEPT ![s] = "force"] /\ loop' = loop
      /\ bubble' = [bubble EXCEPT ![s] = Kept(s)]
  BY DEF blank, Go
<1>2. /\ stage \in [Streams -> Steps] /\ DOMAIN loop = Streams /\ DOMAIN bubble = Streams
      /\ LocalsTrue(s, loop[s]) /\ StreamInOrder(s)
  BY DEF SessionAll, TablesTyped
<1>3. stage'[s] = "force" /\ stage' \in [Streams -> Steps]
  BY <1>1, <1>2 DEF Steps
<1>4. StreamInOrder(s)' BY <1>1, <1>2, <1>3 DEF StreamInOrder
<1>5. /\ \A q \in Streams \ {s} :
           stage'[q] = stage[q] /\ loop'[q] = loop[q] /\ bubble'[q] = bubble[q]
      /\ DOMAIN loop' = Streams /\ DOMAIN bubble' = Streams
  BY <1>1, <1>2
<1> QED BY <1>1, <1>2, <1>3, <1>4, <1>5 DEF StreamKeeps, Unsaved, Steps

LEMMA calls_tools_Keeps ==
  ASSUME LoopAssumption, SessionAll, NEW s \in Streams, calls_tools(s)
  PROVE  StreamKeeps(s) /\ stage[s] \in Unsaved \ {"idle"} /\ stage'[s] \in Unsaved \ {"idle"}
<1>1. stage[s] = "model" /\ stage' = [stage EXCEPT ![s] = "tools"]
  BY DEF calls_tools, Go
<1>2. PICK n \in 1 .. MaxBatch : \E todo \in [1 .. n -> Calls] :
             loop' = [loop EXCEPT ![s].todo = todo]
  BY DEF calls_tools
<1>3. PICK todo \in [1 .. n -> Calls] : loop' = [loop EXCEPT ![s].todo = todo]
  BY <1>2
<1>4. /\ stage \in [Streams -> Steps] /\ DOMAIN loop = Streams /\ DOMAIN bubble = Streams
      /\ LocalsTrue(s, loop[s]) /\ StreamInOrder(s)
  BY DEF SessionAll, TablesTyped
<1>5. todo \in Seq(Calls) /\ todo # << >>
  <2>1. n \in Nat /\ n >= 1 BY DEF LoopAssumption
  <2>2. todo \in Seq(Calls) /\ Len(todo) = n BY ONLY <2>1, todo \in [1 .. n -> Calls]
  <2> QED BY <2>1, <2>2
<1>6. /\ DOMAIN loop'[s] = DOMAIN Idle /\ loop'[s].todo = todo
      /\ loop'[s].round = loop[s].round /\ loop'[s].used = loop[s].used
      /\ loop'[s].searches = loop[s].searches /\ loop'[s].failures = loop[s].failures
      /\ loop'[s].registry = loop[s].registry /\ loop'[s].audit = loop[s].audit
  <2>1. DOMAIN loop[s] = {"mode", "history", "registry", "round", "todo", "used",
                          "searches", "failures", "late", "draft", "audit"}
    BY <1>4 DEF LocalsTrue, LocalsTyped, Idle
  <2>2. DOMAIN loop[s] = DOMAIN Idle BY <1>4 DEF LocalsTrue, LocalsTyped
  <2> QED BY <1>3, <1>4, <2>1, <2>2
<1>7. loop[s].audit = NoAudit BY <1>1, <1>4 DEF StreamInOrder
<1>8. LocalsTrue(s, loop'[s])
  <2>1. LocalsTyped(s, loop'[s]) BY <1>4, <1>5, <1>6 DEF LocalsTrue, LocalsTyped
  <2> QED BY <1>4, <1>6, <1>7, <2>1 DEF LocalsTrue, AuditedTrue
<1>9. stage'[s] = "tools" /\ stage' \in [Streams -> Steps]
  BY <1>1, <1>4 DEF Steps
<1>10. StreamInOrder(s)'
  BY <1>1, <1>4, <1>5, <1>6, <1>7, <1>9 DEF StreamInOrder
<1>11. /\ \A q \in Streams \ {s} :
           stage'[q] = stage[q] /\ loop'[q] = loop[q] /\ bubble'[q] = bubble[q]
       /\ DOMAIN loop' = Streams /\ DOMAIN bubble' = Streams
  <2>1. /\ DOMAIN bubble' = Streams
        /\ \A q \in Streams \ {s} : bubble'[q] = bubble[q]
    BY <1>4 DEF calls_tools
  <2> QED BY <1>1, <1>3, <1>4, <2>1
<1> QED BY <1>1, <1>8, <1>9, <1>10, <1>11 DEF StreamKeeps, Unsaved, Steps

(* A tool call is dealt with: its locals, but for the calls that are left.    *)
LEMMA Called_Keeps ==
  ASSUME LoopAssumption, SessionAll, NEW s \in Streams, NEW l, Called(s, l),
         LocalsTyped(s, l), Registered(l.registry), l.audit = NoAudit,
         l.round = loop[s].round, l.todo = loop[s].todo
  PROVE  StreamKeeps(s) /\ stage[s] \in Unsaved \ {"idle"} /\ stage'[s] \in Unsaved \ {"idle"}
<1> DEFINE rest == Tail(l.todo)
           round == IF rest = << >> THEN l.round + 1 ELSE l.round
           to == IF rest # << >> THEN "tools"
                 ELSE IF round < Rounds[s] THEN "model" ELSE "force"
<1>1. /\ Go(s, "tools", to)
      /\ loop' = [loop EXCEPT ![s] = [l EXCEPT !.todo = rest, !.round = round]]
      /\ bubble' = bubble
  BY DEF Called
<1>2. /\ stage \in [Streams -> Steps] /\ DOMAIN loop = Streams /\ DOMAIN bubble = Streams
      /\ LocalsTrue(s, loop[s]) /\ StreamInOrder(s)
  BY DEF SessionAll, TablesTyped
<1>3. l.round \in Nat /\ Rounds[s] \in Nat /\ l.round < Rounds[s]
  <2>1. stage[s] = "tools" BY <1>1 DEF Go
  <2> QED BY <1>2, <2>1 DEF LoopAssumption, StreamInOrder, LocalsTyped
<1>4. rest \in Seq(Calls) /\ round \in 0 .. Rounds[s] /\ (to # "force" => round < Rounds[s])
  <2>1. l.todo \in Seq(Calls) /\ l.todo # << >>
    BY <1>1, <1>2 DEF LocalsTyped, StreamInOrder, Go
  <2> QED BY <1>3, <2>1
<1>5. rest = << >> => round # 0 BY <1>3
<1>6. to \in {"tools", "model", "force"} /\ (to = "tools" => rest # << >>)
      /\ (to = "model" => rest = << >>)
  OBVIOUS
<1>7. DOMAIN l = {"mode", "history", "registry", "round", "todo", "used", "searches",
                  "failures", "late", "draft", "audit"}
      /\ DOMAIN l = DOMAIN Idle
  BY DEF LocalsTyped, Idle
<1> HIDE DEF rest, round, to
<1>8. /\ DOMAIN loop'[s] = DOMAIN Idle /\ loop'[s].todo = rest /\ loop'[s].round = round
      /\ loop'[s].used = l.used /\ loop'[s].searches = l.searches
      /\ loop'[s].failures = l.failures /\ loop'[s].registry = l.registry
      /\ loop'[s].audit = NoAudit
  BY <1>1, <1>2, <1>7
<1>9. LocalsTrue(s, loop'[s])
  <2>1. LocalsTyped(s, loop'[s]) BY <1>4, <1>8 DEF LocalsTyped
  <2> QED BY <1>8, <2>1 DEF LocalsTrue, AuditedTrue
<1>10. stage[s] = "tools" /\ stage'[s] = to /\ stage' \in [Streams -> Steps]
  BY <1>1, <1>2, <1>6 DEF Go, Steps
<1>11. StreamInOrder(s)'
  BY <1>4, <1>5, <1>6, <1>8, <1>10 DEF StreamInOrder
<1>12. /\ \A q \in Streams \ {s} :
            stage'[q] = stage[q] /\ loop'[q] = loop[q] /\ bubble'[q] = bubble[q]
       /\ DOMAIN loop' = Streams /\ DOMAIN bubble' = Streams
  BY <1>1, <1>2 DEF Go
<1> QED BY <1>6, <1>9, <1>10, <1>11, <1>12 DEF StreamKeeps, Unsaved, Steps

(* Counting a call that the guard lets through.                               *)
LEMMA CountedIsTyped ==
  ASSUME LoopAssumption, SessionAll, NEW s \in Streams, stage[s] = "tools", ~ CallRefused(s),
         NEW c, c = Head(loop[s].todo), NEW k, k = Counted(loop[s], c)
  PROVE  /\ c \in Calls /\ loop[s].failures[c] < MaxIdenticalFailures
         /\ LocalsTyped(s, k) /\ k.registry = loop[s].registry /\ Registered(k.registry)
         /\ k.audit = NoAudit /\ k.round = loop[s].round /\ k.todo = loop[s].todo
         /\ k.failures = loop[s].failures
<1> DEFINE l == loop[s]
<1>1. LocalsTyped(s, l) /\ Registered(l.registry) /\ StreamInOrder(s)
  BY DEF SessionAll, LocalsTrue
<1>2. l.audit = NoAudit /\ l.todo # << >> /\ l.todo \in Seq(Calls)
  BY <1>1 DEF StreamInOrder, LocalsTyped
<1>3. c \in Calls BY <1>2
<1>4. /\ l.used < Budget[s] /\ l.failures[c] < MaxIdenticalFailures
      /\ Tool[c] = "search" => l.searches < MaxSearches
  <2>1. /\ Budget[s] \in Nat /\ MaxSearches \in Nat /\ MaxIdenticalFailures \in Nat
        /\ l.used \in Nat /\ l.searches \in Nat /\ l.failures[c] \in Nat
    BY <1>1, <1>3 DEF LoopAssumption, LocalsTyped
  <2> QED BY <2>1 DEF CallRefused, block_reason
<1>5. DOMAIN l = {"mode", "history", "registry", "round", "todo", "used", "searches",
                  "failures", "late", "draft", "audit"}
      /\ DOMAIN l = DOMAIN Idle
  BY <1>1 DEF LocalsTyped, Idle
<1>6. /\ DOMAIN k = DOMAIN Idle /\ k.todo = l.todo /\ k.round = l.round
      /\ k.used = l.used + 1
      /\ k.searches = IF Tool[c] = "search" THEN l.searches + 1 ELSE l.searches
      /\ k.failures = l.failures /\ k.registry = l.registry /\ k.audit = l.audit
  <2> HIDE DEF l
  <2>1. k = [l EXCEPT !.used = @ + 1,
                      !.searches = IF Tool[c] = "search" THEN @ + 1 ELSE @]
    BY DEF Counted, l
  <2> QED BY <1>5, <2>1
<1> HIDE DEF l
<1>7. /\ k.used \in 0 .. Budget[s] /\ k.searches \in 0 .. MaxSearches
  <2>1. Budget[s] \in Nat /\ MaxSearches \in Nat BY DEF LoopAssumption
  <2>2. l.used \in 0 .. Budget[s] /\ l.searches \in 0 .. MaxSearches
    BY <1>1 DEF LocalsTyped
  <2>3. k.used \in 0 .. Budget[s] BY <1>4, <1>6, <2>1, <2>2
  <2>4. k.searches \in 0 .. MaxSearches BY <1>4, <1>6, <2>1, <2>2
  <2> QED BY <2>3, <2>4
<1>8. LocalsTyped(s, k) BY <1>1, <1>6, <1>7 DEF LocalsTyped
<1> QED BY <1>1, <1>2, <1>3, <1>4, <1>6, <1>8 DEF l

LEMMA tools_Keeps ==
  ASSUME LoopAssumption, SessionAll, NEW s \in Streams, skip(s) \/ succeeds(s) \/ fails(s)
  PROVE  StreamKeeps(s) /\ stage[s] \in Unsaved \ {"idle"} /\ stage'[s] \in Unsaved \ {"idle"}
<1> DEFINE l == loop[s]
           c == Head(l.todo)
           k == Counted(l, c)
<1>1. stage[s] = "tools" BY DEF skip, succeeds, fails
<1>2. LocalsTyped(s, l) /\ Registered(l.registry) /\ StreamInOrder(s)
  BY DEF SessionAll, LocalsTrue
<1>3. CASE skip(s)
  <2>1. Called(s, l) BY <1>3 DEF skip
  <2>2. l.audit = NoAudit BY <1>1, <1>2 DEF StreamInOrder
  <2> QED BY <1>2, <2>1, <2>2, Called_Keeps
<1>4. ASSUME ~ CallRefused(s)
      PROVE  /\ c \in Calls /\ l.failures[c] < MaxIdenticalFailures
             /\ LocalsTyped(s, k) /\ k.registry = l.registry /\ Registered(k.registry)
             /\ k.audit = NoAudit /\ k.round = l.round /\ k.todo = l.todo
             /\ k.failures = l.failures
  BY <1>1, <1>4, CountedIsTyped
<1>5. ASSUME ~ CallRefused(s)
      PROVE  /\ DOMAIN k = {"mode", "history", "registry", "round", "todo", "used", "searches",
                            "failures", "late", "draft", "audit"}
             /\ DOMAIN k = DOMAIN Idle
  <2> HIDE DEF k
  <2> QED BY <1>4, <1>5 DEF LocalsTyped, Idle
<1>6. CASE succeeds(s)
  <2>1. ~ CallRefused(s) BY <1>6 DEF succeeds
  <2>2. PICK n \in 0 .. MaxFound : \E items \in [1 .. n -> Evidence] :
          Called(s, [k EXCEPT !.registry = register_tool_evidence(@, items)])
    BY <1>6 DEF succeeds
  <2>3. PICK items \in [1 .. n -> Evidence] :
          Called(s, [k EXCEPT !.registry = register_tool_evidence(@, items)])
    BY <2>2
  <2> DEFINE m == [k EXCEPT !.registry = register_tool_evidence(@, items)]
  <2>4. items \in Seq(Evidence)
    <3>1. n \in Nat BY DEF LoopAssumption
    <3> QED BY ONLY <3>1, items \in [1 .. n -> Evidence]
  <2>5. Registered(register_tool_evidence(k.registry, items))
    <3> HIDE DEF k
    <3> QED BY <1>4, <2>1, <2>4, RegisterAll
  <2>6. /\ DOMAIN m = DOMAIN Idle /\ m.todo = k.todo /\ m.round = k.round
        /\ m.used = k.used /\ m.searches = k.searches /\ m.failures = k.failures
        /\ m.audit = k.audit /\ m.registry = register_tool_evidence(k.registry, items)
    <3> HIDE DEF k
    <3> QED BY <1>5, <2>1
  <2>7. LocalsTyped(s, m) /\ Registered(m.registry)
    <3> HIDE DEF k, m
    <3> QED BY <1>4, <2>1, <2>5, <2>6 DEF LocalsTyped, Registered
  <2> HIDE DEF k, m
  <2>8. Called(s, m) BY <2>3 DEF m
  <2> QED BY <1>4, <2>1, <2>6, <2>7, <2>8, Called_Keeps
<1>7. CASE fails(s)
  <2>1. ~ CallRefused(s) BY <1>7 DEF fails
  <2>2. PICK late \in SUBSET {Tool[c]} :
          Called(s, [k EXCEPT !.failures[c] = @ + 1, !.late = @ \cup late])
    BY <1>7 DEF fails
  <2> DEFINE m == [k EXCEPT !.failures[c] = @ + 1, !.late = @ \cup late]
  <2>3. /\ DOMAIN m = DOMAIN Idle /\ m.todo = k.todo /\ m.round = k.round
        /\ m.used = k.used /\ m.searches = k.searches
        /\ m.failures = [k.failures EXCEPT ![c] = @ + 1]
        /\ m.audit = k.audit /\ m.registry = k.registry
    <3> HIDE DEF k, c
    <3> QED BY <1>5, <2>1
  <2>4. m.failures \in [Calls -> 0 .. MaxIdenticalFailures]
    <3>1. k.failures \in [Calls -> 0 .. MaxIdenticalFailures]
      <4> HIDE DEF k
      <4> QED BY <1>4, <2>1 DEF LocalsTyped
    <3>2. k.failures[c] < MaxIdenticalFailures /\ c \in Calls /\ MaxIdenticalFailures \in Nat
      BY <1>4, <2>1 DEF LoopAssumption
    <3> HIDE DEF k, m, c
    <3> QED BY <2>3, <3>1, <3>2
  <2>5. LocalsTyped(s, m) /\ Registered(m.registry)
    <3> HIDE DEF k, m
    <3> QED BY <1>4, <2>1, <2>3, <2>4 DEF LocalsTyped, Registered
  <2> HIDE DEF k, m
  <2>6. Called(s, m) BY <2>2 DEF m
  <2> QED BY <1>4, <2>1, <2>3, <2>5, <2>6, Called_Keeps
<1> QED BY <1>3, <1>6, <1>7

LEMMA force_Keeps ==
  ASSUME LoopAssumption, SessionAll, NEW s \in Streams, force(s)
  PROVE  StreamKeeps(s) /\ stage[s] \in Unsaved \ {"idle"} /\ stage'[s] \in Unsaved \ {"idle"}
<1>1. PICK draft \in Drafts(s) :
        /\ Go(s, "force", "audit")
        /\ loop' = [loop EXCEPT ![s] = Drafted(@, draft)]
        /\ bubble' = [bubble EXCEPT ![s] = Synthesis(s) \o draft]
  BY DEF force
<1>2. /\ stage \in [Streams -> Steps] /\ DOMAIN loop = Streams /\ DOMAIN bubble = Streams
      /\ LocalsTrue(s, loop[s])
  BY DEF SessionAll, TablesTyped
<1>3. IsDraft(draft) /\ << >> \o draft = draft
  <2>1. CASE draft = << >> BY <2>1, NoPiece
  <2>2. CASE draft # << >>
    <3>1. PICK k \in {"answer", "narrated"}, m \in Texts(s) : draft = <<Piece(k, m)>>
      BY <2>2 DEF Drafts
    <3> QED BY <3>1, TextIsDraft
  <2> QED BY <2>1, <2>2
<1>4. bubble'[s] = draft BY <1>1, <1>2, <1>3 DEF Synthesis, Reset
<1>5. LocalsTrue(s, loop'[s]) /\ loop'[s].audit = NoAudit /\ loop'[s].draft = draft
  <2>1. loop'[s] = Drafted(loop[s], draft) BY <1>1, <1>2
  <2> QED BY <1>2, <2>1, DraftedIsTrue
<1>6. stage[s] = "force" /\ stage'[s] = "audit" /\ stage' \in [Streams -> Steps]
  BY <1>1, <1>2 DEF Go, Steps
<1>7. StreamInOrder(s)' BY <1>3, <1>4, <1>5, <1>6 DEF StreamInOrder
<1>8. /\ \A q \in Streams \ {s} :
           stage'[q] = stage[q] /\ loop'[q] = loop[q] /\ bubble'[q] = bubble[q]
      /\ DOMAIN loop' = Streams /\ DOMAIN bubble' = Streams
  BY <1>1, <1>2 DEF Go
<1> QED BY <1>5, <1>6, <1>7, <1>8 DEF StreamKeeps, Unsaved, Steps

LEMMA model_fails_Keeps ==
  ASSUME LoopAssumption, SessionAll, NEW s \in Streams, model_fails(s)
  PROVE  StreamKeeps(s) /\ stage[s] \in Unsaved \ {"idle"} /\ stage'[s] \in Unsaved \ {"idle"}
<1>1. PICK partial \in {<< >>, <<Narration>>} :
        /\ stage[s] \in {"model", "force"}
        /\ stage' = [stage EXCEPT ![s] = "save"]
        /\ loop' = [loop EXCEPT ![s] = Idle]
        /\ bubble' = [bubble EXCEPT ![s] =
               (IF stage[s] = "model" THEN Kept(s) ELSE Synthesis(s)) \o partial \o <<Failure>>]
  BY DEF model_fails
<1>2. /\ stage \in [Streams -> Steps] /\ DOMAIN loop = Streams /\ DOMAIN bubble = Streams
  BY DEF SessionAll, TablesTyped
<1>3. stage[s] = "model" => Kept(s) = << >> BY KeptIsReset
<1>4. bubble'[s] = << >> \o partial \o <<Failure>>
  BY <1>1, <1>2, <1>3 DEF Synthesis, Reset
<1>5. ~ ModelText(bubble'[s])
  <2>1. CASE partial = << >>
    <3>1. bubble'[s] = <<Failure>> BY <1>4, <2>1
    <3> QED BY <3>1 DEF ModelText, Failure, Piece
  <2>2. CASE partial = <<Narration>>
    <3>1. bubble'[s] = <<Narration>> \o <<Failure>>
      <4>1. << >> \o <<Narration>> = <<Narration>> OBVIOUS
      <4> QED BY <1>4, <2>2, <4>1
    <3>2. \A i \in DOMAIN bubble'[s] : bubble'[s][i] \in {Narration, Failure}
      <4> DEFINE S == {Narration, Failure}
      <4>1. <<Narration>> \in Seq(S) /\ <<Failure>> \in Seq(S) OBVIOUS
      <4>2. <<Narration>> \o <<Failure>> \in Seq(S) BY <4>1, ConcatProperties
      <4> QED BY <3>1, <4>2
    <3>3. Failure.kind = "failure" /\ Narration.kind = "narration"
      BY DEF Failure, Narration, Piece
    <3> QED BY <3>2, <3>3 DEF ModelText
  <2> QED BY <2>1, <2>2
<1>6. loop'[s] = Idle BY <1>1, <1>2
<1>7. LocalsTrue(s, loop'[s]) /\ loop'[s].audit = NoAudit BY <1>6, IdleIsTrue
<1>8. stage'[s] = "save" /\ stage' \in [Streams -> Steps] BY <1>1, <1>2 DEF Steps
<1>9. StreamInOrder(s)' BY <1>5, <1>7, <1>8 DEF StreamInOrder
<1>10. /\ \A q \in Streams \ {s} :
            stage'[q] = stage[q] /\ loop'[q] = loop[q] /\ bubble'[q] = bubble[q]
       /\ DOMAIN loop' = Streams /\ DOMAIN bubble' = Streams
  BY <1>1, <1>2
<1> QED BY <1>1, <1>7, <1>8, <1>9, <1>10 DEF StreamKeeps, Unsaved, Steps

LEMMA audit_Keeps ==
  ASSUME LoopAssumption, SessionAll, NEW s \in Streams, audit(s)
  PROVE  StreamKeeps(s) /\ stage[s] \in Unsaved \ {"idle"} /\ stage'[s] \in Unsaved \ {"idle"}
<1> DEFINE l == loop[s]
<1>1. PICK g \in run_grounding(s, l) :
        LET gated == Gated(l, g)
            f == Finalized(l, gated)
            final == Final(gated, f)
        IN  /\ Go(s, "audit", "save")
            /\ bubble' = [bubble EXCEPT ![s] = Shown(s, l, gated, final)]
            /\ loop' = [loop EXCEPT ![s].draft = gated, ![s].audit =
                   [status |-> audit_status(l, g, f), text |-> final,
                    rows |-> f.rows, reused |-> f.reused, missing |-> f.missing]]
  BY DEF audit
<1> DEFINE gated == Gated(l, g)
           f == Finalized(l, gated)
           final == Final(gated, f)
           record == [status |-> audit_status(l, g, f), text |-> final,
                      rows |-> f.rows, reused |-> f.reused, missing |-> f.missing]
<1>2. /\ Go(s, "audit", "save")
      /\ bubble' = [bubble EXCEPT ![s] = Shown(s, l, gated, final)]
      /\ loop' = [loop EXCEPT ![s].draft = gated, ![s].audit = record]
  BY <1>1
<1>3. /\ stage \in [Streams -> Steps] /\ DOMAIN loop = Streams /\ DOMAIN bubble = Streams
      /\ LocalsTyped(s, l) /\ Registered(l.registry) /\ StreamInOrder(s)
  BY DEF SessionAll, TablesTyped, LocalsTrue
<1>4. IsDraft(l.draft) /\ bubble[s] = l.draft BY <1>2, <1>3 DEF StreamInOrder, Go
<1>5. /\ Shown(s, l, gated, final) = final
      /\ DOMAIN f.rows \subseteq Nat /\ f.rows = [a \in DOMAIN f.rows |-> f.rows[a]]
      /\ \A i \in DOMAIN MarksOf(gated) :
           Told(f, MarksOf(final)[i]) = Meaning(l.registry, l.history, MarksOf(gated)[i])
      /\ audit_status(l, g, f) = "verified" =>
           /\ \A a \in Cited(MarksOf(final)) : Told(f, a) # Nothing
           /\ l.mode = "audit" => MarksOf(final) # << >>
      /\ (~ Available(l) /\ l.mode # "off") => final = <<NonAnswer>>
  <2> HIDE DEF gated, f, final
  <2>1. gated = Gated(loop[s], g) BY DEF gated
  <2>2. f = Finalized(loop[s], gated) BY DEF f
  <2>3. final = Final(gated, f) BY DEF final
  <2> QED BY <1>3, <1>4, <2>1, <2>2, <2>3, AuditIsTrue
<1> HIDE DEF gated, f, final
<1>6. /\ record.status = audit_status(l, g, f) /\ record.text = final
      /\ record.rows = f.rows /\ record.reused = f.reused
      /\ \A a : Told(record, a) = Told(f, a)
  BY DEF Told
<1>7. record # NoAudit
  <2>1. DOMAIN record # DOMAIN NoAudit BY DEF NoAudit
  <2> QED BY <2>1
<1>8. DOMAIN l = {"mode", "history", "registry", "round", "todo", "used", "searches",
                  "failures", "late", "draft", "audit"}
      /\ DOMAIN l = DOMAIN Idle
  BY <1>3 DEF LocalsTyped, Idle
<1> HIDE DEF record, l
<1>9. /\ DOMAIN loop'[s] = DOMAIN Idle /\ loop'[s].todo = l.todo /\ loop'[s].round = l.round
      /\ loop'[s].used = l.used /\ loop'[s].searches = l.searches
      /\ loop'[s].failures = l.failures /\ loop'[s].registry = l.registry
      /\ loop'[s].mode = l.mode /\ loop'[s].history = l.history
      /\ loop'[s].draft = gated /\ loop'[s].audit = record
  BY <1>2, <1>3, <1>8 DEF l
<1>10. LocalsTyped(s, loop'[s]) /\ Registered(loop'[s].registry)
  BY <1>3, <1>9 DEF LocalsTyped
<1>11. AuditedTrue(loop'[s])
  BY <1>5, <1>6, <1>9 DEF AuditedTrue, Available
<1>12. bubble'[s] = final BY <1>2, <1>3, <1>5
<1>13. stage[s] = "audit" /\ stage'[s] = "save" /\ stage' \in [Streams -> Steps]
  BY <1>2, <1>3 DEF Go, Steps
<1>14. StreamInOrder(s)' BY <1>6, <1>7, <1>9, <1>12, <1>13 DEF StreamInOrder
<1>15. /\ \A q \in Streams \ {s} :
            stage'[q] = stage[q] /\ loop'[q] = loop[q] /\ bubble'[q] = bubble[q]
       /\ DOMAIN loop' = Streams /\ DOMAIN bubble' = Streams
  BY <1>2, <1>3 DEF Go
<1> QED BY <1>10, <1>11, <1>13, <1>14, <1>15 DEF StreamKeeps, LocalsTrue, Unsaved, Steps
(* The steps before the rounds, and those that end the stream early.          *)
LEMMA loop_Keeps ==
  ASSUME LoopAssumption, SessionAll, NEW s \in Streams, LoopStep(s)
  PROVE  StreamKeeps(s) /\ stage[s] \in Unsaved \ {"idle"} /\ stage'[s] \in Unsaved \ {"idle"}
BY answers_Keeps, blank_Keeps, calls_tools_Keeps, tools_Keeps, force_Keeps,
    model_fails_Keeps,
   audit_Keeps DEF LoopStep

LEMMA IdleKeeps ==
  ASSUME LoopAssumption, SessionAll, NEW s \in Streams, NEW to \in Steps,
         stage' = [stage EXCEPT ![s] = to],
         loop' = [loop EXCEPT ![s] = Idle],
         \A q \in Streams \ {s} : bubble'[q] = bubble[q], DOMAIN bubble' = Streams,
         to \in {"idle", "created", "routed"} => bubble'[s] = << >>,
         to \notin {"model", "tools", "audit"},
         to \in {"save", "save_failed"} => ~ ModelText(bubble'[s])
  PROVE  StreamKeeps(s) /\ stage'[s] = to /\ loop'[s] = Idle
<1>1. /\ stage \in [Streams -> Steps] /\ DOMAIN loop = Streams
  BY DEF SessionAll, TablesTyped
<1>2. /\ stage'[s] = to /\ stage' \in [Streams -> Steps] /\ loop'[s] = Idle
      /\ DOMAIN loop' = Streams
  BY <1>1
<1>3. LocalsTrue(s, loop'[s]) /\ loop'[s].audit = NoAudit /\ loop'[s].round = 0
  BY <1>2, IdleIsTrue
<1>4. StreamInOrder(s)' BY <1>2, <1>3 DEF StreamInOrder
<1>5. \A q \in Streams \ {s} : stage'[q] = stage[q] /\ loop'[q] = loop[q]
  BY <1>1
<1> QED BY <1>2, <1>3, <1>4, <1>5 DEF StreamKeeps

LEMMA get_context_Keeps ==
  ASSUME LoopAssumption, SessionAll, NEW s \in Streams, get_context(s)
  PROVE  SessionAll'
<1>1. PICK mode \in Modes[s] :
        /\ Go(s, "created", "routed")
        /\ loop' = [loop EXCEPT ![s] = Started(mode, recent_citations)]
        /\ UNCHANGED <<bubble, rows, counts>>
  BY DEF get_context
<1>2. /\ stage \in [Streams -> Steps] /\ DOMAIN loop = Streams /\ DOMAIN bubble = Streams
      /\ StreamInOrder(s) /\ loop[s].round \in Nat
  BY DEF SessionAll, TablesTyped, LocalsTrue, LocalsTyped
<1>3. stage[s] = "created" /\ stage'[s] = "routed" /\ stage' \in [Streams -> Steps]
  BY <1>1, <1>2 DEF Go, Steps
<1>4. loop'[s] = Started(mode, recent_citations) BY <1>1, <1>2
<1>5. LocalsTrue(s, loop'[s]) /\ loop'[s].audit = NoAudit /\ loop'[s].round = 0
  <2> DEFINE history == recent_citations
  <2>1. loop'[s] = Started(mode, history) BY <1>4
  <2> HIDE DEF history
  <2> QED BY <2>1, StartedIsTrue
<1>6. bubble'[s] = << >> BY <1>1, <1>2, <1>3 DEF StreamInOrder
<1>7. StreamInOrder(s)' BY <1>3, <1>5, <1>6 DEF StreamInOrder
<1>8. /\ \A q \in Streams \ {s} :
           stage'[q] = stage[q] /\ loop'[q] = loop[q] /\ bubble'[q] = bubble[q]
      /\ DOMAIN loop' = Streams /\ DOMAIN bubble' = Streams
  BY <1>1, <1>2 DEF Go
<1>9. StreamKeeps(s) BY <1>3, <1>5, <1>7, <1>8 DEF StreamKeeps
<1> QED BY <1>1, <1>3, <1>9, KeepsRows DEF Unsaved, Steps

LEMMA research_Keeps ==
  ASSUME LoopAssumption, SessionAll, NEW s \in Streams, research(s)
  PROVE  SessionAll'
<1>1. /\ Go(s, "routed", "model") /\ UNCHANGED <<loop, bubble, rows, counts>>
  BY DEF research
<1>2. /\ stage \in [Streams -> Steps] /\ DOMAIN loop = Streams /\ DOMAIN bubble = Streams
      /\ StreamInOrder(s) /\ LocalsTrue(s, loop[s])
  BY DEF SessionAll, TablesTyped
<1>3. stage[s] = "routed" /\ stage'[s] = "model" /\ stage' \in [Streams -> Steps]
  BY <1>1, <1>2 DEF Go, Steps
<1>4. loop' = loop /\ bubble' = bubble BY <1>1
<1>5. 0 < Rounds[s] BY DEF LoopAssumption
<1>6. StreamInOrder(s)' BY <1>2, <1>3, <1>4, <1>5 DEF StreamInOrder
<1>7. \A q \in Streams \ {s} : stage'[q] = stage[q]
  BY <1>1, <1>2 DEF Go
<1>8. StreamKeeps(s) BY <1>2, <1>3, <1>4, <1>6, <1>7 DEF StreamKeeps
<1> QED BY <1>1, <1>3, <1>8, KeepsRows DEF Unsaved, Steps

LEMMA Answered_Keeps ==
  ASSUME LoopAssumption, SessionAll, NEW s \in Streams, NEW pieces, ~ ModelText(pieces),
         NEW to \in {"save", "save_failed"}, Answered(s, pieces, to)
  PROVE  SessionAll'
<1>1. /\ Go(s, "routed", to) /\ loop' = [loop EXCEPT ![s] = Idle]
      /\ bubble' = [bubble EXCEPT ![s] = pieces] /\ UNCHANGED <<rows, counts>>
  BY DEF Answered
<1>2. /\ stage \in [Streams -> Steps] /\ DOMAIN bubble = Streams
  BY DEF SessionAll, TablesTyped
<1>3. bubble'[s] = pieces /\ DOMAIN bubble' = Streams
      /\ \A q \in Streams \ {s} : bubble'[q] = bubble[q]
  BY <1>1, <1>2
<1>4. to \in Steps /\ to \notin {"idle", "created", "routed", "model", "tools", "audit"}
  BY DEF Steps
<1>5. StreamKeeps(s) /\ stage'[s] = to
  BY <1>1, <1>3, <1>4, IdleKeeps DEF Go
<1>6. stage[s] = "routed" BY <1>1 DEF Go
<1> QED BY <1>1, <1>5, <1>6, KeepsRows DEF Unsaved, Steps

LEMMA ChatIsNoModelText ==
  ~ ModelText(Chat) /\ ~ ModelText(<< >>) /\ ~ ModelText(<<Failure>>)
<1>1. ~ ModelText(<< >>) BY DEF ModelText
<1>2. ASSUME NEW p, p.kind \notin {"answer", "narrated"} PROVE ~ ModelText(<<p>>)
  BY <1>2 DEF ModelText
<1>3. Failure.kind = "failure" /\ Piece("chat", << >>).kind = "chat"
  BY DEF Failure, Piece
<1> QED BY <1>1, <1>2, <1>3 DEF Chat

LEMMA routed_Keeps ==
  ASSUME LoopAssumption, SessionAll, NEW s \in Streams,
         plain_chat(s) \/ chat_error(s) \/ llm_required(s)
  PROVE  SessionAll'
<1>1. CASE plain_chat(s)
  BY <1>1, ChatIsNoModelText, Answered_Keeps DEF plain_chat
<1>2. CASE chat_error(s)
  BY <1>2, ChatIsNoModelText, Answered_Keeps DEF chat_error
<1>3. CASE llm_required(s)
  BY <1>3, ChatIsNoModelText, Answered_Keeps DEF llm_required
<1> QED BY <1>1, <1>2, <1>3

LEMMA stream_raises_Keeps ==
  ASSUME LoopAssumption, SessionAll, NEW s \in Streams, stream_raises(s)
  PROVE  SessionAll'
<1>1. /\ stage[s] \in {"routed", "model", "tools", "force", "audit"}
      /\ stage' = [stage EXCEPT ![s] = "save_raised"] /\ loop' = [loop EXCEPT ![s] = Idle]
      /\ UNCHANGED <<bubble, rows, counts>>
  BY DEF stream_raises
<1>2. DOMAIN bubble = Streams BY DEF SessionAll, TablesTyped
<1>3. StreamKeeps(s) /\ stage'[s] = "save_raised"
  BY <1>1, <1>2, IdleKeeps DEF Steps
<1> QED BY <1>1, <1>3, KeepsRows DEF Unsaved, Steps

LEMMA research_step_Keeps ==
  ASSUME LoopAssumption, SessionAll, NEW s \in Streams, research_step(s)
  PROVE  SessionAll'
BY loop_Keeps, KeepsRows DEF research_step
-----------------------------------------------------------------------------
(* The steps that change the rows.                                            *)
LEMMA create_turn_Keeps ==
  ASSUME LoopAssumption, SessionAll, NEW s \in Streams, create_turn(s)
  PROVE  SessionAll'
<1>1. /\ Go(s, "idle", "created") /\ turn' = [turn EXCEPT ![s] = "running"]
      /\ created' = Append(created, s)
      /\ UNCHANGED <<loop, bubble, message, citations, recent, counts>>
  BY DEF create_turn
<1>2. /\ TablesTyped /\ LocalsTrue(s, loop[s]) /\ StreamInOrder(s) /\ RowsTrue(s)
  BY DEF SessionAll
<1>3. /\ stage[s] = "idle" /\ stage'[s] = "created" /\ stage' \in [Streams -> Steps]
      /\ turn[s] = "none" /\ turn'[s] = "running" /\ ~ Exists(s)
      /\ message[s] = NoMessage /\ citations[s] = << >>
  BY <1>1, <1>2 DEF Go, TablesTyped, Steps, RowsTrue, RowsInOrder, Unsaved
<1>4. created \in Seq(Streams) BY <1>2 DEF TablesTyped
<1>5. /\ created' \in Seq(Streams) /\ Len(created') = Len(created) + 1
      /\ created'[Len(created) + 1] = s
      /\ \A i \in 1 .. Len(created) : created'[i] = created[i]
  BY <1>1, <1>4, AppendProperties
<1>6. Len(created) \in Nat /\ DOMAIN created = 1 .. Len(created)
      /\ DOMAIN created' = 1 .. Len(created) + 1
  BY <1>4, <1>5
<1>7. /\ Exists(s)' /\ \A q \in Streams \ {s} : Exists(q)' <=> Exists(q)
  <2>1. Len(created) + 1 \in DOMAIN created' BY <1>6
  <2>2. Exists(s)' BY <1>5, <2>1 DEF Exists
  <2>3. ASSUME NEW q \in Streams \ {s} PROVE Exists(q)' <=> Exists(q)
    <3>1. ASSUME NEW i \in DOMAIN created', created'[i] = q
          PROVE  i \in DOMAIN created /\ created[i] = q
      BY <1>5, <1>6, <2>3, <3>1
    <3>2. ASSUME NEW i \in DOMAIN created, created[i] = q
          PROVE  i \in DOMAIN created' /\ created'[i] = q
      BY <1>5, <1>6, <3>2
    <3> QED BY <3>1, <3>2 DEF Exists
  <2> QED BY <2>2, <2>3
<1>8. ASSUME NEW i \in DOMAIN created', NEW j \in DOMAIN created', created'[i] = created'[j]
      PROVE  i = j
  <2>1. \A k \in 1 .. Len(created) : created[k] # s BY <1>3, <1>6 DEF Exists
  <2>2. \A k, m \in 1 .. Len(created) : created[k] = created[m] => k = m
    BY <1>2, <1>6 DEF TablesTyped
  <2>3. \A k \in DOMAIN created' : k \in 1 .. Len(created) \/ k = Len(created) + 1
    BY <1>6
  <2>4. CASE i \in 1 .. Len(created) /\ j \in 1 .. Len(created)
    <3>1. created'[i] = created[i] /\ created'[j] = created[j] BY <1>5, <2>4
    <3> QED BY <1>8, <2>2, <2>4, <3>1
  <2>5. CASE i = Len(created) + 1 /\ j \in 1 .. Len(created)
    BY <1>5, <1>8, <2>1, <2>5
  <2>6. CASE i \in 1 .. Len(created) /\ j = Len(created) + 1
    BY <1>5, <1>8, <2>1, <2>6
  <2> QED BY <2>3, <2>4, <2>5, <2>6
<1>9. StreamKeeps(s)
  <2>1. loop' = loop /\ bubble' = bubble BY <1>1
  <2>2. StreamInOrder(s)' BY <1>2, <1>3, <2>1 DEF StreamInOrder
  <2>3. \A q \in Streams \ {s} : stage'[q] = stage[q] BY <1>1, <1>2 DEF Go, TablesTyped
  <2> QED BY <1>2, <1>3, <2>1, <2>2, <2>3 DEF StreamKeeps, TablesTyped
<1>10. message' = message /\ citations' = citations /\ loop' = loop BY <1>1
<1>11. RowsTrue(s)'
  <2>1. loop[s].audit = NoAudit BY <1>2, <1>3 DEF StreamInOrder
  <2>2. NoMessage.audit = NoAudit /\ ~ ModelText(NoMessage.text)
    BY DEF NoMessage, ModelText
  <2> QED BY <1>3, <1>7, <1>10, <2>1, <2>2 DEF RowsTrue, RowsInOrder
<1>12. /\ turn' \in [Streams -> {"none", "running", "completed", "failed", "deleted"}]
       /\ DOMAIN message' = Streams /\ DOMAIN citations' = Streams
       /\ \A q \in Streams \ {s} :
            turn'[q] = turn[q] /\ message'[q] = message[q] /\ citations'[q] = citations[q]
  BY <1>1, <1>2, <1>10 DEF TablesTyped
<1> QED BY <1>5, <1>7, <1>8, <1>9, <1>11, <1>12, KeepsAll

(* A step that leaves "created" and the rows of other turns alone.            *)
LEMMA KeepsTurns ==
  ASSUME SessionAll, NEW s \in Streams, StreamKeeps(s), RowsTrue(s)', created' = created,
         turn' \in [Streams -> {"none", "running", "completed", "failed", "deleted"}],
         DOMAIN message' = Streams, DOMAIN citations' = Streams,
         \A q \in Streams \ {s} :
           turn'[q] = turn[q] /\ message'[q] = message[q] /\ citations'[q] = citations[q]
  PROVE  SessionAll'
<1>1. \A q \in Streams : Exists(q)' <=> Exists(q) BY DEF Exists
<1>2. TablesTyped BY DEF SessionAll
<1> QED BY <1>1, <1>2, KeepsAll DEF TablesTyped

LEMMA append_Keeps ==
  ASSUME LoopAssumption, SessionAll, NEW s \in Streams, append(s)
  PROVE  SessionAll'
<1> DEFINE saved == [text |-> Text(s), error |-> IsError(s), audit |-> loop[s].audit]
           to == AfterSave(s)
           resolved == loop[s].audit.rows
<1>1. /\ stage[s] \in {"save", "save_failed", "save_raised"}
      /\ stage' = [stage EXCEPT ![s] = to]
      /\ message' = IF Saves(s) THEN [message EXCEPT ![s] = saved] ELSE message
      /\ bubble' = [bubble EXCEPT ![s] = << >>]
      /\ loop' = IF to = "cite" THEN loop ELSE [loop EXCEPT ![s] = Idle]
      /\ UNCHANGED <<turn, created, citations, recent, counts>>
  BY DEF append
<1>2. TablesTyped /\ LocalsTrue(s, loop[s]) /\ StreamInOrder(s) /\ RowsTrue(s)
  BY DEF SessionAll
<1>3. /\ to = IF Cites(s) THEN "cite" ELSE IF stage[s] = "save" THEN "complete" ELSE "fail"
      /\ to \in {"cite", "complete", "fail"}
  BY <1>1 DEF AfterSave, Ending
<1>4. /\ loop[s].audit # NoAudit =>
           /\ stage[s] = "save" /\ bubble[s] = loop[s].audit.text
           /\ resolved = [a \in DOMAIN resolved |-> resolved[a]]
           /\ DOMAIN resolved \subseteq Nat
      /\ stage[s] \in {"save", "save_failed"} /\ loop[s].audit = NoAudit =>
           ~ ModelText(bubble[s])
  BY <1>1, <1>2 DEF StreamInOrder, RowsTrue, RowsInOrder
<1>5. to = "cite" =>
        loop[s].audit # NoAudit /\ Saves(s) /\ ToCite(s) = resolved /\ DOMAIN resolved # {}
  BY <1>3 DEF Cites, ToCite
<1>6. /\ stage'[s] = to /\ stage' \in [Streams -> Steps]
      /\ \A q \in Streams \ {s} : stage'[q] = stage[q]
  BY <1>1, <1>2, <1>3 DEF TablesTyped, Steps
<1>7. /\ message[s] = NoMessage /\ citations[s] = << >> /\ turn[s] \notin {"none", "completed"}
      /\ turn' = turn /\ created' = created /\ citations' = citations
      /\ turn[s] \in {"none", "running", "completed", "failed", "deleted"}
  BY <1>1, <1>2 DEF RowsTrue, RowsInOrder, Unsaved, Steps, TablesTyped
<1>8. /\ message'[s] = IF Saves(s) THEN saved ELSE NoMessage
      /\ DOMAIN message' = Streams
      /\ \A q \in Streams \ {s} : message'[q] = message[q]
  BY <1>1, <1>2, <1>7 DEF TablesTyped
<1>9. /\ loop'[s] = IF to = "cite" THEN loop[s] ELSE Idle
      /\ DOMAIN loop' = Streams /\ \A q \in Streams \ {s} : loop'[q] = loop[q]
      /\ DOMAIN bubble' = Streams /\ \A q \in Streams \ {s} : bubble'[q] = bubble[q]
  BY <1>1, <1>2 DEF TablesTyped
<1>10. NoMessage.audit = NoAudit /\ ~ ModelText(NoMessage.text)
  BY DEF NoMessage, ModelText
<1>11. saved.text = Text(s) /\ saved.error = IsError(s) /\ saved.audit = loop[s].audit
  OBVIOUS
<1> HIDE DEF saved, to, resolved
<1>12. LocalsTrue(s, loop'[s]) /\ (to # "cite" => loop'[s].audit = NoAudit)
  BY <1>2, <1>9, IdleIsTrue
<1>13. StreamInOrder(s)' BY <1>3, <1>6, <1>12 DEF StreamInOrder
<1>14. StreamKeeps(s) BY <1>6, <1>9, <1>12, <1>13 DEF StreamKeeps
<1>15. Saves(s) /\ loop[s].audit # NoAudit => Text(s) = loop[s].audit.text
  BY <1>4 DEF Saves, Text
<1>16. Saves(s) /\ loop[s].audit = NoAudit /\ ~ IsError(s) => ~ ModelText(Text(s))
  BY <1>1, <1>4 DEF Saves, Text, IsError
<1>17. Saves(s) /\ loop[s].audit # NoAudit /\ to # "cite" => resolved = << >>
  <2> SUFFICES ASSUME Saves(s), loop[s].audit # NoAudit, to # "cite" PROVE resolved = << >>
    OBVIOUS
  <2>1. ToCite(s) = resolved BY DEF ToCite, resolved
  <2>2. DOMAIN resolved = {} BY <1>3, <2>1 DEF Cites
  <2>3. resolved = [a \in {} |-> resolved[a]] BY <1>4, <2>2
  <2> QED BY <2>3
<1>18. RowsInOrder(s)'
  <2>1. loop'[s].audit # NoAudit => to = "cite" /\ loop'[s] = loop[s] BY <1>9, <1>12
  <2>2. ASSUME to = "cite"
        PROVE  /\ loop'[s] = loop[s] /\ loop[s].audit # NoAudit /\ Saves(s)
               /\ message'[s].audit = loop'[s].audit /\ message'[s] # NoMessage
               /\ Uncited(s)' # {} /\ DOMAIN citations'[s] = {}
    <3>1. loop'[s] = loop[s] /\ loop[s].audit # NoAudit /\ Saves(s)
      BY <1>5, <1>9, <2>2
    <3>2. message'[s].audit = loop'[s].audit /\ message'[s] # NoMessage
      BY <1>8, <1>10, <1>11, <3>1
    <3>3. DOMAIN citations'[s] = {} BY <1>7
    <3>4. ToCite(s)' = resolved BY <3>1 DEF ToCite, resolved
    <3> QED BY <1>5, <2>2, <3>1, <3>2, <3>3, <3>4 DEF Uncited
  <2>3. ASSUME to = "complete", message'[s].audit # NoAudit
        PROVE  citations'[s] = message'[s].audit.rows
    <3>1. Saves(s) /\ message'[s].audit = loop[s].audit BY <1>8, <1>10, <1>11, <2>3
    <3> QED BY <1>7, <1>17, <2>3, <3>1 DEF resolved
  <2> QED BY <1>3, <1>4, <1>6, <1>7, <2>1, <2>2, <2>3 DEF RowsInOrder, Unsaved, resolved
<1>19. RowsTrue(s)'
  <2>1. Exists(s)' <=> Exists(s) BY <1>7 DEF Exists
  <2>2. Exists(s) <=> turn[s] \in {"running", "completed", "failed"}
    BY <1>2 DEF RowsTrue
  <2>3. message'[s].audit # NoAudit => message'[s].text = message'[s].audit.text
    BY <1>8, <1>10, <1>11, <1>15
  <2>4. (message'[s].audit = NoAudit /\ ~ message'[s].error) => ~ ModelText(message'[s].text)
    BY <1>8, <1>10, <1>11, <1>16
  <2>5. stage'[s] \notin {"idle", "done", "raised"} BY <1>3, <1>6
  <2> QED BY <1>7, <1>18, <2>1, <2>2, <2>3, <2>4, <2>5 DEF RowsTrue
<1> QED BY <1>2, <1>7, <1>8, <1>14, <1>19, KeepsTurns DEF TablesTyped

(* The requests that stop without another row.                                *)
LEMMA record_raises_Keeps ==
  ASSUME LoopAssumption, SessionAll, NEW s \in Streams, record_raises(s)
  PROVE  SessionAll'
<1>1. /\ message[s] = NoMessage \/ ~ Exists(s)
      /\ Go(s, "cite", "raised") /\ loop' = [loop EXCEPT ![s] = Idle]
      /\ UNCHANGED <<bubble, rows, counts>>
  BY DEF record_raises
<1>2. TablesTyped /\ RowsTrue(s) BY DEF SessionAll
<1>3. StreamKeeps(s) /\ stage'[s] = "raised" /\ loop'[s] = Idle
  BY <1>1, <1>2, IdleKeeps DEF Go, Steps, TablesTyped
<1>4. stage[s] = "cite" BY <1>1 DEF Go
<1>5. /\ turn' = turn /\ created' = created /\ message' = message /\ citations' = citations
      /\ Exists(s)' <=> Exists(s)
  BY <1>1 DEF rows, Exists
<1>6. turn[s] \notin {"none", "completed", "running"}
  BY <1>1, <1>2, <1>4 DEF RowsTrue, RowsInOrder
<1>7. loop'[s].audit = NoAudit BY <1>3, IdleIsTrue
<1>8. RowsTrue(s)'
  BY <1>2, <1>3, <1>5, <1>6, <1>7 DEF RowsTrue, RowsInOrder, Unsaved
<1> QED BY <1>2, <1>3, <1>5, <1>8, KeepsTurns DEF TablesTyped

LEMMA dies_Keeps ==
  ASSUME LoopAssumption, SessionAll, NEW s \in Streams, dies(s)
  PROVE  SessionAll'
<1>1. /\ stage[s] \notin {"idle", "done", "raised", "dead"}
      /\ stage' = [stage EXCEPT ![s] = "dead"] /\ loop' = [loop EXCEPT ![s] = Idle]
      /\ bubble' = [bubble EXCEPT ![s] = << >>] /\ UNCHANGED <<rows, deletes>>
  BY DEF dies
<1>2. TablesTyped /\ RowsTrue(s) BY DEF SessionAll
<1>3. DOMAIN bubble' = Streams /\ \A q \in Streams \ {s} : bubble'[q] = bubble[q]
  BY <1>1, <1>2 DEF TablesTyped
<1>4. StreamKeeps(s) /\ stage'[s] = "dead" /\ loop'[s] = Idle
  BY <1>1, <1>3, IdleKeeps DEF Steps
<1>5. /\ turn' = turn /\ created' = created /\ message' = message /\ citations' = citations
      /\ Exists(s)' <=> Exists(s)
  BY <1>1 DEF rows, Exists
<1>6. turn[s] \notin {"none", "completed"}
  BY <1>1, <1>2 DEF RowsTrue, RowsInOrder
<1>7. loop'[s].audit = NoAudit BY <1>4, IdleIsTrue
<1>8. RowsTrue(s)'
  BY <1>2, <1>4, <1>5, <1>6, <1>7 DEF RowsTrue, RowsInOrder, Unsaved
<1> QED BY <1>2, <1>4, <1>5, <1>8, KeepsTurns DEF TablesTyped

LEMMA settle_Keeps ==
  ASSUME LoopAssumption, SessionAll, NEW s \in Streams, settle(s)
  PROVE  SessionAll'
<1>1. /\ stage[s] \in {"complete", "fail"} /\ stage' = [stage EXCEPT ![s] = "done"]
      /\ turn' = IF Exists(s) THEN [turn EXCEPT ![s] = SettledAs(s)] ELSE turn
      /\ UNCHANGED <<loop, bubble, created, message, citations, recent, counts>>
  BY DEF settle
<1>2. TablesTyped /\ LocalsTrue(s, loop[s]) /\ StreamInOrder(s) /\ RowsTrue(s)
  BY DEF SessionAll
<1>3. /\ loop' = loop /\ bubble' = bubble /\ created' = created
      /\ message' = message /\ citations' = citations
      /\ Exists(s)' <=> Exists(s)
  BY <1>1 DEF Exists
<1>4. /\ stage'[s] = "done" /\ stage' \in [Streams -> Steps]
      /\ \A q \in Streams \ {s} : stage'[q] = stage[q]
  BY <1>1, <1>2 DEF TablesTyped, Steps
<1>5. loop[s].audit = NoAudit BY <1>1, <1>2 DEF StreamInOrder
<1>6. StreamKeeps(s)
  <2>1. StreamInOrder(s)' BY <1>3, <1>4, <1>5 DEF StreamInOrder
  <2> QED BY <1>2, <1>3, <1>4, <2>1 DEF StreamKeeps, TablesTyped
<1>7. /\ turn'[s] = IF Exists(s) THEN SettledAs(s) ELSE turn[s]
      /\ turn' \in [Streams -> {"none", "running", "completed", "failed", "deleted"}]
      /\ \A q \in Streams \ {s} : turn'[q] = turn[q]
  BY <1>1, <1>2 DEF TablesTyped, SettledAs
<1>8. /\ SettledAs(s) \in {"completed", "failed"}
      /\ SettledAs(s) = "completed" => stage[s] = "complete"
  BY DEF SettledAs
<1>9. RowsTrue(s)'
  <2>1. ~ Exists(s) => turn[s] \notin {"none", "running", "completed", "failed"}
    BY <1>1, <1>2 DEF RowsTrue, RowsInOrder
  <2>2. turn'[s] = "completed" /\ message[s].audit # NoAudit =>
          citations[s] = message[s].audit.rows
    BY <1>2, <1>7, <1>8, <2>1 DEF RowsTrue, RowsInOrder
  <2>3. turn'[s] \notin {"none", "running"} BY <1>7, <1>8, <2>1
  <2>4. Exists(s) <=> turn'[s] \in {"running", "completed", "failed"}
    BY <1>7, <1>8, <2>1
  <2> QED BY <1>2, <1>3, <1>4, <1>5, <2>2, <2>3, <2>4 DEF RowsTrue, RowsInOrder, Unsaved
<1> QED BY <1>2, <1>3, <1>6, <1>7, <1>9, KeepsTurns DEF TablesTyped
(* One row more: the citations recorded so far are a part of those resolved,  *)
(* and with the last of them the request goes on to complete its turn.        *)
LEMMA record_message_citation_Keeps ==
  ASSUME LoopAssumption, SessionAll, NEW s \in Streams, record_message_citation(s)
  PROVE  SessionAll'
<1> DEFINE a == Least(Uncited(s))
           resolved == loop[s].audit.rows
           now == [x \in DOMAIN citations[s] \cup {a} |-> ToCite(s)[x]]
<1>1. /\ stage[s] = "cite" /\ Uncited(s) # {} /\ message[s] # NoMessage /\ Exists(s)
      /\ citations' = [citations EXCEPT ![s] = [x \in DOMAIN @ \cup {a} |-> ToCite(s)[x]]]
      /\ IF Uncited(s) = {a}
         THEN Go(s, "cite", "complete") /\ loop' = [loop EXCEPT ![s] = Idle]
         ELSE UNCHANGED <<stage, loop>>
      /\ UNCHANGED <<bubble, turn, created, message, counts>>
  BY DEF record_message_citation
<1>2. TablesTyped /\ LocalsTrue(s, loop[s]) /\ StreamInOrder(s) /\ RowsTrue(s)
  BY DEF SessionAll
<1>3. /\ loop[s].audit # NoAudit /\ ToCite(s) = resolved
      /\ message[s].audit = loop[s].audit
      /\ DOMAIN resolved \subseteq Nat /\ resolved = [x \in DOMAIN resolved |-> resolved[x]]
      /\ DOMAIN citations[s] \subseteq DOMAIN resolved
      /\ \A x \in DOMAIN citations[s] : citations[s][x] = resolved[x]
  BY <1>1, <1>2 DEF RowsTrue, RowsInOrder, ToCite
<1>4. Uncited(s) = DOMAIN resolved \ DOMAIN citations[s] BY <1>3 DEF Uncited
<1>5. a \in Uncited(s)
  <2>1. Uncited(s) \subseteq Nat BY <1>3, <1>4
  <2> QED BY <1>1, <2>1, LeastIs
<1>6. /\ citations'[s] = now /\ DOMAIN citations' = Streams
      /\ \A q \in Streams \ {s} : citations'[q] = citations[q]
  BY <1>1, <1>2 DEF TablesTyped
<1>7. /\ DOMAIN now = DOMAIN citations[s] \cup {a}
      /\ \A x \in DOMAIN now : now[x] = resolved[x]
      /\ DOMAIN now \subseteq DOMAIN resolved /\ now # << >>
  <2>1. DOMAIN now = DOMAIN citations[s] \cup {a} OBVIOUS
  <2>2. a \in DOMAIN now BY <2>1
  <2>3. \A x \in DOMAIN now : now[x] = resolved[x] BY <1>3
  <2>4. DOMAIN << >> = {} OBVIOUS
  <2> HIDE DEF now
  <2> QED BY <1>3, <1>4, <1>5, <2>1, <2>2, <2>3, <2>4
<1>8. /\ bubble' = bubble /\ turn' = turn /\ created' = created /\ message' = message
      /\ Exists(s)' <=> Exists(s)
  BY <1>1 DEF Exists
<1>9. turn[s] \notin {"none", "completed"} BY <1>1, <1>2 DEF RowsTrue, RowsInOrder
<1> HIDE DEF now, a
<1>10. CASE Uncited(s) = {a}
  <2>1. Go(s, "cite", "complete") /\ loop' = [loop EXCEPT ![s] = Idle] BY <1>1, <1>10
  <2>2. StreamKeeps(s) /\ stage'[s] = "complete" /\ loop'[s] = Idle
    BY <1>2, <1>8, <2>1, IdleKeeps DEF Go, Steps, TablesTyped
  <2>3. now = resolved
    <3>1. DOMAIN now = DOMAIN resolved BY <1>3, <1>4, <1>7, <1>10
    <3>2. now = [x \in DOMAIN now |-> resolved[x]] BY <1>3, <1>7 DEF now
    <3> QED BY <1>3, <3>1, <3>2
  <2>4. loop'[s].audit = NoAudit BY <2>2, IdleIsTrue
  <2>5. RowsTrue(s)'
    <3>1. citations'[s] = message'[s].audit.rows BY <1>3, <1>6, <1>8, <2>3
    <3>2. RowsInOrder(s)'
      BY <1>2, <1>8, <1>9, <2>2, <2>4, <3>1 DEF RowsTrue, RowsInOrder, Unsaved
    <3> QED BY <1>1, <1>2, <1>8, <1>9, <2>2, <3>1, <3>2 DEF RowsTrue
  <2> QED BY <1>2, <1>6, <1>8, <2>2, <2>5, KeepsTurns DEF TablesTyped
<1>11. CASE Uncited(s) # {a}
  <2>1. stage' = stage /\ loop' = loop BY <1>1, <1>11
  <2>2. StreamKeeps(s)
    <3>1. StreamInOrder(s)' BY <1>2, <1>8, <2>1 DEF StreamInOrder
    <3> QED BY <1>2, <1>8, <2>1, <3>1 DEF StreamKeeps, TablesTyped
  <2>3. Uncited(s)' # {}
    <3>1. Uncited(s)' = DOMAIN resolved \ DOMAIN now
      BY <1>3, <1>6, <2>1 DEF Uncited, ToCite
    <3>2. PICK x \in Uncited(s) : x # a BY <1>5, <1>11
    <3> QED BY <1>4, <1>7, <3>1, <3>2
  <2>4. RowsInOrder(s)'
    <3>1. message'[s].audit = loop'[s].audit /\ loop'[s].audit.rows = resolved
      BY <1>3, <1>8, <2>1
    <3>2. stage'[s] = "cite" /\ message'[s] # NoMessage /\ turn'[s] \notin {"none", "completed"}
      BY <1>1, <1>8, <1>9, <2>1
    <3>3. /\ DOMAIN citations'[s] \subseteq DOMAIN resolved
          /\ \A x \in DOMAIN citations'[s] : citations'[s][x] = resolved[x]
      BY <1>6, <1>7
    <3> HIDE DEF resolved
    <3>4. loop'[s].audit # NoAudit BY <1>3, <2>1
    <3> QED BY <1>3, <2>3, <3>1, <3>2, <3>3, <3>4 DEF RowsInOrder, Unsaved
  <2>5. RowsTrue(s)'
    BY <1>1, <1>2, <1>8, <1>9, <2>1, <2>4 DEF RowsTrue
  <2> QED BY <1>2, <1>6, <1>8, <2>2, <2>5, KeepsTurns DEF TablesTyped
<1> QED BY <1>10, <1>11

(* The newest turn goes, with its message and its citations.                  *)
LEMMA delete_last_turn_Keeps ==
  ASSUME LoopAssumption, SessionAll, delete_last_turn
  PROVE  SessionAll'
<1>1. TablesTyped /\ created # << >> BY DEF SessionAll, delete_last_turn
<1>2. created \in Seq(Streams) BY <1>1 DEF TablesTyped
<1>3. Len(created) \in Nat \ {0} /\ created[Len(created)] \in Streams BY <1>1, <1>2
<1>4. PICK n \in Nat \ {0} : n = Len(created) BY <1>3
<1>5. PICK s \in Streams : s = created[n] BY <1>3, <1>4
<1>6. /\ turn' = [turn EXCEPT ![s] = "deleted"]
      /\ created' = SubSeq(created, 1, n - 1)
      /\ message' = [message EXCEPT ![s] = NoMessage]
      /\ citations' = [citations EXCEPT ![s] = << >>]
      /\ UNCHANGED <<stage, loop, bubble, deaths>>
  BY <1>4, <1>5 DEF delete_last_turn, CitationsWithout
<1>7. TablesTyped BY <1>1
<1>8. /\ DOMAIN created = 1 .. n /\ created[n] = s
      /\ \A i, j \in 1 .. n : created[i] = created[j] => i = j
  <2>1. DOMAIN created = 1 .. n BY <1>2, <1>4
  <2> QED BY <1>5, <1>7, <2>1 DEF TablesTyped
<1>9. /\ DOMAIN created' = 1 .. n - 1
      /\ \A i \in 1 .. n - 1 : created'[i] = created[i]
      /\ created' \in Seq(Streams)
  <2>1. \A i \in 1 .. n - 1 : created[i] \in Streams BY <1>2, <1>4
  <2>2. /\ created' \in Seq(Streams) /\ Len(created') = IF 1 <= n - 1 THEN n - 1 - 1 + 1 ELSE 0
        /\ \A i \in 1 .. n - 1 - 1 + 1 : created'[i] = created[1 + i - 1]
    BY <1>6, <2>1, SubSeqProperties
  <2>3. Len(created') = n - 1 BY <1>4, <2>2
  <2>4. \A i \in 1 .. n - 1 : created'[i] = created[i]
    <3>1. \A i \in 1 .. n - 1 : i \in 1 .. n - 1 - 1 + 1 /\ 1 + i - 1 = i BY <1>4
    <3> QED BY <2>2, <3>1
  <2> QED BY <2>2, <2>3, <2>4
<1>10. \A i, j \in DOMAIN created' : created'[i] = created'[j] => i = j
  <2>1. \A i \in 1 .. n - 1 : i \in 1 .. n BY <1>4
  <2> QED BY <1>8, <1>9, <2>1
<1>11. ~ Exists(s)'
  <2>1. ASSUME NEW i \in 1 .. n - 1 PROVE created[i] # s
    <3>1. i \in 1 .. n /\ n \in 1 .. n /\ i # n BY <1>4
    <3> QED BY <1>8, <3>1
  <2> QED BY <1>9, <2>1 DEF Exists
<1>12. \A q \in Streams \ {s} : Exists(q)' <=> Exists(q)
  <2>1. ASSUME NEW q \in Streams \ {s}, NEW i \in DOMAIN created', created'[i] = q
        PROVE  i \in DOMAIN created /\ created[i] = q
    <3>1. i \in 1 .. n - 1 BY <1>9
    <3>2. i \in 1 .. n BY <1>4, <3>1
    <3> QED BY <1>8, <1>9, <2>1, <3>1, <3>2
  <2>2. ASSUME NEW q \in Streams \ {s}, NEW i \in DOMAIN created, created[i] = q
        PROVE  i \in DOMAIN created' /\ created'[i] = q
    <3>1. i # n BY <1>8, <2>2
    <3>2. i \in 1 .. n - 1 BY <1>8, <3>1
    <3> QED BY <1>9, <2>2, <3>2
  <2> QED BY <2>1, <2>2 DEF Exists
<1>13. Exists(s)
  <2>1. n \in 1 .. n BY <1>4
  <2> QED BY <1>8, <2>1 DEF Exists
<1>14. LocalsTrue(s, loop[s]) /\ StreamInOrder(s) /\ RowsTrue(s)
  BY DEF SessionAll
<1>15. stage' = stage /\ loop' = loop /\ bubble' = bubble BY <1>6
<1>16. StreamKeeps(s)
  <2>1. StreamInOrder(s)' BY <1>14, <1>15 DEF StreamInOrder
  <2> QED BY <1>7, <1>14, <1>15, <2>1 DEF StreamKeeps, TablesTyped
<1>17. /\ turn'[s] = "deleted" /\ message'[s] = NoMessage /\ citations'[s] = << >>
       /\ turn' \in [Streams -> {"none", "running", "completed", "failed", "deleted"}]
       /\ DOMAIN message' = Streams /\ DOMAIN citations' = Streams
       /\ \A q \in Streams \ {s} :
            turn'[q] = turn[q] /\ message'[q] = message[q] /\ citations'[q] = citations[q]
  BY <1>6, <1>7 DEF TablesTyped
<1>18. RowsTrue(s)'
  <2>1. NoMessage.audit = NoAudit /\ ~ ModelText(NoMessage.text)
    BY DEF NoMessage, ModelText
  <2>2. stage[s] # "idle" BY <1>13, <1>14 DEF RowsTrue, RowsInOrder
  <2>3. stage[s] = "cite" => Uncited(s)' # {}
    <3>1. DOMAIN citations'[s] = {} BY <1>17
    <3>2. stage[s] = "cite" => Uncited(s) # {} BY <1>14 DEF RowsTrue, RowsInOrder
    <3>3. ToCite(s)' = ToCite(s) BY <1>15 DEF ToCite
    <3> QED BY <3>1, <3>2, <3>3 DEF Uncited
  <2>4. RowsInOrder(s)'
    BY <1>14, <1>15, <1>17, <2>1, <2>2, <2>3 DEF RowsTrue, RowsInOrder
  <2> QED BY <1>11, <1>17, <2>1, <2>4 DEF RowsTrue
<1> QED BY <1>9, <1>10, <1>12, <1>16, <1>17, <1>18, KeepsAll

-----------------------------------------------------------------------------
LEMMA ChatInitIsTrue ==
  ASSUME LoopAssumption, ChatInit
  PROVE  SessionAll
<1>1. TablesTyped
  BY DEF ChatInit, TablesTyped, Steps
<1>2. ASSUME NEW s \in Streams
      PROVE  LocalsTrue(s, loop[s]) /\ StreamInOrder(s) /\ RowsTrue(s)
  <2>1. /\ stage[s] = "idle" /\ loop[s] = Idle /\ bubble[s] = << >> /\ turn[s] = "none"
        /\ message[s] = NoMessage /\ citations[s] = << >> /\ ~ Exists(s)
    BY DEF ChatInit, Exists
  <2>2. LocalsTrue(s, loop[s]) /\ loop[s].audit = NoAudit /\ loop[s].round = 0
    BY <2>1, IdleIsTrue
  <2>3. NoMessage.audit = NoAudit /\ ~ ModelText(NoMessage.text)
    BY DEF NoMessage, ModelText
  <2>4. StreamInOrder(s) BY <2>1, <2>2 DEF StreamInOrder
  <2>5. RowsTrue(s) BY <2>1, <2>2, <2>3 DEF RowsTrue, RowsInOrder
  <2> QED BY <2>2, <2>4, <2>5
<1> QED BY <1>1, <1>2 DEF SessionAll

LEMMA ChatNextKeeps ==
  ASSUME LoopAssumption, SessionAll, [ChatNext]_chat_vars
  PROVE  SessionAll'
<1>1. CASE delete_last_turn BY <1>1, delete_last_turn_Keeps
<1>2. ASSUME NEW s \in Streams,
             \/ create_turn(s) \/ get_context(s)
             \/ research(s) \/ plain_chat(s) \/ chat_error(s) \/ llm_required(s)
             \/ research_step(s) \/ stream_raises(s)
             \/ append(s) \/ record_message_citation(s) \/ record_raises(s) \/ settle(s)
             \/ dies(s)
      PROVE  SessionAll'
  BY <1>2, create_turn_Keeps, get_context_Keeps, research_Keeps, routed_Keeps,
     research_step_Keeps, stream_raises_Keeps, append_Keeps, record_message_citation_Keeps,
     record_raises_Keeps, settle_Keeps, dies_Keeps
<1>3. CASE UNCHANGED chat_vars
  <2>1. /\ stage' = stage /\ loop' = loop /\ bubble' = bubble /\ turn' = turn
        /\ created' = created /\ message' = message /\ citations' = citations
    BY <1>3 DEF chat_vars
  <2>2. TablesTyped' BY <2>1 DEF SessionAll, TablesTyped
  <2>3. ASSUME NEW s \in Streams
        PROVE  LocalsTrue(s, loop'[s]) /\ StreamInOrder(s)' /\ RowsTrue(s)'
    <3>1. LocalsTrue(s, loop[s]) /\ StreamInOrder(s) /\ RowsTrue(s) BY DEF SessionAll
    <3> QED
      BY <2>1, <3>1 DEF StreamInOrder, RowsTrue, RowsInOrder, Exists, Uncited, ToCite
  <2> QED BY <2>2, <2>3 DEF SessionAll
<1> QED BY <1>1, <1>2, <1>3 DEF ChatNext

LEMMA SessionAlways == ChatSpec => []SessionAll
BY LoopAssumption, ChatInitIsTrue, ChatNextKeeps, PTL DEF ChatSpec

(* Turns, messages and citations agree: a completed turn has every citation   *)
(* its audit resolved, citations outlive neither their message nor their      *)
(* turn, and only a turn whose request is at work or has died is running.     *)
THEOREM SessionCorrect == ChatSpec => []SessionInv
BY SessionAlways, AllSays, PTL

(* An alias stands for the evidence that got it first or evidence similar to  *)
(* that, and the final aliases mean what the model meant by those it wrote.   *)
THEOREM CitationsAreTrue == ChatSpec => []AliasesAreTrue
BY SessionAlways, AllSays, PTL

(* A message with an audit is the text that was audited, a text of the model  *)
(* without one is marked as an error, and a verified answer cites nothing     *)
(* that is not there.                                                         *)
THEOREM AuditsHold == ChatSpec => []AuditHolds
BY SessionAlways, AllSays, PTL

(* An alias keeps its evidence.                                               *)
LEMMA LoopGrows ==
  ASSUME SessionAll, NEW s \in Streams, LoopStep(s)
  PROVE  \/ loop'[s].registry = NewRegistry
         \/ KeepsAliases(loop[s].registry, loop'[s].registry)
<1> DEFINE l == loop[s]
<1>1. DOMAIN loop = Streams /\ LocalsTyped(s, l) /\ Registered(l.registry)
  BY DEF SessionAll, TablesTyped, LocalsTrue
<1>2. DOMAIN l = {"mode", "history", "registry", "round", "todo", "used", "searches",
                  "failures", "late", "draft", "audit"}
  BY <1>1 DEF LocalsTyped, Idle
<1>3. ASSUME loop'[s].registry = l.registry
      PROVE  KeepsAliases(l.registry, loop'[s].registry)
  BY <1>3 DEF KeepsAliases
<1>4. CASE answers(s)
  <2>1. PICK marks \in Texts(s), kind \in {"answer", "narrated"} :
          loop' = [loop EXCEPT ![s] = Drafted(@, <<Piece(kind, marks)>>)]
    BY <1>4 DEF answers
  <2>2. loop'[s] = Drafted(l, <<Piece(kind, marks)>>) BY <1>1, <2>1
  <2> QED BY <1>3, <2>2, DraftedIsTrue, LoopAssumption DEF SessionAll
<1>5. CASE blank(s) BY <1>3, <1>5 DEF blank
<1>6. CASE calls_tools(s)
  <2>1. PICK todo : loop' = [loop EXCEPT ![s].todo = todo] BY <1>6 DEF calls_tools
  <2> QED BY <1>1, <1>2, <1>3, <2>1
<1>7. ASSUME NEW k, Called(s, k), DOMAIN k = DOMAIN l
      PROVE  loop'[s].registry = k.registry
  <2>1. PICK rest, round :
          loop' = [loop EXCEPT ![s] = [k EXCEPT !.todo = rest, !.round = round]]
    BY <1>7 DEF Called
  <2> QED BY <1>1, <1>2, <1>7, <2>1
<1>8. CASE skip(s)
  <2>1. Called(s, l) BY <1>8 DEF skip
  <2> QED BY <1>3, <1>7, <2>1
<1>9. ASSUME ~ CallRefused(s), stage[s] = "tools"
      PROVE  LET k == Counted(l, Head(l.todo))
             IN  k.registry = l.registry /\ DOMAIN k = DOMAIN l /\ DOMAIN l = DOMAIN Idle
  BY <1>1, <1>9, CountedIsTyped, LoopAssumption DEF LocalsTyped
<1> DEFINE k == Counted(l, Head(l.todo))
<1>10. CASE succeeds(s)
  <2>1. PICK n \in 0 .. MaxFound : \E items \in [1 .. n -> Evidence] :
          Called(s, [k EXCEPT !.registry = register_tool_evidence(@, items)])
    BY <1>10 DEF succeeds
  <2>2. PICK items \in [1 .. n -> Evidence] :
          Called(s, [k EXCEPT !.registry = register_tool_evidence(@, items)])
    BY <2>1
  <2>3. k.registry = l.registry /\ DOMAIN k = DOMAIN l BY <1>9, <1>10 DEF succeeds
  <2>4. items \in Seq(Evidence)
    <3>1. n \in Nat BY LoopAssumption DEF LoopAssumption
    <3> QED BY <3>1
  <2> HIDE DEF k, l
  <2> DEFINE m == [k EXCEPT !.registry = register_tool_evidence(@, items)]
  <2>5. m.registry = register_tool_evidence(l.registry, items) /\ DOMAIN m = DOMAIN l
    BY <1>2, <2>3
  <2>6. Called(s, m) BY <2>2
  <2> HIDE DEF m
  <2>7. loop'[s].registry = register_tool_evidence(l.registry, items)
    BY <1>7, <2>5, <2>6
  <2>8. KeepsAliases(l.registry, register_tool_evidence(l.registry, items))
    BY <1>1, <2>4, RegisterAll
  <2> QED BY <2>7, <2>8 DEF l
<1>11. CASE fails(s)
  <2> DEFINE c == Head(l.todo)
  <2>1. PICK late \in SUBSET {Tool[c]} :
          Called(s, [k EXCEPT !.failures[c] = @ + 1, !.late = @ \cup late])
    BY <1>11 DEF fails
  <2>2. k.registry = l.registry /\ DOMAIN k = DOMAIN l BY <1>9, <1>11 DEF fails
  <2> HIDE DEF k, c
  <2> DEFINE m == [k EXCEPT !.failures[c] = @ + 1, !.late = @ \cup late]
  <2>3. m.registry = k.registry /\ DOMAIN m = DOMAIN l BY <1>2, <2>2
  <2>4. Called(s, m) BY <2>1
  <2> HIDE DEF m
  <2> QED BY <1>3, <1>7, <2>2, <2>3, <2>4
<1>12. CASE force(s)
  <2>1. PICK draft \in Drafts(s) : loop' = [loop EXCEPT ![s] = Drafted(@, draft)]
    BY <1>12 DEF force
  <2>2. loop'[s] = Drafted(l, draft) BY <1>1, <2>1
  <2> QED BY <1>3, <2>2, DraftedIsTrue, LoopAssumption DEF SessionAll
<1>13. CASE model_fails(s)
  <2>1. loop' = [loop EXCEPT ![s] = Idle] BY <1>13 DEF model_fails
  <2>2. loop'[s] = Idle BY <1>1, <2>1
  <2> QED BY <2>2 DEF Idle
<1>14. CASE audit(s)
  <2>1. PICK g, text, record : loop' = [loop EXCEPT ![s].draft = text, ![s].audit = record]
    BY <1>14 DEF audit
  <2> QED BY <1>1, <1>2, <1>3, <2>1
<1> QED
  BY <1>4, <1>5, <1>6, <1>8, <1>10, <1>11, <1>12, <1>13, <1>14 DEF LoopStep

LEMMA AliasesGrow ==
  ASSUME SessionAll, [ChatNext]_chat_vars, NEW s \in Streams,
         stage[s] \in {"model", "tools", "force", "audit"},
         stage'[s] \in {"tools", "force", "audit", "save"}
  PROVE  \/ loop'[s].registry = NewRegistry
         \/ KeepsAliases(loop[s].registry, loop'[s].registry)
<1>0. DOMAIN loop = Streams /\ stage \in [Streams -> Steps]
  BY DEF SessionAll, TablesTyped
<1>1. ASSUME loop'[s] = loop[s] PROVE KeepsAliases(loop[s].registry, loop'[s].registry)
  BY <1>1 DEF KeepsAliases
<1>2. ASSUME NEW q \in Streams \ {s}, NEW l, loop' = [loop EXCEPT ![q] = l]
      PROVE  loop'[s] = loop[s]
  BY <1>0, <1>2
<1>3. CASE delete_last_turn \/ UNCHANGED chat_vars
  BY <1>1, <1>3 DEF delete_last_turn, chat_vars
<1>4. ASSUME NEW q \in Streams, LoopStep(q)
      PROVE  \/ loop'[s].registry = NewRegistry
             \/ KeepsAliases(loop[s].registry, loop'[s].registry)
  <2>1. CASE q = s BY <1>4, <2>1, LoopGrows
  <2>2. CASE q # s
    <3>1. StreamKeeps(q) BY <1>4, loop_Keeps, LoopAssumption
    <3> QED BY <1>1, <2>2, <3>1 DEF StreamKeeps
  <2> QED BY <2>1, <2>2
<1>5. ASSUME NEW q \in Streams, NEW l, loop' = loop \/ loop' = [loop EXCEPT ![q] = l],
             q = s => l.registry = NewRegistry
      PROVE  \/ loop'[s].registry = NewRegistry
             \/ KeepsAliases(loop[s].registry, loop'[s].registry)
  <2>1. CASE loop' = loop BY <1>1, <2>1
  <2>2. CASE loop' = [loop EXCEPT ![q] = l] BY <1>0, <1>1, <1>2, <1>5, <2>2
  <2> QED BY <1>5, <2>1, <2>2
<1>6. Idle.registry = NewRegistry BY DEF Idle
<1>7. ASSUME NEW q \in Streams, get_context(q)
      PROVE  KeepsAliases(loop[s].registry, loop'[s].registry)
  <2>1. q # s BY <1>7 DEF get_context, Go
  <2>2. PICK mode : loop' = [loop EXCEPT ![q] = Started(mode, recent_citations)]
    BY <1>7 DEF get_context
  <2> QED BY <1>0, <1>1, <2>1, <2>2
<1>8. ASSUME NEW q \in Streams,
             \/ create_turn(q)
             \/ research(q) \/ plain_chat(q) \/ chat_error(q) \/ llm_required(q)
             \/ stream_raises(q)
             \/ append(q) \/ record_message_citation(q) \/ record_raises(q) \/ settle(q)
             \/ dies(q)
      PROVE  loop' = loop \/ loop' = [loop EXCEPT ![q] = Idle]
  <2>1. CASE create_turn(q) \/ research(q) \/ settle(q)
    BY <2>1 DEF create_turn, research, settle
  <2>2. CASE plain_chat(q) \/ chat_error(q) \/ llm_required(q)
    BY <2>2 DEF plain_chat, chat_error, llm_required, Answered
  <2>3. CASE stream_raises(q) \/ append(q) \/ record_raises(q) \/ dies(q)
    BY <2>3 DEF stream_raises, append, record_raises, dies
  <2>4. CASE record_message_citation(q) BY <2>4 DEF record_message_citation
  <2> QED BY <1>8, <2>1, <2>2, <2>3, <2>4
<1> QED BY <1>3, <1>4, <1>5, <1>6, <1>7, <1>8 DEF ChatNext, research_step

(* While a stream runs, an alias keeps its evidence.                          *)
THEOREM AliasesStay == ChatSpec => AliasesKept
<1>1. ASSUME SessionAll, [ChatNext]_chat_vars
      PROVE  [\A s \in Streams :
                stage[s] \in {"model", "tools", "force", "audit"} /\
                stage'[s] \in {"tools", "force", "audit", "save"}
                => \/ loop'[s].registry = NewRegistry
                   \/ \A a \in Aliases(loop[s].registry) :
                        loop'[s].registry.manifest[a] = loop[s].registry.manifest[a]]_chat_vars
  BY <1>1, AliasesGrow DEF KeepsAliases
<1> QED BY <1>1, SessionAlways, PTL DEF AliasesKept, ChatSpec

=============================================================================
