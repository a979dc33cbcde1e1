------------------------------ MODULE AuthStore ------------------------------
(* Accounts and administrators: the transactions of AuthStore and UserStore   *)
(* that read or write users.role and users.status.                            *)
(*                                                                            *)
(* A request runs one PostgreSQL transaction (READ COMMITTED): each statement *)
(* is a step and reads what is committed, its writes show when it commits,    *)
(* and what it has locked, the two advisory locks and rows of users, it holds *)
(* to the end.  Users are never deleted.  The last statement of a transaction *)
(* inserts an audit event that refers to the user who acts: its foreign key   *)
(* waits while another transaction has that user's row "for update".          *)
EXTENDS Naturals, FiniteSets

CONSTANTS
    Emails,        \* accounts that sign up
    Subjects,      \* accounts UserStore makes for an external subject
    Requests,      \* requests served at the same time
    DevHeader,     \* dev-header mode: every caller acts as an administrator
    Asked,         \* the changes of role and status that administrators ask for
    NoOne          \* "not locked", "no user"

Users == Emails \cup Subjects
Patches == [role : {"keep", "user", "admin"}, status : {"keep", "active", "disabled"}]
Keep == [role |-> "keep", status |-> "keep"]

ASSUME ConstantsAssumption ==
    /\ DevHeader \in BOOLEAN
    /\ NoOne \notin Requests \cup Users
    /\ Emails \cap Subjects = {}
    /\ IsFiniteSet(Requests)
    /\ Keep \in Asked /\ Asked \subseteq Patches

VARIABLES
    role, status,        \* users.role, users.status ("absent": no row)
    bootstrap, mutation, \* who holds ADMIN_BOOTSTRAP / ADMIN_MUTATION_ADVISORY_LOCK_ID
    row,                 \* who holds the lock on the row of each user
    pc, op,              \* per request: next statement, operation
    target, actor,       \* the user it is about, the user who acts
    patch,               \* update_user_admin: the role and status asked for
    grant                \* signup: the role read_admin has decided on

vars == <<role, status, bootstrap, mutation, row, pc, op, target, actor, patch, grant>>
locks == <<bootstrap, mutation, row>>

TypeOK ==
    /\ role \in [Users -> {"user", "admin"}]
    /\ status \in [Users -> {"absent", "active", "disabled"}]
    /\ bootstrap \in Requests \cup {NoOne} /\ mutation \in Requests \cup {NoOne}
    /\ row \in [Users -> Requests \cup {NoOne}]
    /\ pc \in [Requests -> {"idle", "lock_bootstrap", "read_admin", "insert", "lock_mutation",
                            "lock_row", "check", "commit"}]
    /\ op \in [Requests -> {"signup", "update", "touch"}]
    /\ target \in [Requests -> Users \cup {NoOne}]
    /\ actor \in [Requests -> Users \cup {NoOne}]
    /\ \A r \in Requests : pc[r] # "idle" => target[r] \in Users /\ actor[r] \in Users
    /\ patch \in [Requests -> Patches]
    /\ grant \in [Requests -> {"user", "admin"}]

Init ==
    /\ role = [u \in Users |-> "user"]
    /\ status = [u \in Users |-> "absent"]
    /\ bootstrap = NoOne /\ mutation = NoOne
    /\ row = [u \in Users |-> NoOne]
    /\ pc = [r \in Requests |-> "idle"]
    /\ op = [r \in Requests |-> "touch"]
    /\ target = [r \in Requests |-> NoOne] /\ actor = [r \in Requests |-> NoOne]
    /\ patch = [r \in Requests |-> Keep]
    /\ grant = [r \in Requests |-> "user"]

-----------------------------------------------------------------------------
(* Conditions and values.  A definition named Bug... is a mutated form of the *)
(* one that follows it.                                                       *)

ActiveAdmin(u) == role[u] = "admin" /\ status[u] = "active"
HasAdmin == \E u \in Users : ActiveAdmin(u)

BugMayLock(holder) == TRUE

(* pg_advisory_xact_lock and "for update" wait while another transaction      *)
(* holds the lock.                                                            *)
MayLock(holder) == holder = NoOne

(* The end of a transaction releases what it has locked.                      *)
Freed(holder, r) == IF holder = r THEN NoOne ELSE holder

BugReleased(r) == UNCHANGED locks

Released(r) ==
    /\ bootstrap' = Freed(bootstrap, r) /\ mutation' = Freed(mutation, r)
    /\ row' = [u \in Users |-> Freed(row[u], r)]

NewRole(r) == IF patch[r].role = "keep" THEN role[target[r]] ELSE patch[r].role

NewStatus(r) == IF patch[r].status = "keep" THEN status[target[r]] ELSE patch[r].status

BugRemovesLastAdmin(r) ==
    /\ ActiveAdmin(target[r]) /\ ~(NewRole(r) = "admin" /\ NewStatus(r) = "active")
    /\ ~ HasAdmin

(* _would_remove_last_active_admin.                                           *)
RemovesLastAdmin(r) ==
    /\ ActiveAdmin(target[r]) /\ ~(NewRole(r) = "admin" /\ NewStatus(r) = "active")
    /\ ~ \E u \in Users \ {target[r]} : ActiveAdmin(u)

(* The audit event of r refers to a row that q has read "for update".         *)
WaitsForRow(r, q) ==
    /\ pc[r] = "commit" /\ op[r] # "signup"
    /\ row[actor[r]] = q /\ q # r /\ op[q] = "update"

(* PostgreSQL rolls back one of the transactions that wait in a circle.       *)
Deadlocked(r) ==
    \E D \in SUBSET Requests :
        r \in D /\ \A q \in D : \E h, w \in D : WaitsForRow(q, h) /\ WaitsForRow(w, q)

-----------------------------------------------------------------------------
Goto(r, l) == pc' = [pc EXCEPT ![r] = l]

(* A request begins: its operation, who acts on whom, its first statement.    *)
Begin(r, o, a, u, p, l) ==
    /\ pc[r] = "idle"
    /\ Goto(r, l)
    /\ op' = [op EXCEPT ![r] = o]
    /\ target' = [target EXCEPT ![r] = u] /\ actor' = [actor EXCEPT ![r] = a]
    /\ patch' = [patch EXCEPT ![r] = p]
    /\ UNCHANGED <<role, status, locks, grant>>

(* Commit or rollback: the locks go.                                          *)
End(r) ==
    /\ Goto(r, "idle")
    /\ Released(r)
    /\ op' = [op EXCEPT ![r] = "touch"]
    /\ target' = [target EXCEPT ![r] = NoOne] /\ actor' = [actor EXCEPT ![r] = NoOne]
    /\ patch' = [patch EXCEPT ![r] = Keep]
    /\ grant' = [grant EXCEPT ![r] = "user"]

rollback(r) == pc[r] # "idle" /\ End(r) /\ UNCHANGED <<role, status>>

(* UserStore inserts a user for a subject it sees for the first time.         *)
get_or_create_user_for_subject(u) ==
    /\ status[u] = "absent"
    /\ status' = [status EXCEPT ![u] = "active"]
    /\ role' = [role EXCEPT ![u] = "user"]
    /\ UNCHANGED <<locks, pc, op, target, actor, patch, grant>>

signup(r, u) == Begin(r, "signup", u, u, Keep, "lock_bootstrap")

lock_bootstrap(r) ==
    /\ pc[r] = "lock_bootstrap" /\ MayLock(bootstrap)
    /\ bootstrap' = r
    /\ Goto(r, "read_admin")
    /\ UNCHANGED <<role, status, mutation, row, op, target, actor, patch, grant>>

read_admin(r) ==
    /\ pc[r] = "read_admin"
    /\ grant' = [grant EXCEPT ![r] = IF HasAdmin THEN "user" ELSE "admin"]
    /\ Goto(r, "insert")
    /\ UNCHANGED <<role, status, locks, op, target, actor, patch>>

(* The email is unique: a second sign-up with it is rolled back.              *)
insert_user(r) ==
    /\ pc[r] = "insert" /\ status[target[r]] = "absent"
    /\ Goto(r, "commit")
    /\ UNCHANGED <<role, status, locks, op, target, actor, patch, grant>>

(* require_admin: the caller is active and an administrator, or taken for one. *)
MayAdminister(a) == status[a] = "active" /\ (DevHeader \/ role[a] = "admin")

(* An administrator a asks for a change; without a role or a status in it, as *)
(* in reset_password_admin, the advisory lock is not taken.                   *)
update_user_admin(r, a, u, p) ==
    /\ MayAdminister(a) /\ status[u] # "absent"
    /\ Begin(r, "update", a, u, p, IF p = Keep THEN "lock_row" ELSE "lock_mutation")

lock_mutation(r) ==
    /\ pc[r] = "lock_mutation" /\ MayLock(mutation)
    /\ mutation' = r
    /\ Goto(r, "lock_row")
    /\ UNCHANGED <<role, status, bootstrap, row, op, target, actor, patch, grant>>

(* login, create_api_token and update_profile lock the user's own row and     *)
(* leave its role and status alone; the share of the lock that the foreign    *)
(* key of an API token takes counts as the whole of it.                       *)
touch_user(r, u) == status[u] # "absent" /\ Begin(r, "touch", u, u, Keep, "lock_row")

select_user_for_update(r) ==
    /\ pc[r] = "lock_row" /\ MayLock(row[target[r]])
    /\ row' = [row EXCEPT ![target[r]] = r]
    /\ Goto(r, IF op[r] = "update" THEN "check" ELSE "commit")
    /\ UNCHANGED <<role, status, bootstrap, mutation, op, target, actor, patch, grant>>

check_last_admin(r) ==
    /\ pc[r] = "check" /\ ~RemovesLastAdmin(r)
    /\ Goto(r, "commit")
    /\ UNCHANGED <<role, status, locks, op, target, actor, patch, grant>>

commit_signup(r) ==
    /\ pc[r] = "commit" /\ op[r] = "signup"
    /\ role' = [role EXCEPT ![target[r]] = grant[r]]
    /\ status' = [status EXCEPT ![target[r]] = "active"]
    /\ End(r)

commit_update(r) ==
    /\ pc[r] = "commit" /\ op[r] # "signup"
    /\ ~ \E q \in Requests : WaitsForRow(r, q)
    /\ role' = [role EXCEPT ![target[r]] = NewRole(r)]
    /\ status' = [status EXCEPT ![target[r]] = NewStatus(r)]
    /\ End(r)

-----------------------------------------------------------------------------
Statement(r) ==
    \/ lock_bootstrap(r) \/ read_admin(r) \/ insert_user(r) \/ lock_mutation(r)
    \/ select_user_for_update(r) \/ check_last_admin(r) \/ commit_signup(r) \/ commit_update(r)

(* What the code refuses it rolls back; a statement may fail at any time.     *)
Next ==
    \/ \E r \in Requests :
         \/ \E u \in Emails : signup(r, u)
         \/ \E u \in Users : touch_user(r, u)
         \/ \E a, u \in Users, p \in Asked : update_user_admin(r, a, u, p)
         \/ Statement(r) \/ rollback(r)
    \/ \E u \in Subjects : get_or_create_user_for_subject(u)

Spec == Init /\ [][Next]_vars

(* What the code or the database rolls back.                                  *)
Refused(r) ==
    \/ pc[r] = "insert" /\ status[target[r]] # "absent"
    \/ pc[r] = "check" /\ RemovesLastAdmin(r)
    \/ Deadlocked(r)

-----------------------------------------------------------------------------
(* Properties.                                                                *)

(* "The last active admin cannot be disabled or demoted", by any overlap of   *)
(* administrators who disable or demote each other.                           *)
AdminRemains == [][HasAdmin => HasAdmin']_vars

(* "first registered user -> role=admin, all later registered users ->        *)
(* role=user", however sign-ups overlap with each other and with updates.     *)
FirstAdminOnly ==
    [][\A u \in Users : status[u] = "absent" /\ ActiveAdmin(u)' => ~HasAdmin]_vars

(* What a transaction has read stays true until it commits, because of what   *)
(* it has locked: the account it signs up is not there, the account it        *)
(* updates is, and it is not the last administrator it takes away.            *)
AccountInv ==
    \A r \in Requests :
        /\ op[r] # "update" => patch[r] = Keep
        /\ pc[r] # "idle" => pc[r] \in IF op[r] = "signup"
                                       THEN {"lock_bootstrap", "read_admin", "insert", "commit"}
                                       ELSE {"lock_mutation", "lock_row", "check", "commit"}
        /\ pc[r] # "idle" => IF op[r] = "signup" THEN target[r] \in Emails
                                                ELSE status[target[r]] # "absent"
        /\ pc[r] \in {"read_admin", "insert"} => bootstrap = r
        /\ pc[r] = "commit" /\ op[r] = "signup" => bootstrap = r /\ status[target[r]] = "absent"
        /\ pc[r] \in {"lock_row", "check", "commit"} /\ patch[r] # Keep => mutation = r
        /\ pc[r] = "commit" /\ op[r] # "signup" => ~RemovesLastAdmin(r)

(* While a sign-up is about to make an administrator there is none, and where *)
(* there is none nobody is about to change a role.                            *)
FirstAdminInv ==
    \A r \in Requests :
        /\ patch[r] # Keep => HasAdmin
        /\ grant[r] = "admin" => bootstrap = r /\ ~HasAdmin

(* Only a transaction that runs has a lock, and one that waits for an         *)
(* advisory lock has none that others wait for: as long as there are requests *)
(* one of them goes on, or the database rolls one back.                       *)
GoesOn(r) ==
    \/ pc[r] \in {"read_admin", "insert", "check"}
    \/ pc[r] = "lock_bootstrap" /\ MayLock(bootstrap)
    \/ pc[r] = "lock_mutation" /\ MayLock(mutation)
    \/ pc[r] = "lock_row" /\ MayLock(row[target[r]])
    \/ pc[r] = "commit" /\ ~ \E q \in Requests : WaitsForRow(r, q)
    \/ Deadlocked(r)

LocksInv ==
    /\ \A r \in Requests :
          /\ bootstrap = r => pc[r] \in {"read_admin", "insert", "commit"}
          /\ mutation = r => pc[r] \in {"lock_row", "check", "commit"}
          /\ \A u \in Users : row[u] = r => target[r] = u /\ pc[r] \in {"check", "commit"}
    /\ (\E r \in Requests : pc[r] # "idle") => \E r \in Requests : GoesOn(r)

(* All of it: what a transaction relies on, and what makes it end.            *)
AuthInv == TypeOK /\ AccountInv /\ FirstAdminInv /\ LocksInv

(* Every request ends: those that wait in a circle do so for rows of users,   *)
(* where the database sees it and rolls one of them back.                     *)
RequestsEnd == \A r \in Requests : []<>(pc[r] = "idle")
=============================================================================
