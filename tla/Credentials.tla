---------------------------- MODULE Credentials ----------------------------
(* Who may act: the sessions and API tokens of the accounts of AuthStore, in  *)
(* the tables auth_sessions and api_tokens, and the requests that issue, use  *)
(* and revoke them.  Every step is a step of AuthStore, with what it does to  *)
(* credentials, or leaves the accounts alone.                                 *)
(*                                                                            *)
(* A request reads that the user is active and inserts the credential later:  *)
(* the foreign key of the new row waits while an administrator has the row of *)
(* the user "for update", and so does the administrator the other way round.  *)
EXTENDS AuthStore

CONSTANT Credentials   \* sessions and API tokens there may be

VARIABLES
    owner,    \* whose each credential is (NoOne: not issued, expired or revoked)
    issued,   \* per request: the credential it inserts
    revoked   \* per request: the credentials it has revoked

credential_vars == <<owner, issued, revoked>>
cvars == <<vars, credential_vars>>

CredentialTypes ==
    /\ owner \in [Credentials -> Users \cup {NoOne}]
    /\ issued \in [Requests -> SUBSET Credentials]
    /\ revoked \in [Requests -> SUBSET Credentials]

CredentialsInit ==
    /\ Init
    /\ owner = [c \in Credentials |-> NoOne]
    /\ issued = [r \in Requests |-> {}]
    /\ revoked = [r \in Requests |-> {}]

Held(u) == {c \in Credentials : owner[c] = u}

(* current_user: a header of the proxy, or a credential of an active user.    *)
Authenticated(u) == u \in Subjects \/ (~DevHeader /\ status[u] = "active" /\ Held(u) # {})

(* A row that a transaction is about to insert, or has revoked.               *)
InUse(c) == \E r \in Requests : c \in issued[r] \cup revoked[r]

(* The foreign key of a row that refers to the user: no administrator has the *)
(* row of the user "for update".                                              *)
MayReferTo(u) == ~ \E r \in Requests : row[u] = r /\ op[r] = "update"

-----------------------------------------------------------------------------
(* Requests that take the row of their own user.                              *)

Issues(r, u, c) ==
    /\ status[u] = "active" /\ owner[c] = NoOne /\ ~InUse(c)
    /\ touch_user(r, u)
    /\ issued' = [issued EXCEPT ![r] = {c}]
    /\ UNCHANGED <<owner, revoked>>

login(r, u, c) == u \in Emails /\ Issues(r, u, c)

create_api_token(r, u, c) == Authenticated(u) /\ Issues(r, u, c)

update_profile(r, u) == Authenticated(u) /\ touch_user(r, u) /\ UNCHANGED credential_vars

(* The row: what does not insert a credential updates an active user.         *)
take_row(r) ==
    /\ select_user_for_update(r)
    /\ op[r] = "touch" /\ issued[r] = {} => status[target[r]] = "active"
    /\ UNCHANGED credential_vars

-----------------------------------------------------------------------------
(* Administrators.                                                            *)

change_user(r, a, u, p) ==
    Authenticated(a) /\ update_user_admin(r, a, u, p) /\ UNCHANGED credential_vars

(* What an update revokes: all the user has, if it disables the user.         *)
Revokes(r) == IF patch[r].status = "disabled" THEN Held(target[r]) ELSE {}

reset_password_admin(r, a, u) == u \in Emails /\ change_user(r, a, u, Keep)

update_row(r) ==
    /\ check_last_admin(r)
    /\ revoked' = [revoked EXCEPT ![r] = Revokes(r)]
    /\ UNCHANGED <<owner, issued>>

(* The end of a transaction, and what it has done to the credentials.         *)
Closed(r) ==
    /\ issued' = [issued EXCEPT ![r] = {}]
    /\ revoked' = [revoked EXCEPT ![r] = {}]

OwnerAfter(r, c) ==
    IF c \in revoked[r] THEN NoOne ELSE IF c \in issued[r] THEN target[r] ELSE owner[c]

commit(r) ==
    /\ commit_signup(r) \/ commit_update(r)
    /\ owner' = [c \in Credentials |-> OwnerAfter(r, c)]
    /\ Closed(r)

give_up(r) == rollback(r) /\ Closed(r) /\ UNCHANGED owner

-----------------------------------------------------------------------------
(* One update of credentials, then the audit event: they wait for those that  *)
(* have the credentials, or the user who acts, and for nobody else.           *)
Gone(C) ==
    /\ \A r \in Requests : C \cap revoked[r] = {}
    /\ owner' = [c \in Credentials |-> IF c \in C THEN NoOne ELSE owner[c]]
    /\ UNCHANGED <<vars, issued, revoked>>

(* The user logs out, or revokes a session or a token.                        *)
logout(u, c) == status[u] = "active" /\ c \in Held(u) /\ Gone({c})

revoke_credential(u, c) == Authenticated(u) /\ c \in Held(u) /\ MayReferTo(u) /\ Gone({c})

(* An administrator revokes the sessions, or the tokens, of a user.           *)
revoke_user_credentials(a, u, C) ==
    /\ Authenticated(a) /\ MayAdminister(a) /\ MayReferTo(a)
    /\ C \subseteq Held(u)
    /\ Gone(C)

(* The time expires_at of the row comes.                                      *)
expires(c) ==
    /\ owner[c] # NoOne
    /\ owner' = [owner EXCEPT ![c] = NoOne]
    /\ UNCHANGED <<vars, issued, revoked>>

-----------------------------------------------------------------------------
Proceed(r) ==
    \/ /\ lock_bootstrap(r) \/ read_admin(r) \/ insert_user(r) \/ lock_mutation(r)
       /\ UNCHANGED credential_vars
    \/ take_row(r) \/ update_row(r) \/ commit(r)

CredentialsNext ==
    \/ \E r \in Requests :
         \/ \E u \in Emails : signup(r, u) /\ UNCHANGED credential_vars
         \/ \E u \in Users, c \in Credentials : login(r, u, c) \/ create_api_token(r, u, c)
         \/ \E u \in Users : update_profile(r, u)
         \/ \E a, u \in Users, p \in Asked : change_user(r, a, u, p)
         \/ \E a, u \in Users : reset_password_admin(r, a, u)
         \/ Proceed(r) \/ give_up(r)
    \/ \E u \in Users, c \in Credentials : logout(u, c) \/ revoke_credential(u, c)
    \/ \E a, u \in Users, C \in SUBSET Credentials : revoke_user_credentials(a, u, C)
    \/ \E c \in Credentials : expires(c)
    \/ \E u \in Subjects : get_or_create_user_for_subject(u) /\ UNCHANGED credential_vars

CredentialsSpec == CredentialsInit /\ [][CredentialsNext]_cvars

(* As in AuthStore; besides, the profile of a disabled user is not updated.   *)
CannotProceed(r) ==
    \/ Refused(r)
    \/ pc[r] = "lock_row" /\ op[r] = "touch" /\ issued[r] = {} /\ status[target[r]] # "active"

CredentialsFair ==
    /\ CredentialsSpec
    /\ \A r \in Requests : SF_cvars(Proceed(r)) /\ WF_cvars(CannotProceed(r) /\ give_up(r))

-----------------------------------------------------------------------------
(* Properties.                                                                *)

(* "Disabling a user revokes all of that user's browser sessions and API      *)
(* tokens": those included that other requests have inserted by then.         *)
DisableRevokes ==
    [][\A u \in Users : status[u] # "disabled" /\ status'[u] = "disabled"
                        => Held(u)' = {}]_cvars

(* Between the statement that revokes all the user has and its commit nobody  *)
(* inserts another credential of that user: who inserts one has the row of    *)
(* its user, and so does who revokes.  No credential is inserted twice, or    *)
(* without a user.                                                            *)
CredentialsInv ==
    /\ CredentialTypes
    /\ \A c \in Credentials : owner[c] # NoOne => status[owner[c]] # "absent"
    /\ \A r \in Requests :
          /\ pc[r] \in {"check", "commit"} /\ op[r] # "signup" => row[target[r]] = r
          /\ issued[r] # {} => op[r] = "touch" /\ pc[r] \in {"lock_row", "commit"}
          /\ \A c \in issued[r] :
                /\ owner[c] = NoOne
                /\ \A q \in Requests \ {r} : c \notin issued[q] \cup revoked[q]
          /\ revoked[r] # {} => pc[r] = "commit" /\ patch[r].status = "disabled"
          /\ pc[r] = "commit" /\ patch[r].status = "disabled" => Held(target[r]) \subseteq revoked[r]

(* What transactions rely on, about accounts and about credentials.           *)
AccessInv == AuthInv /\ CredentialsInv
=============================================================================
