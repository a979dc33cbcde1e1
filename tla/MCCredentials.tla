---------------------------- MODULE MCCredentials ----------------------------
(* Instances of Credentials for TLC.                                          *)
EXTENDS Credentials

(* Nothing (a name, a password), a promotion, a disabling.                    *)
Changes == {Keep, [role |-> "admin", status |-> "active"], [role |-> "keep", status |-> "disabled"]}
=============================================================================
