-------------------------- MODULE TenantDirectory --------------------------
(***************************************************************************)
(* What provisioning promises to whoever logs in: a tenant has either no   *)
(* account, or an account in front of a complete database.  Opening the    *)
(* account is one step; a credential reset changes the login and nothing   *)
(* else; the tenant may set a password of its own; only an explicit call   *)
(* locks or unlocks the account.                                           *)
(***************************************************************************)

CONSTANTS
    Tenants, Emails,
    Passwords,    \* the temporary passwords that provisioning draws
    Chosen,       \* any password that a tenant chose itself
    NoAccount

VARIABLES
    account,    \* TenantAccount per tenant id, or NoAccount
    complete    \* tenants whose database, schema and profile are all there

vars == <<account, complete>>

Account == [email : Emails, password : Passwords \cup {Chosen}, active : BOOLEAN]

Init ==
    /\ account = [t \in Tenants |-> NoAccount]
    /\ complete = {}

\* No other tenant logs in with this address.
Free(t, e) ==
    \A u \in Tenants \ {t} : account[u] # NoAccount => account[u].email # e

\* A password nobody holds.
Fresh(p) ==
    \A t \in Tenants : account[t] # NoAccount => account[t].password # p

\* The database of a tenant without an account may become complete.
Complete(t) ==
    /\ account[t] = NoAccount
    /\ complete' = complete \cup {t}
    /\ UNCHANGED account

Open(t, e, p) ==
    /\ account[t] = NoAccount
    /\ t \in complete
    /\ Free(t, e) /\ Fresh(p)
    /\ account' = [account EXCEPT
                     ![t] = [email |-> e, password |-> p, active |-> TRUE]]
    /\ UNCHANGED complete

Reset(t, e, p) ==
    /\ account[t] # NoAccount
    /\ Free(t, e) /\ Fresh(p)
    /\ account' = [account EXCEPT ![t].email = e, ![t].password = p]
    /\ UNCHANGED complete

\* The tenant puts one of its own in the place of the password in force.
ChangePassword(t) ==
    /\ account[t] # NoAccount
    /\ account' = [account EXCEPT ![t].password = Chosen]
    /\ UNCHANGED complete

SetActive(t, b) ==
    /\ account[t] # NoAccount
    /\ account' = [account EXCEPT ![t].active = b]
    /\ UNCHANGED complete

Next ==
    \E t \in Tenants :
        \/ Complete(t) \/ ChangePassword(t)
        \/ \E e \in Emails, p \in Passwords : Open(t, e, p) \/ Reset(t, e, p)
        \/ \E b \in BOOLEAN : SetActive(t, b)

Spec == Init /\ [][Next]_vars
=============================================================================
