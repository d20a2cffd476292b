---------------------------- MODULE Provisioning ----------------------------
(***************************************************************************)
(* The Tenant Dashboard's internal provisioning API: the control database  *)
(* (one TenantAccount row per tenant), the tenant databases it creates and *)
(* migrates, and the handlers of POST /internal/provision-tenant and       *)
(* PATCH /internal/tenant-accounts/:tenantId/active.                       *)
(*                                                                         *)
(* Each call is identified by what it alone has: the random password it    *)
(* draws.  Calls overlap freely, and a call may stop between any two of    *)
(* its database operations and never be heard of again.                    *)
(***************************************************************************)
EXTENDS Naturals

CONSTANTS
    Tenants,      \* Super Admin's tenant ids; each names one database
    Emails,       \* login addresses
    Calls,        \* internal API calls ever made; also their passwords
    Chosen,       \* any password that a tenant chose itself
    Migrations,   \* how many migrations TENANT_MIGRATIONS lists
    NoAccount,    \* no TenantAccount row
    NoTenant      \* the argument of a call that was not made yet

ASSUME ProvisioningAssumption ==
    /\ Migrations \in Nat \ {0}
    /\ Chosen \notin Calls
    /\ NoAccount \notin [email : Emails, password : Calls \cup {Chosen},
                         active : BOOLEAN]

VARIABLES
    account,      \* TenantAccount rows: login email, password, isActive
    created,      \* tenants whose database exists
    applied,      \* names in each database's _prisma_migrations, as indexes
    profile,      \* each database's profile row: "none", "seeded", "edited"
    call          \* what every call is doing

vars == <<account, created, applied, profile, call>>
stores == <<account, created, applied, profile>>

-----------------------------------------------------------------------------
Account == [email : Emails, password : Calls \cup {Chosen}, active : BOOLEAN]
Final == {"ok", "conflict", "notFound", "sqlError", "crashed"}

NotMade == [pc |-> "unsent", tenant |-> NoTenant, email |-> NoTenant,
            flag |-> FALSE, next |-> 1, alone |-> TRUE]

\* "pc" names the call's next database operation, or how it ended.
CallState ==
    [pc : {"unsent", "find", "createDatabase", "seek", "apply", "profile",
           "account", "reset", "findAccount", "setActive"} \cup Final,
     tenant : Tenants \cup {NoTenant},
     email : Emails \cup {NoTenant},
     flag : BOOLEAN,
     next : Nat,           \* index of the migration the loop is at
     alone : BOOLEAN]      \* history: no other call for its tenant overlapped

TypeOK ==
    /\ account \in [Tenants -> Account \cup {NoAccount}]
    /\ created \in SUBSET Tenants
    /\ applied \in [Tenants -> SUBSET (1..Migrations)]
    /\ profile \in [Tenants -> {"none", "seeded", "edited"}]
    /\ call \in [Calls -> CallState]

Init ==
    /\ account = [t \in Tenants |-> NoAccount]
    /\ created = {}
    /\ applied = [t \in Tenants |-> {}]
    /\ profile = [t \in Tenants |-> "none"]
    /\ call = [c \in Calls |-> NotMade]

-----------------------------------------------------------------------------
At(c, pc) == call[c].pc = pc
InFlight(c) == call[c].pc \notin {"unsent"} \cup Final
GoTo(c, pc) == call' = [call EXCEPT ![c].pc = pc]

HasAccount(t) == account[t] # NoAccount

\* The unique index on TenantAccount.email lets t take e.
EmailFree(t, e) ==
    \A u \in Tenants \ {t} : HasAccount(u) => account[u].email # e

\* The unique index on TenantAccount.id and the one on its email.
CreateAccepted(t, e) == ~HasAccount(t) /\ EmailFree(t, e)

\* Everything a login needs behind it.
Ready(t) ==
    /\ t \in created
    /\ applied[t] = 1..Migrations
    /\ profile[t] # "none"

-----------------------------------------------------------------------------
(* Calls arrive.                                                           *)

\* Slip: the migration loop starts at its second element.
BeginAtSecond(c, new) == call' = [call EXCEPT ![c] = [new EXCEPT !.next = 2]]

\* A call starts: it and the calls for its tenant already running overlap.
Begin(c, new) ==
    LET others == {d \in Calls \ {c} :
                     InFlight(d) /\ call[d].tenant = new.tenant}
    IN call' = [d \in Calls |->
                  IF d = c THEN [new EXCEPT !.alone = others = {}]
                  ELSE IF d \in others THEN [call[d] EXCEPT !.alone = FALSE]
                  ELSE call[d]]

ReceiveProvision(c, t, e) ==
    /\ At(c, "unsent")
    /\ Begin(c, [NotMade EXCEPT !.pc = "find", !.tenant = t, !.email = e])
    /\ UNCHANGED stores

ReceiveSetActive(c, t, b) ==
    /\ At(c, "unsent")
    /\ Begin(c, [NotMade EXCEPT !.pc = "findAccount", !.tenant = t, !.flag = b])
    /\ UNCHANGED stores

\* The tenant edits the shop profile (PATCH /profile); it takes a login.
EditProfile(t) ==
    /\ HasAccount(t)
    /\ profile[t] # "none"
    /\ profile' = [profile EXCEPT ![t] = "edited"]
    /\ UNCHANGED <<account, created, applied, call>>

\* The tenant replaces the password in force (PATCH /auth/me/password).  The
\* comparison with the current one may be long past when the new one is written.
ChangeMyPassword(t) ==
    /\ HasAccount(t)
    /\ account' = [account EXCEPT ![t].password = Chosen]
    /\ UNCHANGED <<created, applied, profile, call>>

-----------------------------------------------------------------------------
(* provision.                                                              *)

\* An account that exists already turns the call into a credential reset.
FindExisting(c) ==
    /\ At(c, "find")
    /\ GoTo(c, IF HasAccount(call[c].tenant) THEN "reset" ELSE "createDatabase")
    /\ UNCHANGED stores

\* Slip: the reset writes a whole new row, isActive and all.
ResetUnlocks(c) ==
    LET t == call[c].tenant IN
    /\ At(c, "reset")
    /\ EmailFree(t, call[c].email)
    /\ account' = [account EXCEPT
                     ![t] = [email |-> call[c].email, password |-> c,
                             active |-> TRUE]]
    /\ GoTo(c, "ok")
    /\ UNCHANGED <<created, applied, profile>>

\* name, email and passwordHash; P2002 on the email becomes a 409.
ResetCredentials(c) ==
    LET t == call[c].tenant IN
    /\ At(c, "reset")
    /\ \/ /\ EmailFree(t, call[c].email)
          /\ account' = [account EXCEPT ![t].email = call[c].email,
                                        ![t].password = c]
          /\ GoTo(c, "ok")
       \/ /\ ~EmailFree(t, call[c].email)
          /\ UNCHANGED account
          /\ GoTo(c, "conflict")
    /\ UNCHANGED <<created, applied, profile>>

\* Slip: 42P04 is thrown like any other error.
CreateDatabaseOnce(c) ==
    /\ At(c, "createDatabase")
    /\ created' = created \cup {call[c].tenant}
    /\ GoTo(c, IF call[c].tenant \in created THEN "sqlError" ELSE "seek")
    /\ UNCHANGED <<account, applied, profile>>

\* 42P04, the database exists, is not an error.
CreateTenantDatabase(c) ==
    /\ At(c, "createDatabase")
    /\ created' = created \cup {call[c].tenant}
    /\ GoTo(c, "seek")
    /\ UNCHANGED <<account, applied, profile>>

\* Slip: the loop runs once too often.
AdvanceOnceMore(c, m) ==
    call' = [call EXCEPT ![c].pc = IF m <= Migrations THEN "seek" ELSE "profile",
                         ![c].next = m + 1]

\* Slip: the account is written before the profile.
AdvanceToAccount(c, m) ==
    call' = [call EXCEPT ![c].pc = IF m < Migrations THEN "seek" ELSE "account",
                         ![c].next = m + 1]

\* The loop goes to the migration after m, or leaves for the profile.
Advance(c, m) ==
    call' = [call EXCEPT ![c].pc = IF m < Migrations THEN "seek" ELSE "profile",
                         ![c].next = m + 1]

\* Slip: "continue" before the loop's index moves on.
SeekStuck(c) ==
    LET m == call[c].next IN
    /\ At(c, "seek")
    /\ m \notin applied[call[c].tenant]
    /\ GoTo(c, "apply")
    /\ UNCHANGED stores

\* SELECT 1 FROM _prisma_migrations: an applied migration is skipped.
SeekMigration(c) ==
    LET m == call[c].next IN
    /\ At(c, "seek")
    /\ \/ /\ m \in applied[call[c].tenant]
          /\ Advance(c, m)
       \/ /\ m \notin applied[call[c].tenant]
          /\ GoTo(c, "apply")
    /\ UNCHANGED stores

\* BEGIN, the SQL, the _prisma_migrations row, COMMIT.  The SQL fails on types
\* and tables it would make a second time: ROLLBACK, and the error is thrown.
ApplyMigration(c) ==
    LET m == call[c].next
        t == call[c].tenant
    IN
    /\ At(c, "apply")
    /\ \/ /\ m \notin applied[t]
          /\ applied' = [applied EXCEPT ![t] = @ \cup {m}]
          /\ Advance(c, m)
       \/ /\ m \in applied[t]
          /\ UNCHANGED applied
          /\ GoTo(c, "sqlError")
    /\ UNCHANGED <<account, created, profile>>

\* Slip: the upsert updates what it would create.
SeedProfileAgain(c) ==
    /\ At(c, "profile")
    /\ profile' = [profile EXCEPT ![call[c].tenant] = "seeded"]
    /\ GoTo(c, "account")
    /\ UNCHANGED <<account, created, applied>>

\* An upsert with an empty update.
SeedProfile(c) ==
    LET t == call[c].tenant IN
    /\ At(c, "profile")
    /\ profile' = [profile EXCEPT ![t] = IF @ = "none" THEN "seeded" ELSE @]
    /\ GoTo(c, "account")
    /\ UNCHANGED <<account, created, applied>>

\* tenantAccount.create, written last; isActive is true by default.
CreateAccount(c) ==
    LET t == call[c].tenant
        e == call[c].email
    IN
    /\ At(c, "account")
    /\ \/ /\ CreateAccepted(t, e)
          /\ account' = [account EXCEPT
                           ![t] = [email |-> e, password |-> c, active |-> TRUE]]
          /\ GoTo(c, "ok")
       \/ /\ ~CreateAccepted(t, e)
          /\ UNCHANGED account
          /\ GoTo(c, "conflict")
    /\ UNCHANGED <<created, applied, profile>>

-----------------------------------------------------------------------------
(* setAccountActive.                                                       *)

FindAccount(c) ==
    /\ At(c, "findAccount")
    /\ GoTo(c, IF HasAccount(call[c].tenant) THEN "setActive" ELSE "notFound")
    /\ UNCHANGED stores

SetAccountActive(c) ==
    /\ At(c, "setActive")
    /\ account' = [account EXCEPT ![call[c].tenant].active = call[c].flag]
    /\ GoTo(c, "ok")
    /\ UNCHANGED <<created, applied, profile>>

\* A connection error, a function past its time limit, an instance that dies:
\* a migration's transaction rolls back, what is committed stays.
Crash(c) ==
    /\ InFlight(c)
    /\ GoTo(c, "crashed")
    /\ UNCHANGED stores

-----------------------------------------------------------------------------
Step(c) ==
    \/ FindExisting(c) \/ ResetCredentials(c) \/ CreateTenantDatabase(c)
    \/ SeekMigration(c) \/ ApplyMigration(c) \/ SeedProfile(c)
    \/ CreateAccount(c) \/ FindAccount(c) \/ SetAccountActive(c)

Receive(c) ==
    \E t \in Tenants :
        \/ \E e \in Emails : ReceiveProvision(c, t, e)
        \/ \E b \in BOOLEAN : ReceiveSetActive(c, t, b)

Next ==
    \/ \E c \in Calls : Receive(c) \/ Step(c) \/ Crash(c)
    \/ \E t \in Tenants : EditProfile(t) \/ ChangeMyPassword(t)

Spec == Init /\ [][Next]_vars

\* A handler goes on when its database operation has answered.
HandlerGoesOn(c) == WF_vars(Step(c))
FairSpec == Spec /\ \A c \in Calls : HandlerGoesOn(c)

-----------------------------------------------------------------------------
(* What provisioning keeps true.                                           *)

\* A login never leads to half a tenant: whatever calls overlap or stop half
\* way, an account exists only over a database that exists, has every
\* migration and has its profile (provision writes the account row last).
AccountImpliesReady ==
    \A t \in Tenants : HasAccount(t) => Ready(t)

\* Migrations are applied in their order and none is skipped, also when the
\* loops of several calls and of retries interleave (runTenantMigrations).
AppliedInOrder ==
    \A t \in Tenants : \A m \in applied[t] : 1..m \subseteq applied[t]

\* "a retry after a partial failure is safe": wherever earlier calls stopped, a
\* call that overlaps no other for its tenant never fails on what they left
\* behind (every step before the last is idempotent).
RetryIsSafe ==
    \A c \in Calls : call[c].alone => ~At(c, "sqlError")

\* Each dashboard login address is unique across tenants, over creates and
\* resets that race (the unique index behind the two 409s).
LoginsAreUnique ==
    \A t, u \in Tenants :
        t # u /\ HasAccount(t) /\ HasAccount(u) =>
            account[t].email # account[u].email

\* "a retry never clobbers changes the tenant may have already made": an edited
\* profile is never seeded again (the upsert's empty update).
ProfileEditsKept ==
    [][\A t \in Tenants : profile[t] = "edited" => profile'[t] = "edited"]_vars

\* A call that nothing interrupts or overlaps ends with an account for its
\* tenant, unless its email is another tenant's login, whatever an earlier
\* attempt left behind.
CallEndsProvisioned ==
    \A c \in Calls :
        At(c, "find") ~>
            \/ At(c, "ok") /\ HasAccount(call[c].tenant)
            \/ At(c, "conflict") \/ At(c, "crashed")
            \/ ~call[c].alone

-----------------------------------------------------------------------------
Directory == INSTANCE TenantDirectory
               WITH Passwords <- Calls,
                    complete <- {t \in Tenants : Ready(t)}

\* The handlers implement the directory: an account opens in one step over a
\* complete database, a reset keeps the lock, only setAccountActive moves it.
ImplementsDirectory == Directory!Spec
=============================================================================
