----------------------------- MODULE Onboarding -----------------------------
(***************************************************************************)
(* Super Admin's registry (tenant applications and tenants) and its calls  *)
(* to the Tenant Dashboard.  The dashboard's side is the abstract          *)
(* directory that Provisioning implements; the two share nothing but the   *)
(* calls, so a call may be handled long after Super Admin stopped waiting  *)
(* for it, or never.  The tenant itself only changes its password.         *)
(*                                                                         *)
(* A request is refused (404, 409, 400) by its guard: it changes nothing.  *)
(***************************************************************************)

CONSTANTS
    Apps,         \* ids of tenant applications
    Tenants,      \* ids that new tenant rows take
    Emails,       \* e-mail addresses
    Requests,     \* the admins' requests, each made once; also the password
                  \* that the dashboard draws for the request's call
    Chosen,       \* any password that a tenant chose itself
    None,         \* NULL
    NoAccount     \* no TenantAccount row

ASSUME OnboardingAssumption ==
    /\ None \notin Apps \cup Tenants \cup Emails \cup Requests
    /\ Chosen \notin Requests
    /\ NoAccount \notin [email : Emails, password : Requests \cup {Chosen},
                         active : BOOLEAN]

VARIABLES
    app,         \* tenant_applications
    tenant,      \* tenants
    req,         \* what every request is doing in Super Admin
    call,        \* what became of its call to the Tenant Dashboard
    account,     \* the Tenant Dashboard's accounts
    complete     \* tenants whose dashboard database is complete

registry == <<app, tenant>>
dashboard == <<account, complete>>
vars == <<app, tenant, req, call, account, complete>>

Directory == INSTANCE TenantDirectory WITH Passwords <- Requests

-----------------------------------------------------------------------------
TenantStatus == {"PENDING", "APPROVED", "REJECTED", "SUSPENDED"}
Grants == {"approve", "provision"}
Locks == {"suspend", "reactivate"}

AppRow ==
    [status : {"ABSENT", "PENDING", "APPROVED", "REJECTED"},
     email : Emails \cup {None},
     tenant : Tenants \cup {None}]

TenantRow ==
    [status : {"ABSENT"} \cup TenantStatus,
     email : Emails \cup {None},
     dashboardUserEmail : Emails \cup {None},
     from : Apps \cup {None},         \* history: the application it came from
     lockedBy : Requests \cup {None}] \* history: the suspend or reactivate
                                      \* that wrote the status last
\* "pc" names what the handler does next; "shown" is a response with the
\* credentials in it, "ended" every other end.
RequestState ==
    [op : Grants \cup Locks \cup {"none"},
     pc : {"unsent", "transaction", "await", "link", "mail", "shown", "ended"},
     app : Apps \cup {None},
     tenant : Tenants \cup {None},
     email : Emails \cup {None},
     alone : BOOLEAN]                 \* history: see Overlapping

TypeOK ==
    /\ app \in [Apps -> AppRow]
    /\ tenant \in [Tenants -> TenantRow]
    /\ req \in [Requests -> RequestState]
    /\ call \in [Requests -> {"none", "pending", "ok", "failed"}]
    /\ account \in [Tenants -> Directory!Account \cup {NoAccount}]
    /\ complete \in SUBSET Tenants

NoTenant == [status |-> "ABSENT", email |-> None, dashboardUserEmail |-> None,
             from |-> None, lockedBy |-> None]

Init ==
    /\ app = [a \in Apps |->
                [status |-> "ABSENT", email |-> None, tenant |-> None]]
    /\ tenant = [t \in Tenants |-> NoTenant]
    /\ req = [q \in Requests |->
                [op |-> "none", pc |-> "unsent", app |-> None, tenant |-> None,
                 email |-> None, alone |-> TRUE]]
    /\ call = [q \in Requests |-> "none"]
    /\ Directory!Init

-----------------------------------------------------------------------------
At(q, pc) == req[q].pc = pc
GoTo(q, pc) == req' = [req EXCEPT ![q].pc = pc]
Exists(t) == tenant[t].status # "ABSENT"
HasAccount(t) == account[t] # NoAccount

\* A request is in progress on either side of the network.
InProgress(q) ==
    req[q].pc \in {"transaction", "await", "link", "mail"} \/ call[q] = "pending"

\* The requests that overlap one for tenant t out of the same set of ops.
Overlapping(q, ops, t) ==
    {p \in Requests \ {q} :
        InProgress(p) /\ req[p].op \in ops /\ req[p].tenant = t}

\* q calls the Tenant Dashboard about t and waits.
SendCall(q, op, t, e) ==
    LET others ==
          Overlapping(q, IF op \in Grants THEN Grants ELSE Locks, t)
    IN
    /\ req' = [p \in Requests |->
                 IF p = q
                 THEN [req[q] EXCEPT !.op = op, !.pc = "await", !.tenant = t,
                                     !.email = e, !.alone = others = {}]
                 ELSE IF p \in others THEN [req[p] EXCEPT !.alone = FALSE]
                 ELSE req[p]]
    /\ call' = [call EXCEPT ![q] = "pending"]

\* q is over without a call.
EndWithout(q, op, t) ==
    /\ req' = [req EXCEPT ![q].op = op, ![q].pc = "ended", ![q].tenant = t]
    /\ UNCHANGED call

-----------------------------------------------------------------------------
(* The public form and the registry's own writes.                          *)

Submit(a) ==
    /\ app[a].status = "ABSENT"
    /\ \E e \in Emails \cup {None} :
          app' = [app EXCEPT ![a].status = "PENDING", ![a].email = e]
    /\ UNCHANGED <<tenant, req, call, dashboard>>

\* Slip: the word the RFQ inbox uses.
RejectAsDeclined(a) ==
    /\ app[a].status # "ABSENT"
    /\ app' = [app EXCEPT ![a].status = "DECLINED"]
    /\ UNCHANGED <<tenant, req, call, dashboard>>

\* Any application that exists, whatever became of it before.
Reject(a) ==
    /\ app[a].status # "ABSENT"
    /\ app' = [app EXCEPT ![a].status = "REJECTED"]
    /\ UNCHANGED <<tenant, req, call, dashboard>>

CreateTenant(t) ==
    /\ ~Exists(t)
    /\ \E e \in Emails \cup {None} :
          tenant' = [tenant EXCEPT ![t] =
                       [NoTenant EXCEPT !.status = "APPROVED", !.email = e]]
    /\ UNCHANGED <<app, req, call, dashboard>>

\* PATCH /tenants/:id takes an e-mail and a status; it tells nobody.
UpdateEmail(t) ==
    /\ Exists(t)
    /\ \E e \in Emails \cup {None} : tenant' = [tenant EXCEPT ![t].email = e]
    /\ UNCHANGED <<app, req, call, dashboard>>

UpdateStatus(t) ==
    /\ Exists(t)
    /\ \E s \in TenantStatus :
          tenant' = [tenant EXCEPT ![t].status = s, ![t].lockedBy = None]
    /\ UNCHANGED <<app, req, call, dashboard>>

-----------------------------------------------------------------------------
(* approve.                                                                *)

\* findOne asks for the application only, not for a PENDING one.
StartApprove(q, a) ==
    /\ At(q, "unsent")
    /\ app[a].status # "ABSENT"
    /\ req' = [req EXCEPT ![q].op = "approve", ![q].pc = "transaction",
                          ![q].app = a, ![q].email = app[a].email]
    /\ UNCHANGED <<registry, call, dashboard>>

\* Slip: a second approval finds the tenant of the first and grants it access.
ApproveSameTenant(q) ==
    LET a == req[q].app IN
    /\ At(q, "transaction")
    /\ \E t \in Tenants :
          /\ IF app[a].tenant = None THEN ~Exists(t) ELSE t = app[a].tenant
          /\ tenant' = [tenant EXCEPT ![t] =
                          [NoTenant EXCEPT !.status = "APPROVED", !.from = a,
                                           !.email = req[q].email]]
          /\ app' = [app EXCEPT ![a].status = "APPROVED", ![a].tenant = t]
          /\ req[q].email # None
          /\ SendCall(q, "approve", t, req[q].email)
    /\ UNCHANGED dashboard

\* $transaction: a new tenant, and the application APPROVED and linked to it.
\* Without an e-mail provisionTenant returns before it calls anyone.
ApproveTransaction(q) ==
    LET a == req[q].app
        e == req[q].email
    IN
    /\ At(q, "transaction")
    /\ \E t \in Tenants :
          /\ ~Exists(t)
          /\ tenant' = [tenant EXCEPT ![t] =
                          [NoTenant EXCEPT !.status = "APPROVED", !.email = e,
                                           !.from = a]]
          /\ app' = [app EXCEPT ![a].status = "APPROVED", ![a].tenant = t]
          /\ \/ e # None /\ SendCall(q, "approve", t, e)
             \/ e = None /\ EndWithout(q, "approve", t)
    /\ UNCHANGED dashboard

-----------------------------------------------------------------------------
(* provisionDashboard, suspend, reactivate.                                *)

\* Slip: the retry button's 409 is missing.
ProvisionAgain(q, t) ==
    /\ At(q, "unsent")
    /\ Exists(t)
    /\ tenant[t].email # None
    /\ SendCall(q, "provision", t, tenant[t].email)
    /\ UNCHANGED <<registry, dashboard>>

\* The retry for a tenant without dashboard access; its status is not read.
ProvisionDashboard(q, t) ==
    /\ At(q, "unsent")
    /\ Exists(t)
    /\ tenant[t].dashboardUserEmail = None
    /\ tenant[t].email # None
    /\ SendCall(q, "provision", t, tenant[t].email)
    /\ UNCHANGED <<registry, dashboard>>

\* The status, then the dashboard's lock if this tenant has access.
SetStatus(q, op, t, s) ==
    /\ At(q, "unsent")
    /\ Exists(t)
    /\ tenant' = [tenant EXCEPT ![t].status = s, ![t].lockedBy = q]
    /\ \/ /\ tenant[t].dashboardUserEmail # None
          /\ SendCall(q, op, t, None)
       \/ /\ tenant[t].dashboardUserEmail = None
          /\ EndWithout(q, op, t)
    /\ UNCHANGED <<app, dashboard>>

Suspend(q, t) == SetStatus(q, "suspend", t, "SUSPENDED")
Reactivate(q, t) == SetStatus(q, "reactivate", t, "APPROVED")

-----------------------------------------------------------------------------
(* The rest of the handlers, once the call was made.                       *)

\* Slip: outcome.ok is not looked at.
AwaitAnyReply(q) ==
    /\ At(q, "await")
    /\ call[q] # "pending"
    /\ GoTo(q, IF req[q].op \in Grants THEN "link" ELSE "ended")
    /\ UNCHANGED <<registry, call, dashboard>>

\* An answer arrives: only a granted access is linked.
AwaitReply(q) ==
    /\ At(q, "await")
    /\ call[q] # "pending"
    /\ GoTo(q, IF call[q] = "ok" /\ req[q].op \in Grants THEN "link" ELSE "ended")
    /\ UNCHANGED <<registry, call, dashboard>>

\* AbortSignal.timeout, or an answer that got lost: the fetch fails, but the
\* other side goes on with the call or has done it already.
GiveUp(q) ==
    /\ At(q, "await")
    /\ GoTo(q, "ended")
    /\ UNCHANGED <<registry, call, dashboard>>

\* tenant.update; dashboardUserEmail is unique, a P2002 ends in a 500.
LinkDashboard(q) ==
    LET t == req[q].tenant
        e == req[q].email
        taken == \E u \in Tenants \ {t} : tenant[u].dashboardUserEmail = e
    IN
    /\ At(q, "link")
    /\ \/ /\ ~taken
          /\ tenant' = [tenant EXCEPT ![t].dashboardUserEmail = e]
          /\ GoTo(q, "mail")
       \/ /\ taken
          /\ UNCHANGED tenant
          /\ GoTo(q, "ended")
    /\ UNCHANGED <<app, call, dashboard>>

\* sendTenantCredentials never throws; then the response shows the password.
ShowCredentials(q) ==
    /\ At(q, "mail")
    /\ GoTo(q, "shown")
    /\ UNCHANGED <<registry, call, dashboard>>

\* The serverless function is out of time, or its instance dies.
Crash(q) ==
    /\ req[q].pc \in {"transaction", "await", "link", "mail"}
    /\ GoTo(q, "ended")
    /\ UNCHANGED <<registry, call, dashboard>>

-----------------------------------------------------------------------------
(* The Tenant Dashboard, as the directory.                                 *)

Answer(q, outcome) == call' = [call EXCEPT ![q] = outcome]

PrepareDatabase(q) ==
    /\ call[q] = "pending" /\ req[q].op \in Grants
    /\ req[q].tenant \notin complete
    /\ Directory!Complete(req[q].tenant)
    /\ UNCHANGED <<registry, req, call>>

GrantAccess(q) ==
    /\ call[q] = "pending" /\ req[q].op \in Grants
    /\ \/ Directory!Open(req[q].tenant, req[q].email, q)
       \/ Directory!Reset(req[q].tenant, req[q].email, q)
    /\ Answer(q, "ok")
    /\ UNCHANGED <<registry, req>>

\* Slip: suspend sends what reactivate sends.
NeverLock(q) ==
    /\ call[q] = "pending" /\ req[q].op \in Locks
    /\ Directory!SetActive(req[q].tenant, TRUE)
    /\ Answer(q, "ok")
    /\ UNCHANGED <<registry, req>>

SetDashboardAccountActive(q) ==
    /\ call[q] = "pending" /\ req[q].op \in Locks
    /\ Directory!SetActive(req[q].tenant, req[q].op = "reactivate")
    /\ Answer(q, "ok")
    /\ UNCHANGED <<registry, req>>

\* A tenant that has been mailed its credentials, so once its access is on
\* record, sets a password of its own.  Comparing the current one and writing
\* are one step: whoever passed the comparison may write at any later time.
ChangeMyPassword(t) ==
    /\ tenant[t].dashboardUserEmail # None
    /\ Directory!ChangePassword(t)
    /\ UNCHANGED <<registry, req, call>>

\* Never delivered, refused (404, 409), or failed half way.
CallFails(q) ==
    /\ call[q] = "pending"
    /\ Answer(q, "failed")
    /\ UNCHANGED <<registry, req, dashboard>>

-----------------------------------------------------------------------------
Receive(q) ==
    \/ \E a \in Apps : StartApprove(q, a)
    \/ \E t \in Tenants :
          ProvisionDashboard(q, t) \/ Suspend(q, t) \/ Reactivate(q, t)

Step(q) ==
    \/ ApproveTransaction(q) \/ AwaitReply(q) \/ GiveUp(q)
    \/ LinkDashboard(q) \/ ShowCredentials(q)

Handle(q) ==
    \/ PrepareDatabase(q) \/ GrantAccess(q) \/ SetDashboardAccountActive(q)
    \/ CallFails(q)

Next ==
    \/ \E a \in Apps : Submit(a) \/ Reject(a)
    \/ \E t \in Tenants :
          CreateTenant(t) \/ UpdateEmail(t) \/ UpdateStatus(t) \/ ChangeMyPassword(t)
    \/ \E q \in Requests : Receive(q) \/ Step(q) \/ Handle(q) \/ Crash(q)

Spec == Init /\ [][Next]_vars

-----------------------------------------------------------------------------
(* What the registry and the dashboard keep true of each other.            *)

\* approve asks for no PENDING application: two admins, or a second click, make
\* two tenants with one address.  Even so credentials are shown for one of them
\* only, unless another grant for either tenant overlapped: the other's grant
\* meets the login that is taken, whichever is handled first (approve, provision).
ApprovedTwiceShownOnce ==
    \A p, q \in Requests :
        /\ p # q
        /\ req[p].op = "approve" /\ req[q].op = "approve" /\ req[p].app = req[q].app
        /\ At(p, "shown") /\ At(q, "shown")
        => ~(req[p].alone /\ req[q].alone)

\* The registry never claims access that is not there: a tenant whose
\* dashboardUserEmail is set has an account over a complete database, over lost
\* answers, timeouts, late calls and crashes (approve, provisionDashboard).
LinkedHasAccount ==
    \A t \in Tenants :
        tenant[t].dashboardUserEmail # None => HasAccount(t) /\ t \in complete

\* The login an admin is shown is the one on record and the one in force, from
\* then on: the password until the tenant sets its own, unlocked until a suspend
\* of the tenant gets through.  The exception is another grant for the tenant
\* that overlapped this one; the 409 of provisionDashboard keeps every later one
\* out, and no lost, late or failed call brings an earlier password back.
ShownCredentialsWork ==
    \A q \in Requests :
        At(q, "shown") /\ req[q].alone =>
            LET t == req[q].tenant IN
            /\ tenant[t].dashboardUserEmail = req[q].email
            /\ account[t].email = req[q].email
            /\ account[t].password \in {q, Chosen}
            /\ \/ account[t].active
               \/ \E p \in Requests :
                     req[p].op = "suspend" /\ req[p].tenant = t /\ call[p] = "ok"

\* A suspend or reactivate that wrote the status last, overlapped no other and
\* got through has moved the dashboard's lock, and nothing moves it back while
\* the status is its own: a late grant resets the password, never the lock.
LockFollowsStatus ==
    \A t \in Tenants : \A q \in Requests :
        tenant[t].lockedBy = q /\ call[q] = "ok" /\ req[q].alone =>
            account[t].active = (tenant[t].status = "APPROVED")

\* "a suspended tenant is actually locked out of their Tenant Dashboard login":
\* when every request is over and none timed out, failed or died, a tenant whose
\* status suspend wrote last has no active account (suspend, setAccountActive).
SuspendedIsLockedOut ==
    (\A q \in Requests :
        /\ req[q].op \in Grants => At(q, "shown")
        /\ req[q].op \in Locks => At(q, "ended") /\ call[q] \in {"none", "ok"}) =>
        \A t \in Tenants :
            /\ \E q \in Requests : tenant[t].lockedBy = q /\ req[q].op = "suspend"
            /\ HasAccount(t)
            => ~account[t].active
=============================================================================
