-------------------------- MODULE OnboardingProofs --------------------------
(***************************************************************************)
(* Proofs about Onboarding for any applications, tenants, addresses and    *)
(* requests.  Nothing orders the calls between the two services; what the  *)
(* registry may rely on comes from who can be under way at once: a grant   *)
(* or a lock that overlapped no other is the last word on its tenant       *)
(* (GrantsAlone, LocksAlone), because every later one would have to pass   *)
(* the 409 of provisionDashboard, or becomes the last word itself.         *)
(***************************************************************************)
EXTENDS Onboarding, TLAPS

\* A tenant row that does not exist yet holds nothing.
AbsentIsBlank ==
  \A t \in Tenants :
    ~Exists(t) => /\ tenant[t].from = None
                  /\ tenant[t].dashboardUserEmail = None
                  /\ tenant[t].lockedBy = None

\* What each point of a handler has behind it.
RequestInOrder(q) ==
  /\ At(q, "unsent") => call[q] = "none" /\ req[q].tenant = None /\ req[q].op = "none"
  /\ At(q, "transaction") =>
       call[q] = "none" /\ req[q].tenant = None /\ req[q].app \in Apps
  /\ At(q, "await") => call[q] # "none"
  /\ req[q].pc \in {"link", "mail", "shown"} => call[q] = "ok" /\ req[q].op \in Grants
  /\ call[q] # "none" => /\ req[q].tenant \in Tenants
                         /\ Exists(req[q].tenant)
                         /\ req[q].op \in Grants => req[q].email \in Emails

RequestsInOrder == \A q \in Requests : RequestInOrder(q)

\* A call that succeeded left an account, and accounts are complete.
AccountsAreComplete == \A t \in Tenants : HasAccount(t) => t \in complete

OkHasAccount ==
  \A q \in Requests : call[q] = "ok" => HasAccount(req[q].tenant)

\* A grant that goes on and overlapped no other has the tenant to itself.
GrantGoesOn(q) ==
  /\ req[q].op \in Grants /\ req[q].alone
  /\ req[q].pc \in {"await", "link", "mail", "shown"}

GrantsAlone ==
  \A p, q \in Requests :
    (GrantGoesOn(q) /\ p # q /\ req[p].op \in Grants /\ req[p].tenant = req[q].tenant)
      => ~InProgress(p)

\* So its login is the one in force, and then the one on record.
GrantHolds ==
  \A q \in Requests :
    GrantGoesOn(q) =>
      /\ call[q] = "ok" => /\ account[req[q].tenant].email = req[q].email
                           /\ account[req[q].tenant].password \in {q, Chosen}
      /\ req[q].pc \in {"mail", "shown"} =>
           tenant[req[q].tenant].dashboardUserEmail = req[q].email

\* The request that wrote a status last, and what it wrote.
LockOrigin ==
  \A t \in Tenants : \A q \in Requests :
    tenant[t].lockedBy = q =>
      /\ req[q].tenant = t /\ req[q].op \in Locks
      /\ ~At(q, "unsent") /\ ~At(q, "transaction")
      /\ (tenant[t].status = "APPROVED") = (req[q].op = "reactivate")

\* If it overlapped no other lock, none is under way.
LocksAlone ==
  \A t \in Tenants : \A p, q \in Requests :
    (/\ tenant[t].lockedBy = q /\ req[q].alone /\ call[q] # "none"
     /\ p # q /\ req[p].op \in Locks /\ req[p].tenant = t)
      => ~InProgress(p)

IInv ==
  /\ TypeOK
  /\ AbsentIsBlank
  /\ RequestsInOrder
  /\ AccountsAreComplete /\ OkHasAccount
  /\ LinkedHasAccount
  /\ GrantsAlone /\ GrantHolds
  /\ LockOrigin /\ LocksAlone /\ LockFollowsStatus

-----------------------------------------------------------------------------
\* A handler that goes on changes its program counter and nothing else.
LEMMA GoToFacts ==
  ASSUME TypeOK, NEW q \in Requests,
         NEW pc \in {"transaction", "await", "link", "mail", "shown", "ended"},
         GoTo(q, pc)
  PROVE  /\ req' \in [Requests -> RequestState]
         /\ \A p \in Requests \ {q} : req'[p] = req[p]
         /\ req'[q].pc = pc
         /\ req'[q].op = req[q].op /\ req'[q].app = req[q].app
         /\ req'[q].tenant = req[q].tenant /\ req'[q].email = req[q].email
         /\ req'[q].alone = req[q].alone
<1>1. req[q] \in RequestState /\ req'[q] = [req[q] EXCEPT !.pc = pc]
  BY DEF TypeOK, GoTo
<1> QED
  BY <1>1 DEF TypeOK, GoTo, RequestState

\* A request that calls the dashboard marks those it overlaps.
LEMMA SendFacts ==
  ASSUME TypeOK, NEW q \in Requests, NEW op \in Grants \cup Locks,
         NEW t \in Tenants, NEW e \in Emails \cup {None}, SendCall(q, op, t, e)
  PROVE  /\ req' \in [Requests -> RequestState]
         /\ call' \in [Requests -> {"none", "pending", "ok", "failed"}]
         /\ req'[q].op = op /\ req'[q].pc = "await" /\ req'[q].tenant = t
         /\ req'[q].email = e /\ req'[q].app = req[q].app /\ call'[q] = "pending"
         /\ \A p \in Requests \ {q} :
              /\ call'[p] = call[p]
              /\ req'[p].op = req[p].op /\ req'[p].pc = req[p].pc
              /\ req'[p].app = req[p].app /\ req'[p].tenant = req[p].tenant
              /\ req'[p].email = req[p].email
              /\ req'[p].alone => req[p].alone
         /\ \A p \in Requests \ {q} :
              (/\ InProgress(p) /\ req[p].tenant = t
               /\ req[p].op \in IF op \in Grants THEN Grants ELSE Locks)
                => ~req'[p].alone /\ ~req'[q].alone
<1> DEFINE others == Overlapping(q, IF op \in Grants THEN Grants ELSE Locks, t)
<1>1. \A p \in Requests : req[p] \in RequestState
  BY DEF TypeOK
<1>2. req'[q] = [req[q] EXCEPT !.op = op, !.pc = "await", !.tenant = t,
                               !.email = e, !.alone = others = {}]
  BY DEF SendCall, TypeOK
<1>3. \A p \in Requests \ {q} :
        req'[p] = IF p \in others THEN [req[p] EXCEPT !.alone = FALSE] ELSE req[p]
  BY DEF SendCall, TypeOK
<1>4. \A p \in others : p \in Requests \ {q}
  BY DEF Overlapping
<1>5. \A p \in Requests \ {q} :
        (/\ InProgress(p) /\ req[p].tenant = t
         /\ req[p].op \in IF op \in Grants THEN Grants ELSE Locks) => p \in others
  BY DEF Overlapping
<1> HIDE DEF others
<1>6. /\ req'[q] \in RequestState
      /\ req'[q].op = op /\ req'[q].pc = "await" /\ req'[q].tenant = t
      /\ req'[q].email = e /\ req'[q].app = req[q].app
      /\ req'[q].alone = (others = {})
  BY <1>1, <1>2 DEF RequestState
<1>7. ASSUME NEW p \in Requests \ {q}
      PROVE  /\ req'[p] \in RequestState
             /\ req'[p].op = req[p].op /\ req'[p].pc = req[p].pc
             /\ req'[p].app = req[p].app /\ req'[p].tenant = req[p].tenant
             /\ req'[p].email = req[p].email
             /\ req'[p].alone => req[p].alone
             /\ p \in others => ~req'[p].alone
  BY <1>1, <1>3 DEF RequestState
<1>8. req' \in [Requests -> RequestState]
  <2>1. req' = [p \in Requests |-> req'[p]]
    BY DEF SendCall
  <2> QED
    BY <2>1, <1>6, <1>7
<1>9. /\ call' \in [Requests -> {"none", "pending", "ok", "failed"}]
      /\ call'[q] = "pending"
      /\ \A p \in Requests \ {q} : call'[p] = call[p]
  BY DEF SendCall, TypeOK
<1> QED
  BY <1>5, <1>6, <1>7, <1>8, <1>9

\* A request that is over without a call.
LEMMA EndFacts ==
  ASSUME TypeOK, NEW q \in Requests, NEW op \in Grants \cup Locks,
         NEW t \in Tenants, EndWithout(q, op, t)
  PROVE  /\ req' \in [Requests -> RequestState]
         /\ req'[q].op = op /\ req'[q].pc = "ended" /\ req'[q].tenant = t
         /\ req'[q].app = req[q].app
         /\ call' = call
         /\ \A p \in Requests \ {q} : req'[p] = req[p]
<1>1. /\ req[q] \in RequestState
      /\ req'[q] = [req[q] EXCEPT !.op = op, !.pc = "ended", !.tenant = t]
  BY DEF TypeOK, EndWithout
<1> QED
  BY <1>1 DEF TypeOK, EndWithout, RequestState

-----------------------------------------------------------------------------
\* The empty registry satisfies the invariant.
LEMMA InitIInv == Init => IInv
<1> SUFFICES ASSUME Init PROVE IInv
  OBVIOUS
<1>1. TypeOK
  BY OnboardingAssumption
     DEF Init, TypeOK, AppRow, TenantRow, NoTenant, RequestState, Directory!Init
<1>2. \A q \in Requests : /\ At(q, "unsent") /\ call[q] = "none"
                          /\ req[q].tenant = None /\ req[q].op = "none"
  BY DEF Init, At
<1>3. \A t \in Tenants : /\ account[t] = NoAccount /\ tenant[t].lockedBy = None
                         /\ tenant[t].from = None /\ tenant[t].dashboardUserEmail = None
  BY DEF Init, NoTenant, Directory!Init
<1> QED
  BY <1>1, <1>2, <1>3, OnboardingAssumption
     DEF IInv, AbsentIsBlank, RequestsInOrder, RequestInOrder,
         AccountsAreComplete, OkHasAccount, LinkedHasAccount, GrantsAlone, GrantHolds,
         GrantGoesOn, LockOrigin, LocksAlone, LockFollowsStatus, At, HasAccount, Grants

-----------------------------------------------------------------------------
\* The form, a rejection and PATCH write to the registry alone: rows appear and
\* lose nothing that was linked, and no approval is made or undone by half.
LEMMA RegistryStep ==
  ASSUME IInv,
         \/ \E a \in Apps : Submit(a) \/ Reject(a)
         \/ \E t \in Tenants : CreateTenant(t) \/ UpdateEmail(t) \/ UpdateStatus(t)
  PROVE  IInv'
<1>0. UNCHANGED <<req, call, account, complete>>
  BY DEF Submit, Reject, CreateTenant, UpdateEmail, UpdateStatus, dashboard
<1>1. ASSUME NEW a \in Apps, Submit(a) \/ Reject(a) PROVE IInv'
  <2>1. PICK x \in AppRow : app' = [app EXCEPT ![a] = x]
    <3>1. app[a] \in AppRow
      BY DEF IInv, TypeOK
    <3>2. CASE Submit(a)
      <4>1. PICK e \in Emails \cup {None} :
              app' = [app EXCEPT ![a].status = "PENDING", ![a].email = e]
        BY <3>2 DEF Submit
      <4> DEFINE y == [app[a] EXCEPT !.status = "PENDING", !.email = e]
      <4>2. y \in AppRow
        BY <3>1 DEF AppRow
      <4>3. app' = [app EXCEPT ![a] = y]
        BY <4>1 DEF IInv, TypeOK
      <4> QED
        BY <4>2, <4>3
    <3>3. CASE Reject(a)
      <4> DEFINE y == [app[a] EXCEPT !.status = "REJECTED"]
      <4>1. y \in AppRow
        BY <3>1 DEF AppRow
      <4>2. app' = [app EXCEPT ![a] = y]
        BY <3>3 DEF Reject
      <4> QED
        BY <4>1, <4>2
    <3> QED
      BY <1>1, <3>2, <3>3
  <2>2. UNCHANGED tenant
    BY <1>1 DEF Submit, Reject
  <2>3. TypeOK'
    BY <1>0, <2>1, <2>2 DEF IInv, TypeOK
  <2> QED
    BY <1>0, <2>2, <2>3
       DEF IInv, AbsentIsBlank, RequestsInOrder, RequestInOrder, AccountsAreComplete,
           OkHasAccount, LinkedHasAccount, GrantsAlone, GrantHolds, GrantGoesOn,
           LockOrigin, LocksAlone, LockFollowsStatus, At, Exists, HasAccount, InProgress
<1>2. ASSUME NEW t \in Tenants, CreateTenant(t) \/ UpdateEmail(t) \/ UpdateStatus(t)
      PROVE  IInv'
  <2>0. tenant[t] \in TenantRow
    BY DEF IInv, TypeOK
  <2>1. PICK x \in TenantRow :
          /\ tenant' = [tenant EXCEPT ![t] = x]
          /\ x.status # "ABSENT" /\ x.from = tenant[t].from
          /\ x.dashboardUserEmail = tenant[t].dashboardUserEmail
          /\ \/ x.lockedBy = None
             \/ x.lockedBy = tenant[t].lockedBy /\ x.status = tenant[t].status
    <3>1. CASE CreateTenant(t)
      <4>1. PICK e \in Emails \cup {None} :
              tenant' = [tenant EXCEPT ![t] =
                           [NoTenant EXCEPT !.status = "APPROVED", !.email = e]]
        BY <3>1 DEF CreateTenant
      <4> DEFINE x == [NoTenant EXCEPT !.status = "APPROVED", !.email = e]
      <4>2. x \in TenantRow /\ x.status # "ABSENT" /\ x.lockedBy = None
              /\ x.from = None /\ x.dashboardUserEmail = None
        BY DEF TenantRow, TenantStatus, NoTenant
      <4>3. tenant[t].from = None /\ tenant[t].dashboardUserEmail = None
        BY <3>1 DEF IInv, AbsentIsBlank, CreateTenant
      <4> QED
        BY <4>1, <4>2, <4>3
    <3>2. CASE UpdateEmail(t)
      <4>1. PICK e \in Emails \cup {None} : tenant' = [tenant EXCEPT ![t].email = e]
        BY <3>2 DEF UpdateEmail
      <4> DEFINE x == [tenant[t] EXCEPT !.email = e]
      <4>2. x \in TenantRow /\ x.status = tenant[t].status
              /\ x.lockedBy = tenant[t].lockedBy /\ x.from = tenant[t].from
              /\ x.dashboardUserEmail = tenant[t].dashboardUserEmail
        BY <2>0 DEF TenantRow
      <4>3. tenant' = [tenant EXCEPT ![t] = x] /\ x.status # "ABSENT"
        BY <3>2, <4>1, <4>2 DEF UpdateEmail, Exists
      <4> QED
        BY <4>2, <4>3
    <3>3. CASE UpdateStatus(t)
      <4>1. PICK s \in TenantStatus :
              tenant' = [tenant EXCEPT ![t].status = s, ![t].lockedBy = None]
        BY <3>3 DEF UpdateStatus
      <4> DEFINE x == [tenant[t] EXCEPT !.status = s, !.lockedBy = None]
      <4>2. x \in TenantRow /\ x.status = s /\ x.lockedBy = None
              /\ x.from = tenant[t].from
              /\ x.dashboardUserEmail = tenant[t].dashboardUserEmail
        BY <2>0 DEF TenantRow
      <4>3. s # "ABSENT"
        BY DEF TenantStatus
      <4>4. tenant' = [tenant EXCEPT ![t] = x]
        BY <4>1 DEF IInv, TypeOK
      <4> QED
        BY <4>2, <4>3, <4>4
    <3> QED
      BY <1>2, <3>1, <3>2, <3>3
  <2>2. UNCHANGED app
    BY <1>2 DEF CreateTenant, UpdateEmail, UpdateStatus
  <2>3. \A u \in Tenants \ {t} : tenant'[u] = tenant[u]
    BY <2>1 DEF IInv, TypeOK
  <2>4. tenant'[t] = x
    BY <2>1 DEF IInv, TypeOK
  <2>5. TypeOK'
    BY <1>0, <2>1, <2>2 DEF IInv, TypeOK
  <2>6. \A u \in Tenants :
          /\ tenant'[u].from = tenant[u].from
          /\ tenant'[u].dashboardUserEmail = tenant[u].dashboardUserEmail
          /\ Exists(u) => Exists(u)'
    BY <2>1, <2>3, <2>4 DEF Exists
  <2>7. \A u \in Tenants, q \in Requests :
          tenant'[u].lockedBy = q =>
            tenant[u].lockedBy = q /\ tenant'[u].status = tenant[u].status
    BY <2>1, <2>3, <2>4, OnboardingAssumption
  <2>8. AbsentIsBlank'
    BY <2>1, <2>3, <2>4 DEF IInv, AbsentIsBlank, Exists
  <2>9. RequestsInOrder'
    BY <1>0, <2>6 DEF IInv, RequestsInOrder, RequestInOrder, At
  <2>10. LinkedHasAccount' /\ GrantHolds' /\ GrantsAlone'
    <3>1. LinkedHasAccount'
      BY <1>0, <2>6 DEF IInv, LinkedHasAccount, HasAccount
    <3>2. GrantsAlone'
      BY <1>0 DEF IInv, GrantsAlone, GrantGoesOn, InProgress
    <3>3. \A q \in Requests : GrantGoesOn(q) => req[q].tenant \in Tenants
      BY DEF IInv, GrantGoesOn, RequestsInOrder, RequestInOrder, At
    <3>4. GrantHolds'
      BY <1>0, <2>6, <3>3 DEF IInv, GrantHolds, GrantGoesOn
    <3> QED
      BY <3>1, <3>2, <3>4
  <2>11. LockOrigin' /\ LocksAlone' /\ LockFollowsStatus'
    <3>1. LockOrigin'
      BY <1>0, <2>7 DEF IInv, LockOrigin, At
    <3>2. LocksAlone'
      BY <1>0, <2>7 DEF IInv, LocksAlone, InProgress
    <3>3. LockFollowsStatus'
      BY <1>0, <2>7 DEF IInv, LockFollowsStatus
    <3> QED
      BY <3>1, <3>2, <3>3
  <2> QED
    BY <1>0, <2>5, <2>8, <2>9, <2>10, <2>11
       DEF IInv, AccountsAreComplete, OkHasAccount, HasAccount
<1> QED
  BY <1>1, <1>2

-----------------------------------------------------------------------------
\* A handler that goes on, or ends, keeps what it knows: it is no more under way
\* than before.
LEMMA MoveStep ==
  ASSUME IInv, NEW q \in Requests,
         AwaitReply(q) \/ GiveUp(q) \/ ShowCredentials(q) \/ Crash(q)
  PROVE  IInv'
<1>0. UNCHANGED <<app, tenant, call, account, complete>>
  BY DEF AwaitReply, GiveUp, ShowCredentials, Crash, registry, dashboard
<1>1. TypeOK /\ RequestInOrder(q) /\ req[q] \in RequestState
  BY DEF IInv, TypeOK, RequestsInOrder
<1>2. PICK pc \in {"link", "shown", "ended"} :
        /\ GoTo(q, pc)
        /\ pc = "link" => At(q, "await") /\ call[q] = "ok" /\ req[q].op \in Grants
        /\ pc = "shown" => At(q, "mail")
        /\ req[q].pc \in {"transaction", "await", "link", "mail"}
  BY DEF AwaitReply, GiveUp, ShowCredentials, Crash, At
<1>3. /\ req' \in [Requests -> RequestState]
      /\ \A p \in Requests \ {q} : req'[p] = req[p]
      /\ req'[q].pc = pc
      /\ req'[q].op = req[q].op /\ req'[q].app = req[q].app
      /\ req'[q].tenant = req[q].tenant /\ req'[q].email = req[q].email
      /\ req'[q].alone = req[q].alone
  BY <1>1, <1>2, GoToFacts
<1>4. \A p \in Requests :
        /\ req'[p].op = req[p].op /\ req'[p].tenant = req[p].tenant
        /\ req'[p].email = req[p].email /\ req'[p].alone = req[p].alone
        /\ InProgress(p)' => InProgress(p)
        /\ GrantGoesOn(p)' => GrantGoesOn(p)
        /\ ~At(p, "unsent") /\ ~At(p, "transaction") =>
             ~At(p, "unsent")' /\ ~At(p, "transaction")'
        /\ p # q => req'[p].pc = req[p].pc
  <2>1. ASSUME NEW p \in Requests, p # q
        PROVE  req'[p] = req[p]
    BY <1>3, <2>1
  <2>2. InProgress(q)' => InProgress(q)
    BY <1>2 DEF InProgress
  <2>3. GrantGoesOn(q)' => GrantGoesOn(q)
    BY <1>2, <1>3, <1>1 DEF GrantGoesOn, At
  <2>4. ~At(q, "unsent")' /\ ~At(q, "transaction")'
    BY <1>2, <1>3 DEF At
  <2> QED
    BY <1>0, <1>3, <2>1, <2>2, <2>3, <2>4 DEF InProgress, GrantGoesOn, At
<1>5. TypeOK'
  BY <1>0, <1>3 DEF IInv, TypeOK
<1>6. RequestsInOrder'
  <2>1. RequestInOrder(q)'
    BY <1>0, <1>1, <1>2, <1>3 DEF RequestInOrder, At, Exists
  <2>2. \A p \in Requests \ {q} : RequestInOrder(p)'
    BY <1>0, <1>3 DEF IInv, RequestsInOrder, RequestInOrder, At, Exists
  <2> QED
    BY <2>1, <2>2 DEF RequestsInOrder
<1>7. AbsentIsBlank' /\ AccountsAreComplete' /\ LinkedHasAccount'
  BY <1>0 DEF IInv, AbsentIsBlank, AccountsAreComplete,
              LinkedHasAccount, HasAccount, Exists
<1>8. OkHasAccount'
  BY <1>0, <1>4 DEF IInv, OkHasAccount, HasAccount
<1>9. GrantsAlone'
  BY <1>4 DEF IInv, GrantsAlone
<1>10. GrantHolds'
  <2>1. \A p \in Requests : req'[p].pc \in {"mail", "shown"} => req[p].pc \in {"mail", "shown"}
    BY <1>2, <1>3, <1>4 DEF At
  <2> QED
    BY <1>0, <1>4, <2>1 DEF IInv, GrantHolds
<1>11. LockOrigin' /\ LocksAlone' /\ LockFollowsStatus'
  <2>1. LockOrigin'
    BY <1>0, <1>4 DEF IInv, LockOrigin
  <2>2. LocksAlone'
    BY <1>0, <1>4 DEF IInv, LocksAlone
  <2>3. LockFollowsStatus'
    BY <1>0, <1>4 DEF IInv, LockFollowsStatus
  <2> QED
    BY <2>1, <2>2, <2>3
<1> QED
  BY <1>5, <1>6, <1>7, <1>8, <1>9, <1>10, <1>11 DEF IInv

-----------------------------------------------------------------------------
\* approve has read its application.
LEMMA StartApproveStep ==
  ASSUME IInv, NEW q \in Requests, NEW a \in Apps, StartApprove(q, a)
  PROVE  IInv'
<1>0. UNCHANGED <<app, tenant, call, account, complete>>
  BY DEF StartApprove, registry, dashboard
<1>1. /\ TypeOK /\ RequestInOrder(q) /\ req[q] \in RequestState
      /\ app[a] \in AppRow /\ At(q, "unsent")
  BY DEF IInv, TypeOK, RequestsInOrder, StartApprove
<1>2. req'[q] = [req[q] EXCEPT !.op = "approve", !.pc = "transaction",
                               !.app = a, !.email = app[a].email]
  BY <1>1 DEF StartApprove, TypeOK
<1>3. /\ req'[q] \in RequestState /\ req'[q].pc = "transaction" /\ req'[q].app = a
      /\ req'[q].tenant = req[q].tenant
  BY <1>1, <1>2 DEF RequestState, AppRow, Grants
<1>4. \A p \in Requests \ {q} : req'[p] = req[p]
  BY <1>1 DEF StartApprove, TypeOK
<1>5. req' \in [Requests -> RequestState]
  <2>1. req' = [p \in Requests |-> req'[p]]
    BY <1>1 DEF StartApprove, TypeOK
  <2> QED
    BY <2>1, <1>1, <1>3, <1>4 DEF TypeOK
<1>6. call[q] = "none" /\ req[q].tenant = None
  BY <1>1 DEF RequestInOrder
<1>7. TypeOK'
  BY <1>0, <1>5 DEF IInv, TypeOK
<1>8. RequestsInOrder'
  <2>1. RequestInOrder(q)'
    BY <1>0, <1>3, <1>6 DEF RequestInOrder, At
  <2>2. \A p \in Requests \ {q} : RequestInOrder(p)'
    BY <1>0, <1>4 DEF IInv, RequestsInOrder, RequestInOrder, At, Exists
  <2> QED
    BY <2>1, <2>2 DEF RequestsInOrder
<1>9. AbsentIsBlank' /\ AccountsAreComplete' /\ LinkedHasAccount'
  BY <1>0 DEF IInv, AbsentIsBlank, AccountsAreComplete,
              LinkedHasAccount, HasAccount, Exists
<1>10. OkHasAccount'
  <2>1. \A p \in Requests : call[p] = "ok" => p # q
    BY <1>6
  <2> QED
    BY <1>0, <1>4, <2>1 DEF IInv, OkHasAccount, HasAccount
<1>11. ~GrantGoesOn(q)' /\ \A p \in Requests \ {q} : GrantGoesOn(p)' = GrantGoesOn(p)
  BY <1>3, <1>4 DEF GrantGoesOn
<1>12. \A p \in Requests \ {q} :
         /\ GrantGoesOn(p) => req[p].tenant \in Tenants
         /\ InProgress(p)' = InProgress(p)
  BY <1>0, <1>4
     DEF IInv, GrantGoesOn, InProgress, RequestsInOrder, RequestInOrder, At
<1>13. GrantsAlone'
  <2> SUFFICES ASSUME NEW p \in Requests, NEW r \in Requests, GrantGoesOn(r)', p # r,
                      (req[p].op \in Grants /\ req[p].tenant = req[r].tenant)'
               PROVE  ~InProgress(p)'
    BY DEF GrantsAlone
  <2>1. r # q /\ GrantGoesOn(r) /\ req'[r] = req[r] /\ req[r].tenant \in Tenants
    BY <1>4, <1>11, <1>12
  <2>2. p # q
    BY <1>3, <1>6, <2>1, OnboardingAssumption
  <2> QED
    BY <1>4, <1>12, <2>1, <2>2 DEF IInv, GrantsAlone
<1>14. GrantHolds'
  BY <1>0, <1>4, <1>11 DEF IInv, GrantHolds
<1>15. \A t \in Tenants : tenant[t].lockedBy # q
  BY <1>1 DEF IInv, LockOrigin
<1>16. LockOrigin'
  BY <1>0, <1>4, <1>15 DEF IInv, LockOrigin, At
<1>17. LocksAlone'
  <2> SUFFICES ASSUME NEW t \in Tenants, NEW p \in Requests, NEW r \in Requests,
                      (tenant[t].lockedBy = r /\ req[r].alone /\ call[r] # "none")', p # r,
                      (req[p].op \in Locks /\ req[p].tenant = t)'
               PROVE  ~InProgress(p)'
    BY DEF LocksAlone
  <2>1. r # q /\ p # q
    BY <1>0, <1>3, <1>6, <1>15, OnboardingAssumption
  <2> QED
    BY <1>0, <1>4, <1>12, <2>1 DEF IInv, LocksAlone
<1>18. LockFollowsStatus'
  BY <1>0, <1>4, <1>15 DEF IInv, LockFollowsStatus
<1> QED
  BY <1>7, <1>8, <1>9, <1>10, <1>13, <1>14, <1>16, <1>17, <1>18 DEF IInv

-----------------------------------------------------------------------------
\* A request that was under way for no tenant yet.
NotYetCalled(q) == (At(q, "unsent") \/ At(q, "transaction")) /\ call[q] = "none"

\* It is under way for t now, and marks those it overlaps; or it is over.
Called(q, op, t, e) ==
  /\ req' \in [Requests -> RequestState]
  /\ call' \in [Requests -> {"none", "pending", "ok", "failed"}]
  /\ req'[q].op = op /\ req'[q].tenant = t /\ req'[q].app = req[q].app
  /\ \/ req'[q].pc = "await" /\ call'[q] = "pending" /\ req'[q].email = e
     \/ req'[q].pc = "ended" /\ call'[q] = "none"
  /\ \A p \in Requests \ {q} :
       /\ call'[p] = call[p]
       /\ req'[p].op = req[p].op /\ req'[p].pc = req[p].pc
       /\ req'[p].app = req[p].app /\ req'[p].tenant = req[p].tenant
       /\ req'[p].email = req[p].email
       /\ req'[p].alone => req[p].alone
  /\ InProgress(q)' =>
       \A p \in Requests \ {q} :
         (/\ InProgress(p) /\ req[p].tenant = t
          /\ req[p].op \in IF op \in Grants THEN Grants ELSE Locks)
           => ~req'[p].alone /\ ~req'[q].alone

\* Both ways a handler has to go on after its first write are of that kind.
LEMMA CalledFacts ==
  ASSUME TypeOK, NEW q \in Requests, NotYetCalled(q), NEW op \in Grants \cup Locks,
         NEW t \in Tenants, NEW e \in Emails \cup {None},
         SendCall(q, op, t, e) \/ EndWithout(q, op, t)
  PROVE  Called(q, op, t, e)
<1>1. CASE SendCall(q, op, t, e)
  BY <1>1, SendFacts DEF Called
<1>2. CASE EndWithout(q, op, t)
  <2>1. /\ req' \in [Requests -> RequestState]
        /\ req'[q].op = op /\ req'[q].pc = "ended" /\ req'[q].tenant = t
        /\ req'[q].app = req[q].app
        /\ call' = call
        /\ \A p \in Requests \ {q} : req'[p] = req[p]
    BY <1>2, EndFacts
  <2>2. call'[q] = "none"
    BY <2>1 DEF NotYetCalled
  <2>3. ~InProgress(q)'
    BY <2>1, <2>2 DEF InProgress
  <2>4. call' \in [Requests -> {"none", "pending", "ok", "failed"}]
    BY <2>1 DEF TypeOK
  <2> QED
    BY <2>1, <2>2, <2>3, <2>4 DEF Called
<1> QED
  BY <1>1, <1>2

\* What the invariant says of requests survives a call, if no grant of the
\* tenant is shown when another one is asked for.
LEMMA CalledKeepsOrder ==
  ASSUME IInv, NEW q \in Requests, NotYetCalled(q), NEW op \in Grants \cup Locks,
         NEW t \in Tenants, NEW e \in Emails \cup {None}, Called(q, op, t, e),
         op \in Grants /\ At(q, "await")' => e \in Emails,
         \A u \in Tenants : u = t \/ Exists(u) => Exists(u)',
         UNCHANGED <<account, complete>>,
         op \in Grants => tenant[t].dashboardUserEmail = None
  PROVE  RequestsInOrder' /\ OkHasAccount' /\ GrantsAlone'
<1>1. /\ req'[q].op = op /\ req'[q].tenant = t
      /\ \/ req'[q].pc = "await" /\ call'[q] = "pending" /\ req'[q].email = e
         \/ req'[q].pc = "ended" /\ call'[q] = "none"
  BY DEF Called
<1>2. \A p \in Requests \ {q} :
        /\ call'[p] = call[p]
        /\ req'[p].op = req[p].op /\ req'[p].pc = req[p].pc
        /\ req'[p].app = req[p].app /\ req'[p].tenant = req[p].tenant
        /\ req'[p].email = req[p].email
        /\ req'[p].alone => req[p].alone
  BY DEF Called
<1>3. InProgress(q)' =>
        \A p \in Requests \ {q} :
          (/\ InProgress(p) /\ req[p].tenant = t
           /\ req[p].op \in IF op \in Grants THEN Grants ELSE Locks)
            => ~req'[p].alone /\ ~req'[q].alone
  BY DEF Called
<1>4. RequestsInOrder'
  <2>1. RequestInOrder(q)'
    BY <1>1 DEF RequestInOrder, At
  <2>2. ASSUME NEW p \in Requests \ {q} PROVE RequestInOrder(p)'
    BY <1>2 DEF IInv, RequestsInOrder, RequestInOrder, At
  <2> QED
    BY <2>1, <2>2 DEF RequestsInOrder
<1>5. OkHasAccount'
  BY <1>1, <1>2 DEF IInv, OkHasAccount, HasAccount
<1>6. GrantsAlone'
  <2> SUFFICES ASSUME NEW p \in Requests, NEW r \in Requests, GrantGoesOn(r)', p # r,
                      (req[p].op \in Grants /\ req[p].tenant = req[r].tenant)'
               PROVE  ~InProgress(p)'
    BY DEF GrantsAlone
  <2>1. CASE r = q
    <3>1. /\ op \in Grants /\ req'[q].alone /\ InProgress(q)'
          /\ p # q /\ req[p].tenant = t /\ req[p].op \in Grants
      BY <1>1, <1>2, <2>1 DEF GrantGoesOn, InProgress
    <3>2. ~InProgress(p)
      BY <1>3, <3>1
    <3> QED
      BY <1>2, <3>1, <3>2 DEF InProgress
  <2>2. CASE r # q /\ p = q
    <3>1. op \in Grants /\ req[r].tenant = t /\ GrantGoesOn(r) /\ req'[r].alone
      BY <1>1, <1>2, <2>2 DEF GrantGoesOn
    <3>2. ~At(r, "shown")
      <4>1. CASE At(r, "shown")
        <5>1. tenant[t].dashboardUserEmail = req[r].email
          BY <3>1, <4>1 DEF IInv, GrantHolds, At
        <5>2. req[r].email \in Emails
          BY <3>1, <4>1 DEF IInv, RequestsInOrder, RequestInOrder, GrantGoesOn, At
        <5> QED
          BY <3>1, <5>1, <5>2, OnboardingAssumption
      <4> QED
        BY <4>1
    <3>3. InProgress(r) /\ req[r].op \in Grants
      BY <3>1, <3>2 DEF GrantGoesOn, InProgress, At
    <3>4. CASE InProgress(q)'
      BY <1>3, <2>2, <3>1, <3>3, <3>4
    <3> QED
      BY <2>2, <3>4
  <2>3. CASE r # q /\ p # q
    <3>1. GrantGoesOn(r) /\ req[p].op \in Grants /\ req[p].tenant = req[r].tenant
      BY <1>2, <2>3 DEF GrantGoesOn
    <3>2. ~InProgress(p)
      BY <2>3, <3>1 DEF IInv, GrantsAlone
    <3> QED
      BY <1>2, <2>3, <3>2 DEF InProgress
  <2> QED
    BY <2>1, <2>2, <2>3
<1> QED
  BY <1>4, <1>5, <1>6

\* A grant that is asked for touches no lock, and what other grants hold stays.
LEMMA GrantCalled ==
  ASSUME IInv, NEW q \in Requests, NotYetCalled(q), NEW op \in Grants,
         NEW t \in Tenants, NEW e \in Emails \cup {None}, Called(q, op, t, e),
         UNCHANGED <<account, complete>>,
         \A u \in Tenants : tenant'[u] = tenant[u] \/ (u = t /\ ~Exists(t)),
         \A p \in Requests : tenant'[t].lockedBy = p => tenant'[t] = tenant[t]
  PROVE  GrantHolds' /\ LockOrigin' /\ LocksAlone' /\ LockFollowsStatus'
<1>1. /\ req'[q].op = op /\ call'[q] \in {"pending", "none"}
      /\ req'[q].pc \in {"await", "ended"}
  BY DEF Called
<1>2. \A p \in Requests \ {q} :
        /\ call'[p] = call[p]
        /\ req'[p].op = req[p].op /\ req'[p].pc = req[p].pc
        /\ req'[p].tenant = req[p].tenant /\ req'[p].email = req[p].email
        /\ req'[p].alone => req[p].alone
  BY DEF Called
<1>3. GrantHolds'
  <2> SUFFICES ASSUME NEW r \in Requests, GrantGoesOn(r)', r # q
               PROVE  /\ (call[r] = "ok")' =>
                           (/\ account[req[r].tenant].email = req[r].email
                            /\ account[req[r].tenant].password \in {r, Chosen})'
                      /\ (req[r].pc \in {"mail", "shown"})' =>
                           (tenant[req[r].tenant].dashboardUserEmail = req[r].email)'
    BY <1>1 DEF GrantHolds
  <2>1. GrantGoesOn(r)
    BY <1>2 DEF GrantGoesOn
  <2>2. req[r].tenant \in Tenants /\ Exists(req[r].tenant)
    BY <2>1 DEF IInv, RequestsInOrder, RequestInOrder, GrantGoesOn, At
  <2>3. tenant'[req[r].tenant] = tenant[req[r].tenant]
    BY <2>2
  <2> QED
    BY <1>2, <2>1, <2>3 DEF IInv, GrantHolds
<1>4. \A u \in Tenants, p \in Requests :
        tenant'[u].lockedBy = p =>
          p # q /\ tenant[u].lockedBy = p /\ tenant'[u] = tenant[u]
  <2>1. \A u \in Tenants : tenant[u].lockedBy # q
    BY DEF IInv, LockOrigin, NotYetCalled
  <2> QED
    BY <2>1
<1>5. LockOrigin'
  BY <1>2, <1>4 DEF IInv, LockOrigin, At
<1>6. LocksAlone'
  <2> SUFFICES ASSUME NEW u \in Tenants, NEW p \in Requests, NEW r \in Requests,
                      (tenant[u].lockedBy = r /\ req[r].alone /\ call[r] # "none")', p # r,
                      (req[p].op \in Locks /\ req[p].tenant = u)'
               PROVE  ~InProgress(p)'
    BY DEF LocksAlone
  <2>1. p # q
    BY <1>1 DEF Grants, Locks
  <2>2. ~InProgress(p)
    BY <1>2, <1>4, <2>1 DEF IInv, LocksAlone
  <2> QED
    BY <1>2, <2>1, <2>2 DEF InProgress
<1>7. LockFollowsStatus'
  BY <1>2, <1>4 DEF IInv, LockFollowsStatus
<1> QED
  BY <1>3, <1>5, <1>6, <1>7

-----------------------------------------------------------------------------
\* A request that is still in order before its call.
LEMMA BeforeCall ==
  ASSUME IInv, NEW q \in Requests, At(q, "unsent") \/ At(q, "transaction")
  PROVE  NotYetCalled(q)
BY DEF IInv, RequestsInOrder, RequestInOrder, NotYetCalled

\* The transaction of approve: a new row and its approval at once.
LEMMA ApproveStep ==
  ASSUME IInv, NEW q \in Requests, ApproveTransaction(q)
  PROVE  IInv'
<1> DEFINE a == req[q].app
           e == req[q].email
           row(t) == [NoTenant EXCEPT !.status = "APPROVED", !.email = e, !.from = a]
<1>1. PICK t \in Tenants :
        /\ ~Exists(t)
        /\ tenant' = [tenant EXCEPT ![t] = row(t)]
        /\ app' = [app EXCEPT ![a].status = "APPROVED", ![a].tenant = t]
        /\ \/ e # None /\ SendCall(q, "approve", t, e)
           \/ e = None /\ EndWithout(q, "approve", t)
  BY DEF ApproveTransaction
<1>2. /\ TypeOK /\ RequestInOrder(q) /\ req[q] \in RequestState
      /\ At(q, "transaction") /\ UNCHANGED <<account, complete>>
  BY DEF IInv, TypeOK, RequestsInOrder, ApproveTransaction, dashboard
<1>3. a \in Apps /\ e \in Emails \cup {None} /\ app[a] \in AppRow /\ NotYetCalled(q)
  BY <1>2, BeforeCall DEF RequestInOrder, RequestState, TypeOK
<1> HIDE DEF a, e
<1>4. /\ row(t) \in TenantRow /\ row(t).status = "APPROVED" /\ row(t).from = a
      /\ row(t).dashboardUserEmail = None /\ row(t).lockedBy = None
  BY <1>3 DEF TenantRow, TenantStatus, NoTenant
<1> HIDE DEF row
<1>5. tenant'[t] = row(t) /\ \A u \in Tenants \ {t} : tenant'[u] = tenant[u]
  BY <1>1, <1>2 DEF TypeOK
<1>6. /\ app'[a].tenant = t /\ app'[a] \in AppRow
      /\ \A b \in Apps \ {a} : app'[b] = app[b]
  <2>1. app'[a] = [app[a] EXCEPT !.status = "APPROVED", !.tenant = t]
    BY <1>1, <1>2, <1>3 DEF TypeOK
  <2>2. app'[a].tenant = t /\ app'[a] \in AppRow
    BY <1>3, <2>1 DEF AppRow
  <2> QED
    BY <1>1, <1>2, <2>2 DEF TypeOK
<1>7. Called(q, "approve", t, e)
  BY <1>1, <1>2, <1>3, CalledFacts DEF Grants
<1>8. \A u \in Tenants : u = t \/ Exists(u) => Exists(u)'
  BY <1>4, <1>5 DEF Exists
<1>9. At(q, "await")' => e \in Emails
  <2>1. CASE e # None
    BY <1>3, <2>1
  <2>2. CASE e = None
    BY <1>1, <1>2, <2>2, EndFacts DEF At, Grants
  <2> QED
    BY <2>1, <2>2
<1>10. RequestsInOrder' /\ OkHasAccount' /\ GrantsAlone'
  <2>1. tenant[t].dashboardUserEmail = None
    BY <1>1 DEF IInv, AbsentIsBlank
  <2> QED
    BY <1>2, <1>3, <1>7, <1>8, <1>9, <2>1, CalledKeepsOrder DEF Grants
<1>11. GrantHolds' /\ LockOrigin' /\ LocksAlone' /\ LockFollowsStatus'
  <2>1. \A u \in Tenants : tenant'[u] = tenant[u] \/ (u = t /\ ~Exists(t))
    BY <1>1, <1>5
  <2>2. \A p \in Requests : tenant'[t].lockedBy # p
    BY <1>4, <1>5, OnboardingAssumption
  <2> QED
    BY <1>2, <1>3, <1>7, <2>1, <2>2, GrantCalled DEF Grants
<1>12. TypeOK'
  <2>1. app' \in [Apps -> AppRow]
    <3>1. app' = [b \in Apps |-> app'[b]]
      BY <1>1, <1>2 DEF TypeOK
    <3> QED
      BY <1>2, <1>6, <3>1 DEF TypeOK
  <2>2. tenant' \in [Tenants -> TenantRow]
    BY <1>1, <1>2, <1>4 DEF TypeOK
  <2> QED
    BY <1>2, <1>7, <2>1, <2>2 DEF TypeOK, Called
<1>13. AbsentIsBlank'
  BY <1>4, <1>5 DEF IInv, AbsentIsBlank, Exists
<1>14. LinkedHasAccount' /\ AccountsAreComplete'
  BY <1>2, <1>4, <1>5 DEF IInv, LinkedHasAccount, AccountsAreComplete, HasAccount
<1> QED
  BY <1>10, <1>11, <1>12, <1>13, <1>14 DEF IInv

\* The retry of a grant, behind its 409.
LEMMA ProvisionStep ==
  ASSUME IInv, NEW q \in Requests, NEW t \in Tenants, ProvisionDashboard(q, t)
  PROVE  IInv'
<1> DEFINE e == tenant[t].email
<1>1. /\ TypeOK /\ At(q, "unsent") /\ Exists(t) /\ e # None
      /\ tenant[t].dashboardUserEmail = None
      /\ SendCall(q, "provision", t, e)
      /\ UNCHANGED <<app, tenant, account, complete>>
  BY DEF IInv, ProvisionDashboard, registry, dashboard
<1>2. e \in Emails /\ NotYetCalled(q)
  BY <1>1, BeforeCall DEF TypeOK, TenantRow
<1> HIDE DEF e
<1>3. Called(q, "provision", t, e)
  BY <1>1, <1>2, CalledFacts DEF Grants
<1>4. \A u \in Tenants : u = t \/ Exists(u) => Exists(u)'
  BY <1>1 DEF Exists
<1>5. RequestsInOrder' /\ OkHasAccount' /\ GrantsAlone'
  BY <1>1, <1>2, <1>3, <1>4, CalledKeepsOrder DEF Grants
<1>6. GrantHolds' /\ LockOrigin' /\ LocksAlone' /\ LockFollowsStatus'
  BY <1>1, <1>2, <1>3, GrantCalled DEF Grants
<1>7. TypeOK'
  BY <1>1, <1>3 DEF TypeOK, Called
<1> QED
  BY <1>1, <1>5, <1>6, <1>7
     DEF IInv, AbsentIsBlank, AccountsAreComplete,
         LinkedHasAccount, HasAccount, Exists

\* suspend and reactivate: the status is written, and the writer is the last.
LEMMA SetStatusStep ==
  ASSUME IInv, NEW q \in Requests, NEW t \in Tenants, Suspend(q, t) \/ Reactivate(q, t)
  PROVE  IInv'
<1>1. PICK op \in Locks, s \in TenantStatus :
        /\ SetStatus(q, op, t, s)
        /\ (s = "APPROVED") = (op = "reactivate")
  BY DEF Suspend, Reactivate, Locks, TenantStatus
<1>2. /\ TypeOK /\ At(q, "unsent") /\ Exists(t)
      /\ tenant' = [tenant EXCEPT ![t].status = s, ![t].lockedBy = q]
      /\ SendCall(q, op, t, None) \/ EndWithout(q, op, t)
      /\ UNCHANGED <<app, account, complete>>
  BY <1>1 DEF IInv, SetStatus, dashboard
<1>3. tenant[t] \in TenantRow /\ NotYetCalled(q)
  BY <1>2, BeforeCall DEF TypeOK
<1>4. tenant'[t] = [tenant[t] EXCEPT !.status = s, !.lockedBy = q]
  BY <1>2 DEF TypeOK
<1>5. /\ tenant'[t] \in TenantRow /\ tenant'[t].status = s /\ tenant'[t].lockedBy = q
      /\ tenant'[t].from = tenant[t].from
      /\ tenant'[t].dashboardUserEmail = tenant[t].dashboardUserEmail
  BY <1>3, <1>4 DEF TenantRow
<1>6. \A u \in Tenants \ {t} : tenant'[u] = tenant[u]
  BY <1>2 DEF TypeOK
<1>7. Called(q, op, t, None)
  BY <1>2, <1>3, CalledFacts
<1>8. op \notin Grants
  BY DEF Grants, Locks
<1>9. \A u \in Tenants : u = t \/ Exists(u) => Exists(u)'
  BY <1>5, <1>6 DEF Exists, TenantStatus
<1>10. RequestsInOrder' /\ OkHasAccount' /\ GrantsAlone'
  BY <1>2, <1>3, <1>7, <1>8, <1>9, CalledKeepsOrder
<1>11. \A u \in Tenants : /\ tenant'[u].from = tenant[u].from
                          /\ tenant'[u].dashboardUserEmail = tenant[u].dashboardUserEmail
  BY <1>5, <1>6
<1>12. /\ req'[q].op = op /\ req'[q].tenant = t
       /\ \/ req'[q].pc = "await" /\ call'[q] = "pending"
          \/ req'[q].pc = "ended" /\ call'[q] = "none"
       /\ \A p \in Requests \ {q} :
            /\ call'[p] = call[p]
            /\ req'[p].op = req[p].op /\ req'[p].pc = req[p].pc
            /\ req'[p].tenant = req[p].tenant /\ req'[p].email = req[p].email
            /\ req'[p].alone => req[p].alone
  BY <1>7 DEF Called
<1>13. TypeOK'
  <2>1. tenant' \in [Tenants -> TenantRow]
    <3>1. tenant' = [u \in Tenants |-> tenant'[u]]
      BY <1>2 DEF TypeOK
    <3> QED
      BY <1>2, <1>5, <1>6, <3>1 DEF TypeOK
  <2> QED
    BY <1>2, <1>7, <2>1 DEF TypeOK, Called
<1>14. AbsentIsBlank'
  BY <1>6, <1>9 DEF IInv, AbsentIsBlank, Exists
<1>15. LinkedHasAccount' /\ AccountsAreComplete'
  BY <1>2, <1>11 DEF IInv, LinkedHasAccount, AccountsAreComplete, HasAccount
<1>16. GrantHolds'
  <2> SUFFICES ASSUME NEW r \in Requests, GrantGoesOn(r)', r # q
               PROVE  /\ (call[r] = "ok")' =>
                           (/\ account[req[r].tenant].email = req[r].email
                            /\ account[req[r].tenant].password \in {r, Chosen})'
                      /\ (req[r].pc \in {"mail", "shown"})' =>
                           (tenant[req[r].tenant].dashboardUserEmail = req[r].email)'
    BY <1>8, <1>12 DEF GrantHolds, GrantGoesOn
  <2>1. GrantGoesOn(r)
    BY <1>12 DEF GrantGoesOn
  <2>2. req[r].tenant \in Tenants
    BY <2>1 DEF IInv, RequestsInOrder, RequestInOrder, GrantGoesOn, At
  <2>3. /\ call[r] = "ok" => /\ account[req[r].tenant].email = req[r].email
                             /\ account[req[r].tenant].password \in {r, Chosen}
        /\ req[r].pc \in {"mail", "shown"} =>
             tenant[req[r].tenant].dashboardUserEmail = req[r].email
    BY <2>1 DEF IInv, GrantHolds
  <2>4. /\ call'[r] = call[r] /\ req'[r].tenant = req[r].tenant
        /\ req'[r].email = req[r].email /\ req'[r].pc = req[r].pc
    BY <1>12
  <2>5. tenant'[req[r].tenant].dashboardUserEmail = tenant[req[r].tenant].dashboardUserEmail
    BY <1>11, <2>2
  <2> QED
    BY <1>2, <2>3, <2>4, <2>5
<1>17. \A u \in Tenants \ {t}, p \in Requests :
         tenant'[u].lockedBy = p => p # q /\ tenant[u].lockedBy = p
  <2>1. \A u \in Tenants : tenant[u].lockedBy # q
    BY <1>3 DEF IInv, LockOrigin, NotYetCalled
  <2> QED
    BY <1>6, <2>1
<1>18. LockOrigin'
  <2>1. ASSUME NEW p \in Requests, tenant'[t].lockedBy = p
        PROVE  /\ req'[p].tenant = t /\ req'[p].op \in Locks
               /\ ~At(p, "unsent")' /\ ~At(p, "transaction")'
               /\ (tenant'[t].status = "APPROVED") = (req'[p].op = "reactivate")
    BY <1>1, <1>5, <1>12, <2>1 DEF At
  <2>2. ASSUME NEW u \in Tenants \ {t}, NEW p \in Requests, tenant'[u].lockedBy = p
        PROVE  /\ req'[p].tenant = u /\ req'[p].op \in Locks
               /\ ~At(p, "unsent")' /\ ~At(p, "transaction")'
               /\ (tenant'[u].status = "APPROVED") = (req'[p].op = "reactivate")
    BY <1>6, <1>12, <1>17, <2>2 DEF IInv, LockOrigin, At
  <2> QED
    BY <2>1, <2>2 DEF LockOrigin
<1>19. LocksAlone'
  <2> SUFFICES ASSUME NEW u \in Tenants, NEW p \in Requests, NEW r \in Requests,
                      (tenant[u].lockedBy = r /\ req[r].alone /\ call[r] # "none")', p # r,
                      (req[p].op \in Locks /\ req[p].tenant = u)'
               PROVE  ~InProgress(p)'
    BY DEF LocksAlone
  <2>1. CASE u = t
    <3>1. r = q /\ p # q /\ req[p].op \in Locks /\ req[p].tenant = t
      BY <1>5, <1>12, <2>1
    <3>2. InProgress(q)' /\ req'[q].alone
      BY <1>12, <3>1 DEF InProgress
    <3>3. ~InProgress(p)
      BY <1>7, <1>8, <3>1, <3>2 DEF Called
    <3> QED
      BY <1>12, <3>1, <3>3 DEF InProgress
  <2>2. CASE u # t
    <3>1. p # q /\ r # q /\ tenant[u].lockedBy = r
      BY <1>12, <1>17, <2>2
    <3>2. ~InProgress(p)
      BY <1>12, <3>1 DEF IInv, LocksAlone
    <3> QED
      BY <1>12, <3>1, <3>2 DEF InProgress
  <2> QED
    BY <2>1, <2>2
<1>20. LockFollowsStatus'
  <2> SUFFICES ASSUME NEW u \in Tenants, NEW r \in Requests,
                      (tenant[u].lockedBy = r /\ call[r] = "ok" /\ req[r].alone)'
               PROVE  (account[u].active = (tenant[u].status = "APPROVED"))'
    BY DEF LockFollowsStatus
  <2>1. r # q
    BY <1>12
  <2>2. u # t
    BY <1>5, <2>1
  <2>3. tenant[u].lockedBy = r /\ call[r] = "ok" /\ req[r].alone
    BY <1>12, <1>17, <2>1, <2>2
  <2>4. account[u].active = (tenant[u].status = "APPROVED")
    BY <2>3 DEF IInv, LockFollowsStatus
  <2>5. account'[u] = account[u] /\ tenant'[u] = tenant[u]
    BY <1>2, <1>6, <2>2
  <2> QED
    BY <2>4, <2>5
<1> QED
  BY <1>10, <1>13, <1>14, <1>15, <1>16, <1>18, <1>19, <1>20 DEF IInv

-----------------------------------------------------------------------------
\* The access that was granted goes on record.
LEMMA LinkStep ==
  ASSUME IInv, NEW q \in Requests, LinkDashboard(q)
  PROVE  IInv'
<1> DEFINE t == req[q].tenant
           e == req[q].email
<1>1. /\ TypeOK /\ req[q] \in RequestState /\ At(q, "link")
      /\ UNCHANGED <<app, call, account, complete>>
  BY DEF IInv, TypeOK, LinkDashboard, dashboard
<1>2. /\ call[q] = "ok" /\ req[q].op \in Grants
      /\ t \in Tenants /\ Exists(t) /\ e \in Emails
  BY <1>1 DEF IInv, RequestsInOrder, RequestInOrder, At
<1>3. PICK to \in {"mail", "ended"} :
        /\ GoTo(q, to)
        /\ \/ to = "mail" /\ tenant' = [tenant EXCEPT ![t].dashboardUserEmail = e]
           \/ to = "ended" /\ UNCHANGED tenant
  BY DEF LinkDashboard
<1> HIDE DEF t, e
<1>4. /\ req' \in [Requests -> RequestState]
      /\ \A p \in Requests \ {q} : req'[p] = req[p]
      /\ req'[q].pc = to
      /\ req'[q].op = req[q].op /\ req'[q].tenant = req[q].tenant
      /\ req'[q].email = req[q].email /\ req'[q].alone = req[q].alone
  BY <1>1, <1>3, GoToFacts
<1>5. /\ tenant' \in [Tenants -> TenantRow]
      /\ \A u \in Tenants :
           /\ tenant'[u].status = tenant[u].status /\ tenant'[u].from = tenant[u].from
           /\ tenant'[u].lockedBy = tenant[u].lockedBy
           /\ tenant'[u].dashboardUserEmail =
                IF u = t /\ to = "mail" THEN e ELSE tenant[u].dashboardUserEmail
  <2>1. CASE to = "ended"
    BY <1>1, <1>3, <2>1 DEF TypeOK
  <2>2. CASE to = "mail"
    <3>1. tenant[t] \in TenantRow /\ \A u \in Tenants \ {t} : tenant'[u] = tenant[u]
      BY <1>1, <1>2, <1>3, <2>2 DEF TypeOK
    <3>2. tenant'[t] = [tenant[t] EXCEPT !.dashboardUserEmail = e]
      BY <1>1, <1>2, <1>3, <2>2 DEF TypeOK
    <3>3. /\ tenant'[t] \in TenantRow
          /\ tenant'[t].status = tenant[t].status /\ tenant'[t].from = tenant[t].from
          /\ tenant'[t].lockedBy = tenant[t].lockedBy
          /\ tenant'[t].dashboardUserEmail = e
      BY <1>2, <3>1, <3>2 DEF TenantRow
    <3>4. tenant' = [u \in Tenants |-> tenant'[u]]
      BY <1>1, <1>3, <2>2 DEF TypeOK
    <3> QED
      BY <1>1, <2>2, <3>1, <3>3, <3>4 DEF TypeOK
  <2> QED
    BY <2>1, <2>2
<1>6. \A p \in Requests :
        /\ req'[p].op = req[p].op /\ req'[p].tenant = req[p].tenant
        /\ req'[p].email = req[p].email /\ req'[p].alone = req[p].alone
        /\ InProgress(p)' => InProgress(p)
        /\ GrantGoesOn(p)' => GrantGoesOn(p)
        /\ At(p, "unsent")' => At(p, "unsent")
        /\ At(p, "transaction")' => At(p, "transaction")
        /\ p # q => req'[p].pc = req[p].pc
  <2>1. /\ InProgress(q)' => InProgress(q)
        /\ GrantGoesOn(q)' => GrantGoesOn(q)
        /\ ~At(q, "unsent")' /\ ~At(q, "transaction")'
    BY <1>1, <1>4 DEF InProgress, GrantGoesOn, At
  <2> QED
    BY <1>1, <1>4, <2>1 DEF InProgress, GrantGoesOn, At
<1>7. TypeOK'
  BY <1>1, <1>4, <1>5 DEF TypeOK
<1>8. AbsentIsBlank'
  BY <1>2, <1>5 DEF IInv, AbsentIsBlank, Exists
<1>9. RequestsInOrder'
  <2>1. RequestInOrder(q)'
    BY <1>1, <1>2, <1>4, <1>5 DEF RequestInOrder, At, Exists, t, e
  <2>2. ASSUME NEW p \in Requests \ {q} PROVE RequestInOrder(p)'
    <3>1. RequestInOrder(p) /\ req'[p] = req[p] /\ call'[p] = call[p]
      BY <1>1, <1>4 DEF IInv, RequestsInOrder
    <3> QED
      BY <1>5, <3>1 DEF RequestInOrder, At, Exists
  <2> QED
    BY <2>1, <2>2 DEF RequestsInOrder
<1>10. AccountsAreComplete' /\ OkHasAccount'
  BY <1>1, <1>6 DEF IInv, AccountsAreComplete, OkHasAccount, HasAccount
<1>11. LinkedHasAccount'
  <2>1. HasAccount(t) /\ t \in complete
    BY <1>2 DEF IInv, OkHasAccount, AccountsAreComplete, t
  <2> QED
    BY <1>1, <1>5, <2>1 DEF IInv, LinkedHasAccount, HasAccount
<1>12. GrantsAlone'
  BY <1>6 DEF IInv, GrantsAlone
<1>13. GrantHolds'
  <2> SUFFICES ASSUME NEW r \in Requests, GrantGoesOn(r)'
               PROVE  /\ (call[r] = "ok")' =>
                           (/\ account[req[r].tenant].email = req[r].email
                            /\ account[req[r].tenant].password \in {r, Chosen})'
                      /\ (req[r].pc \in {"mail", "shown"})' =>
                           (tenant[req[r].tenant].dashboardUserEmail = req[r].email)'
    BY DEF GrantHolds
  <2>1. GrantGoesOn(r) /\ req[r].tenant \in Tenants
    BY <1>6 DEF IInv, RequestsInOrder, RequestInOrder, GrantGoesOn, At
  <2>2. /\ call[r] = "ok" => /\ account[req[r].tenant].email = req[r].email
                             /\ account[req[r].tenant].password \in {r, Chosen}
        /\ req[r].pc \in {"mail", "shown"} =>
             tenant[req[r].tenant].dashboardUserEmail = req[r].email
    BY <2>1 DEF IInv, GrantHolds
  <2>3. CASE r = q
    BY <1>1, <1>2, <1>4, <1>5, <2>2, <2>3 DEF t, e
  <2>4. CASE r # q
    <3>1. req[r].tenant # t
      <4>1. InProgress(q)
        BY <1>1 DEF InProgress, At
      <4> QED
        BY <1>2, <2>1, <2>4, <4>1 DEF IInv, GrantsAlone, t
    <3> QED
      BY <1>1, <1>4, <1>5, <2>1, <2>2, <2>4, <3>1
  <2> QED
    BY <2>3, <2>4
<1>14. LockOrigin' /\ LocksAlone' /\ LockFollowsStatus'
  <2>1. LockOrigin'
    BY <1>5, <1>6 DEF IInv, LockOrigin
  <2>2. LocksAlone'
    BY <1>1, <1>5, <1>6 DEF IInv, LocksAlone
  <2>3. LockFollowsStatus'
    BY <1>1, <1>5, <1>6 DEF IInv, LockFollowsStatus
  <2> QED
    BY <2>1, <2>2, <2>3
<1> QED
  BY <1>7, <1>8, <1>9, <1>10, <1>11, <1>12, <1>13, <1>14 DEF IInv

-----------------------------------------------------------------------------
\* An answered call is less under way than before.
LEMMA AnswerFacts ==
  ASSUME IInv, NEW q \in Requests, call[q] = "pending",
         NEW outcome \in {"ok", "failed"}, Answer(q, outcome), UNCHANGED req
  PROVE  /\ call' \in [Requests -> {"none", "pending", "ok", "failed"}]
         /\ call'[q] = outcome /\ \A p \in Requests \ {q} : call'[p] = call[p]
         /\ req[q].tenant \in Tenants /\ req[q].pc \in {"await", "ended"}
         /\ req[q].op \in Grants => req[q].email \in Emails
         /\ InProgress(q)
         /\ \A p \in Requests : (InProgress(p)' => InProgress(p))
                                  /\ GrantGoesOn(p)' = GrantGoesOn(p)
<1>1. TypeOK /\ RequestInOrder(q)
  BY DEF IInv, RequestsInOrder
<1>2. /\ call' \in [Requests -> {"none", "pending", "ok", "failed"}]
      /\ call'[q] = outcome /\ \A p \in Requests \ {q} : call'[p] = call[p]
  BY <1>1 DEF Answer, TypeOK
<1>3. /\ req[q].tenant \in Tenants /\ req[q].pc \in {"await", "ended"}
      /\ req[q].op \in Grants => req[q].email \in Emails
  BY <1>1 DEF RequestInOrder, At, TypeOK, RequestState
<1>4. \A p \in Requests : (InProgress(p)' => InProgress(p))
                            /\ GrantGoesOn(p)' = GrantGoesOn(p)
  BY <1>2 DEF InProgress, GrantGoesOn
<1> QED
  BY <1>2, <1>3, <1>4 DEF InProgress

\* What an answer leaves as it was.
LEMMA AnswerKeeps ==
  ASSUME IInv, NEW q \in Requests, call[q] = "pending",
         NEW outcome \in {"ok", "failed"}, Answer(q, outcome),
         UNCHANGED <<app, tenant, req, complete>>,
         \A u \in Tenants : HasAccount(u) => HasAccount(u)',
         \A u \in Tenants : HasAccount(u)' => u \in complete,
         outcome = "ok" => HasAccount(req[q].tenant)'
  PROVE  /\ AbsentIsBlank' /\ RequestsInOrder'
         /\ AccountsAreComplete' /\ OkHasAccount' /\ LinkedHasAccount'
         /\ GrantsAlone' /\ LockOrigin' /\ LocksAlone'
<1>0. /\ call'[q] = outcome /\ \A p \in Requests \ {q} : call'[p] = call[p]
      /\ req[q].pc \in {"await", "ended"}
      /\ \A p \in Requests : (InProgress(p)' => InProgress(p))
                               /\ GrantGoesOn(p)' = GrantGoesOn(p)
  BY AnswerFacts
<1>1. AbsentIsBlank'
  BY DEF IInv, AbsentIsBlank, Exists
<1>2. RequestsInOrder'
  <2>1. RequestInOrder(q)'
    BY <1>0 DEF IInv, RequestsInOrder, RequestInOrder, At, Exists
  <2>2. ASSUME NEW p \in Requests \ {q} PROVE RequestInOrder(p)'
    BY <1>0 DEF IInv, RequestsInOrder, RequestInOrder, At, Exists
  <2> QED
    BY <2>1, <2>2 DEF RequestsInOrder
<1>3. AccountsAreComplete'
  BY DEF AccountsAreComplete
<1>4. OkHasAccount'
  <2>1. ASSUME NEW p \in Requests \ {q}, call[p] = "ok" PROVE HasAccount(req[p].tenant)'
    <3>1. req[p].tenant \in Tenants /\ HasAccount(req[p].tenant)
      BY <2>1 DEF IInv, OkHasAccount, RequestsInOrder, RequestInOrder
    <3> QED
      BY <3>1
  <2> QED
    BY <1>0, <2>1 DEF OkHasAccount, HasAccount
<1>5. LinkedHasAccount'
  BY DEF IInv, LinkedHasAccount
<1>6. GrantsAlone'
  BY <1>0 DEF IInv, GrantsAlone
<1>7. LockOrigin' /\ LocksAlone'
  <2>1. LockOrigin'
    BY DEF IInv, LockOrigin, At
  <2>2. \A p \in Requests : call'[p] # "none" => call[p] # "none"
    BY <1>0
  <2>3. LocksAlone'
    BY <1>0, <2>2 DEF IInv, LocksAlone
  <2> QED
    BY <2>1, <2>3
<1> QED
  BY <1>1, <1>2, <1>3, <1>4, <1>5, <1>6, <1>7

\* The absence of an account is not an account.
LEMMA NoAccountIsNone == \A x \in Directory!Account : x # NoAccount
BY OnboardingAssumption DEF Directory!Account

\* A database becomes complete before its account exists.
LEMMA PrepareStep ==
  ASSUME IInv, NEW q \in Requests, PrepareDatabase(q)
  PROVE  IInv'
<1>1. /\ UNCHANGED <<app, tenant, req, call, account>>
      /\ complete' = complete \cup {req[q].tenant} /\ req[q].tenant \in Tenants
  BY DEF PrepareDatabase, Directory!Complete, registry, IInv, RequestsInOrder,
         RequestInOrder
<1>2. TypeOK'
  BY <1>1 DEF IInv, TypeOK
<1>3. AccountsAreComplete' /\ LinkedHasAccount'
  BY <1>1 DEF IInv, AccountsAreComplete, LinkedHasAccount, HasAccount
<1> QED
  BY <1>1, <1>2, <1>3
     DEF IInv, AbsentIsBlank, RequestsInOrder, RequestInOrder,
         OkHasAccount, GrantsAlone, GrantHolds, GrantGoesOn, LockOrigin, LocksAlone,
         LockFollowsStatus, At, Exists, HasAccount, InProgress

\* A grant opens or resets the login of its tenant and moves no lock.
LEMMA GrantStep ==
  ASSUME IInv, NEW q \in Requests, GrantAccess(q)
  PROVE  IInv'
<1> DEFINE t == req[q].tenant
           e == req[q].email
<1>1. /\ call[q] = "pending" /\ req[q].op \in Grants /\ Answer(q, "ok") /\ TypeOK
      /\ Directory!Open(t, e, q) \/ Directory!Reset(t, e, q)
      /\ UNCHANGED <<app, tenant, req, complete>>
  BY DEF IInv, GrantAccess, registry, Directory!Open, Directory!Reset
<1>2. /\ call' \in [Requests -> {"none", "pending", "ok", "failed"}]
      /\ call'[q] = "ok" /\ \A p \in Requests \ {q} : call'[p] = call[p]
      /\ t \in Tenants /\ e \in Emails /\ InProgress(q)
      /\ \A p \in Requests : (InProgress(p)' => InProgress(p))
                               /\ GrantGoesOn(p)' = GrantGoesOn(p)
  BY <1>1, AnswerFacts
<1> HIDE DEF t, e
<1>3. /\ account' \in [Tenants -> Directory!Account \cup {NoAccount}]
      /\ \A u \in Tenants \ {t} : account'[u] = account[u]
      /\ account'[t] \in Directory!Account
      /\ account'[t].email = e /\ account'[t].password = q
      /\ HasAccount(t) => account'[t].active = account[t].active
      /\ t \in complete
  <2>1. CASE Directory!Open(t, e, q)
    <3>1. account' = [account EXCEPT ![t] = [email |-> e, password |-> q, active |-> TRUE]]
      BY <2>1 DEF Directory!Open
    <3>2. [email |-> e, password |-> q, active |-> TRUE] \in Directory!Account
      BY <1>2 DEF Directory!Account
    <3> QED
      BY <1>1, <1>2, <2>1, <3>1, <3>2 DEF TypeOK, Directory!Open, HasAccount
  <2>2. CASE Directory!Reset(t, e, q)
    <3>1. account[t] \in Directory!Account /\ t \in complete
      BY <1>1, <1>2, <2>2
         DEF TypeOK, Directory!Reset, IInv, AccountsAreComplete, HasAccount
    <3> DEFINE x == [account[t] EXCEPT !.email = e, !.password = q]
    <3>2. account' = [account EXCEPT ![t] = x]
      BY <1>1, <2>2 DEF TypeOK, Directory!Reset
    <3>3. x \in Directory!Account /\ x.email = e /\ x.password = q
            /\ x.active = account[t].active
      BY <1>2, <3>1 DEF Directory!Account
    <3> HIDE DEF x
    <3> QED
      BY <1>1, <1>2, <3>1, <3>2, <3>3 DEF TypeOK
  <2> QED
    BY <1>1, <2>1, <2>2
<1>4. TypeOK'
  BY <1>1, <1>2, <1>3 DEF TypeOK
<1>5. /\ account'[t] # NoAccount
      /\ \A u \in Tenants : /\ HasAccount(u) => HasAccount(u)'
                            /\ HasAccount(u)' => u \in complete
  <2>1. account'[t] # NoAccount
    BY <1>3, NoAccountIsNone
  <2>2. \A u \in Tenants : account[u] # NoAccount => u \in complete
    BY DEF IInv, AccountsAreComplete, HasAccount
  <2> QED
    BY <1>3, <2>1, <2>2 DEF HasAccount
<1>6. /\ AbsentIsBlank' /\ RequestsInOrder'
      /\ AccountsAreComplete' /\ OkHasAccount' /\ LinkedHasAccount'
      /\ GrantsAlone' /\ LockOrigin' /\ LocksAlone'
  BY <1>1, <1>5, AnswerKeeps DEF t, HasAccount
<1>7. GrantHolds'
  <2> SUFFICES ASSUME NEW r \in Requests, GrantGoesOn(r)'
               PROVE  /\ (call[r] = "ok")' =>
                           (/\ account[req[r].tenant].email = req[r].email
                            /\ account[req[r].tenant].password \in {r, Chosen})'
                      /\ (req[r].pc \in {"mail", "shown"})' =>
                           (tenant[req[r].tenant].dashboardUserEmail = req[r].email)'
    BY DEF GrantHolds
  <2>1. GrantGoesOn(r)
    BY <1>2
  <2>2. /\ call[r] = "ok" => /\ account[req[r].tenant].email = req[r].email
                             /\ account[req[r].tenant].password \in {r, Chosen}
        /\ req[r].pc \in {"mail", "shown"} =>
             tenant[req[r].tenant].dashboardUserEmail = req[r].email
    BY <2>1 DEF IInv, GrantHolds
  <2>3. CASE r = q
    BY <1>1, <1>3, <2>2, <2>3 DEF t, e
  <2>4. CASE r # q
    <3>1. call[r] = "ok" => req[r].tenant \in Tenants
      BY DEF IInv, RequestsInOrder, RequestInOrder
    <3>2. req[r].tenant # t
      BY <1>1, <1>2, <2>1, <2>4 DEF IInv, GrantsAlone, t
    <3> QED
      BY <1>1, <1>2, <1>3, <2>2, <2>4, <3>1, <3>2
  <2> QED
    BY <2>3, <2>4
<1>8. LockFollowsStatus'
  <2> SUFFICES ASSUME NEW u \in Tenants, NEW r \in Requests,
                      (tenant[u].lockedBy = r /\ call[r] = "ok" /\ req[r].alone)'
               PROVE  (account[u].active = (tenant[u].status = "APPROVED"))'
    BY DEF LockFollowsStatus
  <2>1. tenant[u].lockedBy = r /\ req[r].alone
    BY <1>1
  <2>2. req[r].tenant = u /\ req[r].op \in Locks
    BY <2>1 DEF IInv, LockOrigin
  <2>3. r # q
    BY <1>1, <2>2 DEF Grants, Locks
  <2>4. call[r] = "ok"
    BY <1>2, <2>3
  <2>5. account[u].active = (tenant[u].status = "APPROVED") /\ HasAccount(u)
    BY <2>1, <2>2, <2>4 DEF IInv, LockFollowsStatus, OkHasAccount
  <2>6. account'[u].active = account[u].active /\ tenant'[u] = tenant[u]
    BY <1>1, <1>3, <2>5
  <2> QED
    BY <2>5, <2>6
<1> QED
  BY <1>4, <1>6, <1>7, <1>8 DEF IInv

\* A lock is moved to where the status of its writer wants it.
LEMMA LockStep ==
  ASSUME IInv, NEW q \in Requests, SetDashboardAccountActive(q)
  PROVE  IInv'
<1> DEFINE t == req[q].tenant
           b == req[q].op = "reactivate"
<1>1. /\ call[q] = "pending" /\ req[q].op \in Locks /\ Answer(q, "ok") /\ TypeOK
      /\ HasAccount(t) /\ account' = [account EXCEPT ![t].active = b]
      /\ UNCHANGED <<app, tenant, req, complete>>
  BY DEF IInv, SetDashboardAccountActive, registry, Directory!SetActive, HasAccount
<1>2. /\ call' \in [Requests -> {"none", "pending", "ok", "failed"}]
      /\ call'[q] = "ok" /\ \A p \in Requests \ {q} : call'[p] = call[p]
      /\ t \in Tenants /\ InProgress(q)
      /\ \A p \in Requests : (InProgress(p)' => InProgress(p))
                               /\ GrantGoesOn(p)' = GrantGoesOn(p)
  BY <1>1, AnswerFacts
<1>3. b \in BOOLEAN
  OBVIOUS
<1> HIDE DEF t, b
<1>4. /\ account' \in [Tenants -> Directory!Account \cup {NoAccount}]
      /\ \A u \in Tenants \ {t} : account'[u] = account[u]
      /\ account'[t] \in Directory!Account
      /\ account'[t].email = account[t].email
      /\ account'[t].password = account[t].password
      /\ account'[t].active = b
  <2>1. account[t] \in Directory!Account
    BY <1>1, <1>2 DEF TypeOK, HasAccount
  <2> DEFINE x == [account[t] EXCEPT !.active = b]
  <2>2. account' = [account EXCEPT ![t] = x]
    BY <1>1
  <2>3. x \in Directory!Account /\ x.email = account[t].email
          /\ x.password = account[t].password /\ x.active = b
    BY <1>3, <2>1 DEF Directory!Account
  <2> HIDE DEF x
  <2> QED
    BY <1>1, <1>2, <2>2, <2>3 DEF TypeOK
<1>5. TypeOK'
  BY <1>1, <1>2, <1>4 DEF TypeOK
<1>6. /\ account'[t] # NoAccount
      /\ \A u \in Tenants : /\ HasAccount(u) => HasAccount(u)'
                            /\ HasAccount(u)' => u \in complete
  <2>1. account'[t] # NoAccount
    BY <1>4, NoAccountIsNone
  <2>2. \A u \in Tenants : account[u] # NoAccount => u \in complete
    BY DEF IInv, AccountsAreComplete, HasAccount
  <2> QED
    BY <1>1, <1>2, <1>4, <2>1, <2>2 DEF HasAccount
<1>7. /\ AbsentIsBlank' /\ RequestsInOrder'
      /\ AccountsAreComplete' /\ OkHasAccount' /\ LinkedHasAccount'
      /\ GrantsAlone' /\ LockOrigin' /\ LocksAlone'
  BY <1>1, <1>6, AnswerKeeps DEF t, HasAccount
<1>8. GrantHolds'
  <2> SUFFICES ASSUME NEW r \in Requests, GrantGoesOn(r)'
               PROVE  /\ (call[r] = "ok")' =>
                           (/\ account[req[r].tenant].email = req[r].email
                            /\ account[req[r].tenant].password \in {r, Chosen})'
                      /\ (req[r].pc \in {"mail", "shown"})' =>
                           (tenant[req[r].tenant].dashboardUserEmail = req[r].email)'
    BY DEF GrantHolds
  <2>1. GrantGoesOn(r) /\ r # q
    BY <1>1, <1>2 DEF GrantGoesOn, Grants, Locks
  <2>2. /\ call[r] = "ok" => /\ account[req[r].tenant].email = req[r].email
                             /\ account[req[r].tenant].password \in {r, Chosen}
        /\ req[r].pc \in {"mail", "shown"} =>
             tenant[req[r].tenant].dashboardUserEmail = req[r].email
    BY <2>1 DEF IInv, GrantHolds
  <2>3. call[r] = "ok" => req[r].tenant \in Tenants
    BY DEF IInv, RequestsInOrder, RequestInOrder
  <2> QED
    BY <1>1, <1>2, <1>4, <2>1, <2>2, <2>3
<1>9. LockFollowsStatus'
  <2> SUFFICES ASSUME NEW u \in Tenants, NEW r \in Requests,
                      (tenant[u].lockedBy = r /\ call[r] = "ok" /\ req[r].alone)'
               PROVE  (account[u].active = (tenant[u].status = "APPROVED"))'
    BY DEF LockFollowsStatus
  <2>1. tenant[u].lockedBy = r /\ req[r].alone /\ tenant'[u] = tenant[u]
    BY <1>1
  <2>2. /\ req[r].tenant = u
        /\ (tenant[u].status = "APPROVED") = (req[r].op = "reactivate")
    BY <2>1 DEF IInv, LockOrigin
  <2>3. CASE r = q
    BY <1>4, <2>1, <2>2, <2>3 DEF t, b
  <2>4. CASE r # q
    <3>1. call[r] = "ok"
      BY <1>2, <2>4
    <3>2. u # t
      BY <1>1, <1>2, <2>1, <2>4, <3>1 DEF IInv, LocksAlone, t
    <3>3. account[u].active = (tenant[u].status = "APPROVED")
      BY <2>1, <3>1 DEF IInv, LockFollowsStatus
    <3>4. account'[u] = account[u]
      BY <1>4, <3>2
    <3> QED
      BY <2>1, <3>3, <3>4
  <2> QED
    BY <2>3, <2>4
<1> QED
  BY <1>5, <1>7, <1>8, <1>9 DEF IInv

\* The tenant puts its own password in the place of the one in force.
LEMMA ChangeStep ==
  ASSUME IInv, NEW t \in Tenants, ChangeMyPassword(t)
  PROVE  IInv'
<1>1. /\ UNCHANGED <<app, tenant, req, call, complete>> /\ TypeOK
      /\ account[t] # NoAccount
      /\ account' = [account EXCEPT ![t].password = Chosen]
  BY DEF IInv, ChangeMyPassword, registry, Directory!ChangePassword
<1>2. /\ account' \in [Tenants -> Directory!Account \cup {NoAccount}]
      /\ \A u \in Tenants \ {t} : account'[u] = account[u]
      /\ account'[t] # NoAccount
      /\ account'[t].email = account[t].email /\ account'[t].active = account[t].active
      /\ account'[t].password = Chosen
  <2>1. account[t] \in Directory!Account
    BY <1>1 DEF TypeOK
  <2> DEFINE x == [account[t] EXCEPT !.password = Chosen]
  <2>2. account' = [account EXCEPT ![t] = x]
    BY <1>1
  <2>3. x \in Directory!Account /\ x.email = account[t].email
          /\ x.password = Chosen /\ x.active = account[t].active
    BY <2>1 DEF Directory!Account
  <2> HIDE DEF x
  <2> QED
    BY <1>1, <2>2, <2>3, NoAccountIsNone DEF TypeOK
<1>3. TypeOK'
  BY <1>1, <1>2 DEF TypeOK
<1>4. \A u \in Tenants : /\ HasAccount(u)' = HasAccount(u)
                         /\ account'[u].email = account[u].email
                         /\ account'[u].active = account[u].active
                         /\ account'[u].password \in {account[u].password, Chosen}
  BY <1>1, <1>2 DEF HasAccount
<1>5. OkHasAccount'
  <2>1. \A q \in Requests : call[q] = "ok" => req[q].tenant \in Tenants
    BY DEF IInv, RequestsInOrder, RequestInOrder
  <2> QED
    BY <1>1, <1>4, <2>1 DEF IInv, OkHasAccount
<1>6. GrantHolds'
  <2>1. \A q \in Requests : GrantGoesOn(q) => req[q].tenant \in Tenants
    BY DEF IInv, RequestsInOrder, RequestInOrder, GrantGoesOn, At
  <2>2. \A q \in Requests : GrantGoesOn(q)' = GrantGoesOn(q)
    BY <1>1 DEF GrantGoesOn
  <2> QED
    BY <1>1, <1>4, <2>1, <2>2 DEF IInv, GrantHolds
<1>7. LockFollowsStatus'
  BY <1>1, <1>4 DEF IInv, LockFollowsStatus
<1>8. AccountsAreComplete' /\ LinkedHasAccount'
  BY <1>1, <1>4 DEF IInv, AccountsAreComplete, LinkedHasAccount
<1> QED
  BY <1>1, <1>3, <1>5, <1>6, <1>7, <1>8
     DEF IInv, AbsentIsBlank, RequestsInOrder, RequestInOrder, GrantsAlone,
         GrantGoesOn, LockOrigin, LocksAlone, At, Exists, InProgress

\* A call that fails ends, and that is all.
LEMMA FailStep ==
  ASSUME IInv, NEW q \in Requests, CallFails(q)
  PROVE  IInv'
<1>1. /\ call[q] = "pending" /\ Answer(q, "failed")
      /\ UNCHANGED <<app, tenant, req, account, complete>>
  BY DEF CallFails, registry, dashboard
<1>2. /\ call' \in [Requests -> {"none", "pending", "ok", "failed"}]
      /\ \A p \in Requests : call'[p] = "ok" => call[p] = "ok"
      /\ \A p \in Requests : GrantGoesOn(p)' = GrantGoesOn(p)
  BY <1>1, AnswerFacts
<1>3. TypeOK'
  BY <1>1, <1>2 DEF IInv, TypeOK
<1>4. \A u \in Tenants : /\ HasAccount(u)' = HasAccount(u)
                         /\ HasAccount(u) => u \in complete
  BY <1>1 DEF HasAccount, IInv, AccountsAreComplete
<1>5. /\ AbsentIsBlank' /\ RequestsInOrder'
      /\ AccountsAreComplete' /\ OkHasAccount' /\ LinkedHasAccount'
      /\ GrantsAlone' /\ LockOrigin' /\ LocksAlone'
  BY <1>1, <1>4, AnswerKeeps
<1>6. GrantHolds'
  BY <1>1, <1>2 DEF IInv, GrantHolds
<1>7. LockFollowsStatus'
  BY <1>1, <1>2 DEF IInv, LockFollowsStatus
<1> QED
  BY <1>3, <1>5, <1>6, <1>7 DEF IInv

-----------------------------------------------------------------------------
\* Every step keeps the invariant.
LEMMA NextIInv == IInv /\ [Next]_vars => IInv'
<1> SUFFICES ASSUME IInv, [Next]_vars PROVE IInv'
  OBVIOUS
<1>1. ASSUME NEW q \in Requests, Receive(q) PROVE IInv'
  BY <1>1, StartApproveStep, ProvisionStep, SetStatusStep DEF Receive
<1>2. ASSUME NEW q \in Requests, Step(q) PROVE IInv'
  BY <1>2, ApproveStep, MoveStep, LinkStep DEF Step
<1>3. ASSUME NEW q \in Requests, Handle(q) PROVE IInv'
  BY <1>3, PrepareStep, GrantStep, LockStep, FailStep DEF Handle
<1>4. ASSUME NEW q \in Requests, Crash(q) PROVE IInv'
  BY <1>4, MoveStep
<1>5. ASSUME \/ \E a \in Apps : Submit(a) \/ Reject(a)
             \/ \E t \in Tenants : CreateTenant(t) \/ UpdateEmail(t) \/ UpdateStatus(t)
      PROVE  IInv'
  BY <1>5, RegistryStep
<1>6. ASSUME NEW t \in Tenants, ChangeMyPassword(t) PROVE IInv'
  BY <1>6, ChangeStep
<1>7. CASE UNCHANGED vars
  BY <1>7
     DEF vars, IInv, TypeOK, AbsentIsBlank, RequestsInOrder,
         RequestInOrder, AccountsAreComplete, OkHasAccount, LinkedHasAccount,
         GrantsAlone, GrantHolds, GrantGoesOn, LockOrigin, LocksAlone,
         LockFollowsStatus, At, Exists, HasAccount, InProgress
<1> QED
  BY <1>1, <1>2, <1>3, <1>4, <1>5, <1>6, <1>7 DEF Next

\* The invariant holds in every reachable state.
THEOREM SpecIInv == Spec => []IInv
<1> QED
  BY InitIInv, NextIInv, PTL DEF Spec

\* Rows, requests, calls and accounts keep their types (every handler).
THEOREM TypeCorrect == Spec => []TypeOK
<1>1. IInv => TypeOK
  BY DEF IInv
<1> QED
  BY <1>1, SpecIInv, PTL

\* Recorded access is there (approve, provisionDashboard, provision).
THEOREM LinksAreTrue == Spec => []LinkedHasAccount
<1>1. IInv => LinkedHasAccount
  BY DEF IInv
<1> QED
  BY <1>1, SpecIInv, PTL

\* A lock that got through and overlapped no other follows the status that was
\* written with it (suspend, reactivate, setAccountActive).
THEOREM LocksFollow == Spec => []LockFollowsStatus
<1>1. IInv => LockFollowsStatus
  BY DEF IInv
<1> QED
  BY <1>1, SpecIInv, PTL

-----------------------------------------------------------------------------
(* Suspension.  SuspendedIsLockedOut is not so, and SuspensionUndisturbed is  *)
(* what it takes.                                                             *)

\* While a tenant's status is a suspension's, no grant for the tenant is under
\* way, and that suspension overlapped no other suspend or reactivate of it.
SuspensionUndisturbed ==
  \A t \in Tenants : \A q \in Requests :
    tenant[t].lockedBy = q /\ req[q].op = "suspend" =>
      /\ req[q].alone
      /\ \A p \in Requests :
           InProgress(p) /\ req[p].op \in Grants => req[p].tenant # t

\* A grant that is mailed or shown is on record.
MailedIsRecorded ==
  \A q \in Requests :
    req[q].pc \in {"mail", "shown"} => tenant[req[q].tenant].dashboardUserEmail # None

\* An account is on record, or the grant that opened it was never shown.
AccountHasGrant ==
  \A t \in Tenants :
    HasAccount(t) =>
      \/ tenant[t].dashboardUserEmail # None
      \/ \E q \in Requests :
           req[q].tenant = t /\ req[q].op \in Grants /\ ~At(q, "shown")

\* A suspension that called nobody found nothing on record, and that is still so.
UncalledIsUnrecorded ==
  \A t \in Tenants : \A q \in Requests :
    tenant[t].lockedBy = q /\ req[q].op = "suspend" /\ call[q] = "none" =>
      tenant[t].dashboardUserEmail = None

AccessInv == IInv /\ MailedIsRecorded /\ AccountHasGrant

\* Only a grant changes what is on record, and only suspend and reactivate sign
\* a status.
LEMMA RowFrames ==
  ASSUME IInv, [Next]_vars, NEW u \in Tenants
  PROVE  /\ \/ tenant'[u].dashboardUserEmail = tenant[u].dashboardUserEmail
            \/ /\ tenant'[u].dashboardUserEmail # None
               /\ \E p \in Requests : LinkDashboard(p) /\ req[p].tenant = u
         /\ \A q \in Requests :
              tenant'[u].lockedBy = q =>
                tenant[u].lockedBy = q \/ Suspend(q, u) \/ Reactivate(q, u)
<1> DEFINE P ==
      /\ \/ tenant'[u].dashboardUserEmail = tenant[u].dashboardUserEmail
         \/ /\ tenant'[u].dashboardUserEmail # None
            /\ \E p \in Requests : LinkDashboard(p) /\ req[p].tenant = u
      /\ \A q \in Requests :
           tenant'[u].lockedBy = q =>
             tenant[u].lockedBy = q \/ Suspend(q, u) \/ Reactivate(q, u)
<1>1. TypeOK /\ tenant[u] \in TenantRow /\ \A q \in Requests : q # None
  BY OnboardingAssumption DEF IInv, TypeOK
<1>2. ASSUME UNCHANGED tenant PROVE P
  BY <1>2
<1>3. ASSUME NEW t \in Tenants, CreateTenant(t) PROVE P
  <2>1. CASE u = t
    <3>1. PICK e \in Emails \cup {None} :
            tenant' = [tenant EXCEPT ![t] =
                         [NoTenant EXCEPT !.status = "APPROVED", !.email = e]]
      BY <1>3 DEF CreateTenant
    <3>2. tenant'[u] = [NoTenant EXCEPT !.status = "APPROVED", !.email = e]
      BY <1>1, <2>1, <3>1 DEF TypeOK
    <3>3. tenant'[u].dashboardUserEmail = None /\ tenant'[u].lockedBy = None
      BY <3>2 DEF NoTenant
    <3>4. tenant[u].dashboardUserEmail = None
      BY <1>3, <2>1 DEF IInv, AbsentIsBlank, CreateTenant
    <3> QED
      BY <1>1, <3>3, <3>4
  <2>2. CASE u # t
    BY <1>3, <2>2 DEF CreateTenant
  <2> QED
    BY <2>1, <2>2
<1>4. ASSUME NEW t \in Tenants, UpdateEmail(t) \/ UpdateStatus(t) PROVE P
  <2>1. PICK e, s :
          \/ tenant' = [tenant EXCEPT ![t].email = e]
          \/ tenant' = [tenant EXCEPT ![t].status = s, ![t].lockedBy = None]
    BY <1>4 DEF UpdateEmail, UpdateStatus
  <2>2. CASE u = t
    <3>1. \/ tenant'[u] = [tenant[u] EXCEPT !.email = e]
          \/ tenant'[u] = [tenant[u] EXCEPT !.status = s, !.lockedBy = None]
      BY <1>1, <2>1, <2>2 DEF TypeOK
    <3>2. /\ tenant'[u].dashboardUserEmail = tenant[u].dashboardUserEmail
          /\ tenant'[u].lockedBy \in {tenant[u].lockedBy, None}
      BY <1>1, <3>1 DEF TenantRow
    <3> QED
      BY <1>1, <3>2
  <2>3. CASE u # t
    <3>1. tenant'[u] = tenant[u]
      BY <1>1, <2>1, <2>3 DEF TypeOK
    <3> QED
      BY <3>1
  <2> QED
    BY <2>2, <2>3
<1>5. ASSUME NEW q \in Requests, ApproveTransaction(q) PROVE P
  <2>1. PICK t \in Tenants :
          /\ ~Exists(t)
          /\ tenant' = [tenant EXCEPT ![t] =
                          [NoTenant EXCEPT !.status = "APPROVED",
                                           !.email = req[q].email,
                                           !.from = req[q].app]]
    BY <1>5 DEF ApproveTransaction
  <2>2. CASE u = t
    <3>1. tenant'[u] = [NoTenant EXCEPT !.status = "APPROVED",
                                        !.email = req[q].email,
                                        !.from = req[q].app]
      BY <1>1, <2>1, <2>2 DEF TypeOK
    <3>2. tenant'[u].dashboardUserEmail = None /\ tenant'[u].lockedBy = None
      BY <3>1 DEF NoTenant
    <3>3. tenant[u].dashboardUserEmail = None
      BY <2>1, <2>2 DEF IInv, AbsentIsBlank
    <3> QED
      BY <1>1, <3>2, <3>3
  <2>3. CASE u # t
    BY <2>1, <2>3
  <2> QED
    BY <2>2, <2>3
<1>6. ASSUME NEW q \in Requests, NEW t \in Tenants, Suspend(q, t) \/ Reactivate(q, t)
      PROVE  P
  <2>1. PICK s : tenant' = [tenant EXCEPT ![t].status = s, ![t].lockedBy = q]
    BY <1>6 DEF Suspend, Reactivate, SetStatus
  <2>2. CASE u = t
    <3>1. tenant'[u] = [tenant[u] EXCEPT !.status = s, !.lockedBy = q]
      BY <1>1, <2>1, <2>2 DEF TypeOK
    <3>2. /\ tenant'[u].dashboardUserEmail = tenant[u].dashboardUserEmail
          /\ tenant'[u].lockedBy = q
      BY <1>1, <3>1 DEF TenantRow
    <3> QED
      BY <1>6, <2>2, <3>2
  <2>3. CASE u # t
    <3>1. tenant'[u] = tenant[u]
      BY <1>1, <2>1, <2>3 DEF TypeOK
    <3> QED
      BY <3>1
  <2> QED
    BY <2>2, <2>3
<1>7. ASSUME NEW q \in Requests, LinkDashboard(q) PROVE P
  <2>1. /\ req[q].tenant \in Tenants /\ req[q].email \in Emails
    BY <1>7
    DEF IInv, RequestsInOrder, RequestInOrder, LinkDashboard, At
  <2>2. CASE tenant' = [tenant EXCEPT ![req[q].tenant].dashboardUserEmail = req[q].email]
    <3>1. CASE u = req[q].tenant
      <4>1. tenant'[u] = [tenant[u] EXCEPT !.dashboardUserEmail = req[q].email]
        BY <1>1, <2>2, <3>1 DEF TypeOK
      <4>2. /\ tenant'[u].dashboardUserEmail = req[q].email
            /\ tenant'[u].lockedBy = tenant[u].lockedBy
        BY <1>1, <4>1 DEF TenantRow
      <4> QED
        BY <1>7, <2>1, <3>1, <4>2, OnboardingAssumption
    <3>2. CASE u # req[q].tenant
      BY <2>2, <3>2
    <3> QED
      BY <3>1, <3>2
  <2> QED
    BY <1>2, <1>7, <2>2 DEF LinkDashboard
<1> HIDE DEF P
<1>8. P
  BY <1>2, <1>3, <1>4, <1>5, <1>6, <1>7
  DEF Next, vars, Receive, Step, Handle, Submit, Reject, StartApprove,
      ProvisionDashboard, AwaitReply, GiveUp, ShowCredentials, Crash,
      PrepareDatabase, GrantAccess, SetDashboardAccountActive, CallFails,
      ChangeMyPassword, registry
<1> QED
  BY <1>8 DEF P

\* A request keeps its tenant and its operation once it has called, and does not
\* call again.
LEMMA RequestFrames ==
  ASSUME IInv, [Next]_vars, NEW q \in Requests
  PROVE  \/ NotYetCalled(q) /\ req'[q].pc \notin {"mail", "shown"}
         \/ /\ req'[q].op = req[q].op /\ req'[q].tenant = req[q].tenant
            /\ call'[q] = "none" <=> call[q] = "none"
            /\ call[q] = "ok" => call'[q] = "ok"
            /\ At(q, "mail")' => At(q, "mail") \/ LinkDashboard(q)
            /\ At(q, "shown")' => At(q, "mail") \/ At(q, "shown")
<1> DEFINE Frame ==
      /\ req'[q].op = req[q].op /\ req'[q].tenant = req[q].tenant
      /\ call'[q] = "none" <=> call[q] = "none"
      /\ call[q] = "ok" => call'[q] = "ok"
      /\ At(q, "mail")' => At(q, "mail") \/ LinkDashboard(q)
      /\ At(q, "shown")' => At(q, "mail") \/ At(q, "shown")
    P == \/ Frame
         \/ NotYetCalled(q) /\ req'[q].pc \notin {"mail", "shown"}
<1>1. TypeOK /\ req[q] \in RequestState
  BY DEF IInv, TypeOK
<1>2. ASSUME UNCHANGED <<req, call>> PROVE P
  BY <1>2 DEF At
<1>3. ASSUME NEW p \in Requests, NEW a \in Apps, StartApprove(p, a) PROVE P
  <2>1. CASE p = q
    <3>1. NotYetCalled(q)
      BY <1>3, <2>1, BeforeCall DEF StartApprove
    <3>2. req'[q].pc = "transaction"
      BY <1>1, <1>3, <2>1 DEF StartApprove, TypeOK, RequestState
    <3> QED
      BY <3>1, <3>2
  <2>2. CASE p # q
    BY <1>1, <1>3, <2>2 DEF StartApprove, TypeOK, At
  <2> QED
    BY <2>1, <2>2
<1>4. ASSUME NEW p \in Requests, NotYetCalled(p), NEW op \in Grants \cup Locks,
             NEW t \in Tenants, NEW e \in Emails \cup {None}, Called(p, op, t, e)
      PROVE  P
  BY <1>4 DEF Called, At
<1>5. ASSUME NEW p \in Requests, ApproveTransaction(p) PROVE P
  <2>1. NotYetCalled(p) /\ req[p].email \in Emails \cup {None}
    BY <1>1, <1>5, BeforeCall DEF ApproveTransaction, TypeOK, RequestState
  <2>2. PICK t \in Tenants : \/ SendCall(p, "approve", t, req[p].email)
                             \/ EndWithout(p, "approve", t)
    BY <1>5 DEF ApproveTransaction
  <2>3. Called(p, "approve", t, req[p].email)
    BY <1>1, <2>1, <2>2, CalledFacts DEF Grants
  <2> QED
    BY <1>4, <2>1, <2>3 DEF Grants
<1>6. ASSUME NEW p \in Requests, NEW t \in Tenants,
             ProvisionDashboard(p, t) \/ Suspend(p, t) \/ Reactivate(p, t)
      PROVE  P
  <2>1. NotYetCalled(p) /\ tenant[t].email \in Emails \cup {None}
    BY <1>1, <1>6, BeforeCall
    DEF ProvisionDashboard, Suspend, Reactivate, SetStatus, TypeOK, TenantRow
  <2>2. PICK op \in Grants \cup Locks, e \in Emails \cup {None} :
          SendCall(p, op, t, e) \/ EndWithout(p, op, t)
    BY <1>6, <2>1
    DEF ProvisionDashboard, Suspend, Reactivate, SetStatus, Grants, Locks
  <2>3. Called(p, op, t, e)
    BY <1>1, <2>1, <2>2, CalledFacts
  <2> QED
    BY <1>4, <2>1, <2>3
<1>7. ASSUME NEW p \in Requests,
             AwaitReply(p) \/ GiveUp(p) \/ ShowCredentials(p) \/ Crash(p) \/ LinkDashboard(p)
      PROVE  P
  <2>1. UNCHANGED call
    BY <1>7 DEF AwaitReply, GiveUp, ShowCredentials, Crash, LinkDashboard
  <2>2. PICK pc \in {"link", "mail", "shown", "ended"} :
          /\ GoTo(p, pc)
          /\ pc = "mail" => LinkDashboard(p)
          /\ pc = "shown" => At(p, "mail")
    BY <1>7 DEF AwaitReply, GiveUp, ShowCredentials, Crash, LinkDashboard
  <2>3. /\ req'[p].pc = pc
        /\ req'[p].op = req[p].op /\ req'[p].tenant = req[p].tenant
        /\ \A r \in Requests \ {p} : req'[r] = req[r]
    BY <1>1, <2>2, GoToFacts
  <2> QED
    BY <2>1, <2>2, <2>3 DEF At
<1>8. ASSUME NEW p \in Requests, call[p] = "pending",
             NEW outcome \in {"ok", "failed"}, Answer(p, outcome), UNCHANGED req
      PROVE  P
  BY <1>1, <1>8 DEF Answer, TypeOK, At
<1>9. ASSUME NEW p \in Requests, Handle(p) PROVE P
  BY <1>2, <1>8, <1>9
  DEF Handle, PrepareDatabase, GrantAccess, SetDashboardAccountActive, CallFails
<1> HIDE DEF P
<1>10. P
  BY <1>2, <1>3, <1>5, <1>6, <1>7, <1>9
  DEF Next, vars, Receive, Step, Submit, Reject, CreateTenant, UpdateEmail,
      UpdateStatus, ChangeMyPassword
<1> QED
  BY <1>10 DEF P

\* An account that was not there was opened by a grant that nobody was shown.
LEMMA AccountFrames ==
  ASSUME IInv, [Next]_vars, NEW t \in Tenants, HasAccount(t)', ~HasAccount(t)
  PROVE  \E q \in Requests :
           /\ req[q].tenant = t /\ req[q].op \in Grants /\ ~At(q, "shown")
           /\ UNCHANGED req
<1>1. TypeOK
  BY DEF IInv
<1>2. ASSUME UNCHANGED account PROVE FALSE
  BY <1>2 DEF HasAccount
<1>3. ~(\E u \in Tenants : ChangeMyPassword(u))
  BY <1>1 DEF ChangeMyPassword, Directory!ChangePassword, HasAccount, TypeOK
<1>4. PICK q \in Requests : Handle(q)
  BY <1>2, <1>3
  DEF Next, vars, Receive, Step, Submit, Reject, CreateTenant, UpdateEmail,
      UpdateStatus, StartApprove, ProvisionDashboard, Suspend, Reactivate, SetStatus,
      ApproveTransaction, AwaitReply, GiveUp, LinkDashboard, ShowCredentials, Crash,
      dashboard
<1>5. ~SetDashboardAccountActive(q)
  BY <1>1 DEF SetDashboardAccountActive, Directory!SetActive, HasAccount, TypeOK
<1>6. GrantAccess(q)
  BY <1>2, <1>4, <1>5
  DEF Handle, PrepareDatabase, CallFails, dashboard, Directory!Complete
<1>7. req[q].tenant = t
  BY <1>1, <1>6 DEF GrantAccess, Directory!Open, Directory!Reset, HasAccount, TypeOK
<1>8. req[q].pc \in {"await", "ended"}
  BY <1>6, AnswerFacts DEF GrantAccess
<1> QED
  BY <1>6, <1>7, <1>8 DEF GrantAccess, At

\* What is on record stays, and who opened an account is known.
LEMMA StepAccessInv == AccessInv /\ [Next]_vars => AccessInv'
<1> SUFFICES ASSUME AccessInv, [Next]_vars
             PROVE  MailedIsRecorded' /\ AccountHasGrant'
  BY NextIInv DEF AccessInv
<1>1. IInv
  BY DEF AccessInv
<1>2. \A u \in Tenants :
        tenant[u].dashboardUserEmail # None => tenant'[u].dashboardUserEmail # None
  BY <1>1, RowFrames
<1>3. \A q \in Requests : LinkDashboard(q) /\ At(q, "mail")' =>
                            tenant'[req[q].tenant].dashboardUserEmail # None
  <2> SUFFICES ASSUME NEW q \in Requests, LinkDashboard(q), At(q, "mail")'
               PROVE  tenant'[req[q].tenant].dashboardUserEmail # None
    OBVIOUS
  <2>1. /\ req[q].tenant \in Tenants /\ req[q].email \in Emails
        /\ TypeOK /\ tenant[req[q].tenant] \in TenantRow
    BY <1>1 DEF IInv, RequestsInOrder, RequestInOrder, LinkDashboard, At, TypeOK
  <2>2. tenant' = [tenant EXCEPT ![req[q].tenant].dashboardUserEmail = req[q].email]
    BY <2>1, GoToFacts DEF LinkDashboard, At
  <2>3. tenant'[req[q].tenant] =
          [tenant[req[q].tenant] EXCEPT !.dashboardUserEmail = req[q].email]
    BY <2>1, <2>2 DEF TypeOK
  <2>4. tenant'[req[q].tenant].dashboardUserEmail = req[q].email
    BY <2>1, <2>3 DEF TenantRow
  <2> QED
    BY <2>1, <2>4, OnboardingAssumption
<1>4. MailedIsRecorded'
  <2> SUFFICES ASSUME NEW q \in Requests, req'[q].pc \in {"mail", "shown"}
               PROVE  tenant'[req'[q].tenant].dashboardUserEmail # None
    BY DEF MailedIsRecorded
  <2>1. /\ req'[q].tenant = req[q].tenant
        /\ \/ req[q].pc \in {"mail", "shown"}
           \/ LinkDashboard(q) /\ At(q, "mail")'
    BY <1>1, RequestFrames DEF At
  <2>2. CASE req[q].pc \in {"mail", "shown"}
    <3>1. req[q].tenant \in Tenants
      BY <1>1, <2>2 DEF IInv, RequestsInOrder, RequestInOrder
    <3> QED
      BY <1>2, <2>1, <2>2, <3>1 DEF AccessInv, MailedIsRecorded
  <2> QED
    BY <1>3, <2>1, <2>2
<1>5. AccountHasGrant'
  <2> SUFFICES ASSUME NEW t \in Tenants, HasAccount(t)',
                      tenant'[t].dashboardUserEmail = None
               PROVE  \E q \in Requests : /\ req'[q].tenant = t
                                          /\ req'[q].op \in Grants
                                          /\ ~At(q, "shown")'
    BY DEF AccountHasGrant
  <2>1. CASE HasAccount(t)
    <3>1. tenant[t].dashboardUserEmail = None
      BY <1>2
    <3>2. PICK q \in Requests :
            req[q].tenant = t /\ req[q].op \in Grants /\ ~At(q, "shown")
      BY <2>1, <3>1 DEF AccessInv, AccountHasGrant
    <3>3. ~NotYetCalled(q)
      BY <1>1, <3>2, OnboardingAssumption
      DEF IInv, RequestsInOrder, RequestInOrder, NotYetCalled
    <3>4. ~At(q, "mail")
      BY <3>1, <3>2 DEF AccessInv, MailedIsRecorded, At
    <3> QED
      BY <1>1, <3>2, <3>3, <3>4, RequestFrames
  <2>2. CASE ~HasAccount(t)
    <3>1. PICK q \in Requests :
            /\ req[q].tenant = t /\ req[q].op \in Grants /\ ~At(q, "shown")
            /\ UNCHANGED req
      BY <1>1, <2>2, AccountFrames
    <3> QED
      BY <3>1 DEF At
  <2> QED
    BY <2>1, <2>2
<1> QED
  BY <1>4, <1>5

\* While no grant is under way beside a suspension, nothing goes on record that
\* the suspension did not see.
LEMMA StepUncalled ==
  ASSUME IInv, SuspensionUndisturbed, UncalledIsUnrecorded, [Next]_vars
  PROVE  UncalledIsUnrecorded'
<1> SUFFICES ASSUME NEW t \in Tenants, NEW q \in Requests,
                    tenant'[t].lockedBy = q, req'[q].op = "suspend",
                    call'[q] = "none"
             PROVE  tenant'[t].dashboardUserEmail = None
  BY DEF UncalledIsUnrecorded
<1>1. CASE tenant[t].lockedBy = q
  <2>1. ~NotYetCalled(q)
    BY <1>1 DEF IInv, LockOrigin, NotYetCalled
  <2>2. req[q].op = "suspend" /\ call[q] = "none"
    BY <2>1, RequestFrames
  <2>3. tenant[t].dashboardUserEmail = None
    BY <1>1, <2>2 DEF UncalledIsUnrecorded
  <2>4. ASSUME NEW p \in Requests, LinkDashboard(p) PROVE req[p].tenant # t
    <3>1. InProgress(p) /\ req[p].op \in Grants
      BY <2>4
      DEF LinkDashboard, InProgress, At, IInv, RequestsInOrder, RequestInOrder
    <3> QED
      BY <1>1, <2>2, <3>1 DEF SuspensionUndisturbed
  <2> QED
    BY <2>3, <2>4, RowFrames
<1>2. CASE Suspend(q, t) \/ Reactivate(q, t)
  <2>1. PICK op \in Locks, s \in TenantStatus : SetStatus(q, op, t, s)
    BY <1>2 DEF Suspend, Reactivate, Locks, TenantStatus
  <2>2. ~SendCall(q, op, t, None)
    BY DEF SendCall, IInv, TypeOK
  <2>3. tenant[t].dashboardUserEmail = None
    BY <2>1, <2>2 DEF SetStatus
  <2>4. ASSUME NEW p \in Requests, LinkDashboard(p) PROVE FALSE
    <3>1. req'[q].pc = "unsent" \/ p = q
      BY <2>1, <2>4, GoToFacts DEF SetStatus, LinkDashboard, At, IInv
    <3>2. req'[q].pc = "ended"
      BY <2>1, <2>2, EndFacts DEF SetStatus, IInv
    <3> QED
      BY <2>1, <2>4, <3>1, <3>2 DEF SetStatus, LinkDashboard, At
  <2> QED
    BY <2>3, <2>4, RowFrames
<1> QED
  BY <1>1, <1>2, RowFrames

\* "a suspended tenant is actually locked out of their Tenant Dashboard login":
\* so it is, for any tenants and requests, when each suspension has its tenant to
\* itself and no access is granted until the tenant is reactivated (suspend,
\* setAccountActive).
THEOREM UndisturbedSuspensionLocksOut ==
  Spec /\ []SuspensionUndisturbed => []SuspendedIsLockedOut
<1>1. Init => AccessInv /\ UncalledIsUnrecorded
  BY InitIInv, OnboardingAssumption
  DEF Init, AccessInv, MailedIsRecorded, AccountHasGrant, UncalledIsUnrecorded,
      NoTenant, HasAccount, Directory!Init
<1>2. AccessInv /\ SuspensionUndisturbed /\ UncalledIsUnrecorded /\ [Next]_vars =>
        UncalledIsUnrecorded'
  BY StepUncalled DEF AccessInv
<1>3. AccessInv /\ SuspensionUndisturbed /\ UncalledIsUnrecorded =>
        SuspendedIsLockedOut
  <2> SUFFICES ASSUME AccessInv, SuspensionUndisturbed, UncalledIsUnrecorded,
                      \A q \in Requests :
                        /\ req[q].op \in Grants => At(q, "shown")
                        /\ req[q].op \in Locks =>
                             At(q, "ended") /\ call[q] \in {"none", "ok"},
                      NEW t \in Tenants, NEW q \in Requests,
                      tenant[t].lockedBy = q, req[q].op = "suspend", HasAccount(t)
               PROVE  ~account[t].active
    BY DEF SuspendedIsLockedOut
  <2>1. tenant[t].dashboardUserEmail # None
    BY DEF AccessInv, AccountHasGrant
  <2>2. call[q] = "ok"
    BY <2>1 DEF UncalledIsUnrecorded, Locks
  <2>3. req[q].alone
    BY DEF SuspensionUndisturbed
  <2>4. tenant[t].status # "APPROVED"
    BY DEF AccessInv, IInv, LockOrigin
  <2> QED
    BY <2>2, <2>3, <2>4 DEF AccessInv, IInv, LockFollowsStatus
<1> QED
  BY <1>1, <1>2, <1>3, StepAccessInv, PTL DEF Spec

-----------------------------------------------------------------------------
(* What an admin is shown.                                                    *)

\* A locked account was locked by a suspend of its tenant.
LockedBySuspend ==
  \A t \in Tenants :
    HasAccount(t) /\ ~account[t].active =>
      \E p \in Requests : req[p].op = "suspend" /\ req[p].tenant = t /\ call[p] = "ok"

\* An account that a step leaves locked was locked before, or is locked by the
\* call of a suspend.
LEMMA LockFrames ==
  ASSUME IInv, [Next]_vars, NEW t \in Tenants, HasAccount(t)', ~account'[t].active
  PROVE  \/ HasAccount(t) /\ ~account[t].active
         \/ \E p \in Requests : /\ SetDashboardAccountActive(p)
                               /\ req[p].op = "suspend" /\ req[p].tenant = t
<1> DEFINE P == \/ HasAccount(t) /\ ~account[t].active
                \/ \E p \in Requests : /\ SetDashboardAccountActive(p)
                                      /\ req[p].op = "suspend" /\ req[p].tenant = t
<1>1. TypeOK /\ (account[t] # NoAccount => account[t] \in Directory!Account)
  BY DEF IInv, TypeOK
<1>2. ASSUME UNCHANGED account PROVE P
  BY <1>2 DEF HasAccount
<1>3. ASSUME NEW u \in Tenants, ChangeMyPassword(u) PROVE P
  <2>1. CASE u = t
    <3>1. account[t] # NoAccount
            /\ account'[t] = [account[t] EXCEPT !.password = Chosen]
      BY <1>1, <1>3, <2>1 DEF ChangeMyPassword, Directory!ChangePassword, TypeOK
    <3>2. account'[t].active = account[t].active
      BY <1>1, <3>1 DEF Directory!Account
    <3> QED
      BY <3>1, <3>2 DEF HasAccount
  <2>2. CASE u # t
    <3>1. account'[t] = account[t]
      BY <1>1, <1>3, <2>2 DEF ChangeMyPassword, Directory!ChangePassword, TypeOK
    <3> QED
      BY <3>1 DEF HasAccount
  <2> QED
    BY <2>1, <2>2
<1>4. ASSUME NEW q \in Requests, GrantAccess(q) PROVE P
  <2>1. CASE req[q].tenant = t
    <3>1. CASE Directory!Open(t, req[q].email, q)
      <4>1. account'[t].active = TRUE
        BY <1>1, <3>1 DEF Directory!Open, TypeOK
      <4> QED
        BY <4>1
    <3>2. CASE Directory!Reset(t, req[q].email, q)
      <4>1. account[t] # NoAccount
              /\ account'[t] = [account[t] EXCEPT !.email = req[q].email, !.password = q]
        BY <1>1, <3>2 DEF Directory!Reset, TypeOK
      <4>2. account'[t].active = account[t].active
        BY <1>1, <4>1 DEF Directory!Account
      <4> QED
        BY <4>1, <4>2 DEF HasAccount
    <3> QED
      BY <1>4, <2>1, <3>1, <3>2 DEF GrantAccess
  <2>2. CASE req[q].tenant # t
    <3>1. account'[t] = account[t]
      BY <1>1, <1>4, <2>2 DEF GrantAccess, Directory!Open, Directory!Reset, TypeOK
    <3> QED
      BY <3>1 DEF HasAccount
  <2> QED
    BY <2>1, <2>2
<1>5. ASSUME NEW q \in Requests, SetDashboardAccountActive(q) PROVE P
  <2>1. CASE req[q].tenant = t
    <3>1. account[t] # NoAccount /\ req[q].op \in Locks
            /\ account'[t] = [account[t] EXCEPT !.active = (req[q].op = "reactivate")]
      BY <1>1, <1>5, <2>1 DEF SetDashboardAccountActive, Directory!SetActive, TypeOK
    <3>2. account'[t].active = (req[q].op = "reactivate")
      BY <1>1, <3>1 DEF Directory!Account
    <3> QED
      BY <1>5, <2>1, <3>1, <3>2 DEF Locks
  <2>2. CASE req[q].tenant # t
    <3>1. account'[t] = account[t]
      BY <1>1, <1>5, <2>2 DEF SetDashboardAccountActive, Directory!SetActive, TypeOK
    <3> QED
      BY <3>1 DEF HasAccount
  <2> QED
    BY <2>1, <2>2
<1> HIDE DEF P
<1>6. P
  BY <1>2, <1>3, <1>4, <1>5
  DEF Next, vars, Receive, Step, Handle, Submit, Reject, CreateTenant, UpdateEmail,
      UpdateStatus, StartApprove, ProvisionDashboard, Suspend, Reactivate, SetStatus,
      ApproveTransaction, AwaitReply, GiveUp, LinkDashboard, ShowCredentials, Crash,
      PrepareDatabase, CallFails, Directory!Complete, dashboard
<1> QED
  BY <1>6 DEF P

\* A suspend that got through stays one.
LEMMA StepLockedBySuspend ==
  ASSUME IInv, LockedBySuspend, [Next]_vars
  PROVE  LockedBySuspend'
<1> SUFFICES ASSUME NEW t \in Tenants, HasAccount(t)', ~account'[t].active
             PROVE  \E p \in Requests : /\ req'[p].op = "suspend" /\ req'[p].tenant = t
                                        /\ call'[p] = "ok"
  BY DEF LockedBySuspend
<1>1. CASE HasAccount(t) /\ ~account[t].active
  <2>1. PICK p \in Requests :
          req[p].op = "suspend" /\ req[p].tenant = t /\ call[p] = "ok"
    BY <1>1 DEF LockedBySuspend
  <2> QED
    BY <2>1, RequestFrames DEF NotYetCalled
<1>2. CASE \E p \in Requests : /\ SetDashboardAccountActive(p)
                              /\ req[p].op = "suspend" /\ req[p].tenant = t
  BY <1>2 DEF SetDashboardAccountActive, Answer, registry, IInv, TypeOK
<1> QED
  BY <1>1, <1>2, LockFrames

\* The login an admin was shown is on record and in force until the tenant sets a
\* password of its own, and unlocked until a suspend gets through, over lost, late
\* and repeated calls and unless another grant for the tenant overlapped (the 409
\* of provisionDashboard, the order of approve's writes, changeMyPassword).
THEOREM CredentialsWork == Spec => []ShownCredentialsWork
<1>1. Init => IInv /\ LockedBySuspend
  BY InitIInv DEF Init, LockedBySuspend, HasAccount, Directory!Init
<1>2. IInv /\ LockedBySuspend /\ [Next]_vars => LockedBySuspend'
  BY StepLockedBySuspend
<1>3. IInv /\ LockedBySuspend => ShownCredentialsWork
  <2> SUFFICES ASSUME IInv, LockedBySuspend, NEW q \in Requests,
                      At(q, "shown"), req[q].alone
               PROVE  /\ tenant[req[q].tenant].dashboardUserEmail = req[q].email
                      /\ account[req[q].tenant].email = req[q].email
                      /\ account[req[q].tenant].password \in {q, Chosen}
                      /\ \/ account[req[q].tenant].active
                         \/ \E p \in Requests :
                               /\ req[p].op = "suspend"
                               /\ req[p].tenant = req[q].tenant /\ call[p] = "ok"
    BY DEF ShownCredentialsWork
  <2>1. GrantGoesOn(q) /\ call[q] = "ok" /\ req[q].tenant \in Tenants
    BY DEF IInv, RequestsInOrder, RequestInOrder, GrantGoesOn, At
  <2>2. HasAccount(req[q].tenant)
    BY <2>1 DEF IInv, OkHasAccount
  <2> QED
    BY <2>1, <2>2 DEF IInv, GrantHolds, LockedBySuspend, At
<1> QED
  BY <1>1, <1>2, <1>3, NextIInv, PTL DEF Spec

-----------------------------------------------------------------------------
(* Approving twice.                                                           *)

\* The unique index on dashboardUserEmail.
OneLoginOnRecord ==
  \A t, u \in Tenants :
    t # u /\ tenant[t].dashboardUserEmail # None =>
      tenant[u].dashboardUserEmail # tenant[t].dashboardUserEmail

\* An approval grants access to the address on its application's form.
ApprovalInOrder(q) ==
  /\ At(q, "transaction") => req[q].op = "approve"
  /\ req[q].op = "approve" /\ ~At(q, "ended") =>
       /\ req[q].app \in Apps /\ app[req[q].app].status # "ABSENT"
       /\ req[q].email = app[req[q].app].email

\* Each approval made a tenant of its own.
ApprovalsApart ==
  \A p, q \in Requests :
    /\ p # q /\ req[p].op = "approve" /\ req[q].op = "approve"
    /\ call[p] # "none" /\ call[q] # "none"
    => req[p].tenant # req[q].tenant

ApprovalInv ==
  /\ IInv /\ OneLoginOnRecord /\ ApprovalsApart
  /\ \A q \in Requests : ApprovalInOrder(q)

\* The address on a form never changes (submit, approve, reject).
LEMMA FormFrames ==
  ASSUME IInv, [Next]_vars, NEW b \in Apps, app[b].status # "ABSENT"
  PROVE  app'[b].status # "ABSENT" /\ app'[b].email = app[b].email
<1> DEFINE P == app'[b].status # "ABSENT" /\ app'[b].email = app[b].email
<1>1. TypeOK /\ app[b] \in AppRow
  BY DEF IInv, TypeOK
<1>2. ASSUME UNCHANGED app PROVE P
  BY <1>2
<1>3. ASSUME NEW a \in Apps, Submit(a) PROVE P
  <2>1. a # b
    BY <1>3 DEF Submit
  <2>2. app'[b] = app[b]
    BY <1>1, <1>3, <2>1 DEF Submit, TypeOK
  <2> QED
    BY <2>2
<1>4. ASSUME NEW a \in Apps, Reject(a) PROVE P
  <2>1. app'[b] = IF a = b THEN [app[b] EXCEPT !.status = "REJECTED"] ELSE app[b]
    BY <1>1, <1>4 DEF Reject, TypeOK
  <2> QED
    BY <1>1, <2>1 DEF AppRow
<1>5. ASSUME NEW q \in Requests, ApproveTransaction(q) PROVE P
  <2>1. PICK t \in Tenants :
          app' = [app EXCEPT ![req[q].app].status = "APPROVED", ![req[q].app].tenant = t]
    BY <1>5 DEF ApproveTransaction
  <2>2. app'[b] = IF req[q].app = b
                  THEN [app[b] EXCEPT !.status = "APPROVED", !.tenant = t]
                  ELSE app[b]
    BY <1>1, <2>1 DEF TypeOK
  <2> QED
    BY <1>1, <2>2 DEF AppRow
<1> HIDE DEF P
<1>6. P
  BY <1>2, <1>3, <1>4, <1>5
  DEF Next, vars, Receive, Step, Handle, CreateTenant, UpdateEmail, UpdateStatus,
      StartApprove, ProvisionDashboard, Suspend, Reactivate, SetStatus, AwaitReply,
      GiveUp, LinkDashboard, ShowCredentials, Crash, PrepareDatabase, GrantAccess,
      SetDashboardAccountActive, CallFails, ChangeMyPassword, registry
<1> QED
  BY <1>6 DEF P

\* A request is in step with what it was, but for the two writes of an approval.
InStep(q) ==
  /\ req'[q].op = req[q].op /\ req'[q].app = req[q].app
  /\ req'[q].tenant = req[q].tenant /\ req'[q].email = req[q].email
  /\ call'[q] = "none" <=> call[q] = "none"
  /\ At(q, "ended") => At(q, "ended")'
  /\ At(q, "transaction")' => At(q, "transaction")

LEMMA ApprovalFrames ==
  ASSUME IInv, [Next]_vars, NEW q \in Requests
  PROVE  \/ InStep(q)
         \/ \E a \in Apps : StartApprove(q, a)
         \/ ApproveTransaction(q)
         \/ req'[q].op # "approve" /\ ~At(q, "transaction")'
<1> DEFINE P == \/ InStep(q)
                \/ \E a \in Apps : StartApprove(q, a)
                \/ ApproveTransaction(q)
                \/ req'[q].op # "approve" /\ ~At(q, "transaction")'
<1>1. TypeOK /\ req[q] \in RequestState
  BY DEF IInv, TypeOK
<1>2. ASSUME UNCHANGED <<req, call>> PROVE P
  BY <1>2 DEF InStep, At
<1>3. ASSUME NEW p \in Requests, NEW a \in Apps, StartApprove(p, a) PROVE P
  <2>1. CASE p = q
    BY <1>3, <2>1
  <2>2. CASE p # q
    BY <1>1, <1>3, <2>2 DEF StartApprove, TypeOK, InStep, At
  <2> QED
    BY <2>1, <2>2
<1>4. ASSUME NEW p \in Requests \ {q}, NEW op \in Grants \cup Locks,
             NEW t \in Tenants, NEW e \in Emails \cup {None}, Called(p, op, t, e)
      PROVE  P
  BY <1>4 DEF Called, InStep, At
<1>5. ASSUME NEW p \in Requests, ApproveTransaction(p) PROVE P
  <2>1. NotYetCalled(p) /\ req[p].email \in Emails \cup {None}
    BY <1>1, <1>5, BeforeCall DEF ApproveTransaction, TypeOK, RequestState
  <2>2. PICK t \in Tenants : \/ SendCall(p, "approve", t, req[p].email)
                             \/ EndWithout(p, "approve", t)
    BY <1>5 DEF ApproveTransaction
  <2>3. Called(p, "approve", t, req[p].email)
    BY <1>1, <2>1, <2>2, CalledFacts DEF Grants
  <2> QED
    BY <1>4, <1>5, <2>1, <2>3 DEF Grants
<1>6. ASSUME NEW p \in Requests, NEW t \in Tenants,
             ProvisionDashboard(p, t) \/ Suspend(p, t) \/ Reactivate(p, t)
      PROVE  P
  <2>1. NotYetCalled(p) /\ tenant[t].email \in Emails \cup {None}
    BY <1>1, <1>6, BeforeCall
    DEF ProvisionDashboard, Suspend, Reactivate, SetStatus, TypeOK, TenantRow
  <2>2. PICK op \in (Grants \cup Locks) \ {"approve"}, e \in Emails \cup {None} :
          SendCall(p, op, t, e) \/ EndWithout(p, op, t)
    BY <1>6, <2>1
    DEF ProvisionDashboard, Suspend, Reactivate, SetStatus, Grants, Locks
  <2>3. Called(p, op, t, e)
    BY <1>1, <2>1, <2>2, CalledFacts
  <2>4. CASE p = q
    BY <2>2, <2>3, <2>4 DEF Called, At
  <2>5. CASE p # q
    BY <1>4, <2>2, <2>3, <2>5
  <2> QED
    BY <2>4, <2>5
<1>7. ASSUME NEW p \in Requests,
             AwaitReply(p) \/ GiveUp(p) \/ ShowCredentials(p) \/ Crash(p) \/ LinkDashboard(p)
      PROVE  P
  <2>1. UNCHANGED call /\ ~At(p, "ended")
    BY <1>7 DEF AwaitReply, GiveUp, ShowCredentials, Crash, LinkDashboard, At
  <2>2. PICK pc \in {"link", "mail", "shown", "ended"} : GoTo(p, pc)
    BY <1>7 DEF AwaitReply, GiveUp, ShowCredentials, Crash, LinkDashboard
  <2>3. /\ req'[p].pc = pc /\ req'[p].op = req[p].op /\ req'[p].app = req[p].app
        /\ req'[p].tenant = req[p].tenant /\ req'[p].email = req[p].email
        /\ \A r \in Requests \ {p} : req'[r] = req[r]
    BY <1>1, <2>2, GoToFacts
  <2> QED
    BY <2>1, <2>3 DEF InStep, At
<1>8. ASSUME NEW p \in Requests, call[p] = "pending",
             NEW outcome \in {"ok", "failed"}, Answer(p, outcome), UNCHANGED req
      PROVE  P
  BY <1>1, <1>8 DEF Answer, TypeOK, InStep, At
<1>9. ASSUME NEW p \in Requests, Handle(p) PROVE P
  BY <1>2, <1>8, <1>9
  DEF Handle, PrepareDatabase, GrantAccess, SetDashboardAccountActive, CallFails
<1> HIDE DEF P
<1>10. P
  BY <1>2, <1>3, <1>5, <1>6, <1>7, <1>9
  DEF Next, vars, Receive, Step, Submit, Reject, CreateTenant, UpdateEmail,
      UpdateStatus, ChangeMyPassword
<1> QED
  BY <1>10 DEF P

\* What the transaction of an approval does to the requests.
LEMMA TransactionFacts ==
  ASSUME IInv, NEW q \in Requests, ApproveTransaction(q)
  PROVE  /\ At(q, "transaction")
         /\ \E t \in Tenants :
              ~Exists(t) /\ Called(q, "approve", t, req[q].email)
<1>1. NotYetCalled(q) /\ req[q].email \in Emails \cup {None}
  BY BeforeCall DEF ApproveTransaction, IInv, TypeOK, RequestState
<1>2. PICK t \in Tenants : ~Exists(t) /\ \/ SendCall(q, "approve", t, req[q].email)
                                         \/ EndWithout(q, "approve", t)
  BY DEF ApproveTransaction
<1>3. Called(q, "approve", t, req[q].email)
  BY <1>1, <1>2, CalledFacts DEF Grants, IInv
<1> QED
  BY <1>2, <1>3 DEF ApproveTransaction

\* Only tenants that have no login on record take one, and one that is free.
LEMMA StepOneLogin ==
  ASSUME IInv, OneLoginOnRecord, [Next]_vars
  PROVE  OneLoginOnRecord'
<1>1. CASE \E p \in Requests : LinkDashboard(p)
  <2>1. PICK p \in Requests : LinkDashboard(p)
    BY <1>1
  <2> DEFINE t == req[p].tenant
             e == req[p].email
  <2>2. TypeOK /\ t \in Tenants
    BY <2>1 DEF IInv, RequestsInOrder, RequestInOrder, LinkDashboard, At
  <2>3. CASE UNCHANGED tenant
    BY <2>3 DEF OneLoginOnRecord
  <2>4. CASE /\ \A u \in Tenants \ {t} : tenant[u].dashboardUserEmail # e
             /\ tenant' = [tenant EXCEPT ![t].dashboardUserEmail = e]
    <3>1. tenant[t] \in TenantRow /\ \A u \in Tenants \ {t} : tenant'[u] = tenant[u]
      BY <2>2, <2>4 DEF TypeOK
    <3>2. tenant'[t] = [tenant[t] EXCEPT !.dashboardUserEmail = e]
      BY <2>2, <2>4 DEF TypeOK
    <3>3. tenant'[t].dashboardUserEmail = e
      BY <3>1, <3>2 DEF TenantRow
    <3> HIDE DEF t, e
    <3> QED
      BY <2>4, <3>1, <3>3 DEF OneLoginOnRecord
  <2> QED
    BY <2>1, <2>3, <2>4 DEF LinkDashboard
<1>2. CASE ~\E p \in Requests : LinkDashboard(p)
  <2>1. \A u \in Tenants : tenant'[u].dashboardUserEmail = tenant[u].dashboardUserEmail
    BY <1>2, RowFrames
  <2> QED
    BY <2>1 DEF OneLoginOnRecord
<1> QED
  BY <1>1, <1>2

\* An approval keeps the address of its form until it ends.
LEMMA StepInOrder ==
  ASSUME ApprovalInv, [Next]_vars, NEW q \in Requests
  PROVE  ApprovalInOrder(q)'
<1>1. IInv /\ ApprovalInOrder(q)
  BY DEF ApprovalInv
<1>2. CASE InStep(q)
  <2>1. At(q, "transaction")' => req'[q].op = "approve"
    BY <1>1, <1>2 DEF ApprovalInOrder, InStep
  <2>2. ASSUME req'[q].op = "approve", ~At(q, "ended")'
        PROVE  /\ req'[q].app \in Apps /\ app'[req'[q].app].status # "ABSENT"
               /\ req'[q].email = app'[req'[q].app].email
    <3>1. /\ req[q].app \in Apps /\ app[req[q].app].status # "ABSENT"
          /\ req[q].email = app[req[q].app].email
      BY <1>1, <1>2, <2>2 DEF ApprovalInOrder, InStep
    <3> QED
      BY <1>1, <1>2, <3>1, FormFrames DEF InStep
  <2> QED
    BY <2>1, <2>2 DEF ApprovalInOrder
<1>3. ASSUME NEW a \in Apps, StartApprove(q, a) PROVE ApprovalInOrder(q)'
  <2>1. /\ req[q] \in RequestState /\ UNCHANGED app /\ app[a].status # "ABSENT"
        /\ req'[q] = [req[q] EXCEPT !.op = "approve", !.pc = "transaction",
                                    !.app = a, !.email = app[a].email]
    BY <1>1, <1>3 DEF StartApprove, IInv, TypeOK, registry
  <2>2. req'[q].op = "approve" /\ req'[q].app = a /\ req'[q].email = app[a].email
    BY <2>1 DEF RequestState
  <2> QED
    BY <2>1, <2>2 DEF ApprovalInOrder
<1>4. CASE ApproveTransaction(q)
  <2>1. At(q, "transaction") /\ \E t \in Tenants : Called(q, "approve", t, req[q].email)
    BY <1>1, <1>4, TransactionFacts
  <2>2. /\ req'[q].app = req[q].app
        /\ \/ req'[q].pc = "await" /\ req'[q].email = req[q].email
           \/ req'[q].pc = "ended"
    BY <2>1 DEF Called
  <2>3. /\ req[q].app \in Apps /\ app[req[q].app].status # "ABSENT"
        /\ req[q].email = app[req[q].app].email
    BY <1>1, <2>1 DEF ApprovalInOrder, At
  <2>4. /\ app'[req[q].app].status # "ABSENT"
        /\ app'[req[q].app].email = app[req[q].app].email
    BY <1>1, <2>3, FormFrames
  <2> QED
    BY <2>2, <2>3, <2>4 DEF ApprovalInOrder, At
<1>5. CASE req'[q].op # "approve" /\ ~At(q, "transaction")'
  BY <1>5 DEF ApprovalInOrder
<1> QED
  BY <1>1, <1>2, <1>3, <1>4, <1>5, ApprovalFrames

\* A new approval takes a row that no request is about.
LEMMA StepApart ==
  ASSUME ApprovalInv, [Next]_vars
  PROVE  ApprovalsApart'
<1>0. IInv /\ ApprovalsApart
  BY DEF ApprovalInv
<1>1. CASE \E r \in Requests : ApproveTransaction(r)
  <2>1. PICK r \in Requests : ApproveTransaction(r)
    BY <1>1
  <2>2. PICK t \in Tenants : ~Exists(t) /\ Called(r, "approve", t, req[r].email)
    BY <1>0, <2>1, TransactionFacts
  <2>3. /\ req'[r].tenant = t
        /\ \A p \in Requests \ {r} :
             call'[p] = call[p] /\ req'[p].op = req[p].op /\ req'[p].tenant = req[p].tenant
    BY <2>2 DEF Called
  <2>4. \A p \in Requests : call[p] # "none" => req[p].tenant # t
    BY <1>0, <2>2 DEF IInv, RequestsInOrder, RequestInOrder
  <2> QED
    BY <1>0, <2>3, <2>4 DEF ApprovalsApart
<1>2. CASE ~\E r \in Requests : ApproveTransaction(r)
  <2>1. ASSUME NEW q \in Requests, req'[q].op = "approve", call'[q] # "none"
        PROVE  /\ req[q].op = "approve" /\ call[q] # "none"
               /\ req'[q].tenant = req[q].tenant
    <3>1. ASSUME NEW a \in Apps, StartApprove(q, a) PROVE FALSE
      BY <1>0, <2>1, <3>1
      DEF StartApprove, IInv, RequestsInOrder, RequestInOrder
    <3>2. InStep(q)
      BY <1>0, <1>2, <2>1, <3>1, ApprovalFrames
    <3> QED
      BY <2>1, <3>2 DEF InStep
  <2> QED
    BY <1>0, <2>1 DEF ApprovalsApart
<1> QED
  BY <1>1, <1>2

\* An application that two admins approve makes two tenants with one address, and
\* credentials are shown for one of them only, unless another grant for either
\* tenant overlapped (approve, the login that provision refuses twice, the unique
\* index on dashboardUserEmail).
THEOREM ApprovedTwice == Spec => []ApprovedTwiceShownOnce
<1>1. Init => ApprovalInv
  BY InitIInv
  DEF Init, ApprovalInv, OneLoginOnRecord, ApprovalsApart, ApprovalInOrder,
      NoTenant, At
<1>2. ApprovalInv /\ [Next]_vars => ApprovalInv'
  BY NextIInv, StepOneLogin, StepInOrder, StepApart DEF ApprovalInv
<1>3. ApprovalInv => ApprovedTwiceShownOnce
  <2> SUFFICES ASSUME ApprovalInv, NEW p \in Requests, NEW q \in Requests, p # q,
                      req[p].op = "approve", req[q].op = "approve",
                      req[p].app = req[q].app, At(p, "shown"), At(q, "shown"),
                      req[p].alone, req[q].alone
               PROVE  FALSE
    BY DEF ApprovedTwiceShownOnce
  <2>1. \A r \in {p, q} :
          /\ GrantGoesOn(r) /\ call[r] = "ok"
          /\ req[r].tenant \in Tenants /\ req[r].email \in Emails
    BY DEF ApprovalInv, IInv, RequestsInOrder, RequestInOrder, GrantGoesOn, At
  <2>2. \A r \in {p, q} : tenant[req[r].tenant].dashboardUserEmail = req[r].email
    BY <2>1 DEF ApprovalInv, IInv, GrantHolds, At
  <2>3. req[p].email = req[q].email
    BY DEF ApprovalInv, ApprovalInOrder, At
  <2>4. req[p].tenant # req[q].tenant
    BY <2>1 DEF ApprovalInv, ApprovalsApart
  <2> QED
    BY <2>1, <2>2, <2>3, <2>4, OnboardingAssumption DEF ApprovalInv, OneLoginOnRecord
<1> QED
  BY <1>1, <1>2, <1>3, PTL DEF Spec
=============================================================================
