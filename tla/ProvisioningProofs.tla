------------------------- MODULE ProvisioningProofs -------------------------
(***************************************************************************)
(* Proofs about Provisioning for any tenants, emails, calls and number of  *)
(* migrations.  What a call may rely on at each of its database operations *)
(* (CallsInOrder) is what makes "the account row is written last" enough.  *)
(***************************************************************************)
EXTENDS Provisioning, Integers, TLAPS

\* What holds in the stores when a call is about to do its next operation.
InOrder(c) ==
    LET t == call[c].tenant
        m == call[c].next
    IN
    /\ ~At(c, "unsent") => t \in Tenants
    /\ call[c].pc \in {"find", "createDatabase", "seek", "apply", "profile",
                       "account", "reset"} => call[c].email \in Emails
    /\ call[c].pc \in {"reset", "setActive"} => HasAccount(t)
    /\ call[c].pc \in {"find", "createDatabase"} => m = 1
    /\ call[c].pc \in {"seek", "apply", "profile", "account"} => t \in created
    /\ call[c].pc \in {"seek", "apply"} =>
          m \in 1..Migrations /\ 1..(m - 1) \subseteq applied[t]
    /\ call[c].pc \in {"profile", "account"} => applied[t] = 1..Migrations
    /\ At(c, "account") => profile[t] # "none"

CallsInOrder == \A c \in Calls : InOrder(c)

\* The history flag "alone" is exact, and a lone call that found a migration
\* missing still finds it missing.
LoneCalls ==
    \A c \in Calls :
        /\ InFlight(c) /\ call[c].alone =>
              \A d \in Calls \ {c} :
                  InFlight(d) => call[d].tenant # call[c].tenant
        /\ At(c, "apply") /\ call[c].alone =>
              call[c].next \notin applied[call[c].tenant]

\* A password in use was issued by a call that has ended well, or is the
\* tenant's own.
PasswordsIssued ==
    \A t \in Tenants :
        HasAccount(t) /\ account[t].password # Chosen =>
            At(account[t].password, "ok")

IInv ==
    /\ TypeOK
    /\ CallsInOrder
    /\ LoneCalls
    /\ PasswordsIssued
    /\ AccountImpliesReady
    /\ AppliedInOrder
    /\ RetryIsSafe
    /\ LoginsAreUnique

-----------------------------------------------------------------------------
\* The empty control database with no call made satisfies the invariant.
LEMMA InitIInv == Init => IInv
BY ProvisioningAssumption
   DEF Init, IInv, TypeOK, CallsInOrder, LoneCalls, PasswordsIssued,
       AccountImpliesReady, AppliedInOrder, RetryIsSafe, LoginsAreUnique,
       NotMade, CallState, Final, At, InFlight, HasAccount, InOrder

PCs == {"find", "createDatabase", "seek", "apply", "profile", "account", "reset",
        "findAccount", "setActive"} \cup Final

\* A call that goes to its next operation keeps its arguments, and no other
\* call moves.
LEMMA GoToFacts ==
    ASSUME TypeOK, NEW c \in Calls, NEW p \in PCs, GoTo(c, p)
    PROVE  /\ call' \in [Calls -> CallState]
           /\ \A d \in Calls \ {c} : call'[d] = call[d]
           /\ call'[c].pc = p
           /\ call'[c].tenant = call[c].tenant
           /\ call'[c].email = call[c].email
           /\ call'[c].next = call[c].next
           /\ call'[c].alone = call[c].alone
<1>1. call[c] \in CallState
  BY DEF TypeOK
<1>2. [call[c] EXCEPT !.pc = p] \in CallState
  BY <1>1 DEF CallState, PCs, Final
<1> QED
  BY <1>1, <1>2 DEF TypeOK, GoTo, CallState

\* The migration loop's way on, with the same guarantees.
LEMMA AdvanceFacts ==
    ASSUME TypeOK, NEW c \in Calls, NEW m \in Nat, Advance(c, m)
    PROVE  /\ call' \in [Calls -> CallState]
           /\ \A d \in Calls \ {c} : call'[d] = call[d]
           /\ call'[c].pc = IF m < Migrations THEN "seek" ELSE "profile"
           /\ call'[c].tenant = call[c].tenant
           /\ call'[c].email = call[c].email
           /\ call'[c].next = m + 1
           /\ call'[c].alone = call[c].alone
<1> DEFINE p == IF m < Migrations THEN "seek" ELSE "profile"
<1>1. call[c] \in CallState /\ p \in {"seek", "profile"}
  BY DEF TypeOK
<1> HIDE DEF p
<1>2. [call[c] EXCEPT !.pc = p, !.next = m + 1] \in CallState
  <2>1. m + 1 \in Nat
    OBVIOUS
  <2>2. [call[c] EXCEPT !.pc = p] \in CallState
    BY <1>1 DEF CallState
  <2> QED  BY <1>1, <2>1 DEF CallState
<1>3. call' = [call EXCEPT ![c] = [call[c] EXCEPT !.pc = p, !.next = m + 1]]
  BY <1>1 DEF TypeOK, Advance, p
<1>4. /\ call' \in [Calls -> CallState]
      /\ \A d \in Calls \ {c} : call'[d] = call[d]
      /\ call'[c] = [call[c] EXCEPT !.pc = p, !.next = m + 1]
  BY <1>1, <1>2, <1>3 DEF TypeOK
<1> QED
  BY <1>1, <1>4 DEF CallState, p

\* A call arrives: it has its arguments, and it overlaps exactly the calls for
\* its tenant that are in flight.
LEMMA BeginFacts ==
    ASSUME TypeOK, NEW c \in Calls, NEW new \in CallState, Begin(c, new)
    PROVE  /\ call' \in [Calls -> CallState]
           /\ call'[c].pc = new.pc
           /\ call'[c].tenant = new.tenant
           /\ call'[c].email = new.email
           /\ call'[c].next = new.next
           /\ call'[c].alone =>
                \A d \in Calls \ {c} : InFlight(d) => call[d].tenant # new.tenant
           /\ \A d \in Calls \ {c} :
                /\ call'[d].pc = call[d].pc
                /\ call'[d].tenant = call[d].tenant
                /\ call'[d].email = call[d].email
                /\ call'[d].next = call[d].next
                /\ call'[d].alone => call[d].alone
                /\ call'[d].alone /\ InFlight(d) => call[d].tenant # new.tenant
<1> DEFINE others == {d \in Calls \ {c} :
                        InFlight(d) /\ call[d].tenant = new.tenant}
           start == [new EXCEPT !.alone = others = {}]
<1>1. call' = [d \in Calls |-> IF d = c THEN start
                               ELSE IF d \in others
                                    THEN [call[d] EXCEPT !.alone = FALSE]
                                    ELSE call[d]]
  BY DEF Begin
<1>2. start \in CallState
  BY DEF CallState
<1>3. ASSUME NEW d \in Calls
      PROVE  call[d] \in CallState /\ [call[d] EXCEPT !.alone = FALSE] \in CallState
  BY DEF TypeOK, CallState
<1>4. call'[c] = start
  BY <1>1
<1>5. ASSUME NEW d \in Calls \ {c}
      PROVE  /\ call'[d].pc = call[d].pc
             /\ call'[d].tenant = call[d].tenant
             /\ call'[d].email = call[d].email
             /\ call'[d].next = call[d].next
             /\ call'[d].alone => call[d].alone
             /\ call'[d].alone /\ InFlight(d) => call[d].tenant # new.tenant
  <2>1. CASE d \in others
    <3>1. call'[d] = [call[d] EXCEPT !.alone = FALSE]
      BY <1>1, <2>1
    <3> QED  BY <1>3, <3>1 DEF CallState
  <2>2. CASE d \notin others
    <3>1. call'[d] = call[d]
      BY <1>1, <2>2
    <3> QED  BY <2>2, <3>1
  <2> QED  BY <2>1, <2>2
<1>6. call' \in [Calls -> CallState]
  <2> HIDE DEF start, others
  <2> QED  BY <1>1, <1>2, <1>3
<1>7. /\ call'[c].pc = new.pc
      /\ call'[c].tenant = new.tenant
      /\ call'[c].email = new.email
      /\ call'[c].next = new.next
      /\ call'[c].alone => others = {}
  BY <1>4 DEF CallState
<1> QED
  BY <1>5, <1>6, <1>7

\* The parts of the invariant that only read the stores survive a step that
\* leaves the stores alone.
LEMMA StoresUnchanged ==
    ASSUME IInv, UNCHANGED stores
    PROVE  AccountImpliesReady' /\ AppliedInOrder' /\ LoginsAreUnique'
BY DEF IInv, stores, AccountImpliesReady, AppliedInOrder, LoginsAreUnique,
       HasAccount, Ready

\* The account of t holds a password of the tenant's own, and else what it held.
PasswordChanged(t) ==
    /\ account' \in [Tenants -> Account \cup {NoAccount}]
    /\ account[t] # NoAccount /\ account'[t] # NoAccount
    /\ account'[t].email = account[t].email /\ account'[t].password = Chosen
    /\ \A u \in Tenants \ {t} : account'[u] = account[u]

LEMMA ChangeFacts ==
    ASSUME TypeOK, NEW t \in Tenants, ChangeMyPassword(t)
    PROVE  PasswordChanged(t)
<1> DEFINE x == [account[t] EXCEPT !.password = Chosen]
<1>1. account[t] \in Account /\ account[t] # NoAccount
  BY DEF TypeOK, ChangeMyPassword, HasAccount
<1>2. account' = [account EXCEPT ![t] = x]
  BY DEF ChangeMyPassword
<1>3. x \in Account /\ x.email = account[t].email /\ x.password = Chosen
  BY <1>1 DEF Account
<1>4. x # NoAccount
  BY <1>3, ProvisioningAssumption DEF Account
<1> HIDE DEF x
<1> QED  BY <1>1, <1>2, <1>3, <1>4 DEF TypeOK, PasswordChanged

\* Every arrival, database operation and crash preserves the invariant.
LEMMA NextIInv == IInv /\ [Next]_vars => IInv'
<1> SUFFICES ASSUME IInv, [Next]_vars PROVE IInv'
  OBVIOUS
<1> USE ProvisioningAssumption
    DEF IInv, InOrder, Final, PCs, At, InFlight, HasAccount, EmailFree,
        CreateAccepted, Ready, Account, stores
<1>1. ASSUME NEW c \in Calls, NEW t \in Tenants, NEW e \in Emails, ReceiveProvision(c, t, e)
      PROVE  IInv'
  <2> DEFINE new == [NotMade EXCEPT !.pc = "find", !.tenant = t, !.email = e]
  <2>1. Begin(c, new) /\ UNCHANGED stores /\ At(c, "unsent")
    BY <1>1 DEF ReceiveProvision
  <2>2. /\ new \in CallState
        /\ new.pc = "find" /\ new.tenant = t /\ new.next = 1
             /\ new.email = e
    BY <1>1 DEF CallState, NotMade
  <2> HIDE DEF new
  <2>3. /\ call' \in [Calls -> CallState]
        /\ call'[c].pc = new.pc
        /\ call'[c].tenant = new.tenant
        /\ call'[c].email = new.email
        /\ call'[c].next = new.next
        /\ call'[c].alone =>
             \A d \in Calls \ {c} : InFlight(d) => call[d].tenant # new.tenant
        /\ \A d \in Calls \ {c} :
             /\ call'[d].pc = call[d].pc
             /\ call'[d].tenant = call[d].tenant
             /\ call'[d].email = call[d].email
             /\ call'[d].next = call[d].next
             /\ call'[d].alone => call[d].alone
             /\ call'[d].alone /\ InFlight(d) => call[d].tenant # new.tenant
    BY <1>1, <2>1, <2>2, BeginFacts
  <2>4. TypeOK'
    BY <2>1, <2>3 DEF TypeOK
  <2>5. CallsInOrder'
    BY <1>1, <2>1, <2>2, <2>3 DEF CallsInOrder
  <2>6. LoneCalls'
    BY <2>1, <2>2, <2>3 DEF LoneCalls
  <2>7. PasswordsIssued' /\ RetryIsSafe'
    BY <2>1, <2>2, <2>3 DEF TypeOK, PasswordsIssued, RetryIsSafe
  <2> QED  BY <2>1, <2>4, <2>5, <2>6, <2>7, StoresUnchanged
<1>2. ASSUME NEW c \in Calls, NEW t \in Tenants, NEW b \in BOOLEAN, ReceiveSetActive(c, t, b)
      PROVE  IInv'
  <2> DEFINE new == [NotMade EXCEPT !.pc = "findAccount", !.tenant = t, !.flag = b]
  <2>1. Begin(c, new) /\ UNCHANGED stores /\ At(c, "unsent")
    BY <1>2 DEF ReceiveSetActive
  <2>2. /\ new \in CallState
        /\ new.pc = "findAccount" /\ new.tenant = t /\ new.next = 1
    BY <1>2 DEF CallState, NotMade
  <2> HIDE DEF new
  <2>3. /\ call' \in [Calls -> CallState]
        /\ call'[c].pc = new.pc
        /\ call'[c].tenant = new.tenant
        /\ call'[c].email = new.email
        /\ call'[c].next = new.next
        /\ call'[c].alone =>
             \A d \in Calls \ {c} : InFlight(d) => call[d].tenant # new.tenant
        /\ \A d \in Calls \ {c} :
             /\ call'[d].pc = call[d].pc
             /\ call'[d].tenant = call[d].tenant
             /\ call'[d].email = call[d].email
             /\ call'[d].next = call[d].next
             /\ call'[d].alone => call[d].alone
             /\ call'[d].alone /\ InFlight(d) => call[d].tenant # new.tenant
    BY <1>2, <2>1, <2>2, BeginFacts
  <2>4. TypeOK'
    BY <2>1, <2>3 DEF TypeOK
  <2>5. CallsInOrder'
    BY <1>2, <2>1, <2>2, <2>3 DEF CallsInOrder
  <2>6. LoneCalls'
    BY <2>1, <2>2, <2>3 DEF LoneCalls
  <2>7. PasswordsIssued' /\ RetryIsSafe'
    BY <2>1, <2>2, <2>3 DEF TypeOK, PasswordsIssued, RetryIsSafe
  <2> QED  BY <2>1, <2>4, <2>5, <2>6, <2>7, StoresUnchanged
<1>3. ASSUME NEW t \in Tenants, EditProfile(t)
      PROVE  IInv'
  BY <1>3
  DEF EditProfile, TypeOK, CallsInOrder, LoneCalls, PasswordsIssued,
      AccountImpliesReady, AppliedInOrder, RetryIsSafe, LoginsAreUnique
<1>4. ASSUME NEW c \in Calls, FindExisting(c)
      PROVE  IInv'
  <2>1. CASE HasAccount(call[c].tenant)
    <3>1. GoTo(c, "reset")
      BY <1>4, <2>1 DEF FindExisting
    <3>2. /\ call' \in [Calls -> CallState]
          /\ \A d \in Calls \ {c} : call'[d] = call[d]
          /\ call'[c].pc = "reset"
          /\ call'[c].tenant = call[c].tenant
          /\ call'[c].email = call[c].email
          /\ call'[c].next = call[c].next
          /\ call'[c].alone = call[c].alone
      BY <3>1, GoToFacts
    <3>3. TypeOK'
      BY <1>4, <2>1, <3>2 DEF FindExisting, TypeOK, CallsInOrder
    <3>4. CallsInOrder'
      BY <1>4, <2>1, <3>2 DEF FindExisting, TypeOK, CallsInOrder
    <3>5. LoneCalls'
      BY <1>4, <2>1, <3>2 DEF FindExisting, TypeOK, CallsInOrder, LoneCalls
    <3>6. PasswordsIssued' /\ RetryIsSafe'
      BY <1>4, <2>1, <3>2
      DEF FindExisting, TypeOK, CallsInOrder, LoneCalls, PasswordsIssued,
          RetryIsSafe
    <3>7. UNCHANGED stores
      BY <1>4, <2>1 DEF FindExisting
    <3> QED  BY <3>3, <3>4, <3>5, <3>6, <3>7, StoresUnchanged
  <2>2. CASE ~HasAccount(call[c].tenant)
    <3>1. GoTo(c, "createDatabase")
      BY <1>4, <2>2 DEF FindExisting
    <3>2. /\ call' \in [Calls -> CallState]
          /\ \A d \in Calls \ {c} : call'[d] = call[d]
          /\ call'[c].pc = "createDatabase"
          /\ call'[c].tenant = call[c].tenant
          /\ call'[c].email = call[c].email
          /\ call'[c].next = call[c].next
          /\ call'[c].alone = call[c].alone
      BY <3>1, GoToFacts
    <3>3. TypeOK'
      BY <1>4, <2>2, <3>2 DEF FindExisting, TypeOK, CallsInOrder
    <3>4. CallsInOrder'
      BY <1>4, <2>2, <3>2 DEF FindExisting, TypeOK, CallsInOrder
    <3>5. LoneCalls'
      BY <1>4, <2>2, <3>2 DEF FindExisting, TypeOK, CallsInOrder, LoneCalls
    <3>6. PasswordsIssued' /\ RetryIsSafe'
      BY <1>4, <2>2, <3>2
      DEF FindExisting, TypeOK, CallsInOrder, LoneCalls, PasswordsIssued,
          RetryIsSafe
    <3>7. UNCHANGED stores
      BY <1>4, <2>2 DEF FindExisting
    <3> QED  BY <3>3, <3>4, <3>5, <3>6, <3>7, StoresUnchanged
  <2> QED  BY <1>4, <2>1, <2>2 DEF FindExisting
<1>5. ASSUME NEW c \in Calls, ResetCredentials(c)
      PROVE  IInv'
  <2>1. CASE EmailFree(call[c].tenant, call[c].email)
    <3>1. GoTo(c, "ok")
      BY <1>5, <2>1 DEF ResetCredentials
    <3>2. /\ call' \in [Calls -> CallState]
          /\ \A d \in Calls \ {c} : call'[d] = call[d]
          /\ call'[c].pc = "ok"
          /\ call'[c].tenant = call[c].tenant
          /\ call'[c].email = call[c].email
          /\ call'[c].next = call[c].next
          /\ call'[c].alone = call[c].alone
      BY <3>1, GoToFacts
    <3>3. TypeOK'
      BY <1>5, <2>1, <3>2 DEF ResetCredentials, TypeOK, CallsInOrder
    <3>4. CallsInOrder'
      BY <1>5, <2>1, <3>2 DEF ResetCredentials, TypeOK, CallsInOrder
    <3>5. LoneCalls'
      BY <1>5, <2>1, <3>2
      DEF ResetCredentials, TypeOK, CallsInOrder, LoneCalls
    <3>6. PasswordsIssued' /\ RetryIsSafe'
      BY <1>5, <2>1, <3>2
      DEF ResetCredentials, TypeOK, CallsInOrder, LoneCalls, PasswordsIssued,
          RetryIsSafe
    <3>7. AccountImpliesReady' /\ AppliedInOrder' /\ LoginsAreUnique'
      BY <1>5, <2>1
      DEF ResetCredentials, TypeOK, CallsInOrder, AccountImpliesReady,
          AppliedInOrder, LoginsAreUnique
    <3> QED  BY <3>3, <3>4, <3>5, <3>6, <3>7
  <2>2. CASE ~EmailFree(call[c].tenant, call[c].email)
    <3>1. GoTo(c, "conflict")
      BY <1>5, <2>2 DEF ResetCredentials
    <3>2. /\ call' \in [Calls -> CallState]
          /\ \A d \in Calls \ {c} : call'[d] = call[d]
          /\ call'[c].pc = "conflict"
          /\ call'[c].tenant = call[c].tenant
          /\ call'[c].email = call[c].email
          /\ call'[c].next = call[c].next
          /\ call'[c].alone = call[c].alone
      BY <3>1, GoToFacts
    <3>3. TypeOK'
      BY <1>5, <2>2, <3>2 DEF ResetCredentials, TypeOK, CallsInOrder
    <3>4. CallsInOrder'
      BY <1>5, <2>2, <3>2 DEF ResetCredentials, TypeOK, CallsInOrder
    <3>5. LoneCalls'
      BY <1>5, <2>2, <3>2
      DEF ResetCredentials, TypeOK, CallsInOrder, LoneCalls
    <3>6. PasswordsIssued' /\ RetryIsSafe'
      BY <1>5, <2>2, <3>2
      DEF ResetCredentials, TypeOK, CallsInOrder, LoneCalls, PasswordsIssued,
          RetryIsSafe
    <3>7. UNCHANGED stores
      BY <1>5, <2>2 DEF ResetCredentials
    <3> QED  BY <3>3, <3>4, <3>5, <3>6, <3>7, StoresUnchanged
  <2> QED  BY <1>5, <2>1, <2>2 DEF ResetCredentials
<1>6. ASSUME NEW c \in Calls, CreateTenantDatabase(c)
      PROVE  IInv'
  <2>1. GoTo(c, "seek")
    BY <1>6 DEF CreateTenantDatabase
  <2>2. /\ call' \in [Calls -> CallState]
        /\ \A d \in Calls \ {c} : call'[d] = call[d]
        /\ call'[c].pc = "seek"
        /\ call'[c].tenant = call[c].tenant
        /\ call'[c].email = call[c].email
        /\ call'[c].next = call[c].next
        /\ call'[c].alone = call[c].alone
    BY <2>1, GoToFacts
  <2>3. TypeOK'
    BY <1>6, <2>2 DEF CreateTenantDatabase, TypeOK, CallsInOrder
  <2>4. CallsInOrder'
    BY <1>6, <2>2 DEF CreateTenantDatabase, TypeOK, CallsInOrder
  <2>5. LoneCalls'
    BY <1>6, <2>2 DEF CreateTenantDatabase, TypeOK, CallsInOrder, LoneCalls
  <2>6. PasswordsIssued' /\ RetryIsSafe'
    BY <1>6, <2>2
    DEF CreateTenantDatabase, TypeOK, CallsInOrder, LoneCalls,
        PasswordsIssued, RetryIsSafe
  <2>7. AccountImpliesReady' /\ AppliedInOrder' /\ LoginsAreUnique'
    BY <1>6
    DEF CreateTenantDatabase, TypeOK, CallsInOrder, AccountImpliesReady,
        AppliedInOrder, LoginsAreUnique
  <2> QED  BY <2>3, <2>4, <2>5, <2>6, <2>7
<1>7. ASSUME NEW c \in Calls, SeekMigration(c)
      PROVE  IInv'
  <2>1. CASE call[c].next \in applied[call[c].tenant]
    <3>1. Advance(c, call[c].next) /\ call[c].next \in Nat
      BY <1>7, <2>1 DEF SeekMigration, TypeOK, CallState
    <3>2. /\ call' \in [Calls -> CallState]
          /\ \A d \in Calls \ {c} : call'[d] = call[d]
          /\ call'[c].pc = IF call[c].next < Migrations THEN "seek" ELSE "profile"
          /\ call'[c].tenant = call[c].tenant
          /\ call'[c].email = call[c].email
          /\ call'[c].next = call[c].next + 1
          /\ call'[c].alone = call[c].alone
      BY <3>1, AdvanceFacts
    <3>3. TypeOK'
      BY <1>7, <2>1, <3>2 DEF SeekMigration, TypeOK, CallsInOrder
    <3>4. CallsInOrder'
      <4> DEFINE m == call[c].next
                 t == call[c].tenant
      <4>1. m \in 1..Migrations /\ 1..(m - 1) \subseteq applied[t]
              /\ t \in Tenants
        BY <1>7 DEF SeekMigration, CallsInOrder
      <4>2. 1..m \subseteq applied'[t] /\ applied'[t] \subseteq 1..Migrations
        BY <1>7, <2>1, <4>1 DEF SeekMigration, TypeOK
      <4>3. m < Migrations => m + 1 \in 1..Migrations /\ (m + 1) - 1 = m
        <5> HIDE DEF m, t
        <5> QED  BY <4>1
      <4>4. ~(m < Migrations) => applied'[t] = 1..Migrations
        <5> HIDE DEF m, t
        <5>1. ~(m < Migrations) => m = Migrations
          BY <4>1
        <5> QED  BY <4>2, <5>1
      <4>5. \A u \in Tenants : applied[u] \subseteq applied'[u]
        BY <1>7, <2>1 DEF SeekMigration, TypeOK
      <4>6. ASSUME NEW d \in Calls \ {c}, call[d].tenant \in Tenants,
                   applied[call[d].tenant] = 1..Migrations
            PROVE  applied'[call[d].tenant] = 1..Migrations
        BY <1>7, <2>1, <4>5, <4>6 DEF SeekMigration, TypeOK
      <4> HIDE DEF m, t
      <4>7. InOrder(c)'
        BY <1>7, <3>2, <4>1, <4>2, <4>3, <4>4
        DEF SeekMigration, CallsInOrder, m, t
      <4>8. ASSUME NEW d \in Calls \ {c}
            PROVE  InOrder(d)'
        BY <1>7, <3>2 DEF SeekMigration, CallsInOrder
      <4> QED  BY <4>7, <4>8 DEF CallsInOrder
    <3>5. LoneCalls'
      BY <1>7, <2>1, <3>2 DEF SeekMigration, TypeOK, CallsInOrder, LoneCalls
    <3>6. PasswordsIssued' /\ RetryIsSafe'
      BY <1>7, <2>1, <3>2
      DEF SeekMigration, TypeOK, CallsInOrder, LoneCalls, PasswordsIssued,
          RetryIsSafe
    <3>7. UNCHANGED stores
      BY <1>7, <2>1 DEF SeekMigration
    <3> QED  BY <3>3, <3>4, <3>5, <3>6, <3>7, StoresUnchanged
  <2>2. CASE call[c].next \notin applied[call[c].tenant]
    <3>1. GoTo(c, "apply")
      BY <1>7, <2>2 DEF SeekMigration
    <3>2. /\ call' \in [Calls -> CallState]
          /\ \A d \in Calls \ {c} : call'[d] = call[d]
          /\ call'[c].pc = "apply"
          /\ call'[c].tenant = call[c].tenant
          /\ call'[c].email = call[c].email
          /\ call'[c].next = call[c].next
          /\ call'[c].alone = call[c].alone
      BY <3>1, GoToFacts
    <3>3. TypeOK'
      BY <1>7, <2>2, <3>2 DEF SeekMigration, TypeOK, CallsInOrder
    <3>4. CallsInOrder'
      BY <1>7, <2>2, <3>2
      DEF SeekMigration, TypeOK, CallsInOrder, AppliedInOrder,
          AccountImpliesReady
    <3>5. LoneCalls'
      BY <1>7, <2>2, <3>2 DEF SeekMigration, TypeOK, CallsInOrder, LoneCalls
    <3>6. PasswordsIssued' /\ RetryIsSafe'
      BY <1>7, <2>2, <3>2
      DEF SeekMigration, TypeOK, CallsInOrder, LoneCalls, PasswordsIssued,
          RetryIsSafe
    <3>7. UNCHANGED stores
      BY <1>7, <2>2 DEF SeekMigration
    <3> QED  BY <3>3, <3>4, <3>5, <3>6, <3>7, StoresUnchanged
  <2> QED  BY <1>7, <2>1, <2>2 DEF SeekMigration
<1>8. ASSUME NEW c \in Calls, ApplyMigration(c)
      PROVE  IInv'
  <2>1. CASE call[c].next \notin applied[call[c].tenant]
    <3>1. Advance(c, call[c].next) /\ call[c].next \in Nat
      BY <1>8, <2>1 DEF ApplyMigration, TypeOK, CallState
    <3>2. /\ call' \in [Calls -> CallState]
          /\ \A d \in Calls \ {c} : call'[d] = call[d]
          /\ call'[c].pc = IF call[c].next < Migrations THEN "seek" ELSE "profile"
          /\ call'[c].tenant = call[c].tenant
          /\ call'[c].email = call[c].email
          /\ call'[c].next = call[c].next + 1
          /\ call'[c].alone = call[c].alone
      BY <3>1, AdvanceFacts
    <3>3. TypeOK'
      BY <1>8, <2>1, <3>2 DEF ApplyMigration, TypeOK, CallsInOrder
    <3>4. CallsInOrder'
      <4> DEFINE m == call[c].next
                 t == call[c].tenant
      <4>1. m \in 1..Migrations /\ 1..(m - 1) \subseteq applied[t]
              /\ t \in Tenants
        BY <1>8 DEF ApplyMigration, CallsInOrder
      <4>2. 1..m \subseteq applied'[t] /\ applied'[t] \subseteq 1..Migrations
        BY <1>8, <2>1, <4>1 DEF ApplyMigration, TypeOK
      <4>3. m < Migrations => m + 1 \in 1..Migrations /\ (m + 1) - 1 = m
        <5> HIDE DEF m, t
        <5> QED  BY <4>1
      <4>4. ~(m < Migrations) => applied'[t] = 1..Migrations
        <5> HIDE DEF m, t
        <5>1. ~(m < Migrations) => m = Migrations
          BY <4>1
        <5> QED  BY <4>2, <5>1
      <4>5. \A u \in Tenants : applied[u] \subseteq applied'[u]
        BY <1>8, <2>1 DEF ApplyMigration, TypeOK
      <4>6. ASSUME NEW d \in Calls \ {c}, call[d].tenant \in Tenants,
                   applied[call[d].tenant] = 1..Migrations
            PROVE  applied'[call[d].tenant] = 1..Migrations
        <5>1. applied' \in [Tenants -> SUBSET (1..Migrations)]
          BY <1>8, <2>1, <4>1 DEF ApplyMigration, TypeOK
        <5> QED  BY <4>5, <4>6, <5>1
      <4> HIDE DEF m, t
      <4>7. InOrder(c)'
        BY <1>8, <3>2, <4>1, <4>2, <4>3, <4>4
        DEF ApplyMigration, CallsInOrder, m, t
      <4>8. ASSUME NEW d \in Calls \ {c}
            PROVE  InOrder(d)'
        BY <1>8, <3>2, <4>5, <4>6 DEF ApplyMigration, CallsInOrder
      <4> QED  BY <4>7, <4>8 DEF CallsInOrder
    <3>5. LoneCalls'
      BY <1>8, <2>1, <3>2 DEF ApplyMigration, TypeOK, CallsInOrder, LoneCalls
    <3>6. PasswordsIssued' /\ RetryIsSafe'
      BY <1>8, <2>1, <3>2
      DEF ApplyMigration, TypeOK, CallsInOrder, LoneCalls, PasswordsIssued,
          RetryIsSafe
    <3>7. AccountImpliesReady' /\ AppliedInOrder' /\ LoginsAreUnique'
      BY <1>8, <2>1
      DEF ApplyMigration, TypeOK, CallsInOrder, AccountImpliesReady,
          AppliedInOrder, LoginsAreUnique
    <3> QED  BY <3>3, <3>4, <3>5, <3>6, <3>7
  <2>2. CASE call[c].next \in applied[call[c].tenant]
    <3>1. GoTo(c, "sqlError")
      BY <1>8, <2>2 DEF ApplyMigration
    <3>2. /\ call' \in [Calls -> CallState]
          /\ \A d \in Calls \ {c} : call'[d] = call[d]
          /\ call'[c].pc = "sqlError"
          /\ call'[c].tenant = call[c].tenant
          /\ call'[c].email = call[c].email
          /\ call'[c].next = call[c].next
          /\ call'[c].alone = call[c].alone
      BY <3>1, GoToFacts
    <3>3. TypeOK'
      BY <1>8, <2>2, <3>2 DEF ApplyMigration, TypeOK, CallsInOrder
    <3>4. CallsInOrder'
      BY <1>8, <2>2, <3>2
      DEF ApplyMigration, TypeOK, CallsInOrder, AppliedInOrder,
          AccountImpliesReady
    <3>5. LoneCalls'
      BY <1>8, <2>2, <3>2 DEF ApplyMigration, TypeOK, CallsInOrder, LoneCalls
    <3>6. PasswordsIssued' /\ RetryIsSafe'
      BY <1>8, <2>2, <3>2
      DEF ApplyMigration, TypeOK, CallsInOrder, LoneCalls, PasswordsIssued,
          RetryIsSafe
    <3>7. UNCHANGED stores
      BY <1>8, <2>2 DEF ApplyMigration
    <3> QED  BY <3>3, <3>4, <3>5, <3>6, <3>7, StoresUnchanged
  <2> QED  BY <1>8, <2>1, <2>2 DEF ApplyMigration
<1>9. ASSUME NEW c \in Calls, SeedProfile(c)
      PROVE  IInv'
  <2>1. GoTo(c, "account")
    BY <1>9 DEF SeedProfile
  <2>2. /\ call' \in [Calls -> CallState]
        /\ \A d \in Calls \ {c} : call'[d] = call[d]
        /\ call'[c].pc = "account"
        /\ call'[c].tenant = call[c].tenant
        /\ call'[c].email = call[c].email
        /\ call'[c].next = call[c].next
        /\ call'[c].alone = call[c].alone
    BY <2>1, GoToFacts
  <2>3. TypeOK'
    BY <1>9, <2>2 DEF SeedProfile, TypeOK, CallsInOrder
  <2>4. CallsInOrder'
    BY <1>9, <2>2 DEF SeedProfile, TypeOK, CallsInOrder
  <2>5. LoneCalls'
    BY <1>9, <2>2 DEF SeedProfile, TypeOK, CallsInOrder, LoneCalls
  <2>6. PasswordsIssued' /\ RetryIsSafe'
    BY <1>9, <2>2
    DEF SeedProfile, TypeOK, CallsInOrder, LoneCalls, PasswordsIssued,
        RetryIsSafe
  <2>7. AccountImpliesReady' /\ AppliedInOrder' /\ LoginsAreUnique'
    BY <1>9
    DEF SeedProfile, TypeOK, CallsInOrder, AccountImpliesReady,
        AppliedInOrder, LoginsAreUnique
  <2> QED  BY <2>3, <2>4, <2>5, <2>6, <2>7
<1>10. ASSUME NEW c \in Calls, CreateAccount(c)
      PROVE  IInv'
  <2>1. CASE CreateAccepted(call[c].tenant, call[c].email)
    <3>1. GoTo(c, "ok")
      BY <1>10, <2>1 DEF CreateAccount
    <3>2. /\ call' \in [Calls -> CallState]
          /\ \A d \in Calls \ {c} : call'[d] = call[d]
          /\ call'[c].pc = "ok"
          /\ call'[c].tenant = call[c].tenant
          /\ call'[c].email = call[c].email
          /\ call'[c].next = call[c].next
          /\ call'[c].alone = call[c].alone
      BY <3>1, GoToFacts
    <3>3. TypeOK'
      <4>1. call[c].email \in Emails
        BY <1>10 DEF CreateAccount, CallsInOrder
      <4> DEFINE x == [email |-> call[c].email, password |-> c, active |-> TRUE]
      <4>2. x \in Account
        BY <4>1
      <4>3. /\ account' = [account EXCEPT ![call[c].tenant] = x]
            /\ UNCHANGED <<created, applied, profile>>
        BY <1>10, <2>1 DEF CreateAccount
      <4> HIDE DEF x
      <4> QED  BY <3>2, <4>2, <4>3 DEF TypeOK
    <3>4. CallsInOrder'
      BY <1>10, <2>1, <3>2 DEF CreateAccount, TypeOK, CallsInOrder
    <3>5. LoneCalls'
      BY <1>10, <2>1, <3>2 DEF CreateAccount, TypeOK, CallsInOrder, LoneCalls
    <3>6. PasswordsIssued' /\ RetryIsSafe'
      BY <1>10, <2>1, <3>2
      DEF CreateAccount, TypeOK, CallsInOrder, LoneCalls, PasswordsIssued,
          RetryIsSafe
    <3>7. AccountImpliesReady' /\ AppliedInOrder' /\ LoginsAreUnique'
      BY <1>10, <2>1
      DEF CreateAccount, TypeOK, CallsInOrder, AccountImpliesReady,
          AppliedInOrder, LoginsAreUnique
    <3> QED  BY <3>3, <3>4, <3>5, <3>6, <3>7
  <2>2. CASE ~CreateAccepted(call[c].tenant, call[c].email)
    <3>1. GoTo(c, "conflict")
      BY <1>10, <2>2 DEF CreateAccount
    <3>2. /\ call' \in [Calls -> CallState]
          /\ \A d \in Calls \ {c} : call'[d] = call[d]
          /\ call'[c].pc = "conflict"
          /\ call'[c].tenant = call[c].tenant
          /\ call'[c].email = call[c].email
          /\ call'[c].next = call[c].next
          /\ call'[c].alone = call[c].alone
      BY <3>1, GoToFacts
    <3>3. TypeOK'
      BY <1>10, <2>2, <3>2 DEF CreateAccount, TypeOK, CallsInOrder
    <3>4. CallsInOrder'
      BY <1>10, <2>2, <3>2 DEF CreateAccount, TypeOK, CallsInOrder
    <3>5. LoneCalls'
      BY <1>10, <2>2, <3>2 DEF CreateAccount, TypeOK, CallsInOrder, LoneCalls
    <3>6. PasswordsIssued' /\ RetryIsSafe'
      BY <1>10, <2>2, <3>2
      DEF CreateAccount, TypeOK, CallsInOrder, LoneCalls, PasswordsIssued,
          RetryIsSafe
    <3>7. UNCHANGED stores
      BY <1>10, <2>2 DEF CreateAccount
    <3> QED  BY <3>3, <3>4, <3>5, <3>6, <3>7, StoresUnchanged
  <2> QED  BY <1>10, <2>1, <2>2 DEF CreateAccount
<1>11. ASSUME NEW c \in Calls, FindAccount(c)
      PROVE  IInv'
  <2>1. CASE HasAccount(call[c].tenant)
    <3>1. GoTo(c, "setActive")
      BY <1>11, <2>1 DEF FindAccount
    <3>2. /\ call' \in [Calls -> CallState]
          /\ \A d \in Calls \ {c} : call'[d] = call[d]
          /\ call'[c].pc = "setActive"
          /\ call'[c].tenant = call[c].tenant
          /\ call'[c].email = call[c].email
          /\ call'[c].next = call[c].next
          /\ call'[c].alone = call[c].alone
      BY <3>1, GoToFacts
    <3>3. TypeOK'
      BY <1>11, <2>1, <3>2 DEF FindAccount, TypeOK, CallsInOrder
    <3>4. CallsInOrder'
      BY <1>11, <2>1, <3>2 DEF FindAccount, TypeOK, CallsInOrder
    <3>5. LoneCalls'
      BY <1>11, <2>1, <3>2 DEF FindAccount, TypeOK, CallsInOrder, LoneCalls
    <3>6. PasswordsIssued' /\ RetryIsSafe'
      BY <1>11, <2>1, <3>2
      DEF FindAccount, TypeOK, CallsInOrder, LoneCalls, PasswordsIssued,
          RetryIsSafe
    <3>7. UNCHANGED stores
      BY <1>11, <2>1 DEF FindAccount
    <3> QED  BY <3>3, <3>4, <3>5, <3>6, <3>7, StoresUnchanged
  <2>2. CASE ~HasAccount(call[c].tenant)
    <3>1. GoTo(c, "notFound")
      BY <1>11, <2>2 DEF FindAccount
    <3>2. /\ call' \in [Calls -> CallState]
          /\ \A d \in Calls \ {c} : call'[d] = call[d]
          /\ call'[c].pc = "notFound"
          /\ call'[c].tenant = call[c].tenant
          /\ call'[c].email = call[c].email
          /\ call'[c].next = call[c].next
          /\ call'[c].alone = call[c].alone
      BY <3>1, GoToFacts
    <3>3. TypeOK'
      BY <1>11, <2>2, <3>2 DEF FindAccount, TypeOK, CallsInOrder
    <3>4. CallsInOrder'
      BY <1>11, <2>2, <3>2 DEF FindAccount, TypeOK, CallsInOrder
    <3>5. LoneCalls'
      BY <1>11, <2>2, <3>2 DEF FindAccount, TypeOK, CallsInOrder, LoneCalls
    <3>6. PasswordsIssued' /\ RetryIsSafe'
      BY <1>11, <2>2, <3>2
      DEF FindAccount, TypeOK, CallsInOrder, LoneCalls, PasswordsIssued,
          RetryIsSafe
    <3>7. UNCHANGED stores
      BY <1>11, <2>2 DEF FindAccount
    <3> QED  BY <3>3, <3>4, <3>5, <3>6, <3>7, StoresUnchanged
  <2> QED  BY <1>11, <2>1, <2>2 DEF FindAccount
<1>12. ASSUME NEW c \in Calls, SetAccountActive(c)
      PROVE  IInv'
  <2>1. GoTo(c, "ok")
    BY <1>12 DEF SetAccountActive
  <2>2. /\ call' \in [Calls -> CallState]
        /\ \A d \in Calls \ {c} : call'[d] = call[d]
        /\ call'[c].pc = "ok"
        /\ call'[c].tenant = call[c].tenant
        /\ call'[c].email = call[c].email
        /\ call'[c].next = call[c].next
        /\ call'[c].alone = call[c].alone
    BY <2>1, GoToFacts
  <2> DEFINE t == call[c].tenant
             new == [account[t] EXCEPT !.active = call[c].flag]
  <2>3. t \in Tenants /\ account[t] \in Account /\ call[c].flag \in BOOLEAN
    BY <1>12 DEF SetAccountActive, TypeOK, CallsInOrder, CallState
  <2>4. new \in Account
    BY <2>3
  <2>5. account' = [account EXCEPT ![t] = new]
    BY <1>12 DEF SetAccountActive
  <2>6. TypeOK'
    <3>1. account' \in [Tenants -> Account \cup {NoAccount}]
      <4> HIDE DEF t, new
      <4> QED  BY <2>4, <2>5 DEF TypeOK
    <3>2. /\ created' \in SUBSET Tenants
          /\ applied' \in [Tenants -> SUBSET (1..Migrations)]
          /\ profile' \in [Tenants -> {"none", "seeded", "edited"}]
      BY <1>12 DEF SetAccountActive, TypeOK
    <3> QED  BY <2>2, <3>1, <3>2 DEF TypeOK
  <2>7. CallsInOrder'
    <3>1. \A u \in Tenants : HasAccount(u) => HasAccount(u)'
      <4> HIDE DEF t, new
      <4> QED  BY <2>4, <2>5 DEF TypeOK
    <3> QED  BY <1>12, <2>2, <3>1 DEF SetAccountActive, TypeOK, CallsInOrder
  <2>8. LoneCalls'
    BY <1>12, <2>2 DEF SetAccountActive, TypeOK, CallsInOrder, LoneCalls
  <2>9. PasswordsIssued' /\ RetryIsSafe'
    BY <1>12, <2>2
    DEF SetAccountActive, TypeOK, CallsInOrder, LoneCalls, PasswordsIssued,
        RetryIsSafe
  <2>10. AccountImpliesReady' /\ AppliedInOrder' /\ LoginsAreUnique'
    BY <1>12
    DEF SetAccountActive, TypeOK, CallsInOrder, AccountImpliesReady,
        AppliedInOrder, LoginsAreUnique
  <2> QED  BY <2>6, <2>7, <2>8, <2>9, <2>10
<1>13. ASSUME NEW c \in Calls, Crash(c)
      PROVE  IInv'
  <2>1. GoTo(c, "crashed")
    BY <1>13 DEF Crash
  <2>2. /\ call' \in [Calls -> CallState]
        /\ \A d \in Calls \ {c} : call'[d] = call[d]
        /\ call'[c].pc = "crashed"
        /\ call'[c].tenant = call[c].tenant
        /\ call'[c].email = call[c].email
        /\ call'[c].next = call[c].next
        /\ call'[c].alone = call[c].alone
    BY <2>1, GoToFacts
  <2>3. TypeOK'
    BY <1>13, <2>2 DEF Crash, TypeOK, CallsInOrder
  <2>4. CallsInOrder'
    BY <1>13, <2>2 DEF Crash, TypeOK, CallsInOrder
  <2>5. LoneCalls'
    BY <1>13, <2>2 DEF Crash, TypeOK, CallsInOrder, LoneCalls
  <2>6. PasswordsIssued' /\ RetryIsSafe'
    BY <1>13, <2>2
    DEF Crash, TypeOK, CallsInOrder, LoneCalls, PasswordsIssued, RetryIsSafe
  <2>7. UNCHANGED stores
    BY <1>13 DEF Crash
  <2> QED  BY <2>3, <2>4, <2>5, <2>6, <2>7, StoresUnchanged
<1>14. ASSUME NEW t \in Tenants, ChangeMyPassword(t)
       PROVE  IInv'
  <2>1. PasswordChanged(t) /\ UNCHANGED <<created, applied, profile, call>>
    BY <1>14, ChangeFacts DEF ChangeMyPassword
  <2>2. \A u \in Tenants : HasAccount(u)' = HasAccount(u)
    BY <2>1 DEF PasswordChanged
  <2>3. TypeOK' /\ CallsInOrder' /\ LoneCalls'
    BY <2>1, <2>2
    DEF PasswordChanged, TypeOK, CallsInOrder, LoneCalls
  <2>4. PasswordsIssued'
    BY <2>1, <2>2 DEF PasswordChanged, PasswordsIssued
  <2>5. AccountImpliesReady' /\ AppliedInOrder' /\ RetryIsSafe'
    BY <2>1, <2>2 DEF AccountImpliesReady, AppliedInOrder, RetryIsSafe, Ready
  <2>6. LoginsAreUnique'
    BY <2>1, <2>2 DEF PasswordChanged, LoginsAreUnique
  <2> QED  BY <2>3, <2>4, <2>5, <2>6
<1>15. CASE UNCHANGED vars
  BY <1>15
  DEF vars, TypeOK, CallsInOrder, LoneCalls, PasswordsIssued,
      AccountImpliesReady, AppliedInOrder, RetryIsSafe, LoginsAreUnique
<1> QED
  BY <1>1, <1>2, <1>3, <1>4, <1>5, <1>6, <1>7, <1>8, <1>9, <1>10, <1>11, <1>12, <1>13, <1>14, <1>15
  DEF Next, Receive, Step


-----------------------------------------------------------------------------
\* Whatever calls overlap, race or stop half way, the invariant holds.
THEOREM SpecIInv == Spec => []IInv
BY InitIInv, NextIInv, PTL DEF Spec

\* Accounts, databases, histories and calls have their types.
THEOREM TypeCorrect == Spec => []TypeOK
BY SpecIInv, PTL DEF IInv

\* An account is only ever in front of a created, fully migrated database with
\* its profile, for any number of calls and migrations (provision).
THEOREM AccountsAreReady == Spec => []AccountImpliesReady
BY SpecIInv, PTL DEF IInv

\* No migration is applied before the ones listed above it, for any number of
\* interleaved loops (runTenantMigrations).
THEOREM MigrationsInOrder == Spec => []AppliedInOrder
BY SpecIInv, PTL DEF IInv

\* A call that overlaps no other for its tenant never meets a half-applied
\* migration, wherever its predecessors stopped (provision's retry comment).
THEOREM RetriesAreSafe == Spec => []RetryIsSafe
BY SpecIInv, PTL DEF IInv

\* No two tenants ever log in with one address.
THEOREM LoginsUnique == Spec => []LoginsAreUnique
BY SpecIInv, PTL DEF IInv

\* No provisioning call undoes a tenant's edit of its profile.
THEOREM EditsKept == Spec => ProfileEditsKept
<1> DEFINE Kept == \A t \in Tenants : profile[t] = "edited" => profile'[t] = "edited"
<1>1. IInv /\ [Next]_vars => [Kept]_vars
  <2> SUFFICES ASSUME IInv, Next PROVE Kept
    OBVIOUS
  <2>1. ASSUME NEW c \in Calls, SeedProfile(c)
        PROVE  Kept
    BY <2>1 DEF SeedProfile, IInv, TypeOK
  <2>2. ASSUME NEW t \in Tenants, EditProfile(t)
        PROVE  Kept
    BY <2>2 DEF EditProfile, IInv, TypeOK
  <2>3. CASE UNCHANGED profile
    BY <2>3
  <2> QED
    BY <2>1, <2>2, <2>3
    DEF Next, Receive, Step, stores, ReceiveProvision, ReceiveSetActive,
        FindExisting, ResetCredentials, CreateTenantDatabase, SeekMigration,
        ApplyMigration, CreateAccount, FindAccount, SetAccountActive, Crash,
        ChangeMyPassword
<1> QED
  BY <1>1, SpecIInv, PTL DEF Spec, ProfileEditsKept

-----------------------------------------------------------------------------
complete == {t \in Tenants : Ready(t)}

\* The step of the directory that each step of the handlers is, if it is one.
LEMMA StepRefines == IInv /\ [Next]_vars => [Directory!Next]_Directory!vars
<1> SUFFICES ASSUME IInv, [Next]_vars
             PROVE  [Directory!Next]_Directory!vars
  OBVIOUS
<1> USE ProvisioningAssumption DEF IInv, At, GoTo, HasAccount, stores
<1>1. ASSUME NEW c \in Calls, CreateAccount(c)
      PROVE  [Directory!Next]_Directory!vars
  <2> PICK t \in Tenants, e \in Emails : t = call[c].tenant /\ e = call[c].email
    BY <1>1 DEF CreateAccount, CallsInOrder, InOrder
  <2>1. CASE CreateAccepted(t, e)
    <3>1. Ready(t) /\ complete' = complete
      BY <1>1 DEF CreateAccount, CallsInOrder, InOrder, Ready, complete
    <3>2. Directory!Fresh(c)
      BY <1>1 DEF CreateAccount, PasswordsIssued, Directory!Fresh
    <3>3. Directory!Open(t, e, c)
      BY <1>1, <2>1, <3>1, <3>2
      DEF CreateAccount, CreateAccepted, EmailFree, complete,
          Directory!Open, Directory!Free
    <3> QED  BY <3>3 DEF Directory!Next
  <2>2. CASE ~CreateAccepted(t, e)
    BY <1>1, <2>2 DEF CreateAccount, Directory!vars, Ready
  <2> QED  BY <2>1, <2>2
<1>2. ASSUME NEW c \in Calls, ResetCredentials(c)
      PROVE  [Directory!Next]_Directory!vars
  <2> PICK t \in Tenants, e \in Emails : t = call[c].tenant /\ e = call[c].email
    BY <1>2 DEF ResetCredentials, CallsInOrder, InOrder
  <2>1. CASE EmailFree(t, e)
    <3>1. HasAccount(t) /\ complete' = complete
      BY <1>2 DEF ResetCredentials, CallsInOrder, InOrder, Ready, complete
    <3>2. Directory!Fresh(c)
      BY <1>2 DEF ResetCredentials, PasswordsIssued, Directory!Fresh
    <3>3. Directory!Reset(t, e, c)
      BY <1>2, <2>1, <3>1, <3>2
      DEF ResetCredentials, EmailFree, complete,
          Directory!Reset, Directory!Free
    <3> QED  BY <3>3 DEF Directory!Next
  <2>2. CASE ~EmailFree(t, e)
    BY <1>2, <2>2 DEF ResetCredentials, Directory!vars, Ready
  <2> QED  BY <2>1, <2>2
<1>3. ASSUME NEW c \in Calls, SetAccountActive(c)
      PROVE  Directory!Next
  <2> PICK t \in Tenants, b \in BOOLEAN : t = call[c].tenant /\ b = call[c].flag
    BY <1>3 DEF SetAccountActive, CallsInOrder, InOrder, TypeOK, CallState
  <2>1. HasAccount(t) /\ complete' = complete
    BY <1>3 DEF SetAccountActive, CallsInOrder, InOrder, Ready, complete
  <2>2. Directory!SetActive(t, b)
    BY <1>3, <2>1 DEF SetAccountActive, complete, Directory!SetActive
  <2> QED  BY <2>2 DEF Directory!Next
<1>4. ASSUME NEW c \in Calls,
             CreateTenantDatabase(c) \/ ApplyMigration(c) \/ SeedProfile(c)
      PROVE  [Directory!Next]_Directory!vars
  <2> PICK t \in Tenants : t = call[c].tenant
    BY <1>4 DEF CreateTenantDatabase, ApplyMigration, SeedProfile, CallsInOrder,
        InOrder
  <2>1. /\ account' = account
        /\ \A u \in Tenants \ {t} : Ready(u)' <=> Ready(u)
        /\ Ready(t) => Ready(t)'
    <3>1. CASE CreateTenantDatabase(c)
      BY <3>1 DEF CreateTenantDatabase, Ready, TypeOK
    <3>2. CASE ApplyMigration(c)
      <4>1. call[c].next \in 1..Migrations
        BY <3>2 DEF ApplyMigration, CallsInOrder, InOrder
      <4>2. CASE applied' = [applied EXCEPT ![t] = @ \cup {call[c].next}]
        <5>1. applied'[t] = applied[t] \cup {call[c].next}
          BY <4>2 DEF TypeOK
        <5>2. \A u \in Tenants \ {t} : applied'[u] = applied[u]
          BY <4>2 DEF TypeOK
        <5>3. UNCHANGED <<account, created, profile>>
          BY <3>2 DEF ApplyMigration
        <5> QED  BY <4>1, <5>1, <5>2, <5>3 DEF Ready
      <4>3. CASE UNCHANGED applied
        BY <3>2, <4>3 DEF ApplyMigration, Ready
      <4> QED  BY <3>2, <4>2, <4>3 DEF ApplyMigration
    <3>3. CASE SeedProfile(c)
      BY <3>3 DEF SeedProfile, Ready, TypeOK
    <3> QED  BY <1>4, <3>1, <3>2, <3>3
  <2>2. CASE Ready(t)' /\ ~Ready(t)
    <3>1. account[t] = NoAccount
      BY <2>2 DEF AccountImpliesReady
    <3>2. complete' = complete \cup {t}
      BY <2>1, <2>2 DEF complete
    <3>3. Directory!Complete(t)
      BY <2>1, <3>1, <3>2 DEF Directory!Complete, complete
    <3> QED  BY <3>3 DEF Directory!Next
  <2>3. CASE ~(Ready(t)' /\ ~Ready(t))
    <3>1. complete' = complete
      BY <2>1, <2>3 DEF complete
    <3> QED  BY <2>1, <3>1 DEF Directory!vars, complete
  <2> QED  BY <2>2, <2>3
<1>5. ASSUME NEW t \in Tenants, EditProfile(t)
      PROVE  UNCHANGED Directory!vars
  <2>1. complete' = complete
    BY <1>5 DEF EditProfile, TypeOK, Ready, complete
  <2> QED  BY <1>5, <2>1 DEF EditProfile, Directory!vars, complete
<1>6. CASE UNCHANGED stores
  <2>1. complete' = complete
    BY <1>6 DEF Ready, complete
  <2> QED  BY <1>6, <2>1 DEF Directory!vars, complete
<1>7. ASSUME NEW t \in Tenants, ChangeMyPassword(t)
      PROVE  Directory!Next
  <2>1. complete' = complete
    BY <1>7 DEF ChangeMyPassword, Ready, complete
  <2>2. Directory!ChangePassword(t)
    BY <1>7, <2>1 DEF ChangeMyPassword, complete, Directory!ChangePassword
  <2> QED  BY <2>2 DEF Directory!Next
<1> QED
  BY <1>1, <1>2, <1>3, <1>4, <1>5, <1>6, <1>7
  DEF Next, Receive, Step, vars, ReceiveProvision, ReceiveSetActive,
      FindExisting, SeekMigration, FindAccount, Crash

\* To a login, provisioning is atomic: the handlers implement the directory for
\* any tenants, calls and migrations (provision, setAccountActive).
THEOREM ProvisioningImplementsDirectory == Spec => ImplementsDirectory
<1>1. Init => Directory!Init
  BY ProvisioningAssumption DEF Init, Directory!Init, Ready
<1> QED
  BY <1>1, SpecIInv, StepRefines, PTL DEF Spec, ImplementsDirectory, Directory!Spec

-----------------------------------------------------------------------------
(* Liveness.                                                               *)

\* The most database operations a call has left, as it stands.
Left(c) ==
    LET m == call[c].next IN
    CASE At(c, "find") -> 2 * Migrations + 4
      [] At(c, "createDatabase") -> 2 * Migrations + 3
      [] At(c, "seek") -> 2 * (Migrations - m) + 4
      [] At(c, "apply") -> 2 * (Migrations - m) + 3
      [] call[c].pc \in {"profile", "findAccount"} -> 2
      [] call[c].pc \in {"account", "reset", "setActive"} -> 1
      [] OTHER -> 0

\* A call that is under way has operations left, and a bounded number of them.
LEMMA LeftBounds ==
    ASSUME IInv, NEW c \in Calls
    PROVE  /\ Left(c) \in Nat
           /\ Left(c) <= 2 * Migrations + 4
           /\ InFlight(c) <=> Left(c) # 0
<1>1. CASE call[c].pc \in {"seek", "apply"}
  <2>1. call[c].next \in 1..Migrations /\ Migrations \in Nat
    BY <1>1, ProvisioningAssumption DEF IInv, CallsInOrder, InOrder
  <2> QED  BY <1>1, <2>1 DEF Left, At, InFlight, Final
<1>2. CASE call[c].pc \notin {"seek", "apply"}
  BY <1>2, ProvisioningAssumption
  DEF Left, At, InFlight, Final, IInv, TypeOK, CallState
<1> QED  BY <1>1, <1>2

\* Each database operation of a call leaves it fewer, whatever the operation
\* finds; the migration loop is bounded by the list it walks.
LEMMA StepLowers ==
    ASSUME IInv, NEW c \in Calls, Step(c)
    PROVE  Left(c)' < Left(c)
<1> USE ProvisioningAssumption DEF IInv, PCs, Final
<1>0. TypeOK /\ InOrder(c) /\ Migrations \in Nat
  BY DEF CallsInOrder
<1>1. CASE FindExisting(c)
  <2>1. At(c, "find") /\ call'[c].pc \in {"reset", "createDatabase"}
    BY <1>0, <1>1, GoToFacts DEF FindExisting
  <2> QED  BY <1>0, <2>1 DEF Left, At
<1>2. CASE ResetCredentials(c)
  <2>1. At(c, "reset") /\ call'[c].pc \in {"ok", "conflict"}
    BY <1>0, <1>2, GoToFacts DEF ResetCredentials
  <2> QED  BY <1>0, <2>1 DEF Left, At
<1>3. CASE CreateTenantDatabase(c)
  <2>1. At(c, "createDatabase") /\ call[c].next = 1
    BY <1>0, <1>3 DEF CreateTenantDatabase, InOrder, At
  <2>2. call'[c].pc = "seek" /\ call'[c].next = call[c].next
    BY <1>0, <1>3, GoToFacts DEF CreateTenantDatabase
  <2> QED  BY <1>0, <2>1, <2>2 DEF Left, At
<1>4. CASE SeekMigration(c)
  <2> DEFINE m == call[c].next
  <2>1. At(c, "seek") /\ m \in 1..Migrations
    BY <1>0, <1>4 DEF SeekMigration, InOrder, At
  <2>2. CASE Advance(c, m)
    <3>1. /\ call'[c].pc = IF m < Migrations THEN "seek" ELSE "profile"
          /\ call'[c].next = m + 1
      BY <1>0, <2>1, <2>2, AdvanceFacts
    <3> QED  BY <1>0, <2>1, <3>1 DEF Left, At
  <2>3. CASE GoTo(c, "apply")
    <3>1. call'[c].pc = "apply" /\ call'[c].next = m
      BY <1>0, <2>3, GoToFacts
    <3> QED  BY <1>0, <2>1, <3>1 DEF Left, At
  <2> QED  BY <1>4, <2>2, <2>3 DEF SeekMigration
<1>5. CASE ApplyMigration(c)
  <2> DEFINE m == call[c].next
  <2>1. At(c, "apply") /\ m \in 1..Migrations
    BY <1>0, <1>5 DEF ApplyMigration, InOrder, At
  <2>2. CASE Advance(c, m)
    <3>1. /\ call'[c].pc = IF m < Migrations THEN "seek" ELSE "profile"
          /\ call'[c].next = m + 1
      BY <1>0, <2>1, <2>2, AdvanceFacts
    <3> QED  BY <1>0, <2>1, <3>1 DEF Left, At
  <2>3. CASE GoTo(c, "sqlError")
    <3>1. call'[c].pc = "sqlError"
      BY <1>0, <2>3, GoToFacts
    <3> QED  BY <1>0, <2>1, <3>1 DEF Left, At
  <2> QED  BY <1>5, <2>2, <2>3 DEF ApplyMigration
<1>6. CASE SeedProfile(c)
  <2>1. At(c, "profile") /\ call'[c].pc = "account"
    BY <1>0, <1>6, GoToFacts DEF SeedProfile
  <2> QED  BY <1>0, <2>1 DEF Left, At
<1>7. CASE CreateAccount(c)
  <2>1. At(c, "account") /\ call'[c].pc \in {"ok", "conflict"}
    BY <1>0, <1>7, GoToFacts DEF CreateAccount
  <2> QED  BY <1>0, <2>1 DEF Left, At
<1>8. CASE FindAccount(c)
  <2>1. At(c, "findAccount") /\ call'[c].pc \in {"setActive", "notFound"}
    BY <1>0, <1>8, GoToFacts DEF FindAccount
  <2> QED  BY <1>0, <2>1 DEF Left, At
<1>9. CASE SetAccountActive(c)
  <2>1. At(c, "setActive") /\ call'[c].pc = "ok"
    BY <1>0, <1>9, GoToFacts DEF SetAccountActive
  <2> QED  BY <1>0, <2>1 DEF Left, At
<1> QED
  BY <1>1, <1>2, <1>3, <1>4, <1>5, <1>6, <1>7, <1>8, <1>9 DEF Step

\* A call that is under way changes its operation only by performing it, or by
\* stopping for good.
LEMMA OthersLeaveCall ==
    ASSUME IInv, [Next]_vars, NEW c \in Calls, InFlight(c), ~Step(c), ~Crash(c)
    PROVE  /\ call'[c].pc = call[c].pc
           /\ call'[c].next = call[c].next
           /\ call'[c].tenant = call[c].tenant
<1> USE DEF IInv, PCs, Final
<1>1. ASSUME NEW d \in Calls, Receive(d)
      PROVE  /\ d # c
             /\ call'[c].pc = call[c].pc
             /\ call'[c].next = call[c].next
             /\ call'[c].tenant = call[c].tenant
  <2>1. d # c
    BY <1>1
    DEF Receive, ReceiveProvision, ReceiveSetActive, At, InFlight
  <2>2. PICK new \in CallState : Begin(d, new)
    <3>1. ASSUME NEW t \in Tenants, NEW e \in Emails
          PROVE  [NotMade EXCEPT !.pc = "find", !.tenant = t, !.email = e] \in CallState
      BY DEF NotMade, CallState
    <3>2. ASSUME NEW t \in Tenants, NEW b \in BOOLEAN
          PROVE  [NotMade EXCEPT !.pc = "findAccount", !.tenant = t, !.flag = b] \in CallState
      BY DEF NotMade, CallState
    <3> QED  BY <1>1, <3>1, <3>2 DEF Receive, ReceiveProvision, ReceiveSetActive
  <2> QED  BY <2>1, <2>2, BeginFacts
<1>2. ASSUME NEW d \in Calls \ {c}, Step(d)
      PROVE  call'[c] = call[c]
  <2>1. (\E p \in PCs : GoTo(d, p)) \/ (\E m \in Nat : Advance(d, m))
    <3>1. call[d].next \in Nat
      BY DEF TypeOK, CallState
    <3> QED
      BY <1>2, <3>1
      DEF Step, FindExisting, ResetCredentials, CreateTenantDatabase,
          SeekMigration, ApplyMigration, SeedProfile, CreateAccount, FindAccount,
          SetAccountActive
  <2> QED  BY <2>1, GoToFacts, AdvanceFacts
<1>3. ASSUME NEW d \in Calls \ {c}, Crash(d)
      PROVE  call'[c] = call[c]
  BY <1>3, GoToFacts DEF Crash
<1>4. ASSUME NEW t \in Tenants, EditProfile(t) \/ ChangeMyPassword(t)
      PROVE  call' = call
  BY <1>4 DEF EditProfile, ChangeMyPassword
<1> QED
  BY <1>1, <1>2, <1>3, <1>4 DEF Next, vars

\* A call that moves has fewer operations left than before, whatever other calls
\* do to the stores in between: no answer of the database sends it back.
CallsRunOut ==
    [][\A c \in Calls :
         InFlight(c) =>
           \/ call'[c].pc = call[c].pc /\ call'[c].next = call[c].next
           \/ Left(c)' < Left(c)]_vars

\* A handler makes at most 2 * Migrations + 4 database operations, however many
\* calls overlap (provision, runTenantMigrations, setAccountActive).
THEOREM HandlersRunOut ==
    Spec => CallsRunOut /\ [](\A c \in Calls : Left(c) <= 2 * Migrations + 4)
<1>1. ASSUME IInv, [Next]_vars, NEW c \in Calls, InFlight(c)
      PROVE  \/ call'[c].pc = call[c].pc /\ call'[c].next = call[c].next
             \/ Left(c)' < Left(c)
  <2>1. CASE Step(c)
    BY <1>1, <2>1, StepLowers
  <2>2. CASE Crash(c)
    <3>1. call'[c].pc = "crashed"
      BY <1>1, <2>2, GoToFacts DEF Crash, PCs, Final, IInv
    <3>2. Left(c)' = 0
      BY <3>1 DEF Left, At
    <3> QED  BY <1>1, <3>2, LeftBounds
  <2> QED  BY <1>1, <2>1, <2>2, OthersLeaveCall
<1>2. IInv /\ [Next]_vars =>
        [\A c \in Calls :
           InFlight(c) =>
             \/ call'[c].pc = call[c].pc /\ call'[c].next = call[c].next
             \/ Left(c)' < Left(c)]_vars
  BY <1>1
<1>3. IInv => \A c \in Calls : Left(c) <= 2 * Migrations + 4
  BY LeftBounds
<1> QED
  BY <1>2, <1>3, SpecIInv, PTL DEF Spec, CallsRunOut

\* The database operation that a handler awaits can always happen: what the
\* fairness of FairSpec needs of a state.
HandlersCanGoOn ==
    \A c \in Calls : InFlight(c) => ENABLED <<Step(c)>>_vars

\* How a call for provision ends, for CallEndsProvisioned.
Ended(c) ==
    \/ At(c, "ok") /\ HasAccount(call[c].tenant)
    \/ At(c, "conflict") \/ At(c, "crashed")
    \/ ~call[c].alone

\* A call for provision is under way, with at most k operations left.
OnWay(c, k) ==
    /\ call[c].pc \in {"find", "createDatabase", "seek", "apply", "profile",
                       "account", "reset"}
    /\ Left(c) <= k

GetsOn(c, k, j) == OnWay(c, k) ~> (Ended(c) \/ OnWay(c, j))

\* Only a call that overlapped another fails on its SQL; all others go on to
\* their account or to a conflict.
LEMMA StepGetsOn ==
    ASSUME IInv, IInv', NEW c \in Calls, NEW k \in Nat, OnWay(c, k), Step(c)
    PROVE  Ended(c)' \/ OnWay(c, k - 1)'
<1> USE DEF IInv, PCs, Final
<1>1. /\ call[c].pc \in {"find", "createDatabase", "seek", "apply", "profile",
                         "account", "reset"}
      /\ Left(c) <= k
      /\ TypeOK /\ call[c].next \in Nat
      /\ call[c] \in CallState
  BY DEF OnWay, TypeOK, CallState
<1>2. Left(c)' <= k - 1
  <2>1. Left(c) \in Nat /\ Left(c)' < Left(c)
    BY StepLowers, LeftBounds
  <2>2. Left(c)' \in Int
    BY ProvisioningAssumption DEF TypeOK, CallState, Left, At
  <2> QED  BY <1>1, <2>1, <2>2
<1>3. At(c, "sqlError")' => ~call'[c].alone
  BY DEF RetryIsSafe, At
<1>4. NoAccount \notin Account
  BY ProvisioningAssumption DEF Account
<1>5. CASE ResetCredentials(c)
  <2> DEFINE t == call[c].tenant
  <2>1. /\ call'[c].pc \in {"ok", "conflict"} /\ call'[c].tenant = t
        /\ At(c, "reset")
    BY <1>1, <1>5, GoToFacts DEF ResetCredentials
  <2>2. t \in Tenants /\ account[t] \in Account /\ call[c].email \in Emails
    BY <1>1, <2>1 DEF CallsInOrder, InOrder, At, HasAccount, TypeOK
  <2>3. ASSUME call'[c].pc = "ok" PROVE account'[t] # NoAccount
    <3>1. account' = [account EXCEPT ![t].email = call[c].email, ![t].password = c]
      BY <1>1, <1>5, <2>3, GoToFacts DEF ResetCredentials
    <3>2. [account[t] EXCEPT !.email = call[c].email, !.password = c] \in Account
      BY <2>2 DEF Account
    <3>3. account'[t] = [account[t] EXCEPT !.email = call[c].email, !.password = c]
      BY <1>1, <2>2, <3>1 DEF TypeOK
    <3> QED  BY <1>4, <3>2, <3>3
  <2> QED  BY <2>1, <2>3 DEF Ended, At, HasAccount
<1>6. CASE CreateAccount(c)
  <2> DEFINE t == call[c].tenant
  <2>1. /\ call'[c].pc \in {"ok", "conflict"} /\ call'[c].tenant = t
        /\ At(c, "account")
    BY <1>1, <1>6, GoToFacts DEF CreateAccount
  <2>2. t \in Tenants /\ call[c].email \in Emails
    BY <1>1, <2>1 DEF CallsInOrder, InOrder, At
  <2>3. ASSUME call'[c].pc = "ok" PROVE account'[t] # NoAccount
    <3>1. account' = [account EXCEPT ![t] = [email |-> call[c].email,
                                             password |-> c, active |-> TRUE]]
      BY <1>1, <1>6, <2>3, GoToFacts DEF CreateAccount
    <3>2. account'[t] \in Account
      BY <1>1, <2>2, <3>1 DEF TypeOK, Account
    <3> QED  BY <1>4, <3>2
  <2> QED  BY <2>1, <2>3 DEF Ended, At, HasAccount
<1>7. CASE ApplyMigration(c)
  <2>1. call'[c].pc \in {"seek", "profile", "sqlError"}
    BY <1>1, <1>7, GoToFacts, AdvanceFacts DEF ApplyMigration
  <2> QED  BY <1>2, <1>3, <2>1 DEF Ended, OnWay, At
<1>8. CASE FindExisting(c) \/ CreateTenantDatabase(c) \/ SeekMigration(c) \/ SeedProfile(c)
  <2>1. call'[c].pc \in {"reset", "createDatabase", "seek", "apply", "profile", "account"}
    BY <1>1, <1>8, GoToFacts, AdvanceFacts
    DEF FindExisting, CreateTenantDatabase, SeekMigration, SeedProfile
  <2> QED  BY <1>2, <2>1 DEF OnWay
<1>9. CASE FindAccount(c) \/ SetAccountActive(c)
  BY <1>1, <1>9 DEF FindAccount, SetAccountActive, At
<1> QED
  BY <1>5, <1>6, <1>7, <1>8, <1>9 DEF Step

\* While it awaits its database a call stays where it is, or another one for its
\* tenant begins, or it stops.
LEMMA WaitKeepsOn ==
    ASSUME IInv, [Next]_vars, NEW c \in Calls, NEW k \in Nat, OnWay(c, k)
    PROVE  Ended(c)' \/ OnWay(c, k)' \/ OnWay(c, k - 1)'
<1>1. InFlight(c)
  BY DEF OnWay, InFlight, Final
<1>2. CASE Step(c)
  BY <1>2, NextIInv, StepGetsOn
<1>3. CASE Crash(c)
  BY <1>3, GoToFacts DEF Crash, Ended, At, PCs, Final, IInv
<1>4. CASE ~Step(c) /\ ~Crash(c)
  <2>1. call'[c].pc = call[c].pc /\ call'[c].next = call[c].next
    BY <1>1, <1>4, OthersLeaveCall
  <2>2. Left(c)' = Left(c)
    BY <2>1 DEF Left, At
  <2> QED  BY <2>1, <2>2 DEF OnWay
<1> QED  BY <1>2, <1>3, <1>4

\* A call with at most k operations left ends, or gets to at most k - 1.
LEMMA CallGetsOn ==
    ASSUME NEW c \in Calls, NEW k \in Nat, NEW j, j = k - 1
    PROVE  FairSpec /\ []HandlersCanGoOn => GetsOn(c, k, j)
<1>1. IInv /\ [Next]_vars /\ OnWay(c, k) =>
        OnWay(c, k)' \/ (Ended(c) \/ OnWay(c, j))'
  BY WaitKeepsOn
<1>2. IInv /\ [Next]_vars /\ OnWay(c, k) /\ <<Step(c)>>_vars =>
        (Ended(c) \/ OnWay(c, j))'
  BY NextIInv, StepGetsOn
<1>3. HandlersCanGoOn /\ OnWay(c, k) => ENABLED <<Step(c)>>_vars
  BY DEF HandlersCanGoOn, OnWay, InFlight, Final
<1>4. FairSpec => Spec /\ HandlerGoesOn(c)
  BY DEF FairSpec
<1> QED
  BY <1>1, <1>2, <1>3, <1>4, SpecIInv, PTL DEF Spec, HandlerGoesOn, GetsOn

\* With the two migrations of TENANT_MIGRATIONS, or one: a provision call that
\* nothing interrupts or overlaps ends with an account for its tenant, unless its
\* email is another tenant's login, for any tenants, emails and calls.
THEOREM LoneCallEndsProvisioned ==
    ASSUME Migrations <= 2
    PROVE  FairSpec /\ []HandlersCanGoOn => CallEndsProvisioned
<1>1. ASSUME NEW c \in Calls
      PROVE  FairSpec /\ []HandlersCanGoOn =>
               (At(c, "find") ~>
                  \/ At(c, "ok") /\ HasAccount(call[c].tenant)
                  \/ At(c, "conflict") \/ At(c, "crashed")
                  \/ ~call[c].alone)
  <2>1. FairSpec /\ []HandlersCanGoOn =>
          /\ GetsOn(c, 8, 7) /\ GetsOn(c, 7, 6) /\ GetsOn(c, 6, 5)
          /\ GetsOn(c, 5, 4) /\ GetsOn(c, 4, 3) /\ GetsOn(c, 3, 2)
          /\ GetsOn(c, 2, 1) /\ GetsOn(c, 1, 0)
    BY CallGetsOn
  <2>2. IInv /\ At(c, "find") => OnWay(c, 8)
    BY ProvisioningAssumption DEF At, OnWay, Left
  <2>3. IInv => ~OnWay(c, 0)
    BY LeftBounds DEF OnWay, InFlight, Final
  <2>4. Ended(c) => \/ At(c, "ok") /\ HasAccount(call[c].tenant)
                    \/ At(c, "conflict") \/ At(c, "crashed")
                    \/ ~call[c].alone
    BY DEF Ended
  <2>5. FairSpec => Spec
    BY DEF FairSpec
  <2> QED
    BY <2>1, <2>2, <2>3, <2>4, <2>5, SpecIInv, PTL DEF GetsOn
<1> QED
  BY <1>1 DEF CallEndsProvisioned
=============================================================================
