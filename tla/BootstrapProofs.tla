--------------------------- MODULE BootstrapProofs ---------------------------
(***************************************************************************)
(* Proofs about Bootstrap for any instances, promises, requests, admins    *)
(* and addresses.  That a live promise is the cached one of its instance   *)
(* (LiveIsCached) is what keeps a second bootstrap from starting.          *)
(***************************************************************************)
EXTENDS Bootstrap, TLAPS

\* A promise that is pending or up is the one its instance caches.
LiveIsCached ==
  \A b \in Boots :
    Live(b) => boot[b].host \in Instances /\ cached[boot[b].host] = b

\* Past its seed, a bootstrap that lost nothing has seen or made an admin.
SeedDone ==
  \A b \in Boots :
    boot[b].pc \in {"starting", "up"} /\ ~boot[b].seedLost => HasAdmin

IInv ==
  /\ TypeOK
  /\ LiveIsCached
  /\ SeedDone
  /\ EmailsUnique

-----------------------------------------------------------------------------
\* All that a step may do to the table of admins.
AdminChange ==
  \/ UNCHANGED admin
  \/ \E e \in Emails, p \in Passwords : ~Taken(e) /\ InsertAdmin(e, p)
  \/ ChangeEmail
  \/ ChangePassword

\* The seed and the handlers write to the table in these ways only.
LEMMA StepChangesAdmin == [Next]_vars => AdminChange
<1> SUFFICES ASSUME [Next]_vars PROVE AdminChange
  OBVIOUS
<1>1. ASSUME NEW b \in Boots, SeedAdmin(b) PROVE AdminChange
  BY <1>1, BootstrapAssumption DEF SeedAdmin, AdminChange
<1>2. ASSUME NEW r \in Requests, Serve(r) PROVE AdminChange
  BY <1>2 DEF Serve, CreateAdmin, AdminChange
<1>3. ASSUME NEW b \in Boots, Boot(b), ~SeedAdmin(b) PROVE AdminChange
  BY <1>3 DEF Boot, Connect, CountAdmins, SeedFails, ComeUp, BootFails, AdminChange
<1> QED
  BY <1>1, <1>2, <1>3 DEF Next, Resume, Refuse, Arrive, Recycle, AdminChange, vars

\* Rows stay rows, none is ever removed, and no address is given out twice.
LEMMA AdminTable ==
  ASSUME TypeOK, EmailsUnique, AdminChange
  PROVE  /\ admin' \in [Admins -> Row \cup {NoAdmin}]
         /\ \A a \in Admins : admin[a] # NoAdmin => admin'[a] # NoAdmin
         /\ EmailsUnique'
<1>0. \A x \in Row : x # NoAdmin
  BY BootstrapAssumption DEF Row
<1>1. CASE UNCHANGED admin
  BY <1>1 DEF TypeOK, EmailsUnique
<1>2. ASSUME NEW e \in Emails, NEW p \in Passwords, ~Taken(e), InsertAdmin(e, p)
      PROVE  /\ admin' \in [Admins -> Row \cup {NoAdmin}]
             /\ \A a \in Admins : admin[a] # NoAdmin => admin'[a] # NoAdmin
             /\ EmailsUnique'
  <2>1. PICK a \in Admins :
          /\ admin[a] = NoAdmin
          /\ admin' = [admin EXCEPT ![a] = [email |-> e, password |-> p]]
    BY <1>2 DEF InsertAdmin
  <2>2. \A c \in Admins \ {a} : admin'[c] = admin[c]
    BY <2>1 DEF TypeOK
  <2>3. admin'[a] = [email |-> e, password |-> p] /\ admin'[a] \in Row
    BY <2>1 DEF TypeOK, Row
  <2>4. \A c \in Admins : admin[c] # NoAdmin => admin[c].email # e
    BY <1>2 DEF Taken
  <2>5. EmailsUnique'
    BY <2>2, <2>3, <2>4 DEF EmailsUnique
  <2> QED
    BY <2>1, <2>2, <2>3, <2>5, <1>0 DEF TypeOK
<1>3. CASE ChangeEmail
  <2>1. PICK a \in Admins, e \in Emails :
          /\ admin[a] # NoAdmin
          /\ ~Taken(e)
          /\ admin' = [admin EXCEPT ![a].email = e]
    BY <1>3 DEF ChangeEmail
  <2>2. \A c \in Admins \ {a} : admin'[c] = admin[c]
    BY <2>1 DEF TypeOK
  <2>3. admin'[a] = [admin[a] EXCEPT !.email = e] /\ admin[a] \in Row
    BY <2>1 DEF TypeOK
  <2>4. admin'[a] \in Row /\ admin'[a].email = e
    BY <2>3 DEF Row
  <2>5. \A c \in Admins : admin[c] # NoAdmin => admin[c].email # e
    BY <2>1 DEF Taken
  <2>6. EmailsUnique'
    BY <2>2, <2>4, <2>5 DEF EmailsUnique
  <2> QED
    BY <2>1, <2>2, <2>4, <2>6, <1>0 DEF TypeOK
<1>4. CASE ChangePassword
  <2>1. PICK a \in Admins, p \in Passwords :
          /\ admin[a] # NoAdmin
          /\ admin' = [admin EXCEPT ![a].password = p]
    BY <1>4 DEF ChangePassword
  <2>2. \A c \in Admins \ {a} : admin'[c] = admin[c]
    BY <2>1 DEF TypeOK
  <2>3. admin'[a] = [admin[a] EXCEPT !.password = p] /\ admin[a] \in Row
    BY <2>1 DEF TypeOK
  <2>4. admin'[a] \in Row /\ admin'[a].email = admin[a].email
    BY <2>3 DEF Row
  <2>5. EmailsUnique'
    BY <2>1, <2>2, <2>4 DEF EmailsUnique
  <2> QED
    BY <2>1, <2>2, <2>4, <2>5, <1>0 DEF TypeOK
<1> QED
  BY <1>1, <1>2, <1>3, <1>4 DEF AdminChange

-----------------------------------------------------------------------------
\* The empty database and cold instances satisfy the invariant.
LEMMA InitIInv == Init => IInv
BY DEF Init, IInv, TypeOK, LiveIsCached, SeedDone, EmailsUnique, Promise, Unused,
       Live, Pending

\* What a bootstrap does to its promise, whichever call it comes back from.
LEMMA BootFacts ==
  ASSUME TypeOK, NEW b \in Boots, Boot(b)
  PROVE  /\ Pending(b)
         /\ boot' \in [Boots -> Promise]
         /\ boot'[b].host = boot[b].host
         /\ \A c \in Boots \ {b} : boot'[c] = boot[c]
         /\ awaits' = awaits
         /\ \/ Live(b)' /\ cached' = cached
            \/ ~Live(b)' /\ cached' = [cached EXCEPT ![boot[b].host] = NoBoot]
<1>0. boot[b] \in Promise
  BY DEF TypeOK
<1>1. ASSUME NEW from \in {"connecting", "counting", "seeding", "starting"},
             NEW to \in {"counting", "seeding", "starting", "up"},
             Advance(b, from, to)
      PROVE  /\ Pending(b)
             /\ boot' \in [Boots -> Promise]
             /\ boot'[b].host = boot[b].host
             /\ \A c \in Boots \ {b} : boot'[c] = boot[c]
             /\ awaits' = awaits
             /\ Live(b)' /\ cached' = cached
  BY <1>0, <1>1 DEF Advance, TypeOK, Promise, Pending, Live
<1>2. CASE Connect(b)
  BY <1>1, <1>2 DEF Connect
<1>3. CASE CountAdmins(b)
  BY <1>1, <1>3 DEF CountAdmins
<1>4. CASE SeedAdmin(b)
  BY <1>1, <1>4 DEF SeedAdmin
<1>5. CASE SeedFails(b)
  BY <1>0, <1>5 DEF SeedFails, TypeOK, Promise, Pending, Live
<1>6. CASE ComeUp(b)
  BY <1>1, <1>6 DEF ComeUp
<1>7. CASE BootFails(b)
  BY <1>0, <1>7 DEF BootFails, TypeOK, Promise, Pending, Live
<1> QED
  BY <1>2, <1>3, <1>4, <1>5, <1>6, <1>7 DEF Boot

\* Every step keeps the invariant.
LEMMA StepIInv == IInv /\ [Next]_vars => IInv'
<1> SUFFICES ASSUME IInv, [Next]_vars PROVE IInv'
  OBVIOUS
<1>1. /\ admin' \in [Admins -> Row \cup {NoAdmin}]
      /\ HasAdmin => HasAdmin'
      /\ EmailsUnique'
  BY StepChangesAdmin, AdminTable DEF IInv, HasAdmin
<1>2. SUFFICES TypeOK' /\ LiveIsCached' /\ SeedDone'
  BY <1>1 DEF IInv
<1>3. ASSUME NEW r \in Requests, NEW i \in Instances, Arrive(r, i)
      PROVE  TypeOK' /\ LiveIsCached' /\ SeedDone'
  <2>1. CASE StartsBoot(i)
    <3>1. PICK b \in Boots :
            /\ ~Live(b)
            /\ boot' = [boot EXCEPT ![b] =
                          [pc |-> "connecting", host |-> i, seedLost |-> FALSE]]
            /\ cached' = [cached EXCEPT ![i] = b]
            /\ awaits' = [awaits EXCEPT ![r] = b]
      BY <1>3, <2>1 DEF Arrive, Free
    <3>2. TypeOK'
      BY <3>1, <1>1 DEF IInv, TypeOK, Promise
    <3>3. boot'[b] = [pc |-> "connecting", host |-> i, seedLost |-> FALSE]
      BY <3>1 DEF IInv, TypeOK
    <3>4. \A c \in Boots \ {b} : boot'[c] = boot[c]
      BY <3>1 DEF IInv, TypeOK
    <3>5. \A c \in Boots : Live(c) => boot[c].host # i
      BY <2>1, BootstrapAssumption DEF IInv, LiveIsCached, StartsBoot
    <3>6. LiveIsCached'
      BY <3>1, <3>3, <3>4, <3>5 DEF IInv, TypeOK, LiveIsCached, Live, Pending
    <3>7. SeedDone'
      BY <3>3, <3>4, <1>1 DEF IInv, SeedDone
    <3> QED
      BY <3>2, <3>6, <3>7
  <2>2. CASE ~StartsBoot(i)
    <3>1. awaits' = [awaits EXCEPT ![r] = cached[i]] /\ UNCHANGED <<cached, boot>>
      BY <1>3, <2>2 DEF Arrive
    <3>2. TypeOK'
      BY <3>1, <1>1 DEF IInv, TypeOK
    <3>3. LiveIsCached'
      BY <3>1 DEF IInv, LiveIsCached, Live, Pending
    <3>4. SeedDone'
      BY <3>1, <1>1 DEF IInv, SeedDone
    <3> QED
      BY <3>2, <3>3, <3>4
  <2> QED
    BY <2>1, <2>2
<1>4. ASSUME NEW b \in Boots, Boot(b)
      PROVE  TypeOK' /\ LiveIsCached' /\ SeedDone'
  <2>1. /\ Pending(b)
        /\ boot' \in [Boots -> Promise]
        /\ boot'[b].host = boot[b].host
        /\ \A c \in Boots \ {b} : boot'[c] = boot[c]
        /\ awaits' = awaits
        /\ \/ Live(b)' /\ cached' = cached
           \/ ~Live(b)' /\ cached' = [cached EXCEPT ![boot[b].host] = NoBoot]
    BY <1>4, BootFacts DEF IInv
  <2>2. TypeOK'
    BY <2>1, <1>1 DEF IInv, TypeOK
  <2>3. boot[b].host \in Instances /\ cached[boot[b].host] = b
    BY <2>1 DEF IInv, LiveIsCached, Live
  <2>4. ASSUME NEW c \in Boots, Live(c)'
        PROVE  boot'[c].host \in Instances /\ cached'[boot'[c].host] = c
    <3>1. CASE c = b
      BY <3>1, <2>1, <2>3, <2>4
    <3>2. CASE c # b
      <4>1. Live(c) /\ boot'[c].host = boot[c].host
        BY <3>2, <2>1, <2>4 DEF Live, Pending
      <4>2. boot[c].host \in Instances /\ cached[boot[c].host] = c
        BY <4>1 DEF IInv, LiveIsCached
      <4>3. boot[c].host # boot[b].host
        BY <4>2, <2>3, <3>2
      <4> QED
        BY <4>1, <4>2, <4>3, <2>1 DEF IInv, TypeOK
    <3> QED
      BY <3>1, <3>2
  <2>5. LiveIsCached'
    BY <2>4 DEF LiveIsCached
  <2>6. ASSUME NEW c \in Boots, boot'[c].pc \in {"starting", "up"}, ~boot'[c].seedLost
        PROVE  HasAdmin'
    <3>1. CASE c # b
      BY <3>1, <2>1, <2>6, <1>1 DEF IInv, SeedDone
    <3>2. CASE c = b
      <4>0. boot[b] \in Promise /\ boot \in [Boots -> Promise]
        BY DEF IInv, TypeOK
      <4>1. CASE Connect(b)
        BY <4>0, <4>1, <3>2, <2>6 DEF Connect, Advance, Promise
      <4>2. CASE CountAdmins(b)
        BY <4>0, <4>2, <3>2, <2>6, <1>1 DEF CountAdmins, Advance, Promise
      <4>3. CASE SeedAdmin(b)
        <5>1. CASE Taken(SeedEmail)
          BY <5>1, <1>1 DEF Taken, HasAdmin
        <5>2. CASE ~Taken(SeedEmail)
          <6>1. PICK a \in Admins :
                  admin' = [admin EXCEPT ![a] =
                              [email |-> SeedEmail, password |-> SeedPassword]]
            BY <4>3, <5>2 DEF SeedAdmin, InsertAdmin
          <6>2. admin'[a] # NoAdmin
            BY <6>1, BootstrapAssumption DEF IInv, TypeOK
          <6> QED
            BY <6>2 DEF HasAdmin
        <5> QED
          BY <5>1, <5>2
      <4>4. CASE SeedFails(b)
        BY <4>0, <4>4, <3>2, <2>6 DEF SeedFails, Promise
      <4>5. CASE ComeUp(b)
        BY <4>0, <4>5, <3>2, <2>6, <1>1 DEF ComeUp, Advance, Promise, IInv, SeedDone
      <4>6. CASE BootFails(b)
        BY <4>0, <4>6, <3>2, <2>6 DEF BootFails, Promise
      <4> QED
        BY <1>4, <4>1, <4>2, <4>3, <4>4, <4>5, <4>6 DEF Boot
    <3> QED
      BY <3>1, <3>2
  <2> QED
    BY <2>2, <2>5, <2>6 DEF SeedDone
<1>5. ASSUME NEW r \in Requests, Resume(r)
      PROVE  TypeOK' /\ LiveIsCached' /\ SeedDone'
  <2>1. awaits' = [awaits EXCEPT ![r] = NoBoot] /\ UNCHANGED <<cached, boot>>
    BY <1>5 DEF Resume, Serve, Refuse
  <2>2. TypeOK'
    BY <2>1, <1>1 DEF IInv, TypeOK
  <2>3. LiveIsCached'
    BY <2>1 DEF IInv, LiveIsCached, Live, Pending
  <2>4. SeedDone'
    BY <2>1, <1>1 DEF IInv, SeedDone
  <2> QED
    BY <2>2, <2>3, <2>4
<1>6. ASSUME NEW i \in Instances, Recycle(i)
      PROVE  TypeOK' /\ LiveIsCached' /\ SeedDone'
  <2>1. \A b \in Boots : boot'[b] = IF boot[b].host = i THEN Unused ELSE boot[b]
    BY <1>6 DEF Recycle
  <2>2. TypeOK'
    <3>1. boot' \in [Boots -> Promise]
      BY <1>6 DEF Recycle, IInv, TypeOK, Promise, Unused
    <3>2. cached' \in [Instances -> Boots \cup {NoBoot}]
      BY <1>6 DEF Recycle, IInv, TypeOK
    <3>3. awaits' \in [Requests -> Boots \cup {NoBoot}]
      BY <1>6 DEF Recycle, IInv, TypeOK
    <3> QED
      BY <3>1, <3>2, <3>3, <1>1 DEF TypeOK
  <2>3. ASSUME NEW c \in Boots, boot'[c].pc # "none"
        PROVE  boot'[c] = boot[c] /\ boot[c].host # i
    BY <2>1, <2>3 DEF Unused
  <2>4. ASSUME NEW c \in Boots, Live(c)'
        PROVE  boot'[c].host \in Instances /\ cached'[boot'[c].host] = c
    <3>1. boot'[c].pc # "none"
      BY <2>4 DEF Live, Pending
    <3>2. Live(c) /\ boot'[c].host = boot[c].host /\ boot[c].host # i
      BY <3>1, <2>3, <2>4 DEF Live, Pending
    <3> QED
      BY <3>2, <1>6 DEF Recycle, IInv, TypeOK, LiveIsCached
  <2>5. SeedDone'
    BY <2>3, <1>1 DEF IInv, SeedDone
  <2> QED
    BY <2>2, <2>4, <2>5 DEF LiveIsCached
<1>7. CASE UNCHANGED vars
  BY <1>7 DEF vars, IInv, TypeOK, LiveIsCached, SeedDone, Live, Pending, HasAdmin
<1> QED
  BY <1>3, <1>4, <1>5, <1>6, <1>7 DEF Next

\* The invariant holds in every state.
LEMMA Invariance == Spec => []IInv
BY InitIInv, StepIInv, PTL DEF Spec

-----------------------------------------------------------------------------
\* TypeOK: the types of all variables.
THEOREM TypeCorrect == Spec => []TypeOK
BY Invariance, PTL DEF IInv

\* OneBootPerInstance: requests that overlap on a cold instance share one
\* bootstrap, for any number of requests and failures.
THEOREM SharedBootstrap == Spec => []OneBootPerInstance
<1>1. IInv => OneBootPerInstance
  BY DEF IInv, LiveIsCached, OneBootPerInstance
<1> QED
  BY <1>1, Invariance, PTL

\* ServedWithAdmin: an instance whose own seed did not fail serves only with an
\* admin in the table, for any number of racing cold starts.
THEOREM ServingHasAdmin == Spec => []ServedWithAdmin
<1>1. IInv => ServedWithAdmin
  BY DEF IInv, SeedDone, ServedWithAdmin
<1> QED
  BY <1>1, Invariance, PTL

\* EmailsUnique: no two admins have one address.
THEOREM AddressesUnique == Spec => []EmailsUnique
BY Invariance, PTL DEF IInv

\* SeedLeavesAdmins: a cold start never writes to an admin that exists.
THEOREM SeedChangesNobody == Spec => SeedLeavesAdmins
<1>1. ASSUME IInv, [Next]_vars
      PROVE  [(\E b \in Boots : Pending(b) /\ boot'[b].pc # boot[b].pc)
                => \A a \in Admins : admin[a] # NoAdmin => admin'[a] = admin[a]]_vars
  <2> SUFFICES ASSUME NEW b \in Boots, Pending(b), boot'[b].pc # boot[b].pc,
                      NEW a \in Admins, admin[a] # NoAdmin
               PROVE  admin'[a] = admin[a]
    OBVIOUS
  <2>1. ASSUME NEW c \in Boots, SeedAdmin(c) PROVE admin'[a] = admin[a]
    <3>1. CASE UNCHANGED admin
      BY <3>1
    <3>2. CASE InsertAdmin(SeedEmail, SeedPassword)
      <4>1. PICK d \in Admins :
              /\ admin[d] = NoAdmin
              /\ admin' = [admin EXCEPT ![d] =
                             [email |-> SeedEmail, password |-> SeedPassword]]
        BY <3>2 DEF InsertAdmin
      <4>2. d # a /\ admin \in [Admins -> Row \cup {NoAdmin}]
        BY <4>1, <1>1 DEF IInv, TypeOK
      <4> QED
        BY <4>1, <4>2
    <3> QED
      BY <2>1, <3>1, <3>2 DEF SeedAdmin
  <2>2. ASSUME NEW c \in Boots, Boot(c), ~SeedAdmin(c) PROVE admin'[a] = admin[a]
    BY <2>2 DEF Boot, Connect, CountAdmins, SeedFails, ComeUp, BootFails
  <2>3. ASSUME NEW r \in Requests, Resume(r) PROVE FALSE
    BY <2>3 DEF Resume, Serve, Refuse
  <2> QED
    BY <1>1, <2>1, <2>2, <2>3 DEF Next, Arrive, Recycle, vars
<1> QED
  BY <1>1, Invariance, PTL DEF Spec, SeedLeavesAdmins

-----------------------------------------------------------------------------
(* Liveness.  NobodyStuck says of every state what the fairness of FairSpec *)
(* is about: whatever is awaited can still happen.                          *)

\* A promise that an instance caches is one of its own and has not failed.
CachedIsLive ==
  \A i \in Instances :
    cached[i] # NoBoot => Live(cached[i]) /\ boot[cached[i]].host = i

\* Nobody awaits a promise that was never made.
AwaitsPromise ==
  \A r \in Requests : awaits[r] # NoBoot => boot[awaits[r]].pc # "none"

Settled(b) == boot[b].pc \in {"up", "failed"}

\* The next outcome of the call that a bootstrap awaits.
After ==
  [connecting |-> {"counting", "failed"},
   counting |-> {"seeding", "starting", "failed"},
   seeding |-> {"starting", "failed"},
   starting |-> {"up", "failed"}]

\* A bootstrap's own steps move it on (BootFacts says what else they change).
LEMMA BootMoves ==
  ASSUME TypeOK, NEW b \in Boots, Boot(b)
  PROVE  boot'[b].pc \in After[boot[b].pc]
BY DEF TypeOK, Promise, After, Pending, Boot, Connect, CountAdmins, SeedAdmin,
       SeedFails, ComeUp, BootFails, Advance

\* A promise in use stays as it is but for its own steps and the end of its
\* instance.
LEMMA OtherSteps ==
  ASSUME IInv, [Next]_vars, NEW b \in Boots, ~Free(b), ~Boot(b)
  PROVE  \/ boot'[b] = boot[b]
         \/ /\ boot[b].host \in Instances
            /\ Recycle(boot[b].host)
<1> USE DEF IInv, TypeOK
<1>1. ASSUME NEW r \in Requests, NEW i \in Instances, Arrive(r, i)
      PROVE  boot'[b] = boot[b]
  BY <1>1 DEF Arrive
<1>2. ASSUME NEW c \in Boots, Boot(c)
      PROVE  boot'[b] = boot[b]
  BY <1>2, BootFacts
<1>3. ASSUME NEW r \in Requests, Resume(r)
      PROVE  boot'[b] = boot[b]
  BY <1>3 DEF Resume, Serve, Refuse
<1>4. ASSUME NEW i \in Instances, Recycle(i)
      PROVE  boot'[b] = boot[b] \/ boot[b].host = i
  BY <1>4 DEF Recycle
<1> QED
  BY <1>1, <1>2, <1>3, <1>4 DEF Next, vars

LInv ==
  /\ IInv
  /\ CachedIsLive
  /\ AwaitsPromise

\* The cache never holds a failed promise, and a request never loses the
\* promise that it awaits, whichever instances fail or are stopped.
LEMMA StepLInv == LInv /\ [Next]_vars => LInv'
<1> SUFFICES ASSUME LInv, [Next]_vars PROVE CachedIsLive' /\ AwaitsPromise'
  BY StepIInv DEF LInv
<1> USE BootstrapAssumption DEF LInv, IInv, TypeOK, CachedIsLive, AwaitsPromise
<1>1. ASSUME NEW r \in Requests, NEW i \in Instances, Arrive(r, i)
      PROVE  CachedIsLive' /\ AwaitsPromise'
  <2>1. CASE StartsBoot(i)
    <3>1. PICK b \in Boots :
            /\ Free(b)
            /\ boot' = [boot EXCEPT ![b] =
                          [pc |-> "connecting", host |-> i, seedLost |-> FALSE]]
            /\ cached' = [cached EXCEPT ![i] = b]
            /\ awaits' = [awaits EXCEPT ![r] = b]
      BY <1>1, <2>1 DEF Arrive
    <3>2. boot'[b].pc = "connecting" /\ boot'[b].host = i
      BY <3>1
    <3>3. \A c \in Boots \ {b} : boot'[c] = boot[c]
      BY <3>1
    <3> QED  BY <3>1, <3>2, <3>3 DEF Free, Live, Pending
  <2>2. CASE ~StartsBoot(i)
    BY <1>1, <2>2 DEF Arrive, StartsBoot, Live, Pending
  <2> QED  BY <2>1, <2>2
<1>2. ASSUME NEW b \in Boots, Boot(b)
      PROVE  CachedIsLive' /\ AwaitsPromise'
  <2>1. boot'[b].pc # "none" /\ boot'[b].pc \in After[boot[b].pc]
    BY <1>2, BootFacts, BootMoves DEF After, Pending
  <2>2. AwaitsPromise'
    BY <1>2, <2>1, BootFacts
  <2>3. CachedIsLive'
    BY <1>2, BootFacts DEF Live, Pending, LiveIsCached
  <2> QED  BY <2>2, <2>3
<1>3. ASSUME NEW r \in Requests, Resume(r)
      PROVE  CachedIsLive' /\ AwaitsPromise'
  BY <1>3 DEF Resume, Serve, Refuse, Live, Pending
<1>4. ASSUME NEW i \in Instances, Recycle(i)
      PROVE  CachedIsLive' /\ AwaitsPromise'
  BY <1>4 DEF Recycle, Live, Pending
<1>5. CASE UNCHANGED vars
  BY <1>5 DEF vars, Live, Pending
<1> QED
  BY <1>1, <1>2, <1>3, <1>4, <1>5 DEF Next

LEMMA LInvariance == Spec => []LInv
<1>1. Init => LInv
  BY InitIInv DEF Init, LInv, CachedIsLive, AwaitsPromise
<1> QED
  BY <1>1, StepLInv, PTL DEF Spec

\* Every call that is awaited can come back, and every request whose promise
\* has settled can be resumed: what the fairness of FairSpec needs of a state.
NobodyStuck ==
  /\ \A b \in Boots : Pending(b) => ENABLED <<Boot(b)>>_vars
  /\ \A r \in Requests :
       awaits[r] # NoBoot /\ Settled(awaits[r]) => ENABLED <<Resume(r)>>_vars

\* A request waits for b, whose bootstrap is at one of the stages S.
WaitsAt(r, b, S) == awaits[r] = b /\ boot[b].pc \in S

\* From stages S the wait gets to stages T or ends.
WaitMovesOn(r, b, S, T) ==
  WaitsAt(r, b, S) ~> (awaits[r] = NoBoot \/ WaitsAt(r, b, T))

\* A request that waits keeps waiting for the same promise, until it is resumed
\* or its instance is stopped.
LEMMA WaitSteps ==
  ASSUME LInv, [Next]_vars, NEW r \in Requests, NEW b \in Boots, awaits[r] = b
  PROVE  \/ awaits'[r] = NoBoot
         \/ /\ awaits'[r] = b
            /\ \/ boot'[b] = boot[b] /\ ~Resume(r)
               \/ boot'[b].pc \in After[boot[b].pc] /\ Pending(b)
<1> USE BootstrapAssumption DEF LInv, IInv, TypeOK
<1>1. ASSUME NEW q \in Requests, NEW i \in Instances, Arrive(q, i)
      PROVE  awaits'[r] = b
  BY <1>1 DEF Arrive
<1>2. ASSUME NEW c \in Boots, Boot(c)
      PROVE  awaits'[r] = b
  BY <1>2, BootFacts
<1>3. ASSUME NEW q \in Requests, Resume(q)
      PROVE  awaits'[r] = IF q = r THEN NoBoot ELSE b
  BY <1>3 DEF Resume, Serve, Refuse
<1>4. ASSUME NEW i \in Instances, Recycle(i)
      PROVE  awaits'[r] = IF boot[b].host = i THEN NoBoot ELSE b
  BY <1>4 DEF Recycle
<1>5. ASSUME UNCHANGED vars
      PROVE  awaits'[r] = b
  BY <1>5 DEF vars
<1>6. \/ awaits'[r] = NoBoot
      \/ awaits'[r] = b /\ ~Resume(r)
  <2>1. Resume(r) => awaits'[r] = NoBoot
    BY <1>3
  <2>2. awaits'[r] \in {NoBoot, b}
    BY <1>1, <1>2, <1>3, <1>4, <1>5 DEF Next
  <2> QED  BY <2>1, <2>2
<1>7. CASE Boot(b)
  BY <1>6, <1>7, BootFacts, BootMoves
<1>8. CASE ~Boot(b)
  BY <1>4, <1>6, <1>8, OtherSteps DEF Free
<1> QED
  BY <1>7, <1>8

\* From one stage of its bootstrap a waiting request gets to a later one, to
\* the end of its wait, or to a promise that has settled.
LEMMA StageEnds ==
  ASSUME NEW r \in Requests, NEW b \in Boots,
         NEW s \in {"connecting", "counting", "seeding", "starting"},
         NEW T, T = After[s]
  PROVE  FairSpec /\ []NobodyStuck => WaitMovesOn(r, b, {s}, T)
<1> DEFINE Goal == awaits[r] = NoBoot \/ WaitsAt(r, b, T)
<1>1. LInv /\ [Next]_vars /\ WaitsAt(r, b, {s}) => WaitsAt(r, b, {s})' \/ Goal'
  BY WaitSteps DEF WaitsAt
<1>2. LInv /\ WaitsAt(r, b, {s}) /\ <<Boot(b)>>_vars => Goal'
  BY BootFacts, BootMoves DEF WaitsAt, LInv, IInv
<1>3. NobodyStuck /\ WaitsAt(r, b, {s}) => ENABLED <<Boot(b)>>_vars
  BY DEF NobodyStuck, WaitsAt, Pending
<1>4. FairSpec => Spec /\ BootGoesOn(b)
  BY DEF FairSpec
<1> QED
  BY <1>1, <1>2, <1>3, <1>4, LInvariance, PTL DEF Spec, BootGoesOn, WaitMovesOn

\* A request whose promise has settled is resumed, with the application or with
\* the error.
LEMMA SettledEnds ==
  ASSUME NEW r \in Requests, NEW b \in Boots
  PROVE  FairSpec /\ []NobodyStuck =>
           (WaitsAt(r, b, {"up", "failed"}) ~> awaits[r] = NoBoot)
<1> DEFINE W == WaitsAt(r, b, {"up", "failed"})
<1>1. LInv /\ [Next]_vars /\ W => W' \/ (awaits[r] = NoBoot)'
  BY WaitSteps DEF WaitsAt, Pending
<1>2. LInv /\ W /\ <<Resume(r)>>_vars => (awaits[r] = NoBoot)'
  BY DEF WaitsAt, Resume, Serve, Refuse, LInv, IInv, TypeOK
<1>3. NobodyStuck /\ W => ENABLED <<Resume(r)>>_vars
  BY BootstrapAssumption DEF NobodyStuck, WaitsAt, Settled
<1>4. FairSpec => Spec /\ RequestIsResumed(r)
  BY DEF FairSpec
<1> QED
  BY <1>1, <1>2, <1>3, <1>4, LInvariance, PTL DEF Spec, RequestIsResumed

\* Nobody waits for ever on a promise: for any number of instances, requests and
\* failed bootstraps (api/index.ts handler).
THEOREM EveryRequestIsAnswered == FairSpec /\ []NobodyStuck => RequestsAnswered
<1>1. ASSUME NEW r \in Requests, NEW b \in Boots
      PROVE  FairSpec /\ []NobodyStuck =>
               [](awaits[r] = b => <>(awaits[r] = NoBoot))
  <2> DEFINE Done == awaits[r] = NoBoot
             W(S) == WaitsAt(r, b, S)
  <2>1. FairSpec /\ []NobodyStuck =>
          WaitMovesOn(r, b, {"connecting"}, {"counting", "failed"})
    <3>1. After["connecting"] = {"counting", "failed"}
      BY DEF After
    <3> QED  BY <3>1, StageEnds
  <2>2. FairSpec /\ []NobodyStuck =>
          WaitMovesOn(r, b, {"counting"}, {"seeding", "starting", "failed"})
    <3>1. After["counting"] = {"seeding", "starting", "failed"}
      BY DEF After
    <3> QED  BY <3>1, StageEnds
  <2>3. FairSpec /\ []NobodyStuck =>
          WaitMovesOn(r, b, {"seeding"}, {"starting", "failed"})
    <3>1. After["seeding"] = {"starting", "failed"}
      BY DEF After
    <3> QED  BY <3>1, StageEnds
  <2>4. FairSpec /\ []NobodyStuck =>
          WaitMovesOn(r, b, {"starting"}, {"up", "failed"})
    <3>1. After["starting"] = {"up", "failed"}
      BY DEF After
    <3> QED  BY <3>1, StageEnds
  <2>5. FairSpec /\ []NobodyStuck => (W({"up", "failed"}) ~> Done)
    BY SettledEnds
  <2>6. /\ W({"counting", "failed"}) => W({"counting"}) \/ W({"up", "failed"})
        /\ W({"seeding", "starting", "failed"}) =>
             W({"seeding"}) \/ W({"starting"}) \/ W({"up", "failed"})
        /\ W({"starting", "failed"}) => W({"starting"}) \/ W({"up", "failed"})
    BY DEF WaitsAt
  <2>7. LInv /\ awaits[r] = b =>
          \/ W({"connecting"}) \/ W({"counting"}) \/ W({"seeding"})
          \/ W({"starting"}) \/ W({"up", "failed"})
    BY BootstrapAssumption DEF WaitsAt, LInv, IInv, TypeOK, Promise, AwaitsPromise
  <2>8. FairSpec => Spec
    BY DEF FairSpec
  <2> QED
    BY <2>1, <2>2, <2>3, <2>4, <2>5, <2>6, <2>7, <2>8, LInvariance, PTL
    DEF WaitMovesOn
<1>2. ASSUME NEW r \in Requests
      PROVE  FairSpec /\ []NobodyStuck =>
               (awaits[r] # NoBoot ~> awaits[r] = NoBoot)
  <2>1. FairSpec /\ []NobodyStuck =>
          [](\A b \in Boots : awaits[r] = b => <>(awaits[r] = NoBoot))
    BY <1>1
  <2>2. LInv /\ (\A b \in Boots : awaits[r] = b => <>(awaits[r] = NoBoot)) =>
          (awaits[r] # NoBoot => <>(awaits[r] = NoBoot))
    BY DEF LInv, IInv, TypeOK
  <2>3. FairSpec => Spec
    BY DEF FairSpec
  <2> QED
    BY <2>1, <2>2, <2>3, LInvariance, PTL
<1> QED
  BY <1>2 DEF RequestsAnswered

\* Once bootstraps have stopped failing, each request is soon refused no more: a
\* rejected promise is never found in the cache, and those who awaited it have
\* their error (api/index.ts).
THEOREM NoRefusalAfterOutage == FairSpec /\ []NobodyStuck => ServesAfterOutage
<1> DEFINE Failure == \E b \in Boots : BootFails(b)
           Doomed(r) == awaits[r] # NoBoot /\ boot[awaits[r]].pc = "failed"
<1>1. ASSUME NEW r \in Requests
      PROVE  FairSpec /\ []NobodyStuck =>
               (<>[][~Failure]_vars => <>[][~Refuse(r)]_vars)
  <2>1. LInv /\ [Next]_vars /\ [~Failure]_vars /\ ~Doomed(r) => ~Doomed(r)'
    <3> SUFFICES ASSUME LInv, [Next]_vars, [~Failure]_vars, Doomed(r)'
                 PROVE  Doomed(r)
      OBVIOUS
    <3> USE DEF LInv, IInv, TypeOK
    <3>1. CASE awaits[r] \in Boots
      <4> PICK b \in Boots : awaits[r] = b
        BY <3>1
      <4>1. awaits'[r] = b /\ boot'[b].pc = "failed"
        BY WaitSteps
      <4>2. CASE boot'[b] = boot[b]
        BY <3>1, <4>1, <4>2, BootstrapAssumption
      <4>3. CASE boot'[b].pc \in After[boot[b].pc] /\ Pending(b)
        <5>1. Boot(b)
          BY <4>1, <4>3, OtherSteps DEF Free, Live, Pending, Recycle, Unused
        <5>2. ~BootFails(b)
          BY <4>1, <4>3 DEF vars, Pending
        <5> QED
          BY <4>1, <4>3, <5>1, <5>2
          DEF Promise, Boot, Connect, CountAdmins, SeedAdmin, SeedFails, ComeUp,
              Advance
      <4> QED  BY <4>1, <4>2, <4>3, WaitSteps, BootstrapAssumption
    <3>2. CASE awaits[r] = NoBoot
      <4>1. ASSUME NEW q \in Requests, NEW i \in Instances, Arrive(q, i)
            PROVE  FALSE
        <5>1. CASE StartsBoot(i)
          <6> PICK b \in Boots :
                /\ boot' = [boot EXCEPT ![b] =
                     [pc |-> "connecting", host |-> i, seedLost |-> FALSE]]
                /\ awaits' = [awaits EXCEPT ![q] = b]
            BY <4>1, <5>1 DEF Arrive
          <6> QED  BY <3>2
        <5>2. CASE ~StartsBoot(i)
          BY <3>2, <4>1, <5>2
          DEF Arrive, StartsBoot, CachedIsLive, Live, Pending
        <5> QED  BY <5>1, <5>2
      <4>2. ASSUME NEW b \in Boots, Boot(b)
            PROVE  FALSE
        BY <3>2, <4>2, BootFacts
      <4>3. ASSUME NEW q \in Requests, Resume(q)
            PROVE  FALSE
        BY <3>2, <4>3 DEF Resume, Serve, Refuse
      <4>4. ASSUME NEW i \in Instances, Recycle(i)
            PROVE  FALSE
        BY <3>2, <4>4, BootstrapAssumption DEF Recycle
      <4> QED  BY <3>2, <4>1, <4>2, <4>3, <4>4 DEF Next, vars
    <3> QED  BY <3>1, <3>2
  <2>2. LInv /\ Doomed(r) /\ <<Resume(r)>>_vars => ~Doomed(r)'
    BY DEF Resume, Serve, Refuse, LInv, IInv, TypeOK
  <2>3. NobodyStuck /\ Doomed(r) => ENABLED <<Resume(r)>>_vars
    BY DEF NobodyStuck, Settled
  <2>4. LInv /\ ~Doomed(r) => [~Refuse(r)]_vars
    BY BootstrapAssumption DEF Refuse
  <2>5. FairSpec => Spec /\ RequestIsResumed(r)
    BY DEF FairSpec
  <2> QED
    BY <2>1, <2>2, <2>3, <2>4, <2>5, LInvariance, PTL DEF Spec, RequestIsResumed
<1> QED
  BY <1>1 DEF ServesAfterOutage
=============================================================================
