------------------------- MODULE AdminAccountsProofs -------------------------
(***************************************************************************)
(* Proofs about AdminAccounts for any number of admins, desks and calls.   *)
(* As long as users are managed by one at a time, a token that says        *)
(* SUPER_ADMIN is true (TokensAreTrue), because the only one who could     *)
(* make it false is its own bearer, and one's own row is disabled.         *)
(***************************************************************************)
EXTENDS AdminAccounts, TLAPS

\* What a call carries when it has come that far.
CallsInOrder ==
  \A c \in Calls :
    call[c] # None =>
      /\ call[c].op \in {"role", "create"} => call[c].value \in Roles
      /\ call[c].pc = "saved" => call[c].op = "profile"
      /\ call[c].pc = "checked" => call[c].op \in {"login", "create"}
      /\ call[c].op = "login" /\ call[c].pc = "checked" => call[c].role \in Roles

\* A profile that is being saved is that of the session on display.
SavesAreMine ==
  \A c \in Calls : \A d \in Desks :
    (/\ Heard(c, d) /\ call[c].op = "profile"
     /\ d \notin outlived /\ desk[d] # None) => call[c].target = desk[d].id

\* One request to manage users at a time, and no login beside it.
OneAtATime ==
  ~crowded =>
    \A c, e \in Calls :
      Manages(c) => ~SigningIn(e) /\ (Manages(e) => e = c)

\* Who is said to be a super admin is one.
Super(d) == desk[d] # None /\ desk[d].role = "SUPER_ADMIN"
Managers == {a \in Admins : IsManager(a)}

TokensAreTrue ==
  ~crowded =>
    /\ \A d \in Desks : Super(d) => desk[d].id \in Managers
    /\ \A c \in Calls :
         /\ Manages(c) /\ Admits(c) => call[c].who \in Managers
         /\ Manages(c) /\ call[c].op # "create" => call[c].target # call[c].who
         /\ SigningIn(c) /\ call[c].pc = "checked" /\ Admits(c) => call[c].who \in Managers
         /\ Manages(c) => \A d \in Desks : Super(d) => desk[d].id = call[c].who

IInv ==
  /\ TypeOK /\ CallsInOrder
  /\ ProfileShownIsMine /\ SavesAreMine
  /\ OneAtATime /\ TokensAreTrue /\ SomeoneCanManage

-----------------------------------------------------------------------------
\* The first state satisfies the invariant: the seed is a super admin.
LEMMA InitIInv == Init => IInv
<1> SUFFICES ASSUME Init PROVE IInv
  OBVIOUS
<1>1. PICK first \in Admins :
        admin = [a \in Admins |->
                   IF a = first THEN [role |-> "SUPER_ADMIN", active |-> TRUE] ELSE None]
  BY DEF Init
<1>2. [role |-> "SUPER_ADMIN", active |-> TRUE] \in Row
  BY DEF Row, Roles
<1>3. IsManager(first)
  BY <1>1, <1>2, RowAssumption DEF IsManager, Exists
<1>4. TypeOK
  BY <1>1, <1>2 DEF Init, TypeOK
<1>5. (\A c \in Calls : call[c] = None) /\ (\A d \in Desks : desk[d] = None)
  BY DEF Init
<1> QED
  BY <1>3, <1>4, <1>5
     DEF IInv, CallsInOrder, ProfileShownIsMine, SavesAreMine, OneAtATime, TokensAreTrue,
         SomeoneCanManage, Heard, Manages, SigningIn, Super

-----------------------------------------------------------------------------
\* What remains of a call, whatever was done for it ...
Carries(c) ==
  call'[c] # None =>
    /\ call[c] # None
    /\ call'[c].op = call[c].op
    /\ call'[c].who = call[c].who /\ call'[c].role = call[c].role
    /\ call'[c].target = call[c].target /\ call'[c].value = call[c].value
    /\ call'[c].desk = call[c].desk \/ call'[c].desk = None

\* ... and of one that nobody moved on: it may have lost its page.
Kept(c) == Carries(c) /\ (call'[c] # None => call'[c].pc = call[c].pc)

\* A call that ends.
LEMMA EndFacts ==
  ASSUME TypeOK, NEW c \in Calls, End(c)
  PROVE  /\ call' \in [Calls -> Call \cup {None}] /\ call'[c] = None
         /\ \A e \in Calls : Kept(e)
BY DEF End, TypeOK, Kept, Carries

\* A call that starts or moves on.
LEMMA PutFacts ==
  ASSUME TypeOK, NEW c \in Calls, NEW x \in Call, call' = [call EXCEPT ![c] = x]
  PROVE  /\ call' \in [Calls -> Call \cup {None}] /\ call'[c] = x
         /\ \A e \in Calls \ {c} : Kept(e) /\ call'[e] = call[e]
BY DEF TypeOK, Kept, Carries

\* A page load of d forgets the calls of d and nothing else.
LEMMA ForgetsFacts ==
  ASSUME NEW d \in Desks, NEW calls \in [Calls -> Call \cup {None}]
  PROVE  /\ Forgets(d, calls) \in [Calls -> Call \cup {None}]
         /\ \A c \in Calls :
              LET f == Forgets(d, calls)[c] IN
              f # None =>
                /\ calls[c] # None
                /\ f.op = calls[c].op /\ f.pc = calls[c].pc /\ f.who = calls[c].who
                /\ f.role = calls[c].role /\ f.target = calls[c].target
                /\ f.value = calls[c].value
                /\ f.desk = calls[c].desk \/ f.desk = None
                /\ f.desk # d
<1>0. \A e \in Calls :
        (calls[e] # None /\ calls[e].desk = d) =
           IF calls[e] # None THEN calls[e].desk = d ELSE FALSE
  OBVIOUS
<1>1. ASSUME NEW c \in Calls
      PROVE  /\ Forgets(d, calls)[c] \in Call \cup {None}
             /\ LET f == Forgets(d, calls)[c] IN
                f # None =>
                  /\ calls[c] # None
                  /\ f.op = calls[c].op /\ f.pc = calls[c].pc /\ f.who = calls[c].who
                  /\ f.role = calls[c].role /\ f.target = calls[c].target
                  /\ f.value = calls[c].value
                  /\ f.desk = calls[c].desk \/ f.desk = None
                  /\ f.desk # d
  <2>1. CASE calls[c] # None /\ calls[c].desk = d
    <3>1. calls[c] \in Call
      BY <2>1
    <3>2. Forgets(d, calls)[c] = [calls[c] EXCEPT !.desk = None]
      BY <2>1, <1>0 DEF Forgets
    <3> QED
      BY <2>1, <3>1, <3>2, AdminsAssumption DEF Call
  <2>2. CASE ~(calls[c] # None /\ calls[c].desk = d)
    <3>1. Forgets(d, calls)[c] = calls[c]
      BY <2>2, <1>0 DEF Forgets
    <3> QED
      BY <2>2, <3>1
  <2> QED
    BY <2>1, <2>2
<1>2. Forgets(d, calls) = [c \in Calls |-> Forgets(d, calls)[c]]
  BY DEF Forgets
<1> QED
  BY <1>1, <1>2

LEMMA ReloadFacts ==
  ASSUME TypeOK, NEW d \in Desks, call' = Forgets(d, call)
  PROVE  /\ call' \in [Calls -> Call \cup {None}]
         /\ \A e \in Calls : Kept(e)
BY ForgetsFacts DEF TypeOK, Kept, Carries

-----------------------------------------------------------------------------
\* What a step must respect to keep each part of the invariant.
LEMMA KeepsOrder ==
  ASSUME IInv, NEW c \in Calls, \A e \in Calls \ {c} : Kept(e),
         call'[c] # None =>
           /\ call'[c].op \in {"role", "create"} => call'[c].value \in Roles
           /\ call'[c].pc = "saved" => call'[c].op = "profile"
           /\ call'[c].pc = "checked" => call'[c].op \in {"login", "create"}
           /\ call'[c].op = "login" /\ call'[c].pc = "checked" => call'[c].role \in Roles
  PROVE  CallsInOrder'
BY DEF IInv, CallsInOrder, Kept, Carries

LEMMA KeepsProfiles ==
  ASSUME IInv, outlived \subseteq outlived',
         \A e \in Calls : call'[e] # None /\ call'[e].op = "profile" => Carries(e),
         \A d \in Desks :
           desk'[d] # None => /\ desk[d] # None
                              /\ desk'[d].id = desk[d].id
                              /\ desk'[d].profile = desk[d].profile
  PROVE  ProfileShownIsMine' /\ SavesAreMine'
<1>1. \A e \in Calls, d \in Desks :
        /\ call'[e] # None /\ call'[e].desk = d /\ call'[e].op = "profile"
        => Heard(e, d) /\ call[e].op = "profile" /\ call'[e].target = call[e].target
  BY AdminsAssumption DEF Carries, Heard
<1>2. ProfileShownIsMine'
  BY DEF IInv, ProfileShownIsMine
<1>3. SavesAreMine'
  <2> SUFFICES ASSUME NEW e \in Calls, NEW d \in Desks,
                      call'[e] # None, call'[e].desk = d, call'[e].op = "profile",
                      d \notin outlived', desk'[d] # None
               PROVE  call'[e].target = desk'[d].id
    BY DEF SavesAreMine, Heard
  <2> QED
    BY <1>1 DEF IInv, SavesAreMine
<1> QED
  BY <1>2, <1>3

LEMMA KeepsManagement ==
  ASSUME IInv, UNCHANGED crowded,
         \A e \in Calls :
           call'[e] # None /\ call'[e].op # "profile" =>
             Carries(e) /\ (call'[e].op = "login" => call'[e].pc = call[e].pc),
         \A d \in Desks :
           desk'[d] # None => /\ desk[d] # None
                              /\ desk'[d].id = desk[d].id
                              /\ desk'[d].role = desk[d].role,
         Managers \subseteq Managers'
  PROVE  OneAtATime' /\ TokensAreTrue' /\ SomeoneCanManage'
<1>1. \A e \in Calls :
        /\ Manages(e)' => Manages(e)
        /\ SigningIn(e)' => SigningIn(e) /\ call'[e].pc = call[e].pc
        /\ Manages(e)' \/ SigningIn(e)' =>
             /\ call'[e].op = call[e].op
             /\ call'[e].who = call[e].who /\ call'[e].role = call[e].role
             /\ call'[e].target = call[e].target
  BY DEF Carries, Manages, SigningIn
<1>2. \A d \in Desks : Super(d)' => Super(d) /\ desk'[d].id = desk[d].id
  BY DEF Super
<1>3. OneAtATime'
  BY <1>1 DEF IInv, OneAtATime
<1>4. TokensAreTrue'
  BY <1>1, <1>2 DEF IInv, TokensAreTrue, Admits
<1>5. SomeoneCanManage'
  BY DEF IInv, SomeoneCanManage, Managers
<1> QED
  BY <1>3, <1>4, <1>5

-----------------------------------------------------------------------------
(* Sessions.                                                               *)

LEMMA SubmitLoginStep ==
  ASSUME IInv, NEW c \in Calls, NEW d \in Desks, SubmitLogin(c, d)
  PROVE  IInv'
<1>1. TypeOK /\ UNCHANGED <<admin, desk, outlived>>
  BY DEF IInv, SubmitLogin
<1> DEFINE calls == IF desk[d] = None THEN call ELSE Forgets(d, call)
<1>2. PICK a \in Admins :
        call' = [calls EXCEPT ![c] =
                   [op |-> "login", pc |-> "sent", desk |-> d, who |-> a,
                    role |-> None, target |-> a, value |-> None]]
  BY DEF SubmitLogin
<1> DEFINE x == [op |-> "login", pc |-> "sent", desk |-> d, who |-> a,
                 role |-> None, target |-> a, value |-> None]
<1>3. /\ x \in Call /\ x.op = "login" /\ x.pc = "sent"
  BY DEF Call
<1>4. /\ calls \in [Calls -> Call \cup {None}]
      /\ \A e \in Calls :
           calls[e] # None =>
             /\ call[e] # None
             /\ calls[e].op = call[e].op /\ calls[e].pc = call[e].pc
             /\ calls[e].who = call[e].who /\ calls[e].role = call[e].role
             /\ calls[e].target = call[e].target /\ calls[e].value = call[e].value
             /\ calls[e].desk = call[e].desk \/ calls[e].desk = None
  BY <1>1, ForgetsFacts DEF TypeOK
<1>5. call' = [calls EXCEPT ![c] = x]
  BY <1>2
<1> HIDE DEF calls, x
<1>6. /\ call' \in [Calls -> Call \cup {None}] /\ call'[c] = x
      /\ \A e \in Calls \ {c} : Kept(e)
  BY <1>3, <1>4, <1>5 DEF Kept, Carries
<1>7. crowded' = (crowded \/ \E e \in Calls : Manages(e))
  BY DEF SubmitLogin
<1>8. TypeOK'
  BY <1>1, <1>6, <1>7 DEF TypeOK
<1>9. CallsInOrder'
  BY <1>3, <1>6, KeepsOrder
<1>10. ProfileShownIsMine' /\ SavesAreMine'
  BY <1>1, <1>3, <1>6, KeepsProfiles DEF Kept
<1>11. ~crowded' => \A e \in Calls : ~Manages(e)'
  BY <1>3, <1>6, <1>7 DEF Manages, Kept, Carries
<1>12. \A e \in Calls : (SigningIn(e) /\ call[e].pc = "checked" /\ Admits(e))' =>
          SigningIn(e) /\ call[e].pc = "checked" /\ Admits(e) /\ call'[e].who = call[e].who
  BY <1>3, <1>6 DEF SigningIn, Admits, Kept, Carries
<1>13. OneAtATime' /\ SomeoneCanManage'
  BY <1>1, <1>7, <1>11 DEF OneAtATime, SomeoneCanManage, IsManager, Exists, IInv
<1>14. TokensAreTrue'
  <2> SUFFICES ASSUME ~crowded' PROVE TokensAreTrue'
    BY DEF TokensAreTrue
  <2>1. ~crowded
    BY <1>7
  <2>2. Managers' = Managers
    BY <1>1 DEF Managers, IsManager, Exists
  <2> QED
    BY <1>1, <1>11, <1>12, <2>1, <2>2 DEF IInv, TokensAreTrue, Super
<1> QED
  BY <1>8, <1>9, <1>10, <1>13, <1>14 DEF IInv

\* The role goes from the row into the token.
LEMMA CheckLoginStep ==
  ASSUME IInv, NEW c \in Calls, CheckLogin(c)
  PROVE  IInv'
<1>1. /\ TypeOK /\ UNCHANGED <<admin, desk, crowded, outlived>>
      /\ call[c] \in Call /\ call[c].op = "login" /\ SigningIn(c) /\ call[c] # None
      /\ call[c].who \in Admins
      /\ admin[call[c].who] # None /\ admin[call[c].who] \in Row
  BY DEF IInv, TypeOK, CheckLogin, SigningIn, Exists, Call
<1> DEFINE x == [call[c] EXCEPT !.pc = "checked", !.role = admin[call[c].who].role]
<1>2. /\ x \in Call /\ x.op = "login" /\ x.pc = "checked" /\ x.who = call[c].who
      /\ x.role = admin[call[c].who].role /\ x.role \in Roles
  BY <1>1 DEF Call, Row
<1>3. call' = [call EXCEPT ![c] = x]
  BY <1>1 DEF CheckLogin, TypeOK
<1> HIDE DEF x
<1>4. /\ call' \in [Calls -> Call \cup {None}] /\ call'[c] = x
      /\ \A e \in Calls \ {c} : Kept(e) /\ call'[e] = call[e]
  BY <1>1, <1>2, <1>3, PutFacts
<1>5. TypeOK'
  BY <1>1, <1>4 DEF TypeOK
<1>6. CallsInOrder'
  BY <1>2, <1>4, KeepsOrder
<1>7. ProfileShownIsMine' /\ SavesAreMine'
  BY <1>1, <1>2, <1>4, KeepsProfiles DEF Kept
<1>8. /\ \A e \in Calls : Manages(e)' => Manages(e)
      /\ \A e \in Calls : SigningIn(e)' => SigningIn(e)
      /\ Managers' = Managers
  BY <1>1, <1>2, <1>4 DEF Manages, SigningIn, Managers, IsManager, Exists
<1>9. OneAtATime' /\ SomeoneCanManage'
  BY <1>1, <1>8 DEF IInv, OneAtATime, SomeoneCanManage, Managers
<1>10. TokensAreTrue'
  <2>1. x.role = "SUPER_ADMIN" => call[c].who \in Managers
    <3>1. admin[call[c].who].active
      BY DEF CheckLogin
    <3> QED
      BY <1>1, <1>2, <3>1 DEF Managers, IsManager, Exists
  <2>2. ~crowded => \A e \in Calls : ~Manages(e)
    BY <1>1 DEF IInv, OneAtATime
  <2> QED
    BY <1>1, <1>2, <1>4, <1>8, <2>1, <2>2
       DEF IInv, TokensAreTrue, Super, SigningIn, Admits
<1> QED
  BY <1>5, <1>6, <1>7, <1>9, <1>10 DEF IInv

\* The answer to a login: a new session, with the token's role.
LEMMA SignInStep ==
  ASSUME IInv, NEW c \in Calls, NEW d \in Desks, SignIn(c, d)
  PROVE  IInv'
<1>1. /\ TypeOK /\ UNCHANGED <<admin, crowded>> /\ EndsSession(d) /\ End(c)
      /\ call[c] # None /\ call[c] \in Call /\ call[c].op = "login"
      /\ call[c].pc = "checked" /\ call[c].who \in Admins /\ call[c].role \in Roles
      /\ SigningIn(c)
  BY DEF IInv, TypeOK, SignIn, SigningIn, CallsInOrder, Call
<1> DEFINE s == [id |-> call[c].who, role |-> call[c].role, profile |-> call[c].who]
<1>2. /\ s \in Session /\ s.id = call[c].who /\ s.role = call[c].role
      /\ s.profile = call[c].who
  BY <1>1 DEF Session
<1>3. desk' = [desk EXCEPT ![d] = s]
  BY DEF SignIn
<1> HIDE DEF s
<1>4. /\ desk' \in [Desks -> Session \cup {None}] /\ desk'[d] = s
      /\ \A f \in Desks \ {d} : desk'[f] = desk[f]
  BY <1>1, <1>2, <1>3 DEF TypeOK
<1>5. /\ call' \in [Calls -> Call \cup {None}] /\ call'[c] = None
      /\ \A e \in Calls : Kept(e)
  BY <1>1, EndFacts
<1>6. outlived' \in SUBSET Desks /\ outlived \subseteq outlived'
  BY <1>1 DEF EndsSession, TypeOK
<1>7. TypeOK'
  BY <1>1, <1>4, <1>5, <1>6 DEF TypeOK
<1>8. CallsInOrder'
  BY <1>5, KeepsOrder
<1>9. ProfileShownIsMine' /\ SavesAreMine'
  <2>1. ProfileShownIsMine'
    BY <1>2, <1>4, <1>6 DEF IInv, ProfileShownIsMine
  <2>2. \A e \in Calls : Heard(e, d) /\ call[e].op = "profile" => d \in outlived'
    BY <1>1 DEF EndsSession
  <2>3. \A e \in Calls, f \in Desks :
          /\ call'[e] # None /\ call'[e].desk = f /\ call'[e].op = "profile"
          => Heard(e, f) /\ call[e].op = "profile" /\ call'[e].target = call[e].target
    BY <1>5, AdminsAssumption DEF Kept, Carries, Heard
  <2>4. SavesAreMine'
    <3> SUFFICES ASSUME NEW e \in Calls, NEW f \in Desks,
                        call'[e] # None, call'[e].desk = f, call'[e].op = "profile",
                        f \notin outlived', desk'[f] # None
                 PROVE  call'[e].target = desk'[f].id
      BY DEF SavesAreMine, Heard
    <3> QED
      BY <1>4, <1>6, <2>2, <2>3 DEF IInv, SavesAreMine
  <2> QED
    BY <2>1, <2>4
<1>10. /\ \A e \in Calls : Manages(e)' => Manages(e)
       /\ \A e \in Calls : SigningIn(e)' => SigningIn(e)
       /\ Managers' = Managers
  BY <1>1, <1>5 DEF Manages, SigningIn, Kept, Carries, Managers, IsManager, Exists
<1>11. OneAtATime' /\ SomeoneCanManage'
  BY <1>1, <1>10 DEF IInv, OneAtATime, SomeoneCanManage, Managers
<1>12. TokensAreTrue'
  <2> SUFFICES ASSUME ~crowded PROVE TokensAreTrue'
    BY <1>1 DEF TokensAreTrue
  <2>1. \A e \in Calls : ~Manages(e)
    BY <1>1 DEF IInv, OneAtATime
  <2>2. call[c].role = "SUPER_ADMIN" => call[c].who \in Managers
    BY <1>1 DEF IInv, TokensAreTrue, Admits
  <2>3. \A f \in Desks : Super(f)' => desk'[f].id \in Managers
    BY <1>2, <1>4, <2>2 DEF IInv, TokensAreTrue, Super
  <2>4. \A e \in Calls : (SigningIn(e) /\ call[e].pc = "checked" /\ Admits(e))' =>
           SigningIn(e) /\ call[e].pc = "checked" /\ Admits(e) /\ call'[e].who = call[e].who
    BY <1>5 DEF SigningIn, Admits, Kept, Carries
  <2> QED
    BY <1>10, <2>1, <2>3, <2>4 DEF IInv, TokensAreTrue
<1> QED
  BY <1>7, <1>8, <1>9, <1>11, <1>12 DEF IInv

\* A sign-out: the desk forgets who it was, and its calls go on.
LEMMA SignOutStep ==
  ASSUME IInv, NEW d \in Desks, SignOut(d)
  PROVE  IInv'
<1>1. /\ TypeOK /\ UNCHANGED <<admin, call, crowded>>
      /\ desk' = [desk EXCEPT ![d] = None] /\ EndsSession(d)
  BY DEF IInv, SignOut
<1>2. outlived' \in SUBSET Desks /\ outlived \subseteq outlived'
  BY <1>1 DEF EndsSession, TypeOK
<1>3. /\ desk' \in [Desks -> Session \cup {None}]
      /\ \A f \in Desks : desk'[f] # None => desk'[f] = desk[f]
  BY <1>1 DEF TypeOK
<1>4. \A e \in Calls : Kept(e)
  BY <1>1 DEF Kept, Carries
<1>5. Managers' = Managers
  BY <1>1 DEF Managers, IsManager, Exists
<1>6. TypeOK' /\ CallsInOrder'
  BY <1>1, <1>2, <1>3 DEF TypeOK, IInv, CallsInOrder
<1>7. ProfileShownIsMine' /\ SavesAreMine'
  BY <1>2, <1>3, <1>4, KeepsProfiles DEF Kept
<1>8. OneAtATime' /\ TokensAreTrue' /\ SomeoneCanManage'
  BY <1>1, <1>3, <1>4, <1>5, KeepsManagement DEF Kept
<1> QED
  BY <1>6, <1>7, <1>8 DEF IInv

\* A page load, a call that ends, a 401: the sessions that stay are the same.
LEMMA QuietStep ==
  ASSUME IInv,
         UNCHANGED <<crowded, outlived>>,
         call' \in [Calls -> Call \cup {None}], \A e \in Calls : Kept(e),
         desk' \in [Desks -> Session \cup {None}],
         \A d \in Desks : desk'[d] # None => desk'[d] = desk[d],
         admin' \in [Admins -> Row \cup {None}], Managers \subseteq Managers'
  PROVE  IInv'
<1>1. TypeOK'
  BY DEF IInv, TypeOK
<1>2. CallsInOrder'
  BY DEF IInv, CallsInOrder, Kept, Carries
<1>3. ProfileShownIsMine' /\ SavesAreMine'
  BY KeepsProfiles DEF Kept
<1>4. OneAtATime' /\ TokensAreTrue' /\ SomeoneCanManage'
  BY KeepsManagement DEF Kept
<1> QED
  BY <1>1, <1>2, <1>3, <1>4 DEF IInv

LEMMA ReloadStep ==
  ASSUME IInv, NEW d \in Desks, Reload(d)
  PROVE  IInv'
<1>1. TypeOK /\ UNCHANGED <<admin, desk, crowded, outlived>> /\ call' = Forgets(d, call)
  BY DEF IInv, Reload
<1>2. call' \in [Calls -> Call \cup {None}] /\ \A e \in Calls : Kept(e)
  BY <1>1, ReloadFacts
<1> QED
  BY <1>1, <1>2, QuietStep DEF TypeOK, Managers, IsManager, Exists

LEMMA FailStep ==
  ASSUME IInv, NEW c \in Calls, Fail(c)
  PROVE  IInv'
<1>1. TypeOK /\ UNCHANGED <<admin, desk, crowded, outlived>> /\ End(c)
  BY DEF IInv, Fail
<1> QED
  BY <1>1, EndFacts, QuietStep DEF TypeOK, Managers, IsManager, Exists

LEMMA TurnAwayStep ==
  ASSUME IInv, NEW c \in Calls, NEW d \in Desks, TurnAway(c, d)
  PROVE  IInv'
<1>1. TypeOK /\ UNCHANGED <<admin, crowded, outlived>> /\ desk' = [desk EXCEPT ![d] = None]
  BY DEF IInv, TurnAway
<1> DEFINE answered == [call EXCEPT ![c] = None]
<1>2. call' = answered \/ call' = Forgets(d, answered)
  BY DEF TurnAway
<1>3. /\ answered \in [Calls -> Call \cup {None}]
      /\ \A e \in Calls : answered[e] # None => call[e] = answered[e]
  BY <1>1 DEF TypeOK
<1> HIDE DEF answered
<1>4. call' \in [Calls -> Call \cup {None}] /\ \A e \in Calls : Kept(e)
  <2>1. CASE call' = answered
    BY <1>3, <2>1 DEF Kept, Carries
  <2>2. CASE call' = Forgets(d, answered)
    BY <1>3, <2>2, ForgetsFacts DEF Kept, Carries
  <2> QED
    BY <1>2, <2>1, <2>2
<1>5. /\ desk' \in [Desks -> Session \cup {None}]
      /\ \A f \in Desks : desk'[f] # None => desk'[f] = desk[f]
  BY <1>1 DEF TypeOK
<1>6. Managers' = Managers /\ admin' \in [Admins -> Row \cup {None}]
  BY <1>1 DEF TypeOK, Managers, IsManager, Exists
<1> QED
  BY <1>1, <1>4, <1>5, <1>6, QuietStep

-----------------------------------------------------------------------------
(* Users.                                                                  *)

\* A page asks to manage users.  It is crowded, or the first to ask: then no
\* desk but this one shows a super admin.
LEMMA AskStep ==
  ASSUME IInv, NEW c \in Calls, NEW d \in Desks, NEW t \in Admins,
         NEW op \in {"role", "active", "create"}, NEW v \in Roles \cup Switch,
         Ask(c, d, op, t, v),
         op # "active" => v \in Roles,
         op # "create" => Offers(d, t),
         crowded' = (crowded \/ ~Alone(d)),
         UNCHANGED <<admin, desk, outlived>>
  PROVE  IInv'
<1>1. TypeOK /\ call[c] = None /\ desk[d] # None /\ desk[d] \in Session
  BY DEF IInv, TypeOK, Ask, InApp
<1> DEFINE x == [op |-> op, pc |-> "sent", desk |-> d, who |-> desk[d].id,
                 role |-> desk[d].role, target |-> t, value |-> v]
<1>2. /\ x \in Call /\ x.op = op /\ x.pc = "sent" /\ x.who = desk[d].id
      /\ x.role = desk[d].role /\ x.target = t /\ x.value = v
  BY <1>1 DEF Call, Session
<1>3. call' = [call EXCEPT ![c] = x]
  BY DEF Ask
<1> HIDE DEF x
<1>4. /\ call' \in [Calls -> Call \cup {None}] /\ call'[c] = x
      /\ \A e \in Calls \ {c} : Kept(e) /\ call'[e] = call[e]
  BY <1>1, <1>2, <1>3, PutFacts
<1>5. TypeOK' /\ crowded' \in BOOLEAN
  BY <1>1, <1>4 DEF TypeOK
<1>6. CallsInOrder'
  BY <1>2, <1>4, KeepsOrder
<1>7. ProfileShownIsMine' /\ SavesAreMine'
  BY <1>2, <1>4, KeepsProfiles DEF Kept
<1>8. Managers' = Managers
  BY DEF Managers, IsManager, Exists
<1>9. ~crowded' => ~crowded /\ Alone(d)
  OBVIOUS
<1>10. OneAtATime' /\ SomeoneCanManage'
  BY <1>2, <1>4, <1>8, <1>9
     DEF IInv, Alone, OneAtATime, SomeoneCanManage, Managers, Manages, SigningIn
<1>11. TokensAreTrue'
  <2> SUFFICES ASSUME ~crowded' PROVE TokensAreTrue'
    BY DEF TokensAreTrue
  <2>1. /\ ~crowded
        /\ \A e \in Calls : ~Manages(e) /\ ~SigningIn(e)
        /\ \A f \in Desks : Super(f) => f = d
    BY <1>9 DEF Alone, Super
  <2>2. \A e \in Calls : ~SigningIn(e)' /\ (Manages(e)' => e = c)
    BY <1>2, <1>4, <2>1 DEF SigningIn, Manages
  <2>3. x.role = "SUPER_ADMIN" => x.who \in Managers
    BY <1>1, <1>2, <2>1 DEF IInv, TokensAreTrue, Super
  <2>4. op # "create" => x.target # x.who
    BY <1>2 DEF Offers
  <2> QED
    BY <1>2, <1>4, <1>8, <2>1, <2>2, <2>3, <2>4 DEF IInv, TokensAreTrue, Super, Admits
<1> QED
  BY <1>5, <1>6, <1>7, <1>10, <1>11 DEF IInv

LEMMA ManageStep ==
  ASSUME IInv, NEW c \in Calls, NEW d \in Desks, NEW t \in Admins,
         ChangeRole(c, d, t) \/ ToggleActive(c, d, t) \/ Create(c, d, t)
  PROVE  IInv'
<1>1. CASE ChangeRole(c, d, t)
  <2>1. PICK r \in Roles : Ask(c, d, "role", t, r)
    BY <1>1 DEF ChangeRole
  <2> QED
    BY <1>1, <2>1, AskStep DEF ChangeRole
<1>2. CASE ToggleActive(c, d, t)
  <2>1. PICK b \in Switch : Ask(c, d, "active", t, b)
    BY <1>2 DEF ToggleActive
  <2> QED
    BY <1>2, <2>1, AskStep DEF ToggleActive
<1>3. CASE Create(c, d, t)
  <2>1. PICK r \in Roles : Ask(c, d, "create", t, r)
    BY <1>3 DEF Create
  <2> QED
    BY <1>3, <2>1, AskStep DEF Create
<1> QED
  BY <1>1, <1>2, <1>3

\* update: whoever asks is a super admin other than the one updated.
LEMMA UpdateStep ==
  ASSUME IInv, NEW c \in Calls, Update(c)
  PROVE  IInv'
<1> DEFINE t == call[c].target
<1>1. /\ TypeOK /\ UNCHANGED <<desk, crowded, outlived>> /\ End(c)
      /\ call[c] # None /\ call[c] \in Call /\ t \in Admins
      /\ Manages(c) /\ call[c].op # "create" /\ Admits(c)
      /\ call[c].op = "role" => call[c].value \in Roles
      /\ call[c].op # "role" => call[c].op = "active"
  BY DEF IInv, TypeOK, Update, Manages, CallsInOrder, Call
<1>2. /\ call' \in [Calls -> Call \cup {None}] /\ call'[c] = None
      /\ \A e \in Calls : Kept(e)
  BY <1>1, EndFacts
<1>3. PICK x \in Row :
        admin' = admin \/ (admin[t] # None /\ admin' = [admin EXCEPT ![t] = x])
  <2>1. CASE admin' = admin
    <3>1. [role |-> "REVIEWER", active |-> FALSE] \in Row
      BY DEF Row, Roles
    <3> QED
      BY <2>1, <3>1
  <2>2. CASE Exists(t) /\ admin' = [admin EXCEPT ![t].role = call[c].value] /\ call[c].op = "role"
    <3>1. [admin[t] EXCEPT !.role = call[c].value] \in Row
      BY <1>1, <2>2 DEF TypeOK, Exists, Row
    <3> QED
      BY <1>1, <2>2, <3>1 DEF TypeOK, Exists
  <2>3. CASE Exists(t) /\ admin' = [admin EXCEPT ![t].active = call[c].value = "on"]
    <3>1. [admin[t] EXCEPT !.active = (call[c].value = "on")] \in Row
      BY <1>1, <2>3 DEF TypeOK, Exists, Row
    <3> QED
      BY <1>1, <2>3, <3>1 DEF TypeOK, Exists
  <2> QED
    BY <2>1, <2>2, <2>3 DEF Update
<1> HIDE DEF t
<1>4. /\ admin' \in [Admins -> Row \cup {None}]
      /\ \A a \in Admins \ {t} : admin'[a] = admin[a]
  BY <1>1, <1>3 DEF TypeOK
<1>5. TypeOK' /\ CallsInOrder'
  BY <1>1, <1>2, <1>4, KeepsOrder DEF TypeOK
<1>6. ProfileShownIsMine' /\ SavesAreMine'
  BY <1>1, <1>2, KeepsProfiles DEF Kept
<1>7. \A e \in Calls : (Manages(e)' => Manages(e)) /\ (SigningIn(e)' => SigningIn(e))
  BY <1>2 DEF Manages, SigningIn, Kept, Carries
<1>8. OneAtATime'
  BY <1>1, <1>7 DEF IInv, OneAtATime
<1>9. ASSUME ~crowded PROVE TokensAreTrue' /\ SomeoneCanManage'
  <2>1. /\ \A e \in Calls : ~SigningIn(e) /\ (Manages(e) => e = c)
        /\ \A d \in Desks : Super(d) => desk[d].id = call[c].who
        /\ call[c].who \in Managers /\ call[c].who # t
    BY <1>1, <1>9 DEF IInv, OneAtATime, TokensAreTrue, t
  <2>2. \A e \in Calls : ~Manages(e)' /\ ~SigningIn(e)'
    BY <1>2, <1>7, <2>1 DEF Manages
  <2>3. call[c].who \in Managers'
    BY <1>4, <2>1 DEF Managers, IsManager, Exists
  <2>4. TokensAreTrue'
    BY <1>1, <2>1, <2>2, <2>3 DEF TokensAreTrue, Super
  <2>5. SomeoneCanManage'
    BY <2>3 DEF SomeoneCanManage, Managers
  <2> QED
    BY <2>4, <2>5
<1>10. TokensAreTrue' /\ SomeoneCanManage'
  BY <1>1, <1>9 DEF TokensAreTrue, SomeoneCanManage
<1> QED
  BY <1>5, <1>6, <1>8, <1>10 DEF IInv

\* A request to create an account found the address free, or an account.
LEMMA CheckAddressStep ==
  ASSUME IInv, NEW c \in Calls, CheckAddress(c)
  PROVE  IInv'
<1>1. /\ TypeOK /\ UNCHANGED <<admin, desk, crowded, outlived>>
      /\ call[c] # None /\ call[c] \in Call /\ call[c].op = "create"
      /\ call[c].value \in Roles
  BY DEF IInv, TypeOK, CheckAddress, Manages, CallsInOrder
<1>2. CASE End(c)
  BY <1>1, <1>2, EndFacts, QuietStep DEF TypeOK, Managers, IsManager, Exists
<1>3. CASE call' = [call EXCEPT ![c].pc = "checked"]
  <2> DEFINE x == [call[c] EXCEPT !.pc = "checked"]
  <2>1. /\ x \in Call /\ x.op = "create" /\ x.pc = "checked" /\ x.value = call[c].value
        /\ x.who = call[c].who /\ x.role = call[c].role /\ x.target = call[c].target
        /\ x.desk = call[c].desk
    BY <1>1 DEF Call
  <2>2. call' = [call EXCEPT ![c] = x]
    BY <1>1, <1>3 DEF TypeOK
  <2> HIDE DEF x
  <2>3. /\ call' \in [Calls -> Call \cup {None}] /\ call'[c] = x
        /\ \A e \in Calls \ {c} : Kept(e)
    BY <1>1, <2>1, <2>2, PutFacts
  <2>4. \A e \in Calls : Carries(e) /\ (call'[e] # None /\ call'[e].op = "login" =>
                                          call'[e].pc = call[e].pc)
    BY <1>1, <2>1, <2>3 DEF Carries, Kept
  <2>5. TypeOK' /\ CallsInOrder'
    BY <1>1, <2>1, <2>3, KeepsOrder DEF TypeOK
  <2>6. ProfileShownIsMine' /\ SavesAreMine'
    BY <1>1, <2>4, KeepsProfiles
  <2>7. Managers' = Managers
    BY <1>1 DEF Managers, IsManager, Exists
  <2>8. OneAtATime' /\ TokensAreTrue' /\ SomeoneCanManage'
    BY <1>1, <2>4, <2>7, KeepsManagement
  <2> QED
    BY <2>5, <2>6, <2>8 DEF IInv
<1> QED
  BY <1>2, <1>3 DEF CheckAddress

\* ... and inserts it where there still is none.
LEMMA InsertAdminStep ==
  ASSUME IInv, NEW c \in Calls, InsertAdmin(c)
  PROVE  IInv'
<1> DEFINE t == call[c].target
           x == [role |-> call[c].value, active |-> TRUE]
<1>1. /\ TypeOK /\ UNCHANGED <<desk, crowded, outlived>> /\ End(c)
      /\ call[c] # None /\ call[c] \in Call /\ t \in Admins
      /\ call[c].value \in Roles
      /\ admin' = IF admin[t] # None THEN admin ELSE [admin EXCEPT ![t] = x]
  BY DEF IInv, TypeOK, InsertAdmin, Manages, CallsInOrder, Call, Exists
<1>2. x \in Row
  BY <1>1 DEF Row
<1> HIDE DEF t, x
<1>3. /\ admin' \in [Admins -> Row \cup {None}]
      /\ \A a \in Admins : admin[a] # None => admin'[a] = admin[a]
  BY <1>1, <1>2 DEF TypeOK
<1>4. Managers \subseteq Managers'
  BY <1>3 DEF Managers, IsManager, Exists
<1> QED
  BY <1>1, <1>3, <1>4, EndFacts, QuietStep DEF TypeOK

-----------------------------------------------------------------------------
(* The settings page.                                                      *)

\* What is saved is the profile on display.
LEMMA SaveProfileStep ==
  ASSUME IInv, NEW c \in Calls, NEW d \in Desks, SaveProfile(c, d)
  PROVE  IInv'
<1>1. /\ TypeOK /\ UNCHANGED <<admin, desk, crowded, outlived>>
      /\ call[c] = None /\ desk[d] # None /\ desk[d] \in Session
  BY DEF IInv, TypeOK, SaveProfile, Ask, InApp
<1> DEFINE x == [op |-> "profile", pc |-> "sent", desk |-> d, who |-> desk[d].id,
                 role |-> desk[d].role, target |-> desk[d].profile, value |-> None]
<1>2. /\ x \in Call /\ x.op = "profile" /\ x.pc = "sent" /\ x.desk = d
      /\ x.target = desk[d].profile
  BY <1>1 DEF Call, Session
<1>3. call' = [call EXCEPT ![c] = x]
  BY DEF SaveProfile, Ask
<1> HIDE DEF x
<1>4. /\ call' \in [Calls -> Call \cup {None}] /\ call'[c] = x
      /\ \A e \in Calls \ {c} : Kept(e) /\ call'[e] = call[e]
  BY <1>1, <1>2, <1>3, PutFacts
<1>5. TypeOK' /\ CallsInOrder'
  BY <1>1, <1>2, <1>4, KeepsOrder DEF TypeOK
<1>6. ProfileShownIsMine' /\ SavesAreMine'
  BY <1>1, <1>2, <1>4 DEF IInv, ProfileShownIsMine, SavesAreMine, Heard
<1>7. Managers' = Managers
  BY <1>1 DEF Managers, IsManager, Exists
<1>8. OneAtATime' /\ TokensAreTrue' /\ SomeoneCanManage'
  BY <1>1, <1>2, <1>4, <1>7, KeepsManagement DEF Kept
<1> QED
  BY <1>5, <1>6, <1>8 DEF IInv

LEMMA UpdateMeStep ==
  ASSUME IInv, NEW c \in Calls, UpdateMe(c)
  PROVE  IInv'
<1>1. /\ TypeOK /\ UNCHANGED <<admin, desk, crowded, outlived>>
      /\ call[c] # None /\ call[c] \in Call /\ call[c].op = "profile"
  BY DEF IInv, TypeOK, UpdateMe
<1>2. CASE End(c)
  BY <1>1, <1>2, EndFacts, QuietStep DEF TypeOK, Managers, IsManager, Exists
<1>3. CASE call' = [call EXCEPT ![c].pc = "saved"]
  <2> DEFINE x == [call[c] EXCEPT !.pc = "saved"]
  <2>1. /\ x \in Call /\ x.op = "profile" /\ x.pc = "saved" /\ x.value = call[c].value
        /\ x.who = call[c].who /\ x.role = call[c].role /\ x.target = call[c].target
        /\ x.desk = call[c].desk
    BY <1>1 DEF Call
  <2>2. call' = [call EXCEPT ![c] = x]
    BY <1>1, <1>3 DEF TypeOK
  <2> HIDE DEF x
  <2>3. /\ call' \in [Calls -> Call \cup {None}] /\ call'[c] = x
        /\ \A e \in Calls \ {c} : Kept(e)
    BY <1>1, <2>1, <2>2, PutFacts
  <2>4. \A e \in Calls : Carries(e) /\ (call'[e] # None /\ call'[e].op = "login" =>
                                          call'[e].pc = call[e].pc)
    BY <1>1, <2>1, <2>3 DEF Carries, Kept
  <2>5. TypeOK' /\ CallsInOrder'
    BY <1>1, <2>1, <2>3, KeepsOrder DEF TypeOK
  <2>6. ProfileShownIsMine' /\ SavesAreMine'
    BY <1>1, <2>4, KeepsProfiles
  <2>7. Managers' = Managers
    BY <1>1 DEF Managers, IsManager, Exists
  <2>8. OneAtATime' /\ TokensAreTrue' /\ SomeoneCanManage'
    BY <1>1, <2>4, <2>7, KeepsManagement
  <2> QED
    BY <2>5, <2>6, <2>8 DEF IInv
<1> QED
  BY <1>2, <1>3 DEF UpdateMe

\* The session on display takes over what was saved, its own unless outlived.
LEMMA ShowProfileStep ==
  ASSUME IInv, NEW c \in Calls, NEW d \in Desks, ShowProfile(c, d)
  PROVE  IInv'
<1>1. /\ TypeOK /\ UNCHANGED <<admin, crowded, outlived>> /\ End(c)
      /\ call[c] # None /\ call[c] \in Call /\ call[c].target \in Admins
      /\ Heard(c, d) /\ call[c].op = "profile"
  BY DEF IInv, TypeOK, ShowProfile, Heard, CallsInOrder, Call
<1>2. /\ call' \in [Calls -> Call \cup {None}] /\ call'[c] = None
      /\ \A e \in Calls : Kept(e)
  BY <1>1, EndFacts
<1>3. CASE desk[d] = None
  BY <1>1, <1>2, <1>3, QuietStep DEF ShowProfile, TypeOK, Managers, IsManager, Exists
<1>4. CASE desk[d] # None
  <2> DEFINE s == [desk[d] EXCEPT !.profile = call[c].target]
  <2>1. /\ desk[d] \in Session /\ s \in Session
        /\ s.id = desk[d].id /\ s.role = desk[d].role /\ s.profile = call[c].target
    BY <1>1, <1>4 DEF TypeOK, Session
  <2>2. desk' = [desk EXCEPT ![d] = s]
    BY <1>1, <1>4 DEF ShowProfile, TypeOK
  <2> HIDE DEF s
  <2>3. /\ desk' \in [Desks -> Session \cup {None}] /\ desk'[d] = s
        /\ \A f \in Desks \ {d} : desk'[f] = desk[f]
    BY <1>1, <2>1, <2>2 DEF TypeOK
  <2>4. TypeOK' /\ CallsInOrder'
    BY <1>1, <1>2, <2>3, KeepsOrder DEF TypeOK
  <2>5. ProfileShownIsMine'
    BY <1>1, <1>4, <2>1, <2>3 DEF IInv, ProfileShownIsMine, SavesAreMine
  <2>6. SavesAreMine'
    <3>1. \A e \in Calls, f \in Desks :
            /\ call'[e] # None /\ call'[e].desk = f /\ call'[e].op = "profile"
            => Heard(e, f) /\ call[e].op = "profile" /\ call'[e].target = call[e].target
      BY <1>2, AdminsAssumption DEF Kept, Carries, Heard
    <3>2. \A f \in Desks : desk'[f] # None => desk[f] # None /\ desk'[f].id = desk[f].id
      BY <1>4, <2>1, <2>3
    <3> QED
      BY <1>1, <3>1, <3>2 DEF IInv, SavesAreMine, Heard
  <2>7. \A f \in Desks : desk'[f] # None => /\ desk[f] # None /\ desk'[f].id = desk[f].id
                                             /\ desk'[f].role = desk[f].role
    BY <1>4, <2>1, <2>3
  <2>8. Managers' = Managers
    BY <1>1 DEF Managers, IsManager, Exists
  <2>9. OneAtATime' /\ TokensAreTrue' /\ SomeoneCanManage'
    BY <1>1, <1>2, <2>7, <2>8, KeepsManagement DEF Kept
  <2> QED
    BY <2>4, <2>5, <2>6, <2>9 DEF IInv
<1> QED
  BY <1>3, <1>4

-----------------------------------------------------------------------------
\* Every step keeps the invariant.
LEMMA NextIInv == IInv /\ [Next]_vars => IInv'
<1> SUFFICES ASSUME IInv, [Next]_vars PROVE IInv'
  OBVIOUS
<1>1. ASSUME NEW d \in Desks, Use(d) PROVE IInv'
  BY <1>1, SignOutStep, ReloadStep, SubmitLoginStep, SaveProfileStep, ManageStep DEF Use
<1>2. ASSUME NEW c \in Calls, Handle(c) PROVE IInv'
  BY <1>2, CheckLoginStep, UpdateStep, CheckAddressStep, InsertAdminStep, UpdateMeStep,
     FailStep, SignInStep, ShowProfileStep, TurnAwayStep DEF Handle
<1>3. CASE UNCHANGED vars
  BY <1>3, QuietStep DEF vars, IInv, TypeOK, Kept, Carries, Managers, IsManager, Exists
<1> QED
  BY <1>1, <1>2, <1>3 DEF Next

\* The invariant holds in every reachable state.
THEOREM SpecIInv == Spec => []IInv
<1> QED
  BY InitIInv, NextIInv, PTL DEF Spec

\* Accounts, stored sessions, calls and histories keep their types.
THEOREM TypeCorrect == Spec => []TypeOK
<1>1. IInv => TypeOK
  BY DEF IInv
<1> QED
  BY <1>1, SpecIInv, PTL

\* The name and e-mail on display are the signed-in admin's own, unless a save
\* outlived its session (updateAdmin, the settings page).
THEOREM ProfilesAreOwn == Spec => []ProfileShownIsMine
<1>1. IInv => ProfileShownIsMine
  BY DEF IInv
<1> QED
  BY <1>1, SpecIInv, PTL

\* While users are managed by one at a time, someone is left who can manage
\* them (update, RolesGuard, the admin users page).
THEOREM SomeoneAlwaysManages == Spec => []SomeoneCanManage
<1>1. IInv => SomeoneCanManage
  BY DEF IInv
<1> QED
  BY <1>1, SpecIInv, PTL
=============================================================================
