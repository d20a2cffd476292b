------------------------ MODULE TenantSessionsProofs ------------------------
(***************************************************************************)
(* Proofs about TenantSessions for any tenants, passwords, tabs and calls. *)
(* A comparison only grants what the row it read was good for (TimelyRows);*)
(* a tab only shows what is stored, since its one login is the only call   *)
(* whose answer signs it in (LoginsInOrder).                               *)
(***************************************************************************)
EXTENDS TenantSessions, TLAPS

\* What the server granted, or is about to grant, was right while it had it.
TimelyRows ==
  \A c \in Calls :
    call[c].pc = "accepted" \/ (call[c].pc = "found" /\ Passes(c)) => c \in timely

\* A tab waits for the answer to a login only on /login, and for one at most.
Awaits(w, c) == call[c].op = "login" /\ call[c].tab = w

LoginsInOrder ==
  \A w \in Tabs : \A c \in Calls :
    Awaits(w, c) => /\ tab[w].at = "login"
                    /\ \A d \in Calls : Awaits(w, d) => d = c

\* Token and tenant are stored and removed together.
StoredTogether == storage.token = storage.tenant

\* A change of password has one to write until it is answered.
ChangesComplete ==
  \A c \in Calls :
    call[c].op = "password" /\ call[c].pc \in {"sent", "found", "accepted"}
      => call[c].new \in Passwords

IInv == TypeOK /\ TimelyRows /\ LoginsInOrder /\ StoredTogether /\ ChangesComplete

-----------------------------------------------------------------------------
\* The first state satisfies the invariant.
LEMMA InitIInv == Init => IInv
<1> SUFFICES ASSUME Init PROVE IInv
  OBVIOUS
<1>1. TypeOK
  BY DEF Init, TypeOK, Account, Call, Idle, SignedOut
<1>2. \A c \in Calls : call[c].pc = "idle" /\ call[c].op = "none"
  BY DEF Init, Idle
<1> QED
  BY <1>1, <1>2
     DEF Init, IInv, TimelyRows, LoginsInOrder, Awaits, StoredTogether, SignedOut,
         ChangesComplete

-----------------------------------------------------------------------------
\* One call moves on.  It may be granted only what was right, and it is no login
\* unless it was one, or there was none.
LEMMA CallMoves ==
  ASSUME TypeOK, NEW c \in Calls, NEW x \in Call, call' = [call EXCEPT ![c] = x]
  PROVE  /\ call' \in [Calls -> Call] /\ call'[c] = x
         /\ \A d \in Calls \ {c} : call'[d] = call[d]
BY DEF TypeOK

LEMMA MoveKeepsTimely ==
  ASSUME IInv, Watch, NEW c \in Calls,
         \A d \in Calls \ {c} :
           /\ call'[d].pc = call[d].pc /\ call'[d].op = call[d].op
           /\ call'[d].row = call[d].row,
         (call'[c].pc = "accepted" \/ (call'[c].pc = "found" /\ Passes(c)'))
           => c \in timely \/ Opens(c)
  PROVE  TimelyRows'
<1>1. \A d \in Calls : (/\ call'[d].pc \in {"sent", "found", "accepted"}
                        /\ d \in timely \/ Opens(d)) => d \in timely'
  BY DEF Watch
<1>2. \A d \in Calls \ {c} :
        call'[d].pc = "accepted" \/ (call'[d].pc = "found" /\ Passes(d)') => d \in timely
  BY DEF IInv, TimelyRows, Passes
<1> QED
  BY <1>1, <1>2 DEF TimelyRows

\* Nothing but the page changes for a call that keeps its phase.
LEMMA SameKeepsTimely ==
  ASSUME IInv, Watch,
         \A d \in Calls :
           /\ call'[d].pc = call[d].pc /\ call'[d].op = call[d].op
           /\ call'[d].row = call[d].row
  PROVE  TimelyRows'
<1>1. \A d \in Calls : (/\ call'[d].pc \in {"sent", "found", "accepted"}
                        /\ d \in timely) => d \in timely'
  BY DEF Watch
<1>2. \A d \in Calls :
        call'[d].pc = "accepted" \/ (call'[d].pc = "found" /\ Passes(d)') => d \in timely
  BY DEF IInv, TimelyRows, Passes
<1> QED
  BY <1>1, <1>2 DEF TimelyRows

\* A page load: the calls of w go on, and nobody listens.
LEMMA ForgetsFacts ==
  ASSUME NEW w \in Tabs, NEW calls \in [Calls -> Call]
  PROVE  /\ Forgets(w, calls) \in [Calls -> Call]
         /\ \A d \in Calls :
              LET f == Forgets(w, calls)[d] IN
              /\ f.pc = calls[d].pc /\ f.op = calls[d].op /\ f.row = calls[d].row
              /\ f.new = calls[d].new
              /\ f.tab = IF calls[d].tab = w THEN None ELSE calls[d].tab
<1>1. ASSUME NEW d \in Calls
      PROVE  /\ Forgets(w, calls)[d] \in Call
             /\ LET f == Forgets(w, calls)[d] IN
                /\ f.pc = calls[d].pc /\ f.op = calls[d].op /\ f.row = calls[d].row
              /\ f.new = calls[d].new
                /\ f.tab = IF calls[d].tab = w THEN None ELSE calls[d].tab
  <2>1. calls[d] \in Call
    OBVIOUS
  <2>2. Forgets(w, calls)[d] =
          IF calls[d].tab = w THEN [calls[d] EXCEPT !.tab = None] ELSE calls[d]
    BY DEF Forgets
  <2> QED
    BY <2>1, <2>2 DEF Call
<1>2. Forgets(w, calls) = [d \in Calls |-> Forgets(w, calls)[d]]
  BY DEF Forgets
<1> QED
  BY <1>1, <1>2

-----------------------------------------------------------------------------
\* The server's own steps: one call moves, the browser is as it was, and no
\* login starts.
LEMMA HandleMoves ==
  ASSUME IInv, NEW c \in Calls, Handle(c)
  PROVE  \E x \in Call :
           /\ call' = [call EXCEPT ![c] = x]
           /\ x.op = "login" => call[c].op = "login" /\ x.tab = call[c].tab
           /\ (x.pc = "accepted" \/ (x.pc = "found" /\
                 (x.row = "fits" \/ (x.op = "password" /\ x.row = "locked"))))
                => c \in timely \/ Opens(c)
           /\ x.op = "password" /\ x.pc \in {"sent", "found", "accepted"}
                => x.new \in Passwords
<1>1. /\ TypeOK /\ call[c] \in Call
      /\ call[c].op = "password" /\ call[c].pc \in {"sent", "found", "accepted"}
           => call[c].new \in Passwords
  BY DEF IInv, TypeOK, ChangesComplete
<1>2. CASE FindAccount(c)
  <2> DEFINE x == [call[c] EXCEPT !.pc = "found", !.row = Row(c), !.typed = None]
  <2>1. call' = [call EXCEPT ![c] = x]
    BY <1>1, <1>2 DEF FindAccount, TypeOK
  <2>2. Row(c) \in {"fits", "locked", "other"}
    BY DEF Row
  <2>3. /\ x \in Call /\ x.op = call[c].op /\ x.tab = call[c].tab
        /\ x.pc = "found" /\ x.row = Row(c) /\ x.new = call[c].new
    BY <1>1, <2>2 DEF Call
  <2>4. call[c].pc = "sent" /\ call[c].who # None
    BY <1>2 DEF FindAccount, At
  <2>5. Row(c) = "fits" \/ (call[c].op = "password" /\ Row(c) = "locked") => Opens(c)
    BY <2>4 DEF Opens, Row
  <2> HIDE DEF x
  <2> QED
    BY <1>1, <2>1, <2>3, <2>4, <2>5
<1>3. CASE Compare(c) /\ Passes(c)
  <2> DEFINE x == [call[c] EXCEPT !.pc = "accepted", !.row = None]
  <2>1. call' = [call EXCEPT ![c] = x]
    BY <1>1, <1>3 DEF Compare, TypeOK
  <2>2. x \in Call /\ x.op = call[c].op /\ x.tab = call[c].tab /\ x.new = call[c].new
    BY <1>1 DEF Call
  <2>3. c \in timely /\ call[c].pc = "found"
    BY <1>3 DEF Compare, IInv, TimelyRows
  <2> HIDE DEF x
  <2> QED
    BY <1>1, <2>1, <2>2, <2>3
<1>4. CASE TurnAway(c) \/ (Compare(c) /\ ~Passes(c))
  <2> DEFINE x == [Idle EXCEPT !.op = call[c].op, !.tab = call[c].tab,
                               !.pc = "unauthorized"]
  <2>1. call' = [call EXCEPT ![c] = x]
    BY <1>4 DEF Compare, TurnAway, Refuse
  <2>2. x \in Call /\ x.op = call[c].op /\ x.tab = call[c].tab /\ x.pc = "unauthorized"
    BY <1>1 DEF Call, Idle
  <2> HIDE DEF x
  <2> QED
    BY <2>1, <2>2
<1>5. CASE SignToken(c)
  <2> DEFINE x == [call[c] EXCEPT !.pc = "ok"]
  <2>1. call' = [call EXCEPT ![c] = x]
    BY <1>1, <1>5 DEF SignToken, TypeOK
  <2>2. x \in Call /\ x.op = call[c].op /\ x.tab = call[c].tab /\ x.pc = "ok"
    BY <1>1 DEF Call
  <2> HIDE DEF x
  <2> QED
    BY <2>1, <2>2
<1>6. CASE Serve(c) \/ WritePassword(c) \/ Fail(c)
  <2>1. call' = [call EXCEPT ![c] = Idle]
    BY <1>6 DEF Serve, WritePassword, Fail, End
  <2>2. Idle \in Call /\ Idle.op = "none" /\ Idle.pc = "idle"
    BY DEF Call, Idle
  <2> QED
    BY <2>1, <2>2
<1> QED
  BY <1>2, <1>3, <1>4, <1>5, <1>6 DEF Handle

LEMMA HandleStep ==
  ASSUME IInv, Watch, NEW c \in Calls, Handle(c)
  PROVE  IInv' /\ UNCHANGED browser
<1>1. TypeOK /\ call[c] \in Call
  BY DEF IInv, TypeOK
<1>2. UNCHANGED browser
  BY DEF Handle, FindAccount, Compare, SignToken, TurnAway, Serve, WritePassword, Fail
<1>3. PICK x \in Call :
        /\ call' = [call EXCEPT ![c] = x]
        /\ x.op = "login" => call[c].op = "login" /\ x.tab = call[c].tab
        /\ (x.pc = "accepted" \/ (x.pc = "found" /\
              (x.row = "fits" \/ (x.op = "password" /\ x.row = "locked"))))
             => c \in timely \/ Opens(c)
        /\ x.op = "password" /\ x.pc \in {"sent", "found", "accepted"}
             => x.new \in Passwords
  BY HandleMoves
<1>4. /\ call' \in [Calls -> Call] /\ call'[c] = x
      /\ \A d \in Calls \ {c} : call'[d] = call[d]
  BY <1>1, <1>3, CallMoves
<1>5. account' \in [Tenants -> Account]
  <2>1. CASE WritePassword(c)
    <3>1. /\ call[c].new \in Passwords
          /\ account' = [account EXCEPT ![call[c].who].password = call[c].new]
      BY <2>1 DEF WritePassword, At, IInv, ChangesComplete
    <3>2. CASE call[c].who \in Tenants
      <4>1. [account[call[c].who] EXCEPT !.password = call[c].new] \in Account
        BY <1>1, <3>1, <3>2 DEF TypeOK, Account
      <4> QED
        BY <1>1, <3>1, <3>2, <4>1 DEF TypeOK
    <3>3. CASE call[c].who \notin Tenants
      BY <1>1, <3>1, <3>3 DEF TypeOK
    <3> QED
      BY <3>2, <3>3
  <2>2. CASE ~WritePassword(c)
    BY <1>1, <2>2
       DEF Handle, FindAccount, Compare, SignToken, TurnAway, Serve, Fail, TypeOK
  <2> QED
    BY <2>1, <2>2
<1>6. TypeOK'
  BY <1>1, <1>2, <1>4, <1>5 DEF TypeOK, browser, Watch
<1>7. TimelyRows'
  BY <1>3, <1>4, MoveKeepsTimely DEF Passes
<1>8. LoginsInOrder' /\ StoredTogether'
  BY <1>2, <1>3, <1>4 DEF IInv, LoginsInOrder, Awaits, StoredTogether, browser
<1>9. ChangesComplete'
  BY <1>3, <1>4 DEF IInv, ChangesComplete
<1> QED
  BY <1>2, <1>6, <1>7, <1>8, <1>9 DEF IInv

-----------------------------------------------------------------------------
\* A request is sent: only a page on /login that awaits no login sends one.
LEMMA SubmitStep ==
  ASSUME IInv, Watch, NEW c \in Calls, NEW w \in Tabs,
         SubmitLogin(c, w) \/ SubmitPassword(c, w) \/ Read(c, w)
  PROVE  IInv' /\ UNCHANGED browser
<1>1. TypeOK /\ UNCHANGED <<account, browser>>
  BY DEF IInv, SubmitLogin, SubmitPassword, Read
<1>2. PICK x \in Call :
        /\ call' = [call EXCEPT ![c] = x]
        /\ x.pc = "sent"
        /\ \/ x.op # "login"
           \/ /\ x.tab = w /\ tab[w].at = "login"
              /\ \A d \in Calls : ~Awaits(w, d)
        /\ x.op = "password" => x.new \in Passwords
  <2>1. CASE SubmitLogin(c, w)
    <3>1. PICK t \in Tenants, p \in Passwords :
            call' = [call EXCEPT ![c] =
                       [Idle EXCEPT !.op = "login", !.pc = "sent", !.tab = w,
                                    !.who = t, !.typed = p]]
      BY <2>1 DEF SubmitLogin
    <3> DEFINE x == [Idle EXCEPT !.op = "login", !.pc = "sent", !.tab = w,
                                 !.who = t, !.typed = p]
    <3>2. x \in Call /\ x.op = "login" /\ x.pc = "sent" /\ x.tab = w
      BY DEF Call, Idle
    <3>3. tab[w].at = "login" /\ \A d \in Calls : ~Awaits(w, d)
      BY <2>1 DEF SubmitLogin, Awaits
    <3> HIDE DEF x
    <3> QED
      BY <3>1, <3>2, <3>3 DEF x
  <2>2. CASE SubmitPassword(c, w)
    <3>1. PICK p \in Passwords, n \in Passwords :
            call' = [call EXCEPT ![c] =
                       [WithToken("password", w) EXCEPT !.typed = p, !.new = n]]
      BY <2>2 DEF SubmitPassword
    <3> DEFINE x == [WithToken("password", w) EXCEPT !.typed = p, !.new = n]
    <3>2. storage.token \in Tenants \cup {None}
      BY <1>1 DEF TypeOK
    <3>3. x \in Call /\ x.op = "password" /\ x.pc = "sent" /\ x.new = n
      BY <3>2 DEF Call, Idle, WithToken
    <3> HIDE DEF x
    <3> QED
      BY <3>1, <3>3 DEF x
  <2>3. CASE Read(c, w)
    <3>1. storage.token \in Tenants \cup {None}
      BY <1>1 DEF TypeOK
    <3>2. LET x == WithToken("read", w) IN
          x \in Call /\ x.op = "read" /\ x.pc = "sent"
      BY <3>1 DEF Call, Idle, WithToken
    <3> QED
      BY <2>3, <3>2 DEF Read
  <2> QED
    BY <2>1, <2>2, <2>3
<1>3. /\ call' \in [Calls -> Call] /\ call'[c] = x
      /\ \A d \in Calls \ {c} : call'[d] = call[d]
  BY <1>1, <1>2, CallMoves
<1>4. TypeOK'
  BY <1>1, <1>3 DEF TypeOK, browser, Watch
<1>5. TimelyRows'
  BY <1>2, <1>3, MoveKeepsTimely
<1>6. LoginsInOrder'
  BY <1>1, <1>2, <1>3 DEF IInv, LoginsInOrder, Awaits, browser
<1>7. StoredTogether' /\ ChangesComplete'
  BY <1>1, <1>2, <1>3 DEF IInv, StoredTogether, ChangesComplete, browser
<1> QED
  BY <1>1, <1>4, <1>5, <1>6, <1>7 DEF IInv

-----------------------------------------------------------------------------
\* An answer reaches its tab, or finds nobody.
LEMMA ReceiveStep ==
  ASSUME IInv, Watch, NEW c \in Calls, Receive(c)
  PROVE  IInv'
<1>1. /\ TypeOK /\ call[c] \in Call /\ UNCHANGED account
      /\ Idle \in Call /\ Idle.op = "none" /\ Idle.pc = "idle"
  BY DEF IInv, TypeOK, Receive, SignIn, Unauthorized, Unheard, Call, Idle
<1> DEFINE answered == [call EXCEPT ![c] = Idle]
<1>2. /\ answered \in [Calls -> Call] /\ answered[c] = Idle
      /\ \A d \in Calls \ {c} : answered[d] = call[d]
  BY <1>1 DEF TypeOK
<1> HIDE DEF answered
<1>3. CASE SignIn(c) \/ Unheard(c)
  <2>1. call' = answered
    BY <1>3 DEF SignIn, Unheard, End, answered
  <2>2. TimelyRows' /\ ChangesComplete'
    <3>1. TimelyRows'
      BY <1>1, <1>2, <2>1, MoveKeepsTimely
    <3>2. ChangesComplete'
      BY <1>1, <1>2, <2>1 DEF IInv, ChangesComplete
    <3> QED
      BY <3>1, <3>2
  <2>3. CASE SignIn(c)
    <3> DEFINE w == call[c].tab
               t == call[c].who
    <3>1. /\ w \in Tabs /\ t \in Tenants \cup {None} /\ Awaits(w, c)
          /\ storage' = [token |-> t, tenant |-> t]
          /\ tab' = [tab EXCEPT ![w] = [at |-> "page", shown |-> t]]
      BY <1>1, <2>3 DEF SignIn, At, Awaits, Call
    <3> HIDE DEF w, t
    <3>2. /\ storage' \in [token : Tenants \cup {None}, tenant : Tenants \cup {None}]
          /\ tab' \in [Tabs -> [at : {"login", "page"}, shown : Tenants \cup {None}]]
          /\ \A v \in Tabs \ {w} : tab'[v] = tab[v]
      BY <1>1, <3>1 DEF TypeOK
    <3>3. LoginsInOrder'
      <4> SUFFICES ASSUME NEW v \in Tabs, NEW d \in Calls, Awaits(v, d)'
                   PROVE  (tab[v].at = "login" /\ \A f \in Calls : Awaits(v, f) => f = d)'
        BY DEF LoginsInOrder
      <4>1. d # c /\ Awaits(v, d)
        BY <1>1, <1>2, <2>1 DEF Awaits
      <4>2. v # w
        BY <3>1, <4>1 DEF IInv, LoginsInOrder
      <4>3. tab[v].at = "login" /\ \A f \in Calls : Awaits(v, f) => f = d
        BY <4>1 DEF IInv, LoginsInOrder
      <4>4. \A f \in Calls : Awaits(v, f)' => Awaits(v, f)
        BY <1>1, <1>2, <2>1 DEF Awaits
      <4> QED
        BY <3>2, <4>2, <4>3, <4>4
    <3>4. StoredTogether'
      BY <3>1 DEF StoredTogether
    <3> QED
      BY <1>1, <1>2, <2>1, <2>2, <3>2, <3>3, <3>4 DEF IInv, TypeOK, Watch
  <2>4. CASE Unheard(c)
    <3>1. UNCHANGED <<storage, tab>>
      BY <2>4 DEF Unheard, browser
    <3>2. LoginsInOrder'
      BY <1>1, <1>2, <2>1, <3>1 DEF IInv, LoginsInOrder, Awaits
    <3> QED
      BY <1>1, <1>2, <2>1, <2>2, <3>1, <3>2 DEF IInv, TypeOK, StoredTogether, Watch
  <2> QED
    BY <1>3, <2>3, <2>4
<1>4. CASE Unauthorized(c)
  <2> DEFINE w == call[c].tab
  <2>1. /\ w \in Tabs /\ storage' = SignedOut
        /\ \/ /\ tab' = [tab EXCEPT ![w] = [at |-> "login", shown |-> None]]
              /\ call' = Forgets(w, answered)
           \/ call' = answered /\ UNCHANGED tab
    BY <1>1, <1>4 DEF Unauthorized, Call, answered
  <2> HIDE DEF w
  <2>2. /\ call' \in [Calls -> Call]
        /\ \A d \in Calls :
             /\ call'[d].pc = answered[d].pc /\ call'[d].op = answered[d].op
             /\ call'[d].row = answered[d].row /\ call'[d].new = answered[d].new
             /\ \A v \in Tabs : call'[d].tab = v => answered[d].tab = v
    BY <1>2, <2>1, ForgetsFacts, SessionsAssumption
  <2>3. TimelyRows'
    BY <1>1, <1>2, <2>2, MoveKeepsTimely
  <2>4. ChangesComplete'
    BY <1>1, <1>2, <2>2 DEF IInv, ChangesComplete
  <2>5. /\ tab' \in [Tabs -> [at : {"login", "page"}, shown : Tenants \cup {None}]]
        /\ \A v \in Tabs : tab[v].at = "login" => tab'[v].at = "login"
    BY <1>1, <2>1 DEF TypeOK
  <2>6. LoginsInOrder'
    <3>1. \A v \in Tabs, d \in Calls : Awaits(v, d)' => Awaits(v, d)
      BY <1>1, <1>2, <2>2 DEF Awaits
    <3> QED
      BY <2>5, <3>1 DEF IInv, LoginsInOrder
  <2> QED
    BY <1>1, <2>1, <2>2, <2>3, <2>4, <2>5, <2>6
       DEF IInv, TypeOK, SignedOut, StoredTogether, Watch
<1> QED
  BY <1>3, <1>4 DEF Receive

\* A page is loaded anew, or shows /login after a sign-out.
LEMMA LeaveStep ==
  ASSUME IInv, Watch, NEW w \in Tabs, SignOut(w) \/ Load(w)
  PROVE  IInv'
<1>1. TypeOK /\ UNCHANGED account
  BY DEF IInv, SignOut, Load
<1>2. PICK x \in [at : {"login", "page"}, shown : Tenants \cup {None}] :
        tab' = [tab EXCEPT ![w] = x]
  BY <1>1 DEF SignOut, Load, TypeOK
<1>3. /\ tab' \in [Tabs -> [at : {"login", "page"}, shown : Tenants \cup {None}]]
      /\ \A v \in Tabs \ {w} : tab'[v] = tab[v]
  BY <1>1, <1>2 DEF TypeOK
<1>4. CASE SignOut(w)
  <2>1. storage' = SignedOut /\ UNCHANGED call /\ tab[w].at = "page"
    BY <1>4 DEF SignOut
  <2>2. TimelyRows'
    BY <2>1, SameKeepsTimely
  <2>3. LoginsInOrder'
    <3>1. \A d \in Calls : ~Awaits(w, d)
      BY <2>1 DEF IInv, LoginsInOrder
    <3>2. \A v \in Tabs, d \in Calls : Awaits(v, d)' = Awaits(v, d)
      BY <2>1 DEF Awaits
    <3> QED
      BY <1>3, <3>1, <3>2 DEF IInv, LoginsInOrder
  <2> QED
    BY <1>1, <1>3, <2>1, <2>2, <2>3
       DEF IInv, TypeOK, SignedOut, StoredTogether, ChangesComplete, Watch
<1>5. CASE Load(w)
  <2>1. UNCHANGED storage /\ call' = Forgets(w, call)
    BY <1>5 DEF Load
  <2>2. /\ call' \in [Calls -> Call]
        /\ \A d \in Calls :
             /\ call'[d].pc = call[d].pc /\ call'[d].op = call[d].op
             /\ call'[d].row = call[d].row /\ call'[d].new = call[d].new
             /\ call'[d].tab = IF call[d].tab = w THEN None ELSE call[d].tab
    BY <1>1, <2>1, ForgetsFacts DEF TypeOK
  <2>3. TimelyRows'
    BY <2>2, SameKeepsTimely
  <2>4. LoginsInOrder'
    <3>1. \A v \in Tabs, d \in Calls : Awaits(v, d)' => v # w /\ Awaits(v, d)
      BY <2>2, SessionsAssumption DEF Awaits
    <3> QED
      BY <1>3, <3>1 DEF IInv, LoginsInOrder
  <2> QED
    BY <1>1, <1>3, <2>1, <2>2, <2>3, <2>4
       DEF IInv, TypeOK, StoredTogether, ChangesComplete, Watch
<1> QED
  BY <1>4, <1>5

\* Super Admin changes an account while calls are under way.
LEMMA AdministerStep ==
  ASSUME IInv, Watch, NEW t \in Tenants, Administer(t)
  PROVE  IInv' /\ UNCHANGED browser
<1>1. TypeOK /\ account[t] \in Account /\ UNCHANGED <<call, storage, tab>>
  BY DEF IInv, TypeOK, Administer, browser
<1>2. account' \in [Tenants -> Account]
  <2>1. PICK x \in Account : account' = [account EXCEPT ![t] = x]
    <3>1. CASE \E p \in Passwords : account' = [account EXCEPT ![t].password = p]
      <4>1. PICK p \in Passwords : account' = [account EXCEPT ![t].password = p]
        BY <3>1
      <4>2. [account[t] EXCEPT !.password = p] \in Account
        BY <1>1 DEF Account
      <4> QED
        BY <4>1, <4>2
    <3>2. CASE \E b \in BOOLEAN : account' = [account EXCEPT ![t].active = b]
      <4>1. PICK b \in BOOLEAN : account' = [account EXCEPT ![t].active = b]
        BY <3>2
      <4>2. [account[t] EXCEPT !.active = b] \in Account
        BY <1>1 DEF Account
      <4> QED
        BY <4>1, <4>2
    <3> QED
      BY <3>1, <3>2 DEF Administer
  <2> QED
    BY <1>1, <2>1 DEF TypeOK
<1>3. TimelyRows'
  BY <1>1, SameKeepsTimely
<1> QED
  BY <1>1, <1>2, <1>3
     DEF IInv, TypeOK, LoginsInOrder, Awaits, StoredTogether, ChangesComplete, Watch, browser

-----------------------------------------------------------------------------
\* Every step keeps the invariant.
LEMMA NextIInv == IInv /\ [Next]_vars => IInv'
<1> SUFFICES ASSUME IInv, [Next]_vars PROVE IInv'
  OBVIOUS
<1>1. CASE Next
  <2>1. Watch /\ Step
    BY <1>1 DEF Next
  <2>2. ASSUME NEW w \in Tabs, Use(w) PROVE IInv'
    BY <2>1, <2>2, SubmitStep, LeaveStep DEF Use
  <2> QED
    BY <2>1, <2>2, AdministerStep, HandleStep, ReceiveStep DEF Step
<1>2. CASE UNCHANGED vars
  BY <1>2 DEF vars, browser, IInv, TypeOK, TimelyRows, Passes, LoginsInOrder, Awaits,
              StoredTogether, ChangesComplete
<1> QED
  BY <1>1, <1>2

\* The invariant holds in every reachable state.
THEOREM SpecIInv == Spec => []IInv
<1> QED
  BY InitIInv, NextIInv, PTL DEF Spec

\* Accounts, calls, the stored session and the tabs keep their types.
THEOREM TypeCorrect == Spec => []TypeOK
<1>1. IInv => TypeOK
  BY DEF IInv
<1> QED
  BY <1>1, SpecIInv, PTL

\* What a login or a change of password is granted was right at some moment
\* while the server had it, whatever is locked or reset meanwhile (login,
\* changeMyPassword).
THEOREM GrantsAreTimely == Spec => []AnswersAreTimely
<1>1. IInv => AnswersAreTimely
  BY DEF IInv, TimelyRows, AnswersAreTimely
<1> QED
  BY <1>1, SpecIInv, PTL

-----------------------------------------------------------------------------
\* One step of a tab that shows what is stored.
LEMMA StepActs ==
  ASSUME IInv, [Next]_vars, NEW w \in Tabs, Agrees(w)
  PROVE  \/ Agrees(w)'
         \/ \E v \in Tabs \ {w} : tab[v].at = "login" /\ tab'[v].at = "page"
<1>1. TypeOK
  BY DEF IInv
<1>2. CASE UNCHANGED browser
  BY <1>2 DEF Agrees, browser
<1>3. ASSUME NEW c \in Calls, SignIn(c)
      PROVE  \/ Agrees(w)'
             \/ \E v \in Tabs \ {w} : tab[v].at = "login" /\ tab'[v].at = "page"
  <2> DEFINE v == call[c].tab
             t == call[c].who
  <2>1. /\ v \in Tabs /\ Awaits(v, c)
        /\ storage' = [token |-> t, tenant |-> t]
        /\ tab' = [tab EXCEPT ![v] = [at |-> "page", shown |-> t]]
    BY <1>1, <1>3 DEF SignIn, At, Awaits, TypeOK, Call
  <2> HIDE DEF v, t
  <2>2. tab[v].at = "login"
    BY <2>1 DEF IInv, LoginsInOrder
  <2>3. tab'[v] = [at |-> "page", shown |-> t]
    BY <1>1, <2>1 DEF TypeOK
  <2> QED
    BY <2>1, <2>2, <2>3 DEF Agrees
<1>4. ASSUME storage' = SignedOut PROVE Agrees(w)'
  BY <1>4 DEF Agrees, SignedOut
<1>5. ASSUME NEW v \in Tabs, Load(v) PROVE Agrees(w)'
  <2>1. PICK at \in {"login", "page"} :
          tab' = [tab EXCEPT ![v] = [at |-> at, shown |-> storage.tenant]]
    BY <1>5 DEF Load
  <2>2. UNCHANGED storage /\ storage.token = storage.tenant
    BY <1>5 DEF Load, IInv, StoredTogether
  <2>3. tab'[w].shown = storage.tenant \/ tab'[w] = tab[w]
    BY <1>1, <2>1 DEF TypeOK
  <2> QED
    BY <2>2, <2>3 DEF Agrees
<1>6. CASE UNCHANGED vars
  BY <1>2, <1>6 DEF vars, browser
<1>7. ASSUME NEW c \in Calls, Handle(c) PROVE UNCHANGED browser
  BY <1>7 DEF Handle, FindAccount, Compare, SignToken, TurnAway, Serve, WritePassword,
              Fail
<1>8. ASSUME NEW c \in Calls, Receive(c)
      PROVE  SignIn(c) \/ storage' = SignedOut \/ UNCHANGED browser
  BY <1>8 DEF Receive, Unauthorized, Unheard
<1>9. ASSUME NEW v \in Tabs, Use(v)
      PROVE  Load(v) \/ storage' = SignedOut \/ UNCHANGED browser
  BY <1>9 DEF Use, SignOut, SubmitLogin, SubmitPassword, Read
<1>10. ASSUME NEW t \in Tenants, Administer(t) PROVE UNCHANGED browser
  BY <1>10 DEF Administer
<1> QED
  BY <1>2, <1>3, <1>4, <1>5, <1>6, <1>7, <1>8, <1>9, <1>10 DEF Next, Step

\* A tab stops acting for the tenant it shows only because another tab signed
\* in (AuthContext, the interceptors, ProtectedRoute).
THEOREM TabsActForWhomTheyShow == Spec => ActsForWhomItShows
<1>1. IInv /\ [Next]_vars =>
        [\A w \in Tabs :
           Agrees(w) => \/ Agrees(w)'
                        \/ \E v \in Tabs \ {w} :
                              tab[v].at = "login" /\ tab'[v].at = "page"]_vars
  BY StepActs
<1> QED
  BY <1>1, SpecIInv, PTL DEF Spec, ActsForWhomItShows
=============================================================================
