--------------------------- MODULE TenantSessions ---------------------------
(***************************************************************************)
(* Sessions of the Tenant Dashboard: the /auth handlers over the accounts, *)
(* the tokens they sign, and the tabs of one browser that share a stored   *)
(* token.  Super Admin locks accounts and resets their passwords while     *)
(* logins and changes of password are under way.                           *)
(*                                                                         *)
(* A tenant stands for its login address: Provisioning keeps addresses     *)
(* unique.  A token is the tenant id it was signed for; it expires 12      *)
(* hours later, which the server may find whenever it looks.               *)
(***************************************************************************)

CONSTANTS
    Tenants, Passwords,
    Tabs,         \* tabs of one browser
    Calls,        \* HTTP calls that may be under way
    None

ASSUME SessionsAssumption == None \notin Tenants \cup Passwords \cup Tabs

VARIABLES
    account,      \* tenant_accounts: password and isActive
    call,         \* every call, from the submit to its answer
    storage,      \* localStorage: token and tenant, shared by the tabs
    tab,          \* what each tab shows
    timely        \* history: see Watch

browser == <<storage, tab>>
vars == <<account, call, storage, tab, timely>>

-----------------------------------------------------------------------------
Account == [password : Passwords, active : BOOLEAN]

Call ==
    [op : {"none", "login", "password", "read"},
     pc : {"idle", "sent", "found", "accepted", "ok", "unauthorized"},
     tab : Tabs \cup {None},          \* None: a page load forgot the call
     who : Tenants \cup {None},       \* the address typed, or the token sent
     typed : Passwords \cup {None},
     new : Passwords \cup {None},
     row : {None, "fits", "locked", "other"}] \* the account read: see Row

Idle == [op |-> "none", pc |-> "idle", tab |-> None, who |-> None,
         typed |-> None, new |-> None, row |-> None]

SignedOut == [token |-> None, tenant |-> None]

TypeOK ==
    /\ account \in [Tenants -> Account]
    /\ call \in [Calls -> Call]
    /\ storage \in [token : Tenants \cup {None}, tenant : Tenants \cup {None}]
    /\ tab \in [Tabs -> [at : {"login", "page"}, shown : Tenants \cup {None}]]
    /\ timely \in SUBSET Calls

Init ==
    /\ account \in [Tenants -> [password : Passwords, active : {TRUE}]]
    /\ call = [c \in Calls |-> Idle]
    /\ storage = SignedOut
    /\ tab = [w \in Tabs |-> [at |-> "login", shown |-> None]]
    /\ timely = {}

-----------------------------------------------------------------------------
(* The browser sends.                                                      *)

\* `loading` keeps a page to one login at a time.
SubmitLogin(c, w) ==
    /\ call[c] = Idle
    /\ tab[w].at = "login"
    /\ \A d \in Calls : ~(call[d].op = "login" /\ call[d].tab = w)
    /\ \E t \in Tenants, p \in Passwords :
          call' = [call EXCEPT ![c] =
                     [Idle EXCEPT !.op = "login", !.pc = "sent", !.tab = w,
                                  !.who = t, !.typed = p]]
    /\ UNCHANGED <<account, browser>>

\* The request interceptor adds the token that is stored now.
WithToken(op, w) ==
    [Idle EXCEPT !.op = op, !.pc = "sent", !.tab = w, !.who = storage.token]

\* Slip: the new password is left out of the body.
SubmitWithoutNew(c, w) ==
    /\ call[c] = Idle
    /\ tab[w].at = "page"
    /\ \E p \in Passwords :
          call' = [call EXCEPT ![c] = [WithToken("password", w) EXCEPT !.typed = p]]
    /\ UNCHANGED <<account, browser>>

\* `saving` lasts only as long as the visit to the page, so it bounds nothing.
SubmitPassword(c, w) ==
    /\ call[c] = Idle
    /\ tab[w].at = "page"
    /\ \E p, n \in Passwords :
          call' = [call EXCEPT ![c] =
                     [WithToken("password", w) EXCEPT !.typed = p, !.new = n]]
    /\ UNCHANGED <<account, browser>>

\* Whatever else a page asks for.
Read(c, w) ==
    /\ call[c] = Idle
    /\ tab[w].at = "page"
    /\ call' = [call EXCEPT ![c] = WithToken("read", w)]
    /\ UNCHANGED <<account, browser>>

-----------------------------------------------------------------------------
(* The server answers.                                                     *)

At(c, op, pc) == call[c].op = op /\ call[c].pc = pc
End(c) == call' = [call EXCEPT ![c] = Idle]
Refuse(c) ==
    call' = [call EXCEPT ![c] = [Idle EXCEPT !.op = call[c].op, !.tab = call[c].tab,
                                             !.pc = "unauthorized"]]

\* What bcrypt.compare and isActive will say of the row as it is now.
Row(c) ==
    LET row == account[call[c].who] IN
    IF row.password # call[c].typed THEN "other"
    ELSE IF row.active THEN "fits" ELSE "locked"

\* findUnique, by the address for login and by the token's id for a change.
FindAccount(c) ==
    /\ At(c, "login", "sent") \/ At(c, "password", "sent")
    /\ call[c].who # None
    /\ call' = [call EXCEPT ![c].pc = "found", ![c].row = Row(c), ![c].typed = None]
    /\ UNCHANGED <<account, browser>>

\* Slip: isActive is not looked at.
PassesLocked(c) == call[c].row # "other"

\* Only a login asks for isActive.
Passes(c) == call[c].row = "fits" \/ (call[c].op = "password" /\ call[c].row = "locked")

\* The comparison is slow: the row may be another by now.
Compare(c) ==
    /\ call[c].pc = "found"
    /\ IF Passes(c)
       THEN call' = [call EXCEPT ![c].pc = "accepted", ![c].row = None]
       ELSE Refuse(c)
    /\ UNCHANGED <<account, browser>>

\* lastLoginAt is written and the token signed, whatever the row says by now.
SignToken(c) ==
    /\ At(c, "login", "accepted")
    /\ call' = [call EXCEPT ![c].pc = "ok"]
    /\ UNCHANGED <<account, browser>>

\* JwtAuthGuard: there is no token, or it has expired.
TurnAway(c) ==
    /\ At(c, "password", "sent") \/ At(c, "read", "sent")
    /\ Refuse(c)
    /\ UNCHANGED <<account, browser>>

\* Otherwise JwtStrategy trusts the token; the account is not looked up.
Serve(c) ==
    /\ At(c, "read", "sent") /\ call[c].who # None
    /\ End(c)
    /\ UNCHANGED <<account, browser>>

\* The new hash replaces whatever hash is there by now; the page that asked
\* only empties its form.
WritePassword(c) ==
    /\ At(c, "password", "accepted")
    /\ account' = [account EXCEPT ![call[c].who].password = call[c].new]
    /\ End(c)
    /\ UNCHANGED browser

\* No answer, or a 5xx, before or after the server's writes: a page only says so.
Fail(c) ==
    /\ call[c].pc \in {"sent", "found", "accepted", "ok"}
    /\ End(c)
    /\ UNCHANGED <<account, browser>>

\* provision, called again, resets; setAccountActive locks and unlocks.
Administer(t) ==
    /\ \/ \E p \in Passwords : account' = [account EXCEPT ![t].password = p]
       \/ \E b \in BOOLEAN : account' = [account EXCEPT ![t].active = b]
    /\ UNCHANGED <<call, browser>>

-----------------------------------------------------------------------------
(* The browser is answered.                                                *)

\* A full page load of w: its calls go on, but nobody listens.
Forgets(w, calls) ==
    [c \in Calls |-> IF calls[c].tab = w THEN [calls[c] EXCEPT !.tab = None]
                     ELSE calls[c]]

\* Slip: setTenant is missing.
SignInUnseen(c) ==
    /\ At(c, "login", "ok") /\ call[c].tab # None
    /\ storage' = [token |-> call[c].who, tenant |-> call[c].who]
    /\ tab' = [tab EXCEPT ![call[c].tab].at = "page"]
    /\ End(c)
    /\ UNCHANGED account

\* AuthContext.login after its await, and the redirect to /dashboard.
SignIn(c) ==
    /\ At(c, "login", "ok") /\ call[c].tab # None
    /\ storage' = [token |-> call[c].who, tenant |-> call[c].who]
    /\ tab' = [tab EXCEPT ![call[c].tab] = [at |-> "page", shown |-> call[c].who]]
    /\ End(c)
    /\ UNCHANGED account

\* The response interceptor: any 401 ends the session that is stored now, and
\* loads /login unless the tab is there.
Unauthorized(c) ==
    LET w == call[c].tab
        answered == [call EXCEPT ![c] = Idle]
    IN
    /\ call[c].pc = "unauthorized" /\ w # None
    /\ storage' = SignedOut
    /\ \/ /\ tab[w].at = "page"
          /\ tab' = [tab EXCEPT ![w] = [at |-> "login", shown |-> None]]
          /\ call' = Forgets(w, answered)
       \/ /\ tab[w].at = "login"
          /\ call' = answered
          /\ UNCHANGED tab
    /\ UNCHANGED account

\* The tab that asked has been loaded anew.
Unheard(c) ==
    /\ call[c].pc \in {"ok", "unauthorized"} /\ call[c].tab = None
    /\ End(c)
    /\ UNCHANGED <<account, browser>>

\* logout; ProtectedRoute then shows /login in place of the page.
SignOut(w) ==
    /\ tab[w].at = "page"
    /\ storage' = SignedOut
    /\ tab' = [tab EXCEPT ![w] = [at |-> "login", shown |-> None]]
    /\ UNCHANGED <<account, call>>

\* The address bar, a reload: React starts again from localStorage, and only
\* /login is open without a tenant.
Load(w) ==
    /\ \E at \in {"login", "page"} :
          /\ at = "page" => storage.tenant # None
          /\ tab' = [tab EXCEPT ![w] = [at |-> at, shown |-> storage.tenant]]
    /\ call' = Forgets(w, call)
    /\ UNCHANGED <<account, storage>>

-----------------------------------------------------------------------------
Use(w) ==
    \/ \E c \in Calls : SubmitLogin(c, w) \/ SubmitPassword(c, w) \/ Read(c, w)
    \/ SignOut(w) \/ Load(w)

Handle(c) ==
    \/ FindAccount(c) \/ Compare(c) \/ SignToken(c) \/ WritePassword(c)
    \/ TurnAway(c) \/ Serve(c) \/ Fail(c)

Receive(c) == SignIn(c) \/ Unauthorized(c) \/ Unheard(c)

\* What c has given would be enough now.
Opens(c) ==
    /\ call[c].pc = "sent" /\ call[c].who # None
    /\ account[call[c].who].password = call[c].typed
    /\ call[c].op = "login" => account[call[c].who].active

\* The calls that were good enough at some moment while the server had them.
Watch == timely' = {c \in Calls : call'[c].pc \in {"sent", "found", "accepted"}
                                       /\ (c \in timely \/ Opens(c))}

Step ==
    \/ \E t \in Tenants : Administer(t)
    \/ \E w \in Tabs : Use(w)
    \/ \E c \in Calls : Handle(c) \/ Receive(c)

Next == Step /\ Watch

Spec == Init /\ [][Next]_vars

-----------------------------------------------------------------------------
(* What a session may rely on.                                             *)

\* A lock or a reset in the middle of a login or a change of password decides
\* it one way or the other: what is granted was right at some moment between
\* the submit and the answer (login, changeMyPassword: a read, a slow bcrypt
\* and a write).
AnswersAreTimely ==
    \A c \in Calls :
        call[c].pc = "accepted" => c \in timely

\* The requests of w go out in the name of the tenant that w shows.
Agrees(w) ==
    tab[w].shown # None /\ storage.token # None => storage.token = tab[w].shown

\* A tab stops acting for the tenant it shows only because another tab signed
\* in: no late answer, 401, reload or sign-out of its own does it
\* (AuthContext, the interceptors, ProtectedRoute).
ActsForWhomItShows ==
    [][\A w \in Tabs :
          Agrees(w) => \/ Agrees(w)'
                       \/ \E v \in Tabs \ {w} :
                             tab[v].at = "login" /\ tab'[v].at = "page"]_vars
=============================================================================
