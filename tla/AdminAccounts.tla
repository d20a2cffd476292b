---------------------------- MODULE AdminAccounts ----------------------------
(***************************************************************************)
(* Super Admin's own users: their roles, the tokens that carry a role for  *)
(* 12 hours whatever becomes of the account, the pages that manage users   *)
(* and the signed-in user's own profile.  A desk is a browser with one     *)
(* tab.  What a list shows may be as old as the page, so a switch may send *)
(* either value.                                                           *)
(***************************************************************************)

CONSTANTS
    Admins,       \* ids, and the e-mail addresses they go with
    Desks,
    Calls,        \* HTTP calls that may be under way
    None

ASSUME AdminsAssumption == None \notin Admins \cup Desks

VARIABLES
    admin,        \* admin_users: role and isActive
    desk,         \* the stored token and user of each browser
    call,
    crowded,      \* history: see Alone
    outlived      \* history: desks where a profile save outlived its session

vars == <<admin, desk, call, crowded, outlived>>

-----------------------------------------------------------------------------
Roles == {"SUPER_ADMIN", "REVIEWER"}
Switch == {"on", "off"}
Row == [role : Roles, active : BOOLEAN]

ASSUME RowAssumption == None \notin Row

\* "profile" is whose name and e-mail the user on display has.
Session == [id : Admins, role : Roles, profile : Admins]

Call ==
    [op : {"login", "role", "active", "create", "profile"},
     pc : {"sent", "checked", "saved"},
     desk : Desks \cup {None},      \* None: a page load forgot the call
     who : Admins,                  \* the address typed, or the token's id
     role : Roles \cup {None},      \* the role in the token
     target : Admins,
     value : Roles \cup Switch \cup {None}]

TypeOK ==
    /\ admin \in [Admins -> Row \cup {None}]
    /\ desk \in [Desks -> Session \cup {None}]
    /\ call \in [Calls -> Call \cup {None}]
    /\ crowded \in BOOLEAN
    /\ outlived \in SUBSET Desks

Exists(a) == admin[a] # None
IsManager(a) == Exists(a) /\ admin[a].active /\ admin[a].role = "SUPER_ADMIN"

\* The first admin is seeded; the others come later.
Init ==
    /\ \E first \in Admins :
          admin = [a \in Admins |->
                     IF a = first THEN [role |-> "SUPER_ADMIN", active |-> TRUE]
                     ELSE None]
    /\ desk = [d \in Desks |-> None]
    /\ call = [c \in Calls |-> None]
    /\ crowded = FALSE
    /\ outlived = {}

-----------------------------------------------------------------------------
\* The page that sent c, or one it led to without a page load, is still on d.
Heard(c, d) == call[c] # None /\ call[c].desk = d

\* A full page load of d: its calls go on, but nobody listens.
Forgets(d, calls) ==
    [c \in Calls |-> IF calls[c] # None /\ calls[c].desk = d
                     THEN [calls[c] EXCEPT !.desk = None] ELSE calls[c]]

-----------------------------------------------------------------------------
(* History: does somebody else manage users, or try to sign in, just now?  *)

Manages(c) == call[c] # None /\ call[c].op \in {"role", "active", "create"}
SigningIn(c) == call[c] # None /\ call[c].op = "login"

Alone(d) ==
    /\ \A e \in Desks \ {d} : desk[e] # None => desk[e].role # "SUPER_ADMIN"
    /\ \A c \in Calls : ~Manages(c) /\ ~SigningIn(c)

\* The session of d ends, or is replaced, while its profile is being saved.
EndsSession(d) ==
    outlived' = IF \E c \in Calls : Heard(c, d) /\ call[c].op = "profile"
                THEN outlived \cup {d} ELSE outlived

-----------------------------------------------------------------------------
(* Signing in and out.                                                     *)

End(c) == call' = [call EXCEPT ![c] = None]

\* After a logout /login is one more page of the same visit; with a session it
\* is opened by its address.  `loading` keeps it to one login at a time.
SubmitLogin(c, d) ==
    /\ call[c] = None
    /\ \A e \in Calls : ~(Heard(e, d) /\ SigningIn(e))
    /\ \E a \in Admins :
          call' = [(IF desk[d] = None THEN call ELSE Forgets(d, call)) EXCEPT ![c] =
                     [op |-> "login", pc |-> "sent", desk |-> d, who |-> a,
                      role |-> None, target |-> a, value |-> None]]
    /\ crowded' = (crowded \/ \E e \in Calls : Manages(e))
    /\ UNCHANGED <<admin, desk, outlived>>

\* The row is read; its role will be the token's.
CheckLogin(c) ==
    /\ SigningIn(c) /\ call[c].pc = "sent"
    /\ Exists(call[c].who) /\ admin[call[c].who].active
    /\ call' = [call EXCEPT ![c].pc = "checked", ![c].role = admin[call[c].who].role]
    /\ UNCHANGED <<admin, desk, crowded, outlived>>

\* Slip: the user on display is patched, not replaced.
SignInPatched(c, d) ==
    /\ SigningIn(c) /\ call[c].pc = "checked" /\ Heard(c, d)
    /\ desk' = [desk EXCEPT ![d] =
                  [id |-> call[c].who, role |-> call[c].role,
                   profile |-> IF desk[d] = None THEN call[c].who ELSE desk[d].profile]]
    /\ EndsSession(d)
    /\ End(c)
    /\ UNCHANGED <<admin, crowded>>

\* lastLoginAt, the signature, the answer, and AuthContext stores it.
SignIn(c, d) ==
    /\ SigningIn(c) /\ call[c].pc = "checked" /\ Heard(c, d)
    /\ desk' = [desk EXCEPT ![d] =
                  [id |-> call[c].who, role |-> call[c].role, profile |-> call[c].who]]
    /\ EndsSession(d)
    /\ End(c)
    /\ UNCHANGED <<admin, crowded>>

\* The browser starts again from the stored user.
Reload(d) ==
    /\ call' = Forgets(d, call)
    /\ call' # call
    /\ UNCHANGED <<admin, desk, crowded, outlived>>

\* d shows the pages of its session, not /login.
InApp(d) == desk[d] # None /\ \A c \in Calls : ~(Heard(c, d) /\ SigningIn(c))

\* logout.  Calls under way go on, and so do their callbacks.
SignOut(d) ==
    /\ InApp(d)
    /\ desk' = [desk EXCEPT ![d] = None]
    /\ EndsSession(d)
    /\ UNCHANGED <<admin, call, crowded>>

-----------------------------------------------------------------------------
(* The admin users page.  Any signed-in admin may open it by its address.  *)

\* Slip: the role of the signed-in user is not disabled.
OffersEveryone(d, t) == TRUE

\* The switch and the select are disabled in one's own row.
Offers(d, t) == desk[d].id # t

Ask(c, d, op, t, v) ==
    /\ call[c] = None /\ InApp(d)
    /\ call' = [call EXCEPT ![c] =
                  [op |-> op, pc |-> "sent", desk |-> d, who |-> desk[d].id,
                   role |-> desk[d].role, target |-> t, value |-> v]]

ChangeRole(c, d, t) ==
    /\ \E r \in Roles : Ask(c, d, "role", t, r)
    /\ Exists(t) /\ Offers(d, t)
    /\ crowded' = (crowded \/ ~Alone(d))
    /\ UNCHANGED <<admin, desk, outlived>>

ToggleActive(c, d, t) ==
    /\ \E b \in Switch : Ask(c, d, "active", t, b)
    /\ Exists(t) /\ Offers(d, t)
    /\ crowded' = (crowded \/ ~Alone(d))
    /\ UNCHANGED <<admin, desk, outlived>>

\* Slip: the role is left out of the body.
CreateWithoutRole(c, d, t) ==
    /\ Ask(c, d, "create", t, None)
    /\ crowded' = (crowded \/ ~Alone(d))
    /\ UNCHANGED <<admin, desk, outlived>>

Create(c, d, t) ==
    /\ \E r \in Roles : Ask(c, d, "create", t, r)
    /\ crowded' = (crowded \/ ~Alone(d))
    /\ UNCHANGED <<admin, desk, outlived>>

-----------------------------------------------------------------------------
(* The server.                                                             *)

\* RolesGuard, on the role in the token.
Admits(c) == call[c].role = "SUPER_ADMIN"

\* update: an account that exists, and not one's own deactivation.
Update(c) ==
    LET t == call[c].target
        refused == t = call[c].who /\ call[c].value = "off"
    IN
    /\ Manages(c) /\ call[c].op # "create" /\ Admits(c)
    /\ admin' = IF ~Exists(t) \/ refused THEN admin
                ELSE IF call[c].op = "role" THEN [admin EXCEPT ![t].role = call[c].value]
                ELSE [admin EXCEPT ![t].active = call[c].value = "on"]
    /\ End(c)
    /\ UNCHANGED <<desk, crowded, outlived>>

\* create looks for the address first ...
CheckAddress(c) ==
    /\ Manages(c) /\ call[c].op = "create" /\ call[c].pc = "sent" /\ Admits(c)
    /\ IF Exists(call[c].target) THEN End(c)
       ELSE call' = [call EXCEPT ![c].pc = "checked"]
    /\ UNCHANGED <<admin, desk, crowded, outlived>>

\* ... and inserts after the hash: by then the unique index may refuse.
InsertAdmin(c) ==
    LET t == call[c].target IN
    /\ Manages(c) /\ call[c].pc = "checked"
    /\ admin' = IF Exists(t) THEN admin
                ELSE [admin EXCEPT ![t] = [role |-> call[c].value, active |-> TRUE]]
    /\ End(c)
    /\ UNCHANGED <<desk, crowded, outlived>>

\* RolesGuard's 403, a failure, an answer that is lost or finds nobody.
Fail(c) ==
    /\ call[c] # None
    /\ End(c)
    /\ UNCHANGED <<admin, desk, crowded, outlived>>

\* A login refused, an expired token, a wrong current password: the interceptor
\* ends whatever session its browser has by now, and loads /login.
TurnAway(c, d) ==
    /\ Heard(c, d) /\ call[c].pc = "sent"
    /\ desk' = [desk EXCEPT ![d] = None]
    /\ LET answered == [call EXCEPT ![c] = None] IN
       call' = IF desk[d] = None THEN answered ELSE Forgets(d, answered)
    /\ UNCHANGED <<admin, crowded, outlived>>

-----------------------------------------------------------------------------
(* The settings page.                                                      *)

\* The form starts from the user on display.
SaveProfile(c, d) ==
    /\ Ask(c, d, "profile", desk[d].profile, None)
    /\ UNCHANGED <<admin, desk, crowded, outlived>>

\* updateMe: another admin's e-mail is a 409.
UpdateMe(c) ==
    /\ call[c] # None /\ call[c].op = "profile" /\ call[c].pc = "sent"
    /\ IF call[c].target # call[c].who /\ Exists(call[c].target) THEN End(c)
       ELSE call' = [call EXCEPT ![c].pc = "saved"]
    /\ UNCHANGED <<admin, desk, crowded, outlived>>

\* updateAdmin patches name and e-mail into the user who is signed in by now.
ShowProfile(c, d) ==
    /\ Heard(c, d) /\ call[c].pc = "saved"
    /\ desk' = IF desk[d] = None THEN desk
               ELSE [desk EXCEPT ![d].profile = call[c].target]
    /\ End(c)
    /\ UNCHANGED <<admin, crowded, outlived>>

-----------------------------------------------------------------------------
Use(d) ==
    \/ SignOut(d) \/ Reload(d)
    \/ \E c \in Calls :
          \/ SubmitLogin(c, d) \/ SaveProfile(c, d)
          \/ \E t \in Admins : ChangeRole(c, d, t) \/ ToggleActive(c, d, t) \/ Create(c, d, t)

Handle(c) ==
    \/ CheckLogin(c) \/ Update(c) \/ CheckAddress(c) \/ InsertAdmin(c)
    \/ UpdateMe(c) \/ Fail(c)
    \/ \E d \in Desks : SignIn(c, d) \/ ShowProfile(c, d) \/ TurnAway(c, d)

Next == (\E d \in Desks : Use(d)) \/ (\E c \in Calls : Handle(c))

Spec == Init /\ [][Next]_vars

-----------------------------------------------------------------------------
\* As long as those who manage users do so one at a time, with nobody else
\* signed in as one or signing in, someone is left who can: the disabled row,
\* the self-deactivation check, RolesGuard and the role inside the token
\* together keep the last super admin (update, RolesGuard, AdminUsersPage).
SomeoneCanManage == ~crowded => \E a \in Admins : IsManager(a)

\* The name and e-mail on display are the signed-in admin's own, unless a save
\* of the settings page outlived the session it was sent in (updateAdmin).
ProfileShownIsMine ==
    \A d \in Desks :
        desk[d] # None /\ d \notin outlived => desk[d].profile = desk[d].id
=============================================================================
