------------------------------ MODULE Bootstrap ------------------------------
(***************************************************************************)
(* The serverless entry point of the Super Admin backend (api/index.ts)    *)
(* with the first-admin seed that each cold start runs                     *)
(* (prisma.service.ts).                                                    *)
(*                                                                         *)
(* An instance keeps, in memory, the promise of its application.  Every    *)
(* request awaits that promise; the first one on a cold instance starts    *)
(* the bootstrap.  All instances share one database of admin users.        *)
(* The Tenant Dashboard's entry point is the same handler without a seed.  *)
(***************************************************************************)
EXTENDS Naturals

CONSTANTS
  Instances,     \* serverless instances
  Boots,         \* promises; one whose outcome nobody awaits is used again
  Requests,      \* slots for requests in flight, used again
  Admins,        \* ids of admin users
  Emails,        \* addresses of admin users
  Passwords,     \* passwords, each standing for its hash
  SeedEmail,     \* ADMIN_EMAIL
  SeedPassword,  \* ADMIN_PASSWORD
  NoBoot,        \* null, or a request slot that is free
  NoInstance,    \* the host of a promise never used
  NoAdmin        \* an id without a row

ASSUME BootstrapAssumption ==
  /\ SeedEmail \in Emails
  /\ SeedPassword \in Passwords
  /\ NoBoot \notin Boots
  /\ NoInstance \notin Instances
  /\ NoAdmin \notin [email : Emails, password : Passwords]

VARIABLES
  cached,  \* cachedAppPromise of each instance
  boot,    \* each promise: the call its bootstrap awaits, and its instance
  awaits,  \* the promise each request awaits
  admin    \* the table admin_users

vars == <<cached, boot, awaits, admin>>

(* A promise that has settled is "up" or "failed".  seedLost records that   *)
(* the seed's error was swallowed; only properties read it.                 *)
Promise ==
  [pc : {"none", "connecting", "counting", "seeding", "starting", "up", "failed"},
   host : Instances \cup {NoInstance},
   seedLost : BOOLEAN]

Unused == [pc |-> "none", host |-> NoInstance, seedLost |-> FALSE]
Row == [email : Emails, password : Passwords]

Pending(b) == boot[b].pc \in {"connecting", "counting", "seeding", "starting"}
Live(b) == Pending(b) \/ boot[b].pc = "up"
HasAdmin == \E a \in Admins : admin[a] # NoAdmin
Taken(e) == \E a \in Admins : admin[a] # NoAdmin /\ admin[a].email = e

(* No variable of an instance and no request refers to the promise. *)
Free(b) ==
  /\ ~Live(b)
  /\ \A i \in Instances : cached[i] # b
  /\ \A r \in Requests : awaits[r] # b

-----------------------------------------------------------------------------
Init ==
  /\ cached = [i \in Instances |-> NoBoot]
  /\ boot = [b \in Boots |-> Unused]
  /\ awaits = [r \in Requests |-> NoBoot]
  /\ admin = [a \in Admins |-> NoAdmin]

(* Slip: only a finished application is cached, not the promise of one. *)
StartsBootUnlessUp(i) == cached[i] \notin {b \in Boots : boot[b].pc = "up"}

(* `if (!cachedAppPromise)` *)
StartsBoot(i) == cached[i] = NoBoot

(* handler: no await lies between the test and the assignment. *)
Arrive(r, i) ==
  /\ awaits[r] = NoBoot
  /\ \/ /\ StartsBoot(i)
        /\ \E b \in Boots :
             /\ Free(b)
             /\ boot' = [boot EXCEPT ![b] =
                           [pc |-> "connecting", host |-> i, seedLost |-> FALSE]]
             /\ cached' = [cached EXCEPT ![i] = b]
             /\ awaits' = [awaits EXCEPT ![r] = b]
     \/ /\ ~StartsBoot(i)
        /\ awaits' = [awaits EXCEPT ![r] = cached[i]]
        /\ UNCHANGED <<cached, boot>>
  /\ UNCHANGED admin

Advance(b, from, to) ==
  /\ boot[b].pc = from
  /\ boot' = [boot EXCEPT ![b].pc = to]
  /\ UNCHANGED <<cached, awaits>>

(* onModuleInit: $connect *)
Connect(b) ==
  /\ Advance(b, "connecting", "counting")
  /\ UNCHANGED admin

(* Slip: `>= 0` for `> 0`. *)
CountAdminsWrong(b) ==
  /\ Advance(b, "counting", "starting")
  /\ UNCHANGED admin

(* seedFirstAdminIfEmpty: any admin at all ends it. *)
CountAdmins(b) ==
  /\ Advance(b, "counting", IF HasAdmin THEN "starting" ELSE "seeding")
  /\ UNCHANGED admin

InsertAdmin(e, p) ==
  \E a \in Admins :
    /\ admin[a] = NoAdmin
    /\ admin' = [admin EXCEPT ![a] = [email |-> e, password |-> p]]

(* Slip: the upsert's update sets the password. *)
SeedAdminAgain(b) ==
  /\ Advance(b, "seeding", "starting")
  /\ IF Taken(SeedEmail)
     THEN admin' = [a \in Admins |->
            IF admin[a] # NoAdmin /\ admin[a].email = SeedEmail
            THEN [admin[a] EXCEPT !.password = SeedPassword]
            ELSE admin[a]]
     ELSE InsertAdmin(SeedEmail, SeedPassword)

(* Slip: no default for an ADMIN_EMAIL that is not set. *)
SeedWithoutEmail(b) ==
  /\ Advance(b, "seeding", "starting")
  /\ InsertAdmin(NoAdmin, SeedPassword)

(* The upsert: its `update` is empty. *)
SeedAdmin(b) ==
  /\ Advance(b, "seeding", "starting")
  /\ IF Taken(SeedEmail) THEN UNCHANGED admin
                         ELSE InsertAdmin(SeedEmail, SeedPassword)

(* The catch around the upsert swallows every error, not just a lost race. *)
SeedFails(b) ==
  /\ boot[b].pc = "seeding"
  /\ boot' = [boot EXCEPT ![b].pc = "starting", ![b].seedLost = TRUE]
  /\ UNCHANGED <<cached, awaits, admin>>

(* The rest of nestApp.init(), then `return expressApp`. *)
ComeUp(b) ==
  /\ Advance(b, "starting", "up")
  /\ UNCHANGED admin

(* Slip: a rejected promise stays cached. *)
BootFailsForGood(b) ==
  /\ Pending(b)
  /\ boot' = [boot EXCEPT ![b].pc = "failed"]
  /\ UNCHANGED <<cached, awaits, admin>>

(* nestApp.init() rejects: the catch clears the cache and throws on. *)
BootFails(b) ==
  /\ Pending(b)
  /\ boot' = [boot EXCEPT ![b].pc = "failed"]
  /\ cached' = [cached EXCEPT ![boot[b].host] = NoBoot]
  /\ UNCHANGED <<awaits, admin>>

-----------------------------------------------------------------------------
(* What a served request may write to admin_users.  Each handler of         *)
(* admin-users.service.ts writes with one statement; what it reads before   *)
(* can only turn the request away, and the unique index decides on e-mail.  *)

(* create: by an admin who is there already. *)
CreateAdmin ==
  \E e \in Emails, p \in Passwords : HasAdmin /\ ~Taken(e) /\ InsertAdmin(e, p)

(* updateMe *)
ChangeEmail ==
  \E a \in Admins, e \in Emails :
    /\ admin[a] # NoAdmin
    /\ ~Taken(e)
    /\ admin' = [admin EXCEPT ![a].email = e]

(* changeMyPassword *)
ChangePassword ==
  \E a \in Admins, p \in Passwords :
    /\ admin[a] # NoAdmin
    /\ admin' = [admin EXCEPT ![a].password = p]

(* `await cachedAppPromise` yields the application, which takes over. *)
Serve(r) ==
  /\ awaits[r] \in Boots
  /\ boot[awaits[r]].pc = "up"
  /\ awaits' = [awaits EXCEPT ![r] = NoBoot]
  /\ CreateAdmin \/ ChangeEmail \/ ChangePassword \/ UNCHANGED admin
  /\ UNCHANGED <<cached, boot>>

(* Slip: the error is not thrown on, and the promise never settles. *)
RefuseNever(r) == FALSE

(* The awaited promise rejects: the request ends with an error. *)
Refuse(r) ==
  /\ awaits[r] \in Boots
  /\ boot[awaits[r]].pc = "failed"
  /\ awaits' = [awaits EXCEPT ![r] = NoBoot]
  /\ UNCHANGED <<cached, boot, admin>>

(* The platform stops an instance, or NestFactory.create ends the process:  *)
(* its memory and its requests are gone.                                    *)
Recycle(i) ==
  /\ \E b \in Boots : boot[b].host = i
  /\ cached' = [cached EXCEPT ![i] = NoBoot]
  /\ boot' = [b \in Boots |-> IF boot[b].host = i THEN Unused ELSE boot[b]]
  /\ awaits' = [r \in Requests |->
       IF awaits[r] \in Boots /\ boot[awaits[r]].host = i THEN NoBoot ELSE awaits[r]]
  /\ UNCHANGED admin

-----------------------------------------------------------------------------
Boot(b) ==
  \/ Connect(b)
  \/ CountAdmins(b)
  \/ SeedAdmin(b)
  \/ SeedFails(b)
  \/ ComeUp(b)
  \/ BootFails(b)

Resume(r) == Serve(r) \/ Refuse(r)

Next ==
  \/ \E r \in Requests, i \in Instances : Arrive(r, i)
  \/ \E b \in Boots : Boot(b)
  \/ \E r \in Requests : Resume(r)
  \/ \E i \in Instances : Recycle(i)

Spec == Init /\ [][Next]_vars

(* Awaited calls answer and awaiting functions are resumed.  Nothing is     *)
(* assumed of arrivals, of failures, or of the platform.                    *)
BootGoesOn(b) == WF_vars(Boot(b))
RequestIsResumed(r) == WF_vars(Resume(r))
FairSpec ==
  /\ Spec
  /\ \A b \in Boots : BootGoesOn(b)
  /\ \A r \in Requests : RequestIsResumed(r)

-----------------------------------------------------------------------------
TypeOK ==
  /\ cached \in [Instances -> Boots \cup {NoBoot}]
  /\ boot \in [Boots -> Promise]
  /\ awaits \in [Requests -> Boots \cup {NoBoot}]
  /\ admin \in [Admins -> Row \cup {NoAdmin}]

(* However requests overlap on a cold instance, and however often its       *)
(* bootstrap failed before, the instance never has two applications, built  *)
(* or being built: "every concurrent request on a cold instance awaits the  *)
(* same single bootstrap" (api/index.ts).                                   *)
OneBootPerInstance ==
  \A b, c \in Boots :
    Live(b) /\ Live(c) /\ boot[b].host = boot[c].host => b = c

(* An instance that serves has an admin to log in with, whoever seeded it   *)
(* and whatever other cold starts did meanwhile, unless its own seed failed *)
(* (seedFirstAdminIfEmpty).                                                 *)
ServedWithAdmin ==
  \A b \in Boots : boot[b].pc = "up" /\ ~boot[b].seedLost => HasAdmin

(* Cold starts that race each other and the admins' own edits never make    *)
(* two admins of one address (the upsert in seedFirstAdminIfEmpty).         *)
EmailsUnique ==
  \A a, c \in Admins :
    /\ admin[a] # NoAdmin
    /\ admin[c] # NoAdmin
    /\ admin[a].email = admin[c].email
    => a = c

(* A cold start that decided to seed long ago changes nothing of an admin   *)
(* it finds now: a password changed after first sign-in is not set back     *)
(* (`update: {}` in seedFirstAdminIfEmpty).                                 *)
SeedLeavesAdmins ==
  [][(\E b \in Boots : Pending(b) /\ boot'[b].pc # boot[b].pc)
       => \A a \in Admins : admin[a] # NoAdmin => admin'[a] = admin[a]]_vars

(* Every request gets an answer, or its instance is stopped: nobody waits   *)
(* for ever on a promise (handler).                                         *)
RequestsAnswered ==
  \A r \in Requests : awaits[r] # NoBoot ~> awaits[r] = NoBoot

(* When bootstraps stop failing, requests soon stop being refused, on the   *)
(* very instances that failed before: "don't leave a rejected promise       *)
(* cached forever" (api/index.ts).                                          *)
ServesAfterOutage ==
  <>[][~\E b \in Boots : BootFails(b)]_vars
    => \A r \in Requests : <>[][~Refuse(r)]_vars
=============================================================================
