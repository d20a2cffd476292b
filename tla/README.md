# A verification of the tenant platform in TLA+

The repository holds two NestJS services with a PostgreSQL server behind them and
a React frontend before each:

* **Super Admin** (`services/super-admin`) keeps the registry: applications to
  join, tenants, admin users.
* **Tenant Dashboard** (`services/tenant-dashboard`) keeps one *control database*
  with a login per tenant, and one database per tenant with its profile, catalog,
  requests for quotation (RFQs) and responses.

Super Admin calls the Tenant Dashboard over HTTP to give a tenant access and to
lock or unlock it. Nothing else is shared. Both run as serverless functions: a
handler is a sequence of awaited calls, several instances run at once, and one
may be stopped between any two calls. The repository's tests cover none of this.
The models here do, and part of what they show is proved for every size.

## The system

| Component | State | Operations | Used by |
|---|---|---|---|
| RFQ handling (`rfqs.service.ts`) | `rfq.status`, `rfq.deadlineAt`, `rfq_response` | `respond`, `decline`, `findOne`, `findAll`, `expirePastDeadlines`, `seedTest` | tenant frontend, dashboard summary, internal seed endpoint |
| Catalog (`catalog.service.ts`) | `product` | `create`, `update`, `remove`, reads | tenant frontend; shares the foreign key `rfq_response.productId` with the RFQs |
| Provisioning (`provisioning.service.ts`, `db-admin.util.ts`, `tenant-migrations.sql.ts`) | `tenant_accounts`, the tenant databases, `_prisma_migrations` in each | `provision`, `setAccountActive` | Super Admin, over the internal API |
| Tenant sessions (`auth.service.ts`, `jwt.strategy.ts`) | password hash and `isActive` of the account, tokens in browsers | `login`, `changeMyPassword` | tenant frontend |
| Profile (`profile.service.ts`) | `profile` | `findOne`, `update` | tenant frontend; seeded by provisioning |
| Dashboard summary (`dashboard.service.ts`) | none | `summary` | tenant frontend |
| Tenant connections (`tenant-db/`) | cache of one client per database | `forDatabase` | everything in the Tenant Dashboard |
| Tenant applications (`tenant-applications.service.ts`) | `tenant_applications` | `submit`, `approve`, `reject` | public form, admin frontend |
| Tenant registry (`tenants.service.ts`) | `tenants`: status, e-mail, `dashboardUserEmail` | `create`, `update`, `suspend`, `reactivate`, `provisionDashboard` | admin frontend |
| Tenant Dashboard client (`tenant-dashboard-client.service.ts`) | none; calls in flight | `provisionTenant`, `setDashboardAccountActive` | the two above |
| Mail (`mail.service.ts`) | a cached transport | `sendTenantCredentials`, which never throws | the two above |
| Admin accounts (`admin-users.service.ts`, `auth.service.ts`, `prisma.service.ts`) | `admin_users`, tokens with a role | `create`, `update`, `updateMe`, `changeMyPassword`, `login`, first-admin seed | admin frontend, every cold start |
| Bootstrap (`api/index.ts`, both services) | the cached promise of the application | `handler` | every request |
| Frontends | token and user in `localStorage`, lists, forms, the one-time credentials modal | page loads, submits, the 401 interceptor | admins and tenants |

What is hard here, and what makes each component correct:

* **RFQs.** Every handler reads a status and writes an answer in two calls, so
  two submits, a submit and a decline, a retry, or the deadline can fall between
  them. Correct means: status and response row tell one story, the first response
  stays, an RFQ that is overdue when a request arrives is not answered by it, and
  expiry without a worker still happens.
* **Catalog.** The reference check and the delete are two calls. Correct means
  that what was quoted stays on record.
* **Provisioning.** Ten or so operations over three databases, no transaction
  over them, a caller that gives up after 15 seconds and retries. Correct means:
  a login never leads to half a tenant, a retry continues where the last attempt
  stopped and undoes nothing the tenant did, and two tenants never share a login.
* **Registry and client.** The registry's record and the dashboard's truth live
  in two databases joined by calls that are lost, late, or doubled. Correct
  means: recorded access exists, the credentials an admin is shown are in force
  until the tenant or a suspension changes that, an application approved twice
  gives one login and not two, and the lock follows the status.
* **Sessions and admin accounts.** Stale reads across a slow hash, tokens that
  outlive a suspension, two admins who act on each other, two cold starts that
  both seed.
* **Bootstrap and frontends.** A shared promise that may fail, answers that
  arrive out of order, one modal for one-time secrets.

`PROJECT.json` lists these hazards line by line, with the properties that watch
each.

## Modules

| Module | Stands for |
|---|---|
| `RfqDesk` | one tenant database and the handlers of RFQs and catalog |
| `RfqLifecycle` | the life of an RFQ as its reader is promised it |
| `RfqDeskMC` | instances of `RfqDesk` for TLC |
| `RfqDeskProofs` | its inductive invariant, safety theorems, refinement proofs, and what holds while requests do not disturb each other |
| `Provisioning` | the internal API over the control database and the tenant databases |
| `TenantDirectory` | accounts as a login sees them: opened, reset and locked in single steps |
| `ProvisioningMC` | instances of `Provisioning` for TLC |
| `ProvisioningProofs` | its inductive invariant, safety theorems, refinement proof, and that calls end |
| `Onboarding` | the registry, and its calls to a `TenantDirectory` |
| `OnboardingMC` | instances of `Onboarding` for TLC |
| `OnboardingProofs` | its inductive invariant, safety theorems, and when a suspension locks out |
| `Bootstrap` | cold starts: the cached promise of the application, and the first-admin seed |
| `BootstrapMC` | instances of `Bootstrap` for TLC |
| `BootstrapProofs` | its inductive invariant, safety theorems, and that every wait ends |
| `TenantSessions` | the tenants' logins, changes of password and tokens, and the tabs of one browser |
| `TenantSessionsMC` | instances of `TenantSessions` for TLC |
| `TenantSessionsProofs` | its inductive invariant and safety theorems |
| `AdminAccounts` | Super Admin's own users, their roles inside tokens, and the browsers they work in |
| `AdminAccountsMC` | instances of `AdminAccounts` for TLC |
| `AdminAccountsProofs` | its inductive invariant and safety theorems |
| `RegistryPages` | the pages on which an admin works with tenants and applications |
| `RegistryPagesMC` | instances of `RegistryPages` for TLC |
| `RegistryPagesProofs` | its inductive invariant and safety theorems |
| `TenantPages` | the inbox, the RFQ page, the catalog and the product form of a tenant |
| `TenantPagesMC` | instances of `TenantPages` for TLC |
| `TenantPagesProofs` | its inductive invariant and safety theorems |

`Onboarding` is composed with `TenantDirectory`, not with `Provisioning`:
`ProvisioningImplementsDirectory` proves that the second does what the first
says, so the larger system is checked with one step where the handlers take ten.
The four modules of sessions and pages stand for themselves: what the servers do
meanwhile is in them a step of its own (`Administer` in `TenantSessions`, `Close`
in `TenantPages`), and whatever it does there one of the server modules allows.

### How state and actions correspond to the code

**RfqDesk.** `status`, `response` and `product` are the three tables, reduced to
the columns the handlers branch on; a response row is the product it quotes (or
`Null`). `overdue` is the set of RFQs with `deadlineAt < now`: time only ever adds
to it. `req` holds one record per request in flight, whose `pc` names the database
call the handler awaits next. `StartRespond`, `StartDecline`, `StartFindOne` and
`StartCatalogCall` are the routes; `ExpirePastDeadlines`, `FindRfq`,
`FindProduct`, `FindReference`, `WriteResponse` or `RejectResponse`,
`WriteDecline`, `WriteProduct`, `DeleteProduct` and `ReadRfq` are the awaited
calls, each with its early returns. `respond` and `decline` end in `findOne`, so
they expire and read once more. A `$transaction` or a single statement is one
action; the two foreign-key effects, rejecting a response to a missing product
and setting `productId` to `NULL`, belong to the statement that causes them.
`Fail` ends a request between two calls. `findAll` and the summary begin like
`findOne` and then only read.

**Provisioning.** `account`, `created`, `applied` and `profile` are the control
table, the databases that exist, the rows of each `_prisma_migrations`, and each
profile as never written, seeded or edited. A call is identified by the password
it draws. `FindExisting` chooses between the reset and the long way:
`CreateTenantDatabase`, then for each migration `SeekMigration` and
`ApplyMigration` (`BEGIN` to `COMMIT` or `ROLLBACK`), `SeedProfile`,
`CreateAccount`. `FindAccount` and `SetAccountActive` are the other endpoint.
`Crash` ends a call anywhere; what it committed stays. A migration that is
already there makes the SQL fail (`CREATE TYPE` and `CREATE TABLE` without `IF
NOT EXISTS`), which is why a second application rolls back. `EditProfile` and
`ChangeMyPassword` are what the tenant does meanwhile; a password of the tenant's
own is `Chosen`, one value apart from all that calls draw.

**Onboarding.** `app` and `tenant` are the registry's rows, `req` the admins'
requests, `call` what became of the call each one made, `account` and `complete`
the directory. A call stays `"pending"` until the dashboard handles it, whether
or not its request still waits: `GiveUp` is the timeout or a lost answer,
`CallFails` everything between a refused connection and a 409. `SetStatus` is the
single `UPDATE` of `suspend` and `reactivate` together with the decision, taken
from the row it returns, to call the dashboard. `ChangeMyPassword` is the tenant
who replaces the password in force at any time after its access went on record.

**Bootstrap.** `cached` is the variable `cachedAppPromise` of each instance,
`boot` the promises themselves, `awaits` the promise each request awaits, `admin`
the table all instances share. `Arrive` is the handler up to its `await`, where
nothing can come between the test and the assignment. `Connect`, `CountAdmins`,
`SeedAdmin` or `SeedFails`, and `ComeUp` are the calls a bootstrap awaits;
`BootFails` is a rejected `nestApp.init()` with the catch that clears the cache.
`Serve` and `Refuse` resume a request. A served request may be any of the
endpoints that write to `admin_users` what the seed could collide with; each of
these writes with one statement, so it is part of `Serve`. `Recycle` is an
instance that stops, by the platform or because `NestFactory.create` ends the
process when it fails.

**TenantSessions.** `account` holds the password and `isActive` of each login
address, `storage` what the tabs of one browser share in `localStorage`, `tab`
what each of them shows. A call goes through `FindAccount` (`findUnique`),
`Compare` (the slow `bcrypt.compare`) and `SignToken` or `WritePassword`, and
between any two of them `Administer` may reset the password or lock the account.
What a call keeps of the row it read is what the comparison will say of it.
`SignIn`, `Unauthorized` and `Unheard` are the browser's side: `AuthContext.login`,
the 401 interceptor, an answer for a tab that was loaded anew. A token is the
tenant it was signed for; `TurnAway` is the guard, which may find it expired
whenever it looks.

**AdminAccounts.** `admin` is the table `admin_users`, `desk` the token and user
stored in each browser, with the role the token was signed with. `Update`,
`CheckAddress`, `InsertAdmin` and `UpdateMe` are the handlers, `ChangeRole`,
`ToggleActive`, `Create` and `SaveProfile` the pages that call them, with what the
pages disable. `ShowProfile` is `updateAdmin`, which patches whoever is signed in
when the answer arrives.

**RegistryPages.** `page` is the state of the component that is mounted, `loads`
the GETs of its list in the order they were sent, `call` the writes under way.
A handler is a chain of actions: the click (`ToggleSuspend`, `ProvisionDashboard`,
`SaveEdit`, `Approve`, ...), the write on the server (`Write`), and what follows
each `await` (`Toggled`, `Fetched`, `Provisioned`, ...) with what its closure
captured. A row's contents are abstracted to whether anything was written since
it was read. A write whose request failed may have been lost on the way back, or
get to the server later (`FailCall`). Modals and the drawer limit what can be clicked.

**TenantPages.** The same for the tenant's side, over `open` (RFQs that are `NEW`),
`stock` (products there are) and `active` (those with `isActive`). A page is its
query (`key`: filter and page number, or the id in the path) and the answer on
display (`shown`: the query it was asked for, the rows listed, and those whose
switch is on). The status filter decides which rows may come (`Matching`); search,
category and the number of the page leave any part of them (`Listings`).
`SetFilter` is the pair of effects that fetch twice from a later page. `Jump` is
the browser's history between two RFQs or two products: the component stays, a
confirmation that is open stays, and the effect runs again. `ToggleActive` moves
the switch before the server knows and leaves the row in its list; `FailCall` puts
back the items of before the click, and the write may still get there (`"lost"`).
`Decided` reloads after a 409 as after a success. `Deafen` is what leaving a page
makes of the calls under way: nobody listens, except that `Saved` leads to the
catalog from wherever the tenant is.

Some history is kept for properties only and guards nothing:

* `req.wasDue` in `RfqDesk`, `call.alone` in `Provisioning`, `from`, `lockedBy`
  and `alone` in `Onboarding`, `boot.seedLost` in `Bootstrap`;
* `timely` in `TenantSessions`: the calls that were good enough at some moment
  while the server had them;
* `crowded` and `outlived` in `AdminAccounts`: did two admins manage users at
  once, and did a save outlive the session it was sent in;
* `amiss` and `switched` in `RegistryPages`: the newest news of the list came late
  or not at all; an answer changed the tenant in the drawer;
* `amiss`, `answered`, `late`, `shown.moved`, `call.alone` and `call.order` in
  `TenantPages`: the same for its pages, which RFQs this visit saw answered, which
  rows were switched since their list came, whether anything came between a switch
  and its answer, and whether a later move of the same switch, or a list, has
  overtaken it.

Definitions marked *Slip* are wrong variants of the action they stand before.
They are no part of any `Next`; each shows that one of the properties would
notice that mistake.

## Runs

| Run | Instance | Shows |
|---|---|---|
| `rfq_races` | 2 RFQs, 1 product, 3 overlapping requests | what survives every interleaving: `AnswersMatchStatus`, `DeadlineRespected`, `QuotesAreStored`, `FirstResponseStays`, and the refinement `RacedLifecycle` |
| `rfq_serial` | 2 RFQs, 2 products, 1 request at a time | without overlap the handlers implement the documented lifecycle and keep every quote; overdue RFQs leave `NEW` while traffic lasts |
| `rfq_answer_race` | overlapping requests | **violation** of `AnsweredOnlyFromNew` |
| `provisioning` | 2 tenants, 2 addresses, 3 calls, 2 migrations | half-made tenants are never visible, retries are safe, calls end, and the directory is implemented |
| `onboarding_access` | 2 tenants, 2 addresses, 3 requests, no application | recorded access exists, shown credentials are on record and in force until the tenant or a suspension changes that, the lock follows suspend and reactivate |
| `onboarding_approvals` | 1 application, 2 tenants, 2 addresses, 2 requests | an application approved twice, or by two admins at once, gives credentials for one tenant only |
| `onboarding_suspended` | 1 tenant, 2 requests | **violation** of `SuspendedIsLockedOut` |
| `cold_start` | 2 instances, 3 promises, 2 requests, 2 admins, 2 addresses, 2 passwords | one bootstrap per instance, every request answered, recovery after failures, a seed that overwrites no admin, and nobody served without one |
| `tenant_sessions` | 2 tabs, 2 tenants, 2 passwords, 2 calls | a login or change of password is granted only what was right while the server had it; no late answer makes a tab act for a tenant it does not show |
| `admin_accounts` | 2 admins, 2 browsers, 2 calls | while users are managed by one at a time a super admin is always left; the profile on display is that of the session |
| `registry_pages` | 2 tenants, 2 applications, 3 filters, 2 writes, 2 loads | the list is current once nothing is under way, the edit form belongs to the drawer, a one-time password is not replaced unseen |
| `tenant_pages` | 2 RFQs, 2 products, the filters all and active, 2 pages of the inbox and 1 of the catalog, 2 fetches or writes | a page shows what its query asks for once nothing is under way, and no form for an RFQ that was answered |

### What the violations say

* `rfq_answer_race`: the status is read in one call and overwritten in a later
  one. A decline can be recorded over a response, a response over a decline, and
  either over `EXPIRED`. The unique index stops only a second *response*.
* `onboarding_suspended`: a tenant suspended while, or before, it is given access
  gets an active login. No call need fail.

What else the models show of the code, without a run of its own. A product is
deleted although a response quotes it, if the response commits between the check
and the delete (`QuoteHistoryKept` is checked for one request at a time).
`ARCHITECTURE.md` promises a 409 for a second `provision`; the code resets the
credentials, and says why. Neither `approve` nor `reject` looks at the status of
the application: a second approval makes a second tenant and takes the link from
the first, and a rejection after the approval leaves the tenant and calls its
application rejected, although the comment on `approve`
(`tenant-applications.service.ts:34-36`) promises no tenant without an approved
application. What holds of a second approval is `ApprovedTwiceShownOnce`. The catch
around the seed's upsert takes every error for a lost race, which `ServedWithAdmin`
states as its exception. On the applications page a second approval replaces a
one-time password that is still on display, which is why
`CredentialsStayUntilDone` speaks of the Tenants page.

### Bounds

Every bound is a constant of a `.cfg`. Two RFQs are needed because expiry is one
statement over all of them; three requests because the interesting races are
between two writers and a third request that deletes a product or retries. Two
tenants and two addresses make the unique indexes bite, and a third call lets a
retry meet an overlap. Two migrations is what `TENANT_MIGRATIONS` has, and the
least that can be out of order. In `onboarding_access` the third request is what
reaches the failing registry write: two grants of one tenant with different
addresses, then another tenant that takes the freed one. The application is left
out there and checked alone in `onboarding_approvals`, where it adds only the
transaction in front of the same call; two requests are two approvals of it. Ids are interchangeable, so `RfqRaces.cfg`,
the two passing onboarding configurations and those of sessions and pages use
symmetry; they check no liveness. Three promises for two requests leave one free whenever a cold instance
needs it, so the bound never keeps a request out; a promise nobody refers to any
more is used again. Two instances are the least that can race their seeds, and as
many ids as addresses leave an id free whenever an address is. Calls in `Provisioning` are made once each, so the model may stop when
all have been made and no tenant has an account to edit: that configuration
switches the deadlock check off. Requests in `RfqDesk` are slots that are reused.

Sessions and pages are bounded by what is under way at once, never by how long
they go on: a call that ends leaves its slot. Two tabs, or two browsers, are the
least that can get in each other's way, and two calls the least that can be
answered out of order. `MaxLoads` and `MaxUnderWay` limit what is *started*
(a handler may add one more): two fetches can overtake each other, and a fetch, a
write. Two filters, and two pages in the inbox, are what the double fetch of `SetFilter`
needs. One page of the catalog is enough, because an answer may be any part of the
rows that meet its status filter: a second page would show nothing else.
The proofs show the same for every number.

### Fairness

`Provisioning!FairSpec` and `Bootstrap!FairSpec` are weakly fair to the steps of
each handler, of each bootstrap and of each waiting request (`HandlerGoesOn`,
`BootGoesOn`, `RequestIsResumed`): Node resumes a function whose awaited call has
answered. Nothing is assumed of arrivals, of time, or of crashes, which may always
happen instead. `OverdueLeavesNew` needs no fairness: it states its own assumption,
that some request reaches its expiry again and again. `CallEndsProvisioned` lists a
crash among the ends a call may come to, `RequestsAnswered` counts a stopped
instance as an end, and `ServesAfterOutage` states its assumption, that bootstraps
fail only finitely often, and promises each request that its refusals end. The
other specifications assume no fairness: what they state is safety, and a browser,
or its user, may stop at any time.

## Proofs

Every module but the abstract ones has a module of proofs, for any constants that
satisfy the named assumptions of the module: null values differ from real ones
and from records (`ConstantsAssumption`, `OnboardingAssumption`,
`SessionsAssumption`, `AdminsAssumption`, `RowAssumption`, `PagesAssumption`,
`CallAssumption`, `TenantPagesAssumption`, `RecordsAssumption`); there is at least
one migration (`ProvisioningAssumption`); the seed's address and password are
among the others (`BootstrapAssumption`). Proved are:

* type correctness and each safety invariant of the passing runs;
* the action properties `FirstResponseStays`, `ProfileEditsKept`,
  `SeedLeavesAdmins`, `ActsForWhomItShows` and `CredentialsStayUntilDone`;
* the refinements `RacedLifecycle` and `ImplementsDirectory`, step by step;
* `OverdueLeavesNew` as it stands, and the liveness under fairness,
  `CallEndsProvisioned`, `RequestsAnswered` and `ServesAfterOutage`, up to one
  assumption that is named below;
* what the documents promise and overlapping requests break (`DocumentedLifecycle`,
  `AnsweredOnlyFromNew`, `QuoteHistoryKept`, `SuspendedIsLockedOut`), each from a
  condition on who overlaps whom;
* a bound on the database operations of one provisioning call (`HandlersRunOut`).

The invariants are not inductive as they stand.

* For RFQs, `IInv` adds where a request can be: one that is about to write has
  its RFQ and passed the status check (`RequestsInOrder`), and a row that is
  answered exists (`RowsExist`). `AnswersMatchStatus` needs nothing of the order
  of requests: no step that writes a status other than `RESPONDED` or `DECLINED`
  applies to an answered RFQ, because expiry and seeding test the status in the
  same statement that changes it. `DeadlineRespected` rests on `overdue` growing
  only and on `NEW` never being entered again.
* For provisioning, `CallsInOrder` says of each value of `pc` what the stores
  already hold: past `"createDatabase"` the database exists, at migration *m* the
  ones before it are applied, at `"account"` the profile is there. Stores only
  grow, so the facts a call relies on survive the others' steps, and writing the
  account last makes `AccountImpliesReady` hold. `LoneCalls` carries
  `RetryIsSafe`: a call without company still finds missing what it found
  missing. `PasswordsIssued` says that a password in use belongs to a call that
  ended, which makes each new one fresh in the directory.
* For cold starts, `LiveIsCached` says that a promise that is pending or up is the
  cached one of its instance. That is why clearing the cache in the catch cannot
  lose a newer promise, and why a second bootstrap never starts. `SeedDone` says
  that a bootstrap past its seed saw or made an admin; rows are never removed.
* For the registry, nothing orders the calls between the two services; what it may
  rely on comes from who can be under way at once. `GrantsAlone` and `LocksAlone`
  say that a grant, or a lock, that overlapped no other has its tenant to itself,
  `GrantHolds` that its login is then the one in force and the one on record (with
  the password it drew, or one of the tenant's own), `LockedBySuspend` that a login
  is locked only after a suspend of its tenant got through, and `LockOrigin` whose
  status the tenant has. `ApprovalInv` adds that addresses on record are unique and
  that two approvals never share a tenant (`ApprovalsApart`): if both were shown
  and alone, one address would be on record twice (`ApprovedTwice`). `OkHasAccount` and
  `AccountsAreComplete` carry `LinkedHasAccount`: a call that succeeded left an
  account, and accounts are never taken away.
* For sessions, `TimelyRows` says that a call about to be granted was good enough
  while the server had it, and `LoginsInOrder` that a tab waits for one login at
  most, and on `/login`. With `StoredTogether` no other answer can make a tab show
  somebody else.
* For admin accounts, `TokensAreTrue` says that while nobody manages users beside
  somebody else, a token that says super admin is true: only its own bearer could
  make it false, and one's own row is disabled. `OneAtATime` is what the history
  `crowded` stands for, `SavesAreMine` what `outlived` does.
* For the registry pages, `NewsToCome` says that whatever made the list old is
  followed by news: a load of what the page shows that was not overtaken
  (`Good`), or a write whose handler will load (`Announced`). `FormFilled` and
  `GrantsAlone` do the same for form and modal.
* For the tenant pages it is the newest fetch that has the last word. Answered
  first, it makes the others late; answered last, it is what stays (`GoodLast`).
  `GoodRest` says that the list on display, when none is under way, is right but
  for the switches whose write the server has not seen (`RightBut`, `InDoubt`);
  `GoodSwitches` that the last of the writes under way for one switch is what the
  switch shows, so that it is right again once that one gets there last; and
  `GoodPrevious` that a switch which failed with nothing in between goes back to
  what the server has.

### Promises that hold while nobody disturbs

The two violations, and the run with one request at a time, have a theorem as
their counterpart, which says for any number of requests how little it takes. Each
condition is a predicate on states; the theorem has the form
`Spec /\ []Condition => Promise`.

* `AnswersUndisturbed`: between the status check of a `respond` or `decline` and
  its write, no other answer to the same RFQ is as far, and no request is about to
  expire that RFQ. Then what the check saw is still so at the write
  (`AnswersRecent` becomes an invariant), every answer is given to an RFQ that is
  `NEW` (`UndisturbedAnswersFromNew`), and the handlers implement the lifecycle
  without races (`ImplementsDocumentedLifecycle`).
* `RemovalsUndisturbed`: between the reference check of a `remove` and its delete,
  no response that names the product is about to be written. Then every quote
  stays on record (`UndisturbedQuotesKept`).
* One request at a time meets both, so that `OneRequestAtATime` needs no condition
  beyond it; it is `rfq_serial` for any RFQs and products.
* `SuspensionUndisturbed`: while a tenant's status is that of a suspension, no
  grant for the tenant is under way on either side of the network, and the
  suspension overlapped no other suspend or reactivate of it. Then a suspended
  tenant is locked out (`UndisturbedSuspensionLocksOut`). An account is on record,
  or the grant that opened it was never shown (`AccountHasGrant`); a suspension
  that called nobody found nothing on record, and nothing goes on record before
  a grant is under way (`UncalledIsUnrecorded`). Without either half of the
  condition TLC finds a suspended tenant who can log in.

### Liveness

`OverdueRfqsLeaveNew` follows from one action: `expirePastDeadlines` takes every
overdue RFQ out of `NEW` at once, and no step takes an overdue one back.

The proof system has no rules for `ENABLED`, and weak fairness promises a step only
while it is enabled. The three theorems under fairness therefore assume that the
awaited step is enabled where it is awaited, in every state: `HandlersCanGoOn`
(every operation of a call in flight can answer, be it with an error) and
`NobodyStuck` (every call of a pending bootstrap can come back, and a request whose
promise has settled can be resumed). Both are state predicates without a temporal
operator that TLC finds true in all states of the instances of `provisioning` and
`cold_start`, and both can be read off the actions, each of which has an outcome for
whatever it finds. All else is proved:

* Each database operation leaves a call of `Provisioning` fewer operations
  (`Left`, `StepLowers`), the steps of others leave its place in the code alone
  (`OthersLeaveCall`), and only a call that overlapped another ends in a failed
  migration. `HandlersRunOut` needs no fairness: whatever overlaps, a call makes at
  most `2 * Migrations + 4` operations. `LoneCallEndsProvisioned` chains these steps
  into `CallEndsProvisioned`, one link per operation, for at most two migrations,
  which is what `TENANT_MIGRATIONS` lists; a chain of unknown length would need an
  induction over temporal formulas, which the proof system does not have.
* For cold starts the chain is the stages of a bootstrap (`After`), and its links
  need that a request keeps the promise it awaits (`WaitSteps`), that the cache
  never holds a failed promise (`CachedIsLive`), and that every awaited promise was
  made (`AwaitsPromise`): `EveryRequestIsAnswered`. When no bootstrap fails any more,
  a request that awaits no failed promise never will again:
  `NoRefusalAfterOutage`.

Model-checked only are the two `ENABLED` predicates, and `CallEndsProvisioned` for
lists of other lengths.

## Not modelled

* Reads and counts that change nothing and feed no page modelled here. What a torn
  read can show is listed as a hazard. Of searches and paging `TenantPages` keeps
  that they leave some part of what there is.
* Some branches that no property tells apart: `CREATE TABLE IF NOT EXISTS` for
  `_prisma_migrations`, which is idempotent and part of the step that follows;
  the 404 of `seedTest`, since `RfqDesk` is the database of a tenant that has one;
  a reset that also changes the login address, which leaves a browser in
  `TenantSessions` with an address nobody has; and an e-mail address that
  `updateMe` changes or finds taken, since in `AdminAccounts` it stands for the
  admin.
* The shape of requests (DTO validation), texts, mail contents, hashing, the
  shared secret and the signature of tokens.
* Layout, translation and charts of the frontends; their Dashboard and Profile
  pages and the badge of the layout, which show what one fetch brought; the search
  box of the catalog, whose delay only decides when `SetFilter` happens.
* The cache of database connections: one synchronous look-up, and a name that is a
  function of the tenant id.
* Deployments: `TENANT_MIGRATIONS` is fixed, so that a tenant who has an account
  never gets a migration added later is a hazard on record, and no property.

## Plan

Done, in this order: `RfqDesk` with its lifecycle and proofs; `Provisioning` with
the directory and proofs; `Onboarding` over the directory; `Bootstrap` with the
first-admin seed and proofs; `TenantSessions` and `AdminAccounts`;
`RegistryPages` and `TenantPages`; the proofs of the last four and of
`Onboarding`; the proofs of liveness, and of the promises that hold while nobody
disturbs. What remains:

1. Pure algorithms as functions: the 30 day buckets of the trend, paging, the
   database name of a tenant id, each against its definition.
2. A list of migrations that grows between deployments, in `Provisioning`.
3. `TenantPages` over `RfqDesk` in place of `Close`, so that the refusal a page
   sees is the one the handler gave.
