---------------------------- MODULE RegistryPages ----------------------------
(***************************************************************************)
(* The pages on which an admin works with the registry: Tenants and        *)
(* Tenant applications of the Super Admin frontend, one of them mounted at *)
(* a time.  Every handler awaits a call and then goes on with what it had  *)
(* captured, on a page that may have changed meanwhile; loads of the list  *)
(* are neither cancelled nor ordered.                                      *)
(*                                                                         *)
(* The rows themselves are abstracted to whether what a page holds is      *)
(* still what the server would answer.  Only this admin writes.            *)
(***************************************************************************)
EXTENDS Naturals, Sequences, SequencesExt

CONSTANTS
    Tenants, Apps,
    Filters,      \* the statuses to ask for, or None for all
    Calls,        \* writes under way
    MaxLoads,     \* nothing more is started while as many loads are under way
    None

ASSUME PagesAssumption ==
    /\ None \notin Tenants \cup Apps
    /\ {"PENDING", None} \subseteq Filters
    /\ Tenants \cap Apps = {}
    /\ MaxLoads \in Nat

VARIABLES
    page,         \* the state of the component that is mounted
    loads,        \* GETs of its list under way, the oldest first
    call,         \* writes under way, also those of pages left since
    amiss,        \* history: see Newest
    switched      \* history: see Select

history == <<amiss, switched>>
vars == <<page, loads, call, history>>

-----------------------------------------------------------------------------
\* What a list was loaded with, and whether nothing was written since.
List == [filter : Filters, current : BOOLEAN]

Page ==
    [at : {"tenants", "applications", "elsewhere"},
     list : List \cup {None},
     filter : Filters,             \* statusFilter, applied by the server
     drawer : Tenants \cup {None}, \* selected
     editing : BOOLEAN,
     form : Tenants \cup {None},   \* whose values editForm holds
     provisioning : BOOLEAN,
     credentials : Tenants \cup Apps \cup {None},
     rejecting : Apps \cup {None}]

\* `late`: its answer is not the last word on the list; see Newest.
Load == [filter : Filters, pc : {"sent", "current", "old"}, late : BOOLEAN]

Call ==
    [op : {"create", "toggle", "provision", "save", "approve", "reject",
           "left"},                \* its page is gone, or has given it up
     pc : {"sent", "done", "fetch"},
     id : Tenants \cup Apps \cup {None},
     drawer : Tenants \cup {None}, \* `selected` in the handler's closure
     filter : Filters]             \* `statusFilter` in the handler's closure

ASSUME CallAssumption == None \notin Call

Left == [op |-> "left", pc |-> "sent", id |-> None, drawer |-> None, filter |-> None]

TypeOK ==
    /\ page \in Page
    /\ loads \in Seq(Load)
    /\ call \in [Calls -> Call \cup {None}]
    /\ amiss \in BOOLEAN /\ switched \in BOOLEAN

Fresh(at) ==
    [at |-> at, list |-> None,
     filter |-> IF at = "applications" THEN "PENDING" ELSE None,
     drawer |-> None, editing |-> FALSE, form |-> None,
     provisioning |-> FALSE, credentials |-> None, rejecting |-> None]

Init ==
    /\ page = Fresh("elsewhere")
    /\ loads = <<>>
    /\ call = [c \in Calls |-> None]
    /\ amiss = FALSE /\ switched = FALSE

-----------------------------------------------------------------------------
(* Lists.                                                                  *)

Pending == {c \in Calls : call[c] # None}
MayStart == Len(loads) < MaxLoads

\* The page will not ask again for what was written, or asks with a filter that
\* is no longer its own: what has been read was read too soon.
Unnoticed(lds) ==
    /\ loads' = [i \in DOMAIN lds |-> [lds[i] EXCEPT !.late = @ \/ lds[i].pc # "sent"
                                                       \/ lds[i].filter # page.filter]]
    /\ amiss' = TRUE

\* load(), with the statusFilter its closure saw.
LoadWith(f) ==
    LET more == Append(loads, [filter |-> f, pc |-> "sent", late |-> FALSE]) IN
    IF f = page.filter THEN loads' = more /\ UNCHANGED amiss ELSE Unnoticed(more)

\* The server reads the rows.
ReadRows(i) ==
    /\ i \in DOMAIN loads /\ loads[i].pc = "sent"
    /\ loads' = [loads EXCEPT ![i].pc = "current"]
    /\ UNCHANGED <<page, call, history>>

\* The i-th load has answered, or was the newest word and failed: what is still
\* to come for older ones comes late.
Newest(i) ==
    loads' = RemoveAt([j \in DOMAIN loads |->
                         [loads[j] EXCEPT !.late = @ \/ j < i]], i)

\* The list is amiss when its newest news came late, or not at all.
ShowList(i) ==
    /\ i \in DOMAIN loads /\ loads[i].pc # "sent"
    /\ page' = [page EXCEPT !.list = [filter |-> loads[i].filter,
                                      current |-> loads[i].pc = "current"]]
    /\ Newest(i)
    /\ amiss' = loads[i].late
    /\ UNCHANGED <<call, switched>>

FailLoad(i) ==
    /\ i \in DOMAIN loads
    /\ IF loads[i].late
       THEN loads' = RemoveAt(loads, i) /\ UNCHANGED amiss
       ELSE Newest(i) /\ amiss' = TRUE
    /\ UNCHANGED <<page, call, switched>>

\* Another page is mounted, and its effect loads; the one that was there hears
\* no answer any more, but its writes go on.
Open(at) ==
    /\ at # page.at
    /\ page' = Fresh(at)
    /\ loads' = IF at = "elsewhere" THEN <<>>
                ELSE << [filter |-> Fresh(at).filter, pc |-> "sent", late |-> FALSE] >>
    /\ call' = [c \in Calls |-> IF call[c] # None /\ call[c].pc = "sent" THEN Left
                                ELSE None]
    /\ amiss' = FALSE /\ switched' = FALSE

\* Slip: the effect does not depend on the filter.
ChangeFilterOnly(f) ==
    /\ page.at = "applications" /\ page.credentials = None /\ page.rejecting = None
    /\ page' = [page EXCEPT !.filter = f]
    /\ UNCHANGED <<loads, call, history>>

\* The Select; the effect loads with the new value.
ChangeFilter(f) ==
    /\ page.at = "applications" /\ page.credentials = None /\ page.rejecting = None
    /\ MayStart /\ f # page.filter
    /\ page' = [page EXCEPT !.filter = f]
    /\ loads' = Append(loads, [filter |-> f, pc |-> "sent", late |-> FALSE])
    /\ UNCHANGED <<call, history>>

-----------------------------------------------------------------------------
(* What the admin does.  A modal masks the page, and a drawer the table.   *)

OnTenants == page.at = "tenants" /\ page.credentials = None
OnTable == OnTenants /\ page.drawer = None /\ page.list # None
InDrawer == OnTenants /\ page.drawer # None

End(c) == call' = [call EXCEPT ![c] = None]

Send(c, op, id) ==
    /\ call[c] = None /\ MayStart
    /\ call' = [call EXCEPT ![c] =
                  [op |-> op, pc |-> "sent", id |-> id, drawer |-> page.drawer,
                   filter |-> page.filter]]
    /\ UNCHANGED <<loads, history>>

\* Slip: the form is left to its initialValues, which it takes once.
OpenDetailUnset(t) ==
    /\ OnTable
    /\ page' = [page EXCEPT !.drawer = t, !.editing = FALSE,
                            !.form = IF @ = None THEN t ELSE @]
    /\ switched' = FALSE
    /\ UNCHANGED <<loads, call, amiss>>

OpenDetail(t) ==
    /\ OnTable
    /\ page' = [page EXCEPT !.drawer = t, !.editing = FALSE, !.form = t]
    /\ switched' = FALSE
    /\ UNCHANGED <<loads, call, amiss>>

CloseDrawer ==
    /\ InDrawer
    /\ page' = [page EXCEPT !.drawer = None, !.editing = FALSE]
    /\ UNCHANGED <<loads, call, history>>

Edit ==
    /\ InDrawer /\ ~page.editing
    /\ page' = [page EXCEPT !.editing = TRUE]
    /\ UNCHANGED <<loads, call, history>>

CancelEdit ==
    /\ InDrawer /\ page.editing
    /\ page' = [page EXCEPT !.editing = FALSE, !.form = page.drawer]
    /\ switched' = FALSE
    /\ UNCHANGED <<loads, call, amiss>>

\* `saving` disables the button of every tenant while one is saved.
SaveEdit(c) ==
    /\ InDrawer /\ page.editing
    /\ \A e \in Pending : call[e].op # "save"
    /\ Send(c, "save", page.drawer)
    /\ UNCHANGED page

Create(c) ==
    /\ OnTable
    /\ Send(c, "create", None)
    /\ UNCHANGED page

\* In a row, or in the drawer.
ToggleSuspend(c, t) ==
    /\ OnTable \/ (InDrawer /\ ~page.editing /\ t = page.drawer)
    /\ Send(c, "toggle", t)
    /\ UNCHANGED page

\* Slip: the button spins only for the tenant that is being given access.
ProvisionPerTenant(c) ==
    /\ InDrawer /\ ~page.editing
    /\ \A e \in Pending : ~(call[e].op = "provision" /\ call[e].id = page.drawer)
    /\ page' = [page EXCEPT !.provisioning = TRUE]
    /\ Send(c, "provision", page.drawer)

\* The button is there as long as the row on display has no access: it may be
\* an old row.  It spins for every tenant while one is given access.
ProvisionDashboard(c) ==
    /\ InDrawer /\ ~page.editing /\ ~page.provisioning
    /\ page' = [page EXCEPT !.provisioning = TRUE]
    /\ Send(c, "provision", page.drawer)

\* A list that shows it as PENDING may be old; nothing disables the button.
Approve(c, a) ==
    /\ page.at = "applications" /\ page.credentials = None /\ page.rejecting = None
    /\ page.list # None /\ page.list.filter \in {"PENDING", None}
    /\ Send(c, "approve", a)
    /\ UNCHANGED page

\* The reject modal is opened and closed ...
AskReason(a) ==
    /\ page.at = "applications" /\ page.credentials = None
    /\ IF page.rejecting = None
       THEN page.list # None /\ page.list.filter \in {"PENDING", None}
       ELSE a = None
    /\ page' = [page EXCEPT !.rejecting = a]
    /\ UNCHANGED <<loads, call, history>>

\* ... and stays open until the call is answered.
Reject(c) ==
    /\ page.at = "applications" /\ page.credentials = None /\ page.rejecting # None
    /\ Send(c, "reject", page.rejecting)
    /\ UNCHANGED page

\* The one-time modal is closed.
CloseCredentials ==
    /\ page.credentials # None
    /\ page' = [page EXCEPT !.credentials = None]
    /\ UNCHANGED <<loads, call, history>>

-----------------------------------------------------------------------------
(* The server.                                                             *)

\* create, update, suspend, reactivate, provisionDashboard, approve, reject.
Write(c) ==
    LET older == [i \in DOMAIN loads |->
                    IF loads[i].pc = "current" THEN [loads[i] EXCEPT !.pc = "old"]
                    ELSE loads[i]]
    IN
    /\ call[c] # None /\ call[c].pc = "sent"
    /\ page' = IF page.list = None THEN page ELSE [page EXCEPT !.list.current = FALSE]
    /\ IF call[c].op = "left"
       THEN End(c) /\ Unnoticed(older)
       ELSE /\ call' = [call EXCEPT ![c].pc = "done"]
            /\ loads' = older
            /\ UNCHANGED amiss
    /\ UNCHANGED switched

-----------------------------------------------------------------------------
(* The handler goes on.                                                    *)

Answered(c, op, pc) == call[c] # None /\ call[c].op = op /\ call[c].pc = pc

\* setSelected(data): history, did the drawer show another tenant, or none?
Select(t) == switched' = (switched \/ page.drawer # t)

\* `selected` is the one of the click.
Toggled(c) ==
    /\ Answered(c, "toggle", "done")
    /\ LoadWith(None)
    /\ call' = [call EXCEPT ![c] = IF @.drawer = @.id THEN [@ EXCEPT !.pc = "fetch"]
                                   ELSE None]
    /\ UNCHANGED <<page, switched>>

Provisioned(c) ==
    /\ Answered(c, "provision", "done")
    /\ page' = [page EXCEPT !.credentials = call[c].id]
    /\ LoadWith(None)
    /\ call' = [call EXCEPT ![c].pc = "fetch"]
    /\ UNCHANGED switched

\* The GET that follows either.
Fetched(c) ==
    /\ \/ /\ Answered(c, "provision", "fetch")
          /\ page' = [page EXCEPT !.drawer = call[c].id, !.provisioning = FALSE]
       \/ /\ Answered(c, "toggle", "fetch")
          /\ page' = [page EXCEPT !.drawer = call[c].id]
    /\ Select(call[c].id)
    /\ End(c)
    /\ UNCHANGED <<loads, amiss>>

Saved(c) ==
    /\ Answered(c, "save", "done")
    /\ page' = [page EXCEPT !.drawer = call[c].id, !.editing = FALSE]
    /\ Select(call[c].id)
    /\ LoadWith(None)
    /\ End(c)

Created(c) ==
    /\ Answered(c, "create", "done")
    /\ LoadWith(None)
    /\ End(c)
    /\ UNCHANGED <<page, switched>>

\* With or without a login to show.
Approved(c) ==
    /\ Answered(c, "approve", "done")
    /\ \E shown \in {call[c].id, page.credentials} :
          page' = [page EXCEPT !.credentials = shown]
    /\ LoadWith(call[c].filter)
    /\ End(c)
    /\ UNCHANGED switched

\* Slip: setRejecting('') and setRejectReason(null).
RejectedSwapped(c) ==
    /\ Answered(c, "reject", "done")
    /\ page' = [page EXCEPT !.rejecting = ""]
    /\ LoadWith(call[c].filter)
    /\ End(c)
    /\ UNCHANGED switched

\* Whichever application the modal is open for by now.
Rejected(c) ==
    /\ Answered(c, "reject", "done")
    /\ page' = [page EXCEPT !.rejecting = None]
    /\ LoadWith(call[c].filter)
    /\ End(c)
    /\ UNCHANGED switched

\* Refused, failed or lost: the page says so and, had it been done, does not
\* load.  One that was lost on its way may still get there.
FailCall(c) ==
    /\ call[c] # None
    /\ page' = IF call[c].op = "provision"
               THEN [page EXCEPT !.provisioning = FALSE] ELSE page
    /\ IF call[c].pc = "done" THEN Unnoticed(loads) ELSE UNCHANGED <<loads, amiss>>
    /\ \/ End(c)
       \/ /\ call[c].pc = "sent" /\ call[c].op # "left"
          /\ call' = [call EXCEPT ![c] = Left]
    /\ UNCHANGED switched

-----------------------------------------------------------------------------
Use ==
    \/ \E at \in {"tenants", "applications", "elsewhere"} : Open(at)
    \/ \E f \in Filters : ChangeFilter(f)
    \/ \E t \in Tenants : OpenDetail(t)
    \/ CloseDrawer \/ Edit \/ CancelEdit \/ CloseCredentials
    \/ \E a \in Apps \cup {None} : AskReason(a)
    \/ \E c \in Calls :
          \/ SaveEdit(c) \/ Create(c) \/ ProvisionDashboard(c) \/ Reject(c)
          \/ \E t \in Tenants : ToggleSuspend(c, t)
          \/ \E a \in Apps : Approve(c, a)

GoOn(c) ==
    \/ Write(c) \/ FailCall(c)
    \/ Toggled(c) \/ Provisioned(c) \/ Fetched(c) \/ Saved(c) \/ Created(c)
    \/ Approved(c) \/ Rejected(c)

Lists == \E i \in DOMAIN loads : ReadRows(i) \/ ShowList(i) \/ FailLoad(i)

Next == Use \/ Lists \/ (\E c \in Calls : GoOn(c))

Spec == Init /\ [][Next]_vars

-----------------------------------------------------------------------------
\* Once nothing is under way the list is what the server has, for the filter on
\* display, unless the newest load failed or was overtaken by an older one, a
\* write was answered by an error or after its page was left, or the filter
\* changed while an application was decided (load, useEffect, every handler).
QuietListIsCurrent ==
    (page.at # "elsewhere" /\ loads = <<>> /\ Pending = {} /\ ~amiss)
        => page.list = [filter |-> page.filter, current |-> TRUE]

\* Values are edited and saved as those of the tenant they were loaded from,
\* unless the answer to an earlier click changed the tenant in the drawer
\* (openDetail, handleSaveEdit, setSelected).
FormFollowsDrawer ==
    (page.editing /\ ~switched) => page.form = page.drawer

\* On the Tenants page a one-time password stays on display until it is closed:
\* no other grant, answer or click replaces it (handleProvisionDashboard).
CredentialsStayUntilDone ==
    [][(page.at = "tenants" /\ page'.at = "tenants" /\ page.credentials # None)
          => \/ page'.credentials = page.credentials
             \/ CloseCredentials]_vars
=============================================================================
