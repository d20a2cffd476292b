----------------------------- MODULE TenantPages -----------------------------
(***************************************************************************)
(* The pages of the Tenant Dashboard frontend: the two lists (RFQ inbox    *)
(* and catalog), an RFQ and a product form, one of them mounted at a time. *)
(* Every fetch belongs to an effect that cancels nothing; every handler    *)
(* goes on after its await with what it captured before.                   *)
(***************************************************************************)
EXTENDS Naturals, FiniteSets, Sequences, SequencesExt

CONSTANTS
    Rfqs, Products,
    Filters,      \* search, category and status of a list; All is none of them,
    All,          \* the next two are the status filters of the catalog alone
    ActiveOnly, InactiveOnly,
    InboxPages, CatalogPages, \* pages a list may have
    Calls,        \* writes under way
    MaxUnderWay,  \* nothing is started while as many fetches and writes are not over
    None

ASSUME TenantPagesAssumption ==
    /\ All \in Filters
    /\ {InboxPages, CatalogPages} \subseteq Nat \ {0} /\ MaxUnderWay \in Nat
    /\ None \notin Rfqs \cup Products

VARIABLES
    open,         \* RFQs whose status is NEW
    stock,        \* products there are
    active,       \* those with isActive
    page,         \* the state of the component that is mounted
    gets,         \* its fetches under way, the oldest first
    call,         \* writes under way, also those of pages left since
    amiss,        \* history: see Newest
    answered      \* history: RFQs this visit to the RFQ page saw answered

server == <<open, stock, active>>
vars == <<server, page, gets, call, amiss, answered>>

-----------------------------------------------------------------------------
\* What a page asks for: its filter and page number, or the id in its path.
Query == [filter : Filters, number : 1 .. InboxPages \cup 1 .. CatalogPages]
Key == Query \cup Rfqs \cup Products \cup {None}

\* What an answer says: the RFQ if it is NEW, the products that are listed and
\* those whose switch is on; of the inbox nothing but the query is kept.
Data == SUBSET (Rfqs \cup Products)
Rows == SUBSET Products
Shown ==
    [key : Key, data : Data, rows : Rows,
     moved : Rows]               \* history: the rows switched since it came

Page ==
    [at : {"inbox", "rfq", "catalog", "product", "elsewhere"},
     key : Key,
     shown : Shown \cup {None},
     loading : BOOLEAN,          \* of the RFQ page
     notFound : BOOLEAN,
     declining : Rfqs \cup {None}] \* the RFQ its confirmation was opened for

Get == [key : Key, data : Data, rows : Rows, read : BOOLEAN, late : BOOLEAN]

Call ==
    [op : {"respond", "decline", "toggle", "delete", "save", "create"},
     pc : {"sent", "lost", "done"}, \* lost: nobody waits, it may still get there
     id : Rfqs \cup Products,
     on : BOOLEAN,               \* the isActive it writes
     key : Key,                  \* of a delete: what load() asks for, in its closure
     previous : Shown \cup {None},
     alone : BOOLEAN,            \* history: no write or list came between
     order : {"last", "earlier", "overtaken"}, \* history: see WriteProduct
     heard : BOOLEAN]            \* its page is still mounted

ASSUME RecordsAssumption == None \notin Call \cup Shown

TypeOK ==
    /\ open \in SUBSET Rfqs /\ stock \in SUBSET Products /\ active \in SUBSET stock
    /\ page \in Page
    /\ gets \in Seq(Get)
    /\ call \in [Calls -> Call \cup {None}]
    /\ amiss \in BOOLEAN /\ answered \in SUBSET Rfqs

Fresh(at, key) ==
    [at |-> at, key |-> key, shown |-> None, loading |-> at = "rfq",
     notFound |-> FALSE, declining |-> None]

Init ==
    /\ open \in SUBSET Rfqs /\ stock \in SUBSET Products /\ active \in SUBSET stock
    /\ page = Fresh("elsewhere", None)
    /\ gets = <<>>
    /\ call = [c \in Calls |-> None]
    /\ amiss = FALSE /\ answered = {}

-----------------------------------------------------------------------------
(* Fetches.                                                                *)

Ask(key) == [key |-> key, data |-> {}, rows |-> {}, read |-> FALSE, late |-> FALSE]

\* History: nothing will be fetched again because of what has just changed, so
\* what has been read was read too soon, and so was what is on display.
Unnoticed(gs, stale) ==
    /\ gets' = [i \in DOMAIN gs |-> [gs[i] EXCEPT !.late = @ \/ gs[i].read]]
    /\ amiss' = (amiss \/ stale)

\* load() with what its closure knows; history: has the page moved on since?
LoadWith(key) ==
    IF key = page.key THEN gets' = Append(gets, Ask(key)) /\ UNCHANGED amiss
    ELSE Unnoticed(Append(gets, [Ask(key) EXCEPT !.late = TRUE]), TRUE)

\* The status filter of the catalog, findAll's where.
Matching(filter) ==
    CASE filter = ActiveOnly -> active
      [] filter = InactiveOnly -> stock \ active
      [] OTHER -> stock

\* A search, a category and the number of the page leave any part of them.
Listings(key) == IF page.at = "catalog" THEN SUBSET Matching(key.filter) ELSE {{}}

Answer(key, rows) ==
    CASE page.at = "rfq" -> open \cap {key}
      [] page.at = "catalog" -> active \cap rows
      [] OTHER -> {}

\* A product that is not there is a 404, see FailGet.
ReadRows(i) ==
    /\ i \in DOMAIN gets /\ ~gets[i].read
    /\ page.at = "product" => gets[i].key \in stock
    /\ \E rows \in Listings(gets[i].key) :
          gets' = [gets EXCEPT ![i].read = TRUE, ![i].rows = rows,
                               ![i].data = Answer(gets[i].key, rows)]
    /\ UNCHANGED <<server, page, call, amiss, answered>>

\* History: what is still to come for older fetches comes late, and the page is
\* amiss when its newest news came late, or not at all.
Newest(i) ==
    gets' = RemoveAt([j \in DOMAIN gets |-> [gets[j] EXCEPT !.late = @ \/ j < i]], i)

\* History: for a write under way the page is not what it was any more.
Disturbed(k, order) ==
    IF k = None THEN None
    ELSE IF k.op = "toggle" /\ k.pc = "sent"
         THEN [k EXCEPT !.alone = FALSE, !.order = order]
    ELSE [k EXCEPT !.alone = FALSE]

Show(i) ==
    /\ i \in DOMAIN gets /\ gets[i].read
    /\ page' = [page EXCEPT !.shown = [key |-> gets[i].key, data |-> gets[i].data,
                                       rows |-> gets[i].rows, moved |-> {}],
                            !.loading = FALSE]
    /\ Newest(i)
    /\ amiss' = gets[i].late
    /\ call' = [c \in Calls |-> Disturbed(call[c], "overtaken")]
    /\ UNCHANGED <<server, answered>>

\* The RFQ page says not found from then on; a list stays as it is.
FailGet(i) ==
    /\ i \in DOMAIN gets
    /\ page' = [page EXCEPT !.loading = FALSE,
                            !.notFound = @ \/ page.at \in {"rfq", "product"}]
    /\ Newest(i)
    /\ amiss' = TRUE
    /\ UNCHANGED <<server, call, answered>>

-----------------------------------------------------------------------------
(* Where the tenant goes.                                                  *)

Pending == {c \in Calls : call[c] # None}
MayStart == Len(gets) + Cardinality(Pending) < MaxUnderWay

Mount(at, key) ==
    /\ page' = Fresh(at, key)
    /\ gets' = IF key = None THEN <<>> ELSE <<Ask(key)>>
    /\ amiss' = FALSE /\ answered' = {}

\* Nobody on this page waits for it, but it may still get there.
Lost(k) ==
    [k EXCEPT !.pc = "lost", !.heard = FALSE, !.key = None, !.previous = None,
              !.alone = FALSE, !.order = "last"]

Answers == {"respond", "decline"}
Saves == {"save", "create"}

\* What is left goes on unheard.  An answer to come changes nothing then, except
\* that a product that was saved still leads to the catalog; and that an RFQ is
\* decided unheard may happen at any time, see Close.
Deafened(k) ==
    IF k = None THEN None
    ELSE CASE k.op \in Saves /\ k.pc # "lost" ->
                [k EXCEPT !.heard = FALSE, !.key = None, !.alone = FALSE]
           [] k.op \in Answers \/ (k.op \notin Saves /\ k.pc = "done") -> None
           [] OTHER -> Lost(k)

Deafen(calls) == [c \in Calls |-> Deafened(calls[c])]

\* Also through the history of the browser, from under the confirmation.
Open(at, key) ==
    /\ at # page.at
    /\ Mount(at, key)
    /\ call' = Deafen(call)
    /\ UNCHANGED server

First(f) == [filter |-> f, number |-> 1]

Navigate ==
    \/ Open("inbox", First(All)) \/ Open("catalog", First(All))
    \/ \E r \in Rfqs : Open("rfq", r)
    \/ \E p \in Products \cup {None} : Open("product", p)
    \/ Open("elsewhere", None)

\* Through the history of the browser from one RFQ or product to another: the
\* component stays, what it confirms too, and only its effect runs again.
Jump(id) ==
    /\ \/ page.at = "rfq" /\ id \in Rfqs
       \/ page.at = "product" /\ page.key # None /\ id \in Products
    /\ id # page.key /\ MayStart
    /\ page' = [page EXCEPT !.key = id, !.loading = page.at = "rfq"]
    /\ gets' = Append(gets, Ask(id))
    /\ UNCHANGED <<server, call, amiss, answered>>

IsList == page.at \in {"inbox", "catalog"}

\* From a later page one effect fetches that page of the new list, the other
\* sets the page to 1, and that fetches again.
SetFilter(f) ==
    /\ IsList /\ MayStart /\ f # page.key.filter
    /\ page' = [page EXCEPT !.key = First(f)]
    /\ gets' = gets \o (IF page.key.number = 1 THEN <<>>
                        ELSE <<[Ask([page.key EXCEPT !.filter = f]) EXCEPT !.late = TRUE]>>)
                    \o <<Ask(First(f))>>
    /\ UNCHANGED <<server, call, amiss, answered>>

ListPages == 1 .. (IF page.at = "inbox" THEN InboxPages ELSE CatalogPages)

\* Slip: the number is raised where the list counts pages from 1 already.
SetPageRaised(n) ==
    /\ IsList /\ MayStart /\ n # page.key.number
    /\ page' = [page EXCEPT !.key.number = n + 1]
    /\ gets' = Append(gets, Ask([page.key EXCEPT !.number = n + 1]))
    /\ UNCHANGED <<server, call, amiss, answered>>

SetPage(n) ==
    /\ IsList /\ MayStart /\ n # page.key.number
    /\ page' = [page EXCEPT !.key.number = n]
    /\ gets' = Append(gets, Ask([page.key EXCEPT !.number = n]))
    /\ UNCHANGED <<server, call, amiss, answered>>

-----------------------------------------------------------------------------
(* What the tenant writes.                                                 *)

Heard(ops) == \E c \in Pending : call[c].op \in ops /\ call[c].heard

\* History: a switch that is moved twice is written in this order.
Send(c, op, id, on) ==
    /\ call[c] = None /\ MayStart
    /\ LET order(k) == IF op = "toggle" /\ k.id = id /\ k.order = "last"
                       THEN "earlier" ELSE k.order
       IN call' = [d \in Calls |->
                     IF d = c THEN [op |-> op, pc |-> "sent", id |-> id, on |-> on,
                                    key |-> IF op = "delete" THEN page.key ELSE None,
                                    alone |-> Pending = {}, order |-> "last",
                                    previous |-> IF op = "toggle" THEN page.shown ELSE None,
                                    heard |-> TRUE]
                     ELSE Disturbed(call[d], order(call[d]))]
    /\ UNCHANGED <<server, gets, amiss, answered>>

\* The form of an RFQ that is NEW as far as the page knows.
Offered ==
    /\ page.at = "rfq" /\ ~page.loading /\ ~page.notFound
    /\ page.shown # None /\ page.shown.key \in page.shown.data

\* The id is the path's; `submitting` disables the button.
Respond(c) ==
    /\ Offered /\ page.declining = None /\ ~Heard({"respond"})
    /\ Send(c, "respond", page.key, FALSE)
    /\ UNCHANGED page

\* Modal.confirm covers the page ...
AskDecline ==
    /\ Offered /\ page.declining = None
    /\ page' = [page EXCEPT !.declining = page.key]
    /\ UNCHANGED <<server, gets, call, amiss, answered>>

CancelDecline ==
    /\ page.declining # None
    /\ page' = [page EXCEPT !.declining = None]
    /\ UNCHANGED <<server, gets, call, amiss, answered>>

\* ... and is there whatever the page shows below it by now.
Decline(c) ==
    /\ page.declining # None
    /\ page' = [page EXCEPT !.declining = None]
    /\ Send(c, "decline", page.declining, FALSE)

Flip(data, p, on) == IF on THEN data \cup {p} ELSE data \ {p}

\* The switch moves at once; the row stays, whatever the filter is.
ToggleActive(c, p) ==
    /\ page.at = "catalog" /\ page.shown # None /\ p \in page.shown.rows
    /\ LET on == p \notin page.shown.data IN
       /\ page' = [page EXCEPT !.shown.data = Flip(@, p, on), !.shown.moved = @ \cup {p}]
       /\ Send(c, "toggle", p, on)

Delete(c, p) ==
    /\ page.at = "catalog" /\ page.shown # None /\ p \in page.shown.rows
    /\ Send(c, "delete", p, FALSE)
    /\ UNCHANGED page

\* The form of a product that exists, once it is filled, or of a new one, whose
\* id is one that nothing has yet.
SaveProduct(c, p) ==
    /\ page.at = "product" /\ ~page.notFound /\ ~Heard(Saves)
    /\ \/ p = page.key /\ page.shown # None
       \/ page.key = None /\ p \notin stock \cup {call[d].id : d \in Pending}
    /\ \E on \in BOOLEAN : Send(c, IF page.key = None THEN "create" ELSE "save", p, on)
    /\ UNCHANGED page

-----------------------------------------------------------------------------
(* The server.                                                             *)

Done(c) == call' = [call EXCEPT ![c].pc = "done"]
End(c) == call' = [call EXCEPT ![c] = None]

\* respond and decline: an answer to an RFQ that is not NEW is a 409, which
\* the page handles like one that was accepted.
Decide(c) ==
    /\ call[c] # None /\ call[c].pc = "sent" /\ call[c].op \in Answers
    /\ open' = open \ {call[c].id}
    /\ Done(c)
    /\ UNCHANGED <<stock, active, page, gets, amiss, answered>>

\* A deadline passes, another tab answers, or a page that was left does.
Close(r) ==
    /\ r \in open
    /\ open' = open \ {r}
    /\ UNCHANGED <<stock, active, page, gets, call, amiss, answered>>

\* update, create and remove; what is gone is a 404, see FailCall.  History: when
\* the last of several writes of a switch gets there, the others are overtaken; one
\* that was, and one that nobody waits for, the catalog does not notice.
WriteProduct(c) ==
    LET p == call[c].id
        unnoticed == call[c].pc = "lost" \/ ~call[c].heard \/ call[c].order = "overtaken"
        overtaken(k) == /\ call[c].op = "toggle" /\ call[c].order = "last"
                        /\ k # None /\ k.op = "toggle" /\ k.pc = "sent" /\ k.id = p
    IN
    /\ call[c] # None /\ call[c].pc \in {"sent", "lost"} /\ call[c].op \notin Answers
    /\ (p \in stock) = (call[c].op # "create")
    /\ stock' = IF call[c].op = "delete" THEN stock \ {p} ELSE stock \cup {p}
    /\ active' = Flip(active, p, call[c].on) \cap stock'
    /\ IF page.at # "catalog" \/ (call[c].op = "delete" /\ call[c].heard)
       THEN UNCHANGED <<gets, amiss>>
       ELSE Unnoticed(gets, unnoticed)
    /\ call' = [d \in Calls |->
                  IF d # c THEN IF overtaken(call[d]) THEN [call[d] EXCEPT !.order = "overtaken"]
                                ELSE call[d]
                  ELSE IF call[c].pc = "lost" THEN None
                  ELSE [call[c] EXCEPT !.pc = "done", !.alone = FALSE, !.order = "last"]]
    /\ UNCHANGED <<open, page, answered>>

-----------------------------------------------------------------------------
(* The handler goes on.                                                    *)

\* Slip: a 409 is an error like any other.
DecidedOnce(c) ==
    /\ call[c] # None /\ call[c].pc = "done" /\ call[c].op \in Answers
    /\ answered' = answered \cup {call[c].id}
    /\ End(c)
    /\ \/ page' = [page EXCEPT !.loading = TRUE] /\ LoadWith(call[c].id)
       \/ UNCHANGED <<page, gets, amiss>>
    /\ UNCHANGED server

\* Accepted or 409: load() for the RFQ of the closure.
Decided(c) ==
    /\ call[c] # None /\ call[c].pc = "done" /\ call[c].op \in Answers
    /\ answered' = answered \cup {call[c].id}
    /\ End(c)
    /\ page' = [page EXCEPT !.loading = TRUE]
    /\ LoadWith(call[c].id)
    /\ UNCHANGED server

Toggled(c) ==
    /\ call[c] # None /\ call[c].pc = "done" /\ call[c].op = "toggle"
    /\ End(c)
    /\ UNCHANGED <<server, page, gets, amiss, answered>>

Deleted(c) ==
    /\ call[c] # None /\ call[c].pc = "done" /\ call[c].op = "delete"
    /\ LoadWith(call[c].key)
    /\ End(c)
    /\ UNCHANGED <<server, page, answered>>

\* navigate('/catalog'), from whatever page there is by now.
Saved(c) ==
    /\ call[c] # None /\ call[c].pc = "done" /\ call[c].op \in Saves
    /\ IF page.at = "catalog"
       THEN End(c) /\ UNCHANGED <<page, gets, amiss, answered>>
       ELSE /\ Mount("catalog", First(All))
            /\ call' = Deafen([call EXCEPT ![c] = None])
    /\ UNCHANGED server

\* Slip: the catch tells, and leaves the switch where it is.
FailCallKept(c) ==
    /\ call[c] # None
    /\ IF call[c].pc = "done" THEN Unnoticed(gets, TRUE) ELSE UNCHANGED <<gets, amiss>>
    /\ End(c)
    /\ UNCHANGED <<server, page, answered>>

\* Refused, failed or lost, on the way there or back.  The list goes back to the
\* items before the click, whatever they have become since.
FailCall(c) ==
    LET before == call[c].previous IN
    /\ call[c] # None
    /\ page' = IF before = None THEN page ELSE [page EXCEPT !.shown = before]
    /\ IF call[c].pc = "done" THEN Unnoticed(gets, TRUE)
       ELSE /\ amiss' = (amiss \/ (before # None /\ ~call[c].alone))
            /\ UNCHANGED gets
    /\ \/ End(c)
       \/ /\ call[c].pc = "sent" /\ call[c].op \notin Answers
          /\ call' = [call EXCEPT ![c] = Lost(@)]
    /\ UNCHANGED <<server, answered>>

-----------------------------------------------------------------------------
Use ==
    \/ Navigate
    \/ \E id \in Rfqs \cup Products : Jump(id)
    \/ \E f \in Filters : SetFilter(f)
    \/ \E n \in ListPages : SetPage(n)
    \/ AskDecline \/ CancelDecline
    \/ \E c \in Calls :
          \/ Respond(c) \/ Decline(c)
          \/ \E p \in Products : ToggleActive(c, p) \/ Delete(c, p) \/ SaveProduct(c, p)

GoOn(c) ==
    \/ Decide(c) \/ WriteProduct(c)
    \/ Decided(c) \/ Toggled(c) \/ Deleted(c) \/ Saved(c) \/ FailCall(c)

Fetch == \E i \in DOMAIN gets : ReadRows(i) \/ Show(i) \/ FailGet(i)

Next ==
    \/ Use \/ Fetch
    \/ \E c \in Calls : GoOn(c)
    \/ \E r \in Rfqs : Close(r)

Spec == Init /\ [][Next]_vars

-----------------------------------------------------------------------------
Quiet == gets = <<>> /\ Pending = {} /\ ~amiss

\* Once nothing is under way the page shows the answer to the filter and number on
\* display or to the id in its path (the effects).  A product the catalog lists is
\* there, its switch is what the server has, and it meets the status filter unless
\* that switch has been moved since the list came (toggleActive moves it in place).
\* This is said of a page unless the news it shows last
\*   - did not come, or an older fetch, or one read before a write, came after it;
\*   - was asked for by a load() of a filter, page or id that has changed since
\*     (the closures of handleDelete, handleRespond and handleDecline);
\* or since then, with nothing fetched again,
\*   - a write was carried out whose answer was lost or whose page had been left;
\*   - a switch was moved twice and its writes got there in the other order, or was
\*     moved before the list came and written after it;
\*   - a switch failed after another write or list had come in between, and took
\*     the page back to before them (setItems(previous)).
QuietPageIsCurrent ==
    (Quiet /\ page.key # None) =>
        /\ page.shown # None /\ page.shown.key = page.key
        /\ page.at = "catalog" =>
              /\ page.shown.rows \subseteq stock
              /\ page.shown.rows \ page.shown.moved \subseteq Matching(page.key.filter)
              /\ page.shown.data = active \cap page.shown.rows

\* Once a quote or a refusal has been answered, be it with a 409, the form for
\* that RFQ is not offered again (handleRespond, handleDecline, load).
AnsweredFormIsGone ==
    (gets = <<>> /\ ~amiss /\ Offered) => page.shown.key \notin answered
=============================================================================
