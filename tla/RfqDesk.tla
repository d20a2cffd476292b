------------------------------ MODULE RfqDesk ------------------------------
(***************************************************************************)
(* One tenant's database as the Tenant Dashboard backend uses it: RFQs,    *)
(* catalog products and RFQ responses, and the HTTP handlers that read and *)
(* write them (rfqs.service.ts, catalog.service.ts).                       *)
(*                                                                         *)
(* A handler is a sequence of awaited database calls.  Node interleaves    *)
(* the handlers of several requests at every await, and several serverless *)
(* instances may run at once, so each database call is an action of its    *)
(* own.  A Prisma $transaction, or a single statement, is one action.      *)
(***************************************************************************)

CONSTANTS
    Rfqs,        \* the ids of rfq rows that are ever seeded
    Products,    \* the ids of product rows that are ever created (uuids)
    Requests,    \* slots for HTTP requests in flight; a slot is reused
    Null,        \* SQL NULL / an absent optional field
    NoResponse   \* no rfq_response row

ASSUME ConstantsAssumption ==
    /\ Null \notin Products
    /\ NoResponse \notin Products
    /\ Null # NoResponse

VARIABLES
    status,      \* rfq.status per id, "ABSENT" before the row is inserted
    overdue,     \* RFQs with deadlineAt < now
    response,    \* rfq_response.productId per rfqId (unique), or NoResponse
    product,     \* product rows: "absent", "active", "inactive", "deleted"
    req          \* what every request slot is doing

db == <<status, response, product>>
vars == <<status, overdue, response, product, req>>

-----------------------------------------------------------------------------
RfqStatus == {"NEW", "RESPONDED", "DECLINED", "EXPIRED"}
Ops == {"respond", "decline", "findOne", "remove", "update"}

Idle == [op |-> "none", pc |-> "idle", rfq |-> Null, product |-> Null,
         wasDue |-> FALSE]

\* "pc" names the database call the handler awaits next.
RequestState ==
    [op : Ops \cup {"none"},
     pc : {"idle", "expire", "findRfq", "findProduct", "findReference",
           "write", "read"},
     rfq : Rfqs \cup {Null},
     product : Products \cup {Null},
     wasDue : BOOLEAN]    \* history: its RFQ was overdue when it arrived

TypeOK ==
    /\ status \in [Rfqs -> RfqStatus \cup {"ABSENT"}]
    /\ overdue \in SUBSET Rfqs
    /\ response \in [Rfqs -> Products \cup {Null, NoResponse}]
    /\ product \in [Products -> {"absent", "active", "inactive", "deleted"}]
    /\ req \in [Requests -> RequestState]

Init ==
    /\ status = [r \in Rfqs |-> "ABSENT"]
    /\ overdue = {}
    /\ response = [r \in Rfqs |-> NoResponse]
    /\ product = [p \in Products |-> "absent"]
    /\ req = [q \in Requests |-> Idle]

-----------------------------------------------------------------------------
At(q, pc) == req[q].pc = pc
GoTo(q, pc) == req' = [req EXCEPT ![q].pc = pc]

\* The handler returns or throws; the slot takes another request.
Finish(q) == req' = [req EXCEPT ![q] = Idle]

IsStored(p) == product[p] \in {"active", "inactive"}

\* The state of a request that starts a call about RFQ r with an
\* expirePastDeadlines.
Expiring(o, r, p) ==
    [op |-> o, pc |-> "expire", rfq |-> r, product |-> p,
     wasDue |-> r \in overdue]

\* respond and decline end with "return this.findOne(dbName, id)".
ReturnFindOne(q) ==
    req' = [req EXCEPT ![q] = Expiring("findOne", req[q].rfq, Null)]

-----------------------------------------------------------------------------
(* The environment: time, the internal seed endpoint.                      *)

DeadlinePasses(r) ==
    /\ status[r] # "ABSENT"
    /\ overdue' = overdue \cup {r}
    /\ UNCHANGED <<db, req>>

\* Super Admin's backend stands in for the public site.
SeedTest(r) ==
    /\ status[r] = "ABSENT"
    /\ status' = [status EXCEPT ![r] = "NEW"]
    /\ UNCHANGED <<overdue, response, product, req>>

CreateProduct(p) ==
    /\ product[p] = "absent"
    /\ \E s \in {"active", "inactive"} : product' = [product EXCEPT ![p] = s]
    /\ UNCHANGED <<status, overdue, response, req>>

-----------------------------------------------------------------------------
(* Requests arrive.                                                        *)

StartRespond(q) ==
    /\ At(q, "idle")
    /\ \E r \in Rfqs, p \in Products \cup {Null} :
          req' = [req EXCEPT ![q] = Expiring("respond", r, p)]
    /\ UNCHANGED <<db, overdue>>

StartDecline(q) ==
    /\ At(q, "idle")
    /\ \E r \in Rfqs :
          req' = [req EXCEPT ![q] = Expiring("decline", r, Null)]
    /\ UNCHANGED <<db, overdue>>

StartFindOne(q) ==
    /\ At(q, "idle")
    /\ \E r \in Rfqs :
          req' = [req EXCEPT ![q] = Expiring("findOne", r, Null)]
    /\ UNCHANGED <<db, overdue>>

StartCatalogCall(q) ==
    /\ At(q, "idle")
    /\ \E o \in {"remove", "update"}, p \in Products :
          req' = [req EXCEPT ![q] =
                    [Idle EXCEPT !.op = o, !.pc = "findProduct", !.product = p]]
    /\ UNCHANGED <<db, overdue>>

-----------------------------------------------------------------------------
(* Slips: the steps of the next section, each with one plausible mistake.  *)
(* They are no part of Next; the properties below tell them from the code. *)

\* deadlineAt checked without status = 'NEW'.
ExpireAnyStatus(q) ==
    /\ At(q, "expire")
    /\ status' = [r \in Rfqs |-> IF r \in overdue THEN "EXPIRED" ELSE status[r]]
    /\ GoTo(q, IF req[q].op = "findOne" THEN "read" ELSE "findRfq")
    /\ UNCHANGED <<overdue, response, product>>

\* Expiry left to the reading endpoints.
ExpireOnReadsOnly(q) ==
    /\ At(q, "expire")
    /\ status' = [r \in Rfqs |->
                    IF status[r] = "NEW" /\ r \in overdue /\ req[q].op = "findOne"
                    THEN "EXPIRED" ELSE status[r]]
    /\ GoTo(q, IF req[q].op = "findOne" THEN "read" ELSE "findRfq")
    /\ UNCHANGED <<overdue, response, product>>

\* Only the RFQ the request is about is expired.
ExpireOneRfq(q) ==
    /\ At(q, "expire")
    /\ status' = [r \in Rfqs |->
                    IF status[r] = "NEW" /\ r \in overdue /\ r = req[q].rfq
                    THEN "EXPIRED" ELSE status[r]]
    /\ GoTo(q, IF req[q].op = "findOne" THEN "read" ELSE "findRfq")
    /\ UNCHANGED <<overdue, response, product>>

\* The 409 for an RFQ that is no longer NEW is missing.
FindRfqAnyStatus(q) ==
    /\ At(q, "findRfq")
    /\ \/ /\ status[req[q].rfq] = "ABSENT"
          /\ Finish(q)
       \/ /\ status[req[q].rfq] # "ABSENT"
          /\ GoTo(q, IF req[q].product # Null THEN "findProduct" ELSE "write")
    /\ UNCHANGED <<db, overdue>>

\* The 409 for a quoted product is missing.
SkipReferenceCheck(q) ==
    /\ At(q, "findReference")
    /\ GoTo(q, "write")
    /\ UNCHANGED <<db, overdue>>

\* No unique index on rfq_response.rfqId: create becomes an upsert.
AcceptSecondResponse(r, p) == p # Null => IsStored(p)

\* The two writes are not in one transaction and the second one fails.
ResponseWithoutStatus(q) ==
    /\ At(q, "write") /\ req[q].op = "respond"
    /\ response[req[q].rfq] = NoResponse
    /\ response' = [response EXCEPT ![req[q].rfq] = req[q].product]
    /\ ReturnFindOne(q)
    /\ UNCHANGED <<status, overdue, product>>

\* The word Super Admin uses for a turned-down application.
DeclineAsRejected(q) ==
    /\ At(q, "write") /\ req[q].op = "decline"
    /\ status' = [status EXCEPT ![req[q].rfq] = "REJECTED"]
    /\ ReturnFindOne(q)
    /\ UNCHANGED <<overdue, response, product>>

\* The foreign key without ON DELETE SET NULL.
DeleteKeepsReferences(q) ==
    /\ At(q, "write") /\ req[q].op = "remove"
    /\ IsStored(req[q].product)
    /\ product' = [product EXCEPT ![req[q].product] = "deleted"]
    /\ Finish(q)
    /\ UNCHANGED <<status, overdue, response>>

-----------------------------------------------------------------------------
(* The handlers' database calls.                                           *)

\* One UPDATE ... WHERE status = 'NEW' AND deadlineAt < now.
ExpirePastDeadlines(q) ==
    /\ At(q, "expire")
    /\ status' = [r \in Rfqs |->
                    IF status[r] = "NEW" /\ r \in overdue THEN "EXPIRED"
                    ELSE status[r]]
    /\ GoTo(q, IF req[q].op = "findOne" THEN "read" ELSE "findRfq")
    /\ UNCHANGED <<overdue, response, product>>

\* 404 for an unknown id, 409 for any status but NEW.
FindRfq(q) ==
    /\ At(q, "findRfq")
    /\ \/ /\ status[req[q].rfq] # "NEW"
          /\ Finish(q)
       \/ /\ status[req[q].rfq] = "NEW"
          /\ GoTo(q, IF req[q].product # Null THEN "findProduct" ELSE "write")
    /\ UNCHANGED <<db, overdue>>

\* The product a response quotes (400), or the one to update or remove (404).
FindProduct(q) ==
    /\ At(q, "findProduct")
    /\ \/ /\ ~IsStored(req[q].product)
          /\ Finish(q)
       \/ /\ IsStored(req[q].product)
          /\ GoTo(q, IF req[q].op = "remove" THEN "findReference" ELSE "write")
    /\ UNCHANGED <<db, overdue>>

\* 409 when a response already quotes the product.
FindReference(q) ==
    /\ At(q, "findReference")
    /\ \/ /\ \E r \in Rfqs : response[r] = req[q].product
          /\ Finish(q)
       \/ /\ \A r \in Rfqs : response[r] # req[q].product
          /\ GoTo(q, "write")
    /\ UNCHANGED <<db, overdue>>

\* The database accepts a response row: unique rfqId, existing productId.
ResponseAccepted(r, p) ==
    /\ response[r] = NoResponse
    /\ p # Null => IsStored(p)

\* $transaction([rfqResponse.create, rfq.update]): both or neither.
WriteResponse(q) ==
    /\ At(q, "write") /\ req[q].op = "respond"
    /\ ResponseAccepted(req[q].rfq, req[q].product)
    /\ response' = [response EXCEPT ![req[q].rfq] = req[q].product]
    /\ status' = [status EXCEPT ![req[q].rfq] = "RESPONDED"]
    /\ ReturnFindOne(q)
    /\ UNCHANGED <<overdue, product>>

\* P2002 becomes a 409; a foreign-key error is rethrown.
RejectResponse(q) ==
    /\ At(q, "write") /\ req[q].op = "respond"
    /\ ~ResponseAccepted(req[q].rfq, req[q].product)
    /\ Finish(q)
    /\ UNCHANGED <<db, overdue>>

\* UPDATE ... WHERE id: the status read earlier is not looked at again.
WriteDecline(q) ==
    /\ At(q, "write") /\ req[q].op = "decline"
    /\ status' = [status EXCEPT ![req[q].rfq] = "DECLINED"]
    /\ ReturnFindOne(q)
    /\ UNCHANGED <<overdue, response, product>>

\* product.update: any field, isActive among them; P2025 if the row is gone.
WriteProduct(q) ==
    /\ At(q, "write") /\ req[q].op = "update"
    /\ \/ /\ IsStored(req[q].product)
          /\ \E s \in {"active", "inactive"} :
                product' = [product EXCEPT ![req[q].product] = s]
       \/ /\ ~IsStored(req[q].product)
          /\ UNCHANGED product
    /\ Finish(q)
    /\ UNCHANGED <<status, overdue, response>>

\* product.delete; rfq_response.productId is ON DELETE SET NULL.
DeleteProduct(q) ==
    /\ At(q, "write") /\ req[q].op = "remove"
    /\ \/ /\ IsStored(req[q].product)
          /\ product' = [product EXCEPT ![req[q].product] = "deleted"]
          /\ response' = [r \in Rfqs |->
                            IF response[r] = req[q].product THEN Null
                            ELSE response[r]]
       \/ /\ ~IsStored(req[q].product)
          /\ UNCHANGED <<product, response>>
    /\ Finish(q)
    /\ UNCHANGED <<status, overdue>>

\* findOne's findUnique: the row as it is now, or 404.
ReadRfq(q) ==
    /\ At(q, "read")
    /\ Finish(q)
    /\ UNCHANGED <<db, overdue>>

\* The connection drops, the function times out or its instance dies between
\* two calls: what was committed stays, nothing undoes it.
Fail(q) ==
    /\ ~At(q, "idle")
    /\ Finish(q)
    /\ UNCHANGED <<db, overdue>>

Arrive(q) ==
    \/ StartRespond(q) \/ StartDecline(q) \/ StartFindOne(q)
    \/ StartCatalogCall(q)

Step(q) ==
    \/ ExpirePastDeadlines(q) \/ FindRfq(q) \/ FindProduct(q)
    \/ FindReference(q) \/ WriteResponse(q) \/ RejectResponse(q)
    \/ WriteDecline(q) \/ WriteProduct(q) \/ DeleteProduct(q) \/ ReadRfq(q)

Environment ==
    \/ \E r \in Rfqs : DeadlinePasses(r) \/ SeedTest(r)
    \/ \E p \in Products : CreateProduct(p)

Next ==
    \/ Environment
    \/ \E q \in Requests : Arrive(q) \/ Step(q) \/ Fail(q)

Spec == Init /\ [][Next]_vars
-----------------------------------------------------------------------------
(* What the handlers keep true.                                            *)

\* rfq.status and the rfq_response table tell one story however respond and
\* decline interleave: a RESPONDED request has its response row, and a request
\* with a response row is never NEW or EXPIRED (rfqs.service.ts respond, decline).
AnswersMatchStatus ==
    \A r \in Rfqs :
        /\ status[r] = "RESPONDED" => response[r] # NoResponse
        /\ response[r] # NoResponse => status[r] \in {"RESPONDED", "DECLINED"}

\* A deadline that had passed when a request arrived is honoured by that
\* request: respond and decline never get as far as their write, and findOne
\* never returns the RFQ as NEW (expirePastDeadlines runs first in all three).
DeadlineRespected ==
    \A q \in Requests :
        req[q].wasDue =>
            /\ ~At(q, "findProduct") /\ ~At(q, "write")
            /\ At(q, "read") \/ At(q, "findRfq") => status[req[q].rfq] # "NEW"

\* Whatever removes and responds interleave, a response never names a product
\* row that does not exist (the foreign key, catalog.service.ts remove).
QuotesAreStored ==
    \A r \in Rfqs : response[r] \in Products => IsStored(response[r])

\* Two submits that both saw NEW leave the first one's response: a recorded
\* response is never replaced, and loses its product only when that product is
\* deleted (unique rfqId, ON DELETE SET NULL).
FirstResponseStays ==
    [][\A r \in Rfqs :
          response[r] # NoResponse /\ response'[r] # response[r] =>
              response'[r] = Null /\ product'[response[r]] = "deleted"]_vars

\* "deleting it would corrupt the historical record of what was quoted": the
\* product named in a response is named there for ever (catalog.service.ts
\* remove).  It holds while requests do not overlap.
QuoteHistoryKept ==
    [][\A r \in Rfqs :
          response[r] \in Products => response'[r] = response[r]]_vars

\* "only a NEW request may be responded to", and one that is not NEW "can no
\* longer be declined": an answer is recorded over NEW only (rfqs.service.ts
\* respond, decline).  It holds while requests do not overlap.
AnsweredOnlyFromNew ==
    [][\A r \in Rfqs :
          status'[r] # status[r] /\ status'[r] \in {"RESPONDED", "DECLINED"} =>
              status[r] = "NEW"]_vars

\* As long as some request reaches its expirePastDeadlines again and again, no
\* RFQ stays NEW after its deadline: lazy expiry needs no worker, only traffic.
OverdueLeavesNew ==
    []<><<\E q \in Requests : ExpirePastDeadlines(q)>>_vars =>
        \A r \in Rfqs :
            (r \in overdue /\ status[r] = "NEW") ~> (status[r] # "NEW")

-----------------------------------------------------------------------------
responded == {r \in Rfqs : response[r] # NoResponse}

\* The lifecycle of the comments, and what requests that overlap leave of it.
Documented == INSTANCE RfqLifecycle
                WITH RespondFrom <- {"NEW"}, DeclineFrom <- {"NEW"}
Raced == INSTANCE RfqLifecycle
           WITH RespondFrom <- {"NEW", "EXPIRED", "DECLINED"},
                DeclineFrom <- RfqStatus

\* One request at a time, the handlers implement the documented lifecycle: NEW
\* is left once, for RESPONDED, DECLINED or EXPIRED, and never again.
DocumentedLifecycle == Documented!Spec

\* With any number of overlapping requests they implement the raced one: an
\* answer may be recorded over EXPIRED or over the other answer, but NEW never
\* returns, expiry touches only NEW, and there is one response per RFQ.
RacedLifecycle == Raced!Spec
=============================================================================
