--------------------------- MODULE RfqDeskProofs ---------------------------
(***************************************************************************)
(* Proofs about RfqDesk for any sets of RFQs, products and requests.  The  *)
(* safety properties are not inductive: they rest on where each request is *)
(* in its handler and what it has already read (RequestsInOrder).          *)
(***************************************************************************)
EXTENDS RfqDesk, TLAPS

\* What a request holds at each of its database calls.
RequestsInOrder ==
    \A q \in Requests :
        /\ req[q].op \in {"none", "decline", "findOne"} =>
              req[q].product = Null
        /\ req[q].op \in {"respond", "decline", "findOne"} => req[q].rfq \in Rfqs
        /\ At(q, "expire") => req[q].op \in {"respond", "decline", "findOne"}
        /\ At(q, "findRfq") => req[q].op \in {"respond", "decline"}
        /\ At(q, "findProduct") => /\ req[q].op \in {"respond", "remove", "update"}
                                   /\ req[q].product \in Products
        /\ At(q, "findReference") => /\ req[q].op = "remove"
                                     /\ req[q].product \in Products
        /\ At(q, "read") => req[q].op = "findOne"
        /\ At(q, "write") /\ req[q].op \in {"remove", "update"} =>
              req[q].product \in Products
        /\ (At(q, "findProduct") \/ At(q, "write"))
              /\ req[q].op \in {"respond", "decline"} =>
                 status[req[q].rfq] # "ABSENT"
        /\ req[q].wasDue => /\ req[q].op \in {"respond", "decline", "findOne"}
                            /\ req[q].rfq \in overdue

\* Only a stored RFQ is overdue; an RFQ that is not stored has no response.
RowsExist ==
    \A r \in Rfqs :
        status[r] = "ABSENT" => r \notin overdue /\ response[r] = NoResponse

IInv ==
    /\ TypeOK
    /\ RequestsInOrder
    /\ RowsExist
    /\ AnswersMatchStatus
    /\ DeadlineRespected
    /\ QuotesAreStored

-----------------------------------------------------------------------------
\* The initial state, an empty database with no request in flight, satisfies
\* every part of the inductive invariant.
LEMMA InitIInv == Init => IInv
BY ConstantsAssumption
   DEF Init, IInv, TypeOK, RequestsInOrder, RowsExist, AnswersMatchStatus,
       DeadlineRespected, QuotesAreStored, Idle, RequestState, At, IsStored, Ops

\* A handler that moves on or ends leaves a well-formed request behind (the
\* Start actions assign one slot of req).
LEMMA SlotType ==
    ASSUME TypeOK, NEW q \in Requests, NEW s \in RequestState,
           req' = [req EXCEPT ![q] = s]
    PROVE  req' \in [Requests -> RequestState]
BY DEF TypeOK

\* The parts of the invariant that only read the database survive a step that
\* only moves a request.
LEMMA RequestStep ==
    ASSUME IInv, UNCHANGED <<db, overdue>>
    PROVE  RowsExist' /\ AnswersMatchStatus' /\ QuotesAreStored'
BY DEF IInv, db, RowsExist, AnswersMatchStatus, QuotesAreStored, IsStored

\* Every step of every handler, of time and of the seed endpoint preserves the
\* inductive invariant.
LEMMA NextIInv == IInv /\ [Next]_vars => IInv'
<1> SUFFICES ASSUME IInv, [Next]_vars PROVE IInv'
  OBVIOUS
<1> USE ConstantsAssumption
    DEF IInv, Ops, RfqStatus, RequestState, Idle, At, Finish, GoTo, Expiring,
        ReturnFindOne, IsStored, db
<1>1. ASSUME NEW r \in Rfqs, DeadlinePasses(r)
      PROVE  IInv'
  <2>1. TypeOK'
    BY <1>1 DEF DeadlinePasses, TypeOK, RequestsInOrder
  <2>2. RequestsInOrder'
    BY <1>1 DEF DeadlinePasses, TypeOK, RequestsInOrder, RowsExist
  <2>3. RowsExist' /\ AnswersMatchStatus'
    BY <1>1
    DEF DeadlinePasses, TypeOK, RequestsInOrder, RowsExist, AnswersMatchStatus
  <2>4. DeadlineRespected'
    BY <1>1
    DEF DeadlinePasses, TypeOK, RequestsInOrder, RowsExist, DeadlineRespected
  <2>5. QuotesAreStored'
    BY <1>1 DEF DeadlinePasses, TypeOK, RequestsInOrder, QuotesAreStored
  <2> QED  BY <2>1, <2>2, <2>3, <2>4, <2>5
<1>2. ASSUME NEW r \in Rfqs, SeedTest(r)
      PROVE  IInv'
  <2>1. TypeOK'
    BY <1>2 DEF SeedTest, TypeOK, RequestsInOrder
  <2>2. RequestsInOrder'
    BY <1>2 DEF SeedTest, TypeOK, RequestsInOrder, RowsExist
  <2>3. RowsExist' /\ AnswersMatchStatus'
    BY <1>2 DEF SeedTest, TypeOK, RequestsInOrder, RowsExist, AnswersMatchStatus
  <2>4. DeadlineRespected'
    BY <1>2 DEF SeedTest, TypeOK, RequestsInOrder, RowsExist, DeadlineRespected
  <2>5. QuotesAreStored'
    BY <1>2 DEF SeedTest, TypeOK, RequestsInOrder, QuotesAreStored
  <2> QED  BY <2>1, <2>2, <2>3, <2>4, <2>5
<1>3. ASSUME NEW p \in Products, CreateProduct(p)
      PROVE  IInv'
  <2>1. TypeOK'
    BY <1>3 DEF CreateProduct, TypeOK, RequestsInOrder
  <2>2. RequestsInOrder'
    BY <1>3 DEF CreateProduct, TypeOK, RequestsInOrder, RowsExist
  <2>3. RowsExist' /\ AnswersMatchStatus'
    BY <1>3
    DEF CreateProduct, TypeOK, RequestsInOrder, RowsExist, AnswersMatchStatus
  <2>4. DeadlineRespected'
    BY <1>3
    DEF CreateProduct, TypeOK, RequestsInOrder, RowsExist, DeadlineRespected
  <2>5. QuotesAreStored'
    BY <1>3 DEF CreateProduct, TypeOK, RequestsInOrder, QuotesAreStored
  <2> QED  BY <2>1, <2>2, <2>3, <2>4, <2>5
<1>4. ASSUME NEW q \in Requests, StartRespond(q)
      PROVE  IInv'
  <2> PICK r \in Rfqs, p \in Products \cup {Null} :
        req' = [req EXCEPT ![q] = Expiring("respond", r, p)]
    BY <1>4 DEF StartRespond
  <2>1. Expiring("respond", r, p) \in RequestState
    OBVIOUS
  <2>2. TypeOK'
    BY <1>4, <2>1, SlotType DEF StartRespond, TypeOK
  <2>3. RequestsInOrder'
    BY <1>4 DEF StartRespond, TypeOK, RequestsInOrder
  <2>4. DeadlineRespected'
    BY <1>4 DEF StartRespond, TypeOK, DeadlineRespected
  <2>5. RowsExist' /\ AnswersMatchStatus' /\ QuotesAreStored'
    BY <1>4, RequestStep DEF StartRespond
  <2> QED  BY <2>2, <2>3, <2>4, <2>5
<1>5. ASSUME NEW q \in Requests, StartDecline(q)
      PROVE  IInv'
  <2> PICK r \in Rfqs :
        req' = [req EXCEPT ![q] = Expiring("decline", r, Null)]
    BY <1>5 DEF StartDecline
  <2>1. Expiring("decline", r, Null) \in RequestState
    OBVIOUS
  <2>2. TypeOK'
    BY <1>5, <2>1, SlotType DEF StartDecline, TypeOK
  <2>3. RequestsInOrder'
    BY <1>5 DEF StartDecline, TypeOK, RequestsInOrder
  <2>4. DeadlineRespected'
    BY <1>5 DEF StartDecline, TypeOK, DeadlineRespected
  <2>5. RowsExist' /\ AnswersMatchStatus' /\ QuotesAreStored'
    BY <1>5, RequestStep DEF StartDecline
  <2> QED  BY <2>2, <2>3, <2>4, <2>5
<1>6. ASSUME NEW q \in Requests, StartFindOne(q)
      PROVE  IInv'
  <2> PICK r \in Rfqs :
        req' = [req EXCEPT ![q] = Expiring("findOne", r, Null)]
    BY <1>6 DEF StartFindOne
  <2>1. Expiring("findOne", r, Null) \in RequestState
    OBVIOUS
  <2>2. TypeOK'
    BY <1>6, <2>1, SlotType DEF StartFindOne, TypeOK
  <2>3. RequestsInOrder'
    BY <1>6 DEF StartFindOne, TypeOK, RequestsInOrder
  <2>4. DeadlineRespected'
    BY <1>6 DEF StartFindOne, TypeOK, DeadlineRespected
  <2>5. RowsExist' /\ AnswersMatchStatus' /\ QuotesAreStored'
    BY <1>6, RequestStep DEF StartFindOne
  <2> QED  BY <2>2, <2>3, <2>4, <2>5
<1>7. ASSUME NEW q \in Requests, StartCatalogCall(q)
      PROVE  IInv'
  <2> PICK o \in {"remove", "update"}, p \in Products :
        req' = [req EXCEPT ![q] = [Idle EXCEPT !.op = o, !.pc = "findProduct",
        !.product = p]]
    BY <1>7 DEF StartCatalogCall
  <2>1. [Idle EXCEPT !.op = o, !.pc = "findProduct", !.product = p] \in
        RequestState
    OBVIOUS
  <2>2. TypeOK'
    BY <1>7, <2>1, SlotType DEF StartCatalogCall, TypeOK
  <2>3. RequestsInOrder'
    BY <1>7 DEF StartCatalogCall, TypeOK, RequestsInOrder
  <2>4. DeadlineRespected'
    BY <1>7 DEF StartCatalogCall, TypeOK, DeadlineRespected
  <2>5. RowsExist' /\ AnswersMatchStatus' /\ QuotesAreStored'
    BY <1>7, RequestStep DEF StartCatalogCall
  <2> QED  BY <2>2, <2>3, <2>4, <2>5
<1>8. ASSUME NEW q \in Requests, ExpirePastDeadlines(q)
      PROVE  IInv'
  <2>1. TypeOK'
    BY <1>8 DEF ExpirePastDeadlines, TypeOK, RequestsInOrder
  <2>2. RequestsInOrder'
    BY <1>8 DEF ExpirePastDeadlines, TypeOK, RequestsInOrder, RowsExist
  <2>3. RowsExist' /\ AnswersMatchStatus'
    BY <1>8
    DEF ExpirePastDeadlines, TypeOK, RequestsInOrder, RowsExist,
        AnswersMatchStatus
  <2>4. DeadlineRespected'
    BY <1>8
    DEF ExpirePastDeadlines, TypeOK, RequestsInOrder, RowsExist,
        DeadlineRespected
  <2>5. QuotesAreStored'
    BY <1>8 DEF ExpirePastDeadlines, TypeOK, RequestsInOrder, QuotesAreStored
  <2> QED  BY <2>1, <2>2, <2>3, <2>4, <2>5
<1>9. ASSUME NEW q \in Requests, FindRfq(q)
      PROVE  IInv'
  <2>1. TypeOK'
    <3>1. CASE Finish(q)
      BY <1>9, <3>1 DEF FindRfq, TypeOK
    <3>2. ASSUME NEW pc \in {"findProduct", "findReference", "write"},
                 GoTo(q, pc)
          PROVE  req' \in [Requests -> RequestState]
      BY <3>2 DEF TypeOK
    <3> QED  BY <1>9, <3>1, <3>2 DEF FindRfq, TypeOK
  <2>2. RequestsInOrder'
    BY <1>9 DEF FindRfq, TypeOK, RequestsInOrder
  <2>3. DeadlineRespected'
    BY <1>9 DEF FindRfq, TypeOK, RequestsInOrder, DeadlineRespected
  <2>4. RowsExist' /\ AnswersMatchStatus' /\ QuotesAreStored'
    BY <1>9, RequestStep DEF FindRfq
  <2> QED  BY <2>1, <2>2, <2>3, <2>4
<1>10. ASSUME NEW q \in Requests, FindProduct(q)
      PROVE  IInv'
  <2>1. TypeOK'
    <3>1. CASE Finish(q)
      BY <1>10, <3>1 DEF FindProduct, TypeOK
    <3>2. ASSUME NEW pc \in {"findProduct", "findReference", "write"},
                 GoTo(q, pc)
          PROVE  req' \in [Requests -> RequestState]
      BY <3>2 DEF TypeOK
    <3> QED  BY <1>10, <3>1, <3>2 DEF FindProduct, TypeOK
  <2>2. RequestsInOrder'
    BY <1>10 DEF FindProduct, TypeOK, RequestsInOrder
  <2>3. DeadlineRespected'
    BY <1>10 DEF FindProduct, TypeOK, RequestsInOrder, DeadlineRespected
  <2>4. RowsExist' /\ AnswersMatchStatus' /\ QuotesAreStored'
    BY <1>10, RequestStep DEF FindProduct
  <2> QED  BY <2>1, <2>2, <2>3, <2>4
<1>11. ASSUME NEW q \in Requests, FindReference(q)
      PROVE  IInv'
  <2>1. TypeOK'
    <3>1. CASE Finish(q)
      BY <1>11, <3>1 DEF FindReference, TypeOK
    <3>2. ASSUME NEW pc \in {"findProduct", "findReference", "write"},
                 GoTo(q, pc)
          PROVE  req' \in [Requests -> RequestState]
      BY <3>2 DEF TypeOK
    <3> QED  BY <1>11, <3>1, <3>2 DEF FindReference, TypeOK
  <2>2. RequestsInOrder'
    BY <1>11 DEF FindReference, TypeOK, RequestsInOrder
  <2>3. DeadlineRespected'
    BY <1>11 DEF FindReference, TypeOK, RequestsInOrder, DeadlineRespected
  <2>4. RowsExist' /\ AnswersMatchStatus' /\ QuotesAreStored'
    BY <1>11, RequestStep DEF FindReference
  <2> QED  BY <2>1, <2>2, <2>3, <2>4
<1>12. ASSUME NEW q \in Requests, WriteResponse(q)
      PROVE  IInv'
  <2>1. TypeOK'
    BY <1>12 DEF WriteResponse, TypeOK, RequestsInOrder
  <2>2. RequestsInOrder'
    BY <1>12 DEF WriteResponse, TypeOK, RequestsInOrder, RowsExist
  <2>3. RowsExist' /\ AnswersMatchStatus'
    BY <1>12
    DEF WriteResponse, ResponseAccepted, TypeOK, RequestsInOrder, RowsExist,
        AnswersMatchStatus
  <2>4. DeadlineRespected'
    BY <1>12
    DEF WriteResponse, TypeOK, RequestsInOrder, RowsExist, DeadlineRespected
  <2>5. QuotesAreStored'
    BY <1>12
    DEF WriteResponse, ResponseAccepted, TypeOK, RequestsInOrder,
        QuotesAreStored
  <2> QED  BY <2>1, <2>2, <2>3, <2>4, <2>5
<1>13. ASSUME NEW q \in Requests, RejectResponse(q)
      PROVE  IInv'
  <2>1. TypeOK'
    BY <1>13 DEF RejectResponse, TypeOK
  <2>2. RequestsInOrder'
    BY <1>13 DEF RejectResponse, TypeOK, RequestsInOrder
  <2>3. DeadlineRespected'
    BY <1>13 DEF RejectResponse, TypeOK, RequestsInOrder, DeadlineRespected
  <2>4. RowsExist' /\ AnswersMatchStatus' /\ QuotesAreStored'
    BY <1>13, RequestStep DEF RejectResponse
  <2> QED  BY <2>1, <2>2, <2>3, <2>4
<1>14. ASSUME NEW q \in Requests, WriteDecline(q)
      PROVE  IInv'
  <2>1. TypeOK'
    BY <1>14 DEF WriteDecline, TypeOK, RequestsInOrder
  <2>2. RequestsInOrder'
    BY <1>14 DEF WriteDecline, TypeOK, RequestsInOrder, RowsExist
  <2>3. RowsExist' /\ AnswersMatchStatus'
    BY <1>14
    DEF WriteDecline, TypeOK, RequestsInOrder, RowsExist, AnswersMatchStatus
  <2>4. DeadlineRespected'
    BY <1>14
    DEF WriteDecline, TypeOK, RequestsInOrder, RowsExist, DeadlineRespected
  <2>5. QuotesAreStored'
    BY <1>14 DEF WriteDecline, TypeOK, RequestsInOrder, QuotesAreStored
  <2> QED  BY <2>1, <2>2, <2>3, <2>4, <2>5
<1>15. ASSUME NEW q \in Requests, WriteProduct(q)
      PROVE  IInv'
  <2>1. TypeOK'
    BY <1>15 DEF WriteProduct, TypeOK, RequestsInOrder
  <2>2. RequestsInOrder'
    BY <1>15 DEF WriteProduct, TypeOK, RequestsInOrder, RowsExist
  <2>3. RowsExist' /\ AnswersMatchStatus'
    BY <1>15
    DEF WriteProduct, TypeOK, RequestsInOrder, RowsExist, AnswersMatchStatus
  <2>4. DeadlineRespected'
    BY <1>15
    DEF WriteProduct, TypeOK, RequestsInOrder, RowsExist, DeadlineRespected
  <2>5. QuotesAreStored'
    BY <1>15 DEF WriteProduct, TypeOK, RequestsInOrder, QuotesAreStored
  <2> QED  BY <2>1, <2>2, <2>3, <2>4, <2>5
<1>16. ASSUME NEW q \in Requests, DeleteProduct(q)
      PROVE  IInv'
  <2>1. TypeOK'
    BY <1>16 DEF DeleteProduct, TypeOK, RequestsInOrder
  <2>2. RequestsInOrder'
    BY <1>16 DEF DeleteProduct, TypeOK, RequestsInOrder, RowsExist
  <2>3. RowsExist' /\ AnswersMatchStatus'
    BY <1>16
    DEF DeleteProduct, TypeOK, RequestsInOrder, RowsExist, AnswersMatchStatus
  <2>4. DeadlineRespected'
    BY <1>16
    DEF DeleteProduct, TypeOK, RequestsInOrder, RowsExist, DeadlineRespected
  <2>5. QuotesAreStored'
    BY <1>16 DEF DeleteProduct, TypeOK, RequestsInOrder, QuotesAreStored
  <2> QED  BY <2>1, <2>2, <2>3, <2>4, <2>5
<1>17. ASSUME NEW q \in Requests, ReadRfq(q)
      PROVE  IInv'
  <2>1. TypeOK'
    BY <1>17 DEF ReadRfq, TypeOK
  <2>2. RequestsInOrder'
    BY <1>17 DEF ReadRfq, TypeOK, RequestsInOrder
  <2>3. DeadlineRespected'
    BY <1>17 DEF ReadRfq, TypeOK, RequestsInOrder, DeadlineRespected
  <2>4. RowsExist' /\ AnswersMatchStatus' /\ QuotesAreStored'
    BY <1>17, RequestStep DEF ReadRfq
  <2> QED  BY <2>1, <2>2, <2>3, <2>4
<1>18. ASSUME NEW q \in Requests, Fail(q)
      PROVE  IInv'
  <2>1. TypeOK'
    BY <1>18 DEF Fail, TypeOK
  <2>2. RequestsInOrder'
    BY <1>18 DEF Fail, TypeOK, RequestsInOrder
  <2>3. DeadlineRespected'
    BY <1>18 DEF Fail, TypeOK, RequestsInOrder, DeadlineRespected
  <2>4. RowsExist' /\ AnswersMatchStatus' /\ QuotesAreStored'
    BY <1>18, RequestStep DEF Fail
  <2> QED  BY <2>1, <2>2, <2>3, <2>4
<1>19. CASE UNCHANGED vars
  BY <1>19 DEF vars, TypeOK, RequestsInOrder, RowsExist, AnswersMatchStatus,
       DeadlineRespected, QuotesAreStored
<1> QED
  BY <1>1, <1>2, <1>3, <1>4, <1>5, <1>6, <1>7, <1>8, <1>9, <1>10, <1>11,
        <1>12, <1>13, <1>14, <1>15, <1>16, <1>17, <1>18, <1>19
  DEF Next, Environment, Arrive, Step

-----------------------------------------------------------------------------
\* In every reachable state of the tenant database the inductive invariant
\* holds, whatever requests overlap, fail half way or are retried.
THEOREM SpecIInv == Spec => []IInv
BY InitIInv, NextIInv, PTL DEF Spec

\* Every row, every deadline and every request has its type.
THEOREM TypeCorrect == Spec => []TypeOK
BY SpecIInv, PTL DEF IInv

\* rfq.status and rfq_response agree, for any number of overlapping responds
\* and declines (rfqs.service.ts respond, decline).
THEOREM AnswersAgree == Spec => []AnswersMatchStatus
BY SpecIInv, PTL DEF IInv

\* No request that arrived after the deadline records an answer or returns the
\* RFQ as NEW (rfqs.service.ts expirePastDeadlines).
THEOREM DeadlinesHold == Spec => []DeadlineRespected
BY SpecIInv, PTL DEF IInv

\* No response names a product row that is gone, even when a remove and a
\* respond overlap (catalog.service.ts remove).
THEOREM QuotesStored == Spec => []QuotesAreStored
BY SpecIInv, PTL DEF IInv

\* The first recorded response stays the response of its RFQ, less the product
\* that a later delete takes from it (the unique index on rfqId).
THEOREM FirstResponseWins == Spec => FirstResponseStays
<1> USE DEF At, GoTo, Finish, ReturnFindOne, Expiring, IsStored, db
<1>1. ASSUME IInv, [Next]_vars, NEW r \in Rfqs,
             response[r] # NoResponse, response'[r] # response[r]
      PROVE  response'[r] = Null /\ product'[response[r]] = "deleted"
  <2>1. PICK q \in Requests : WriteResponse(q) \/ DeleteProduct(q)
    BY <1>1 DEF Next, Environment, Arrive, Step, vars, DeadlinePasses, SeedTest,
        CreateProduct, StartRespond, StartDecline, StartFindOne,
        StartCatalogCall, ExpirePastDeadlines, FindRfq, FindProduct,
        FindReference, RejectResponse, WriteDecline, WriteProduct, ReadRfq, Fail
  <2>2. CASE WriteResponse(q)
    BY <1>1, <2>2 DEF WriteResponse, ResponseAccepted, IInv, TypeOK
  <2>3. CASE DeleteProduct(q)
    BY <1>1, <2>3 DEF DeleteProduct, IInv, TypeOK, RequestsInOrder
  <2> QED  BY <2>1, <2>2, <2>3
<1>2. IInv /\ [Next]_vars =>
        [\A r \in Rfqs :
            response[r] # NoResponse /\ response'[r] # response[r] =>
                response'[r] = Null /\ product'[response[r]] = "deleted"]_vars
  BY <1>1
<1> QED
  BY <1>2, SpecIInv, PTL DEF Spec, FirstResponseStays

-----------------------------------------------------------------------------
\* The raced lifecycle is what overlapping requests leave of the documented
\* one: every step of the desk is a step of it or changes nothing it sees.
LEMMA StepRefines == IInv /\ [Next]_vars => [Raced!Next]_Raced!vars
<1> SUFFICES ASSUME IInv, [Next]_vars
             PROVE  [Raced!Next]_Raced!vars
  OBVIOUS
<1> USE DEF IInv, At, GoTo, Finish, ReturnFindOne, Expiring, IsStored, db,
            responded, Raced!vars
<1>1. ASSUME NEW r \in Rfqs, SeedTest(r)
      PROVE  Raced!Next
  BY <1>1 DEF SeedTest, TypeOK, Raced!Next, Raced!Appear
<1>2. ASSUME NEW q \in Requests, ExpirePastDeadlines(q)
      PROVE  Raced!Next
  <2> DEFINE R == {r \in Rfqs : status[r] = "NEW" /\ r \in overdue}
  <2>1. status' = [r \in Rfqs |-> IF r \in R THEN "EXPIRED" ELSE status[r]]
    BY <1>2 DEF ExpirePastDeadlines
  <2>2. Raced!Expire(R)
    BY <1>2, <2>1 DEF ExpirePastDeadlines, Raced!Expire
  <2> QED  BY <2>2 DEF Raced!Next
<1>3. ASSUME NEW q \in Requests, WriteResponse(q)
      PROVE  Raced!Next
  <2> PICK r \in Rfqs : r = req[q].rfq
    BY <1>3 DEF WriteResponse, RequestsInOrder
  <2>1. r \notin responded
    BY <1>3 DEF WriteResponse, ResponseAccepted
  <2>2. status[r] \in {"NEW", "EXPIRED", "DECLINED"}
    BY <1>3, <2>1 DEF WriteResponse, ResponseAccepted, TypeOK, RfqStatus,
        RequestsInOrder, AnswersMatchStatus
  <2>3. responded' = responded \cup {r}
    BY <1>3, <2>1, ConstantsAssumption DEF WriteResponse, TypeOK, RequestState
  <2>4. Raced!Respond(r)
    BY <1>3, <2>1, <2>2, <2>3 DEF WriteResponse, Raced!Respond
  <2> QED  BY <2>4 DEF Raced!Next
<1>4. ASSUME NEW q \in Requests, WriteDecline(q)
      PROVE  Raced!Next
  BY <1>4 DEF WriteDecline, TypeOK, RfqStatus, RequestsInOrder,
      Raced!Next, Raced!Decline
<1>5. ASSUME NEW q \in Requests, DeleteProduct(q)
      PROVE  UNCHANGED Raced!vars
  BY <1>5, ConstantsAssumption DEF DeleteProduct, TypeOK, RequestsInOrder
<1>6. CASE UNCHANGED <<status, response>>
  BY <1>6
<1> QED
  BY <1>1, <1>2, <1>3, <1>4, <1>5, <1>6
  DEF Next, Environment, Arrive, Step, vars, DeadlinePasses, CreateProduct,
      StartRespond, StartDecline, StartFindOne, StartCatalogCall, FindRfq,
      FindProduct, FindReference, RejectResponse, WriteProduct, ReadRfq, Fail

\* The handlers implement the raced lifecycle for any number of RFQs, products
\* and overlapping requests.
THEOREM ImplementsRacedLifecycle == Spec => RacedLifecycle
<1>1. Init => Raced!Init
  BY DEF Init, Raced!Init, responded
<1> QED
  BY <1>1, SpecIInv, StepRefines, PTL DEF Spec, RacedLifecycle, Raced!Spec

-----------------------------------------------------------------------------
(* How far requests may overlap before the documented promises are lost.   *)

\* respond or decline q has seen its RFQ NEW and has not written its answer.
Answering(q) ==
    /\ At(q, "findProduct") \/ At(q, "write")
    /\ req[q].op \in {"respond", "decline"}

\* remove q has seen no response that names its product and deletes it next.
Removing(q) == At(q, "write") /\ req[q].op = "remove"

\* Between the check of an answer and its write, no other request is as far
\* with the same RFQ, and none is about to expire it.
AnswersUndisturbed ==
    \A p, q \in Requests :
        p # q /\ Answering(q) =>
            /\ ~(Answering(p) /\ req[p].rfq = req[q].rfq)
            /\ ~(At(p, "expire") /\ req[q].rfq \in overdue)

\* Between the check of a removal and its delete, no response that names the
\* product is about to be written.
RemovalsUndisturbed ==
    \A p, q \in Requests :
        Removing(q) =>
            ~(/\ At(p, "write") /\ req[p].op = "respond"
              /\ req[p].product = req[q].product)

\* What the check saw is still so when the write comes.
AnswersRecent ==
    \A q \in Requests : Answering(q) => status[req[q].rfq] = "NEW"
RemovalsRecent ==
    \A q \in Requests, r \in Rfqs : Removing(q) => response[r] # req[q].product

\* Where each action leaves the statuses: the request writes one, one statement
\* expires several, the seed endpoint adds one, every other step keeps them.
LEMMA StatusSteps ==
    ASSUME [Next]_vars, status' # status
    PROVE  \/ \E r \in Rfqs : SeedTest(r)
           \/ \E q \in Requests : \/ ExpirePastDeadlines(q)
                                  \/ WriteResponse(q) \/ WriteDecline(q)
BY DEF Next, Environment, Arrive, Step, vars, db, DeadlinePasses, CreateProduct,
       StartRespond, StartDecline, StartFindOne, StartCatalogCall, FindRfq,
       FindProduct, FindReference, RejectResponse, WriteProduct, DeleteProduct,
       ReadRfq, Fail

\* Only a recorded response and a deleted product change the response table.
LEMMA ResponseSteps ==
    ASSUME [Next]_vars, response' # response
    PROVE  \E q \in Requests : WriteResponse(q) \/ DeleteProduct(q)
BY DEF Next, Environment, Arrive, Step, vars, db, DeadlinePasses, SeedTest,
       CreateProduct, StartRespond, StartDecline, StartFindOne,
       StartCatalogCall, ExpirePastDeadlines, FindRfq, FindProduct,
       FindReference, RejectResponse, WriteDecline, WriteProduct, ReadRfq, Fail

\* No request moves another one.
LEMMA OwnSteps ==
    ASSUME TypeOK, [Next]_vars, NEW q \in Requests, req'[q] # req[q]
    PROVE  Arrive(q) \/ Step(q) \/ Fail(q)
<1>1. ASSUME NEW p \in Requests, p # q, Arrive(p) \/ Step(p) \/ Fail(p)
      PROVE  req'[q] = req[q]
  BY <1>1 DEF TypeOK, Arrive, Step, StartRespond, StartDecline, StartFindOne,
      StartCatalogCall, ExpirePastDeadlines, FindRfq, FindProduct,
      FindReference, WriteResponse, RejectResponse, WriteDecline, WriteProduct,
      DeleteProduct, ReadRfq, Fail, GoTo, Finish, ReturnFindOne
<1>2. ASSUME Environment \/ UNCHANGED vars
      PROVE  req'[q] = req[q]
  BY <1>2 DEF Environment, DeadlinePasses, SeedTest, CreateProduct, vars
<1> QED  BY <1>1, <1>2 DEF Next

\* What a request is about stays with it until it ends.
LEMMA SlotMoves ==
    ASSUME TypeOK, NEW q \in Requests
    PROVE  /\ \A pc : GoTo(q, pc) => /\ req'[q].pc = pc
                                     /\ req'[q].op = req[q].op
                                     /\ req'[q].rfq = req[q].rfq
                                     /\ req'[q].product = req[q].product
           /\ Finish(q) => req'[q] = Idle
           /\ ReturnFindOne(q) => At(q, "expire")'
           /\ Arrive(q) => ~At(q, "write")'
           /\ Arrive(q) /\ At(q, "findProduct")' =>
                 req'[q].op \in {"remove", "update"}
<1> USE DEF TypeOK, RequestState, At
<1>1. \A pc : GoTo(q, pc) => /\ req'[q].pc = pc
                             /\ req'[q].op = req[q].op
                             /\ req'[q].rfq = req[q].rfq
                             /\ req'[q].product = req[q].product
  BY DEF GoTo
<1>2. Finish(q) => req'[q] = Idle
  BY DEF Finish
<1>3. ASSUME NEW o, NEW r, NEW p, req' = [req EXCEPT ![q] = Expiring(o, r, p)]
      PROVE  req'[q].pc = "expire"
  BY <1>3 DEF Expiring
<1>4. ReturnFindOne(q) => req'[q].pc = "expire"
  BY <1>3 DEF ReturnFindOne
<1>5. StartRespond(q) \/ StartDecline(q) \/ StartFindOne(q) =>
         req'[q].pc = "expire"
  BY <1>3 DEF StartRespond, StartDecline, StartFindOne
<1>6. StartCatalogCall(q) => /\ req'[q].pc = "findProduct"
                             /\ req'[q].op \in {"remove", "update"}
  BY DEF StartCatalogCall, Idle
<1> QED  BY <1>1, <1>2, <1>4, <1>5, <1>6 DEF Arrive

\* An answer that is checked after a step was checked before it, or the step
\* was its check.
LEMMA AnsweringSteps ==
    ASSUME IInv, [Next]_vars, NEW q \in Requests, Answering(q)'
    PROVE  /\ req'[q].rfq = req[q].rfq
           /\ Answering(q) \/ (FindRfq(q) /\ status[req[q].rfq] = "NEW")
<1> USE SlotMoves DEF IInv, Answering, At
<1>1. CASE req'[q] = req[q]
  BY <1>1
<1>2. CASE Arrive(q)
  BY <1>2
<1>3. CASE FindRfq(q)
  BY <1>3 DEF FindRfq, Idle
<1>4. CASE FindProduct(q)
  BY <1>4 DEF FindProduct, Idle
<1>5. CASE ExpirePastDeadlines(q) \/ FindReference(q)
  BY <1>5 DEF ExpirePastDeadlines, FindReference, RequestsInOrder, Idle
<1>6. CASE WriteResponse(q) \/ WriteDecline(q)
  BY <1>6 DEF WriteResponse, WriteDecline
<1>7. CASE RejectResponse(q) \/ WriteProduct(q) \/ DeleteProduct(q)
           \/ ReadRfq(q) \/ Fail(q)
  BY <1>7 DEF RejectResponse, WriteProduct, DeleteProduct, ReadRfq, Fail, Idle
<1> QED
  BY <1>1, <1>2, <1>3, <1>4, <1>5, <1>6, <1>7, OwnSteps DEF Step

\* The same of a removal: FindReference is its check.
LEMMA RemovingSteps ==
    ASSUME IInv, [Next]_vars, NEW q \in Requests, Removing(q)'
    PROVE  /\ req'[q].product = req[q].product
           /\ Removing(q)
              \/ /\ FindReference(q)
                 /\ \A r \in Rfqs : response[r] # req[q].product
<1> USE SlotMoves DEF IInv, Removing, At
<1>1. CASE req'[q] = req[q]
  BY <1>1
<1>2. CASE Arrive(q)
  BY <1>2
<1>3. CASE FindReference(q)
  BY <1>3 DEF FindReference, Idle
<1>4. CASE FindProduct(q)
  BY <1>4 DEF FindProduct, Idle
<1>5. CASE ExpirePastDeadlines(q) \/ FindRfq(q)
  BY <1>5 DEF ExpirePastDeadlines, FindRfq, RequestsInOrder, Idle
<1>6. CASE WriteResponse(q) \/ WriteDecline(q)
  BY <1>6 DEF WriteResponse, WriteDecline
<1>7. CASE RejectResponse(q) \/ WriteProduct(q) \/ DeleteProduct(q)
           \/ ReadRfq(q) \/ Fail(q)
  BY <1>7 DEF RejectResponse, WriteProduct, DeleteProduct, ReadRfq, Fail, Idle
<1> QED
  BY <1>1, <1>2, <1>3, <1>4, <1>5, <1>6, <1>7, OwnSteps DEF Step

\* As long as answers are undisturbed, the NEW that an answer was checked
\* against is the NEW that it writes over.
LEMMA AnswersStayRecent ==
    IInv /\ AnswersRecent /\ AnswersUndisturbed /\ [Next]_vars => AnswersRecent'
<1> SUFFICES ASSUME IInv, AnswersRecent, AnswersUndisturbed, [Next]_vars,
                    NEW q \in Requests, Answering(q)'
             PROVE  status'[req'[q].rfq] = "NEW"
  BY DEF AnswersRecent
<1> DEFINE r == req[q].rfq
<1>1. /\ req'[q].rfq = r
      /\ Answering(q) \/ (FindRfq(q) /\ status[r] = "NEW")
  BY AnsweringSteps
<1>2. CASE status' = status
  BY <1>1, <1>2 DEF AnswersRecent
<1>3. CASE status' # status
  <2>1. Answering(q) /\ status[r] = "NEW"
    BY <1>1, <1>3 DEF FindRfq, db, AnswersRecent
  <2>2. r \in Rfqs
    BY <2>1 DEF Answering, IInv, RequestsInOrder
  <2>3. ASSUME NEW s \in Rfqs, SeedTest(s)
        PROVE  status'[r] = "NEW"
    BY <2>1, <2>2, <2>3 DEF SeedTest, IInv, TypeOK
  <2>4. ASSUME NEW p \in Requests, ExpirePastDeadlines(p)
        PROVE  status'[r] = "NEW"
    <3>1. p # q
      BY <2>1, <2>4 DEF ExpirePastDeadlines, Answering, At
    <3>2. r \notin overdue
      BY <2>1, <2>4, <3>1 DEF ExpirePastDeadlines, AnswersUndisturbed
    <3> QED  BY <2>1, <2>2, <2>4, <3>2 DEF ExpirePastDeadlines
  <2>5. ASSUME NEW p \in Requests, WriteResponse(p) \/ WriteDecline(p)
        PROVE  status'[r] = "NEW"
    <3>1. p # q
      BY <2>5, <1>1, ConstantsAssumption
      DEF WriteResponse, WriteDecline, ReturnFindOne, Expiring, Answering, At,
          IInv, TypeOK
    <3>2. req[p].rfq # r
      BY <2>1, <2>5, <3>1
      DEF WriteResponse, WriteDecline, Answering, AnswersUndisturbed
    <3> QED  BY <2>1, <2>2, <2>5, <3>2
             DEF WriteResponse, WriteDecline, IInv, TypeOK
  <2>6. status'[r] = "NEW"
    BY <1>3, <2>3, <2>4, <2>5, StatusSteps
  <2> QED  BY <1>1, <2>6
<1> QED  BY <1>2, <1>3

\* As long as removals are undisturbed, the product that no response named at
\* the check is named by none at the delete.
LEMMA RemovalsStayRecent ==
    IInv /\ RemovalsRecent /\ RemovalsUndisturbed /\ [Next]_vars
        => RemovalsRecent'
<1> SUFFICES ASSUME IInv, RemovalsRecent, RemovalsUndisturbed, [Next]_vars,
                    NEW q \in Requests, NEW r \in Rfqs, Removing(q)'
             PROVE  response'[r] # req'[q].product
  BY DEF RemovalsRecent
<1>1. /\ req'[q].product = req[q].product
      /\ response[r] # req[q].product
      /\ Removing(q) \/ FindReference(q)
  BY RemovingSteps DEF RemovalsRecent
<1>2. CASE response' = response
  BY <1>1, <1>2
<1>3. CASE response' # response
  <2>1. Removing(q)
    BY <1>1, <1>3 DEF FindReference, db
  <2>2. req[q].product \in Products
    BY <2>1 DEF Removing, IInv, RequestsInOrder
  <2>3. ASSUME NEW p \in Requests, WriteResponse(p)
        PROVE  response'[r] # req[q].product
    BY <1>1, <2>1, <2>3
    DEF WriteResponse, RemovalsUndisturbed, IInv, TypeOK
  <2>4. ASSUME NEW p \in Requests, DeleteProduct(p)
        PROVE  response'[r] # req[q].product
    BY <1>1, <2>2, <2>4, ConstantsAssumption DEF DeleteProduct
  <2>5. response'[r] # req[q].product
    BY <1>3, <2>3, <2>4, ResponseSteps
  <2> QED  BY <1>1, <2>5
<1> QED  BY <1>2, <1>3

-----------------------------------------------------------------------------
\* An undisturbed answer is written over NEW, by respond and by decline.
LEMMA AnswerStep ==
    ASSUME IInv, AnswersRecent, [Next]_vars, NEW r \in Rfqs,
           status'[r] # status[r], status'[r] \in {"RESPONDED", "DECLINED"}
    PROVE  status[r] = "NEW"
<1> USE DEF IInv, TypeOK
<1>1. PICK q \in Requests : WriteResponse(q) \/ WriteDecline(q)
  <2>1. ASSUME NEW s \in Rfqs, SeedTest(s)
        PROVE  FALSE
    BY <2>1 DEF SeedTest
  <2>2. ASSUME NEW q \in Requests, ExpirePastDeadlines(q)
        PROVE  FALSE
    BY <2>2 DEF ExpirePastDeadlines
  <2> QED  BY <2>1, <2>2, StatusSteps
<1>2. r = req[q].rfq /\ Answering(q)
  BY <1>1 DEF WriteResponse, WriteDecline, Answering, At
<1> QED  BY <1>2 DEF AnswersRecent

\* An answer that nothing disturbs between its check and its write is recorded
\* over NEW only: the race of rfq_answer_race needs another answer to the same
\* RFQ, or its expiry, in just that gap (rfqs.service.ts respond, decline).
THEOREM UndisturbedAnswersFromNew ==
    Spec /\ []AnswersUndisturbed => AnsweredOnlyFromNew
<1>1. Init => AnswersRecent
  BY DEF Init, AnswersRecent, Answering, At, Idle
<1>2. IInv /\ AnswersRecent /\ [Next]_vars =>
        [\A r \in Rfqs :
            status'[r] # status[r] /\ status'[r] \in {"RESPONDED", "DECLINED"}
                => status[r] = "NEW"]_vars
  BY AnswerStep
<1> QED
  BY <1>1, <1>2, SpecIInv, AnswersStayRecent, PTL DEF Spec, AnsweredOnlyFromNew

\* Every step is a step of the documented lifecycle, or changes nothing it sees,
\* while the answers to be written are to NEW requests.
LEMMA StepRefinesDocumented ==
    IInv /\ AnswersRecent /\ [Next]_vars => [Documented!Next]_Documented!vars
<1> SUFFICES ASSUME IInv, AnswersRecent, [Next]_vars
             PROVE  [Documented!Next]_Documented!vars
  OBVIOUS
<1> USE DEF IInv, At, GoTo, Finish, ReturnFindOne, Expiring, IsStored, db,
            responded, Documented!vars
<1>1. ASSUME NEW r \in Rfqs, SeedTest(r)
      PROVE  Documented!Next
  BY <1>1 DEF SeedTest, TypeOK, Documented!Next, Documented!Appear
<1>2. ASSUME NEW q \in Requests, ExpirePastDeadlines(q)
      PROVE  Documented!Next
  <2> DEFINE R == {r \in Rfqs : status[r] = "NEW" /\ r \in overdue}
  <2>1. status' = [r \in Rfqs |-> IF r \in R THEN "EXPIRED" ELSE status[r]]
    BY <1>2 DEF ExpirePastDeadlines
  <2>2. Documented!Expire(R)
    BY <1>2, <2>1 DEF ExpirePastDeadlines, Documented!Expire
  <2> QED  BY <2>2 DEF Documented!Next
<1>3. ASSUME NEW q \in Requests, WriteResponse(q)
      PROVE  Documented!Next
  <2> PICK r \in Rfqs : r = req[q].rfq
    BY <1>3 DEF WriteResponse, RequestsInOrder
  <2>1. r \notin responded
    BY <1>3 DEF WriteResponse, ResponseAccepted
  <2>2. status[r] = "NEW"
    BY <1>3 DEF WriteResponse, Answering, AnswersRecent
  <2>3. responded' = responded \cup {r}
    BY <1>3, <2>1, ConstantsAssumption DEF WriteResponse, TypeOK, RequestState
  <2>4. Documented!Respond(r)
    BY <1>3, <2>1, <2>2, <2>3 DEF WriteResponse, Documented!Respond
  <2> QED  BY <2>4 DEF Documented!Next
<1>4. ASSUME NEW q \in Requests, WriteDecline(q)
      PROVE  Documented!Next
  <2> PICK r \in Rfqs : r = req[q].rfq
    BY <1>4 DEF WriteDecline, RequestsInOrder
  <2>1. status[r] = "NEW"
    BY <1>4 DEF WriteDecline, Answering, AnswersRecent
  <2>2. Documented!Decline(r)
    BY <1>4, <2>1 DEF WriteDecline, Documented!Decline
  <2> QED  BY <2>2 DEF Documented!Next
<1>5. ASSUME NEW q \in Requests, DeleteProduct(q)
      PROVE  UNCHANGED Documented!vars
  BY <1>5, ConstantsAssumption DEF DeleteProduct, TypeOK, RequestsInOrder
<1>6. CASE UNCHANGED <<status, response>>
  BY <1>6
<1> QED
  BY <1>1, <1>2, <1>3, <1>4, <1>5, <1>6, StatusSteps, ResponseSteps

\* Handlers that overlap as they like, short of disturbing an answer between its
\* check and its write, implement the documented lifecycle (rfqs.service.ts).
THEOREM ImplementsDocumentedLifecycle ==
    Spec /\ []AnswersUndisturbed => DocumentedLifecycle
<1>1. Init => AnswersRecent /\ Documented!Init
  BY DEF Init, AnswersRecent, Answering, At, Idle, Documented!Init, responded
<1> QED
  BY <1>1, SpecIInv, AnswersStayRecent, StepRefinesDocumented, PTL
  DEF Spec, DocumentedLifecycle, Documented!Spec

\* While no response for a product is about to be written when its removal is
\* about to delete it, a recorded quote is never lost (catalog.service.ts
\* remove, rfqs.service.ts respond).
THEOREM UndisturbedQuotesKept ==
    Spec /\ []RemovalsUndisturbed => QuoteHistoryKept
<1>1. Init => RemovalsRecent
  BY DEF Init, RemovalsRecent, Removing, At, Idle
<1>2. ASSUME IInv, RemovalsRecent, [Next]_vars, NEW r \in Rfqs,
             response[r] \in Products
      PROVE  response'[r] = response[r]
  <2>1. ASSUME NEW q \in Requests, WriteResponse(q)
        PROVE  response'[r] = response[r]
    BY <1>2, <2>1, ConstantsAssumption
    DEF WriteResponse, ResponseAccepted, IInv, TypeOK
  <2>2. ASSUME NEW q \in Requests, DeleteProduct(q)
        PROVE  response'[r] = response[r]
    BY <1>2, <2>2 DEF DeleteProduct, Removing, RemovalsRecent
  <2> QED  BY <1>2, <2>1, <2>2, ResponseSteps
<1>3. IInv /\ RemovalsRecent /\ [Next]_vars =>
        [\A r \in Rfqs :
            response[r] \in Products => response'[r] = response[r]]_vars
  BY <1>2
<1> QED
  BY <1>1, <1>3, SpecIInv, RemovalsStayRecent, PTL DEF Spec, QuoteHistoryKept

\* A desk that serves one request at a time disturbs nothing: whatever the RFQs
\* and products are and whatever fails half way, it keeps all the comments say.
THEOREM OneRequestAtATime ==
    ASSUME NEW q, Requests = {q}
    PROVE  Spec => DocumentedLifecycle /\ AnsweredOnlyFromNew /\ QuoteHistoryKept
<1>1. AnswersUndisturbed
  BY DEF AnswersUndisturbed
<1>2. RemovalsUndisturbed
  BY DEF RemovalsUndisturbed, Removing
<1> QED
  BY <1>1, <1>2, ImplementsDocumentedLifecycle, UndisturbedAnswersFromNew,
     UndisturbedQuotesKept, PTL

-----------------------------------------------------------------------------
\* Lazy expiry needs no worker and no fairness, only traffic: if requests reach
\* expirePastDeadlines again and again, every overdue RFQ leaves NEW
\* (rfqs.service.ts expirePastDeadlines).
THEOREM OverdueRfqsLeaveNew == Spec => OverdueLeavesNew
<1> DEFINE Traffic == []<><<\E q \in Requests : ExpirePastDeadlines(q)>>_vars
<1>1. ASSUME NEW r \in Rfqs
      PROVE  Spec /\ Traffic =>
                ((r \in overdue /\ status[r] = "NEW") ~> (status[r] # "NEW"))
  <2>1. [Next]_vars /\ r \in overdue => (r \in overdue)'
    BY DEF Next, Environment, Arrive, Step, vars, DeadlinePasses, SeedTest,
        CreateProduct, StartRespond, StartDecline, StartFindOne,
        StartCatalogCall, ExpirePastDeadlines, FindRfq, FindProduct,
        FindReference, WriteResponse, RejectResponse, WriteDecline,
        WriteProduct, DeleteProduct, ReadRfq, Fail
  <2>2. r \in overdue /\ <<\E q \in Requests : ExpirePastDeadlines(q)>>_vars
           => (status[r] # "NEW")'
    BY DEF ExpirePastDeadlines
  <2> QED  BY <2>1, <2>2, PTL DEF Spec
<1> QED  BY <1>1 DEF OverdueLeavesNew
=============================================================================
