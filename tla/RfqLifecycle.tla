---------------------------- MODULE RfqLifecycle ----------------------------
(***************************************************************************)
(* What a reader of the RFQ inbox is promised about one RFQ's life, without*)
(* requests, database calls or products.  An RFQ is seeded NEW and is then *)
(* answered (RESPONDED, with a response row, or DECLINED) or EXPIRED.      *)
(*                                                                         *)
(* RespondFrom and DeclineFrom are the statuses an answer may be recorded  *)
(* over.  {"NEW"} for both is the lifecycle the code's comments and error  *)
(* messages describe; the larger sets are what is left of it when requests *)
(* overlap (see RfqDeskMC).                                                *)
(***************************************************************************)

CONSTANTS Rfqs, RespondFrom, DeclineFrom

VARIABLES
    status,      \* rfq.status, "ABSENT" before the row exists
    responded    \* the RFQs that have a response row

vars == <<status, responded>>

Init ==
    /\ status = [r \in Rfqs |-> "ABSENT"]
    /\ responded = {}

Appear(r) ==
    /\ status[r] = "ABSENT"
    /\ status' = [status EXCEPT ![r] = "NEW"]
    /\ UNCHANGED responded

\* Any set of NEW requests may run out at once: one UPDATE serves them all.
Expire(R) ==
    /\ \A r \in R : status[r] = "NEW"
    /\ status' = [r \in Rfqs |-> IF r \in R THEN "EXPIRED" ELSE status[r]]
    /\ UNCHANGED responded

\* At most one response is ever recorded.
Respond(r) ==
    /\ status[r] \in RespondFrom
    /\ r \notin responded
    /\ status' = [status EXCEPT ![r] = "RESPONDED"]
    /\ responded' = responded \cup {r}

Decline(r) ==
    /\ status[r] \in DeclineFrom
    /\ status' = [status EXCEPT ![r] = "DECLINED"]
    /\ UNCHANGED responded

Next ==
    \/ \E r \in Rfqs : Appear(r) \/ Respond(r) \/ Decline(r)
    \/ \E R \in SUBSET Rfqs : Expire(R)

Spec == Init /\ [][Next]_vars
=============================================================================
