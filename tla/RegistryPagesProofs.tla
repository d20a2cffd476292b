------------------------- MODULE RegistryPagesProofs -------------------------
(***************************************************************************)
(* Proofs about RegistryPages for any number of tenants, applications,     *)
(* writes and loads under way.  A list is current because whatever made it *)
(* old is followed by news: a load of what the page shows, not overtaken   *)
(* yet, or a write whose handler will load (NewsToCome).                   *)
(***************************************************************************)
EXTENDS RegistryPages, SequenceTheorems, TLAPS

\* Which page a write belongs to, and what its id is.
CallsInOrder ==
  \A c \in Calls :
    call[c] # None =>
      /\ call[c].op \in {"toggle", "provision", "save"} => call[c].id \in Tenants
      /\ call[c].op = "provision" => page.at = "tenants"
      /\ call[c].op \in {"approve", "reject"} => page.at = "applications"

\* What is in the form is what is in the drawer.
FormFilled ==
  /\ page.drawer # None /\ ~switched => page.form = page.drawer
  /\ page.editing => page.drawer # None

\* One grant of access at a time, and none before its password is put away.
Grants(c) == call[c] # None /\ call[c].op = "provision"

GrantsAlone ==
  \A c \in Calls :
    Grants(c) =>
      /\ page.provisioning
      /\ page.credentials # None => call[c].pc = "fetch"
      /\ \A e \in Calls : Grants(e) => e = c

\* A load that will show what the server has, for the filter on display ...
Good(i) == ~loads[i].late /\ loads[i].filter = page.filter /\ loads[i].pc # "old"

\* ... or will be followed by one, or by the handler of a write.
Announced == \E c \in Calls : call[c] # None /\ call[c].pc = "done"
Leads(i) == Announced \/ \E j \in DOMAIN loads : j >= i /\ Good(j)

ListIsCurrent == page.list = [filter |-> page.filter, current |-> TRUE]

NewsToCome ==
  /\ \A i \in DOMAIN loads : ~loads[i].late => Leads(i)
  /\ page.at # "elsewhere" /\ ~amiss => ListIsCurrent \/ Leads(1)

IInv == TypeOK /\ CallsInOrder /\ FormFilled /\ GrantsAlone /\ NewsToCome

-----------------------------------------------------------------------------
(* Lists of loads.                                                         *)

LEMMA RemoveAtFacts ==
  ASSUME NEW S, NEW s \in Seq(S), NEW i \in 1 .. Len(s)
  PROVE  /\ RemoveAt(s, i) \in Seq(S)
         /\ Len(RemoveAt(s, i)) = Len(s) - 1
         /\ \A j \in 1 .. Len(s) - 1 :
              RemoveAt(s, i)[j] = IF j < i THEN s[j] ELSE s[j + 1]
<1>1. Len(s) \in Nat /\ \A j \in 1 .. Len(s) : s[j] \in S
  BY LenProperties, ElementOfSeq
<1> DEFINE front == SubSeq(s, 1, i - 1)
           rest == SubSeq(s, i + 1, Len(s))
<1>2. /\ front \in Seq(S) /\ Len(front) = i - 1
      /\ \A j \in 1 .. i - 1 : front[j] = s[j]
  BY <1>1, SubSeqProperties
<1>3. /\ rest \in Seq(S) /\ Len(rest) = Len(s) - i
      /\ \A j \in 1 .. Len(s) - i : rest[j] = s[i + j]
  BY <1>1, SubSeqProperties
<1> HIDE DEF front, rest
<1>4. RemoveAt(s, i) = front \o rest
  BY DEF RemoveAt, front, rest
<1>5. /\ front \o rest \in Seq(S) /\ Len(front \o rest) = Len(s) - 1
      /\ \A j \in 1 .. Len(s) - 1 :
           (front \o rest)[j] = IF j <= i - 1 THEN front[j] ELSE rest[j - (i - 1)]
  <2>1. Len(front) + Len(rest) = Len(s) - 1
    BY <1>1, <1>2, <1>3
  <2>2. /\ front \o rest \in Seq(S) /\ Len(front \o rest) = Len(front) + Len(rest)
        /\ \A j \in 1 .. Len(front) + Len(rest) :
             (front \o rest)[j] =
               IF j <= Len(front) THEN front[j] ELSE rest[j - Len(front)]
    BY <1>2, <1>3, ConcatProperties
  <2> QED
    BY <1>2, <2>1, <2>2
<1>6. ASSUME NEW j \in 1 .. Len(s) - 1
      PROVE  (front \o rest)[j] = IF j < i THEN s[j] ELSE s[j + 1]
  <2>1. CASE j < i
    BY <1>1, <1>2, <1>5, <2>1
  <2>2. CASE ~(j < i)
    <3>1. j - (i - 1) \in 1 .. Len(s) - i /\ i + (j - (i - 1)) = j + 1
      BY <1>1, <2>2
    <3> QED
      BY <1>1, <1>3, <1>5, <2>2, <3>1
  <2> QED
    BY <2>1, <2>2
<1> QED
  BY <1>4, <1>5, <1>6

\* A list of which some loads may have become late.
LEMMA LateFacts ==
  ASSUME NEW s \in Seq(Load), NEW t, DOMAIN t = DOMAIN s,
         t = [i \in DOMAIN s |-> t[i]],
         \A i \in DOMAIN s : \E late \in BOOLEAN : t[i] = [s[i] EXCEPT !.late = late]
  PROVE  /\ t \in Seq(Load) /\ Len(t) = Len(s)
         /\ \A i \in DOMAIN s : t[i].filter = s[i].filter /\ t[i].pc = s[i].pc
<1>1. Len(s) \in Nat /\ DOMAIN s = 1 .. Len(s) /\ \A i \in 1 .. Len(s) : s[i] \in Load
  BY LenProperties, ElementOfSeq
<1>2. \A i \in 1 .. Len(s) :
        t[i] \in Load /\ t[i].filter = s[i].filter /\ t[i].pc = s[i].pc
  BY <1>1 DEF Load
<1>3. t \in [1 .. Len(s) -> Load]
  BY <1>1, <1>2
<1> QED
  BY <1>1, <1>2, <1>3

LEMMA LoadsFacts ==
  ASSUME TypeOK
  PROVE  /\ Len(loads) \in Nat /\ DOMAIN loads = 1 .. Len(loads)
         /\ \A i \in DOMAIN loads : loads[i] \in Load
BY LenProperties, ElementOfSeq DEF TypeOK

\* What was not read is asked for again: nothing else keeps its place.
LEMMA UnnoticedStep ==
  ASSUME NEW lds \in Seq(Load), Unnoticed(lds), page'.filter = page.filter
  PROVE  loads' \in Seq(Load) /\ amiss' \in BOOLEAN /\ NewsToCome'
<1>1. Len(lds) \in Nat /\ DOMAIN lds = 1 .. Len(lds)
      /\ \A i \in 1 .. Len(lds) : lds[i] \in Load
  BY LenProperties, ElementOfSeq
<1>2. /\ DOMAIN loads' = DOMAIN lds
      /\ \A i \in DOMAIN lds :
           loads'[i] = [lds[i] EXCEPT !.late = @ \/ lds[i].pc # "sent"
                                                 \/ lds[i].filter # page.filter]
      /\ amiss' = TRUE
  BY DEF Unnoticed
<1>3. loads' = [i \in DOMAIN lds |-> loads'[i]]
  BY <1>2 DEF Unnoticed
<1>4. \A i \in DOMAIN lds : \E late \in BOOLEAN :
        loads'[i] = [lds[i] EXCEPT !.late = late]
  <2> SUFFICES ASSUME NEW i \in DOMAIN lds
               PROVE  \E late \in BOOLEAN : loads'[i] = [lds[i] EXCEPT !.late = late]
    OBVIOUS
  <2> DEFINE late == \/ lds[i].late \/ lds[i].pc # "sent"
                     \/ lds[i].filter # page.filter
  <2>1. loads'[i] = [lds[i] EXCEPT !.late = late] /\ late \in BOOLEAN
    BY <1>2
  <2> HIDE DEF late
  <2> QED
    BY <2>1
<1>5. /\ loads' \in Seq(Load) /\ Len(loads') = Len(lds)
      /\ \A i \in DOMAIN lds : loads'[i].filter = lds[i].filter /\ loads'[i].pc = lds[i].pc
  <2>1. DOMAIN loads' = DOMAIN lds
    BY <1>2
  <2> QED
    BY <1>3, <1>4, <2>1, LateFacts, ZenonT(30)
<1>6. \A i \in DOMAIN lds :
        ~loads'[i].late => lds[i].pc = "sent" /\ lds[i].filter = page.filter
  BY <1>1, <1>2 DEF Load
<1>7. ASSUME NEW i \in DOMAIN loads', ~loads'[i].late PROVE Leads(i)'
  <2>1. Good(i)' /\ i >= i
    BY <1>1, <1>2, <1>5, <1>6, <1>7 DEF Good
  <2> QED
    BY <2>1 DEF Leads
<1> QED
  BY <1>2, <1>5, <1>7 DEF NewsToCome

\* What a page loads last, as its own filter says, is news.
LEMMA AppendStep ==
  ASSUME TypeOK, NEW f \in Filters, page'.filter = f,
         loads' = Append(loads, [filter |-> f, pc |-> "sent", late |-> FALSE])
  PROVE  loads' \in Seq(Load) /\ NewsToCome'
<1> DEFINE x == [filter |-> f, pc |-> "sent", late |-> FALSE]
<1>1. x \in Load /\ x.filter = f /\ x.pc = "sent" /\ ~x.late
  BY DEF Load
<1>2. loads \in Seq(Load) /\ Len(loads) \in Nat
  BY LenProperties DEF TypeOK
<1>3. loads' = Append(loads, x)
  OBVIOUS
<1> HIDE DEF x
<1> PICK n \in Nat : n = Len(loads) + 1
  BY <1>2
<1>4. loads' \in Seq(Load) /\ Len(loads') = n /\ loads'[n] = x
  BY <1>1, <1>2, <1>3, AppendProperties
<1>5. DOMAIN loads' = 1 .. n
  BY <1>4, LenProperties
<1>6. Good(n)'
  BY <1>1, <1>4 DEF Good
<1>7. ASSUME NEW i \in 1 .. n PROVE Leads(i)'
  <2>1. n \in 1 .. n /\ n >= i
    BY <1>2
  <2> QED
    BY <1>5, <1>6, <2>1 DEF Leads
<1>8. 1 \in 1 .. n
  BY <1>2
<1> QED
  BY <1>4, <1>5, <1>7, <1>8 DEF NewsToCome

\* load(): with the page's filter that is news, else nothing is any more.
LEMMA LoadWithStep ==
  ASSUME TypeOK, NEW f \in Filters, LoadWith(f), page'.filter = page.filter
  PROVE  loads' \in Seq(Load) /\ amiss' \in BOOLEAN /\ NewsToCome'
<1> DEFINE more == Append(loads, [filter |-> f, pc |-> "sent", late |-> FALSE])
<1>1. CASE f = page.filter
  <2>1. loads' = more /\ UNCHANGED amiss
    BY <1>1 DEF LoadWith
  <2> QED
    BY <1>1, <2>1, AppendStep DEF TypeOK
<1>2. CASE f # page.filter
  <2>1. more \in Seq(Load)
    <3>1. [filter |-> f, pc |-> "sent", late |-> FALSE] \in Load
      BY DEF Load
    <3> QED
      BY <3>1, AppendProperties DEF TypeOK
  <2>2. Unnoticed(more)
    BY <1>2 DEF LoadWith
  <2> QED
    BY <2>1, <2>2, UnnoticedStep
<1> QED
  BY <1>1, <1>2

\* Nothing is loaded, and no handler is done with.
LEMMA KeepsNews ==
  ASSUME NewsToCome, UNCHANGED <<loads, amiss>>,
         page'.at = page.at, page'.list = page.list, page'.filter = page.filter,
         Announced => Announced'
  PROVE  NewsToCome'
<1>1. \A i : Leads(i) => Leads(i)'
  BY DEF Leads, Good
<1> QED
  BY <1>1 DEF NewsToCome, ListIsCurrent

\* One load leaves the list; older ones may have become late.
LEMMA NewestFacts ==
  ASSUME TypeOK, NEW i \in DOMAIN loads, Newest(i)
  PROVE  /\ loads' \in Seq(Load) /\ DOMAIN loads' = 1 .. Len(loads) - 1
         /\ \A j \in 1 .. Len(loads) - 1 :
              /\ ~loads'[j].late <=> j >= i /\ ~loads[j + 1].late
              /\ j >= i => /\ loads'[j].filter = loads[j + 1].filter
                           /\ loads'[j].pc = loads[j + 1].pc
<1> DEFINE s == [j \in DOMAIN loads |-> [loads[j] EXCEPT !.late = @ \/ j < i]]
<1>1. /\ Len(loads) \in Nat /\ DOMAIN loads = 1 .. Len(loads)
      /\ \A j \in DOMAIN loads : loads[j] \in Load
  BY LoadsFacts
<1>2. /\ DOMAIN s = DOMAIN loads /\ s = [j \in DOMAIN loads |-> s[j]]
      /\ \A j \in DOMAIN loads : s[j] = [loads[j] EXCEPT !.late = @ \/ j < i]
  OBVIOUS
<1>3. loads' = RemoveAt(s, i)
  BY DEF Newest
<1> HIDE DEF s
<1>4. \A j \in DOMAIN loads : \E late \in BOOLEAN : s[j] = [loads[j] EXCEPT !.late = late]
  BY <1>1, <1>2 DEF Load
<1>5. /\ s \in Seq(Load) /\ Len(s) = Len(loads)
      /\ \A j \in DOMAIN loads : s[j].filter = loads[j].filter /\ s[j].pc = loads[j].pc
  <2>1. loads \in Seq(Load)
    BY DEF TypeOK
  <2> QED
    BY <1>2, <1>4, <2>1, LateFacts
<1>6. \A j \in DOMAIN loads : ~s[j].late <=> ~(j < i) /\ ~loads[j].late
  BY <1>1, <1>2 DEF Load
<1>7. /\ loads' \in Seq(Load) /\ Len(loads') = Len(loads) - 1
      /\ \A j \in 1 .. Len(loads) - 1 : loads'[j] = IF j < i THEN s[j] ELSE s[j + 1]
  BY <1>1, <1>3, <1>5, RemoveAtFacts
<1>8. DOMAIN loads' = 1 .. Len(loads) - 1
  BY <1>7, LenProperties
<1>9. ASSUME NEW j \in 1 .. Len(loads) - 1
      PROVE  /\ ~loads'[j].late <=> j >= i /\ ~loads[j + 1].late
             /\ j >= i => /\ loads'[j].filter = loads[j + 1].filter
                          /\ loads'[j].pc = loads[j + 1].pc
  <2>1. j \in DOMAIN loads /\ j + 1 \in DOMAIN loads /\ j \in Nat /\ i \in Nat
    BY <1>1
  <2>2. CASE j < i
    BY <1>6, <1>7, <2>1, <2>2
  <2>3. CASE ~(j < i)
    <3>1. loads'[j] = s[j + 1] /\ j >= i /\ ~(j + 1 < i)
      BY <1>7, <2>1, <2>3
    <3>2. ~s[j + 1].late <=> ~loads[j + 1].late
      BY <1>6, <2>1, <3>1
    <3> QED
      BY <1>5, <2>1, <3>1, <3>2
  <2> QED
    BY <2>2, <2>3
<1> QED
  BY <1>7, <1>8, <1>9

\* What was news for a load that stays is still news.
LEMMA NewestKeepsLeads ==
  ASSUME TypeOK, NEW i \in DOMAIN loads, Newest(i), UNCHANGED call,
         page'.filter = page.filter, NewsToCome
  PROVE  /\ \A j \in DOMAIN loads' : ~loads'[j].late => Leads(j)'
         /\ Announced \/ (\E k \in DOMAIN loads : k > i /\ Good(k)) => Leads(1)'
<1>1. Len(loads) \in Nat /\ DOMAIN loads = 1 .. Len(loads)
  BY LoadsFacts
<1>2. /\ DOMAIN loads' = 1 .. Len(loads) - 1
      /\ \A j \in 1 .. Len(loads) - 1 :
           /\ ~loads'[j].late <=> j >= i /\ ~loads[j + 1].late
           /\ j >= i => /\ loads'[j].filter = loads[j + 1].filter
                        /\ loads'[j].pc = loads[j + 1].pc
  BY NewestFacts
<1>3. Announced => Announced'
  BY DEF Announced
<1>4. ASSUME NEW k \in DOMAIN loads, k > i, Good(k)
      PROVE  k - 1 \in DOMAIN loads' /\ k - 1 >= 1 /\ Good(k - 1)'
  <2>1. k - 1 \in 1 .. Len(loads) - 1 /\ k - 1 >= i /\ (k - 1) + 1 = k /\ k - 1 >= 1
    BY <1>1, <1>4
  <2> QED
    BY <1>2, <1>4, <2>1 DEF Good
<1>5. ASSUME NEW j \in DOMAIN loads', ~loads'[j].late PROVE Leads(j)'
  <2>1. j >= i /\ ~loads[j + 1].late /\ j + 1 \in DOMAIN loads
    BY <1>1, <1>2, <1>5
  <2>2. Announced \/ \E k \in DOMAIN loads : k >= j + 1 /\ Good(k)
    BY <2>1 DEF NewsToCome, Leads
  <2>3. ASSUME NEW k \in DOMAIN loads, k >= j + 1, Good(k) PROVE Leads(j)'
    <3>1. k > i /\ k - 1 >= j
      BY <1>1, <1>2, <2>1, <2>3
    <3> QED
      BY <1>4, <2>3, <3>1 DEF Leads
  <2> QED
    BY <1>3, <2>2, <2>3 DEF Leads
<1> QED
  BY <1>3, <1>4, <1>5 DEF Leads

-----------------------------------------------------------------------------
\* The first state satisfies the invariant.
LEMMA FreshFacts ==
  ASSUME NEW at \in {"tenants", "applications", "elsewhere"}
  PROVE  /\ Fresh(at) \in Page /\ Fresh(at).at = at
         /\ Fresh(at).drawer = None /\ Fresh(at).editing = FALSE
         /\ Fresh(at).filter \in Filters
<1>1. "PENDING" \in Filters /\ None \in Filters
  BY PagesAssumption
<1> QED
  BY <1>1 DEF Fresh, Page

LEMMA InitIInv == Init => IInv
<1> SUFFICES ASSUME Init PROVE IInv
  OBVIOUS
<1>1. /\ page \in Page /\ page.at = "elsewhere"
      /\ page.drawer = None /\ page.editing = FALSE
  BY FreshFacts DEF Init
<1>2. loads \in Seq(Load) /\ DOMAIN loads = {}
  BY EmptySeq DEF Init
<1>3. \A c \in Calls : call[c] = None
  BY DEF Init
<1> QED
  BY <1>1, <1>2, <1>3
     DEF Init, IInv, TypeOK, CallsInOrder, FormFilled, GrantsAlone, Grants, NewsToCome

-----------------------------------------------------------------------------
(* What the admin does.                                                    *)

LEMMA LeftFacts == Left \in Call /\ Left.op = "left" /\ Left.pc = "sent"
<1>1. None \in Filters
  BY PagesAssumption
<1> QED
  BY <1>1 DEF Left, Call

\* Another page starts with news: the load of its effect.
LEMMA OpenStep ==
  ASSUME IInv, NEW at \in {"tenants", "applications", "elsewhere"}, Open(at)
  PROVE  IInv'
<1>1. /\ TypeOK /\ page' = Fresh(at) /\ amiss' = FALSE /\ switched' = FALSE
  BY DEF IInv, Open
<1>2. /\ page' \in Page /\ page'.at = at /\ page'.drawer = None /\ page'.editing = FALSE
      /\ page'.filter = Fresh(at).filter /\ Fresh(at).filter \in Filters
  BY <1>1, FreshFacts
<1>3. /\ Left \in Call /\ Left.op = "left" /\ Left.pc = "sent"
  BY LeftFacts
<1>4. /\ call' \in [Calls -> Call \cup {None}]
      /\ \A c \in Calls : call'[c] \in {Left, None}
  BY <1>3 DEF Open
<1>5. CallsInOrder' /\ GrantsAlone'
  BY <1>3, <1>4 DEF CallsInOrder, GrantsAlone, Grants
<1>6. loads' \in Seq(Load) /\ NewsToCome'
  <2>1. CASE at = "elsewhere"
    <3>1. loads' \in Seq(Load) /\ DOMAIN loads' = {}
      BY <2>1, EmptySeq DEF Open
    <3> QED
      BY <1>2, <2>1, <3>1 DEF NewsToCome
  <2>2. CASE at # "elsewhere"
    <3> DEFINE x == [filter |-> Fresh(at).filter, pc |-> "sent", late |-> FALSE]
    <3>1. x \in Load /\ x.filter = page'.filter /\ x.pc = "sent" /\ ~x.late
      BY <1>2 DEF Load
    <3>2. loads' = <<x>>
      BY <2>2 DEF Open
    <3> HIDE DEF x
    <3>3. loads' \in Seq(Load) /\ DOMAIN loads' = {1} /\ loads'[1] = x
      BY <3>1, <3>2
    <3>4. Good(1)'
      BY <3>1, <3>3 DEF Good
    <3>5. Leads(1)'
      BY <3>3, <3>4 DEF Leads
    <3> QED
      BY <3>3, <3>5 DEF NewsToCome
  <2> QED
    BY <2>1, <2>2
<1> QED
  BY <1>1, <1>2, <1>4, <1>5, <1>6 DEF IInv, TypeOK, FormFilled

\* The Select asks for news.
LEMMA ChangeFilterStep ==
  ASSUME IInv, NEW f \in Filters, ChangeFilter(f)
  PROVE  IInv'
<1>1. /\ TypeOK /\ UNCHANGED <<call, amiss, switched>>
      /\ page' = [page EXCEPT !.filter = f]
      /\ loads' = Append(loads, [filter |-> f, pc |-> "sent", late |-> FALSE])
  BY DEF IInv, ChangeFilter, history
<1>2. /\ page' \in Page /\ page'.filter = f /\ page'.at = page.at
      /\ page'.drawer = page.drawer /\ page'.editing = page.editing
      /\ page'.form = page.form /\ page'.provisioning = page.provisioning
      /\ page'.credentials = page.credentials
  BY <1>1 DEF TypeOK, Page
<1>3. loads' \in Seq(Load) /\ NewsToCome'
  BY <1>1, <1>2, AppendStep
<1> QED
  BY <1>1, <1>2, <1>3 DEF IInv, TypeOK, CallsInOrder, FormFilled, GrantsAlone, Grants

\* A click that only changes what the page shows.
LEMMA ClickStep ==
  ASSUME IInv, UNCHANGED <<loads, call, amiss>>, switched' \in BOOLEAN,
         page' \in Page, page'.at = page.at, page'.list = page.list,
         page'.filter = page.filter, page'.provisioning = page.provisioning,
         page'.credentials # None => page.credentials # None,
         FormFilled'
  PROVE  IInv'
<1>1. NewsToCome'
  BY KeepsNews DEF IInv, Announced
<1> QED
  BY <1>1 DEF IInv, TypeOK, CallsInOrder, GrantsAlone, Grants

LEMMA ClicksStep ==
  ASSUME IInv,
         \/ \E t \in Tenants : OpenDetail(t)
         \/ CloseDrawer \/ Edit \/ CancelEdit \/ CloseCredentials
         \/ \E a \in Apps \cup {None} : AskReason(a)
  PROVE  IInv'
<1>1. /\ page \in Page /\ switched \in BOOLEAN
      /\ page.drawer # None /\ ~switched => page.form = page.drawer
      /\ page.editing => page.drawer # None
  BY DEF IInv, TypeOK, FormFilled
<1>2. ASSUME NEW t \in Tenants, OpenDetail(t) PROVE IInv'
  <2>1. /\ page' = [page EXCEPT !.drawer = t, !.editing = FALSE, !.form = t]
        /\ switched' = FALSE /\ UNCHANGED <<loads, call, amiss>> /\ t # None
    BY <1>2, PagesAssumption DEF OpenDetail
  <2>2. /\ page' \in Page /\ page'.at = page.at /\ page'.list = page.list
        /\ page'.filter = page.filter /\ page'.provisioning = page.provisioning
        /\ page'.credentials = page.credentials
        /\ page'.drawer = t /\ page'.form = t
    BY <1>1, <2>1 DEF Page
  <2> QED
    BY <2>1, <2>2, ClickStep DEF FormFilled
<1>3. CASE CloseDrawer
  <2>1. /\ page' = [page EXCEPT !.drawer = None, !.editing = FALSE]
        /\ UNCHANGED <<loads, call, amiss, switched>>
    BY <1>3 DEF CloseDrawer, history
  <2>2. /\ page' \in Page /\ page'.at = page.at /\ page'.list = page.list
        /\ page'.filter = page.filter /\ page'.provisioning = page.provisioning
        /\ page'.credentials = page.credentials
        /\ page'.drawer = None /\ page'.editing = FALSE
    BY <1>1, <2>1 DEF Page
  <2> QED
    BY <1>1, <2>1, <2>2, ClickStep DEF FormFilled
<1>4. CASE Edit
  <2>1. /\ page' = [page EXCEPT !.editing = TRUE] /\ page.drawer # None
        /\ UNCHANGED <<loads, call, amiss, switched>>
    BY <1>4 DEF Edit, InDrawer, history
  <2>2. /\ page' \in Page /\ page'.at = page.at /\ page'.list = page.list
        /\ page'.filter = page.filter /\ page'.provisioning = page.provisioning
        /\ page'.credentials = page.credentials
        /\ page'.drawer = page.drawer /\ page'.form = page.form
    BY <1>1, <2>1 DEF Page
  <2> QED
    BY <1>1, <2>1, <2>2, ClickStep DEF FormFilled
<1>5. CASE CancelEdit
  <2>1. /\ page' = [page EXCEPT !.editing = FALSE, !.form = page.drawer]
        /\ UNCHANGED <<loads, call, amiss>> /\ switched' = FALSE
    BY <1>5 DEF CancelEdit
  <2>2. /\ page' \in Page /\ page'.at = page.at /\ page'.list = page.list
        /\ page'.filter = page.filter /\ page'.provisioning = page.provisioning
        /\ page'.credentials = page.credentials /\ page'.editing = FALSE
        /\ page'.drawer = page.drawer /\ page'.form = page.drawer
    BY <1>1, <2>1 DEF Page
  <2> QED
    BY <1>1, <2>1, <2>2, ClickStep DEF FormFilled
<1>6. CASE CloseCredentials
  <2>1. /\ page' = [page EXCEPT !.credentials = None]
        /\ UNCHANGED <<loads, call, amiss, switched>>
    BY <1>6 DEF CloseCredentials, history
  <2>2. /\ page' \in Page /\ page'.at = page.at /\ page'.list = page.list
        /\ page'.filter = page.filter /\ page'.provisioning = page.provisioning
        /\ page'.credentials = None /\ page'.editing = page.editing
        /\ page'.drawer = page.drawer /\ page'.form = page.form
    BY <1>1, <2>1 DEF Page
  <2> QED
    BY <1>1, <2>1, <2>2, ClickStep DEF FormFilled
<1>7. ASSUME NEW a \in Apps \cup {None}, AskReason(a) PROVE IInv'
  <2>1. /\ page' = [page EXCEPT !.rejecting = a]
        /\ UNCHANGED <<loads, call, amiss, switched>>
    BY <1>7 DEF AskReason, history
  <2>2. /\ page' \in Page /\ page'.at = page.at /\ page'.list = page.list
        /\ page'.filter = page.filter /\ page'.provisioning = page.provisioning
        /\ page'.credentials = page.credentials /\ page'.editing = page.editing
        /\ page'.drawer = page.drawer /\ page'.form = page.form
    BY <1>1, <2>1 DEF Page
  <2> QED
    BY <1>1, <2>1, <2>2, ClickStep DEF FormFilled
<1> QED
  BY <1>2, <1>3, <1>4, <1>5, <1>6, <1>7

\* A click that sends something.  Access is only asked for while nobody waits
\* for it, and while no password is on display.
LEMMA SendStep ==
  ASSUME IInv, NEW c \in Calls, NEW id \in Tenants \cup Apps \cup {None},
         NEW op \in {"create", "toggle", "provision", "save", "approve", "reject"},
         Send(c, op, id),
         op \in {"toggle", "provision", "save"} => id \in Tenants,
         op \in {"approve", "reject"} => page.at = "applications",
         op # "provision" => page' = page,
         op = "provision" => /\ page.at = "tenants" /\ page.credentials = None
                             /\ page.provisioning = FALSE
                             /\ page' = [page EXCEPT !.provisioning = TRUE]
  PROVE  IInv'
<1>1. /\ TypeOK /\ call[c] = None /\ UNCHANGED <<loads, amiss, switched>>
  BY DEF IInv, Send, history
<1> DEFINE x == [op |-> op, pc |-> "sent", id |-> id, drawer |-> page.drawer,
                 filter |-> page.filter]
<1>2. x \in Call /\ x.op = op /\ x.pc = "sent" /\ x.id = id
  BY <1>1 DEF TypeOK, Page, Call
<1>3. call' = [call EXCEPT ![c] = x]
  BY DEF Send
<1> HIDE DEF x
<1>4. /\ call' \in [Calls -> Call \cup {None}] /\ call'[c] = x
      /\ \A e \in Calls \ {c} : call'[e] = call[e]
  BY <1>1, <1>2, <1>3 DEF TypeOK
<1>5. /\ page' \in Page /\ page'.at = page.at /\ page'.list = page.list
      /\ page'.filter = page.filter /\ page'.credentials = page.credentials
      /\ page'.editing = page.editing /\ page'.drawer = page.drawer
      /\ page'.form = page.form
      /\ op # "provision" => page'.provisioning = page.provisioning
      /\ op = "provision" => page'.provisioning = TRUE
  <2>1. CASE op = "provision"
    BY <1>1, <2>1 DEF TypeOK, Page
  <2>2. CASE op # "provision"
    BY <1>1, <2>2 DEF TypeOK
  <2> QED
    BY <2>1, <2>2
<1>6. Announced => Announced'
  BY <1>1, <1>4 DEF Announced
<1>7. NewsToCome'
  BY <1>1, <1>5, <1>6, KeepsNews DEF IInv
<1>8. CallsInOrder'
  BY <1>2, <1>4, <1>5 DEF IInv, CallsInOrder
<1>9. GrantsAlone'
  <2>1. op = "provision" => \A e \in Calls : ~Grants(e)
    BY DEF IInv, GrantsAlone
  <2> QED
    BY <1>2, <1>4, <1>5, <2>1 DEF IInv, GrantsAlone, Grants
<1> QED
  BY <1>1, <1>4, <1>5, <1>7, <1>8, <1>9 DEF IInv, TypeOK, FormFilled

LEMMA SendsStep ==
  ASSUME IInv, NEW c \in Calls,
         \/ SaveEdit(c) \/ Create(c) \/ ProvisionDashboard(c) \/ Reject(c)
         \/ \E t \in Tenants : ToggleSuspend(c, t)
         \/ \E a \in Apps : Approve(c, a)
  PROVE  IInv'
<1>1. page \in Page
  BY DEF IInv, TypeOK
<1>2. page.drawer \in Tenants \cup {None} /\ page.rejecting \in Apps \cup {None}
      /\ page.provisioning \in BOOLEAN
  BY <1>1 DEF Page
<1>3. CASE SaveEdit(c)
  BY <1>2, <1>3, SendStep DEF SaveEdit, InDrawer
<1>4. CASE Create(c)
  BY <1>4, SendStep DEF Create
<1>5. CASE ProvisionDashboard(c)
  <2>1. /\ page.at = "tenants" /\ page.credentials = None /\ page.drawer # None
        /\ page.provisioning = FALSE
        /\ page' = [page EXCEPT !.provisioning = TRUE]
        /\ Send(c, "provision", page.drawer)
    BY <1>2, <1>5 DEF ProvisionDashboard, InDrawer, OnTenants
  <2> QED
    BY <1>2, <2>1, SendStep
<1>6. CASE Reject(c)
  BY <1>2, <1>6, SendStep DEF Reject
<1>7. ASSUME NEW t \in Tenants, ToggleSuspend(c, t) PROVE IInv'
  BY <1>7, SendStep DEF ToggleSuspend
<1>8. ASSUME NEW a \in Apps, Approve(c, a) PROVE IInv'
  BY <1>8, SendStep DEF Approve
<1> QED
  BY <1>3, <1>4, <1>5, <1>6, <1>7, <1>8

-----------------------------------------------------------------------------
(* The server, and what follows its answers.                               *)

\* A call goes on or ends; `news` is what the step owes the list.
LEMMA MoveFacts ==
  ASSUME TypeOK, NEW c \in Calls, NEW x \in Call \cup {None},
         call' = [call EXCEPT ![c] = x]
  PROVE  /\ call' \in [Calls -> Call \cup {None}] /\ call'[c] = x
         /\ \A e \in Calls \ {c} : call'[e] = call[e]
BY DEF TypeOK

\* Rows are written: what was read before is old, and a handler will load.
LEMMA WriteStep ==
  ASSUME IInv, NEW c \in Calls, Write(c)
  PROVE  IInv'
<1> DEFINE older == [i \in DOMAIN loads |->
                       IF loads[i].pc = "current" THEN [loads[i] EXCEPT !.pc = "old"]
                       ELSE loads[i]]
<1>1. /\ TypeOK /\ call[c] # None /\ call[c] \in Call /\ call[c].pc = "sent"
      /\ page' = IF page.list = None THEN page ELSE [page EXCEPT !.list.current = FALSE]
      /\ UNCHANGED switched
  BY DEF IInv, TypeOK, Write
<1>2. /\ page' \in Page /\ page'.at = page.at /\ page'.filter = page.filter
      /\ page'.credentials = page.credentials /\ page'.editing = page.editing
      /\ page'.drawer = page.drawer /\ page'.form = page.form
      /\ page'.provisioning = page.provisioning
  <2>1. CASE page.list = None
    BY <1>1, <2>1 DEF TypeOK
  <2>2. CASE page.list # None
    <3>1. page \in Page /\ page.list \in List
      BY <1>1, <2>2 DEF TypeOK, Page
    <3>2. [page.list EXCEPT !.current = FALSE] \in List
      BY <3>1 DEF List
    <3> QED
      BY <1>1, <2>2, <3>1, <3>2 DEF Page
  <2> QED
    BY <2>1, <2>2
<1>3. older \in Seq(Load)
  <2>1. /\ Len(loads) \in Nat /\ DOMAIN loads = 1 .. Len(loads)
        /\ \A i \in DOMAIN loads : loads[i] \in Load
    BY <1>1, LoadsFacts
  <2>2. \A i \in DOMAIN loads : older[i] \in Load
    BY <2>1 DEF Load
  <2>3. older \in [1 .. Len(loads) -> Load]
    BY <2>1, <2>2
  <2> QED
    BY <2>1, <2>3
<1>4. CASE call[c].op = "left"
  <2>1. End(c) /\ Unnoticed(older)
    BY <1>4 DEF Write
  <2> HIDE DEF older
  <2>2. loads' \in Seq(Load) /\ amiss' \in BOOLEAN /\ NewsToCome'
    BY <1>2, <1>3, <2>1, UnnoticedStep
  <2>3. /\ call' \in [Calls -> Call \cup {None}] /\ call'[c] = None
        /\ \A e \in Calls \ {c} : call'[e] = call[e]
    BY <1>1, <2>1, MoveFacts DEF End
  <2>4. CallsInOrder' /\ GrantsAlone'
    BY <1>2, <2>3 DEF IInv, CallsInOrder, GrantsAlone, Grants
  <2> QED
    BY <1>1, <1>2, <2>2, <2>3, <2>4 DEF IInv, TypeOK, FormFilled
<1>5. CASE call[c].op # "left"
  <2> DEFINE x == [call[c] EXCEPT !.pc = "done"]
  <2>1. x \in Call /\ x.op = call[c].op /\ x.pc = "done" /\ x.id = call[c].id
    BY <1>1 DEF Call
  <2>2. call' = [call EXCEPT ![c] = x] /\ loads' = older /\ UNCHANGED amiss
    BY <1>1, <1>5 DEF Write, TypeOK
  <2>3. x # None
    BY <2>1, CallAssumption
  <2> HIDE DEF older, x
  <2>4. /\ call' \in [Calls -> Call \cup {None}] /\ call'[c] = x
        /\ \A e \in Calls \ {c} : call'[e] = call[e]
    BY <1>1, <2>1, <2>2, MoveFacts
  <2>5. Announced'
    BY <2>1, <2>3, <2>4 DEF Announced
  <2>6. NewsToCome'
    BY <2>5 DEF NewsToCome, Leads
  <2>7. CallsInOrder'
    BY <1>1, <1>2, <2>1, <2>4 DEF IInv, CallsInOrder
  <2>8. GrantsAlone'
    BY <1>1, <1>2, <2>1, <2>4 DEF IInv, GrantsAlone, Grants
  <2> QED
    BY <1>1, <1>2, <1>3, <2>2, <2>4, <2>6, <2>7, <2>8 DEF IInv, TypeOK, FormFilled
<1> QED
  BY <1>4, <1>5

\* A handler that goes on, with what it owes the list.
LEMMA GoOnStep ==
  ASSUME IInv, NEW c \in Calls, NEW x \in Call \cup {None}, call[c] # None,
         call' = [call EXCEPT ![c] = x],
         x # None =>
           \/ x.op = "left"
           \/ /\ x.op = call[c].op /\ x.id = call[c].id
              /\ x.op = "provision" => x.pc = "fetch",
         page' \in Page, page'.at = page.at, switched' \in BOOLEAN, FormFilled',
         \/ page'.provisioning = page.provisioning
         \/ call[c].op = "provision" /\ (x = None \/ x.op = "left"),
         page'.credentials # None =>
           \/ page.credentials # None
           \/ page.at = "applications"
           \/ call[c].op = "provision",
         loads' \in Seq(Load), amiss' \in BOOLEAN, NewsToCome'
  PROVE  IInv'
<1>1. TypeOK
  BY DEF IInv
<1>2. /\ call' \in [Calls -> Call \cup {None}] /\ call'[c] = x
      /\ \A e \in Calls \ {c} : call'[e] = call[e]
  BY <1>1, MoveFacts
<1>3. CallsInOrder'
  BY <1>2 DEF IInv, CallsInOrder
<1>4. GrantsAlone'
  <2> SUFFICES ASSUME NEW e \in Calls, Grants(e)'
               PROVE  /\ page'.provisioning
                      /\ page'.credentials # None => call'[e].pc = "fetch"
                      /\ \A f \in Calls : Grants(f)' => f = e
    BY DEF GrantsAlone
  <2>1. \A f \in Calls : Grants(f)' => Grants(f)
    BY <1>2 DEF Grants
  <2>2. /\ page.provisioning /\ \A f \in Calls : Grants(f) => f = e
        /\ page.credentials # None => call[e].pc = "fetch"
        /\ page.at = "tenants"
    BY <2>1 DEF IInv, GrantsAlone, CallsInOrder, Grants
  <2>3. page'.provisioning
    BY <1>2, <2>2 DEF Grants
  <2>4. page'.credentials # None => call'[e].pc = "fetch"
    BY <1>2, <2>2 DEF Grants
  <2> QED
    BY <2>1, <2>2, <2>3, <2>4
<1> QED
  BY <1>1, <1>2, <1>3, <1>4 DEF IInv, TypeOK

LEMMA ToggledStep ==
  ASSUME IInv, NEW c \in Calls, Toggled(c)
  PROVE  IInv'
<1>1. /\ TypeOK /\ call[c] # None /\ call[c] \in Call /\ call[c].op = "toggle"
      /\ UNCHANGED <<page, switched>> /\ LoadWith(None) /\ None \in Filters
  BY PagesAssumption DEF IInv, TypeOK, Toggled, Answered
<1>2. loads' \in Seq(Load) /\ amiss' \in BOOLEAN /\ NewsToCome'
  BY <1>1, LoadWithStep
<1>3. FormFilled'
  BY <1>1 DEF IInv, FormFilled
<1>4. PICK x \in Call \cup {None} :
        /\ call' = [call EXCEPT ![c] = x]
        /\ x # None => x.op = call[c].op /\ x.id = call[c].id
  <2>1. CASE call[c].drawer = call[c].id
    <3> DEFINE x == [call[c] EXCEPT !.pc = "fetch"]
    <3>1. x \in Call /\ x.op = call[c].op /\ x.id = call[c].id
      BY <1>1 DEF Call
    <3>2. call' = [call EXCEPT ![c] = x]
      BY <1>1, <2>1 DEF Toggled, TypeOK
    <3> HIDE DEF x
    <3> QED
      BY <3>1, <3>2
  <2>2. CASE call[c].drawer # call[c].id
    BY <1>1, <2>2 DEF Toggled, TypeOK
  <2> QED
    BY <2>1, <2>2
<1> QED
  BY <1>1, <1>2, <1>3, <1>4, GoOnStep DEF TypeOK

LEMMA ProvisionedStep ==
  ASSUME IInv, NEW c \in Calls, Provisioned(c)
  PROVE  IInv'
<1>1. /\ TypeOK /\ call[c] # None /\ call[c] \in Call /\ call[c].op = "provision"
      /\ UNCHANGED switched /\ LoadWith(None) /\ None \in Filters
      /\ page' = [page EXCEPT !.credentials = call[c].id]
      /\ call[c].id \in Tenants
  BY PagesAssumption DEF IInv, TypeOK, Provisioned, Answered, CallsInOrder
<1>2. /\ page' \in Page /\ page'.at = page.at /\ page'.filter = page.filter
      /\ page'.drawer = page.drawer /\ page'.form = page.form
      /\ page'.editing = page.editing /\ page'.provisioning = page.provisioning
  BY <1>1 DEF TypeOK, Page
<1>3. loads' \in Seq(Load) /\ amiss' \in BOOLEAN /\ NewsToCome'
  BY <1>1, <1>2, LoadWithStep
<1>4. FormFilled'
  BY <1>1, <1>2 DEF IInv, FormFilled
<1> DEFINE x == [call[c] EXCEPT !.pc = "fetch"]
<1>5. x \in Call /\ x.op = call[c].op /\ x.id = call[c].id /\ x.pc = "fetch"
  BY <1>1 DEF Call
<1>6. call' = [call EXCEPT ![c] = x]
  BY <1>1 DEF Provisioned, TypeOK
<1> HIDE DEF x
<1> QED
  BY <1>1, <1>2, <1>3, <1>4, <1>5, <1>6, LeftFacts, GoOnStep DEF TypeOK

\* The drawer shows what was fetched; it may have shown something else.
LEMMA FetchedStep ==
  ASSUME IInv, NEW c \in Calls, Fetched(c)
  PROVE  IInv'
<1> DEFINE t == call[c].id
<1>1. /\ TypeOK /\ call[c] # None /\ call[c].op \in {"provision", "toggle"}
      /\ UNCHANGED <<loads, amiss>> /\ End(c) /\ call[c].pc = "fetch"
      /\ switched' = (switched \/ page.drawer # t)
      /\ t \in Tenants /\ t # None
      /\ \/ page' = [page EXCEPT !.drawer = t]
         \/ /\ page' = [page EXCEPT !.drawer = t, !.provisioning = FALSE]
            /\ call[c].op = "provision"
  BY PagesAssumption DEF IInv, TypeOK, Fetched, Answered, CallsInOrder, Select
<1> HIDE DEF t
<1>2. /\ page' \in Page /\ page'.at = page.at /\ page'.filter = page.filter
      /\ page'.list = page.list
      /\ page'.drawer = t /\ page'.form = page.form
      /\ page'.editing = page.editing /\ page'.credentials = page.credentials
      /\ page'.provisioning = page.provisioning \/ call[c].op = "provision"
  BY <1>1 DEF TypeOK, Page
<1>3. Announced => Announced'
  BY <1>1 DEF Announced, End, TypeOK
<1>4. NewsToCome'
  BY <1>1, <1>2, <1>3, KeepsNews DEF IInv
<1>5. FormFilled'
  BY <1>1, <1>2 DEF IInv, FormFilled
<1>6. switched' \in BOOLEAN
  BY <1>1 DEF TypeOK
<1> QED
  BY <1>1, <1>2, <1>4, <1>5, <1>6, GoOnStep DEF TypeOK, End

LEMMA SavedStep ==
  ASSUME IInv, NEW c \in Calls, Saved(c)
  PROVE  IInv'
<1> DEFINE t == call[c].id
<1>1. /\ TypeOK /\ call[c] # None /\ LoadWith(None) /\ None \in Filters /\ End(c)
      /\ switched' = (switched \/ page.drawer # t)
      /\ t \in Tenants /\ t # None
      /\ page' = [page EXCEPT !.drawer = t, !.editing = FALSE]
  BY PagesAssumption DEF IInv, TypeOK, Saved, Answered, CallsInOrder, Select
<1> HIDE DEF t
<1>2. /\ page' \in Page /\ page'.at = page.at /\ page'.filter = page.filter
      /\ page'.drawer = t /\ page'.form = page.form
      /\ page'.editing = FALSE /\ page'.credentials = page.credentials
      /\ page'.provisioning = page.provisioning
  BY <1>1 DEF TypeOK, Page
<1>3. loads' \in Seq(Load) /\ amiss' \in BOOLEAN /\ NewsToCome'
  BY <1>1, <1>2, LoadWithStep
<1>4. FormFilled'
  BY <1>1, <1>2 DEF IInv, FormFilled
<1>5. switched' \in BOOLEAN
  BY <1>1 DEF TypeOK
<1> QED
  BY <1>1, <1>2, <1>3, <1>4, <1>5, GoOnStep DEF End

\* An application is decided, or a tenant created.
LEMMA DecidedStep ==
  ASSUME IInv, NEW c \in Calls, Created(c) \/ Approved(c) \/ Rejected(c)
  PROVE  IInv'
<1>1. /\ TypeOK /\ call[c] # None /\ call[c] \in Call /\ End(c) /\ UNCHANGED switched
      /\ None \in Filters /\ call[c].filter \in Filters
      /\ LoadWith(None) \/ LoadWith(call[c].filter)
  BY PagesAssumption DEF IInv, TypeOK, Created, Approved, Rejected, Answered, Call
<1>2. /\ page' \in Page /\ page'.at = page.at /\ page'.filter = page.filter
      /\ page'.drawer = page.drawer /\ page'.form = page.form
      /\ page'.editing = page.editing /\ page'.provisioning = page.provisioning
      /\ page'.credentials = page.credentials \/ page.at = "applications"
  <2>1. CASE Created(c)
    BY <1>1, <2>1 DEF Created, TypeOK
  <2>2. CASE Approved(c)
    <3>1. PICK shown \in {call[c].id, page.credentials} :
            page' = [page EXCEPT !.credentials = shown]
      BY <2>2 DEF Approved
    <3>2. shown \in Tenants \cup Apps \cup {None} /\ page.at = "applications"
      BY <1>1, <2>2 DEF Approved, Answered, IInv, CallsInOrder, TypeOK, Page, Call
    <3> QED
      BY <1>1, <3>1, <3>2 DEF TypeOK, Page
  <2>3. CASE Rejected(c)
    BY <1>1, <2>3 DEF Rejected, TypeOK, Page
  <2> QED
    BY <2>1, <2>2, <2>3
<1>3. loads' \in Seq(Load) /\ amiss' \in BOOLEAN /\ NewsToCome'
  BY <1>1, <1>2, LoadWithStep
<1>4. FormFilled'
  BY <1>1, <1>2 DEF IInv, FormFilled
<1> QED
  BY <1>1, <1>2, <1>3, <1>4, GoOnStep DEF End, TypeOK

LEMMA FailCallStep ==
  ASSUME IInv, NEW c \in Calls, FailCall(c)
  PROVE  IInv'
<1>1. /\ TypeOK /\ call[c] # None /\ UNCHANGED switched
      /\ page' = IF call[c].op = "provision"
                 THEN [page EXCEPT !.provisioning = FALSE] ELSE page
  BY DEF IInv, FailCall
<1>5. PICK x \in {None, Left} : call' = [call EXCEPT ![c] = x]
  BY DEF FailCall, End
<1>6. x \in Call \cup {None}
  BY LeftFacts
<1>2. /\ page' \in Page /\ page'.at = page.at /\ page'.filter = page.filter
      /\ page'.list = page.list
      /\ page'.drawer = page.drawer /\ page'.form = page.form
      /\ page'.editing = page.editing /\ page'.credentials = page.credentials
      /\ page'.provisioning = page.provisioning \/ call[c].op = "provision"
  BY <1>1 DEF TypeOK, Page
<1>3. loads' \in Seq(Load) /\ amiss' \in BOOLEAN /\ NewsToCome'
  <2>1. CASE call[c].pc = "done"
    BY <1>1, <1>2, <2>1, UnnoticedStep DEF FailCall, TypeOK
  <2>2. CASE call[c].pc # "done"
    <3>1. UNCHANGED <<loads, amiss>>
      BY <2>2 DEF FailCall
    <3>2. Announced => Announced'
      BY <1>1, <1>5, <2>2 DEF Announced, TypeOK
    <3> QED
      BY <1>1, <1>2, <3>1, <3>2, KeepsNews DEF IInv, TypeOK
  <2> QED
    BY <2>1, <2>2
<1>4. FormFilled'
  BY <1>1, <1>2 DEF IInv, FormFilled
<1> QED
  BY <1>1, <1>2, <1>3, <1>4, <1>5, <1>6, LeftFacts, GoOnStep DEF TypeOK

-----------------------------------------------------------------------------
(* Loads.                                                                  *)

LEMMA ReadRowsStep ==
  ASSUME IInv, NEW i \in DOMAIN loads, ReadRows(i)
  PROVE  IInv'
<1>1. /\ TypeOK /\ UNCHANGED <<page, call, amiss, switched>> /\ loads[i].pc = "sent"
      /\ loads' = [loads EXCEPT ![i].pc = "current"]
  BY DEF IInv, ReadRows, history
<1>2. /\ Len(loads) \in Nat /\ DOMAIN loads = 1 .. Len(loads)
      /\ \A j \in DOMAIN loads : loads[j] \in Load
  BY <1>1, LoadsFacts
<1> DEFINE x == [loads[i] EXCEPT !.pc = "current"]
<1>3. /\ x \in Load /\ x.filter = loads[i].filter /\ x.pc = "current"
      /\ x.late = loads[i].late
  BY <1>2 DEF Load
<1>4. loads' = [loads EXCEPT ![i] = x]
  BY <1>1
<1> HIDE DEF x
<1>5. /\ loads' \in Seq(Load) /\ DOMAIN loads' = DOMAIN loads
      /\ loads'[i] = x /\ \A j \in DOMAIN loads \ {i} : loads'[j] = loads[j]
  BY <1>1, <1>2, <1>3, <1>4, ExceptSeq DEF TypeOK
<1>6. \A j \in DOMAIN loads : Good(j) => Good(j)'
  BY <1>1, <1>3, <1>5 DEF Good
<1>7. \A j \in DOMAIN loads : ~loads'[j].late => ~loads[j].late
  BY <1>3, <1>5
<1>8. \A j : Leads(j) => Leads(j)'
  BY <1>1, <1>5, <1>6 DEF Leads, Announced
<1>9. NewsToCome'
  BY <1>1, <1>5, <1>7, <1>8 DEF IInv, NewsToCome, ListIsCurrent
<1> QED
  BY <1>1, <1>5, <1>9 DEF IInv, TypeOK, CallsInOrder, FormFilled, GrantsAlone, Grants

\* The list shows an answer: current, or with more to come, unless it was late.
LEMMA ShowListStep ==
  ASSUME IInv, NEW i \in DOMAIN loads, ShowList(i)
  PROVE  IInv'
<1>1. /\ TypeOK /\ UNCHANGED <<call, switched>> /\ loads[i].pc # "sent"
      /\ page' = [page EXCEPT !.list = [filter |-> loads[i].filter,
                                        current |-> loads[i].pc = "current"]]
      /\ Newest(i) /\ amiss' = loads[i].late
  BY DEF IInv, ShowList
<1>2. loads[i] \in Load
  BY <1>1, LoadsFacts
<1> DEFINE l == [filter |-> loads[i].filter, current |-> loads[i].pc = "current"]
<1>3. l \in List
  BY <1>2 DEF List, Load
<1>4. loads[i].pc = "current" /\ loads[i].filter = page.filter
        => l = [filter |-> page.filter, current |-> TRUE]
  OBVIOUS
<1>5. page' = [page EXCEPT !.list = l]
  BY <1>1
<1> HIDE DEF l
<1>6. /\ page' \in Page /\ page'.at = page.at /\ page'.filter = page.filter
      /\ page'.list = l
      /\ page'.drawer = page.drawer /\ page'.form = page.form
      /\ page'.editing = page.editing /\ page'.credentials = page.credentials
      /\ page'.provisioning = page.provisioning
  BY <1>1, <1>3, <1>5 DEF TypeOK, Page
<1>7. loads' \in Seq(Load) /\ amiss' \in BOOLEAN
  BY <1>1, <1>2, NewestFacts DEF Load
<1>8. NewsToCome'
  <2>1. /\ \A j \in DOMAIN loads' : ~loads'[j].late => Leads(j)'
        /\ Announced \/ (\E k \in DOMAIN loads : k > i /\ Good(k)) => Leads(1)'
    BY <1>1, <1>6, NewestKeepsLeads DEF IInv
  <2>2. ASSUME ~amiss' PROVE ListIsCurrent' \/ Leads(1)'
    <3>1. Leads(i)
      BY <1>1, <2>2 DEF IInv, NewsToCome
    <3>2. Announced \/ (\E k \in DOMAIN loads : k > i /\ Good(k)) \/ Good(i)
      <4>1. DOMAIN loads = 1 .. Len(loads) /\ Len(loads) \in Nat
        BY <1>1, LoadsFacts
      <4>2. \A k \in DOMAIN loads : k >= i => k > i \/ k = i
        BY <4>1
      <4> QED
        BY <3>1, <4>2 DEF Leads
    <3>3. Good(i) => ListIsCurrent'
      BY <1>1, <1>2, <1>4, <1>6 DEF Good, ListIsCurrent, Load
    <3> QED
      BY <2>1, <3>2, <3>3
  <2> QED
    BY <2>1, <2>2 DEF NewsToCome
<1> QED
  BY <1>1, <1>6, <1>7, <1>8 DEF IInv, TypeOK, CallsInOrder, FormFilled, GrantsAlone, Grants

LEMMA FailLoadStep ==
  ASSUME IInv, NEW i \in DOMAIN loads, FailLoad(i)
  PROVE  IInv'
<1>1. TypeOK /\ UNCHANGED <<page, call, switched>> /\ NewsToCome
  BY DEF IInv, FailLoad
<1>2. /\ Len(loads) \in Nat /\ DOMAIN loads = 1 .. Len(loads) /\ loads \in Seq(Load)
  BY <1>1, LoadsFacts DEF TypeOK
<1>3. loads' \in Seq(Load) /\ amiss' \in BOOLEAN /\ NewsToCome'
  <2>1. CASE loads[i].late
    <3>1. loads' = RemoveAt(loads, i) /\ UNCHANGED amiss
      BY <2>1 DEF FailLoad
    <3>2. /\ loads' \in Seq(Load) /\ Len(loads') = Len(loads) - 1
          /\ \A j \in 1 .. Len(loads) - 1 :
               loads'[j] = IF j < i THEN loads[j] ELSE loads[j + 1]
      BY <1>2, <3>1, RemoveAtFacts
    <3>3. DOMAIN loads' = 1 .. Len(loads) - 1
      BY <3>2, LenProperties
    <3>4. ASSUME NEW k \in DOMAIN loads, Good(k), NEW j \in 1 .. Len(loads),
                 k >= j, j # i \/ j = 1
          PROVE  Leads(IF j < i \/ j = 1 THEN j ELSE j - 1)'
      <4>1. k # i
        BY <2>1, <3>4 DEF Good
      <4>2. CASE k < i
        <5>1. k \in DOMAIN loads' /\ Good(k)' /\ (j < i \/ j = 1)
          BY <1>1, <1>2, <3>2, <3>3, <3>4, <4>2 DEF Good
        <5> QED
          BY <3>4, <5>1 DEF Leads
      <4>3. CASE k > i
        <5>1. k - 1 \in 1 .. Len(loads) - 1 /\ ~(k - 1 < i) /\ (k - 1) + 1 = k
          BY <1>2, <4>3
        <5>2. k - 1 \in DOMAIN loads' /\ Good(k - 1)'
          BY <1>1, <3>2, <3>3, <3>4, <5>1 DEF Good
        <5>3. k - 1 >= (IF j < i \/ j = 1 THEN j ELSE j - 1)
          BY <1>2, <3>4, <4>3
        <5> QED
          BY <5>2, <5>3 DEF Leads
      <4> QED
        BY <1>2, <4>1, <4>2, <4>3
    <3>5. ASSUME NEW j \in DOMAIN loads', ~loads'[j].late PROVE Leads(j)'
      <4>1. PICK o \in 1 .. Len(loads) :
              /\ ~loads[o].late /\ o # i
              /\ j = IF o < i THEN o ELSE o - 1
        <5>1. CASE j < i
          BY <1>2, <3>2, <3>3, <3>5, <5>1
        <5>2. CASE ~(j < i)
          <6>1. j + 1 \in 1 .. Len(loads) /\ j + 1 # i /\ ~(j + 1 < i) /\ (j + 1) - 1 = j
            BY <1>2, <3>3, <5>2
          <6> QED
            BY <3>2, <3>3, <3>5, <5>2, <6>1
        <5> QED
          BY <5>1, <5>2
      <4>2. Announced \/ \E k \in DOMAIN loads : k >= o /\ Good(k)
        BY <1>1, <1>2, <4>1 DEF NewsToCome, Leads
      <4>3. ASSUME NEW k \in DOMAIN loads, k >= o, Good(k) PROVE Leads(j)'
        <5>1. o = 1 => o < i
          BY <1>2, <4>1
        <5> QED
          BY <3>4, <4>1, <4>3, <5>1
      <4> QED
        BY <1>1, <4>2, <4>3 DEF Leads, Announced
    <3>6. ASSUME page.at # "elsewhere", ~amiss PROVE ListIsCurrent \/ Leads(1)'
      <4>1. CASE ListIsCurrent
        BY <4>1
      <4>2. CASE Announced
        BY <1>1, <4>2 DEF Leads, Announced
      <4>3. ASSUME NEW k \in DOMAIN loads, Good(k) PROVE Leads(1)'
        <5>1. 1 \in 1 .. Len(loads) /\ k >= 1
          BY <1>2
        <5> QED
          BY <3>4, <4>3, <5>1
      <4> QED
        BY <1>1, <3>6, <4>1, <4>2, <4>3 DEF NewsToCome, Leads
    <3> QED
      BY <1>1, <3>1, <3>2, <3>5, <3>6 DEF NewsToCome, ListIsCurrent, TypeOK
  <2>2. CASE ~loads[i].late
    <3>1. Newest(i) /\ amiss' = TRUE
      BY <2>2 DEF FailLoad
    <3>2. \A j \in DOMAIN loads' : ~loads'[j].late => Leads(j)'
      BY <1>1, <3>1, NewestKeepsLeads
    <3> QED
      BY <1>1, <3>1, <3>2, NewestFacts DEF NewsToCome
  <2> QED
    BY <2>1, <2>2
<1> QED
  BY <1>1, <1>3 DEF IInv, TypeOK, CallsInOrder, FormFilled, GrantsAlone, Grants

-----------------------------------------------------------------------------
\* Every step keeps the invariant.
LEMMA NextIInv == IInv /\ [Next]_vars => IInv'
<1> SUFFICES ASSUME IInv, [Next]_vars PROVE IInv'
  OBVIOUS
<1>1. CASE Use
  BY <1>1, OpenStep, ChangeFilterStep, ClicksStep, SendsStep DEF Use
<1>2. CASE Lists
  BY <1>2, ReadRowsStep, ShowListStep, FailLoadStep DEF Lists
<1>3. ASSUME NEW c \in Calls, GoOn(c) PROVE IInv'
  BY <1>3, WriteStep, FailCallStep, ToggledStep, ProvisionedStep, FetchedStep,
     SavedStep, DecidedStep DEF GoOn
<1>4. CASE UNCHANGED vars
  <2>1. UNCHANGED <<page, loads, call, amiss, switched>>
    BY <1>4 DEF vars, history
  <2>2. switched' \in BOOLEAN /\ page' \in Page /\ FormFilled'
    BY <2>1 DEF IInv, TypeOK, FormFilled
  <2> QED
    BY <2>1, <2>2, ClickStep
<1> QED
  BY <1>1, <1>2, <1>3, <1>4 DEF Next

\* The invariant holds in every reachable state.
THEOREM SpecIInv == Spec => []IInv
<1> QED
  BY InitIInv, NextIInv, PTL DEF Spec

\* The page, its loads and the writes keep their types.
THEOREM TypeCorrect == Spec => []TypeOK
<1>1. IInv => TypeOK
  BY DEF IInv
<1> QED
  BY <1>1, SpecIInv, PTL

\* When nothing is under way the list is what the server has, for the filter on
\* display, unless the history says how not (load, the effects, every handler).
THEOREM ListsAreCurrent == Spec => []QuietListIsCurrent
<1>1. IInv => QuietListIsCurrent
  <2> SUFFICES ASSUME IInv, page.at # "elsewhere", loads = <<>>, Pending = {}, ~amiss
               PROVE  page.list = [filter |-> page.filter, current |-> TRUE]
    BY DEF QuietListIsCurrent
  <2>1. DOMAIN loads = {} /\ ~Announced
    BY DEF Pending, Announced
  <2> QED
    BY <2>1 DEF IInv, NewsToCome, Leads, ListIsCurrent
<1> QED
  BY <1>1, SpecIInv, PTL

\* Values are edited as those of the tenant in the drawer, unless an answer
\* switched the tenant (openDetail, handleSaveEdit, setSelected).
THEOREM FormsAreOfTheDrawer == Spec => []FormFollowsDrawer
<1>1. IInv => FormFollowsDrawer
  BY DEF IInv, FormFilled, FormFollowsDrawer
<1> QED
  BY <1>1, SpecIInv, PTL

-----------------------------------------------------------------------------
\* On the Tenants page no step but its own button puts a password away or
\* replaces it: the only grant under way is the one that is on display.
LEMMA StepKeepsCredentials ==
  ASSUME IInv, [Next]_vars,
         page.at = "tenants", page'.at = "tenants", page.credentials # None
  PROVE  page'.credentials = page.credentials \/ CloseCredentials
<1>1. /\ page \in Page
      /\ \A c \in Calls :
           call[c] # None /\ call[c].op = "provision" => call[c].pc = "fetch"
      /\ \A c \in Calls : call[c] # None => call[c].op \notin {"approve", "reject"}
  BY DEF IInv, TypeOK, CallsInOrder, GrantsAlone, Grants
<1>2. CASE Use
  <2>1. ASSUME NEW at \in {"tenants", "applications", "elsewhere"}, Open(at) PROVE FALSE
    <3>1. page'.at = at /\ at # page.at
      BY <2>1, FreshFacts DEF Open
    <3> QED
      BY <3>1
  <2>2. ASSUME NEW c \in Calls,
               \/ SaveEdit(c) \/ Create(c) \/ ProvisionDashboard(c) \/ Reject(c)
               \/ \E t \in Tenants : ToggleSuspend(c, t)
               \/ \E a \in Apps : Approve(c, a)
        PROVE  page'.credentials = page.credentials
    BY <2>2 DEF SaveEdit, Create, ProvisionDashboard, Reject, ToggleSuspend, Approve,
                InDrawer, OnTable, OnTenants
  <2>3. ASSUME NEW f \in Filters, ChangeFilter(f) PROVE FALSE
    BY <2>3 DEF ChangeFilter
  <2>4. ASSUME NEW t \in Tenants, OpenDetail(t) PROVE FALSE
    BY <2>4 DEF OpenDetail, OnTable, OnTenants
  <2>5. ASSUME NEW a \in Apps \cup {None}, AskReason(a) PROVE FALSE
    BY <2>5 DEF AskReason
  <2>6. CASE CloseDrawer \/ Edit \/ CancelEdit
    BY <2>6 DEF CloseDrawer, Edit, CancelEdit, InDrawer, OnTenants
  <2> QED
    BY <1>2, <2>1, <2>2, <2>3, <2>4, <2>5, <2>6 DEF Use
<1>3. CASE Lists
  BY <1>1, <1>3 DEF Lists, ReadRows, ShowList, FailLoad, Page
<1>4. ASSUME NEW c \in Calls, GoOn(c) PROVE page'.credentials = page.credentials
  <2>1. ~Provisioned(c) /\ ~Approved(c) /\ ~Rejected(c)
    BY <1>1 DEF Provisioned, Approved, Rejected, Answered
  <2>2. CASE Write(c)
    BY <1>1, <2>2 DEF Write, Page
  <2>3. CASE FailCall(c)
    BY <1>1, <2>3 DEF FailCall, Page
  <2>4. CASE Toggled(c) \/ Fetched(c) \/ Saved(c) \/ Created(c)
    BY <1>1, <2>4 DEF Toggled, Fetched, Saved, Created, Page
  <2> QED
    BY <1>4, <2>1, <2>2, <2>3, <2>4 DEF GoOn
<1>5. CASE UNCHANGED vars
  BY <1>5 DEF vars
<1> QED
  BY <1>2, <1>3, <1>4, <1>5 DEF Next

\* A one-time password stays on display until it is closed
\* (handleProvisionDashboard).
THEOREM CredentialsStay == Spec => CredentialsStayUntilDone
<1>1. IInv /\ [Next]_vars =>
        [(page.at = "tenants" /\ page'.at = "tenants" /\ page.credentials # None)
            => \/ page'.credentials = page.credentials
               \/ CloseCredentials]_vars
  BY StepKeepsCredentials
<1> QED
  BY <1>1, SpecIInv, PTL DEF Spec, CredentialsStayUntilDone
=============================================================================
