-------------------------- MODULE TenantPagesProofs --------------------------
(***************************************************************************)
(* Proofs about TenantPages for any number of RFQs, products, writes and   *)
(* fetches.  Whatever is answered in between, it is the newest fetch that  *)
(* has the last word: answered earlier, it makes the others late; answered *)
(* last, it is what stays on display (GoodLast).                           *)
(***************************************************************************)
EXTENDS TenantPages, SequenceTheorems, TLAPS

\* The key of a page, and what a call was sent with.
KeysInOrder ==
  /\ page.at = "rfq" => page.key \in Rfqs
  /\ IsList => page.key \in Query

Ordered(k) ==
  /\ k.op \in Answers => k.id \in Rfqs /\ (k.pc = "done" => k.id \notin open)
  /\ k.op \notin Answers => k.id \in Products
  /\ k.heard => k.pc # "lost"
  /\ k.op = "toggle" /\ k.heard =>
       page.at = "catalog" /\ page.shown # None /\ k.previous # None
  /\ k.op \in Saves /\ k.heard => page.at = "product"
  /\ k.previous # None => k.op = "toggle" /\ k.heard

CallsInOrder ==
  \A c \in Calls :
    call[c] # None =>
      /\ Ordered(call[c])
      /\ call[c].alone => \A e \in Calls : call[e] # None => e = c

\* An RFQ that was answered is not NEW any more.
AnsweredAreClosed == answered \cap open = {}

\* The list will be loaded once more, because a product was deleted.
Announced ==
  \E c \in Calls : /\ call[c] # None /\ call[c].op = "delete"
                   /\ call[c].heard /\ call[c].pc = "done"

\* A switch has moved, and the server does not know yet.
Switched(c) ==
  /\ call[c] # None /\ call[c].op = "toggle"
  /\ call[c].heard /\ call[c].pc = "sent"

InDoubt(p) == \E c \in Calls : Switched(c) /\ call[c].id = p

\* What the newest fetch brings is good for this page, or known to be late.
LastGet == gets[Len(gets)]

GoodLast ==
  gets # <<>> =>
    \/ LastGet.late
    \/ /\ LastGet.key = page.key
       /\ page.at = "catalog" /\ LastGet.read =>
            \/ Announced
            \/ /\ LastGet.rows \subseteq Matching(page.key.filter)
               /\ LastGet.data = active \cap LastGet.rows
       /\ page.at = "rfq" => LastGet.data \cap answered = {}

\* A list that is right but for the switches of some products.
RightBut(s, some) ==
  /\ s.rows \subseteq stock /\ s.data \subseteq s.rows
  /\ s.rows \ s.moved \subseteq Matching(page.key.filter)
  /\ \A p \in s.rows \ some : p \in s.data <=> p \in active

\* What is on display when none is under way is good.
GoodRest ==
  gets = <<>> /\ ~amiss =>
    /\ page.key # None /\ ~Announced =>
         /\ page.shown # None /\ page.shown.key = page.key
         /\ page.at = "catalog" => RightBut(page.shown, {p \in Products : InDoubt(p)})
    /\ page.at = "rfq" /\ ~page.loading /\ page.shown # None =>
         page.shown.data \cap answered = {}

\* A switch in doubt shows what was written last, and counts as moved.
GoodSwitches ==
  gets = <<>> /\ ~amiss /\ page.key # None =>
    \A c \in Calls :
      Switched(c) =>
        \/ call[c].order = "overtaken"
        \/ /\ call[c].order = "last" /\ call[c].id \in page.shown.moved
           /\ call[c].id \in page.shown.data <=> call[c].on
        \/ /\ call[c].order = "earlier"
           /\ \E d \in Calls : /\ Switched(d) /\ call[d].id = call[c].id
                               /\ call[d].order = "last"

\* What a switch that fails alone goes back to is good, too.
GoodPrevious ==
  \A c \in Calls :
    (/\ call[c] # None /\ call[c].alone /\ call[c].pc = "sent"
     /\ call[c].previous # None
     /\ gets = <<>> /\ ~amiss /\ page.key # None) =>
       call[c].previous.key = page.key /\ RightBut(call[c].previous, {})

News == GoodLast /\ GoodRest /\ GoodSwitches /\ GoodPrevious

IInv == TypeOK /\ KeysInOrder /\ CallsInOrder /\ AnsweredAreClosed /\ News

-----------------------------------------------------------------------------
(* Lists of fetches.                                                       *)

LEMMA RemoveAtFacts ==
  ASSUME NEW S, NEW s \in Seq(S), NEW i \in 1 .. Len(s)
  PROVE  /\ RemoveAt(s, i) \in Seq(S)
         /\ Len(RemoveAt(s, i)) = Len(s) - 1
         /\ \A j \in 1 .. Len(s) - 1 :
              RemoveAt(s, i)[j] = IF j < i THEN s[j] ELSE s[j + 1]
<1>1. Len(s) \in Nat /\ \A j \in 1 .. Len(s) : s[j] \in S
  BY LenProperties, ElementOfSeq
<1> DEFINE front == SubSeq(s, 1, i - 1)
           rest == SubSeq(s, i + 1, Len(s))
<1>2. /\ front \in Seq(S) /\ Len(front) = i - 1
      /\ \A j \in 1 .. i - 1 : front[j] = s[j]
  BY <1>1, SubSeqProperties
<1>3. /\ rest \in Seq(S) /\ Len(rest) = Len(s) - i
      /\ \A j \in 1 .. Len(s) - i : rest[j] = s[i + j]
  BY <1>1, SubSeqProperties
<1> HIDE DEF front, rest
<1>4. RemoveAt(s, i) = front \o rest
  BY DEF RemoveAt, front, rest
<1>5. /\ front \o rest \in Seq(S) /\ Len(front \o rest) = Len(s) - 1
      /\ \A j \in 1 .. Len(s) - 1 :
           (front \o rest)[j] = IF j <= i - 1 THEN front[j] ELSE rest[j - (i - 1)]
  <2>1. Len(front) + Len(rest) = Len(s) - 1
    BY <1>1, <1>2, <1>3
  <2>2. /\ front \o rest \in Seq(S) /\ Len(front \o rest) = Len(front) + Len(rest)
        /\ \A j \in 1 .. Len(front) + Len(rest) :
             (front \o rest)[j] =
               IF j <= Len(front) THEN front[j] ELSE rest[j - Len(front)]
    BY <1>2, <1>3, ConcatProperties
  <2> QED
    BY <1>2, <2>1, <2>2
<1>6. ASSUME NEW j \in 1 .. Len(s) - 1
      PROVE  (front \o rest)[j] = IF j < i THEN s[j] ELSE s[j + 1]
  <2>1. CASE j < i
    BY <1>1, <1>2, <1>5, <2>1
  <2>2. CASE ~(j < i)
    <3>1. j - (i - 1) \in 1 .. Len(s) - i /\ i + (j - (i - 1)) = j + 1
      BY <1>1, <2>2
    <3> QED
      BY <1>1, <1>3, <1>5, <2>2, <3>1
  <2> QED
    BY <2>1, <2>2
<1> QED
  BY <1>4, <1>5, <1>6

\* A list with the length of another.
LEMMA MapFacts ==
  ASSUME NEW s \in Seq(Get), NEW t, t = [i \in DOMAIN s |-> t[i]],
         \A i \in DOMAIN s : t[i] \in Get
  PROVE  t \in Seq(Get) /\ Len(t) = Len(s)
<1>1. Len(s) \in Nat /\ DOMAIN s = 1 .. Len(s)
  BY LenProperties
<1>2. t \in [1 .. Len(s) -> Get]
  BY <1>1
<1> QED
  BY <1>1, <1>2

LEMMA GetsFacts ==
  ASSUME TypeOK
  PROVE  /\ gets \in Seq(Get) /\ Len(gets) \in Nat /\ DOMAIN gets = 1 .. Len(gets)
         /\ \A i \in DOMAIN gets : gets[i] \in Get
         /\ gets # <<>> => Len(gets) \in 1 .. Len(gets) /\ LastGet \in Get
<1>1. gets \in Seq(Get)
  BY DEF TypeOK
<1>2. /\ Len(gets) \in Nat /\ DOMAIN gets = 1 .. Len(gets)
      /\ \A i \in DOMAIN gets : gets[i] \in Get
  BY <1>1, LenProperties, ElementOfSeq
<1>3. gets # <<>> => Len(gets) \in Nat \ {0}
  BY <1>1, EmptySeq
<1>4. gets # <<>> => Len(gets) \in 1 .. Len(gets)
  BY <1>2, <1>3
<1> QED
  BY <1>1, <1>2, <1>4 DEF LastGet

\* The newest fetch asks for what the page shows, or is known to be late.
LEMMA AppendNews ==
  ASSUME NEW gs \in Seq(Get), NEW x \in Get, gets' = Append(gs, x),
         x.late \/ (x.key = page'.key /\ x.read = FALSE /\ x.data = {})
  PROVE  gets' \in Seq(Get) /\ News'
<1>1. Len(gs) \in Nat
  BY LenProperties
<1>2. /\ gets' \in Seq(Get) /\ gets' # <<>>
      /\ Len(gets') = Len(gs) + 1 /\ gets'[Len(gs) + 1] = x
  BY AppendProperties
<1>3. LastGet' = x
  BY <1>2 DEF LastGet
<1>4. GoodLast'
  BY <1>3 DEF GoodLast
<1>5. GoodRest' /\ GoodSwitches' /\ GoodPrevious'
  BY <1>2 DEF GoodRest, GoodSwitches, GoodPrevious
<1> QED
  BY <1>2, <1>4, <1>5 DEF News

LEMMA AskFacts ==
  ASSUME NEW key \in Key
  PROVE  /\ Ask(key) \in Get /\ Ask(key).key = key /\ Ask(key).data = {}
         /\ Ask(key).read = FALSE
         /\ [Ask(key) EXCEPT !.late = TRUE] \in Get
         /\ [Ask(key) EXCEPT !.late = TRUE].late
BY DEF Ask, Get, Data, Rows

\* What has been read was read too soon.
LEMMA UnnoticedFacts ==
  ASSUME TypeOK, NEW gs \in Seq(Get), NEW stale \in BOOLEAN, Unnoticed(gs, stale)
  PROVE  /\ gets' \in Seq(Get) /\ Len(gets') = Len(gs) /\ DOMAIN gets' = DOMAIN gs
         /\ amiss' \in BOOLEAN /\ amiss' = (amiss \/ stale)
         /\ \A i \in DOMAIN gs :
              /\ gets'[i].key = gs[i].key /\ gets'[i].data = gs[i].data
              /\ gets'[i].read = gs[i].read /\ gets'[i].rows = gs[i].rows
              /\ gets'[i].late <=> gs[i].late \/ gs[i].read
<1>1. Len(gs) \in Nat /\ DOMAIN gs = 1 .. Len(gs)
      /\ \A i \in 1 .. Len(gs) : gs[i] \in Get
  BY LenProperties, ElementOfSeq
<1>2. /\ DOMAIN gets' = DOMAIN gs
      /\ \A i \in DOMAIN gs : gets'[i] = [gs[i] EXCEPT !.late = @ \/ gs[i].read]
      /\ amiss' = (amiss \/ stale)
  BY DEF Unnoticed
<1>3. gets' = [i \in DOMAIN gs |-> gets'[i]]
  BY <1>2 DEF Unnoticed
<1>4. \A i \in DOMAIN gs :
        /\ gets'[i] \in Get /\ gets'[i].key = gs[i].key
        /\ gets'[i].data = gs[i].data /\ gets'[i].read = gs[i].read
        /\ gets'[i].rows = gs[i].rows
  <2> SUFFICES ASSUME NEW i \in DOMAIN gs
               PROVE  /\ gets'[i] \in Get /\ gets'[i].key = gs[i].key
                      /\ gets'[i].data = gs[i].data /\ gets'[i].read = gs[i].read
                      /\ gets'[i].rows = gs[i].rows
    OBVIOUS
  <2>1. gs[i] \in Get
    BY <1>1
  <2>2. PICK late \in BOOLEAN : gets'[i] = [gs[i] EXCEPT !.late = late]
    BY <1>2
  <2> QED
    BY <2>1, <2>2 DEF Get
<1>5. gets' \in Seq(Get) /\ Len(gets') = Len(gs)
  BY <1>3, <1>4, MapFacts
<1>6. \A i \in DOMAIN gs : gets'[i].late <=> gs[i].late \/ gs[i].read
  BY <1>1, <1>2 DEF Get
<1> QED
  BY <1>2, <1>4, <1>5, <1>6 DEF TypeOK

\* load() of a handler: news for the page it was sent from, else late.
LEMMA LoadWithStep ==
  ASSUME TypeOK, NEW key \in Key, LoadWith(key), page'.key = page.key
  PROVE  gets' \in Seq(Get) /\ amiss' \in BOOLEAN /\ News'
<1>1. CASE key = page.key
  <2>1. gets' = Append(gets, Ask(key)) /\ UNCHANGED amiss
    BY <1>1 DEF LoadWith
  <2> QED
    BY <1>1, <2>1, AskFacts, AppendNews DEF TypeOK
<1>2. CASE key # page.key
  <2> DEFINE x == [Ask(key) EXCEPT !.late = TRUE]
             gs == Append(gets, x)
  <2>1. x \in Get /\ x.late
    BY AskFacts
  <2>2. Unnoticed(gs, TRUE)
    BY <1>2 DEF LoadWith
  <2> HIDE DEF x
  <2>3. /\ gs \in Seq(Get) /\ Len(gs) = Len(gets) + 1 /\ gs[Len(gets) + 1] = x
        /\ Len(gets) \in Nat
    BY <2>1, AppendProperties, LenProperties DEF TypeOK
  <2>4. DOMAIN gs = 1 .. Len(gs)
    BY <2>3, LenProperties
  <2> HIDE DEF gs
  <2>5. /\ gets' \in Seq(Get) /\ Len(gets') = Len(gs) /\ DOMAIN gets' = DOMAIN gs
        /\ amiss' \in BOOLEAN /\ amiss' = (amiss \/ TRUE)
        /\ \A i \in DOMAIN gs : gets'[i].late <=> gs[i].late \/ gs[i].read
    BY <2>2, <2>3, UnnoticedFacts
  <2>6. LastGet'.late
    <3>1. Len(gs) \in DOMAIN gs
      BY <2>3, <2>4
    <3> QED
      BY <2>1, <2>3, <2>5, <3>1 DEF LastGet
  <2>7. amiss' = TRUE
    BY <2>5
  <2> QED
    BY <2>5, <2>6, <2>7 DEF News, GoodLast, GoodRest, GoodSwitches, GoodPrevious
<1> QED
  BY <1>1, <1>2

\* One fetch leaves the list: unless it was the newest, the newest stays; and if
\* it was, all others are late.
LEMMA NewestFacts ==
  ASSUME TypeOK, NEW i \in DOMAIN gets, Newest(i)
  PROVE  /\ gets' \in Seq(Get)
         /\ gets' = <<>> => i = Len(gets)
         /\ gets' # <<>> /\ i = Len(gets) => LastGet'.late
         /\ i # Len(gets) =>
              /\ gets' # <<>> /\ gets # <<>>
              /\ LastGet'.key = LastGet.key /\ LastGet'.data = LastGet.data
              /\ LastGet'.read = LastGet.read /\ LastGet'.rows = LastGet.rows
              /\ LastGet'.late <=> LastGet.late
<1> DEFINE s == [j \in DOMAIN gets |-> [gets[j] EXCEPT !.late = @ \/ j < i]]
<1>1. /\ gets \in Seq(Get) /\ Len(gets) \in Nat /\ DOMAIN gets = 1 .. Len(gets)
      /\ \A j \in DOMAIN gets : gets[j] \in Get
  BY GetsFacts
<1>2. /\ DOMAIN s = DOMAIN gets /\ s = [j \in DOMAIN gets |-> s[j]]
      /\ \A j \in DOMAIN gets : s[j] = [gets[j] EXCEPT !.late = @ \/ j < i]
  OBVIOUS
<1>3. gets' = RemoveAt(s, i)
  BY DEF Newest
<1> HIDE DEF s
<1>4. \A j \in DOMAIN gets :
        /\ s[j] \in Get /\ s[j].key = gets[j].key
        /\ s[j].data = gets[j].data /\ s[j].read = gets[j].read
        /\ s[j].rows = gets[j].rows
  <2> SUFFICES ASSUME NEW j \in DOMAIN gets
               PROVE  /\ s[j] \in Get /\ s[j].key = gets[j].key
                      /\ s[j].data = gets[j].data /\ s[j].read = gets[j].read
                      /\ s[j].rows = gets[j].rows
    OBVIOUS
  <2> DEFINE late == gets[j].late \/ j < i
  <2>1. late \in BOOLEAN /\ gets[j] \in Get
    BY <1>1
  <2>2. s[j] = [gets[j] EXCEPT !.late = late]
    BY <1>2
  <2> HIDE DEF late
  <2> QED
    BY <2>1, <2>2 DEF Get
<1>5. s \in Seq(Get) /\ Len(s) = Len(gets)
  BY <1>1, <1>2, <1>4, MapFacts
<1>6. \A j \in DOMAIN gets : s[j].late <=> gets[j].late \/ j < i
  BY <1>1, <1>2 DEF Get
<1>7. /\ gets' \in Seq(Get) /\ Len(gets') = Len(gets) - 1
      /\ \A j \in 1 .. Len(gets) - 1 : gets'[j] = IF j < i THEN s[j] ELSE s[j + 1]
  BY <1>1, <1>3, <1>5, RemoveAtFacts
<1>8. (gets' = <<>> => Len(gets') = 0) /\ (gets' # <<>> => Len(gets') \in Nat \ {0})
  BY <1>7, EmptySeq
<1>9. ASSUME gets' = <<>> PROVE i = Len(gets)
  <2>1. i \in 1 .. Len(gets)
    BY <1>1
  <2>2. PICK n \in Nat : n = Len(gets)
    BY <1>1
  <2>3. n - 1 = 0
    BY <1>7, <1>8, <1>9, <2>2
  <2>4. n = 1 /\ i \in 1 .. n
    BY <2>1, <2>2, <2>3
  <2> QED
    BY <2>2, <2>4
<1>10. ASSUME gets' # <<>>, i = Len(gets) PROVE LastGet'.late
  <2>1. /\ Len(gets) - 1 \in 1 .. Len(gets) - 1 /\ Len(gets) - 1 < i
        /\ Len(gets) - 1 \in DOMAIN gets
    BY <1>1, <1>7, <1>8, <1>10
  <2> QED
    BY <1>6, <1>7, <2>1 DEF LastGet
<1>11. ASSUME i # Len(gets)
       PROVE  /\ gets' # <<>> /\ gets # <<>>
              /\ LastGet'.key = LastGet.key /\ LastGet'.data = LastGet.data
              /\ LastGet'.read = LastGet.read /\ LastGet'.rows = LastGet.rows
              /\ LastGet'.late <=> LastGet.late
  <2>1. /\ Len(gets) - 1 \in 1 .. Len(gets) - 1 /\ ~(Len(gets) - 1 < i)
        /\ (Len(gets) - 1) + 1 = Len(gets)
        /\ Len(gets) \in DOMAIN gets /\ ~(Len(gets) < i)
    BY <1>1, <1>11
  <2>2. gets'[Len(gets')] = s[Len(gets)]
    BY <1>7, <2>1
  <2>3. gets # <<>>
    BY <2>1
  <2> QED
    BY <1>4, <1>6, <1>9, <1>11, <2>1, <2>2, <2>3 DEF LastGet
<1> QED
  BY <1>7, <1>9, <1>10, <1>11

-----------------------------------------------------------------------------
(* Where the tenant goes.                                                  *)

\* A page that has just been mounted has asked for what it is to show.
LEMMA FreshFacts ==
  ASSUME NEW at \in {"inbox", "rfq", "catalog", "product", "elsewhere"}, NEW key \in Key
  PROVE  /\ Fresh(at, key) \in Page
         /\ Fresh(at, key).at = at /\ Fresh(at, key).key = key
         /\ Fresh(at, key).shown = None
BY DEF Fresh, Page

LEMMA MountFacts ==
  ASSUME NEW at \in {"inbox", "rfq", "catalog", "product", "elsewhere"}, NEW key \in Key,
         at = "rfq" => key \in Rfqs,
         at \in {"inbox", "catalog"} => key \in Query,
         Mount(at, key)
  PROVE  /\ page' \in Page /\ page'.at = at
         /\ gets' \in Seq(Get) /\ amiss' = FALSE /\ answered' = {}
         /\ KeysInOrder' /\ AnsweredAreClosed' /\ News'
<1>1. /\ page' \in Page /\ page'.at = at /\ page'.key = key /\ page'.shown = None
      /\ amiss' = FALSE /\ answered' = {}
  BY FreshFacts DEF Mount
<1>2. CASE key = None
  <2>1. gets' = <<>>
    BY <1>2 DEF Mount
  <2> QED
    BY <1>1, <1>2, <2>1, EmptySeq
       DEF KeysInOrder, IsList, AnsweredAreClosed, News, GoodLast, GoodRest, GoodSwitches, GoodPrevious
<1>3. CASE key # None
  <2> DEFINE x == Ask(key)
  <2>1. x \in Get /\ x.key = page'.key /\ x.read = FALSE /\ x.data = {}
    BY <1>1, AskFacts
  <2>2. gets' = <<x>>
    BY <1>3 DEF Mount
  <2> HIDE DEF x
  <2>3. <<>> \in Seq(Get) /\ gets' = Append(<<>>, x)
    BY <2>2, EmptySeq
  <2>4. gets' \in Seq(Get) /\ News'
    BY <2>1, <2>3, AppendNews
  <2> QED
    BY <1>1, <2>4 DEF KeysInOrder, IsList, AnsweredAreClosed
<1> QED
  BY <1>2, <1>3

LEMMA DeafenedFacts ==
  ASSUME NEW k \in Call, k.op \notin Answers => k.id \in Products,
         k.op \in Saves => k.previous = None
  PROVE  /\ Deafened(k) \in Call \cup {None}
         /\ Deafened(k) # None =>
              /\ Deafened(k).op \notin Answers /\ Deafened(k).id \in Products
              /\ Deafened(k).heard = FALSE /\ Deafened(k).alone = FALSE
              /\ Deafened(k).previous = None
<1>1. None \in Key /\ k # None
  BY RecordsAssumption DEF Key
<1>2. CASE k.op \in Saves /\ k.pc # "lost"
  <2>1. Deafened(k) = [k EXCEPT !.heard = FALSE, !.key = None, !.alone = FALSE]
    BY <1>1, <1>2 DEF Deafened, Saves, Answers
  <2>2. k.op \notin Answers
    BY <1>2 DEF Saves, Answers
  <2> QED
    BY <1>1, <1>2, <2>1, <2>2 DEF Call
<1>3. CASE /\ ~(k.op \in Saves /\ k.pc # "lost")
           /\ k.op \in Answers \/ (k.op \notin Saves /\ k.pc = "done")
  BY <1>1, <1>3 DEF Deafened, Saves, Answers
<1>4. CASE /\ ~(k.op \in Saves /\ k.pc # "lost")
           /\ ~(k.op \in Answers \/ (k.op \notin Saves /\ k.pc = "done"))
  <2>1. Deafened(k) = Lost(k)
    BY <1>1, <1>4 DEF Deafened, Saves, Answers
  <2> QED
    BY <1>1, <1>4, <2>1 DEF Call, Lost
<1> QED
  BY <1>2, <1>3, <1>4

\* What goes on unheard can neither show nor take back anything.
LEMMA DeafenFacts ==
  ASSUME NEW calls \in [Calls -> Call \cup {None}],
         \A c \in Calls :
           calls[c] # None =>
             /\ call[c] # None
             /\ calls[c].op = call[c].op /\ calls[c].id = call[c].id
             /\ calls[c].previous = call[c].previous,
         CallsInOrder, call' = Deafen(calls)
  PROVE  call' \in [Calls -> Call \cup {None}] /\ CallsInOrder'
<1>1. ASSUME NEW c \in Calls
      PROVE  /\ call'[c] \in Call \cup {None}
             /\ call'[c] # None =>
                  /\ call'[c].op \notin Answers /\ call'[c].id \in Products
                  /\ call'[c].heard = FALSE /\ call'[c].alone = FALSE
                  /\ call'[c].previous = None
  <2>1. call'[c] = Deafened(calls[c])
    BY DEF Deafen
  <2>2. CASE calls[c] = None
    BY <2>1, <2>2 DEF Deafened
  <2>3. CASE calls[c] # None
    <3>1. /\ calls[c] \in Call /\ (calls[c].op \notin Answers => calls[c].id \in Products)
          /\ calls[c].op \in Saves => calls[c].previous = None
      BY <2>3 DEF CallsInOrder, Ordered, Saves
    <3> QED
      BY <2>1, <3>1, DeafenedFacts
  <2> QED
    BY <2>2, <2>3
<1>2. call' \in [Calls -> Call \cup {None}]
  <2>1. call' = [c \in Calls |-> call'[c]]
    BY DEF Deafen
  <2> QED
    BY <1>1, <2>1
<1> QED
  BY <1>1, <1>2 DEF CallsInOrder, Ordered

LEMMA InitIInv == Init => IInv
<1> SUFFICES ASSUME Init PROVE IInv
  OBVIOUS
<1>1. None \in Key
  BY DEF Key
<1>2. page \in Page /\ page.at = "elsewhere" /\ page.key = None /\ page.shown = None
  BY <1>1, FreshFacts DEF Init
<1>3. gets = <<>> /\ gets \in Seq(Get)
  BY EmptySeq DEF Init
<1>4. \A c \in Calls : call[c] = None
  BY DEF Init
<1> QED
  BY <1>2, <1>3, <1>4
     DEF Init, IInv, TypeOK, KeysInOrder, IsList, CallsInOrder, AnsweredAreClosed, News,
         GoodLast, GoodRest, GoodSwitches, GoodPrevious

LEMMA OpenStep ==
  ASSUME IInv, NEW at \in {"inbox", "rfq", "catalog", "product", "elsewhere"},
         NEW key \in Key, at = "rfq" => key \in Rfqs,
         at \in {"inbox", "catalog"} => key \in Query,
         Open(at, key)
  PROVE  IInv'
<1>1. TypeOK /\ CallsInOrder /\ UNCHANGED <<open, stock, active>> /\ Mount(at, key)
      /\ call' = Deafen(call)
  BY DEF IInv, Open, server
<1>2. call' \in [Calls -> Call \cup {None}] /\ CallsInOrder'
  BY <1>1, DeafenFacts DEF TypeOK
<1> QED
  BY <1>1, <1>2, MountFacts DEF IInv, TypeOK

LEMMA NavigateStep ==
  ASSUME IInv, Navigate
  PROVE  IInv'
<1>1. First(All) \in Query /\ First(All) \in Key
  BY TenantPagesAssumption DEF First, Query, Key
<1>2. Rfqs \subseteq Key /\ Products \cup {None} \subseteq Key
  BY DEF Key
<1> QED
  BY <1>1, <1>2, OpenStep DEF Navigate

\* A page that shows something else from now on asks for it.
LEMMA TurnStep ==
  ASSUME IInv, UNCHANGED <<open, stock, active, call, amiss, answered>>,
         page' \in Page, page'.at = page.at, page'.shown = page.shown, KeysInOrder',
         gets' \in Seq(Get), News'
  PROVE  IInv'
BY DEF IInv, TypeOK, CallsInOrder, Ordered, AnsweredAreClosed

LEMMA TurnsStep ==
  ASSUME IInv,
         \/ \E id \in Rfqs \cup Products : Jump(id)
         \/ \E f \in Filters : SetFilter(f)
         \/ \E n \in ListPages : SetPage(n)
  PROVE  IInv'
<1>1. page \in Page /\ gets \in Seq(Get) /\ (IsList => page.key \in Query)
  BY DEF IInv, TypeOK, KeysInOrder
<1>2. Query \subseteq Key /\ Rfqs \cup Products \subseteq Key
  BY DEF Key
<1>3. ASSUME NEW id \in Rfqs \cup Products, Jump(id) PROVE IInv'
  <2>1. /\ page.at \in {"rfq", "product"} /\ (page.at = "rfq" => id \in Rfqs)
        /\ UNCHANGED <<open, stock, active, call, amiss, answered>>
        /\ page' = [page EXCEPT !.key = id, !.loading = page.at = "rfq"]
        /\ gets' = Append(gets, Ask(id))
    BY <1>3 DEF Jump, server
  <2>2. page' \in Page /\ page'.at = page.at /\ page'.key = id /\ page'.shown = page.shown
    BY <1>1, <1>2, <2>1 DEF Page
  <2>3. gets' \in Seq(Get) /\ News'
    BY <1>1, <1>2, <2>1, <2>2, AskFacts, AppendNews
  <2>4. KeysInOrder'
    BY <2>1, <2>2 DEF KeysInOrder, IsList
  <2> QED
    BY <2>1, <2>2, <2>3, <2>4, TurnStep
<1>4. ASSUME NEW f \in Filters, SetFilter(f) PROVE IInv'
  <2> DEFINE late == [Ask([page.key EXCEPT !.filter = f]) EXCEPT !.late = TRUE]
             more == IF page.key.number = 1 THEN <<>> ELSE <<late>>
             gs == gets \o more
  <2>1. /\ IsList /\ UNCHANGED <<open, stock, active, call, amiss, answered>>
        /\ page' = [page EXCEPT !.key = First(f)]
        /\ gets' = gs \o <<Ask(First(f))>>
    BY <1>4 DEF SetFilter, server
  <2>2. /\ First(f) \in Query /\ [page.key EXCEPT !.filter = f] \in Query
    BY TenantPagesAssumption, <1>1, <2>1 DEF First, Query
  <2>3. /\ page' \in Page /\ page'.at = page.at /\ page'.key = First(f)
        /\ page'.shown = page.shown
    BY <1>1, <1>2, <2>1, <2>2 DEF Page
  <2>4. late \in Get
    BY <1>2, <2>2, AskFacts
  <2> HIDE DEF late
  <2>5. more \in Seq(Get)
    BY <2>4, EmptySeq
  <2> HIDE DEF more
  <2>6. gs \in Seq(Get)
    BY <1>1, <2>5, ConcatProperties
  <2> HIDE DEF gs
  <2>7. /\ Ask(First(f)) \in Get /\ Ask(First(f)).key = page'.key
        /\ Ask(First(f)).read = FALSE /\ Ask(First(f)).data = {}
    BY <1>2, <2>2, <2>3, AskFacts
  <2>8. gets' = Append(gs, Ask(First(f)))
    BY <2>1, <2>6, <2>7, AppendIsConcat
  <2>9. gets' \in Seq(Get) /\ News'
    BY <2>6, <2>7, <2>8, AppendNews
  <2>10. KeysInOrder'
    BY <2>1, <2>2, <2>3 DEF KeysInOrder, IsList
  <2> QED
    BY <2>1, <2>3, <2>9, <2>10, TurnStep
<1>5. ASSUME NEW n \in ListPages, SetPage(n) PROVE IInv'
  <2>1. /\ IsList /\ UNCHANGED <<open, stock, active, call, amiss, answered>>
        /\ page' = [page EXCEPT !.key.number = n]
        /\ gets' = Append(gets, Ask([page.key EXCEPT !.number = n]))
    BY <1>5 DEF SetPage, server
  <2> DEFINE key == [page.key EXCEPT !.number = n]
  <2>2. key \in Query
    BY <1>1, <2>1 DEF Query, ListPages
  <2>3. /\ page' \in Page /\ page'.at = page.at /\ page'.key = key
        /\ page'.shown = page.shown
    BY <1>1, <1>2, <2>1, <2>2 DEF Page
  <2> HIDE DEF key
  <2>4. /\ Ask(key) \in Get /\ Ask(key).key = page'.key
        /\ Ask(key).read = FALSE /\ Ask(key).data = {}
    BY <1>2, <2>2, <2>3, AskFacts
  <2>5. gets' \in Seq(Get) /\ News'
    BY <1>1, <2>1, <2>4, AppendNews DEF key
  <2>6. KeysInOrder'
    BY <2>1, <2>2, <2>3 DEF KeysInOrder, IsList
  <2> QED
    BY <2>1, <2>3, <2>5, <2>6, TurnStep
<1> QED
  BY <1>3, <1>4, <1>5

-----------------------------------------------------------------------------
(* What the tenant writes.                                                 *)

\* Nothing is fetched, shown or decided, and no switch is moved.
LEMMA KeepsNews ==
  ASSUME News, UNCHANGED <<stock, active, gets, amiss, answered>>,
         page'.at = page.at, page'.key = page.key, page'.shown = page.shown,
         page'.loading = page.loading,
         Announced => Announced',
         \A c \in Calls : Switched(c)' <=> Switched(c),
         \A c \in Calls :
           Switched(c) => /\ call'[c].id = call[c].id /\ call'[c].on = call[c].on
                          /\ call'[c].order = call[c].order,
         \A c \in Calls :
           (/\ call'[c] # None /\ call'[c].alone /\ call'[c].pc = "sent"
            /\ call'[c].previous # None) =>
             /\ call[c] # None /\ call[c].alone /\ call[c].pc = "sent"
             /\ call'[c].previous = call[c].previous
  PROVE  News'
<1>1. GoodLast'
  BY DEF News, GoodLast, LastGet, Matching
<1>2. \A p \in Products : InDoubt(p)' <=> InDoubt(p)
  BY DEF InDoubt
<1>3. {p \in Products : InDoubt(p)}' = {p \in Products : InDoubt(p)}
  BY <1>2
<1>4. \A s, some : RightBut(s, some)' <=> RightBut(s, some)
  BY DEF RightBut, Matching
<1>5. GoodRest'
  BY <1>3, <1>4 DEF News, GoodRest
<1>6. GoodSwitches'
  BY DEF News, GoodSwitches
<1>7. GoodPrevious'
  BY <1>4 DEF News, GoodPrevious
<1> QED
  BY <1>1, <1>5, <1>6, <1>7 DEF News

\* What a call under way may become when nothing new is sent.
Follows(x, k) ==
  x # None =>
    /\ k # None /\ x \in Call /\ x.op = k.op /\ x.id = k.id
    /\ x.alone => k.alone
    /\ \/ x.heard = k.heard /\ x.previous = k.previous /\ (k.pc # "lost" => x.pc # "lost")
       \/ x.heard = FALSE /\ x.previous = None

LEMMA FollowsFacts ==
  ASSUME NEW k, NEW x, Ordered(k), Follows(x, k), x # None,
         page'.at = page.at, page.shown # None => page'.shown # None,
         x.op \in Answers /\ x.pc = "done" => x.id \notin open'
  PROVE  Ordered(x)'
BY DEF Ordered, Follows

\* All calls under way go on like that.
LEMMA AllFollow ==
  ASSUME CallsInOrder, \A c \in Calls : Follows(call'[c], call[c]),
         page'.at = page.at, page.shown # None => page'.shown # None,
         \A c \in Calls :
           (call'[c] # None /\ call'[c].op \in Answers /\ call'[c].pc = "done") =>
             call'[c].id \notin open'
  PROVE  CallsInOrder'
<1> SUFFICES ASSUME NEW c \in Calls, call'[c] # None
             PROVE  /\ Ordered(call[c])'
                    /\ call'[c].alone => \A e \in Calls : call'[e] # None => e = c
  BY DEF CallsInOrder
<1>1. \A e \in Calls : call'[e] # None => call[e] # None
  BY DEF Follows
<1>2. Ordered(call[c]) /\ Follows(call'[c], call[c])
  BY <1>1 DEF CallsInOrder
<1>3. Ordered(call[c])'
  BY <1>2, FollowsFacts
<1>4. ASSUME call'[c].alone PROVE \A e \in Calls : call'[e] # None => e = c
  <2>1. call[c] # None /\ call[c].alone
    BY <1>2, <1>4 DEF Follows
  <2> QED
    BY <1>1, <2>1 DEF CallsInOrder
<1> QED
  BY <1>3, <1>4

\* What happens to a page leaves the writes of it under way.
Orders == {"last", "earlier", "overtaken"}

StaysUnderWay(x, k, order) ==
  /\ x \in Call /\ x # None /\ Follows(x, k)
  /\ x.op = k.op /\ x.pc = k.pc /\ x.id = k.id /\ x.on = k.on
  /\ x.heard = k.heard /\ x.previous = k.previous /\ x.alone = FALSE
  /\ k.op = "toggle" /\ k.pc = "sent" => x.order = order

LEMMA DisturbedFacts ==
  ASSUME NEW k \in Call, NEW order \in Orders
  PROVE  StaysUnderWay(Disturbed(k, order), k, order)
<1> DEFINE x == Disturbed(k, order)
<1>1. k # None
  BY RecordsAssumption
<1>2. PICK o \in {"last", "earlier", "overtaken"} :
        /\ x = [k EXCEPT !.alone = FALSE, !.order = o]
        /\ k.op = "toggle" /\ k.pc = "sent" => o = order
  <2>1. CASE k.op = "toggle" /\ k.pc = "sent"
    BY <1>1, <2>1 DEF Disturbed, Orders
  <2>2. CASE ~(k.op = "toggle" /\ k.pc = "sent")
    <3>1. x = [k EXCEPT !.alone = FALSE]
      BY <1>1, <2>2 DEF Disturbed
    <3>2. x = [k EXCEPT !.alone = FALSE, !.order = k.order]
      BY <3>1 DEF Call
    <3> QED
      BY <2>2, <3>2 DEF Call
  <2> QED
    BY <2>1, <2>2
<1> HIDE DEF x
<1>3. /\ x \in Call /\ x.op = k.op /\ x.pc = k.pc /\ x.id = k.id
      /\ x.on = k.on /\ x.heard = k.heard /\ x.previous = k.previous
      /\ x.alone = FALSE /\ x.order = o
  BY <1>2 DEF Call
<1>4. x # None
  BY <1>3, RecordsAssumption
<1>5. Follows(x, k)
  BY <1>1, <1>3 DEF Follows
<1>6. StaysUnderWay(x, k, order)
  BY <1>2, <1>3, <1>4, <1>5 DEF StaysUnderWay
<1> QED
  BY <1>6 DEF x

\* A list is as right as it was while the server and the query stay.
LEMMA RightButStays ==
  ASSUME UNCHANGED <<stock, active>>, page'.key = page.key,
         NEW s, NEW some, RightBut(s, some)
  PROVE  RightBut(s, some)'
BY DEF RightBut, Matching

\* The confirmation of a refusal is opened or closed.
LEMMA ConfirmStep ==
  ASSUME IInv, AskDecline \/ CancelDecline
  PROVE  IInv'
<1>1. /\ UNCHANGED <<open, stock, active, gets, call, amiss, answered>> /\ page \in Page
      /\ page.at = "rfq" => page.key \in Rfqs
  BY DEF IInv, TypeOK, AskDecline, CancelDecline, server, KeysInOrder
<1>2. PICK x \in Rfqs \cup {None} : page' = [page EXCEPT !.declining = x]
  BY <1>1 DEF AskDecline, CancelDecline, Offered
<1>3. /\ page' \in Page /\ page'.at = page.at /\ page'.key = page.key
      /\ page'.shown = page.shown /\ page'.loading = page.loading
  BY <1>1, <1>2 DEF Page
<1>4. News'
  BY <1>1, <1>3, KeepsNews DEF IInv, Announced, Switched
<1> QED
  BY <1>1, <1>3, <1>4
     DEF IInv, TypeOK, KeysInOrder, IsList, CallsInOrder, Ordered, AnsweredAreClosed

\* One call more; those under way are not alone any longer.
Sent(c, op, id, on) ==
  /\ call' \in [Calls -> Call \cup {None}] /\ CallsInOrder'
  /\ UNCHANGED <<open, stock, active, gets, amiss, answered>>
  /\ call[c] = None /\ call'[c] # None /\ call'[c].op = op /\ call'[c].pc = "sent"
  /\ call'[c].id = id /\ call'[c].heard /\ call'[c].on = on
  /\ call'[c].order = "last"
  /\ call'[c].previous = IF op = "toggle" THEN page.shown ELSE None
  /\ call'[c].alone => Pending = {}
  /\ \A e \in Calls \ {c} : call'[e] # None => call'[e].alone = FALSE
  /\ Announced => Announced'
  /\ \A e \in Calls \ {c} :
       /\ Switched(e)' <=> Switched(e)
       /\ Switched(e) =>
            /\ call'[e].id = call[e].id /\ call'[e].on = call[e].on
            /\ call'[e].order = IF op = "toggle" /\ call[e].id = id /\ call[e].order = "last"
                                THEN "earlier" ELSE call[e].order

LEMMA SendFacts ==
  ASSUME IInv, NEW c \in Calls, NEW id \in Rfqs \cup Products, NEW on \in BOOLEAN,
         NEW op \in {"respond", "decline", "toggle", "delete", "save", "create"},
         op \in Answers => id \in Rfqs,
         op \notin Answers => id \in Products,
         op = "toggle" => page.at = "catalog" /\ page.shown # None,
         op \in Saves => page.at = "product",
         page'.at = page.at, page.shown # None => page'.shown # None,
         Send(c, op, id, on)
  PROVE  Sent(c, op, id, on)
<1> DEFINE turn(k) == IF op = "toggle" /\ k.id = id /\ k.order = "last"
                       THEN "earlier" ELSE k.order
           x == [op |-> op, pc |-> "sent", id |-> id, on |-> on,
                 key |-> IF op = "delete" THEN page.key ELSE None,
                 alone |-> Pending = {}, order |-> "last",
                 previous |-> IF op = "toggle" THEN page.shown ELSE None,
                 heard |-> TRUE]
           t == [e \in Calls |-> Disturbed(call[e], turn(call[e]))]
<1>1. /\ TypeOK /\ call[c] = None
      /\ UNCHANGED <<open, stock, active, gets, amiss, answered>>
      /\ call' = [d \in Calls |-> IF d = c THEN x ELSE Disturbed(call[d], turn(call[d]))]
  BY DEF IInv, Send, server
<1>2. /\ x \in Call /\ x.op = op /\ x.pc = "sent" /\ x.id = id /\ x.heard = TRUE
      /\ x.on = on /\ x.order = "last"
      /\ x.previous = IF op = "toggle" THEN page.shown ELSE None
      /\ x.alone = (Pending = {})
  BY <1>1 DEF TypeOK, Page, Call, Key
<1> HIDE DEF x
<1>7. ASSUME NEW e \in Calls
      PROVE  /\ t[e] \in Call \cup {None}
             /\ t[e] # None <=> call[e] # None
             /\ Follows(t[e], call[e])
             /\ call[e] # None =>
                  /\ t[e].op = call[e].op /\ t[e].pc = call[e].pc
                  /\ t[e].id = call[e].id /\ t[e].on = call[e].on
                  /\ t[e].heard = call[e].heard /\ t[e].previous = call[e].previous
                  /\ t[e].alone = FALSE
                  /\ call[e].op = "toggle" /\ call[e].pc = "sent" =>
                       t[e].order = IF op = "toggle" /\ call[e].id = id
                                         /\ call[e].order = "last"
                                    THEN "earlier" ELSE call[e].order
  <2>1. t[e] = Disturbed(call[e], turn(call[e]))
    OBVIOUS
  <2> HIDE DEF t
  <2>2. CASE call[e] = None
    BY <2>1, <2>2 DEF Disturbed, Follows
  <2>3. CASE call[e] # None
    <3>1. call[e] \in Call
      BY <1>1, <2>3 DEF TypeOK
    <3>2. PICK o \in Orders :
            /\ t[e] = Disturbed(call[e], o)
            /\ o = IF op = "toggle" /\ call[e].id = id /\ call[e].order = "last"
                   THEN "earlier" ELSE call[e].order
      <4>1. call[e].order \in Orders /\ "earlier" \in Orders
        BY <3>1 DEF Call, Orders
      <4> QED
        BY <2>1, <4>1
    <3> HIDE DEF turn
    <3>3. StaysUnderWay(t[e], call[e], o)
      BY <3>1, <3>2, DisturbedFacts
    <3> QED
      BY <2>3, <3>2, <3>3 DEF StaysUnderWay
  <2> QED
    BY <2>2, <2>3
<1>8. t = [e \in Calls |-> t[e]] /\ \A e \in Calls \ {c} : call'[e] = t[e]
  BY <1>1
<1>6. call' = [e \in Calls |-> IF e = c THEN x ELSE t[e]]
  BY <1>1
<1> HIDE DEF t, turn
<1>9. call'[c] = x /\ \A e \in Calls \ {c} : call'[e] = t[e]
  BY <1>6
<1>10. call' \in [Calls -> Call \cup {None}]
  BY <1>2, <1>6, <1>7
<1>11. x # None
  BY <1>2, RecordsAssumption
<1>12. x.alone => \A e \in Calls : call[e] = None
  BY <1>2 DEF Pending
<1>13. CallsInOrder'
  <2> SUFFICES ASSUME NEW e \in Calls, call'[e] # None
               PROVE  /\ Ordered(call[e])'
                      /\ call'[e].alone => \A f \in Calls : call'[f] # None => f = e
    BY DEF CallsInOrder
  <2>1. CASE e = c
    <3>1. Ordered(call[e])'
      BY <1>2, <1>9, <2>1 DEF Ordered, Answers, Saves
    <3> QED
      BY <1>2, <1>9, <1>7, <1>12, <2>1, <3>1
  <2>2. CASE e # c
    <3>1. /\ call'[e].alone = FALSE /\ call[e] # None /\ Follows(call'[e], call[e])
          /\ call'[e].op = call[e].op /\ call'[e].pc = call[e].pc
          /\ call'[e].id = call[e].id
      BY <1>7, <1>9, <2>2
    <3>2. Ordered(call[e]) /\ open' = open
      BY <1>1, <3>1 DEF IInv, CallsInOrder
    <3>3. call'[e].op \in Answers /\ call'[e].pc = "done" => call'[e].id \notin open'
      BY <3>1, <3>2 DEF Ordered
    <3>4. Ordered(call[e])'
      BY <3>1, <3>2, <3>3, FollowsFacts
    <3> QED
      BY <3>1, <3>4
  <2> QED
    BY <2>1, <2>2
<1>14. Announced => Announced'
  BY <1>1, <1>7, <1>9 DEF Announced
<1>15. ASSUME NEW e \in Calls \ {c}
       PROVE  /\ Switched(e)' <=> Switched(e)
              /\ Switched(e) =>
                   /\ call'[e].id = call[e].id /\ call'[e].on = call[e].on
                   /\ call'[e].order =
                        IF op = "toggle" /\ call[e].id = id /\ call[e].order = "last"
                        THEN "earlier" ELSE call[e].order
  BY <1>7, <1>9 DEF Switched
<1> QED
  BY <1>1, <1>2, <1>7, <1>9, <1>10, <1>11, <1>13, <1>14, <1>15 DEF Sent

\* Everything but the switch leaves on display what is there.
LEMMA SendStep ==
  ASSUME IInv, NEW c \in Calls, NEW id \in Rfqs \cup Products, NEW on \in BOOLEAN,
         NEW op \in {"respond", "decline", "delete", "save", "create"},
         op \in Answers => id \in Rfqs,
         op \notin Answers => id \in Products,
         op \in Saves => page.at = "product",
         page' \in Page, page'.at = page.at, page'.key = page.key,
         page'.shown = page.shown, page'.loading = page.loading,
         Send(c, op, id, on)
  PROVE  IInv'
<1>1. /\ call' \in [Calls -> Call \cup {None}] /\ CallsInOrder'
      /\ UNCHANGED <<open, stock, active, gets, amiss, answered>>
      /\ call[c] = None /\ call'[c] # None /\ call'[c].op # "toggle"
      /\ call'[c].previous = None
      /\ \A e \in Calls \ {c} : call'[e] # None => call'[e].alone = FALSE
      /\ Announced => Announced'
      /\ \A e \in Calls \ {c} :
           /\ Switched(e)' <=> Switched(e)
           /\ Switched(e) => /\ call'[e].id = call[e].id /\ call'[e].on = call[e].on
                             /\ call'[e].order = call[e].order
  <2>1. /\ op \in {"respond", "decline", "toggle", "delete", "save", "create"}
        /\ op # "toggle" /\ (page.shown # None => page'.shown # None)
    OBVIOUS
  <2>2. op = "toggle" => page.at = "catalog" /\ page.shown # None
    BY <2>1
  <2>3. Sent(c, op, id, on)
    BY <2>1, <2>2, SendFacts
  <2> QED
    BY <2>1, <2>3 DEF Sent
<1>2. \A e \in Calls : Switched(e)' <=> Switched(e)
  BY <1>1 DEF Switched
<1>3. \A e \in Calls :
        Switched(e) => /\ call'[e].id = call[e].id /\ call'[e].on = call[e].on
                       /\ call'[e].order = call[e].order
  BY <1>1 DEF Switched
<1>4. News'
  BY <1>1, <1>2, <1>3, KeepsNews DEF IInv
<1> QED
  BY <1>1, <1>4 DEF IInv, TypeOK, KeysInOrder, IsList, AnsweredAreClosed

LEMMA SendsStep ==
  ASSUME IInv, NEW c \in Calls,
         \/ Respond(c) \/ Decline(c)
         \/ \E p \in Products : Delete(c, p) \/ SaveProduct(c, p)
  PROVE  IInv'
<1>1. /\ page \in Page /\ page.declining \in Rfqs \cup {None}
      /\ page.at = "rfq" => page.key \in Rfqs
  BY DEF IInv, TypeOK, KeysInOrder, Page
<1>2. CASE Respond(c)
  BY <1>1, <1>2, SendStep DEF Respond, Offered, Answers, Saves
<1>3. CASE Decline(c)
  <2>1. /\ page' = [page EXCEPT !.declining = None] /\ page.declining \in Rfqs
        /\ Send(c, "decline", page.declining, FALSE)
    BY <1>1, <1>3 DEF Decline
  <2>2. /\ page' \in Page /\ page'.at = page.at /\ page'.key = page.key
        /\ page'.shown = page.shown /\ page'.loading = page.loading
    BY <1>1, <2>1 DEF Page
  <2> QED
    BY <2>1, <2>2, SendStep DEF Answers, Saves
<1>4. ASSUME NEW p \in Products, Delete(c, p) PROVE IInv'
  BY <1>1, <1>4, SendStep DEF Delete, Answers, Saves
<1>5. ASSUME NEW p \in Products, SaveProduct(c, p) PROVE IInv'
  <2>1. PICK on \in BOOLEAN :
          Send(c, IF page.key = None THEN "create" ELSE "save", p, on)
    BY <1>5 DEF SaveProduct
  <2>2. PICK op \in {"save", "create"} : Send(c, op, p, on)
    BY <2>1
  <2>3. page.at = "product" /\ UNCHANGED page
    BY <1>5 DEF SaveProduct
  <2>4. op \notin Answers
    BY DEF Answers
  <2> QED
    BY <1>1, <2>2, <2>3, <2>4, SendStep
<1> QED
  BY <1>2, <1>3, <1>4, <1>5

\* The switch moves before the server knows.
LEMMA ToggleActiveStep ==
  ASSUME IInv, NEW c \in Calls, NEW p \in Products, ToggleActive(c, p)
  PROVE  IInv'
<1>1. /\ TypeOK /\ page \in Page /\ page.at = "catalog" /\ page.shown # None
      /\ page.shown \in Shown /\ active \subseteq Products /\ p \in page.shown.rows
  BY DEF IInv, TypeOK, ToggleActive, Page
<1>2. PICK on \in BOOLEAN :
        /\ page' = [page EXCEPT !.shown.data = Flip(@, p, on), !.shown.moved = @ \cup {p}]
        /\ Send(c, "toggle", p, on)
  BY DEF ToggleActive
<1>3. PICK s \in Shown :
        /\ page' = [page EXCEPT !.shown = s] /\ s.key = page.shown.key
        /\ s.rows = page.shown.rows /\ s.moved = page.shown.moved \cup {p}
        /\ s.data \subseteq page.shown.data \cup {p} /\ (p \in s.data <=> on)
        /\ \A q : q # p => (q \in s.data <=> q \in page.shown.data)
  <2> DEFINE s == [page.shown EXCEPT !.data = Flip(@, p, on), !.moved = @ \cup {p}]
  <2>1. /\ s \in Shown /\ s.key = page.shown.key /\ s.rows = page.shown.rows
        /\ s.moved = page.shown.moved \cup {p}
        /\ s.data = Flip(page.shown.data, p, on)
    BY <1>1 DEF Shown, Data, Rows, Flip
  <2>2. page' = [page EXCEPT !.shown = s]
    BY <1>1, <1>2 DEF Page, Shown
  <2> HIDE DEF s
  <2>3. /\ s.data \subseteq page.shown.data \cup {p} /\ (p \in s.data <=> on)
        /\ \A q : q # p => (q \in s.data <=> q \in page.shown.data)
    BY <2>1 DEF Flip
  <2> QED
    BY <2>1, <2>2, <2>3
<1>4. /\ page' \in Page /\ page'.at = page.at /\ page'.key = page.key
      /\ page'.shown = s /\ page'.loading = page.loading
  BY <1>1, <1>2, <1>3 DEF Page
<1>5. s # None
  BY <1>3, RecordsAssumption
<1>6. /\ call' \in [Calls -> Call \cup {None}] /\ CallsInOrder'
      /\ UNCHANGED <<open, stock, active, gets, amiss, answered>>
      /\ call[c] = None /\ Switched(c)' /\ call'[c].id = p /\ call'[c].on = on
      /\ call'[c].order = "last"
      /\ call'[c].previous = page.shown
      /\ call'[c].alone => Pending = {}
      /\ \A e \in Calls \ {c} : call'[e] # None => call'[e].alone = FALSE
      /\ Announced => Announced'
      /\ \A e \in Calls \ {c} :
           /\ Switched(e)' <=> Switched(e)
           /\ Switched(e) =>
                /\ call'[e].id = call[e].id /\ call'[e].on = call[e].on
                /\ call'[e].order = IF call[e].id = p /\ call[e].order = "last"
                                    THEN "earlier" ELSE call[e].order
  <2>1. PICK op \in {"respond", "decline", "toggle", "delete", "save", "create"} :
          op = "toggle"
    OBVIOUS
  <2>2. p \in Rfqs \cup Products /\ Send(c, op, p, on)
    BY <1>2, <2>1
  <2>3. (op \in Answers => p \in Rfqs) /\ (op \in Saves => page.at = "product")
    BY <2>1 DEF Answers, Saves
  <2>4. op = "toggle" => page.at = "catalog" /\ page.shown # None
    BY <1>1
  <2>5. page'.at = page.at /\ (page.shown # None => page'.shown # None)
    BY <1>4, <1>5
  <2>6. Sent(c, op, p, on)
    BY <2>2, <2>3, <2>4, <2>5, SendFacts
  <2>7. Switched(c)'
    BY <2>1, <2>6 DEF Sent, Switched
  <2> QED
    BY <2>1, <2>6, <2>7 DEF Sent
<1>7. /\ InDoubt(p)' /\ \A q \in Products : InDoubt(q) => InDoubt(q)'
  <2>1. ~Switched(c)
    BY <1>6 DEF Switched
  <2> QED
    BY <1>6, <2>1 DEF InDoubt
<1>8. GoodLast'
  BY <1>4, <1>6 DEF IInv, News, GoodLast, LastGet, Matching
<1>9. GoodRest'
  <2> DEFINE some == {q \in Products : InDoubt(q)}
  <2> SUFFICES ASSUME gets = <<>>, ~amiss, page.key # None, ~Announced'
               PROVE  /\ page'.shown # None /\ page'.shown.key = page'.key
                      /\ RightBut(page.shown, some)'
    BY <1>1, <1>4, <1>6 DEF GoodRest
  <2>1. page.shown.key = page.key /\ RightBut(page.shown, some)
    BY <1>1, <1>6 DEF IInv, News, GoodRest
  <2>2. some \cup {p} \subseteq some'
    BY <1>7
  <2> HIDE DEF some
  <2>3. RightBut(page.shown, some)'
    BY <1>1, <1>3, <1>4, <1>6, <2>1, <2>2 DEF RightBut, Matching
  <2> QED
    BY <1>3, <1>4, <1>5, <2>1, <2>3
<1>10. GoodSwitches'
  <2> SUFFICES ASSUME gets = <<>>, ~amiss, page.key # None,
                      NEW e \in Calls, Switched(e)'
               PROVE  \/ call'[e].order = "overtaken"
                      \/ /\ call'[e].order = "last" /\ call'[e].id \in s.moved
                         /\ call'[e].id \in s.data <=> call'[e].on
                      \/ /\ call'[e].order = "earlier"
                         /\ \E d \in Calls : /\ Switched(d)' /\ call'[d].id = call'[e].id
                                             /\ call'[d].order = "last"
    BY <1>4, <1>6 DEF GoodSwitches
  <2>1. CASE e = c
    BY <1>3, <1>6, <2>1
  <2>2. CASE e # c
    <3>1. /\ Switched(e) /\ call'[e].id = call[e].id /\ call'[e].on = call[e].on
          /\ call'[e].order = IF call[e].id = p /\ call[e].order = "last"
                              THEN "earlier" ELSE call[e].order
      BY <1>6, <2>2
    <3>2. \/ call[e].order = "overtaken"
          \/ /\ call[e].order = "last" /\ call[e].id \in page.shown.moved
             /\ call[e].id \in page.shown.data <=> call[e].on
          \/ /\ call[e].order = "earlier"
             /\ \E d \in Calls : /\ Switched(d) /\ call[d].id = call[e].id
                                 /\ call[d].order = "last"
      BY <3>1 DEF IInv, News, GoodSwitches
    <3>3. CASE call[e].id = p
      BY <1>6, <3>1, <3>2, <3>3
    <3>4. CASE call[e].id # p
      <4>1. ASSUME NEW d \in Calls, Switched(d), call[d].id = call[e].id,
                   call[d].order = "last"
            PROVE  Switched(d)' /\ call'[d].id = call'[e].id /\ call'[d].order = "last"
        <5>1. d # c
          BY <1>6, <4>1 DEF Switched
        <5> QED
          BY <1>6, <3>1, <3>4, <4>1, <5>1
      <4> QED
        BY <1>3, <3>1, <3>2, <3>4, <4>1
    <3> QED
      BY <3>3, <3>4
  <2> QED
    BY <2>1, <2>2
<1>11. GoodPrevious'
  <2>1. PICK old : old = page.shown
    OBVIOUS
  <2> SUFFICES ASSUME call'[c].alone, gets = <<>>, ~amiss, page.key # None
               PROVE  old.key = page.key /\ RightBut(old, {})'
    BY <1>4, <1>6, <2>1 DEF GoodPrevious
  <2>2. Pending = {}
    BY <1>6
  <2>3. ~Announced /\ {q \in Products : InDoubt(q)} = {}
    BY <2>2 DEF Pending, Announced, InDoubt, Switched
  <2>4. page.shown.key = page.key /\ RightBut(page.shown, {})
    BY <1>1, <2>3 DEF IInv, News, GoodRest
  <2> QED
    BY <1>4, <1>6, <2>1, <2>4, RightButStays
<1> QED
  BY <1>1, <1>4, <1>6, <1>8, <1>9, <1>10, <1>11
     DEF IInv, TypeOK, KeysInOrder, IsList, AnsweredAreClosed, News

-----------------------------------------------------------------------------
(* Fetches.                                                                *)

\* A fetch is answered with what the server has: products that match the filter
\* and those of them that are active, or an RFQ that is NEW and so not answered.
LEMMA ReadRowsStep ==
  ASSUME IInv, NEW i \in DOMAIN gets, ReadRows(i)
  PROVE  IInv'
<1>1. /\ TypeOK /\ UNCHANGED <<open, stock, active, page, call, amiss, answered>>
      /\ stock \subseteq Products /\ active \subseteq stock
  BY DEF IInv, TypeOK, ReadRows, server
<1>2. /\ gets \in Seq(Get) /\ Len(gets) \in Nat /\ DOMAIN gets = 1 .. Len(gets)
      /\ \A j \in DOMAIN gets : gets[j] \in Get
      /\ gets # <<>> => Len(gets) \in 1 .. Len(gets)
  BY <1>1, GetsFacts
<1>3. PICK rows \in Listings(gets[i].key) :
        gets' = [gets EXCEPT ![i].read = TRUE, ![i].rows = rows,
                             ![i].data = Answer(gets[i].key, rows)]
  BY DEF ReadRows
<1>4. /\ rows \subseteq Products
      /\ page.at = "catalog" => rows \subseteq Matching(gets[i].key.filter)
  <2>1. Matching(gets[i].key.filter) \subseteq Products
    BY <1>1 DEF Matching
  <2> QED
    BY <2>1 DEF Listings
<1> DEFINE data == Answer(gets[i].key, rows)
           x == [gets[i] EXCEPT !.read = TRUE, !.rows = rows, !.data = data]
<1>5. /\ data \in Data /\ (page.at = "catalog" => data = active \cap rows)
      /\ page.at = "rfq" => data \subseteq open
  BY <1>1 DEF TypeOK, Answer, Data
<1>6. gets' = [gets EXCEPT ![i] = x]
  BY <1>3
<1> HIDE DEF data
<1>7. /\ x \in Get /\ x.key = gets[i].key /\ x.data = data /\ x.rows = rows
      /\ x.late = gets[i].late
  BY <1>2, <1>4, <1>5 DEF Get, Rows
<1> HIDE DEF x
<1>8. /\ gets' \in Seq(Get) /\ Len(gets') = Len(gets) /\ gets'[i] = x
      /\ \A j \in 1 .. Len(gets) : j # i => gets'[j] = gets[j]
      /\ gets # <<>> /\ gets' # <<>>
  <2>1. gets' = [j \in DOMAIN gets |-> IF j = i THEN x ELSE gets[j]]
    BY <1>2, <1>6
  <2>2. gets' \in [1 .. Len(gets) -> Get]
    BY <1>2, <1>7, <2>1
  <2>3. gets' \in Seq(Get) /\ Len(gets') = Len(gets)
    BY <1>2, <2>2
  <2>4. gets # <<>> /\ gets' # <<>>
    BY <1>2, <2>3
  <2> QED
    BY <1>2, <2>1, <2>3, <2>4
<1>9. \A filter : Matching(filter)' = Matching(filter)
  BY <1>1 DEF Matching
<1>10. Announced => Announced'
  BY <1>1 DEF Announced
<1>11. GoodLast'
  <2>1. CASE i = Len(gets)
    <3>1. LastGet' = x /\ LastGet = gets[i]
      BY <1>8, <2>1 DEF LastGet
    <3>2. LastGet.late \/ LastGet.key = page.key
      BY <1>8 DEF IInv, News, GoodLast
    <3>3. page.at = "rfq" => data \cap answered = {}
      BY <1>5 DEF IInv, AnsweredAreClosed
    <3>4. \/ LastGet'.late
          \/ /\ LastGet'.key = page.key
             /\ page.at = "catalog" =>
                  /\ LastGet'.rows \subseteq Matching(page.key.filter)
                  /\ LastGet'.data = active \cap LastGet'.rows
             /\ page.at = "rfq" => LastGet'.data \cap answered = {}
      BY <1>4, <1>5, <1>7, <3>1, <3>2, <3>3
    <3> QED
      BY <1>1, <1>9, <3>4 DEF GoodLast
  <2>2. CASE i # Len(gets)
    <3>1. LastGet' = LastGet
      BY <1>2, <1>8, <2>2 DEF LastGet
    <3> QED
      BY <1>1, <1>8, <1>9, <1>10, <3>1 DEF IInv, News, GoodLast
  <2> QED
    BY <2>1, <2>2
<1>12. GoodRest' /\ GoodSwitches' /\ GoodPrevious'
  BY <1>8 DEF GoodRest, GoodSwitches, GoodPrevious
<1> QED
  BY <1>1, <1>8, <1>11, <1>12
     DEF IInv, TypeOK, KeysInOrder, IsList, CallsInOrder, Ordered, AnsweredAreClosed, News

\* What is answered last and in time is good to rest with.
LEMMA ShowStep ==
  ASSUME IInv, NEW i \in DOMAIN gets, Show(i)
  PROVE  IInv'
<1> DEFINE x == [key |-> gets[i].key, data |-> gets[i].data,
                 rows |-> gets[i].rows, moved |-> {}]
<1>1. /\ TypeOK /\ UNCHANGED <<open, stock, active, answered>> /\ gets[i].read
      /\ page' = [page EXCEPT !.shown = x, !.loading = FALSE]
      /\ Newest(i) /\ amiss' = gets[i].late
      /\ call' = [c \in Calls |-> Disturbed(call[c], "overtaken")]
  BY DEF IInv, Show, server
<1>2. gets[i] \in Get /\ page \in Page /\ amiss' \in BOOLEAN
      /\ call \in [Calls -> Call \cup {None}] /\ active \subseteq stock
  BY <1>1, GetsFacts DEF TypeOK, Get
<1>3. /\ x \in Shown /\ x.key = gets[i].key /\ x.data = gets[i].data
      /\ x.rows = gets[i].rows /\ x.moved = {} /\ x # None
  BY <1>2, RecordsAssumption DEF Shown, Get, Rows
<1> HIDE DEF x
<1>4. /\ page' \in Page /\ page'.at = page.at /\ page'.key = page.key
      /\ page'.shown = x
  BY <1>1, <1>2, <1>3 DEF Page
<1>5. ASSUME NEW c \in Calls
      PROVE  /\ call'[c] \in Call \cup {None} /\ Follows(call'[c], call[c])
             /\ call'[c] # None <=> call[c] # None
             /\ call'[c] # None =>
                  /\ call'[c].op = call[c].op /\ call'[c].pc = call[c].pc
                  /\ call'[c].id = call[c].id /\ call'[c].heard = call[c].heard
                  /\ call'[c].alone = FALSE
                  /\ call'[c].op = "toggle" /\ call'[c].pc = "sent" =>
                       call'[c].order = "overtaken"
  <2>1. call'[c] = Disturbed(call[c], "overtaken")
    BY <1>1
  <2>2. CASE call[c] = None
    BY <2>1, <2>2 DEF Disturbed, Follows
  <2>3. CASE call[c] # None
    <3>1. call[c] \in Call /\ "overtaken" \in Orders
      BY <1>2, <2>3 DEF Orders
    <3>2. StaysUnderWay(call'[c], call[c], "overtaken")
      BY <2>1, <3>1, DisturbedFacts
    <3> QED
      BY <2>3, <3>2 DEF StaysUnderWay
  <2> QED
    BY <2>2, <2>3
<1>6. call' \in [Calls -> Call \cup {None}]
  <2>1. call' = [c \in Calls |-> call'[c]]
    BY <1>1
  <2> QED
    BY <1>5, <2>1
<1>7. CallsInOrder'
  <2>1. \A c \in Calls :
          (call'[c] # None /\ call'[c].op \in Answers /\ call'[c].pc = "done") =>
            call'[c].id \notin open'
    BY <1>1, <1>5 DEF IInv, CallsInOrder, Ordered
  <2> QED
    BY <1>3, <1>4, <1>5, <2>1, AllFollow DEF IInv
<1>8. Announced <=> Announced'
  BY <1>5 DEF Announced
<1>9. /\ gets' \in Seq(Get)
      /\ gets' = <<>> => i = Len(gets)
      /\ gets' # <<>> /\ i = Len(gets) => LastGet'.late
      /\ i # Len(gets) =>
           /\ gets' # <<>> /\ gets # <<>>
           /\ LastGet'.key = LastGet.key /\ LastGet'.data = LastGet.data
           /\ LastGet'.read = LastGet.read /\ LastGet'.rows = LastGet.rows
           /\ LastGet'.late <=> LastGet.late
  BY <1>1, NewestFacts
<1>10. \A filter : /\ Matching(filter)' = Matching(filter)
                   /\ Matching(filter) \subseteq stock
  BY <1>1, <1>2 DEF Matching
<1>11. GoodLast'
  BY <1>1, <1>4, <1>8, <1>9, <1>10 DEF IInv, News, GoodLast
<1>12. GoodRest'
  <2> SUFFICES ASSUME gets' = <<>>, ~amiss'
               PROVE  /\ page.key # None /\ ~Announced =>
                           /\ x.key = page.key
                           /\ page.at = "catalog" =>
                                /\ x.rows \subseteq Matching(page.key.filter)
                                /\ x.data = active \cap x.rows
                      /\ page.at = "rfq" => x.data \cap answered = {}
    BY <1>1, <1>3, <1>4, <1>8, <1>10 DEF GoodRest, RightBut
  <2>1. i = Len(gets) /\ ~LastGet.late /\ LastGet = gets[i] /\ gets # <<>>
    <3>1. i = Len(gets) /\ gets[i].late = FALSE
      BY <1>1, <1>2, <1>9 DEF Get
    <3>2. gets # <<>>
      BY <1>1, GetsFacts
    <3> QED
      BY <3>1, <3>2 DEF LastGet
  <2>2. /\ LastGet.key = page.key
        /\ page.at = "catalog" /\ LastGet.read =>
             \/ Announced
             \/ /\ LastGet.rows \subseteq Matching(page.key.filter)
                /\ LastGet.data = active \cap LastGet.rows
        /\ page.at = "rfq" => LastGet.data \cap answered = {}
    BY <2>1 DEF IInv, News, GoodLast
  <2> QED
    BY <1>1, <1>3, <2>1, <2>2
<1>13. GoodSwitches' /\ GoodPrevious'
  BY <1>5 DEF GoodSwitches, GoodPrevious, Switched
<1> QED
  BY <1>1, <1>2, <1>4, <1>6, <1>7, <1>9, <1>11, <1>12, <1>13
     DEF IInv, TypeOK, KeysInOrder, IsList, AnsweredAreClosed, News

\* What failed leaves the page amiss, until a newer answer.
LEMMA FailGetStep ==
  ASSUME IInv, NEW i \in DOMAIN gets, FailGet(i)
  PROVE  IInv'
<1>1. /\ TypeOK /\ UNCHANGED <<open, stock, active, call, answered>>
      /\ Newest(i) /\ amiss' = TRUE
  BY DEF IInv, FailGet, server
<1>2. /\ page' \in Page /\ page'.at = page.at /\ page'.key = page.key
      /\ page'.shown = page.shown
  BY <1>1 DEF FailGet, TypeOK, Page
<1>3. /\ gets' \in Seq(Get)
      /\ gets' # <<>> /\ i = Len(gets) => LastGet'.late
      /\ i # Len(gets) =>
           /\ gets' # <<>> /\ gets # <<>>
           /\ LastGet'.key = LastGet.key /\ LastGet'.data = LastGet.data
           /\ LastGet'.read = LastGet.read /\ LastGet'.rows = LastGet.rows
           /\ LastGet'.late <=> LastGet.late
  BY <1>1, NewestFacts
<1>4. (Announced <=> Announced') /\ \A filter : Matching(filter)' = Matching(filter)
  BY <1>1 DEF Announced, Matching
<1>5. GoodLast'
  BY <1>1, <1>2, <1>3, <1>4 DEF IInv, News, GoodLast
<1>6. GoodRest' /\ GoodSwitches' /\ GoodPrevious'
  BY <1>1 DEF GoodRest, GoodSwitches, GoodPrevious
<1> QED
  BY <1>1, <1>2, <1>3, <1>5, <1>6
     DEF IInv, TypeOK, KeysInOrder, IsList, CallsInOrder, Ordered, AnsweredAreClosed, News

-----------------------------------------------------------------------------
(* The server.                                                             *)

\* A call goes on or is over, and the others stay as they are.
LEMMA GoOnFacts ==
  ASSUME IInv, NEW c \in Calls, call[c] # None, NEW x \in Call \cup {None},
         Follows(x, call[c]), call' = [call EXCEPT ![c] = x],
         page'.at = page.at, page.shown # None => page'.shown # None,
         open' \subseteq open,
         x # None /\ x.op \in Answers /\ x.pc = "done" => x.id \notin open'
  PROVE  /\ call' \in [Calls -> Call \cup {None}] /\ CallsInOrder'
         /\ call'[c] = x /\ \A e \in Calls \ {c} : call'[e] = call[e]
<1>1. call \in [Calls -> Call \cup {None}]
  BY DEF IInv, TypeOK
<1>2. /\ call' \in [Calls -> Call \cup {None}]
      /\ call'[c] = x /\ \A e \in Calls \ {c} : call'[e] = call[e]
  BY <1>1
<1>3. \A e \in Calls : Follows(call'[e], call[e])
  BY <1>1, <1>2 DEF Follows
<1>4. \A e \in Calls :
        (call'[e] # None /\ call'[e].op \in Answers /\ call'[e].pc = "done") =>
          call'[e].id \notin open'
  BY <1>2 DEF IInv, CallsInOrder, Ordered
<1>5. CallsInOrder'
  BY <1>3, <1>4, AllFollow DEF IInv
<1> QED
  BY <1>2, <1>5

LEMMA EndFacts ==
  ASSUME IInv, NEW c \in Calls, call[c] # None, End(c),
         page'.at = page.at, page.shown # None => page'.shown # None,
         open' \subseteq open
  PROVE  /\ call' \in [Calls -> Call \cup {None}] /\ CallsInOrder'
         /\ call'[c] = None /\ \A e \in Calls \ {c} : call'[e] = call[e]
<1>1. PICK x \in Call \cup {None} : x = None
  OBVIOUS
<1>2. call' = [call EXCEPT ![c] = x] /\ Follows(x, call[c])
  BY <1>1 DEF End, Follows
<1> QED
  BY <1>1, <1>2, GoOnFacts

\* A call that is no switch under way is over, and all else stays as it is.
LEMMA EndStep ==
  ASSUME IInv, NEW c \in Calls, call[c] # None, End(c), ~Switched(c),
         ~(call[c].op = "delete" /\ call[c].pc = "done"),
         UNCHANGED <<open, stock, active, page, gets, amiss, answered>>
  PROVE  IInv'
<1>1. /\ call' \in [Calls -> Call \cup {None}] /\ CallsInOrder'
      /\ call'[c] = None /\ \A e \in Calls \ {c} : call'[e] = call[e]
  BY EndFacts
<1>2. /\ Announced => Announced'
      /\ \A e \in Calls : Switched(e)' <=> Switched(e)
      /\ \A e \in Calls : Switched(e) => call'[e] = call[e]
  BY <1>1 DEF Announced, Switched
<1>3. News'
  BY <1>1, <1>2, KeepsNews DEF IInv
<1> QED
  BY <1>1, <1>3 DEF IInv, TypeOK, KeysInOrder, IsList, AnsweredAreClosed

LEMMA DecideStep ==
  ASSUME IInv, NEW c \in Calls, Decide(c)
  PROVE  IInv'
<1>1. /\ TypeOK /\ call[c] # None /\ call[c].op \in Answers /\ call[c] \in Call
      /\ open' = open \ {call[c].id} /\ Done(c)
      /\ UNCHANGED <<stock, active, page, gets, amiss, answered>>
  BY DEF IInv, TypeOK, Decide
<1> DEFINE x == [call[c] EXCEPT !.pc = "done"]
<1>2. /\ x \in Call /\ x.pc = "done" /\ x.op = call[c].op /\ x.id = call[c].id
      /\ x.heard = call[c].heard /\ x.previous = call[c].previous
      /\ x.alone = call[c].alone
  BY <1>1 DEF Call
<1>3. call' = [call EXCEPT ![c] = x]
  BY <1>1 DEF Done
<1> HIDE DEF x
<1>4. Follows(x, call[c])
  BY <1>1, <1>2 DEF Follows
<1>5. /\ call' \in [Calls -> Call \cup {None}] /\ CallsInOrder'
      /\ call'[c] = x /\ \A e \in Calls \ {c} : call'[e] = call[e]
  BY <1>1, <1>2, <1>3, <1>4, GoOnFacts
<1>6. /\ Announced => Announced'
      /\ \A e \in Calls : Switched(e)' <=> Switched(e)
      /\ \A e \in Calls : Switched(e) => call'[e] = call[e]
  BY <1>1, <1>2, <1>5 DEF Announced, Switched, Answers
<1>7. News'
  BY <1>1, <1>2, <1>5, <1>6, KeepsNews DEF IInv
<1> QED
  BY <1>1, <1>5, <1>7
     DEF IInv, TypeOK, KeysInOrder, IsList, AnsweredAreClosed

LEMMA CloseStep ==
  ASSUME IInv, NEW r \in Rfqs, Close(r)
  PROVE  IInv'
<1>1. open' = open \ {r} /\ UNCHANGED <<stock, active, page, gets, call, amiss, answered>>
  BY DEF Close
<1>2. News'
  BY <1>1, KeepsNews DEF IInv, Announced, Switched
<1> QED
  BY <1>1, <1>2
     DEF IInv, TypeOK, KeysInOrder, IsList, CallsInOrder, Ordered, AnsweredAreClosed

\* A write is carried out: nobody waits for it any longer, or its handler goes on.
Written(c) ==
  /\ call' \in [Calls -> Call \cup {None}] /\ CallsInOrder'
  /\ call'[c] # None =>
       /\ call'[c].op = call[c].op /\ call'[c].heard = call[c].heard
       /\ call'[c].pc = "done" /\ call'[c].alone = FALSE
  /\ call[c].pc = "sent" => call'[c] # None
  /\ \A e \in Calls \ {c} :
       /\ call'[e] # None <=> call[e] # None
       /\ call'[e] # None =>
            /\ call'[e].op = call[e].op /\ call'[e].pc = call[e].pc
            /\ call'[e].id = call[e].id /\ call'[e].on = call[e].on
            /\ call'[e].heard = call[e].heard /\ call'[e].alone = FALSE
       /\ Switched(e) =>
            call'[e].order = IF /\ call[c].op = "toggle" /\ call[c].order = "last"
                                /\ call[e].id = call[c].id
                             THEN "overtaken" ELSE call[e].order

LEMMA WriteProductFacts ==
  ASSUME IInv, NEW c \in Calls, WriteProduct(c)
  PROVE  Written(c)
<1> DEFINE overtaken(k) == /\ call[c].op = "toggle" /\ call[c].order = "last"
                           /\ k # None /\ k.op = "toggle" /\ k.pc = "sent"
                           /\ k.id = call[c].id
           x == [call[c] EXCEPT !.pc = "done", !.alone = FALSE, !.order = "last"]
           o(k) == [k EXCEPT !.order = "overtaken"]
<1>1. /\ call[c] # None /\ call[c].pc \in {"sent", "lost"} /\ call[c].op \notin Answers
      /\ UNCHANGED <<open, page>> /\ call[c] \in Call
      /\ call \in [Calls -> Call \cup {None}]
      /\ call' = [e \in Calls |->
                    IF e # c THEN IF overtaken(call[e]) THEN o(call[e]) ELSE call[e]
                    ELSE IF call[c].pc = "lost" THEN None ELSE x]
  BY DEF IInv, TypeOK, WriteProduct
<1>2. /\ x \in Call /\ x # None /\ Follows(x, call[c])
      /\ x.op = call[c].op /\ x.heard = call[c].heard
      /\ x.pc = "done" /\ x.alone = FALSE
  <2>1. /\ x \in Call /\ x.op = call[c].op /\ x.heard = call[c].heard
        /\ x.pc = "done" /\ x.alone = FALSE /\ x.id = call[c].id
        /\ x.previous = call[c].previous
    BY <1>1 DEF Call
  <2> QED
    BY <1>1, <2>1, RecordsAssumption DEF Follows
<1>3. ASSUME NEW k \in Call
      PROVE  /\ o(k) \in Call /\ o(k) # None /\ Follows(o(k), k)
             /\ o(k).op = k.op /\ o(k).pc = k.pc /\ o(k).id = k.id /\ o(k).on = k.on
             /\ o(k).heard = k.heard /\ o(k).alone = k.alone /\ o(k).order = "overtaken"
  <2>1. /\ o(k) \in Call /\ o(k).op = k.op /\ o(k).pc = k.pc /\ o(k).id = k.id
        /\ o(k).on = k.on /\ o(k).heard = k.heard /\ o(k).alone = k.alone
        /\ o(k).order = "overtaken" /\ o(k).previous = k.previous
    BY DEF Call
  <2>2. o(k) # None /\ k # None
    BY <2>1, RecordsAssumption
  <2> QED
    BY <2>1, <2>2 DEF Follows
<1>4. call'[c] = IF call[c].pc = "lost" THEN None ELSE x
  BY <1>1
<1>5. ASSUME NEW e \in Calls \ {c}
      PROVE  /\ call'[e] \in Call \cup {None} /\ Follows(call'[e], call[e])
             /\ call'[e] # None <=> call[e] # None
             /\ call'[e] # None =>
                  /\ call'[e].op = call[e].op /\ call'[e].pc = call[e].pc
                  /\ call'[e].id = call[e].id /\ call'[e].on = call[e].on
                  /\ call'[e].heard = call[e].heard /\ call'[e].alone = call[e].alone
             /\ Switched(e) =>
                  call'[e].order = IF /\ call[c].op = "toggle" /\ call[c].order = "last"
                                      /\ call[e].id = call[c].id
                                   THEN "overtaken" ELSE call[e].order
  <2>1. call'[e] = IF overtaken(call[e]) THEN o(call[e]) ELSE call[e]
    BY <1>1
  <2>2. overtaken(call[e]) =>
          /\ call[c].op = "toggle" /\ call[c].order = "last"
          /\ call[e] # None /\ call[e].op = "toggle" /\ call[e].pc = "sent"
          /\ call[e].id = call[c].id
    OBVIOUS
  <2>3. CASE overtaken(call[e])
    <3>1. call[e] \in Call /\ call'[e] = o(call[e])
      BY <1>1, <2>1, <2>2, <2>3
    <3> HIDE DEF o, overtaken
    <3> QED
      BY <1>3, <2>2, <2>3, <3>1
  <2>4. CASE ~overtaken(call[e])
    <3>1. call'[e] = call[e]
      BY <2>1, <2>4
    <3>2. Switched(e) => ~(/\ call[c].op = "toggle" /\ call[c].order = "last"
                           /\ call[e].id = call[c].id)
      BY <2>4 DEF Switched
    <3>3. Follows(call'[e], call[e])
      BY <1>1, <3>1 DEF Follows
    <3> HIDE DEF o, overtaken
    <3> QED
      BY <1>1, <3>1, <3>2, <3>3
  <2> QED
    BY <2>3, <2>4
<1>6. \A e \in Calls : call'[e] \in Call \cup {None} /\ Follows(call'[e], call[e])
  <2> HIDE DEF x, o, overtaken
  <2> QED
    BY <1>2, <1>4, <1>5 DEF Follows
<1>7. call' \in [Calls -> Call \cup {None}]
  <2>1. call' = [e \in Calls |-> call'[e]]
    BY <1>1
  <2> HIDE DEF x, o, overtaken
  <2> QED
    BY <1>6, <2>1
<1> HIDE DEF x, o, overtaken
<1>8. \A e \in Calls :
        (call'[e] # None /\ call'[e].op \in Answers /\ call'[e].pc = "done") =>
          call'[e].id \notin open'
  BY <1>1, <1>2, <1>4, <1>5 DEF IInv, CallsInOrder, Ordered
<1>9. CallsInOrder'
  <2>1. page'.at = page.at /\ (page.shown # None => page'.shown # None)
    BY <1>1
  <2> QED
    BY <1>6, <1>8, <2>1, AllFollow DEF IInv
<1>10. \A e \in Calls \ {c} : call[e] # None => call[e].alone = FALSE
  BY <1>1 DEF IInv, CallsInOrder, TypeOK, Call
<1> QED
  BY <1>1, <1>2, <1>4, <1>5, <1>7, <1>9, <1>10 DEF Written

\* The write of a switch that is still in order leaves the list right, and the
\* switches that are in doubt as good as they were.
LEMMA SwitchWritten ==
  ASSUME IInv, NEW c \in Calls, WriteProduct(c), Written(c), Switched(c),
         call[c].order # "overtaken",
         gets = <<>>, ~amiss, page.key # None, ~Announced
  PROVE  /\ page.shown # None /\ page.shown.key = page.key
         /\ page.at = "catalog" => RightBut(page.shown, {p \in Products : InDoubt(p)})'
<1>0. PICK p : p = call[c].id
  OBVIOUS
<1>1. /\ page.shown # None /\ page.shown.key = page.key
      /\ page.at = "catalog" => RightBut(page.shown, {q \in Products : InDoubt(q)})
  BY DEF IInv, News, GoodRest
<1>2. /\ UNCHANGED page /\ stock' = stock
      /\ active' = Flip(active, p, call[c].on) \cap stock
      /\ p \in stock /\ call[c].on \in BOOLEAN /\ active \subseteq stock
  BY <1>0 DEF WriteProduct, Switched, IInv, TypeOK, Call
<1>3. p \in page.shown.moved
  BY <1>0 DEF IInv, News, GoodSwitches, Switched
<1>4. /\ \A q : q # p => (q \in active' <=> q \in active)
      /\ p \in active' <=> call[c].on
  BY <1>2 DEF Flip
<1>5. \A q \in Products : q # p /\ InDoubt(q) => InDoubt(q)'
  BY <1>0 DEF InDoubt, Switched, Written
<1>6. \/ p \in page.shown.data <=> call[c].on
      \/ InDoubt(p)'
  <2>1. CASE call[c].order = "last"
    BY <1>0, <2>1 DEF IInv, News, GoodSwitches
  <2>2. CASE call[c].order # "last"
    <3>1. PICK d \in Calls : Switched(d) /\ call[d].id = p /\ call[d].order = "last"
      BY <1>0, <2>2 DEF IInv, News, GoodSwitches
    <3>2. d # c
      BY <2>2, <3>1
    <3>3. Switched(d)' /\ call'[d].id = p
      BY <3>1, <3>2 DEF Switched, Written
    <3> QED
      BY <3>3 DEF InDoubt
  <2> QED
    BY <2>1, <2>2
<1>7. ASSUME page.at = "catalog"
      PROVE  RightBut(page.shown, {q \in Products : InDoubt(q)})'
  <2> DEFINE some == {q \in Products : InDoubt(q)}
  <2>1. /\ page.shown.rows \subseteq stock /\ page.shown.data \subseteq page.shown.rows
        /\ page.shown.rows \ page.shown.moved \subseteq Matching(page.key.filter)
        /\ \A q \in page.shown.rows \ some : q \in page.shown.data <=> q \in active
    BY <1>1, <1>7 DEF RightBut
  <2>2. page.shown.rows \ page.shown.moved \subseteq Matching(page.key.filter)'
    BY <1>2, <1>3, <1>4, <2>1 DEF Matching
  <2>3. ASSUME NEW q \in page.shown.rows \ some'
        PROVE  q \in page.shown.data <=> q \in active'
    <3>1. q \in Products /\ q \notin some'
      BY <1>2, <2>1, <2>3 DEF IInv, TypeOK
    <3>2. ~InDoubt(q)'
      BY <3>1
    <3> HIDE DEF some
    <3>3. CASE q = p
      BY <1>4, <1>6, <3>3, <3>2
    <3>4. CASE q # p
      <4>1. q \notin some
        BY <1>5, <3>1, <3>4, <3>2 DEF some
      <4> QED
        BY <1>4, <2>1, <2>3, <3>4, <4>1
    <3> QED
      BY <3>3, <3>4
  <2> HIDE DEF some
  <2>4. RightBut(page.shown, some)'
    BY <1>2, <2>1, <2>2, <2>3 DEF RightBut
  <2> QED
    BY <2>4 DEF some
<1> QED
  BY <1>1, <1>7

LEMMA SwitchesStay ==
  ASSUME IInv, NEW c \in Calls, Written(c), UNCHANGED page,
         gets = <<>>, ~amiss, page.key # None,
         call[c].op = "toggle" => Switched(c) /\ call[c].order # "overtaken",
         NEW e \in Calls, Switched(e)'
  PROVE  \/ call'[e].order = "overtaken"
         \/ /\ call'[e].order = "last" /\ call'[e].id \in page.shown.moved
            /\ call'[e].id \in page.shown.data <=> call'[e].on
         \/ /\ call'[e].order = "earlier"
            /\ \E d \in Calls : /\ Switched(d)' /\ call'[d].id = call'[e].id
                                /\ call'[d].order = "last"
<1>1. e # c /\ Switched(e)
  BY DEF Written, Switched
<1>2. /\ call'[e].id = call[e].id /\ call'[e].on = call[e].on
      /\ call'[e].order = IF /\ call[c].op = "toggle" /\ call[c].order = "last"
                             /\ call[e].id = call[c].id
                          THEN "overtaken" ELSE call[e].order
  BY <1>1 DEF Written, Switched
<1>3. \/ call[e].order = "overtaken"
      \/ /\ call[e].order = "last" /\ call[e].id \in page.shown.moved
         /\ call[e].id \in page.shown.data <=> call[e].on
      \/ /\ call[e].order = "earlier"
         /\ \E d \in Calls : /\ Switched(d) /\ call[d].id = call[e].id
                             /\ call[d].order = "last"
  BY <1>1 DEF IInv, News, GoodSwitches
<1>4. ASSUME NEW d \in Calls, Switched(d), call[d].id = call[e].id,
             call[d].order = "last", call'[e].order # "overtaken"
      PROVE  Switched(d)' /\ call'[d].id = call'[e].id /\ call'[d].order = "last"
  <2>1. d # c
    BY <1>2, <1>4 DEF Switched
  <2>2. /\ Switched(d)' /\ call'[d].id = call[d].id
        /\ call'[d].order = IF /\ call[c].op = "toggle" /\ call[c].order = "last"
                               /\ call[d].id = call[c].id
                            THEN "overtaken" ELSE call[d].order
    BY <1>4, <2>1 DEF Written, Switched
  <2> QED
    BY <1>2, <1>4, <2>2
<1> QED
  BY <1>2, <1>3, <1>4

\* What was read before a write is late, and the list is amiss when its tenant has
\* not moved the switch last; a deletion is followed by a load() instead.
LEMMA WriteProductStep ==
  ASSUME IInv, NEW c \in Calls, WriteProduct(c)
  PROVE  IInv'
<1> DEFINE p == call[c].id
           unnoticed == \/ call[c].pc = "lost" \/ ~call[c].heard
                        \/ call[c].order = "overtaken"
<1>1. /\ TypeOK /\ call[c] # None /\ call[c].pc \in {"sent", "lost"}
      /\ call[c].op \notin Answers /\ UNCHANGED <<open, page, answered>>
      /\ Ordered(call[c]) /\ p \in Products /\ gets \in Seq(Get)
      /\ unnoticed \in BOOLEAN
  BY DEF IInv, WriteProduct, CallsInOrder, Ordered, TypeOK, Call
<1>2. Written(c)
  BY WriteProductFacts
<1>3. stock' \in SUBSET Products /\ active' \in SUBSET stock'
  BY <1>1 DEF WriteProduct, TypeOK
<1>4. GoodPrevious'
  BY <1>2 DEF GoodPrevious, Written
<1>5. Announced => Announced'
  BY <1>1, <1>2 DEF Announced, Written
<1>6. ASSUME gets' \in Seq(Get), amiss' \in BOOLEAN, GoodLast', GoodRest', GoodSwitches'
      PROVE  IInv'
  BY <1>1, <1>2, <1>3, <1>4, <1>6
     DEF IInv, TypeOK, KeysInOrder, IsList, AnsweredAreClosed, News, Written
<1>7. CASE page.at # "catalog"
  <2>1. UNCHANGED <<gets, amiss>>
    BY <1>7 DEF WriteProduct
  <2>2. \A e \in Calls : ~Switched(e)'
    BY <1>1, <1>2, <1>7 DEF Switched, Written, IInv, CallsInOrder, Ordered
  <2>3. GoodLast' /\ GoodRest' /\ GoodSwitches'
    BY <1>1, <1>5, <1>7, <2>1, <2>2
       DEF IInv, News, GoodLast, GoodRest, GoodSwitches, LastGet
  <2> QED
    BY <1>1, <1>6, <2>1, <2>3 DEF TypeOK
<1>8. CASE page.at = "catalog" /\ call[c].op = "delete" /\ call[c].heard
  <2>1. UNCHANGED <<gets, amiss>>
    BY <1>8 DEF WriteProduct
  <2>2. Announced'
    BY <1>1, <1>2, <1>8 DEF Announced, Written, Ordered
  <2>3. GoodLast' /\ GoodRest'
    BY <1>1, <2>1, <2>2 DEF IInv, News, GoodLast, GoodRest, LastGet
  <2>4. GoodSwitches'
    <3> SUFFICES ASSUME gets = <<>>, ~amiss, page.key # None, NEW e \in Calls, Switched(e)'
                 PROVE  \/ call'[e].order = "overtaken"
                        \/ /\ call'[e].order = "last" /\ call'[e].id \in page.shown.moved
                           /\ call'[e].id \in page.shown.data <=> call'[e].on
                        \/ /\ call'[e].order = "earlier"
                           /\ \E d \in Calls : /\ Switched(d)' /\ call'[d].id = call'[e].id
                                               /\ call'[d].order = "last"
      BY <1>1, <2>1 DEF GoodSwitches
    <3> QED
      BY <1>1, <1>2, <1>8, SwitchesStay
  <2> QED
    BY <1>1, <1>6, <2>1, <2>3, <2>4 DEF TypeOK
<1>9. CASE page.at = "catalog" /\ ~(call[c].op = "delete" /\ call[c].heard)
  <2>1. Unnoticed(gets, unnoticed)
    BY <1>9 DEF WriteProduct
  <2>2. /\ gets' \in Seq(Get) /\ Len(gets') = Len(gets) /\ DOMAIN gets' = DOMAIN gets
        /\ amiss' \in BOOLEAN /\ amiss' = (amiss \/ unnoticed)
        /\ \A i \in DOMAIN gets :
             /\ gets'[i].key = gets[i].key /\ gets'[i].data = gets[i].data
             /\ gets'[i].read = gets[i].read /\ gets'[i].rows = gets[i].rows
             /\ gets'[i].late <=> gets[i].late \/ gets[i].read
    <3> HIDE DEF unnoticed
    <3> QED
      BY <1>1, <2>1, UnnoticedFacts
  <2>3. gets' = <<>> <=> gets = <<>>
    BY <1>1, <2>2, EmptySeq
  <2>4. GoodLast'
    <3> SUFFICES ASSUME gets # <<>>
                 PROVE  \/ LastGet'.late
                        \/ LastGet'.key = page.key /\ ~LastGet'.read
                             /\ (page.at = "rfq" => LastGet'.data \cap answered = {})
      BY <1>1, <2>3 DEF GoodLast
    <3>1. Len(gets) \in DOMAIN gets
      BY <1>1, GetsFacts
    <3>2. /\ LastGet'.key = LastGet.key /\ LastGet'.data = LastGet.data
          /\ LastGet'.read = LastGet.read /\ LastGet'.rows = LastGet.rows
          /\ LastGet'.late <=> LastGet.late \/ LastGet.read
      BY <2>2, <3>1 DEF LastGet
    <3> QED
      BY <3>2 DEF IInv, News, GoodLast
  <2>5. ASSUME ~unnoticed PROVE Switched(c) /\ call[c].order # "overtaken"
    <3>1. call[c].op = "toggle"
      BY <1>1, <1>9, <2>5 DEF Ordered, TypeOK, Call, Answers, Saves
    <3> QED
      BY <1>1, <2>5, <3>1 DEF Switched
  <2>6. GoodRest'
    <3> SUFFICES ASSUME gets = <<>>, ~amiss, ~unnoticed, page.key # None, ~Announced
                 PROVE  /\ page.shown # None /\ page.shown.key = page.key
                        /\ RightBut(page.shown, {q \in Products : InDoubt(q)})'
      BY <1>1, <1>5, <1>9, <2>2, <2>3 DEF GoodRest
    <3> HIDE DEF unnoticed
    <3> QED
      BY <1>2, <1>9, <2>5, SwitchWritten
  <2>7. GoodSwitches'
    <3> SUFFICES ASSUME gets = <<>>, ~amiss, ~unnoticed, page.key # None,
                        NEW e \in Calls, Switched(e)'
                 PROVE  \/ call'[e].order = "overtaken"
                        \/ /\ call'[e].order = "last" /\ call'[e].id \in page.shown.moved
                           /\ call'[e].id \in page.shown.data <=> call'[e].on
                        \/ /\ call'[e].order = "earlier"
                           /\ \E d \in Calls : /\ Switched(d)' /\ call'[d].id = call'[e].id
                                               /\ call'[d].order = "last"
      BY <1>1, <2>2, <2>3 DEF GoodSwitches
    <3> HIDE DEF unnoticed
    <3> QED
      BY <1>1, <1>2, <2>5, SwitchesStay
  <2> QED
    BY <1>6, <2>2, <2>4, <2>6, <2>7
<1> QED
  BY <1>7, <1>8, <1>9

-----------------------------------------------------------------------------
(* The handler goes on.                                                    *)

\* Answered, be it with a 409: not NEW, and fetched once more.
LEMMA DecidedStep ==
  ASSUME IInv, NEW c \in Calls, Decided(c)
  PROVE  IInv'
<1>1. /\ TypeOK /\ call[c] # None /\ End(c) /\ UNCHANGED <<open, stock, active>>
      /\ answered' = answered \cup {call[c].id} /\ LoadWith(call[c].id)
      /\ page' = [page EXCEPT !.loading = TRUE]
      /\ call[c].id \in Rfqs /\ call[c].id \notin open
  BY DEF IInv, Decided, server, CallsInOrder, Ordered
<1>2. page' \in Page /\ page'.at = page.at /\ page'.key = page.key
      /\ page'.shown = page.shown
  BY <1>1 DEF TypeOK, Page
<1>3. call' \in [Calls -> Call \cup {None}] /\ CallsInOrder'
  BY <1>1, <1>2, EndFacts
<1>4. call[c].id \in Key
  BY <1>1 DEF Key
<1>5. gets' \in Seq(Get) /\ amiss' \in BOOLEAN /\ News'
  BY <1>1, <1>2, <1>4, LoadWithStep
<1> QED
  BY <1>1, <1>2, <1>3, <1>5
     DEF IInv, TypeOK, KeysInOrder, IsList, AnsweredAreClosed

LEMMA ToggledStep ==
  ASSUME IInv, NEW c \in Calls, Toggled(c)
  PROVE  IInv'
BY EndStep DEF Toggled, server, Switched

LEMMA DeletedStep ==
  ASSUME IInv, NEW c \in Calls, Deleted(c)
  PROVE  IInv'
<1>1. /\ TypeOK /\ call[c] # None /\ call[c].op = "delete" /\ End(c)
      /\ LoadWith(call[c].key) /\ UNCHANGED <<open, stock, active, page, answered>>
  BY DEF IInv, Deleted, server
<1>2. call' \in [Calls -> Call \cup {None}] /\ CallsInOrder'
  BY <1>1, EndFacts
<1>3. call[c].key \in Key
  BY <1>1 DEF TypeOK, Call
<1>4. gets' \in Seq(Get) /\ amiss' \in BOOLEAN /\ News'
  BY <1>1, <1>3, LoadWithStep
<1> QED
  BY <1>1, <1>2, <1>4
     DEF IInv, TypeOK, KeysInOrder, IsList, AnsweredAreClosed

\* A form that was saved leads to the catalog, from wherever the tenant is.
LEMMA SavedStep ==
  ASSUME IInv, NEW c \in Calls, Saved(c)
  PROVE  IInv'
<1>1. /\ TypeOK /\ CallsInOrder /\ call[c] # None /\ call[c].op \in Saves
      /\ UNCHANGED <<open, stock, active>>
  BY DEF IInv, Saved, server
<1>2. CASE page.at = "catalog"
  <2>1. End(c) /\ UNCHANGED <<page, gets, amiss, answered>>
    BY <1>2 DEF Saved
  <2> QED
    BY <1>1, <2>1, EndStep DEF Switched, Saves
<1>3. CASE page.at # "catalog"
  <2> DEFINE calls == [call EXCEPT ![c] = None]
  <2>1. Mount("catalog", First(All)) /\ call' = Deafen(calls)
    BY <1>3 DEF Saved
  <2>2. /\ calls \in [Calls -> Call \cup {None}]
        /\ \A e \in Calls : calls[e] # None => e # c /\ calls[e] = call[e]
    BY <1>1 DEF TypeOK
  <2> HIDE DEF calls
  <2>3. \A e \in Calls :
          calls[e] # None =>
            /\ call[e] # None
            /\ calls[e].op = call[e].op /\ calls[e].id = call[e].id
            /\ calls[e].previous = call[e].previous
    BY <2>2
  <2>4. call' \in [Calls -> Call \cup {None}] /\ CallsInOrder'
    BY <1>1, <2>1, <2>2, <2>3, DeafenFacts
  <2>5. First(All) \in Query /\ First(All) \in Key
    BY TenantPagesAssumption DEF First, Query, Key
  <2>6. /\ page' \in Page
        /\ gets' \in Seq(Get) /\ amiss' = FALSE /\ answered' = {}
        /\ KeysInOrder' /\ AnsweredAreClosed' /\ News'
    BY <2>1, <2>5, MountFacts
  <2> QED
    BY <1>1, <2>4, <2>6 DEF IInv, TypeOK
<1> QED
  BY <1>2, <1>3

\* What was done and not heard of leaves the page amiss; a switch that failed
\* goes back to what was right, if nothing came between.
LEMMA FailCallStep ==
  ASSUME IInv, NEW c \in Calls, FailCall(c)
  PROVE  IInv'
<1> DEFINE before == call[c].previous
<1>1. /\ TypeOK /\ call[c] # None /\ UNCHANGED <<open, stock, active, answered>>
      /\ page' = IF before = None THEN page ELSE [page EXCEPT !.shown = before]
      /\ call[c] \in Call /\ before \in Shown \cup {None}
      /\ gets \in Seq(Get) /\ Ordered(call[c])
  BY DEF IInv, FailCall, server, TypeOK, Call, CallsInOrder
<1>2. /\ before # None => page.at = "catalog" /\ call[c].op = "toggle"
      /\ before = None => ~Switched(c)
  BY <1>1 DEF Ordered, Switched
<1> HIDE DEF before
<1>3. /\ page' \in Page /\ page'.at = page.at /\ page'.key = page.key
      /\ page'.loading = page.loading
      /\ page'.shown = IF before = None THEN page.shown ELSE before
  BY <1>1 DEF TypeOK, Page
<1>4. PICK x \in Call \cup {None} :
        /\ call' = [call EXCEPT ![c] = x] /\ Follows(x, call[c])
        /\ x # None => x.pc = "lost" /\ x.heard = FALSE
  <2>1. CASE End(c)
    BY <2>1 DEF End, Follows
  <2>2. CASE ~End(c)
    <3>1. call' = [call EXCEPT ![c] = Lost(call[c])]
      BY <2>2 DEF FailCall
    <3>2. /\ Lost(call[c]) \in Call /\ Follows(Lost(call[c]), call[c])
          /\ Lost(call[c]).pc = "lost" /\ Lost(call[c]).heard = FALSE
      BY <1>1 DEF Lost, Call, Key, Follows
    <3> QED
      BY <3>1, <3>2
  <2> QED
    BY <2>1, <2>2
<1>5. /\ call' \in [Calls -> Call \cup {None}] /\ CallsInOrder'
      /\ call'[c] = x /\ \A e \in Calls \ {c} : call'[e] = call[e]
  <2>1. x # None /\ x.op \in Answers /\ x.pc = "done" => x.id \notin open'
    BY <1>4
  <2>2. page.shown # None => page'.shown # None
    BY <1>3
  <2> QED
    BY <1>1, <1>3, <1>4, <2>1, <2>2, GoOnFacts
<1>6. CASE call[c].pc = "done"
  <2>1. Unnoticed(gets, TRUE)
    BY <1>6 DEF FailCall
  <2>2. /\ gets' \in Seq(Get) /\ Len(gets') = Len(gets)
        /\ amiss' \in BOOLEAN /\ amiss' = (amiss \/ TRUE)
        /\ \A i \in DOMAIN gets :
             /\ gets'[i].key = gets[i].key /\ gets'[i].data = gets[i].data
             /\ gets'[i].read = gets[i].read /\ gets'[i].rows = gets[i].rows
             /\ gets'[i].late <=> gets[i].late \/ gets[i].read
    BY <1>1, <2>1, UnnoticedFacts
  <2>3. (gets' = <<>> <=> gets = <<>>) /\ amiss' = TRUE
    BY <1>1, <2>2, EmptySeq
  <2>4. GoodLast'
    <3> SUFFICES ASSUME gets # <<>>
                 PROVE  \/ LastGet'.late
                        \/ LastGet'.key = page.key /\ ~LastGet'.read
                             /\ (page.at = "rfq" => LastGet'.data \cap answered = {})
      BY <1>1, <1>3, <2>3 DEF GoodLast
    <3>1. Len(gets) \in DOMAIN gets
      BY <1>1, GetsFacts
    <3>2. /\ LastGet'.key = LastGet.key /\ LastGet'.data = LastGet.data
          /\ LastGet'.read = LastGet.read /\ LastGet'.rows = LastGet.rows
          /\ LastGet'.late <=> LastGet.late \/ LastGet.read
      BY <2>2, <3>1 DEF LastGet
    <3> QED
      BY <3>2 DEF IInv, News, GoodLast
  <2>5. GoodRest' /\ GoodSwitches' /\ GoodPrevious'
    BY <2>3 DEF GoodRest, GoodSwitches, GoodPrevious
  <2> QED
    BY <1>1, <1>3, <1>5, <2>2, <2>4, <2>5
       DEF IInv, TypeOK, KeysInOrder, IsList, AnsweredAreClosed, News
<1>7. CASE call[c].pc # "done"
  <2>1. UNCHANGED gets /\ amiss' = (amiss \/ (before # None /\ ~call[c].alone))
    BY <1>7 DEF FailCall, before
  <2>2. amiss' \in BOOLEAN
    BY <1>1, <2>1 DEF TypeOK, Call
  <2>3. Announced => Announced'
    BY <1>5, <1>7 DEF Announced
  <2>4. CASE before = None
    <3>1. UNCHANGED <<gets, amiss>>
      BY <1>1, <2>1, <2>4 DEF TypeOK
    <3>2. /\ \A e \in Calls : Switched(e)' <=> Switched(e)
          /\ \A e \in Calls : Switched(e) => call'[e] = call[e]
      BY <1>2, <1>4, <1>5, <2>4 DEF Switched
    <3>3. News'
      BY <1>1, <1>3, <1>4, <1>5, <2>3, <2>4, <3>1, <3>2, KeepsNews DEF IInv
    <3> QED
      BY <1>1, <1>3, <1>5, <2>2, <3>1, <3>3
         DEF IInv, TypeOK, KeysInOrder, IsList, AnsweredAreClosed
  <2>5. CASE before # None
    <3>1. GoodLast'
      BY <1>1, <1>3, <2>1, <2>3 DEF IInv, News, GoodLast, LastGet, Matching
    <3>2. ASSUME gets' = <<>>, ~amiss'
          PROVE  /\ gets = <<>> /\ ~amiss /\ call[c].alone
                 /\ \A e \in Calls : call'[e] # None => e = c
      BY <1>1, <1>5, <2>1, <2>5, <3>2 DEF IInv, CallsInOrder
    <3>3. GoodSwitches' /\ GoodPrevious'
      BY <1>4, <1>5, <3>2 DEF GoodSwitches, GoodPrevious, Switched
    <3>4. ASSUME gets' = <<>>, ~amiss', page.key # None
          PROVE  before.key = page.key /\ RightBut(before, {})
      <4>1. call[c].pc = "sent"
        BY <1>1, <1>2, <1>7, <2>5 DEF Ordered, before, Call
      <4> QED
        BY <1>1, <2>5, <3>2, <3>4, <4>1 DEF IInv, News, GoodPrevious, before
    <3>5. GoodRest'
      <4>1. PICK old : old = before
        OBVIOUS
      <4> SUFFICES ASSUME gets' = <<>>, ~amiss', page.key # None
                   PROVE  old.key = page.key /\ \A some : RightBut(old, some)'
        BY <1>2, <1>3, <2>5, <4>1 DEF GoodRest
      <4>2. old.key = page.key /\ RightBut(old, {})
        BY <3>4, <4>1
      <4> QED
        BY <1>1, <1>3, <4>2 DEF RightBut, Matching
    <3> QED
      BY <1>1, <1>3, <1>5, <2>1, <2>2, <3>1, <3>3, <3>5
         DEF IInv, TypeOK, KeysInOrder, IsList, AnsweredAreClosed, News
  <2> QED
    BY <2>4, <2>5
<1> QED
  BY <1>6, <1>7

-----------------------------------------------------------------------------
(* The theorems.                                                           *)

LEMMA NextIInv ==
  ASSUME IInv, [Next]_vars
  PROVE  IInv'
<1>1. ASSUME Use PROVE IInv'
  <2>1. CASE Navigate
    BY <2>1, NavigateStep
  <2>2. CASE \/ \E id \in Rfqs \cup Products : Jump(id)
             \/ \E f \in Filters : SetFilter(f)
             \/ \E n \in ListPages : SetPage(n)
    BY <2>2, TurnsStep
  <2>3. CASE AskDecline \/ CancelDecline
    BY <2>3, ConfirmStep
  <2>4. ASSUME NEW c \in Calls,
               \/ Respond(c) \/ Decline(c)
               \/ \E p \in Products : Delete(c, p) \/ SaveProduct(c, p)
        PROVE  IInv'
    BY <2>4, SendsStep
  <2>5. ASSUME NEW c \in Calls, NEW p \in Products, ToggleActive(c, p) PROVE IInv'
    BY <2>5, ToggleActiveStep
  <2> QED
    BY <1>1, <2>1, <2>2, <2>3, <2>4, <2>5 DEF Use
<1>2. ASSUME Fetch PROVE IInv'
  BY <1>2, ReadRowsStep, ShowStep, FailGetStep DEF Fetch
<1>3. ASSUME NEW c \in Calls, GoOn(c) PROVE IInv'
  BY <1>3, DecideStep, WriteProductStep, DecidedStep, ToggledStep, DeletedStep,
     SavedStep, FailCallStep DEF GoOn
<1>4. ASSUME NEW r \in Rfqs, Close(r) PROVE IInv'
  BY <1>4, CloseStep
<1>5. CASE UNCHANGED vars
  BY <1>5 DEF vars, server, IInv, TypeOK, KeysInOrder, IsList, CallsInOrder,
              Ordered, AnsweredAreClosed, News, GoodLast, LastGet, GoodRest, RightBut,
              Matching, GoodSwitches, Switched, GoodPrevious, Announced, InDoubt
<1> QED
  BY <1>1, <1>2, <1>3, <1>4, <1>5 DEF Next

\* The strengthened invariant, whatever the tenant does and however the answers
\* to the pages' effects and handlers are ordered.
THEOREM SpecIInv == Spec => []IInv
<1>1. Init => IInv
  BY InitIInv
<1>2. IInv /\ [Next]_vars => IInv'
  BY NextIInv
<1> QED
  BY <1>1, <1>2, PTL DEF Spec

\* The variables keep their types in every reachable state of the pages.
THEOREM TypeCorrect == Spec => []TypeOK
<1>1. IInv => TypeOK
  BY DEF IInv
<1> QED
  BY <1>1, SpecIInv, PTL

\* Once nothing is under way a page shows the answer to what it asks for now.  A
\* product the catalog lists is there, its switch is what the server has, and it
\* meets the filter unless its switch was moved since the list came; with the
\* exceptions that QuietPageIsCurrent names (load, toggleActive, handleDelete).
THEOREM PagesAreCurrent == Spec => []QuietPageIsCurrent
<1>1. IInv => QuietPageIsCurrent
  <2> SUFFICES ASSUME IInv, Quiet, page.key # None
               PROVE  /\ page.shown # None /\ page.shown.key = page.key
                      /\ page.at = "catalog" =>
                           /\ page.shown.rows \subseteq stock
                           /\ page.shown.rows \ page.shown.moved
                                \subseteq Matching(page.key.filter)
                           /\ page.shown.data = active \cap page.shown.rows
    BY DEF QuietPageIsCurrent
  <2>1. ~Announced /\ {p \in Products : InDoubt(p)} = {}
    BY DEF Quiet, Pending, Announced, InDoubt, Switched
  <2>2. /\ page.shown # None /\ page.shown.key = page.key
        /\ page.at = "catalog" => RightBut(page.shown, {})
    BY <2>1 DEF Quiet, IInv, News, GoodRest
  <2> QED
    BY <2>2 DEF RightBut
<1> QED
  BY <1>1, SpecIInv, PTL

\* Once a quote or a refusal has been answered, be it with a 409, the form for
\* that RFQ is not offered again (handleRespond, handleDecline, load).
THEOREM AnsweredFormsAreGone == Spec => []AnsweredFormIsGone
<1>1. IInv => AnsweredFormIsGone
  BY DEF IInv, News, GoodRest, AnsweredFormIsGone, Offered
<1> QED
  BY <1>1, SpecIInv, PTL
=============================================================================
