------------------------ MODULE OrsoAllocationProofs ------------------------
(***************************************************************************)
(* That an allocation is made of the rows of two requests, and an archived *)
(* fund holds units, only where two requests were served at the same time, *)
(* that a replacement that met no other is exact, and that two requests    *)
(* wait for each other only where they name funds in opposite order or the *)
(* allocation changed between their DELETEs: for every number of requests, *)
(* funds and bodies.                                                       *)
(***************************************************************************)
EXTENDS OrsoAllocation, SequenceTheorems, TLAPS

\* What the switch log stores, and what an apply reads of the funds.
Entries == [old : SUBSET Entry, new : SUBSET Entry, by : Requests]
Views == UNION {[D -> BOOLEAN] : D \in SUBSET Funds}

\* The variables are functions, a body is one of Bodies, the log a sequence.
Shapes ==
    /\ log \in Seq(Entries)
    /\ body \in [Requests -> Bodies \cup {None}]
    /\ step \in [Requests -> Nat \ {0}]
    /\ seen \in [Requests -> Views]
    /\ there \in [Requests -> BOOLEAN]
    /\ previous \in [Requests -> SUBSET Entry]
    /\ target \in [Requests -> SUBSET Row]
    /\ doomed \in [Requests -> SUBSET Row]

\* Requests that are open together have met, seen from both sides.
MetInv ==
    \A r, q \in Requests : r # q /\ Open(r) /\ Open(q) => <<r, q>> \in met

Replacing(r) == pc[r] \in {"fund", "item", "price", "delete", "write"}

\* A request is where its kind can be, and a price is that of an item.
KindFor(r) ==
    /\ Replacing(r) => Replaces(body[r])
    /\ pc[r] = "save" => ~Replaces(body[r])
    /\ pc[r] = "price" => step[r] \in DOMAIN Items(r)

\* Fund f is one that exists or that r creates; where it has been archived since
\* r saw it, the archiving has met r.
Known(r, f) == f \in DOMAIN funds \/ \E i \in DOMAIN Created(r) : f = Created(r)[i]
ArchivedSince(r, f) == f \in DOMAIN funds /\ funds[f].archived => <<r, funds[f].by>> \in met

SeenFor(r) ==
    /\ pc[r] \notin {"item", "price"} => DOMAIN seen[r] = {}
    /\ \A f \in DOMAIN seen[r] : Known(r, f) /\ (~seen[r][f] => ArchivedSince(r, f))

\* The items that have been checked.
Checked(r, i) ==
    \/ pc[r] \in {"delete", "write"}
    \/ pc[r] = "item" /\ i < step[r]
    \/ pc[r] = "price" /\ i <= step[r]

ItemsFor(r) ==
    \A i \in DOMAIN Items(r) :
        Checked(r, i) =>
            /\ Known(r, Items(r)[i].fund)
            /\ Items(r)[i].units # 0 => ArchivedSince(r, Items(r)[i].fund)

\* A change of a fund that has passed its check: units that the fund has got
\* since are those of a request it has met.
SaveFor(r) ==
    pc[r] = "save" /\ body[r].kind = "archive" =>
        \A x \in alloc : x.fund = body[r].fund /\ x.units > 0 => <<x.by, r>> \in met

\* The rows a DELETE does not look for are of requests it has met, and it goes
\* through the others in the order of their places.
Foreign(r, x) == x.by # r => <<x.by, r>> \in met /\ <<r, x.by>> \in met

DeleteFor(r) ==
    pc[r] = "write" =>
        /\ \A x \in alloc \ target[r] : Foreign(r, x)
        /\ \A x, y \in target[r] : x.fund = y.fund => x = y
        /\ \A x \in doomed[r], y \in target[r] \ doomed[r] :
              PlaceOf(x) <= PlaceOf(y)

\* The rows it has placed since have no other beside them.
PlacedFor(r) ==
    pc[r] = "write" =>
        /\ step[r] > 1 => doomed[r] = target[r]
        /\ \A i \in DOMAIN Items(r) : i < step[r] =>
              \A x \in alloc \ target[r] : x.fund # Items(r)[i].fund

HandlerFor(r) ==
    /\ KindFor(r) /\ SeenFor(r) /\ ItemsFor(r) /\ SaveFor(r) /\ DeleteFor(r) /\ PlacedFor(r)

HandlersInv == \A r \in Requests : HandlerFor(r)

PlacedApart == \A r, q \in Requests : r # q => PlacedBy(r) \cap PlacedBy(q) = {}

IInv ==
    /\ TypeOK /\ Shapes /\ MetInv /\ HandlersInv /\ PlacedApart
    /\ StaleRowsOnlyByRace /\ ArchivedUnitsOnlyByRace

\* What TypeOK says of one request.
LocalOK(r) ==
    /\ body[r] = None <=> pc[r] = "idle"
    /\ step[r] \in Nat \ {0} /\ there[r] \in BOOLEAN
    /\ DOMAIN seen[r] \subseteq Funds /\ previous[r] \subseteq Entry
    /\ target[r] \subseteq Row /\ doomed[r] \subseteq target[r]
    /\ pc[r] # "write" => target[r] = {}

\* A step leaves the state of a request alone.
Kept(q) ==
    /\ pc'[q] = pc[q] /\ body'[q] = body[q]
    /\ step'[q] = step[q] /\ seen'[q] = seen[q] /\ there'[q] = there[q]
    /\ previous'[q] = previous[q] /\ target'[q] = target[q] /\ doomed'[q] = doomed[q]

-----------------------------------------------------------------------------
\* The conversions yield amounts, and only nothing is rounded to nothing.
LEMMA HalfUpTyped ==
    ASSUME NEW h \in Nat
    PROVE  HalfUp(h) \in Nat /\ (HalfUp(h) > 0 => h # 0)
  BY DEF HalfUp

LEMMA HalfEvenTyped ==
    ASSUME NEW h \in Nat
    PROVE  HalfEven(h) \in Nat
  BY DEF HalfEven

LEMMA BodyTyped ==
    ASSUME NEW b \in Bodies, Replaces(b)
    PROVE  /\ b.kind \in {"put", "apply"}
           /\ b.created \in Seq(Funds) /\ b.items \in Seq(Item)
           /\ DOMAIN b.items = 1 .. Len(b.items) /\ Len(b.items) \in Nat
           /\ DOMAIN b.created = 1 .. Len(b.created) /\ Len(b.created) \in Nat
           /\ \A i \in DOMAIN b.created : b.created[i] \in Funds
           /\ \A i \in DOMAIN b.items : b.items[i].fund \in Funds /\ b.items[i].units \in Nat
           /\ \A i, j \in DOMAIN b.items : b.items[i].fund = b.items[j].fund => i = j
  <1>1. IsBody(b) /\ b.kind \in {"put", "apply"}
    BY ConstantsOK DEF Replaces
  <1>2. b.created \in Seq(Funds) /\ b.items \in Seq(Item)
    BY <1>1 DEF IsBody
  <1>3. \A i \in DOMAIN b.items : b.items[i] \in Item
    BY <1>2
  <1>4. QED
    BY <1>1, <1>2, <1>3 DEF IsBody, Item

\* The handlers of a replacement have a body of that shape.
LEMMA ReplacingTyped ==
    ASSUME IInv, NEW r \in Requests, Replacing(r)
    PROVE  body[r] \in Bodies /\ Replaces(body[r]) /\ Open(r)
  <1>1. Replaces(body[r]) /\ body[r] # None
    BY DEF IInv, TypeOK, HandlersInv, HandlerFor, KindFor, Replacing
  <1>2. QED
    BY <1>1 DEF IInv, Shapes, Replacing, Open

LEMMA CanonicalTyped ==
    /\ \A b \in Bodies : Replaces(b) => CanonicalOf(b.items) \subseteq Entry
    /\ \A stored \in SUBSET Row : CanonicalIn(stored) \subseteq Entry
  <1>1. ASSUME NEW b \in Bodies, Replaces(b), NEW i \in DOMAIN b.items
        PROVE  [fund |-> b.items[i].fund, units |-> HalfEven(b.items[i].units)] \in Entry
    BY <1>1, BodyTyped, HalfEvenTyped DEF Entry
  <1>2. \A x \in Row : [fund |-> x.fund, units |-> x.units] \in Entry
    BY DEF Row, Entry
  <1>3. QED
    BY <1>1, <1>2 DEF CanonicalOf, CanonicalIn

LEMMA LogTyped ==
    ASSUME NEW l \in Seq(Entries), NEW i \in DOMAIN l
    PROVE  l[i].old \subseteq Entry /\ l[i].new \subseteq Entry /\ l[i].by \in Requests
  <1>1. l[i] \in Entries
    OBVIOUS
  <1>2. QED
    BY <1>1 DEF Entries

LEMMA ViewsTyped ==
    /\ << >> \in Views /\ DOMAIN << >> = {}
    /\ \A v \in Views : DOMAIN v \subseteq Funds /\ \A f \in DOMAIN v : v[f] \in BOOLEAN
  <1>1. << >> \in [{} -> BOOLEAN] /\ DOMAIN << >> = {}
    OBVIOUS
  <1>2. \A v \in Views : DOMAIN v \subseteq Funds /\ \A f \in DOMAIN v : v[f] \in BOOLEAN
    BY DEF Views
  <1>3. QED
    BY <1>1, <1>2 DEF Views

\* A row a replacement writes.
LEMMA RowTyped ==
    ASSUME NEW r \in Requests, body[r] \in Bodies, Replaces(body[r]),
           NEW i \in DOMAIN Items(r)
    PROVE  /\ RowOf(r, i) \in Row /\ RowOf(r, i).by = r
           /\ RowOf(r, i).fund = Items(r)[i].fund
           /\ RowOf(r, i).units > 0 => Items(r)[i].units # 0
  <1>1. Items(r)[i].fund \in Funds /\ Items(r)[i].units \in Nat
    BY BodyTyped DEF Items
  <1>2. QED
    BY <1>1, HalfUpTyped DEF RowOf, Row

\* What a request has placed.
LEMMA PlacedMember ==
    ASSUME IInv, NEW r \in Requests, NEW f
    PROVE  f \in PlacedBy(r) <=>
             /\ pc[r] = "write"
             /\ \E i \in DOMAIN Items(r) : i < step[r] /\ f = Items(r)[i].fund
  <1>1. CASE pc[r] = "write"
    <2>1. body[r] \in Bodies /\ Replaces(body[r])
      BY <1>1, ReplacingTyped DEF Replacing
    <2>2. \A i \in DOMAIN Items(r) : RowOf(r, i).fund = Items(r)[i].fund /\ Items(r)[i].fund \in Funds
      BY <2>1, BodyTyped, RowTyped DEF Items
    <2>3. QED
      BY <1>1, <2>2 DEF PlacedBy
  <1>2. CASE pc[r] # "write"
    BY <1>2 DEF PlacedBy
  <1>3. QED
    BY <1>1, <1>2

-----------------------------------------------------------------------------
LEMMA InitInv == Init => IInv
  <1> SUFFICES ASSUME Init PROVE IInv
    OBVIOUS
  <1>1. \A f \in DOMAIN Initial : f \in Menu /\ f \in Funds /\ HalfUp(Initial[f]) \in Nat
    BY ConstantsOK, HalfUpTyped
  <1>2. \A x \in alloc : \E f \in DOMAIN Initial : x = [fund |-> f, units |-> HalfUp(Initial[f]), by |-> None]
    BY DEF Init
  <1>3. alloc \subseteq Row
    BY <1>1, <1>2 DEF Row
  <1>4. Shapes
    BY ViewsTyped DEF Init, Shapes, Entries
  <1>5. \A r \in Requests : pc[r] = "idle" /\ ~Open(r) /\ ~Replacing(r)
    BY DEF Init, Open, Replacing
  <1>6. TypeOK
    <2>1. /\ DOMAIN funds = Menu /\ Menu \subseteq Funds
          /\ \A f \in DOMAIN funds : funds[f] = [archived |-> FALSE, by |-> None]
      BY ConstantsOK DEF Init
    <2>2. \A x, y \in alloc : x.fund \in DOMAIN funds /\ (x.fund = y.fund => x = y)
      BY <1>1, <1>2, <2>1
    <2>3. ASSUME NEW r \in Requests PROVE LocalOK(r)
      BY ViewsTyped DEF Init, LocalOK
    <2>4. manual = {} /\ met = {} /\ pc \in [Requests -> Places]
      BY DEF Init, Places
    <2>5. \A i \in DOMAIN log :
             log[i].old \subseteq Entry /\ log[i].new \subseteq Entry /\ log[i].by \in Requests
      BY <1>4, LogTyped DEF Shapes
    <2>6. /\ DOMAIN funds \subseteq Funds
          /\ \A f \in DOMAIN funds : funds[f] \in [archived : BOOLEAN, by : Requests \cup {None}]
      <3>1. [archived |-> FALSE, by |-> None] \in [archived : BOOLEAN, by : Requests \cup {None}]
        OBVIOUS
      <3>2. QED
        BY <2>1, <3>1
    <2>7. QED
      BY <1>3, <2>2, <2>3, <2>4, <2>5, <2>6 DEF TypeOK, LocalOK
  <1>10. \A r \in Requests : DOMAIN seen[r] = {}
    BY ViewsTyped DEF Init
  <1>7. MetInv /\ HandlersInv /\ PlacedApart
    BY <1>5, <1>10
    DEF MetInv, HandlersInv, HandlerFor, KindFor, SeenFor, ItemsFor, Checked, SaveFor, DeleteFor,
        PlacedFor, PlacedApart, PlacedBy
  <1>8. StaleRowsOnlyByRace /\ ArchivedUnitsOnlyByRace
    <2>1. \A x \in alloc : x.by = None /\ x.fund \in Menu
      BY <1>1, <1>2
    <2>2. \A f \in Menu : ~funds[f].archived
      BY DEF Init
    <2>3. QED
      BY <2>1, <2>2 DEF StaleRowsOnlyByRace, ArchivedUnitsOnlyByRace
  <1>9. QED
    BY <1>4, <1>6, <1>7, <1>8 DEF IInv

-----------------------------------------------------------------------------
\* A request whose state stays, while the tables stay and nothing is forgotten.
LEMMA OtherKeeps ==
    ASSUME HandlersInv, NEW q \in Requests, Kept(q), UNCHANGED <<funds, alloc>>, met \subseteq met'
    PROVE  HandlerFor(q)' /\ PlacedBy(q)' = PlacedBy(q)
  <1> USE DEF Kept, HandlersInv, HandlerFor
  <1>1. Items(q)' = Items(q) /\ Created(q)' = Created(q)
    BY DEF Items, Created
  <1>2. KindFor(q)' /\ SaveFor(q)' /\ PlacedFor(q)'
    BY <1>1 DEF KindFor, Replacing, SaveFor, PlacedFor
  <1>7. DeleteFor(q)'
    BY <1>1 DEF DeleteFor, Foreign, PlaceOf
  <1>3. \A f : (Known(q, f) => Known(q, f)') /\ (ArchivedSince(q, f) => ArchivedSince(q, f)')
    BY <1>1 DEF Known, ArchivedSince
  <1>4. SeenFor(q)' /\ ItemsFor(q)'
    BY <1>1, <1>3 DEF SeenFor, ItemsFor, Checked
  <1>5. PlacedBy(q)' = PlacedBy(q)
    BY <1>1 DEF PlacedBy, RowOf, Items
  <1>6. QED
    BY <1>2, <1>4, <1>5, <1>7

\* A statement after which the tables are as they were: the handler goes on, or
\* the session closes.
LEMMA MoveKeeps ==
    ASSUME IInv, NEW r \in Requests, Open(r),
           NEW p \in Places \ {"idle"}, pc' = [pc EXCEPT ![r] = p],
           UNCHANGED <<db, body, met>>, Shapes',
           \A q \in Requests \ {r} : Kept(q),
           LocalOK(r)', HandlerFor(r)',
           \A q \in Requests \ {r} : PlacedBy(r)' \cap PlacedBy(q) = {}
    PROVE  IInv'
  <1>1. \A q \in Requests : pc'[q] = IF q = r THEN p ELSE pc[q]
    BY DEF IInv, TypeOK
  <1>2. UNCHANGED <<funds, alloc, log, manual>>
    BY DEF db
  <1>3. \A q \in Requests \ {r} : HandlerFor(q)' /\ PlacedBy(q)' = PlacedBy(q)
    BY <1>2, OtherKeeps DEF IInv
  <1>4. TypeOK'
    <2>1. \A q \in Requests : LocalOK(q)'
      BY DEF IInv, TypeOK, LocalOK, Kept
    <2>2. pc' \in [Requests -> Places]
      BY DEF IInv, TypeOK
    <2>3. QED
      BY <1>2, <2>1, <2>2 DEF IInv, TypeOK, LocalOK
  <1>5. MetInv'
    BY <1>1 DEF IInv, MetInv, Open
  <1>6. HandlersInv'
    BY <1>3 DEF HandlersInv
  <1>7. PlacedApart'
    BY <1>3 DEF IInv, PlacedApart
  <1>8. StaleRowsOnlyByRace' /\ ArchivedUnitsOnlyByRace'
    BY <1>2 DEF IInv, StaleRowsOnlyByRace, ArchivedUnitsOnlyByRace
  <1>9. QED
    BY <1>4, <1>5, <1>6, <1>7, <1>8 DEF IInv

\* The session of r closes: what it leaves behind, and that the others are kept.
LEMMA FinishLeaves ==
    ASSUME IInv, NEW r \in Requests, Open(r), Finish(r)
    PROVE  /\ pc' = [pc EXCEPT ![r] = "done"] /\ UNCHANGED <<body, met>>
           /\ pc'[r] = "done" /\ target'[r] = {} /\ doomed'[r] = {}
           /\ log' \in Seq(Entries) => Shapes'
           /\ \A q \in Requests \ {r} : Kept(q)
           /\ LocalOK(r)' /\ HandlerFor(r)' /\ PlacedBy(r)' = {}
  <1>1. /\ pc' = [pc EXCEPT ![r] = "done"] /\ UNCHANGED <<body, met>>
        /\ step' = [step EXCEPT ![r] = 1]
        /\ seen' = [seen EXCEPT ![r] = << >>]
        /\ there' = [there EXCEPT ![r] = FALSE]
        /\ previous' = [previous EXCEPT ![r] = {}]
        /\ target' = [target EXCEPT ![r] = {}]
        /\ doomed' = [doomed EXCEPT ![r] = {}]
    BY DEF Finish
  <1>2. log' \in Seq(Entries) => Shapes'
    BY <1>1, ViewsTyped DEF IInv, Shapes
  <1>3. \A q \in Requests \ {r} : Kept(q)
    BY <1>1 DEF Kept, IInv, TypeOK, Shapes
  <1>4. /\ pc'[r] = "done" /\ step'[r] = 1 /\ seen'[r] = << >> /\ there'[r] = FALSE
        /\ previous'[r] = {} /\ target'[r] = {} /\ doomed'[r] = {}
    BY <1>1 DEF IInv, TypeOK, Shapes
  <1>5. LocalOK(r)'
    <2>1. body'[r] # None
      BY <1>1 DEF IInv, TypeOK, Open
    <2>2. DOMAIN seen'[r] = {}
      BY <1>4, ViewsTyped
    <2>3. there'[r] \in BOOLEAN
      BY <1>4
    <2>4. step'[r] \in Nat \ {0} /\ pc'[r] # "idle"
      BY <1>4
    <2>5. QED
      BY <1>4, <2>1, <2>2, <2>3, <2>4 DEF LocalOK
  <1>6. HandlerFor(r)' /\ PlacedBy(r)' = {}
    BY <1>4, ViewsTyped DEF HandlerFor, KindFor, Replacing, SeenFor, ItemsFor, Checked, SaveFor, DeleteFor,
         PlacedFor, PlacedBy
  <1>7. QED
    BY <1>1, <1>2, <1>3, <1>4, <1>5, <1>6

LEMMA FinishKeeps ==
    ASSUME IInv, NEW r \in Requests, Open(r), Finish(r), UNCHANGED db
    PROVE  IInv'
  <1>1. log' \in Seq(Entries)
    BY DEF IInv, Shapes, db
  <1>2. "done" \in Places \ {"idle"}
    BY DEF Places
  <1>3. QED
    BY <1>1, <1>2, FinishLeaves, MoveKeeps

LEMMA BeginKeeps ==
    ASSUME IInv, NEW r \in Requests, NEW b \in Bodies, Begin(r, b)
    PROVE  IInv'
  <1>1. \A q \in Requests : pc'[q] = IF q = r THEN "check" ELSE pc[q]
    BY DEF Begin, IInv, TypeOK
  <1>2. /\ UNCHANGED <<funds, alloc, log, manual, step, seen, there, previous, target, doomed>>
        /\ body' = [body EXCEPT ![r] = b]
        /\ pc[r] = "idle"
    BY DEF Begin, db, locals
  <1>3. met \subseteq met' /\ met' \subseteq Requests \X Requests
    BY DEF Begin, IInv, TypeOK
  <1>4. ASSUME NEW q \in Requests, Open(q) PROVE <<r, q>> \in met' /\ <<q, r>> \in met'
    <2>1. {<<r, q>>, <<q, r>>} \in {{<<r, p>>, <<p, r>>} : p \in {p \in Requests : Open(p)}}
      BY <1>4
    <2>2. <<r, q>> \in {<<r, q>>, <<q, r>>} /\ <<q, r>> \in {<<r, q>>, <<q, r>>}
      OBVIOUS
    <2>3. QED
      BY <2>1, <2>2 DEF Begin
  <1>5. Shapes'
    BY <1>2 DEF IInv, Shapes
  <1>6. \A q \in Requests \ {r} : Kept(q)
    BY <1>1, <1>2 DEF Kept, IInv, Shapes
  <1>7. TypeOK'
    <2>1. body'[r] # None
      BY <1>2, ConstantsOK DEF IInv, Shapes
    <2>2. LocalOK(r)'
      BY <1>1, <1>2, <2>1 DEF IInv, TypeOK, LocalOK
    <2>3. \A q \in Requests \ {r} : LocalOK(q)'
      BY <1>6 DEF IInv, TypeOK, LocalOK, Kept
    <2>4. pc' \in [Requests -> Places]
      BY DEF Begin, IInv, TypeOK, Places
    <2>5. QED
      BY <1>2, <1>3, <2>2, <2>3, <2>4 DEF IInv, TypeOK, LocalOK
  <1>8. MetInv'
    BY <1>1, <1>2, <1>3, <1>4 DEF IInv, MetInv, Open
  <1>14. DOMAIN seen'[r] = {}
    BY <1>2 DEF IInv, HandlersInv, HandlerFor, SeenFor
  <1>9. HandlerFor(r)' /\ PlacedBy(r)' = {}
    BY <1>1, <1>14 DEF HandlerFor, KindFor, Replacing, SeenFor, ItemsFor, Checked, SaveFor, DeleteFor,
         PlacedFor, PlacedBy
  <1>10. \A q \in Requests \ {r} : HandlerFor(q)' /\ PlacedBy(q)' = PlacedBy(q)
    BY <1>2, <1>3, <1>6, OtherKeeps DEF IInv
  <1>11. HandlersInv' /\ PlacedApart'
    BY <1>9, <1>10 DEF IInv, HandlersInv, PlacedApart
  <1>12. StaleRowsOnlyByRace' /\ ArchivedUnitsOnlyByRace'
    BY <1>2, <1>3 DEF IInv, StaleRowsOnlyByRace, ArchivedUnitsOnlyByRace
  <1>13. QED
    BY <1>5, <1>7, <1>8, <1>11, <1>12 DEF IInv

-----------------------------------------------------------------------------
\* The handler of r goes on: its place, its types, and that the others are kept.
LEMMA GoTyped ==
    ASSUME IInv, NEW r \in Requests, NEW p \in Places \ {"idle"}, NEW i \in Nat \ {0},
           Open(r), Go(r, p, i), UNCHANGED body,
           seen' \in [Requests -> Views], there' \in [Requests -> BOOLEAN],
           previous' \in [Requests -> SUBSET Entry],
           target' \in [Requests -> SUBSET Row], doomed' \in [Requests -> SUBSET Row],
           log' = log,
           \A q \in Requests \ {r} :
              /\ seen'[q] = seen[q] /\ there'[q] = there[q] /\ previous'[q] = previous[q]
              /\ target'[q] = target[q] /\ doomed'[q] = doomed[q],
           doomed'[r] \subseteq target'[r],
           p # "write" => target'[r] = {}
    PROVE  /\ pc' = [pc EXCEPT ![r] = p] /\ pc'[r] = p /\ step'[r] = i
           /\ Shapes' /\ LocalOK(r)'
           /\ \A q \in Requests \ {r} : Kept(q)
  <1>1. /\ pc' = [pc EXCEPT ![r] = p] /\ pc'[r] = p /\ step'[r] = i
        /\ step' \in [Requests -> Nat \ {0}]
        /\ \A q \in Requests \ {r} : pc'[q] = pc[q] /\ step'[q] = step[q]
    BY DEF Go, IInv, TypeOK, Shapes
  <1>2. Shapes'
    BY <1>1 DEF IInv, Shapes
  <1>3. LocalOK(r)'
    <2>1. body'[r] # None
      BY DEF IInv, TypeOK, Open
    <2>2. DOMAIN seen'[r] \subseteq Funds
      BY ViewsTyped
    <2>3. there'[r] \in BOOLEAN /\ previous'[r] \subseteq Entry /\ target'[r] \subseteq Row
      OBVIOUS
    <2>4. QED
      BY <1>1, <2>1, <2>2, <2>3 DEF LocalOK
  <1>4. \A q \in Requests \ {r} : Kept(q)
    BY <1>1 DEF Kept
  <1>5. QED
    BY <1>1, <1>2, <1>3, <1>4

\* The same where only the place and the position change.
LEMMA GoOnly ==
    ASSUME IInv, NEW r \in Requests, NEW p \in Places \ {"idle"}, NEW i \in Nat \ {0},
           Open(r), Go(r, p, i), UNCHANGED <<db, body, seen, there, previous, target, doomed>>,
           p # "write" => pc[r] # "write"
    PROVE  /\ pc' = [pc EXCEPT ![r] = p] /\ pc'[r] = p /\ step'[r] = i
           /\ Shapes' /\ LocalOK(r)'
           /\ \A q \in Requests \ {r} : Kept(q)
  <1>1. log' = log /\ doomed'[r] \subseteq target'[r] /\ (p # "write" => target'[r] = {})
    BY DEF IInv, TypeOK, db
  <1>2. QED
    BY <1>1, GoTyped DEF IInv, Shapes

\* What a handler that is not in its DELETE or after it has to keep.
LEMMA HandlerBefore ==
    ASSUME NEW r \in Requests, pc'[r] \in {"fund", "item", "price", "delete"},
           KindFor(r)', SeenFor(r)', ItemsFor(r)'
    PROVE  HandlerFor(r)' /\ PlacedBy(r)' = {}
  BY DEF HandlerFor, SaveFor, DeleteFor, PlacedFor, PlacedBy

\* Nothing that r knows of a fund is lost while the funds stay.
LEMMA KnowledgeStays ==
    ASSUME NEW r \in Requests, UNCHANGED <<funds, body, met>>, NEW f
    PROVE  /\ Items(r)' = Items(r) /\ Created(r)' = Created(r)
           /\ Known(r, f)' <=> Known(r, f)
           /\ ArchivedSince(r, f)' <=> ArchivedSince(r, f)
  BY DEF Items, Created, Known, ArchivedSince

LEMMA OwnedTyped ==
    ASSUME IInv, NEW r \in Requests, body[r] \in Bodies, Replaces(body[r])
    PROVE  /\ Owned(r) \in Views
           /\ \A f \in DOMAIN Owned(r) :
                 Known(r, f) /\ (~Owned(r)[f] => (f \in DOMAIN funds => ~funds[f].archived))
  <1> DEFINE D == DOMAIN funds \cup {Created(r)[i] : i \in DOMAIN Created(r)}
  <1>1. D \in SUBSET Funds
    BY BodyTyped DEF Created, IInv, TypeOK
  <1>2. ASSUME NEW f \in D PROVE (f \in DOMAIN funds /\ funds[f].archived) \in BOOLEAN
    OBVIOUS
  <1>3. Owned(r) \in [D -> BOOLEAN]
    BY <1>2 DEF Owned
  <1>4. \A f \in D : Known(r, f)
    BY DEF Known
  <1>5. \A f \in D : Owned(r)[f] = (f \in DOMAIN funds /\ funds[f].archived)
    BY DEF Owned
  <1> HIDE DEF D
  <1>6. QED
    BY <1>1, <1>3, <1>4, <1>5 DEF Views

LEMMA CheckItemsKeeps ==
    ASSUME IInv, NEW r \in Requests, CheckItems(r)
    PROVE  IInv'
  <1>1. pc[r] = "check" /\ Open(r) /\ body[r].kind = "put" /\ UNCHANGED db
    BY DEF CheckItems, Open
  <1>2. CASE Finish(r)
    BY <1>1, <1>2, FinishKeeps
  <1>3. CASE ~Finish(r)
    <2>1. /\ \A i \in DOMAIN Items(r) : Accepts(Items(r)[i], Owned(r))
          /\ Go(r, "item", Len(Items(r)) + 1)
          /\ UNCHANGED <<db, body, seen, there, previous, target, doomed, met>>
      BY <1>1, <1>3 DEF CheckItems
    <2>2. body[r] \in Bodies /\ Replaces(body[r])
      BY <1>1 DEF IInv, TypeOK, Shapes, Replaces
    <2>3. Len(Items(r)) \in Nat
      BY <2>2, BodyTyped DEF Items
    <2>4. /\ pc' = [pc EXCEPT ![r] = "item"] /\ pc'[r] = "item" /\ step'[r] = Len(Items(r)) + 1
          /\ Shapes' /\ LocalOK(r)' /\ \A q \in Requests \ {r} : Kept(q)
      BY <1>1, <2>1, <2>3, GoOnly DEF Places
    <2>5. /\ Items(r)' = Items(r)
          /\ \A f : (Known(r, f) => Known(r, f)') /\ (ArchivedSince(r, f) => ArchivedSince(r, f)')
      BY <2>1, KnowledgeStays DEF db
    <2>6. ItemsFor(r)'
      <3>1. ASSUME NEW i \in DOMAIN Items(r)
            PROVE  /\ Known(r, Items(r)[i].fund)
                   /\ Items(r)[i].units # 0 => ArchivedSince(r, Items(r)[i].fund)
        BY <2>1, <2>2, OwnedTyped DEF Accepts, ArchivedSince
      <3>2. QED
        BY <2>5, <3>1 DEF ItemsFor
    <2>7. SeenFor(r)' /\ KindFor(r)'
      <3>1. DOMAIN seen'[r] = {}
        BY <1>1, <2>1 DEF IInv, HandlersInv, HandlerFor, SeenFor
      <3>2. QED
        BY <2>1, <2>2, <2>4, <3>1 DEF SeenFor, KindFor, Replacing
    <2>8. HandlerFor(r)' /\ PlacedBy(r)' = {}
      BY <2>4, <2>6, <2>7, HandlerBefore
    <2>9. QED
      BY <1>1, <2>1, <2>4, <2>8, MoveKeeps DEF Places
  <1>4. QED
    BY <1>2, <1>3

\* The flush of the new funds is reached, or goes on.
LEMMA ToFundKeeps ==
    ASSUME IInv, NEW r \in Requests, pc[r] \in {"check", "fund"}, Replaces(body[r]),
           NEW i \in Nat \ {0}, Go(r, "fund", i),
           UNCHANGED <<db, body, seen, there, previous, target, doomed, met>>
    PROVE  IInv'
  <1>1. Open(r) /\ "fund" \in Places \ {"idle"}
    BY DEF Open, Places
  <1>2. /\ pc' = [pc EXCEPT ![r] = "fund"] /\ pc'[r] = "fund"
        /\ Shapes' /\ LocalOK(r)' /\ \A q \in Requests \ {r} : Kept(q)
    BY <1>1, GoOnly
  <1>3. KindFor(r)' /\ SeenFor(r)' /\ ItemsFor(r)'
    BY <1>2 DEF IInv, HandlersInv, HandlerFor, KindFor, Replacing, SeenFor, ItemsFor, Checked
  <1>4. HandlerFor(r)' /\ PlacedBy(r)' = {}
    BY <1>2, <1>3, HandlerBefore
  <1>5. QED
    BY <1>1, <1>2, <1>4, MoveKeeps

LEMMA CheckCodesKeeps ==
    ASSUME IInv, NEW r \in Requests, CheckCodes(r)
    PROVE  IInv'
  <1>1. /\ pc[r] = "check" /\ Open(r) /\ Replaces(body[r]) /\ UNCHANGED db
        /\ \/ Finish(r)
           \/ Go(r, "fund", 1) /\ UNCHANGED <<body, seen, there, previous, target, doomed, met>>
    BY DEF CheckCodes, Open, Replaces
  <1>2. QED
    BY <1>1, FinishKeeps, ToFundKeeps

LEMMA AddFundKeeps ==
    ASSUME IInv, NEW r \in Requests, AddFund(r)
    PROVE  IInv'
  <1>1. /\ pc[r] = "fund" /\ Go(r, "fund", step[r] + 1)
        /\ UNCHANGED <<db, body, seen, there, previous, target, doomed, met>>
    BY DEF AddFund
  <1>2. Replaces(body[r])
    BY <1>1, ReplacingTyped DEF Replacing
  <1>3. step[r] + 1 \in Nat \ {0}
    BY DEF IInv, Shapes
  <1>4. QED
    BY <1>1, <1>2, <1>3, ToFundKeeps

LEMMA ReadOwnedKeeps ==
    ASSUME IInv, NEW r \in Requests, ReadOwned(r)
    PROVE  IInv'
  <1>1. /\ pc[r] = "fund" /\ Open(r) /\ Go(r, "item", 1)
        /\ seen' = [seen EXCEPT ![r] = Owned(r)]
        /\ UNCHANGED <<funds, alloc, log, manual, body, there, previous, target, doomed, met>>
    BY DEF ReadOwned, Open, db
  <1>2. body[r] \in Bodies /\ Replaces(body[r])
    BY <1>1, ReplacingTyped DEF Replacing
  <1>3. /\ Owned(r) \in Views
        /\ \A f \in DOMAIN Owned(r) :
              Known(r, f) /\ (~Owned(r)[f] => (f \in DOMAIN funds => ~funds[f].archived))
    BY <1>2, OwnedTyped
  <1>4. /\ seen' \in [Requests -> Views] /\ seen'[r] = Owned(r)
        /\ \A q \in Requests \ {r} : seen'[q] = seen[q]
    BY <1>1, <1>3 DEF IInv, Shapes
  <1>5. target'[r] = {} /\ doomed'[r] \subseteq target'[r]
    BY <1>1 DEF IInv, TypeOK
  <1>6. "item" \in Places \ {"idle"} /\ 1 \in Nat \ {0}
    BY DEF Places
  <1>7. /\ pc' = [pc EXCEPT ![r] = "item"] /\ pc'[r] = "item" /\ step'[r] = 1
        /\ Shapes' /\ LocalOK(r)' /\ \A q \in Requests \ {r} : Kept(q)
    BY <1>1, <1>4, <1>5, <1>6, GoTyped DEF IInv, Shapes
  <1>8. /\ Items(r)' = Items(r)
        /\ \A f : (Known(r, f) => Known(r, f)') /\ (ArchivedSince(r, f) => ArchivedSince(r, f)')
    BY <1>1, KnowledgeStays
  <1>9. SeenFor(r)'
    BY <1>3, <1>4, <1>7, <1>8 DEF SeenFor, ArchivedSince
  <1>10. ItemsFor(r)'
    <2>1. \A i \in DOMAIN Items(r) : ~(i < 1)
      BY <1>2, BodyTyped DEF Items
    <2>2. QED
      BY <1>7, <1>8, <2>1 DEF ItemsFor, Checked
  <1>11. KindFor(r)'
    BY <1>1, <1>2, <1>7 DEF KindFor, Replacing
  <1>12. HandlerFor(r)' /\ PlacedBy(r)' = {}
    BY <1>7, <1>9, <1>10, <1>11, HandlerBefore
  <1>13. UNCHANGED <<db, body, met>>
    BY <1>1 DEF db
  <1>14. QED
    BY <1>1, <1>6, <1>7, <1>12, <1>13, MoveKeeps

LEMMA TakeItemKeeps ==
    ASSUME IInv, NEW r \in Requests, TakeItem(r)
    PROVE  IInv'
  <1>1. pc[r] = "item" /\ step[r] <= Len(Items(r)) /\ Open(r) /\ UNCHANGED db
    BY DEF TakeItem, Open
  <1>2. CASE Finish(r)
    BY <1>1, <1>2, FinishKeeps
  <1>3. CASE ~Finish(r)
    <2>1. /\ Accepts(Items(r)[step[r]], seen[r])
          /\ \/ /\ Go(r, "price", step[r])
                /\ there' = [there EXCEPT ![r] = Items(r)[step[r]].fund \in manual]
             \/ Go(r, "item", step[r] + 1) /\ UNCHANGED there
          /\ UNCHANGED <<body, seen, previous, target, doomed, met>>
      BY <1>1, <1>3 DEF TakeItem
    <2>2. body[r] \in Bodies /\ Replaces(body[r]) /\ step[r] \in Nat \ {0}
      BY <1>1, ReplacingTyped DEF Replacing, IInv, Shapes
    <2>3. step[r] \in DOMAIN Items(r) /\ \A i \in DOMAIN Items(r) : i \in Nat
      BY <1>1, <2>2, BodyTyped DEF Items
    <2>4. /\ there' \in [Requests -> BOOLEAN]
          /\ \A q \in Requests \ {r} : there'[q] = there[q]
      <3>1. (Items(r)[step[r]].fund \in manual) \in BOOLEAN
        OBVIOUS
      <3>2. QED
        BY <2>1, <3>1 DEF IInv, Shapes
    <2>5. target'[r] = {} /\ doomed'[r] \subseteq target'[r] /\ log' = log
      BY <1>1, <2>1 DEF IInv, TypeOK, db
    <2>6. PICK p \in {"price", "item"}, n \in {step[r], step[r] + 1} :
             /\ Go(r, p, n)
             /\ p = "price" => n = step[r]
             /\ p = "item" => n = step[r] + 1
      BY <2>1
    <2>7. p \in Places \ {"idle"} /\ n \in Nat \ {0} /\ p # "write"
      BY <2>2, <2>6 DEF Places
    <2>8. /\ pc' = [pc EXCEPT ![r] = p] /\ pc'[r] = p /\ step'[r] = n
          /\ Shapes' /\ LocalOK(r)' /\ \A q \in Requests \ {r} : Kept(q)
      BY <1>1, <2>1, <2>4, <2>5, <2>6, <2>7, GoTyped DEF IInv, Shapes
    <2>9. /\ Items(r)' = Items(r)
          /\ \A f : (Known(r, f) => Known(r, f)') /\ (ArchivedSince(r, f) => ArchivedSince(r, f)')
      BY <1>1, <2>1, KnowledgeStays DEF db
    <2>10. \A f \in DOMAIN seen[r] : Known(r, f) /\ (~seen[r][f] => ArchivedSince(r, f))
      BY DEF IInv, HandlersInv, HandlerFor, SeenFor
    <2>11. ItemsFor(r)'
      <3>1. ASSUME NEW i \in DOMAIN Items(r), i <= step[r]
            PROVE  /\ Known(r, Items(r)[i].fund)
                   /\ Items(r)[i].units # 0 => ArchivedSince(r, Items(r)[i].fund)
        <4>1. CASE i = step[r]
          BY <2>1, <2>10, <4>1 DEF Accepts
        <4>2. CASE i # step[r]
          <5>1. i < step[r]
            BY <2>2, <2>3, <3>1, <4>2
          <5>2. QED
            BY <1>1, <5>1 DEF IInv, HandlersInv, HandlerFor, ItemsFor, Checked
        <4>3. QED
          BY <4>1, <4>2
      <3>2. \A i \in DOMAIN Items(r) : Checked(r, i)' => i <= step[r]
        BY <2>2, <2>3, <2>6, <2>8 DEF Checked
      <3>3. QED
        BY <2>9, <3>1, <3>2 DEF ItemsFor
    <2>12. SeenFor(r)'
      BY <2>1, <2>6, <2>8, <2>9, <2>10 DEF SeenFor
    <2>13. KindFor(r)'
      BY <2>1, <2>2, <2>3, <2>6, <2>8, <2>9 DEF KindFor, Replacing
    <2>14. HandlerFor(r)' /\ PlacedBy(r)' = {}
      BY <2>6, <2>8, <2>11, <2>12, <2>13, HandlerBefore
    <2>15. QED
      BY <1>1, <2>1, <2>7, <2>8, <2>14, MoveKeeps
  <1>4. QED
    BY <1>2, <1>3

LEMMA WritePriceKeeps ==
    ASSUME IInv, NEW r \in Requests, WritePrice(r)
    PROVE  IInv'
  <1>1. /\ pc[r] = "price" /\ Open(r) /\ Go(r, "item", step[r] + 1)
        /\ there' = [there EXCEPT ![r] = FALSE]
        /\ UNCHANGED <<db, body, seen, previous, target, doomed, met>>
    BY DEF WritePrice, Open
  <1>2. body[r] \in Bodies /\ Replaces(body[r]) /\ step[r] \in Nat \ {0}
    BY <1>1, ReplacingTyped DEF Replacing, IInv, Shapes
  <1>3. \A i \in DOMAIN Items(r) : i \in Nat
    BY <1>2, BodyTyped DEF Items
  <1>4. /\ there' \in [Requests -> BOOLEAN]
        /\ \A q \in Requests \ {r} : there'[q] = there[q]
    BY <1>1 DEF IInv, Shapes
  <1>5. target'[r] = {} /\ doomed'[r] \subseteq target'[r] /\ log' = log
    BY <1>1 DEF IInv, TypeOK, db
  <1>6. "item" \in Places \ {"idle"} /\ step[r] + 1 \in Nat \ {0}
    BY <1>2 DEF Places
  <1>7. /\ pc' = [pc EXCEPT ![r] = "item"] /\ pc'[r] = "item" /\ step'[r] = step[r] + 1
        /\ Shapes' /\ LocalOK(r)' /\ \A q \in Requests \ {r} : Kept(q)
    BY <1>1, <1>4, <1>5, <1>6, GoTyped DEF IInv, Shapes
  <1>8. /\ Items(r)' = Items(r)
        /\ \A f : (Known(r, f) => Known(r, f)') /\ (ArchivedSince(r, f) => ArchivedSince(r, f)')
    BY <1>1, KnowledgeStays DEF db
  <1>9. ItemsFor(r)'
    <2>1. \A i \in DOMAIN Items(r) : Checked(r, i)' => Checked(r, i)
      BY <1>1, <1>2, <1>3, <1>7 DEF Checked
    <2>2. QED
      BY <1>8, <2>1 DEF IInv, HandlersInv, HandlerFor, ItemsFor
  <1>10. SeenFor(r)' /\ KindFor(r)'
    BY <1>1, <1>2, <1>7, <1>8 DEF IInv, HandlersInv, HandlerFor, SeenFor, KindFor, Replacing
  <1>11. HandlerFor(r)' /\ PlacedBy(r)' = {}
    BY <1>7, <1>9, <1>10, HandlerBefore
  <1>12. QED
    BY <1>1, <1>6, <1>7, <1>11, MoveKeeps

LEMMA ReadPreviousKeeps ==
    ASSUME IInv, NEW r \in Requests, ReadPrevious(r)
    PROVE  IInv'
  <1>1. /\ pc[r] = "item" /\ step[r] > Len(Items(r)) /\ Open(r) /\ Go(r, "delete", 1)
        /\ previous' = [previous EXCEPT ![r] = CanonicalIn(alloc)]
        /\ seen' = [seen EXCEPT ![r] = << >>]
        /\ UNCHANGED <<db, body, there, target, doomed, met>>
    BY DEF ReadPrevious, Open
  <1>2. body[r] \in Bodies /\ Replaces(body[r]) /\ step[r] \in Nat \ {0}
    BY <1>1, ReplacingTyped DEF Replacing, IInv, Shapes
  <1>3. \A i \in DOMAIN Items(r) : i < step[r]
    BY <1>1, <1>2, BodyTyped DEF Items
  <1>4. /\ previous' \in [Requests -> SUBSET Entry]
        /\ seen' \in [Requests -> Views] /\ seen'[r] = << >>
        /\ \A q \in Requests \ {r} : previous'[q] = previous[q] /\ seen'[q] = seen[q]
    <2>1. CanonicalIn(alloc) \in SUBSET Entry
      BY CanonicalTyped DEF IInv, TypeOK
    <2>2. QED
      BY <1>1, <2>1, ViewsTyped DEF IInv, Shapes
  <1>5. target'[r] = {} /\ doomed'[r] \subseteq target'[r] /\ log' = log
    BY <1>1 DEF IInv, TypeOK, db
  <1>6. "delete" \in Places \ {"idle"} /\ 1 \in Nat \ {0}
    BY DEF Places
  <1>7. /\ pc' = [pc EXCEPT ![r] = "delete"] /\ pc'[r] = "delete" /\ step'[r] = 1
        /\ Shapes' /\ LocalOK(r)' /\ \A q \in Requests \ {r} : Kept(q)
    BY <1>1, <1>4, <1>5, <1>6, GoTyped DEF IInv, Shapes
  <1>8. /\ Items(r)' = Items(r)
        /\ \A f : (Known(r, f) => Known(r, f)') /\ (ArchivedSince(r, f) => ArchivedSince(r, f)')
    BY <1>1, KnowledgeStays DEF db
  <1>9. ItemsFor(r)'
    BY <1>1, <1>3, <1>8 DEF IInv, HandlersInv, HandlerFor, ItemsFor, Checked
  <1>10. SeenFor(r)' /\ KindFor(r)'
    BY <1>1, <1>2, <1>4, <1>7, ViewsTyped DEF SeenFor, KindFor, Replacing
  <1>11. HandlerFor(r)' /\ PlacedBy(r)' = {}
    BY <1>7, <1>9, <1>10, HandlerBefore
  <1>12. QED
    BY <1>1, <1>6, <1>7, <1>11, MoveKeeps

\* What the items of r were found to be stays so after its SELECTs.
LEMMA ItemsStay ==
    ASSUME IInv, NEW r \in Requests, pc[r] \in {"delete", "write"}, pc'[r] = "write",
           UNCHANGED <<funds, body, met, seen>>
    PROVE  Items(r)' = Items(r) /\ KindFor(r)' /\ SeenFor(r)' /\ ItemsFor(r)' /\ SaveFor(r)'
  <1>1. /\ Items(r)' = Items(r) /\ Replaces(body[r])
        /\ \A f : (Known(r, f) => Known(r, f)') /\ (ArchivedSince(r, f) => ArchivedSince(r, f)')
    BY KnowledgeStays, ReplacingTyped DEF Replacing
  <1>2. QED
    BY <1>1
    DEF IInv, HandlersInv, HandlerFor, KindFor, SeenFor, ItemsFor, Checked, SaveFor

LEMMA DeleteKeeps ==
    ASSUME IInv, NEW r \in Requests, Delete(r)
    PROVE  IInv'
  <1>1. /\ pc[r] = "delete" /\ Open(r) /\ Go(r, "write", 1)
        /\ target' = [target EXCEPT ![r] = alloc]
        /\ UNCHANGED <<funds, alloc, log, manual, body, seen, there, previous, doomed, met>>
    BY DEF Delete, Open, db
  <1>2. body[r] \in Bodies /\ Replaces(body[r])
    BY <1>1, ReplacingTyped DEF Replacing
  <1>3. alloc \in SUBSET Row /\ doomed[r] = {} /\ \A x, y \in alloc : x.fund = y.fund => x = y
    BY <1>1 DEF IInv, TypeOK
  <1>4. /\ target' \in [Requests -> SUBSET Row] /\ target'[r] = alloc /\ doomed'[r] = {}
        /\ \A q \in Requests \ {r} : target'[q] = target[q]
    BY <1>1, <1>3 DEF IInv, Shapes
  <1>5. "write" \in Places \ {"idle"} /\ 1 \in Nat \ {0}
    BY DEF Places
  <1>6. /\ pc' = [pc EXCEPT ![r] = "write"] /\ pc'[r] = "write" /\ step'[r] = 1
        /\ Shapes' /\ LocalOK(r)' /\ \A q \in Requests \ {r} : Kept(q)
    BY <1>1, <1>4, <1>5, GoTyped DEF IInv, Shapes
  <1>7. Items(r)' = Items(r) /\ \A i \in DOMAIN Items(r) : ~(i < 1)
    BY <1>1, <1>2, BodyTyped DEF Items
  <1>8. KindFor(r)' /\ SeenFor(r)' /\ ItemsFor(r)' /\ SaveFor(r)'
    BY <1>1, <1>6, ItemsStay
  <1>9. DeleteFor(r)'
    BY <1>1, <1>3, <1>4 DEF DeleteFor
  <1>10. PlacedFor(r)' /\ PlacedBy(r)' = {}
    BY <1>6, <1>7 DEF PlacedFor, PlacedBy
  <1>11. UNCHANGED <<db, body, met>>
    BY <1>1 DEF db
  <1>12. QED
    BY <1>1, <1>5, <1>6, <1>8, <1>9, <1>10, <1>11, MoveKeeps DEF HandlerFor

LEMMA DeleteRowKeeps ==
    ASSUME IInv, NEW r \in Requests, DeleteRow(r)
    PROVE  IInv'
  <1>1. /\ pc[r] = "write" /\ Open(r)
        /\ UNCHANGED <<funds, alloc, log, manual, pc, body, step, seen, there, previous, target, met>>
    BY DEF DeleteRow, Open, db
  <1>2. PICK x \in target[r] : ComesTo(r, x) /\ doomed' = [doomed EXCEPT ![r] = @ \cup {x}]
    BY DEF DeleteRow
  <1>3. /\ doomed' \in [Requests -> SUBSET Row] /\ doomed'[r] = doomed[r] \cup {x}
        /\ \A q \in Requests \ {r} : doomed'[q] = doomed[q]
    BY <1>1, <1>2 DEF IInv, Shapes
  <1>4. pc' = [pc EXCEPT ![r] = "write"] /\ "write" \in Places \ {"idle"}
    BY <1>1 DEF IInv, TypeOK, Places
  <1>5. Shapes'
    BY <1>1, <1>3 DEF IInv, Shapes
  <1>6. LocalOK(r)' /\ \A q \in Requests \ {r} : Kept(q)
    BY <1>1, <1>2, <1>3 DEF IInv, TypeOK, LocalOK, Kept
  <1>7. KindFor(r)' /\ SeenFor(r)' /\ ItemsFor(r)' /\ SaveFor(r)' /\ Items(r)' = Items(r)
    BY <1>1, ItemsStay
  <1>8. DeleteFor(r)'
    <2>1. \A y \in target[r] \ doomed[r] : PlaceOf(x) <= PlaceOf(y)
      BY <1>2 DEF ComesTo
    <2>2. QED
      BY <1>1, <1>3, <2>1 DEF IInv, HandlersInv, HandlerFor, DeleteFor, Foreign, PlaceOf
  <1>9. PlacedFor(r)'
    BY <1>1, <1>2, <1>7 DEF IInv, HandlersInv, HandlerFor, PlacedFor, ComesTo
  <1>10. PlacedBy(r)' = PlacedBy(r)
    BY <1>1 DEF PlacedBy, RowOf, Items
  <1>11. \A q \in Requests \ {r} : PlacedBy(r)' \cap PlacedBy(q) = {}
    BY <1>10 DEF IInv, PlacedApart
  <1>12. UNCHANGED <<db, body, met>>
    BY <1>1 DEF db
  <1>13. QED
    BY <1>1, <1>4, <1>5, <1>6, <1>7, <1>8, <1>9, <1>11, <1>12, MoveKeeps DEF HandlerFor

LEMMA InsertRowKeeps ==
    ASSUME IInv, NEW r \in Requests, InsertRow(r)
    PROVE  IInv'
  <1>1. /\ pc[r] = "write" /\ Open(r) /\ Go(r, "write", step[r] + 1)
        /\ doomed[r] = target[r] /\ step[r] <= Len(Items(r)) /\ ~Waits(r) /\ ~Conflict(r)
        /\ UNCHANGED <<funds, alloc, log, manual, body, seen, there, previous, target, doomed, met>>
    BY DEF InsertRow, Runs, Open, db
  <1>2. body[r] \in Bodies /\ Replaces(body[r]) /\ step[r] \in Nat \ {0}
    BY <1>1, ReplacingTyped DEF Replacing, IInv, Shapes
  <1>3. step[r] \in DOMAIN Items(r) /\ \A i \in DOMAIN Items(r) : i \in Nat
    BY <1>1, <1>2, BodyTyped DEF Items
  <1>4. "write" \in Places \ {"idle"} /\ step[r] + 1 \in Nat \ {0} /\ UNCHANGED <<db, body, met>>
    BY <1>1, <1>2 DEF Places, db
  <1>5. /\ pc' = [pc EXCEPT ![r] = "write"] /\ pc'[r] = "write" /\ step'[r] = step[r] + 1
        /\ Shapes' /\ LocalOK(r)' /\ \A q \in Requests \ {r} : Kept(q)
    BY <1>1, <1>4, GoOnly
  <1>6. KindFor(r)' /\ SeenFor(r)' /\ ItemsFor(r)' /\ SaveFor(r)' /\ Items(r)' = Items(r)
    BY <1>1, <1>5, ItemsStay
  <1>7. DeleteFor(r)'
    BY <1>1 DEF IInv, HandlersInv, HandlerFor, DeleteFor, Foreign, PlaceOf
  <1>8. AddsRow(r, RowOf(r, step[r]).fund) /\ RowOf(r, step[r]).fund = Items(r)[step[r]].fund
    BY <1>1, <1>2, <1>3, RowTyped DEF AddsRow
  <1>9. PlacedFor(r)'
    <2>1. ASSUME NEW i \in DOMAIN Items(r), i < step[r] + 1, NEW x \in alloc \ target[r]
          PROVE  x.fund # Items(r)[i].fund
      <3>1. CASE i = step[r]
        BY <1>1, <1>8, <2>1, <3>1 DEF Conflict
      <3>2. CASE i < step[r]
        BY <1>1, <2>1, <3>2 DEF IInv, HandlersInv, HandlerFor, PlacedFor
      <3>3. QED
        BY <1>2, <1>3, <2>1, <3>1, <3>2
    <2>2. QED
      BY <1>1, <1>5, <1>6, <2>1 DEF PlacedFor
  <1>10. ASSUME NEW q \in Requests \ {r}, NEW f \in PlacedBy(r)', f \in PlacedBy(q)
         PROVE  FALSE
    <2>1. PICK i \in DOMAIN Items(r) : f \in Funds /\ f = RowOf(r, i).fund /\ i < step[r] + 1
      BY <1>1, <1>5, <1>6, <1>10 DEF PlacedBy, RowOf, Items
    <2>2. CASE i = step[r]
      BY <1>1, <1>8, <1>10, <2>1, <2>2 DEF Waits, WaitsFor
    <2>3. CASE i < step[r]
      <3>1. f \in PlacedBy(r)
        BY <1>1, <2>1, <2>3 DEF PlacedBy
      <3>2. QED
        BY <1>10, <3>1 DEF IInv, PlacedApart
    <2>4. QED
      BY <1>2, <1>3, <2>1, <2>2, <2>3
  <1>11. \A q \in Requests \ {r} : PlacedBy(r)' \cap PlacedBy(q) = {}
    BY <1>10
  <1>12. QED
    BY <1>1, <1>4, <1>5, <1>6, <1>7, <1>9, <1>11, MoveKeeps DEF HandlerFor

LEMMA CheckFundKeeps ==
    ASSUME IInv, NEW r \in Requests, CheckFund(r)
    PROVE  IInv'
  <1>1. pc[r] = "check" /\ Open(r) /\ ~Replaces(body[r]) /\ UNCHANGED db
    BY DEF CheckFund, Open
  <1>2. CASE Finish(r)
    BY <1>1, <1>2, FinishKeeps
  <1>3. CASE ~Finish(r)
    <2>1. /\ ~RefusesFund(body[r]) /\ ~KeepsFund(body[r]) /\ Go(r, "save", 1)
          /\ UNCHANGED <<funds, alloc, log, manual, db, body, seen, there, previous, target, doomed, met>>
      BY <1>1, <1>3 DEF CheckFund, db
    <2>2. "save" \in Places \ {"idle"} /\ 1 \in Nat \ {0}
      BY DEF Places
    <2>3. /\ pc' = [pc EXCEPT ![r] = "save"] /\ pc'[r] = "save"
          /\ Shapes' /\ LocalOK(r)' /\ \A q \in Requests \ {r} : Kept(q)
      BY <1>1, <2>1, <2>2, GoOnly
    <2>4. SaveFor(r)'
      <3>1. body[r].kind = "archive" => ~ \E x \in alloc : x.fund = body[r].fund /\ x.units > 0
        BY <2>1 DEF RefusesFund, KeepsFund
      <3>2. QED
        BY <2>1, <3>1 DEF SaveFor
    <2>5. KindFor(r)' /\ SeenFor(r)' /\ ItemsFor(r)'
      BY <1>1, <2>1, <2>3
      DEF IInv, HandlersInv, HandlerFor, KindFor, Replacing, SeenFor, ItemsFor, Checked
    <2>6. HandlerFor(r)' /\ PlacedBy(r)' = {}
      BY <2>3, <2>4, <2>5 DEF HandlerFor, DeleteFor, PlacedFor, PlacedBy
    <2>7. QED
      BY <1>1, <2>1, <2>2, <2>3, <2>6, MoveKeeps
  <1>4. QED
    BY <1>2, <1>3

-----------------------------------------------------------------------------
LEMMA CommitKeeps ==
    ASSUME IInv, NEW r \in Requests, Commit(r)
    PROVE  IInv'
  <1> DEFINE new == CanonicalOf(Items(r))
             row == [archived |-> FALSE, by |-> None]
             entry == [old |-> previous[r], new |-> new, by |-> r]
  <1>1. /\ pc[r] = "write" /\ Open(r) /\ Replacing(r)
        /\ doomed[r] = target[r] /\ step[r] > Len(Items(r))
        /\ funds' = WithFunds(HeldFunds(r), row)
        /\ alloc' = (alloc \ doomed[r]) \cup RowsOf(r)
        /\ log' = Append(log, entry) \/ log' = log
        /\ manual' = manual \cup HeldPrices(r)
        /\ Finish(r)
    BY DEF Commit, Open, Replacing
  <1>2. body[r] \in Bodies /\ Replaces(body[r]) /\ step[r] \in Nat \ {0}
    BY <1>1, ReplacingTyped DEF IInv, Shapes
  <1>3. \A i \in DOMAIN Items(r) : i < step[r]
    BY <1>1, <1>2, BodyTyped DEF Items
  <1>4. \A i \in DOMAIN Items(r) :
           /\ Known(r, Items(r)[i].fund)
           /\ Items(r)[i].units # 0 => ArchivedSince(r, Items(r)[i].fund)
    BY <1>1 DEF IInv, HandlersInv, HandlerFor, ItemsFor, Checked
  <1>5. /\ HeldFunds(r) \subseteq Funds /\ HeldPrices(r) \subseteq Funds
        /\ \A i \in DOMAIN Created(r) : Created(r)[i] \in HeldFunds(r)
    BY <1>1, <1>2, BodyTyped DEF HeldFunds, HeldPrices, Created
  <1>6. /\ DOMAIN funds' = DOMAIN funds \cup HeldFunds(r)
        /\ \A f \in DOMAIN funds' : funds'[f] = row \/ (f \in DOMAIN funds /\ funds'[f] = funds[f])
        /\ ~row.archived /\ row \in [archived : BOOLEAN, by : Requests \cup {None}]
    <2>1. ~row.archived /\ row \in [archived : BOOLEAN, by : Requests \cup {None}]
      OBVIOUS
    <2> HIDE DEF row
    <2>2. QED
      BY <1>1, <2>1 DEF WithFunds
  <1> HIDE DEF row
  <1>7. \A x \in alloc' :
           \/ x \in alloc \ target[r]
           \/ x \in RowsOf(r) /\ x \in Row /\ x.by = r
    BY <1>1, <1>2, RowTyped DEF RowsOf
  <1>8. \A x \in RowsOf(r) : \E i \in DOMAIN Items(r) :
           /\ x = RowOf(r, i) /\ x.by = r /\ x.fund = Items(r)[i].fund
           /\ x.units > 0 => Items(r)[i].units # 0
    BY <1>2, RowTyped DEF RowsOf
  <1>9. \A x \in alloc \ target[r], y \in RowsOf(r) : x.fund # y.fund
    BY <1>1, <1>3, <1>8 DEF IInv, HandlersInv, HandlerFor, PlacedFor
  <1>10. \A x, y \in RowsOf(r) : x.fund = y.fund => x = y
    BY <1>2, <1>8, BodyTyped DEF Items
  <1>11. log' \in Seq(Entries)
    <2>1. previous[r] \in SUBSET Entry /\ new \in SUBSET Entry
      BY <1>2, CanonicalTyped DEF IInv, Shapes, Items
    <2> HIDE DEF new
    <2>2. entry \in Entries
      BY <2>1 DEF Entries
    <2> HIDE DEF entry
    <2>3. log \in Seq(Entries)
      BY DEF IInv, Shapes
    <2>4. log' = Append(log, entry) \/ log' = log
      BY <1>1
    <2>5. QED
      BY <2>2, <2>3, <2>4, AppendProperties
  <1>12. /\ pc' = [pc EXCEPT ![r] = "done"] /\ UNCHANGED <<body, met>>
         /\ pc'[r] = "done" /\ target'[r] = {} /\ doomed'[r] = {}
         /\ Shapes'
         /\ \A q \in Requests \ {r} : Kept(q)
         /\ LocalOK(r)' /\ HandlerFor(r)' /\ PlacedBy(r)' = {}
    BY <1>1, <1>11, FinishLeaves
  <1>13. TypeOK'
    <2>1. /\ DOMAIN funds' \subseteq Funds
          /\ \A f \in DOMAIN funds' : funds'[f] \in [archived : BOOLEAN, by : Requests \cup {None}]
      BY <1>5, <1>6 DEF IInv, TypeOK
    <2>2. alloc' \subseteq Row /\ \A x \in alloc' : x.fund \in DOMAIN funds'
      BY <1>4, <1>5, <1>6, <1>7, <1>8 DEF IInv, TypeOK, Known
    <2>3. \A x, y \in alloc' : x.fund = y.fund => x = y
      BY <1>7, <1>9, <1>10 DEF IInv, TypeOK
    <2>4. \A q \in Requests : LocalOK(q)'
      BY <1>12 DEF IInv, TypeOK, LocalOK, Kept
    <2>5. pc' \in [Requests -> Places]
      BY <1>12 DEF IInv, TypeOK, Places
    <2>6. \A i \in DOMAIN log' :
             log'[i].old \subseteq Entry /\ log'[i].new \subseteq Entry /\ log'[i].by \in Requests
      BY <1>11, LogTyped
    <2>7. manual' \subseteq Funds /\ met' \subseteq Requests \X Requests
      BY <1>1, <1>5, <1>12 DEF IInv, TypeOK
    <2>8. QED
      BY <2>1, <2>2, <2>3, <2>4, <2>5, <2>6, <2>7 DEF TypeOK, LocalOK
  <1>14. MetInv'
    BY <1>12 DEF IInv, TypeOK, MetInv, Open, Kept
  <1>15. ASSUME NEW q \in Requests, q # r
         PROVE  HandlerFor(q)' /\ PlacedBy(q)' = PlacedBy(q)
    <2>1. /\ Kept(q) /\ met' = met /\ HandlerFor(q)
          /\ Items(q)' = Items(q) /\ Created(q)' = Created(q)
      BY <1>12, <1>15 DEF IInv, HandlersInv, Kept, Items, Created
    <2>2. Open(q) => <<r, q>> \in met /\ <<q, r>> \in met
      BY <1>1, <1>15 DEF IInv, MetInv
    <2>3. \A f : (Known(q, f) => Known(q, f)') /\ (ArchivedSince(q, f) => ArchivedSince(q, f)')
      BY <1>6, <2>1 DEF Known, ArchivedSince
    <2>4. KindFor(q)' /\ SeenFor(q)' /\ ItemsFor(q)'
      BY <2>1, <2>3 DEF HandlerFor, Kept, KindFor, Replacing, SeenFor, ItemsFor, Checked
    <2>5. SaveFor(q)'
      BY <1>7, <2>1, <2>2 DEF HandlerFor, Kept, SaveFor, Open
    <2>6. DeleteFor(q)'
      BY <1>7, <2>1, <2>2 DEF HandlerFor, Kept, DeleteFor, Foreign, Open, PlaceOf
    <2>7. PlacedFor(q)'
      <3>1. SUFFICES ASSUME pc[q] = "write", NEW i \in DOMAIN Items(q), i < step[q],
                            NEW x \in alloc' \ target[q]
                     PROVE  x.fund # Items(q)[i].fund
        BY <2>1 DEF HandlerFor, Kept, PlacedFor
      <3>2. CASE x \in alloc
        BY <2>1, <3>1, <3>2 DEF HandlerFor, PlacedFor
      <3>3. CASE x \in RowsOf(r)
        <4>1. x.fund \in PlacedBy(r)
          BY <1>1, <1>3, <1>8, <3>3, PlacedMember
        <4>2. Items(q)[i].fund \in PlacedBy(q)
          BY <3>1, PlacedMember
        <4>3. QED
          BY <1>15, <4>1, <4>2 DEF IInv, PlacedApart
      <3>4. QED
        BY <1>7, <3>1, <3>2, <3>3
    <2>8. PlacedBy(q)' = PlacedBy(q)
      BY <2>1 DEF PlacedBy, RowOf, Items, Kept
    <2>9. QED
      BY <2>4, <2>5, <2>6, <2>7, <2>8 DEF HandlerFor
  <1>16. HandlersInv' /\ PlacedApart'
    BY <1>12, <1>15 DEF IInv, HandlersInv, PlacedApart
  <1>17. StaleRowsOnlyByRace'
    <2>1. \A x \in alloc \ target[r] : Foreign(r, x)
      BY <1>1 DEF IInv, HandlersInv, HandlerFor, DeleteFor
    <2>2. QED
      BY <1>7, <1>12, <2>1 DEF IInv, StaleRowsOnlyByRace, Foreign
  <1>18. ArchivedUnitsOnlyByRace'
    <2>1. \A x \in alloc : x.fund \in DOMAIN funds
      BY DEF IInv, TypeOK
    <2>2. SUFFICES ASSUME NEW x \in alloc', x.units > 0, funds'[x.fund].archived
                   PROVE  <<x.by, funds'[x.fund].by>> \in met
      BY <1>12 DEF ArchivedUnitsOnlyByRace
    <2>3. x.fund \in DOMAIN funds /\ funds'[x.fund] = funds[x.fund]
      BY <1>6, <1>13, <2>2 DEF TypeOK
    <2>4. CASE x \in alloc
      BY <2>2, <2>3, <2>4 DEF IInv, ArchivedUnitsOnlyByRace
    <2>5. CASE x \in RowsOf(r)
      BY <1>4, <1>8, <2>2, <2>3, <2>5 DEF ArchivedSince
    <2>6. QED
      BY <1>7, <2>4, <2>5
  <1>19. QED
    BY <1>12, <1>13, <1>14, <1>16, <1>17, <1>18 DEF IInv

LEMMA SaveFundKeeps ==
    ASSUME IInv, NEW r \in Requests, SaveFund(r)
    PROVE  IInv'
  <1> DEFINE b == body[r]
             archives == b.kind = "archive"
             row == [archived |-> archives, by |-> IF archives THEN r ELSE None]
  <1>1. /\ pc[r] = "save" /\ Open(r)
        /\ funds' = WithFunds({b.fund}, row)
        /\ UNCHANGED <<alloc, log, manual>>
        /\ Finish(r)
    BY DEF SaveFund, Open
  <1>2. b.fund \in Funds
    <2>1. ~Replaces(b) /\ b # None
      BY <1>1 DEF IInv, TypeOK, HandlersInv, HandlerFor, KindFor
    <2>2. b \in Bodies
      BY <2>1 DEF IInv, Shapes
    <2>3. QED
      BY <2>1, <2>2, ConstantsOK DEF IsBody, Replaces
  <1>3. /\ row \in [archived : BOOLEAN, by : Requests \cup {None}]
        /\ row.archived => archives /\ row.by = r
    OBVIOUS
  <1>4. /\ DOMAIN funds' = DOMAIN funds \cup {b.fund}
        /\ funds'[b.fund] = row
        /\ \A f \in DOMAIN funds \ {b.fund} : funds'[f] = funds[f]
    BY <1>1 DEF WithFunds
  <1> HIDE DEF row
  <1>5. /\ pc' = [pc EXCEPT ![r] = "done"] /\ UNCHANGED <<body, met>>
        /\ Shapes'
        /\ \A q \in Requests \ {r} : Kept(q)
        /\ pc'[r] = "done" /\ LocalOK(r)' /\ HandlerFor(r)' /\ PlacedBy(r)' = {}
    BY <1>1, FinishLeaves DEF IInv, Shapes
  <1>6. TypeOK'
    <2>1. /\ DOMAIN funds' \subseteq Funds
          /\ \A f \in DOMAIN funds' : funds'[f] \in [archived : BOOLEAN, by : Requests \cup {None}]
          /\ {x.fund : x \in alloc} \subseteq DOMAIN funds'
      BY <1>2, <1>3, <1>4 DEF IInv, TypeOK
    <2>2. \A q \in Requests : LocalOK(q)'
      BY <1>5 DEF IInv, TypeOK, LocalOK, Kept
    <2>3. pc' \in [Requests -> Places]
      BY <1>5 DEF IInv, TypeOK, Places
    <2>4. QED
      BY <1>1, <1>5, <2>1, <2>2, <2>3 DEF IInv, TypeOK, LocalOK
  <1>7. MetInv'
    BY <1>5 DEF IInv, TypeOK, MetInv, Open, Kept
  <1>8. ASSUME NEW q \in Requests, q # r
        PROVE  HandlerFor(q)' /\ PlacedBy(q)' = PlacedBy(q)
    <2>1. /\ Kept(q) /\ met' = met /\ alloc' = alloc /\ HandlerFor(q)
          /\ Items(q)' = Items(q) /\ Created(q)' = Created(q)
      BY <1>1, <1>5, <1>8 DEF IInv, HandlersInv, Kept, Items, Created
    <2>2. Open(q) => <<q, r>> \in met
      BY <1>1, <1>8 DEF IInv, MetInv
    <2>3. \A f : Known(q, f) => Known(q, f)'
      BY <1>4, <2>1 DEF Known
    <2>4. ASSUME Open(q), NEW f, ArchivedSince(q, f) PROVE ArchivedSince(q, f)'
      BY <1>3, <1>4, <2>1, <2>2, <2>4 DEF ArchivedSince
    <2>5. SeenFor(q)'
      BY <2>1, <2>3, <2>4 DEF HandlerFor, Kept, SeenFor, Open
    <2>6. ItemsFor(q)'
      BY <2>1, <2>3, <2>4 DEF HandlerFor, Kept, ItemsFor, Checked, Open
    <2>7. KindFor(q)' /\ SaveFor(q)' /\ DeleteFor(q)' /\ PlacedFor(q)'
      BY <2>1
      DEF HandlerFor, Kept, KindFor, Replacing, SaveFor, DeleteFor, Foreign, PlaceOf, PlacedFor
    <2>8. PlacedBy(q)' = PlacedBy(q)
      BY <2>1 DEF PlacedBy, RowOf, Items, Kept
    <2>9. QED
      BY <2>5, <2>6, <2>7, <2>8 DEF HandlerFor
  <1>9. HandlersInv' /\ PlacedApart'
    BY <1>5, <1>8 DEF IInv, HandlersInv, PlacedApart
  <1>10. StaleRowsOnlyByRace'
    BY <1>1, <1>5 DEF IInv, StaleRowsOnlyByRace
  <1>11. ArchivedUnitsOnlyByRace'
    <2>1. archives => \A x \in alloc : x.fund = b.fund /\ x.units > 0 => <<x.by, r>> \in met
      BY <1>1 DEF IInv, HandlersInv, HandlerFor, SaveFor
    <2>2. \A x \in alloc : x.fund \in DOMAIN funds
      BY DEF IInv, TypeOK
    <2>3. SUFFICES ASSUME NEW x \in alloc, x.units > 0, funds'[x.fund].archived
                   PROVE  <<x.by, funds'[x.fund].by>> \in met
      BY <1>1, <1>5 DEF ArchivedUnitsOnlyByRace
    <2>4. CASE x.fund = b.fund
      BY <1>3, <1>4, <2>1, <2>3, <2>4
    <2>5. CASE x.fund # b.fund
      BY <1>4, <2>2, <2>3, <2>5 DEF IInv, ArchivedUnitsOnlyByRace
    <2>6. QED
      BY <2>4, <2>5
  <1>12. QED
    BY <1>5, <1>6, <1>7, <1>9, <1>10, <1>11 DEF IInv

-----------------------------------------------------------------------------
LEMMA InvStep == IInv /\ [Next]_vars => IInv'
  <1> SUFFICES ASSUME IInv, [Next]_vars PROVE IInv'
    OBVIOUS
  <1>1. ASSUME NEW r \in Requests, NEW b \in Bodies, Begin(r, b) PROVE IInv'
    BY <1>1, BeginKeeps
  <1>2. ASSUME NEW r \in Requests,
               CheckItems(r) \/ CheckCodes(r) \/ AddFund(r) \/ ReadOwned(r) \/ TakeItem(r)
        PROVE  IInv'
    BY <1>2, CheckItemsKeeps, CheckCodesKeeps, AddFundKeeps, ReadOwnedKeeps, TakeItemKeeps
  <1>3. ASSUME NEW r \in Requests,
               WritePrice(r) \/ ReadPrevious(r) \/ Delete(r) \/ DeleteRow(r) \/ InsertRow(r)
        PROVE  IInv'
    BY <1>3, WritePriceKeeps, ReadPreviousKeeps, DeleteKeeps, DeleteRowKeeps, InsertRowKeeps
  <1>4. ASSUME NEW r \in Requests, Commit(r) \/ CheckFund(r) \/ SaveFund(r) PROVE IInv'
    BY <1>4, CommitKeeps, CheckFundKeeps, SaveFundKeeps
  <1>5. ASSUME NEW r \in Requests, Abort(r) PROVE IInv'
    BY <1>5, FinishKeeps DEF Abort
  <1>6. ASSUME NEW r \in Requests, Fails(r) PROVE IInv'
    <2>1. Open(r)
      BY <1>6 DEF Fails, Conflict, AddsFund, PricesFund, AddsRow, Open
    <2>2. QED
      BY <1>6, <2>1, FinishKeeps DEF Fails
  <1>7. CASE UNCHANGED vars
    <2>1. /\ UNCHANGED <<funds, alloc, log, manual, pc, body, step, seen, there, previous, met>>
          /\ UNCHANGED <<target, doomed>>
      BY <1>7 DEF vars, db, locals
    <2>2. \A q \in Requests : HandlerFor(q)' /\ PlacedBy(q)' = PlacedBy(q)
      BY <2>1, OtherKeeps DEF IInv, Kept
    <2>3. TypeOK' /\ Shapes' /\ MetInv' /\ StaleRowsOnlyByRace' /\ ArchivedUnitsOnlyByRace'
      BY <2>1 DEF IInv, TypeOK, Shapes, MetInv, Open, StaleRowsOnlyByRace, ArchivedUnitsOnlyByRace
    <2>4. QED
      BY <2>2, <2>3 DEF IInv, HandlersInv, PlacedApart
  <1>8. QED
    BY <1>1, <1>2, <1>3, <1>4, <1>5, <1>6, <1>7 DEF Next, Step

LEMMA InvHolds == Spec => []IInv
  BY InitInv, InvStep, PTL DEF Spec

-----------------------------------------------------------------------------
\* A request that met no other has read what is stored, and deletes all of it.
AloneFor(r) ==
    Solo(r) =>
        /\ pc[r] \in {"delete", "write"} => previous[r] = CanonicalIn(alloc)
        /\ pc[r] = "write" => target[r] = alloc

AloneInv == \A r \in Requests : AloneFor(r)

\* What r does: one of its steps, the beginning or an end without an answer.
Moves(r) == (\E b \in Bodies : Begin(r, b)) \/ Step(r) \/ Abort(r)

\* A step of one request leaves what the others remember alone, forgets no
\* meeting, and only a commit changes the rows.
LEMMA MoveLocal ==
    ASSUME IInv, NEW r \in Requests, Moves(r)
    PROVE  /\ met \subseteq met'
           /\ \A q \in Requests \ {r} :
                 pc'[q] = pc[q] /\ previous'[q] = previous[q] /\ target'[q] = target[q]
           /\ alloc' # alloc => Commit(r)
  <1> USE DEF IInv, TypeOK, Shapes
  <1>1. Finish(r) =>
           /\ met' = met
           /\ \A q \in Requests \ {r} :
                 pc'[q] = pc[q] /\ previous'[q] = previous[q] /\ target'[q] = target[q]
    BY DEF Finish
  <1>2. ASSUME NEW b \in Bodies, Begin(r, b)
        PROVE  /\ met \subseteq met' /\ alloc' = alloc
               /\ \A q \in Requests \ {r} :
                     pc'[q] = pc[q] /\ previous'[q] = previous[q] /\ target'[q] = target[q]
    BY <1>2 DEF Begin, db, locals
  <1>3. CASE CheckItems(r) \/ CheckCodes(r)
    BY <1>1, <1>3 DEF CheckItems, CheckCodes, Go, db
  <1>4. CASE AddFund(r) \/ ReadOwned(r)
    BY <1>4 DEF AddFund, ReadOwned, Go, db
  <1>5. CASE TakeItem(r)
    BY <1>1, <1>5 DEF TakeItem, Go, db
  <1>6. CASE WritePrice(r) \/ ReadPrevious(r)
    BY <1>6 DEF WritePrice, ReadPrevious, Go, db
  <1>7. CASE Delete(r) \/ DeleteRow(r) \/ InsertRow(r)
    BY <1>7 DEF Delete, DeleteRow, InsertRow, Go, db
  <1>8. CASE Commit(r)
    BY <1>1, <1>8 DEF Commit
  <1>9. CASE Fails(r) \/ Abort(r)
    BY <1>1, <1>9 DEF Fails, Abort, db
  <1>10. CASE CheckFund(r)
    BY <1>1, <1>10 DEF CheckFund, Go, db
  <1>11. CASE SaveFund(r)
    BY <1>1, <1>11 DEF SaveFund
  <1>12. QED
    BY <1>2, <1>3, <1>4, <1>5, <1>6, <1>7, <1>8, <1>9, <1>10, <1>11 DEF Moves, Step

\* The request that moves: its reads are those of the rows as they are.
LEMMA AloneMover ==
    ASSUME IInv, NEW r \in Requests, Moves(r), AloneFor(r)
    PROVE  AloneFor(r)'
  <1> USE DEF IInv, TypeOK, Shapes
  <1>1. Solo(r)' => Solo(r)
    BY MoveLocal DEF Solo
  <1>2. CASE pc'[r] \notin {"delete", "write"}
    BY <1>2 DEF AloneFor
  <1>3. Finish(r) => pc'[r] = "done"
    BY DEF Finish
  <1>4. CASE ReadPrevious(r)
    BY <1>4 DEF ReadPrevious, Go, AloneFor, db
  <1>5. CASE Delete(r)
    BY <1>1, <1>5 DEF Delete, Go, AloneFor, db, CanonicalIn
  <1>6. CASE DeleteRow(r) \/ InsertRow(r)
    BY <1>1, <1>6 DEF DeleteRow, InsertRow, Go, AloneFor, db, CanonicalIn
  <1>7. CASE CheckItems(r) \/ CheckCodes(r) \/ AddFund(r)
    <2>1. pc'[r] \in {"item", "fund", "done"}
      BY <1>3, <1>7 DEF CheckItems, CheckCodes, AddFund, Go
    <2>2. QED
      BY <1>2, <2>1
  <1>8. CASE ReadOwned(r) \/ TakeItem(r) \/ WritePrice(r) \/ CheckFund(r)
    <2>1. pc'[r] \in {"item", "price", "save", "done"}
      BY <1>3, <1>8 DEF ReadOwned, TakeItem, WritePrice, CheckFund, Go
    <2>2. QED
      BY <1>2, <2>1
  <1>9. ASSUME NEW b \in Bodies, Begin(r, b) PROVE pc'[r] = "check"
    BY <1>9 DEF Begin
  <1>10. CASE Commit(r) \/ SaveFund(r) \/ Fails(r) \/ Abort(r)
    BY <1>2, <1>3, <1>10 DEF Commit, SaveFund, Fails, Abort
  <1>11. QED
    BY <1>2, <1>4, <1>5, <1>6, <1>7, <1>8, <1>9, <1>10 DEF Moves, Step

LEMMA AloneStep ==
    ASSUME IInv, AloneInv, [Next]_vars
    PROVE  AloneInv'
  <1>1. CASE UNCHANGED vars
    BY <1>1 DEF vars, db, locals, AloneInv, AloneFor, Solo, CanonicalIn
  <1>2. ASSUME NEW r \in Requests, Moves(r), NEW q \in Requests \ {r}
        PROVE  AloneFor(q)'
    <2>1. SUFFICES ASSUME Solo(q)', pc[q] \in {"delete", "write"}
                   PROVE  AloneFor(q)'
      BY <1>2, MoveLocal DEF AloneFor
    <2>2. Solo(q) /\ AloneFor(q)
      BY <1>2, <2>1, MoveLocal DEF Solo, AloneInv
    <2>3. ~Commit(r)
      <3>1. SUFFICES ASSUME Commit(r) PROVE FALSE
        OBVIOUS
      <3>2. Open(r) /\ Open(q)
        BY <2>1, <3>1 DEF Commit, Open
      <3>3. <<q, r>> \in met
        BY <3>2 DEF IInv, MetInv
      <3>4. QED
        BY <2>2, <3>3 DEF Solo
    <2>4. UNCHANGED alloc
      BY <1>2, <2>3, MoveLocal
    <2>5. QED
      BY <1>2, <2>2, <2>4, MoveLocal DEF AloneFor, CanonicalIn
  <1>3. ASSUME NEW r \in Requests, Moves(r) PROVE AloneInv'
    BY <1>2, <1>3, AloneMover DEF AloneInv
  <1>4. QED
    BY <1>1, <1>3 DEF Next, Moves

LEMMA AloneHolds == Spec => []AloneInv
  <1>1. Init => AloneInv
    BY DEF Init, AloneInv, AloneFor
  <1>2. QED
    BY <1>1, AloneStep, InvHolds, PTL DEF Spec

\* The two roundings agree on whole quanta.
LEMMA RoundingsAgree ==
    ASSUME NEW h \in Nat, h % 2 = 0
    PROVE  HalfUp(h) = HalfEven(h)
  BY DEF HalfUp, HalfEven

\* Of items in whole quanta, the log's form of the request is the form of the
\* rows that it stores.
LEMMA CanonicalAgree ==
    ASSUME NEW r \in Requests, body[r] \in Bodies, Replaces(body[r]),
           \A i \in DOMAIN Items(r) : Items(r)[i].units % 2 = 0
    PROVE  CanonicalIn(RowsOf(r)) = CanonicalOf(Items(r))
  <1> DEFINE Logged(i) == [fund |-> Items(r)[i].fund, units |-> HalfEven(Items(r)[i].units)]
             Stored(x) == [fund |-> x.fund, units |-> x.units]
  <1>1. ASSUME NEW i \in DOMAIN Items(r) PROVE Stored(RowOf(r, i)) = Logged(i)
    <2>1. HalfUp(Items(r)[i].units) = HalfEven(Items(r)[i].units)
      BY BodyTyped, RoundingsAgree DEF Items
    <2>2. QED
      BY <2>1 DEF RowOf
  <1>2. CanonicalIn(RowsOf(r)) = {Stored(x) : x \in {RowOf(r, i) : i \in DOMAIN Items(r)}}
    BY DEF CanonicalIn, RowsOf
  <1>3. CanonicalOf(Items(r)) = {Logged(i) : i \in DOMAIN Items(r)}
    BY DEF CanonicalOf
  <1> HIDE DEF Logged, Stored
  <1>4. QED
    BY <1>1, <1>2, <1>3

\* A commit of a request that no other met.
LEMMA SoloCommit ==
    ASSUME IInv, AloneInv, NEW r \in Requests, Commit(r), Solo(r)
    PROVE  /\ alloc' = RowsOf(r)
           /\ (\A i \in DOMAIN Items(r) : Items(r)[i].units % 2 = 0) =>
                 log' = IF CanonicalIn(alloc) = CanonicalIn(RowsOf(r))
                          THEN log
                          ELSE Append(log, [old |-> CanonicalIn(alloc),
                                            new |-> CanonicalIn(RowsOf(r)), by |-> r])
  <1>1. /\ pc[r] = "write" /\ doomed[r] = target[r] /\ Replacing(r)
        /\ alloc' = (alloc \ doomed[r]) \cup RowsOf(r)
        /\ log' = IF CanonicalOf(Items(r)) # previous[r]
                    THEN Append(log, [old |-> previous[r],
                                      new |-> CanonicalOf(Items(r)), by |-> r])
                    ELSE log
    BY DEF Commit, Replacing
  <1>2. target[r] = alloc /\ previous[r] = CanonicalIn(alloc)
    BY <1>1 DEF AloneInv, AloneFor
  <1>3. body[r] \in Bodies /\ Replaces(body[r])
    BY <1>1, ReplacingTyped
  <1>4. alloc' = RowsOf(r)
    BY <1>1, <1>2
  <1>5. ASSUME \A i \in DOMAIN Items(r) : Items(r)[i].units % 2 = 0
        PROVE  CanonicalIn(RowsOf(r)) = CanonicalOf(Items(r))
    BY <1>3, <1>5, CanonicalAgree
  <1>6. QED
    BY <1>1, <1>2, <1>4, <1>5

-----------------------------------------------------------------------------
\* What the waiting request and the other are doing: one kind of thing is waited
\* for at a time, and who waits for it holds nothing of a later kind.
LEMMA FundsWait ==
    ASSUME IInv, NEW r \in Requests, NEW q \in Requests,
           WaitsFor(r, q), WaitsFor(q, r), pc[r] \in {"fund", "save"}
    PROVE  Crossed(Created(r), Created(q))
  <1>1. PlacedBy(r) = {} /\ HeldPrices(r) = {} /\ doomed[r] = {}
    BY DEF PlacedBy, HeldPrices, IInv, TypeOK
  <1>2. PICK g \in HeldFunds(r) : AddsFund(q, g)
    BY <1>1 DEF WaitsFor
  <1>3. pc[r] = "fund"
    BY <1>2 DEF HeldFunds
  <1>4. PICK f \in HeldFunds(q) : AddsFund(r, f)
    BY <1>3 DEF WaitsFor, PricesFund, AddsRow, ComesTo
  <1>5. pc[q] = "fund"
    BY <1>2, <1>4 DEF AddsFund, HeldFunds
  <1>6. PICK i \in DOMAIN Created(r) : g = Created(r)[i] /\ i < step[r]
    BY <1>2, <1>3 DEF HeldFunds
  <1>7. PICK k \in DOMAIN Created(q) : f = Created(q)[k] /\ k < step[q]
    BY <1>4, <1>5 DEF HeldFunds
  <1>8. /\ step[r] \in DOMAIN Created(r) /\ f = Created(r)[step[r]]
        /\ step[q] \in DOMAIN Created(q) /\ g = Created(q)[step[q]]
    BY <1>2, <1>3, <1>4, <1>5 DEF AddsFund
  <1>9. QED
    BY <1>6, <1>7, <1>8 DEF Crossed

LEMMA PricesWait ==
    ASSUME IInv, NEW r \in Requests, NEW q \in Requests,
           WaitsFor(r, q), WaitsFor(q, r), pc[r] = "price", pc[q] \notin {"fund", "save"}
    PROVE  Crossed(FundList(r), FundList(q))
  <1>1. PlacedBy(r) = {} /\ doomed[r] = {}
    BY DEF PlacedBy, IInv, TypeOK
  <1>2. PICK g \in HeldPrices(r) : PricesFund(q, g)
    BY <1>1 DEF WaitsFor, AddsFund
  <1>3. PICK f \in HeldPrices(q) : PricesFund(r, f)
    BY DEF WaitsFor, AddsFund, AddsRow, ComesTo
  <1>4. pc[q] = "price"
    BY <1>2 DEF PricesFund
  <1>5. step[r] \in DOMAIN Items(r) /\ step[q] \in DOMAIN Items(q)
    BY <1>4 DEF IInv, HandlersInv, HandlerFor, KindFor
  <1>6. f = Items(r)[step[r]].fund /\ g = Items(q)[step[q]].fund
    BY <1>2, <1>3 DEF PricesFund
  <1>7. PICK i \in DOMAIN Items(r) : g = Items(r)[i].fund /\ i < step[r]
    BY <1>2 DEF HeldPrices
  <1>8. PICK k \in DOMAIN Items(q) : f = Items(q)[k].fund /\ k < step[q]
    BY <1>3, <1>4 DEF HeldPrices
  <1>9. QED
    BY <1>5, <1>6, <1>7, <1>8 DEF Crossed, FundList

\* Two rows of one DELETE are of different funds, and so in different places.
LEMMA PlacesApart ==
    ASSUME NEW x \in Row, NEW y \in Row, x.fund # y.fund
    PROVE  PlaceOf(x) \in Nat /\ PlaceOf(y) \in Nat /\ PlaceOf(x) # PlaceOf(y)
  <1> DEFINE u == <<x.fund, x.by>>
             v == <<y.fund, y.by>>
  <1>1. u \in Funds \X (Requests \cup {None}) /\ v \in Funds \X (Requests \cup {None})
    BY DEF Row
  <1>2. u[1] # v[1]
    OBVIOUS
  <1> HIDE DEF u, v
  <1>3. Place[u] \in Nat /\ Place[v] \in Nat /\ Place[u] # Place[v]
    BY <1>1, <1>2, PlaceOK
  <1>4. QED
    BY <1>3 DEF PlaceOf, u, v

\* A row that r has come to and the one it comes to next.
LEMMA BeforeNext ==
    ASSUME IInv, NEW r \in Requests, NEW x, ComesTo(r, x), NEW y \in doomed[r]
    PROVE  /\ x \in Row /\ y \in Row /\ x.fund # y.fund /\ PlaceOf(y) <= PlaceOf(x)
  <1>1. pc[r] = "write" /\ x \in target[r] \ doomed[r]
    BY DEF ComesTo
  <1>2. y \in target[r] /\ y # x /\ target[r] \subseteq Row
    BY <1>1 DEF IInv, TypeOK
  <1>3. QED
    BY <1>1, <1>2 DEF IInv, HandlersInv, HandlerFor, DeleteFor

LEMMA RowsWait ==
    ASSUME IInv, NEW r \in Requests, NEW q \in Requests, r # q,
           WaitsFor(r, q), WaitsFor(q, r), pc[r] = "write", pc[q] = "write",
           target[r] = target[q]
    PROVE  Crossed(FundList(r), FundList(q))
  <1>1. ASSUME NEW s \in Requests, NEW t \in Requests, WaitsFor(s, t), pc[s] = "write"
        PROVE  \/ \E f \in PlacedBy(t) : AddsRow(s, f)
               \/ \E x \in alloc \cap doomed[t] : ComesTo(s, x)
               \/ \E x \in (alloc \cap doomed[t]) \ doomed[s] : AddsRow(s, x.fund)
    BY <1>1 DEF WaitsFor, AddsFund, PricesFund
  <1>2. doomed[r] \subseteq target[r] /\ doomed[q] \subseteq target[r]
    BY DEF IInv, TypeOK
  \* Who inserts has come to every row, and waits for none of them.
  <1>3. ASSUME NEW s \in {r, q}, NEW t \in {r, q}, WaitsFor(s, t), doomed[s] = target[s]
        PROVE  \E f \in PlacedBy(t) : AddsRow(s, f)
    BY <1>1, <1>2, <1>3 DEF ComesTo
  <1>4. ASSUME NEW s \in {r, q}, NEW t \in {r, q}, WaitsFor(s, t), doomed[s] # target[s]
        PROVE  \E x \in doomed[t] : ComesTo(s, x)
    BY <1>1, <1>4 DEF AddsRow
  \* Who has placed a row has ended its DELETE.
  <1>5. ASSUME NEW s \in {r, q}, PlacedBy(s) # {}
        PROVE  doomed[s] = target[s]
    <2>1. PICK i \in DOMAIN Items(s) : i < step[s]
      BY <1>5 DEF PlacedBy
    <2>2. Replacing(s)
      BY DEF Replacing
    <2>3. i \in Nat \ {0} /\ step[s] \in Nat
      BY <2>2, ReplacingTyped, BodyTyped DEF Items, IInv, Shapes
    <2>4. step[s] > 1
      BY <2>1, <2>3
    <2>5. QED
      BY <2>4 DEF IInv, HandlersInv, HandlerFor, PlacedFor
  <1>6. CASE doomed[r] = target[r] /\ doomed[q] = target[q]
    <2>1. PICK f \in PlacedBy(q) : AddsRow(r, f)
      BY <1>3, <1>6
    <2>2. PICK g \in PlacedBy(r) : AddsRow(q, g)
      BY <1>3, <1>6
    <2>3. PICK k \in DOMAIN Items(q) : k < step[q] /\ f = Items(q)[k].fund
      BY <2>1, PlacedMember
    <2>4. PICK i \in DOMAIN Items(r) : i < step[r] /\ g = Items(r)[i].fund
      BY <2>2, PlacedMember
    <2>5. /\ step[r] \in DOMAIN Items(r) /\ f = RowOf(r, step[r]).fund
          /\ step[q] \in DOMAIN Items(q) /\ g = RowOf(q, step[q]).fund
      BY <2>1, <2>2 DEF AddsRow
    <2>6. /\ body[r] \in Bodies /\ Replaces(body[r])
          /\ body[q] \in Bodies /\ Replaces(body[q])
      BY ReplacingTyped DEF Replacing
    <2>7. f = Items(r)[step[r]].fund /\ g = Items(q)[step[q]].fund
      BY <2>5, <2>6, RowTyped
    <2>8. QED
      BY <2>3, <2>4, <2>5, <2>7 DEF Crossed, FundList
  \* Both are in their DELETE: the rows lie in one order for both.
  <1>7. CASE doomed[r] # target[r] /\ doomed[q] # target[q]
    <2>1. PICK x \in doomed[q] : ComesTo(r, x)
      BY <1>4, <1>7
    <2>2. PICK y \in doomed[r] : ComesTo(q, y)
      BY <1>4, <1>7
    <2>3. x.fund # y.fund /\ x \in Row /\ y \in Row /\ PlaceOf(y) <= PlaceOf(x)
      BY <2>1, BeforeNext
    <2>4. PlaceOf(x) <= PlaceOf(y)
      BY <2>2, BeforeNext
    <2>5. QED
      BY <2>3, <2>4, PlacesApart
  \* One is in its DELETE, and has placed nothing for the other to wait for.
  <1>8. ASSUME NEW s \in {r, q}, NEW t \in {r, q}, WaitsFor(s, t),
               doomed[s] = target[s], doomed[t] # target[t]
        PROVE  FALSE
    BY <1>3, <1>5, <1>8
  <1>9. QED
    BY <1>6, <1>7, <1>8

LEMMA CircleByOrder == IInv => CircleOnlyByOrder
  <1> SUFFICES ASSUME IInv, NEW r \in Requests, NEW q \in Requests \ {r},
                      WaitsFor(r, q), WaitsFor(q, r), target[r] = target[q]
               PROVE  Crossed(Created(r), Created(q)) \/ Crossed(FundList(r), FundList(q))
    BY DEF CircleOnlyByOrder
  <1>1. ASSUME NEW s \in {r, q}, NEW t \in {r, q}, WaitsFor(s, t)
        PROVE  pc[s] \in {"fund", "save", "price", "write"}
    BY <1>1 DEF WaitsFor, AddsFund, PricesFund, AddsRow, ComesTo
  <1>2. ASSUME NEW s \in {r, q}, NEW t \in {r, q}, WaitsFor(s, t), pc[s] = "write"
        PROVE  pc[t] = "write"
    <2>1. PlacedBy(t) # {} \/ doomed[t] # {}
      BY <1>2 DEF WaitsFor, AddsFund, PricesFund
    <2>2. QED
      BY <1>2, <2>1 DEF PlacedBy, IInv, TypeOK
  <1>3. Crossed(Created(q), Created(r)) => Crossed(Created(r), Created(q))
    BY DEF Crossed
  <1>4. Crossed(FundList(q), FundList(r)) => Crossed(FundList(r), FundList(q))
    BY DEF Crossed
  <1>5. CASE pc[r] \in {"fund", "save"} \/ pc[q] \in {"fund", "save"}
    BY <1>3, <1>5, FundsWait
  <1>6. CASE pc[r] = "price" /\ pc[q] \notin {"fund", "save"}
    BY <1>6, PricesWait
  <1>7. CASE pc[r] = "write" /\ pc[q] = "write"
    BY <1>7, RowsWait
  <1>8. QED
    BY <1>1, <1>2, <1>4, <1>5, <1>6, <1>7, PricesWait

-----------------------------------------------------------------------------
(***************************************************************************)
(* Theorems                                                                *)
(***************************************************************************)

\* Every allocation row belongs to a fund, a fund has one row at most, and what
\* the handlers hold matches where they are.
THEOREM AllocationTyped == Spec => []TypeOK
  <1>1. IInv => TypeOK
    BY DEF IInv
  <1>2. QED
    BY <1>1, InvHolds, PTL

\* Rows of two requests stand side by side only when the two were served at the
\* same time: a replacement that overlaps none leaves its own rows alone.
THEOREM NoStaleRows == Spec => []StaleRowsOnlyByRace
  <1>1. IInv => StaleRowsOnlyByRace
    BY DEF IInv
  <1>2. QED
    BY <1>1, InvHolds, PTL

\* An archived fund holds units only when its archiving and the allocation that
\* gave them were served at the same time.
THEOREM NoArchivedUnits == Spec => []ArchivedUnitsOnlyByRace
  <1>1. IInv => ArchivedUnitsOnlyByRace
    BY DEF IInv
  <1>2. QED
    BY <1>1, InvHolds, PTL

\* Two requests wait for each other only where they name funds in opposite order
\* or the allocation changed between their DELETEs.
THEOREM CirclesByOrder == Spec => []CircleOnlyByOrder
  BY CircleByOrder, InvHolds, PTL

\* A replacement that met no other request leaves exactly the rows it was asked
\* for, and the switch log gains an entry from the old state to the new one
\* exactly when they differ, where no amount is half a quantum.
THEOREM SoloReplacesAreExact == Spec => SoloReplaceExact
  <1>1. IInv /\ AloneInv /\ [Next]_vars =>
           [\A r \in Requests :
               pc[r] = "write" /\ alloc' # alloc /\ pc'[r] = "done" /\ Solo(r) =>
                   LET old == CanonicalIn(alloc)
                       new == CanonicalIn(alloc')
                   IN /\ alloc' = RowsOf(r)
                      /\ (\A i \in DOMAIN Items(r) : Items(r)[i].units % 2 = 0) =>
                         log' = IF old = new
                                  THEN log
                                  ELSE Append(log, [old |-> old, new |-> new, by |-> r])]_vars
    <2>1. SUFFICES ASSUME IInv, AloneInv, [Next]_vars,
                          NEW r \in Requests, pc[r] = "write", alloc' # alloc,
                          pc'[r] = "done", Solo(r)
                   PROVE  /\ alloc' = RowsOf(r)
                          /\ (\A i \in DOMAIN Items(r) : Items(r)[i].units % 2 = 0) =>
                                log' = IF CanonicalIn(alloc) = CanonicalIn(alloc')
                                         THEN log
                                         ELSE Append(log, [old |-> CanonicalIn(alloc),
                                                           new |-> CanonicalIn(alloc'), by |-> r])
      OBVIOUS
    <2>2. PICK s \in Requests : Moves(s)
      BY <2>1 DEF Next, Moves, vars, db
    <2>3. s = r /\ Commit(r)
      BY <2>1, <2>2, MoveLocal
    <2>4. CanonicalIn(alloc') = CanonicalIn(RowsOf(r))
      BY <2>1, <2>3, SoloCommit
    <2>5. QED
      BY <2>1, <2>3, <2>4, SoloCommit
  <1>2. QED
    BY <1>1, InvHolds, AloneHolds, PTL DEF Spec, SoloReplaceExact
=============================================================================
