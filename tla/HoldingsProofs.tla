--------------------------- MODULE HoldingsProofs ---------------------------
(***************************************************************************)
(* Proofs about Holdings.                                                  *)
(*                                                                         *)
(* IInv says of the store that its references hold (Stored), of each       *)
(* request that what it is about to write names stored instruments or ones *)
(* it has flushed itself (Local), and that two requests never hold the     *)
(* same flushed instrument.  A request that rolls back, or only moves on,  *)
(* leaves the store; the lemmas Finished, RolledBack, Stays and Steps      *)
(* reduce each of its actions to the few conjuncts that it can disturb.    *)
(*                                                                         *)
(* JInv adds what a request that meets no other knows: what it has read is *)
(* what is stored (Current).  Two open requests have met, so no step of    *)
(* another can come between: a step of r leaves Current to show of r only  *)
(* (OthersMeet, Onward, Ended).                                            *)
(*                                                                         *)
(* PlanOK and SymbolOK are the invariants of the loop of an import, proved *)
(* over its rows by the least one that could break them (LeastNatural).    *)
(***************************************************************************)
EXTENDS Holdings, FiniteSetTheorems, SequenceTheorems, WellFoundedInduction, TLAPS

Places == {"idle", "resolve", "insert", "read", "groups", "assigned", "assignment", "write"} \cup Over

\* The rows refer to one another as the schema's keys say.
Stored ==
    /\ instruments \subseteq Symbols
    /\ \A i \in DOMAIN positions : positions[i] \in Position(DOMAIN portfolios, instruments)
    /\ referred \subseteq DOMAIN portfolios
    /\ DOMAIN groups \subseteq Requests \X Names
    /\ \A g, h \in DOMAIN groups : groups[g] = groups[h] => g = h
    /\ \A s \in DOMAIN assigned : s \in instruments /\ assigned[s].group \in DOMAIN groups

Shapes ==
    /\ pc \in [Requests -> Places]
    /\ body \in [Requests -> Bodies \cup {None}]
    /\ before \in [Requests -> SUBSET Requests]
    /\ todo \in [Requests -> Seq(Symbols)]
    /\ pending \in [Requests -> SUBSET Symbols]
    /\ DOMAIN target = Requests /\ DOMAIN seen = Requests /\ DOMAIN view = Requests
    /\ \A r \in Requests : DOMAIN view[r] = {"held", "groups"}

\* What a request is about to write names stored instruments, or its own new ones.
Local(r) ==
    /\ Open(r) => body[r] \in Bodies
    /\ ~Open(r) => pending[r] = {}
    /\ pc[r] = "insert" => todo[r] # << >>
    /\ pc[r] = "write" /\ body[r].kind = "import" => todo[r] = << >>
    /\ Open(r) /\ body[r].kind = "import" =>
          \A i \in DOMAIN body[r].rows :
             body[r].rows[i].text[1] \in instruments \cup pending[r] \cup ToSet(todo[r])
    /\ pc[r] = "write" /\ body[r].kind = "create" => body[r].sym \in instruments
    /\ pc[r] \in {"assignment", "write"} /\ body[r].kind = "assign" => body[r].sym \in instruments
    /\ view[r].held \subseteq instruments
    /\ Open(r) /\ body[r].kind \in {"group", "seed"} => target[r] = None

FlushedApart == \A r, q \in Requests : r = q \/ pending[r] \cap pending[q] = {}

IInv == Stored /\ Shapes /\ FlushedApart /\ \A r \in Requests : Local(r)

\* A step of the request r.
Act(r) ==
    \/ \E b \in Bodies : Begin(r, b)
    \/ Abort(r)
    \/ Resolve(r) \/ Insert(r) \/ InsertFails(r) \/ CommitInstruments(r)
    \/ ReadExisting(r) \/ Import(r)
    \/ FindPosition(r) \/ CreatePosition(r) \/ EditPosition(r) \/ DropPosition(r)
    \/ CreatePortfolio(r) \/ UpdatePortfolio(r) \/ DeletePortfolio(r) \/ Refer(r)
    \/ CreateGroup(r) \/ UpdateGroup(r) \/ DeleteGroup(r)
    \/ FindAssignment(r) \/ Assign(r) \/ Unassign(r)
    \/ SeedReads(r) \/ Seed(r)

\* A step of r leaves what the others hold.
Moves(r) ==
    \A q \in Requests \ {r} :
        /\ pc'[q] = pc[q] /\ body'[q] = body[q] /\ target'[q] = target[q]
        /\ seen'[q] = seen[q] /\ view'[q] = view[q] /\ todo'[q] = todo[q]
        /\ pending'[q] = pending[q] /\ before'[q] = before[q]

-----------------------------------------------------------------------------
\* What is over stays over.
Past == \A r \in Requests : \A q \in before[r] : pc[q] \in Over

\* The ids that a request can give are not in use before it is over.
Fresh ==
    \A r \in Requests : pc[r] \notin Over =>
        r \notin DOMAIN portfolios /\ DOMAIN positions \cap ({r} \X Nat) = {}

Loaded(r) == {i \in DOMAIN positions : i = target[r] \/ positions[i].pf = target[r]}

\* A request that meets no other still sees the store as it is.
Current(r) ==
    /\ target[r] \in Targets(body[r])
    /\ pc[r] = "insert" => Head(todo[r]) \notin instruments \cup pending[r]
    /\ body[r].kind \notin {"assign", "unassign"} =>
          seen[r] = IF pc[r] = "write" /\ body[r].kind = "import"
                      THEN Only(positions, {i \in DOMAIN positions : positions[i].pf = PfOf(r)})
                      ELSE Only(positions, Loaded(r))
    /\ pc[r] = "write" /\ body[r].kind = "create" => At(target[r], body[r].sym) = {}
    /\ pc[r] = "write" /\ body[r].kind = "assign" => seen[r] = Only(assigned, {body[r].sym})
    /\ pc[r] \in {"assigned", "write"} /\ body[r].kind = "seed" => view[r].groups = groups
    /\ pc[r] = "write" /\ body[r].kind = "seed" => view[r].held \cap DOMAIN assigned = {}

AloneOK(r) == Alone(r) /\ Open(r) => Current(r)

JInv == IInv /\ Past /\ Fresh /\ IsFiniteSet(DOMAIN positions) /\ \A r \in Requests : AloneOK(r)
(***************************************************************************)
(* The loop of an import                                                   *)
(***************************************************************************)

LEMMA LeastNatural ==
    ASSUME NEW T \in SUBSET Nat, T # {}
    PROVE  \E x \in T : \A y \in T : x <= y
  <1> DEFINE R == {ss \in Nat \X Nat : ss[1] < ss[2]}
  <1>1. IsWellFoundedOn(R, Nat)
    BY NatLessThanWellFounded DEF OpToRel
  <1>2. \A x, y \in Nat : <<y, x>> \in R <=> y < x
    OBVIOUS
  <1> HIDE DEF R
  <1>3. PICK x \in T : \A y \in T : ~ <<y, x>> \in R
    BY <1>1, WFMin
  <1>4. ASSUME NEW y \in T PROVE x <= y
    <2>1. x \in Nat /\ y \in Nat
      OBVIOUS
    <2>2. ~ (y < x)
      BY <1>2, <1>3, <2>1
    <2>3. QED
      BY <2>1, <2>2
  <1>5. QED
    BY <1>4

\* The plans after each row exist.
ArePlans(r, dict, n, plan) ==
    plan = [i \in 0..n |-> IF i = 0 THEN Unmerged(dict) ELSE MergeRow(r, plan[i - 1], i)]

LEMMA PlansExist ==
    ASSUME NEW r, NEW dict, NEW n \in Nat
    PROVE  \E plan : ArePlans(r, dict, n, plan)
  <1> USE DEF ArePlans
  <1> DEFINE Has(m) == \E plan : plan = [i \in 0..m |->
                          IF i = 0 THEN Unmerged(dict) ELSE MergeRow(r, plan[i - 1], i)]
             Lacking == {m \in Nat : ~Has(m)}
  <1>1. SUFFICES ASSUME Lacking # {} PROVE FALSE
    OBVIOUS
  <1>2. PICK m \in Lacking : \A i \in Lacking : m <= i
    <2> HIDE DEF Has
    <2>1. QED
      BY <1>1, LeastNatural
  <1>3. CASE m = 0
    <2> DEFINE f == [i \in 0..0 |-> Unmerged(dict)]
    <2>1. f = [i \in 0..0 |-> IF i = 0 THEN Unmerged(dict) ELSE MergeRow(r, f[i - 1], i)]
      OBVIOUS
    <2>2. QED
      BY <1>3, <2>1
  <1>4. CASE m # 0
    <2>1. m - 1 \in Nat /\ Has(m - 1)
      <3> HIDE DEF Has
      <3>1. m \in Nat /\ m - 1 \in Nat
        BY <1>4
      <3>2. QED
        BY <1>2, <3>1
    <2>2. PICK g : g = [i \in 0..(m - 1) |->
                      IF i = 0 THEN Unmerged(dict) ELSE MergeRow(r, g[i - 1], i)]
      BY <2>1
    <2> DEFINE f == [i \in 0..m |->
                      IF i = 0 THEN Unmerged(dict) ELSE MergeRow(r, g[i - 1], i)]
    <2>3. ASSUME NEW i \in 0..m, i # 0 PROVE f[i - 1] = g[i - 1]
      <3>1. i - 1 \in 0..(m - 1) /\ i - 1 \in 0..m
        BY <1>2, <2>3
      <3>2. g[i - 1] = IF i - 1 = 0 THEN Unmerged(dict) ELSE MergeRow(r, g[i - 1 - 1], i - 1)
        BY <3>1, <2>2
      <3>3. QED
        BY <3>1, <3>2
    <2>4. f = [i \in 0..m |-> IF i = 0 THEN Unmerged(dict) ELSE MergeRow(r, f[i - 1], i)]
      BY <2>3
    <2>5. QED
      BY <2>4
  <1>5. QED
    BY <1>3, <1>4

\* An import merges its rows one by one.
LEMMA Merging ==
    ASSUME NEW r, NEW dict, body[r].rows \in Seq(Row)
    PROVE  \E plan : /\ Merged(r, dict) = plan[Len(body[r].rows)]
                     /\ plan[0] = Unmerged(dict)
                     /\ \A i \in 1..Len(body[r].rows) : plan[i] = MergeRow(r, plan[i - 1], i)
  <1> DEFINE n == Len(body[r].rows)
             plan == CHOOSE f : ArePlans(r, dict, n, f)
  <1>1. n \in Nat
    OBVIOUS
  <1>2. ArePlans(r, dict, n, plan)
    BY <1>1, PlansExist
  <1>3. Merged(r, dict) = plan[n]
    BY DEF Merged, ArePlans
  <1>4. plan = [i \in 0..n |-> IF i = 0 THEN Unmerged(dict) ELSE MergeRow(r, plan[i - 1], i)]
    BY <1>2 DEF ArePlans
  <1> HIDE DEF plan
  <1>5. plan[0] = Unmerged(dict)
    BY <1>1, <1>4
  <1>6. \A i \in 1..n : plan[i] = MergeRow(r, plan[i - 1], i)
    <2>1. \A i \in 1..n : i \in 0..n /\ i # 0
      BY <1>1
    <2>2. QED
      BY <1>4, <2>1
  <1>7. QED
    BY <1>3, <1>5, <1>6

\* What one row does to the plan.
Text(r, i) == body[r].rows[i].text
Quantity(r, i) == body[r].rows[i].qty
RowFor(r, i) == [pf |-> PfOf(r), sym |-> Text(r, i)[1], qty |-> Quantity(r, i)]
Old(r, plan, i) == plan.dict[Text(r, i)]

Fields == {"dict", "ins", "new", "set", "del", "bad"}

Adds(r, plan, i, next) ==
    /\ Text(r, i) \notin DOMAIN plan.dict
    /\ next.dict = With(plan.dict, Text(r, i), <<r, i>>)
    /\ next.ins = With(plan.ins, <<r, i>>, RowFor(r, i)) /\ next.new = plan.new \cup {<<r, i>>}
    /\ next.set = plan.set /\ next.del = plan.del /\ next.bad = plan.bad

Skips(r, plan, i, next) == Text(r, i) \in DOMAIN plan.dict /\ body[r].merge = "skip" /\ next = plan

Amends(r, plan, i, next) ==
    /\ Text(r, i) \in DOMAIN plan.dict /\ body[r].merge = "update" /\ Old(r, plan, i) \in DOMAIN plan.ins
    /\ next.ins = [plan.ins EXCEPT ![Old(r, plan, i)].qty = Quantity(r, i)]
    /\ next.dict = plan.dict /\ next.new = plan.new /\ next.set = plan.set /\ next.del = plan.del
    /\ next.bad = plan.bad

Updating(r, plan, i, next) ==
    /\ Text(r, i) \in DOMAIN plan.dict /\ body[r].merge = "update" /\ Old(r, plan, i) \notin DOMAIN plan.ins
    /\ next.set = With(plan.set, Old(r, plan, i), Quantity(r, i))
    /\ next.dict = plan.dict /\ next.ins = plan.ins /\ next.new = plan.new /\ next.del = plan.del
    /\ next.bad = plan.bad

Replaces(r, plan, i, next) ==
    /\ Text(r, i) \in DOMAIN plan.dict /\ body[r].merge \notin {"skip", "update"}
    /\ next.ins = With(Without(plan.ins, {Old(r, plan, i)}), <<r, i>>, RowFor(r, i))
    /\ next.new = {<<r, i>>} /\ next.del = plan.del \cup {Old(r, plan, i)}
    /\ next.bad = (plan.bad \/ Old(r, plan, i) \in plan.new)
    /\ next.dict = plan.dict /\ next.set = plan.set

LEMMA MergeRowCases ==
    ASSUME NEW r, NEW i, NEW plan, DOMAIN plan = Fields
    PROVE  LET next == MergeRow(r, plan, i) IN
           /\ DOMAIN next = Fields
           /\ \/ Adds(r, plan, i, next) \/ Skips(r, plan, i, next) \/ Amends(r, plan, i, next)
              \/ Updating(r, plan, i, next) \/ Replaces(r, plan, i, next)
  <1> DEFINE next == MergeRow(r, plan, i)
             id == <<r, i>>
             text == Text(r, i)
             qty == Quantity(r, i)
             row == RowFor(r, i)
             old == Old(r, plan, i)
  <1>1. CASE text \notin DOMAIN plan.dict
    <2>1. next = [plan EXCEPT !.dict = With(@, text, id), !.ins = With(@, id, row), !.new = @ \cup {id}]
      BY <1>1 DEF MergeRow, Text, Quantity, RowFor
    <2> HIDE DEF next, id, text, row
    <2>2. DOMAIN next = Fields /\ Adds(r, plan, i, next)
      BY <1>1, <2>1 DEF Adds, Fields, id, text, row
    <2>3. QED
      BY <2>2 DEF next
  <1>2. CASE text \in DOMAIN plan.dict /\ body[r].merge = "skip"
    BY <1>2 DEF MergeRow, Skips, Text
  <1>3. CASE text \in DOMAIN plan.dict /\ body[r].merge = "update" /\ old \in DOMAIN plan.ins
    <2>1. next = [plan EXCEPT !.ins[old].qty = qty]
      BY <1>3 DEF MergeRow, Text, Old, Quantity
    <2> HIDE DEF next, text, qty, old
    <2>2. DOMAIN next = Fields /\ Amends(r, plan, i, next)
      BY <1>3, <2>1 DEF Amends, Fields, text, qty, old
    <2>3. QED
      BY <2>2 DEF next
  <1>4. CASE text \in DOMAIN plan.dict /\ body[r].merge = "update" /\ old \notin DOMAIN plan.ins
    <2>1. next = [plan EXCEPT !.set = With(@, old, qty)]
      BY <1>4 DEF MergeRow, Text, Old, Quantity
    <2> HIDE DEF next, text, qty, old
    <2>2. DOMAIN next = Fields /\ Updating(r, plan, i, next)
      BY <1>4, <2>1 DEF Updating, Fields, text, qty, old
    <2>3. QED
      BY <2>2 DEF next
  <1>5. CASE text \in DOMAIN plan.dict /\ body[r].merge \notin {"skip", "update"}
    <2>1. next = [plan EXCEPT !.bad = @ \/ old \in plan.new, !.del = @ \cup {old}, !.new = {id},
                              !.ins = With(Without(@, {old}), id, row)]
      BY <1>5 DEF MergeRow, Text, Old, Quantity, RowFor
    <2> HIDE DEF next, id, text, row, old
    <2>2. DOMAIN next = Fields /\ Replaces(r, plan, i, next)
      BY <1>5, <2>1 DEF Replaces, Fields, id, text, row, old
    <2>3. QED
      BY <2>2 DEF next
  <1>6. QED
    BY <1>1, <1>2, <1>3, <1>4, <1>5

\* The rows to insert are the import's, and the quantities naturals.
PlanTyped(r, plan) ==
    /\ DOMAIN plan = Fields
    /\ \A id \in DOMAIN plan.ins :
          plan.ins[id] \in Position({PfOf(r)}, {Text(r, i)[1] : i \in DOMAIN body[r].rows})
    /\ DOMAIN plan.ins \subseteq {r} \X DOMAIN body[r].rows
    /\ \A i \in DOMAIN plan.set : plan.set[i] \in Nat

LEMMA MergeRowTyped ==
    ASSUME NEW r, body[r].rows \in Seq(Row), NEW i \in DOMAIN body[r].rows,
           NEW plan, PlanTyped(r, plan)
    PROVE  PlanTyped(r, MergeRow(r, plan, i))
  <1> DEFINE S == Position({PfOf(r)}, {Text(r, j)[1] : j \in DOMAIN body[r].rows})
             D == {r} \X DOMAIN body[r].rows
             next == MergeRow(r, plan, i)
  <1>1. Quantity(r, i) \in Nat /\ RowFor(r, i) \in S /\ <<r, i>> \in D
    <2>1. body[r].rows[i] \in Row
      OBVIOUS
    <2>2. Quantity(r, i) \in Nat
      BY <2>1 DEF Row, Quantity
    <2>3. QED
      BY <2>2 DEF Position, RowFor
  <1>2. /\ DOMAIN plan = Fields
        /\ \A x \in DOMAIN plan.ins : plan.ins[x] \in S
        /\ DOMAIN plan.ins \subseteq D
        /\ \A x \in DOMAIN plan.set : plan.set[x] \in Nat
    BY DEF PlanTyped
  <1>3. \A x \in S : [x EXCEPT !.qty = Quantity(r, i)] \in S
    BY <1>1 DEF Position
  <1> HIDE DEF S, D, next
  <1>4. /\ \A x \in DOMAIN next.ins : next.ins[x] \in S
        /\ DOMAIN next.ins \subseteq D
        /\ \A x \in DOMAIN next.set : next.set[x] \in Nat
    <2>1. CASE Adds(r, plan, i, next)
      BY <1>1, <1>2, <2>1 DEF Adds, With
    <2>2. CASE Skips(r, plan, i, next)
      BY <1>2, <2>2 DEF Skips
    <2>3. CASE Amends(r, plan, i, next)
      BY <1>2, <1>3, <2>3 DEF Amends
    <2>4. CASE Updating(r, plan, i, next)
      BY <1>1, <1>2, <2>4 DEF Updating, With
    <2>5. CASE Replaces(r, plan, i, next)
      <3> DEFINE rest == Without(plan.ins, {Old(r, plan, i)})
      <3>1. DOMAIN rest \subseteq D /\ \A x \in DOMAIN rest : rest[x] \in S
        BY <1>2 DEF Without
      <3>2. next.ins = With(rest, <<r, i>>, RowFor(r, i)) /\ next.set = plan.set
        BY <2>5 DEF Replaces
      <3> HIDE DEF rest
      <3>3. QED
        BY <1>1, <1>2, <3>1, <3>2 DEF With
    <2>6. QED
      BY <1>2, <2>1, <2>2, <2>3, <2>4, <2>5, MergeRowCases DEF next
  <1>5. DOMAIN next = Fields
    BY <1>2, MergeRowCases DEF next
  <1>6. QED
    BY <1>4, <1>5 DEF PlanTyped, next, S, D

LEMMA MergedTyped ==
    ASSUME NEW r, NEW dict, body[r].rows \in Seq(Row)
    PROVE  PlanTyped(r, Merged(r, dict))
  <1> DEFINE n == Len(body[r].rows)
  <1>1. PICK plan : /\ Merged(r, dict) = plan[n] /\ plan[0] = Unmerged(dict)
                    /\ \A i \in 1..n : plan[i] = MergeRow(r, plan[i - 1], i)
    BY Merging
  <1>2. n \in Nat /\ DOMAIN body[r].rows = 1..n
    OBVIOUS
  <1> HIDE DEF n
  <1> DEFINE Bad == {i \in 0..n : ~PlanTyped(r, plan[i])}
  <1>3. SUFFICES ASSUME Bad # {} PROVE FALSE
    BY <1>1, <1>2
  <1>4. PICK i \in Bad : \A j \in Bad : i <= j
    <2>1. Bad \in SUBSET Nat
      OBVIOUS
    <2> HIDE DEF Bad
    <2>2. QED
      BY <1>3, <2>1, LeastNatural
  <1>5. PlanTyped(r, plan[0])
    BY <1>1 DEF PlanTyped, Unmerged, Fields
  <1>6. i # 0
    BY <1>4, <1>5
  <1>7. i \in 1..n /\ i - 1 \in 0..n /\ ~(i <= i - 1)
    BY <1>2, <1>4, <1>6
  <1>8. PlanTyped(r, plan[i - 1])
    BY <1>4, <1>7
  <1>9. PlanTyped(r, plan[i])
    BY <1>1, <1>2, <1>7, <1>8, MergeRowTyped
  <1>10. QED
    BY <1>4, <1>9

-----------------------------------------------------------------------------
(***************************************************************************)
(* Frames                                                                  *)
(***************************************************************************)

LEMMA InvTyped == IInv => TypeOK
  BY DEF IInv, Stored, FlushedApart, TypeOK, Position

\* What is left to show of a step of r that leaves the other requests.
LEMMA Kept ==
    ASSUME IInv, NEW r \in Requests, Moves(r), Stored', Shapes', Local(r)',
           instruments \subseteq instruments',
           \A q \in Requests \ {r} : pending'[r] \cap pending[q] = {}
    PROVE  IInv'
  <1>1. FlushedApart'
    BY DEF IInv, FlushedApart, Moves
  <1>2. ASSUME NEW q \in Requests, q # r PROVE Local(q)'
    <2>1. Local(q)
      BY DEF IInv
    <2>2. /\ pc'[q] = pc[q] /\ body'[q] = body[q] /\ target'[q] = target[q]
          /\ view'[q] = view[q] /\ todo'[q] = todo[q] /\ pending'[q] = pending[q]
      BY <1>2 DEF Moves
    <2>3. QED
      BY <2>1, <2>2 DEF Local, Open, Over
  <1>3. QED
    BY <1>1, <1>2 DEF IInv

LEMMA Finished ==
    ASSUME IInv, NEW r \in Requests, NEW how \in Over, Finish(r, how), Stored',
           instruments \subseteq instruments'
    PROVE  IInv'
  <1>1. Shapes
    BY DEF IInv
  <1>2. Moves(r)
    BY <1>1 DEF Finish, Moves, Shapes
  <1>3. /\ pc' \in [Requests -> Places] /\ pc'[r] = how
        /\ pending' \in [Requests -> SUBSET Symbols] /\ pending'[r] = {}
        /\ view'[r] = Nothing /\ DOMAIN view' = Requests /\ DOMAIN seen' = Requests
    BY <1>1 DEF Finish, Shapes, Places
  <1>4. << >> \in Seq(Symbols)
    OBVIOUS
  <1>5. todo' \in [Requests -> Seq(Symbols)]
    BY <1>1, <1>4 DEF Finish, Shapes
  <1>6. \A q \in Requests : DOMAIN view'[q] = {"held", "groups"}
    <2>1. DOMAIN Nothing = {"held", "groups"}
      BY DEF Nothing
    <2>2. \A q \in Requests \ {r} : view'[q] = view[q]
      BY <1>2 DEF Moves
    <2>3. QED
      BY <1>1, <1>3, <2>1, <2>2 DEF Shapes
  <1>7. Shapes'
    BY <1>1, <1>3, <1>5, <1>6 DEF Finish, Shapes
  <1>8. Local(r)'
    <2>1. ~Open(r)' /\ how \notin {"insert", "write", "assignment"}
      BY <1>3 DEF Open, Over
    <2>2. view'[r].held = {}
      BY <1>3 DEF Nothing
    <2>3. QED
      BY <1>3, <2>1, <2>2 DEF Local
  <1>9. QED
    BY <1>2, <1>3, <1>7, <1>8, Kept

LEMMA RolledBack ==
    ASSUME IInv, NEW r \in Requests, NEW how \in Over, RollBack(r, how)
    PROVE  IInv'
  <1>1. Stored' /\ instruments' = instruments
    BY DEF IInv, RollBack, store, holdings, grouping, Stored
  <1>2. QED
    BY <1>1, Finished DEF RollBack

\* A step within the request: the stored rows are as they were.
LEMMA Stays ==
    ASSUME IInv, NEW r \in Requests, UNCHANGED store, Moves(r), Shapes', Local(r)',
           \A q \in Requests \ {r} : pending'[r] \cap pending[q] = {}
    PROVE  IInv'
  <1>1. Stored' /\ instruments' = instruments
    BY DEF IInv, store, holdings, grouping, Stored
  <1>2. QED
    BY <1>1, Kept

-----------------------------------------------------------------------------
(***************************************************************************)
(* Steps that resolve instruments                                          *)
(***************************************************************************)

LEMMA BeginInv ==
    ASSUME IInv, NEW r \in Requests, NEW b \in Bodies, Begin(r, b)
    PROVE  IInv'
  <1>1. Shapes /\ Local(r)
    BY DEF IInv
  <1>2. PICK t \in Targets(b) : target' = [target EXCEPT ![r] = t]
    BY DEF Begin
  <1> DEFINE texts == CASE b.kind \in {"import", "preview"} -> [i \in DOMAIN b.rows |-> b.rows[i].text[1]]
                        [] b.kind = "lookup" -> <<b.sym>>
                        [] OTHER -> << >>
  <1>3. \E x : seen' = [seen EXCEPT ![r] = x]
    BY DEF Begin
  <1>4. texts \in Seq(Symbols)
    <2>1. CASE b.kind \in {"import", "preview"}
      <3>1. b.rows \in Seq(Row)
        BY <2>1, HoldingsOK
      <3>2. \A i \in 1..Len(b.rows) : b.rows[i].text[1] \in Symbols
        <4>1. \A w \in Row : w.text[1] \in Symbols
          BY DEF Row
        <4> HIDE DEF Row
        <4>2. QED
          BY <3>1, <4>1
      <3>3. Len(b.rows) \in Nat /\ DOMAIN b.rows = 1..Len(b.rows)
        BY <3>1
      <3>4. QED
        BY <2>1, <3>2, <3>3
    <2>2. CASE b.kind = "lookup"
      BY <2>2, HoldingsOK
    <2>3. QED
      BY <2>1, <2>2
  <1>5. /\ pc' = [pc EXCEPT ![r] = FirstStep(b)] /\ body' = [body EXCEPT ![r] = b]
        /\ before' = [before EXCEPT ![r] = {q \in Requests : pc[q] \in Over}]
        /\ todo' = [todo EXCEPT ![r] = texts]
        /\ UNCHANGED <<store, view, pending>>
    BY DEF Begin
  <1>6. b.kind = "import" => \A i \in DOMAIN b.rows : b.rows[i].text[1] \in ToSet(texts)
    BY DEF ToSet
  <1>7. FirstStep(b) \in {"resolve", "read", "write"} /\ pc[r] = "idle"
    BY DEF FirstStep, Begin
  <1>8. /\ FirstStep(b) = "write" => b.kind \notin {"import", "create", "assign"}
        /\ b.kind \in {"group", "seed"} => t = None
    BY <1>2 DEF FirstStep, Targets, OnPosition, OnGroup, OnPortfolio
  <1> HIDE DEF texts
  <1>9. Moves(r)
    BY <1>1, <1>2, <1>3, <1>5 DEF Moves, Shapes
  <1>10. Shapes'
    <2>1. FirstStep(b) \in Places
      BY <1>7 DEF Places
    <2>2. QED
      BY <1>1, <1>2, <1>3, <1>4, <1>5, <2>1 DEF Shapes
  <1>11. Local(r)'
    <2>1. ~Open(r)
      BY <1>7 DEF Open
    <2>2. /\ pc'[r] = FirstStep(b) /\ body'[r] = b /\ target'[r] = t /\ todo'[r] = texts
          /\ instruments' = instruments
      BY <1>1, <1>2, <1>5 DEF Shapes, store, holdings
    <2>3. QED
      BY <1>1, <1>5, <1>6, <1>7, <1>8, <2>1, <2>2 DEF Local
  <1>12. \A q \in Requests \ {r} : pending'[r] \cap pending[q] = {}
    BY <1>5 DEF IInv, FlushedApart
  <1>13. QED
    BY <1>5, <1>9, <1>10, <1>11, <1>12, Stays

LEMMA AbortInv ==
    ASSUME IInv, NEW r \in Requests, Abort(r)
    PROVE  IInv'
  <1>1. "aborted" \in Over
    BY DEF Over
  <1>2. QED
    BY <1>1, RolledBack DEF Abort

LEMMA HeadAndTail ==
    ASSUME NEW S, NEW q \in Seq(S), q # << >>
    PROVE  /\ Head(q) \in S /\ Head(q) = q[1] /\ Head(q) \in ToSet(q)
           /\ Tail(q) \in Seq(S) /\ Len(Tail(q)) = Len(q) - 1
           /\ \A i \in 1..Len(Tail(q)) : Tail(q)[i] = q[i + 1]
           /\ ToSet(q) = {Head(q)} \cup ToSet(Tail(q))
  <1>1. Len(q) \in Nat \ {0} /\ DOMAIN q = 1..Len(q)
    OBVIOUS
  <1>2. Head(q) \in S /\ Head(q) = q[1]
    OBVIOUS
  <1>3. Tail(q) \in Seq(S) /\ Len(Tail(q)) = Len(q) - 1 /\ DOMAIN Tail(q) = 1..Len(Tail(q))
    OBVIOUS
  <1>4. \A i \in 1..Len(Tail(q)) : Tail(q)[i] = q[i + 1]
    OBVIOUS
  <1>5. Head(q) \in ToSet(q)
    BY <1>1, <1>2 DEF ToSet
  <1>6. ToSet(Tail(q)) \subseteq ToSet(q)
    <2>1. \A i \in 1..Len(Tail(q)) : i + 1 \in 1..Len(q)
      BY <1>1, <1>3
    <2>2. QED
      BY <1>1, <1>3, <1>4, <2>1 DEF ToSet
  <1>7. ToSet(q) \subseteq {Head(q)} \cup ToSet(Tail(q))
    <2>1. ASSUME NEW i \in 1..Len(q), i # 1 PROVE q[i] \in ToSet(Tail(q))
      <3>1. i - 1 \in 1..Len(Tail(q)) /\ Tail(q)[i - 1] = q[i]
        BY <1>1, <1>3, <1>4, <2>1
      <3>2. QED
        BY <1>3, <3>1 DEF ToSet
    <2>2. \A x \in ToSet(q) : \E i \in 1..Len(q) : x = q[i]
      BY <1>1 DEF ToSet
    <2>3. QED
      BY <1>2, <2>1, <2>2
  <1>8. QED
    BY <1>2, <1>3, <1>4, <1>5, <1>6, <1>7

\* A step that only moves the counter and the queue of r, and what it has flushed.
LEMMA Steps ==
    ASSUME IInv, NEW r \in Requests, UNCHANGED <<store, body, target, before, view>>,
           NEW p \in Places, pc' = [pc EXCEPT ![r] = p],
           todo' \in [Requests -> Seq(Symbols)], pending' \in [Requests -> SUBSET Symbols],
           \A q \in Requests \ {r} :
              todo'[q] = todo[q] /\ pending'[q] = pending[q] /\ seen'[q] = seen[q],
           DOMAIN seen' = Requests,
           Local(r)', \A q \in Requests \ {r} : pending'[r] \cap pending[q] = {}
    PROVE  IInv'
  <1>1. Shapes
    BY DEF IInv
  <1>2. Shapes'
    BY <1>1 DEF Shapes
  <1>3. Moves(r)
    BY <1>1 DEF Moves, Shapes
  <1>4. QED
    BY <1>2, <1>3, Stays

LEMMA ResolveInv ==
    ASSUME IInv, NEW r \in Requests, Resolve(r)
    PROVE  IInv'
  <1> DEFINE s == Head(todo[r])
  <1>1. Shapes /\ Local(r) /\ FlushedApart
    BY DEF IInv
  <1>2. todo[r] # << >> /\ pc[r] = "resolve" /\ todo[r] \in Seq(Symbols)
    BY <1>1 DEF Resolve, Shapes
  <1>3. s \in Symbols /\ Tail(todo[r]) \in Seq(Symbols)
        /\ ToSet(todo[r]) = {s} \cup ToSet(Tail(todo[r]))
    BY <1>2, HeadAndTail
  <1> HIDE DEF s
  <1>4. \A q \in Requests \ {r} : pending[r] \cap pending[q] = {}
    BY <1>1 DEF FlushedApart
  <1>5. CASE /\ s \in instruments \cup pending[r] \/ (s \notin Listed /\ body[r].kind = "preview")
             /\ todo' = [todo EXCEPT ![r] = Tail(@)]
             /\ UNCHANGED <<store, pc, body, target, before, seen, view, pending>>
    <2>1. "resolve" \in Places /\ pc' = [pc EXCEPT ![r] = "resolve"]
      BY <1>1, <1>2, <1>5 DEF Shapes, Places
    <2>2. todo' \in [Requests -> Seq(Symbols)] /\ todo'[r] = Tail(todo[r])
          /\ \A q \in Requests \ {r} : todo'[q] = todo[q]
      BY <1>1, <1>3, <1>5 DEF Shapes
    <2>3. Local(r)'
      BY <1>1, <1>2, <1>3, <1>5, <2>2 DEF Local, Open, store, holdings
    <2>4. QED
      BY <1>1, <1>4, <1>5, <2>1, <2>2, <2>3, Steps DEF Shapes
  <1>6. CASE /\ s \notin instruments \cup pending[r] /\ s \in Listed
             /\ pc' = [pc EXCEPT ![r] = "insert"]
             /\ UNCHANGED <<store, body, target, before, seen, view, todo, pending>>
    <2>1. "insert" \in Places /\ pc'[r] = "insert"
      BY <1>1, <1>6 DEF Shapes, Places
    <2>2. Local(r)'
      BY <1>1, <1>2, <1>6, <2>1 DEF Local, Open, Over, store, holdings
    <2>3. QED
      BY <1>1, <1>4, <1>6, <2>1, <2>2, Steps DEF Shapes
  <1>7. CASE RollBack(r, "refused")
    BY <1>7, RolledBack DEF Over
  <1>8. \/ /\ s \in instruments \cup pending[r] \/ (s \notin Listed /\ body[r].kind = "preview")
           /\ todo' = [todo EXCEPT ![r] = Tail(@)]
           /\ UNCHANGED <<store, pc, body, target, before, seen, view, pending>>
        \/ /\ s \notin instruments \cup pending[r] /\ s \in Listed
           /\ pc' = [pc EXCEPT ![r] = "insert"]
           /\ UNCHANGED <<store, body, target, before, seen, view, todo, pending>>
        \/ RollBack(r, "refused")
    BY DEF Resolve, s
  <1>9. QED
    BY <1>5, <1>6, <1>7, <1>8

LEMMA InsertInv ==
    ASSUME IInv, NEW r \in Requests, Insert(r)
    PROVE  IInv'
  <1> DEFINE s == Head(todo[r])
  <1>1. Shapes /\ Local(r) /\ FlushedApart
    BY DEF IInv
  <1>2. todo[r] # << >> /\ pc[r] = "insert" /\ todo[r] \in Seq(Symbols)
    BY <1>1 DEF Insert, Shapes, Local
  <1>3. s \in Symbols /\ Tail(todo[r]) \in Seq(Symbols)
        /\ ToSet(todo[r]) = {s} \cup ToSet(Tail(todo[r]))
    BY <1>2, HeadAndTail
  <1>4. /\ pending' = [pending EXCEPT ![r] = @ \cup {s}] /\ todo' = [todo EXCEPT ![r] = Tail(@)]
        /\ pc' = [pc EXCEPT ![r] = "resolve"]
        /\ UNCHANGED <<store, body, target, before, view, seen>>
    BY DEF Insert
  <1>5. \A q \in Requests \ {r} : s \notin pending[q]
    <2>1. \A q \in Requests : ~WaitsFor(r, q)
      BY DEF Insert, Waits
    <2>2. \A q \in Requests : Open(q) \/ pending[q] = {}
      BY DEF IInv, Local
    <2>3. QED
      BY <1>2, <2>1, <2>2 DEF WaitsFor
  <1> HIDE DEF s
  <1>6. /\ pending' \in [Requests -> SUBSET Symbols] /\ pending'[r] = pending[r] \cup {s}
        /\ todo' \in [Requests -> Seq(Symbols)] /\ todo'[r] = Tail(todo[r])
        /\ \A q \in Requests \ {r} : todo'[q] = todo[q] /\ pending'[q] = pending[q]
        /\ "resolve" \in Places /\ pc'[r] = "resolve"
    BY <1>1, <1>3, <1>4 DEF Shapes, Places
  <1>7. \A q \in Requests \ {r} : pending'[r] \cap pending[q] = {}
    BY <1>1, <1>5, <1>6 DEF FlushedApart
  <1>8. Local(r)'
    BY <1>1, <1>2, <1>3, <1>4, <1>6 DEF Local, Open, Over, store, holdings
  <1>9. QED
    BY <1>1, <1>4, <1>6, <1>7, <1>8, Steps DEF Shapes

LEMMA InsertFailsInv ==
    ASSUME IInv, NEW r \in Requests, InsertFails(r)
    PROVE  IInv'
  BY RolledBack DEF InsertFails, Over

LEMMA CommitInstrumentsInv ==
    ASSUME IInv, NEW r \in Requests, CommitInstruments(r)
    PROVE  IInv'
  <1>1. instruments' = instruments \cup pending[r] /\ Finish(r, "done")
        /\ UNCHANGED <<portfolios, positions, referred, groups, assigned>>
    BY DEF CommitInstruments
  <1>2. Stored /\ pending[r] \subseteq Symbols
    BY DEF IInv, Shapes
  <1>3. Stored'
    BY <1>1, <1>2 DEF Stored, Position
  <1>4. QED
    BY <1>1, <1>3, Finished DEF Over

LEMMA ReadExistingInv ==
    ASSUME IInv, NEW r \in Requests, ReadExisting(r)
    PROVE  IInv'
  <1>1. Shapes /\ Local(r) /\ FlushedApart
    BY DEF IInv
  <1>2. \E x : seen' = [seen EXCEPT ![r] = x]
    BY DEF ReadExisting
  <1>3. /\ pc[r] = "resolve" /\ todo[r] = << >> /\ body[r].kind = "import"
        /\ pc' = [pc EXCEPT ![r] = "write"]
        /\ UNCHANGED <<store, body, target, before, view, todo, pending>>
    BY DEF ReadExisting
  <1>4. "write" \in Places /\ pc'[r] = "write"
    BY <1>1, <1>3 DEF Shapes, Places
  <1>5. Local(r)'
    BY <1>1, <1>3, <1>4 DEF Local, Open, Over, store, holdings
  <1>6. \A q \in Requests \ {r} : pending[r] \cap pending[q] = {} /\ seen'[q] = seen[q]
    BY <1>1, <1>2 DEF FlushedApart, Shapes
  <1>7. DOMAIN seen' = Requests
    BY <1>1, <1>2 DEF Shapes
  <1>8. QED
    BY <1>1, <1>3, <1>4, <1>5, <1>6, <1>7, Steps DEF Shapes

-----------------------------------------------------------------------------
(***************************************************************************)
(* Steps that write positions and portfolios                               *)
(***************************************************************************)

LEMMA WriterOpen ==
    ASSUME IInv, NEW r \in Requests, pc[r] \notin {"idle"} \cup Over
    PROVE  body[r] \in Bodies
  BY DEF IInv, Local, Open

LEMMA NoneLeft == ToSet(<< >>) = {}
  BY DEF ToSet

LEMMA ImportInv ==
    ASSUME IInv, NEW r \in Requests, Import(r)
    PROVE  IInv'
  <1>1. Stored /\ Shapes /\ Local(r)
    BY DEF IInv
  <1>2. pc[r] = "write" /\ body[r].kind = "import" /\ Open(r)
    BY DEF Import, Open, Over
  <1>3. body[r].rows \in Seq(Row)
    BY <1>1, <1>2, HoldingsOK DEF Local
  <1>4. \A i \in DOMAIN body[r].rows : body[r].rows[i].text[1] \in instruments \cup pending[r]
    BY <1>1, <1>2, NoneLeft DEF Local
  <1>5. PICK dict \in Dicts(r) :
           LET plan == Merged(r, dict) IN
           \/ Rejected(r, plan) /\ RollBack(r, "failed")
           \/ /\ ~Rejected(r, plan)
              /\ instruments' = instruments \cup pending[r]
              /\ portfolios' = IF body[r].new = None THEN portfolios ELSE With(portfolios, r, body[r].new)
              /\ positions' = Onto([i \in DOMAIN positions \ plan.del |->
                       IF i \in Updates(r, plan) THEN [positions[i] EXCEPT !.qty = plan.set[i]]
                       ELSE positions[i]],
                    plan.ins)
              /\ Finish(r, "done")
              /\ UNCHANGED <<referred, groups, assigned>>
    BY DEF Import
  <1> DEFINE plan == Merged(r, dict)
             kept == [i \in DOMAIN positions \ plan.del |->
                        IF i \in Updates(r, plan) THEN [positions[i] EXCEPT !.qty = plan.set[i]]
                        ELSE positions[i]]
  <1>6. PlanTyped(r, plan)
    BY <1>3, MergedTyped
  <1>7. CASE RollBack(r, "failed")
    BY <1>7, RolledBack DEF Over
  <1>8. CASE /\ ~Rejected(r, plan)
             /\ instruments' = instruments \cup pending[r]
             /\ portfolios' = IF body[r].new = None THEN portfolios ELSE With(portfolios, r, body[r].new)
             /\ positions' = Onto(kept, plan.ins)
             /\ Finish(r, "done")
             /\ UNCHANGED <<referred, groups, assigned>>
    <2> HIDE DEF plan
    <2>1. DOMAIN portfolios \subseteq DOMAIN portfolios' /\ instruments \subseteq instruments'
      BY <1>8 DEF With
    <2>2. DOMAIN plan.ins # {} => PfOf(r) \in DOMAIN portfolios'
      BY <1>8 DEF Rejected, PfOf, With
    <2>3. \A i \in DOMAIN kept : kept[i] \in Position(DOMAIN portfolios', instruments')
      <3>1. \A i \in Updates(r, plan) : plan.set[i] \in Nat
        BY <1>6 DEF PlanTyped, Updates
      <3>2. \A i \in DOMAIN positions : positions[i] \in Position(DOMAIN portfolios', instruments')
        BY <1>1, <2>1 DEF Stored, Position
      <3>3. ASSUME NEW i \in DOMAIN kept
            PROVE  kept[i] \in Position(DOMAIN portfolios', instruments')
        <4>1. positions[i] \in Position(DOMAIN portfolios', instruments')
          BY <3>2
        <4>2. i \in Updates(r, plan) =>
                 [positions[i] EXCEPT !.qty = plan.set[i]] \in Position(DOMAIN portfolios', instruments')
          BY <3>1, <4>1 DEF Position
        <4>3. QED
          BY <4>1, <4>2
      <3>4. QED
        BY <3>3
    <2>4. \A i \in DOMAIN plan.ins : plan.ins[i] \in Position(DOMAIN portfolios', instruments')
      <3>1. {body[r].rows[i].text[1] : i \in DOMAIN body[r].rows} \subseteq instruments'
        BY <1>4, <1>8
      <3>2. QED
        BY <1>6, <2>2, <3>1 DEF PlanTyped, Position, Text
    <2> HIDE DEF kept
    <2>5. \A i \in DOMAIN positions' : positions'[i] \in Position(DOMAIN portfolios', instruments')
      BY <1>8, <2>3, <2>4 DEF Onto
    <2>6. instruments' \subseteq Symbols
      BY <1>1, <1>8 DEF Stored, Shapes
    <2>7. Stored'
      BY <1>1, <1>8, <2>1, <2>5, <2>6 DEF Stored
    <2>8. QED
      BY <1>8, <2>1, <2>7, Finished DEF Over
  <1>9. QED
    BY <1>5, <1>7, <1>8

LEMMA FindPositionInv ==
    ASSUME IInv, NEW r \in Requests, FindPosition(r)
    PROVE  IInv'
  <1>1. Shapes /\ Local(r) /\ FlushedApart
    BY DEF IInv
  <1>2. CASE \E how \in Over : RollBack(r, how)
    BY <1>2, RolledBack
  <1>3. CASE /\ body[r].sym \in instruments /\ pc[r] = "read" /\ body[r].kind = "create"
             /\ pc' = [pc EXCEPT ![r] = "write"]
             /\ UNCHANGED <<store, body, target, before, seen, view, todo, pending>>
    <2>1. "write" \in Places /\ pc'[r] = "write"
      BY <1>1, <1>3 DEF Shapes, Places
    <2>2. Local(r)'
      BY <1>1, <1>3, <2>1 DEF Local, Open, Over, store, holdings
    <2>3. \A q \in Requests \ {r} : pending[r] \cap pending[q] = {}
      BY <1>1 DEF FlushedApart
    <2>4. QED
      BY <1>1, <1>3, <2>1, <2>2, <2>3, Steps DEF Shapes
  <1>4. QED
    BY <1>2, <1>3 DEF FindPosition, Over

LEMMA CreatePositionInv ==
    ASSUME IInv, NEW r \in Requests, CreatePosition(r)
    PROVE  IInv'
  <1> DEFINE row == [pf |-> target[r], sym |-> body[r].sym, qty |-> body[r].qty]
             fits == target[r] \in DOMAIN portfolios
  <1>1. Stored /\ Local(r) /\ pc[r] = "write" /\ body[r].kind = "create"
    BY DEF IInv, CreatePosition, Write
  <1>2. body[r].qty \in Nat /\ body[r].sym \in instruments
    BY <1>1, WriterOpen, HoldingsOK DEF Over, Local
  <1>3. fits => row \in Position(DOMAIN portfolios, instruments)
    BY <1>2 DEF Position
  <1>4. /\ positions' = IF fits THEN With(positions, <<r, 1>>, row) ELSE positions
        /\ Finish(r, IF fits THEN "done" ELSE "failed")
        /\ UNCHANGED <<instruments, portfolios, referred, groups, assigned>>
    BY DEF CreatePosition, Write, grouping
  <1> HIDE DEF row, fits
  <1>5. Stored'
    BY <1>1, <1>3, <1>4 DEF Stored, With
  <1>6. QED
    BY <1>4, <1>5, Finished DEF Over

LEMMA EditPositionInv ==
    ASSUME IInv, NEW r \in Requests, EditPosition(r)
    PROVE  IInv'
  <1> DEFINE i == target[r]
  <1>1. Stored /\ pc[r] = "write" /\ body[r].kind = "edit"
    BY DEF IInv, EditPosition, Write
  <1>2. body[r].qty \in Nat
    BY <1>1, WriterOpen, HoldingsOK DEF Over
  <1>3. \/ positions' = positions
        \/ i \in DOMAIN positions /\ positions' = [positions EXCEPT ![i].qty = body[r].qty]
    BY DEF EditPosition
  <1>4. /\ \E how \in Over : Finish(r, how)
        /\ UNCHANGED <<instruments, portfolios, referred, groups, assigned>>
    BY DEF EditPosition, Write, grouping, Over
  <1> HIDE DEF i
  <1>5. \A x \in DOMAIN positions' : positions'[x] \in Position(DOMAIN portfolios, instruments)
    BY <1>1, <1>2, <1>3 DEF Stored, Position
  <1>6. Stored'
    BY <1>1, <1>4, <1>5 DEF Stored
  <1>7. QED
    BY <1>4, <1>6, Finished

LEMMA DropPositionInv ==
    ASSUME IInv, NEW r \in Requests, DropPosition(r)
    PROVE  IInv'
  <1>1. /\ Stored /\ positions' = Without(positions, {target[r]}) /\ Finish(r, "done")
        /\ UNCHANGED <<instruments, portfolios, referred, groups, assigned>>
    BY DEF IInv, DropPosition, Write, grouping
  <1>2. Stored'
    BY <1>1 DEF Stored, Without
  <1>3. QED
    BY <1>1, <1>2, Finished DEF Over

LEMMA CreatePortfolioInv ==
    ASSUME IInv, NEW r \in Requests, CreatePortfolio(r)
    PROVE  IInv'
  <1>1. /\ Stored /\ portfolios' = With(portfolios, r, body[r].new) /\ Finish(r, "done")
        /\ UNCHANGED <<instruments, positions, referred, groups, assigned>>
    BY DEF IInv, CreatePortfolio, Write, grouping
  <1>2. DOMAIN portfolios \subseteq DOMAIN portfolios'
    BY <1>1 DEF With
  <1>3. Stored'
    BY <1>1, <1>2 DEF Stored, Position
  <1>4. QED
    BY <1>1, <1>3, Finished DEF Over

LEMMA UpdatePortfolioInv ==
    ASSUME IInv, NEW r \in Requests, UpdatePortfolio(r)
    PROVE  IInv'
  <1>1. /\ Stored /\ \E how \in Over : Finish(r, how)
        /\ DOMAIN portfolios' = DOMAIN portfolios
        /\ UNCHANGED <<instruments, positions, referred, groups, assigned>>
    BY DEF IInv, UpdatePortfolio, Write, grouping, Over
  <1>2. Stored'
    BY <1>1 DEF Stored
  <1>3. QED
    BY <1>1, <1>2, Finished

LEMMA DeletePortfolioInv ==
    ASSUME IInv, NEW r \in Requests, DeletePortfolio(r)
    PROVE  IInv'
  <1> DEFINE rest == {i \in DOMAIN positions \ DOMAIN seen[r] : positions[i].pf = target[r]}
             fits == rest = {} /\ target[r] \notin referred
  <1>1. /\ Stored /\ Finish(r, IF fits THEN "done" ELSE "failed")
        /\ positions' = IF fits THEN Without(positions, DOMAIN seen[r]) ELSE positions
        /\ portfolios' = IF fits THEN Without(portfolios, {target[r]}) ELSE portfolios
        /\ UNCHANGED <<instruments, referred, groups, assigned>>
    BY DEF IInv, DeletePortfolio, Write, grouping
  <1>2. CASE fits
    <2>1. DOMAIN portfolios' = DOMAIN portfolios \ {target[r]}
      BY <1>1, <1>2 DEF Without
    <2>2. \A i \in DOMAIN positions' : i \in DOMAIN positions /\ positions'[i] = positions[i]
                                       /\ positions[i].pf # target[r]
      BY <1>1, <1>2 DEF Without
    <2>3. \A i \in DOMAIN positions' : positions'[i] \in Position(DOMAIN portfolios', instruments)
      BY <1>1, <2>1, <2>2 DEF Stored, Position
    <2>4. referred \subseteq DOMAIN portfolios'
      BY <1>1, <1>2, <2>1 DEF Stored
    <2>5. Stored'
      BY <1>1, <2>3, <2>4 DEF Stored
    <2>6. QED
      BY <1>1, <1>2, <2>5, Finished DEF Over
  <1>3. CASE ~fits
    <2>1. Stored'
      BY <1>1, <1>3 DEF Stored
    <2>2. QED
      BY <1>1, <1>3, <2>1, Finished DEF Over
  <1>4. QED
    BY <1>2, <1>3

LEMMA ReferInv ==
    ASSUME IInv, NEW r \in Requests, Refer(r)
    PROVE  IInv'
  <1>1. /\ Stored /\ \E how \in Over : Finish(r, how)
        /\ referred' \subseteq referred \cup DOMAIN portfolios
        /\ UNCHANGED <<instruments, portfolios, positions, groups, assigned>>
    BY DEF IInv, Refer, Write, grouping, Over
  <1>2. Stored'
    BY <1>1 DEF Stored
  <1>3. QED
    BY <1>1, <1>2, Finished

-----------------------------------------------------------------------------
(***************************************************************************)
(* Steps on holding groups                                                 *)
(***************************************************************************)

\* A request that makes a group has none of its own yet: every name is another's.
LEMMA TakingAll ==
    ASSUME IInv, NEW r \in Requests, Open(r), body[r].kind \in {"group", "seed"}
    PROVE  Taking(r) = {groups[g] : g \in DOMAIN groups}
  <1>1. target[r] = None
    BY DEF IInv, Local
  <1>2. target[r] \notin DOMAIN groups
    BY <1>1, HoldingsOK DEF IInv, Stored
  <1>3. QED
    BY <1>2 DEF Taking

LEMMA CreateGroupInv ==
    ASSUME IInv, NEW r \in Requests, CreateGroup(r)
    PROVE  IInv'
  <1> DEFINE name == body[r].name
             fits == name \notin Taking(r)
  <1>1. /\ Stored /\ pc[r] = "write" /\ body[r].kind = "group"
        /\ Finish(r, IF fits THEN "done" ELSE "refused")
        /\ groups' = IF fits THEN With(groups, <<r, name>>, name) ELSE groups
        /\ UNCHANGED <<instruments, portfolios, positions, referred, assigned>>
    BY DEF IInv, CreateGroup, holdings
  <1>2. Open(r)
    BY <1>1 DEF Open, Over
  <1>3. name \in Names
    BY <1>1, WriterOpen DEF Over, Names
  <1>4. CASE fits
    <2>1. \A g \in DOMAIN groups : groups[g] # name
      BY <1>1, <1>2, <1>4, TakingAll
    <2> HIDE DEF fits, name
    <2>2. /\ DOMAIN groups' = DOMAIN groups \cup {<<r, name>>}
          /\ \A g \in DOMAIN groups' : groups'[g] = IF g = <<r, name>> THEN name ELSE groups[g]
      BY <1>1, <1>4 DEF With
    <2>3. \A g, h \in DOMAIN groups' : groups'[g] = groups'[h] => g = h
      BY <1>1, <2>1, <2>2 DEF Stored
    <2>4. Stored'
      BY <1>1, <1>3, <2>2, <2>3 DEF Stored
    <2>5. QED
      BY <1>1, <1>4, <2>4, Finished DEF Over
  <1>5. CASE ~fits
    <2>1. Stored'
      BY <1>1, <1>5 DEF Stored
    <2>2. QED
      BY <1>1, <1>5, <2>1, Finished DEF Over
  <1>6. QED
    BY <1>4, <1>5

LEMMA UpdateGroupInv ==
    ASSUME IInv, NEW r \in Requests, UpdateGroup(r)
    PROVE  IInv'
  <1> DEFINE t == target[r]
             name == body[r].name
  <1>1. Stored
    BY DEF IInv
  <1>2. CASE \E how \in Over : RollBack(r, how)
    BY <1>2, RolledBack
  <1>3. CASE /\ t \in DOMAIN groups /\ name \notin Taking(r)
             /\ groups' = [groups EXCEPT ![t] = name]
             /\ Finish(r, "done")
             /\ UNCHANGED <<holdings, assigned>>
    <2>1. \A g \in DOMAIN groups : g = t \/ groups[g] # name
      BY <1>3 DEF Taking
    <2> HIDE DEF t, name
    <2>2. DOMAIN groups' = DOMAIN groups
          /\ \A g \in DOMAIN groups : groups'[g] = IF g = t THEN name ELSE groups[g]
      BY <1>3
    <2>3. \A g, h \in DOMAIN groups' : groups'[g] = groups'[h] => g = h
      BY <1>1, <2>1, <2>2 DEF Stored
    <2>4. Stored' /\ instruments' = instruments
      BY <1>1, <1>3, <2>2, <2>3 DEF Stored, holdings
    <2>5. QED
      BY <1>3, <2>4, Finished DEF Over
  <1>4. QED
    BY <1>2, <1>3 DEF UpdateGroup, Over

LEMMA DeleteGroupInv ==
    ASSUME IInv, NEW r \in Requests, DeleteGroup(r)
    PROVE  IInv'
  <1>1. /\ Stored /\ Finish(r, "done")
        /\ groups' = Without(groups, {target[r]})
        /\ assigned' = Without(assigned, {s \in DOMAIN assigned : assigned[s].group = target[r]})
        /\ UNCHANGED <<instruments, portfolios, positions, referred>>
    BY DEF IInv, DeleteGroup, Write, holdings
  <1>2. /\ DOMAIN groups' = DOMAIN groups \ {target[r]}
        /\ \A g \in DOMAIN groups' : groups'[g] = groups[g]
    BY <1>1 DEF Without
  <1>3. \A s \in DOMAIN assigned' :
           s \in DOMAIN assigned /\ assigned'[s] = assigned[s] /\ assigned[s].group # target[r]
    BY <1>1 DEF Without
  <1>4. Stored'
    BY <1>1, <1>2, <1>3 DEF Stored
  <1>5. QED
    BY <1>1, <1>4, Finished DEF Over

LEMMA FindAssignmentInv ==
    ASSUME IInv, NEW r \in Requests, FindAssignment(r)
    PROVE  IInv'
  <1>1. Stored /\ Shapes /\ Local(r) /\ Open(r) /\ body[r].kind \in {"assign", "unassign"}
    BY DEF IInv, FindAssignment
  <1>2. \A q \in Requests \ {r} : pending[r] \cap pending[q] = {}
    BY DEF IInv, FlushedApart
  <1>3. CASE \E how \in Over : RollBack(r, how)
    BY <1>3, RolledBack
  <1>4. CASE /\ pc[r] = "read" /\ body[r].sym \in Held
             /\ pc' = [pc EXCEPT ![r] = "assignment"]
             /\ UNCHANGED <<store, body, target, before, seen, view, todo, pending>>
    <2>1. "assignment" \in Places /\ pc'[r] = "assignment"
      BY <1>1, <1>4 DEF Shapes, Places
    <2>2. body[r].sym \in instruments
      BY <1>1, <1>4 DEF Held, Stored, Position
    <2>3. Local(r)'
      BY <1>1, <1>4, <2>1, <2>2 DEF Local, Open, Over, store, holdings
    <2>4. QED
      BY <1>1, <1>2, <1>4, <2>1, <2>3, Steps DEF Shapes
  <1>5. CASE /\ pc[r] = "assignment"
             /\ seen' = [seen EXCEPT ![r] = Only(assigned, {body[r].sym})]
             /\ pc' = [pc EXCEPT ![r] = "write"]
             /\ UNCHANGED <<store, body, target, before, view, todo, pending>>
    <2>1. "write" \in Places /\ pc'[r] = "write"
      BY <1>1, <1>5 DEF Shapes, Places
    <2>2. Local(r)'
      BY <1>1, <1>5, <2>1 DEF Local, Open, Over, store, holdings
    <2>3. DOMAIN seen' = Requests /\ \A q \in Requests \ {r} : seen'[q] = seen[q]
      BY <1>1, <1>5 DEF Shapes
    <2>4. QED
      BY <1>1, <1>2, <1>5, <2>1, <2>2, <2>3, Steps DEF Shapes
  <1>6. QED
    BY <1>3, <1>4, <1>5 DEF FindAssignment, Over

LEMMA AssignInv ==
    ASSUME IInv, NEW r \in Requests, Assign(r)
    PROVE  IInv'
  <1> DEFINE s == body[r].sym
  <1>1. Stored /\ Local(r) /\ pc[r] = "write" /\ body[r].kind = "assign"
    BY DEF IInv, Assign, Write
  <1>2. s \in instruments
    BY <1>1 DEF Local
  <1>3. \/ assigned' = assigned
        \/ /\ target[r] \in DOMAIN groups
           /\ \E id : assigned' = With(assigned, s, [id |-> id, group |-> target[r]])
    BY DEF Assign
  <1>4. (\E how \in Over : Finish(r, how))
        /\ UNCHANGED <<instruments, portfolios, positions, referred, groups>>
    BY DEF Assign, Write, holdings, Over
  <1>5. \A x \in DOMAIN assigned' : x \in instruments /\ assigned'[x].group \in DOMAIN groups
    BY <1>1, <1>2, <1>3 DEF Stored, With
  <1>6. Stored'
    BY <1>1, <1>4, <1>5 DEF Stored
  <1>7. QED
    BY <1>4, <1>6, Finished

LEMMA UnassignInv ==
    ASSUME IInv, NEW r \in Requests, Unassign(r)
    PROVE  IInv'
  <1>1. /\ Stored /\ Finish(r, "done") /\ \E S : assigned' = Without(assigned, S)
        /\ UNCHANGED <<instruments, portfolios, positions, referred, groups>>
    BY DEF IInv, Unassign, Write, holdings
  <1>2. Stored'
    BY <1>1 DEF Stored, Without
  <1>3. QED
    BY <1>1, <1>2, Finished DEF Over

LEMMA SeedReadsInv ==
    ASSUME IInv, NEW r \in Requests, SeedReads(r)
    PROVE  IInv'
  <1>1. /\ Stored /\ Shapes /\ Local(r) /\ Open(r) /\ body[r].kind = "seed"
        /\ UNCHANGED <<store, body, target, before, seen, todo, pending>>
    BY DEF IInv, SeedReads
  <1>2. \A q \in Requests \ {r} : pending[r] \cap pending[q] = {}
    BY DEF IInv, FlushedApart
  <1>3. Held \subseteq instruments
    BY <1>1 DEF Held, Stored, Position
  <1>4. PICK x : /\ view' = [view EXCEPT ![r] = x]
                 /\ DOMAIN x = {"held", "groups"} /\ x.held \subseteq instruments
    <2>1. DOMAIN view[r] = {"held", "groups"} /\ view[r].held \subseteq instruments
      BY <1>1 DEF Shapes, Local
    <2>2. CASE view' = [view EXCEPT ![r] = [held |-> Held, groups |-> << >>]]
      <3> DEFINE x == [held |-> Held, groups |-> << >>]
      <3>1. DOMAIN x = {"held", "groups"} /\ x.held = Held
        OBVIOUS
      <3>2. view' = [view EXCEPT ![r] = x]
        BY <2>2
      <3> HIDE DEF x
      <3>3. QED
        BY <1>3, <3>1, <3>2
    <2>3. CASE view' = [view EXCEPT ![r].groups = groups]
      <3> DEFINE x == [view[r] EXCEPT !.groups = groups]
      <3>1. DOMAIN x = {"held", "groups"} /\ x.held = view[r].held
        BY <2>1
      <3>2. QED
        BY <2>1, <2>3, <3>1
    <2>4. CASE view' = [view EXCEPT ![r].held = @ \ DOMAIN assigned]
      <3> DEFINE x == [view[r] EXCEPT !.held = @ \ DOMAIN assigned]
      <3>1. DOMAIN x = {"held", "groups"} /\ x.held = view[r].held \ DOMAIN assigned
        BY <2>1
      <3>2. view' = [view EXCEPT ![r] = x]
        BY <2>4
      <3> HIDE DEF x
      <3>3. QED
        BY <2>1, <3>1, <3>2
    <2>5. QED
      BY <2>2, <2>3, <2>4 DEF SeedReads
  <1>5. PICK p \in {"groups", "assigned", "write"} : pc' = [pc EXCEPT ![r] = p]
    BY DEF SeedReads
  <1>6. /\ pc' \in [Requests -> Places] /\ pc'[r] = p
        /\ DOMAIN view' = Requests /\ view'[r] = x
        /\ \A q \in Requests \ {r} : pc'[q] = pc[q] /\ view'[q] = view[q]
    BY <1>1, <1>4, <1>5 DEF Shapes, Places
  <1>7. Moves(r)
    BY <1>1, <1>6 DEF Moves
  <1>8. Shapes'
    BY <1>1, <1>4, <1>6 DEF Shapes
  <1>9. Local(r)'
    BY <1>1, <1>4, <1>5, <1>6 DEF Local, Open, Over, store, holdings
  <1>10. QED
    BY <1>1, <1>2, <1>7, <1>8, <1>9, Stays

LEMMA SeedInv ==
    ASSUME IInv, NEW r \in Requests, Seed(r)
    PROVE  IInv'
  <1> DEFINE known == view[r].groups
             held == view[r].held
             GroupOf(s) ==
                IF \E g \in DOMAIN known : known[g] = Sector[s]
                  THEN CHOOSE g \in DOMAIN known : known[g] = Sector[s] ELSE <<r, Sector[s]>>
             added == {GroupOf(s) : s \in held} \ DOMAIN known
             fits == /\ \A s \in held : s \notin DOMAIN assigned /\ GroupOf(s) \in DOMAIN groups \cup added
                     /\ \A g \in added : g[2] \notin Taking(r)
             names == [g \in added |-> g[2]]
             rows == [s \in held |-> [id |-> r, group |-> GroupOf(s)]]
  <1>1. /\ Stored /\ Local(r) /\ pc[r] = "write" /\ body[r].kind = "seed"
        /\ Finish(r, IF fits THEN "done" ELSE "failed")
        /\ groups' = IF fits THEN Onto(groups, names) ELSE groups
        /\ assigned' = IF fits THEN Onto(assigned, rows) ELSE assigned
        /\ UNCHANGED <<instruments, portfolios, positions, referred>>
    BY DEF IInv, Seed, Write, holdings
  <1>2. Open(r)
    BY <1>1 DEF Open, Over
  <1>3. \A g \in added : g \in Requests \X Names /\ g = <<r, g[2]>>
    <2>1. \A s \in held : Sector[s] \in Names
      BY <1>1 DEF Local, Stored, Names
    <2>2. ASSUME NEW s \in held, GroupOf(s) \notin DOMAIN known
          PROVE  GroupOf(s) = <<r, Sector[s]>>
      <3>1. CASE \E g \in DOMAIN known : known[g] = Sector[s]
        BY <2>2, <3>1
      <3>2. QED
        BY <3>1
    <2> HIDE DEF GroupOf, known, held
    <2>3. QED
      BY <2>1, <2>2
  <1>4. CASE fits
    <2>1. \A g \in added, h \in DOMAIN groups : g[2] # groups[h]
      BY <1>1, <1>2, <1>4, TakingAll
    <2>2. /\ DOMAIN groups' = DOMAIN groups \cup added
          /\ \A g \in DOMAIN groups' : groups'[g] = IF g \in added THEN g[2] ELSE groups[g]
      <3> HIDE DEF fits, added
      <3>1. QED
        BY <1>1, <1>4 DEF Onto
    <2>3. \A s \in held : s \in instruments /\ rows[s].group \in DOMAIN groups \cup added
      BY <1>1, <1>4 DEF Local
    <2>4. groups' = Onto(groups, names) /\ assigned' = Onto(assigned, rows) /\ DOMAIN rows = held
      BY <1>1, <1>4
    <2> HIDE DEF fits, added, names, rows, held
    <2>5. \A g, h \in DOMAIN groups' : groups'[g] = groups'[h] => g = h
      BY <1>1, <1>3, <2>1, <2>2 DEF Stored
    <2>6. DOMAIN groups' \subseteq Requests \X Names
      BY <1>1, <1>3, <2>2 DEF Stored
    <2>7. \A s \in DOMAIN assigned' : s \in instruments /\ assigned'[s].group \in DOMAIN groups'
      BY <1>1, <2>2, <2>3, <2>4 DEF Stored, Onto
    <2>8. Stored'
      BY <1>1, <2>5, <2>6, <2>7 DEF Stored
    <2>9. QED
      BY <1>1, <1>4, <2>8, Finished DEF Over
  <1>5. CASE ~fits
    <2> HIDE DEF fits
    <2>1. Stored'
      BY <1>1, <1>5 DEF Stored
    <2>2. QED
      BY <1>1, <1>5, <2>1, Finished DEF Over
  <1>6. QED
    BY <1>4, <1>5

-----------------------------------------------------------------------------
(***************************************************************************)
(* The stored rows                                                         *)
(***************************************************************************)

LEMMA InitInv == Init => IInv
  <1>1. SUFFICES ASSUME Init PROVE IInv
    OBVIOUS
  <1>2. Stored
    BY <1>1, HoldingsOK DEF Init, Stored
  <1>3. << >> \in Seq(Symbols)
    OBVIOUS
  <1>4. Shapes
    BY <1>1, <1>3 DEF Init, Shapes, Places, Nothing
  <1>5. FlushedApart
    BY <1>1 DEF Init, FlushedApart
  <1>6. \A r \in Requests : Local(r)
    BY <1>1 DEF Init, Local, Open, Nothing
  <1>7. QED
    BY <1>2, <1>4, <1>5, <1>6 DEF IInv

LEMMA NextInv == IInv /\ [Next]_vars => IInv'
  <1>1. SUFFICES ASSUME IInv, [Next]_vars PROVE IInv'
    OBVIOUS
  <1>2. CASE UNCHANGED vars
    BY <1>1, <1>2 DEF IInv, Stored, Shapes, FlushedApart, Local, Open,
       vars, store, local, holdings, grouping
  <1>3. CASE Next
    <2>1. PICK r \in Requests : Act(r)
      BY <1>3 DEF Next, Act
    <2>2. QED
      BY <1>1, <2>1, BeginInv, AbortInv, ResolveInv, InsertInv, InsertFailsInv, CommitInstrumentsInv,
         ReadExistingInv, ImportInv, FindPositionInv, CreatePositionInv, EditPositionInv,
         DropPositionInv, CreatePortfolioInv, UpdatePortfolioInv, DeletePortfolioInv, ReferInv,
         CreateGroupInv, UpdateGroupInv, DeleteGroupInv, FindAssignmentInv, AssignInv, UnassignInv,
         SeedReadsInv, SeedInv DEF Act
  <1>4. QED
    BY <1>1, <1>2, <1>3

LEMMA Invariance == Spec => []IInv
  BY InitInv, NextInv, PTL DEF Spec

\* Every reference between stored rows leads to a row, groups have distinct names,
\* and no two requests have flushed the same instrument: imports, portfolio and
\* position writes, holding groups and seeding, however their requests interleave.
THEOREM HoldingsTyped == Spec => []TypeOK
  BY Invariance, InvTyped, PTL

-----------------------------------------------------------------------------
(***************************************************************************)
(* Requests that meet no other                                             *)
(***************************************************************************)

\* Two open requests have met.
LEMMA OpenMeet ==
    ASSUME Past, NEW r \in Requests, NEW q \in Requests, r # q, Open(r), Open(q)
    PROVE  Met(r, q)
  BY DEF Past, Open, Met

LEMMA AloneIsOnly ==
    ASSUME Past, NEW r \in Requests, Alone(r), Open(r), NEW q \in Requests, Open(q)
    PROVE  q = r
  BY OpenMeet DEF Alone

\* The step of an open request leaves no other request that is open and alone.
LEMMA OthersMeet ==
    ASSUME Past, NEW r \in Requests, NEW q \in Requests, r # q, Open(r), Open(q)',
           pc'[q] = pc[q], pc'[r] # "idle", before' = before
    PROVE  ~Alone(q)'
  <1>1. Met(q, r)
    BY OpenMeet DEF Open
  <1>2. Met(q, r)'
    BY <1>1 DEF Met
  <1>3. QED
    BY <1>2 DEF Alone

LEMMA Onward ==
    ASSUME JInv, IInv', NEW r \in Requests, Open(r), UNCHANGED <<store, body, target, before>>,
           NEW p \in Places \ ({"idle"} \cup Over), pc' = [pc EXCEPT ![r] = p],
           Alone(r) /\ Current(r) => Current(r)'
    PROVE  JInv'
  <1>1. Past /\ Fresh /\ AloneOK(r) /\ pc \in [Requests -> Places]
    BY DEF JInv, IInv, Shapes
  <1>2. pc'[r] = p /\ \A q \in Requests \ {r} : pc'[q] = pc[q]
    BY <1>1
  <1>3. positions' = positions /\ portfolios' = portfolios
    BY DEF store, holdings
  <1>4. Past'
    BY <1>1, <1>2 DEF Past, Open
  <1>5. Fresh'
    BY <1>1, <1>2, <1>3 DEF Fresh, Open
  <1>6. IsFiniteSet(DOMAIN positions)'
    BY <1>3 DEF JInv
  <1>7. ASSUME NEW q \in Requests, q # r PROVE AloneOK(q)'
    <2>1. Open(q)' => ~Alone(q)'
      BY <1>1, <1>2, <1>7, OthersMeet
    <2>2. QED
      BY <2>1 DEF AloneOK
  <1>8. AloneOK(r)'
    <2>1. Alone(r)' => Alone(r)
      BY <1>1, <1>2 DEF Alone, Met, Open
    <2>2. QED
      BY <1>1, <2>1 DEF AloneOK
  <1>9. QED
    BY <1>4, <1>5, <1>6, <1>7, <1>8 DEF JInv

LEMMA Ended ==
    ASSUME JInv, IInv', NEW r \in Requests, Open(r), NEW how \in Over, Finish(r, how),
           IsFiniteSet(DOMAIN positions)', DOMAIN portfolios' \subseteq DOMAIN portfolios \cup {r},
           DOMAIN positions' \subseteq DOMAIN positions \cup ({r} \X Nat)
    PROVE  JInv'
  <1>1. /\ Past /\ Fresh /\ pc \in [Requests -> Places] /\ before \in [Requests -> SUBSET Requests]
        /\ before' = before
    BY DEF JInv, IInv, Shapes, Finish
  <1>2. pc'[r] = how /\ \A q \in Requests \ {r} : pc'[q] = pc[q]
    BY <1>1 DEF Finish
  <1>3. Past'
    BY <1>1, <1>2 DEF Past
  <1>4. Fresh'
    BY <1>1, <1>2 DEF Fresh
  <1>5. ASSUME NEW q \in Requests PROVE AloneOK(q)'
    <2>1. CASE q = r
      BY <1>2, <2>1 DEF AloneOK, Open
    <2>2. CASE q # r
      <3>1. pc'[r] # "idle"
        BY <1>2 DEF Over
      <3>2. Open(q)' => ~Alone(q)'
        BY <1>1, <1>2, <2>2, <3>1, OthersMeet
      <3>3. QED
        BY <3>2 DEF AloneOK
    <2>3. QED
      BY <2>1, <2>2
  <1>6. QED
    BY <1>3, <1>4, <1>5 DEF JInv

LEMMA Undone ==
    ASSUME JInv, IInv', NEW r \in Requests, Open(r), NEW how \in Over, RollBack(r, how)
    PROVE  JInv'
  <1>1. positions' = positions /\ portfolios' = portfolios
    BY DEF RollBack, store, holdings
  <1>2. IsFiniteSet(DOMAIN positions)'
    BY <1>1 DEF JInv
  <1>3. QED
    BY <1>1, <1>2, Ended DEF RollBack

LEMMA BeginAlone ==
    ASSUME JInv, IInv', NEW r \in Requests, NEW b \in Bodies, Begin(r, b)
    PROVE  JInv'
  <1>1. /\ Past /\ Fresh /\ pc \in [Requests -> Places] /\ body \in [Requests -> Bodies \cup {None}]
        /\ before \in [Requests -> SUBSET Requests] /\ DOMAIN target = Requests /\ DOMAIN seen = Requests
    BY DEF JInv, IInv, Shapes
  <1>2. PICK t \in Targets(b) :
           /\ target' = [target EXCEPT ![r] = t]
           /\ seen' = [seen EXCEPT ![r] =
                 Only(positions, {i \in DOMAIN positions : i = t \/ positions[i].pf = t})]
    BY DEF Begin
  <1>3. /\ pc[r] = "idle" /\ pc' = [pc EXCEPT ![r] = FirstStep(b)] /\ body' = [body EXCEPT ![r] = b]
        /\ before' = [before EXCEPT ![r] = {q \in Requests : pc[q] \in Over}]
        /\ UNCHANGED <<instruments, portfolios, positions, referred, groups, assigned>>
    BY DEF Begin, store, holdings, grouping
  <1>4. /\ FirstStep(b) \in {"resolve", "read", "write"}
        /\ FirstStep(b) = "write" => b.kind \notin {"import", "create", "assign", "seed"}
    BY DEF FirstStep
  <1>5. /\ pc'[r] = FirstStep(b) /\ \A q \in Requests \ {r} : pc'[q] = pc[q] /\ before'[q] = before[q]
        /\ before'[r] = {q \in Requests : pc[q] \in Over} /\ body'[r] = b /\ target'[r] = t
        /\ seen'[r] = Only(positions, {i \in DOMAIN positions : i = t \/ positions[i].pf = t})
    BY <1>1, <1>2, <1>3
  <1>6. pc[r] \notin Over /\ pc'[r] \notin Over \cup {"idle"}
    BY <1>3, <1>4, <1>5 DEF Over
  <1>7. Past'
    BY <1>1, <1>5, <1>6 DEF Past
  <1>8. Fresh'
    BY <1>1, <1>3, <1>5, <1>6 DEF Fresh
  <1>9. IsFiniteSet(DOMAIN positions)'
    BY <1>3 DEF JInv
  <1>10. ASSUME NEW q \in Requests, q # r PROVE AloneOK(q)'
    <2>1. Open(q)' => Met(q, r)'
      BY <1>1, <1>5, <1>6, <1>10 DEF Past, Met, Open
    <2>2. QED
      BY <2>1 DEF AloneOK, Alone
  <1>11. Current(r)'
    <2>1. t \in Targets(b)'
      BY <1>2, <1>3 DEF Targets
    <2>2. Only(positions, Loaded(r))' = seen'[r]
      BY <1>3, <1>5 DEF Loaded
    <2> HIDE DEF FirstStep
    <2>3. QED
      BY <1>4, <1>5, <2>1, <2>2 DEF Current
  <1>12. QED
    BY <1>7, <1>8, <1>9, <1>10, <1>11 DEF JInv, AloneOK

\* What Current says of the store changes only with the store, the body and the target.
LEMMA StillCurrent ==
    ASSUME NEW r \in Requests, UNCHANGED <<store, body, target>>
    PROVE  /\ (target[r] \in Targets(body[r])) => (target[r] \in Targets(body[r]))'
           /\ Only(positions, Loaded(r))' = Only(positions, Loaded(r))
           /\ Only(positions, {i \in DOMAIN positions : positions[i].pf = PfOf(r)})'
                = Only(positions, {i \in DOMAIN positions : positions[i].pf = PfOf(r)})
           /\ At(target[r], body[r].sym)' = At(target[r], body[r].sym)
           /\ Only(assigned, {body[r].sym})' = Only(assigned, {body[r].sym})
  <1>1. /\ positions' = positions /\ portfolios' = portfolios /\ groups' = groups
        /\ assigned' = assigned /\ body' = body /\ target' = target
    BY DEF store, holdings, grouping
  <1>2. (target[r] \in Targets(body[r])) => (target[r] \in Targets(body[r]))'
    BY <1>1 DEF Targets
  <1>3. Only(positions, Loaded(r))' = Only(positions, Loaded(r))
    BY <1>1 DEF Loaded
  <1>4. Only(positions, {i \in DOMAIN positions : positions[i].pf = PfOf(r)})'
          = Only(positions, {i \in DOMAIN positions : positions[i].pf = PfOf(r)})
    BY <1>1 DEF PfOf
  <1>5. At(target[r], body[r].sym)' = At(target[r], body[r].sym)
    BY <1>1 DEF At
  <1>6. Only(assigned, {body[r].sym})' = Only(assigned, {body[r].sym})
    BY <1>1
  <1>7. QED
    BY <1>2, <1>3, <1>4, <1>5, <1>6

LEMMA ResolveAlone ==
    ASSUME JInv, IInv', NEW r \in Requests, Resolve(r)
    PROVE  JInv'
  <1> DEFINE s == Head(todo[r])
  <1>1. /\ Open(r) /\ pc[r] = "resolve" /\ pc \in [Requests -> Places] /\ todo \in [Requests -> Seq(Symbols)]
    BY DEF Resolve, Open, Over, JInv, IInv, Shapes
  <1>2. CASE /\ s \notin instruments \cup pending[r] /\ s \in Listed
             /\ pc' = [pc EXCEPT ![r] = "insert"]
             /\ UNCHANGED <<store, body, target, before, seen, view, todo, pending>>
    <2>1. pc'[r] = "insert" /\ "insert" \in Places \ ({"idle"} \cup Over) /\ instruments' = instruments
      BY <1>1, <1>2 DEF Places, Over, store, holdings
    <2>2. Current(r) => Current(r)'
      BY <1>1, <1>2, <2>1, StillCurrent DEF Current
    <2>3. QED
      BY <1>1, <1>2, <2>1, <2>2, Onward
  <1>3. CASE /\ todo' = [todo EXCEPT ![r] = Tail(@)]
             /\ UNCHANGED <<store, pc, body, target, before, seen, view, pending>>
    <2>1. pc' = [pc EXCEPT ![r] = "resolve"] /\ "resolve" \in Places \ ({"idle"} \cup Over)
      BY <1>1, <1>3 DEF Places, Over
    <2>2. Current(r) => Current(r)'
      BY <1>1, <1>3, StillCurrent DEF Current
    <2>3. QED
      BY <1>1, <1>3, <2>1, <2>2, Onward
  <1>4. CASE RollBack(r, "refused")
    BY <1>1, <1>4, Undone DEF Over
  <1>5. \/ /\ todo' = [todo EXCEPT ![r] = Tail(@)]
           /\ UNCHANGED <<store, pc, body, target, before, seen, view, pending>>
        \/ /\ s \notin instruments \cup pending[r] /\ s \in Listed
           /\ pc' = [pc EXCEPT ![r] = "insert"]
           /\ UNCHANGED <<store, body, target, before, seen, view, todo, pending>>
        \/ RollBack(r, "refused")
    BY DEF Resolve
  <1>6. QED
    BY <1>2, <1>3, <1>4, <1>5

LEMMA InsertAlone ==
    ASSUME JInv, IInv', NEW r \in Requests, Insert(r)
    PROVE  JInv'
  <1>1. /\ Open(r) /\ pc[r] = "insert" /\ pc \in [Requests -> Places]
        /\ pc' = [pc EXCEPT ![r] = "resolve"]
        /\ UNCHANGED <<store, body, target, before, view, seen>>
    BY DEF Insert, Open, Over, JInv, IInv, Shapes
  <1>2. pc'[r] = "resolve" /\ "resolve" \in Places \ ({"idle"} \cup Over)
    BY <1>1 DEF Places, Over
  <1>3. Current(r) => Current(r)'
    BY <1>1, <1>2, StillCurrent DEF Current
  <1>4. QED
    BY <1>1, <1>2, <1>3, Onward

LEMMA CommitInstrumentsAlone ==
    ASSUME JInv, IInv', NEW r \in Requests, CommitInstruments(r)
    PROVE  JInv'
  <1>1. Open(r) /\ Finish(r, "done") /\ UNCHANGED <<portfolios, positions>>
    BY DEF CommitInstruments, Open, Over
  <1>2. IsFiniteSet(DOMAIN positions)'
    BY <1>1 DEF JInv
  <1>3. QED
    BY <1>1, <1>2, Ended DEF Over

LEMMA ReadExistingAlone ==
    ASSUME JInv, IInv', NEW r \in Requests, ReadExisting(r)
    PROVE  JInv'
  <1> DEFINE found == {i \in DOMAIN positions : positions[i].pf = PfOf(r)}
  <1>1. /\ Open(r) /\ pc[r] = "resolve" /\ body[r].kind = "import" /\ pc \in [Requests -> Places]
        /\ pc' = [pc EXCEPT ![r] = "write"] /\ DOMAIN seen = Requests
        /\ seen' = [seen EXCEPT ![r] = Only(Onto(positions, @), found)]
        /\ UNCHANGED <<store, body, target, before, view, todo, pending>>
    BY DEF ReadExisting, Open, Over, JInv, IInv, Shapes
  <1>2. pc'[r] = "write" /\ "write" \in Places \ ({"idle"} \cup Over)
    BY <1>1 DEF Places, Over
  <1>3. seen'[r] = Only(Onto(positions, seen[r]), found)
    BY <1>1
  <1>4. Current(r) => Only(Onto(positions, seen[r]), found) = Only(positions, found)
    <2>1. Current(r) => seen[r] = Only(positions, Loaded(r))
      BY <1>1 DEF Current
    <2>2. Only(Onto(positions, Only(positions, Loaded(r))), found) = Only(positions, found)
      BY DEF Only, Onto
    <2>3. QED
      BY <2>1, <2>2
  <1>5. Current(r) => Current(r)'
    BY <1>1, <1>2, <1>3, <1>4, StillCurrent DEF Current
  <1>6. QED
    BY <1>1, <1>2, <1>5, Onward

LEMMA FindPositionAlone ==
    ASSUME JInv, IInv', NEW r \in Requests, FindPosition(r)
    PROVE  JInv'
  <1>1. Open(r) /\ pc[r] = "read" /\ body[r].kind = "create" /\ pc \in [Requests -> Places]
    BY DEF FindPosition, Open, Over, JInv, IInv, Shapes
  <1>2. CASE \E how \in Over : RollBack(r, how)
    BY <1>1, <1>2, Undone
  <1>3. CASE /\ At(target[r], body[r].sym) = {}
             /\ pc' = [pc EXCEPT ![r] = "write"]
             /\ UNCHANGED <<store, body, target, before, seen, view, todo, pending>>
    <2>1. pc'[r] = "write" /\ "write" \in Places \ ({"idle"} \cup Over)
      BY <1>1, <1>3 DEF Places, Over
    <2>2. Current(r) => Current(r)'
      BY <1>1, <1>3, <2>1, StillCurrent DEF Current
    <2>3. QED
      BY <1>1, <1>3, <2>1, <2>2, Onward
  <1>4. QED
    BY <1>2, <1>3 DEF FindPosition, Over

LEMMA FindAssignmentAlone ==
    ASSUME JInv, IInv', NEW r \in Requests, FindAssignment(r)
    PROVE  JInv'
  <1>1. /\ Open(r) /\ body[r].kind \in {"assign", "unassign"} /\ pc \in [Requests -> Places]
        /\ DOMAIN seen = Requests
    BY DEF FindAssignment, JInv, IInv, Shapes
  <1>2. CASE \E how \in Over : RollBack(r, how)
    BY <1>1, <1>2, Undone
  <1>3. CASE /\ pc[r] = "read" /\ pc' = [pc EXCEPT ![r] = "assignment"]
             /\ UNCHANGED <<store, body, target, before, seen, view, todo, pending>>
    <2>1. pc'[r] = "assignment" /\ "assignment" \in Places \ ({"idle"} \cup Over)
      BY <1>1, <1>3 DEF Places, Over
    <2>2. Current(r) => Current(r)'
      BY <1>1, <1>3, <2>1, StillCurrent DEF Current
    <2>3. QED
      BY <1>1, <1>3, <2>1, <2>2, Onward
  <1>4. CASE /\ pc[r] = "assignment"
             /\ seen' = [seen EXCEPT ![r] = Only(assigned, {body[r].sym})]
             /\ pc' = [pc EXCEPT ![r] = "write"]
             /\ UNCHANGED <<store, body, target, before, view, todo, pending>>
    <2>1. /\ pc'[r] = "write" /\ "write" \in Places \ ({"idle"} \cup Over)
          /\ seen'[r] = Only(assigned, {body[r].sym})
      BY <1>1, <1>4 DEF Places, Over
    <2>2. Current(r) => Current(r)'
      BY <1>1, <1>4, <2>1, StillCurrent DEF Current
    <2>3. QED
      BY <1>1, <1>4, <2>1, <2>2, Onward
  <1>5. QED
    BY <1>2, <1>3, <1>4 DEF FindAssignment, Over

LEMMA SeedReadsAlone ==
    ASSUME JInv, IInv', NEW r \in Requests, SeedReads(r)
    PROVE  JInv'
  <1>1. /\ Open(r) /\ body[r].kind = "seed" /\ pc \in [Requests -> Places] /\ DOMAIN view = Requests
        /\ DOMAIN view[r] = {"held", "groups"}
        /\ UNCHANGED <<store, body, target, before, seen, todo, pending>>
    BY DEF SeedReads, JInv, IInv, Shapes
  <1>2. groups' = groups /\ assigned' = assigned
    BY <1>1 DEF store, grouping
  <1>3. CASE pc[r] = "read" /\ pc' = [pc EXCEPT ![r] = "groups"]
    <2>1. pc'[r] = "groups" /\ "groups" \in Places \ ({"idle"} \cup Over)
      BY <1>1, <1>3 DEF Places, Over
    <2>2. Current(r) => Current(r)'
      BY <1>1, <1>3, <2>1, StillCurrent DEF Current
    <2>3. QED
      BY <1>1, <1>3, <2>1, <2>2, Onward
  <1>4. CASE /\ pc[r] = "groups" /\ pc' = [pc EXCEPT ![r] = "assigned"]
             /\ view' = [view EXCEPT ![r].groups = groups]
    <2>1. pc'[r] = "assigned" /\ "assigned" \in Places \ ({"idle"} \cup Over)
      BY <1>1, <1>4 DEF Places, Over
    <2>2. view'[r].groups = groups
      BY <1>1, <1>4
    <2>3. Current(r) => Current(r)'
      BY <1>1, <1>2, <1>4, <2>1, <2>2, StillCurrent DEF Current
    <2>4. QED
      BY <1>1, <1>4, <2>1, <2>3, Onward
  <1>5. CASE /\ pc[r] = "assigned" /\ pc' = [pc EXCEPT ![r] = "write"]
             /\ view' = [view EXCEPT ![r].held = @ \ DOMAIN assigned]
    <2>1. pc'[r] = "write" /\ "write" \in Places \ ({"idle"} \cup Over)
      BY <1>1, <1>5 DEF Places, Over
    <2>2. view'[r].groups = view[r].groups /\ view'[r].held = view[r].held \ DOMAIN assigned
      BY <1>1, <1>5
    <2>3. Current(r) => Current(r)'
      BY <1>1, <1>2, <1>5, <2>1, <2>2, StillCurrent DEF Current
    <2>4. QED
      BY <1>1, <1>5, <2>1, <2>3, Onward
  <1>6. QED
    BY <1>3, <1>4, <1>5 DEF SeedReads

LEMMA ImportAlone ==
    ASSUME JInv, IInv', NEW r \in Requests, Import(r)
    PROVE  JInv'
  <1>1. Open(r) /\ body[r].rows \in Seq(Row)
    BY HoldingsOK DEF Import, Open, Over, JInv, IInv, Local
  <1>2. PICK dict \in Dicts(r) :
           LET plan == Merged(r, dict) IN
           \/ RollBack(r, "failed")
           \/ /\ portfolios' = IF body[r].new = None THEN portfolios ELSE With(portfolios, r, body[r].new)
              /\ positions' = Onto([i \in DOMAIN positions \ plan.del |->
                       IF i \in Updates(r, plan) THEN [positions[i] EXCEPT !.qty = plan.set[i]]
                       ELSE positions[i]],
                    plan.ins)
              /\ Finish(r, "done")
    BY DEF Import
  <1> DEFINE plan == Merged(r, dict)
             kept == [i \in DOMAIN positions \ plan.del |->
                        IF i \in Updates(r, plan) THEN [positions[i] EXCEPT !.qty = plan.set[i]]
                        ELSE positions[i]]
  <1>3. DOMAIN plan.ins \subseteq {r} \X DOMAIN body[r].rows
    BY <1>1, MergedTyped DEF PlanTyped
  <1>4. IsFiniteSet(DOMAIN plan.ins) /\ DOMAIN plan.ins \subseteq {r} \X Nat
    <2> DEFINE n == Len(body[r].rows)
    <2>1. n \in Nat /\ DOMAIN body[r].rows = 1..n
      BY <1>1
    <2> HIDE DEF n, plan
    <2>2. IsFiniteSet(1..n)
      BY <2>1, FS_Interval
    <2>3. IsFiniteSet({r} \X (1..n))
      BY <2>2, FS_Singleton, FS_Product
    <2>4. QED
      BY <1>3, <2>1, <2>3, FS_Subset
  <1>5. CASE RollBack(r, "failed")
    BY <1>1, <1>5, Undone DEF Over
  <1>6. CASE /\ portfolios' = IF body[r].new = None THEN portfolios ELSE With(portfolios, r, body[r].new)
             /\ positions' = Onto(kept, plan.ins)
             /\ Finish(r, "done")
    <2>1. DOMAIN portfolios' \subseteq DOMAIN portfolios \cup {r}
      BY <1>6 DEF With
    <2>2. DOMAIN kept \subseteq DOMAIN positions
      OBVIOUS
    <2> HIDE DEF plan, kept
    <2>3. DOMAIN positions' \subseteq DOMAIN positions \cup DOMAIN plan.ins
      BY <1>6, <2>2 DEF Onto
    <2>4. IsFiniteSet(DOMAIN positions)'
      BY <1>4, <2>3, FS_Union, FS_Subset DEF JInv
    <2>5. QED
      BY <1>1, <1>4, <1>6, <2>1, <2>3, <2>4, Ended DEF Over
  <1>7. QED
    BY <1>2, <1>5, <1>6

LEMMA CreatePositionAlone ==
    ASSUME JInv, IInv', NEW r \in Requests, CreatePosition(r)
    PROVE  JInv'
  <1>1. Open(r) /\ (\E how \in Over : Finish(r, how)) /\ portfolios' = portfolios
    BY DEF CreatePosition, Write, Open, Over
  <1>2. \/ positions' = positions
        \/ \E row : positions' = With(positions, <<r, 1>>, row)
    BY DEF CreatePosition
  <1>3. DOMAIN positions' \subseteq DOMAIN positions \cup {<<r, 1>>} /\ <<r, 1>> \in {r} \X Nat
    BY <1>2 DEF With
  <1>4. IsFiniteSet(DOMAIN positions)'
    BY <1>3, FS_Singleton, FS_Union, FS_Subset DEF JInv
  <1>5. QED
    BY <1>1, <1>3, <1>4, Ended

\* A writing step that adds no position, and at most its own portfolio.
LEMMA Shrinks ==
    ASSUME JInv, IInv', NEW r \in Requests, Open(r), NEW how \in Over, Finish(r, how),
           DOMAIN positions' \subseteq DOMAIN positions,
           DOMAIN portfolios' \subseteq DOMAIN portfolios \cup {r}
    PROVE  JInv'
  <1>1. IsFiniteSet(DOMAIN positions)'
    BY FS_Subset DEF JInv
  <1>2. QED
    BY <1>1, Ended

LEMMA OtherWritesAlone ==
    ASSUME JInv, IInv', NEW r \in Requests,
           \/ EditPosition(r) \/ DropPosition(r)
           \/ CreatePortfolio(r) \/ UpdatePortfolio(r) \/ DeletePortfolio(r) \/ Refer(r)
           \/ CreateGroup(r) \/ UpdateGroup(r) \/ DeleteGroup(r) \/ Assign(r) \/ Unassign(r) \/ Seed(r)
    PROVE  JInv'
  <1>1. pc[r] = "write" => Open(r)
    BY DEF Open, Over
  <1>2. CASE EditPosition(r)
    <2>1. DOMAIN positions' = DOMAIN positions
      BY <1>2 DEF EditPosition
    <2>2. QED
      BY <1>1, <1>2, <2>1, Shrinks DEF EditPosition, Write, Over
  <1>3. CASE DropPosition(r)
    <2>1. DOMAIN positions' \subseteq DOMAIN positions
      BY <1>3 DEF DropPosition, Without
    <2>2. QED
      BY <1>1, <1>3, <2>1, Shrinks DEF DropPosition, Write, Over
  <1>4. CASE CreatePortfolio(r)
    <2>1. DOMAIN portfolios' \subseteq DOMAIN portfolios \cup {r}
      BY <1>4 DEF CreatePortfolio, With
    <2>2. QED
      BY <1>1, <1>4, <2>1, Shrinks DEF CreatePortfolio, Write, Over
  <1>5. CASE UpdatePortfolio(r)
    <2>1. DOMAIN portfolios' = DOMAIN portfolios
      BY <1>5 DEF UpdatePortfolio
    <2>2. QED
      BY <1>1, <1>5, <2>1, Shrinks DEF UpdatePortfolio, Write, Over
  <1>6. CASE DeletePortfolio(r)
    <2>1. DOMAIN positions' \subseteq DOMAIN positions /\ DOMAIN portfolios' \subseteq DOMAIN portfolios
      BY <1>6 DEF DeletePortfolio, Without
    <2>2. QED
      BY <1>1, <1>6, <2>1, Shrinks DEF DeletePortfolio, Write, Over
  <1>7. CASE Refer(r)
    BY <1>1, <1>7, Shrinks DEF Refer, Write, Over
  <1>8. CASE CreateGroup(r)
    BY <1>1, <1>8, Shrinks DEF CreateGroup, holdings, Over
  <1>9. CASE UpdateGroup(r)
    <2>1. (\E how \in Over : Finish(r, how)) /\ UNCHANGED <<positions, portfolios>> /\ pc[r] = "write"
      BY <1>9 DEF UpdateGroup, RollBack, store, holdings, Over
    <2>2. QED
      BY <1>1, <2>1, Shrinks
  <1>10. CASE DeleteGroup(r)
    BY <1>1, <1>10, Shrinks DEF DeleteGroup, Write, holdings, Over
  <1>11. CASE Assign(r)
    BY <1>1, <1>11, Shrinks DEF Assign, Write, holdings, Over
  <1>12. CASE Unassign(r)
    BY <1>1, <1>12, Shrinks DEF Unassign, Write, holdings, Over
  <1>13. CASE Seed(r)
    <2>1. (\E how \in Over : Finish(r, how)) /\ UNCHANGED <<positions, portfolios>> /\ pc[r] = "write"
      BY <1>13 DEF Seed, Write, holdings, Over
    <2>2. QED
      BY <1>1, <2>1, Shrinks
  <1>14. QED
    BY <1>2, <1>3, <1>4, <1>5, <1>6, <1>7, <1>8, <1>9, <1>10, <1>11, <1>12, <1>13

LEMMA InitAlone == Init => JInv
  <1>1. SUFFICES ASSUME Init PROVE JInv
    OBVIOUS
  <1>2. IInv
    BY <1>1, InitInv
  <1>3. Past /\ (\A r \in Requests : AloneOK(r)) /\ positions = Positions /\ portfolios = Portfolios
    BY <1>1 DEF Init, Past, AloneOK, Open
  <1>4. Fresh /\ IsFiniteSet(DOMAIN positions)
    BY <1>3, HoldingsOK DEF Fresh
  <1>5. QED
    BY <1>2, <1>3, <1>4 DEF JInv

LEMMA NextAlone == JInv /\ [Next]_vars => JInv'
  <1>1. SUFFICES ASSUME JInv, [Next]_vars PROVE JInv'
    OBVIOUS
  <1>2. IInv'
    BY <1>1, NextInv DEF JInv
  <1>3. CASE UNCHANGED vars
    <2>1. UNCHANGED <<instruments, portfolios, positions, groups, assigned, local>>
      BY <1>3 DEF vars, store, holdings, grouping
    <2>2. Past' /\ Fresh' /\ IsFiniteSet(DOMAIN positions)'
      BY <1>1, <2>1 DEF JInv, Past, Fresh, local
    <2>3. ASSUME NEW r \in Requests PROVE AloneOK(r)'
      <3>1. AloneOK(r)
        BY <1>1 DEF JInv
      <3>2. Current(r) => Current(r)'
        BY <1>3, <2>1, StillCurrent DEF Current, local, vars
      <3>3. Alone(r)' = Alone(r) /\ Open(r)' = Open(r)
        BY <2>1 DEF Alone, Met, Open, local
      <3>4. QED
        BY <3>1, <3>2, <3>3 DEF AloneOK
    <2>4. QED
      BY <1>2, <2>2, <2>3 DEF JInv
  <1>4. CASE Next
    <2>1. PICK r \in Requests : Act(r)
      BY <1>4 DEF Next, Act
    <2>2. CASE Abort(r) \/ InsertFails(r)
      <3>1. Open(r) /\ \E how \in Over : RollBack(r, how)
        BY <2>2 DEF Abort, InsertFails, Open, Over
      <3>2. QED
        BY <1>1, <1>2, <3>1, Undone
    <2>3. QED
      BY <1>1, <1>2, <2>1, <2>2, BeginAlone, ResolveAlone, InsertAlone, CommitInstrumentsAlone,
         ReadExistingAlone, ImportAlone, FindPositionAlone, CreatePositionAlone, OtherWritesAlone,
         FindAssignmentAlone, SeedReadsAlone DEF Act
  <1>5. QED
    BY <1>1, <1>3, <1>4

LEMMA AloneInvariance == Spec => []JInv
  BY InitAlone, NextAlone, PTL DEF Spec

-----------------------------------------------------------------------------
(***************************************************************************)
(* What an import's loop does                                              *)
(***************************************************************************)

\* The dict leads from symbols, spelled as stored, to loaded positions.
Fits(r, dict) ==
    /\ body[r].rows \in Seq(Row) /\ body[r].merge \in {"update", "skip", "replace"}
    /\ DOMAIN seen[r] \cap ({r} \X Nat) = {}
    /\ \A k \in DOMAIN dict :
          k[2] = 0 /\ dict[k] \in DOMAIN seen[r] /\ seen[r][dict[k]].sym = k[1]

Ids(r, i) == {<<r, j>> : j \in 1..i}
Named(r, i) == {Text(r, j)[1] : j \in 1..i}

\* What the loop of r knows of its rows once it has merged i of them: of the rows to
\* insert, the dict, the quantities to set, the rows to delete, and its failure.
InsOK(r, i, plan) ==
    /\ DOMAIN plan.ins \subseteq Ids(r, i) /\ plan.new \subseteq Ids(r, i)
    /\ \A j \in 1..i : <<r, j>> \in DOMAIN plan.ins =>
          plan.ins[<<r, j>>].sym = Text(r, j)[1] /\ plan.ins[<<r, j>>].pf = PfOf(r)

DictOK(r, dict, i, plan) ==
    /\ \A k \in DOMAIN dict : k \in DOMAIN plan.dict /\ plan.dict[k] = dict[k]
    /\ \A k \in DOMAIN plan.dict \ DOMAIN dict :
          /\ \E j \in 1..i : Text(r, j) = k /\ plan.dict[k] = <<r, j>>
          /\ body[r].merge # "replace" => plan.dict[k] \in DOMAIN plan.ins

SetOK(r, i, plan) ==
    \A x \in DOMAIN plan.set : x \in DOMAIN seen[r] /\ seen[r][x].sym \in Named(r, i)

DelOK(r, i, plan) ==
    \A x \in plan.del : x \in Ids(r, i) \/ (x \in DOMAIN seen[r] /\ seen[r][x].sym \in Named(r, i))

Repeats(r, i) == \E j \in 1..i : \E h \in 1..(j - 1) : Text(r, h) = Text(r, j)

BadOK(r, i, plan) == plan.bad => body[r].merge = "replace" /\ Repeats(r, i)

PlanOK(r, dict, i, plan) ==
    InsOK(r, i, plan) /\ DictOK(r, dict, i, plan) /\ SetOK(r, i, plan) /\ DelOK(r, i, plan) /\ BadOK(r, i, plan)

\* What holds of the rows up to h holds of those up to i.
LEMMA LaterIns ==
    ASSUME NEW r, NEW h \in Nat, NEW i \in Nat, h <= i, NEW plan, NEW next, InsOK(r, h, plan),
           next.new = plan.new, DOMAIN next.ins = DOMAIN plan.ins,
           \A x \in DOMAIN plan.ins : next.ins[x].sym = plan.ins[x].sym /\ next.ins[x].pf = plan.ins[x].pf
    PROVE  InsOK(r, i, next)
  <1>1. \A j \in 1..h : j \in 1..i
    OBVIOUS
  <1>2. Ids(r, h) \subseteq Ids(r, i)
    BY <1>1 DEF Ids
  <1>3. \A j \in 1..i : <<r, j>> \in Ids(r, h) => j \in 1..h
    BY DEF Ids
  <1>4. QED
    BY <1>2, <1>3 DEF InsOK

LEMMA LaterDict ==
    ASSUME NEW r, NEW dict, NEW h \in Nat, NEW i \in Nat, h <= i, NEW plan, NEW next,
           DictOK(r, dict, h, plan), next.dict = plan.dict,
           DOMAIN next.ins = DOMAIN plan.ins \/ body[r].merge = "replace"
    PROVE  DictOK(r, dict, i, next)
  <1>1. \A j \in 1..h : j \in 1..i
    OBVIOUS
  <1>2. QED
    BY <1>1 DEF DictOK

LEMMA LaterSet ==
    ASSUME NEW r, NEW h \in Nat, NEW i \in Nat, h <= i, NEW plan, NEW next,
           SetOK(r, h, plan), next.set = plan.set
    PROVE  SetOK(r, i, next)
  <1>1. \A j \in 1..h : j \in 1..i
    OBVIOUS
  <1>2. Named(r, h) \subseteq Named(r, i)
    BY <1>1 DEF Named
  <1>3. QED
    BY <1>2 DEF SetOK

LEMMA LaterDel ==
    ASSUME NEW r, NEW h \in Nat, NEW i \in Nat, h <= i, NEW plan, NEW next,
           DelOK(r, h, plan), next.del = plan.del
    PROVE  DelOK(r, i, next)
  <1>1. \A j \in 1..h : j \in 1..i
    OBVIOUS
  <1>2. Named(r, h) \subseteq Named(r, i) /\ Ids(r, h) \subseteq Ids(r, i)
    BY <1>1 DEF Named, Ids
  <1>3. QED
    BY <1>2 DEF DelOK

LEMMA LaterBad ==
    ASSUME NEW r, NEW h \in Nat, NEW i \in Nat, h <= i, NEW plan, NEW next,
           BadOK(r, h, plan), next.bad = plan.bad
    PROVE  BadOK(r, i, next)
  <1>1. \A j \in 1..h : j \in 1..i
    OBVIOUS
  <1>2. QED
    BY <1>1 DEF BadOK, Repeats

\* An amended row keeps its symbol and its portfolio.
LEMMA PositionQty ==
    ASSUME NEW r, NEW i, NEW plan, PlanTyped(r, plan), NEW next, Amends(r, plan, i, next)
    PROVE  \A x \in DOMAIN plan.ins : next.ins[x].sym = plan.ins[x].sym /\ next.ins[x].pf = plan.ins[x].pf
  <1>1. TAKE x \in DOMAIN plan.ins
  <1>2. \E syms : plan.ins[x] \in Position({PfOf(r)}, syms)
    BY DEF PlanTyped
  <1>3. next.ins[x] = IF x = Old(r, plan, i) THEN [plan.ins[x] EXCEPT !.qty = Quantity(r, i)] ELSE plan.ins[x]
    BY DEF Amends
  <1>4. QED
    BY <1>2, <1>3 DEF Position

LEMMA MergeRowOK ==
    ASSUME NEW r, NEW dict, Fits(r, dict), NEW i \in 1..Len(body[r].rows),
           NEW plan, PlanTyped(r, plan), PlanOK(r, dict, i - 1, plan)
    PROVE  PlanOK(r, dict, i, MergeRow(r, plan, i))
  <1> DEFINE id == <<r, i>>
             text == Text(r, i)
             row == RowFor(r, i)
             old == Old(r, plan, i)
             next == MergeRow(r, plan, i)
             h == i - 1
  <1>1. i \in Nat /\ h \in Nat /\ h <= i /\ i \in 1..i /\ \A j \in 1..i : j = i \/ j \in 1..h
    <2>1. Len(body[r].rows) \in Nat
      BY DEF Fits
    <2>2. QED
      BY <2>1
  <1>2. /\ Ids(r, i) = Ids(r, h) \cup {id} /\ id \notin Ids(r, h)
        /\ Named(r, h) \subseteq Named(r, i) /\ text[1] \in Named(r, i)
        /\ Ids(r, h) \subseteq {r} \X Nat
    BY <1>1 DEF Ids, Named
  <1>3. row.sym = text[1] /\ row.pf = PfOf(r)
    BY DEF RowFor
  <1>4. DOMAIN plan = Fields
    BY DEF PlanTyped
  <1>5. /\ InsOK(r, h, plan) /\ DictOK(r, dict, h, plan) /\ SetOK(r, h, plan)
        /\ DelOK(r, h, plan) /\ BadOK(r, h, plan)
    BY DEF PlanOK
  <1>6. text \in DOMAIN dict =>
           old = dict[text] /\ old \in DOMAIN seen[r] /\ seen[r][old].sym = text[1]
    BY <1>5 DEF DictOK, Fits, Old
  <1>7. text \in DOMAIN plan.dict \ DOMAIN dict =>
           /\ \E j \in 1..h : Text(r, j) = text /\ old = <<r, j>>
           /\ body[r].merge # "replace" => old \in DOMAIN plan.ins
    BY <1>5 DEF DictOK, Old
  <1> HIDE DEF text, old, id, row, next, h
  <1>8. CASE Adds(r, plan, i, next)
    <2>1. /\ next.dict = With(plan.dict, text, id) /\ next.ins = With(plan.ins, id, row)
          /\ next.new = plan.new \cup {id} /\ next.set = plan.set /\ next.del = plan.del
          /\ next.bad = plan.bad /\ text \notin DOMAIN plan.dict
      BY <1>8 DEF Adds, text, row, id
    <2>2. DOMAIN next.ins \subseteq Ids(r, i) /\ next.new \subseteq Ids(r, i)
      BY <1>2, <1>5, <2>1 DEF InsOK, With
    <2>3. ASSUME NEW j \in 1..i, <<r, j>> \in DOMAIN next.ins
          PROVE  next.ins[<<r, j>>].sym = Text(r, j)[1] /\ next.ins[<<r, j>>].pf = PfOf(r)
      <3>1. CASE j = i
        <4>1. next.ins[id] = row
          BY <2>1 DEF With
        <4>2. QED
          BY <1>3, <3>1, <4>1 DEF id, text
      <3>2. CASE j # i
        <4>1. j \in 1..h /\ <<r, j>> # id
          BY <1>1, <3>2 DEF id
        <4>2. <<r, j>> \in DOMAIN plan.ins /\ next.ins[<<r, j>>] = plan.ins[<<r, j>>]
          BY <2>1, <2>3, <4>1 DEF With
        <4>3. QED
          BY <1>5, <4>1, <4>2 DEF InsOK
      <3>3. QED
        BY <3>1, <3>2
    <2>4. \A k \in DOMAIN dict : k \in DOMAIN next.dict /\ next.dict[k] = dict[k]
      BY <1>5, <2>1 DEF DictOK, With
    <2>5. ASSUME NEW k \in DOMAIN next.dict \ DOMAIN dict
          PROVE  /\ \E j \in 1..i : Text(r, j) = k /\ next.dict[k] = <<r, j>>
                 /\ body[r].merge # "replace" => next.dict[k] \in DOMAIN next.ins
      <3>1. CASE k = text
        BY <1>1, <2>1, <3>1 DEF With, id, text
      <3>2. CASE k # text
        BY <1>1, <1>5, <2>1, <3>2 DEF DictOK, With
      <3>3. QED
        BY <3>1, <3>2
    <2>6. InsOK(r, i, next)
      BY <2>2, <2>3 DEF InsOK
    <2>7. DictOK(r, dict, i, next)
      BY <2>4, <2>5 DEF DictOK
    <2>8. QED
      BY <1>1, <1>5, <2>1, <2>6, <2>7, LaterSet, LaterDel, LaterBad DEF PlanOK, next
  <1>9. CASE Skips(r, plan, i, next)
    <2>1. next = plan
      BY <1>9 DEF Skips
    <2>2. QED
      BY <1>1, <1>5, <2>1, LaterIns, LaterDict, LaterSet, LaterDel, LaterBad DEF PlanOK, next
  <1>10. CASE Amends(r, plan, i, next)
    <2>1. /\ next.dict = plan.dict /\ next.ins = [plan.ins EXCEPT ![old].qty = Quantity(r, i)]
          /\ next.new = plan.new /\ next.set = plan.set /\ next.del = plan.del
          /\ next.bad = plan.bad /\ old \in DOMAIN plan.ins
      BY <1>10 DEF Amends, old
    <2>2. \A x \in DOMAIN plan.ins : next.ins[x].sym = plan.ins[x].sym /\ next.ins[x].pf = plan.ins[x].pf
      BY <1>10, PositionQty
    <2>3. DOMAIN next.ins = DOMAIN plan.ins
      BY <2>1
    <2>4. QED
      BY <1>1, <1>5, <2>1, <2>2, <2>3, LaterIns, LaterDict, LaterSet, LaterDel, LaterBad DEF PlanOK, next
  <1>11. CASE Updating(r, plan, i, next)
    <2>1. /\ next.dict = plan.dict /\ next.ins = plan.ins
          /\ next.new = plan.new /\ next.set = With(plan.set, old, Quantity(r, i))
          /\ next.del = plan.del /\ next.bad = plan.bad
          /\ text \in DOMAIN plan.dict /\ body[r].merge = "update" /\ old \notin DOMAIN plan.ins
      BY <1>11 DEF Updating, old, text
    <2>2. old \in DOMAIN seen[r] /\ seen[r][old].sym = text[1]
      BY <1>6, <1>7, <2>1
    <2>3. SetOK(r, i, next)
      BY <1>2, <1>5, <2>1, <2>2 DEF SetOK, With
    <2>4. QED
      BY <1>1, <1>5, <2>1, <2>3, LaterIns, LaterDict, LaterSet, LaterDel, LaterBad DEF PlanOK, next
  <1>12. CASE Replaces(r, plan, i, next)
    <2>1. /\ next.dict = plan.dict /\ next.ins = With(Without(plan.ins, {old}), id, row)
          /\ next.new = {id} /\ next.set = plan.set /\ next.del = plan.del \cup {old}
          /\ next.bad = (plan.bad \/ old \in plan.new)
          /\ text \in DOMAIN plan.dict /\ body[r].merge = "replace"
      BY <1>12 DEF Replaces, old, text, id, row, Fits
    <2>2. old \in Ids(r, i) \/ (old \in DOMAIN seen[r] /\ seen[r][old].sym \in Named(r, i))
      BY <1>1, <1>2, <1>6, <1>7, <2>1 DEF Ids
    <2>3. old \in plan.new => \E j \in 1..h : Text(r, j) = text
      <3>1. old \in plan.new => old \in {r} \X Nat
        BY <1>2, <1>5 DEF InsOK
      <3>2. QED
        BY <1>6, <1>7, <2>1, <3>1 DEF Fits
    <2>4. BadOK(r, i, next)
      <3>1. Repeats(r, h) => Repeats(r, i)
        BY <1>1 DEF Repeats
      <3>2. (\E j \in 1..h : Text(r, j) = text) => Repeats(r, i)
        BY <1>1 DEF Repeats, text, h
      <3>3. QED
        BY <1>5, <2>1, <2>3, <3>1, <3>2 DEF BadOK
    <2>5. DOMAIN next.ins \subseteq Ids(r, i) /\ next.new \subseteq Ids(r, i)
      BY <1>2, <1>5, <2>1 DEF InsOK, With, Without
    <2>6. ASSUME NEW j \in 1..i, <<r, j>> \in DOMAIN next.ins
          PROVE  next.ins[<<r, j>>].sym = Text(r, j)[1] /\ next.ins[<<r, j>>].pf = PfOf(r)
      BY <1>1, <1>3, <1>5, <2>1, <2>6 DEF InsOK, With, Without, id, text
    <2>7. InsOK(r, i, next)
      BY <2>5, <2>6 DEF InsOK
    <2>8. DelOK(r, i, next)
      BY <1>2, <1>5, <2>1, <2>2 DEF DelOK
    <2>9. QED
      BY <1>1, <1>5, <2>1, <2>4, <2>7, <2>8, LaterIns, LaterDict, LaterSet, LaterDel, LaterBad DEF PlanOK, next
  <1>13. QED
    BY <1>4, <1>8, <1>9, <1>10, <1>11, <1>12, MergeRowCases DEF next

-----------------------------------------------------------------------------
(***************************************************************************)
(* What an import does for one symbol                                      *)
(***************************************************************************)

Inserted(plan, s) == {id \in DOMAIN plan.ins : plan.ins[id].sym = s}
Done(r, s, i) == RowsOf(r, s) \cap (1..i)

\* q is what the rows of s up to i say: the first where the import skips, or the last.
Says(r, s, i, q) ==
    \E j \in Done(r, s, i) :
       /\ q = Quantity(r, j)
       /\ \A h \in Done(r, s, i) : IF body[r].merge = "skip" THEN j <= h ELSE h <= j

\* Of a symbol that is not one of Odd: nothing while no row names it; then a row is
\* inserted for one that is not there, in place of one that is there, or the
\* quantity of one that is there is set.
SymbolOK(r, dict, s, i, plan) ==
    LET k == <<s, 0>>
        gone == Done(r, s, i)
    IN
    /\ gone = {} => Inserted(plan, s) = {} /\ (k \in DOMAIN plan.dict => k \in DOMAIN dict)
    /\ gone # {} /\ k \notin DOMAIN dict =>
          /\ k \in DOMAIN plan.dict /\ Inserted(plan, s) = {plan.dict[k]}
          /\ Says(r, s, i, plan.ins[plan.dict[k]].qty)
    /\ gone # {} /\ k \in DOMAIN dict /\ body[r].merge = "replace" =>
          dict[k] \in plan.del /\ \E id : Inserted(plan, s) = {id} /\ Says(r, s, i, plan.ins[id].qty)
    /\ k \in DOMAIN dict /\ (gone = {} \/ body[r].merge # "replace") =>
          Inserted(plan, s) = {} /\ dict[k] \notin plan.del
    /\ k \in DOMAIN dict /\ (gone = {} \/ body[r].merge # "update") => dict[k] \notin DOMAIN plan.set
    /\ k \in DOMAIN dict /\ gone # {} /\ body[r].merge = "update" =>
          dict[k] \in DOMAIN plan.set /\ Says(r, s, i, plan.set[dict[k]])

\* The rows of s are spelled as it is stored, and one only where the import replaces.
Ordinary(r, s) ==
    \A j \in RowsOf(r, s) :
       /\ Text(r, j) = <<s, 0>>
       /\ body[r].merge = "replace" => \A h \in RowsOf(r, s) : h = j

\* What the dict has for the symbol of a row.
LEMMA OldIs ==
    ASSUME NEW r, NEW dict, Fits(r, dict), NEW i \in 1..Len(body[r].rows),
           NEW plan, PlanOK(r, dict, i - 1, plan), Text(r, i) \in DOMAIN plan.dict
    PROVE  LET old == Old(r, plan, i) IN
           /\ Text(r, i) \in DOMAIN dict =>
                 old = dict[Text(r, i)] /\ old \in DOMAIN seen[r] /\ seen[r][old].sym = Text(r, i)[1]
           /\ Text(r, i) \notin DOMAIN dict =>
                 /\ old \in {r} \X Nat
                 /\ body[r].merge # "replace" => old \in DOMAIN plan.ins
                 /\ old \in DOMAIN plan.ins => plan.ins[old].sym = Text(r, i)[1]
  <1>1. InsOK(r, i - 1, plan) /\ DictOK(r, dict, i - 1, plan)
    BY DEF PlanOK
  <1>2. CASE Text(r, i) \in DOMAIN dict
    BY <1>1, <1>2 DEF DictOK, Fits, Old
  <1>3. CASE Text(r, i) \notin DOMAIN dict
    <2>1. PICK j \in 1..(i - 1) : Text(r, j) = Text(r, i) /\ Old(r, plan, i) = <<r, j>>
      BY <1>1, <1>3 DEF DictOK, Old
    <2>2. body[r].merge # "replace" => Old(r, plan, i) \in DOMAIN plan.ins
      BY <1>1, <1>3 DEF DictOK, Old
    <2>3. j \in Nat
      BY <2>1
    <2>4. QED
      BY <1>1, <1>3, <2>1, <2>2, <2>3 DEF InsOK
  <1>4. QED
    BY <1>2, <1>3

LEMMA InsertedAreNew ==
    ASSUME NEW r, NEW dict, Fits(r, dict), NEW i \in Nat, NEW plan, PlanOK(r, dict, i, plan)
    PROVE  /\ DOMAIN plan.ins \subseteq Ids(r, i)
           /\ DOMAIN plan.ins \cap DOMAIN seen[r] = {}
  BY DEF PlanOK, InsOK, Ids, Fits

LEMMA SymbolKept ==
    ASSUME NEW r, NEW dict, NEW s, NEW h, NEW i, NEW plan, NEW next, SymbolOK(r, dict, s, h, plan),
           Done(r, s, i) = Done(r, s, h), Inserted(next, s) = Inserted(plan, s),
           \A x \in Inserted(plan, s) : next.ins[x] = plan.ins[x],
           <<s, 0>> \in DOMAIN next.dict <=> <<s, 0>> \in DOMAIN plan.dict,
           <<s, 0>> \in DOMAIN plan.dict => next.dict[<<s, 0>>] = plan.dict[<<s, 0>>],
           <<s, 0>> \in DOMAIN dict =>
              /\ dict[<<s, 0>>] \in next.del <=> dict[<<s, 0>>] \in plan.del
              /\ dict[<<s, 0>>] \in DOMAIN next.set <=> dict[<<s, 0>>] \in DOMAIN plan.set
              /\ dict[<<s, 0>>] \in DOMAIN plan.set => next.set[dict[<<s, 0>>]] = plan.set[dict[<<s, 0>>]]
    PROVE  SymbolOK(r, dict, s, i, next)
  <1>1. \A q : Says(r, s, h, q) => Says(r, s, i, q)
    BY DEF Says
  <1>2. QED
    BY <1>1 DEF SymbolOK

\* A row of another symbol.
LEMMA OtherRow ==
    ASSUME NEW r, NEW dict, Fits(r, dict), NEW i \in 1..Len(body[r].rows),
           NEW plan, PlanTyped(r, plan), PlanOK(r, dict, i - 1, plan),
           NEW s, SymbolOK(r, dict, s, i - 1, plan), Text(r, i)[1] # s
    PROVE  SymbolOK(r, dict, s, i, MergeRow(r, plan, i))
  <1> DEFINE text == Text(r, i)
             old == Old(r, plan, i)
             next == MergeRow(r, plan, i)
             k == <<s, 0>>
             id == <<r, i>>
  <1>1. Done(r, s, i) = Done(r, s, i - 1) /\ i \in Nat /\ i - 1 \in Nat
    <2>1. Len(body[r].rows) \in Nat
      BY DEF Fits
    <2>2. i \notin RowsOf(r, s) /\ i \in Nat
      BY <2>1 DEF RowsOf, Text
    <2>3. \A j \in 1..i : j = i \/ j \in 1..(i - 1)
      BY <2>2
    <2>4. QED
      BY <2>2, <2>3 DEF Done
  <1>2. /\ DOMAIN plan.ins \subseteq Ids(r, i - 1) /\ DOMAIN plan.ins \cap DOMAIN seen[r] = {}
        /\ id \notin Ids(r, i - 1)
    BY <1>1, InsertedAreNew DEF Ids
  <1>3. k # text
    OBVIOUS
  <1>4. k \in DOMAIN dict => dict[k] \in DOMAIN seen[r] /\ seen[r][dict[k]].sym = s
    BY DEF Fits
  <1>5. text \in DOMAIN plan.dict => old \notin Inserted(plan, s) /\ (k \in DOMAIN dict => old # dict[k])
    <2>1. CASE text \in DOMAIN dict /\ text \in DOMAIN plan.dict
      BY <1>2, <1>4, <2>1, OldIs DEF Inserted
    <2>2. CASE text \notin DOMAIN dict /\ text \in DOMAIN plan.dict
      <3>1. old \in {r} \X Nat /\ (old \in DOMAIN plan.ins => plan.ins[old].sym = text[1])
        BY <2>2, OldIs
      <3>2. DOMAIN seen[r] \cap ({r} \X Nat) = {}
        BY DEF Fits
      <3>3. QED
        BY <1>4, <3>1, <3>2 DEF Inserted
    <2>3. QED
      BY <2>1, <2>2
  <1>6. RowFor(r, i).sym # s
    BY DEF RowFor
  <1>7. DOMAIN plan = Fields
    BY DEF PlanTyped
  <1>8. SUFFICES
           /\ Inserted(next, s) = Inserted(plan, s)
           /\ \A x \in Inserted(plan, s) : next.ins[x] = plan.ins[x]
           /\ k \in DOMAIN next.dict <=> k \in DOMAIN plan.dict
           /\ k \in DOMAIN plan.dict => next.dict[k] = plan.dict[k]
           /\ k \in DOMAIN dict =>
                 /\ dict[k] \in next.del <=> dict[k] \in plan.del
                 /\ dict[k] \in DOMAIN next.set <=> dict[k] \in DOMAIN plan.set
                 /\ dict[k] \in DOMAIN plan.set => next.set[dict[k]] = plan.set[dict[k]]
    BY <1>1, SymbolKept
  <1> HIDE DEF text, old, next, id, k
  <1>9. CASE Adds(r, plan, i, next)
    <2>1. /\ next.dict = With(plan.dict, text, id) /\ next.ins = With(plan.ins, id, RowFor(r, i))
          /\ next.set = plan.set /\ next.del = plan.del
      BY <1>9 DEF Adds, text, id
    <2>2. Inserted(next, s) = Inserted(plan, s) /\ \A x \in Inserted(plan, s) : next.ins[x] = plan.ins[x]
      BY <1>2, <1>6, <2>1 DEF Inserted, With
    <2>3. /\ k \in DOMAIN next.dict <=> k \in DOMAIN plan.dict
          /\ k \in DOMAIN plan.dict => next.dict[k] = plan.dict[k]
      BY <1>3, <2>1 DEF With
    <2>4. QED
      BY <2>1, <2>2, <2>3
  <1>10. CASE Skips(r, plan, i, next)
    BY <1>10 DEF Skips
  <1>11. CASE Amends(r, plan, i, next)
    <2>1. /\ next.dict = plan.dict /\ next.ins = [plan.ins EXCEPT ![old].qty = Quantity(r, i)]
          /\ next.set = plan.set /\ next.del = plan.del /\ text \in DOMAIN plan.dict
      BY <1>11 DEF Amends, old, text
    <2>2. \A x \in DOMAIN plan.ins : x # old => next.ins[x] = plan.ins[x]
      BY <2>1
    <2>3. DOMAIN next.ins = DOMAIN plan.ins
      BY <2>1
    <2>4. \A x \in DOMAIN plan.ins : next.ins[x].sym = plan.ins[x].sym
      BY <1>11, PositionQty
    <2>5. QED
      BY <1>5, <2>1, <2>2, <2>3, <2>4 DEF Inserted
  <1>12. CASE Updating(r, plan, i, next)
    <2>1. /\ next.dict = plan.dict /\ next.ins = plan.ins /\ next.set = With(plan.set, old, Quantity(r, i))
          /\ next.del = plan.del /\ text \in DOMAIN plan.dict
      BY <1>12 DEF Updating, old, text
    <2>2. k \in DOMAIN dict =>
             /\ dict[k] \in DOMAIN next.set <=> dict[k] \in DOMAIN plan.set
             /\ dict[k] \in DOMAIN plan.set => next.set[dict[k]] = plan.set[dict[k]]
      BY <1>5, <2>1 DEF With
    <2>3. QED
      BY <2>1, <2>2 DEF Inserted
  <1>13. CASE Replaces(r, plan, i, next)
    <2>1. /\ next.dict = plan.dict /\ next.ins = With(Without(plan.ins, {old}), id, RowFor(r, i))
          /\ next.set = plan.set /\ next.del = plan.del \cup {old} /\ text \in DOMAIN plan.dict
      BY <1>13 DEF Replaces, old, text, id
    <2>2. Inserted(next, s) = Inserted(plan, s) /\ \A x \in Inserted(plan, s) : next.ins[x] = plan.ins[x]
      BY <1>2, <1>5, <1>6, <2>1 DEF Inserted, With, Without
    <2>3. QED
      BY <1>5, <2>1, <2>2
  <1>14. QED
    BY <1>7, <1>9, <1>10, <1>11, <1>12, <1>13, MergeRowCases DEF next

LEMMA NotOdd ==
    ASSUME NEW r, body[r].kind = "import", body[r].rows \in Seq(Row), NEW s, s \notin Odd(r)
    PROVE  Ordinary(r, s)
  <1> DEFINE rows == body[r].rows
  <1>1. \A j \in DOMAIN rows : rows[j].text = <<rows[j].text[1], rows[j].text[2]>>
    <2>1. TAKE j \in DOMAIN rows
    <2>2. rows[j] \in Row
      OBVIOUS
    <2>3. QED
      BY <2>2 DEF Row
  <1>2. DOMAIN rows = 1..Len(rows) /\ Len(rows) \in Nat
    OBVIOUS
  <1>3. \A j \in RowsOf(r, s) : j \in DOMAIN rows /\ rows[j].text[1] = s
    BY DEF RowsOf
  <1>4. \A j \in RowsOf(r, s) : rows[j].text[2] = 0
    BY <1>3 DEF Odd
  <1>5. \A j \in RowsOf(r, s) : rows[j].text = <<s, 0>>
    BY <1>1, <1>3, <1>4
  <1>6. ASSUME body[r].merge = "replace", NEW j \in RowsOf(r, s), NEW h \in RowsOf(r, s) PROVE h = j
    <2>1. \A x, y \in RowsOf(r, s) : y \notin 1..(x - 1)
      <3>1. TAKE x, y \in RowsOf(r, s)
      <3>2. CASE y \in 1..(x - 1)
        <4>1. rows[x].text[1] \in Odd(r)
          BY <1>3, <1>5, <1>6, <3>2 DEF Odd
        <4>2. QED
          BY <1>3, <4>1
      <3>3. QED
        BY <3>2
    <2>2. j \in 1..Len(rows) /\ h \in 1..Len(rows) /\ h \notin 1..(j - 1) /\ j \notin 1..(h - 1)
      BY <1>2, <1>3, <2>1
    <2>3. QED
      BY <1>2, <2>2
  <1>7. QED
    BY <1>5, <1>6 DEF Ordinary, Text

\* A row of the symbol.
LEMMA OwnRow ==
    ASSUME NEW r, NEW dict, Fits(r, dict), NEW i \in 1..Len(body[r].rows),
           NEW plan, PlanTyped(r, plan), PlanOK(r, dict, i - 1, plan),
           NEW s, SymbolOK(r, dict, s, i - 1, plan), Text(r, i)[1] = s, Ordinary(r, s)
    PROVE  SymbolOK(r, dict, s, i, MergeRow(r, plan, i))
  <1> DEFINE h == i - 1
             old == Old(r, plan, i)
             next == MergeRow(r, plan, i)
             k == <<s, 0>>
             id == <<r, i>>
             q == Quantity(r, i)
  <1>1. Len(body[r].rows) \in Nat /\ DOMAIN body[r].rows = 1..Len(body[r].rows)
    BY DEF Fits
  <1>2. i \in RowsOf(r, s) /\ i \in Nat /\ h \in Nat /\ Text(r, i) = k
    BY <1>1 DEF RowsOf, Text, Ordinary
  <1>3. /\ Done(r, s, i) = Done(r, s, h) \cup {i}
        /\ \A j \in Done(r, s, h) : j \in Nat /\ j < i
    <2>1. \A j \in 1..i : j = i \/ j \in 1..h
      BY <1>2
    <2>2. QED
      BY <1>2, <2>1 DEF Done
  <1>4. body[r].merge = "replace" => Done(r, s, h) = {}
    BY <1>2, <1>3 DEF Ordinary, Done
  <1>5. body[r].merge # "skip" => Says(r, s, i, q)
    <2>1. i \in Done(r, s, i) /\ \A j \in Done(r, s, i) : j <= i
      BY <1>2, <1>3
    <2>2. QED
      BY <2>1 DEF Says
  <1>6. Done(r, s, h) = {} => Says(r, s, i, q)
    <2>1. Done(r, s, h) = {} => Done(r, s, i) = {i}
      BY <1>3
    <2>2. i <= i
      BY <1>2
    <2>3. QED
      BY <2>1, <2>2 DEF Says
  <1>7. DOMAIN plan.ins \subseteq Ids(r, h) /\ DOMAIN plan.ins \cap DOMAIN seen[r] = {} /\ id \notin Ids(r, h)
    BY <1>2, InsertedAreNew DEF Ids
  <1>8. k \in DOMAIN dict =>
           dict[k] \in DOMAIN seen[r] /\ dict[k] \notin DOMAIN plan.ins /\ k \in DOMAIN plan.dict
    BY <1>7 DEF Fits, PlanOK, DictOK
  <1>9. k \in DOMAIN dict => old = dict[k]
    BY <1>2, <1>8, OldIs
  <1>10. RowFor(r, i).sym = s /\ RowFor(r, i).qty = q /\ Old(r, plan, i) = plan.dict[k]
    BY <1>2 DEF RowFor, Old
  <1>11. DOMAIN plan = Fields /\ body[r].merge \in {"update", "skip", "replace"}
    BY DEF PlanTyped, Fits
  <1>12. i \in Done(r, s, i)
    BY <1>3
  <1> HIDE DEF h, old, next, id, k, q
  <1>13. CASE Adds(r, plan, i, next)
    <2>1. /\ next.dict = With(plan.dict, k, id) /\ next.ins = With(plan.ins, id, RowFor(r, i))
          /\ next.set = plan.set /\ next.del = plan.del /\ k \notin DOMAIN plan.dict
      BY <1>2, <1>13 DEF Adds, id
    <2>2. k \notin DOMAIN dict /\ Done(r, s, h) = {}
      BY <1>8, <2>1 DEF SymbolOK, h, k
    <2>3. Inserted(plan, s) = {}
      BY <2>2 DEF SymbolOK, h
    <2>4. Inserted(next, s) = {id} /\ next.ins[id].qty = q
      BY <1>10, <2>1, <2>3 DEF Inserted, With
    <2>5. k \in DOMAIN next.dict /\ next.dict[k] = id
      BY <2>1 DEF With
    <2>6. SymbolOK(r, dict, s, i, next)
      BY <1>6, <1>12, <2>2, <2>4, <2>5 DEF SymbolOK, k
    <2>7. QED
      BY <2>6 DEF next
  <1>14. CASE Skips(r, plan, i, next)
    <2>1. next = plan /\ k \in DOMAIN plan.dict /\ body[r].merge = "skip"
      BY <1>2, <1>14 DEF Skips
    <2>2. \A x : Says(r, s, h, x) => Says(r, s, i, x)
      BY <1>3, <2>1 DEF Says
    <2>3. Done(r, s, h) = {} => k \in DOMAIN dict
      BY <2>1 DEF SymbolOK, h, k
    <2>4. SymbolOK(r, dict, s, i, next)
      BY <1>3, <2>1, <2>2, <2>3 DEF SymbolOK, h, k
    <2>5. QED
      BY <2>4 DEF next
  <1>15. CASE Amends(r, plan, i, next)
    <2>1. /\ next.dict = plan.dict /\ next.ins = [plan.ins EXCEPT ![old].qty = q]
          /\ next.set = plan.set /\ next.del = plan.del /\ k \in DOMAIN plan.dict
          /\ body[r].merge = "update" /\ old \in DOMAIN plan.ins
      BY <1>2, <1>15 DEF Amends, old, q
    <2>2. k \notin DOMAIN dict
      BY <1>8, <1>9, <2>1
    <2>3. Done(r, s, h) # {}
      BY <2>1, <2>2 DEF SymbolOK, h, k
    <2>4. Inserted(plan, s) = {plan.dict[k]}
      BY <2>2, <2>3 DEF SymbolOK, h, k
    <2>5. DOMAIN next.ins = DOMAIN plan.ins /\ \A x \in DOMAIN plan.ins : next.ins[x].sym = plan.ins[x].sym
      BY <1>15, <2>1, PositionQty
    <2>6. Inserted(next, s) = {next.dict[k]}
      BY <2>1, <2>4, <2>5 DEF Inserted
    <2>7. next.ins[old].qty = q
      <3>1. next.ins[old] = [plan.ins[old] EXCEPT !.qty = q]
        BY <2>1
      <3>2. \E syms : plan.ins[old] \in Position({PfOf(r)}, syms)
        BY <2>1 DEF PlanTyped
      <3>3. QED
        BY <3>1, <3>2 DEF Position
    <2>8. next.dict[k] = old
      BY <1>10, <2>1 DEF old
    <2>9. SymbolOK(r, dict, s, i, next)
      BY <1>5, <1>12, <2>1, <2>2, <2>6, <2>7, <2>8 DEF SymbolOK, k
    <2>10. QED
      BY <2>9 DEF next
  <1>16. CASE Updating(r, plan, i, next)
    <2>1. /\ next.dict = plan.dict /\ next.ins = plan.ins /\ next.set = With(plan.set, old, q)
          /\ next.del = plan.del /\ k \in DOMAIN plan.dict
          /\ body[r].merge = "update" /\ old \notin DOMAIN plan.ins
      BY <1>2, <1>16 DEF Updating, old, q
    <2>2. k \in DOMAIN dict
      BY <1>2, <2>1, OldIs DEF old
    <2>3. dict[k] \in DOMAIN next.set /\ next.set[dict[k]] = q
      BY <1>9, <2>1, <2>2 DEF With
    <2>4. Inserted(next, s) = {} /\ dict[k] \notin next.del
      BY <2>1, <2>2 DEF SymbolOK, h, k, Inserted
    <2>5. SymbolOK(r, dict, s, i, next)
      BY <1>5, <1>12, <2>1, <2>2, <2>3, <2>4 DEF SymbolOK, k
    <2>6. QED
      BY <2>5 DEF next
  <1>17. CASE Replaces(r, plan, i, next)
    <2>1. /\ next.dict = plan.dict /\ next.ins = With(Without(plan.ins, {old}), id, RowFor(r, i))
          /\ next.set = plan.set /\ next.del = plan.del \cup {old} /\ k \in DOMAIN plan.dict
          /\ body[r].merge = "replace"
      BY <1>2, <1>11, <1>17 DEF Replaces, old, id
    <2>2. Done(r, s, h) = {} /\ k \in DOMAIN dict
      BY <1>4, <2>1 DEF SymbolOK, h, k
    <2>3. Inserted(plan, s) = {} /\ dict[k] \notin DOMAIN plan.set
      BY <2>2 DEF SymbolOK, h, k
    <2>4. Inserted(next, s) = {id} /\ next.ins[id].qty = q
      BY <1>10, <2>1, <2>3 DEF Inserted, With, Without
    <2>5. dict[k] \in next.del
      BY <1>9, <2>1, <2>2
    <2>6. SymbolOK(r, dict, s, i, next)
      BY <1>6, <1>12, <2>1, <2>2, <2>3, <2>4, <2>5 DEF SymbolOK, k
    <2>7. QED
      BY <2>6 DEF next
  <1>18. QED
    BY <1>11, <1>13, <1>14, <1>15, <1>16, <1>17, MergeRowCases DEF next

LEMMA MergedOK ==
    ASSUME NEW r, NEW dict, Fits(r, dict)
    PROVE  /\ PlanOK(r, dict, Len(body[r].rows), Merged(r, dict))
           /\ \A s : Ordinary(r, s) => SymbolOK(r, dict, s, Len(body[r].rows), Merged(r, dict))
  <1> DEFINE n == Len(body[r].rows)
  <1>1. PICK plan : /\ Merged(r, dict) = plan[n] /\ plan[0] = Unmerged(dict)
                    /\ \A i \in 1..n : plan[i] = MergeRow(r, plan[i - 1], i)
    BY Merging DEF Fits
  <1>2. n \in Nat /\ DOMAIN body[r].rows = 1..n /\ body[r].rows \in Seq(Row)
    BY DEF Fits
  <1> HIDE DEF n
  <1> DEFINE Good(i) ==
                /\ PlanTyped(r, plan[i]) /\ PlanOK(r, dict, i, plan[i])
                /\ \A s : Ordinary(r, s) => SymbolOK(r, dict, s, i, plan[i])
             Bad == {i \in 0..n : ~Good(i)}
  <1>3. SUFFICES ASSUME Bad # {} PROVE FALSE
    BY <1>1, <1>2 DEF n
  <1>4. PICK i \in Bad : \A j \in Bad : i <= j
    <2>1. Bad \in SUBSET Nat
      OBVIOUS
    <2> HIDE DEF Bad
    <2>2. QED
      BY <1>3, <2>1, LeastNatural
  <1>5. Good(0)
    <2>1. 1..0 = {} /\ \A s : Done(r, s, 0) = {}
      BY DEF Done
    <2>2. PlanTyped(r, plan[0])
      BY <1>1 DEF PlanTyped, Unmerged, Fields
    <2>3. PlanOK(r, dict, 0, plan[0])
      BY <1>1, <2>1 DEF PlanOK, Unmerged, InsOK, DictOK, SetOK, DelOK, BadOK
    <2>4. ASSUME NEW s PROVE SymbolOK(r, dict, s, 0, plan[0])
      <3>1. Inserted(plan[0], s) = {} /\ plan[0].dict = dict /\ plan[0].set = << >> /\ plan[0].del = {}
        BY <1>1 DEF Unmerged, Inserted
      <3>2. QED
        BY <2>1, <3>1 DEF SymbolOK
    <2>5. QED
      BY <2>2, <2>3, <2>4
  <1>6. i # 0
    BY <1>4, <1>5
  <1>7. i \in 1..n /\ i - 1 \in 0..n /\ ~(i <= i - 1)
    BY <1>2, <1>4, <1>6
  <1>8. Good(i - 1)
    BY <1>4, <1>7
  <1>9. PlanTyped(r, plan[i]) /\ PlanOK(r, dict, i, plan[i])
    BY <1>1, <1>2, <1>7, <1>8, MergeRowTyped, MergeRowOK DEF n
  <1>10. ASSUME NEW s, Ordinary(r, s) PROVE SymbolOK(r, dict, s, i, plan[i])
    <2>1. /\ PlanTyped(r, plan[i - 1]) /\ PlanOK(r, dict, i - 1, plan[i - 1])
          /\ SymbolOK(r, dict, s, i - 1, plan[i - 1])
      BY <1>8, <1>10
    <2>2. QED
      BY <1>1, <1>7, <1>10, <2>1, OtherRow, OwnRow DEF n
  <1>11. QED
    BY <1>4, <1>9, <1>10


-----------------------------------------------------------------------------
(***************************************************************************)
(* Requests that fail                                                      *)
(***************************************************************************)

\* A request is ended by a step of its own.
LEMMA OneMoves ==
    ASSUME JInv, NEW r \in Requests, Act(r)
    PROVE  \E p : pc' = [pc EXCEPT ![r] = p]
  <1>1. pc \in [Requests -> Places]
    BY DEF JInv, IInv, Shapes
  <1>2. pc = [pc EXCEPT ![r] = pc[r]]
    BY <1>1
  <1>3. ASSUME NEW b \in Bodies, Begin(r, b) PROVE \E p : pc' = [pc EXCEPT ![r] = p]
    BY <1>3 DEF Begin
  <1>4. CASE Resolve(r) \/ Insert(r) \/ CommitInstruments(r) \/ Abort(r) \/ InsertFails(r)
    BY <1>2, <1>4 DEF Resolve, Insert, CommitInstruments, Abort, InsertFails, RollBack, Finish
  <1>5. CASE ReadExisting(r) \/ Import(r) \/ FindPosition(r)
    BY <1>5 DEF ReadExisting, Import, FindPosition, RollBack, Finish
  <1>6. CASE CreatePosition(r) \/ EditPosition(r) \/ DropPosition(r)
    BY <1>6 DEF CreatePosition, EditPosition, DropPosition, Write, Finish
  <1>7. CASE CreatePortfolio(r) \/ UpdatePortfolio(r) \/ DeletePortfolio(r) \/ Refer(r)
    BY <1>7 DEF CreatePortfolio, UpdatePortfolio, DeletePortfolio, Refer, Write, Finish
  <1>8. CASE CreateGroup(r) \/ UpdateGroup(r) \/ DeleteGroup(r)
    BY <1>8 DEF CreateGroup, UpdateGroup, DeleteGroup, Write, RollBack, Finish
  <1>9. CASE FindAssignment(r) \/ Assign(r) \/ Unassign(r)
    BY <1>9 DEF FindAssignment, Assign, Unassign, Write, RollBack, Finish
  <1>10. CASE SeedReads(r) \/ Seed(r)
    BY <1>10 DEF SeedReads, Seed, Write, Finish
  <1>11. QED
    BY <1>3, <1>4, <1>5, <1>6, <1>7, <1>8, <1>9, <1>10 DEF Act

LEMMA EndsItself ==
    ASSUME JInv, Next, NEW r \in Requests, NEW how, Ends(r, how)
    PROVE  Act(r)
  <1>1. PICK q \in Requests : Act(q)
    BY DEF Next, Act
  <1>2. PICK p : pc' = [pc EXCEPT ![q] = p]
    BY <1>1, OneMoves
  <1>3. pc \in [Requests -> Places]
    BY DEF JInv, IInv, Shapes
  <1>4. q = r
    BY <1>2, <1>3 DEF Ends
  <1>5. QED
    BY <1>1, <1>4

\* The dict of an import that is alone.
LEMMA DictFits ==
    ASSUME JInv, NEW r \in Requests, Alone(r), pc[r] = "write", body[r].kind = "import",
           NEW dict \in Dicts(r)
    PROVE  /\ Fits(r, dict)
           /\ seen[r] = Only(positions, {i \in DOMAIN positions : positions[i].pf = PfOf(r)})
  <1>1. Open(r) /\ pc[r] \notin Over
    BY DEF Open, Over
  <1>2. body[r] \in Bodies /\ Current(r)
    BY <1>1 DEF JInv, IInv, Local, AloneOK
  <1>3. body[r].rows \in Seq(Row) /\ body[r].merge \in {"update", "skip", "replace"}
    BY <1>2, HoldingsOK
  <1>4. seen[r] = Only(positions, {i \in DOMAIN positions : positions[i].pf = PfOf(r)})
    BY <1>2 DEF Current
  <1>5. DOMAIN seen[r] \cap ({r} \X Nat) = {}
    BY <1>1, <1>4 DEF JInv, Fresh, Only
  <1> DEFINE syms == {seen[r][i].sym : i \in DOMAIN seen[r]}
  <1>6. dict \in [syms \X {0} -> DOMAIN seen[r]] /\ \A s \in syms : seen[r][dict[<<s, 0>>]].sym = s
    BY DEF Dicts
  <1> HIDE DEF syms
  <1>7. ASSUME NEW k \in DOMAIN dict
        PROVE  k[2] = 0 /\ dict[k] \in DOMAIN seen[r] /\ seen[r][dict[k]].sym = k[1]
    BY <1>6
  <1>8. QED
    BY <1>3, <1>4, <1>5, <1>7 DEF Fits

LEMMA ImportFails ==
    ASSUME JInv, NEW r \in Requests, Alone(r), Import(r), pc'[r] = "failed"
    PROVE  Odd(r) # {}
  <1>1. pc[r] = "write" /\ body[r].kind = "import" /\ Open(r) /\ pc \in [Requests -> Places]
    BY DEF Import, JInv, IInv, Shapes, Open, Over
  <1>2. PICK dict \in Dicts(r) : Rejected(r, Merged(r, dict))
    BY <1>1 DEF Import, Finish
  <1> DEFINE plan == Merged(r, dict)
             rows == body[r].rows
  <1>3. /\ Fits(r, dict)
        /\ seen[r] = Only(positions, {i \in DOMAIN positions : positions[i].pf = PfOf(r)})
    BY <1>1, DictFits
  <1>4. BadOK(r, Len(rows), plan) /\ SetOK(r, Len(rows), plan)
    BY <1>3, MergedOK DEF PlanOK
  <1>5. Updates(r, plan) \subseteq DOMAIN positions
    <2>1. DOMAIN plan.set \subseteq DOMAIN seen[r]
      BY <1>4 DEF SetOK
    <2> HIDE DEF plan
    <2>2. QED
      BY <1>3, <2>1 DEF Only, Updates
  <1>6. body[r].new = None => target[r] \in DOMAIN portfolios
    <2>1. target[r] \in Targets(body[r])
      BY <1>1 DEF JInv, AloneOK, Current
    <2>2. QED
      BY <1>1, <2>1 DEF Targets, OnPosition, OnGroup, OnPortfolio
  <1>7. plan.bad
    BY <1>2, <1>5, <1>6 DEF Rejected
  <1>8. body[r].merge = "replace" /\ Repeats(r, Len(rows))
    BY <1>4, <1>7 DEF BadOK
  <1>9. PICK j \in 1..Len(rows) : \E h \in 1..(j - 1) : rows[h].text = rows[j].text
    BY <1>8 DEF Repeats, Text
  <1>10. DOMAIN rows = 1..Len(rows)
    BY <1>3 DEF Fits
  <1>11. rows[j].text[1] \in Odd(r)
    BY <1>1, <1>8, <1>9, <1>10 DEF Odd
  <1>12. QED
    BY <1>11

LEMMA SeedFits ==
    ASSUME JInv, NEW r \in Requests, Alone(r), Seed(r)
    PROVE  pc'[r] = "done"
  <1>1. /\ Open(r) /\ pc \in [Requests -> Places] /\ pc[r] = "write" /\ body[r].kind = "seed"
    BY DEF Seed, Write, Open, Over, JInv, IInv, Shapes
  <1> DEFINE known == view[r].groups
             named(s) == {g \in DOMAIN known : known[g] = Sector[s]}
             GroupOf(s) ==
                IF \E g \in DOMAIN known : known[g] = Sector[s]
                  THEN CHOOSE g \in DOMAIN known : known[g] = Sector[s] ELSE <<r, Sector[s]>>
             added == {GroupOf(s) : s \in view[r].held} \ DOMAIN known
             fits == /\ \A s \in view[r].held :
                           s \notin DOMAIN assigned /\ GroupOf(s) \in DOMAIN groups \cup added
                     /\ \A g \in added : g[2] \notin Taking(r)
  <1>2. Write(r, "seed", fits)
    BY DEF Seed
  <1>3. known = groups /\ view[r].held \cap DOMAIN assigned = {}
    BY <1>1 DEF JInv, AloneOK, Current
  <1>4. ASSUME NEW g \in added PROVE g[2] \notin Taking(r)
    <2>1. PICK s \in view[r].held : g = GroupOf(s) /\ g \notin DOMAIN known
      OBVIOUS
    <2>2. ~\E x \in DOMAIN known : known[x] = Sector[s]
      BY <2>1
    <2>3. g[2] = Sector[s]
      BY <2>1, <2>2
    <2>4. QED
      BY <1>3, <2>2, <2>3 DEF Taking
  <1>5. fits
    <2>1. \A s \in view[r].held : GroupOf(s) \in DOMAIN groups \cup added
      <3> HIDE DEF GroupOf
      <3>1. QED
        BY <1>3
    <2>2. QED
      BY <1>3, <1>4, <2>1
  <1> HIDE DEF fits
  <1>6. QED
    BY <1>1, <1>2, <1>5 DEF Write, Finish

\* The other writing steps of a request that is alone.
LEMMA WriteFits ==
    ASSUME JInv, NEW r \in Requests, Alone(r), pc'[r] = "failed",
           \/ CreatePosition(r) \/ EditPosition(r) \/ UpdatePortfolio(r) \/ DeletePortfolio(r)
           \/ Refer(r) \/ UpdateGroup(r) \/ Assign(r)
    PROVE  body[r].kind = "close" /\ target[r] \in referred
  <1>1. pc[r] = "write" /\ pc \in [Requests -> Places]
    BY DEF CreatePosition, EditPosition, UpdatePortfolio, DeletePortfolio, Refer, UpdateGroup, Assign,
           Write, JInv, IInv, Shapes
  <1>2. Current(r)
    BY <1>1 DEF JInv, AloneOK, Open, Over
  <1>3. target[r] \in Targets(body[r])
    BY <1>2 DEF Current
  <1>4. CASE CreatePosition(r) \/ UpdatePortfolio(r) \/ Refer(r)
    <2>1. body[r].kind \in OnPortfolio
      BY <1>4 DEF CreatePosition, UpdatePortfolio, Refer, Write, OnPortfolio
    <2>2. target[r] \in DOMAIN portfolios
      BY <1>3, <2>1 DEF Targets, OnPosition, OnGroup, OnPortfolio
    <2>3. pc'[r] = "done"
      BY <1>1, <1>4, <2>2 DEF CreatePosition, UpdatePortfolio, Refer, Write, Finish
    <2>4. QED
      BY <2>3
  <1>5. CASE EditPosition(r)
    <2>1. target[r] \in DOMAIN positions
      BY <1>3, <1>5 DEF EditPosition, Write, Targets, OnPosition, OnGroup, OnPortfolio
    <2>2. QED
      BY <1>1, <1>5, <2>1 DEF EditPosition, Write, Finish
  <1>6. CASE DeletePortfolio(r)
    <2>1. body[r].kind = "close"
      BY <1>6 DEF DeletePortfolio, Write
    <2>2. seen[r] = Only(positions, Loaded(r))
      BY <1>2, <2>1 DEF Current
    <2>3. {i \in DOMAIN positions \ DOMAIN seen[r] : positions[i].pf = target[r]} = {}
      BY <2>2 DEF Only, Loaded
    <2>4. QED
      BY <1>1, <1>6, <2>1, <2>3 DEF DeletePortfolio, Write, Finish
  <1>7. CASE UpdateGroup(r)
    <2>1. target[r] \in DOMAIN groups
      BY <1>3, <1>7 DEF UpdateGroup, Targets, OnPosition, OnGroup, OnPortfolio
    <2>2. QED
      BY <1>1, <1>7, <2>1 DEF UpdateGroup, RollBack, Finish
  <1>8. CASE Assign(r)
    <2>1. body[r].kind = "assign"
      BY <1>8 DEF Assign, Write
    <2>2. target[r] \in DOMAIN groups
      BY <1>3, <2>1 DEF Targets, OnPosition, OnGroup, OnPortfolio
    <2>3. seen[r] = Only(assigned, {body[r].sym})
      BY <1>1, <1>2, <2>1 DEF Current
    <2>4. IF body[r].sym \in DOMAIN seen[r]
            THEN body[r].sym \in DOMAIN assigned /\ assigned[body[r].sym].id = seen[r][body[r].sym].id
            ELSE body[r].sym \notin DOMAIN assigned
      BY <2>3 DEF Only
    <2>5. QED
      BY <1>1, <1>8, <2>2, <2>4 DEF Assign, Write, Finish
  <1>9. QED
    BY <1>4, <1>5, <1>6, <1>7, <1>8

LEMMA InsertFits ==
    ASSUME JInv, NEW r \in Requests, Alone(r), InsertFails(r)
    PROVE  FALSE
  <1>1. Open(r) /\ pc[r] = "insert" /\ Past
    BY DEF InsertFails, Open, Over, JInv
  <1>2. ~Taken(r)
    BY <1>1 DEF JInv, AloneOK, Current, Taken
  <1>3. \A q \in Requests : ~WaitsFor(r, q)
    BY <1>1, AloneIsOnly DEF WaitsFor
  <1>4. ~Deadlocked(r)
    BY <1>3 DEF Deadlocked
  <1>5. QED
    BY <1>2, <1>4 DEF InsertFails

LEMMA Explained ==
    ASSUME JInv, NEW r \in Requests, Act(r), Ends(r, "failed"), Alone(r), Odd(r) = {}
    PROVE  \/ body[r].kind = "create" /\ Count(target[r], body[r].sym) > 1
           \/ body[r].kind = "close" /\ target[r] \in referred
  <1>1. pc \in [Requests -> Places] /\ pc'[r] = "failed" /\ pc[r] # "failed"
    BY DEF JInv, IInv, Shapes, Ends
  <1>2. \A b \in Bodies : ~Begin(r, b)
    BY <1>1 DEF Begin, FirstStep
  <1>3. ~Abort(r)
    BY <1>1 DEF Abort, RollBack, Finish
  <1>4. ~Resolve(r) /\ ~Insert(r) /\ ~CommitInstruments(r) /\ ~ReadExisting(r)
    BY <1>1 DEF Resolve, Insert, CommitInstruments, ReadExisting, RollBack, Finish
  <1>5. ~DropPosition(r) /\ ~CreatePortfolio(r) /\ ~CreateGroup(r) /\ ~DeleteGroup(r) /\ ~Unassign(r)
    BY <1>1 DEF DropPosition, CreatePortfolio, CreateGroup, DeleteGroup, Unassign, Write, Finish
  <1>6. ~FindAssignment(r) /\ ~SeedReads(r)
    BY <1>1 DEF FindAssignment, SeedReads, RollBack, Finish
  <1>7. ~InsertFails(r) /\ ~Import(r) /\ ~Seed(r)
    BY <1>1, InsertFits, ImportFails, SeedFits
  <1>8. CASE FindPosition(r)
    BY <1>1, <1>8 DEF FindPosition, RollBack, Finish, Count
  <1>9. CASE ~FindPosition(r)
    BY <1>1, <1>2, <1>3, <1>4, <1>5, <1>6, <1>7, <1>9, WriteFits DEF Act
  <1>10. QED
    BY <1>8, <1>9

LEMMA FailureStep ==
    ASSUME JInv, [Next]_vars, NEW r \in Requests, Ends(r, "failed")
    PROVE  \/ ~Alone(r) \/ Odd(r) # {}
           \/ body[r].kind = "create" /\ Count(target[r], body[r].sym) > 1
           \/ body[r].kind = "close" /\ target[r] \in referred
  <1>1. CASE UNCHANGED vars
    BY <1>1 DEF vars, local, Ends
  <1>2. CASE Next
    BY <1>2, EndsItself, Explained
  <1>3. QED
    BY <1>1, <1>2

\* A request that met no other does not end in a server error, but for an import
\* whose replacement repeats a symbol, an addition to a symbol that is there twice,
\* and the deletion of a portfolio that is referred to.
THEOREM FailuresHaveReasons == Spec => FailuresExplained
  <1>1. JInv /\ [Next]_vars =>
          [\A r \in Requests : Ends(r, "failed") =>
              \/ ~Alone(r) \/ Odd(r) # {}
              \/ body[r].kind = "create" /\ Count(target[r], body[r].sym) > 1
              \/ body[r].kind = "close" /\ target[r] \in referred]_vars
    BY FailureStep
  <1>2. QED
    BY <1>1, AloneInvariance, PTL DEF Spec, FailuresExplained

-----------------------------------------------------------------------------
(***************************************************************************)
(* What requests that meet no other write                                  *)
(***************************************************************************)

\* The positions once an import has written its plan.
Written(r, plan) ==
    Onto([i \in DOMAIN positions \ plan.del |->
             IF i \in Updates(r, plan) THEN [positions[i] EXCEPT !.qty = plan.set[i]] ELSE positions[i]],
         plan.ins)

LEMMA ImportWrites ==
    ASSUME NEW r \in Requests, JInv, Import(r), pc'[r] = "done"
    PROVE  \E dict \in Dicts(r) : positions' = Written(r, Merged(r, dict))
  <1>1. pc \in [Requests -> Places]
    BY DEF JInv, IInv, Shapes
  <1>2. PICK dict \in Dicts(r) :
           LET plan == Merged(r, dict) IN
           \/ RollBack(r, "failed")
           \/ positions' = Onto([i \in DOMAIN positions \ plan.del |->
                       IF i \in Updates(r, plan) THEN [positions[i] EXCEPT !.qty = plan.set[i]]
                       ELSE positions[i]],
                    plan.ins)
    BY DEF Import
  <1>3. ~RollBack(r, "failed")
    BY <1>1 DEF RollBack, Finish
  <1>4. QED
    BY <1>2, <1>3 DEF Written

\* The dict of an import that is alone has the symbols of its portfolio.
LEMMA DictHas ==
    ASSUME JInv, NEW r \in Requests, Alone(r), pc[r] = "write", body[r].kind = "import",
           NEW dict \in Dicts(r), NEW s
    PROVE  IF <<s, 0>> \in DOMAIN dict THEN dict[<<s, 0>>] \in At(PfOf(r), s) ELSE At(PfOf(r), s) = {}
  <1>1. seen[r] = Only(positions, {i \in DOMAIN positions : positions[i].pf = PfOf(r)}) /\ Fits(r, dict)
    BY DictFits
  <1>2. CASE <<s, 0>> \in DOMAIN dict
    <2>1. dict[<<s, 0>>] \in DOMAIN seen[r] /\ seen[r][dict[<<s, 0>>]].sym = s
      BY <1>1, <1>2 DEF Fits
    <2>2. QED
      BY <1>1, <1>2, <2>1 DEF Only, At
  <1>3. CASE <<s, 0>> \notin DOMAIN dict
    <2>1. s \notin {seen[r][i].sym : i \in DOMAIN seen[r]}
      BY <1>3 DEF Dicts
    <2>2. QED
      BY <1>1, <1>3, <2>1 DEF Only, At
  <1>4. QED
    BY <1>2, <1>3

\* What an import that is alone changes: rows of its portfolio of symbols it names.
LEMMA WritesOwn ==
    ASSUME JInv, NEW r \in Requests, Alone(r), pc[r] = "write", body[r].kind = "import",
           NEW dict \in Dicts(r), positions' = Written(r, Merged(r, dict))
    PROVE  LET plan == Merged(r, dict) IN
           /\ DOMAIN plan.ins \cap DOMAIN positions = {}
           /\ \A x \in DOMAIN plan.ins :
                 /\ positions'[x] = plan.ins[x] /\ plan.ins[x].pf = PfOf(r)
                 /\ RowsOf(r, plan.ins[x].sym) # {}
           /\ DOMAIN positions' = (DOMAIN positions \ plan.del) \cup DOMAIN plan.ins
           /\ \A x \in DOMAIN positions \ plan.del :
                 /\ positions'[x].pf = positions[x].pf /\ positions'[x].sym = positions[x].sym
                 /\ x \in DOMAIN plan.set => positions'[x].qty = plan.set[x]
                 /\ x \notin DOMAIN plan.set => positions'[x] = positions[x]
           /\ \A x \in DOMAIN positions : x \in plan.del \cup DOMAIN plan.set =>
                 positions[x].pf = PfOf(r) /\ RowsOf(r, positions[x].sym) # {}
  <1> DEFINE plan == Merged(r, dict)
             n == Len(body[r].rows)
             S == {i \in DOMAIN positions : positions[i].pf = PfOf(r)}
  <1>1. seen[r] = Only(positions, S) /\ Fits(r, dict)
    BY DictFits
  <1>2. InsOK(r, n, plan) /\ SetOK(r, n, plan) /\ DelOK(r, n, plan)
    BY <1>1, MergedOK DEF PlanOK
  <1>3. DOMAIN body[r].rows = 1..n /\ n \in Nat
    BY <1>1 DEF Fits
  <1>4. \A s : s \in Named(r, n) => RowsOf(r, s) # {}
    BY <1>3 DEF Named, RowsOf, Text
  <1>5. DOMAIN positions \cap ({r} \X Nat) = {}
    BY DEF JInv, Fresh, Over
  <1>6. Ids(r, n) \subseteq {r} \X Nat
    BY <1>3 DEF Ids
  <1> HIDE DEF plan, n
  <1>7. DOMAIN plan.ins \cap DOMAIN positions = {}
    BY <1>2, <1>5, <1>6 DEF InsOK
  <1> DEFINE kept == [i \in DOMAIN positions \ plan.del |->
             IF i \in Updates(r, plan) THEN [positions[i] EXCEPT !.qty = plan.set[i]] ELSE positions[i]]
  <1>8. positions' = Onto(kept, plan.ins)
    BY DEF Written, plan
  <1>9. DOMAIN kept = DOMAIN positions \ plan.del
    OBVIOUS
  <1>10. ASSUME NEW x \in DOMAIN positions \ plan.del
         PROVE  /\ kept[x].pf = positions[x].pf /\ kept[x].sym = positions[x].sym
                /\ x \in DOMAIN plan.set => kept[x].qty = plan.set[x]
                /\ x \notin DOMAIN plan.set => kept[x] = positions[x]
    <2>1. positions[x] \in Position(DOMAIN portfolios, instruments)
      BY DEF JInv, IInv, Stored
    <2>2. kept[x] = IF x \in Updates(r, plan) THEN [positions[x] EXCEPT !.qty = plan.set[x]] ELSE positions[x]
      OBVIOUS
    <2>3. x \in DOMAIN plan.set => seen[r][x].qty = positions[x].qty
      BY <1>1, <1>2 DEF SetOK, Only
    <2>4. x \in Updates(r, plan) <=> x \in DOMAIN plan.set /\ plan.set[x] # seen[r][x].qty
      BY DEF Updates
    <2> HIDE DEF kept
    <2>5. QED
      BY <2>1, <2>2, <2>3, <2>4 DEF Position
  <1> HIDE DEF kept
  <1>11. DOMAIN positions' = (DOMAIN positions \ plan.del) \cup DOMAIN plan.ins
    BY <1>8, <1>9 DEF Onto
  <1>12. \A x \in DOMAIN plan.ins :
                 /\ positions'[x] = plan.ins[x] /\ plan.ins[x].pf = PfOf(r)
                 /\ RowsOf(r, plan.ins[x].sym) # {}
    <2>1. TAKE x \in DOMAIN plan.ins
    <2>2. positions'[x] = plan.ins[x]
      BY <1>8 DEF Onto
    <2>3. PICK j \in 1..n : x = <<r, j>>
      BY <1>2 DEF InsOK, Ids
    <2>4. plan.ins[x].pf = PfOf(r) /\ plan.ins[x].sym \in Named(r, n)
      BY <1>2, <2>3 DEF InsOK, Named
    <2>5. QED
      BY <1>4, <2>2, <2>4
  <1>13. \A x \in DOMAIN positions \ plan.del : positions'[x] = kept[x]
    BY <1>7, <1>8, <1>9 DEF Onto
  <1>14. ASSUME NEW x \in DOMAIN positions, x \in plan.del \cup DOMAIN plan.set
         PROVE  positions[x].pf = PfOf(r) /\ RowsOf(r, positions[x].sym) # {}
    <2>1. x \in DOMAIN seen[r] /\ seen[r][x].sym \in Named(r, n)
      BY <1>2, <1>5, <1>6, <1>14 DEF SetOK, DelOK
    <2>2. QED
      BY <1>1, <1>4, <2>1 DEF Only
  <1>15. QED
    BY <1>7, <1>10, <1>11, <1>12, <1>13, <1>14 DEF plan

LEMMA AtWritten ==
    ASSUME JInv, NEW r \in Requests, Alone(r), pc[r] = "write", body[r].kind = "import",
           NEW dict \in Dicts(r), positions' = Written(r, Merged(r, dict)), NEW p, NEW s
    PROVE  LET plan == Merged(r, dict) IN
           At(p, s)' = (At(p, s) \ plan.del) \cup IF p = PfOf(r) THEN Inserted(plan, s) ELSE {}
  <1> DEFINE plan == Merged(r, dict)
  <1>1. /\ DOMAIN plan.ins \cap DOMAIN positions = {}
        /\ \A x \in DOMAIN plan.ins : positions'[x] = plan.ins[x] /\ plan.ins[x].pf = PfOf(r)
        /\ DOMAIN positions' = (DOMAIN positions \ plan.del) \cup DOMAIN plan.ins
        /\ \A x \in DOMAIN positions \ plan.del :
              positions'[x].pf = positions[x].pf /\ positions'[x].sym = positions[x].sym
    BY WritesOwn
  <1> HIDE DEF plan
  <1>2. At(p, s)' = (At(p, s) \ plan.del) \cup IF p = PfOf(r) THEN Inserted(plan, s) ELSE {}
    BY <1>1 DEF At, Inserted
  <1>3. QED
    BY <1>2 DEF plan

\* Counting the positions of a symbol.
LEMMA Counted ==
    ASSUME IsFiniteSet(DOMAIN positions), NEW p, NEW s
    PROVE  IsFiniteSet(At(p, s)) /\ Count(p, s) \in Nat
  <1>1. At(p, s) \subseteq DOMAIN positions
    BY DEF At
  <1>2. QED
    BY <1>1, FS_Subset, FS_CardinalityType DEF Count

LEMMA OnlyOne ==
    ASSUME NEW S, IsFiniteSet(S), Cardinality(S) <= 1, NEW x \in S
    PROVE  S = {x}
  <1>1. Cardinality(S) \in Nat /\ Cardinality(S) # 0
    BY FS_CardinalityType, FS_EmptySet
  <1>2. Cardinality(S) = 1
    BY <1>1
  <1>3. QED
    BY <1>2, FS_Singleton

LEMMA NotMore ==
    ASSUME IsFiniteSet(DOMAIN positions), NEW p, NEW s, At(p, s)' \subseteq At(p, s)
    PROVE  ~(Count(p, s)' > Count(p, s))
  <1>1. IsFiniteSet(At(p, s)) /\ Count(p, s) \in Nat
    BY Counted
  <1>2. IsFiniteSet(At(p, s)') /\ Count(p, s)' \in Nat /\ Count(p, s)' <= Count(p, s)
    BY <1>1, FS_Subset, FS_CardinalityType DEF Count
  <1>3. QED
    BY <1>1, <1>2

LEMMA ImportAdds ==
    ASSUME JInv, NEW r \in Requests, Alone(r), Import(r), pc'[r] = "done",
           NEW p, NEW s, s \notin Odd(r)
    PROVE  ~(Count(p, s)' > 1 /\ Count(p, s)' > Count(p, s))
  <1>1. pc[r] = "write" /\ body[r].kind = "import" /\ IsFiniteSet(DOMAIN positions)
    BY DEF Import, JInv
  <1>2. PICK dict \in Dicts(r) : positions' = Written(r, Merged(r, dict))
    BY ImportWrites
  <1> DEFINE plan == Merged(r, dict)
             k == <<s, 0>>
             n == Len(body[r].rows)
  <1>3. Fits(r, dict) /\ body[r].rows \in Seq(Row)
    BY <1>1, DictFits DEF Fits
  <1>4. SymbolOK(r, dict, s, n, plan)
    BY <1>1, <1>3, NotOdd, MergedOK
  <1>5. At(p, s)' = (At(p, s) \ plan.del) \cup IF p = PfOf(r) THEN Inserted(plan, s) ELSE {}
    BY <1>1, <1>2, AtWritten
  <1>6. IF k \in DOMAIN dict THEN dict[k] \in At(PfOf(r), s) ELSE At(PfOf(r), s) = {}
    BY <1>1, DictHas
  <1> HIDE DEF plan, n
  <1>7. CASE p # PfOf(r) \/ Inserted(plan, s) = {}
    BY <1>1, <1>5, <1>7, NotMore
  <1>8. CASE p = PfOf(r) /\ Inserted(plan, s) # {}
    <2>1. Done(r, s, n) # {}
      BY <1>4, <1>8 DEF SymbolOK
    <2>2. CASE k \notin DOMAIN dict
      <3>1. At(p, s)' = {plan.dict[k]}
        BY <1>4, <1>5, <1>6, <1>8, <2>1, <2>2 DEF SymbolOK
      <3>2. Count(p, s)' = 1
        BY <3>1, FS_Singleton DEF Count
      <3>3. QED
        BY <3>2
    <2>3. CASE k \in DOMAIN dict
      <3>1. body[r].merge = "replace"
        BY <1>4, <1>8, <2>1, <2>3 DEF SymbolOK
      <3>2. PICK id : Inserted(plan, s) = {id}
        BY <1>4, <2>1, <2>3, <3>1 DEF SymbolOK
      <3>3. dict[k] \in plan.del /\ dict[k] \in At(p, s)
        BY <1>4, <1>6, <1>8, <2>1, <2>3, <3>1 DEF SymbolOK
      <3> DEFINE rest == At(p, s) \ {dict[k]}
      <3>4. At(p, s)' \subseteq rest \cup {id}
        BY <1>5, <1>8, <3>2, <3>3
      <3>5. IsFiniteSet(At(p, s)) /\ Count(p, s) \in Nat
        BY <1>1, Counted
      <3>6. IsFiniteSet(rest) /\ Cardinality(rest) = Count(p, s) - 1
        BY <3>3, <3>5, FS_RemoveElement DEF Count
      <3> HIDE DEF rest
      <3>7. /\ IsFiniteSet(rest \cup {id}) /\ Cardinality(rest \cup {id}) \in Nat
            /\ Cardinality(rest \cup {id}) <= Cardinality(rest) + 1
        <4>1. Cardinality(rest) \in Nat
          BY <3>6, FS_CardinalityType
        <4>2. /\ IsFiniteSet(rest \cup {id})
              /\ Cardinality(rest \cup {id}) = IF id \in rest THEN Cardinality(rest) ELSE Cardinality(rest) + 1
          BY <3>6, FS_AddElement
        <4>3. QED
          BY <4>1, <4>2
      <3>8. Count(p, s)' \in Nat /\ Count(p, s)' <= Cardinality(rest \cup {id})
        BY <3>4, <3>7, FS_Subset, FS_CardinalityType DEF Count
      <3>9. Count(p, s)' <= Count(p, s)
        BY <3>5, <3>6, <3>7, <3>8
      <3>10. QED
        BY <3>5, <3>8, <3>9
    <2>4. QED
      BY <2>2, <2>3
  <1>9. QED
    BY <1>7, <1>8

LEMMA CreateAdds ==
    ASSUME JInv, NEW r \in Requests, Alone(r), CreatePosition(r), NEW p, NEW s
    PROVE  ~(Count(p, s)' > 1 /\ Count(p, s)' > Count(p, s))
  <1>1. pc[r] = "write" /\ body[r].kind = "create" /\ IsFiniteSet(DOMAIN positions)
    BY DEF CreatePosition, Write, JInv
  <1>2. At(target[r], body[r].sym) = {}
    BY <1>1 DEF JInv, AloneOK, Current, Open, Over
  <1> DEFINE row == [pf |-> target[r], sym |-> body[r].sym, qty |-> body[r].qty]
  <1>3. row.pf = target[r] /\ row.sym = body[r].sym
    OBVIOUS
  <1>4. positions' = positions \/ positions' = With(positions, <<r, 1>>, row)
    BY DEF CreatePosition
  <1> HIDE DEF row
  <1>5. CASE p = target[r] /\ s = body[r].sym
    <2>1. At(p, s)' \subseteq {<<r, 1>>}
      BY <1>2, <1>4, <1>5 DEF At, With
    <2>2. Count(p, s)' \in Nat /\ Count(p, s)' <= 1
      <3>1. IsFiniteSet({<<r, 1>>}) /\ Cardinality({<<r, 1>>}) = 1
        BY FS_Singleton
      <3>2. IsFiniteSet(At(p, s)') /\ Cardinality(At(p, s)') <= 1
        BY <2>1, <3>1, FS_Subset
      <3>3. QED
        BY <3>2, FS_CardinalityType DEF Count
    <2>3. QED
      BY <2>2
  <1>6. CASE ~(p = target[r] /\ s = body[r].sym)
    <2>1. At(p, s)' \subseteq At(p, s)
      BY <1>3, <1>4, <1>6 DEF At, With
    <2>2. QED
      BY <1>1, <2>1, NotMore
  <1>7. QED
    BY <1>5, <1>6

\* The other steps leave the positions, or change a quantity or drop some.
LEMMA OthersAddNone ==
    ASSUME JInv, NEW r \in Requests, Act(r), NEW p, NEW s,
           CreatePosition(r) => pc'[r] # "done",
           Import(r) => pc'[r] # "done"
    PROVE  At(p, s)' \subseteq At(p, s)
  <1>1. pc \in [Requests -> Places]
    BY DEF JInv, IInv, Shapes
  <1>2. CASE positions' = positions
    BY <1>2 DEF At
  <1>3. CASE EditPosition(r)
    <2>1. \A x \in DOMAIN positions :
             positions'[x].pf = positions[x].pf /\ positions'[x].sym = positions[x].sym
      <3>1. TAKE x \in DOMAIN positions
      <3>2. positions[x] \in Position(DOMAIN portfolios, instruments)
        BY DEF JInv, IInv, Stored
      <3>3. positions'[x] = positions[x] \/ \E q : positions'[x] = [positions[x] EXCEPT !.qty = q]
        BY <1>3 DEF EditPosition
      <3>4. QED
        BY <3>2, <3>3 DEF Position
    <2>2. DOMAIN positions' = DOMAIN positions
      BY <1>3 DEF EditPosition
    <2>3. QED
      BY <2>1, <2>2 DEF At
  <1>4. CASE DropPosition(r) \/ DeletePortfolio(r)
    <2>1. positions' = positions \/ \E S : positions' = Without(positions, S)
      BY <1>4 DEF DropPosition, DeletePortfolio
    <2>2. QED
      BY <2>1 DEF At, Without
  <1>5. CASE CreatePosition(r) \/ Import(r)
    <2>1. positions' = positions
      BY <1>1, <1>5 DEF CreatePosition, Import, Write, RollBack, Finish, store, holdings
    <2>2. QED
      BY <1>2, <2>1
  <1>6. CASE \/ \E b \in Bodies : Begin(r, b)
             \/ Abort(r) \/ Resolve(r) \/ Insert(r) \/ InsertFails(r) \/ CommitInstruments(r)
             \/ ReadExisting(r) \/ FindPosition(r)
    <2>1. positions' = positions
      BY <1>6 DEF Begin, Abort, Resolve, Insert, InsertFails, CommitInstruments, ReadExisting, FindPosition,
         RollBack, store, holdings
    <2>2. QED
      BY <1>2, <2>1
  <1>7. CASE \/ CreatePortfolio(r) \/ UpdatePortfolio(r) \/ Refer(r)
             \/ CreateGroup(r) \/ UpdateGroup(r) \/ DeleteGroup(r)
             \/ FindAssignment(r) \/ Assign(r) \/ Unassign(r) \/ SeedReads(r) \/ Seed(r)
    <2>1. positions' = positions
      BY <1>7 DEF CreatePortfolio, UpdatePortfolio, Refer, CreateGroup, UpdateGroup, DeleteGroup,
         FindAssignment, Assign, Unassign, SeedReads, Seed, RollBack, store, holdings
    <2>2. QED
      BY <1>2, <2>1
  <1>8. QED
    BY <1>3, <1>4, <1>5, <1>6, <1>7 DEF Act

LEMMA DuplicateStep ==
    ASSUME JInv, [Next]_vars, NEW p, NEW s, Count(p, s)' > 1, Count(p, s)' > Count(p, s)
    PROVE  \E r \in Requests : Ends(r, "done") /\ (~Alone(r) \/ s \in Odd(r))
  <1>1. IsFiniteSet(DOMAIN positions) /\ pc \in [Requests -> Places]
    BY DEF JInv, IInv, Shapes
  <1>2. CASE UNCHANGED vars
    <2>1. At(p, s)' \subseteq At(p, s)
      BY <1>2 DEF vars, store, holdings, At
    <2>2. QED
      BY <1>1, <2>1, NotMore
  <1>3. CASE Next
    <2>1. PICK r \in Requests : Act(r)
      BY <1>3 DEF Next, Act
    <2>2. ~(At(p, s)' \subseteq At(p, s))
      BY <1>1, NotMore
    <2>3. (CreatePosition(r) \/ Import(r)) /\ pc'[r] = "done"
      BY <2>1, <2>2, OthersAddNone
    <2>4. Ends(r, "done")
      BY <1>1, <2>3 DEF Ends, CreatePosition, Import, Write
    <2>5. ~Alone(r) \/ s \in Odd(r)
      BY <2>3, ImportAdds, CreateAdds
    <2>6. QED
      BY <2>4, <2>5
  <1>4. QED
    BY <1>2, <1>3

\* No request that met no other adds a second position of a symbol to a portfolio,
\* whatever its import repeats, unless it spells the symbol in another way or replaces
\* it twice.
THEOREM DuplicatesHaveReasons == Spec => NoNewDuplicates
  <1>1. JInv /\ [Next]_vars =>
          [\A p \in DOMAIN portfolios', s \in Symbols :
              Count(p, s)' > 1 /\ Count(p, s)' > Count(p, s)
              => \E r \in Requests : Ends(r, "done") /\ (~Alone(r) \/ s \in Odd(r))]_vars
    BY DuplicateStep
  <1>2. QED
    BY <1>1, AloneInvariance, PTL DEF Spec, NoNewDuplicates

-----------------------------------------------------------------------------
LEMMA SaysOne ==
    ASSUME NEW r, NEW s, NEW n, RowsOf(r, s) \subseteq Nat, Done(r, s, n) = RowsOf(r, s),
           NEW q, Says(r, s, n, q)
    PROVE  q = Quantity(r, IF body[r].merge = "skip" THEN FirstOf(RowsOf(r, s)) ELSE LastOf(RowsOf(r, s)))
  <1> DEFINE S == RowsOf(r, s)
  <1>1. PICK j \in S : /\ q = Quantity(r, j)
                       /\ \A h \in S : IF body[r].merge = "skip" THEN j <= h ELSE h <= j
    BY DEF Says
  <1> HIDE DEF S
  <1>2. CASE body[r].merge = "skip"
    <2>1. FirstOf(S) \in S /\ \A h \in S : FirstOf(S) <= h
      BY <1>1, <1>2 DEF FirstOf
    <2>2. FirstOf(S) <= j /\ j <= FirstOf(S) /\ j \in Nat /\ FirstOf(S) \in Nat
      BY <1>1, <1>2, <2>1 DEF S
    <2>3. FirstOf(S) = j
      BY <2>2
    <2>4. QED
      BY <1>1, <1>2, <2>3 DEF S
  <1>3. CASE body[r].merge # "skip"
    <2>1. LastOf(S) \in S /\ \A h \in S : h <= LastOf(S)
      BY <1>1, <1>3 DEF LastOf
    <2>2. LastOf(S) <= j /\ j <= LastOf(S) /\ j \in Nat /\ LastOf(S) \in Nat
      BY <1>1, <1>3, <2>1 DEF S
    <2>3. LastOf(S) = j
      BY <2>2
    <2>4. QED
      BY <1>1, <1>3, <2>3 DEF S
  <1>4. QED
    BY <1>2, <1>3

LEMMA ImportExact ==
    ASSUME JInv, NEW r \in Requests, Alone(r), Import(r), pc'[r] = "done",
           NEW s, s \notin Odd(r), RowsOf(r, s) # {}, Count(PfOf(r), s) <= 1
    PROVE  LET was == {positions[i].qty : i \in At(PfOf(r), s)}
               now == IF body[r].merge # "skip" THEN {Quantity(r, LastOf(RowsOf(r, s)))}
                      ELSE IF was # {} THEN was ELSE {Quantity(r, FirstOf(RowsOf(r, s)))}
           IN \E x : At(PfOf(r), s)' = {x} /\ now = {positions'[x].qty}
  <1>1. pc[r] = "write" /\ body[r].kind = "import" /\ IsFiniteSet(DOMAIN positions)
    BY DEF Import, JInv
  <1>2. PICK dict \in Dicts(r) : positions' = Written(r, Merged(r, dict))
    BY ImportWrites
  <1> DEFINE plan == Merged(r, dict)
             k == <<s, 0>>
             n == Len(body[r].rows)
             p == PfOf(r)
             said == Quantity(r, IF body[r].merge = "skip" THEN FirstOf(RowsOf(r, s)) ELSE LastOf(RowsOf(r, s)))
             was == {positions[i].qty : i \in At(p, s)}
             now == IF body[r].merge # "skip" THEN {Quantity(r, LastOf(RowsOf(r, s)))}
                    ELSE IF was # {} THEN was ELSE {Quantity(r, FirstOf(RowsOf(r, s)))}
  <1>3. Fits(r, dict) /\ body[r].rows \in Seq(Row) /\ body[r].merge \in {"update", "skip", "replace"}
    BY <1>1, DictFits DEF Fits
  <1>4. SymbolOK(r, dict, s, n, plan)
    BY <1>1, <1>3, NotOdd, MergedOK
  <1>5. At(p, s)' = (At(p, s) \ plan.del) \cup Inserted(plan, s)
    <2>1. PfOf(r)' = PfOf(r)
      BY DEF Import, RollBack, Finish, PfOf
    <2>2. At(p, s)' = {i \in DOMAIN positions' : positions'[i].pf = p /\ positions'[i].sym = s}
      BY <2>1 DEF At
    <2>3. \A x : x = p => {i \in DOMAIN positions' : positions'[i].pf = x /\ positions'[i].sym = s}
                            = (At(x, s) \ plan.del) \cup Inserted(plan, s)
      <3>1. SUFFICES ASSUME NEW x, x = p PROVE
               {i \in DOMAIN positions' : positions'[i].pf = x /\ positions'[i].sym = s}
                  = (At(x, s) \ plan.del) \cup Inserted(plan, s)
        OBVIOUS
      <3>2. At(x, s)' = (At(x, s) \ plan.del) \cup Inserted(plan, s)
        BY <1>1, <1>2, <3>1, AtWritten
      <3>3. QED
        BY <3>2 DEF At
    <2>4. QED
      BY <2>2, <2>3
  <1>6. IF k \in DOMAIN dict THEN dict[k] \in At(p, s) ELSE At(p, s) = {}
    BY <1>1, DictHas
  <1>7. Done(r, s, n) = RowsOf(r, s) /\ RowsOf(r, s) \subseteq Nat
    <2>1. DOMAIN body[r].rows = 1..n /\ n \in Nat
      BY <1>3
    <2>2. QED
      BY <2>1 DEF Done, RowsOf
  <1>8. \A q : Says(r, s, n, q) => q = said
    BY <1>7, SaysOne
  <1>9. \A x \in Inserted(plan, s) : positions'[x] = plan.ins[x]
    BY <1>1, <1>2, WritesOwn DEF Inserted
  <1>10. /\ \A x \in DOMAIN positions \ plan.del : x \in DOMAIN plan.set => positions'[x].qty = plan.set[x]
         /\ \A x \in DOMAIN positions \ plan.del : x \notin DOMAIN plan.set => positions'[x] = positions[x]
    <2>1. \A x \in DOMAIN positions \ plan.del :
                 /\ positions'[x].pf = positions[x].pf /\ positions'[x].sym = positions[x].sym
                 /\ x \in DOMAIN plan.set => positions'[x].qty = plan.set[x]
                 /\ x \notin DOMAIN plan.set => positions'[x] = positions[x]
      BY <1>1, <1>2, WritesOwn
    <2> HIDE DEF plan
    <2>2. QED
      BY <2>1
  <1>11. k \in DOMAIN dict => At(p, s) = {dict[k]}
    BY <1>1, <1>6, Counted, OnlyOne DEF Count
  <1> HIDE DEF plan, n, p, said
  <1>12. CASE k \notin DOMAIN dict
    <2>1. Inserted(plan, s) = {plan.dict[k]} /\ Says(r, s, n, plan.ins[plan.dict[k]].qty)
      BY <1>4, <1>7, <1>12 DEF SymbolOK
    <2>2. At(p, s)' = {plan.dict[k]} /\ was = {}
      BY <1>5, <1>6, <1>12, <2>1
    <2>3. positions'[plan.dict[k]].qty = said
      BY <1>8, <1>9, <2>1
    <2>4. now = {said}
      BY <2>2 DEF said
    <2>5. QED
      BY <2>2, <2>3, <2>4 DEF p
  <1>13. CASE k \in DOMAIN dict /\ body[r].merge = "replace"
    <2>1. PICK id : Inserted(plan, s) = {id} /\ Says(r, s, n, plan.ins[id].qty)
      BY <1>4, <1>7, <1>13 DEF SymbolOK
    <2>2. dict[k] \in plan.del
      BY <1>4, <1>7, <1>13 DEF SymbolOK
    <2>3. At(p, s)' = {id}
      BY <1>5, <1>11, <1>13, <2>1, <2>2
    <2>4. positions'[id].qty = said /\ now = {said}
      BY <1>8, <1>9, <1>13, <2>1 DEF said
    <2>5. QED
      BY <2>3, <2>4 DEF p
  <1>14. CASE k \in DOMAIN dict /\ body[r].merge # "replace"
    <2>1. Inserted(plan, s) = {} /\ dict[k] \notin plan.del
      BY <1>4, <1>7, <1>14 DEF SymbolOK
    <2>2. At(p, s)' = {dict[k]} /\ was = {positions[dict[k]].qty}
      BY <1>5, <1>11, <1>14, <2>1
    <2>3. dict[k] \in DOMAIN positions \ plan.del
      BY <1>6, <1>14, <2>1 DEF At
    <2>4. CASE body[r].merge = "skip"
      <3>1. dict[k] \notin DOMAIN plan.set
        BY <1>4, <1>14, <2>4 DEF SymbolOK
      <3>2. now = {positions'[dict[k]].qty}
        BY <1>10, <2>2, <2>3, <2>4, <3>1
      <3>3. QED
        BY <2>2, <3>2 DEF p
    <2>5. CASE body[r].merge = "update"
      <3>1. dict[k] \in DOMAIN plan.set /\ Says(r, s, n, plan.set[dict[k]])
        BY <1>4, <1>7, <1>14, <2>5 DEF SymbolOK
      <3>2. positions'[dict[k]].qty = said /\ now = {said}
        BY <1>8, <1>10, <2>3, <2>5, <3>1 DEF said
      <3>3. QED
        BY <2>2, <3>2 DEF p
    <2>6. QED
      BY <1>3, <1>14, <2>4, <2>5
  <1>15. QED
    BY <1>12, <1>13, <1>14

\* The positions of other symbols and portfolios.
LEMMA ImportLeaves ==
    ASSUME JInv, NEW r \in Requests, Alone(r), Import(r), pc'[r] = "done",
           NEW i \in DOMAIN positions \cup DOMAIN positions'
    PROVE  \/ i \in DOMAIN positions \cap DOMAIN positions' /\ positions[i] = positions'[i]
           \/ LET p == Onto(positions', positions)[i] IN p.pf = PfOf(r) /\ RowsOf(r, p.sym) # {}
  <1>1. pc[r] = "write" /\ body[r].kind = "import"
    BY DEF Import
  <1>2. PICK dict \in Dicts(r) : positions' = Written(r, Merged(r, dict))
    BY ImportWrites
  <1> DEFINE plan == Merged(r, dict)
  <1>3. /\ \A x \in DOMAIN plan.ins :
              /\ positions'[x] = plan.ins[x] /\ plan.ins[x].pf = PfOf(r)
              /\ RowsOf(r, plan.ins[x].sym) # {}
        /\ DOMAIN positions' = (DOMAIN positions \ plan.del) \cup DOMAIN plan.ins
        /\ \A x \in DOMAIN positions \ plan.del : x \notin DOMAIN plan.set => positions'[x] = positions[x]
        /\ \A x \in DOMAIN positions : x \in plan.del \cup DOMAIN plan.set =>
              positions[x].pf = PfOf(r) /\ RowsOf(r, positions[x].sym) # {}
    BY <1>1, <1>2, WritesOwn
  <1>4. /\ i \in DOMAIN positions => Onto(positions', positions)[i] = positions[i]
        /\ i \notin DOMAIN positions => Onto(positions', positions)[i] = positions'[i]
    BY DEF Onto
  <1> HIDE DEF plan
  <1>5. QED
    BY <1>3, <1>4

LEMMA ImportsEnd ==
    ASSUME JInv, NEW r \in Requests, Act(r), Ends(r, "done"), body[r].kind = "import"
    PROVE  Import(r)
  <1>1. pc \in [Requests -> Places] /\ pc'[r] = "done" /\ pc[r] # "done"
    BY DEF JInv, IInv, Shapes, Ends
  <1>2. \A b \in Bodies : ~Begin(r, b)
    BY <1>1 DEF Begin, FirstStep
  <1>3. ~Abort(r) /\ ~Resolve(r) /\ ~Insert(r) /\ ~InsertFails(r) /\ ~CommitInstruments(r) /\ ~ReadExisting(r)
    BY <1>1 DEF Abort, Resolve, Insert, InsertFails, CommitInstruments, ReadExisting, RollBack, Finish
  <1>4. ~FindPosition(r) /\ ~CreatePosition(r) /\ ~EditPosition(r) /\ ~DropPosition(r)
    BY DEF FindPosition, CreatePosition, EditPosition, DropPosition, Write
  <1>5. ~CreatePortfolio(r) /\ ~UpdatePortfolio(r) /\ ~DeletePortfolio(r) /\ ~Refer(r)
    BY DEF CreatePortfolio, UpdatePortfolio, DeletePortfolio, Refer, Write
  <1>6. ~CreateGroup(r) /\ ~UpdateGroup(r) /\ ~DeleteGroup(r) /\ ~FindAssignment(r)
    BY DEF CreateGroup, UpdateGroup, DeleteGroup, FindAssignment, Write
  <1>7. ~Assign(r) /\ ~Unassign(r) /\ ~SeedReads(r) /\ ~Seed(r)
    BY DEF Assign, Unassign, SeedReads, Seed, Write
  <1>8. QED
    BY <1>2, <1>3, <1>4, <1>5, <1>6, <1>7 DEF Act

LEMMA ExactStep ==
    ASSUME JInv, [Next]_vars, NEW r \in Requests, Ends(r, "done"), body[r].kind = "import", Alone(r)
    PROVE  /\ \A s \in Symbols \ Odd(r) :
                 RowsOf(r, s) # {} /\ Count(PfOf(r), s) <= 1 =>
                 LET rows == body[r].rows
                     was == {positions[i].qty : i \in At(PfOf(r), s)}
                     now == IF body[r].merge # "skip" THEN {rows[LastOf(RowsOf(r, s))].qty}
                            ELSE IF was # {} THEN was ELSE {rows[FirstOf(RowsOf(r, s))].qty}
                 IN Count(PfOf(r), s)' = 1 /\ {positions'[i].qty : i \in At(PfOf(r), s)'} = now
           /\ \A i \in DOMAIN positions \cup DOMAIN positions' :
                 \/ i \in DOMAIN positions \cap DOMAIN positions' /\ positions[i] = positions'[i]
                 \/ LET p == Onto(positions', positions)[i] IN p.pf = PfOf(r) /\ RowsOf(r, p.sym) # {}
  <1>1. Next
    BY DEF vars, local, Ends
  <1>2. Import(r) /\ pc'[r] = "done"
    BY <1>1, EndsItself, ImportsEnd DEF Ends
  <1>3. ASSUME NEW s \in Symbols \ Odd(r), RowsOf(r, s) # {}, Count(PfOf(r), s) <= 1
        PROVE  LET rows == body[r].rows
                   was == {positions[i].qty : i \in At(PfOf(r), s)}
                   now == IF body[r].merge # "skip" THEN {rows[LastOf(RowsOf(r, s))].qty}
                          ELSE IF was # {} THEN was ELSE {rows[FirstOf(RowsOf(r, s))].qty}
               IN Count(PfOf(r), s)' = 1 /\ {positions'[i].qty : i \in At(PfOf(r), s)'} = now
    <2> DEFINE was == {positions[i].qty : i \in At(PfOf(r), s)}
               now == IF body[r].merge # "skip" THEN {Quantity(r, LastOf(RowsOf(r, s)))}
                      ELSE IF was # {} THEN was ELSE {Quantity(r, FirstOf(RowsOf(r, s)))}
    <2>1. PICK x : At(PfOf(r), s)' = {x} /\ now = {positions'[x].qty}
      BY <1>2, <1>3, ImportExact
    <2>2. Count(PfOf(r), s)' = 1
      BY <2>1, FS_Singleton DEF Count
    <2>3. {positions'[i].qty : i \in At(PfOf(r), s)'} = now
      BY <2>1
    <2>4. QED
      BY <2>2, <2>3 DEF Quantity
  <1>4. QED
    BY <1>2, <1>3, ImportLeaves

\* An import that met no other request leaves one position for each symbol it names,
\* with the quantity its rows say, and every other position as it was.
THEOREM LoneImportsAreExact == Spec => LoneImportExact
  <1>1. JInv /\ [Next]_vars =>
          [\A r \in Requests :
              Ends(r, "done") /\ body[r].kind = "import" /\ Alone(r) =>
              /\ \A s \in Symbols \ Odd(r) :
                    RowsOf(r, s) # {} /\ Count(PfOf(r), s) <= 1 =>
                    LET rows == body[r].rows
                        was == {positions[i].qty : i \in At(PfOf(r), s)}
                        now == IF body[r].merge # "skip" THEN {rows[LastOf(RowsOf(r, s))].qty}
                               ELSE IF was # {} THEN was ELSE {rows[FirstOf(RowsOf(r, s))].qty}
                    IN Count(PfOf(r), s)' = 1 /\ {positions'[i].qty : i \in At(PfOf(r), s)'} = now
              /\ \A i \in DOMAIN positions \cup DOMAIN positions' :
                    \/ i \in DOMAIN positions \cap DOMAIN positions' /\ positions[i] = positions'[i]
                    \/ LET p == Onto(positions', positions)[i] IN p.pf = PfOf(r) /\ RowsOf(r, p.sym) # {}]_vars
    BY ExactStep
  <1>2. QED
    BY <1>1, AloneInvariance, PTL DEF Spec, LoneImportExact
=============================================================================
