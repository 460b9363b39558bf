------------------------------ MODULE Holdings ------------------------------
(***************************************************************************)
(* One user's portfolios, positions and holding groups, and the shared     *)
(* instruments: api/portfolios.py, positions.py, instruments.py,           *)
(* imports.py and groups.py.  Requests run concurrently, each in one READ  *)
(* COMMITTED transaction, committed at its end.  Nothing in the schema     *)
(* keeps two positions of a portfolio from naming the same instrument.     *)
(*                                                                         *)
(* A request goes through reading steps, one per await that matters, and   *)
(* one writing step: its flushes and its commit, between which it reads    *)
(* nothing.  A symbol as the client spells it is a pair of the symbol and  *)
(* a spelling, 0 for the stripped and upper-cased one.                     *)
(***************************************************************************)
EXTENDS Integers, Sequences, FiniteSets, SequencesExt

CONSTANTS
    Requests,     \* request handlers; each serves one request
    Bodies,       \* what a request can ask for
    Listed,       \* symbols the market data provider knows
    Sector,       \* Sector[s]: the name of its sector, or "Unclassified"
    Instruments,  \* the stored instruments at the start
    Portfolios,   \* the portfolios at the start: id -> [name, kind]
    Positions,    \* the positions at the start: id -> [pf, sym, qty]
    None

VARIABLES
    instruments, portfolios, positions,
    referred,     \* portfolios that a thread, a report or a signal refers to
    groups,       \* id -> name
    assigned,     \* symbol -> [id, group]: the group_assignments rows
    pc,
    body,
    target,       \* target[r]: the portfolio, position or group its path names
    before,       \* before[r]: the requests that were over when r began (history)
    seen,         \* seen[r]: the positions or the assignment it has loaded
    view,         \* view[r]: what a seed has read, [held, groups]
    todo,         \* todo[r]: spellings to resolve
    pending       \* pending[r]: instruments flushed and not committed

local == <<pc, body, target, before, seen, view, todo, pending>>
Nothing == [held |-> {}, groups |-> << >>]
holdings == <<instruments, portfolios, positions, referred>>
grouping == <<groups, assigned>>
store == <<holdings, grouping>>
vars == <<store, local>>

Symbols == DOMAIN Sector
Position(ids, syms) == [pf : ids, sym : syms, qty : Nat]
Row == [text : Symbols \X Nat, qty : Nat]
Names == {Sector[s] : s \in Symbols} \cup {b.name : b \in {b \in Bodies : b.kind = "group"}}

ASSUME HoldingsOK ==
    /\ Instruments \subseteq Symbols /\ Listed \subseteq Symbols
    /\ \A i \in DOMAIN Positions : Positions[i] \in Position(DOMAIN Portfolios, Instruments)
    /\ \A b \in Bodies :
          /\ b.kind \in {"import", "preview"} => b.rows \in Seq(Row)
          /\ b.kind = "import" => b.merge \in {"update", "skip", "replace"}
          /\ b.kind = "lookup" => b.sym \in Symbols
          /\ b.kind \in {"create", "edit"} => b.qty \in Nat
    /\ None \notin Bodies \cup Requests \cup (Requests \X Names)
    /\ None \notin DOMAIN Portfolios \cup DOMAIN Positions
    /\ IsFiniteSet(DOMAIN Positions)
    \* A new id is not in use.
    /\ DOMAIN Portfolios \cap Requests = {} /\ DOMAIN Positions \cap (Requests \X Nat) = {}

-----------------------------------------------------------------------------
Over == {"done", "refused", "failed", "aborted"}
Open(r) == pc[r] \notin {"idle"} \cup Over
Met(r, q) == r # q /\ pc[r] # "idle" /\ pc[q] # "idle" /\ r \notin before[q] /\ q \notin before[r]
Alone(r) == \A q \in Requests : ~Met(r, q)

At(p, s) == {i \in DOMAIN positions : positions[i].pf = p /\ positions[i].sym = s}
Only(f, S) == [x \in DOMAIN f \cap S |-> f[x]]
Without(f, S) == [x \in DOMAIN f \ S |-> f[x]]
With(f, k, v) == [x \in DOMAIN f \cup {k} |-> IF x = k THEN v ELSE f[x]]
Onto(f, g) == [x \in DOMAIN f \cup DOMAIN g |-> IF x \in DOMAIN g THEN g[x] ELSE f[x]]

\* user_held_instruments: watchlists do not count.
Held == {positions[i].sym : i \in {i \in DOMAIN positions : portfolios[positions[i].pf].kind = "real"}}

Init ==
    /\ instruments = Instruments /\ portfolios = Portfolios /\ positions = Positions
    /\ referred = {} /\ groups = << >> /\ assigned = << >>
    /\ pc = [r \in Requests |-> "idle"]
    /\ body = [r \in Requests |-> None]
    /\ target = [r \in Requests |-> None]
    /\ before = [r \in Requests |-> {}]
    /\ seen = [r \in Requests |-> << >>]
    /\ view = [r \in Requests |-> Nothing]
    /\ todo = [r \in Requests |-> << >>]
    /\ pending = [r \in Requests |-> {}]

OnPosition == {"edit", "drop"}
OnGroup == {"rename", "remove_group", "assign"}
OnPortfolio == {"create", "patch", "close", "refer"}

\* What the path can name: a row that exists and is the user's (any other is a 404).
Targets(b) ==
    CASE b.kind \in OnPosition -> DOMAIN positions
      [] b.kind \in OnGroup -> DOMAIN groups
      [] b.kind \in OnPortfolio \/ (b.kind = "import" /\ b.new = None) -> DOMAIN portfolios
      [] OTHER -> {None}

FirstStep(b) ==
    CASE b.kind \in {"import", "preview", "lookup"} -> "resolve"
      [] b.kind \in {"create", "assign", "unassign", "seed"} -> "read"
      [] OTHER -> "write"

\* The ownership checks load the row; a portfolio comes with its positions.
Begin(r, b) ==
    /\ pc[r] = "idle"
    /\ \E t \in Targets(b) :
          /\ target' = [target EXCEPT ![r] = t]
          /\ seen' = [seen EXCEPT ![r] =
                Only(positions, {i \in DOMAIN positions : i = t \/ positions[i].pf = t})]
    /\ body' = [body EXCEPT ![r] = b]
    /\ before' = [before EXCEPT ![r] = {q \in Requests : pc[q] \in Over}]
    /\ todo' = [todo EXCEPT ![r] =
          CASE b.kind \in {"import", "preview"} -> [i \in DOMAIN b.rows |-> b.rows[i].text[1]]
            [] b.kind = "lookup" -> <<b.sym>>
            [] OTHER -> << >>]
    /\ pc' = [pc EXCEPT ![r] = FirstStep(b)]
    /\ UNCHANGED <<store, view, pending>>

\* The end of a request: the session closes.
Finish(r, how) ==
    /\ pc' = [pc EXCEPT ![r] = how]
    /\ seen' = [seen EXCEPT ![r] = << >>]
    /\ view' = [view EXCEPT ![r] = Nothing]
    /\ todo' = [todo EXCEPT ![r] = << >>]
    /\ pending' = [pending EXCEPT ![r] = {}]
    /\ UNCHANGED <<body, target, before>>

RollBack(r, how) == Finish(r, how) /\ UNCHANGED store

\* A lost client or an error of the provider or the network.
Abort(r) == Open(r) /\ pending[r] # {} /\ RollBack(r, "aborted")

-----------------------------------------------------------------------------
\* Instruments: lookup, preview and the first loop of commit.

\* Variant that must break FailuresExplained: the SELECT misses what is flushed.
ResolveStored(r) ==
    /\ pc[r] = "resolve" /\ todo[r] # << >>
    /\ IF Head(todo[r]) \in instruments
         THEN todo' = [todo EXCEPT ![r] = Tail(@)] /\ UNCHANGED pc
         ELSE pc' = [pc EXCEPT ![r] = "insert"] /\ UNCHANGED todo
    /\ UNCHANGED <<store, body, target, before, seen, view, pending>>

\* A stored instrument, or one this request has flushed, needs nothing.  Of the
\* others the provider is asked: commit refuses one it does not know, and lookup;
\* preview reports it.
Resolve(r) ==
    LET s == Head(todo[r]) IN
    /\ pc[r] = "resolve" /\ todo[r] # << >>
    /\ \/ /\ \/ s \in instruments \cup pending[r]
             \/ s \notin Listed /\ body[r].kind = "preview"
          /\ todo' = [todo EXCEPT ![r] = Tail(@)]
          /\ UNCHANGED <<store, pc, body, target, before, seen, view, pending>>
       \/ /\ s \notin instruments \cup pending[r] /\ s \in Listed
          /\ pc' = [pc EXCEPT ![r] = "insert"]
          /\ UNCHANGED <<store, body, target, before, seen, view, todo, pending>>
       \/ /\ s \notin instruments \cup Listed /\ body[r].kind # "preview"
          /\ RollBack(r, "refused")

WaitsFor(r, q) == q # r /\ pc[r] = "insert" /\ Open(q) /\ Head(todo[r]) \in pending[q]
Waits(r) == \E q \in Requests : WaitsFor(r, q)
Deadlocked(r) == \E S \in SUBSET Requests : r \in S /\ \A p \in S : \E q \in S : WaitsFor(p, q)
Taken(r) == Head(todo[r]) \in instruments \cup pending[r]

\* The INSERT waits for another of the same symbol, and fails when that commits.
Insert(r) ==
    /\ pc[r] = "insert" /\ ~Waits(r) /\ ~Taken(r)
    /\ pending' = [pending EXCEPT ![r] = @ \cup {Head(todo[r])}]
    /\ todo' = [todo EXCEPT ![r] = Tail(@)]
    /\ pc' = [pc EXCEPT ![r] = "resolve"]
    /\ UNCHANGED <<store, body, target, before, view, seen>>

InsertFails(r) ==
    /\ pc[r] = "insert"
    /\ (~Waits(r) /\ Taken(r)) \/ Deadlocked(r)
    /\ RollBack(r, "failed")

CommitInstruments(r) ==
    /\ pc[r] = "resolve" /\ todo[r] = << >> /\ body[r].kind # "import"
    /\ instruments' = instruments \cup pending[r]
    /\ Finish(r, "done")
    /\ UNCHANGED <<portfolios, positions, referred, groups, assigned>>

-----------------------------------------------------------------------------
\* POST /imports/commit.

PfOf(r) == IF body[r].new # None THEN r ELSE target[r]

\* Variant that must break LoneImportExact: the positions of every portfolio.
ReadEverywhere(r) ==
    /\ pc[r] = "resolve" /\ todo[r] = << >> /\ body[r].kind = "import"
    /\ seen' = [seen EXCEPT ![r] = positions]
    /\ pc' = [pc EXCEPT ![r] = "write"]
    /\ UNCHANGED <<store, body, target, before, view, todo, pending>>

\* The portfolio's positions; those the session has loaded keep their values.
ReadExisting(r) ==
    /\ pc[r] = "resolve" /\ todo[r] = << >> /\ body[r].kind = "import"
    /\ LET found == {i \in DOMAIN positions : positions[i].pf = PfOf(r)} IN
       seen' = [seen EXCEPT ![r] = Only(Onto(positions, @), found)]
    /\ pc' = [pc EXCEPT ![r] = "write"]
    /\ UNCHANGED <<store, body, target, before, view, todo, pending>>

\* The dict of existing positions, by the symbol of the instrument: of two that
\* share one, either.
Dicts(r) ==
    LET syms == {seen[r][i].sym : i \in DOMAIN seen[r]} IN
    {d \in [syms \X {0} -> DOMAIN seen[r]] : \A s \in syms : seen[r][d[<<s, 0>>]].sym = s}

\* Variant that must break NoNewDuplicates: a new row is not put in the dict.
MergeForgetful(r, plan, i) ==
    LET w == body[r].rows[i]
        row == [pf |-> PfOf(r), sym |-> w.text[1], qty |-> w.qty]
    IN IF w.text \in DOMAIN plan.dict THEN [plan EXCEPT !.set = With(@, plan.dict[w.text], w.qty)]
       ELSE [plan EXCEPT !.ins = With(@, <<r, i>>, row)]

\* The loop keeps the dict, the rows to insert (new: those not yet flushed), the
\* quantities to set and the rows to delete.  replace does not put its new row in
\* the dict, and cannot delete a row that is not flushed.
MergeRow(r, plan, i) ==
    LET w == body[r].rows[i]
        id == <<r, i>>
        row == [pf |-> PfOf(r), sym |-> w.text[1], qty |-> w.qty]
        old == plan.dict[w.text]
    IN CASE w.text \notin DOMAIN plan.dict ->
              [plan EXCEPT !.dict = With(@, w.text, id), !.ins = With(@, id, row), !.new = @ \cup {id}]
         [] w.text \in DOMAIN plan.dict /\ body[r].merge = "skip" -> plan
         [] w.text \in DOMAIN plan.dict /\ body[r].merge = "update" ->
              IF old \in DOMAIN plan.ins THEN [plan EXCEPT !.ins[old].qty = w.qty]
              ELSE [plan EXCEPT !.set = With(@, old, w.qty)]
         [] OTHER ->
              [plan EXCEPT !.bad = @ \/ old \in plan.new, !.del = @ \cup {old}, !.new = {id},
                           !.ins = With(Without(@, {old}), id, row)]

Unmerged(dict) ==
    [dict |-> dict, ins |-> << >>, new |-> {}, set |-> << >>, del |-> {}, bad |-> FALSE]

Merged(r, dict) ==
    LET plan[i \in 0..Len(body[r].rows)] ==
          IF i = 0 THEN Unmerged(dict) ELSE MergeRow(r, plan[i - 1], i)
    IN plan[Len(body[r].rows)]

\* An UPDATE is sent for a value that differs from the loaded one.
Updates(r, plan) == {i \in DOMAIN plan.set \ plan.del : plan.set[i] # seen[r][i].qty}

\* UPDATEs of rows that are gone and INSERTs into a portfolio that is gone fail.
Rejected(r, plan) ==
    \/ plan.bad
    \/ ~(Updates(r, plan) \subseteq DOMAIN positions)
    \/ DOMAIN plan.ins # {} /\ body[r].new = None /\ target[r] \notin DOMAIN portfolios

Import(r) ==
    /\ pc[r] = "write" /\ body[r].kind = "import"
    /\ \E dict \in Dicts(r) :
       LET plan == Merged(r, dict) IN
       \/ Rejected(r, plan) /\ RollBack(r, "failed")
       \/ /\ ~Rejected(r, plan)
          /\ instruments' = instruments \cup pending[r]
          /\ portfolios' = IF body[r].new = None THEN portfolios ELSE With(portfolios, r, body[r].new)
          /\ positions' = Onto([i \in DOMAIN positions \ plan.del |->
                   IF i \in Updates(r, plan) THEN [positions[i] EXCEPT !.qty = plan.set[i]] ELSE positions[i]],
                plan.ins)
          /\ Finish(r, "done")
          /\ UNCHANGED <<referred, groups, assigned>>

-----------------------------------------------------------------------------
\* Portfolios and positions.

\* create_position: two positions of the symbol are one too many for its SELECT.
FindPosition(r) ==
    LET found == At(target[r], body[r].sym) IN
    /\ pc[r] = "read" /\ body[r].kind = "create"
    /\ \/ body[r].sym \notin instruments /\ RollBack(r, "refused")
       \/ body[r].sym \in instruments /\ Cardinality(found) = 1 /\ RollBack(r, "refused")
       \/ Cardinality(found) > 1 /\ RollBack(r, "failed")
       \/ /\ body[r].sym \in instruments /\ found = {}
          /\ pc' = [pc EXCEPT ![r] = "write"]
          /\ UNCHANGED <<store, body, target, before, seen, view, todo, pending>>

\* The writing step of the other requests, which fails if a row it needs is gone.
Write(r, kind, fits) ==
    pc[r] = "write" /\ body[r].kind = kind /\ Finish(r, IF fits THEN "done" ELSE "failed")

CreatePosition(r) ==
    LET fits == target[r] \in DOMAIN portfolios
        row == [pf |-> target[r], sym |-> body[r].sym, qty |-> body[r].qty]
    IN
    /\ Write(r, "create", fits)
    /\ positions' = IF fits THEN With(positions, <<r, 1>>, row) ELSE positions
    /\ UNCHANGED <<instruments, portfolios, referred, grouping>>

EditPosition(r) ==
    LET i == target[r] IN
    /\ Write(r, "edit", i \in DOMAIN positions)
    /\ positions' = IF i \in DOMAIN positions /\ seen[r][i].qty # body[r].qty
                      THEN [positions EXCEPT ![i].qty = body[r].qty] ELSE positions
    /\ UNCHANGED <<instruments, portfolios, referred, grouping>>

\* A DELETE that finds no row is only warned about.
DropPosition(r) ==
    /\ Write(r, "drop", TRUE)
    /\ positions' = Without(positions, {target[r]})
    /\ UNCHANGED <<instruments, portfolios, referred, grouping>>

CreatePortfolio(r) ==
    /\ Write(r, "open", TRUE)
    /\ portfolios' = With(portfolios, r, body[r].new)
    /\ UNCHANGED <<instruments, positions, referred, grouping>>

UpdatePortfolio(r) ==
    LET fits == target[r] \in DOMAIN portfolios IN
    /\ Write(r, "patch", fits)
    /\ portfolios' = IF fits THEN [portfolios EXCEPT ![target[r]].name = body[r].name] ELSE portfolios
    /\ UNCHANGED <<instruments, positions, referred, grouping>>

\* Deletes the positions that came with the portfolio, then the portfolio: other
\* positions, threads, reports and signals hold it.
DeletePortfolio(r) ==
    LET rest == {i \in DOMAIN positions \ DOMAIN seen[r] : positions[i].pf = target[r]}
        fits == rest = {} /\ target[r] \notin referred
    IN
    /\ Write(r, "close", fits)
    /\ positions' = IF fits THEN Without(positions, DOMAIN seen[r]) ELSE positions
    /\ portfolios' = IF fits THEN Without(portfolios, {target[r]}) ELSE portfolios
    /\ UNCHANGED <<instruments, referred, grouping>>

\* A chat thread, a report or an analysis about one portfolio.
Refer(r) ==
    LET fits == target[r] \in DOMAIN portfolios IN
    /\ Write(r, "refer", fits)
    /\ referred' = referred \cup {p \in {target[r]} : fits}
    /\ UNCHANGED <<instruments, portfolios, positions, grouping>>

-----------------------------------------------------------------------------
\* Holding groups.  A name that is taken is a 409.

Taking(r) == {groups[g] : g \in DOMAIN groups \ {target[r]}}

CreateGroup(r) ==
    /\ pc[r] = "write" /\ body[r].kind = "group"
    /\ LET fits == body[r].name \notin Taking(r) IN
       /\ Finish(r, IF fits THEN "done" ELSE "refused")
       /\ groups' = IF fits THEN With(groups, <<r, body[r].name>>, body[r].name) ELSE groups
    /\ UNCHANGED <<holdings, assigned>>

UpdateGroup(r) ==
    /\ pc[r] = "write" /\ body[r].kind = "rename"
    /\ \/ /\ target[r] \in DOMAIN groups /\ body[r].name \notin Taking(r)
          /\ groups' = [groups EXCEPT ![target[r]] = body[r].name]
          /\ Finish(r, "done")
          /\ UNCHANGED <<holdings, assigned>>
       \/ target[r] \in DOMAIN groups /\ body[r].name \in Taking(r) /\ RollBack(r, "refused")
       \/ target[r] \notin DOMAIN groups /\ RollBack(r, "failed")

\* Variant that must break TypeOK: the foreign key does not cascade.
DeleteGroupOnly(r) ==
    /\ Write(r, "remove_group", TRUE)
    /\ groups' = Without(groups, {target[r]})
    /\ UNCHANGED <<holdings, assigned>>

\* The assignments go with their group.
DeleteGroup(r) ==
    /\ Write(r, "remove_group", TRUE)
    /\ groups' = Without(groups, {target[r]})
    /\ assigned' = Without(assigned, {s \in DOMAIN assigned : assigned[s].group = target[r]})
    /\ UNCHANGED holdings

\* assign: the symbol must be held, and the group still be there.
FindAssignment(r) ==
    LET s == body[r].sym IN
    /\ Open(r) /\ body[r].kind \in {"assign", "unassign"}
    /\ \/ /\ pc[r] = "read" /\ s \in Held
          /\ pc' = [pc EXCEPT ![r] = "assignment"]
          /\ UNCHANGED <<store, body, target, before, seen, view, todo, pending>>
       \/ pc[r] = "read" /\ s \notin Held /\ RollBack(r, "refused")
       \/ /\ pc[r] = "assignment" /\ target[r] \in DOMAIN groups \cup {None}
          /\ seen' = [seen EXCEPT ![r] = Only(assigned, {s})]
          /\ pc' = [pc EXCEPT ![r] = "write"]
          /\ UNCHANGED <<store, body, target, before, view, todo, pending>>
       \/ /\ pc[r] = "assignment" /\ target[r] \notin DOMAIN groups \cup {None}
          /\ RollBack(r, "refused")

\* The assignment read is changed or deleted by its id; without one it is added,
\* if there still is none.  The group must still be there.
Assign(r) ==
    LET s == body[r].sym
        same == s \in DOMAIN seen[r] /\ seen[r][s].group = target[r]
        there == s \in DOMAIN assigned
        fits == \/ same
                \/ /\ target[r] \in DOMAIN groups
                   /\ IF s \in DOMAIN seen[r] THEN there /\ assigned[s].id = seen[r][s].id ELSE ~there
    IN
    /\ Write(r, "assign", fits)
    /\ assigned' = IF same \/ ~fits THEN assigned
          ELSE With(assigned, s, [id |-> IF there THEN assigned[s].id ELSE r, group |-> target[r]])
    /\ UNCHANGED <<holdings, groups>>

Unassign(r) ==
    /\ Write(r, "unassign", TRUE)
    /\ assigned' = Without(assigned,
          {s \in DOMAIN assigned \cap DOMAIN seen[r] : assigned[s].id = seen[r][s].id})
    /\ UNCHANGED <<holdings, groups>>

\* seed-from-sectors reads what is held, then the groups, then what is assigned.
SeedReads(r) ==
    /\ Open(r) /\ body[r].kind = "seed"
    /\ \/ /\ pc[r] = "read"
          /\ view' = [view EXCEPT ![r] = [held |-> Held, groups |-> << >>]]
          /\ pc' = [pc EXCEPT ![r] = "groups"]
       \/ /\ pc[r] = "groups"
          /\ view' = [view EXCEPT ![r].groups = groups]
          /\ pc' = [pc EXCEPT ![r] = "assigned"]
       \/ /\ pc[r] = "assigned"
          /\ view' = [view EXCEPT ![r].held = @ \ DOMAIN assigned]
          /\ pc' = [pc EXCEPT ![r] = "write"]
    /\ UNCHANGED <<store, body, target, before, seen, todo, pending>>

\* The group of that name, or a new one; a group added, an assignment added or a
\* group removed meanwhile makes the whole of it fail.
Seed(r) ==
    LET known == view[r].groups
        GroupOf(s) ==
            IF \E g \in DOMAIN known : known[g] = Sector[s]
              THEN CHOOSE g \in DOMAIN known : known[g] = Sector[s] ELSE <<r, Sector[s]>>
        added == {GroupOf(s) : s \in view[r].held} \ DOMAIN known
        fits == /\ \A s \in view[r].held : s \notin DOMAIN assigned /\ GroupOf(s) \in DOMAIN groups \cup added
                /\ \A g \in added : g[2] \notin Taking(r)
    IN
    /\ Write(r, "seed", fits)
    /\ groups' = IF fits THEN Onto(groups, [g \in added |-> g[2]]) ELSE groups
    /\ assigned' = IF fits THEN Onto(assigned, [s \in view[r].held |-> [id |-> r, group |-> GroupOf(s)]])
                   ELSE assigned
    /\ UNCHANGED holdings

-----------------------------------------------------------------------------
Next ==
    \E r \in Requests :
       \/ \E b \in Bodies : Begin(r, b)
       \/ Abort(r)
       \/ Resolve(r) \/ Insert(r) \/ InsertFails(r) \/ CommitInstruments(r)
       \/ ReadExisting(r) \/ Import(r)
       \/ FindPosition(r) \/ CreatePosition(r) \/ EditPosition(r) \/ DropPosition(r)
       \/ CreatePortfolio(r) \/ UpdatePortfolio(r) \/ DeletePortfolio(r) \/ Refer(r)
       \/ CreateGroup(r) \/ UpdateGroup(r) \/ DeleteGroup(r)
       \/ FindAssignment(r) \/ Assign(r) \/ Unassign(r)
       \/ SeedReads(r) \/ Seed(r)

Spec == Init /\ [][Next]_vars

-----------------------------------------------------------------------------
(***************************************************************************)
(* Properties                                                              *)
(***************************************************************************)

\* Every reference between stored rows leads to a row, groups have distinct names,
\* and no two requests have flushed the same instrument.
TypeOK ==
    /\ instruments \subseteq Symbols
    /\ \A i \in DOMAIN positions :
          /\ positions[i].pf \in DOMAIN portfolios /\ positions[i].sym \in instruments
          /\ positions[i].qty \in Nat
    /\ referred \subseteq DOMAIN portfolios
    /\ \A g, h \in DOMAIN groups : groups[g] = groups[h] => g = h
    /\ \A s \in DOMAIN assigned : s \in instruments /\ assigned[s].group \in DOMAIN groups
    /\ \A r, q \in Requests : r = q \/ pending[r] \cap pending[q] = {}

Ends(r, how) == pc[r] # how /\ pc'[r] = how
Count(p, s) == Cardinality(At(p, s))

\* The symbols of an import that a client can get twice into a portfolio without
\* any other request: one spelled in another way than the instrument is, and one
\* that a replacing import repeats.
Odd(r) ==
    LET rows == body[r].rows
        raw == {i \in DOMAIN rows : rows[i].text[2] # 0}
        again == {i \in DOMAIN rows :
                    body[r].merge = "replace" /\ \E j \in 1..(i - 1) : rows[j].text = rows[i].text}
    IN IF body[r].kind = "import" THEN {rows[i].text[1] : i \in raw \cup again} ELSE {}

\* No request adds a second position of a symbol to a portfolio ("already in this
\* portfolio - edit the existing position"), whatever its import repeats, unless
\* it met another request or the symbol is one of Odd.
NoNewDuplicates ==
    [][\A p \in DOMAIN portfolios', s \in Symbols :
          Count(p, s)' > 1 /\ Count(p, s)' > Count(p, s)
          => \E r \in Requests : Ends(r, "done") /\ (~Alone(r) \/ s \in Odd(r))]_vars

RowsOf(r, s) == {i \in DOMAIN body[r].rows : body[r].rows[i].text[1] = s}
FirstOf(S) == CHOOSE i \in S : \A j \in S : i <= j
LastOf(S) == CHOOSE i \in S : \A j \in S : j <= i

\* An import that met no other request leaves one position for each symbol it
\* names: as it was, or its first row, where it skips; its last row otherwise.
\* Positions of other symbols and portfolios are as they were.
LoneImportExact ==
    [][\A r \in Requests :
          Ends(r, "done") /\ body[r].kind = "import" /\ Alone(r) =>
          /\ \A s \in Symbols \ Odd(r) :
                RowsOf(r, s) # {} /\ Count(PfOf(r), s) <= 1 =>
                LET rows == body[r].rows
                    was == {positions[i].qty : i \in At(PfOf(r), s)}
                    now == IF body[r].merge # "skip" THEN {rows[LastOf(RowsOf(r, s))].qty}
                           ELSE IF was # {} THEN was ELSE {rows[FirstOf(RowsOf(r, s))].qty}
                IN Count(PfOf(r), s)' = 1 /\ {positions'[i].qty : i \in At(PfOf(r), s)'} = now
          /\ \A i \in DOMAIN positions \cup DOMAIN positions' :
                \/ i \in DOMAIN positions \cap DOMAIN positions' /\ positions[i] = positions'[i]
                \/ LET p == Onto(positions', positions)[i] IN p.pf = PfOf(r) /\ RowsOf(r, p.sym) # {}]_vars

\* A request ends in a server error only when it met another request, replaces by
\* an import that repeats a symbol, adds to a symbol that is there twice already,
\* or deletes a portfolio that a thread, a report or a signal refers to.
FailuresExplained ==
    [][\A r \in Requests : Ends(r, "failed") =>
          \/ ~Alone(r) \/ Odd(r) # {}
          \/ body[r].kind = "create" /\ Count(target[r], body[r].sym) > 1
          \/ body[r].kind = "close" /\ target[r] \in referred]_vars
=============================================================================
