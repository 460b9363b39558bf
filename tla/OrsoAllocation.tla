--------------------------- MODULE OrsoAllocation ---------------------------
(***************************************************************************)
(* One user's ORSO funds and their allocation: api/orso.py (create_fund,   *)
(* update_fund, replace_allocation, apply_reviewed) and                    *)
(* services/orso/allocation.py, run by concurrent requests, each in one    *)
(* READ COMMITTED transaction of PostgreSQL.  A step is one statement, or  *)
(* the part of a statement that concerns one row, since it is between rows *)
(* that a transaction waits for another.  A fund is named by its code,     *)
(* which is unique for the user; a row remembers the request that wrote    *)
(* it.                                                                     *)
(*                                                                         *)
(* Units are counted in halves of the stored quantum 0.0001, the smallest  *)
(* amount on which the two roundings of the code differ.  contribution_pct *)
(* is written, rounded and compared together with the units and is left    *)
(* out.                                                                    *)
(***************************************************************************)
EXTENDS Naturals, Sequences

CONSTANTS
    Requests,     \* request handlers; each serves one request
    Funds,        \* fund codes
    Bodies,       \* what a request can ask for
    Menu,         \* the user's funds at the start
    Initial,      \* the stored allocation at the start: fund -> units
    Place,        \* where in the table the row of a fund by a request is put
    None

VARIABLES
    funds,        \* the orso_funds rows: code -> [archived, by]
    alloc,        \* the orso_allocations rows: records [fund, units, by]
    log,          \* the orso_switch_log rows: records [old, new, by]
    manual,       \* funds with a price row for the statement date
    pc,
    body,         \* body[r]: the request r serves
    step,         \* step[r]: where r is in the list it goes through
    seen,         \* seen[r]: the funds an apply has read: code -> archived
    there,        \* there[r]: r has found the price row it is about to write
    previous,     \* previous[r]: the allocation r compares with
    target,       \* target[r]: the rows r's DELETE looks for
    doomed,       \* doomed[r]: those it has come to
    met           \* pairs of requests that were open at the same time (history)

db == <<funds, alloc, log, manual>>
locals == <<step, seen, there, previous, target, doomed>>
vars == <<db, pc, body, locals, met>>

Item == [fund : Funds, units : Nat, priced : BOOLEAN]

\* A PUT creates no fund and prices none.  A list that names one fund twice is
\* refused by both handlers with nothing written, as a lost client is (Abort).
IsBody(b) ==
    \/ /\ b.kind \in {"put", "apply"}
       /\ b.created \in Seq(Funds) /\ b.items \in Seq(Item)
       /\ \A i, j \in DOMAIN b.created : b.created[i] = b.created[j] => i = j
       /\ \A i, j \in DOMAIN b.items : b.items[i].fund = b.items[j].fund => i = j
       /\ b.kind = "put" =>
             b.created = << >> /\ \A i \in DOMAIN b.items : ~b.items[i].priced
    \/ b.kind \in {"create", "archive", "restore"} /\ b.fund \in Funds

ASSUME ConstantsOK ==
    /\ \A b \in Bodies : IsBody(b)
    /\ Menu \subseteq Funds /\ DOMAIN Initial \subseteq Menu
    /\ Initial \in [DOMAIN Initial -> Nat]
    /\ None \notin Requests \cup Bodies

\* Two rows of different funds are not in the same place.
ASSUME PlaceOK ==
    /\ Place \in [Funds \X (Requests \cup {None}) -> Nat]
    /\ \A x, y \in Funds \X (Requests \cup {None}) : x[1] # y[1] => Place[x] # Place[y]

Replaces(b) == b.kind \in {"put", "apply"}
Items(r) == body[r].items
Created(r) == body[r].created

-----------------------------------------------------------------------------
\* Rounding.  The model's validator stores ROUND_HALF_UP; the switch log's
\* canonical form is Decimal.quantize's default, ROUND_HALF_EVEN.

HalfUp(h) == (h + 1) \div 2
HalfEven(h) == IF (h \div 2) % 2 = 0 THEN h \div 2 ELSE (h + 1) \div 2

\* _canonical, of the request's items and of the stored rows (already rounded).
\* No fund occurs twice, so that the list sorted by code is this set.
CanonicalOf(items) ==
    {[fund |-> items[i].fund, units |-> HalfEven(items[i].units)] : i \in DOMAIN items}
CanonicalIn(stored) == {[fund |-> x.fund, units |-> x.units] : x \in stored}

\* Variant that must break CircleOnlyByOrder: the rows of a reviewed statement
\* are added from the end of its list.
RowFromEnd(r, i) ==
    LET k == IF body[r].kind = "apply" THEN Len(Items(r)) + 1 - i ELSE i IN
    [fund |-> Items(r)[k].fund, units |-> HalfUp(Items(r)[k].units), by |-> r]

\* The i-th row that r inserts.
RowOf(r, i) ==
    [fund |-> Items(r)[i].fund, units |-> HalfUp(Items(r)[i].units), by |-> r]
RowsOf(r) == {RowOf(r, i) : i \in DOMAIN Items(r)}

-----------------------------------------------------------------------------
\* What an open transaction has written and not committed: its new funds, its
\* manual prices, its rows.

HeldFunds(r) ==
    {f \in Funds :
        /\ pc[r] \in {"fund", "item", "price", "delete", "write"}
        /\ \E i \in DOMAIN Created(r) : f = Created(r)[i] /\ (pc[r] = "fund" => i < step[r])}

Prices(r, i) == Items(r)[i].priced /\ Items(r)[i].units # 0

HeldPrices(r) ==
    {f \in Funds :
        /\ pc[r] \in {"item", "price", "delete", "write"}
        /\ \E i \in DOMAIN Items(r) :
              /\ f = Items(r)[i].fund /\ Prices(r, i)
              /\ pc[r] \in {"item", "price"} => i < step[r]}

PlacedBy(r) ==
    {f \in Funds :
        /\ pc[r] = "write"
        /\ \E i \in DOMAIN Items(r) : f = RowOf(r, i).fund /\ i < step[r]}

\* What the next statement of a transaction is about: a new fund f, the price of
\* f, a new row of f, or the row x of the DELETE, which goes through the table
\* in the order of the places.

AddsFund(r, f) ==
    \/ pc[r] = "fund" /\ step[r] \in DOMAIN Created(r) /\ f = Created(r)[step[r]]
    \/ pc[r] = "save" /\ body[r].kind = "create" /\ f = body[r].fund
PricesFund(r, f) == pc[r] = "price" /\ f = Items(r)[step[r]].fund
AddsRow(r, f) ==
    /\ pc[r] = "write" /\ doomed[r] = target[r]
    /\ step[r] \in DOMAIN Items(r) /\ f = RowOf(r, step[r]).fund
PlaceOf(x) == Place[<<x.fund, x.by>>]
ComesTo(r, x) ==
    /\ pc[r] = "write" /\ x \in target[r] \ doomed[r]
    /\ \A y \in target[r] \ doomed[r] : PlaceOf(x) <= PlaceOf(y)

\* It waits for the end of another transaction that has inserted the same key,
\* or that has written or deleted the row.
WaitsFor(r, q) ==
    \/ \E f \in HeldFunds(q) : AddsFund(r, f)
    \/ \E f \in HeldPrices(q) : PricesFund(r, f)
    \/ \E f \in PlacedBy(q) : AddsRow(r, f)
    \/ \E x \in alloc \cap doomed[q] : ComesTo(r, x)
    \/ \E x \in (alloc \cap doomed[q]) \ doomed[r] : AddsRow(r, x.fund)

Waits(r) == \E q \in Requests \ {r} : WaitsFor(r, q)

\* An INSERT meets a committed row under a unique constraint: of orso_funds
\* (user_id, code), orso_fund_prices (fund_id, as_of), orso_allocations.fund_id.
Conflict(r) ==
    \/ \E f \in DOMAIN funds : AddsFund(r, f)
    \/ ~there[r] /\ \E f \in manual : PricesFund(r, f)
    \/ \E x \in alloc \ doomed[r] : AddsRow(r, x.fund)

\* The statement is run, by a transaction that waits for none.
Runs(r) == ~Waits(r) /\ ~Conflict(r)

-----------------------------------------------------------------------------

Init ==
    /\ funds = [f \in Menu |-> [archived |-> FALSE, by |-> None]]
    /\ alloc = {[fund |-> f, units |-> HalfUp(Initial[f]), by |-> None] : f \in DOMAIN Initial}
    /\ log = << >>
    /\ manual = {}
    /\ pc = [r \in Requests |-> "idle"]
    /\ body = [r \in Requests |-> None]
    /\ step = [r \in Requests |-> 1]
    /\ seen = [r \in Requests |-> << >>]
    /\ there = [r \in Requests |-> FALSE]
    /\ previous = [r \in Requests |-> {}]
    /\ target = [r \in Requests |-> {}]
    /\ doomed = [r \in Requests |-> {}]
    /\ met = {}

Open(r) == pc[r] \notin {"idle", "done"}

Begin(r, b) ==
    /\ pc[r] = "idle"
    /\ pc' = [pc EXCEPT ![r] = "check"]
    /\ body' = [body EXCEPT ![r] = b]
    /\ met' = met \cup UNION {{<<r, q>>, <<q, r>>} : q \in {p \in Requests : Open(p)}}
    /\ UNCHANGED <<db, locals>>

\* Variant that must break TypeOK: a session that is not closed keeps its row
\* locks.
FinishKeepingLocks(r) ==
    /\ pc' = [pc EXCEPT ![r] = "done"]
    /\ UNCHANGED <<body, locals, met>>

\* The session closes: its locks are gone, and what it has not committed.
Finish(r) ==
    /\ pc' = [pc EXCEPT ![r] = "done"]
    /\ step' = [step EXCEPT ![r] = 1]
    /\ seen' = [seen EXCEPT ![r] = << >>]
    /\ there' = [there EXCEPT ![r] = FALSE]
    /\ previous' = [previous EXCEPT ![r] = {}]
    /\ target' = [target EXCEPT ![r] = {}]
    /\ doomed' = [doomed EXCEPT ![r] = {}]
    /\ UNCHANGED <<body, met>>

\* An error, a lost client, or a transaction that PostgreSQL ends because it
\* waits in a circle.
Abort(r) ==
    /\ Open(r)
    /\ Finish(r)
    /\ UNCHANGED db

\* The IntegrityError of a conflicting INSERT.
Fails(r) ==
    /\ Conflict(r) /\ ~Waits(r)
    /\ Finish(r)
    /\ UNCHANGED db

\* The handler goes on to place p, at position i of the list of that place.
Go(r, p, i) ==
    /\ pc' = [pc EXCEPT ![r] = p]
    /\ step' = [step EXCEPT ![r] = i]

-----------------------------------------------------------------------------
\* Replacing the allocation: PUT /allocation and POST /allocation/apply.

\* Variant that must break ArchivedUnitsOnlyByRace: archived funds are accepted.
AcceptsArchived(x, known) == x.fund \in DOMAIN known

\* An item names a fund of the user, and an archived fund gets no units.
Accepts(x, known) ==
    x.fund \in DOMAIN known /\ (known[x.fund] => x.units = 0)

\* What a SELECT of the user's funds shows r, its own new ones among them.
Owned(r) ==
    LET created == {Created(r)[i] : i \in DOMAIN Created(r)} IN
    [f \in DOMAIN funds \cup created |-> f \in DOMAIN funds /\ funds[f].archived]

\* PUT reads the funds once and checks the whole list.
CheckItems(r) ==
    /\ pc[r] = "check" /\ body[r].kind = "put"
    /\ IF \A i \in DOMAIN Items(r) : Accepts(Items(r)[i], Owned(r))
         THEN /\ Go(r, "item", Len(Items(r)) + 1)
              /\ UNCHANGED <<body, seen, there, previous, target, doomed, met>>
         ELSE Finish(r)
    /\ UNCHANGED db

\* apply reads the codes in use before it adds its new funds.
CheckCodes(r) ==
    /\ pc[r] = "check" /\ body[r].kind = "apply"
    /\ IF \A i \in DOMAIN Created(r) : Created(r)[i] \notin DOMAIN funds
         THEN /\ Go(r, "fund", 1)
              /\ UNCHANGED <<body, seen, there, previous, target, doomed, met>>
         ELSE Finish(r)
    /\ UNCHANGED db

\* The flush of the new funds, fund by fund.
AddFund(r) ==
    /\ pc[r] = "fund" /\ step[r] <= Len(Created(r)) /\ Runs(r)
    /\ Go(r, "fund", step[r] + 1)
    /\ UNCHANGED <<db, body, seen, there, previous, target, doomed, met>>

ReadOwned(r) ==
    /\ pc[r] = "fund" /\ step[r] > Len(Created(r))
    /\ seen' = [seen EXCEPT ![r] = Owned(r)]
    /\ Go(r, "item", 1)
    /\ UNCHANGED <<db, body, there, previous, target, doomed, met>>

\* One turn of apply's loop: check the item and, where it has a price, read the
\* row of that price.
TakeItem(r) ==
    /\ pc[r] = "item" /\ step[r] <= Len(Items(r))
    /\ IF ~Accepts(Items(r)[step[r]], seen[r])
         THEN Finish(r)
         ELSE /\ IF Prices(r, step[r])
                   THEN /\ Go(r, "price", step[r])
                        /\ there' = [there EXCEPT ![r] = Items(r)[step[r]].fund \in manual]
                   ELSE Go(r, "item", step[r] + 1) /\ UNCHANGED there
              /\ UNCHANGED <<body, seen, previous, target, doomed, met>>
    /\ UNCHANGED db

\* upsert_manual_price's flush: an UPDATE of the row found, or an INSERT.
WritePrice(r) ==
    /\ pc[r] = "price" /\ Runs(r)
    /\ Go(r, "item", step[r] + 1)
    /\ there' = [there EXCEPT ![r] = FALSE]
    /\ UNCHANGED <<db, body, seen, previous, target, doomed, met>>

ReadPrevious(r) ==
    /\ pc[r] = "item" /\ step[r] > Len(Items(r))
    /\ previous' = [previous EXCEPT ![r] = CanonicalIn(alloc)]
    /\ seen' = [seen EXCEPT ![r] = << >>]
    /\ Go(r, "delete", 1)
    /\ UNCHANGED <<db, body, there, target, doomed, met>>

\* Variant that must break StaleRowsOnlyByRace: delete the rows named in the
\* request instead of all the user's rows.
DeleteNamed(r) ==
    /\ pc[r] = "delete"
    /\ target' = [target EXCEPT ![r] =
                    {x \in alloc : \E i \in DOMAIN Items(r) : x.fund = Items(r)[i].fund}]
    /\ Go(r, "write", 1)
    /\ UNCHANGED <<db, body, seen, there, previous, doomed, met>>

\* DELETE FROM orso_allocations WHERE user_id = ...: the statement's snapshot
\* decides which rows it looks for.
Delete(r) ==
    /\ pc[r] = "delete"
    /\ target' = [target EXCEPT ![r] = alloc]
    /\ Go(r, "write", 1)
    /\ UNCHANGED <<db, body, seen, there, previous, doomed, met>>

\* It goes through them row by row, and passes over those whose deletion has
\* been committed meanwhile.
DeleteRow(r) ==
    /\ pc[r] = "write" /\ ~Waits(r)
    /\ \E x \in target[r] : ComesTo(r, x) /\ doomed' = [doomed EXCEPT ![r] = @ \cup {x}]
    /\ UNCHANGED <<db, pc, body, step, seen, there, previous, target, met>>

\* The flush of the new rows, row by row.
InsertRow(r) ==
    /\ pc[r] = "write" /\ doomed[r] = target[r] /\ step[r] <= Len(Items(r)) /\ Runs(r)
    /\ Go(r, "write", step[r] + 1)
    /\ UNCHANGED <<db, body, seen, there, previous, target, doomed, met>>

\* The orso_funds rows, those of S added or changed.
WithFunds(S, row) == [f \in DOMAIN funds \cup S |-> IF f \in S THEN row ELSE funds[f]]

\* Variant that must break SoloReplaceExact: every replacement is logged.
CommitAlwaysLogging(r) ==
    LET new == CanonicalOf(Items(r)) IN
    /\ pc[r] = "write" /\ doomed[r] = target[r] /\ step[r] > Len(Items(r))
    /\ funds' = WithFunds(HeldFunds(r), [archived |-> FALSE, by |-> None])
    /\ alloc' = (alloc \ doomed[r]) \cup RowsOf(r)
    /\ log' = Append(log, [old |-> previous[r], new |-> new, by |-> r])
    /\ manual' = manual \cup HeldPrices(r)
    /\ Finish(r)

\* The commit: all that the request has flushed and, iff the allocation changed,
\* a switch-log entry.
Commit(r) ==
    LET new == CanonicalOf(Items(r)) IN
    /\ pc[r] = "write" /\ doomed[r] = target[r] /\ step[r] > Len(Items(r))
    /\ funds' = WithFunds(HeldFunds(r), [archived |-> FALSE, by |-> None])
    /\ alloc' = (alloc \ doomed[r]) \cup RowsOf(r)
    /\ log' = IF new # previous[r]
                THEN Append(log, [old |-> previous[r], new |-> new, by |-> r])
                ELSE log
    /\ manual' = manual \cup HeldPrices(r)
    /\ Finish(r)

-----------------------------------------------------------------------------
\* Funds: POST /funds and PATCH /funds/{id}.

\* An archived fund may hold no units.  A PATCH that changes nothing writes
\* nothing.
RefusesFund(b) ==
    \/ b.kind = "create" /\ b.fund \in DOMAIN funds
    \/ b.kind # "create" /\ b.fund \notin DOMAIN funds
    \/ /\ b.kind = "archive" /\ ~funds[b.fund].archived
       /\ \E x \in alloc : x.fund = b.fund /\ x.units > 0

KeepsFund(b) == b.kind # "create" /\ (b.kind = "archive" <=> funds[b.fund].archived)

CheckFund(r) ==
    /\ pc[r] = "check" /\ ~Replaces(body[r])
    /\ IF RefusesFund(body[r]) \/ KeepsFund(body[r])
         THEN Finish(r)
         ELSE Go(r, "save", 1) /\ UNCHANGED <<body, seen, there, previous, target, doomed, met>>
    /\ UNCHANGED db

\* The commit and its one INSERT or UPDATE.
SaveFund(r) ==
    LET b == body[r]
        row == [archived |-> b.kind = "archive", by |-> IF b.kind = "archive" THEN r ELSE None]
    IN
    /\ pc[r] = "save" /\ Runs(r)
    /\ funds' = WithFunds({b.fund}, row)
    /\ Finish(r)
    /\ UNCHANGED <<alloc, log, manual>>

-----------------------------------------------------------------------------

Step(r) ==
    \/ CheckItems(r)
    \/ CheckCodes(r)
    \/ AddFund(r)
    \/ ReadOwned(r)
    \/ TakeItem(r)
    \/ WritePrice(r)
    \/ ReadPrevious(r)
    \/ Delete(r)
    \/ DeleteRow(r)
    \/ InsertRow(r)
    \/ Commit(r)
    \/ CheckFund(r)
    \/ SaveFund(r)
    \/ Fails(r)

Next ==
    \E r \in Requests :
        \/ \E b \in Bodies : Begin(r, b)
        \/ Step(r)
        \/ Abort(r)

Spec == Init /\ [][Next]_vars

-----------------------------------------------------------------------------
(***************************************************************************)
(* Properties                                                              *)
(***************************************************************************)

Row == [fund : Funds, units : Nat, by : Requests \cup {None}]
Entry == [fund : Funds, units : Nat]
Places == {"idle", "check", "fund", "item", "price", "delete", "write", "save", "done"}

TypeOK ==
    /\ DOMAIN funds \subseteq Funds
    /\ \A f \in DOMAIN funds : funds[f] \in [archived : BOOLEAN, by : Requests \cup {None}]
    /\ alloc \subseteq Row
    /\ \A x, y \in alloc : x.fund = y.fund => x = y
    /\ {x.fund : x \in alloc} \subseteq DOMAIN funds
    /\ \A i \in DOMAIN log :
          log[i].old \subseteq Entry /\ log[i].new \subseteq Entry /\ log[i].by \in Requests
    /\ manual \subseteq Funds
    /\ pc \in [Requests -> Places]
    /\ met \subseteq Requests \X Requests
    /\ \A r \in Requests :
          /\ body[r] = None <=> pc[r] = "idle"
          /\ step[r] \in Nat \ {0} /\ there[r] \in BOOLEAN
          /\ DOMAIN seen[r] \subseteq Funds /\ previous[r] \subseteq Entry
          /\ target[r] \subseteq Row /\ doomed[r] \subseteq target[r]
          /\ pc[r] # "write" => target[r] = {}

\* Rows of two requests can only stand side by side when the two were served at
\* the same time: no row survives a later replacement.
StaleRowsOnlyByRace ==
    \A x, y \in alloc : x.by # y.by => <<x.by, y.by>> \in met

\* An archived fund holds units only when its archiving and the allocation were
\* served at the same time: neither check can be got round one after the other.
ArchivedUnitsOnlyByRace ==
    \A x \in alloc :
        x.units > 0 /\ funds[x.fund].archived => <<x.by, funds[x.fund].by>> \in met

\* A request that met no other replaces the whole allocation by what was asked,
\* and the switch log gains an entry from the old state to the new one exactly
\* when the two differ; an amount with half a quantum, which the log rounds in its
\* own way, may make an entry of its own.
Solo(r) == \A q \in Requests : <<r, q>> \notin met

SoloReplaceExact ==
    [][\A r \in Requests :
          pc[r] = "write" /\ alloc' # alloc /\ pc'[r] = "done" /\ Solo(r) =>
              LET old == CanonicalIn(alloc)
                  new == CanonicalIn(alloc')
              IN /\ alloc' = RowsOf(r)
                 /\ (\A i \in DOMAIN Items(r) : Items(r)[i].units % 2 = 0) =>
                    log' = IF old = new
                             THEN log
                             ELSE Append(log, [old |-> old, new |-> new, by |-> r])]_vars

\* Two requests wait for each other, so that PostgreSQL has to end one of them,
\* only where they name two new funds, or two funds of the allocation, in opposite
\* order, or where the allocation changed between their DELETEs.  Funds, prices,
\* old rows and new rows are taken in one order by every request, and no two of
\* these kinds make a circle.
Crossed(s, t) ==
    \E i, j \in DOMAIN s, k, l \in DOMAIN t : i < j /\ k < l /\ s[i] = t[l] /\ s[j] = t[k]
FundList(r) == [i \in DOMAIN Items(r) |-> Items(r)[i].fund]

CircleOnlyByOrder ==
    \A r \in Requests : \A q \in Requests \ {r} :
        WaitsFor(r, q) /\ WaitsFor(q, r) =>
            \/ Crossed(Created(r), Created(q))
            \/ Crossed(FundList(r), FundList(q))
            \/ target[r] # target[q]
=============================================================================
