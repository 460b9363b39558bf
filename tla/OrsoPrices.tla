----------------------------- MODULE OrsoPrices -----------------------------
(***************************************************************************)
(* The stored prices of one user's ORSO funds: services/orso/prices.py     *)
(* under POST /prices/refresh and PUT /prices/manual of api/orso.py and    *)
(* under the statement prices of services/orso/allocation.py.  Requests    *)
(* run concurrently, each in one READ COMMITTED transaction; a row is      *)
(* named by its unique key, a fund and a day.                              *)
(*                                                                         *)
(* SQLAlchemy's session matters in three ways.  A row changed or added is  *)
(* flushed before the next SELECT; an UPDATE names only the columns whose  *)
(* value differs from the one the session loaded; and a row that is still  *)
(* referenced is not loaded again.                                         *)
(***************************************************************************)
EXTENDS Integers, Sequences, FiniteSets, SequencesExt

CONSTANTS
    Requests,     \* request handlers; each serves one request
    Funds,        \* the user's funds
    Bodies,       \* what a request can ask for
    FeedLists,    \* what the feed can list: sequences of [fund, price, age]
    Initial,      \* the stored rows at the start
    DayLength,    \* ticks of a day
    StartTime,    \* the time of day at the start
    TTL,          \* ticks of _REFRESH_TTL
    MaxTime,      \* bound on the clock, for TLC
    None

VARIABLES
    rows,         \* the orso_fund_prices rows: <<fund, day>> -> row
    clock,
    pc,
    body,         \* body[r]: the request r serves
    start,        \* start[r]: the now and today of r
    before,       \* before[r]: the requests that were over when r began (history)
    todo,         \* todo[r]: funds a refresh has not looked at
    fresh,        \* fresh[r]: funds it will report as refreshed
    stale,        \* stale[r]: funds it asks the feed about, in order
    held,         \* held[r]: the row its most_recent refers to
    work,         \* work[r]: prices to store, [key, price]
    loaded,       \* loaded[r]: the row the SELECT for the first of them gave
    pending       \* pending[r]: columns flushed and not committed, key -> columns

local == <<body, start, before, todo, fresh, stale, held, work, loaded, pending>>
vars == <<rows, clock, pc, body, start, before, todo, fresh, stale, held, work, loaded, pending>>

DayOf(t) == t \div DayLength

Keys == Funds \X Int
Row == [price : Nat, source : {"hsbc", "manual"}, fetched : Int, by : Requests \cup {None}]
Kept == [key : Keys, row : Row]

\* A price of a fund, dated some days ago.
Entry == [fund : Funds, price : Nat, age : Nat]

\* A request enters a positive price and names a fund once.
IsEntered(prices) ==
    /\ prices \in Seq(Entry)
    /\ \A i, j \in DOMAIN prices :
          prices[i].price > 0 /\ (prices[i].fund = prices[j].fund => i = j)

ASSUME ConstantsOK ==
    /\ DayLength \in Nat \ {0} /\ TTL \in Nat /\ {StartTime, MaxTime} \subseteq Nat /\ StartTime <= MaxTime
    /\ IsFiniteSet(Funds) /\ None \notin Requests \cup Row \cup Kept
    /\ \A b \in Bodies : b.kind = "refresh" \/ (b.kind = "manual" /\ IsEntered(b.prices))
    /\ FeedLists \subseteq Seq(Entry)
    /\ DOMAIN Initial \subseteq Keys
    /\ \A k \in DOMAIN Initial : Initial[k] \in Row /\ Initial[k].by = None

-----------------------------------------------------------------------------
\* parse_fund_prices: an entry without a finite, positive price (price 0) or a
\* readable date is dropped, and of two entries of a fund the later one stays.
Usable(list, f) == {i \in DOMAIN list : list[i].fund = f /\ list[i].price > 0}

Parse(list) ==
    [f \in {f \in Funds : Usable(list, f) # {}} |->
        list[CHOOSE i \in Usable(list, f) : \A j \in Usable(list, f) : j <= i]]

\* Variant that must break ManualStaysManual: an UPDATE of every column.
AllColumns(new, old) == new

\* New columns over old ones.
Over(new, old) == [c \in DOMAIN new \cup DOMAIN old |-> IF c \in DOMAIN new THEN new[c] ELSE old[c]]

\* The columns an UPDATE names, or all of an INSERT.
Changed(new, old) ==
    IF old = None THEN new ELSE [c \in {c \in DOMAIN new : new[c] # old[c]} |-> new[c]]

Open(r) == pc[r] \notin {"idle", "done", "failed"}
Met(r, q) == r # q /\ pc[r] # "idle" /\ pc[q] # "idle" /\ r \notin before[q] /\ q \notin before[r]

Init ==
    /\ rows = Initial
    /\ clock = StartTime
    /\ pc = [r \in Requests |-> "idle"]
    /\ body = [r \in Requests |-> None]
    /\ start = [r \in Requests |-> StartTime]
    /\ before = [r \in Requests |-> {}]
    /\ todo = [r \in Requests |-> << >>]
    /\ fresh = [r \in Requests |-> {}]
    /\ stale = [r \in Requests |-> << >>]
    /\ held = [r \in Requests |-> None]
    /\ work = [r \in Requests |-> << >>]
    /\ loaded = [r \in Requests |-> None]
    /\ pending = [r \in Requests |-> << >>]

\* A refresh selects the user's funds, in no particular order; a manual price or
\* a reviewed statement brings its prices.
Begin(r, b) ==
    /\ pc[r] = "idle"
    /\ body' = [body EXCEPT ![r] = b]
    /\ start' = [start EXCEPT ![r] = clock]
    /\ before' = [before EXCEPT ![r] = {q \in Requests : pc[q] \in {"done", "failed"}}]
    /\ IF b.kind = "refresh"
         THEN /\ pc' = [pc EXCEPT ![r] = "check"]
              /\ \E order \in SetToSeqs(Funds) : todo' = [todo EXCEPT ![r] = order]
              /\ UNCHANGED work
         ELSE /\ pc' = [pc EXCEPT ![r] = "find"]
              /\ work' = [work EXCEPT ![r] =
                    [i \in DOMAIN b.prices |->
                        [key |-> <<b.prices[i].fund, DayOf(clock) - b.prices[i].age>>,
                         price |-> b.prices[i].price]]]
              /\ UNCHANGED todo
    /\ UNCHANGED <<rows, clock, fresh, stale, held, loaded, pending>>

\* The end of a request: the session closes, uncommitted columns are forgotten.
Finish(r, how) ==
    /\ pc' = [pc EXCEPT ![r] = how]
    /\ held' = [held EXCEPT ![r] = None]
    /\ loaded' = [loaded EXCEPT ![r] = None]
    /\ todo' = [todo EXCEPT ![r] = << >>]
    /\ work' = [work EXCEPT ![r] = << >>]
    /\ UNCHANGED <<clock, body, start, before, fresh, stale>>

Fail(r) ==
    /\ Finish(r, "failed")
    /\ pending' = [pending EXCEPT ![r] = << >>]
    /\ UNCHANGED rows

-----------------------------------------------------------------------------
\* POST /prices/refresh: what is fresh.

RowsOf(f) == {k \in DOMAIN rows : k[1] = f}
Newest(f) == {k \in RowsOf(f) : \A l \in RowsOf(f) : rows[l].fetched <= rows[k].fetched}

\* Variant that must break NoRepeatFetch: only a row of today counts.
CheckToday(r) ==
    LET f == Head(todo[r]) IN
    /\ pc[r] = "check" /\ todo[r] # << >>
    /\ todo' = [todo EXCEPT ![r] = Tail(@)]
    /\ IF <<f, DayOf(start[r])>> \in DOMAIN rows
         THEN fresh' = [fresh EXCEPT ![r] = @ \cup {f}] /\ UNCHANGED stale
         ELSE stale' = [stale EXCEPT ![r] = Append(@, f)] /\ UNCHANGED fresh
    /\ UNCHANGED <<rows, clock, pc, body, start, before, held, work, loaded, pending>>

\* Variant that must break TypeOK: a fund with a row of today is reported as fresh,
\* and then looked at as if it had none (the continue is missing).
CheckGoesOn(r) ==
    LET f == Head(todo[r]) IN
    /\ pc[r] = "check" /\ todo[r] # << >>
    /\ todo' = [todo EXCEPT ![r] = Tail(@)]
    /\ \/ /\ RowsOf(f) = {}
          /\ stale' = [stale EXCEPT ![r] = Append(@, f)]
          /\ held' = [held EXCEPT ![r] = None]
          /\ UNCHANGED fresh
       \/ \E k \in Newest(f) :
             LET recent == start[r] - rows[k].fetched < TTL IN
             /\ held' = [held EXCEPT ![r] = [key |-> k, row |-> rows[k]]]
             /\ fresh' = IF recent \/ <<f, DayOf(start[r])>> \in DOMAIN rows
                           THEN [fresh EXCEPT ![r] = @ \cup {f}] ELSE fresh
             /\ stale' = IF recent THEN stale ELSE [stale EXCEPT ![r] = Append(@, f)]
    /\ UNCHANGED <<rows, clock, pc, body, start, before, work, loaded, pending>>

\* A fund with a row of today, or whose newest row was fetched within the TTL, is
\* fresh; manual rows count.  The newest row stays referenced until the next fund
\* that gets this far.
Check(r) ==
    LET f == Head(todo[r]) IN
    /\ pc[r] = "check" /\ todo[r] # << >>
    /\ todo' = [todo EXCEPT ![r] = Tail(@)]
    /\ \/ /\ <<f, DayOf(start[r])>> \in DOMAIN rows
          /\ fresh' = [fresh EXCEPT ![r] = @ \cup {f}]
          /\ UNCHANGED <<stale, held>>
       \/ /\ RowsOf(f) = {}
          /\ stale' = [stale EXCEPT ![r] = Append(@, f)]
          /\ held' = [held EXCEPT ![r] = None]
          /\ UNCHANGED fresh
       \/ /\ <<f, DayOf(start[r])>> \notin DOMAIN rows
          /\ \E k \in Newest(f) :
                /\ held' = [held EXCEPT ![r] = [key |-> k, row |-> rows[k]]]
                /\ IF start[r] - rows[k].fetched < TTL
                     THEN fresh' = [fresh EXCEPT ![r] = @ \cup {f}] /\ UNCHANGED stale
                     ELSE stale' = [stale EXCEPT ![r] = Append(@, f)] /\ UNCHANGED fresh
    /\ UNCHANGED <<rows, clock, pc, body, start, before, work, loaded, pending>>

\* The stale funds the answer lists, in their order; the others are passed over.
Listed(r, dto) ==
    {s \in SetToSeqs({f \in DOMAIN dto : f \in ToSet(stale[r])}) :
        \A i, j \in DOMAIN s, m, n \in DOMAIN stale[r] :
            s[i] = stale[r][m] /\ s[j] = stale[r][n] /\ i < j => m < n}

\* The answer lists days of its own.
Answered(r, dto, listed) ==
    [i \in DOMAIN listed |->
        [key |-> <<listed[i], DayOf(clock) - dto[listed[i]].age>>, price |-> dto[listed[i]].price]]

\* The feed is asked once for all stale funds, if there are any, and may fail.
FeedAnswers(r) ==
    /\ pc[r] = "check" /\ todo[r] = << >>
    /\ \/ \E list \in FeedLists : \E listed \in Listed(r, Parse(list)) :
             work' = [work EXCEPT ![r] = Answered(r, Parse(list), listed)]
       \/ UNCHANGED work
    /\ pc' = [pc EXCEPT ![r] = "find"]
    /\ UNCHANGED <<rows, clock, body, start, before, todo, fresh, stale, held, loaded, pending>>

-----------------------------------------------------------------------------
\* Storing prices: the loop of refresh, and upsert_manual_price.

Key(r) == Head(work[r]).key
IsRefresh(r) == body[r].kind = "refresh"

\* The SELECT of the row of that fund and day.
RowFor(r) ==
    IF held[r] # None /\ held[r].key = Key(r) THEN held[r].row
    ELSE IF Key(r) \in DOMAIN rows THEN rows[Key(r)]
    ELSE None

\* Variant that must break ManualPriceOnlyByRace: refresh overwrites manual rows.
FindAny(r) ==
    /\ pc[r] = "find" /\ work[r] # << >>
    /\ loaded' = [loaded EXCEPT ![r] = RowFor(r)]
    /\ pc' = [pc EXCEPT ![r] = "put"]
    /\ UNCHANGED <<rows, clock, body, start, before, todo, fresh, stale, held, work, pending>>

Find(r) ==
    /\ pc[r] = "find" /\ work[r] # << >>
    /\ IF IsRefresh(r) /\ RowFor(r) # None /\ RowFor(r).source = "manual"
         THEN /\ fresh' = [fresh EXCEPT ![r] = @ \cup {Key(r)[1]}]
              /\ work' = [work EXCEPT ![r] = Tail(@)]
              /\ UNCHANGED <<pc, loaded>>
         ELSE /\ loaded' = [loaded EXCEPT ![r] = RowFor(r)]
              /\ pc' = [pc EXCEPT ![r] = "put"]
              /\ UNCHANGED <<fresh, work>>
    /\ UNCHANGED <<rows, clock, body, start, before, todo, stale, held, pending>>

WaitsFor(r, q) == q # r /\ pc[r] = "put" /\ Open(q) /\ Key(r) \in DOMAIN pending[q]

Waits(r) == \E q \in Requests : WaitsFor(r, q)
Deadlocked(r) == \E S \in SUBSET Requests : r \in S /\ \A p \in S : \E q \in S : WaitsFor(p, q)

Columns(r, price) ==
    IF IsRefresh(r)
      THEN [price |-> price, fetched |-> start[r], source |-> "hsbc"]
      ELSE [price |-> price, fetched |-> start[r], source |-> "manual", by |-> r]

\* The flush of the INSERT or UPDATE.  It waits for a transaction that has the
\* row; an INSERT fails on a row committed since the SELECT.
Put(r) ==
    /\ pc[r] = "put" /\ ~Waits(r)
    /\ loaded[r] = None => Key(r) \notin DOMAIN rows
    /\ pending' = [pending EXCEPT ![r] =
          Over([k \in {Key(r)} |-> Changed(Columns(r, Head(work[r]).price), loaded[r])], @)]
    /\ fresh' = [fresh EXCEPT ![r] = IF IsRefresh(r) THEN @ \cup {Key(r)[1]} ELSE @]
    /\ work' = [work EXCEPT ![r] = Tail(@)]
    /\ loaded' = [loaded EXCEPT ![r] = None]
    /\ pc' = [pc EXCEPT ![r] = "find"]
    /\ UNCHANGED <<rows, clock, body, start, before, todo, stale, held>>

\* The IntegrityError of that INSERT, or a deadlock that PostgreSQL breaks.
PutFails(r) ==
    /\ pc[r] = "put"
    /\ \/ ~Waits(r) /\ loaded[r] = None /\ Key(r) \in DOMAIN rows
       \/ Deadlocked(r)
    /\ Fail(r)

Commit(r) ==
    /\ pc[r] = "find" /\ work[r] = << >>
    /\ rows' = [k \in DOMAIN rows \cup DOMAIN pending[r] |->
                  IF k \notin DOMAIN pending[r] THEN rows[k]
                  ELSE IF k \in DOMAIN rows THEN Over(pending[r][k], rows[k])
                  ELSE Over(pending[r][k], [by |-> None])]
    /\ Finish(r, "done")
    /\ UNCHANGED pending

\* A lost client or an error: the session rolls back.  (Before its first flush it
\* leaves nothing behind, as when the feed fails.)
Abort(r) == Open(r) /\ pending[r] # << >> /\ Fail(r)

Tick ==
    /\ clock < MaxTime
    /\ clock' = clock + 1
    /\ UNCHANGED <<rows, pc, local>>

-----------------------------------------------------------------------------

Next ==
    \/ Tick
    \/ \E r \in Requests :
          \/ \E b \in Bodies : Begin(r, b)
          \/ Check(r)
          \/ FeedAnswers(r)
          \/ Find(r)
          \/ Put(r)
          \/ PutFails(r)
          \/ Commit(r)
          \/ Abort(r)

Spec == Init /\ [][Next]_vars

-----------------------------------------------------------------------------
(***************************************************************************)
(* Properties                                                              *)
(***************************************************************************)

\* Every stored row is whole, two uncommitted writes never share a row, and a
\* request's locals match its place: no fund is both reported as fresh and asked
\* for at the feed.
TypeOK ==
    /\ DOMAIN rows \subseteq Keys /\ \A k \in DOMAIN rows : rows[k] \in Row
    /\ clock \in StartTime..MaxTime
    /\ pc \in [Requests -> {"idle", "check", "find", "put", "done", "failed"}]
    /\ \A r \in Requests :
          /\ fresh[r] \subseteq Funds
          /\ fresh[r] \cap ToSet(stale[r]) # {} => pc[r] \notin {"idle", "check"}
          /\ pc[r] = "put" => work[r] # << >>
          /\ held[r] # None => held[r].row \in Row
          /\ \A q \in Requests \ {r} :
                Open(r) /\ Open(q) => DOMAIN pending[r] \cap DOMAIN pending[q] = {}

\* A row that is manual once stays manual, however refreshes and entries overlap:
\* refresh never names the source column of a row it did not insert.
ManualStaysManual ==
    [][\A k \in DOMAIN rows : rows[k].source = "manual" => rows'[k].source = "manual"]_vars

Entered(r, k) ==
    \E i \in DOMAIN body[r].prices :
        /\ body[r].prices[i].fund = k[1] /\ DayOf(start[r]) - body[r].prices[i].age = k[2]
        /\ body[r].prices[i].price = rows[k].price

\* What the user entered last for a fund and day is what is stored, as a manual
\* price, unless the entry met another request: no later refresh overwrites it.
ManualPriceOnlyByRace ==
    \A k \in DOMAIN rows :
        IF rows[k].by = None
          THEN k \in DOMAIN Initial /\ Initial[k].source = "manual" => rows[k] = Initial[k]
          ELSE \/ rows[k].source = "manual" /\ Entered(rows[k].by, k)
               \/ \E q \in Requests : Met(rows[k].by, q)

Wrote(r) == {k[1] : k \in DOMAIN pending[r]}

\* A fund whose price a refresh has stored is not asked for again within the TTL,
\* unless that refresh met another request.  (A fund whose answer met a manual
\* row is asked for again at once: nothing records the answer.)
NoRepeatFetch ==
    \A r, q \in Requests :
        /\ pc[r] = "done" /\ IsRefresh(r) /\ \A p \in Requests : ~Met(r, p)
        /\ pc[q] # "idle" /\ IsRefresh(q) /\ r \in before[q]
        /\ start[q] - start[r] < TTL
        => Wrote(r) \cap ToSet(stale[q]) = {}
=============================================================================
