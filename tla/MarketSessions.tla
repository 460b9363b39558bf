--------------------------- MODULE MarketSessions ---------------------------
(***************************************************************************)
(* The database sessions that value a user's portfolios and replace what   *)
(* is derived from the values: SignalEngine.analyze, the group exposure    *)
(* with its daily snapshot and the dashboard (a single valuation, or the   *)
(* context of a generation, is a shorter one).  Each is one READ COMMITTED *)
(* transaction that fills the shared caches as it goes, and so holds the   *)
(* rows it wrote locked while it awaits the next provider.                 *)
(*                                                                         *)
(* A session is the sequence of the steps it has still to do.  A cached    *)
(* row is named by its key, <<cache, name>>; it is absent ("none"), past   *)
(* its time ("old") or fresh ("new").  Prices and rates are left out, and  *)
(* with them the values the snapshots hold.  A session loads the positions *)
(* at its start and goes by them; requests edit them at any time, so two   *)
(* sessions, overlapping or not, may start from any two books.             *)
(***************************************************************************)
EXTENDS Naturals, Sequences, FiniteSets, Functions, SequencesExt

CONSTANTS
    Sessions,     \* database sessions, of one request or job each
    Portfolios,   \* the user's portfolios, in the order of their ids
    Books,        \* what a session can find when it loads the positions: b[p] is
                  \* the sequence of p's symbols; a symbol's number is its place
                  \* in the primary key order
    RateOf,       \* RateOf[p][x]: {} or the pair from x's currency to p's
    ToBase,       \* ToBase[p]: {} or the pair from p's currency to GBP
    Feeds,        \* the other feeds of an analysis, in their order
    StartDb,      \* the rows that can be cached at the start
    Items,        \* what a snapshot can have a row for: groups, kinds of signal
    None

Symbols == UNION {ToSet(b[p]) : b \in Books, p \in ToSet(Portfolios)}
Pairs == UNION {ToBase[p] \cup UNION {RateOf[p][x] : x \in Symbols} : p \in ToSet(Portfolios)}

Quotes(symbols) == {<<"quote", s>> : s \in symbols}
Keys == Quotes(Symbols) \cup ({"rate"} \X Pairs) \cup (ToSet(Feeds) \X Symbols)

\* Quotes and earnings dates are one row each, updated in place; a rate, a bar
\* and a headline are a row of their own for each day or address.
InPlace(k) == k[1] \in {"quote", "earnings"}

\* The derived tables: the signals of each portfolio, and today's group snapshot.
Tables == ToSet(Portfolios) \cup {"groups"}

ASSUME ConstantsOK ==
    /\ Portfolios \in Seq(ToSet(Portfolios))
    /\ Books # {}
    /\ \A b \in Books, p \in ToSet(Portfolios) : b[p] \in Seq(Nat)
    /\ Feeds \in Seq({"bars", "earnings", "news"})
    /\ IsFiniteSet(Keys)
    /\ "groups" \notin ToSet(Portfolios)
    /\ None \notin Keys /\ None \notin Sessions
    /\ StartDb \subseteq [Keys -> {"none", "old", "new"}]

-----------------------------------------------------------------------------
\* What a session does, its positions being h (of one portfolio) or b (of all).
\* A step refreshes the keys it names, all of them with one question or one key;
\* "rate" needs a priced symbol and a rate.

Act(act, keys) == [act |-> act, keys |-> keys, of |-> None]

\* value_portfolio: all quotes, then a rate for each priced position.
Value(p, h) ==
    <<Act("quotes", Quotes(ToSet(h)))>> \o
    [i \in DOMAIN h |->
        [act |-> "rate", keys |-> {"rate"} \X RateOf[p][h[i]], of |-> <<"quote", h[i]>>]]

\* refresh of a feed: one instrument after the other.
Refresh(feed, h) == [i \in DOMAIN h |-> Act("feed", {<<feed, h[i]>>})]

\* SignalEngine.analyze of portfolio p.
Analysis(p, h) ==
    <<Act("expire", Quotes(ToSet(h))), Act("quotes", Quotes(ToSet(h)))>>
    \o Value(p, h)
    \o FlattenSeq([i \in DOMAIN Feeds |-> Refresh(Feeds[i], h)])
    \o <<[act |-> "replace", keys |-> {}, of |-> p]>>

\* compute_group_exposure and write_snapshot.
Exposure(b) ==
    FlattenSeq([i \in DOMAIN Portfolios |->
        Value(Portfolios[i], b[Portfolios[i]]) \o
        <<Act("tobase", {"rate"} \X ToBase[Portfolios[i]])>>])
    \o <<[act |-> "replace", keys |-> {}, of |-> "groups"]>>

\* The dashboard, and the context of a generation, value every portfolio.
Dashboard(b) ==
    FlattenSeq([i \in DOMAIN Portfolios |-> Value(Portfolios[i], b[Portfolios[i]])])

Programs ==
    UNION {{Analysis(p, b[p]) : p \in ToSet(Portfolios)} \cup {Exposure(b), Dashboard(b)}
             : b \in Books}

\* What can be left of one.
Remainders == UNION {{SubSeq(p, i, Len(p)) : i \in 1..(Len(p) + 1)} : p \in Programs}

-----------------------------------------------------------------------------

VARIABLES
    db,           \* db[k]: the committed row of key k
    stored,       \* stored[t]: t's committed rows, <<session that wrote, item>>
    phase,        \* phase[s]: what session s is at
    program,      \* program[s]: its remaining steps
    own,          \* own[s]: the rows it has written and not committed
    saw,          \* saw[s]: the rows it is asking a provider for, as it read them
    todo,         \* todo[s]: the keys its statement or flush has still to write
    priced,       \* priced[s]: the quotes its last get_quotes returned
    rows,         \* rows[s]: the items its snapshot has rows for
    target,       \* target[s]: the rows its DELETE found and, later, holds
    company,      \* sessions that were open together with another (history)
    found         \* found[s]: the quote rows the UPDATE of s found (history)

session == <<phase, program, own, saw, todo, priced, rows, target>>
vars == <<db, stored, phase, program, own, saw, todo, priced, rows, target,
          company, found>>

Phases == {"idle", "next", "ask", "write", "delete", "insert", "closed"}
Writer == Sessions \cup {None}
Ages == {"none", "old", "new"}

Open(s) == phase[s] \notin {"idle", "closed"}

\* Locals match a session's place; and a day's group snapshot, which concurrent
\* writers delete and insert, never has two rows for one group.
TypeOK ==
    /\ \A r, q \in stored["groups"] : r[2] = q[2] => r = q
    /\ db \in [Keys -> Ages]
    /\ stored \in [Tables -> SUBSET (Writer \X Items)]
    /\ phase \in [Sessions -> Phases]
    /\ \A s \in Sessions :
          /\ program[s] \in Remainders
          /\ DOMAIN own[s] \subseteq Keys /\ Range(own[s]) \subseteq {"old", "new"}
          /\ DOMAIN saw[s] \subseteq Keys /\ Range(saw[s]) \subseteq {"none", "old"}
          /\ ToSet(todo[s]) \subseteq Keys
          /\ ~Open(s) => program[s] = <<>> /\ own[s] = <<>>
          /\ phase[s] = "write" <=> todo[s] # <<>>
          /\ phase[s] \in {"delete", "insert"} => Head(program[s]).act = "replace"
    /\ priced \in [Sessions -> SUBSET Quotes(Symbols)]
    /\ rows \in [Sessions -> SUBSET Items]
    /\ target \in [Sessions -> SUBSET (Writer \X Items)]
    /\ company \subseteq Sessions
    /\ found \in [Sessions -> SUBSET Quotes(Symbols)]

-----------------------------------------------------------------------------

Now(s) == Head(program[s])

\* What a SELECT of s sees: its own writes, else what is committed.
View(s, k) == IF k \in DOMAIN own[s] THEN own[s][k] ELSE db[k]

\* Unique (user, group, date), with one null group: it binds group snapshots only.
Clashes(s, table, there) ==
    table = "groups" /\ \E r \in there : r[2] \in rows[s]

\* s waits for the transaction of u.
WaitsFor(s, u) ==
    \/ phase[s] = "write" /\ Head(todo[s]) \in DOMAIN own[u]
    \/ /\ phase[s] \in {"delete", "insert"} /\ phase[u] = "insert"
       /\ Now(u).of = Now(s).of
       /\ \/ phase[s] = "delete" /\ target[s] \cap target[u] # {}
          \/ phase[s] = "insert" /\ Clashes(s, Now(s).of, target[u] \ target[s])

Waiting(s) == \E u \in Sessions \ {s} : WaitsFor(s, u)

\* Variant that must break TypeOK: the session keeps what it wrote.
CloseKeepingWrites(s) ==
    /\ phase' = [phase EXCEPT ![s] = "closed"]
    /\ program' = [program EXCEPT ![s] = <<>>]
    /\ saw' = [saw EXCEPT ![s] = <<>>]
    /\ todo' = [todo EXCEPT ![s] = <<>>]
    /\ priced' = [priced EXCEPT ![s] = {}]
    /\ rows' = [rows EXCEPT ![s] = {}]
    /\ target' = [target EXCEPT ![s] = {}]
    /\ UNCHANGED <<own, company>>

\* The transaction of s ends.
Close(s) ==
    /\ phase' = [phase EXCEPT ![s] = "closed"]
    /\ program' = [program EXCEPT ![s] = <<>>]
    /\ own' = [own EXCEPT ![s] = <<>>]
    /\ saw' = [saw EXCEPT ![s] = <<>>]
    /\ todo' = [todo EXCEPT ![s] = <<>>]
    /\ priced' = [priced EXCEPT ![s] = {}]
    /\ rows' = [rows EXCEPT ![s] = {}]
    /\ target' = [target EXCEPT ![s] = {}]
    /\ UNCHANGED company

Rollback(s) == Close(s) /\ UNCHANGED <<db, stored, found>>

\* s has done its step, or goes on with the writes w of it.
GoOn(s, w) ==
    /\ todo' = [todo EXCEPT ![s] = w]
    /\ IF w = <<>>
         THEN /\ phase' = [phase EXCEPT ![s] = "next"]
              /\ program' = [program EXCEPT ![s] = Tail(@)]
              /\ saw' = [saw EXCEPT ![s] = <<>>]
         ELSE /\ phase' = [phase EXCEPT ![s] = "write"]
              /\ UNCHANGED <<program, saw>>

Begin(s, p) ==
    /\ phase[s] = "idle"
    /\ phase' = [phase EXCEPT ![s] = "next"]
    /\ program' = [program EXCEPT ![s] = p]
    /\ LET others == {u \in Sessions : Open(u)} IN
       company' = IF others = {} THEN company ELSE company \cup others \cup {s}
    /\ UNCHANGED <<db, stored, own, saw, todo, priced, rows, target, found>>

At(s, acts) == phase[s] = "next" /\ program[s] # <<>> /\ Now(s).act \in acts

\* Variant that must break SignalsMixOnlyIfDisjoint: the analysis takes whatever
\* is cached.
ExpireNothing(s) ==
    /\ At(s, {"expire"})
    /\ GoOn(s, <<>>)
    /\ found' = [found EXCEPT ![s] = {k \in Now(s).keys : db[k] # "none"}]
    /\ UNCHANGED <<db, stored, own, priced, rows, target, company>>

\* The UPDATE that makes the cached quotes old: it takes the rows it finds, in
\* the order of its scan.
Expire(s) ==
    /\ At(s, {"expire"})
    /\ LET there == {k \in Now(s).keys : db[k] # "none"} IN
       /\ \E order \in SetToSeqs(there) : GoOn(s, order)
       /\ found' = [found EXCEPT ![s] = there]
    /\ UNCHANGED <<db, stored, own, priced, rows, target, company>>

\* The SELECT of a refresh.  What is fresh is not asked for, nor the rate of a
\* position without a price.
Read(s) ==
    /\ At(s, {"quotes", "rate", "tobase", "feed"})
    /\ LET keys == IF Now(s).act = "rate" /\ Now(s).of \notin priced[s]
                     THEN {} ELSE Now(s).keys
           missing == {k \in keys : View(s, k) # "new"} IN
       /\ priced' = IF Now(s).act = "quotes"
                      THEN [priced EXCEPT ![s] = {k \in keys : View(s, k) # "none"}]
                      ELSE priced
       /\ IF missing = {}
            THEN GoOn(s, <<>>)
            ELSE /\ phase' = [phase EXCEPT ![s] = "ask"]
                 /\ saw' = [saw EXCEPT ![s] = [k \in missing |-> View(s, k)]]
                 /\ UNCHANGED <<program, todo>>
    /\ UNCHANGED <<db, stored, own, rows, target, company, found>>

\* A flush updates in primary key order and then inserts in the order of adding.
FlushOrders(s, answered) ==
    LET updated == {k \in answered : InPlace(k) /\ saw[s][k] = "old"}
        sorted == {q \in SetToSeqs(updated) : \A i, j \in DOMAIN q : i < j => q[i][2] < q[j][2]}
    IN  {order[1] \o order[2] : order \in sorted \X SetToSeqs(answered \ updated)}

\* The provider answers for some of the keys, for none if it fails.  Addresses
\* of headlines are read once more.  A rate falls back on an older one.
Answer(s) ==
    /\ phase[s] = "ask"
    /\ \E answered \in SUBSET DOMAIN saw[s] :
          /\ Now(s).act = "rate" /\ answered = {} =>
                \A k \in Now(s).keys : View(s, k) # "none"
          /\ LET written == {k \in answered : k[1] = "news" => View(s, k) # "new"}
             IN  \E order \in FlushOrders(s, written) : GoOn(s, order)
          /\ priced' = IF Now(s).act = "quotes"
                         THEN [priced EXCEPT ![s] = @ \cup answered]
                         ELSE priced
    /\ UNCHANGED <<db, stored, own, rows, target, company, found>>

\* get_rate: no answer and no row to fall back on.
Raise(s) ==
    /\ phase[s] = "ask"
    /\ Now(s).act = "rate"
    /\ \A k \in Now(s).keys : View(s, k) = "none"
    /\ Rollback(s)

\* A write meets a row that s did not see when it read.
Unseen(s, k) ==
    /\ Now(s).act # "expire"
    /\ IF InPlace(k) THEN saw[s][k] = "none" /\ db[k] # "none" ELSE db[k] = "new"

Write(s) ==
    /\ phase[s] = "write" /\ ~Waiting(s)
    /\ LET k == Head(todo[s]) IN
       /\ ~Unseen(s, k)
       /\ own' = [own EXCEPT ![s] =
                    [l \in DOMAIN @ \cup {k} |->
                        IF l # k THEN @[l] ELSE IF Now(s).act = "expire" THEN "old" ELSE "new"]]
    /\ GoOn(s, Tail(todo[s]))
    /\ UNCHANGED <<db, stored, priced, rows, target, company, found>>

\* IntegrityError: the session can only roll back, whoever catches it.
WriteFails(s) ==
    /\ phase[s] = "write" /\ ~Waiting(s)
    /\ Unseen(s, Head(todo[s]))
    /\ Rollback(s)

\* Variant that must break AloneExact: the new snapshot is added to the old one.
DeleteNothing(s) ==
    /\ At(s, {"replace"})
    /\ phase' = [phase EXCEPT ![s] = "delete"]
    /\ target' = [target EXCEPT ![s] = {}]
    /\ \E items \in SUBSET Items : rows' = [rows EXCEPT ![s] = items]
    /\ UNCHANGED <<db, stored, program, own, saw, todo, priced, company, found>>

\* The DELETE of the old snapshot finds the rows that are committed.
Delete(s) ==
    /\ At(s, {"replace"})
    /\ phase' = [phase EXCEPT ![s] = "delete"]
    /\ target' = [target EXCEPT ![s] = stored[Now(s).of]]
    /\ \E items \in SUBSET Items : rows' = [rows EXCEPT ![s] = items]
    /\ UNCHANGED <<db, stored, program, own, saw, todo, priced, company, found>>

\* It waits for rows another session has deleted, and skips those that are gone.
Lock(s) ==
    /\ phase[s] = "delete" /\ ~Waiting(s)
    /\ phase' = [phase EXCEPT ![s] = "insert"]
    /\ target' = [target EXCEPT ![s] = @ \cap stored[Now(s).of]]
    /\ UNCHANGED <<db, stored, program, own, saw, todo, priced, rows, company, found>>

Committed(s) == db' = [k \in Keys |-> View(s, k)]

Replace(s) ==
    /\ phase[s] = "insert" /\ ~Waiting(s)
    /\ LET table == Now(s).of
           kept == stored[table] \ target[s] IN
       /\ ~Clashes(s, table, kept)
       /\ stored' = [stored EXCEPT ![table] = kept \cup ({s} \X rows[s])]
    /\ Committed(s)
    /\ Close(s)
    /\ UNCHANGED found

ReplaceFails(s) ==
    /\ phase[s] = "insert" /\ ~Waiting(s)
    /\ Clashes(s, Now(s).of, stored[Now(s).of] \ target[s])
    /\ Rollback(s)

\* A session that replaces nothing commits the rows it cached.
Commit(s) ==
    /\ phase[s] = "next" /\ program[s] = <<>>
    /\ Committed(s)
    /\ Close(s)
    /\ UNCHANGED <<stored, found>>

\* PostgreSQL finds sessions that all wait for one another and aborts one.
Deadlocked(s) ==
    \E C \in SUBSET Sessions :
        s \in C /\ \A u \in C : \E v \in C \ {u} : WaitsFor(u, v)

\* The victim rolls back.
AbortVictim(s) == Deadlocked(s) /\ Rollback(s)

\* The task is cancelled, or the process stops.
Abort(s) == Open(s) /\ Rollback(s)

\* The time of a cached row is over, or a day ends.
Expires(k) ==
    /\ db[k] = "new"
    /\ db' = [db EXCEPT ![k] = "old"]
    /\ UNCHANGED <<stored, session, company, found>>

-----------------------------------------------------------------------------

Init ==
    /\ db \in StartDb
    /\ \E items \in {{}, Items} :
          /\ items = {} <=> \A k \in Keys : db[k] = "none"
          /\ stored = [t \in Tables |-> {None} \X items]
    /\ phase = [s \in Sessions |-> "idle"]
    /\ program = [s \in Sessions |-> <<>>]
    /\ own = [s \in Sessions |-> <<>>]
    /\ saw = [s \in Sessions |-> <<>>]
    /\ todo = [s \in Sessions |-> <<>>]
    /\ priced = [s \in Sessions |-> {}]
    /\ rows = [s \in Sessions |-> {}]
    /\ target = [s \in Sessions |-> {}]
    /\ company = {}
    /\ found = [s \in Sessions |-> {}]

Step(s) ==
    \/ Expire(s) \/ Read(s) \/ Answer(s) \/ Raise(s)
    \/ Write(s) \/ WriteFails(s)
    \/ Delete(s) \/ Lock(s) \/ Replace(s) \/ ReplaceFails(s)
    \/ Commit(s) \/ AbortVictim(s)

Next ==
    \/ \E s \in Sessions :
          \/ Step(s)
          \/ Abort(s)
          \/ \E p \in Programs : Begin(s, p)
    \/ \E k \in Keys : Expires(k)

Spec == Init /\ [][Next]_vars

-----------------------------------------------------------------------------

(***************************************************************************)
(* Properties                                                              *)
(***************************************************************************)

\* Nothing in the engine keeps two analyses of one portfolio apart: boot, cron
\* and request each delete what they find and insert their own.  What does is
\* the UPDATE that expires the cached quotes, whose row locks last until the
\* commit.  So the signals of two analyses stand side by side only if no cached
\* quote was there for both: one found none, or a position was edited between
\* them.  What was stored at the start is never mixed with what is written.
SignalsMixOnlyIfDisjoint ==
    \A p \in ToSet(Portfolios) : \A r, q \in stored[p] :
        r[1] # q[1] => {r[1], q[1]} \subseteq Sessions /\ found[r[1]] \cap found[q[1]] = {}

\* A session that met no other never fails on a constraint or a lock (what it
\* expires, reads and writes again fits its own earlier writes), and the table
\* it replaces holds its rows and no others.
AloneExact ==
    [][\A s \in Sessions \ company :
          /\ ~(WriteFails(s) \/ ReplaceFails(s) \/ AbortVictim(s))
          /\ Replace(s) => stored'[Now(s).of] = {s} \X rows[s]]_vars
=============================================================================
