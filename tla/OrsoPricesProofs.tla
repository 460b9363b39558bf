-------------------------- MODULE OrsoPricesProofs --------------------------
(***************************************************************************)
(* Any number of overlapping refreshes and entries keep the stored prices  *)
(* whole, a manual price manual, and the feed from being asked again.      *)
(***************************************************************************)
EXTENDS OrsoPrices, FiniteSetTheorems, SequenceTheorems, WellFoundedInduction, TLAPS

Work == [key : Keys, price : Nat]
Ended(r) == pc[r] \in {"done", "failed"}
MetAny(r) == \E q \in Requests : Met(r, q)

Typed ==
    /\ DOMAIN rows \subseteq Keys /\ \A k \in DOMAIN rows : rows[k] \in Row
    /\ clock \in Nat /\ StartTime <= clock /\ clock <= MaxTime
    /\ pc \in [Requests -> {"idle", "check", "find", "put", "done", "failed"}]
    /\ body \in [Requests -> Bodies \cup {None}]
    /\ start \in [Requests -> Nat]
    /\ before \in [Requests -> SUBSET Requests]
    /\ todo \in [Requests -> Seq(Funds)]
    /\ fresh \in [Requests -> SUBSET Funds]
    /\ stale \in [Requests -> Seq(Funds)]
    /\ held \in [Requests -> Kept \cup {None}]
    /\ work \in [Requests -> Seq(Work)]
    /\ loaded \in [Requests -> Row \cup {None}]
    /\ pending = [r \in Requests |-> pending[r]]
    /\ \A r \in Requests : DOMAIN pending[r] \subseteq Keys

\* A request that has not begun holds nothing, one that has ended no row.
Places ==
    \A r \in Requests :
        /\ pc[r] = "idle" =>
              /\ before[r] = {} /\ fresh[r] = {} /\ stale[r] = << >>
              /\ work[r] = << >> /\ DOMAIN pending[r] = {}
        /\ pc[r] # "idle" => body[r] \in Bodies
        /\ pc[r] = "check" => IsRefresh(r)
        /\ pc[r] = "put" => work[r] # << >>
        /\ pc[r] # "put" => loaded[r] = None
        /\ Open(r) \/ held[r] = None

\* Requests that were over when one began had begun no later than it.
Order ==
    \A r \in Requests :
        /\ start[r] <= clock
        /\ \A q \in before[r] : Ended(q) /\ start[q] <= start[r]

\* What a refresh has not looked at is neither fresh nor stale.
Todo ==
    \A r \in Requests : pc[r] = "check" =>
        /\ \A i, j \in DOMAIN todo[r] : todo[r][i] = todo[r][j] => i = j
        /\ \A i \in DOMAIN todo[r] : todo[r][i] \notin fresh[r] \cup ToSet(stale[r])
        /\ fresh[r] \cap ToSet(stale[r]) = {}

\* A row belongs to no flush of two open requests.
Apart ==
    \A r, q \in Requests :
        r # q /\ Open(r) /\ Open(q) => DOMAIN pending[r] \cap DOMAIN pending[q] = {}

\* A committed entry's author has committed; an initial row is still there.
Authors ==
    /\ DOMAIN Initial \subseteq DOMAIN rows
    /\ \A k \in DOMAIN rows : rows[k].by # None => pc[rows[k].by] = "done"

\* What request r read as row k: what is stored, unless r has met another
\* request.  Even then it missed no manual price but one of a request it met.
Snap(r, k, L) ==
    /\ k \in DOMAIN rows /\ L.by # r
    /\ \/ L = rows[k]
       \/ /\ MetAny(r)
          /\ L.source = "manual" => rows[k].source = "manual"
          /\ L.source # "manual" /\ rows[k].source = "manual" =>
                rows[k].by # None /\ Met(r, rows[k].by)

Snaps ==
    \A r \in Requests :
        /\ held[r] # None => Snap(r, held[r].key, held[r].row)
        /\ loaded[r] # None =>
              /\ Snap(r, Key(r), loaded[r])
              /\ IsRefresh(r) => loaded[r].source # "manual"

\* The price is one that request r was asked to store.
Asked(r, k, price) ==
    IsRefresh(r) \/ \E i \in DOMAIN body[r].prices :
        /\ body[r].prices[i].fund = k[1] /\ DayOf(start[r]) - body[r].prices[i].age = k[2]
        /\ body[r].prices[i].price = price

\* The columns an open request has flushed: all of a new row, or those that
\* differ from what it had read.
Flushed(r, k) ==
    \E price \in Nat :
        /\ Asked(r, k, price)
        /\ IF k \notin DOMAIN rows THEN pending[r][k] = Columns(r, price)
           ELSE \E L \in Row :
                   /\ Snap(r, k, L) /\ (IsRefresh(r) => L.source # "manual")
                   /\ pending[r][k] = Changed(Columns(r, price), L)

Writes ==
    \A r \in Requests :
        /\ \A i \in DOMAIN work[r] : Asked(r, work[r][i].key, work[r][i].price)
        /\ Open(r) => \A k \in DOMAIN pending[r] : Flushed(r, k)

\* The rows of a request that met nobody are as new as it is.
Stored ==
    \A r \in Requests : pc[r] = "done" /\ ~MetAny(r) =>
        \A k \in DOMAIN pending[r] : k \in DOMAIN rows /\ start[r] <= rows[k].fetched

IInv ==
    /\ Typed /\ Places /\ Order /\ Todo /\ Apart /\ Authors /\ Snaps /\ Writes /\ Stored
    /\ ManualPriceOnlyByRace /\ NoRepeatFetch

-----------------------------------------------------------------------------
\* Lemmas about the operators

LEMMA MetBoth == ASSUME NEW r, NEW q, Met(r, q) PROVE Met(q, r)
  BY DEF Met

LEMMA OpenMet ==
    ASSUME Order, NEW r \in Requests, NEW q \in Requests, r # q, Open(r), Open(q)
    PROVE  Met(r, q)
  BY DEF Order, Ended, Open, Met

\* A non-empty set of natural numbers has a least element.
LEMMA LeastNatural ==
    ASSUME NEW T \in SUBSET Nat, T # {}
    PROVE  \E x \in T : \A y \in T : x <= y
  <1> DEFINE R == {ss \in Nat \X Nat : ss[1] < ss[2]}
  <1>1. IsWellFoundedOn(R, Nat)
    BY NatLessThanWellFounded DEF OpToRel
  <1>2. \A x, y \in Nat : <<y, x>> \in R <=> y < x
    OBVIOUS
  <1> HIDE DEF R
  <1>3. PICK x \in T : \A y \in T : ~ <<y, x>> \in R
    BY <1>1, WFMin
  <1>4. ASSUME NEW y \in T PROVE x <= y
    <2>1. x \in Nat /\ y \in Nat
      OBVIOUS
    <2>2. ~ (y < x)
      BY <1>2, <1>3, <2>1
    <2>3. QED
      BY <2>1, <2>2
  <1>5. QED
    BY <1>4

\* The latest usable entry of a list is an entry of that fund.
LEMMA Parsed ==
    ASSUME NEW list \in Seq(Entry), NEW f \in DOMAIN Parse(list)
    PROVE  f \in Funds /\ Parse(list)[f] \in Entry
  <1> DEFINE U == Usable(list, f)
             Late(i) == \A j \in U : j <= i
             Below == {Len(list) - i : i \in U}
  <1>1. f \in Funds /\ U # {} /\ U \subseteq DOMAIN list
    BY DEF Parse, Usable
  <1>2. Len(list) \in Nat /\ DOMAIN list = 1..Len(list)
    OBVIOUS
  <1>3. Below \subseteq Nat /\ Below # {}
    BY <1>1, <1>2
  <1>4. PICK x \in Below : \A y \in Below : x <= y
    BY <1>3, LeastNatural
  <1>5. PICK i \in U : x = Len(list) - i
    BY <1>4
  <1>6. ASSUME NEW j \in U PROVE j <= i
    <2>1. Len(list) - j \in Below
      OBVIOUS
    <2>2. x <= Len(list) - j
      BY <1>4, <2>1
    <2>3. QED
      BY <1>1, <1>2, <1>5, <2>2
  <1>7. (CHOOSE k \in U : Late(k)) \in U
    BY <1>5, <1>6
  <1>8. Parse(list)[f] = list[CHOOSE k \in U : Late(k)]
    BY <1>1 DEF Parse
  <1>9. QED
    BY <1>1, <1>2, <1>7, <1>8

LEMMA Ordered ==
    ASSUME NEW S, IsFiniteSet(S), NEW s \in SetToSeqs(S)
    PROVE  /\ s \in Seq(S)
           /\ \A i, j \in DOMAIN s : s[i] = s[j] => i = j
  <1>1. Cardinality(S) \in Nat
    BY FS_CardinalityType
  <1>2. QED
    BY <1>1 DEF SetToSeqs

\* What the feed's answer gives a request to store.
LEMMA AnsweredTyped ==
    ASSUME Typed, NEW r \in Requests, NEW list \in FeedLists,
           NEW listed \in Listed(r, Parse(list))
    PROVE  Answered(r, Parse(list), listed) \in Seq(Work)
  <1> DEFINE dto == Parse(list)
             S == {f \in DOMAIN dto : f \in ToSet(stale[r])}
  <1>1. list \in Seq(Entry) /\ IsFiniteSet(Funds) /\ DayLength \in Nat \ {0}
    BY ConstantsOK
  <1>2. \A f \in DOMAIN dto : f \in Funds /\ dto[f] \in Entry
    BY <1>1, Parsed
  <1>3. S \subseteq Funds /\ IsFiniteSet(S)
    BY <1>1, <1>2, FS_Subset
  <1>4. listed \in Seq(S)
    BY <1>3, Ordered DEF Listed
  <1>5. DayOf(clock) \in Int
    BY <1>1 DEF DayOf, Typed
  <1> HIDE DEF dto
  <1>6. ASSUME NEW i \in DOMAIN listed
        PROVE  [key |-> <<listed[i], DayOf(clock) - dto[listed[i]].age>>,
                price |-> dto[listed[i]].price] \in Work
    <2>1. listed[i] \in Funds /\ dto[listed[i]] \in Entry
      BY <1>2, <1>3, <1>4
    <2>2. QED
      BY <1>5, <2>1 DEF Work, Keys, Entry
  <1>7. DOMAIN listed = 1..Len(listed) /\ Len(listed) \in Nat
    BY <1>4
  <1>8. QED
    BY <1>6, <1>7 DEF Answered, dto

-----------------------------------------------------------------------------
\* Steps

\* A request that ends without a commit was open.
LEMMA Steps ==
    ASSUME [Next]_vars
    PROVE  \/ Tick \/ UNCHANGED vars
           \/ \E r \in Requests :
                 \/ \E b \in Bodies : Begin(r, b)
                 \/ Check(r) \/ FeedAnswers(r) \/ Find(r) \/ Put(r) \/ Commit(r)
                 \/ Open(r) /\ Fail(r)
  BY DEF Next, PutFails, Abort, Open

LEMMA BeginTyped ==
    ASSUME Typed, NEW r \in Requests, NEW b \in Bodies, Begin(r, b)
    PROVE  Typed'
  <1>1. ASSUME NEW order \in SetToSeqs(Funds) PROVE order \in Seq(Funds)
    BY ConstantsOK, Ordered
  <1>2. CASE b.kind = "refresh"
    BY <1>1, <1>2 DEF Begin, Typed
  <1>3. CASE b.kind # "refresh"
    <2> DEFINE prices == b.prices
               asked == [i \in DOMAIN prices |->
                  [key |-> <<prices[i].fund, DayOf(clock) - prices[i].age>>,
                   price |-> prices[i].price]]
    <2>1. prices \in Seq(Entry) /\ DayLength \in Nat \ {0}
      BY <1>3, ConstantsOK DEF IsEntered
    <2>2. DayOf(clock) \in Int
      BY <2>1 DEF DayOf, Typed
    <2> HIDE DEF prices
    <2>3. ASSUME NEW i \in DOMAIN prices PROVE asked[i] \in Work
      <3>1. prices[i] \in Entry
        BY <2>1
      <3>2. QED
        BY <2>2, <3>1 DEF Entry, Work, Keys
    <2>4. asked \in Seq(Work)
      <3>1. DOMAIN prices = 1..Len(prices) /\ Len(prices) \in Nat
        BY <2>1
      <3>2. QED
        BY <2>3, <3>1
    <2>5. work' = [work EXCEPT ![r] = asked]
      BY <1>3 DEF Begin, prices
    <2> HIDE DEF asked
    <2>6. QED
      BY <1>3, <2>4, <2>5 DEF Begin, Typed
  <1>4. QED
    BY <1>2, <1>3

LEMMA CheckTyped ==
    ASSUME Typed, NEW r \in Requests, Check(r)
    PROVE  Typed'
  <1> DEFINE f == Head(todo[r])
  <1>1. f \in Funds /\ Tail(todo[r]) \in Seq(Funds)
    BY DEF Typed, Check
  <1>2. todo' \in [Requests -> Seq(Funds)]
    BY <1>1 DEF Typed, Check
  <1>3. fresh' \in [Requests -> SUBSET Funds]
    <2>1. fresh[r] \cup {f} \in SUBSET Funds
      BY <1>1 DEF Typed
    <2>2. fresh' = fresh \/ fresh' = [fresh EXCEPT ![r] = fresh[r] \cup {f}]
      BY DEF Check
    <2>3. QED
      BY <2>1, <2>2 DEF Typed
  <1>4. stale' \in [Requests -> Seq(Funds)]
    <2>1. Append(stale[r], f) \in Seq(Funds)
      BY <1>1 DEF Typed
    <2>2. stale' = stale \/ stale' = [stale EXCEPT ![r] = Append(stale[r], f)]
      BY DEF Check
    <2>3. QED
      BY <2>1, <2>2 DEF Typed
  <1>5. held' \in [Requests -> Kept \cup {None}]
    BY DEF Typed, Check, Kept, Newest, RowsOf
  <1>6. QED
    BY <1>2, <1>3, <1>4, <1>5 DEF Typed, Check

LEMMA FeedAnswersTyped ==
    ASSUME Typed, NEW r \in Requests, FeedAnswers(r)
    PROVE  Typed'
  <1>1. work' \in [Requests -> Seq(Work)]
    <2>1. CASE UNCHANGED work
      BY <2>1 DEF Typed
    <2>2. ASSUME NEW list \in FeedLists, NEW listed \in Listed(r, Parse(list)),
                 work' = [work EXCEPT ![r] = Answered(r, Parse(list), listed)]
          PROVE  work' \in [Requests -> Seq(Work)]
      BY <2>2, AnsweredTyped DEF Typed
    <2>3. QED
      BY <2>1, <2>2 DEF FeedAnswers
  <1>2. QED
    BY <1>1 DEF Typed, FeedAnswers

LEMMA FindTyped ==
    ASSUME Typed, NEW r \in Requests, Find(r)
    PROVE  /\ Typed'
           /\ Key(r) \in Keys /\ Head(work[r]) \in Work /\ Tail(work[r]) \in Seq(Work)
           /\ RowFor(r) \in Row \cup {None}
  <1>1. Head(work[r]) \in Work /\ Tail(work[r]) \in Seq(Work)
    BY DEF Typed, Find
  <1>2. Key(r) \in Keys
    BY <1>1 DEF Key, Work
  <1>3. RowFor(r) \in Row \cup {None}
    BY DEF Typed, RowFor, Kept
  <1>4. Key(r)[1] \in Funds
    BY <1>2 DEF Keys
  <1>5. fresh' \in [Requests -> SUBSET Funds]
    <2>1. fresh[r] \cup {Key(r)[1]} \in SUBSET Funds
      BY <1>4 DEF Typed
    <2>2. fresh' = fresh \/ fresh' = [fresh EXCEPT ![r] = fresh[r] \cup {Key(r)[1]}]
      BY DEF Find
    <2>3. QED
      BY <2>1, <2>2 DEF Typed
  <1>8. work' \in [Requests -> Seq(Work)]
    BY <1>1 DEF Typed, Find
  <1>6. loaded' \in [Requests -> Row \cup {None}] /\ pc' \in [Requests -> {"idle", "check", "find", "put", "done", "failed"}]
    BY <1>3 DEF Typed, Find
  <1>7. QED
    BY <1>1, <1>2, <1>3, <1>5, <1>6, <1>8 DEF Typed, Find

LEMMA PutTyped ==
    ASSUME Typed, NEW r \in Requests, Put(r), work[r] # << >>
    PROVE  Typed'
  <1>1. Head(work[r]) \in Work /\ Tail(work[r]) \in Seq(Work)
    BY DEF Typed
  <1>2. Key(r) \in Keys /\ Key(r)[1] \in Funds
    BY <1>1 DEF Key, Work, Keys
  <1>3. fresh' \in [Requests -> SUBSET Funds]
    <2>1. fresh[r] \cup {Key(r)[1]} \in SUBSET Funds
      BY <1>2 DEF Typed
    <2>2. fresh' = fresh \/ fresh' = [fresh EXCEPT ![r] = fresh[r] \cup {Key(r)[1]}]
      BY DEF Put, Typed
    <2>3. QED
      BY <2>1, <2>2 DEF Typed
  <1>4. work' \in [Requests -> Seq(Work)]
    BY <1>1 DEF Typed, Put
  <1>5. /\ pending' = [q \in Requests |-> pending'[q]]
        /\ DOMAIN pending'[r] = {Key(r)} \cup DOMAIN pending[r]
        /\ \A q \in Requests \ {r} : pending'[q] = pending[q]
    BY DEF Typed, Put, Over
  <1>6. QED
    BY <1>2, <1>3, <1>4, <1>5 DEF Typed, Put

\* The row an UPDATE of the changed columns leaves.
LEMMA Updated ==
    ASSUME Typed, NEW r \in Requests, NEW price \in Nat,
           NEW L \in Row, NEW R \in Row, L.by # r,
           NEW new, new = Over(Changed(Columns(r, price), L), R)
    PROVE  /\ new \in Row
           /\ IsRefresh(r) /\ L.source # "manual" => new.source = R.source /\ new.by = R.by
           /\ ~IsRefresh(r) => new.by = r
           /\ ~IsRefresh(r) /\ (L.source = "manual" => R.source = "manual") => new.source = "manual"
           /\ L = R => new.price = price /\ new.fetched = start[r]
           /\ new.fetched \in {start[r], R.fetched}
  <1>1. L # None /\ start[r] \in Int
    BY ConstantsOK DEF Typed
  <1>2. CASE IsRefresh(r)
    BY <1>1, <1>2 DEF Over, Changed, Columns, Row
  <1>3. CASE ~IsRefresh(r)
    BY <1>1, <1>3 DEF Over, Changed, Columns, Row
  <1>4. QED
    BY <1>2, <1>3

\* The row an INSERT leaves.
LEMMA Inserted ==
    ASSUME Typed, NEW r \in Requests, NEW price \in Nat,
           NEW new, new = Over(Columns(r, price), [by |-> None])
    PROVE  /\ new \in Row /\ new.price = price /\ new.fetched = start[r]
           /\ IsRefresh(r) => new.source = "hsbc" /\ new.by = None
           /\ ~IsRefresh(r) => new.source = "manual" /\ new.by = r
  <1>1. start[r] \in Int
    BY DEF Typed
  <1>2. CASE IsRefresh(r)
    BY <1>1, <1>2 DEF Over, Columns, Row
  <1>3. CASE ~IsRefresh(r)
    BY <1>1, <1>3 DEF Over, Columns, Row
  <1>4. QED
    BY <1>2, <1>3

\* What a commit does to the rows.
LEMMA Committed ==
    ASSUME Typed, Writes, NEW r \in Requests, Commit(r), NEW k \in DOMAIN pending[r]
    PROVE  /\ rows'[k] \in Row
           /\ k \in DOMAIN rows /\ rows[k].source = "manual" => rows'[k].source = "manual"
           /\ IsRefresh(r) /\ rows'[k].source = "manual" =>
                 k \in DOMAIN rows /\ rows[k].source = "manual"
           /\ IsRefresh(r) => rows'[k].by = IF k \in DOMAIN rows THEN rows[k].by ELSE None
           /\ ~IsRefresh(r) => rows'[k].source = "manual" /\ rows'[k].by = r
           /\ MetAny(r) \/ (rows'[k].fetched = start[r] /\ Asked(r, k, rows'[k].price))
           /\ rows'[k].fetched = start[r] \/ (k \in DOMAIN rows /\ rows'[k].fetched = rows[k].fetched)
           /\ IsRefresh(r) /\ k \in DOMAIN rows /\ rows[k].source = "manual" =>
                 rows[k].by # None /\ Met(r, rows[k].by)
  <1>1. /\ Flushed(r, k) /\ k \in Keys
        /\ rows'[k] = IF k \in DOMAIN rows THEN Over(pending[r][k], rows[k])
                      ELSE Over(pending[r][k], [by |-> None])
    BY DEF Writes, Commit, Open, Typed
  <1>2. PICK price \in Nat :
          /\ Asked(r, k, price)
          /\ IF k \notin DOMAIN rows THEN pending[r][k] = Columns(r, price)
             ELSE \E L \in Row :
                     /\ Snap(r, k, L) /\ (IsRefresh(r) => L.source # "manual")
                     /\ pending[r][k] = Changed(Columns(r, price), L)
    BY <1>1 DEF Flushed
  <1>3. CASE k \notin DOMAIN rows
    BY <1>1, <1>2, <1>3, Inserted
  <1>4. CASE k \in DOMAIN rows
    <2>1. PICK L \in Row :
            /\ Snap(r, k, L) /\ (IsRefresh(r) => L.source # "manual")
            /\ pending[r][k] = Changed(Columns(r, price), L)
      BY <1>2, <1>4
    <2>2. rows[k] \in Row /\ L.by # r /\ (L.source = "manual" => rows[k].source = "manual")
      BY <1>4, <2>1 DEF Typed, Snap
    <2>3. rows'[k] = Over(Changed(Columns(r, price), L), rows[k])
      BY <1>1, <1>4, <2>1
    <2>4. MetAny(r) \/ L = rows[k]
      BY <2>1 DEF Snap
    <2>5. /\ rows'[k] \in Row
          /\ IsRefresh(r) => rows'[k].source = rows[k].source /\ rows'[k].by = rows[k].by
          /\ ~IsRefresh(r) => rows'[k].source = "manual" /\ rows'[k].by = r
          /\ L = rows[k] => rows'[k].price = price /\ rows'[k].fetched = start[r]
          /\ rows'[k].fetched = start[r] \/ rows'[k].fetched = rows[k].fetched
      BY <2>1, <2>2, <2>3, Updated
    <2>6. IsRefresh(r) /\ rows[k].source = "manual" => rows[k].by # None /\ Met(r, rows[k].by)
      BY <2>1 DEF Snap
    <2>7. MetAny(r) \/ (rows'[k].fetched = start[r] /\ Asked(r, k, rows'[k].price))
      BY <1>2, <2>4, <2>5
    <2>8. QED
      BY <1>4, <2>2, <2>5, <2>6, <2>7
  <1>5. QED
    BY <1>3, <1>4

LEMMA TypedStep ==
    ASSUME Typed, Places, Writes, [Next]_vars
    PROVE  Typed'
  <1>1. ASSUME Tick PROVE Typed'
    <2>1. clock + 1 \in Nat /\ clock + 1 <= MaxTime /\ StartTime <= clock + 1
      BY <1>1, ConstantsOK DEF Tick, Typed
    <2>2. QED
      BY <1>1, <2>1 DEF Tick, Typed, local
  <1>2. ASSUME NEW r \in Requests, Commit(r) PROVE Typed'
    <2>1. DOMAIN rows' = DOMAIN rows \cup DOMAIN pending[r]
      BY <1>2 DEF Commit
    <2>2. ASSUME NEW k \in DOMAIN rows' PROVE k \in Keys /\ rows'[k] \in Row
      <3>1. CASE k \in DOMAIN pending[r]
        BY <1>2, <3>1, Committed DEF Typed
      <3>2. CASE k \notin DOMAIN pending[r]
        BY <1>2, <2>1, <3>2 DEF Typed, Commit
      <3>3. QED
        BY <3>1, <3>2
    <2>3. << >> \in Seq(Funds) /\ << >> \in Seq(Work)
      OBVIOUS
    <2>4. QED
      BY <1>2, <2>2, <2>3 DEF Commit, Finish, Typed
  <1>3. ASSUME NEW r \in Requests, Fail(r) PROVE Typed'
    <2>1. << >> \in Seq(Funds) /\ << >> \in Seq(Work) /\ DOMAIN << >> = {}
      OBVIOUS
    <2>2. /\ pending' = [q \in Requests |-> pending'[q]]
          /\ \A q \in Requests : DOMAIN pending'[q] \subseteq Keys
      BY <1>3, <2>1 DEF Fail, Typed
    <2>3. QED
      BY <1>3, <2>1, <2>2 DEF Fail, Finish, Typed
  <1>4. ASSUME NEW r \in Requests, Put(r) PROVE Typed'
    BY <1>4, PutTyped DEF Places, Put
  <1>5. ASSUME UNCHANGED vars PROVE Typed'
    BY <1>5 DEF vars, Typed
  <1>6. ASSUME NEW r \in Requests, NEW b \in Bodies, Begin(r, b) PROVE Typed'
    BY <1>6, BeginTyped
  <1>7. ASSUME NEW r \in Requests, Check(r) \/ FeedAnswers(r) \/ Find(r) PROVE Typed'
    BY <1>7, CheckTyped, FeedAnswersTyped, FindTyped
  <1>8. QED
    BY <1>1, <1>2, <1>3, <1>4, <1>5, <1>6, <1>7, Steps

LEMMA PlacesStep ==
    ASSUME Typed, Places, [Next]_vars
    PROVE  Places'
  <1>1. ASSUME Tick PROVE Places'
    BY <1>1 DEF Tick, Places, IsRefresh, Open, local
  <1>2. ASSUME NEW r \in Requests, NEW b \in Bodies, Begin(r, b) PROVE Places'
    BY <1>2 DEF Begin, IsRefresh, Places, Open, Typed
  <1>3. ASSUME NEW r \in Requests, Check(r) PROVE Places'
    BY <1>3 DEF Check, Places, IsRefresh, Open, Typed
  <1>4. ASSUME NEW r \in Requests, FeedAnswers(r) PROVE Places'
    BY <1>4 DEF FeedAnswers, Places, IsRefresh, Open, Typed
  <1>5. ASSUME NEW r \in Requests, Find(r) PROVE Places'
    <2>1. /\ UNCHANGED <<body, before, stale, held, pending>>
          /\ \A q \in Requests \ {r} :
                pc'[q] = pc[q] /\ fresh'[q] = fresh[q] /\ work'[q] = work[q] /\ loaded'[q] = loaded[q]
          /\ pc[r] = "find" /\ pc'[r] \in {"find", "put"}
          /\ pc'[r] = "put" => work'[r] # << >>
          /\ pc'[r] = "find" => loaded'[r] = loaded[r]
      BY <1>5 DEF Find, Typed
    <2>2. QED
      BY <2>1 DEF Places, IsRefresh, Open
  <1>6. ASSUME NEW r \in Requests, Put(r) PROVE Places'
    BY <1>6 DEF Put, Places, IsRefresh, Open, Typed
  <1>7. ASSUME NEW r \in Requests, Commit(r) PROVE Places'
    BY <1>7 DEF Commit, Finish, Places, IsRefresh, Open, Typed
  <1>8. ASSUME NEW r \in Requests, Open(r), Fail(r) PROVE Places'
    BY <1>8 DEF Fail, Finish, Places, IsRefresh, Open, Typed
  <1>9. ASSUME UNCHANGED vars PROVE Places'
    BY <1>9 DEF vars, Places, IsRefresh, Open
  <1>10. QED
    BY <1>1, <1>2, <1>3, <1>4, <1>5, <1>6, <1>7, <1>8, <1>9, Steps

\* What a step does to the times and places of requests: a request leaves its
\* end never, and its history is fixed when it begins.
LEMMA History ==
    ASSUME Typed, [Next]_vars, NEW q \in Requests
    PROVE  /\ Ended(q) => pc'[q] = pc[q]
           /\ pc[q] # "idle" =>
                 pc'[q] # "idle" /\ body'[q] = body[q] /\ start'[q] = start[q] /\ before'[q] = before[q]
           /\ pc'[q] # "idle" /\ pc[q] = "idle" =>
                 start'[q] = clock /\ before'[q] = {p \in Requests : Ended(p)}
           /\ pc'[q] = "idle" => start'[q] = start[q] /\ before'[q] = before[q]
           /\ clock <= clock' /\ clock' \in Nat
  <1>0. clock \in Nat /\ clock <= clock + 1
    BY DEF Typed
  <1>1. ASSUME Tick PROVE UNCHANGED <<pc, body, start, before>> /\ clock <= clock' /\ clock' \in Nat
    BY <1>0, <1>1 DEF Tick, local
  <1>2. ASSUME NEW r \in Requests, NEW b \in Bodies, Begin(r, b)
        PROVE  /\ pc[r] = "idle" /\ pc'[r] # "idle" /\ start'[r] = clock
               /\ before'[r] = {p \in Requests : Ended(p)} /\ UNCHANGED clock
               /\ \A p \in Requests \ {r} :
                     /\ pc'[p] = pc[p] /\ body'[p] = body[p]
                     /\ start'[p] = start[p] /\ before'[p] = before[p]
    BY <1>2 DEF Begin, Ended, Typed
  <1>3. ASSUME NEW r \in Requests,
               Check(r) \/ FeedAnswers(r) \/ Find(r) \/ Put(r) \/ Commit(r) \/ (Open(r) /\ Fail(r))
        PROVE  /\ Open(r) /\ pc'[r] # "idle" /\ UNCHANGED <<body, start, before, clock>>
               /\ \A p \in Requests \ {r} : pc'[p] = pc[p]
    BY <1>3 DEF Check, FeedAnswers, Find, Put, Commit, Finish, Fail, Open, Typed
  <1>4. ASSUME UNCHANGED vars PROVE UNCHANGED <<pc, body, start, before, clock>>
    BY <1>4 DEF vars
  <1>5. QED
    BY <1>0, <1>1, <1>2, <1>3, <1>4, Steps DEF Ended, Open

LEMMA MetStable ==
    ASSUME Typed, [Next]_vars, NEW r \in Requests, NEW q \in Requests, Met(r, q)
    PROVE  Met(r, q)'
  BY History DEF Met

LEMMA MetAnyStable ==
    ASSUME Typed, [Next]_vars, NEW r \in Requests, MetAny(r)
    PROVE  MetAny(r)'
  BY MetStable DEF MetAny

LEMMA OrderStep ==
    ASSUME Typed, Places, Order, [Next]_vars
    PROVE  Order'
  <1> SUFFICES ASSUME NEW r \in Requests
               PROVE  /\ start'[r] <= clock'
                      /\ \A q \in before'[r] : Ended(q)' /\ start'[q] <= start'[r]
    BY DEF Order
  <1>1. /\ start \in [Requests -> Nat] /\ clock \in Nat /\ before[r] \in SUBSET Requests
        /\ clock <= clock' /\ clock' \in Nat
    BY History DEF Typed
  <1>2. CASE pc[r] # "idle" \/ pc'[r] = "idle"
    <2>1. start'[r] = start[r] /\ before'[r] = before[r]
      BY <1>2, History
    <2>2. ASSUME NEW q \in before[r] PROVE Ended(q)' /\ start'[q] = start[q] /\ start[q] <= start[r]
      BY <1>1, History DEF Order, Ended
    <2>3. QED
      BY <1>1, <2>1, <2>2 DEF Order
  <1>3. CASE pc[r] = "idle" /\ pc'[r] # "idle"
    <2>1. start'[r] = clock /\ before'[r] = {q \in Requests : Ended(q)}
      BY <1>3, History
    <2>2. ASSUME NEW q \in Requests, Ended(q) PROVE Ended(q)' /\ start'[q] = start[q] /\ start[q] <= clock
      BY <2>2, History DEF Order, Ended
    <2>3. QED
      BY <1>1, <2>1, <2>2
  <1>4. QED
    BY <1>2, <1>3

LEMMA Appended ==
    ASSUME NEW S, NEW s \in Seq(S), NEW x \in S
    PROVE  ToSet(Append(s, x)) = ToSet(s) \cup {x}
  <1>1. /\ DOMAIN Append(s, x) = 1..(Len(s) + 1) /\ DOMAIN s = 1..Len(s) /\ Len(s) \in Nat
        /\ \A i \in 1..Len(s) : Append(s, x)[i] = s[i]
        /\ Append(s, x)[Len(s) + 1] = x
    OBVIOUS
  <1>2. QED
    BY <1>1 DEF ToSet

LEMMA Removed ==
    ASSUME NEW S, NEW s \in Seq(S), s # << >>
    PROVE  /\ Head(s) = s[1] /\ 1 \in DOMAIN s
           /\ \A i \in DOMAIN Tail(s) : Tail(s)[i] = s[i + 1] /\ i + 1 \in DOMAIN s /\ i \in Nat \ {0}
  OBVIOUS

LEMMA TodoStep ==
    ASSUME Typed, Places, Todo, [Next]_vars
    PROVE  Todo'
  <1>1. ASSUME NEW r \in Requests, NEW b \in Bodies, Begin(r, b) PROVE Todo'
    <2>1. ASSUME NEW q \in Requests \ {r}
          PROVE  /\ pc'[q] = pc[q] /\ todo'[q] = todo[q] /\ fresh'[q] = fresh[q] /\ stale'[q] = stale[q]
      BY <1>1 DEF Begin, Typed
    <2>2. fresh'[r] = {}
      BY <1>1 DEF Begin, Places
    <2>3. stale'[r] = << >> /\ ToSet(stale'[r]) = {}
      <3>1. stale'[r] = << >>
        BY <1>1 DEF Begin, Places
      <3>2. QED
        BY <3>1 DEF ToSet
    <2>4. pc'[r] = "check" => \A i, j \in DOMAIN todo'[r] : todo'[r][i] = todo'[r][j] => i = j
      <3>1. pc'[r] = "check" => todo'[r] \in SetToSeqs(Funds)
        BY <1>1 DEF Begin, Typed
      <3>2. QED
        BY <3>1, ConstantsOK, Ordered
    <2>5. QED
      BY <2>1, <2>2, <2>3, <2>4 DEF Todo
  <1>2. ASSUME NEW r \in Requests, Check(r) PROVE Todo'
    <2> DEFINE f == Head(todo[r])
    <2>1. ASSUME NEW q \in Requests \ {r}
          PROVE  /\ pc'[q] = pc[q] /\ todo'[q] = todo[q] /\ fresh'[q] = fresh[q] /\ stale'[q] = stale[q]
      BY <1>2 DEF Check, Typed
    <2>2. /\ pc[r] = "check" /\ pc'[r] = "check" /\ todo[r] # << >> /\ todo'[r] = Tail(todo[r])
          /\ todo[r] \in Seq(Funds) /\ f \in Funds /\ stale[r] \in Seq(Funds)
      BY <1>2 DEF Check, Typed
    <2>3. \/ fresh'[r] = fresh[r] \cup {f} /\ stale'[r] = stale[r]
          \/ fresh'[r] = fresh[r] /\ stale'[r] = Append(stale[r], f)
      BY <1>2 DEF Check, Typed
    <2>4. \/ fresh'[r] = fresh[r] \cup {f} /\ ToSet(stale'[r]) = ToSet(stale[r])
          \/ fresh'[r] = fresh[r] /\ ToSet(stale'[r]) = ToSet(stale[r]) \cup {f}
      <3>1. ToSet(Append(stale[r], f)) = ToSet(stale[r]) \cup {f}
        BY <2>2, Appended
      <3>2. QED
        BY <2>3, <3>1
    <2>5. f = todo[r][1] /\ 1 \in DOMAIN todo[r]
      BY <2>2, Removed
    <2>6. ASSUME NEW i \in DOMAIN todo'[r]
          PROVE  todo'[r][i] = todo[r][i + 1] /\ i + 1 \in DOMAIN todo[r] /\ i \in Nat \ {0}
      BY <2>2, Removed
    <2>7. \A i, j \in DOMAIN todo'[r] : todo'[r][i] = todo'[r][j] => i = j
      <3>1. ASSUME NEW i \in DOMAIN todo'[r], NEW j \in DOMAIN todo'[r], todo'[r][i] = todo'[r][j]
            PROVE  i = j
        <4>1. i + 1 = j + 1 /\ i \in Nat /\ j \in Nat
          BY <2>2, <2>6, <3>1 DEF Todo
        <4>2. QED
          BY <4>1
      <3>2. QED
        BY <3>1
    <2>8. f \notin fresh[r] \cup ToSet(stale[r])
      BY <2>2, <2>5 DEF Todo
    <2>9. ASSUME NEW i \in DOMAIN todo'[r]
          PROVE  todo'[r][i] \notin fresh[r] \cup ToSet(stale[r]) \cup {f}
      <3>1. i + 1 # 1
        BY <2>6
      <3>2. QED
        BY <2>2, <2>5, <2>6, <3>1 DEF Todo
    <2>10. fresh[r] \cap ToSet(stale[r]) = {}
      BY <2>2 DEF Todo
    <2>11. QED
      BY <2>1, <2>4, <2>7, <2>8, <2>9, <2>10 DEF Todo
  <1>3. ASSUME NEW r \in Requests,
               FeedAnswers(r) \/ Find(r) \/ Put(r) \/ Commit(r) \/ (Open(r) /\ Fail(r))
        PROVE  Todo'
    <2>1. /\ pc'[r] # "check"
          /\ \A q \in Requests \ {r} :
                /\ pc'[q] = pc[q] /\ todo'[q] = todo[q] /\ fresh'[q] = fresh[q] /\ stale'[q] = stale[q]
      BY <1>3 DEF FeedAnswers, Find, Put, Commit, Finish, Fail, Typed
    <2>2. QED
      BY <2>1 DEF Todo
  <1>4. ASSUME Tick \/ UNCHANGED vars PROVE Todo'
    <2>1. UNCHANGED <<pc, todo, fresh, stale>>
      BY <1>4 DEF Tick, local, vars
    <2>2. QED
      BY <2>1 DEF Todo
  <1>5. QED
    BY <1>1, <1>2, <1>3, <1>4, Steps

\* What a step does to the flushed columns.
LEMMA Flushes ==
    ASSUME Typed, Places, [Next]_vars, NEW q \in Requests, Open(q)'
    PROVE  \/ pending'[q] = pending[q] /\ (Open(q) \/ DOMAIN pending'[q] = {})
           \/ /\ Put(q) /\ Open(q) /\ DOMAIN pending'[q] = DOMAIN pending[q] \cup {Key(q)}
              /\ pending'[q][Key(q)] = Changed(Columns(q, Head(work[q]).price), loaded[q])
              /\ \A k \in DOMAIN pending[q] \ {Key(q)} : pending'[q][k] = pending[q][k]
  <1>1. ASSUME Tick \/ UNCHANGED vars PROVE UNCHANGED <<pc, pending>>
    BY <1>1 DEF Tick, local, vars
  <1>2. ASSUME NEW r \in Requests, NEW b \in Bodies, Begin(r, b)
        PROVE  UNCHANGED pending /\ DOMAIN pending[r] = {} /\ \A p \in Requests \ {r} : pc'[p] = pc[p]
    BY <1>2 DEF Begin, Places, Typed
  <1>3. ASSUME NEW r \in Requests, Check(r) \/ FeedAnswers(r) \/ Find(r) \/ Commit(r)
        PROVE  UNCHANGED pending /\ Open(r) /\ \A p \in Requests \ {r} : pc'[p] = pc[p]
    BY <1>3 DEF Check, FeedAnswers, Find, Commit, Finish, Open, Typed
  <1>4. ASSUME NEW r \in Requests, Fail(r)
        PROVE  ~Open(r)' /\ \A p \in Requests \ {r} : pc'[p] = pc[p] /\ pending'[p] = pending[p]
    BY <1>4 DEF Fail, Finish, Open, Typed
  <1>5. ASSUME NEW r \in Requests, Put(r)
        PROVE  /\ \A p \in Requests \ {r} : pc'[p] = pc[p] /\ pending'[p] = pending[p]
               /\ Open(r) /\ DOMAIN pending'[r] = DOMAIN pending[r] \cup {Key(r)}
               /\ pending'[r][Key(r)] = Changed(Columns(r, Head(work[r]).price), loaded[r])
               /\ \A k \in DOMAIN pending[r] \ {Key(r)} : pending'[r][k] = pending[r][k]
    <2>1. pending'[r] = Over([k \in {Key(r)} |-> Changed(Columns(r, Head(work[r]).price), loaded[r])], pending[r])
      BY <1>5 DEF Put, Typed
    <2>2. QED
      BY <1>5, <2>1 DEF Put, Over, Open, Typed
  <1>6. QED
    BY <1>1, <1>2, <1>3, <1>4, <1>5, Steps DEF Open

LEMMA ApartStep ==
    ASSUME Typed, Places, Apart, [Next]_vars
    PROVE  Apart'
  <1> SUFFICES ASSUME NEW r \in Requests, NEW q \in Requests, r # q, Open(r)', Open(q)'
               PROVE  DOMAIN pending'[r] \cap DOMAIN pending'[q] = {}
    BY DEF Apart
  <1>1. ASSUME NEW p \in Requests, NEW o \in Requests, p # o, Put(p), Open(o)'
        PROVE  pending'[o] = pending[o] /\ Open(o) /\ Key(p) \notin DOMAIN pending[o]
    BY <1>1 DEF Put, Waits, WaitsFor, Open, Typed
  <1>2. QED
    BY <1>1, Flushes DEF Apart

\* Only a commit writes rows.
LEMMA RowsWritten ==
    ASSUME [Next]_vars
    PROVE  UNCHANGED rows \/ \E r \in Requests : Commit(r)
  <1>1. ASSUME NEW r \in Requests,
               (\E b \in Bodies : Begin(r, b)) \/ Check(r) \/ FeedAnswers(r) \/ Find(r) \/ Put(r) \/ Fail(r)
        PROVE  UNCHANGED rows
    BY <1>1 DEF Begin, Check, FeedAnswers, Find, Put, Fail
  <1>2. QED
    BY <1>1, Steps DEF Tick, vars

LEMMA RowStep ==
    ASSUME [Next]_vars
    PROVE  /\ DOMAIN rows \subseteq DOMAIN rows'
           /\ \A k \in DOMAIN rows' :
                 \/ k \in DOMAIN rows /\ rows'[k] = rows[k]
                 \/ \E r \in Requests : Commit(r) /\ k \in DOMAIN pending[r]
  <1>1. ASSUME NEW r \in Requests, Commit(r)
        PROVE  /\ DOMAIN rows' = DOMAIN rows \cup DOMAIN pending[r]
               /\ \A k \in DOMAIN rows' \ DOMAIN pending[r] : k \in DOMAIN rows /\ rows'[k] = rows[k]
    BY <1>1 DEF Commit
  <1>2. QED
    BY <1>1, RowsWritten

LEMMA AuthorsStep ==
    ASSUME Typed, Places, Writes, Authors, [Next]_vars
    PROVE  Authors'
  <1>1. DOMAIN Initial \subseteq DOMAIN rows'
    BY RowStep DEF Authors
  <1>2. ASSUME NEW k \in DOMAIN rows', rows'[k].by # None
        PROVE  pc'[rows'[k].by] = "done"
    <2>1. ASSUME k \in DOMAIN rows, rows'[k].by = rows[k].by
          PROVE  pc'[rows'[k].by] = "done"
      <3>1. rows[k].by \in Requests /\ pc[rows[k].by] = "done"
        BY <1>2, <2>1 DEF Typed, Row, Authors
      <3>2. QED
        BY <2>1, <3>1, History DEF Ended
    <2>2. ASSUME NEW r \in Requests, Commit(r), k \in DOMAIN pending[r]
          PROVE  pc'[rows'[k].by] = "done"
      <3>1. CASE IsRefresh(r)
        BY <1>2, <2>1, <2>2, <3>1, Committed
      <3>2. CASE ~IsRefresh(r)
        <4>1. rows'[k].by = r
          BY <2>2, <3>2, Committed
        <4>2. pc'[r] = "done"
          BY <2>2 DEF Commit, Finish, Typed
        <4>3. QED
          BY <4>1, <4>2
      <3>3. QED
        BY <3>1, <3>2
    <2>3. QED
      BY <2>1, <2>2, RowStep
  <1>3. QED
    BY <1>1, <1>2 DEF Authors

-----------------------------------------------------------------------------
\* Snapshots and flushed columns

\* A row is by a request that has committed.
LEMMA NotBy ==
    ASSUME Typed, Authors, NEW r \in Requests, Open(r), NEW k \in DOMAIN rows
    PROVE  rows[k].by # r
  BY ConstantsOK DEF Typed, Authors, Open

LEMMA SnapStable ==
    ASSUME Typed, Order, Writes, [Next]_vars,
           NEW r \in Requests, Open(r), Open(r)', NEW k, NEW L \in Row, Snap(r, k, L)
    PROVE  Snap(r, k, L)'
  <1>1. k \in DOMAIN rows /\ k \in DOMAIN rows' /\ rows[k] \in Row /\ L.by # r
    BY RowStep DEF Snap, Typed
  <1>2. PICK by \in Requests \cup {None} : by = rows[k].by
    BY <1>1 DEF Row
  <1>3. by # None /\ Met(r, by) => Met(r, by)'
    BY <1>2, MetStable
  <1>4. /\ L.source = "manual" => rows[k].source = "manual"
        /\ L.source # "manual" /\ rows[k].source = "manual" => by # None /\ Met(r, by)
    BY <1>2 DEF Snap
  <1>5. CASE rows'[k] = rows[k]
    <2>1. CASE L = rows[k]
      BY <1>1, <1>5, <2>1 DEF Snap
    <2>2. CASE L # rows[k]
      <3>1. MetAny(r)'
        BY <2>2, MetAnyStable DEF Snap
      <3>2. QED
        BY <1>1, <1>2, <1>3, <1>4, <1>5, <3>1 DEF Snap, Met
    <2>3. QED
      BY <2>1, <2>2
  <1>6. ASSUME NEW q \in Requests, Commit(q), k \in DOMAIN pending[q]
        PROVE  Snap(r, k, L)'
    <2>1. q # r /\ Open(q)
      BY <1>6 DEF Commit, Finish, Open, Typed
    <2>2. Met(r, q)' /\ MetAny(r)' /\ q # None
      <3>1. Met(r, q)
        BY <2>1, OpenMet
      <3>2. Met(r, q)'
        BY <3>1, MetStable
      <3>3. QED
        BY <3>2, ConstantsOK DEF MetAny
    <2>3. L.source = "manual" => rows'[k].source = "manual"
      BY <1>1, <1>4, <1>6, Committed
    <2>4. CASE IsRefresh(q)
      <3>1. rows'[k].by = by /\ (rows'[k].source = "manual" => rows[k].source = "manual")
        BY <1>1, <1>2, <1>6, <2>4, Committed
      <3>2. QED
        BY <1>1, <1>3, <1>4, <2>2, <2>3, <3>1 DEF Snap, Met
    <2>5. CASE ~IsRefresh(q)
      <3>1. rows'[k].by = q
        BY <1>6, <2>5, Committed
      <3>2. QED
        BY <1>1, <2>2, <2>3, <3>1 DEF Snap, Met
    <2>6. QED
      BY <2>4, <2>5
  <1>7. QED
    BY <1>1, <1>5, <1>6, RowStep

\* What a step does to what an open request holds.
LEMMA Reads ==
    ASSUME Typed, Places, [Next]_vars, NEW r \in Requests
    PROVE  /\ \/ held'[r] = None
              \/ Open(r) /\ Open(r)' /\ held'[r] = held[r]
              \/ /\ Open(r) /\ UNCHANGED rows
                 /\ \E k \in DOMAIN rows : held'[r] = [key |-> k, row |-> rows[k]]
           /\ \/ loaded'[r] = None
              \/ /\ Open(r) /\ Open(r)' /\ loaded'[r] = loaded[r]
                 /\ work'[r] = work[r] /\ body'[r] = body[r]
              \/ Find(r) /\ loaded'[r] = RowFor(r) /\ pc'[r] = "put"
  <1>1. ASSUME Tick \/ UNCHANGED vars PROVE UNCHANGED <<pc, held, loaded, work, body>>
    BY <1>1 DEF Tick, local, vars
  <1>2. ASSUME NEW q \in Requests, NEW b \in Bodies, Begin(q, b)
        PROVE  /\ UNCHANGED <<held, loaded>> /\ held[q] = None /\ loaded[q] = None
               /\ \A p \in Requests \ {q} : pc'[p] = pc[p] /\ work'[p] = work[p] /\ body'[p] = body[p]
    BY <1>2 DEF Begin, Places, Open, Typed
  <1>3. ASSUME NEW q \in Requests, Check(q)
        PROVE  /\ UNCHANGED <<rows, pc, loaded, work, body>> /\ Open(q)
               /\ \A p \in Requests \ {q} : held'[p] = held[p]
               /\ \/ held'[q] = None
                  \/ held'[q] = held[q]
                  \/ \E k \in DOMAIN rows : held'[q] = [key |-> k, row |-> rows[k]]
    BY <1>3 DEF Check, Open, Typed, Newest, RowsOf
  <1>4. ASSUME NEW q \in Requests, FeedAnswers(q) \/ Find(q)
        PROVE  /\ UNCHANGED <<held, body>> /\ Open(q) /\ Open(q)'
               /\ \A p \in Requests \ {q} : pc'[p] = pc[p] /\ work'[p] = work[p] /\ loaded'[p] = loaded[p]
               /\ \/ loaded'[q] = None
                  \/ Find(q) /\ loaded'[q] = RowFor(q) /\ pc'[q] = "put"
    BY <1>4 DEF FeedAnswers, Find, Open, Typed, Places
  <1>5. ASSUME NEW q \in Requests, Put(q)
        PROVE  /\ UNCHANGED <<held, body>> /\ Open(q) /\ Open(q)' /\ loaded'[q] = None
               /\ \A p \in Requests \ {q} : pc'[p] = pc[p] /\ work'[p] = work[p] /\ loaded'[p] = loaded[p]
    BY <1>5 DEF Put, Open, Typed
  <1>6. ASSUME NEW q \in Requests, Commit(q) \/ Fail(q)
        PROVE  /\ held'[q] = None /\ loaded'[q] = None /\ UNCHANGED body
               /\ \A p \in Requests \ {q} : /\ pc'[p] = pc[p] /\ work'[p] = work[p]
                                            /\ loaded'[p] = loaded[p] /\ held'[p] = held[p]
    BY <1>6 DEF Commit, Fail, Finish, Typed
  <1>7. Open(r) \/ (held[r] = None /\ loaded[r] = None)
    BY DEF Places, Open
  <1>8. QED
    BY <1>1, <1>2, <1>3, <1>4, <1>5, <1>6, <1>7, Steps DEF Open

LEMMA SnapsStep ==
    ASSUME Typed, Places, Order, Authors, Writes, Snaps, [Next]_vars
    PROVE  Snaps'
  <1>1. ASSUME NEW r \in Requests, Open(r), NEW k \in DOMAIN rows, NEW L \in Row, L = rows[k], UNCHANGED rows
        PROVE  Snap(r, k, L)'
    BY <1>1, NotBy DEF Snap
  <1>2. ASSUME NEW r \in Requests, held'[r] # None
        PROVE  Snap(r, held[r].key, held[r].row)'
    <2>1. PICK h : h = held'[r]
      OBVIOUS
    <2>2. CASE Open(r) /\ Open(r)' /\ held'[r] = held[r]
      <3>1. Snap(r, h.key, h.row) /\ h.row \in Row
        BY <1>2, <2>1, <2>2 DEF Snaps, Typed, Kept
      <3>2. Snap(r, h.key, h.row)'
        BY <2>2, <3>1, SnapStable
      <3>3. QED
        BY <2>1, <3>2 DEF Snap
    <2>3. ASSUME Open(r), UNCHANGED rows, NEW k \in DOMAIN rows, held'[r] = [key |-> k, row |-> rows[k]]
          PROVE  Snap(r, held[r].key, held[r].row)'
      <3>1. h.key = k /\ h.row = rows[k] /\ h.row \in Row
        BY <2>1, <2>3 DEF Typed
      <3>2. Snap(r, h.key, h.row)'
        BY <1>1, <2>3, <3>1
      <3>3. QED
        BY <2>1, <3>2 DEF Snap
    <2>4. QED
      BY <1>2, <2>2, <2>3, Reads
  <1>3. ASSUME NEW r \in Requests, loaded'[r] # None
        PROVE  Snap(r, Key(r), loaded[r])' /\ (IsRefresh(r)' => loaded'[r].source # "manual")
    <2>1. PICK k, L : k = Key(r)' /\ L = loaded'[r]
      OBVIOUS
    <2>2. CASE /\ Open(r) /\ Open(r)' /\ loaded'[r] = loaded[r]
               /\ work'[r] = work[r] /\ body'[r] = body[r]
      <3>1. Snap(r, k, L) /\ L \in Row /\ (IsRefresh(r) => L.source # "manual")
        BY <1>3, <2>1, <2>2 DEF Snaps, Typed, Key
      <3>2. Snap(r, k, L)'
        BY <2>2, <3>1, SnapStable
      <3>3. QED
        BY <2>1, <2>2, <3>1, <3>2 DEF Snap, IsRefresh
    <2>3. CASE Find(r) /\ loaded'[r] = RowFor(r) /\ pc'[r] = "put"
      <3>1. /\ Open(r) /\ Open(r)' /\ UNCHANGED <<rows, body>> /\ work'[r] = work[r] /\ k = Key(r)
            /\ IsRefresh(r) => L.source # "manual"
        BY <1>3, <2>1, <2>3 DEF Find, Open, Typed, Key
      <3>2. L \in Row /\ L = RowFor(r)
        BY <1>3, <2>1, <2>3, FindTyped
      <3>3. Snap(r, k, L)'
        <4>1. CASE held[r] # None /\ held[r].key = Key(r)
          <5>1. Snap(r, k, L)
            BY <3>1, <3>2, <4>1 DEF Snaps, RowFor
          <5>2. QED
            BY <3>1, <3>2, <5>1, SnapStable
        <4>2. CASE ~ (held[r] # None /\ held[r].key = Key(r))
          <5>1. k \in DOMAIN rows /\ L = rows[k]
            BY <1>3, <2>1, <3>1, <3>2, <4>2 DEF RowFor
          <5>2. QED
            BY <1>1, <3>1, <3>2, <5>1
        <4>3. QED
          BY <4>1, <4>2
      <3>4. QED
        BY <2>1, <3>1, <3>3 DEF Snap, IsRefresh
    <2>4. QED
      BY <1>3, <2>2, <2>3, Reads
  <1>4. QED
    BY <1>2, <1>3 DEF Snaps

LEMMA AskedStable ==
    ASSUME Typed, [Next]_vars, NEW r \in Requests, pc[r] # "idle",
           NEW k, NEW price, Asked(r, k, price)
    PROVE  Asked(r, k, price)' /\ Columns(r, price)' = Columns(r, price) /\ IsRefresh(r)' = IsRefresh(r)
  <1>1. body'[r] = body[r] /\ start'[r] = start[r]
    BY History
  <1>2. QED
    BY <1>1 DEF Asked, Columns, IsRefresh

\* What a step leaves of the prices to store.
LEMMA WorkStep ==
    ASSUME Typed, Places, Writes, [Next]_vars, NEW r \in Requests, NEW i \in DOMAIN work'[r],
           NEW item, item = work'[r][i]
    PROVE  Asked(r, item.key, item.price)'
  <1>1. ASSUME NEW b \in Bodies, Begin(r, b) PROVE Asked(r, item.key, item.price)'
    <2>1. start'[r] = clock /\ body'[r] = b
      BY <1>1 DEF Begin, Typed
    <2>2. CASE b.kind = "refresh"
      BY <2>1, <2>2 DEF Asked, IsRefresh
    <2>3. CASE b.kind # "refresh"
      <3>1. /\ i \in DOMAIN b.prices
            /\ item = [key |-> <<b.prices[i].fund, DayOf(clock) - b.prices[i].age>>,
                       price |-> b.prices[i].price]
        <4>1. work' = [work EXCEPT ![r] =
                 [m \in DOMAIN b.prices |->
                    [key |-> <<b.prices[m].fund, DayOf(clock) - b.prices[m].age>>,
                     price |-> b.prices[m].price]]]
          BY <1>1, <2>3 DEF Begin
        <4>2. QED
          BY <4>1 DEF Typed
      <3>2. QED
        BY <2>1, <3>1 DEF Asked
    <2>4. QED
      BY <2>2, <2>3
  <1>2. ASSUME FeedAnswers(r) PROVE Asked(r, item.key, item.price)'
    BY <1>2 DEF FeedAnswers, Places, Asked, IsRefresh
  <1>3. ASSUME pc[r] # "idle", NEW j \in DOMAIN work[r], item = work[r][j]
        PROVE  Asked(r, item.key, item.price)'
    <2>1. Asked(r, item.key, item.price)
      BY <1>3 DEF Writes
    <2>2. QED
      BY <1>3, <2>1, AskedStable
  <1>4. ASSUME Find(r) \/ Put(r)
        PROVE  pc[r] # "idle" /\ \E j \in DOMAIN work[r] : item = work[r][j]
    <2>1. /\ pc[r] # "idle" /\ work[r] # << >> /\ work[r] \in Seq(Work)
          /\ work'[r] = work[r] \/ work'[r] = Tail(work[r])
      BY <1>4 DEF Find, Put, Typed, Places
    <2>2. CASE work'[r] = Tail(work[r])
      <3>1. item = work[r][i + 1] /\ i + 1 \in DOMAIN work[r]
        BY <2>1, <2>2, Removed
      <3>2. QED
        BY <2>1, <3>1
    <2>3. QED
      BY <2>1, <2>2
  <1>5. ASSUME Commit(r) \/ Fail(r) PROVE FALSE
    <2>1. work'[r] = << >>
      BY <1>5 DEF Commit, Fail, Finish, Typed
    <2>2. QED
      BY <2>1
  <1>6. ASSUME \/ Tick \/ UNCHANGED vars
               \/ \E q \in Requests : \/ Check(q)
                                      \/ /\ q # r
                                         /\ \/ \E b \in Bodies : Begin(q, b)
                                            \/ FeedAnswers(q) \/ Find(q) \/ Put(q) \/ Commit(q) \/ Fail(q)
        PROVE  work'[r] = work[r]
    <2>1. ASSUME NEW q \in Requests, q # r, NEW b \in Bodies, Begin(q, b) PROVE work'[r] = work[r]
      BY <2>1 DEF Begin, Typed
    <2>2. ASSUME NEW q \in Requests, q # r, FeedAnswers(q) \/ Find(q) \/ Put(q) \/ Commit(q) \/ Fail(q)
          PROVE  work'[r] = work[r]
      BY <2>2 DEF FeedAnswers, Find, Put, Commit, Fail, Finish, Typed
    <2>3. QED
      BY <1>6, <2>1, <2>2 DEF Tick, local, vars, Check
  <1>7. ASSUME work'[r] = work[r] PROVE pc[r] # "idle" /\ item = work[r][i] /\ i \in DOMAIN work[r]
    BY <1>7 DEF Places
  <1>8. QED
    BY <1>1, <1>2, <1>3, <1>4, <1>5, <1>6, <1>7, Steps

LEMMA FlushedStable ==
    ASSUME Typed, Order, Apart, Writes, [Next]_vars,
           NEW r \in Requests, Open(r), Open(r)', NEW k \in DOMAIN pending[r],
           pending'[r][k] = pending[r][k]
    PROVE  Flushed(r, k)'
  <1>1. PICK price \in Nat :
          /\ Asked(r, k, price)
          /\ IF k \notin DOMAIN rows THEN pending[r][k] = Columns(r, price)
             ELSE \E L \in Row :
                     /\ Snap(r, k, L) /\ (IsRefresh(r) => L.source # "manual")
                     /\ pending[r][k] = Changed(Columns(r, price), L)
    BY DEF Writes, Flushed
  <1>2. Asked(r, k, price)' /\ Columns(r, price)' = Columns(r, price) /\ IsRefresh(r)' = IsRefresh(r)
    BY <1>1, AskedStable DEF Open
  <1>3. CASE k \notin DOMAIN rows
    <2>1. k \notin DOMAIN rows'
      <3>1. ASSUME NEW q \in Requests, Commit(q) PROVE q # r /\ Open(q)
        BY <3>1 DEF Commit, Finish, Open, Typed
      <3>2. QED
        BY <1>3, <3>1, RowStep DEF Apart
    <2>2. QED
      BY <1>1, <1>2, <1>3, <2>1 DEF Flushed
  <1>4. CASE k \in DOMAIN rows
    <2>1. PICK L \in Row :
            /\ Snap(r, k, L) /\ (IsRefresh(r) => L.source # "manual")
            /\ pending[r][k] = Changed(Columns(r, price), L)
      BY <1>1, <1>4
    <2>2. Snap(r, k, L)'
      BY <2>1, SnapStable
    <2>3. k \in DOMAIN rows'
      BY <1>4, RowStep
    <2>4. pending'[r][k] = Changed(Columns(r, price)', L)
      BY <1>2, <2>1
    <2>5. QED
      BY <1>2, <2>1, <2>2, <2>3, <2>4 DEF Flushed
  <1>5. QED
    BY <1>3, <1>4

LEMMA WritesStep ==
    ASSUME Typed, Places, Order, Apart, Snaps, Writes, [Next]_vars
    PROVE  Writes'
  <1>1. ASSUME NEW r \in Requests, NEW i \in DOMAIN work'[r]
        PROVE  Asked(r, work[r][i].key, work[r][i].price)'
    BY WorkStep DEF Asked, IsRefresh
  <1>2. ASSUME NEW r \in Requests, Open(r)', NEW k \in DOMAIN pending'[r]
        PROVE  Flushed(r, k)'
    <2>1. CASE Open(r) /\ k \in DOMAIN pending[r] /\ pending'[r][k] = pending[r][k]
      BY <1>2, <2>1, FlushedStable
    <2>2. CASE /\ Put(r) /\ Open(r) /\ k = Key(r)
               /\ pending'[r][k] = Changed(Columns(r, Head(work[r]).price), loaded[r])
      <3>1. work[r] \in Seq(Work) /\ work[r] # << >> /\ pc[r] # "idle" /\ UNCHANGED rows
        BY <2>2 DEF Put, Typed, Places
      <3>2. PICK price \in Nat : price = Head(work[r]).price /\ Asked(r, k, price)
        <4>1. Head(work[r]) = work[r][1] /\ 1 \in DOMAIN work[r] /\ Head(work[r]) \in Work
          BY <3>1
        <4>2. Head(work[r]).price \in Nat /\ k = work[r][1].key
          BY <2>2, <4>1 DEF Work, Key
        <4>3. Asked(r, k, Head(work[r]).price)
          BY <4>1, <4>2 DEF Writes
        <4>4. QED
          BY <4>2, <4>3
      <3>3. Asked(r, k, price)' /\ Columns(r, price)' = Columns(r, price) /\ IsRefresh(r)' = IsRefresh(r)
        BY <3>1, <3>2, AskedStable
      <3>4. CASE loaded[r] = None
        <4>1. k \notin DOMAIN rows' /\ pending'[r][k] = Columns(r, price)'
          BY <2>2, <3>1, <3>2, <3>3, <3>4 DEF Put, Changed
        <4>2. QED
          BY <3>3, <4>1 DEF Flushed
      <3>5. CASE loaded[r] # None
        <4>1. PICK L \in Row : L = loaded[r]
          BY <3>5 DEF Typed
        <4>2. Snap(r, k, L) /\ (IsRefresh(r) => L.source # "manual")
          BY <2>2, <3>5, <4>1 DEF Snaps
        <4>3. Snap(r, k, L)'
          BY <1>2, <2>2, <4>2, SnapStable
        <4>4. k \in DOMAIN rows' /\ pending'[r][k] = Changed(Columns(r, price)', L)
          BY <2>2, <3>2, <3>3, <4>1, <4>3 DEF Snap
        <4>5. QED
          BY <3>3, <4>2, <4>3, <4>4 DEF Flushed
      <3>6. QED
        BY <3>4, <3>5
    <2>3. QED
      BY <1>2, <2>1, <2>2, Flushes
  <1>3. QED
    BY <1>1, <1>2 DEF Writes

-----------------------------------------------------------------------------
\* What the requests leave

LEMMA EndedKept ==
    ASSUME Typed, [Next]_vars, NEW r \in Requests, Ended(r)
    PROVE  pending'[r] = pending[r]
  <1>1. ASSUME NEW q \in Requests, Put(q) \/ (Open(q) /\ Fail(q))
        PROVE  q # r /\ \A p \in Requests \ {q} : pending'[p] = pending[p]
    BY <1>1 DEF Put, Fail, Open, Ended, Typed
  <1>2. ASSUME NEW q \in Requests,
               (\E b \in Bodies : Begin(q, b)) \/ Check(q) \/ FeedAnswers(q) \/ Find(q) \/ Commit(q)
        PROVE  UNCHANGED pending
    BY <1>2 DEF Begin, Check, FeedAnswers, Find, Commit
  <1>3. QED
    BY <1>1, <1>2, Steps DEF Tick, local, vars

LEMMA BecomesDone ==
    ASSUME Typed, [Next]_vars, NEW r \in Requests, pc'[r] = "done"
    PROVE  pc[r] = "done" \/ (Commit(r) /\ UNCHANGED pending)
  <1>1. ASSUME NEW q \in Requests, NEW b \in Bodies, Begin(q, b)
        PROVE  pc'[q] # "done" /\ \A p \in Requests \ {q} : pc'[p] = pc[p]
    BY <1>1 DEF Begin, Typed
  <1>2. ASSUME NEW q \in Requests, Check(q) \/ FeedAnswers(q) \/ Find(q) \/ Put(q) \/ Fail(q)
        PROVE  pc'[q] # "done" /\ \A p \in Requests \ {q} : pc'[p] = pc[p]
    BY <1>2 DEF Check, FeedAnswers, Find, Put, Fail, Finish, Typed
  <1>3. ASSUME NEW q \in Requests, Commit(q)
        PROVE  UNCHANGED pending /\ \A p \in Requests \ {q} : pc'[p] = pc[p]
    BY <1>3 DEF Commit, Finish, Typed
  <1>4. QED
    BY <1>1, <1>2, <1>3, Steps DEF Tick, vars

LEMMA StoredStep ==
    ASSUME Typed, Places, Order, Writes, Stored, [Next]_vars
    PROVE  Stored'
  <1> SUFFICES ASSUME NEW r \in Requests, pc'[r] = "done", ~MetAny(r)', NEW k \in DOMAIN pending'[r]
               PROVE  k \in DOMAIN rows' /\ start'[r] <= rows'[k].fetched
    BY DEF Stored
  <1>1. ~MetAny(r)
    BY MetAnyStable
  <1>2. CASE pc[r] = "done"
    <2>1. pending'[r] = pending[r] /\ start'[r] = start[r]
      BY <1>2, EndedKept, History DEF Ended
    <2>2. k \in DOMAIN rows /\ start[r] <= rows[k].fetched /\ k \in DOMAIN rows'
      BY <1>1, <1>2, <2>1, RowStep DEF Stored
    <2>3. ASSUME NEW q \in Requests, Commit(q), k \in DOMAIN pending[q]
          PROVE  start[r] <= rows'[k].fetched
      <3>1. q # r /\ Open(q) /\ ~Met(r, q)
        BY <1>1, <1>2, <2>3 DEF Commit, Open, MetAny
      <3>2. q \in before[r] \/ r \in before[q]
        BY <1>2, <3>1 DEF Met, Open
      <3>3. start[r] <= start[q]
        BY <3>1, <3>2 DEF Order, Ended, Open
      <3>4. rows'[k].fetched \in {start[q], rows[k].fetched}
        BY <2>3, Committed
      <3>5. QED
        BY <2>2, <3>3, <3>4
    <2>4. QED
      BY <2>1, <2>2, <2>3, RowStep
  <1>3. CASE Commit(r) /\ UNCHANGED pending
    <2>1. k \in DOMAIN pending[r] /\ start'[r] = start[r] /\ start[r] \in Nat
      BY <1>3 DEF Commit, Finish, Typed
    <2>2. k \in DOMAIN rows' /\ rows'[k].fetched = start[r]
      BY <1>1, <1>3, <2>1, Committed DEF Commit
    <2>3. QED
      BY <2>1, <2>2
  <1>4. QED
    BY <1>2, <1>3, BecomesDone

LEMMA ManualStep ==
    ASSUME Typed, Places, Order, Authors, Writes, ManualPriceOnlyByRace, [Next]_vars
    PROVE  ManualPriceOnlyByRace'
  <1>1. ASSUME NEW k \in DOMAIN rows', rows'[k].by = None, k \in DOMAIN Initial, Initial[k].source = "manual"
        PROVE  rows'[k] = Initial[k]
    <2>1. k \in DOMAIN rows
      BY <1>1 DEF Authors
    <2>2. ASSUME NEW r \in Requests, Commit(r), k \in DOMAIN pending[r] PROVE FALSE
      <3>1. rows'[k].by # r
        BY <1>1, ConstantsOK
      <3>2. IsRefresh(r) /\ rows[k].by = None
        BY <1>1, <2>1, <2>2, <3>1, Committed
      <3>3. rows[k].source = "manual"
        BY <1>1, <2>1, <3>2 DEF ManualPriceOnlyByRace
      <3>4. QED
        BY <2>1, <2>2, <3>2, <3>3, Committed
    <2>3. rows'[k] = rows[k]
      BY <2>2, RowStep
    <2>4. QED
      BY <1>1, <2>1, <2>3 DEF ManualPriceOnlyByRace
  <1>2. ASSUME NEW k \in DOMAIN rows', NEW by \in Requests, rows'[k].by = by, ~MetAny(by)'
        PROVE  rows'[k].source = "manual" /\ Entered(by, k)'
    <2>1. ~MetAny(by)
      BY <1>2, MetAnyStable
    <2>2. ASSUME k \in DOMAIN rows, rows[k].by = by
          PROVE  rows[k].source = "manual" /\ Entered(by, k) /\ body'[by] = body[by] /\ start'[by] = start[by]
      <3>1. by # None
        BY ConstantsOK
      <3>2. pc[by] = "done"
        BY <2>2, <3>1 DEF Authors
      <3>3. rows[k].source = "manual" /\ Entered(by, k)
        BY <2>1, <2>2, <3>1 DEF ManualPriceOnlyByRace, MetAny
      <3>4. QED
        BY <3>2, <3>3, History
    <2>3. CASE k \in DOMAIN rows /\ rows'[k] = rows[k]
      BY <1>2, <2>2, <2>3 DEF Entered
    <2>4. ASSUME NEW r \in Requests, Commit(r), k \in DOMAIN pending[r]
          PROVE  rows'[k].source = "manual" /\ Entered(by, k)'
      <3>1. CASE IsRefresh(r)
        <4>1. k \in DOMAIN rows /\ rows[k].by = by
          BY <1>2, <2>4, <3>1, ConstantsOK, Committed
        <4>2. rows[k].source = "manual"
          BY <2>2, <4>1
        <4>3. Met(r, by)
          BY <2>4, <3>1, <4>1, <4>2, Committed
        <4>4. QED
          BY <2>1, <4>3, MetBoth DEF MetAny
      <3>2. CASE ~IsRefresh(r)
        <4>1. by = r /\ rows'[k].source = "manual"
          BY <1>2, <2>4, <3>2, Committed
        <4>2. PICK price : price = rows'[k].price
          OBVIOUS
        <4>3. Asked(r, k, price)
          BY <2>1, <2>4, <4>1, <4>2, Committed DEF Asked, IsRefresh
        <4>4. body' = body /\ start' = start
          BY <2>4 DEF Commit, Finish
        <4>5. QED
          BY <3>2, <4>1, <4>2, <4>3, <4>4 DEF Asked, Entered
      <3>3. QED
        BY <3>1, <3>2
    <2>5. QED
      BY <2>3, <2>4, RowStep
  <1>3. ASSUME NEW k \in DOMAIN rows', rows'[k].by # None
        PROVE  rows'[k].by \in Requests
    BY <1>3, TypedStep DEF Typed, Row
  <1>4. QED
    BY <1>1, <1>2, <1>3 DEF ManualPriceOnlyByRace, MetAny, Met, Entered

\* A fund becomes stale for a refresh by a look at its newest row.
LEMMA StaleStep ==
    ASSUME Typed, Places, [Next]_vars, NEW q \in Requests
    PROVE  \/ stale'[q] = stale[q]
           \/ /\ Check(q) /\ stale'[q] = Append(stale[q], Head(todo[q])) /\ Head(todo[q]) \in Funds
              /\ \/ RowsOf(Head(todo[q])) = {}
                 \/ \E n \in Newest(Head(todo[q])) : ~ (start[q] - rows[n].fetched < TTL)
  <1>1. ASSUME NEW r \in Requests,
               (\E b \in Bodies : Begin(r, b)) \/ FeedAnswers(r) \/ Find(r) \/ Put(r) \/ Commit(r) \/ Fail(r)
        PROVE  UNCHANGED stale
    BY <1>1 DEF Begin, FeedAnswers, Find, Put, Commit, Fail, Finish
  <1>2. ASSUME NEW r \in Requests, r # q, Check(r)
        PROVE  stale'[q] = stale[q]
    BY <1>2 DEF Check, Typed
  <1>3. ASSUME Check(q)
        PROVE  \/ stale'[q] = stale[q]
               \/ /\ stale'[q] = Append(stale[q], Head(todo[q])) /\ Head(todo[q]) \in Funds
                  /\ \/ RowsOf(Head(todo[q])) = {}
                     \/ \E n \in Newest(Head(todo[q])) : ~ (start[q] - rows[n].fetched < TTL)
    BY <1>3 DEF Check, Typed
  <1>4. QED
    BY <1>1, <1>2, <1>3, Steps DEF Tick, local, vars

LEMMA NoRepeatStep ==
    ASSUME Typed, Places, Order, Writes, Stored, NoRepeatFetch, [Next]_vars
    PROVE  NoRepeatFetch'
  <1> SUFFICES ASSUME NEW r \in Requests, NEW q \in Requests,
                      pc'[r] = "done", IsRefresh(r)', \A p \in Requests : ~Met(r, p)',
                      pc'[q] # "idle", IsRefresh(q)', r \in before'[q], start'[q] - start'[r] < TTL
               PROVE  Wrote(r)' \cap ToSet(stale'[q]) = {}
    BY DEF NoRepeatFetch
  <1>1. CASE pc[q] = "idle"
    <2>1. stale'[q] = << >>
      BY <1>1, StaleStep DEF Places, Check
    <2>2. QED
      BY <2>1 DEF ToSet
  <1>2. CASE pc[q] # "idle"
    <2>1. /\ before'[q] = before[q] /\ start'[q] = start[q] /\ body'[q] = body[q]
      BY <1>2, History
    <2>2. pc[r] = "done" /\ Ended(r) /\ start'[r] = start[r] /\ body'[r] = body[r]
      BY <2>1, History DEF Order, Ended
    <2>3. pending'[r] = pending[r] /\ Wrote(r)' = Wrote(r)
      BY <2>2, EndedKept DEF Wrote
    <2>4. \A p \in Requests : ~Met(r, p)
      BY MetStable
    <2>5. Wrote(r) \cap ToSet(stale[q]) = {}
      BY <1>2, <2>1, <2>2, <2>4 DEF NoRepeatFetch, IsRefresh
    <2>6. CASE stale'[q] = stale[q]
      BY <2>3, <2>5, <2>6
    <2>7. CASE /\ stale'[q] = Append(stale[q], Head(todo[q])) /\ Head(todo[q]) \in Funds
               /\ \/ RowsOf(Head(todo[q])) = {}
                  \/ \E n \in Newest(Head(todo[q])) : ~ (start[q] - rows[n].fetched < TTL)
      <3> DEFINE f == Head(todo[q])
      <3>1. ToSet(stale'[q]) = ToSet(stale[q]) \cup {f}
        <4>1. stale[q] \in Seq(Funds) /\ f \in Funds
          BY <2>7 DEF Typed
        <4>2. ToSet(Append(stale[q], f)) = ToSet(stale[q]) \cup {f}
          BY <4>1, Appended
        <4>3. QED
          BY <2>7, <4>2
      <3>2. ASSUME f \in Wrote(r) PROVE FALSE
        <4>1. PICK k \in DOMAIN pending[r] : k[1] = f
          BY <3>2 DEF Wrote
        <4>2. k \in DOMAIN rows /\ start[r] <= rows[k].fetched
          BY <2>2, <2>4 DEF Stored, MetAny
        <4>3. k \in RowsOf(f)
          BY <4>1, <4>2 DEF RowsOf
        <4>4. PICK n \in Newest(f) : ~ (start[q] - rows[n].fetched < TTL)
          BY <2>7, <4>3
        <4>5. n \in DOMAIN rows /\ rows[k].fetched <= rows[n].fetched
          BY <4>3, <4>4 DEF Newest, RowsOf
        <4>6. /\ rows[n].fetched \in Int /\ rows[k].fetched \in Int /\ TTL \in Nat
              /\ start[q] \in Nat /\ start[r] \in Nat
          BY <4>2, <4>5, ConstantsOK DEF Typed, Row
        <4>7. start[q] - start[r] < TTL
          BY <2>1, <2>2
        <4>8. QED
          BY <4>2, <4>4, <4>5, <4>6, <4>7
      <3>3. QED
        BY <2>3, <2>5, <3>1, <3>2
    <2>8. QED
      BY <2>6, <2>7, StaleStep
  <1>3. QED
    BY <1>1, <1>2

-----------------------------------------------------------------------------
\* Theorems

LEMMA Begins == ASSUME Init PROVE IInv
  <1> USE ConstantsOK
  <1>1. << >> \in Seq(Funds) /\ << >> \in Seq(Work)
    OBVIOUS
  <1>2. \A r \in Requests : pending[r] = << >> /\ DOMAIN pending[r] = {}
    BY DEF Init
  <1>3. Typed
    BY <1>1, <1>2 DEF Init, Typed
  <1>4. Places /\ Order /\ Todo /\ Apart
    BY <1>2 DEF Init, Places, Order, Todo, Apart, Open
  <1>5. Authors /\ Snaps /\ Stored
    BY DEF Init, Authors, Snaps, Stored
  <1>6. Writes
    BY <1>2 DEF Init, Writes, Open
  <1>7. ManualPriceOnlyByRace /\ NoRepeatFetch
    BY DEF Init, ManualPriceOnlyByRace, NoRepeatFetch
  <1>8. QED
    BY <1>3, <1>4, <1>5, <1>6, <1>7 DEF IInv

LEMMA Inductive == ASSUME IInv, [Next]_vars PROVE IInv'
  BY TypedStep, PlacesStep, OrderStep, TodoStep, ApartStep, AuthorsStep, SnapsStep, WritesStep,
     StoredStep, ManualStep, NoRepeatStep DEF IInv

LEMMA Invariant == Spec => []IInv
  BY Begins, Inductive, PTL DEF Spec

\* Every stored row is whole, uncommitted writes never share a row, and a
\* request's locals match its place, for any number of requests and funds.
THEOREM PricesTyped == Spec => []TypeOK
<1>1. IInv => TypeOK
  <2> SUFFICES ASSUME IInv PROVE TypeOK
    OBVIOUS
  <2> USE DEF IInv
  <2>1. clock \in StartTime..MaxTime
    BY ConstantsOK DEF Typed
  <2>2. ASSUME NEW r \in Requests
        PROVE  /\ fresh[r] \subseteq Funds
               /\ fresh[r] \cap ToSet(stale[r]) # {} => pc[r] \notin {"idle", "check"}
               /\ pc[r] = "put" => work[r] # << >>
               /\ held[r] # None => held[r].row \in Row
    BY DEF Typed, Places, Todo, Kept
  <2>3. QED
    BY <2>1, <2>2 DEF Typed, Apart, TypeOK
<1>2. QED
  BY <1>1, Invariant, PTL

\* A manual price goes only by a later entry, or by a refresh that met its own.
THEOREM ManualPricesKept == Spec => []ManualPriceOnlyByRace
  BY Invariant, PTL DEF IInv

\* The feed is not asked again within the interval for what a refresh stored.
THEOREM FeedAskedOnce == Spec => []NoRepeatFetch
  BY Invariant, PTL DEF IInv

\* A row that is manual stays manual, whatever overlaps.
THEOREM ManualRowsStay == Spec => ManualStaysManual
<1>1. IInv /\ [Next]_vars =>
        [\A k \in DOMAIN rows : rows[k].source = "manual" => rows'[k].source = "manual"]_vars
  <2> SUFFICES ASSUME IInv, [Next]_vars, NEW k \in DOMAIN rows, rows[k].source = "manual"
               PROVE  rows'[k].source = "manual"
    OBVIOUS
  <2>1. k \in DOMAIN rows'
    BY RowStep
  <2>2. QED
    BY <2>1, RowStep, Committed DEF IInv
<1>2. QED
  BY <1>1, Invariant, PTL DEF Spec, ManualStaysManual
=============================================================================
