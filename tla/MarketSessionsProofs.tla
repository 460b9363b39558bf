------------------------ MODULE MarketSessionsProofs ------------------------
(***************************************************************************)
(* Proofs about MarketSessions: the locals of the sessions, the signals of *)
(* a portfolio, and what a session that met no other can rely on.          *)
(*                                                                         *)
(* A cached row is locked by one session at most (LocksDisjoint), and an   *)
(* analysis holds, past its UPDATE, every row that found (Guarded).  So of *)
(* two analyses that found a row in common, the second is past its UPDATE  *)
(* only after the first has committed, and its DELETE takes the signals of *)
(* the first.  What a DELETE spares are signals of analyses that found     *)
(* other rows (SpareOK).                                                   *)
(***************************************************************************)
EXTENDS MarketSessions, FiniteSetTheorems, SequenceTheorems, WellFoundedInduction, TLAPS

(***************************************************************************)
(* Programs                                                                *)
(***************************************************************************)

Reads == {"quotes", "rate", "tobase", "feed"}

\* The steps that refresh or expire rows, and the step that replaces a table.
Refreshes == {x \in [act : Reads \cup {"expire"}, keys : SUBSET Keys,
                     of : {None} \cup ({"quote"} \X Symbols)] :
                x.act \in {"quotes", "expire"} => x.keys \subseteq Quotes(Symbols)}
Replacement(t) == [act |-> "replace", keys |-> {}, of |-> t]
Steps == Refreshes \cup {Replacement(t) : t \in Tables}

-----------------------------------------------------------------------------
(***************************************************************************)
(* The invariant                                                           *)
(***************************************************************************)

RowsIn(ages) == UNION {[D -> ages] : D \in SUBSET Keys}

\* What the sessions share.
Shared ==
    /\ db \in [Keys -> Ages]
    /\ stored \in [Tables -> SUBSET (Writer \X Items)]
    /\ \A r, q \in stored["groups"] : r[2] = q[2] => r = q
    /\ company \subseteq Sessions

\* The other variables are functions of the sessions.
Shapes ==
    /\ phase \in [Sessions -> Phases]
    /\ program \in [Sessions -> Remainders]
    /\ own \in [Sessions -> RowsIn({"old", "new"})]
    /\ saw \in [Sessions -> RowsIn({"none", "old"})]
    /\ todo \in [Sessions -> Seq(Keys)]
    /\ priced \in [Sessions -> SUBSET Quotes(Symbols)]
    /\ rows \in [Sessions -> SUBSET Items]
    /\ target \in [Sessions -> SUBSET (Writer \X Items)]
    /\ found \in [Sessions -> SUBSET Quotes(Symbols)]

\* What a session is asking for or writing belongs to its step.
Local(s) ==
    /\ ~Open(s) => program[s] = <<>> /\ own[s] = <<>>
    /\ phase[s] = "write" <=> todo[s] # <<>>
    /\ phase[s] \notin {"ask", "write"} => saw[s] = <<>>
    /\ phase[s] \in {"ask", "write", "delete", "insert"} => program[s] # <<>>
    /\ phase[s] = "ask" => Now(s).act \in Reads /\ DOMAIN saw[s] \subseteq Now(s).keys
    /\ phase[s] = "write" =>
          Now(s).act \in Reads \cup {"expire"} /\ ToSet(todo[s]) \subseteq Now(s).keys
    /\ phase[s] \in {"delete", "insert"} => Now(s).act = "replace"
    /\ \A k \in DOMAIN own[s] : own[s][k] = "old" => k[1] = "quote"

\* The rows s holds, or will before it has left its UPDATE.
Claims(s) == DOMAIN own[s] \cup IF Now(s).act = "expire" THEN ToSet(todo[s]) ELSE {}

\* No row is locked twice.
LocksDisjoint == \A s, u \in Sessions : s # u => DOMAIN own[s] \cap DOMAIN own[u] = {}

\* An analysis keeps what its UPDATE found.
Guarded(s) ==
    /\ phase[s] = "idle" => found[s] = {}
    /\ Open(s) => found[s] \subseteq Claims(s)

\* A session that has not committed has written nothing anyone else sees.
Unwritten(s) ==
    phase[s] # "closed" => \A p \in ToSet(Portfolios) : \A r \in stored[p] : r[1] # s

\* The signals the DELETE of s does not find are those of analyses apart from s.
SpareOK(s) ==
    phase[s] \in {"delete", "insert"} /\ Now(s).of \in ToSet(Portfolios) =>
        \A r \in stored[Now(s).of] \ target[s] :
            r[1] \in Sessions /\ found[r[1]] \cap found[s] = {}

\* While s has met no other, the rows are as it read them.
AloneOK(s) ==
    s \notin company /\ Open(s) =>
        /\ \A u \in Sessions \ {s} : ~Open(u)
        /\ \A k \in DOMAIN saw[s] :
              /\ saw[s][k] = "none" => db[k] = "none"
              /\ ~InPlace(k) => db[k] # "new"
        /\ phase[s] = "write" /\ Now(s).act # "expire" => ToSet(todo[s]) \subseteq DOMAIN saw[s]
        /\ phase[s] \in {"delete", "insert"} => target[s] = stored[Now(s).of]

IInv ==
    /\ Shared /\ Shapes
    /\ LocksDisjoint /\ SignalsMixOnlyIfDisjoint
    /\ \A s \in Sessions : Local(s) /\ Guarded(s) /\ Unwritten(s) /\ SpareOK(s) /\ AloneOK(s)

\* A step of s leaves the other sessions alone.
Moves(s) ==
    \A u \in Sessions \ {s} :
        /\ phase'[u] = phase[u] /\ program'[u] = program[u]
        /\ own'[u] = own[u] /\ saw'[u] = saw[u] /\ todo'[u] = todo[u]
        /\ target'[u] = target[u] /\ found'[u] = found[u]

-----------------------------------------------------------------------------
(***************************************************************************)
(* What the programs are                                                   *)
(***************************************************************************)

LEMMA LeastNatural ==
    ASSUME NEW T \in SUBSET Nat, T # {}
    PROVE  \E x \in T : \A y \in T : x <= y
  <1> DEFINE R == {ss \in Nat \X Nat : ss[1] < ss[2]}
  <1>1. IsWellFoundedOn(R, Nat)
    BY NatLessThanWellFounded DEF OpToRel
  <1>2. \A x, y \in Nat : <<y, x>> \in R <=> y < x
    OBVIOUS
  <1> HIDE DEF R
  <1>3. PICK x \in T : \A y \in T : ~ <<y, x>> \in R
    BY <1>1, WFMin
  <1>4. ASSUME NEW y \in T PROVE x <= y
    <2>1. x \in Nat /\ y \in Nat
      OBVIOUS
    <2>2. ~ (y < x)
      BY <1>2, <1>3, <2>1
    <2>3. QED
      BY <2>1, <2>2
  <1>5. QED
    BY <1>4

\* The partial concatenations of FlattenSeq exist.
LEMMA PartialsExist ==
    ASSUME NEW q, NEW n \in Nat
    PROVE  \E f : f = [i \in 1..n |-> IF i = 1 THEN q[i] ELSE f[i - 1] \o q[i]]
  <1> DEFINE Has(m) == \E f : f = [i \in 1..m |-> IF i = 1 THEN q[i] ELSE f[i - 1] \o q[i]]
             Lacking == {m \in Nat : ~Has(m)}
  <1>1. SUFFICES ASSUME Lacking # {} PROVE FALSE
    OBVIOUS
  <1>2. PICK m \in Lacking : \A i \in Lacking : m <= i
    <2> HIDE DEF Has
    <2>1. QED
      BY <1>1, LeastNatural
  <1>3. CASE m = 0
    <2>1. << >> = [i \in 1..0 |-> IF i = 1 THEN q[i] ELSE << >>[i - 1] \o q[i]]
      OBVIOUS
    <2>2. QED
      BY <1>3, <2>1
  <1>4. CASE m # 0
    <2>1. m - 1 \in Nat /\ Has(m - 1)
      <3> HIDE DEF Has
      <3>1. m \in Nat /\ m - 1 \in Nat
        BY <1>4
      <3>2. QED
        BY <1>2, <3>1
    <2>2. PICK g : g = [i \in 1..(m - 1) |-> IF i = 1 THEN q[i] ELSE g[i - 1] \o q[i]]
      BY <2>1
    <2> DEFINE f == [i \in 1..m |-> IF i = 1 THEN q[i] ELSE g[i - 1] \o q[i]]
    <2>3. ASSUME NEW i \in 1..m, i # 1 PROVE f[i - 1] = g[i - 1]
      <3>1. i - 1 \in 1..(m - 1) /\ i - 1 \in 1..m
        BY <1>2, <2>3
      <3>2. g[i - 1] = IF i - 1 = 1 THEN q[i - 1] ELSE g[i - 1 - 1] \o q[i - 1]
        BY <3>1, <2>2
      <3>3. QED
        BY <3>1, <3>2
    <2>4. f = [i \in 1..m |-> IF i = 1 THEN q[i] ELSE f[i - 1] \o q[i]]
      BY <2>3
    <2>5. QED
      BY <2>4
  <1>5. QED
    BY <1>3, <1>4

LEMMA Flattened ==
    ASSUME NEW S, NEW q \in Seq(Seq(S))
    PROVE  FlattenSeq(q) \in Seq(S)
  <1> DEFINE F(f) == f = [i \in 1..Len(q) |-> IF i = 1 THEN q[i] ELSE f[i - 1] \o q[i]]
             flat == CHOOSE f : F(f)
  <1>1. \E f : F(f)
    <2>1. Len(q) \in Nat
      OBVIOUS
    <2>2. QED
      BY <2>1, PartialsExist
  <1>2. \A i \in 1..Len(q) : flat[i] = IF i = 1 THEN q[i] ELSE flat[i - 1] \o q[i]
    <2>1. F(flat)
      BY <1>1
    <2>2. QED
      BY <2>1
  <1>3. CASE q = << >>
    BY <1>3 DEF FlattenSeq
  <1>4. CASE q # << >>
    <2>1. FlattenSeq(q) = flat[Len(q)] /\ Len(q) \in 1..Len(q)
      BY <1>4 DEF FlattenSeq
    <2> HIDE DEF flat
    <2> DEFINE Other == {i \in 1..Len(q) : flat[i] \notin Seq(S)}
    <2>2. SUFFICES ASSUME Other # {} PROVE FALSE
      BY <2>1
    <2>3. PICK m \in Other : \A i \in Other : m <= i
      <3>1. Other \in SUBSET Nat
        OBVIOUS
      <3> HIDE DEF Other
      <3>2. QED
        BY <2>2, <3>1, LeastNatural
    <2>4. flat[m] = (IF m = 1 THEN q[m] ELSE flat[m - 1] \o q[m]) /\ q[m] \in Seq(S)
      BY <1>2
    <2>5. m # 1 => flat[m - 1] \in Seq(S)
      <3>1. SUFFICES ASSUME m # 1, m - 1 \in Other PROVE FALSE
        OBVIOUS
      <3>2. m <= m - 1
        BY <2>3, <3>1
      <3>3. QED
        BY <3>2
    <2>6. flat[m] \in Seq(S)
      BY <2>4, <2>5
    <2>7. QED
      BY <2>6
  <1>5. QED
    BY <1>3, <1>4

LEMMA FunctionIsSeq ==
    ASSUME NEW S, NEW n \in Nat, NEW q \in [1..n -> S]
    PROVE  q \in Seq(S)
  OBVIOUS

LEMMA KnownKeys ==
    ASSUME NEW p \in ToSet(Portfolios)
    PROVE  /\ ToBase[p] \subseteq Pairs /\ \A x \in Symbols : RateOf[p][x] \subseteq Pairs
           /\ {"rate"} \X Pairs \subseteq Keys /\ ToSet(Feeds) \X Symbols \subseteq Keys
           /\ Quotes(Symbols) \subseteq Keys
  <1>1. ToBase[p] \cup UNION {RateOf[p][x] : x \in Symbols} \subseteq Pairs
    BY DEF Pairs
  <1>2. \A x \in Symbols : RateOf[p][x] \subseteq UNION {RateOf[p][y] : y \in Symbols}
    OBVIOUS
  <1>3. QED
    BY <1>1, <1>2 DEF Keys

LEMMA BooksKnown ==
    ASSUME NEW b \in Books, NEW p \in ToSet(Portfolios)
    PROVE  b[p] \in Seq(Symbols) /\ ToSet(b[p]) \subseteq Symbols
  <1>1. ToSet(b[p]) \subseteq Symbols
    BY DEF Symbols
  <1>2. b[p] \in Seq(Nat) /\ \A i \in 1..Len(b[p]) : b[p][i] \in ToSet(b[p])
    BY ConstantsOK DEF ToSet
  <1>3. b[p] \in Seq(Symbols)
    <2> DEFINE h == b[p]
    <2>1. h \in Seq(Nat) /\ \A i \in 1..Len(h) : h[i] \in Symbols
      BY <1>1, <1>2
    <2> HIDE DEF h
    <2>2. h \in [1..Len(h) -> Symbols] /\ Len(h) \in Nat
      BY <2>1
    <2>3. h \in Seq(Symbols)
      BY <2>2, FunctionIsSeq
    <2>4. QED
      BY <2>3 DEF h
  <1>4. QED
    BY <1>1, <1>3

LEMMA ValuesRefresh ==
    ASSUME NEW p \in ToSet(Portfolios), NEW h \in Seq(Symbols)
    PROVE  Value(p, h) \in Seq(Refreshes) /\ ToSet(h) \subseteq Symbols
  <1>1. ToSet(h) \subseteq Symbols /\ Quotes(ToSet(h)) \subseteq Quotes(Symbols)
    BY DEF ToSet, Quotes
  <1>2. Act("quotes", Quotes(ToSet(h))) \in Refreshes
    BY <1>1, KnownKeys DEF Act, Refreshes, Reads
  <1> DEFINE rates == [i \in DOMAIN h |->
                        [act |-> "rate", keys |-> {"rate"} \X RateOf[p][h[i]],
                         of |-> <<"quote", h[i]>>]]
  <1>3. DOMAIN h = 1..Len(h) /\ Len(h) \in Nat
    OBVIOUS
  <1>4. ASSUME NEW i \in DOMAIN h
        PROVE  [act |-> "rate", keys |-> {"rate"} \X RateOf[p][h[i]],
                of |-> <<"quote", h[i]>>] \in Refreshes
    <2>1. h[i] \in Symbols
      OBVIOUS
    <2>2. {"rate"} \X RateOf[p][h[i]] \subseteq Keys
      BY <2>1, KnownKeys
    <2>3. QED
      BY <2>1, <2>2 DEF Refreshes, Reads
  <1>5. rates \in [1..Len(h) -> Refreshes]
    BY <1>3, <1>4
  <1>6. Value(p, h) = <<Act("quotes", Quotes(ToSet(h)))>> \o rates
    BY DEF Value
  <1> HIDE DEF rates
  <1>7. rates \in Seq(Refreshes)
    BY <1>3, <1>5, FunctionIsSeq
  <1>8. QED
    BY <1>1, <1>2, <1>6, <1>7

LEMMA FeedsRefresh ==
    ASSUME NEW h \in Seq(Symbols), NEW feed \in ToSet(Feeds), NEW p \in ToSet(Portfolios)
    PROVE  Refresh(feed, h) \in Seq(Refreshes)
  <1>1. ASSUME NEW i \in DOMAIN h PROVE Act("feed", {<<feed, h[i]>>}) \in Refreshes
    <2>1. h[i] \in Symbols
      OBVIOUS
    <2>2. <<feed, h[i]>> \in Keys
      BY <2>1, KnownKeys
    <2>3. QED
      BY <2>2 DEF Act, Refreshes, Reads
  <1>2. DOMAIN h = 1..Len(h) /\ Len(h) \in Nat
    OBVIOUS
  <1>3. Refresh(feed, h) \in [1..Len(h) -> Refreshes]
    BY <1>1, <1>2 DEF Refresh
  <1>4. QED
    BY <1>2, <1>3, FunctionIsSeq

\* Every program is a sequence of steps.
LEMMA ProgramsOK == Programs \subseteq Seq(Steps)
  <1>1. /\ DOMAIN Portfolios = 1..Len(Portfolios) /\ Len(Portfolios) \in Nat
        /\ DOMAIN Feeds = 1..Len(Feeds) /\ Len(Feeds) \in Nat
        /\ \A i \in DOMAIN Portfolios : Portfolios[i] \in ToSet(Portfolios)
        /\ \A i \in DOMAIN Feeds : Feeds[i] \in ToSet(Feeds)
    BY ConstantsOK DEF ToSet
  <1>2. ASSUME NEW q \in Seq(Refreshes) PROVE q \in Seq(Steps)
    <2>1. Refreshes \subseteq Steps
      BY DEF Steps
    <2>2. QED
      BY <2>1
  <1>3. ASSUME NEW q \in Seq(Steps), NEW t \in Tables PROVE q \o <<Replacement(t)>> \in Seq(Steps)
    <2>1. Replacement(t) \in Steps
      BY DEF Steps
    <2>2. QED
      BY <2>1
  <1>4. ASSUME NEW b \in Books, NEW p \in ToSet(Portfolios)
        PROVE  Analysis(p, b[p]) \in Seq(Steps)
    <2> DEFINE feeds == [i \in DOMAIN Feeds |-> Refresh(Feeds[i], b[p])]
               e == Act("expire", Quotes(ToSet(b[p])))
               a == Act("quotes", Quotes(ToSet(b[p])))
               v == Value(p, b[p])
               f == FlattenSeq(feeds)
    <2>1. b[p] \in Seq(Symbols) /\ Quotes(ToSet(b[p])) \subseteq Quotes(Symbols)
      BY BooksKnown DEF Quotes
    <2>2. feeds \in [1..Len(Feeds) -> Seq(Refreshes)]
      BY <1>1, <2>1, FeedsRefresh
    <2>3. f \in Seq(Refreshes)
      <3> HIDE DEF feeds
      <3>1. feeds \in Seq(Seq(Refreshes))
        BY <1>1, <2>2, FunctionIsSeq
      <3>2. QED
        BY <3>1, Flattened
    <2>4. v \in Seq(Refreshes) /\ e \in Refreshes /\ a \in Refreshes
      BY <2>1, ValuesRefresh, KnownKeys DEF Act, Refreshes, Reads
    <2>5. Analysis(p, b[p]) = <<e, a>> \o v \o f \o <<Replacement(p)>>
      BY DEF Analysis, Replacement
    <2> HIDE DEF e, a, v, f
    <2>6. <<e, a>> \o v \o f \in Seq(Refreshes)
      BY <2>3, <2>4
    <2>7. p \in Tables
      BY DEF Tables
    <2>8. QED
      BY <1>2, <1>3, <2>5, <2>6, <2>7
  <1>5. ASSUME NEW b \in Books PROVE Exposure(b) \in Seq(Steps)
    <2> DEFINE values == [i \in DOMAIN Portfolios |->
                            Value(Portfolios[i], b[Portfolios[i]]) \o
                            <<Act("tobase", {"rate"} \X ToBase[Portfolios[i]])>>]
    <2>1. ASSUME NEW i \in DOMAIN Portfolios
          PROVE  Value(Portfolios[i], b[Portfolios[i]]) \o
                   <<Act("tobase", {"rate"} \X ToBase[Portfolios[i]])>> \in Seq(Refreshes)
      <3> DEFINE v == Value(Portfolios[i], b[Portfolios[i]])
                 t == Act("tobase", {"rate"} \X ToBase[Portfolios[i]])
      <3>1. v \in Seq(Refreshes)
        BY <1>1, BooksKnown, ValuesRefresh
      <3>2. {"rate"} \X ToBase[Portfolios[i]] \subseteq Keys
        BY <1>1, KnownKeys
      <3>3. t \in Refreshes
        BY <3>2 DEF Act, Refreshes, Reads
      <3> HIDE DEF v, t
      <3>4. v \o <<t>> \in Seq(Refreshes)
        BY <3>1, <3>3
      <3>5. QED
        BY <3>4 DEF v, t
    <2>2. values \in [1..Len(Portfolios) -> Seq(Refreshes)]
      BY <1>1, <2>1
    <2>3. Exposure(b) = FlattenSeq(values) \o <<Replacement("groups")>>
      BY DEF Exposure, Replacement
    <2> HIDE DEF values
    <2>4. FlattenSeq(values) \in Seq(Refreshes)
      BY <1>1, <2>2, FunctionIsSeq, Flattened
    <2>5. "groups" \in Tables
      BY DEF Tables
    <2>6. QED
      BY <1>2, <1>3, <2>3, <2>4, <2>5
  <1>6. ASSUME NEW b \in Books PROVE Dashboard(b) \in Seq(Steps)
    <2> DEFINE values == [i \in DOMAIN Portfolios |-> Value(Portfolios[i], b[Portfolios[i]])]
    <2>1. values \in [1..Len(Portfolios) -> Seq(Refreshes)]
      BY <1>1, BooksKnown, ValuesRefresh
    <2>2. Dashboard(b) = FlattenSeq(values)
      BY DEF Dashboard
    <2> HIDE DEF values
    <2>3. QED
      BY <1>1, <1>2, <2>1, <2>2, FunctionIsSeq, Flattened
  <1>7. QED
    BY <1>4, <1>5, <1>6 DEF Programs

\* What is left of a program is one, and goes on to the end.
LEMMA RemaindersOK ==
    /\ Programs \subseteq Remainders /\ <<>> \in Remainders
    /\ \A q \in Remainders : q \in Seq(Steps) /\ (q # <<>> => Tail(q) \in Remainders)
  <1>1. \A p \in Programs : p \in Seq(Steps)
    BY ProgramsOK
  <1>2. ASSUME NEW p \in Programs PROVE p \in Remainders
    <2>1. SubSeq(p, 1, Len(p)) = p /\ 1 \in 1..(Len(p) + 1)
      BY <1>1
    <2>2. p \in {SubSeq(p, i, Len(p)) : i \in 1..(Len(p) + 1)}
      BY <2>1
    <2>3. QED
      BY <2>2 DEF Remainders
  <1>3. <<>> \in Remainders
    <2>1. PICK b \in Books : TRUE
      BY ConstantsOK
    <2>2. Dashboard(b) \in Programs
      BY DEF Programs
    <2>3. PICK p \in Programs : TRUE
      BY <2>2
    <2>4. SubSeq(p, Len(p) + 1, Len(p)) = <<>> /\ Len(p) + 1 \in 1..(Len(p) + 1)
      BY <1>1
    <2>5. QED
      BY <2>4 DEF Remainders
  <1>4. ASSUME NEW q \in Remainders PROVE q \in Seq(Steps) /\ (q # <<>> => Tail(q) \in Remainders)
    <2>0. PICK p \in Programs : \E n \in 1..(Len(p) + 1) : q = SubSeq(p, n, Len(p))
      BY DEF Remainders
    <2>1. PICK n \in 1..(Len(p) + 1) : q = SubSeq(p, n, Len(p))
      BY <2>0
    <2>2. p \in Seq(Steps) /\ n \in Nat /\ Len(p) \in Nat /\ 1 <= n /\ n <= Len(p) + 1
      BY <1>1, <2>1
    <2>3. q \in Seq(Steps) /\ Len(q) = Len(p) - n + 1
      BY <2>1, <2>2
    <2>4. ASSUME q # <<>> PROVE Tail(q) \in Remainders
      <3>1. n <= Len(p)
        BY <2>2, <2>3, <2>4
      <3>2. Tail(q) = SubSeq(p, n + 1, Len(p)) /\ n + 1 \in 1..(Len(p) + 1)
        BY <2>1, <2>2, <3>1, HeadTailOfSubSeq
      <3>3. Tail(q) \in {SubSeq(p, i, Len(p)) : i \in 1..(Len(p) + 1)}
        BY <3>2
      <3>4. QED
        BY <3>3 DEF Remainders
    <2>5. QED
      BY <2>3, <2>4
  <1>5. QED
    BY <1>2, <1>3, <1>4

-----------------------------------------------------------------------------
(***************************************************************************)
(* Orders of writing                                                       *)
(***************************************************************************)

LEMMA Orders ==
    ASSUME NEW S, IsFiniteSet(S), NEW q \in SetToSeqs(S)
    PROVE  q \in Seq(S) /\ ToSet(q) = S
  <1> DEFINE n == Cardinality(S)
  <1>1. n \in Nat
    BY FS_CardinalityType
  <1>2. q \in [1..n -> S] /\ \A i, j \in 1..n : i # j => q[i] # q[j]
    BY DEF SetToSeqs
  <1>3. IsFiniteSet(1..n) /\ Cardinality(1..n) = n
    <2>1. 1 \in Int /\ n \in Int /\ (1 > n => n = 0)
      BY <1>1
    <2> HIDE DEF n
    <2>2. IsFiniteSet(1..n) /\ Cardinality(1..n) = IF 1 > n THEN 0 ELSE n - 1 + 1
      BY <2>1, FS_Interval
    <2>3. QED
      BY <1>1, <2>1, <2>2
  <1>4. q \in Injection(1..n, S)
    BY <1>2 DEF Injection, IsInjective
  <1>5. q \in Surjection(1..n, S)
    BY <1>3, <1>4, FS_Injection
  <1> HIDE DEF n
  <1>6. q \in Seq(S)
    BY <1>1, <1>2, FunctionIsSeq
  <1>7. ToSet(q) = S
    BY <1>2, <1>5 DEF Surjection, ToSet
  <1>8. QED
    BY <1>6, <1>7

LEMMA KeysFinite == ASSUME NEW S \in SUBSET Keys PROVE IsFiniteSet(S)
  BY ConstantsOK, FS_Subset

LEMMA ElementsOfConcat ==
    ASSUME NEW S, NEW a \in Seq(S), NEW b \in Seq(S)
    PROVE  a \o b \in Seq(S) /\ ToSet(a \o b) = ToSet(a) \cup ToSet(b)
  <1>1. a \o b \in Seq(S) /\ Len(a \o b) = Len(a) + Len(b)
    OBVIOUS
  <1>2. \A i \in 1..Len(a \o b) : (a \o b)[i] = IF i <= Len(a) THEN a[i] ELSE b[i - Len(a)]
    OBVIOUS
  <1>3. ToSet(a \o b) \subseteq ToSet(a) \cup ToSet(b)
    BY <1>1, <1>2 DEF ToSet
  <1>4. \A i \in 1..Len(a) : i \in 1..Len(a \o b) /\ (a \o b)[i] = a[i]
    BY <1>1, <1>2
  <1>5. \A i \in 1..Len(b) : i + Len(a) \in 1..Len(a \o b) /\ (a \o b)[i + Len(a)] = b[i]
    BY <1>1, <1>2
  <1>6. DOMAIN a = 1..Len(a) /\ DOMAIN b = 1..Len(b) /\ DOMAIN (a \o b) = 1..Len(a \o b)
    BY <1>1
  <1>7. ToSet(a) \subseteq ToSet(a \o b)
    BY <1>4, <1>6 DEF ToSet
  <1>8. ToSet(b) \subseteq ToSet(a \o b)
    BY <1>5, <1>6 DEF ToSet
  <1>9. QED
    BY <1>1, <1>3, <1>7, <1>8

LEMMA FlushesAnswered ==
    ASSUME NEW s, NEW answered \in SUBSET Keys, NEW order \in FlushOrders(s, answered)
    PROVE  order \in Seq(Keys) /\ ToSet(order) = answered
  <1> DEFINE updated == {k \in answered : InPlace(k) /\ saw[s][k] = "old"}
             sorted == {q \in SetToSeqs(updated) : \A i, j \in DOMAIN q : i < j => q[i][2] < q[j][2]}
             added == SetToSeqs(answered \ updated)
  <1>1. order \in {pair[1] \o pair[2] : pair \in sorted \X added}
    BY Zenon DEF FlushOrders
  <1>2. \A x \in sorted : x \in SetToSeqs(updated)
    OBVIOUS
  <1>3. updated \in SUBSET Keys /\ answered \ updated \in SUBSET Keys
    OBVIOUS
  <1>4. updated \cup (answered \ updated) = answered
    OBVIOUS
  <1> HIDE DEF sorted, added
  <1>5. \E u \in sorted, i \in added : order = u \o i
    BY <1>1
  <1>6. PICK u \in sorted, i \in added : order = u \o i
    BY <1>5
  <1> HIDE DEF updated
  <1>7. u \in Seq(updated) /\ ToSet(u) = updated
    BY <1>2, <1>3, KeysFinite, Orders
  <1>8. i \in Seq(answered \ updated) /\ ToSet(i) = answered \ updated
    BY <1>3, KeysFinite, Orders DEF added
  <1>9. u \in Seq(Keys) /\ i \in Seq(Keys)
    BY <1>3, <1>7, <1>8
  <1>10. u \o i \in Seq(Keys) /\ ToSet(u \o i) = ToSet(u) \cup ToSet(i)
    BY <1>9, ElementsOfConcat
  <1>11. QED
    BY <1>4, <1>6, <1>7, <1>8, <1>10

LEMMA HeadAndTail ==
    ASSUME NEW S, NEW q \in Seq(S), q # <<>>
    PROVE  /\ Head(q) \in S /\ Head(q) = q[1] /\ Head(q) \in ToSet(q)
           /\ Tail(q) \in Seq(S) /\ Len(Tail(q)) = Len(q) - 1
           /\ \A i \in 1..Len(Tail(q)) : Tail(q)[i] = q[i + 1]
           /\ ToSet(q) = {Head(q)} \cup ToSet(Tail(q))
  <1>1. Len(q) \in Nat \ {0} /\ DOMAIN q = 1..Len(q)
    OBVIOUS
  <1>2. Head(q) \in S /\ Head(q) = q[1]
    OBVIOUS
  <1>3. Tail(q) \in Seq(S) /\ Len(Tail(q)) = Len(q) - 1 /\ DOMAIN Tail(q) = 1..Len(Tail(q))
    OBVIOUS
  <1>4. \A i \in 1..Len(Tail(q)) : Tail(q)[i] = q[i + 1]
    OBVIOUS
  <1>5. Head(q) \in ToSet(q)
    BY <1>1, <1>2 DEF ToSet
  <1>6. ToSet(Tail(q)) \subseteq ToSet(q)
    <2>1. \A i \in 1..Len(Tail(q)) : i + 1 \in 1..Len(q)
      BY <1>1, <1>3
    <2>2. QED
      BY <1>1, <1>3, <1>4, <2>1 DEF ToSet
  <1>7. ToSet(q) \subseteq {Head(q)} \cup ToSet(Tail(q))
    <2>1. ASSUME NEW i \in 1..Len(q), i # 1 PROVE q[i] \in ToSet(Tail(q))
      <3>1. i - 1 \in 1..Len(Tail(q)) /\ Tail(q)[i - 1] = q[i]
        BY <1>1, <1>3, <1>4, <2>1
      <3>2. QED
        BY <1>3, <3>1 DEF ToSet
    <2>2. \A x \in ToSet(q) : \E i \in 1..Len(q) : x = q[i]
      BY <1>1 DEF ToSet
    <2>3. QED
      BY <1>2, <2>1, <2>2
  <1>8. QED
    BY <1>2, <1>3, <1>4, <1>5, <1>6, <1>7

-----------------------------------------------------------------------------
(***************************************************************************)
(* What a step leaves                                                      *)
(***************************************************************************)

LEMMA RowsTyped ==
    /\ \A ages : \A f \in RowsIn(ages) :
          DOMAIN f \subseteq Keys /\ \A k \in DOMAIN f : f[k] \in ages
    /\ \A ages : \A D \in SUBSET Keys : \A f \in [D -> ages] : f \in RowsIn(ages)
    /\ \A ages : <<>> \in RowsIn(ages)
    /\ DOMAIN <<>> = {} /\ <<>> \in Seq(Keys) /\ ToSet(<<>>) = {}
  <1>1. DOMAIN <<>> = {} /\ <<>> \in Seq(Keys)
    OBVIOUS
  <1>2. \A ages : <<>> \in [{} -> ages]
    <2>1. <<>> = [k \in {} |-> <<>>[k]]
      OBVIOUS
    <2>2. QED
      BY <2>1
  <1>3. \A ages : <<>> \in RowsIn(ages)
    BY <1>2 DEF RowsIn
  <1>4. ToSet(<<>>) = {}
    BY <1>1 DEF ToSet
  <1>5. QED
    BY <1>1, <1>3, <1>4 DEF RowsIn

LEMMA InvTyped == IInv => TypeOK
  <1>1. SUFFICES ASSUME IInv PROVE TypeOK
    OBVIOUS
  <1>2. ASSUME NEW s \in Sessions
        PROVE  /\ program[s] \in Remainders
               /\ DOMAIN own[s] \subseteq Keys /\ Range(own[s]) \subseteq {"old", "new"}
               /\ DOMAIN saw[s] \subseteq Keys /\ Range(saw[s]) \subseteq {"none", "old"}
               /\ ToSet(todo[s]) \subseteq Keys
               /\ ~Open(s) => program[s] = <<>> /\ own[s] = <<>>
               /\ phase[s] = "write" <=> todo[s] # <<>>
               /\ phase[s] \in {"delete", "insert"} => Head(program[s]).act = "replace"
    <2>1. own[s] \in RowsIn({"old", "new"}) /\ saw[s] \in RowsIn({"none", "old"})
      BY <1>1 DEF IInv, Shapes
    <2>2. program[s] \in Remainders /\ todo[s] \in Seq(Keys)
      BY <1>1 DEF IInv, Shapes
    <2>3. ToSet(todo[s]) \subseteq Keys
      BY <2>2 DEF ToSet
    <2>4. DOMAIN own[s] \subseteq Keys /\ DOMAIN saw[s] \subseteq Keys
      BY <2>1, RowsTyped
    <2>5. Range(own[s]) \subseteq {"old", "new"} /\ Range(saw[s]) \subseteq {"none", "old"}
      BY <2>1, RowsTyped DEF Range
    <2>6. Local(s)
      BY <1>1 DEF IInv
    <2>7. QED
      BY <2>2, <2>3, <2>4, <2>5, <2>6 DEF Local, Now
  <1>3. QED
    BY <1>1, <1>2 DEF IInv, Shared, Shapes, TypeOK

\* What remains to show of a step that does not end the transaction of s.
LEMMA Kept ==
    ASSUME IInv, NEW s \in Sessions, Moves(s), Shapes', phase[s] # "closed",
           UNCHANGED <<db, stored>>,
           company \subseteq company', company' \subseteq Sessions,
           Open(s) \/ \A u \in Sessions \ {s} : Open(u) => u \in company',
           Local(s)', Guarded(s)', SpareOK(s)', AloneOK(s)',
           \A u \in Sessions \ {s} : DOMAIN own'[s] \cap DOMAIN own[u] = {}
    PROVE  IInv'
  <1>1. Shared'
    BY DEF IInv, Shared
  <1>2. \A p \in ToSet(Portfolios) : \A r \in stored[p] : r[1] # s
    BY DEF IInv, Unwritten
  <1>3. \A p \in ToSet(Portfolios) : \A r \in stored[p] :
          r[1] \in Sessions => found'[r[1]] = found[r[1]]
    BY <1>2 DEF Moves
  <1>4. SignalsMixOnlyIfDisjoint'
    BY <1>3 DEF IInv, SignalsMixOnlyIfDisjoint
  <1>5. ASSUME NEW u \in Sessions \ {s}
        PROVE  Local(u)' /\ Guarded(u)' /\ Unwritten(u)' /\ SpareOK(u)' /\ AloneOK(u)'
    <2>1. /\ phase'[u] = phase[u] /\ program'[u] = program[u]
          /\ own'[u] = own[u] /\ saw'[u] = saw[u] /\ todo'[u] = todo[u]
          /\ target'[u] = target[u] /\ found'[u] = found[u]
      BY DEF Moves
    <2>2. Local(u)'
      BY <2>1 DEF IInv, Local, Open, Now
    <2>3. Guarded(u)' /\ Unwritten(u)'
      BY <2>1 DEF IInv, Guarded, Unwritten, Claims, Open, Now
    <2>4. SpareOK(u)'
      <3>1. SpareOK(u)
        BY DEF IInv
      <3>2. QED
        BY <1>3, <2>1, <3>1 DEF SpareOK, Now
    <2>5. AloneOK(u)'
      BY <2>1 DEF IInv, AloneOK, Open
    <2>6. QED
      BY <2>2, <2>3, <2>4, <2>5
  <1>6. LocksDisjoint'
    BY DEF IInv, LocksDisjoint, Moves
  <1>7. Unwritten(s)'
    BY <1>2 DEF Unwritten
  <1>8. QED
    BY <1>1, <1>4, <1>5, <1>6, <1>7 DEF IInv

\* The end of a transaction: of the signals only rows of s are new, and for those
\* who have their own still to write, s is apart.
LEMMA Closed ==
    ASSUME IInv, NEW s \in Sessions, Open(s), Close(s), Shared', SignalsMixOnlyIfDisjoint',
           found' = found,
           \A p \in ToSet(Portfolios) : \A r \in stored'[p] : r \in stored[p] \/ r[1] = s,
           \A u \in Sessions \ {s} :
              phase[u] \in {"delete", "insert"} /\ Now(u).of \in ToSet(Portfolios) =>
              stored'[Now(u).of] = stored[Now(u).of] \/ found[s] \cap found[u] = {}
    PROVE  IInv'
  <1>1. Moves(s)
    BY DEF IInv, Shapes, Close, Moves
  <1>2. /\ phase'[s] = "closed" /\ program'[s] = <<>> /\ own'[s] = <<>>
        /\ saw'[s] = <<>> /\ todo'[s] = <<>> /\ company' = company
    BY DEF IInv, Shapes, Close
  <1>3. Shapes'
    BY RowsTyped, RemaindersOK DEF IInv, Shapes, Close, Phases
  <1>4. Local(s)' /\ Guarded(s)' /\ Unwritten(s)' /\ SpareOK(s)' /\ AloneOK(s)'
    BY <1>2, RowsTyped DEF Local, Guarded, Unwritten, SpareOK, AloneOK, Open
  <1>5. ASSUME NEW u \in Sessions \ {s}
        PROVE  Local(u)' /\ Guarded(u)' /\ Unwritten(u)' /\ SpareOK(u)' /\ AloneOK(u)'
    <2>1. /\ phase'[u] = phase[u] /\ program'[u] = program[u]
          /\ own'[u] = own[u] /\ saw'[u] = saw[u] /\ todo'[u] = todo[u]
          /\ target'[u] = target[u] /\ found'[u] = found[u]
      BY <1>1 DEF Moves
    <2>2. Local(u)'
      BY <2>1 DEF IInv, Local, Open, Now
    <2>3. Guarded(u)'
      BY <2>1 DEF IInv, Guarded, Claims, Open, Now
    <2>4. Unwritten(u)'
      BY <2>1 DEF IInv, Unwritten
    <2>5. SpareOK(u)'
      <3>1. SUFFICES ASSUME phase[u] \in {"delete", "insert"}, Now(u).of \in ToSet(Portfolios),
                            NEW r \in stored'[Now(u).of] \ target[u]
                     PROVE  r[1] \in Sessions /\ found[r[1]] \cap found[u] = {}
        BY <2>1 DEF SpareOK, Now
      <3>2. CASE r \in stored[Now(u).of]
        BY <3>1, <3>2 DEF IInv, SpareOK
      <3>3. CASE r \notin stored[Now(u).of]
        BY <3>1, <3>3
      <3>4. QED
        BY <3>2, <3>3
    <2>6. AloneOK(u)'
      BY <1>2, <2>1 DEF IInv, AloneOK, Open
    <2>7. QED
      BY <2>2, <2>3, <2>4, <2>5, <2>6
  <1>6. LocksDisjoint'
    <2>1. ASSUME NEW u \in Sessions, NEW v \in Sessions, u # v
          PROVE  DOMAIN own'[u] \cap DOMAIN own'[v] = {}
      <3>1. CASE u = s \/ v = s
        BY <1>2, <3>1, RowsTyped
      <3>2. CASE u # s /\ v # s
        BY <1>1, <2>1, <3>2 DEF IInv, LocksDisjoint, Moves
      <3>3. QED
        BY <3>1, <3>2
    <2>2. QED
      BY <2>1 DEF LocksDisjoint
  <1>7. QED
    BY <1>3, <1>4, <1>5, <1>6 DEF IInv

LEMMA RolledBack ==
    ASSUME IInv, NEW s \in Sessions, Open(s), Rollback(s)
    PROVE  IInv'
  <1>1. Shared' /\ SignalsMixOnlyIfDisjoint'
    BY DEF IInv, Shared, SignalsMixOnlyIfDisjoint, Rollback, Close
  <1>2. QED
    BY <1>1, Closed DEF Rollback

-----------------------------------------------------------------------------
(***************************************************************************)
(* Steps                                                                   *)
(***************************************************************************)

LEMMA FirstStep ==
    ASSUME NEW q \in Remainders, q # <<>>
    PROVE  /\ Head(q).keys \subseteq Keys /\ Head(q).act \in Reads \cup {"expire", "replace"}
           /\ Head(q).act \in {"quotes", "expire"} => Head(q).keys \subseteq Quotes(Symbols)
           /\ Head(q).act = "replace" => Head(q).of \in Tables
           /\ Tail(q) \in Remainders
  <1>1. q \in Seq(Steps) /\ Tail(q) \in Remainders
    BY RemaindersOK
  <1>2. Head(q) \in Steps
    BY <1>1, HeadAndTail
  <1>3. ASSUME NEW x \in Steps
        PROVE  /\ x.keys \subseteq Keys /\ x.act \in Reads \cup {"expire", "replace"}
               /\ x.act \in {"quotes", "expire"} => x.keys \subseteq Quotes(Symbols)
               /\ x.act = "replace" => x.of \in Tables
    BY DEF Steps, Refreshes, Replacement, Reads
  <1>4. QED
    BY <1>1, <1>2, <1>3

LEMMA GoesOn ==
    ASSUME IInv, NEW s \in Sessions, program[s] # <<>>, NEW w \in Seq(Keys), GoOn(s, w)
    PROVE  /\ \A u \in Sessions \ {s} : /\ phase'[u] = phase[u] /\ program'[u] = program[u]
                                        /\ saw'[u] = saw[u] /\ todo'[u] = todo[u]
           /\ phase' \in [Sessions -> Phases] /\ program' \in [Sessions -> Remainders]
           /\ saw' \in [Sessions -> RowsIn({"none", "old"})] /\ todo' \in [Sessions -> Seq(Keys)]
           /\ todo'[s] = w
           /\ w = <<>> => /\ phase'[s] = "next" /\ program'[s] = Tail(program[s])
                          /\ saw'[s] = <<>>
           /\ w # <<>> => /\ phase'[s] = "write" /\ program'[s] = program[s]
                          /\ saw'[s] = saw[s]
  <1>1. program[s] \in Remainders /\ Tail(program[s]) \in Remainders
    BY FirstStep DEF IInv, Shapes
  <1>2. CASE w = <<>>
    <2>1. /\ phase' = [phase EXCEPT ![s] = "next"]
          /\ program' = [program EXCEPT ![s] = Tail(program[s])]
          /\ saw' = [saw EXCEPT ![s] = <<>>]
          /\ todo' = [todo EXCEPT ![s] = w]
      BY <1>2 DEF GoOn
    <2>2. QED
      BY <1>1, <1>2, <2>1, RowsTyped DEF IInv, Shapes, Phases
  <1>3. CASE w # <<>>
    <2>1. /\ phase' = [phase EXCEPT ![s] = "write"]
          /\ program' = program /\ saw' = saw
          /\ todo' = [todo EXCEPT ![s] = w]
      BY <1>3 DEF GoOn
    <2>2. QED
      BY <1>3, <2>1 DEF IInv, Shapes, Phases
  <1>4. QED
    BY <1>2, <1>3

LEMMA WentOn ==
    ASSUME IInv, NEW s \in Sessions, Open(s), program[s] # <<>>,
           Now(s).act \in Reads \cup {"expire"},
           NEW w \in Seq(Keys), ToSet(w) \subseteq Now(s).keys, GoOn(s, w),
           own' \in [Sessions -> RowsIn({"old", "new"})],
           \A u \in Sessions \ {s} : own'[u] = own[u],
           priced' \in [Sessions -> SUBSET Quotes(Symbols)],
           UNCHANGED <<db, stored, rows, target, company>>,
           found' \in [Sessions -> SUBSET Quotes(Symbols)],
           \A u \in Sessions \ {s} : found'[u] = found[u],
           \A k \in DOMAIN own'[s] : own'[s][k] = "old" => k[1] = "quote",
           \A u \in Sessions \ {s} : DOMAIN own'[s] \cap DOMAIN own[u] = {},
           s \notin company /\ Now(s).act # "expire" => ToSet(w) \subseteq DOMAIN saw[s],
           found'[s] \subseteq DOMAIN own'[s] \cup IF Now(s).act = "expire" THEN ToSet(w) ELSE {}
    PROVE  IInv'
  <1>1. /\ \A u \in Sessions \ {s} : /\ phase'[u] = phase[u] /\ program'[u] = program[u]
                                     /\ saw'[u] = saw[u] /\ todo'[u] = todo[u]
        /\ phase' \in [Sessions -> Phases] /\ program' \in [Sessions -> Remainders]
        /\ saw' \in [Sessions -> RowsIn({"none", "old"})] /\ todo' \in [Sessions -> Seq(Keys)]
        /\ todo'[s] = w
        /\ w = <<>> => /\ phase'[s] = "next" /\ program'[s] = Tail(program[s])
                       /\ saw'[s] = <<>>
        /\ w # <<>> => /\ phase'[s] = "write" /\ program'[s] = program[s]
                       /\ saw'[s] = saw[s]
    BY GoesOn
  <1>2. Moves(s)
    BY <1>1 DEF Moves
  <1>3. Shapes'
    BY <1>1 DEF IInv, Shapes
  <1>4. Local(s)' /\ SpareOK(s)'
    BY <1>1 DEF Local, SpareOK, Open, Now
  <1>5. AloneOK(s)'
    <2>1. AloneOK(s)
      BY DEF IInv
    <2>2. SUFFICES ASSUME s \notin company
          PROVE  /\ \A u \in Sessions \ {s} : ~Open(u)'
                 /\ \A k \in DOMAIN saw'[s] :
                       /\ saw'[s][k] = "none" => db[k] = "none"
                       /\ ~InPlace(k) => db[k] # "new"
                 /\ phase'[s] = "write" /\ Now(s)'.act # "expire" =>
                       ToSet(todo'[s]) \subseteq DOMAIN saw'[s]
      BY <1>1 DEF AloneOK
    <2>3. /\ \A u \in Sessions \ {s} : ~Open(u)
          /\ \A k \in DOMAIN saw[s] :
                /\ saw[s][k] = "none" => db[k] = "none"
                /\ ~InPlace(k) => db[k] # "new"
      BY <2>1, <2>2 DEF AloneOK
    <2>4. saw'[s] = saw[s] \/ saw'[s] = <<>>
      BY <1>1
    <2>5. QED
      BY <1>1, <2>2, <2>3, <2>4, RowsTyped DEF Open, Now
  <1>6. company' \subseteq Sessions /\ phase[s] # "closed"
    BY DEF IInv, Shared, Open
  <1>7. Guarded(s)'
    <2>1. found'[s] \subseteq Claims(s)'
      <3>1. CASE w = <<>>
        BY <3>1, RowsTyped DEF Claims
      <3>2. CASE w # <<>>
        BY <1>1, <3>2 DEF Claims, Now
      <3>3. QED
        BY <3>1, <3>2
    <2>2. QED
      BY <1>1, <2>1 DEF Guarded
  <1>8. QED
    BY <1>2, <1>3, <1>4, <1>5, <1>6, <1>7, Kept

LEMMA BeginInv ==
    ASSUME IInv, NEW s \in Sessions, NEW p \in Programs, Begin(s, p)
    PROVE  IInv'
  <1>1. /\ phase' = [phase EXCEPT ![s] = "next"] /\ program' = [program EXCEPT ![s] = p]
        /\ phase[s] = "idle"
    BY DEF Begin
  <1>2. Moves(s)
    BY <1>1 DEF Begin, Moves, IInv, Shapes
  <1>3. /\ phase'[s] = "next" /\ program'[s] = p /\ own'[s] = <<>>
        /\ saw'[s] = <<>> /\ todo'[s] = <<>> /\ found'[s] = {}
    BY <1>1 DEF Begin, IInv, Shapes, Local, Guarded, Open
  <1>4. Shapes'
    <2>1. p \in Remainders
      BY RemaindersOK
    <2>2. QED
      BY <1>1, <2>1 DEF Begin, IInv, Shapes, Phases
  <1>5. /\ {u \in Sessions : Open(u)} # {} =>
              company' = company \cup {u \in Sessions : Open(u)} \cup {s}
        /\ {u \in Sessions : Open(u)} = {} => company' = company
    BY DEF Begin
  <1>6. /\ company \subseteq company' /\ company' \subseteq Sessions
        /\ \A u \in Sessions \ {s} : Open(u) => u \in company'
        /\ db' = db /\ stored' = stored
    BY <1>5 DEF Begin, IInv, Shared
  <1>7. Local(s)' /\ Guarded(s)' /\ SpareOK(s)'
    BY <1>3, RowsTyped DEF Local, Guarded, SpareOK, Open
  <1>8. AloneOK(s)'
    <2>1. SUFFICES ASSUME s \notin company' PROVE AloneOK(s)'
      BY DEF AloneOK
    <2>2. \A u \in Sessions : ~Open(u)
      BY <1>5, <2>1
    <2>3. \A u \in Sessions \ {s} : ~Open(u)'
      BY <1>2, <2>2 DEF Moves, Open
    <2>4. QED
      BY <1>3, <2>3, RowsTyped DEF AloneOK
  <1>9. \A u \in Sessions \ {s} : DOMAIN own'[s] \cap DOMAIN own[u] = {}
    BY <1>3, RowsTyped
  <1>10. QED
    BY <1>1, <1>2, <1>4, <1>6, <1>7, <1>8, <1>9, Kept

LEMMA ExpireInv ==
    ASSUME IInv, NEW s \in Sessions, Expire(s)
    PROVE  IInv'
  <1> DEFINE there == {k \in Now(s).keys : db[k] # "none"}
  <1>1. /\ phase[s] = "next" /\ program[s] # <<>> /\ Now(s).act = "expire"
        /\ program[s] \in Remainders /\ Open(s)
    BY DEF Expire, At, IInv, Shapes, Open
  <1>2. Now(s).keys \subseteq Keys /\ Now(s).keys \subseteq Quotes(Symbols)
    BY <1>1, FirstStep DEF Now
  <1>3. PICK order \in SetToSeqs(there) : GoOn(s, order)
    BY DEF Expire
  <1>4. order \in Seq(Keys) /\ ToSet(order) = there
    <2>1. there \in SUBSET Keys
      BY <1>2
    <2> HIDE DEF there
    <2>2. order \in Seq(there) /\ ToSet(order) = there
      BY <2>1, KeysFinite, Orders
    <2>3. QED
      BY <2>1, <2>2
  <1>5. /\ found' = [found EXCEPT ![s] = there]
        /\ UNCHANGED <<db, stored, own, priced, rows, target, company>>
    BY DEF Expire
  <1>6. there \subseteq Quotes(Symbols) /\ there \subseteq Now(s).keys
    BY <1>2
  <1> HIDE DEF there
  <1>7. /\ found' \in [Sessions -> SUBSET Quotes(Symbols)] /\ found'[s] = there
        /\ \A u \in Sessions \ {s} : found'[u] = found[u]
    BY <1>5, <1>6 DEF IInv, Shapes
  <1>8. /\ \A k \in DOMAIN own[s] : own[s][k] = "old" => k[1] = "quote"
        /\ \A u \in Sessions \ {s} : DOMAIN own[s] \cap DOMAIN own[u] = {}
        /\ own \in [Sessions -> RowsIn({"old", "new"})]
        /\ priced \in [Sessions -> SUBSET Quotes(Symbols)]
    BY DEF IInv, Local, LocksDisjoint, Shapes
  <1>9. QED
    BY <1>1, <1>3, <1>4, <1>5, <1>6, <1>7, <1>8, WentOn

LEMMA ViewTyped ==
    ASSUME IInv, NEW s \in Sessions, NEW k \in Keys
    PROVE  /\ View(s, k) \in Ages /\ db[k] \in Ages
           /\ k \in DOMAIN own[s] => View(s, k) \in {"old", "new"}
           /\ db[k] # "none" => View(s, k) # "none"
           /\ View(s, k) # "new" /\ ~InPlace(k) => db[k] # "new"
  <1>1. db[k] \in Ages /\ own[s] \in RowsIn({"old", "new"}) /\ Local(s)
    BY DEF IInv, Shared, Shapes
  <1>2. k \in DOMAIN own[s] => own[s][k] \in {"old", "new"}
    BY <1>1, RowsTyped
  <1>3. k \in DOMAIN own[s] /\ own[s][k] = "old" => InPlace(k)
    BY <1>1 DEF Local, InPlace
  <1>4. QED
    BY <1>1, <1>2, <1>3 DEF View, Ages

LEMMA ReadInv ==
    ASSUME IInv, NEW s \in Sessions, Read(s)
    PROVE  IInv'
  <1> DEFINE keys == IF Now(s).act = "rate" /\ Now(s).of \notin priced[s] THEN {} ELSE Now(s).keys
             missing == {k \in keys : View(s, k) # "new"}
  <1>1. /\ phase[s] = "next" /\ program[s] # <<>> /\ program[s] \in Remainders
        /\ Now(s).act \in Reads /\ Open(s)
    BY DEF Read, At, Reads, Open, IInv, Shapes
  <1>2. /\ Now(s).keys \subseteq Keys /\ keys \subseteq Now(s).keys /\ missing \subseteq keys
        /\ Now(s).act = "quotes" => Now(s).keys \subseteq Quotes(Symbols)
    BY <1>1, FirstStep DEF Now
  <1>3. /\ UNCHANGED <<db, stored, own, rows, target, company, found>>
        /\ priced' = IF Now(s).act = "quotes"
                       THEN [priced EXCEPT ![s] = {k \in keys : View(s, k) # "none"}]
                       ELSE priced
        /\ missing = {} => GoOn(s, <<>>)
        /\ missing # {} =>
             /\ phase' = [phase EXCEPT ![s] = "ask"]
             /\ saw' = [saw EXCEPT ![s] = [k \in missing |-> View(s, k)]]
             /\ UNCHANGED <<program, todo>>
    BY DEF Read
  <1>4. /\ own \in [Sessions -> RowsIn({"old", "new"})]
        /\ \A k \in DOMAIN own[s] : own[s][k] = "old" => k[1] = "quote"
        /\ \A u \in Sessions \ {s} : DOMAIN own[s] \cap DOMAIN own[u] = {}
        /\ found \in [Sessions -> SUBSET Quotes(Symbols)] /\ found[s] \subseteq Claims(s)
        /\ company \subseteq Sessions
    BY <1>1 DEF IInv, Local, Guarded, LocksDisjoint, Shapes, Shared
  <1>5. priced' \in [Sessions -> SUBSET Quotes(Symbols)]
    <2>1. priced \in [Sessions -> SUBSET Quotes(Symbols)]
      BY DEF IInv, Shapes
    <2>2. CASE Now(s).act = "quotes"
      <3>1. {k \in keys : View(s, k) # "none"} \in SUBSET Quotes(Symbols)
        BY <1>2, <2>2
      <3> HIDE DEF keys
      <3>2. QED
        BY <1>3, <2>1, <2>2, <3>1
    <2>3. QED
      BY <1>3, <2>1, <2>2
  <1>6. CASE missing = {}
    <2>1. GoOn(s, <<>>) /\ <<>> \in Seq(Keys) /\ ToSet(<<>>) = {} /\ DOMAIN <<>> = {}
      BY <1>3, <1>6, RowsTyped
    <2>2. Now(s).act # "expire" /\ Claims(s) = DOMAIN own[s]
      BY <1>1 DEF Claims, Reads
    <2> HIDE DEF keys, missing
    <2>3. QED
      BY <1>1, <1>3, <1>4, <1>5, <2>1, <2>2, WentOn
  <1>7. CASE missing # {}
    <2> HIDE DEF keys
    <2>1. /\ phase' = [phase EXCEPT ![s] = "ask"]
          /\ saw' = [saw EXCEPT ![s] = [k \in missing |-> View(s, k)]]
          /\ program' = program /\ todo' = todo
      BY <1>3, <1>7
    <2>2. [k \in missing |-> View(s, k)] \in RowsIn({"none", "old"})
      <3>1. \A k \in missing : View(s, k) \in {"none", "old"}
        BY <1>2, ViewTyped DEF Ages
      <3>2. missing \in SUBSET Keys
        BY <1>2
      <3> HIDE DEF missing
      <3>3. [k \in missing |-> View(s, k)] \in [missing -> {"none", "old"}]
        BY <3>1
      <3>4. QED
        BY <3>2, <3>3, RowsTyped
    <2>3. Moves(s)
      BY <1>3, <2>1 DEF Moves, IInv, Shapes
    <2>4. Shapes'
      <3> HIDE DEF missing
      <3>1. QED
        BY <1>3, <1>5, <2>1, <2>2 DEF IInv, Shapes, Phases
    <2>5. /\ phase'[s] = "ask" /\ program'[s] = program[s] /\ own'[s] = own[s]
          /\ todo'[s] = todo[s] /\ DOMAIN saw'[s] = missing
          /\ \A k \in missing : saw'[s][k] = View(s, k)
      BY <1>3, <2>1 DEF IInv, Shapes
    <2>6. Local(s)
      BY DEF IInv
    <2>7. Local(s)' /\ SpareOK(s)' /\ Guarded(s)'
      <3> HIDE DEF missing
      <3>1. QED
        BY <1>1, <1>2, <1>3, <1>4, <2>5, <2>6
           DEF Local, SpareOK, Guarded, Claims, Open, Now, Reads
    <2>8. AloneOK(s)'
      <3>1. SUFFICES ASSUME s \notin company PROVE AloneOK(s)'
        BY <1>3 DEF AloneOK
      <3>2. \A u \in Sessions \ {s} : ~Open(u)'
        BY <1>1, <2>3, <3>1 DEF IInv, AloneOK, Open, Moves
      <3>3. \A k \in missing : /\ View(s, k) = "none" => db[k] = "none"
                               /\ ~InPlace(k) => db[k] # "new"
        BY <1>2, ViewTyped
      <3> HIDE DEF missing
      <3>4. QED
        BY <1>3, <2>5, <3>2, <3>3 DEF AloneOK
    <2> HIDE DEF missing
    <2>9. QED
      BY <1>1, <1>3, <1>4, <2>3, <2>4, <2>5, <2>7, <2>8, Kept
  <1>8. QED
    BY <1>6, <1>7

LEMMA AnswerInv ==
    ASSUME IInv, NEW s \in Sessions, Answer(s)
    PROVE  IInv'
  <1>1. /\ phase[s] = "ask" /\ program[s] # <<>> /\ program[s] \in Remainders /\ Open(s)
        /\ Now(s).act \in Reads /\ DOMAIN saw[s] \subseteq Now(s).keys
    BY DEF Answer, IInv, Shapes, Local, Open
  <1>2. /\ Now(s).keys \subseteq Keys
        /\ Now(s).act = "quotes" => Now(s).keys \subseteq Quotes(Symbols)
    BY <1>1, FirstStep DEF Now
  <1>3. PICK answered \in SUBSET DOMAIN saw[s] :
          /\ \E order \in FlushOrders(s, {k \in answered : k[1] = "news" => View(s, k) # "new"}) :
                GoOn(s, order)
          /\ priced' = IF Now(s).act = "quotes"
                         THEN [priced EXCEPT ![s] = priced[s] \cup answered]
                         ELSE priced
    BY DEF Answer
  <1> DEFINE written == {k \in answered : k[1] = "news" => View(s, k) # "new"}
  <1>4. written \subseteq DOMAIN saw[s] /\ written \in SUBSET Keys
    BY <1>1, <1>2
  <1>5. PICK order \in FlushOrders(s, written) : GoOn(s, order)
    BY <1>3
  <1> HIDE DEF written
  <1>6. order \in Seq(Keys) /\ ToSet(order) = written
    BY <1>4, <1>5, FlushesAnswered
  <1>7. priced' \in [Sessions -> SUBSET Quotes(Symbols)]
    BY <1>1, <1>2, <1>3 DEF IInv, Shapes
  <1>8. UNCHANGED <<db, stored, own, rows, target, company, found>>
    BY DEF Answer
  <1>9. /\ own \in [Sessions -> RowsIn({"old", "new"})]
        /\ \A k \in DOMAIN own[s] : own[s][k] = "old" => k[1] = "quote"
        /\ \A u \in Sessions \ {s} : DOMAIN own[s] \cap DOMAIN own[u] = {}
        /\ found \in [Sessions -> SUBSET Quotes(Symbols)] /\ found[s] \subseteq Claims(s)
    BY <1>1 DEF IInv, Local, Guarded, LocksDisjoint, Shapes
  <1>10. Claims(s) = DOMAIN own[s] /\ Now(s).act # "expire"
    BY <1>1 DEF Claims, Reads
  <1>11. ToSet(order) \subseteq Now(s).keys /\ ToSet(order) \subseteq DOMAIN saw[s]
    BY <1>1, <1>4, <1>6
  <1>12. QED
    BY <1>1, <1>5, <1>6, <1>7, <1>8, <1>9, <1>10, <1>11, WentOn

LEMMA WriteInv ==
    ASSUME IInv, NEW s \in Sessions, Write(s)
    PROVE  IInv'
  <1> DEFINE k == Head(todo[s])
             age == IF Now(s).act = "expire" THEN "old" ELSE "new"
             written == [l \in DOMAIN own[s] \cup {k} |-> IF l # k THEN own[s][l] ELSE age]
  <1>1. /\ phase[s] = "write" /\ ~Waiting(s) /\ program[s] # <<>> /\ program[s] \in Remainders
        /\ Open(s) /\ Now(s).act \in Reads \cup {"expire"} /\ ToSet(todo[s]) \subseteq Now(s).keys
        /\ todo[s] \in Seq(Keys) /\ todo[s] # <<>>
    BY DEF Write, IInv, Shapes, Local, Open
  <1>2. /\ k \in Keys /\ k \in ToSet(todo[s]) /\ Tail(todo[s]) \in Seq(Keys)
        /\ ToSet(todo[s]) = {k} \cup ToSet(Tail(todo[s]))
    BY <1>1, HeadAndTail
  <1>3. /\ Now(s).keys \subseteq Keys
        /\ Now(s).act = "expire" => Now(s).keys \subseteq Quotes(Symbols)
    BY <1>1, FirstStep DEF Now
  <1>4. own' = [own EXCEPT ![s] = written]
    BY DEF Write
  <1>5. GoOn(s, Tail(todo[s])) /\ UNCHANGED <<db, stored, priced, rows, target, company, found>>
    BY DEF Write
  <1>6. /\ own \in [Sessions -> RowsIn({"old", "new"})] /\ own[s] \in RowsIn({"old", "new"})
        /\ priced \in [Sessions -> SUBSET Quotes(Symbols)]
        /\ \A l \in DOMAIN own[s] : own[s][l] = "old" => l[1] = "quote"
        /\ \A u \in Sessions \ {s} : DOMAIN own[s] \cap DOMAIN own[u] = {}
        /\ found \in [Sessions -> SUBSET Quotes(Symbols)] /\ found[s] \subseteq Claims(s)
    BY <1>1 DEF IInv, Local, Guarded, LocksDisjoint, Shapes
  <1>7. written \in RowsIn({"old", "new"})
    <2>1. DOMAIN own[s] \subseteq Keys /\ \A l \in DOMAIN own[s] : own[s][l] \in {"old", "new"}
      BY <1>6, RowsTyped
    <2>2. age \in {"old", "new"}
      OBVIOUS
    <2> HIDE DEF k, age
    <2>3. \A l \in DOMAIN own[s] \cup {k} : (IF l # k THEN own[s][l] ELSE age) \in {"old", "new"}
      BY <2>1, <2>2
    <2>4. written \in [DOMAIN own[s] \cup {k} -> {"old", "new"}]
      BY <2>3
    <2>5. DOMAIN own[s] \cup {k} \in SUBSET Keys
      BY <1>2, <2>1
    <2>6. QED
      BY <2>4, <2>5, RowsTyped
  <1>8. /\ DOMAIN written = DOMAIN own[s] \cup {k}
        /\ \A l \in DOMAIN written : written[l] = IF l # k THEN own[s][l] ELSE age
    OBVIOUS
  <1>9. \A l \in DOMAIN written : written[l] = "old" => l[1] = "quote"
    <2>1. Now(s).act = "expire" => k[1] = "quote"
      BY <1>1, <1>2, <1>3 DEF Quotes
    <2> HIDE DEF k, written
    <2>2. QED
      BY <1>6, <1>8, <2>1
  <1>10. \A u \in Sessions \ {s} : k \notin DOMAIN own[u]
    BY <1>1 DEF Waiting, WaitsFor
  <1> HIDE DEF written, k
  <1>11. own'[s] = written /\ \A u \in Sessions \ {s} : own'[u] = own[u]
    BY <1>4, <1>6
  <1>12. own' \in [Sessions -> RowsIn({"old", "new"})]
    BY <1>4, <1>6, <1>7
  <1>13. Claims(s) \subseteq DOMAIN own'[s] \cup
                              IF Now(s).act = "expire" THEN ToSet(Tail(todo[s])) ELSE {}
    BY <1>2, <1>8, <1>11 DEF Claims
  <1>14. ToSet(Tail(todo[s])) \subseteq Now(s).keys
    BY <1>1, <1>2
  <1>15. s \notin company /\ Now(s).act # "expire" => ToSet(Tail(todo[s])) \subseteq DOMAIN saw[s]
    BY <1>1, <1>2 DEF IInv, AloneOK
  <1>16. \A u \in Sessions \ {s} : DOMAIN own'[s] \cap DOMAIN own[u] = {}
    BY <1>6, <1>8, <1>10, <1>11
  <1>17. QED
    BY <1>1, <1>2, <1>5, <1>6, <1>9, <1>11, <1>12, <1>13, <1>14, <1>15, <1>16, WentOn

LEMMA Replacing ==
    ASSUME IInv, NEW s \in Sessions, program[s] # <<>>, Now(s).act = "replace"
    PROVE  Now(s).of \in Tables /\ stored[Now(s).of] \in SUBSET (Writer \X Items)
  <1>1. program[s] \in Remainders
    BY DEF IInv, Shapes
  <1>2. Now(s).of \in Tables
    BY <1>1, FirstStep DEF Now
  <1>3. QED
    BY <1>2 DEF IInv, Shared

LEMMA DeleteOrLockInv ==
    ASSUME IInv, NEW s \in Sessions, Delete(s) \/ Lock(s)
    PROVE  IInv'
  <1>1. /\ phase[s] \in {"next", "delete"} /\ program[s] # <<>> /\ Now(s).act = "replace"
        /\ Open(s)
    BY DEF Delete, Lock, At, IInv, Local, Open
  <1>2. stored[Now(s).of] \in SUBSET (Writer \X Items)
    BY <1>1, Replacing
  <1>3. /\ UNCHANGED <<db, stored, program, own, saw, todo, priced, company, found>>
        /\ \E new \in {"delete", "insert"} : phase' = [phase EXCEPT ![s] = new]
    BY DEF Delete, Lock
  <1>4. rows' \in [Sessions -> SUBSET Items]
    BY DEF Delete, Lock, IInv, Shapes
  <1>5. \E t \in SUBSET (Writer \X Items) : target' = [target EXCEPT ![s] = t]
    <2>1. target[s] \in SUBSET (Writer \X Items)
      BY DEF IInv, Shapes
    <2>2. CASE Delete(s)
      BY <1>2, <2>2 DEF Delete
    <2>3. CASE Lock(s)
      <3>1. target' = [target EXCEPT ![s] = target[s] \cap stored[Now(s).of]]
        BY <2>3 DEF Lock
      <3>2. QED
        BY <2>1, <3>1
    <2>4. QED
      BY <2>2, <2>3
  <1>6. Shapes'
    BY <1>3, <1>4, <1>5 DEF IInv, Shapes, Phases
  <1>7. Moves(s)
    BY <1>3, <1>5 DEF IInv, Shapes, Moves
  <1>8. phase'[s] \in {"delete", "insert"} /\ Local(s) /\ Guarded(s)
    BY <1>3 DEF IInv, Shapes
  <1>9. Local(s)' /\ Guarded(s)' /\ phase[s] # "closed"
    BY <1>1, <1>3, <1>8 DEF Local, Guarded, Claims, Open, Now
  <1>10. stored[Now(s).of] \ target'[s] = {} \/ Lock(s)
    BY DEF Delete, IInv, Shapes
  <1>11. Lock(s) => target'[s] = target[s] \cap stored[Now(s).of] /\ phase[s] = "delete"
    BY DEF Lock, IInv, Shapes
  <1>12. SpareOK(s)'
    <2>1. CASE Lock(s)
      <3>1. SpareOK(s) /\ stored[Now(s).of] \ target'[s] = stored[Now(s).of] \ target[s]
        BY <1>11, <2>1 DEF IInv
      <3>2. QED
        BY <1>3, <1>11, <2>1, <3>1 DEF SpareOK, Now
    <2>2. CASE ~Lock(s)
      BY <1>3, <1>10, <2>2 DEF SpareOK, Now
    <2>3. QED
      BY <2>1, <2>2
  <1>13. AloneOK(s)'
    <2>1. CASE Delete(s)
      <3>1. target'[s] = stored[Now(s).of]
        BY <2>1 DEF Delete, IInv, Shapes
      <3>2. QED
        BY <1>1, <1>3, <1>7, <1>8, <3>1 DEF IInv, AloneOK, Moves, Open, Now
    <2>2. CASE Lock(s)
      BY <1>1, <1>3, <1>7, <1>8, <1>11, <2>2 DEF IInv, AloneOK, Moves, Open, Now
    <2>3. QED
      BY <2>1, <2>2
  <1>14. QED
    BY <1>1, <1>3, <1>6, <1>7, <1>9, <1>12, <1>13, Kept DEF IInv, Shared, LocksDisjoint

LEMMA CommittedRows ==
    ASSUME IInv, NEW s \in Sessions, Committed(s)
    PROVE  db' \in [Keys -> Ages]
  <1>1. db' = [k \in Keys |-> View(s, k)]
    BY DEF Committed
  <1>2. QED
    BY <1>1, ViewTyped

LEMMA CommitInv ==
    ASSUME IInv, NEW s \in Sessions, Commit(s)
    PROVE  IInv'
  <1>1. Open(s) /\ Close(s) /\ Committed(s) /\ UNCHANGED <<stored, company, found>>
    BY DEF Commit, Open, Close
  <1>2. Shared' /\ SignalsMixOnlyIfDisjoint'
    BY <1>1, CommittedRows DEF IInv, Shared, SignalsMixOnlyIfDisjoint
  <1>3. QED
    BY <1>1, <1>2, Closed

LEMMA ReplaceInv ==
    ASSUME IInv, NEW s \in Sessions, Replace(s)
    PROVE  IInv'
  <1> DEFINE table == Now(s).of
             kept == stored[table] \ target[s]
             new == {s} \X rows[s]
  <1>1. /\ phase[s] = "insert" /\ Open(s) /\ Close(s) /\ Committed(s)
        /\ UNCHANGED <<company, found>>
        /\ ~Clashes(s, table, kept)
        /\ stored' = [stored EXCEPT ![table] = kept \cup new]
    BY DEF Replace, Close, Open
  <1>2. program[s] # <<>> /\ Now(s).act = "replace"
    BY <1>1 DEF IInv, Local
  <1>3. table \in Tables /\ stored[table] \in SUBSET (Writer \X Items)
    BY <1>2, Replacing
  <1>4. /\ stored \in [Tables -> SUBSET (Writer \X Items)] /\ rows[s] \in SUBSET Items
        /\ \A r, q \in stored["groups"] : r[2] = q[2] => r = q
    BY DEF IInv, Shared, Shapes
  <1>5. new \in SUBSET (Writer \X Items) /\ \A r, q \in new : r[2] = q[2] => r = q
    BY <1>4 DEF Writer
  <1>6. \A r \in new : r[1] = s /\ r[2] \in rows[s]
    OBVIOUS
  <1> HIDE DEF new
  <1>7. kept \subseteq stored[table] /\ kept \cup new \in SUBSET (Writer \X Items)
    BY <1>3, <1>5
  <1>8. stored' \in [Tables -> SUBSET (Writer \X Items)]
    BY <1>1, <1>4, <1>7
  <1>9. \A t \in Tables : stored'[t] = IF t = table THEN kept \cup new ELSE stored[t]
    BY <1>1, <1>3, <1>4
  <1>10. \A r, q \in stored'["groups"] : r[2] = q[2] => r = q
    <2>1. "groups" \in Tables
      BY DEF Tables
    <2>2. CASE table # "groups"
      BY <1>4, <1>9, <2>1, <2>2
    <2>3. CASE table = "groups"
      <3>1. \A r \in kept : r[2] \notin rows[s]
        BY <1>1, <2>3 DEF Clashes
      <3>2. \A r \in kept, q \in new : r[2] # q[2]
        BY <1>6, <3>1
      <3>3. \A r, q \in kept : r[2] = q[2] => r = q
        BY <1>4, <2>3
      <3> HIDE DEF kept
      <3>4. stored'["groups"] = kept \cup new
        BY <1>9, <2>1, <2>3
      <3>5. QED
        BY <1>5, <3>2, <3>3, <3>4
    <2>4. QED
      BY <2>2, <2>3
  <1>11. Shared'
    BY <1>1, <1>8, <1>10, CommittedRows DEF IInv, Shared
  <1>12. \A p \in ToSet(Portfolios) : p \in Tables
    BY DEF Tables
  <1>13. /\ found' = found /\ found[s] \subseteq DOMAIN own[s]
         /\ table \in ToSet(Portfolios) =>
              \A r \in kept : r[1] \in Sessions /\ found[r[1]] \cap found[s] = {}
    BY <1>1, <1>2 DEF IInv, Guarded, Claims, SpareOK
  <1>14. SignalsMixOnlyIfDisjoint'
    <2>1. SUFFICES ASSUME NEW p \in ToSet(Portfolios), NEW r \in stored'[p], NEW q \in stored'[p],
                          r[1] # q[1]
                   PROVE  /\ r[1] \in Sessions /\ q[1] \in Sessions
                          /\ found[r[1]] \cap found[q[1]] = {}
      BY <1>13 DEF SignalsMixOnlyIfDisjoint
    <2>2. CASE r \in stored[p] /\ q \in stored[p]
      BY <2>1, <2>2 DEF IInv, SignalsMixOnlyIfDisjoint
    <2>3. CASE p = table /\ r \in kept /\ q \in new
      BY <1>6, <1>13, <2>1, <2>3
    <2>4. CASE p = table /\ r \in new /\ q \in kept
      BY <1>6, <1>13, <2>1, <2>4
    <2>5. CASE p = table /\ r \in new /\ q \in new
      BY <1>6, <2>1, <2>5
    <2>6. p # table => stored'[p] = stored[p]
      BY <1>9, <1>12
    <2>7. p = table => stored'[p] = kept \cup new
      BY <1>3, <1>9
    <2> HIDE DEF kept, table
    <2>8. p = table => (r \in kept \/ r \in new) /\ (q \in kept \/ q \in new)
      BY <2>1, <2>7
    <2>9. p = table /\ r \in kept /\ q \in kept => r \in stored[p] /\ q \in stored[p]
      BY <1>7
    <2>10. QED
      BY <2>1, <2>2, <2>3, <2>4, <2>5, <2>6, <2>8, <2>9
  <1>15. \A p \in ToSet(Portfolios) : \A r \in stored'[p] : r \in stored[p] \/ r[1] = s
    BY <1>6, <1>7, <1>9, <1>12
  <1>16. ASSUME NEW u \in Sessions \ {s}, phase[u] \in {"delete", "insert"},
                Now(u).of \in ToSet(Portfolios)
         PROVE  stored'[Now(u).of] = stored[Now(u).of] \/ found[s] \cap found[u] = {}
    <2>1. Open(u) /\ Now(u).act = "replace"
      BY <1>16 DEF IInv, Local, Open
    <2>2. found[u] \subseteq DOMAIN own[u]
      BY <2>1 DEF IInv, Guarded, Claims
    <2>3. DOMAIN own[s] \cap DOMAIN own[u] = {}
      BY DEF IInv, LocksDisjoint
    <2>4. QED
      BY <1>13, <2>2, <2>3
  <1>17. QED
    BY <1>1, <1>11, <1>13, <1>14, <1>15, <1>16, Closed

LEMMA ExpiresInv ==
    ASSUME IInv, NEW k \in Keys, Expires(k)
    PROVE  IInv'
  <1>1. /\ db[k] = "new" /\ db' = [db EXCEPT ![k] = "old"]
        /\ UNCHANGED <<stored, phase, program, own, saw, todo, priced, rows, target,
                       company, found>>
    BY DEF Expires, session
  <1>2. \A l \in Keys : /\ db[l] # "none" => db'[l] # "none"
                        /\ db[l] = "none" => db'[l] = "none"
                        /\ db[l] # "new" => db'[l] # "new"
    BY <1>1 DEF IInv, Shared
  <1>3. Shared' /\ Shapes' /\ LocksDisjoint' /\ SignalsMixOnlyIfDisjoint'
    BY <1>1 DEF IInv, Shared, Shapes, LocksDisjoint, SignalsMixOnlyIfDisjoint, Ages
  <1>4. ASSUME NEW s \in Sessions
        PROVE  Local(s)' /\ Guarded(s)' /\ Unwritten(s)' /\ SpareOK(s)' /\ AloneOK(s)'
    <2>1. Local(s)' /\ Guarded(s)' /\ Unwritten(s)' /\ SpareOK(s)'
      BY <1>1 DEF IInv, Local, Guarded, Unwritten, SpareOK, Claims, Open, Now
    <2>2. saw[s] \in RowsIn({"none", "old"})
      BY DEF IInv, Shapes
    <2>3. DOMAIN saw[s] \subseteq Keys
      BY <2>2, RowsTyped
    <2>4. AloneOK(s)'
      BY <1>1, <1>2, <2>3 DEF IInv, AloneOK, Open, Now
    <2>5. QED
      BY <2>1, <2>4
  <1>5. QED
    BY <1>3, <1>4 DEF IInv

LEMMA InitInv == Init => IInv
  <1>1. SUFFICES ASSUME Init PROVE IInv
    OBVIOUS
  <1>2. PICK items \in {{}, Items} : stored = [t \in Tables |-> {None} \X items]
    BY <1>1 DEF Init
  <1>3. \A t \in Tables : stored[t] = {None} \X items
    BY <1>2
  <1>4. Shared
    <2>1. {None} \X items \in SUBSET (Writer \X Items)
      BY <1>2 DEF Writer
    <2>2. stored \in [Tables -> SUBSET (Writer \X Items)]
      BY <1>2, <2>1
    <2>3. db \in [Keys -> Ages]
      BY <1>1, ConstantsOK DEF Init, Ages
    <2>4. \A r, q \in {None} \X items : r[2] = q[2] => r = q
      OBVIOUS
    <2>5. \A r, q \in stored["groups"] : r[2] = q[2] => r = q
      BY <1>3, <2>4 DEF Tables
    <2>6. QED
      BY <1>1, <2>2, <2>3, <2>5 DEF Init, Shared
  <1>5. Shapes
    BY <1>1, RowsTyped, RemaindersOK DEF Init, Shapes, Phases
  <1>6. \A p \in ToSet(Portfolios) : \A r \in stored[p] : r[1] = None
    BY <1>3 DEF Tables
  <1>7. \A s \in Sessions : /\ phase[s] = "idle" /\ program[s] = <<>> /\ own[s] = <<>>
                            /\ saw[s] = <<>> /\ todo[s] = <<>> /\ found[s] = {}
    BY <1>1 DEF Init
  <1>8. LocksDisjoint /\ SignalsMixOnlyIfDisjoint
    BY <1>6, <1>7, RowsTyped DEF LocksDisjoint, SignalsMixOnlyIfDisjoint
  <1>9. \A s \in Sessions : Local(s) /\ Guarded(s) /\ Unwritten(s) /\ SpareOK(s) /\ AloneOK(s)
    BY <1>6, <1>7, RowsTyped, ConstantsOK
       DEF Local, Guarded, Unwritten, SpareOK, AloneOK, Open
  <1>10. QED
    BY <1>4, <1>5, <1>8, <1>9 DEF IInv

LEMMA NextInv == IInv /\ [Next]_vars => IInv'
  <1>1. SUFFICES ASSUME IInv, [Next]_vars PROVE IInv'
    OBVIOUS
  <1>2. CASE UNCHANGED vars
    <2>1. UNCHANGED <<db, stored, phase, program, own, saw, todo, priced, rows, target,
                      company, found>>
      BY <1>2 DEF vars
    <2>2. Shared' /\ Shapes' /\ LocksDisjoint' /\ SignalsMixOnlyIfDisjoint'
      BY <1>1, <2>1 DEF IInv, Shared, Shapes, LocksDisjoint, SignalsMixOnlyIfDisjoint
    <2>3. (\A s \in Sessions :
             Local(s) /\ Guarded(s) /\ Unwritten(s) /\ SpareOK(s) /\ AloneOK(s))'
      BY <1>1, <2>1
         DEF IInv, Local, Guarded, Unwritten, SpareOK, AloneOK, Claims, Open, Now
    <2>4. QED
      BY <2>2, <2>3 DEF IInv
  <1>3. ASSUME NEW s \in Sessions, NEW p \in Programs, Begin(s, p) PROVE IInv'
    BY <1>1, <1>3, BeginInv
  <1>4. ASSUME NEW k \in Keys, Expires(k) PROVE IInv'
    BY <1>1, <1>4, ExpiresInv
  <1>5. ASSUME NEW s \in Sessions, Step(s) \/ Abort(s) PROVE IInv'
    <2>1. CASE Expire(s)
      BY <1>1, <2>1, ExpireInv
    <2>2. CASE Read(s)
      BY <1>1, <2>2, ReadInv
    <2>3. CASE Answer(s)
      BY <1>1, <2>3, AnswerInv
    <2>4. CASE Write(s)
      BY <1>1, <2>4, WriteInv
    <2>5. CASE Delete(s) \/ Lock(s)
      BY <1>1, <2>5, DeleteOrLockInv
    <2>6. CASE Replace(s)
      BY <1>1, <2>6, ReplaceInv
    <2>7. CASE Commit(s)
      BY <1>1, <2>7, CommitInv
    <2>8. CASE Raise(s) \/ WriteFails(s) \/ ReplaceFails(s)
      BY <1>1, <2>8, RolledBack DEF Raise, WriteFails, ReplaceFails, Open
    <2>9. CASE AbortVictim(s)
      <3>1. Open(s)
        BY <2>9 DEF AbortVictim, Deadlocked, WaitsFor, Open
      <3>2. QED
        BY <1>1, <2>9, <3>1, RolledBack DEF AbortVictim
    <2>10. CASE Abort(s)
      BY <1>1, <2>10, RolledBack DEF Abort
    <2>11. QED
      BY <1>5, <2>1, <2>2, <2>3, <2>4, <2>5, <2>6, <2>7, <2>8, <2>9, <2>10 DEF Step
  <1>6. QED
    BY <1>1, <1>2, <1>3, <1>4, <1>5 DEF Next

LEMMA Invariance == Spec => []IInv
  BY InitInv, NextInv, PTL DEF Spec

-----------------------------------------------------------------------------
(***************************************************************************)
(* Theorems                                                                *)
(***************************************************************************)

\* The locals of every session match its place, and a day's group snapshot
\* never has two rows for one group, whatever sessions delete and insert it.
THEOREM SessionsTyped == Spec => []TypeOK
  BY Invariance, InvTyped, PTL

\* The signals of two analyses stand side by side only if their UPDATEs, which
\* expire the cached quotes, found no row in common: a row found by both keeps
\* the DELETE of one after the commit of the other, whatever requests edit.
THEOREM SignalsAreWhole == Spec => []SignalsMixOnlyIfDisjoint
  <1>1. IInv => SignalsMixOnlyIfDisjoint
    BY DEF IInv
  <1>2. QED
    BY <1>1, Invariance, PTL

\* A session that met no other fails on no constraint and no lock, and the table
\* it replaces holds its rows and no others.
THEOREM AloneIsExact == Spec => AloneExact
  <1>1. ASSUME IInv, NEW s \in Sessions \ company
        PROVE  /\ ~(WriteFails(s) \/ ReplaceFails(s) \/ AbortVictim(s))
               /\ Replace(s) => stored'[Now(s).of] = {s} \X rows[s]
    <2>1. Local(s) /\ AloneOK(s)
      BY <1>1 DEF IInv
    <2>2. ~WriteFails(s)
      <3>1. SUFFICES ASSUME phase[s] = "write", Unseen(s, Head(todo[s])) PROVE FALSE
        BY DEF WriteFails
      <3>2. ToSet(todo[s]) \subseteq DOMAIN saw[s] /\ Open(s)
        BY <2>1, <3>1 DEF AloneOK, Open, Unseen
      <3>3. Head(todo[s]) \in ToSet(todo[s])
        BY <1>1, <2>1, <3>1, HeadAndTail DEF IInv, Shapes, Local
      <3>4. QED
        BY <2>1, <3>1, <3>2, <3>3 DEF AloneOK, Unseen
    <2>3. ~ReplaceFails(s)
      BY <2>1 DEF ReplaceFails, Clashes, AloneOK, Open
    <2>4. ~AbortVictim(s)
      <3>1. SUFFICES ASSUME NEW u \in Sessions \ {s}, WaitsFor(s, u) PROVE FALSE
        BY DEF AbortVictim, Deadlocked
      <3>2. Open(s)
        BY <3>1 DEF WaitsFor, Open
      <3>3. ~Open(u) /\ own[u] = <<>>
        BY <1>1, <2>1, <3>2 DEF AloneOK, IInv, Local
      <3>4. QED
        BY <3>1, <3>3, RowsTyped DEF WaitsFor, Open
    <2>5. ASSUME Replace(s) PROVE stored'[Now(s).of] = {s} \X rows[s]
      <3>1. phase[s] = "insert" /\ target[s] = stored[Now(s).of]
        BY <2>1, <2>5 DEF Replace, AloneOK, Open
      <3>2. Now(s).of \in Tables
        BY <1>1, <2>1, <3>1, Replacing DEF Local
      <3>3. stored' = [stored EXCEPT ![Now(s).of] =
                         (stored[Now(s).of] \ target[s]) \cup ({s} \X rows[s])]
        BY <2>5 DEF Replace
      <3>4. stored'[Now(s).of] = (stored[Now(s).of] \ target[s]) \cup ({s} \X rows[s])
        BY <1>1, <3>2, <3>3 DEF IInv, Shared
      <3>5. QED
        BY <3>1, <3>4
    <2>6. QED
      BY <2>2, <2>3, <2>4, <2>5
  <1>2. IInv => [\A s \in Sessions \ company :
                   /\ ~(WriteFails(s) \/ ReplaceFails(s) \/ AbortVictim(s))
                   /\ Replace(s) => stored'[Now(s).of] = {s} \X rows[s]]_vars
    BY <1>1
  <1>3. QED
    BY <1>2, Invariance, PTL DEF AloneExact
=============================================================================
