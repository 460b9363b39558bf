------------------------ MODULE DecisionBriefProofs ------------------------
(***************************************************************************)
(* That a decision brief is grounded, cut no more than needed, suggests    *)
(* nothing held and saw all it claims, for every portfolio, market, draft  *)
(* and limit.                                                              *)
(***************************************************************************)
EXTENDS DecisionBrief, TLAPS

Reads == {"holdings", "signals", "news", "exposure", "candidates"}
Sent == {"truncate", "ask", "store", "done"}

\* The fields of a context.
Shaped(c) ==
    /\ c = [holdings |-> c.holdings, signals |-> c.signals, news |-> c.news, candidates |-> c.candidates,
            evidence |-> c.evidence, texts |-> c.texts, compact |-> c.compact, truncated |-> c.truncated,
            ok |-> c.ok]
    /\ c.ok = [valuation |-> c.ok.valuation, signals |-> c.ok.signals, news |-> c.ok.news,
               exposure |-> c.ok.exposure, candidates |-> c.ok.candidates]

\* Rows come from the tables, and a symbol is one candidate.
Sound(c) ==
    /\ c.signals \subseteq Signals /\ c.news \subseteq News
    /\ \A x, y \in c.candidates : x.symbol = y.symbol => x = y

Typed ==
    /\ pc \in Reads \cup Sent \cup {"failed"}
    /\ edits \in Nat /\ broken \in BOOLEAN
    /\ Shaped(ctx) /\ Shaped(whole) /\ Sound(ctx)

\* While the context is read, nothing is cut and nothing answered.
Reading ==
    /\ pc \in Reads =>
          /\ ctx.texts = TRUE /\ ctx.compact = FALSE /\ ctx.truncated = FALSE
          /\ ctx.candidates = {}
    /\ payload # None => pc \in {"store", "done", "failed"}

\* What the truncation keeps, as TruncatedMinimal has it for the context sent.
Kept ==
    /\ ctx.holdings = whole.holdings
    /\ whole.texts = TRUE /\ whole.compact = FALSE
    /\ ctx.evidence = Evidence(ctx.signals, ctx.news, ctx.candidates)
    /\ Leads(ctx.news, whole.news, NewsOrder)
    /\ Leads(ctx.candidates, whole.candidates, CandidateOrder(whole.candidates))
    /\ Leads(ctx.signals, whole.signals, SignalOrder)
    /\ ctx.candidates # whole.candidates => ctx.news = {}
    /\ ctx.signals # whole.signals => ctx.candidates = {} /\ ctx.news = {}
    /\ ctx.texts = TRUE \/ (ctx.texts = FALSE /\ NoRows)
    /\ ctx.compact = FALSE \/ (ctx.compact = TRUE /\ ctx.texts = FALSE)
    /\ \/ ctx.truncated = TRUE /\ \E c \in Longer : Size(c) > limit
       \/ ctx.truncated = FALSE /\ ctx = whole

Truncation ==
    /\ pc \in Sent => Kept
    /\ pc \in Sent \ {"truncate"} => Size(ctx) <= limit

\* A transaction that is whole has read signals and news.
Saw ==
    /\ ~broken /\ pc \in Reads \cup Sent => ctx.ok.signals = TRUE /\ ctx.ok.news = TRUE
    /\ ~broken /\ pc \in {"news", "exposure", "candidates"} => ctx.signals = RealSignals
    /\ ~broken /\ pc \in Sent => whole.signals = RealSignals
    /\ pc = "done" => ~broken

\* Without trades the holdings of the context are those of the moment; its
\* candidates are not held.
Held ==
    /\ edits = 0 /\ pc \in (Reads \ {"holdings"}) \cup Sent => {h.symbol : h \in ctx.holdings} = held
    /\ pc \in Sent => \A c \in ctx.candidates : c.symbol \notin held

IInv == Typed /\ Reading /\ Truncation /\ Saw /\ Held /\ Grounded /\ HeldNeverSuggested

-----------------------------------------------------------------------------
(***************************************************************************)
(* Rows, their evidence and the cuts                                       *)
(***************************************************************************)

RefsOf(c) ==
    {Ref("signal", s.id) : s \in c.signals} \cup {Ref("news", n.id) : n \in c.news}
    \cup UNION {CandidateRefs(d) : d \in c.candidates}

\* What a piece of evidence comes from.
LEMMA EvidenceOf ==
    ASSUME NEW S, NEW N, NEW C, NEW e
    PROVE  e \in Evidence(S, N, C) <=>
             \/ \E s \in S : e = [ref |-> Ref("signal", s.id), kind |-> s.kind, symbol |-> s.symbol]
             \/ \E n \in N : e = [ref |-> Ref("news", n.id), kind |-> "news", symbol |-> n.symbol]
             \/ \E c \in C : \E f \in c.factors :
                   e = [ref |-> <<"candidate", c.symbol, f>>, kind |-> "candidate", symbol |-> c.symbol]
  BY DEF Evidence, CandidateRefs

LEMMA RefOf ==
    ASSUME NEW c, NEW r
    PROVE  r \in RefsOf(c) <=>
             \/ \E s \in c.signals : r = Ref("signal", s.id)
             \/ \E n \in c.news : r = Ref("news", n.id)
             \/ \E x \in c.candidates : \E f \in x.factors : r = <<"candidate", x.symbol, f>>
  <1>1. \A x : r \in CandidateRefs(x) <=> \E f \in x.factors : r = <<"candidate", x.symbol, f>>
    BY DEF CandidateRefs
  <1>2. QED
    BY <1>1 DEF RefsOf

LEMMA RefsApart ==
    ASSUME NEW a, NEW b, NEW x, NEW y, NEW f
    PROVE  /\ Ref("signal", a) # Ref("news", b)
           /\ Ref("signal", a) # <<"candidate", x, f>>
           /\ Ref("news", b) # <<"candidate", x, f>>
           /\ Ref("signal", a) = Ref("signal", b) => a = b
           /\ Ref("news", a) = Ref("news", b) => a = b
  <1>1. Ref("signal", a)[1] = "signal" /\ Ref("news", b)[1] = "news" /\ <<"candidate", x, f>>[1] = "candidate"
    BY DEF Ref
  <1>2. Ref("signal", a)[2] = a /\ Ref("signal", b)[2] = b /\ Ref("news", a)[2] = a /\ Ref("news", b)[2] = b
    BY DEF Ref
  <1>3. QED
    BY <1>1, <1>2

LEMMA FactorRefs ==
    ASSUME NEW x, NEW f, NEW y, NEW g, <<"candidate", x, f>> = <<"candidate", y, g>>
    PROVE  x = y /\ f = g
  OBVIOUS

\* The evidence whose reference is one of the rows kept is the evidence of these.
LEMMA EvidenceKept ==
    ASSUME NEW c, NEW d, Sound(c),
           d.signals \subseteq c.signals, d.news \subseteq c.news, d.candidates \subseteq c.candidates
    PROVE  {e \in Evidence(c.signals, c.news, c.candidates) : e.ref \in RefsOf(d)}
             = Evidence(d.signals, d.news, d.candidates)
  <1>0. /\ \A s, t \in c.signals : s.id = t.id => s = t
        /\ \A n, m \in c.news : n.id = m.id => n = m
        /\ \A x, y \in c.candidates : x.symbol = y.symbol => x = y
    BY BriefOK DEF Sound, BriefOK
  <1>1. ASSUME NEW e \in Evidence(c.signals, c.news, c.candidates), e.ref \in RefsOf(d)
        PROVE  e \in Evidence(d.signals, d.news, d.candidates)
    <2>0. \/ \E s \in d.signals : e.ref = Ref("signal", s.id)
          \/ \E n \in d.news : e.ref = Ref("news", n.id)
          \/ \E x \in d.candidates : \E f \in x.factors : e.ref = <<"candidate", x.symbol, f>>
      BY <1>1, RefOf
    <2>1. ASSUME NEW s \in c.signals,
                 e = [ref |-> Ref("signal", s.id), kind |-> s.kind, symbol |-> s.symbol]
          PROVE  e \in Evidence(d.signals, d.news, d.candidates)
      <3>1. e.ref = Ref("signal", s.id)
        BY <2>1
      <3>2. PICK t \in d.signals : e.ref = Ref("signal", t.id)
        BY <2>0, <3>1, RefsApart
      <3>3. t = s
        BY <1>0, <3>1, <3>2, RefsApart
      <3>4. QED
        BY <2>1, <3>3, EvidenceOf
    <2>2. ASSUME NEW n \in c.news,
                 e = [ref |-> Ref("news", n.id), kind |-> "news", symbol |-> n.symbol]
          PROVE  e \in Evidence(d.signals, d.news, d.candidates)
      <3>1. e.ref = Ref("news", n.id)
        BY <2>2
      <3>2. PICK m \in d.news : e.ref = Ref("news", m.id)
        BY <2>0, <3>1, RefsApart
      <3>3. m = n
        BY <1>0, <3>1, <3>2, RefsApart
      <3>4. QED
        BY <2>2, <3>3, EvidenceOf
    <2>3. ASSUME NEW x \in c.candidates, NEW f \in x.factors,
                 e = [ref |-> <<"candidate", x.symbol, f>>, kind |-> "candidate", symbol |-> x.symbol]
          PROVE  e \in Evidence(d.signals, d.news, d.candidates)
      <3>1. e.ref = <<"candidate", x.symbol, f>>
        BY <2>3
      <3>2. PICK y \in d.candidates : \E g \in y.factors : e.ref = <<"candidate", y.symbol, g>>
        BY <2>0, <3>1, RefsApart
      <3>3. y = x
        BY <1>0, <3>1, <3>2, FactorRefs
      <3>4. QED
        BY <2>3, <3>3, EvidenceOf
    <2>4. QED
      BY <2>1, <2>2, <2>3, EvidenceOf
  <1>2. ASSUME NEW e \in Evidence(d.signals, d.news, d.candidates)
        PROVE  e \in Evidence(c.signals, c.news, c.candidates) /\ e.ref \in RefsOf(d)
    <2>1. e \in Evidence(c.signals, c.news, c.candidates)
      BY <1>2, EvidenceOf
    <2>2. e.ref \in RefsOf(d)
      <3>1. \/ \E s \in d.signals : e.ref = Ref("signal", s.id)
            \/ \E n \in d.news : e.ref = Ref("news", n.id)
            \/ \E x \in d.candidates : \E f \in x.factors : e.ref = <<"candidate", x.symbol, f>>
        BY <1>2, EvidenceOf
      <3>2. QED
        BY <3>1, RefOf
    <2>3. QED
      BY <2>1, <2>2
  <1>3. QED
    BY <1>1, <1>2

\* Nothing else of a context counts for its length.
LEMMA SameSize ==
    ASSUME NEW c, NEW d, c.holdings = d.holdings, c.signals = d.signals, c.news = d.news,
           c.candidates = d.candidates, c.evidence = d.evidence, c.texts = d.texts, c.compact = d.compact
    PROVE  Size(c) = Size(d)
  BY DEF Size

\* Without its last row, the first rows of a list still are its first rows.
LEMMA LeadsWithout ==
    ASSUME NEW T, NEW S, NEW R, Leads(T, S, R), NEW x \in Latest(T, R)
    PROVE  Leads(T \ {x}, S, R)
  BY DEF Leads, Latest

LEMMA Filters ==
    ASSUME Sound(ctx), Kept, NEW d, Shaped(d), d.evidence = ctx.evidence,
           d.signals \subseteq ctx.signals, d.news \subseteq ctx.news, d.candidates \subseteq ctx.candidates
    PROVE  Filtered(d) = [d EXCEPT !.evidence = Evidence(d.signals, d.news, d.candidates), !.truncated = TRUE]
  <1>1. Filtered(d) = [d EXCEPT !.evidence = {e \in d.evidence : e.ref \in RefsOf(d)}, !.truncated = TRUE]
    BY DEF Filtered, RefsOf, Shaped
  <1>2. {e \in d.evidence : e.ref \in RefsOf(d)} = Evidence(d.signals, d.news, d.candidates)
    BY EvidenceKept DEF Kept
  <1>3. QED
    BY <1>1, <1>2

\* What a cut context has, field by field.
Recut(S, N, C) ==
    /\ Shaped(ctx')
    /\ ctx'.holdings = ctx.holdings /\ ctx'.ok = ctx.ok
    /\ ctx'.signals = S /\ ctx'.news = N /\ ctx'.candidates = C
    /\ ctx'.evidence = Evidence(S, N, C)
    /\ ctx'.truncated = TRUE
    /\ UNCHANGED <<held, edits, limit, pc, broken, whole, draft, payload>>
    /\ pc = "truncate" /\ Size(ctx) > limit

\* The context with other rows.
WithRows(S, N, C) ==
    [holdings |-> ctx.holdings, signals |-> S, news |-> N, candidates |-> C, evidence |-> ctx.evidence,
     texts |-> ctx.texts, compact |-> ctx.compact, truncated |-> ctx.truncated, ok |-> ctx.ok]

LEMMA RowsCut ==
    ASSUME Typed, Kept, NEW S, NEW N, NEW C,
           S \subseteq ctx.signals, N \subseteq ctx.news, C \subseteq ctx.candidates,
           Cuts(Filtered(WithRows(S, N, C)))
    PROVE  Recut(S, N, C) /\ ctx'.texts = ctx.texts /\ ctx'.compact = ctx.compact
  <1> DEFINE d == WithRows(S, N, C)
  <1>1. /\ Shaped(d) /\ d.evidence = ctx.evidence /\ d.signals = S /\ d.news = N
        /\ d.candidates = C /\ d.holdings = ctx.holdings /\ d.ok = ctx.ok
        /\ d.texts = ctx.texts /\ d.compact = ctx.compact
    BY DEF Typed, Shaped, WithRows
  <1>2. ctx' = Filtered(d)
    BY DEF Cuts
  <1> HIDE DEF d
  <1>3. Filtered(d) = [d EXCEPT !.evidence = Evidence(d.signals, d.news, d.candidates), !.truncated = TRUE]
    BY <1>1, Filters DEF Typed
  <1>4. QED
    BY <1>1, <1>2, <1>3 DEF Cuts, Recut, Shaped

LEMMA Without ==
    ASSUME Typed, NEW X
    PROVE  /\ [ctx EXCEPT !.signals = X] = WithRows(X, ctx.news, ctx.candidates)
           /\ [ctx EXCEPT !.news = X] = WithRows(ctx.signals, X, ctx.candidates)
           /\ [ctx EXCEPT !.candidates = X] = WithRows(ctx.signals, ctx.news, X)
  <1>1. [ctx EXCEPT !.signals = X] = WithRows(X, ctx.news, ctx.candidates)
    BY DEF Typed, Shaped, WithRows
  <1>2. [ctx EXCEPT !.news = X] = WithRows(ctx.signals, X, ctx.candidates)
    BY DEF Typed, Shaped, WithRows
  <1>3. [ctx EXCEPT !.candidates = X] = WithRows(ctx.signals, ctx.news, X)
    BY DEF Typed, Shaped, WithRows
  <1>4. QED
    BY <1>1, <1>2, <1>3

LEMMA NewsCut ==
    ASSUME Typed, Kept, DropNews
    PROVE  \E n \in Latest(ctx.news, NewsOrder) :
              /\ Recut(ctx.signals, ctx.news \ {n}, ctx.candidates)
              /\ ctx'.texts = ctx.texts /\ ctx'.compact = ctx.compact
  <1>1. PICK n \in Latest(ctx.news, NewsOrder) :
           Cuts(Filtered([ctx EXCEPT !.news = @ \ {n}]))
    BY DEF DropNews
  <1>2. [ctx EXCEPT !.news = @ \ {n}] = WithRows(ctx.signals, ctx.news \ {n}, ctx.candidates)
    BY Without
  <1>3. Cuts(Filtered(WithRows(ctx.signals, ctx.news \ {n}, ctx.candidates)))
    BY <1>1, <1>2
  <1>4. QED
    BY <1>3, RowsCut DEF DropNews

LEMMA CandidateCut ==
    ASSUME Typed, Kept, DropCandidate
    PROVE  /\ ctx.news = {}
           /\ \E c \in Latest(ctx.candidates, CandidateOrder(ctx.candidates)) :
                 /\ Recut(ctx.signals, ctx.news, ctx.candidates \ {c})
                 /\ ctx'.texts = ctx.texts /\ ctx'.compact = ctx.compact
  <1>1. PICK c \in Latest(ctx.candidates, CandidateOrder(ctx.candidates)) :
           Cuts(Filtered([ctx EXCEPT !.candidates = @ \ {c}]))
    BY DEF DropCandidate
  <1>2. [ctx EXCEPT !.candidates = @ \ {c}] = WithRows(ctx.signals, ctx.news, ctx.candidates \ {c})
    BY Without
  <1>3. Cuts(Filtered(WithRows(ctx.signals, ctx.news, ctx.candidates \ {c})))
    BY <1>1, <1>2
  <1>4. QED
    BY <1>3, RowsCut DEF DropCandidate

LEMMA SignalCut ==
    ASSUME Typed, Kept, DropSignal
    PROVE  /\ ctx.news = {} /\ ctx.candidates = {}
           /\ \E s \in Latest(ctx.signals, SignalOrder) :
                 /\ Recut(ctx.signals \ {s}, ctx.news, ctx.candidates)
                 /\ ctx'.texts = ctx.texts /\ ctx'.compact = ctx.compact
  <1>1. PICK s \in Latest(ctx.signals, SignalOrder) :
           Cuts(Filtered([ctx EXCEPT !.signals = @ \ {s}]))
    BY DEF DropSignal
  <1>2. [ctx EXCEPT !.signals = @ \ {s}] = WithRows(ctx.signals \ {s}, ctx.news, ctx.candidates)
    BY Without
  <1>3. Cuts(Filtered(WithRows(ctx.signals \ {s}, ctx.news, ctx.candidates)))
    BY <1>1, <1>2
  <1>4. QED
    BY <1>3, RowsCut DEF DropSignal

LEMMA TextsCut ==
    ASSUME Typed, Kept, DropTexts
    PROVE  /\ Recut(ctx.signals, ctx.news, ctx.candidates)
           /\ ctx'.texts = FALSE /\ ctx'.compact = ctx.compact
  BY DEF DropTexts, Cuts, Recut, Typed, Shaped, Kept

LEMMA DetailsCut ==
    ASSUME Typed, Kept, Compact
    PROVE  /\ Recut(ctx.signals, ctx.news, ctx.candidates)
           /\ ctx'.texts = ctx.texts /\ ctx'.compact = TRUE
  BY DEF Compact, Cuts, Recut, Typed, Shaped, Kept

LEMMA LongerKept ==
    ASSUME Typed, Kept, NEW g,
           g.holdings = ctx.holdings, g.signals = ctx.signals, g.news = ctx.news,
           g.candidates = ctx.candidates, g.evidence = Evidence(ctx.signals, ctx.news, ctx.candidates),
           g.texts = ctx.texts, g.compact = ctx.compact,
           Size(ctx) > limit, limit' = limit, g \in Longer', ctx'.truncated = TRUE
    PROVE  ctx'.truncated = TRUE /\ \E c \in Longer' : Size(c) > limit'
  <1>1. Size(g) = Size(ctx)
    BY SameSize DEF Kept
  <1>2. QED
    BY <1>1

LEMMA NewsCutKeeps == ASSUME Typed, Kept, DropNews PROVE Kept'
  <1>1. PICK n \in Latest(ctx.news, NewsOrder) :
           /\ Recut(ctx.signals, ctx.news \ {n}, ctx.candidates)
           /\ ctx'.texts = ctx.texts /\ ctx'.compact = ctx.compact
    BY NewsCut
  <1> DEFINE g == With([ctx' EXCEPT !.news = @ \cup {n}])
  <1>2. n \in ctx.news /\ n \in whole.news /\ n \notin ctx'.news
    BY <1>1 DEF Latest, Kept, Leads, Recut
  <1>3. /\ ctx.signals = whole.signals /\ ctx.candidates = whole.candidates
        /\ ctx.texts = TRUE /\ ctx.compact = FALSE
    BY <1>2 DEF Kept, NoRows
  <1>4. g \in Longer'
    BY <1>1, <1>2, <1>3 DEF Longer, Recut
  <1>5. /\ g.holdings = ctx.holdings /\ g.signals = ctx.signals /\ g.news = ctx.news
        /\ g.candidates = ctx.candidates /\ g.evidence = Evidence(ctx.signals, ctx.news, ctx.candidates)
        /\ g.texts = ctx.texts /\ g.compact = ctx.compact
    <2>1. ctx'.news \cup {n} = ctx.news
      BY <1>1, <1>2 DEF Recut
    <2>2. QED
      BY <1>1, <2>1 DEF Recut, With, Shaped
  <1> HIDE DEF g
  <1>6. ctx'.truncated = TRUE /\ \E c \in Longer' : Size(c) > limit'
    BY <1>1, <1>4, <1>5, LongerKept DEF Recut
  <1>7. Leads(ctx.news \ {n}, whole.news, NewsOrder)
    BY LeadsWithout DEF Kept
  <1>8. QED
    BY <1>1, <1>3, <1>6, <1>7 DEF Kept, Recut, NoRows

LEMMA CandidateCutKeeps == ASSUME Typed, Kept, DropCandidate PROVE Kept'
  <1>1. PICK x \in Latest(ctx.candidates, CandidateOrder(ctx.candidates)) :
           /\ Recut(ctx.signals, ctx.news, ctx.candidates \ {x})
           /\ ctx'.texts = ctx.texts /\ ctx'.compact = ctx.compact
    BY CandidateCut
  <1>0. ctx.news = {}
    BY CandidateCut
  <1> DEFINE g == With([ctx' EXCEPT !.candidates = @ \cup {x}])
  <1>2. x \in ctx.candidates /\ x \in whole.candidates /\ x \notin ctx'.candidates
    BY <1>1 DEF Latest, Kept, Leads, Recut
  <1>3. /\ ctx.signals = whole.signals /\ ctx'.candidates # whole.candidates
        /\ ctx.texts = TRUE /\ ctx.compact = FALSE
    BY <1>2 DEF Kept, NoRows
  <1>4. ctx'.candidates \cup {x} = ctx.candidates
    BY <1>1, <1>2 DEF Recut
  <1>5. g \in Longer'
    <2>1. Leads(ctx'.candidates \cup {x}, whole'.candidates, CandidateOrder(whole'.candidates))
      BY <1>1, <1>4 DEF Kept, Recut
    <2>2. QED
      BY <1>1, <1>2, <1>3, <2>1 DEF Longer, Recut
  <1>6. /\ g.holdings = ctx.holdings /\ g.signals = ctx.signals /\ g.news = ctx.news
        /\ g.candidates = ctx.candidates /\ g.evidence = Evidence(ctx.signals, ctx.news, ctx.candidates)
        /\ g.texts = ctx.texts /\ g.compact = ctx.compact
    BY <1>1, <1>4 DEF Recut, With, Shaped
  <1> HIDE DEF g
  <1>7. ctx'.truncated = TRUE /\ \E c \in Longer' : Size(c) > limit'
    BY <1>1, <1>5, <1>6, LongerKept DEF Recut
  <1>8. Leads(ctx.candidates \ {x}, whole.candidates, CandidateOrder(whole.candidates))
    <2>1. x \in Latest(ctx.candidates, CandidateOrder(whole.candidates))
      BY DEF Latest, CandidateOrder, Kept, Leads
    <2>2. QED
      BY <2>1, LeadsWithout DEF Kept
  <1>9. QED
    BY <1>0, <1>1, <1>3, <1>7, <1>8 DEF Kept, Recut, NoRows

LEMMA SignalCutKeeps == ASSUME Typed, Kept, DropSignal PROVE Kept'
  <1>1. PICK s \in Latest(ctx.signals, SignalOrder) :
           /\ Recut(ctx.signals \ {s}, ctx.news, ctx.candidates)
           /\ ctx'.texts = ctx.texts /\ ctx'.compact = ctx.compact
    BY SignalCut
  <1>0. ctx.news = {} /\ ctx.candidates = {}
    BY SignalCut
  <1> DEFINE g == With([ctx' EXCEPT !.signals = @ \cup {s}])
  <1>2. s \in ctx.signals /\ s \in whole.signals /\ s \notin ctx'.signals
    BY <1>1 DEF Latest, Kept, Leads, Recut
  <1>3. ctx.texts = TRUE /\ ctx.compact = FALSE /\ ctx'.signals # whole.signals
    BY <1>2 DEF Kept, NoRows
  <1>4. g \in Longer'
    BY <1>1, <1>2, <1>3 DEF Longer, Recut
  <1>5. /\ g.holdings = ctx.holdings /\ g.signals = ctx.signals /\ g.news = ctx.news
        /\ g.candidates = ctx.candidates /\ g.evidence = Evidence(ctx.signals, ctx.news, ctx.candidates)
        /\ g.texts = ctx.texts /\ g.compact = ctx.compact
    <2>1. ctx'.signals \cup {s} = ctx.signals
      BY <1>1, <1>2 DEF Recut
    <2>2. QED
      BY <1>1, <2>1 DEF Recut, With, Shaped
  <1> HIDE DEF g
  <1>6. ctx'.truncated = TRUE /\ \E c \in Longer' : Size(c) > limit'
    BY <1>1, <1>4, <1>5, LongerKept DEF Recut
  <1>7. Leads(ctx.signals \ {s}, whole.signals, SignalOrder)
    BY LeadsWithout DEF Kept
  <1>8. QED
    BY <1>0, <1>1, <1>3, <1>6, <1>7 DEF Kept, Recut, NoRows

LEMMA TextsCutKeeps == ASSUME Typed, Kept, DropTexts PROVE Kept'
  <1>1. Recut(ctx.signals, ctx.news, ctx.candidates) /\ ctx'.texts = FALSE /\ ctx'.compact = ctx.compact
    BY TextsCut
  <1>2. NoRows /\ ctx.texts = TRUE /\ ctx.compact = FALSE
    BY DEF DropTexts, Kept
  <1> DEFINE g == [ctx' EXCEPT !.texts = TRUE]
  <1>3. g \in Longer'
    BY <1>1, <1>2 DEF Longer
  <1>4. /\ g.holdings = ctx.holdings /\ g.signals = ctx.signals /\ g.news = ctx.news
        /\ g.candidates = ctx.candidates /\ g.evidence = Evidence(ctx.signals, ctx.news, ctx.candidates)
        /\ g.texts = ctx.texts /\ g.compact = ctx.compact
    BY <1>1, <1>2 DEF Recut, Shaped
  <1> HIDE DEF g
  <1>5. ctx'.truncated = TRUE /\ \E c \in Longer' : Size(c) > limit'
    BY <1>1, <1>3, <1>4, LongerKept DEF Recut
  <1>6. QED
    BY <1>1, <1>2, <1>5 DEF Kept, Recut, NoRows

LEMMA DetailsCutKeeps == ASSUME Typed, Kept, Compact PROVE Kept'
  <1>1. Recut(ctx.signals, ctx.news, ctx.candidates) /\ ctx'.texts = ctx.texts /\ ctx'.compact = TRUE
    BY DetailsCut
  <1>2. NoRows /\ ctx.texts = FALSE /\ ctx.compact = FALSE
    BY DEF Compact, Kept
  <1> DEFINE g == [ctx' EXCEPT !.compact = FALSE]
  <1>3. g \in Longer'
    BY <1>1, <1>2 DEF Longer
  <1>4. /\ g.holdings = ctx.holdings /\ g.signals = ctx.signals /\ g.news = ctx.news
        /\ g.candidates = ctx.candidates /\ g.evidence = Evidence(ctx.signals, ctx.news, ctx.candidates)
        /\ g.texts = ctx.texts /\ g.compact = ctx.compact
    BY <1>1, <1>2 DEF Recut, Shaped
  <1> HIDE DEF g
  <1>5. ctx'.truncated = TRUE /\ \E c \in Longer' : Size(c) > limit'
    BY <1>1, <1>3, <1>4, LongerKept DEF Recut
  <1>6. QED
    BY <1>1, <1>2, <1>5 DEF Kept, Recut, NoRows

-----------------------------------------------------------------------------
(***************************************************************************)
(* What each read does                                                     *)
(***************************************************************************)

ReadOn(now, next) ==
    /\ pc = now /\ pc' = next
    /\ Shaped(ctx')
    /\ ctx'.texts = ctx.texts /\ ctx'.compact = ctx.compact /\ ctx'.truncated = ctx.truncated
    /\ ctx'.candidates = ctx.candidates
    /\ broken' \in BOOLEAN /\ (broken => broken')
    /\ UNCHANGED <<held, edits, limit, whole, draft, payload>>

LEMMA HoldingsRead ==
    ASSUME Typed, ReadHoldings
    PROVE  /\ ReadOn("holdings", "signals")
           /\ {h.symbol : h \in ctx'.holdings} = held
           /\ ctx'.signals = ctx.signals /\ ctx'.news = ctx.news
           /\ ctx'.ok.signals = ctx.ok.signals /\ ctx'.ok.news = ctx.ok.news
  <1>1. PICK valued \in SUBSET held, ok \in BOOLEAN, fails \in BOOLEAN :
           Goes("signals", fails,
                [ctx EXCEPT !.holdings = {[symbol |-> s, valued |-> s \in valued] : s \in held},
                            !.ok.valuation = ok])
    BY DEF ReadHoldings
  <1> DEFINE H == {[symbol |-> s, valued |-> s \in valued] : s \in held}
  <1>2. {h.symbol : h \in H} = held
    <2>1. \A h \in H : h.symbol \in held
      OBVIOUS
    <2>2. \A s \in held : [symbol |-> s, valued |-> s \in valued] \in H
      OBVIOUS
    <2>3. QED
      BY <2>1, <2>2
  <1> HIDE DEF H
  <1>3. ctx' = [ctx EXCEPT !.holdings = H, !.ok.valuation = ok]
    BY <1>1 DEF Goes, H
  <1>4. /\ Shaped(ctx') /\ ctx'.holdings = H /\ ctx'.signals = ctx.signals /\ ctx'.news = ctx.news
        /\ ctx'.texts = ctx.texts /\ ctx'.compact = ctx.compact /\ ctx'.truncated = ctx.truncated
        /\ ctx'.candidates = ctx.candidates
        /\ ctx'.ok.signals = ctx.ok.signals /\ ctx'.ok.news = ctx.ok.news
    BY <1>3 DEF Typed, Shaped
  <1>5. QED
    BY <1>1, <1>2, <1>4 DEF Goes, ReadOn, ReadHoldings, Typed

LEMMA SignalsRead ==
    ASSUME Typed, ReadSignals
    PROVE  /\ ReadOn("signals", "news")
           /\ ctx'.holdings = ctx.holdings /\ ctx'.news = ctx.news /\ ctx'.ok.news = ctx.ok.news
           /\ ctx'.signals \subseteq Signals
           /\ ~broken' => ctx'.ok.signals = ctx.ok.signals /\ ctx'.signals = RealSignals
  <1>1. CASE ~broken /\ Goes("news", FALSE, [ctx EXCEPT !.signals = RealSignals])
    <2>1. ctx' = [ctx EXCEPT !.signals = RealSignals]
      BY <1>1 DEF Goes
    <2>2. /\ Shaped(ctx') /\ ctx'.holdings = ctx.holdings /\ ctx'.signals = RealSignals /\ ctx'.news = ctx.news
          /\ ctx'.texts = ctx.texts /\ ctx'.compact = ctx.compact /\ ctx'.truncated = ctx.truncated
          /\ ctx'.candidates = ctx.candidates /\ ctx'.ok = ctx.ok
      BY <2>1 DEF Typed, Shaped
    <2>3. QED
      BY <1>1, <2>2 DEF Goes, ReadOn, ReadSignals, Typed, RealSignals
  <1>2. CASE Goes("news", TRUE, [ctx EXCEPT !.ok.signals = FALSE])
    <2>1. ctx' = [ctx EXCEPT !.ok.signals = FALSE]
      BY <1>2 DEF Goes
    <2>2. /\ Shaped(ctx') /\ ctx'.holdings = ctx.holdings /\ ctx'.signals = ctx.signals /\ ctx'.news = ctx.news
          /\ ctx'.texts = ctx.texts /\ ctx'.compact = ctx.compact /\ ctx'.truncated = ctx.truncated
          /\ ctx'.candidates = ctx.candidates /\ ctx'.ok.news = ctx.ok.news
      BY <2>1 DEF Typed, Shaped
    <2>3. QED
      BY <1>2, <2>2 DEF Goes, ReadOn, ReadSignals, Typed, Sound
  <1>3. QED
    BY <1>1, <1>2 DEF ReadSignals

LEMMA NewsRead ==
    ASSUME Typed, ReadNews
    PROVE  /\ ReadOn("news", "exposure")
           /\ ctx'.holdings = ctx.holdings /\ ctx'.signals = ctx.signals /\ ctx'.ok.signals = ctx.ok.signals
           /\ ctx'.news \subseteq News
           /\ ~broken' => ctx'.ok.news = ctx.ok.news
  <1>1. ASSUME NEW N, N \subseteq News, Goes("exposure", FALSE, [ctx EXCEPT !.news = N]), pc = "news"
        PROVE  /\ ReadOn("news", "exposure")
               /\ ctx'.holdings = ctx.holdings /\ ctx'.signals = ctx.signals /\ ctx'.ok.signals = ctx.ok.signals
               /\ ctx'.news \subseteq News /\ ctx'.ok.news = ctx.ok.news
    <2>1. ctx' = [ctx EXCEPT !.news = N]
      BY <1>1 DEF Goes
    <2>2. /\ Shaped(ctx') /\ ctx'.holdings = ctx.holdings /\ ctx'.signals = ctx.signals /\ ctx'.news = N
          /\ ctx'.texts = ctx.texts /\ ctx'.compact = ctx.compact /\ ctx'.truncated = ctx.truncated
          /\ ctx'.candidates = ctx.candidates /\ ctx'.ok = ctx.ok
      BY <2>1 DEF Typed, Shaped
    <2>3. QED
      BY <1>1, <2>2 DEF Goes, ReadOn, Typed
  <1>2. CASE Goes("exposure", TRUE, [ctx EXCEPT !.ok.news = FALSE])
    <2>1. ctx' = [ctx EXCEPT !.ok.news = FALSE]
      BY <1>2 DEF Goes
    <2>2. /\ Shaped(ctx') /\ ctx'.holdings = ctx.holdings /\ ctx'.signals = ctx.signals /\ ctx'.news = ctx.news
          /\ ctx'.texts = ctx.texts /\ ctx'.compact = ctx.compact /\ ctx'.truncated = ctx.truncated
          /\ ctx'.candidates = ctx.candidates /\ ctx'.ok.signals = ctx.ok.signals
      BY <2>1 DEF Typed, Shaped
    <2>3. QED
      BY <1>2, <2>2 DEF Goes, ReadOn, ReadNews, Typed, Sound
  <1>3. ASSUME NEW items, items \subseteq News, NEW first \in Deduped(items),
               NEW N \in Leading(first, MaxHeadlines, NewsOrder)
        PROVE  N \subseteq News
    BY <1>3 DEF Deduped, Leading
  <1>4. QED
    BY <1>1, <1>2, <1>3 DEF ReadNews

LEMMA ExposureRead ==
    ASSUME Typed, ReadExposure
    PROVE  /\ ReadOn("exposure", "candidates")
           /\ ctx'.holdings = ctx.holdings /\ ctx'.signals = ctx.signals /\ ctx'.news = ctx.news
           /\ ctx'.ok.signals = ctx.ok.signals /\ ctx'.ok.news = ctx.ok.news
  <1>1. PICK ok \in BOOLEAN, fails \in BOOLEAN : Goes("candidates", fails, [ctx EXCEPT !.ok.exposure = ok])
    BY DEF ReadExposure
  <1>2. ctx' = [ctx EXCEPT !.ok.exposure = ok]
    BY <1>1 DEF Goes
  <1>3. /\ Shaped(ctx') /\ ctx'.holdings = ctx.holdings /\ ctx'.signals = ctx.signals /\ ctx'.news = ctx.news
        /\ ctx'.texts = ctx.texts /\ ctx'.compact = ctx.compact /\ ctx'.truncated = ctx.truncated
        /\ ctx'.candidates = ctx.candidates
        /\ ctx'.ok.signals = ctx.ok.signals /\ ctx'.ok.news = ctx.ok.news
    BY <1>2 DEF Typed, Shaped
  <1>4. QED
    BY <1>1, <1>3 DEF Goes, ReadOn, ReadExposure, Typed

\* Candidates are seeds, one of each.
Suggested(C) ==
    /\ \A x \in C : x.symbol \notin held
    /\ \A x, y \in C : x.symbol = y.symbol => x = y

LEMMA BestOf ==
    ASSUME NEW market, NEW read, NEW C \in Best(Scored(market, read))
    PROVE  Suggested(C)
  <1>1. C \subseteq Scored(market, read)
    BY DEF Best, Leading
  <1>2. Suggested(Scored(market, read))
    BY DEF Suggested, Scored, Seeds
  <1>3. QED
    BY <1>1, <1>2 DEF Suggested

LEMMA CandidatesRead ==
    ASSUME Typed, ReadCandidates
    PROVE  /\ pc = "candidates" /\ pc' = "truncate"
           /\ Shaped(ctx') /\ whole' = ctx' /\ Suggested(ctx'.candidates)
           /\ ctx'.holdings = ctx.holdings /\ ctx'.signals = ctx.signals /\ ctx'.news = ctx.news
           /\ ctx'.evidence = Evidence(ctx'.signals, ctx'.news, ctx'.candidates)
           /\ ctx'.texts = ctx.texts /\ ctx'.compact = ctx.compact /\ ctx'.truncated = ctx.truncated
           /\ ctx'.ok.signals = ctx.ok.signals /\ ctx'.ok.news = ctx.ok.news
           /\ broken' \in BOOLEAN /\ (broken => broken')
           /\ UNCHANGED <<held, edits, limit, draft, payload>>
  <1>1. \E C, ok, fails : Suggested(C) /\ fails \in BOOLEAN /\ Assemble(C, ok, fails)
    <2>1. Suggested({})
      BY DEF Suggested
    <2>2. QED
      BY <2>1, BestOf DEF ReadCandidates
  <1>2. PICK C, ok, fails : Suggested(C) /\ fails \in BOOLEAN /\ Assemble(C, ok, fails)
    BY <1>1
  <1>3. ctx' = [ctx EXCEPT !.candidates = C, !.ok.candidates = ok,
                           !.evidence = Evidence(ctx.signals, ctx.news, C)]
    BY <1>2 DEF Assemble
  <1>4. /\ Shaped(ctx') /\ ctx'.holdings = ctx.holdings /\ ctx'.signals = ctx.signals /\ ctx'.news = ctx.news
        /\ ctx'.candidates = C /\ ctx'.evidence = Evidence(ctx.signals, ctx.news, C)
        /\ ctx'.texts = ctx.texts /\ ctx'.compact = ctx.compact /\ ctx'.truncated = ctx.truncated
        /\ ctx'.ok.signals = ctx.ok.signals /\ ctx'.ok.news = ctx.ok.news
    BY <1>3 DEF Typed, Shaped
  <1>5. QED
    BY <1>2, <1>4 DEF Assemble, ReadCandidates, Typed

-----------------------------------------------------------------------------
(***************************************************************************)
(* The invariant, conjunct by conjunct                                     *)
(***************************************************************************)

Cut == DropNews \/ DropCandidate \/ DropSignal \/ DropTexts \/ Compact
Read == ReadHoldings \/ ReadSignals \/ ReadNews \/ ReadExposure

\* The steps that leave the context as it is.
Rest ==
    \/ (\E s \in Symbols : Edit(s)) \/ Fits \/ Fails \/ Answer \/ Store
    \/ UNCHANGED vars

LEMMA Steps == ASSUME [Next]_vars PROVE Read \/ ReadCandidates \/ Cut \/ Rest
  BY DEF Next, Read, Cut, Rest

LEMMA RestKeeps == ASSUME Rest PROVE ctx' = ctx /\ whole' = whole /\ limit' = limit /\ broken' = broken
  BY DEF Rest, Edit, Fits, Fails, Answer, Store, vars

LEMMA CutOnce ==
    ASSUME Typed, Kept, Cut
    PROVE  \E S \in SUBSET ctx.signals, N \in SUBSET ctx.news, C \in SUBSET ctx.candidates : Recut(S, N, C)
  <1>1. CASE DropNews
    BY <1>1, NewsCut DEF Latest
  <1>2. CASE DropCandidate
    BY <1>2, CandidateCut DEF Latest
  <1>3. CASE DropSignal
    BY <1>3, SignalCut DEF Latest
  <1>4. CASE DropTexts
    BY <1>4, TextsCut
  <1>5. CASE Compact
    BY <1>5, DetailsCut
  <1>6. QED
    BY <1>1, <1>2, <1>3, <1>4, <1>5 DEF Cut

LEMMA CutKept == ASSUME Typed, Kept, Cut PROVE Kept'
  BY NewsCutKeeps, CandidateCutKeeps, SignalCutKeeps, TextsCutKeeps, DetailsCutKeeps DEF Cut

LEMMA CutTruncates == ASSUME Cut PROVE pc = "truncate"
  BY DEF Cut, DropNews, DropCandidate, DropSignal, DropTexts, Compact, Cuts

LEMMA ReadsOn ==
    ASSUME Typed, Read
    PROVE  /\ Shaped(ctx') /\ Sound(ctx') /\ pc \in Reads /\ pc' \in Reads
           /\ ctx'.texts = ctx.texts /\ ctx'.compact = ctx.compact /\ ctx'.truncated = ctx.truncated
           /\ ctx'.candidates = ctx.candidates
           /\ broken' \in BOOLEAN /\ (broken => broken')
           /\ UNCHANGED <<held, edits, limit, whole, draft, payload>>
  <1>1. CASE ReadHoldings
    BY <1>1, HoldingsRead DEF ReadOn, Reads, Typed, Sound
  <1>2. CASE ReadSignals
    BY <1>2, SignalsRead DEF ReadOn, Reads, Typed, Sound
  <1>3. CASE ReadNews
    BY <1>3, NewsRead DEF ReadOn, Reads, Typed, Sound
  <1>4. CASE ReadExposure
    BY <1>4, ExposureRead DEF ReadOn, Reads, Typed, Sound
  <1>5. QED
    BY <1>1, <1>2, <1>3, <1>4 DEF Read

LEMMA RestPlaces ==
    ASSUME Typed, Rest
    PROVE  /\ pc' \in Reads \cup Sent \cup {"failed"} /\ edits' \in Nat
           /\ pc' \in Reads => pc = pc'
           /\ pc' \in Sent => pc \in Sent
  BY DEF Typed, Rest, Edit, Fits, Fails, Answer, Store, vars, Reads, Sent

LEMMA TypedStep == ASSUME Typed, Truncation, [Next]_vars PROVE Typed'
  <1>1. CASE Read
    BY <1>1, ReadsOn DEF Typed
  <1>2. CASE ReadCandidates
    BY <1>2, CandidatesRead DEF Typed, Sound, Suggested, Sent
  <1>3. CASE Cut
    <2>1. Kept
      BY <1>3, CutTruncates DEF Truncation, Sent
    <2>2. PICK S \in SUBSET ctx.signals, N \in SUBSET ctx.news, C \in SUBSET ctx.candidates : Recut(S, N, C)
      BY <1>3, <2>1, CutOnce
    <2>3. QED
      BY <2>2 DEF Recut, Typed, Sound
  <1>4. CASE Rest
    BY <1>4, RestKeeps, RestPlaces DEF Typed, Shaped, Sound
  <1>5. QED
    BY <1>1, <1>2, <1>3, <1>4, Steps

LEMMA ReadingStep == ASSUME Typed, Reading, Truncation, [Next]_vars PROVE Reading'
  <1>1. CASE Read
    BY <1>1, ReadsOn DEF Reading, Reads
  <1>2. CASE ReadCandidates
    BY <1>2, CandidatesRead DEF Reading, Reads
  <1>3. CASE Cut
    <2>1. Kept /\ pc = "truncate"
      BY <1>3, CutTruncates DEF Truncation, Sent
    <2>2. PICK S, N, C : Recut(S, N, C)
      BY <1>3, <2>1, CutOnce
    <2>3. QED
      BY <2>1, <2>2 DEF Recut, Reading, Reads
  <1>4. CASE Rest
    <2>1. pc' \in Reads => pc = pc'
      BY <1>4, RestPlaces
    <2>2. payload' # None => pc' \in {"store", "done", "failed"}
      BY <1>4 DEF Rest, Edit, Fits, Fails, Answer, Store, vars, Reading
    <2>3. QED
      BY <1>4, <2>1, <2>2, RestKeeps DEF Reading
  <1>5. QED
    BY <1>1, <1>2, <1>3, <1>4, Steps

LEMMA TruncationStep == ASSUME Typed, Reading, Truncation, [Next]_vars PROVE Truncation'
  <1>1. CASE Read
    BY <1>1, ReadsOn DEF Truncation, Reads, Sent
  <1>2. CASE ReadCandidates
    <2>1. /\ ctx'.texts = TRUE /\ ctx'.compact = FALSE /\ ctx'.truncated = FALSE
          /\ whole' = ctx' /\ pc' = "truncate"
          /\ ctx'.evidence = Evidence(ctx'.signals, ctx'.news, ctx'.candidates)
      BY <1>2, CandidatesRead DEF Reading, Reads
    <2>2. QED
      BY <2>1 DEF Truncation, Kept, Leads, Sent
  <1>3. CASE Cut
    <2>1. Kept /\ pc = "truncate"
      BY <1>3, CutTruncates DEF Truncation, Sent
    <2>2. pc' = "truncate"
      BY <1>3, <2>1, CutOnce DEF Recut
    <2>3. QED
      BY <1>3, <2>1, <2>2, CutKept DEF Truncation
  <1>4. CASE Rest
    <2>1. pc' \in Sent => pc \in Sent
      BY <1>4, RestPlaces
    <2>2. pc' \in Sent \ {"truncate"} => pc \in Sent \ {"truncate"} \/ Size(ctx) <= limit
      BY <1>4 DEF Rest, Edit, Fits, Fails, Answer, Store, vars, Sent
    <2>3. ctx' = ctx /\ whole' = whole /\ limit' = limit
      BY <1>4, RestKeeps
    <2>4. Kept => Kept'
      BY <2>3 DEF Kept, NoRows, Longer
    <2>5. QED
      BY <2>1, <2>2, <2>3, <2>4 DEF Truncation
  <1>5. QED
    BY <1>1, <1>2, <1>3, <1>4, Steps

LEMMA SawStep == ASSUME Typed, Truncation, Saw, [Next]_vars PROVE Saw'
  <1>1. CASE ReadHoldings
    BY <1>1, HoldingsRead DEF ReadOn, Saw, Reads, Sent
  <1>2. CASE ReadSignals
    BY <1>2, SignalsRead DEF ReadOn, Saw, Reads, Sent
  <1>3. CASE ReadNews
    BY <1>3, NewsRead DEF ReadOn, Saw, Reads, Sent
  <1>4. CASE ReadExposure
    BY <1>4, ExposureRead DEF ReadOn, Saw, Reads, Sent
  <1>5. CASE ReadCandidates
    BY <1>5, CandidatesRead DEF Saw, Reads, Sent
  <1>6. CASE Cut
    <2>1. Kept /\ pc = "truncate"
      BY <1>6, CutTruncates DEF Truncation, Sent
    <2>2. PICK S, N, C : Recut(S, N, C)
      BY <1>6, <2>1, CutOnce
    <2>3. QED
      BY <2>1, <2>2 DEF Recut, Saw, Reads, Sent
  <1>7. CASE Rest
    <2>1. pc' = "done" => pc = "done" \/ ~broken
      BY <1>7 DEF Rest, Edit, Fits, Fails, Answer, Store, vars
    <2>2. QED
      BY <1>7, <2>1, RestKeeps, RestPlaces DEF Saw, Reads, Sent
  <1>8. QED
    BY <1>1, <1>2, <1>3, <1>4, <1>5, <1>6, <1>7, Steps DEF Read

LEMMA HeldStep == ASSUME Typed, Truncation, Held, [Next]_vars PROVE Held'
  <1>1. CASE ReadHoldings
    BY <1>1, HoldingsRead DEF ReadOn, Held, Reads, Sent
  <1>2. CASE ReadSignals
    BY <1>2, SignalsRead DEF ReadOn, Held, Reads, Sent
  <1>3. CASE ReadNews
    BY <1>3, NewsRead DEF ReadOn, Held, Reads, Sent
  <1>4. CASE ReadExposure
    BY <1>4, ExposureRead DEF ReadOn, Held, Reads, Sent
  <1>5. CASE ReadCandidates
    BY <1>5, CandidatesRead DEF Held, Reads, Sent, Suggested
  <1>6. CASE Cut
    <2>1. Kept /\ pc = "truncate"
      BY <1>6, CutTruncates DEF Truncation, Sent
    <2>2. PICK S, N, C : C \subseteq ctx.candidates /\ Recut(S, N, C)
      BY <1>6, <2>1, CutOnce
    <2>3. QED
      BY <2>1, <2>2 DEF Recut, Held, Reads, Sent
  <1>7. CASE Rest
    <2>1. ASSUME NEW s \in Symbols, Edit(s) PROVE Held'
      BY <2>1 DEF Edit, Held, Typed, Sent
    <2>2. ASSUME Fits \/ Fails \/ Answer \/ Store \/ UNCHANGED vars PROVE Held'
      BY <2>2 DEF Held, Fits, Fails, Answer, Store, vars, Reads, Sent
    <2>3. QED
      BY <1>7, <2>1, <2>2 DEF Rest
  <1>8. QED
    BY <1>1, <1>2, <1>3, <1>4, <1>5, <1>6, <1>7, Steps DEF Read

\* Before there is a payload, and once it is there, nothing that was sent changes.
LEMMA PayloadStep ==
    ASSUME Typed, Reading, [Next]_vars, payload' # None
    PROVE  \/ Answer
           \/ UNCHANGED <<payload, ctx, whole, held, edits>>
  <1>1. CASE payload = None
    BY <1>1 DEF Next, vars, Edit, ReadHoldings, ReadSignals, ReadNews, ReadExposure, Goes, ReadCandidates,
               Assemble, DropNews, DropCandidate, DropSignal, DropTexts, Compact, Cuts, Fits, Fails, Store
  <1>2. CASE payload # None
    <2>1. pc \in {"store", "done", "failed"}
      BY <1>2 DEF Reading
    <2>2. QED
      BY <2>1 DEF Next, vars, Edit, ReadHoldings, ReadSignals, ReadNews, ReadExposure, ReadCandidates,
                 DropNews, DropCandidate, DropSignal, DropTexts, Compact, Cuts, Fits, Fails, Answer, Store
  <1>3. QED
    BY <1>1, <1>2

-----------------------------------------------------------------------------
(***************************************************************************)
(* The payload made of a draft                                             *)
(***************************************************************************)

LEMMA HoldingRefs ==
    ASSUME Kept, NEW symbol, NEW refs, NEW ref \in ValidRefs(symbol, refs, {"signal", "news"})
    PROVE  \/ \E s \in ctx.signals : ref = Ref("signal", s.id) /\ s.symbol = symbol
           \/ \E n \in ctx.news : ref = Ref("news", n.id) /\ n.symbol = symbol
  <1>1. PICK e \in Evidence(ctx.signals, ctx.news, ctx.candidates) :
           e.ref = ref /\ e.kind \in {"signal", "news"} /\ e.symbol = symbol
    BY DEF ValidRefs, Kept
  <1>2. QED
    BY <1>1, EvidenceOf

LEMMA CandidateFactors ==
    ASSUME Typed, Kept, NEW x \in ctx.candidates, NEW refs, NEW ref \in ValidRefs(x.symbol, refs, {"candidate"})
    PROVE  ref \in CandidateRefs(x)
  <1>1. PICK e \in Evidence(ctx.signals, ctx.news, ctx.candidates) :
           e.ref = ref /\ e.kind = "candidate" /\ e.symbol = x.symbol
    BY DEF ValidRefs, Kept
  <1>2. \A s \in ctx.signals : s.kind # "candidate"
    BY BriefOK DEF BriefOK, Typed, Sound
  <1>3. PICK y \in ctx.candidates : \E f \in y.factors :
           e = [ref |-> <<"candidate", y.symbol, f>>, kind |-> "candidate", symbol |-> y.symbol]
    <2>1. ~\E s \in ctx.signals : e = [ref |-> Ref("signal", s.id), kind |-> s.kind, symbol |-> s.symbol]
      BY <1>1, <1>2
    <2>2. ~\E n \in ctx.news : e = [ref |-> Ref("news", n.id), kind |-> "news", symbol |-> n.symbol]
      BY <1>1
    <2>3. QED
      BY <2>1, <2>2, EvidenceOf
  <1>4. y = x
    BY <1>1, <1>3 DEF Typed, Sound
  <1>5. QED
    BY <1>1, <1>3, <1>4 DEF CandidateRefs

\* What the payload has, by its lists.
Decision(d, i) ==
    [symbol |-> d.holdings[i].symbol, action |-> d.holdings[i].action,
     refs |-> ValidRefs(d.holdings[i].symbol, d.holdings[i].refs, {"signal", "news"})]
Decisions(d) == {Decision(d, i) : i \in Decided(d)}
Left(d) == {h.symbol : h \in ctx.holdings} \ {x.symbol : x \in Decisions(d)}
Undecided(s) == [symbol |-> s, action |-> "data_incomplete", refs |-> {}]
Idea(c) == [symbol |-> c.symbol, refs |-> ValidRefs(c.symbol, c.refs, {"candidate"})]

LEMMA EnrichOf ==
    ASSUME NEW d
    PROVE  /\ Enrich(d).holdings = Decisions(d) \cup {Undecided(s) : s \in Left(d)}
           /\ Enrich(d).news = {ref \in d.news : \E n \in ctx.news : n.url /\ ref = Ref("news", n.id)}
           /\ Enrich(d).candidates =
                {c \in {Idea(x) : x \in d.candidates} : c.refs # {} /\ \E y \in ctx.candidates : y.symbol = c.symbol}
  BY DEF Enrich, Decisions, Decision, Left, Undecided, Idea

LEMMA OneDecisionEach ==
    ASSUME NEW d \in Drafts
    PROVE  /\ {h.symbol : h \in Enrich(d).holdings} = {h.symbol : h \in ctx.holdings}
           /\ \A h, g \in Enrich(d).holdings : h.symbol = g.symbol => h = g
  <1> DEFINE L == {Undecided(s) : s \in Left(d)}
             heldSymbols == {h.symbol : h \in ctx.holdings}
  <1>1. Enrich(d).holdings = Decisions(d) \cup L
    BY EnrichOf
  <1>2. \A x \in Decisions(d) : \E i \in Decided(d) : x = Decision(d, i) /\ x.symbol = d.holdings[i].symbol
    BY DEF Decisions, Decision
  <1>3. \A x \in L : x.symbol \in Left(d) /\ x = Undecided(x.symbol)
    BY DEF Undecided
  <1>4. \A i \in Decided(d) : d.holdings[i].symbol \in heldSymbols
    BY DEF Decided
  <1>5. \A i, j \in Decided(d) : d.holdings[i].symbol = d.holdings[j].symbol => i = j
    <2>1. DOMAIN d.holdings \subseteq Nat
      BY BriefOK DEF BriefOK
    <2>2. QED
      BY <2>1 DEF Decided
  <1>6. \A s \in Left(d) : s \in heldSymbols /\ \A x \in Decisions(d) : x.symbol # s
    BY DEF Left
  <1>7. ASSUME NEW s \in heldSymbols PROVE \E x \in Decisions(d) \cup L : x.symbol = s
    <2>1. CASE \E x \in Decisions(d) : x.symbol = s
      BY <2>1
    <2>2. CASE ~\E x \in Decisions(d) : x.symbol = s
      <3>1. s \in Left(d)
        BY <2>2 DEF Left
      <3>2. Undecided(s) \in L /\ Undecided(s).symbol = s
        BY <3>1 DEF Undecided
      <3>3. QED
        BY <3>2
    <2>3. QED
      BY <2>1, <2>2
  <1>8. {h.symbol : h \in Decisions(d) \cup L} = heldSymbols
    <2>1. ASSUME NEW h \in Decisions(d) \cup L PROVE h.symbol \in heldSymbols
      BY <1>2, <1>3, <1>4, <1>6
    <2>2. QED
      BY <1>7, <2>1
  <1>9. ASSUME NEW h \in Decisions(d) \cup L, NEW g \in Decisions(d) \cup L, h.symbol = g.symbol
        PROVE  h = g
    <2>1. CASE h \in Decisions(d) /\ g \in Decisions(d)
      BY <1>2, <1>5, <1>9, <2>1
    <2>2. CASE h \in L /\ g \in L
      BY <1>3, <1>9, <2>2
    <2>3. CASE h \in Decisions(d) /\ g \in L
      BY <1>3, <1>6, <1>9, <2>3
    <2>4. CASE h \in L /\ g \in Decisions(d)
      BY <1>3, <1>6, <1>9, <2>4
    <2>5. QED
      BY <2>1, <2>2, <2>3, <2>4
  <1>10. QED
    BY <1>1, <1>8, <1>9

LEMMA DecisionsCite ==
    ASSUME Kept, NEW d \in Drafts, NEW h \in Enrich(d).holdings, NEW ref \in h.refs
    PROVE  \/ \E s \in ctx.signals : ref = Ref("signal", s.id) /\ s.symbol = h.symbol
           \/ \E n \in ctx.news : ref = Ref("news", n.id) /\ n.symbol = h.symbol
  <1>1. \A s : Undecided(s).refs = {}
    BY DEF Undecided
  <1>2. h \in Decisions(d)
    BY <1>1, EnrichOf
  <1>3. PICK i \in Decided(d) : h = Decision(d, i)
    BY <1>2 DEF Decisions
  <1>4. h.symbol = d.holdings[i].symbol /\ h.refs = ValidRefs(h.symbol, d.holdings[i].refs, {"signal", "news"})
    BY <1>3 DEF Decision
  <1>5. QED
    BY <1>4, HoldingRefs

LEMMA IdeasCite ==
    ASSUME Typed, Kept, NEW d \in Drafts
    PROVE  /\ \A c, e \in Enrich(d).candidates : c.symbol = e.symbol => c = e
           /\ \A c \in Enrich(d).candidates :
                 /\ c.refs # {}
                 /\ \E x \in ctx.candidates : x.symbol = c.symbol /\ c.refs \subseteq CandidateRefs(x)
  <1>1. ASSUME NEW c \in Enrich(d).candidates
        PROVE  \E q \in d.candidates : c = Idea(q) /\ c.symbol = q.symbol
                                       /\ c.refs = ValidRefs(c.symbol, q.refs, {"candidate"})
    <2>1. PICK q \in d.candidates : c = Idea(q)
      BY EnrichOf
    <2>2. QED
      BY <2>1 DEF Idea
  <1>2. \A p, q \in d.candidates : p.symbol = q.symbol => p = q
    BY BriefOK DEF BriefOK
  <1>3. ASSUME NEW c \in Enrich(d).candidates
        PROVE  /\ c.refs # {}
               /\ \E x \in ctx.candidates : x.symbol = c.symbol /\ c.refs \subseteq CandidateRefs(x)
    <2>1. c.refs # {} /\ \E y \in ctx.candidates : y.symbol = c.symbol
      BY EnrichOf
    <2>2. PICK x \in ctx.candidates : x.symbol = c.symbol
      BY <2>1
    <2>3. PICK q \in d.candidates : c.refs = ValidRefs(c.symbol, q.refs, {"candidate"})
      BY <1>1
    <2>4. c.refs = ValidRefs(x.symbol, q.refs, {"candidate"})
      BY <2>2, <2>3
    <2>5. c.refs \subseteq CandidateRefs(x)
      BY <2>4, CandidateFactors
    <2>6. QED
      BY <2>1, <2>2, <2>5
  <1>4. QED
    BY <1>1, <1>2, <1>3

LEMMA GroundedStep ==
    ASSUME Typed, Reading, Truncation, Grounded, [Next]_vars
    PROVE  Grounded'
  <1> SUFFICES ASSUME payload' # None PROVE Grounded'
    BY DEF Grounded
  <1>1. CASE Answer
    <2>1. PICK d \in Drafts : payload' = Enrich(d)
      BY <1>1 DEF Answer
    <2>2. Kept /\ ctx' = ctx /\ whole' = whole
      BY <1>1 DEF Answer, Truncation, Sent
    <2>3. /\ {h.symbol : h \in payload'.holdings} = {h.symbol : h \in whole.holdings}
          /\ \A h, g \in payload'.holdings : h.symbol = g.symbol => h = g
      BY <2>1, <2>2, OneDecisionEach DEF Kept
    <2>4. \A h \in payload'.holdings : \A ref \in h.refs :
             \/ \E s \in ctx.signals : ref = Ref("signal", s.id) /\ s.symbol = h.symbol
             \/ \E n \in ctx.news : ref = Ref("news", n.id) /\ n.symbol = h.symbol
      BY <2>1, <2>2, DecisionsCite
    <2>5. \A ref \in payload'.news : \E n \in ctx.news : ref = Ref("news", n.id)
      BY <2>1, EnrichOf
    <2>6. /\ \A c, e \in payload'.candidates : c.symbol = e.symbol => c = e
          /\ \A c \in payload'.candidates :
                /\ c.refs # {}
                /\ \E x \in ctx.candidates : x.symbol = c.symbol /\ c.refs \subseteq CandidateRefs(x)
      BY <2>1, <2>2, IdeasCite
    <2>7. QED
      BY <2>2, <2>3, <2>4, <2>5, <2>6 DEF Grounded
  <1>2. CASE UNCHANGED <<payload, ctx, whole, held, edits>>
    BY <1>2 DEF Grounded
  <1>3. QED
    BY <1>1, <1>2, PayloadStep

LEMMA HeldNeverStep ==
    ASSUME Typed, Reading, Truncation, Held, HeldNeverSuggested, [Next]_vars
    PROVE  HeldNeverSuggested'
  <1> SUFFICES ASSUME payload' # None PROVE HeldNeverSuggested'
    BY DEF HeldNeverSuggested
  <1>1. CASE Answer
    <2>1. PICK d \in Drafts : payload' = Enrich(d)
      BY <1>1 DEF Answer
    <2>2. Kept /\ pc = "ask" /\ UNCHANGED <<held, edits>>
      BY <1>1 DEF Answer, Truncation, Sent
    <2>3. \A c \in payload'.candidates : \E x \in ctx.candidates : x.symbol = c.symbol
      BY <2>1, <2>2, IdeasCite
    <2>4. \A c \in payload'.candidates : c.symbol \notin held
      BY <2>2, <2>3 DEF Held, Sent
    <2>5. \A h \in payload'.holdings : h.symbol \in {g.symbol : g \in ctx.holdings}
      BY <2>1, OneDecisionEach
    <2>6. edits > 0 \/ {g.symbol : g \in ctx.holdings} = held
      BY <2>2 DEF Held, Typed, Sent
    <2>7. QED
      BY <2>2, <2>4, <2>5, <2>6 DEF HeldNeverSuggested
  <1>2. CASE UNCHANGED <<payload, ctx, whole, held, edits>>
    BY <1>2 DEF HeldNeverSuggested
  <1>3. QED
    BY <1>1, <1>2, PayloadStep

-----------------------------------------------------------------------------
LEMMA Begins == ASSUME Init PROVE IInv
  <1>1. Shaped(EmptyContext) /\ Sound(EmptyContext)
    BY DEF Shaped, Sound, EmptyContext
  <1>2. /\ EmptyContext.texts = TRUE /\ EmptyContext.compact = FALSE /\ EmptyContext.truncated = FALSE
        /\ EmptyContext.candidates = {} /\ EmptyContext.ok.signals = TRUE /\ EmptyContext.ok.news = TRUE
    BY DEF EmptyContext
  <1>3. QED
    BY <1>1, <1>2 DEF Init, IInv, Typed, Reading, Truncation, Saw, Held, Grounded, HeldNeverSuggested, Reads, Sent

LEMMA Inductive == ASSUME IInv, [Next]_vars PROVE IInv'
  BY TypedStep, ReadingStep, TruncationStep, SawStep, HeldStep, GroundedStep, HeldNeverStep DEF IInv

LEMMA Invariant == Spec => []IInv
  BY Begins, Inductive, PTL DEF Spec

\* Whatever is drafted, a payload decides once on each holding of the context and
\* cites only what the model was shown.
THEOREM BriefsAreGrounded == Spec => []Grounded
  BY Invariant, PTL DEF IInv

\* What was held when the candidates were read is not suggested.
THEOREM NothingHeldSuggested == Spec => []HeldNeverSuggested
  BY Invariant, PTL DEF IInv

\* The context sent is the longest that fits, in the order of the cuts.
THEOREM NoNeedlessCut == Spec => []TruncatedMinimal
  <1>1. IInv => TruncatedMinimal
    BY DEF IInv, Reading, Truncation, Kept, TruncatedMinimal, Sent
  <1>2. QED
    BY <1>1, Invariant, PTL

\* A stored brief has read all signals and news.
THEOREM StoredBriefsSawAll == Spec => []StoredSawAll
  <1>1. IInv => StoredSawAll
    BY DEF IInv, Saw, StoredSawAll, Sent
  <1>2. QED
    BY <1>1, Invariant, PTL
=============================================================================
