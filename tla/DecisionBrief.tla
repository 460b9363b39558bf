--------------------------- MODULE DecisionBrief ----------------------------
(***************************************************************************)
(* One decision brief: the context that guru/decision_context.py gathers   *)
(* in several awaits, its candidates (services/recommendations), its       *)
(* truncation, and the payload that service.py makes of the model's draft. *)
(* The user buys and sells meanwhile.                                      *)
(*                                                                         *)
(* Each read is guarded by "except Exception", but a read that fails in    *)
(* PostgreSQL leaves the transaction unusable: every later statement of    *)
(* the session fails too, the INSERT of the report among them.             *)
(*                                                                         *)
(* Symbols are numbered in alphabetical order.  A list of the context is   *)
(* the set of its rows; where their order matters it is a relation.  A     *)
(* length in characters is the sum of what its parts take, by Chars.       *)
(***************************************************************************)
EXTENDS Integers, FiniteSets

CONSTANTS
    Symbols,        \* instruments, 1..n
    Catalog,        \* those the catalogue lists
    Sectors,        \* Sectors[s]: its sector, if it has one
    Labels,         \* Labels[s]: the same and its themes
    GroupNames,     \* names of the user's holding groups
    Signals,        \* stored signals: [id, symbol, kind, real, severity, at, move]
    News,           \* stored news: [id, symbol, title, at, url]
    Watched,        \* symbols of watchlists
    InitiallyHeld,
    Markets,        \* what the provider says: functions on Symbols
    Drafts,         \* what the model can answer: decisions in a sequence, sets
                    \* of references to news and of ideas
    Chars,          \* characters of a row of each list
    Limits,         \* the values of MAX_CONTEXT_CHARS to look at
    MaxHeadlines, MaxCandidates,
    MaxEdits,       \* bound on the user's edits, for TLC
    None

VARIABLES
    held,           \* symbols in the user's real portfolios
    edits,
    limit,          \* MAX_CONTEXT_CHARS
    pc,
    broken,         \* a statement of the session's transaction has failed
    ctx,            \* the context being built, then truncated
    whole,          \* the context before its truncation (history)
    draft,
    payload

vars == <<held, edits, limit, pc, broken, ctx, whole, draft, payload>>

Moves == {None, "positive", "neutral", "negative"}

ASSUME BriefOK ==
    /\ Symbols \subseteq Nat /\ Catalog \cup Watched \cup InitiallyHeld \subseteq Symbols
    /\ \A s \in Signals : s.symbol \in Symbols \cup {None} /\ s.move \in Moves /\ s.severity \in 0..9
    /\ \A s \in Signals : s.kind # "candidate"
    /\ \A s, t \in Signals : s.id = t.id => s = t
    /\ \A n \in News : n.symbol \in Symbols
    /\ \A n, m \in News : n.id = m.id => n = m
    /\ \A m \in Markets, s \in Symbols : m[s].quote \in {"none", "fresh", "stale"}
    /\ Limits \subseteq Nat /\ {MaxHeadlines, MaxCandidates, MaxEdits} \subseteq Nat
    /\ \A d \in Drafts :
          /\ DOMAIN d.holdings \subseteq Nat
          /\ \A c, e \in d.candidates : c.symbol = e.symbol => c = e

-----------------------------------------------------------------------------
\* The order of a list, as the pairs of a row and one that comes after it.  Rows
\* that are equal in it stand in any order.

NewsOrder == {p \in News \X News : p[1].at > p[2].at}
SignalOrder ==
    {p \in Signals \X Signals :
        p[1].severity < p[2].severity \/ (p[1].severity = p[2].severity /\ p[1].at > p[2].at)}
CandidateOrder(S) ==
    {p \in S \X S : p[1].score > p[2].score \/ (p[1].score = p[2].score /\ p[1].symbol < p[2].symbol)}

\* T is the first rows of S; a list of n rows at most; the row pop takes.
Leads(T, S, R) == T \subseteq S /\ \A x \in T, y \in S \ T : <<y, x>> \notin R
Leading(S, n, R) == {T \in SUBSET S : Leads(T, S, R) /\ Cardinality(T) <= n /\ (T # S => Cardinality(T) = n)}
Latest(S, R) == {x \in S : \A y \in S : <<x, y>> \notin R}

EmptyContext ==
    [holdings |-> {}, signals |-> {}, news |-> {}, candidates |-> {}, evidence |-> {},
     texts |-> TRUE, compact |-> FALSE, truncated |-> FALSE,
     ok |-> [valuation |-> TRUE, signals |-> TRUE, news |-> TRUE, exposure |-> TRUE, candidates |-> TRUE]]

Init ==
    /\ held = InitiallyHeld
    /\ edits = 0
    /\ limit \in Limits
    /\ pc = "holdings"
    /\ broken = FALSE
    /\ ctx = EmptyContext /\ whole = EmptyContext
    /\ draft = None
    /\ payload = None

\* Another request of the user, between the reads.
Edit(s) ==
    /\ edits < MaxEdits
    /\ pc \in {"signals", "news", "exposure", "candidates"}
    /\ held' = IF s \in held THEN held \ {s} ELSE held \cup {s}
    /\ edits' = edits + 1
    /\ UNCHANGED <<limit, pc, broken, ctx, whole, draft, payload>>

-----------------------------------------------------------------------------
\* The reads.  Each goes on to the next, with what it has or without.

Goes(next, fails, c) ==
    /\ pc' = next
    /\ broken' = (broken \/ fails)
    /\ ctx' = c
    /\ UNCHANGED <<held, edits, limit, whole, draft, payload>>

\* The positions, by symbol; those without a value in GBP are listed without, and
\* one of them, or a portfolio that could not be valued, makes the whole incomplete.
ReadHoldings ==
    /\ pc = "holdings"
    /\ \E valued \in SUBSET held, ok, fails \in BOOLEAN :
          /\ ok => valued = held
          /\ fails => ~ok
          /\ Goes("signals", fails,
                [ctx EXCEPT !.holdings = {[symbol |-> s, valued |-> s \in valued] : s \in held},
                            !.ok.valuation = ok])

RealSignals == {s \in Signals : s.real}

ReadSignals ==
    /\ pc = "signals"
    /\ \/ ~broken /\ Goes("news", FALSE, [ctx EXCEPT !.signals = RealSignals])
       \/ Goes("news", TRUE, [ctx EXCEPT !.ok.signals = FALSE])

\* One headline of each title, an earliest.
Deduped(items) ==
    {T \in SUBSET items :
        /\ \A n \in T, m \in items : n.title = m.title => n.at <= m.at
        /\ \A n, m \in T : n.title = m.title => n = m
        /\ {n.title : n \in T} = {n.title : n \in items}}

\* News of the positions read before; none are asked for without positions.
ReadNews ==
    LET symbols == {h.symbol : h \in ctx.holdings} IN
    /\ pc = "news"
    /\ \/ /\ ~broken \/ symbols = {}
          /\ \E first \in Deduped({n \in News : n.symbol \in symbols}) :
             \E listed \in Leading(first, MaxHeadlines, NewsOrder) :
                Goes("exposure", FALSE, [ctx EXCEPT !.news = listed])
       \/ symbols # {} /\ Goes("exposure", TRUE, [ctx EXCEPT !.ok.news = FALSE])

\* The exposure also needs exchange rates, which may be missing.
ReadExposure ==
    /\ pc = "exposure"
    /\ \E ok, fails \in BOOLEAN :
          /\ broken \/ fails => ~ok
          /\ Goes("candidates", fails, [ctx EXCEPT !.ok.exposure = ok])

-----------------------------------------------------------------------------
\* Candidates.

\* Variant that must break HeldNeverSuggested: what is held is not left out.
EverySeed == Catalog \cup Watched

\* The catalogue and the watchlists, without what is held by now.
Seeds == (Catalog \cup Watched) \ held

MomentumWeight == [m \in Moves |->
    CASE m = "positive" -> 30 [] m = "neutral" -> 10 [] m = "negative" -> -15 [] OTHER -> 0]

\* The latest price move of a symbol that some portfolio has, where the rows of
\* the symbols of read could be read.
Momentum(s, read) ==
    LET moves == {g \in Signals : g.symbol = s /\ g.move # None}
    IN IF s \notin Watched \cap read \/ moves = {} THEN None
       ELSE (CHOOSE g \in moves : \A h \in moves : h.at <= g.at).move

NewsCount(s, read) == IF s \in Watched \cap read THEN Cardinality({n \in News : n.symbol = s}) ELSE 0

\* 20, 10 or 0 for labels none, some or all of which the holdings and groups have.
Diversification(s) ==
    LET over == Labels[s] \cap (GroupNames \cup UNION {Sectors[h.symbol] : h \in ctx.holdings})
    IN IF over = Labels[s] THEN 0 ELSE IF over # {} THEN 10 ELSE 20

\* The valuation weights are never earned: the fundamentals read have none.
Score(s, market, read) ==
    LET news == 5 * NewsCount(s, read)
        missing == IF Momentum(s, read) = None THEN 2 ELSE 1
    IN MomentumWeight[Momentum(s, read)] + Diversification(s) + (IF news < 15 THEN news ELSE 15)
       - (IF market[s].quote = "stale" THEN 20 ELSE 0) - 5 * missing

Factors(s, read) ==
    {"news", "diversification", "stale", "missing"}
    \cup (IF Momentum(s, read) = None THEN {} ELSE {"momentum"})

\* A usable quote, and a history, an earnings date or news.
Usable(s, market, read) ==
    market[s].quote # "none" /\ (market[s].history \/ market[s].earnings \/ NewsCount(s, read) > 0)

Scored(market, read) ==
    {[symbol |-> s, score |-> Score(s, market, read), factors |-> Factors(s, read)] :
       s \in {s \in Seeds : Usable(s, market, read)}}

Best(candidates) == Leading(candidates, MaxCandidates, CandidateOrder(candidates))

\* Whether the readers report no outage: a missing history or date may be one.
ReadersOK(market) ==
    {ok \in BOOLEAN :
       /\ ok => Seeds = {} \/ \E s \in Seeds : market[s].quote # "none"
       /\ ~ok => \E s \in Seeds : market[s].quote = "none" \/ ~market[s].history \/ ~market[s].earnings}

Ref(kind, id) == <<kind, id>>
CandidateRefs(c) == {<<"candidate", c.symbol, f>> : f \in c.factors}

\* One row for each signal, headline and factor.  The row of a signal is made of
\* the signal's columns, whose kind takes the place of "signal".
Evidence(signals, news, candidates) ==
    {[ref |-> Ref("signal", s.id), kind |-> s.kind, symbol |-> s.symbol] : s \in signals}
    \cup {[ref |-> Ref("news", n.id), kind |-> "news", symbol |-> n.symbol] : n \in news}
    \cup UNION {{[ref |-> f, kind |-> "candidate", symbol |-> c.symbol] : f \in CandidateRefs(c)} : c \in candidates}

\* The last read puts the context together.
Assemble(candidates, ok, fails) ==
    LET c == [ctx EXCEPT !.candidates = candidates, !.ok.candidates = ok,
                         !.evidence = Evidence(ctx.signals, ctx.news, candidates)]
    IN /\ pc' = "truncate"
       /\ broken' = (broken \/ fails)
       /\ ctx' = c /\ whole' = c
       /\ UNCHANGED <<held, edits, limit, draft, payload>>

\* The seeds are looked at in order: from the one on whose rows cannot be read, no
\* later one's can.  A failure before that leaves no candidates.
ReadCandidates ==
    /\ pc = "candidates"
    /\ \/ /\ ~broken
          /\ \E market \in Markets :
                \/ \E ok \in ReadersOK(market), best \in Best(Scored(market, Symbols)) : Assemble(best, ok, FALSE)
                \/ \E s \in Seeds \cap Watched : \E best \in Best(Scored(market, {t \in Symbols : t < s})) :
                      Assemble(best, FALSE, TRUE)
       \/ Assemble({}, FALSE, TRUE)

-----------------------------------------------------------------------------
\* _truncate.

Size(c) ==
    Chars.news * Cardinality(c.news) + Chars.signal * Cardinality(c.signals)
    + Chars.candidate * Cardinality(c.candidates) + Chars.evidence * Cardinality(c.evidence)
    + (IF c.compact THEN Chars.skeleton ELSE Chars.holding) * Cardinality(c.holdings)
    + (IF c.texts THEN Chars.texts ELSE 0)

\* Variant that must break Grounded: the evidence keeps the refs of dropped rows.
Unfiltered(c) == [c EXCEPT !.truncated = TRUE]

\* The evidence of the rows that are kept.
Filtered(c) ==
    LET kept == {Ref("signal", s.id) : s \in c.signals} \cup {Ref("news", n.id) : n \in c.news}
                \cup UNION {CandidateRefs(d) : d \in c.candidates}
    IN [c EXCEPT !.evidence = {e \in @ : e.ref \in kept}, !.truncated = TRUE]

Cuts(c) ==
    /\ pc = "truncate" /\ Size(ctx) > limit
    /\ ctx' = c
    /\ UNCHANGED <<held, edits, limit, pc, broken, whole, draft, payload>>

DropNews ==
    \E n \in Latest(ctx.news, NewsOrder) : Cuts(Filtered([ctx EXCEPT !.news = @ \ {n}]))

DropCandidate ==
    /\ ctx.news = {}
    /\ \E c \in Latest(ctx.candidates, CandidateOrder(ctx.candidates)) :
          Cuts(Filtered([ctx EXCEPT !.candidates = @ \ {c}]))

\* Variant that must break TruncatedMinimal: signals do not wait for candidates.
DropSignalEarly ==
    /\ ctx.news = {}
    /\ \E s \in Latest(ctx.signals, SignalOrder) : Cuts(Filtered([ctx EXCEPT !.signals = @ \ {s}]))

DropSignal ==
    /\ ctx.news = {} /\ ctx.candidates = {}
    /\ \E s \in Latest(ctx.signals, SignalOrder) : Cuts(Filtered([ctx EXCEPT !.signals = @ \ {s}]))

NoRows == ctx.news = {} /\ ctx.candidates = {} /\ ctx.signals = {}

\* The profile's texts and the portfolio context go, then all but the symbols.
DropTexts == NoRows /\ ctx.texts /\ Cuts([ctx EXCEPT !.texts = FALSE, !.truncated = TRUE])
Compact == NoRows /\ ~ctx.texts /\ ~ctx.compact /\ Cuts([ctx EXCEPT !.compact = TRUE])

\* DecisionContextTooLarge, and what else ends a request without a report.
Fails ==
    /\ \/ pc = "truncate" /\ Size(ctx) > limit /\ ctx.compact
       \/ pc \in {"holdings", "ask"}
       \/ pc = "store" /\ broken
    /\ pc' = "failed"
    /\ UNCHANGED <<held, edits, limit, broken, ctx, whole, draft, payload>>

Fits ==
    /\ pc = "truncate" /\ Size(ctx) <= limit
    /\ pc' = "ask"
    /\ UNCHANGED <<held, edits, limit, broken, ctx, whole, draft, payload>>

-----------------------------------------------------------------------------
\* The draft and what is made of it.

ValidRefs(symbol, refs, kinds) ==
    {ref \in refs : \E e \in ctx.evidence : e.ref = ref /\ e.kind \in kinds /\ e.symbol = symbol}

\* A held symbol has the draft's first decision on it, or an empty one; news and
\* candidates are those of the context, candidates with a reference of theirs.
Decided(d) ==
    {i \in DOMAIN d.holdings :
        /\ \E h \in ctx.holdings : h.symbol = d.holdings[i].symbol
        /\ \A j \in DOMAIN d.holdings : j < i => d.holdings[j].symbol # d.holdings[i].symbol}

Enrich(d) ==
    LET decisions == {[symbol |-> d.holdings[i].symbol, action |-> d.holdings[i].action,
                       refs |-> ValidRefs(d.holdings[i].symbol, d.holdings[i].refs, {"signal", "news"})] :
                        i \in Decided(d)}
        left == {h.symbol : h \in ctx.holdings} \ {x.symbol : x \in decisions}
        ideas == {[symbol |-> c.symbol, refs |-> ValidRefs(c.symbol, c.refs, {"candidate"})] : c \in d.candidates}
    IN [holdings |-> decisions \cup {[symbol |-> s, action |-> "data_incomplete", refs |-> {}] : s \in left},
        news |-> {ref \in d.news : \E n \in ctx.news : n.url /\ ref = Ref("news", n.id)},
        candidates |-> {c \in ideas : c.refs # {} /\ \E x \in ctx.candidates : x.symbol = c.symbol}]

Answer ==
    /\ pc = "ask"
    /\ \E d \in Drafts :
          /\ draft' = d
          /\ payload' = Enrich(d)
    /\ pc' = "store"
    /\ UNCHANGED <<held, edits, limit, broken, ctx, whole>>

\* Variant that must break StoredSawAll: each read is undone on its own.
StoreAnyway ==
    /\ pc = "store"
    /\ pc' = "done"
    /\ UNCHANGED <<held, edits, limit, broken, ctx, whole, draft, payload>>

Store ==
    /\ pc = "store" /\ ~broken
    /\ pc' = "done"
    /\ UNCHANGED <<held, edits, limit, broken, ctx, whole, draft, payload>>

Next ==
    \/ \E s \in Symbols : Edit(s)
    \/ ReadHoldings \/ ReadSignals \/ ReadNews \/ ReadExposure \/ ReadCandidates
    \/ DropNews \/ DropCandidate \/ DropSignal \/ DropTexts \/ Compact \/ Fits \/ Fails
    \/ Answer \/ Store

Spec == Init /\ [][Next]_vars

-----------------------------------------------------------------------------
(***************************************************************************)
(* Properties                                                              *)
(***************************************************************************)

\* Whatever the model drafts, every held symbol of the context has one decision
\* and nothing else has, and every reference leads to a row the model was shown: a
\* signal or a headline of that holding, a factor of that candidate.
Grounded ==
    payload # None =>
    /\ {h.symbol : h \in payload.holdings} = {h.symbol : h \in whole.holdings}
    /\ \A h, g \in payload.holdings : h.symbol = g.symbol => h = g
    /\ \A h \in payload.holdings : \A ref \in h.refs :
          \/ \E s \in ctx.signals : ref = Ref("signal", s.id) /\ s.symbol = h.symbol
          \/ \E n \in ctx.news : ref = Ref("news", n.id) /\ n.symbol = h.symbol
    /\ \A ref \in payload.news : \E n \in ctx.news : ref = Ref("news", n.id)
    /\ \A c, d \in payload.candidates : c.symbol = d.symbol => c = d
    /\ \A c \in payload.candidates :
          /\ c.refs # {}
          /\ \E d \in ctx.candidates : d.symbol = c.symbol /\ c.refs \subseteq CandidateRefs(d)

\* c with a row more, and its evidence; the least that was cut from the context.
With(c) == [c EXCEPT !.evidence = Evidence(c.signals, c.news, c.candidates)]
Longer ==
    IF ctx.compact THEN {[ctx EXCEPT !.compact = FALSE]}
    ELSE IF ~ctx.texts THEN {[ctx EXCEPT !.texts = TRUE]}
    ELSE IF ctx.signals # whole.signals
      THEN {With([ctx EXCEPT !.signals = @ \cup {s}]) : s \in whole.signals \ ctx.signals}
    ELSE IF ctx.candidates # whole.candidates
      THEN {With([ctx EXCEPT !.candidates = @ \cup {c}]) :
              c \in {x \in whole.candidates \ ctx.candidates :
                      Leads(ctx.candidates \cup {x}, whole.candidates, CandidateOrder(whole.candidates))}}
    ELSE {With([ctx EXCEPT !.news = @ \cup {n}]) : n \in whole.news \ ctx.news}

\* What is sent fits, with the evidence of exactly its rows.  Rows are cut from the
\* end of their list: headlines, then candidates, then signals, then the texts, then
\* the details of the holdings, and none that would have fitted.
TruncatedMinimal ==
    pc \in {"ask", "store", "done"} =>
    /\ Size(ctx) <= limit
    /\ ctx.evidence = Evidence(ctx.signals, ctx.news, ctx.candidates)
    /\ Leads(ctx.news, whole.news, NewsOrder)
    /\ Leads(ctx.candidates, whole.candidates, CandidateOrder(whole.candidates))
    /\ Leads(ctx.signals, whole.signals, SignalOrder)
    /\ ctx.candidates # whole.candidates => ctx.news = {}
    /\ ctx.signals # whole.signals => ctx.candidates = {} /\ ctx.news = {}
    /\ ~ctx.texts => NoRows
    /\ ctx.compact => ~ctx.texts
    /\ IF ctx.truncated THEN \E c \in Longer : Size(c) > limit ELSE ctx = whole

\* A brief never suggests what was held when its candidates were read; what it
\* both decides on and suggests, the user sold between the two reads.
HeldNeverSuggested ==
    payload # None =>
    \A c \in payload.candidates :
        /\ c.symbol \notin held
        /\ \A h \in payload.holdings : h.symbol = c.symbol => edits > 0

\* A read that fails in the database costs the whole brief, after the model was
\* asked: a brief that is stored has all signals and looked for all headlines, and
\* never flags them as unavailable.
StoredSawAll ==
    pc = "done" =>
    /\ ctx.ok.signals /\ ctx.ok.news
    /\ whole.signals = RealSignals

\* What _enrich_decision_draft says: "each holding's evidence_refs are filtered to
\* only those that resolve in the context for that symbol".  So a signal of the
\* holding that the model was shown, and cites, is still cited by the payload.
CitedSignalsKept ==
    payload # None =>
    \A h \in payload.holdings, i \in DOMAIN draft.holdings :
        LET d == draft.holdings[i] IN
        d.symbol = h.symbol /\ (\A j \in DOMAIN draft.holdings : draft.holdings[j].symbol = h.symbol => j = i) =>
        \A s \in ctx.signals :
            s.symbol = h.symbol /\ Ref("signal", s.id) \in d.refs => Ref("signal", s.id) \in h.refs
=============================================================================
