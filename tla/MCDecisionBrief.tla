--------------------------- MODULE MCDecisionBrief --------------------------
(***************************************************************************)
(* 1 and 2 are held, 3 is watched, 2 and 4 are in the catalogue.  The      *)
(* drafts decide on what is not held, decide twice, leave out a holding,   *)
(* and cite rows of other symbols and kinds, unknown ones, and rows that   *)
(* may have been cut.  The limits reach from too little for any context to *)
(* enough for the longest.                                                 *)
(***************************************************************************)
EXTENDS DecisionBrief, Sequences

Signal(id, symbol, kind, real, severity, at, move) ==
    [id |-> id, symbol |-> symbol, kind |-> kind, real |-> real, severity |-> severity, at |-> at, move |-> move]
Headline(id, symbol, title, at, url) == [id |-> id, symbol |-> symbol, title |-> title, at |-> at, url |-> url]

MCLabels == [s \in 1..4 |-> CASE s = 1 -> {"tech"} [] s = 2 -> {"oil"} [] s = 3 -> {} [] OTHER -> {"oil", "green"}]
MCSectors == [s \in 1..4 |-> CASE s = 1 -> {"tech"} [] s = 3 -> {} [] OTHER -> {"oil"}]
MCSignals ==
    {Signal(1, 1, "news_recent", TRUE, 1, 3, None), Signal(2, None, "concentration", TRUE, 1, 5, None),
     Signal(3, 2, "price_move_day", TRUE, 0, 2, "negative"),
     Signal(4, 3, "price_move_day", FALSE, 2, 1, "positive"), Signal(5, 3, "price_move_week", FALSE, 2, 4, "neutral")}
MCNews ==
    {Headline(1, 1, "a", 1, TRUE), Headline(2, 2, "b", 3, FALSE), Headline(3, 2, "a", 4, TRUE), Headline(4, 3, "c", 2, TRUE)}

All(quote, history, earnings) == [s \in 1..4 |-> [quote |-> quote, history |-> history, earnings |-> earnings]]
MCMarkets ==
    {All("fresh", TRUE, TRUE), All("none", TRUE, FALSE), All("fresh", FALSE, FALSE),
     [All("stale", FALSE, TRUE) EXCEPT ![2].quote = "fresh"]}

Holding(symbol, refs) == [symbol |-> symbol, action |-> "hold", refs |-> refs]
Idea(symbol, refs) == [symbol |-> symbol, refs |-> refs]
MCDrafts ==
    {[holdings |-> <<Holding(2, {Ref("signal", 3), Ref("news", 1)}), Holding(3, {}), Holding(1, {Ref("signal", 1), Ref("news", 1)})>>,
      news |-> {Ref("news", 1), Ref("news", 9)},
      candidates |-> {Idea(4, {<<"candidate", 4, "stale">>}), Idea(3, {<<"candidate", 4, "news">>})}],
     [holdings |-> <<Holding(1, {Ref("signal", 2), Ref("signal", 1)}), Holding(1, {Ref("news", 1)})>>,
      news |-> {Ref("news", 2), Ref("signal", 1)},
      candidates |-> {Idea(2, {<<"candidate", 2, "news">>}), Idea(3, {<<"candidate", 3, "momentum">>, Ref("news", 4)}),
                       Idea(1, {<<"candidate", 1, "news">>})}]}

MCChars ==
    [news |-> 3, signal |-> 2, candidate |-> 4, evidence |-> 1, holding |-> 3, skeleton |-> 1, texts |-> 4]
=============================================================================
