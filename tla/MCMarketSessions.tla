------------------------- MODULE MCMarketSessions -------------------------
(***************************************************************************)
(* Two sessions over two portfolios that share one rate: A, in GBP, needs  *)
(* it for its American share, and B, in USD, for the exposure in GBP.  A   *)
(* request replaces A's share by the one B holds.                          *)
(***************************************************************************)
EXTENDS MarketSessions

CONSTANTS A, B, usd

MCPortfolios == <<B, A>>
MCBooks == {[p \in {A, B} |-> IF p = A THEN <<x>> ELSE <<1>>] : x \in {1, 2}}
MCRates == [p \in {A, B} |-> [x \in {1, 2} |-> IF p = A THEN {usd} ELSE {}]]
MCToBase == [p \in {A, B} |-> IF p = A THEN {} ELSE {usd}]
MCFeeds == <<"bars">>

\* An empty database, and one with fresh quotes and yesterday's other rows.
MCStart == {[k \in Keys |-> "none"],
            [k \in Keys |-> IF k[1] = "quote" THEN "new" ELSE "old"]}
=============================================================================
