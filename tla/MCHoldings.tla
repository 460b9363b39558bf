----------------------------- MODULE MCHoldings -----------------------------
(***************************************************************************)
(* A portfolio with one position, and room for others.  The imports repeat *)
(* a held symbol and a new one, spell one in lower case, or name one that  *)
(* the provider does not know.                                             *)
(***************************************************************************)
EXTENDS Holdings, TLC

CONSTANTS p1, A, B, X

RowOf(s, n, q) == [text |-> <<s, n>>, qty |-> q]
Imp(m, rows) == [kind |-> "import", new |-> None, merge |-> m, rows |-> rows]
Real == [name |-> "n", kind |-> "real"]

MCSector == A :> "Tech" @@ B :> "Tech" @@ X :> "Energy"
MCPortfolios == p1 :> Real
MCPositions == <<None, 1>> :> [pf |-> p1, sym |-> A, qty |-> 1]

MCBodies ==
    {Imp("update", <<RowOf(A, 0, 2), RowOf(B, 0, 1), RowOf(A, 0, 3), RowOf(B, 0, 3)>>),
     Imp("skip", <<RowOf(A, 0, 2), RowOf(B, 0, 1), RowOf(B, 0, 3)>>),
     Imp("replace", <<RowOf(B, 0, 2), RowOf(A, 0, 2), RowOf(A, 0, 3)>>),
     Imp("update", <<RowOf(B, 1, 2), RowOf(B, 0, 3)>>),
     [Imp("update", <<RowOf(A, 0, 2)>>) EXCEPT !.new = [name |-> "w", kind |-> "watchlist"]],
     [kind |-> "preview", rows |-> <<RowOf(X, 0, 0), RowOf(B, 0, 0)>>],
     [kind |-> "lookup", sym |-> X],
     [kind |-> "create", sym |-> B, qty |-> 2],
     [kind |-> "edit", qty |-> 2], [kind |-> "drop"],
     [kind |-> "open", new |-> Real], [kind |-> "patch", name |-> "m"], [kind |-> "close"],
     [kind |-> "refer"],
     [kind |-> "group", name |-> "Tech"], [kind |-> "rename", name |-> "Energy"],
     [kind |-> "remove_group"],
     [kind |-> "assign", sym |-> A], [kind |-> "unassign", sym |-> A], [kind |-> "seed"]}

RequestSymmetry == Permutations(Requests)
=============================================================================
