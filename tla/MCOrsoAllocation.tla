-------------------------- MODULE MCOrsoAllocation --------------------------
(***************************************************************************)
(* A small instance of OrsoAllocation: three requests of a user with two   *)
(* funds and no allocation.                                                *)
(***************************************************************************)
EXTENDS OrsoAllocation, TLC

CONSTANTS r1, r2, r3, A, B, C, D

Put(items) == [kind |-> "put", created |-> << >>, items |-> items]
Statement(created, items) == [kind |-> "apply", created |-> created, items |-> items]
OnFund(kind, fund) == [kind |-> kind, fund |-> fund]
Of(fund, units) == [fund |-> fund, units |-> units, priced |-> FALSE]
Priced(fund, units) == [fund |-> fund, units |-> units, priced |-> TRUE]

\* Replacements that agree, differ and overlap in funds, a reviewed statement that
\* creates a fund and one that prices half a quantum.
MixedBodies ==
    {Put(<<Of(A, 4)>>), Put(<<Of(A, 0), Of(B, 2)>>),
     Statement(<<C>>, <<Of(C, 4)>>), Statement(<< >>, <<Priced(A, 1)>>)}

\* Requests that name two new funds, two prices or two rows, in either order.
OrderedBodies ==
    {Put(<<Of(A, 2), Of(B, 2)>>), Put(<<Of(B, 2), Of(A, 2)>>),
     Statement(<<C, D>>, <<Priced(A, 2), Priced(B, 2)>>), Statement(<<D, C>>, << >>),
     Statement(<< >>, <<Priced(B, 2), Priced(A, 2)>>)}

FundBodies == {OnFund("create", C), OnFund("archive", A), OnFund("restore", A)}
AllBodies == MixedBodies \cup OrderedBodies \cup FundBodies

Nothing == << >>

\* The table holds the rows of one fund before those of the next, whoever wrote
\* them.
Rank == A :> 1 @@ B :> 2 @@ C :> 3 @@ D :> 4
ByFund == [p \in Funds \X (Requests \cup {None}) |-> Rank[p[1]]]

Symmetry == Permutations(Requests)
=============================================================================
