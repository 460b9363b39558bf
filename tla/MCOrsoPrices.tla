---------------------------- MODULE MCOrsoPrices ----------------------------
(***************************************************************************)
(* Two funds: A has a feed price of yesterday, B a manual one of           *)
(* yesterday.  The feed lists today or, as on a holiday, yesterday, and     *)
(* one list repeats a fund and has an unusable entry.  A day has four      *)
(* ticks of six hours, the refresh interval two.                           *)
(***************************************************************************)
EXTENDS OrsoPrices, TLC

CONSTANTS A, B

At(fund, price, age) == [fund |-> fund, price |-> price, age |-> age]

MCInitial ==
    <<A, -1>> :> [price |-> 1, source |-> "hsbc", fetched |-> -6, by |-> None] @@
    <<B, -1>> :> [price |-> 9, source |-> "manual", fetched |-> -3, by |-> None]

MCFeedLists ==
    {<<At(A, 2, 1), At(B, 2, 1)>>,
     <<At(A, 5, 0), At(A, 2, 0), At(A, 0, 0), At(B, 3, 0)>>}

MCBodies ==
    {[kind |-> "refresh"],
     [kind |-> "manual", prices |-> <<At(B, 7, 0), At(A, 8, 1)>>]}

RequestSymmetry == Permutations(Requests)
=============================================================================
