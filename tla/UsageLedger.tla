----------------------------- MODULE UsageLedger -----------------------------
(***************************************************************************)
(* What the Guru's generation paths promise to the database, whatever      *)
(* locks, service objects and provider calls stand behind it: a user's     *)
(* report and the usage row that pays for it appear in one commit, only    *)
(* for a generation that was admitted while the user's recorded spending   *)
(* of the day was below the budget.                                        *)
(*                                                                         *)
(* A ticket stands for one admitted generation that has not ended.         *)
(***************************************************************************)
EXTENDS Naturals, FiniteSets

CONSTANTS
    Tickets,      \* names for the generations that can be open at once
    Users,
    Budget,       \* settings.guru_daily_budget_usd, in whole cost units
    MaxCharge     \* the largest cost one usage row can carry

VARIABLES
    spent,        \* spent[u]: u's recorded cost since local midnight
    rows,         \* rows[u]: u's committed llm_usage rows
    reports,      \* reports[u]: u's committed guru_reports rows
    open          \* open[u]: u's admitted generations

vars == <<spent, rows, reports, open>>

TypeOK ==
    /\ spent \in [Users -> Nat]
    /\ rows \in [Users -> Nat]
    /\ reports \in [Users -> Nat]
    /\ open \in [Users -> SUBSET Tickets]

Init ==
    /\ spent = [u \in Users |-> 0]
    /\ rows = [u \in Users |-> 0]
    /\ reports = [u \in Users |-> 0]
    /\ open = [u \in Users |-> {}]

-----------------------------------------------------------------------------

\* The budget check lets a generation through.
Admit(u, t) ==
    /\ \A v \in Users : t \notin open[v]
    /\ spent[u] < Budget
    /\ open' = [open EXCEPT ![u] = @ \cup {t}]
    /\ UNCHANGED <<spent, rows, reports>>

\* One commit ends the generation: its cost, its usage row and, unless the
\* mode keeps no report, its report.
Charge(u, t, cost, withReport) ==
    /\ t \in open[u]
    /\ open' = [open EXCEPT ![u] = @ \ {t}]
    /\ spent' = [spent EXCEPT ![u] = @ + cost]
    /\ rows' = [rows EXCEPT ![u] = @ + 1]
    /\ reports' = [reports EXCEPT ![u] = IF withReport THEN @ + 1 ELSE @]

\* A generation ends with nothing written.
Abandon(u, t) ==
    /\ t \in open[u]
    /\ open' = [open EXCEPT ![u] = @ \ {t}]
    /\ UNCHANGED <<spent, rows, reports>>

\* The process dies: every open generation ends with nothing written.
AbandonAll ==
    /\ open' = [u \in Users |-> {}]
    /\ UNCHANGED <<spent, rows, reports>>

\* The budget window moves on to the next local day.
Midnight ==
    /\ spent' = [u \in Users |-> 0]
    /\ UNCHANGED <<rows, reports, open>>

Next ==
    \/ \E u \in Users, t \in Tickets :
          \/ Admit(u, t)
          \/ Abandon(u, t)
          \/ \E cost \in 0..MaxCharge, withReport \in BOOLEAN :
                Charge(u, t, cost, withReport)
    \/ AbandonAll
    \/ Midnight

Spec == Init /\ [][Next]_vars

-----------------------------------------------------------------------------

\* The check runs before the provider is called and the row is written after
\* it, so concurrent generations can all pass one check.  The budget is still
\* a cap: the day's recorded cost exceeds it by at most one charge for each
\* generation that can be open at once.
OvershootBounded ==
    \A u \in Users : spent[u] <= Budget + MaxCharge * Cardinality(Tickets)
=============================================================================
