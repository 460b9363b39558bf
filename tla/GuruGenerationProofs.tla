------------------------ MODULE GuruGenerationProofs ------------------------
(***************************************************************************)
(* Theorems about the generation paths, for every set of tasks, users and  *)
(* service objects, every budget and every price.                          *)
(***************************************************************************)
EXTENDS GuruGeneration, FiniteSetTheorems, TLAPS

THEOREM GenerationTyped == Spec => []TypeOK
<1> USE ConstantsOK DEF TypeOK, LocalsOK, Job, Places
<1>1. Init => TypeOK
  BY DEF Init
<1>2. TypeOK /\ [Next]_vars => TypeOK'
  <2> SUFFICES ASSUME TypeOK, [Next]_vars PROVE TypeOK'
    OBVIOUS
  <2>1. ASSUME NEW c \in Callers, NEW j \in Job, Start(c, j) PROVE TypeOK'
    BY <2>1 DEF Start, store
  <2>2. ASSUME NEW c \in Callers, Build(c) PROVE TypeOK'
    BY <2>2 DEF Build, store, Unreferenced
  <2>3. ASSUME NEW c \in Callers, Refuse(c) PROVE TypeOK'
    BY <2>3 DEF Refuse, Leave, store
  <2>4. ASSUME NEW c \in Callers, Enter(c) PROVE TypeOK'
    BY <2>4 DEF Enter, store, LockOf, LockKey, LockKeys
  <2>5. ASSUME NEW c \in Callers, PassBudget(c) PROVE TypeOK'
    BY <2>5 DEF PassBudget, store
  <2>6. ASSUME NEW c \in Callers, StopAtBudget(c) PROVE TypeOK'
    BY <2>6 DEF StopAtBudget, Leave, Unlocked, store
  <2>7. ASSUME NEW c \in Callers, Answer(c) PROVE TypeOK'
    BY <2>7 DEF Answer, store
  <2>8. ASSUME NEW c \in Callers, Correct(c) PROVE TypeOK'
    BY <2>8 DEF Correct, store
  <2>9. ASSUME NEW c \in Callers, Fail(c) PROVE TypeOK'
    BY <2>9 DEF Fail, Leave, Unlocked, store
  <2>10. ASSUME NEW c \in Callers, Commit(c) PROVE TypeOK'
    BY <2>10 DEF Commit
  <2>11. ASSUME NEW c \in Callers, Release(c) PROVE TypeOK'
    BY <2>11 DEF Release, Leave, Unlocked, store
  <2>12. ASSUME NEW c \in Callers, NEW j \in Job, NextUser(c, j) PROVE TypeOK'
    BY <2>12 DEF NextUser, store
  <2>13. ASSUME NEW c \in Callers, EndJob(c) PROVE TypeOK'
    BY <2>13 DEF EndJob, store
  <2>14. CASE Invalidate
    BY <2>14 DEF Invalidate, store, local
  <2>15. CASE Midnight
    BY <2>15 DEF Midnight, local
  <2>16. CASE Restart
    BY <2>16 DEF Restart, store
  <2>17. CASE UNCHANGED vars
    BY <2>17 DEF vars
  <2>18. QED
    BY <2>1, <2>2, <2>3, <2>4, <2>5, <2>6, <2>7, <2>8, <2>9, <2>10, <2>11,
       <2>12, <2>13, <2>14, <2>15, <2>16, <2>17 DEF Next, Step
<1>3. QED
  BY <1>1, <1>2, PTL DEF Spec

\* A user is only charged for what the provider charged: no answer's usage is
\* lost between the provider call and the commit, over the retry included.
THEOREM UsageIsComplete == Spec => []UsageComplete
<1>1. Init => UsageComplete
  BY DEF Init, UsageComplete
<1>2. TypeOK /\ UsageComplete /\ [Next]_vars => UsageComplete'
  <2> SUFFICES ASSUME TypeOK, UsageComplete, [Next]_vars PROVE UsageComplete'
    OBVIOUS
  <2> USE ConstantsOK DEF TypeOK, LocalsOK, UsageComplete
  <2>1. ASSUME NEW c \in Callers, Answer(c) PROVE UsageComplete'
    BY <2>1 DEF Answer
  <2>2. ASSUME NEW c \in Callers, Correct(c) PROVE UsageComplete'
    BY <2>2 DEF Correct
  <2>3. ASSUME NEW c \in Callers, Refuse(c) \/ StopAtBudget(c) \/ Fail(c) \/ Release(c)
        PROVE UsageComplete'
    BY <2>3 DEF Refuse, StopAtBudget, Fail, Release, Leave
  <2>4. CASE Restart
    BY <2>4 DEF Restart
  <2>5. ASSUME UNCHANGED <<usage, billed>> PROVE UsageComplete'
    BY <2>5
  <2>6. QED
    BY <2>1, <2>2, <2>3, <2>4, <2>5
       DEF Next, Step, Start, Build, Enter, PassBudget, Commit, NextUser, EndJob,
           Invalidate, Midnight, local, vars
<1>3. QED
  BY <1>1, <1>2, GenerationTyped, PTL DEF Spec

-----------------------------------------------------------------------------
(***************************************************************************)
(* The locks.  Every step leaves the lock holders as they are, adds one    *)
(* with a lock that was free, or takes one away with its lock.             *)
(***************************************************************************)

Others(c) ==
    \A d \in Callers \ {c} :
        /\ Holding(d)' <=> Holding(d)
        /\ Holding(d) => LockOf(d)' = LockOf(d)

LEMMA HoldersKept ==
    ASSUME LocksExact, held' = held, NEW c \in Callers, Others(c),
           Holding(c)' <=> Holding(c), Holding(c) => LockOf(c)' = LockOf(c)
    PROVE  LocksExact'
  BY DEF LocksExact, Others

LEMMA HolderAdded ==
    ASSUME LocksExact, NEW c \in Callers, Others(c), ~Holding(c), Holding(c)',
           LockOf(c)' \notin held, held' = held \cup {LockOf(c)'}
    PROVE  LocksExact'
  BY DEF LocksExact, Others

LEMMA HolderRemoved ==
    ASSUME LocksExact, NEW c \in Callers, Others(c), ~Holding(c)', held' = Unlocked(c)
    PROVE  LocksExact'
  BY DEF LocksExact, Others, Unlocked

THEOREM LocksAreExact == Spec => []LocksExact
<1>1. Init => LocksExact
  BY DEF Init, LocksExact, Holding, Inside
<1>2. TypeOK /\ LocksExact /\ [Next]_vars => LocksExact'
  <2> SUFFICES ASSUME TypeOK, LocksExact, [Next]_vars PROVE LocksExact'
    OBVIOUS
  <2> USE ConstantsOK DEF TypeOK, LocalsOK
  <2>1. ASSUME NEW c \in Callers, NEW j \in Job, Start(c, j) \/ NextUser(c, j)
        PROVE LocksExact'
    <3>1. Others(c) /\ held' = held /\ ~Holding(c) /\ ~Holding(c)'
      BY <2>1 DEF Start, NextUser, Others, Holding, Inside, LockOf, LockKey
    <3>2. QED
      BY <3>1, HoldersKept
  <2>2. ASSUME NEW c \in Callers, Build(c) \/ Refuse(c) \/ EndJob(c)
        PROVE LocksExact'
    <3>1. Others(c) /\ held' = held /\ ~Holding(c) /\ ~Holding(c)'
      BY <2>2 DEF Build, Refuse, EndJob, Leave, Others, Holding, Inside, LockOf, LockKey
    <3>2. QED
      BY <3>1, HoldersKept
  <2>3. ASSUME NEW c \in Callers, PassBudget(c) \/ Answer(c) \/ Correct(c) \/ Commit(c)
        PROVE LocksExact'
    <3>1. /\ Others(c) /\ held' = held
          /\ Holding(c)' <=> Holding(c)
          /\ LockOf(c)' = LockOf(c)
      BY <2>3 DEF PassBudget, Answer, Correct, Commit, Others, Holding, Inside, LockOf, LockKey
    <3>2. QED
      BY <3>1, HoldersKept
  <2>4. ASSUME NEW c \in Callers, Enter(c) PROVE LocksExact'
    <3>1. Others(c) /\ LockOf(c)' = LockOf(c) /\ ~Holding(c)
      BY <2>4 DEF Enter, Others, Holding, Inside, LockOf, LockKey
    <3>2. CASE job[c].kind \in UnlockedKinds
      <4>1. ~Holding(c)' /\ held' = held
        BY <2>4, <3>2 DEF Enter, Holding, Inside
      <4>2. QED
        BY <3>1, <4>1, HoldersKept
    <3>3. CASE job[c].kind \notin UnlockedKinds
      <4>1. Holding(c)' /\ LockOf(c) \notin held /\ held' = held \cup {LockOf(c)}
        BY <2>4, <3>3 DEF Enter, Holding, Inside
      <4>2. QED
        BY <3>1, <4>1, HolderAdded
    <3>4. QED
      BY <3>2, <3>3
  <2>5. ASSUME NEW c \in Callers, StopAtBudget(c) \/ Fail(c) \/ Release(c)
        PROVE LocksExact'
    <3>1. Others(c) /\ ~Holding(c)' /\ held' = Unlocked(c)
      BY <2>5 DEF StopAtBudget, Fail, Release, Leave, Others, Holding, Inside, LockOf, LockKey
    <3>2. QED
      BY <3>1, HolderRemoved
  <2>6. CASE Restart
    BY <2>6 DEF Restart, LocksExact, Holding, Inside
  <2>7. ASSUME UNCHANGED <<held, local>> PROVE LocksExact'
    BY <2>7 DEF local, LocksExact, Holding, Inside, LockOf, LockKey
  <2>8. QED
    BY <2>1, <2>2, <2>3, <2>4, <2>5, <2>6, <2>7
       DEF Next, Step, Invalidate, Midnight, vars, local
<1>3. QED
  BY <1>1, <1>2, GenerationTyped, PTL DEF Spec

-----------------------------------------------------------------------------
(***************************************************************************)
(* The refinement.  Only PassBudget, Fail, Commit, Midnight and Restart    *)
(* are visible in the ledger; every other step leaves each user's open     *)
(* generations and the stored totals alone.                                *)
(***************************************************************************)

OpenMap == [u \in Users |-> OpenOf(u)]

LEMMA SameOpen ==
    ASSUME \A d \in Callers : /\ InFlight(d)' <=> InFlight(d)
                              /\ InFlight(d) => job'[d] = job[d]
    PROVE  OpenMap' = OpenMap
<1>1. \A u \in Users : OpenOf(u)' = OpenOf(u)
  BY DEF OpenOf
<1>2. QED
  BY <1>1 DEF OpenMap

LEMMA OpenAdded ==
    ASSUME TypeOK, NEW c \in Callers, ~InFlight(c), InFlight(c)', job' = job, job[c] \in Job,
           \A d \in Callers \ {c} : InFlight(d)' <=> InFlight(d)
    PROVE  /\ OpenMap' = [OpenMap EXCEPT ![job[c].user] = @ \cup {c}]
           /\ \A v \in Users : c \notin OpenOf(v)
<1> DEFINE w == job[c].user
<1>1. w \in Users
  BY DEF Job
<1>2. OpenOf(w)' = OpenOf(w) \cup {c}
  BY DEF OpenOf
<1>3. \A u \in Users \ {w} : OpenOf(u)' = OpenOf(u)
  BY DEF OpenOf
<1>4. \A v \in Users : c \notin OpenOf(v)
  BY DEF OpenOf
<1>5. QED
  BY <1>1, <1>2, <1>3, <1>4 DEF OpenMap

LEMMA OpenRemoved ==
    ASSUME TypeOK, NEW c \in Callers, InFlight(c), ~InFlight(c)', job[c] \in Job,
           \A d \in Callers \ {c} : /\ InFlight(d)' <=> InFlight(d)
                                    /\ job'[d] = job[d]
    PROVE  /\ OpenMap' = [OpenMap EXCEPT ![job[c].user] = @ \ {c}]
           /\ c \in OpenMap[job[c].user]
<1> DEFINE w == job[c].user
<1>1. w \in Users
  BY DEF Job
<1>2. c \in OpenOf(w)
  BY DEF OpenOf
<1>3. \A u \in Users : OpenOf(u)' = OpenOf(u) \ {c}
  BY DEF OpenOf
<1>4. \A u \in Users \ {w} : OpenOf(u)' = OpenOf(u)
  <2>1. \A u \in Users \ {w} : c \notin OpenOf(u)
    BY DEF OpenOf
  <2>2. QED
    BY <1>3, <2>1
<1>5. OpenMap' = [OpenMap EXCEPT ![w] = @ \ {c}]
  BY <1>1, <1>3, <1>4 DEF OpenMap
<1>6. QED
  BY <1>1, <1>2, <1>5 DEF OpenMap

\* The generation machinery implements the usage ledger.
THEOREM GenerationImplementsLedger == Spec => ImplementsLedger
<1>1. Init => Ledger!Init
  BY DEF Init, Ledger!Init, OpenOf, InFlight
<1>2. TypeOK /\ [Next]_vars => [Ledger!Next]_(Ledger!vars)
  <2> SUFFICES ASSUME TypeOK, [Next]_vars PROVE [Ledger!Next]_(Ledger!vars)
    OBVIOUS
  <2> USE DEF OpenMap
  <2>0. ASSUME UNCHANGED store, OpenMap' = OpenMap PROVE UNCHANGED Ledger!vars
    BY <2>0 DEF store, Ledger!vars
  <2>1. ASSUME NEW c \in Callers, NEW j \in Job, Start(c, j) \/ NextUser(c, j)
        PROVE UNCHANGED Ledger!vars
    BY <2>0, <2>1, SameOpen DEF Start, NextUser, InFlight, TypeOK
  <2>2. ASSUME NEW c \in Callers,
               \/ Build(c) \/ Refuse(c) \/ Enter(c) \/ StopAtBudget(c)
               \/ Answer(c) \/ Correct(c) \/ Release(c) \/ EndJob(c)
        PROVE UNCHANGED Ledger!vars
    BY <2>0, <2>2, SameOpen
       DEF Build, Refuse, Enter, StopAtBudget, Answer, Correct, Release, EndJob,
           Leave, InFlight, TypeOK
  <2>3. ASSUME NEW c \in Callers, PassBudget(c)
        PROVE Ledger!Admit(job[c].user, c) /\ job[c].user \in Users
    <3>1. /\ ~InFlight(c) /\ InFlight(c)' /\ job' = job /\ job[c] \in Job
          /\ \A d \in Callers \ {c} : InFlight(d)' <=> InFlight(d)
      BY <2>3 DEF PassBudget, InFlight, TypeOK, LocalsOK
    <3>2. /\ OpenMap' = [OpenMap EXCEPT ![job[c].user] = @ \cup {c}]
          /\ \A v \in Users : c \notin OpenMap[v]
      BY <3>1, OpenAdded
    <3>3. job[c].user \in Users
      BY <3>1 DEF Job
    <3>4. QED
      BY <2>3, <3>2, <3>3 DEF PassBudget, store, Ledger!Admit
  <2>4. ASSUME NEW c \in Callers, Fail(c) PROVE [Ledger!Next]_(Ledger!vars)
    <3>1. job[c] \in Job /\ job[c].user \in Users
      BY <2>4 DEF Fail, TypeOK, LocalsOK, Job
    <3>2. ~InFlight(c)' /\ UNCHANGED store
      BY <2>4 DEF Fail, Leave, InFlight, TypeOK
    <3>3. \A d \in Callers \ {c} : (InFlight(d)' <=> InFlight(d)) /\ job'[d] = job[d]
      BY <2>4 DEF Fail, Leave, InFlight, TypeOK
    <3>4. CASE InFlight(c)
      <4>1. /\ OpenMap' = [OpenMap EXCEPT ![job[c].user] = @ \ {c}]
            /\ c \in OpenMap[job[c].user]
        BY <3>1, <3>2, <3>3, <3>4, OpenRemoved
      <4>2. Ledger!Abandon(job[c].user, c)
        BY <3>2, <4>1 DEF store, Ledger!Abandon
      <4>3. QED
        BY <3>1, <4>2 DEF Ledger!Next
    <3>5. CASE ~InFlight(c)
      BY <2>0, <3>2, <3>3, <3>5, SameOpen
    <3>6. QED
      BY <3>4, <3>5
  <2>5. ASSUME NEW c \in Callers, Commit(c) PROVE Ledger!Next
    <3> DEFINE u == job[c].user
               keeps == job[c].kind \notin UnlockedKinds
    <3>1. job[c] \in Job /\ u \in Users /\ usage[c] \in 0 .. 2 * MaxCost /\ keeps \in BOOLEAN
      BY <2>5 DEF Commit, TypeOK, LocalsOK, Job
    <3>2. /\ InFlight(c) /\ ~InFlight(c)'
          /\ \A d \in Callers \ {c} : (InFlight(d)' <=> InFlight(d)) /\ job'[d] = job[d]
      BY <2>5 DEF Commit, InFlight, TypeOK
    <3>3. /\ OpenMap' = [OpenMap EXCEPT ![u] = @ \ {c}]
          /\ c \in OpenMap[u]
      BY <3>1, <3>2, OpenRemoved
    <3>4. Ledger!Charge(u, c, usage[c], keeps)
      BY <2>5, <3>3 DEF Commit, Ledger!Charge
    <3>5. QED
      BY <3>1, <3>4 DEF Ledger!Next
  <2>6. CASE Invalidate
    BY <2>0, <2>6, SameOpen DEF Invalidate, store, local, InFlight
  <2>7. CASE Midnight
    <3>1. OpenMap' = OpenMap
      BY <2>7, SameOpen DEF Midnight, local, InFlight
    <3>2. Ledger!Midnight
      BY <2>7, <3>1 DEF Midnight, Ledger!Midnight
    <3>3. QED
      BY <3>2 DEF Ledger!Next
  <2>8. CASE Restart
    <3>1. OpenMap' = [u \in Users |-> {}]
      BY <2>8 DEF Restart, OpenOf, InFlight
    <3>2. Ledger!AbandonAll
      BY <2>8, <3>1 DEF Restart, store, Ledger!AbandonAll
    <3>3. QED
      BY <3>2 DEF Ledger!Next
  <2>9. CASE UNCHANGED vars
    BY <2>0, <2>9, SameOpen DEF vars, store, InFlight
  <2>10. QED
    BY <2>1, <2>2, <2>3, <2>4, <2>5, <2>6, <2>7, <2>8, <2>9
       DEF Next, Step, Ledger!Next
<1>3. QED
  BY <1>1, <1>2, GenerationTyped, PTL DEF Spec, ImplementsLedger, Ledger!Spec

-----------------------------------------------------------------------------
(***************************************************************************)
(* Arithmetic of a budget that is checked before it is spent: each open    *)
(* reservation sets one charge aside, and the recorded spending together   *)
(* with what is set aside stays under a fixed line.                        *)
(***************************************************************************)

LEMMA TimesMonotone ==
    ASSUME NEW m \in Nat, NEW a \in Nat, NEW b \in Nat, a <= b
    PROVE  m * a \in Nat /\ m * a <= m * b
  OBVIOUS

LEMMA TimesSuccessor ==
    ASSUME NEW m \in Nat, NEW a \in Nat
    PROVE  m * (a + 1) = m * a + m
  OBVIOUS

LEMMA SetAside ==
    ASSUME NEW T, IsFiniteSet(T), NEW m \in Nat, NEW S \in SUBSET T
    PROVE  /\ IsFiniteSet(S)
           /\ Cardinality(S) \in Nat
           /\ m * Cardinality(S) \in Nat
           /\ m * Cardinality(T) \in Nat
           /\ m * Cardinality(S) <= m * Cardinality(T)
  <1>1. /\ IsFiniteSet(S) /\ Cardinality(S) \in Nat
        /\ Cardinality(T) \in Nat /\ Cardinality(S) <= Cardinality(T)
    BY FS_Subset, FS_CardinalityType
  <1>2. QED
    BY <1>1, TimesMonotone

\* The line holds when a reservation is opened below the budget, when one is
\* turned into a charge, when some are dropped, and when spending is forgotten.
LEMMA LineKept ==
    ASSUME NEW T, IsFiniteSet(T), NEW budget \in Nat, NEW m \in Nat,
           NEW S \in SUBSET T, NEW Snext \in SUBSET T,
           NEW s \in Nat, NEW snext \in Nat,
           s + m * Cardinality(S) <= budget + m * Cardinality(T),
           \/ snext < budget
           \/ snext <= s /\ Snext \subseteq S
           \/ \E t \in S : Snext = S \ {t} /\ snext <= s + m
    PROVE  snext + m * Cardinality(Snext) <= budget + m * Cardinality(T)
  <1>1. /\ m * Cardinality(S) \in Nat /\ m * Cardinality(Snext) \in Nat
        /\ m * Cardinality(T) \in Nat
        /\ m * Cardinality(Snext) <= m * Cardinality(T)
    BY SetAside
  <1>2. CASE snext < budget
    BY <1>1, <1>2
  <1>3. CASE snext <= s /\ Snext \subseteq S
    <2>1. IsFiniteSet(S)
      BY SetAside
    <2>2. m * Cardinality(Snext) <= m * Cardinality(S)
      BY <1>3, <2>1, SetAside
    <2>3. QED
      BY <1>1, <1>3, <2>2
  <1>4. ASSUME NEW t \in S, Snext = S \ {t}, snext <= s + m
        PROVE  snext + m * Cardinality(Snext) <= budget + m * Cardinality(T)
    <2>1. IsFiniteSet(S) /\ Cardinality(S) \in Nat /\ Cardinality(Snext) \in Nat
      BY SetAside
    <2>2. Cardinality(S) = Cardinality(Snext) + 1
      <3>1. Cardinality(S \ {t}) = Cardinality(S) - 1
        BY <2>1, FS_RemoveElement
      <3>2. Cardinality(Snext) = Cardinality(S) - 1
        BY <1>4, <3>1
      <3>3. QED
        BY <2>1, <3>2
    <2>3. m * Cardinality(S) = m * Cardinality(Snext) + m
      BY <2>1, <2>2, TimesSuccessor
    <2>4. QED
      BY <1>1, <1>4, <2>3
  <1>5. QED
    BY <1>2, <1>3, <1>4

\* With nothing spent and nothing set aside the line holds, and it bounds what
\* is spent.
LEMMA LineStarts ==
    ASSUME NEW T, IsFiniteSet(T), NEW budget \in Nat, NEW m \in Nat
    PROVE  0 + m * Cardinality({}) <= budget + m * Cardinality(T)
  <1>1. m * Cardinality(T) \in Nat /\ m * 0 = 0
    BY SetAside
  <1>2. QED
    BY <1>1, FS_EmptySet

LEMMA LineBounds ==
    ASSUME NEW T, IsFiniteSet(T), NEW budget \in Nat, NEW m \in Nat,
           NEW S \in SUBSET T, NEW s \in Nat,
           s + m * Cardinality(S) <= budget + m * Cardinality(T)
    PROVE  s <= budget + m * Cardinality(T)
  <1>1. m * Cardinality(S) \in Nat /\ m * Cardinality(T) \in Nat
    BY SetAside
  <1>2. QED
    BY <1>1

-----------------------------------------------------------------------------
(***************************************************************************)
(* The budget: what every behaviour of the ledger bounds, the generation   *)
(* machinery that implements it bounds.                                    *)
(***************************************************************************)

MaxCharge == 2 * MaxCost

\* Admitted generations are paid for in advance: each open one reserves one
\* charge out of what the bound leaves above the recorded spending.
Reserved ==
    \A u \in Users :
        spent[u] + MaxCharge * Cardinality(OpenMap[u])
            <= Budget + MaxCharge * Cardinality(Callers)

LedgerTyped == spent \in [Users -> Nat] /\ OpenMap \in [Users -> SUBSET Callers]

\* A step of the ledger opens a generation below the budget, ends some, or
\* turns one into a charge.
Moves(v) ==
    \/ spent'[v] < Budget
    \/ spent'[v] <= spent[v] /\ OpenMap'[v] \subseteq OpenMap[v]
    \/ \E t \in OpenMap[v] : /\ OpenMap'[v] = OpenMap[v] \ {t}
                             /\ spent'[v] <= spent[v] + MaxCharge

LEMMA ChargeOK == MaxCharge \in Nat /\ Budget \in Nat /\ IsFiniteSet(Callers)
  BY ConstantsOK DEF MaxCharge

LEMMA LedgerMoves ==
    ASSUME LedgerTyped, [Ledger!Next]_(Ledger!vars)
    PROVE  LedgerTyped' /\ \A v \in Users : Moves(v)
<1> USE ChargeOK DEF LedgerTyped, Moves
<1> DEFINE Goal == LedgerTyped' /\ \A v \in Users : Moves(v)
<1>0. OpenMap = [u \in Users |-> OpenOf(u)] /\ OpenMap' = [u \in Users |-> OpenOf(u)]'
  BY DEF OpenMap
<1>1. ASSUME NEW u \in Users, NEW t \in Callers, Ledger!Admit(u, t) PROVE Goal
  <2>1. /\ spent' = spent /\ spent[u] < Budget
        /\ OpenMap' = [OpenMap EXCEPT ![u] = @ \cup {t}]
    BY <1>0, <1>1 DEF Ledger!Admit
  <2>2. QED
    BY <2>1
<1>2. ASSUME NEW u \in Users, NEW t \in Callers, Ledger!Abandon(u, t) PROVE Goal
  <2>1. spent' = spent /\ OpenMap' = [OpenMap EXCEPT ![u] = @ \ {t}]
    BY <1>0, <1>2 DEF Ledger!Abandon
  <2>2. QED
    BY <2>1
<1>3. ASSUME NEW u \in Users, NEW t \in Callers, NEW cost \in 0 .. MaxCharge,
             NEW withReport \in BOOLEAN, Ledger!Charge(u, t, cost, withReport)
      PROVE  Goal
  <2>1. /\ t \in OpenMap[u] /\ OpenMap' = [OpenMap EXCEPT ![u] = @ \ {t}]
        /\ spent' = [spent EXCEPT ![u] = @ + cost]
    BY <1>0, <1>3 DEF Ledger!Charge
  <2>2. cost \in Nat /\ cost <= MaxCharge
    OBVIOUS
  <2>3. LedgerTyped'
    BY <2>1, <2>2
  <2>4. Moves(u)
    BY <2>1, <2>2
  <2>5. \A v \in Users \ {u} : Moves(v)
    BY <2>1
  <2>6. QED
    BY <2>3, <2>4, <2>5
<1>4. ASSUME Ledger!AbandonAll PROVE Goal
  <2>1. spent' = spent /\ OpenMap' = [u \in Users |-> {}]
    BY <1>0, <1>4 DEF Ledger!AbandonAll
  <2>2. QED
    BY <2>1
<1>5. ASSUME Ledger!Midnight PROVE Goal
  <2>1. spent' = [u \in Users |-> 0] /\ OpenMap' = OpenMap
    BY <1>0, <1>5 DEF Ledger!Midnight
  <2>2. QED
    BY <2>1
<1>6. ASSUME UNCHANGED Ledger!vars PROVE Goal
  <2>1. spent' = spent /\ OpenMap' = OpenMap
    BY <1>0, <1>6 DEF Ledger!vars
  <2>2. QED
    BY <2>1
<1>7. QED
  BY <1>1, <1>2, <1>3, <1>4, <1>5, <1>6 DEF Ledger!Next, MaxCharge

LEMMA ReservedInit == ASSUME Ledger!Init PROVE LedgerTyped /\ Reserved
<1>1. spent = [u \in Users |-> 0] /\ OpenMap = [u \in Users |-> {}]
  BY DEF Ledger!Init, OpenMap
<1>2. QED
  BY <1>1, ChargeOK, LineStarts DEF LedgerTyped, Reserved

LEMMA ReservedStep ==
    ASSUME LedgerTyped, Reserved, [Ledger!Next]_(Ledger!vars)
    PROVE  LedgerTyped' /\ Reserved'
<1>1. LedgerTyped' /\ \A v \in Users : Moves(v)
  BY LedgerMoves
<1>2. ASSUME NEW v \in Users
      PROVE  spent'[v] + MaxCharge * Cardinality(OpenMap'[v])
                 <= Budget + MaxCharge * Cardinality(Callers)
  <2>1. /\ spent[v] \in Nat /\ spent'[v] \in Nat
        /\ OpenMap[v] \in SUBSET Callers /\ OpenMap'[v] \in SUBSET Callers
    BY <1>1 DEF LedgerTyped
  <2>2. Moves(v)
    BY <1>1
  <2>3. spent[v] + MaxCharge * Cardinality(OpenMap[v])
            <= Budget + MaxCharge * Cardinality(Callers)
    BY DEF Reserved
  <2>4. QED
    BY <2>1, <2>2, <2>3, ChargeOK, LineKept DEF Moves
<1>3. QED
  BY <1>1, <1>2 DEF Reserved, MaxCharge

LEMMA ReservedBounds ==
    ASSUME LedgerTyped, Reserved
    PROVE  OvershootBounded
  BY ChargeOK, LineBounds DEF LedgerTyped, Reserved, OvershootBounded, MaxCharge

\* Every behaviour of the ledger keeps the recorded spending under the budget
\* plus one charge for each generation that can be open.
THEOREM LedgerBoundsSpending == Ledger!Spec => []OvershootBounded
<1>1. Ledger!Init => LedgerTyped /\ Reserved
  BY ReservedInit
<1>2. LedgerTyped /\ Reserved /\ [Ledger!Next]_(Ledger!vars) => (LedgerTyped /\ Reserved)'
  BY ReservedStep
<1>3. LedgerTyped /\ Reserved => OvershootBounded
  BY ReservedBounds
<1>4. QED
  BY <1>1, <1>2, <1>3, PTL DEF Ledger!Spec

\* The budget is a cap up to one generation (two calls) per concurrent task,
\* although check_budget reads the spending long before the cost is recorded.
THEOREM SpendingIsBounded == Spec => []OvershootBounded
  BY GenerationImplementsLedger, LedgerBoundsSpending DEF ImplementsLedger
=============================================================================
