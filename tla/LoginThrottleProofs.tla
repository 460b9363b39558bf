------------------------ MODULE LoginThrottleProofs ------------------------
(***************************************************************************)
(* That the table of LoginThrottle is typed and bounded and gives up a     *)
(* lockout only when it must, for every set of addresses, infinite ones    *)
(* included.                                                               *)
(***************************************************************************)
EXTENDS LoginThrottle, FiniteSetTheorems, TLAPS

-----------------------------------------------------------------------------
\* TrackedBounded with what its induction needs: places are numbers, so the
\* oldest entry exists.
IInv ==
    /\ made \in Nat
    /\ \A e \in DOMAIN failures : failures[e].at \in Nat
    /\ IsFiniteSet(DOMAIN failures)
    /\ TrackedBounded

\* A set of entries with one address more has room when fewer are tracked.
LEMMA RoomFor ==
    ASSUME NEW F, IsFiniteSet(F), NEW e, NEW k \in Nat, Cardinality(F) < k
    PROVE  Cardinality(F \cup {e}) <= k
  <1>1. Cardinality(F) \in Nat
    BY FS_CardinalityType
  <1>2. Cardinality(F \cup {e}) = Cardinality(F) \/ Cardinality(F \cup {e}) = Cardinality(F) + 1
    BY FS_AddElement
  <1>3. QED
    BY <1>1, <1>2

LEMMA FewerThanTracked ==
    ASSUME IInv, NEW gone, Tracked(gone) < MaxTracked
    PROVE  Cardinality(DOMAIN failures \ gone) < MaxTracked
  <1>1. IsFiniteSet(DOMAIN left)
    BY FS_Subset DEF IInv, TrackedBounded
  <1>2. IsFiniteSet(DOMAIN failures \ gone) /\ IsFiniteSet(DOMAIN left \ gone)
    BY <1>1, FS_Difference DEF IInv
  <1>3. Cardinality(DOMAIN failures \ gone) \in Nat /\ Cardinality(DOMAIN left \ gone) \in Nat
    BY <1>2, FS_CardinalityType
  <1>4. MaxTracked \in Nat
    BY ConstantsOK
  <1>5. QED
    BY <1>3, <1>4 DEF Tracked

\* After MakeRoom the table holds the new address without exceeding the cap.
LEMMA MakeRoomMakesRoom ==
    ASSUME IInv, NEW e, NEW gone \in MakeRoom(e)
    PROVE  /\ IsFiniteSet((DOMAIN failures \ gone) \cup {e})
           /\ Cardinality((DOMAIN failures \ gone) \cup {e}) <= MaxTracked
  <1> DEFINE swept == Checked(e) \cup Expired
             rest == DOMAIN failures \ swept
  <1>1. /\ MaxTracked \in Nat /\ 1 <= MaxTracked
        /\ IsFiniteSet(DOMAIN failures) /\ Cardinality(DOMAIN failures) <= MaxTracked
    BY ConstantsOK DEF IInv, TrackedBounded
  <1>2. \A G : IsFiniteSet(DOMAIN failures \ G)
    BY <1>1, FS_Difference
  <1>3. IsFiniteSet((DOMAIN failures \ gone) \cup {e})
    BY <1>2, FS_AddElement
  <1>4. CASE e \in DOMAIN failures \ Checked(e)
    <2>1. gone = Checked(e)
      BY <1>4 DEF MakeRoom
    <2>2. (DOMAIN failures \ gone) \cup {e} \in SUBSET DOMAIN failures
      BY <1>4, <2>1
    <2>3. Cardinality((DOMAIN failures \ gone) \cup {e}) <= Cardinality(DOMAIN failures)
      BY <1>1, <2>2, FS_Subset
    <2>4. /\ Cardinality((DOMAIN failures \ gone) \cup {e}) \in Nat
          /\ Cardinality(DOMAIN failures) \in Nat
      BY <1>1, <1>3, FS_CardinalityType
    <2>5. QED
      BY <1>1, <1>3, <2>3, <2>4
  <1>5. CASE Tracked(gone) < MaxTracked
    <2>1. Cardinality(DOMAIN failures \ gone) < MaxTracked
      BY <1>5, FewerThanTracked
    <2>2. QED
      BY <1>1, <1>2, <1>3, <2>1, RoomFor
  <1>6. CASE rest = {} /\ gone = swept
    <2>1. Cardinality(DOMAIN failures \ gone) < MaxTracked
      BY <1>1, <1>6, FS_EmptySet
    <2>2. QED
      BY <1>1, <1>2, <1>3, <2>1, RoomFor
  <1>7. ASSUME NEW old \in rest, gone = swept \cup {old}
        PROVE  Cardinality((DOMAIN failures \ gone) \cup {e}) <= MaxTracked
    <2>1. old \in rest
      OBVIOUS
    <2>2. /\ IsFiniteSet(rest)
          /\ Cardinality(rest) \in Nat
          /\ Cardinality(rest) <= Cardinality(DOMAIN failures)
          /\ Cardinality(DOMAIN failures) \in Nat
      BY <1>1, <1>2, FS_Subset, FS_CardinalityType
    <2>3. DOMAIN failures \ gone = rest \ {old}
      BY <1>7
    <2>4. Cardinality(DOMAIN failures \ gone) = Cardinality(rest) - 1
      <3>1. Cardinality(rest \ {old}) = Cardinality(rest) - 1
        <4> HIDE DEF rest
        <4>1. QED
          BY <2>1, <2>2, FS_RemoveElement
      <3>2. QED
        BY <2>3, <3>1
    <2>5. Cardinality(DOMAIN failures \ gone) < MaxTracked
      BY <1>1, <2>2, <2>4
    <2>6. QED
      BY <1>1, <1>2, <1>3, <2>5, RoomFor
  <1>8. QED
    BY <1>3, <1>4, <1>5, <1>6, <1>7 DEF MakeRoom, Oldest

LEMMA AttemptKeeps ==
    ASSUME IInv, NEW e \in Emails, Attempt(e)
    PROVE  IInv'
  <1>0. PICK gone \in MakeRoom(e) : Count(e, gone)
    BY DEF Attempt
  <1> DEFINE rest == DOMAIN failures \ gone
  <1>1. DOMAIN failures' = rest \cup {e}
    BY <1>0 DEF Count
  <1>2. DOMAIN left' \subseteq rest \cup {e}
    BY <1>0 DEF Count, Without, IInv, TrackedBounded
  <1>3. IsFiniteSet(rest \cup {e}) /\ Cardinality(rest \cup {e}) <= MaxTracked
    BY MakeRoomMakesRoom
  <1>4. made' \in Nat
    BY <1>0 DEF Count, IInv
  <1>5. ASSUME NEW x \in DOMAIN failures' PROVE failures'[x].at \in Nat
    <2>1. CASE x = e
      BY <1>0, <1>1, <2>1 DEF Count, IInv
    <2>2. CASE x # e
      <3>1. x \in DOMAIN failures /\ failures'[x] = failures[x]
        BY <1>0, <1>1, <2>2 DEF Count
      <3>2. QED
        BY <3>1 DEF IInv
    <2>3. QED
      BY <2>1, <2>2
  <1>6. QED
    BY <1>1, <1>2, <1>3, <1>4, <1>5 DEF IInv, TrackedBounded

LEMMA SuccessKeeps ==
    ASSUME IInv, NEW e \in Emails, Success(e)
    PROVE  IInv'
  <1>1. /\ DOMAIN failures' = DOMAIN failures \ {e}
        /\ DOMAIN left' = DOMAIN left \ {e}
        /\ \A x \in DOMAIN failures' : failures'[x] = failures[x]
        /\ made' = made
    BY DEF Success, Without
  <1>2. /\ IsFiniteSet(DOMAIN failures')
        /\ Cardinality(DOMAIN failures') <= Cardinality(DOMAIN failures)
    BY <1>1, FS_Subset DEF IInv
  <1>3. Cardinality(DOMAIN failures') \in Nat /\ Cardinality(DOMAIN failures) \in Nat
    BY <1>2, FS_CardinalityType DEF IInv
  <1>4. Cardinality(DOMAIN failures') <= MaxTracked
    BY <1>2, <1>3, ConstantsOK DEF IInv, TrackedBounded
  <1>5. QED
    BY <1>1, <1>2, <1>4 DEF IInv, TrackedBounded

LEMMA InvHolds == Spec => []IInv
  <1>1. Init => IInv
    <2> SUFFICES ASSUME Init PROVE IInv
      OBVIOUS
    <2>1. DOMAIN failures = {} /\ DOMAIN left = {} /\ made = 0
      BY DEF Init
    <2>2. QED
      BY <2>1, FS_EmptySet, ConstantsOK DEF IInv, TrackedBounded
  <1>2. IInv /\ [Next]_vars => IInv'
    <2> SUFFICES ASSUME IInv, [Next]_vars PROVE IInv'
      OBVIOUS
    <2>1. CASE \E e \in Emails : Attempt(e) \/ Success(e)
      BY <2>1, AttemptKeeps, SuccessKeeps
    <2>2. CASE Tick
      <3>1. DOMAIN left' = DOMAIN left /\ failures' = failures /\ made' = made
        BY <2>2 DEF Tick
      <3>2. QED
        BY <3>1 DEF IInv, TrackedBounded
    <2>3. CASE UNCHANGED vars
      BY <2>3 DEF vars, IInv, TrackedBounded
    <2>4. QED
      BY <2>1, <2>2, <2>3 DEF Next
  <1>3. QED
    BY <1>1, <1>2, PTL DEF Spec

-----------------------------------------------------------------------------
\* The conditions of LockoutKept on a lockout e that is given up.
Given(e) ==
    /\ Tracked({}) >= MaxTracked
    /\ \A f \in DOMAIN left' \cap (DOMAIN left \ Live) : left'[f] = Lockout
    /\ \A f \in DOMAIN failures \ (DOMAIN left \ Live) :
          failures[e].at <= failures[f].at

LockoutsKept ==
    \A e \in Live \ DOMAIN left' :
        /\ Live \ DOMAIN left' = {e}
        /\ \/ Success(e)
           \/ /\ Tracked({}) >= MaxTracked
              /\ \A f \in DOMAIN left' \cap (DOMAIN left \ Live) : left'[f] = Lockout
              /\ \A f \in DOMAIN failures \ (DOMAIN left \ Live) :
                    failures[e].at <= failures[f].at

\* Forgetting entries never makes more of them.
LEMMA TrackedMonotone ==
    ASSUME IInv, NEW gone, Tracked(gone) >= MaxTracked
    PROVE  Tracked({}) >= MaxTracked
  <1>1. IsFiniteSet(DOMAIN failures) /\ IsFiniteSet(DOMAIN left)
    BY FS_Subset DEF IInv, TrackedBounded
  <1>2. /\ Cardinality(DOMAIN failures \ gone) <= Cardinality(DOMAIN failures)
        /\ Cardinality(DOMAIN left \ gone) <= Cardinality(DOMAIN left)
        /\ IsFiniteSet(DOMAIN failures \ gone) /\ IsFiniteSet(DOMAIN left \ gone)
    BY <1>1, FS_Subset
  <1>3. /\ Cardinality(DOMAIN failures \ gone) \in Nat /\ Cardinality(DOMAIN failures) \in Nat
        /\ Cardinality(DOMAIN left \ gone) \in Nat /\ Cardinality(DOMAIN left) \in Nat
    BY <1>1, <1>2, FS_CardinalityType
  <1>4. MaxTracked \in Nat
    BY ConstantsOK
  <1>5. Tracked({}) = Cardinality(DOMAIN failures) + Cardinality(DOMAIN left)
    <2>1. DOMAIN failures \ {} = DOMAIN failures /\ DOMAIN left \ {} = DOMAIN left
      OBVIOUS
    <2>2. QED
      BY <2>1 DEF Tracked
  <1>6. QED
    BY <1>2, <1>3, <1>4, <1>5 DEF Tracked

LEMMA AttemptGivesUp ==
    ASSUME IInv, NEW e \in Emails, Attempt(e), NEW x \in Live \ DOMAIN left'
    PROVE  Live \ DOMAIN left' = {x} /\ Given(x)
  <1> DEFINE over == DOMAIN left \ Live
             swept == Checked(e) \cup Expired
             rest == DOMAIN failures \ swept
  <1>0. PICK gone \in MakeRoom(e) : Count(e, gone)
    BY DEF Attempt
  <1>1. /\ DOMAIN left' \in {DOMAIN left \ gone, (DOMAIN left \ gone) \cup {e}}
        /\ \A f \in DOMAIN left' : f \in DOMAIN left \ gone \/ left'[f] = Lockout
    BY <1>0 DEF Count, Without
  <1>2. Checked(e) \subseteq over /\ Expired = over /\ swept = over
    BY DEF Checked, Expired
  <1>3. x \in gone /\ x \notin over /\ x \in Live
    BY <1>1 DEF Live
  <1>4. PICK old \in Oldest(rest) :
             /\ gone = swept \cup {old}
             /\ ~(Tracked(Checked(e)) < MaxTracked)
    BY <1>2, <1>3 DEF MakeRoom
  <1>5. gone = over \cup {old} /\ x = old
    BY <1>2, <1>3, <1>4
  <1>6. Live \ DOMAIN left' = {x}
    BY <1>1, <1>5 DEF Live
  <1>7. \A f \in DOMAIN left' \cap over : left'[f] = Lockout
    BY <1>1, <1>5
  <1>8. \A f \in DOMAIN failures \ over : failures[x].at <= failures[f].at
    BY <1>2, <1>4, <1>5 DEF Oldest
  <1>9. Tracked({}) >= MaxTracked
    <2>1. MaxTracked \in Nat /\ Tracked(Checked(e)) \in Nat
      <3>1. IsFiniteSet(DOMAIN failures) /\ IsFiniteSet(DOMAIN left)
        BY FS_Subset DEF IInv, TrackedBounded
      <3>2. IsFiniteSet(DOMAIN failures \ Checked(e)) /\ IsFiniteSet(DOMAIN left \ Checked(e))
        BY <3>1, FS_Difference
      <3>3. QED
        BY <3>2, FS_CardinalityType, ConstantsOK DEF Tracked
    <2>2. Tracked(Checked(e)) >= MaxTracked
      BY <1>4, <2>1
    <2>3. QED
      BY <2>2, TrackedMonotone
  <1>10. QED
    BY <1>6, <1>7, <1>8, <1>9 DEF Given

-----------------------------------------------------------------------------
(***************************************************************************)
(* Theorems                                                                *)
(***************************************************************************)

\* Every entry holds a count below max_failures and a place already given, and
\* no lockout runs longer than lockout_seconds.
THEOREM ThrottleTyped == Spec => []TypeOK
<1> USE ConstantsOK DEF TypeOK
<1>1. Init => TypeOK
  BY DEF Init
<1>2. TypeOK /\ [Next]_vars => TypeOK'
  <2> SUFFICES ASSUME TypeOK, [Next]_vars PROVE TypeOK'
    OBVIOUS
  <2>1. ASSUME NEW e \in Emails, Attempt(e) PROVE TypeOK'
    <3>0. PICK gone \in MakeRoom(e) : Count(e, gone)
      BY <2>1 DEF Attempt
    <3> DEFINE known == e \in DOMAIN failures \ gone
               n == IF known THEN failures[e].n + 1 ELSE 1
               entry == [n |-> Counted(n), at |-> IF known THEN failures[e].at ELSE made + 1]
    <3>1. made' \in 0 .. MaxMade /\ made <= made' /\ (~known => made' = made + 1)
      BY <2>1, <3>0 DEF Attempt, Count
    <3>2. Counted(n) \in 0 .. MaxFailures - 1
      BY DEF Counted
    <3>3. entry \in [n : 0 .. MaxFailures - 1, at : 1 .. made']
      BY <3>1, <3>2
    <3>4. failures' = [x \in (DOMAIN failures \ gone) \cup {e} |->
                         IF x = e THEN entry ELSE failures[x]]
      BY <3>0 DEF Count
    <3>5. \A x \in DOMAIN failures : failures[x] \in [n : 0 .. MaxFailures - 1, at : 1 .. made']
      BY <3>1
    <3>6. left' \in [DOMAIN left' -> 0 .. Lockout]
      BY <3>0 DEF Count, Without
    <3>7. /\ DOMAIN failures' \subseteq Emails
          /\ failures' \in [DOMAIN failures' -> [n : 0 .. MaxFailures - 1, at : 1 .. made']]
      <4> HIDE DEF entry
      <4>1. QED
        BY <3>3, <3>4, <3>5
    <3>8. QED
      BY <3>1, <3>6, <3>7
  <2>2. ASSUME NEW e \in Emails, Success(e) PROVE TypeOK'
    BY <2>2 DEF Success, Without
  <2>3. CASE Tick
    BY <2>3 DEF Tick
  <2>4. CASE UNCHANGED vars
    BY <2>4 DEF vars
  <2>5. QED
    BY <2>1, <2>2, <2>3, <2>4 DEF Next
<1>3. QED
  BY <1>1, <1>2, PTL DEF Spec

\* Whatever addresses are tried, in whatever number, the table holds at most
\* MaxTracked counts, and lockouts only for counted addresses.
THEOREM TableIsBounded == Spec => []TrackedBounded
  <1>1. IInv => TrackedBounded
    BY DEF IInv
  <1>2. QED
    BY <1>1, InvHolds, PTL

\* A live lockout is given up by a successful login of its e-mail, or as the oldest
\* entry of a table that is full although every expired lockout has gone.
THEOREM LockoutsAreKept == Spec => LockoutKept
  <1>1. ASSUME IInv, [Next]_vars, NEW x \in Live \ DOMAIN left'
        PROVE  Live \ DOMAIN left' = {x} /\ (Success(x) \/ Given(x))
    <2>1. ASSUME NEW e \in Emails, Attempt(e) PROVE Live \ DOMAIN left' = {x} /\ Given(x)
      BY <1>1, <2>1, AttemptGivesUp
    <2>2. ASSUME NEW e \in Emails, Success(e) PROVE Live \ DOMAIN left' = {x} /\ x = e
      <3>1. DOMAIN left' = DOMAIN left \ {e}
        BY <2>2 DEF Success, Without
      <3>2. QED
        BY <1>1, <3>1 DEF Live
    <2>3. ~(Tick \/ UNCHANGED vars)
      BY <1>1 DEF Tick, vars, Live
    <2>4. QED
      BY <1>1, <2>1, <2>2, <2>3 DEF Next
  <1>2. ASSUME IInv, [Next]_vars PROVE LockoutsKept
    BY <1>1, <1>2 DEF LockoutsKept, Given
  <1>3. QED
    BY <1>2, InvHolds, PTL DEF Spec, LockoutKept, LockoutsKept
=============================================================================
