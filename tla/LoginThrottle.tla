---------------------------- MODULE LoginThrottle ----------------------------
(***************************************************************************)
(* The table of failed attempts of core/hardening.py, in memory, as        *)
(* api/auth.py uses it: login asks check and then record_failure for a     *)
(* wrong password and record_success for a right one; register asks check  *)
(* and record_failure, under the client's address, for every attempt.      *)
(* None of them awaits, so each attempt is one step.                       *)
(*                                                                         *)
(* Both dictionaries of the object lose an e-mail together, wherever the   *)
(* code deletes it, so a step is described by the set it forgets.          *)
(***************************************************************************)
EXTENDS Naturals, FiniteSets

CONSTANTS
    Emails,       \* the keys: e-mail addresses, or client addresses
    MaxTracked,   \* _MAX_TRACKED
    MaxFailures,  \* max_failures
    Lockout,      \* lockout_seconds
    MaxMade       \* bound: entries made

ASSUME ConstantsOK ==
    /\ MaxTracked \in Nat \ {0} /\ MaxFailures \in Nat \ {0}
    /\ Lockout \in Nat \ {0} /\ MaxMade \in Nat

VARIABLES
    failures,     \* _failures: e-mail -> its count n and its place at in the dictionary
    left,         \* _locked_until: e-mail -> seconds the lockout still has
    made          \* the last place given

vars == <<failures, left, made>>

Init ==
    /\ failures = [e \in {} |-> {}]
    /\ left = [e \in {} |-> 0]
    /\ made = 0

Live == {e \in DOMAIN left : left[e] > 0}
Without(f, gone) == [e \in DOMAIN f \ gone |-> f[e]]

\* Entries of both dictionaries, without those forgotten.
Tracked(gone) == Cardinality(DOMAIN failures \ gone) + Cardinality(DOMAIN left \ gone)

\* Variant that must break LockoutKept: every lockout counts as expired.
ExpiredAny == DOMAIN left

\* _evict_expired_lockouts
Expired == DOMAIN left \ Live

\* _evict_oldest_failure: the first key of the dictionary.
Oldest(S) == {e \in S : \A f \in S : failures[e].at <= failures[f].at}

\* check sweeps e's own lockout once it has expired.
Checked(e) == Expired \cap {e}

\* Variant that must break TrackedBounded: the sweep is trusted to make room.
MakeRoomBySweep(e) ==
    {IF e \notin DOMAIN failures \ Checked(e) /\ Tracked(Checked(e)) >= MaxTracked
       THEN Checked(e) \cup Expired
       ELSE Checked(e)}

\* What may be forgotten before a new e-mail is entered in a full table: the
\* expired lockouts, and if that is not enough the oldest entry.
MakeRoom(e) ==
    LET swept == Checked(e) \cup Expired
        rest == DOMAIN failures \ swept
    IN IF e \in DOMAIN failures \ Checked(e) \/ Tracked(Checked(e)) < MaxTracked THEN {Checked(e)}
       ELSE IF Tracked(swept) < MaxTracked \/ rest = {} THEN {swept}
       ELSE {swept \cup {old} : old \in Oldest(rest)}

\* Variant that must break TypeOK: the count goes on after a lockout.
CountOn(n) == n

\* A lockout starts a new count.
Counted(n) == IF n >= MaxFailures THEN 0 ELSE n

\* record_failure, after it has forgotten gone.
Count(e, gone) ==
    LET known == e \in DOMAIN failures \ gone
        n == IF known THEN failures[e].n + 1 ELSE 1
        entry == [n |-> Counted(n), at |-> IF known THEN failures[e].at ELSE made + 1]
    IN /\ failures' = [x \in (DOMAIN failures \ gone) \cup {e} |->
                         IF x = e THEN entry ELSE failures[x]]
       /\ left' = IF n < MaxFailures THEN Without(left, gone)
                  ELSE [x \in (DOMAIN left \ gone) \cup {e} |->
                          IF x = e THEN Lockout ELSE left[x]]
       /\ made' = IF known THEN made ELSE made + 1

\* check, then record_failure.  A live lockout raises in check and changes
\* nothing.
Attempt(e) ==
    /\ e \notin Live
    /\ made < MaxMade
    /\ \E gone \in MakeRoom(e) : Count(e, gone)

\* record_success
Success(e) ==
    /\ failures' = Without(failures, {e})
    /\ left' = Without(left, {e})
    /\ UNCHANGED made

Tick ==
    /\ left' = [e \in DOMAIN left |-> IF left[e] = 0 THEN 0 ELSE left[e] - 1]
    /\ UNCHANGED <<failures, made>>

Next ==
    \/ \E e \in Emails : Attempt(e) \/ Success(e)
    \/ Tick

Spec == Init /\ [][Next]_vars

-----------------------------------------------------------------------------

TypeOK ==
    /\ DOMAIN failures \subseteq Emails
    /\ failures \in [DOMAIN failures -> [n : 0 .. MaxFailures - 1, at : 1 .. made]]
    /\ left \in [DOMAIN left -> 0 .. Lockout]
    /\ made \in 0 .. MaxMade

\* The table is bounded under any number of addresses: no more than MaxTracked
\* counts, and lockouts only of e-mails that have one.  The docstring's "capped
\* at _MAX_TRACKED combined entries" is not what holds: a lockout of an e-mail
\* that is already counted is a second entry, made without a look at the cap.
TrackedBounded ==
    /\ Cardinality(DOMAIN failures) <= MaxTracked
    /\ DOMAIN left \subseteq DOMAIN failures

\* A lockout that has not expired is forgotten only by a successful login, or,
\* in a full table from which every expired lockout has gone first (the attempt's
\* own may begin anew), because its e-mail is the one counted longest; no step
\* forgets two.
LockoutKept ==
    [][\A e \in Live \ DOMAIN left' :
          /\ Live \ DOMAIN left' = {e}
          /\ \/ Success(e)
             \/ /\ Tracked({}) >= MaxTracked
                /\ \A f \in DOMAIN left' \cap (DOMAIN left \ Live) : left'[f] = Lockout
                /\ \A f \in DOMAIN failures \ (DOMAIN left \ Live) :
                      failures[e].at <= failures[f].at]_vars
=============================================================================
