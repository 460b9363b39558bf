--------------------------- MODULE GuruGeneration ---------------------------
(***************************************************************************)
(* The LLM generation paths of the backend: GuruService.generate_* in      *)
(* services/guru/service.py, ChatService in services/guru/chat.py and      *)
(* extract_statement in services/orso/vision.py, as the event loop         *)
(* interleaves them.                                                       *)
(*                                                                         *)
(* A caller is one asyncio task: a request handler, or a scheduler job     *)
(* that walks its users with one service object.  A step of a caller runs  *)
(* from one await to the next.  A GuruService object owns its locks, so a  *)
(* lock is named by the object and the key.  An object no task refers to   *)
(* is garbage, and its name is reused for the next one built.              *)
(*                                                                         *)
(* Costs are whole units; 0 is the cost of a model without a price.        *)
(***************************************************************************)
EXTENDS Naturals, FiniteSets, Functions

CONSTANTS
    Callers,      \* asyncio tasks that use the Guru
    Schedulers,   \* the callers that are scheduler jobs
    Users,
    Kinds,        \* the modes in use
    Instances,    \* names for GuruService objects
    Keyless,      \* those built from a configuration without an API key
    None,
    Budget,       \* settings.guru_daily_budget_usd
    Costs,        \* what one provider call can cost
    MaxCost,      \* the largest of them
    MaxRows       \* bound: no new generation once this many usage rows exist

CorrectedKinds == {"review", "orso", "rotation"}    \* one corrective retry
PerUserKinds   == {"decision"}                      \* lock key holds the user
UnlockedKinds  == {"chat", "orso_ingest"}           \* no lock, no report
DailyKinds     == {"digest", "take"}                \* what the scheduler runs

Job == [user : Users, kind : Kinds]

ASSUME ConstantsOK ==
    /\ IsFiniteSet(Callers) /\ Schedulers \subseteq Callers
    /\ Keyless \subseteq Instances
    /\ None \notin Instances /\ None \notin Job
    /\ Budget \in Nat /\ MaxRows \in Nat
    /\ MaxCost \in Nat /\ Costs \subseteq 0 .. MaxCost

VARIABLES
    service,      \* the module global _service: an instance or None
    held,         \* the locked asyncio.Locks, as <<instance, key>>
    spent,        \* spent[u]: sum of u's llm_usage cost since local midnight
    rows,         \* rows[u]: u's llm_usage rows
    reports,      \* reports[u]: u's guru_reports rows
    pc,           \* pc[c]: where caller c is
    job,          \* job[c]: the user and mode c works for, or None
    inst,         \* inst[c]: the GuruService c holds a reference to, or None
    usage,        \* usage[c]: the usage c's local variables hold
    billed        \* billed[c]: what the provider charged for c's calls so far

store == <<spent, rows, reports>>
local == <<pc, job, inst, usage, billed>>
vars == <<service, held, spent, rows, reports, pc, job, inst, usage, billed>>

Places == {"idle", "resolve", "ready", "check", "call", "retry", "commit",
           "release", "between"}

LockKeys == (PerUserKinds \X Users) \cup (Kinds \X {None})

\* A task at rest holds no job; one with a service ready holds a reference to
\* it; it has usage only after an answer, of two calls at most.
LocalsOK(c) ==
    /\ job[c] \in Job <=> pc[c] \notin {"idle", "between"}
    /\ pc[c] = "between" => c \in Schedulers
    /\ inst[c] \in Instances <=> pc[c] \notin {"idle", "resolve"}
    /\ pc[c] \notin {"retry", "commit", "release"} => usage[c] = 0
    /\ pc[c] = "retry" => usage[c] <= MaxCost

TypeOK ==
    /\ service \in Instances \cup {None}
    /\ held \subseteq Instances \X LockKeys
    /\ spent \in [Users -> Nat]
    /\ rows \in [Users -> Nat]
    /\ reports \in [Users -> Nat]
    /\ pc \in [Callers -> Places]
    /\ job \in [Callers -> Job \cup {None}]
    /\ inst \in [Callers -> Instances \cup {None}]
    /\ usage \in [Callers -> 0 .. 2 * MaxCost]
    /\ billed \in [Callers -> Nat]
    /\ \A c \in Callers : LocalsOK(c)

-----------------------------------------------------------------------------

\* _lock(kind): one lock per mode, and one per user for the decision brief.
LockKey(j) == IF j.kind \in PerUserKinds THEN <<j.kind, j.user>> ELSE <<j.kind, None>>
LockOf(c) == <<inst[c], LockKey(job[c])>>

\* c is between the lock and the end of its generation.
Inside(c) == pc[c] \in {"check", "call", "retry", "commit", "release"}
Holding(c) == Inside(c) /\ job[c].kind \notin UnlockedKinds

\* c's generation passed the budget check and has neither committed nor failed.
InFlight(c) == pc[c] \in {"call", "retry", "commit"}

\* Names of service objects that no task and no global refers to.
Unreferenced == Instances \ ({service} \cup {inst[c] : c \in Callers})

-----------------------------------------------------------------------------
\* Getting hold of the service: get_guru_service, as a request dependency or
\* at the start of a scheduler job.

Start(c, j) ==
    /\ pc[c] = "idle"
    /\ c \in Schedulers => j.kind \in DailyKinds
    /\ SumFunction(rows) < MaxRows
    /\ job' = [job EXCEPT ![c] = j]
    /\ inst' = [inst EXCEPT ![c] = service]
    /\ pc' = [pc EXCEPT ![c] = IF service = None THEN "resolve" ELSE "ready"]
    /\ UNCHANGED <<service, held, store, usage, billed>>

\* The configuration arrived: the task builds a service and installs it,
\* whatever the global holds by now.
Build(c) ==
    /\ pc[c] = "resolve"
    /\ \E i \in Unreferenced :
          /\ service' = i
          /\ inst' = [inst EXCEPT ![c] = i]
    /\ pc' = [pc EXCEPT ![c] = "ready"]
    /\ UNCHANGED <<held, store, job, usage, billed>>

-----------------------------------------------------------------------------
\* One generation.

\* Variant that must break TypeOK: the usage survives its generation.
LeaveKeepingUsage(c) ==
    /\ pc' = [pc EXCEPT ![c] = IF c \in Schedulers THEN "between" ELSE "idle"]
    /\ job' = [job EXCEPT ![c] = None]
    /\ inst' = [inst EXCEPT ![c] = IF c \in Schedulers THEN @ ELSE None]
    /\ billed' = [billed EXCEPT ![c] = 0]
    /\ UNCHANGED usage

\* c's generation is over and its handler returns; a scheduler job goes on to
\* the next user, with the service it holds.
Leave(c) ==
    /\ pc' = [pc EXCEPT ![c] = IF c \in Schedulers THEN "between" ELSE "idle"]
    /\ job' = [job EXCEPT ![c] = None]
    /\ inst' = [inst EXCEPT ![c] = IF c \in Schedulers THEN @ ELSE None]
    /\ usage' = [usage EXCEPT ![c] = 0]
    /\ billed' = [billed EXCEPT ![c] = 0]

\* Variant that must break GenerationsEnd: "async with lock" without the
\* locked() test before it, so that a second request waits for the first.
RefuseOnlyKeyless(c) ==
    /\ pc[c] = "ready"
    /\ inst[c] \in Keyless
    /\ Leave(c)
    /\ UNCHANGED <<service, held, store>>

\* 503 llm_unconfigured, or 409 generation_in_progress.
Refuse(c) ==
    /\ pc[c] = "ready"
    /\ \/ inst[c] \in Keyless
       \/ job[c].kind \notin UnlockedKinds /\ LockOf(c) \in held
    /\ Leave(c)
    /\ UNCHANGED <<service, held, store>>

\* lock.locked() is false, so entering "async with lock" does not suspend.
Enter(c) ==
    /\ pc[c] = "ready"
    /\ inst[c] \notin Keyless
    /\ IF job[c].kind \in UnlockedKinds
         THEN held' = held
         ELSE /\ LockOf(c) \notin held
              /\ held' = held \cup {LockOf(c)}
    /\ pc' = [pc EXCEPT ![c] = "check"]
    /\ UNCHANGED <<service, store, job, inst, usage, billed>>

\* Variant that must break LocksExact: acquire and release without the
\* try/finally that "async with" stands for.
UnlockedOnSuccess(c) ==
    IF Holding(c) /\ pc[c] = "release" THEN held \ {LockOf(c)} ELSE held

\* The lock a caller inside a generation gives back.
Unlocked(c) == IF Holding(c) THEN held \ {LockOf(c)} ELSE held

\* Variant that must break OvershootBounded: a mode that forgets check_budget.
PassUnchecked(c) ==
    /\ pc[c] = "check"
    /\ pc' = [pc EXCEPT ![c] = "call"]
    /\ UNCHANGED <<service, held, store, job, inst, usage, billed>>

PassBudget(c) ==
    /\ pc[c] = "check"
    /\ spent[job[c].user] < Budget
    /\ pc' = [pc EXCEPT ![c] = "call"]
    /\ UNCHANGED <<service, held, store, job, inst, usage, billed>>

\* 429 budget_exhausted.
StopAtBudget(c) ==
    /\ pc[c] = "check"
    /\ spent[job[c].user] >= Budget
    /\ held' = Unlocked(c)
    /\ Leave(c)
    /\ UNCHANGED <<service, store>>

\* The provider answers; a corrected mode whose answer omits a position or
\* names an unknown fund or group asks once more.
Answer(c) ==
    /\ pc[c] = "call"
    /\ \E cost \in Costs :
          /\ usage' = [usage EXCEPT ![c] = cost]
          /\ billed' = [billed EXCEPT ![c] = @ + cost]
    /\ \/ pc' = [pc EXCEPT ![c] = "commit"]
       \/ /\ job[c].kind \in CorrectedKinds
          /\ pc' = [pc EXCEPT ![c] = "retry"]
    /\ UNCHANGED <<service, held, store, job, inst>>

\* Variant that must break UsageComplete: the second call's usage replaces the
\* first one's.
CorrectForgettingFirst(c) ==
    /\ pc[c] = "retry"
    /\ \E cost \in Costs :
          /\ usage' = [usage EXCEPT ![c] = cost]
          /\ billed' = [billed EXCEPT ![c] = @ + cost]
    /\ pc' = [pc EXCEPT ![c] = "commit"]
    /\ UNCHANGED <<service, held, store, job, inst>>

\* The corrected answer is complete: the usage of both calls is added up.
Correct(c) ==
    /\ pc[c] = "retry"
    /\ \E cost \in Costs :
          /\ usage' = [usage EXCEPT ![c] = @ + cost]
          /\ billed' = [billed EXCEPT ![c] = @ + cost]
    /\ pc' = [pc EXCEPT ![c] = "commit"]
    /\ UNCHANGED <<service, held, store, job, inst>>

\* An exception leaves the lock: the context is too large, the provider fails
\* or times out, the corrected answer is still invalid, a chat client goes
\* away, the database fails.  The session closes and nothing is written.
Fail(c) ==
    /\ pc[c] \in {"check", "call", "retry", "commit"}
    /\ held' = Unlocked(c)
    /\ Leave(c)
    /\ UNCHANGED <<service, store>>

\* Variant that must break ImplementsLedger: the report is committed and its
\* usage row is not.
CommitReportOnly(c) ==
    LET u == job[c].user IN
    /\ pc[c] = "commit"
    /\ reports' = [reports EXCEPT ![u] = IF job[c].kind \in UnlockedKinds THEN @ ELSE @ + 1]
    /\ pc' = [pc EXCEPT ![c] = "release"]
    /\ UNCHANGED <<service, held, spent, rows, job, inst, usage, billed>>

\* One transaction: the report (chat and statement ingest keep none) and its
\* usage row.
Commit(c) ==
    LET u == job[c].user IN
    /\ pc[c] = "commit"
    /\ spent' = [spent EXCEPT ![u] = @ + usage[c]]
    /\ rows' = [rows EXCEPT ![u] = @ + 1]
    /\ reports' = [reports EXCEPT ![u] = IF job[c].kind \in UnlockedKinds THEN @ ELSE @ + 1]
    /\ pc' = [pc EXCEPT ![c] = "release"]
    /\ UNCHANGED <<service, held, job, inst, usage, billed>>

\* A finished digest is followed by the take, on the same service object.
Release(c) ==
    /\ pc[c] = "release"
    /\ held' = Unlocked(c)
    /\ IF job[c].kind = "digest" /\ "take" \in Kinds
         THEN /\ pc' = [pc EXCEPT ![c] = "ready"]
              /\ job' = [job EXCEPT ![c] = [user |-> @.user, kind |-> "take"]]
              /\ usage' = [usage EXCEPT ![c] = 0]
              /\ billed' = [billed EXCEPT ![c] = 0]
              /\ UNCHANGED inst
         ELSE Leave(c)
    /\ UNCHANGED <<service, store>>

-----------------------------------------------------------------------------
\* The scheduler job between two users, and what happens around the tasks.

NextUser(c, j) ==
    /\ pc[c] = "between"
    /\ j.kind \in DailyKinds
    /\ SumFunction(rows) < MaxRows
    /\ job' = [job EXCEPT ![c] = j]
    /\ pc' = [pc EXCEPT ![c] = "ready"]
    /\ UNCHANGED <<service, held, store, inst, usage, billed>>

EndJob(c) ==
    /\ pc[c] = "between"
    /\ pc' = [pc EXCEPT ![c] = "idle"]
    /\ inst' = [inst EXCEPT ![c] = None]
    /\ UNCHANGED <<service, held, store, job, usage, billed>>

\* An administrator saved the LLM configuration.
Invalidate ==
    /\ service # None
    /\ service' = None
    /\ UNCHANGED <<held, store, local>>

\* Local midnight in settings.guru_timezone: the budget window starts anew.
Midnight ==
    /\ \E u \in Users : spent[u] > 0
    /\ spent' = [u \in Users |-> 0]
    /\ UNCHANGED <<service, held, rows, reports, local>>

\* A deploy or a crash: only the database survives.
Restart ==
    /\ service' = None
    /\ held' = {}
    /\ pc' = [c \in Callers |-> "idle"]
    /\ job' = [c \in Callers |-> None]
    /\ inst' = [c \in Callers |-> None]
    /\ usage' = [c \in Callers |-> 0]
    /\ billed' = [c \in Callers |-> 0]
    /\ UNCHANGED store

-----------------------------------------------------------------------------

Init ==
    /\ service = None
    /\ held = {}
    /\ spent = [u \in Users |-> 0]
    /\ rows = [u \in Users |-> 0]
    /\ reports = [u \in Users |-> 0]
    /\ pc = [c \in Callers |-> "idle"]
    /\ job = [c \in Callers |-> None]
    /\ inst = [c \in Callers |-> None]
    /\ usage = [c \in Callers |-> 0]
    /\ billed = [c \in Callers |-> 0]

\* What a running task does next, without waiting for anyone else's request.
Step(c) ==
    \/ Build(c)
    \/ Refuse(c)
    \/ Enter(c)
    \/ PassBudget(c)
    \/ StopAtBudget(c)
    \/ Answer(c)
    \/ Correct(c)
    \/ Fail(c)
    \/ Commit(c)
    \/ Release(c)

Next ==
    \/ \E c \in Callers :
          \/ Step(c)
          \/ EndJob(c)
          \/ \E j \in Job : Start(c, j) \/ NextUser(c, j)
    \/ Invalidate
    \/ Midnight
    \/ Restart

\* The event loop runs every task that can run, and the provider clients end
\* every call with an answer or an error.
Fairness == \A c \in Callers : WF_vars(Step(c))

Spec == Init /\ [][Next]_vars
FairSpec == Spec /\ Fairness

-----------------------------------------------------------------------------
(***************************************************************************)
(* Properties                                                              *)
(***************************************************************************)

\* The locked asyncio.Locks are exactly those of the generations under way,
\* one generation per lock: 409 is answered iff such a generation is running,
\* and no failure, digest-then-take handover or restart leaves a lock behind.
LocksExact ==
    /\ held = {LockOf(c) : c \in {d \in Callers : Holding(d)}}
    /\ \A c, d \in Callers :
          Holding(c) /\ Holding(d) /\ LockOf(c) = LockOf(d) => c = d

\* Usage is added up over the corrective retry: what a generation commits is
\* what the provider charged for it.
UsageComplete ==
    \A c \in Callers : usage[c] = billed[c]

\* check_budget runs before the calls and the cost is recorded after them, so
\* tasks can pass the check together.  The recorded spending of a day exceeds
\* the budget by at most one generation (two calls) for each task.
OvershootBounded ==
    \A u \in Users : spent[u] <= Budget + 2 * MaxCost * Cardinality(Callers)

\* The generations of user u that passed check_budget and have not ended.
OpenOf(u) == {c \in Callers : InFlight(c) /\ job[c].user = u}

Ledger == INSTANCE UsageLedger
            WITH Tickets <- Callers,
                 MaxCharge <- 2 * MaxCost,
                 open <- [u \in Users |-> OpenOf(u)]

\* All this machinery implements the ledger: a report and its usage row in one
\* commit, and only for a generation admitted under the budget.
ImplementsLedger == Ledger!Spec

\* Every task that asks for a generation is answered, whatever the other tasks,
\* the provider and the administrator do: a lock is never waited for and there
\* is only one corrective retry.
GenerationsEnd ==
    \A c \in Callers : pc[c] \notin {"idle", "between"} ~> pc[c] \in {"idle", "between"}

\* What the design says of the lock: "Concurrent generation of the same kind is
\* blocked by a per-kind asyncio in-flight lock (second request -> 409)".
OneGenerationPerKind ==
    \A c, d \in Callers :
        Holding(c) /\ Holding(d) /\ LockKey(job[c]) = LockKey(job[d]) => c = d
=============================================================================
