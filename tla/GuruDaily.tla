------------------------------ MODULE GuruDaily ------------------------------
(***************************************************************************)
(* The morning digest and take: run_daily_job and catch_up in              *)
(* services/guru/scheduler.py, started by the cron trigger and by every    *)
(* boot, next to the digest and take requests of api/guru.py.  All of them *)
(* share one GuruService object and so its "digest" and "take" locks,      *)
(* which are not per user.                                                 *)
(*                                                                         *)
(* A generation is two steps here, taking the lock and ending; what is     *)
(* between them is GuruGeneration.                                         *)
(*                                                                         *)
(* Two kinds of failure end a whole job: a read outside the handlers, in   *)
(* the lookups of catch_up or for the next user; and a failed flush or     *)
(* commit under _generate_daily_for_user, which rolls the session back and *)
(* so expires the user object, whose id the handler reads for its log line *)
(* and raises in turn.                                                     *)
(***************************************************************************)
EXTENDS Naturals

CONSTANTS
    Users,        \* user ids: jobs walk them in this order
    OptIns,       \* the sets of users who can be opted in together
    Requests,     \* request handlers for POST /digest and POST /take
    MaxBoots,     \* bound: process starts
    Idle

Jobs == {"cron", "boot"}
Actors == Jobs \cup Requests
DailyKinds == {"digest", "take"}

\* What an actor can be at: user, kind, step, and whether a failed flush of it
\* ends with him, as that of a request or of a take of its own (_run_guarded logs a
\* constant), while _generate_daily_for_user raises.
Works == Users \X DailyKinds \X {"ready", "busy"} \X BOOLEAN

ASSUME DailyConstantsOK ==
    /\ Users \subseteq Nat /\ OptIns \subseteq SUBSET Users /\ MaxBoots \in Nat
    /\ Requests \cap Jobs = {}
    /\ Idle \notin Actors \cup Works

VARIABLES
    keyed,        \* the process's service has a provider
    reports,      \* reports[k]: users with a report of kind k since local midnight
    held,         \* held[k]: who holds the lock of kind k, or Idle
    unchecked,    \* users whose reports catch_up has still to look up
    todo,         \* todo[j]: what job j has to do, as <<user, kind it starts with>>
    running,      \* running[j]: job j is in progress
    work,         \* work[a]: what a is at, or Idle
    fired,        \* the cron trigger has fired today
    boots,
    owed,         \* owed[j]: users j was to serve today, but for those whose own
                  \* generation failed (history)
    stopped,      \* stopped[j]: j was broken off today (history)
    caughtUp      \* caughtUp[u]: digests catch_up made for u today (history)

process == <<keyed, held, unchecked, todo, running, work>>
history == <<owed, stopped, caughtUp>>
dailyVars == <<keyed, reports, held, unchecked, todo, running, work, fired, boots,
               owed, stopped, caughtUp>>

ExistsToday(k, u) == u \in reports[k]

DailyInit ==
    /\ keyed = FALSE
    /\ reports = [k \in DailyKinds |-> {}]
    /\ held = [k \in DailyKinds |-> Idle]
    /\ unchecked = {}
    /\ todo = [j \in Jobs |-> {}]
    /\ running = [j \in Jobs |-> FALSE]
    /\ work = [a \in Actors |-> Idle]
    /\ fired = FALSE
    /\ boots = 0
    /\ owed = [j \in Jobs |-> {}]
    /\ stopped = [j \in Jobs |-> FALSE]
    /\ caughtUp = [u \in Users |-> 0]

-----------------------------------------------------------------------------
\* What starts work.

\* run_daily_job lists the users whose profile has digest_enabled, which is any
\* set of users, as PUT /profile may change it at any time.
CronFires(optedIn) ==
    /\ ~fired /\ boots > 0 /\ ~running["cron"]
    /\ fired' = TRUE
    /\ running' = [running EXCEPT !["cron"] = TRUE]
    /\ todo' = [todo EXCEPT !["cron"] = {<<u, "digest">> : u \in optedIn}]
    /\ owed' = [owed EXCEPT !["cron"] = optedIn]
    /\ stopped' = [stopped EXCEPT !["cron"] = FALSE]
    /\ UNCHANGED <<keyed, reports, held, unchecked, work, boots, caughtUp>>

\* A new process: nothing of the old one is left, and catch_up starts.
Boot(optedIn) ==
    /\ boots < MaxBoots
    /\ boots' = boots + 1
    /\ keyed' \in BOOLEAN
    /\ held' = [k \in DailyKinds |-> Idle]
    /\ work' = [a \in Actors |-> Idle]
    /\ unchecked' = optedIn
    /\ todo' = [j \in Jobs |-> {}]
    /\ running' = [j \in Jobs |-> j = "boot"]
    /\ owed' = [j \in Jobs |-> IF j = "boot" THEN optedIn ELSE {}]
    /\ stopped' = [j \in Jobs |-> FALSE]
    /\ UNCHANGED <<reports, fired, caughtUp>>

\* The users are selected ordered by id.
Lowest(ids) == {u \in ids : \A v \in ids : u <= v}

\* Variant that must break CatchUpOncePerDay: catch_up serves everyone.
LookUpNothing ==
    /\ \E u \in Lowest(unchecked) :
       /\ unchecked' = unchecked \ {u}
       /\ todo' = [todo EXCEPT !["boot"] = @ \cup {<<u, "digest">>}]
    /\ UNCHANGED <<keyed, reports, held, running, work, fired, boots, history>>

\* Variant that must break UnservedHasReason: only the digest is looked up, and a
\* take that a restart or a failure cost is never made up for.
LookUpDigest ==
    /\ \E u \in Lowest(unchecked) :
       /\ unchecked' = unchecked \ {u}
       /\ todo' = IF ExistsToday("digest", u) THEN todo
                  ELSE [todo EXCEPT !["boot"] = @ \cup {<<u, "digest">>}]
    /\ UNCHANGED <<keyed, reports, held, running, work, fired, boots, history>>

\* catch_up looks up, user by user and before it serves anyone, what is missing.
LookUp ==
    /\ \E u \in Lowest(unchecked) :
       LET missing == {k \in DailyKinds : ~ExistsToday(k, u)}
           start == IF "digest" \in missing THEN "digest" ELSE "take"
       IN /\ unchecked' = unchecked \ {u}
          /\ todo' = IF missing = {} THEN todo
                     ELSE [todo EXCEPT !["boot"] = @ \cup {<<u, start>>}]
    /\ UNCHANGED <<keyed, reports, held, running, work, fired, boots, history>>

\* An exception leaves the job's function: nobody left on its list is served.
BreaksOff(j) ==
    /\ running' = [running EXCEPT ![j] = FALSE]
    /\ todo' = [todo EXCEPT ![j] = {}]
    /\ stopped' = [stopped EXCEPT ![j] = TRUE]

\* A lookup raises, outside any handler.
LookUpFails ==
    /\ unchecked # {}
    /\ unchecked' = {}
    /\ BreaksOff("boot")
    /\ UNCHANGED <<keyed, reports, held, work, fired, boots, owed, caughtUp>>

Request(r, u, k) ==
    /\ boots > 0 /\ work[r] = Idle
    /\ work' = [work EXCEPT ![r] = <<u, k, "ready", TRUE>>]
    /\ UNCHANGED <<keyed, reports, held, unchecked, todo, running, fired, boots, history>>

-----------------------------------------------------------------------------
\* A job serves its users in the order of their ids.

NextUser(j) ==
    /\ running[j] /\ work[j] = Idle
    /\ j = "boot" => unchecked = {}
    /\ \E t \in todo[j] :
          /\ t[1] \in Lowest({s[1] : s \in todo[j]})
          /\ todo' = [todo EXCEPT ![j] = @ \ {t}]
          /\ work' = [work EXCEPT ![j] = <<t[1], t[2], "ready", t[2] = "take">>]
    /\ UNCHANGED <<keyed, reports, held, unchecked, running, fired, boots, history>>

\* The db.get of the next user raises, outside any handler.
NextUserFails(j) ==
    /\ running[j] /\ work[j] = Idle /\ todo[j] # {}
    /\ j = "boot" => unchecked = {}
    /\ BreaksOff(j)
    /\ UNCHANGED <<keyed, reports, held, unchecked, work, fired, boots,
                   owed, caughtUp>>

\* Variant that must break DailyTypeOK: the loop breaks off after a user.
EndJobEarly(j) ==
    /\ running[j] /\ work[j] = Idle
    /\ j = "boot" => unchecked = {}
    /\ running' = [running EXCEPT ![j] = FALSE]
    /\ UNCHANGED <<keyed, reports, held, unchecked, todo, work, fired, boots, history>>

EndJob(j) ==
    /\ running[j] /\ work[j] = Idle /\ todo[j] = {}
    /\ j = "boot" => unchecked = {}
    /\ running' = [running EXCEPT ![j] = FALSE]
    /\ UNCHANGED <<keyed, reports, held, unchecked, todo, work, fired, boots, history>>

Ready(a) == work[a] # Idle /\ work[a][3] = "ready"
Busy(a) == work[a] # Idle /\ work[a][3] = "busy"

\* a gives its user up, who had his turn.
GivesUp(a) ==
    /\ work' = [work EXCEPT ![a] = Idle]
    /\ owed' = IF a \in Jobs THEN [owed EXCEPT ![a] = @ \ {work[a][1]}] ELSE owed

\* Variant that must break JobsEnd: a task waits for the lock, unfairly.
RefusedKeyless(a) ==
    /\ Ready(a) /\ ~keyed
    /\ GivesUp(a)
    /\ UNCHANGED <<keyed, reports, held, unchecked, todo, running, fired, boots,
                   stopped, caughtUp>>

\* No key, or GenerationInProgress: whoever asked first holds the lock of the
\* kind, for whichever user.  A job swallows it and leaves its user without the
\* rest.
Refused(a) ==
    /\ Ready(a) /\ (keyed => held[work[a][2]] # Idle)
    /\ GivesUp(a)
    /\ UNCHANGED <<keyed, reports, held, unchecked, todo, running, fired, boots,
                   stopped, caughtUp>>

Enter(a) ==
    /\ Ready(a) /\ keyed /\ held[work[a][2]] = Idle
    /\ held' = [held EXCEPT ![work[a][2]] = a]
    /\ work' = [work EXCEPT ![a] = [@ EXCEPT ![3] = "busy"]]
    /\ UNCHANGED <<keyed, reports, unchecked, todo, running, fired, boots, history>>

\* The report is committed and the lock given back; the take follows a digest.
Generated(a) ==
    /\ Busy(a)
    /\ LET u == work[a][1]  k == work[a][2] IN
       /\ reports' = [reports EXCEPT ![k] = @ \cup {u}]
       /\ held' = [held EXCEPT ![k] = Idle]
       /\ work' = [work EXCEPT ![a] = IF k = "digest"
                                           THEN <<u, "take", "ready", work[a][4]>> ELSE Idle]
       /\ caughtUp' = IF a = "boot" /\ k = "digest"
                        THEN [caughtUp EXCEPT ![u] = @ + 1] ELSE caughtUp
    /\ UNCHANGED <<keyed, unchecked, todo, running, fired, boots, owed, stopped>>

\* The exception leaves "async with lock".
Unlocks(a) == held' = [held EXCEPT ![work[a][2]] = Idle]

\* The provider fails, the budget is exhausted, or a query fails: the handler
\* returns to the loop.
Fails(a) ==
    /\ Busy(a)
    /\ Unlocks(a)
    /\ GivesUp(a)
    /\ UNCHANGED <<keyed, reports, unchecked, todo, running, fired, boots,
                   stopped, caughtUp>>

\* The flush or the commit of the report fails.
FlushFails(a) ==
    /\ Busy(a)
    /\ Unlocks(a)
    /\ GivesUp(a)
    /\ IF a \in Jobs /\ ~work[a][4]
         THEN BreaksOff(a) ELSE UNCHANGED <<running, todo, stopped>>
    /\ UNCHANGED <<keyed, reports, unchecked, fired, boots, caughtUp>>

-----------------------------------------------------------------------------

Midnight ==
    /\ fired' = FALSE
    /\ reports' = [k \in DailyKinds |-> {}]
    /\ caughtUp' = [u \in Users |-> 0]
    /\ owed' = [j \in Jobs |-> {}]
    /\ stopped' = [j \in Jobs |-> FALSE]
    /\ UNCHANGED <<process, boots>>

Step(a) == Refused(a) \/ Enter(a) \/ Generated(a) \/ Fails(a) \/ FlushFails(a)
Walk(j) == NextUser(j) \/ NextUserFails(j) \/ EndJob(j)
Look == LookUp \/ LookUpFails

DailyNext ==
    \/ \E optedIn \in OptIns : Boot(optedIn) \/ CronFires(optedIn)
    \/ Look
    \/ \E r \in Requests, u \in Users, k \in DailyKinds : Request(r, u, k)
    \/ \E a \in Actors : Step(a)
    \/ \E j \in Jobs : Walk(j)
    \/ Midnight

\* The next step of job j.
Turn(j) == Step(j) \/ Walk(j) \/ (j = "boot" /\ Look)

\* The event loop runs a job that can go on, and every query and provider call of
\* its ends, one way or the other.  Requests may be as slow as they like.
Fairness == \A j \in Jobs : WF_dailyVars(Turn(j))

DailySpec == DailyInit /\ [][DailyNext]_dailyVars
FairDailySpec == DailySpec /\ Fairness

-----------------------------------------------------------------------------

\* The types, and that a job which is over has nothing left to do.
DailyTypeOK ==
    /\ keyed \in BOOLEAN
    /\ reports \in [DailyKinds -> SUBSET Users]
    /\ held \in [DailyKinds -> Actors \cup {Idle}]
    /\ unchecked \subseteq Users
    /\ todo \in [Jobs -> SUBSET (Users \X DailyKinds)]
    /\ running \in [Jobs -> BOOLEAN]
    /\ work \in [Actors -> Works \cup {Idle}]
    /\ fired \in BOOLEAN
    /\ boots \in 0..MaxBoots
    /\ owed \in [Jobs -> SUBSET Users]
    /\ stopped \in [Jobs -> BOOLEAN]
    /\ caughtUp \in [Users -> 0..MaxBoots]
    /\ \A j \in Jobs : running[j] \/ (todo[j] = {} /\ work[j] = Idle)

\* However often the process is restarted in a day, catch_up makes at most one
\* digest for a user: what an earlier process committed is seen by the lookups of
\* a later one, and what it did not commit is lost with it.
CatchUpOncePerDay == \A u \in Users : caughtUp[u] <= 1

\* The users j was to serve who had no failure of their own and lack a report.
Unserved(j) == {u \in owed[j] : \E k \in DailyKinds : ~ExistsToday(k, u)}

\* A job that came to the end of its list has left every user it was to serve with
\* both reports of the day, or has tried and failed for that very user: what was
\* looked up first, what requests and the other job made meanwhile and what failed
\* for the users before him cost nobody his turn.  (The docstring of
\* _generate_daily_for_user promises that of every failure of another user; a
\* failed flush is one that breaks the job off.)
UnservedHasReason ==
    \A j \in Jobs : ~running[j] /\ ~stopped[j] => Unserved(j) = {}

\* Every job comes to its end, although requests and the other job compete for
\* the locks it needs for every user.
JobsEnd == \A j \in Jobs : running[j] ~> ~running[j]
=============================================================================
