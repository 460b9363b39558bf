----------------------------- MODULE ChatTurns ------------------------------
(***************************************************************************)
(* The messages of a user's chat threads: ChatService in guru/chat.py and  *)
(* the chat routes of api/guru.py.  Nothing keeps two turns of a thread    *)
(* apart, and a turn that fails or loses its client leaves its question    *)
(* without an answer.  Budget, usage and the provider's answer itself are  *)
(* GuruGeneration's.                                                       *)
(*                                                                         *)
(* A message gets its time from the application, then its id from the      *)
(* database by the INSERT, some time before other sessions see it.  A      *)
(* query's ordered rows are here a set, ordered by Earlier.                *)
(***************************************************************************)
EXTENDS Naturals, FiniteSets

CONSTANTS
    Turns,        \* requests to post a message
    Threads,      \* ids of threads
    Limit,        \* _HISTORY_LIMIT
    MaxTime,      \* bound on the clock, for TLC
    Null

VARIABLES
    threads,      \* stored threads
    messages,     \* committed messages, over all threads
    ids,          \* ids given out
    clock,
    stage,        \* stage[t]: what turn t is at
    thread,       \* thread[t]: the thread turn t posts to
    unsent,       \* unsent[t]: the message stamped and not committed
    window,       \* window[t]: the messages sent to the provider, once read
    before        \* before[t]: the turns that were over when t began (history)

chatVars == <<threads, messages, ids, clock, stage, thread, unsent, window, before>>

ASSUME ChatOK == Limit \in Nat \ {0} /\ MaxTime \in Nat /\ Null \notin Threads

Over == {"answered", "unanswered"}
Open(t) == stage[t] \notin {"idle"} \cup Over
Met(t, u) == t # u /\ stage[t] # "idle" /\ stage[u] # "idle" /\ thread[t] = thread[u] /\ t \notin before[u] /\ u \notin before[t]
Alone(t) == \A u \in Turns : ~Met(t, u)

ChatInit ==
    /\ threads = {}
    /\ messages = {}
    /\ ids = 0
    /\ clock = 0
    /\ stage = [t \in Turns |-> "idle"]
    /\ thread = [t \in Turns |-> Null]
    /\ unsent = [t \in Turns |-> Null]
    /\ window = [t \in Turns |-> {}]
    /\ before = [t \in Turns |-> {}]

\* POST /chat/threads.
CreateThread(h) ==
    /\ h \notin threads
    /\ threads' = threads \cup {h}
    /\ UNCHANGED <<messages, ids, clock, stage, thread, unsent, window, before>>

\* POST /chat/threads/{id}/messages, for a thread of the user's, a provider and a
\* budget (without them nothing is stored).
Begin(t, h) ==
    /\ stage[t] = "idle" /\ h \in threads
    /\ stage' = [stage EXCEPT ![t] = "begun"]
    /\ thread' = [thread EXCEPT ![t] = h]
    /\ before' = [before EXCEPT ![t] = {u \in Turns : stage[u] \in Over}]
    /\ UNCHANGED <<threads, messages, ids, clock, unsent, window>>

-----------------------------------------------------------------------------
\* The question before the provider is asked, and the answer after the stream's
\* end, with its usage: each is stamped, inserted and committed.

Stamp(t, role) ==
    /\ stage[t] = IF role = "user" THEN "begun" ELSE "streaming"
    /\ unsent' = [unsent EXCEPT ![t] =
          [id |-> Null, at |-> clock, role |-> role, thread |-> thread[t], turn |-> t]]
    /\ stage' = [stage EXCEPT ![t] = "stamped"]
    /\ UNCHANGED <<threads, messages, ids, clock, thread, window, before>>

InsertMessage(t) ==
    /\ stage[t] = "stamped"
    /\ unsent' = [unsent EXCEPT ![t].id = ids]
    /\ ids' = ids + 1
    /\ stage' = [stage EXCEPT ![t] = "inserted"]
    /\ UNCHANGED <<threads, messages, clock, thread, window, before>>

CommitMessage(t) ==
    /\ stage[t] = "inserted"
    /\ messages' = messages \cup {unsent[t]}
    /\ unsent' = [unsent EXCEPT ![t] = Null]
    /\ stage' = [stage EXCEPT ![t] = IF unsent[t].role = "user" THEN "asked" ELSE "answered"]
    /\ UNCHANGED <<threads, ids, clock, thread, window, before>>

-----------------------------------------------------------------------------
\* Variant that must break AnswersAdjacent: created_at alone, and the role.
EarlierByTime(m, n) == m.at < n.at \/ (m.at = n.at /\ m.role = "assistant" /\ n.role = "user")

Earlier(m, n) == m.at < n.at \/ (m.at = n.at /\ m.id < n.id)

Stored(h) == {m \in messages : m.thread = h}

\* The last Limit messages of S.
Newest(S) == {m \in S : Cardinality({n \in S : Earlier(m, n)}) < Limit}

\* The first user message on: the provider takes nothing else first.
FromUser(S) == {m \in S : \E u \in S : u.role = "user" /\ ~Earlier(m, u)}

\* Variant that must break WindowSound: the window starts where it is cut.
CutWindow(h) == Newest(Stored(h))

Window(h) == FromUser(Newest(Stored(h)))

\* The context is built from other tables; then the history is read.
ReadHistory(t) ==
    /\ stage[t] = "asked"
    /\ window' = [window EXCEPT ![t] = Window(thread[t])]
    /\ stage' = [stage EXCEPT ![t] = "streaming"]
    /\ UNCHANGED <<threads, messages, ids, clock, thread, unsent, before>>

\* An LLMError, a lost client or any other failure: what is not committed is lost.
Stop(t) ==
    /\ Open(t)
    /\ stage' = [stage EXCEPT ![t] = "unanswered"]
    /\ unsent' = [unsent EXCEPT ![t] = Null]
    /\ UNCHANGED <<threads, messages, ids, clock, thread, window, before>>

Tick ==
    /\ clock < MaxTime
    /\ clock' = clock + 1
    /\ UNCHANGED <<threads, messages, ids, stage, thread, unsent, window, before>>

ChatNext ==
    \/ Tick
    \/ \E h \in Threads : CreateThread(h)
    \/ \E t \in Turns :
          \/ \E h \in Threads : Begin(t, h)
          \/ \E role \in {"user", "assistant"} : Stamp(t, role)
          \/ InsertMessage(t) \/ CommitMessage(t) \/ ReadHistory(t) \/ Stop(t)

ChatSpec == ChatInit /\ [][ChatNext]_chatVars

-----------------------------------------------------------------------------
(***************************************************************************)
(* Properties                                                              *)
(***************************************************************************)

Own(t, m) == m.turn = t /\ m.role = "user"
Earliest(S) == {m \in S : \A n \in S : ~Earlier(n, m)}
Latest(S) == {m \in S : \A n \in S : ~Earlier(m, n)}

\* Messages written after the question of t by turns that t met.
Since(t) ==
    {n \in messages : Met(t, n.turn) /\ \E q \in messages : Own(t, q) /\ Earlier(q, n)}

\* What a provider is sent begins with a user message, however many turns failed
\* before, and ends with the question asked, unless the turn met another in its
\* thread; the question is missing only if those have written Limit messages since.
WindowSound ==
    \A t \in Turns :
       window[t] # {} \/ stage[t] = "streaming" =>
       /\ \A m \in Earliest(window[t]) : m.role = "user"
       /\ Alone(t) => window[t] # {} /\ \A m \in Latest(window[t]) : Own(t, m)
       /\ (\A m \in window[t] : ~Own(t, m)) => Cardinality(Since(t)) >= Limit

\* In a thread, an answer comes right after its question, unless its turn met
\* another: questions that failed before it are not taken to be answered by it.
AnswersAdjacent ==
    \A h \in threads : \A m \in Stored(h) :
       m.role = "assistant" /\ Alone(m.turn) =>
       \E q \in Stored(h) :
          /\ Own(m.turn, q) /\ Earlier(q, m)
          /\ ~\E n \in Stored(h) : Earlier(q, n) /\ Earlier(n, m)
=============================================================================
