----------------------------- MODULE GuruConfig -----------------------------
(***************************************************************************)
(* The administrator's LLM configuration and the service built from it:    *)
(* put_llm_config in api/admin.py, load_active_config in                   *)
(* services/guru/config.py, get_guru_service and invalidate_guru_service   *)
(* in services/guru/service.py.  An action runs from one await to the      *)
(* next; the database is PostgreSQL at READ COMMITTED.                     *)
(*                                                                         *)
(* A configuration has three columns: the provider, the model names (with  *)
(* their prices) and the key.                                              *)
(***************************************************************************)
EXTENDS Naturals, FiniteSets

CONSTANTS
    Admins,       \* PUT /admin/llm-config requests, each served once
    Tasks,        \* tasks that ask for the Guru service, again and again
    Providers, Models, Keys,
    Blank,        \* no key: "" in the database, blank or absent in a request
    Env,          \* the configuration the settings give without a row
    None

Config == [provider : Providers, models : Models, key : Keys \cup {Blank}]

ASSUME ConstantsOK ==
    /\ Env \in Config /\ Blank \notin Keys
    /\ None \notin Config /\ None \notin Nat \X Config
    /\ Admins \cap Tasks = {}

VARIABLES
    table,        \* the committed llm_config rows: id -> Config
    lastId,       \* the id sequence
    service,      \* _service: the configuration it was built from, or None
    pc,
    form,         \* form[a]: what administrator a submits
    seen,         \* seen[a]: the row a's SELECT found as <<id, Config>>, or None;
                  \* then the id of a's own INSERT
    cfg,          \* cfg[t]: the configuration task t has loaded, or None
    late,         \* service was installed after its configuration was replaced (history)
    met           \* pairs of administrators served at the same time (history)

vars == <<table, lastId, service, pc, form, seen, cfg, late, met>>

\* What the SELECT of the first row by id finds: that row, if there is one, is
\* the configuration.
First == {<<id, table[id]>> : id \in {i \in DOMAIN table : \A j \in DOMAIN table : i <= j}}
Found == IF First = {} THEN None ELSE CHOOSE row \in First : TRUE
Active == IF Found = None THEN Env ELSE Found[2]

Saving(a) == pc[a] \notin {"idle", "done"}

Init ==
    /\ table \in [{} -> Config] \cup [{1} -> {Env}]
    /\ lastId = 1
    /\ service = None
    /\ pc = [p \in Admins \cup Tasks |-> "idle"]
    /\ form = [a \in Admins |-> None]
    /\ seen = [a \in Admins |-> None]
    /\ cfg = [t \in Tasks |-> None]
    /\ late = FALSE
    /\ met = {}

-----------------------------------------------------------------------------
\* PUT /admin/llm-config

\* Variant that must break SavedWholeUnlessMet: every save inserts.
ReadRowNever(a, f) ==
    /\ pc[a] = "idle"
    /\ form' = [form EXCEPT ![a] = f]
    /\ pc' = [pc EXCEPT ![a] = "edit"]
    /\ met' = met \cup UNION {{<<a, b>>, <<b, a>>} : b \in {d \in Admins : Saving(d)}}
    /\ UNCHANGED <<table, lastId, service, seen, cfg, late>>

ReadRow(a, f) ==
    /\ pc[a] = "idle"
    /\ form' = [form EXCEPT ![a] = f]
    /\ seen' = [seen EXCEPT ![a] = Found]
    /\ pc' = [pc EXCEPT ![a] = "edit"]
    /\ met' = met \cup UNION {{<<a, b>>, <<b, a>>} : b \in {d \in Admins : Saving(d)}}
    /\ UNCHANGED <<table, lastId, service, cfg, late>>

\* Variant that must break KeyKept: a blank key is stored like any other.
EditedAll(old, row, f) == f

\* The ORM's UPDATE writes the columns whose new value differs from the one a
\* has read; a blank key leaves the column alone.
Edited(old, row, f) ==
    [provider |-> IF f.provider # old.provider THEN f.provider ELSE row.provider,
     models |-> IF f.models # old.models THEN f.models ELSE row.models,
     key |-> IF f.key # Blank /\ f.key # old.key THEN f.key ELSE row.key]

Update(a) ==
    /\ pc[a] = "edit" /\ seen[a] # None
    /\ LET id == seen[a][1] IN
       table' = [table EXCEPT ![id] = Edited(seen[a][2], @, form[a])]
    /\ pc' = [pc EXCEPT ![a] = "saved"]
    /\ UNCHANGED <<lastId, service, form, seen, cfg, late, met>>

\* Without a row the first save inserts one; its id is drawn before the commit.
Insert(a) ==
    /\ pc[a] = "edit" /\ seen[a] = None
    /\ lastId' = lastId + 1
    /\ seen' = [seen EXCEPT ![a] = <<lastId', form[a]>>]
    /\ pc' = [pc EXCEPT ![a] = "insert"]
    /\ UNCHANGED <<table, service, form, cfg, late, met>>

CommitInsert(a) ==
    /\ pc[a] = "insert"
    /\ table' = [id \in DOMAIN table \cup {seen[a][1]} |->
                    IF id = seen[a][1] THEN seen[a][2] ELSE table[id]]
    /\ pc' = [pc EXCEPT ![a] = "saved"]
    /\ UNCHANGED <<lastId, service, form, seen, cfg, late, met>>

\* The database refuses: the request ends without an invalidation.
SaveFails(a) ==
    /\ pc[a] \in {"edit", "insert"}
    /\ pc' = [pc EXCEPT ![a] = "done"]
    /\ UNCHANGED <<table, lastId, service, form, seen, cfg, late, met>>

\* Variant that must break StaleOnlyByRace: only a service without a key is
\* thrown away.
InvalidateUnconfigured(a) ==
    /\ pc[a] = "saved"
    /\ service' = IF service # None /\ service.key # Blank THEN service ELSE None
    /\ late' = FALSE
    /\ pc' = [pc EXCEPT ![a] = "done"]
    /\ UNCHANGED <<table, lastId, form, seen, cfg, met>>

\* invalidate_guru_service(), after the commit.
Invalidate(a) ==
    /\ pc[a] = "saved"
    /\ service' = None
    /\ late' = FALSE
    /\ pc' = [pc EXCEPT ![a] = "done"]
    /\ UNCHANGED <<table, lastId, form, seen, cfg, met>>

-----------------------------------------------------------------------------
\* get_guru_service

\* No service is installed: the task awaits load_active_config.
Ask(t) ==
    /\ pc[t] = "idle" /\ service = None
    /\ pc' = [pc EXCEPT ![t] = "load"]
    /\ UNCHANGED <<table, lastId, service, form, seen, cfg, late, met>>

Load(t) ==
    /\ pc[t] = "load"
    /\ cfg' = [cfg EXCEPT ![t] = Active]
    /\ pc' = [pc EXCEPT ![t] = "install"]
    /\ UNCHANGED <<table, lastId, service, form, seen, late, met>>

\* Variant that must break TypeOK: the task keeps the configuration for later.
InstallKeeping(t) ==
    /\ pc[t] = "install"
    /\ service' = cfg[t]
    /\ late' = (cfg[t] # Active)
    /\ pc' = [pc EXCEPT ![t] = "idle"]
    /\ UNCHANGED <<table, lastId, form, seen, cfg, met>>

\* The task resumes, builds the service and installs it.
Install(t) ==
    /\ pc[t] = "install"
    /\ service' = cfg[t]
    /\ late' = (cfg[t] # Active)
    /\ cfg' = [cfg EXCEPT ![t] = None]
    /\ pc' = [pc EXCEPT ![t] = "idle"]
    /\ UNCHANGED <<table, lastId, form, seen, met>>

\* A restart drops the service and every request.
Restart ==
    /\ service' = None
    /\ late' = FALSE
    /\ cfg' = [t \in Tasks |-> None]
    /\ pc' = [p \in Admins \cup Tasks |->
                IF p \in Admins /\ Saving(p) THEN "done"
                ELSE IF p \in Tasks THEN "idle" ELSE pc[p]]
    /\ UNCHANGED <<table, lastId, form, seen, met>>

Next ==
    \/ \E a \in Admins :
          \/ \E f \in Config : ReadRow(a, f)
          \/ Update(a)
          \/ Insert(a)
          \/ CommitInsert(a)
          \/ SaveFails(a)
          \/ Invalidate(a)
    \/ \E t \in Tasks : Ask(t) \/ Load(t) \/ Install(t)
    \/ Restart

Spec == Init /\ [][Next]_vars

-----------------------------------------------------------------------------
(***************************************************************************)
(* Properties                                                              *)
(***************************************************************************)

TypeOK ==
    /\ DOMAIN table \subseteq 1 .. lastId
    /\ \A id \in DOMAIN table : table[id] \in Config
    /\ service \in Config \cup {None}
    /\ pc \in [Admins \cup Tasks ->
                 {"idle", "edit", "insert", "saved", "done", "load", "install"}]
    /\ \A a \in Admins : pc[a] = "idle" <=> form[a] = None
    /\ \A t \in Tasks : cfg[t] # None <=> pc[t] = "install"
    /\ late \in BOOLEAN
    /\ met \subseteq Admins \X Admins

\* A saved configuration is in force once its PUT has been answered: the service
\* differs from it only while an answer is still out, or when the service was
\* installed late, by a task that had loaded the configuration before the save.
StaleOnlyByRace ==
    service \notin {None, Active} => late \/ \E a \in Admins : pc[a] = "saved"

\* A stored key is never blanked, whatever saves run together.
KeyKept ==
    [][\A id \in DOMAIN table :
          table[id].key # Blank => id \in DOMAIN table' /\ table'[id].key # Blank]_vars

\* One administrator after the other: the configuration is one row, its
\* provider and models chosen together.  Only concurrent saves insert two rows or
\* mix the columns of two forms.
Whole(c) ==
    \/ <<c.provider, c.models>> = <<Env.provider, Env.models>>
    \/ \E a \in Admins :
          form[a] # None /\ <<c.provider, c.models>> = <<form[a].provider, form[a].models>>

SavedWholeUnlessMet ==
    Cardinality(DOMAIN table) > 1 \/ ~Whole(Active) => met # {}
=============================================================================
