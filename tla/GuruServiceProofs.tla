------------------------- MODULE GuruServiceProofs -------------------------
(***************************************************************************)
(* The service's configuration, its daily jobs and its chat threads, whose *)
(* models share no names: each keeps its own specification.                *)
(*                                                                         *)
(* That a stored key is never blanked, a service is stale only by the race *)
(* of GuruConfig, and only administrators that have met mix two forms, for *)
(* every set of administrators, tasks and configurations; that a job which *)
(* is not broken off leaves nobody without his turn and catch_up makes one *)
(* digest a day for a user, for every set of users and requests and number *)
(* of boots; that the window sent to the provider is sound and answers     *)
(* follow their questions, for every set of turns and threads and length   *)
(* of a history.                                                           *)
(***************************************************************************)
EXTENDS GuruConfig, GuruDaily, ChatTurns, FiniteSetTheorems, TLAPS

(***************************************************************************)
(* The configuration: GuruConfig.                                          *)
(***************************************************************************)

\* The id a has drawn for a row it has not committed.
Drawing(a) == pc[a] = "insert"

\* TypeOK with what its induction needs: the variables are functions, and an id
\* drawn by an INSERT is not in the table yet and belongs to one request.
IInv ==
    /\ TypeOK
    /\ lastId \in Nat
    /\ form \in [Admins -> Config \cup {None}]
    /\ seen \in [Admins -> (Nat \X Config) \cup {None}]
    /\ cfg \in [Tasks -> Config \cup {None}]
    /\ \A a \in Admins : Drawing(a) =>
          /\ seen[a] \in (1 .. lastId) \X Config
          /\ seen[a][2] = form[a]
          /\ seen[a][1] \notin DOMAIN table
          /\ \A b \in Admins \ {a} : Drawing(b) => seen[b][1] # seen[a][1]

\* The SELECT finds a row of the table, or none.
LEMMA FoundInTable ==
    ASSUME IInv
    PROVE  \/ Found = None
           \/ \E id \in DOMAIN table : Found = <<id, table[id]>> /\ Found \in Nat \X Config
  <1>1. \A id \in DOMAIN table : <<id, table[id]>> \in Nat \X Config
    BY DEF IInv, TypeOK
  <1>2. Found = None \/ Found \in First
    BY DEF Found
  <1>3. QED
    BY <1>1, <1>2 DEF First

LEMMA ActiveIsConfig ==
    ASSUME IInv
    PROVE  Active \in Config
  <1>1. CASE Found = None
    BY <1>1, ConstantsOK DEF Active
  <1>2. CASE Found # None
    <2>1. Found \in Nat \X Config
      BY <1>2, FoundInTable
    <2>2. QED
      BY <1>2, <2>1 DEF Active
  <1>3. QED
    BY <1>1, <1>2

\* An edited row is a configuration again, and keeps its key unless the form
\* brings another one.
LEMMA EditedKeeps ==
    ASSUME NEW old \in Config, NEW row \in Config, NEW f \in Config
    PROVE  /\ Edited(old, row, f) \in Config
           /\ row.key # Blank => Edited(old, row, f).key # Blank
  BY DEF Edited, Config

LEMMA InitInv == Init => IInv
  <1> SUFFICES ASSUME Init PROVE IInv
    OBVIOUS
  <1>1. DOMAIN table \subseteq 1 .. lastId /\ \A id \in DOMAIN table : table[id] \in Config
    BY ConstantsOK DEF Init
  <1>2. QED
    BY <1>1, ConstantsOK DEF Init, IInv, TypeOK, Drawing

-----------------------------------------------------------------------------
\* The table after a save keeps the rows it had, with their keys.
RowsKept ==
    \A id \in DOMAIN table :
        table[id].key # Blank => id \in DOMAIN table' /\ table'[id].key # Blank

LEMMA UpdateSaves ==
    ASSUME IInv, NEW a \in Admins, Update(a)
    PROVE  /\ DOMAIN table' = DOMAIN table
           /\ \A id \in DOMAIN table : table'[id] \in Config
           /\ RowsKept
  <1> DEFINE e == Edited(seen[a][2], table[seen[a][1]], form[a])
  <1>1. DOMAIN table' = DOMAIN table
    BY DEF Update
  <1>2. form[a] \in Config /\ seen[a][2] \in Config
    BY DEF IInv, TypeOK, Update
  <1>3. ASSUME NEW id \in DOMAIN table
        PROVE  /\ table'[id] \in Config
               /\ table[id].key # Blank => table'[id].key # Blank
    <2>1. table[id] \in Config
      BY DEF IInv, TypeOK
    <2>2. CASE id = seen[a][1]
      <3>1. table'[id] = e
        BY <2>2 DEF Update
      <3>2. QED
        BY <1>2, <2>1, <2>2, <3>1, EditedKeeps
    <2>3. CASE id # seen[a][1]
      <3>1. table'[id] = table[id]
        BY <2>3 DEF Update
      <3>2. QED
        BY <2>1, <3>1
    <2>4. QED
      BY <2>2, <2>3
  <1>4. QED
    BY <1>1, <1>3 DEF RowsKept

LEMMA InsertSaves ==
    ASSUME IInv, NEW a \in Admins, CommitInsert(a)
    PROVE  /\ DOMAIN table' = DOMAIN table \cup {seen[a][1]}
           /\ \A id \in DOMAIN table' : table'[id] \in Config
           /\ RowsKept
  <1>1. /\ seen[a][1] \in 1 .. lastId /\ seen[a][2] \in Config
        /\ seen[a][1] \notin DOMAIN table
    BY DEF IInv, Drawing, CommitInsert
  <1>2. table' = [id \in DOMAIN table \cup {seen[a][1]} |->
                    IF id = seen[a][1] THEN seen[a][2] ELSE table[id]]
    BY DEF CommitInsert
  <1>3. DOMAIN table' = DOMAIN table \cup {seen[a][1]}
    BY <1>2
  <1>4. \A id \in DOMAIN table : table'[id] = table[id] /\ table[id] \in Config
    BY <1>1, <1>2 DEF IInv, TypeOK
  <1>5. table'[seen[a][1]] = seen[a][2]
    BY <1>2
  <1>6. QED
    BY <1>1, <1>3, <1>4, <1>5 DEF RowsKept

-----------------------------------------------------------------------------
LEMMA StepInv == IInv /\ [Next]_vars => IInv'
  <1> SUFFICES ASSUME IInv, [Next]_vars PROVE IInv'
    OBVIOUS
  <1> USE DEF IInv, TypeOK, Drawing
  <1>1. ASSUME NEW a \in Admins, NEW f \in Config, ReadRow(a, f) PROVE IInv'
    <2>1. Found \in (Nat \X Config) \cup {None}
      BY FoundInTable
    <2>2. seen' \in [Admins -> (Nat \X Config) \cup {None}]
      BY <1>1, <2>1 DEF ReadRow
    <2>3. met' \subseteq Admins \X Admins
      BY <1>1 DEF ReadRow
    <2>4. QED
      BY <1>1, <2>2, <2>3, ConstantsOK DEF ReadRow
  <1>2. ASSUME NEW a \in Admins, Update(a) PROVE IInv'
    <2>1. DOMAIN table' = DOMAIN table /\ \A id \in DOMAIN table : table'[id] \in Config
      BY <1>2, UpdateSaves
    <2>2. QED
      BY <1>2, <2>1, ConstantsOK DEF Update
  <1>3. ASSUME NEW a \in Admins, Insert(a) PROVE IInv'
    <2>1. lastId' \in Nat /\ lastId < lastId' /\ 1 .. lastId \subseteq 1 .. lastId'
      BY <1>3 DEF Insert
    <2>2. /\ seen' = [seen EXCEPT ![a] = <<lastId', form[a]>>]
          /\ form[a] \in Config
      BY <1>3 DEF Insert
    <2>3. lastId' \notin 1 .. lastId /\ lastId' \in 1 .. lastId'
      BY <2>1
    <2>4. seen' \in [Admins -> (Nat \X Config) \cup {None}]
      BY <2>1, <2>2
    <2>5. ASSUME NEW c \in Admins, Drawing(c)'
          PROVE  /\ seen'[c] \in (1 .. lastId') \X Config
                 /\ seen'[c][2] = form'[c]
                 /\ seen'[c][1] \notin DOMAIN table'
                 /\ \A b \in Admins \ {c} : Drawing(b)' => seen'[b][1] # seen'[c][1]
      <3>1. ASSUME NEW b \in Admins \ {a}, Drawing(b)'
            PROVE  /\ Drawing(b)
                   /\ seen'[b] = seen[b]
                   /\ seen[b] \in (1 .. lastId) \X Config
                   /\ seen[b][2] = form'[b]
                   /\ seen[b][1] \notin DOMAIN table
        BY <1>3, <3>1 DEF Insert
      <3>2. seen'[a] = <<lastId', form'[a]>>
        BY <1>3, <2>2 DEF Insert
      <3>3. DOMAIN table' = DOMAIN table /\ DOMAIN table \subseteq 1 .. lastId
        BY <1>3 DEF Insert
      <3>4. CASE c = a
        BY <2>2, <2>3, <3>1, <3>2, <3>3, <3>4
      <3>5. CASE c # a
        BY <2>1, <2>3, <2>5, <3>1, <3>2, <3>3, <3>5
      <3>6. QED
        BY <3>4, <3>5
    <2>6. QED
      BY <1>3, <2>1, <2>4, <2>5, ConstantsOK DEF Insert
  <1>4. ASSUME NEW a \in Admins, CommitInsert(a) PROVE IInv'
    <2>1. /\ DOMAIN table' = DOMAIN table \cup {seen[a][1]}
          /\ \A id \in DOMAIN table' : table'[id] \in Config
      BY <1>4, InsertSaves
    <2>2. seen[a][1] \in 1 .. lastId
      BY <1>4 DEF CommitInsert
    <2>3. QED
      BY <1>4, <2>1, <2>2, ConstantsOK DEF CommitInsert
  <1>5. ASSUME NEW a \in Admins, SaveFails(a) PROVE IInv'
    BY <1>5, ConstantsOK DEF SaveFails
  <1>6. ASSUME NEW a \in Admins, Invalidate(a) PROVE IInv'
    BY <1>6, ConstantsOK DEF Invalidate
  <1>7. ASSUME NEW t \in Tasks, Ask(t) PROVE IInv'
    BY <1>7, ConstantsOK DEF Ask
  <1>8. ASSUME NEW t \in Tasks, Load(t) PROVE IInv'
    <2>1. Active \in Config
      BY ActiveIsConfig
    <2>2. QED
      BY <1>8, <2>1, ConstantsOK DEF Load
  <1>9. ASSUME NEW t \in Tasks, Install(t) PROVE IInv'
    BY <1>9, ConstantsOK DEF Install
  <1>10. CASE Restart
    BY <1>10, ConstantsOK DEF Restart, Saving
  <1>11. CASE UNCHANGED vars
    BY <1>11 DEF vars
  <1>12. QED
    BY <1>1, <1>2, <1>3, <1>4, <1>5, <1>6, <1>7, <1>8, <1>9, <1>10, <1>11 DEF Next

LEMMA InvHolds == Spec => []IInv
  BY InitInv, StepInv, PTL DEF Spec

-----------------------------------------------------------------------------
(***************************************************************************)
(* Theorems                                                                *)
(***************************************************************************)

\* The rows of llm_config, the service, and what each request holds while it
\* waits are well formed, ids drawn from the sequence included.
THEOREM TypeCorrect == Spec => []TypeOK
  <1>1. IInv => TypeOK
    BY DEF IInv
  <1>2. QED
    BY <1>1, InvHolds, PTL

\* Whatever saves run together, a stored key is never blanked: an UPDATE leaves
\* the column alone or brings a key, and an INSERT takes an id of its own.
THEOREM KeyNeverBlanked == Spec => KeyKept
  <1>1. ASSUME IInv, [Next]_vars PROVE RowsKept
    <2>1. ASSUME table' = table PROVE RowsKept
      BY <2>1 DEF RowsKept
    <2>2. ASSUME NEW a \in Admins, Update(a) PROVE RowsKept
      BY <1>1, <2>2, UpdateSaves
    <2>3. ASSUME NEW a \in Admins, CommitInsert(a) PROVE RowsKept
      BY <1>1, <2>3, InsertSaves
    <2>4. QED
      BY <1>1, <2>1, <2>2, <2>3
      DEF Next, vars, ReadRow, Insert, SaveFails, Invalidate, Ask, Load, Install, Restart
  <1>2. QED
    BY <1>1, InvHolds, PTL DEF Spec, KeyKept, RowsKept

\* A service built from another configuration than the active one was installed
\* late, or the PUT that replaced its configuration has not been answered.
THEOREM StaleServiceExplained == Spec => []StaleOnlyByRace
  <1>1. Init => StaleOnlyByRace
    BY DEF Init, StaleOnlyByRace
  <1>2. StaleOnlyByRace /\ IInv /\ [Next]_vars => StaleOnlyByRace'
    <2> SUFFICES ASSUME StaleOnlyByRace, IInv, [Next]_vars PROVE StaleOnlyByRace'
      OBVIOUS
    <2>1. ASSUME UNCHANGED <<table, service, late>>,
                 \A b \in Admins : pc[b] = "saved" => pc'[b] = "saved"
          PROVE  StaleOnlyByRace'
      BY <2>1 DEF StaleOnlyByRace, Active, Found, First
    <2>2. ASSUME service' = None PROVE StaleOnlyByRace'
      BY <2>2 DEF StaleOnlyByRace
    <2>3. ASSUME NEW a \in Admins, pc'[a] = "saved" PROVE StaleOnlyByRace'
      BY <2>3 DEF StaleOnlyByRace
    <2>4. ASSUME NEW a \in Admins, Insert(a) \/ SaveFails(a) PROVE StaleOnlyByRace'
      BY <2>1, <2>4 DEF Insert, SaveFails, IInv, TypeOK
    <2>5. ASSUME NEW a \in Admins, Update(a) \/ CommitInsert(a) PROVE StaleOnlyByRace'
      BY <2>3, <2>5 DEF Update, CommitInsert, IInv, TypeOK
    <2>6. ASSUME NEW t \in Tasks, Ask(t) \/ Load(t) PROVE StaleOnlyByRace'
      BY <2>1, <2>6, ConstantsOK DEF Ask, Load, IInv, TypeOK
    <2>7. ASSUME NEW t \in Tasks, Install(t) PROVE StaleOnlyByRace'
      BY <2>7 DEF Install, StaleOnlyByRace, Active, Found, First
    <2>8. ASSUME NEW a \in Admins, Invalidate(a) PROVE StaleOnlyByRace'
      BY <2>2, <2>8 DEF Invalidate
    <2>9. CASE Restart
      BY <2>2, <2>9 DEF Restart
    <2>10. CASE UNCHANGED vars
      BY <2>1, <2>10 DEF vars
    <2>11. ASSUME NEW a \in Admins, NEW f \in Config, ReadRow(a, f) PROVE StaleOnlyByRace'
      BY <2>1, <2>11 DEF ReadRow, IInv, TypeOK
    <2>12. QED
      BY <2>4, <2>5, <2>6, <2>7, <2>8, <2>9, <2>10, <2>11 DEF Next
  <1>3. QED
    BY <1>1, <1>2, InvHolds, PTL DEF Spec

-----------------------------------------------------------------------------
\* While no two administrators have met: one of them saves at a time, it has read
\* the table as it is, and the table has at most one row, a whole one.
SoloInv ==
    /\ \A a, b \in Admins : Saving(a) /\ Saving(b) => a = b
    /\ \A i, j \in DOMAIN table : i = j
    /\ \A i \in DOMAIN table : Whole(table[i])
    /\ \A a \in Admins :
          /\ pc[a] = "edit" /\ seen[a] = None => DOMAIN table = {}
          /\ pc[a] = "edit" /\ seen[a] # None =>
                seen[a][1] \in DOMAIN table /\ seen[a][2] = table[seen[a][1]]
          /\ pc[a] = "insert" => DOMAIN table = {}

LEMMA OnlyOne ==
    ASSUME NEW S, NEW x \in S, \A y \in S : y = x
    PROVE  S = {x}
  OBVIOUS

\* The first of at most one row is that row.
LEMMA FoundIsTheRow ==
    ASSUME IInv, \A i, j \in DOMAIN table : i = j
    PROVE  /\ Found = None => DOMAIN table = {} /\ Active = Env
           /\ Found # None => /\ Found[1] \in DOMAIN table
                              /\ Found[2] = table[Found[1]] /\ Active = Found[2]
  <1>1. ASSUME NEW i \in DOMAIN table PROVE Found # None
    <2>1. i \in Nat /\ \A j \in DOMAIN table : i <= j
      BY DEF IInv, TypeOK
    <2>2. <<i, table[i]>> \in First
      BY <2>1 DEF First
    <2>3. Found \in First
      BY <2>2 DEF Found
    <2>4. QED
      BY <2>3, ConstantsOK DEF First, IInv, TypeOK
  <1>2. CASE Found = None
    BY <1>1, <1>2 DEF Active
  <1>3. CASE Found # None
    <2>1. PICK id \in DOMAIN table : Found = <<id, table[id]>>
      BY <1>3, FoundInTable
    <2>2. QED
      BY <1>3, <2>1 DEF Active
  <1>4. QED
    BY <1>2, <1>3

LEMMA SoloInit == Init => SoloInv
  <1> SUFFICES ASSUME Init PROVE SoloInv
    OBVIOUS
  <1>1. \A i \in DOMAIN table : table[i] = Env /\ i = 1
    BY DEF Init
  <1>2. Whole(Env)
    BY DEF Whole
  <1>3. \A a \in Admins : pc[a] = "idle"
    BY DEF Init
  <1>4. QED
    BY <1>1, <1>2, <1>3 DEF SoloInv, Saving

LEMMA SoloStep == IInv /\ (met = {} => SoloInv) /\ [Next]_vars => (met' = {} => SoloInv')
  <1> SUFFICES ASSUME IInv, met = {} => SoloInv, [Next]_vars, met' = {} PROVE SoloInv'
    OBVIOUS
  <1> USE DEF SoloInv, Saving
  <1>1. ASSUME NEW a \in Admins, NEW f \in Config, ReadRow(a, f) PROVE SoloInv'
    <2>1. ASSUME NEW b \in Admins, Saving(b) PROVE FALSE
      <3>1. <<a, b>> \in {<<a, b>>, <<b, a>>}
        OBVIOUS
      <3>2. <<a, b>> \in UNION {{<<a, d>>, <<d, a>>} : d \in {d \in Admins : Saving(d)}}
        BY <2>1, <3>1
      <3>3. QED
        BY <1>1, <3>2 DEF ReadRow
    <2>2. met = {} /\ SoloInv /\ table' = table
      BY <1>1 DEF ReadRow
    <2>3. \A b \in Admins : Saving(b)' => b = a
      BY <1>1, <2>1 DEF ReadRow, IInv, TypeOK
    <2>4. \A b \in Admins : form[b] # None => form'[b] = form[b]
      BY <1>1 DEF ReadRow, IInv, TypeOK
    <2>5. \A i \in DOMAIN table' : Whole(table[i])'
      BY <2>2, <2>4 DEF Whole
    <2>6. pc'[a] = "edit" /\ seen'[a] = Found
      BY <1>1 DEF ReadRow, IInv, TypeOK
    <2>7. /\ seen'[a] = None => DOMAIN table = {}
          /\ seen'[a] # None =>
                seen'[a][1] \in DOMAIN table /\ seen'[a][2] = table[seen'[a][1]]
      BY <2>2, <2>6, FoundIsTheRow
    <2>8. QED
      BY <2>2, <2>3, <2>5, <2>6, <2>7
  <1>2. ASSUME NEW a \in Admins, Update(a) PROVE SoloInv'
    <2> DEFINE i == seen[a][1]
    <2>1. SoloInv /\ i \in DOMAIN table /\ seen[a][2] = table[i]
      BY <1>2 DEF Update
    <2>2. DOMAIN table' = DOMAIN table /\ DOMAIN table = {i}
      <3>1. i \in DOMAIN table /\ \A j \in DOMAIN table : j = i
        BY <2>1
      <3>2. DOMAIN table = {i}
        BY <3>1, OnlyOne
      <3>3. QED
        BY <1>2, <3>2, UpdateSaves
    <2>3. table'[i] = Edited(table[i], table[i], form[a])
      BY <1>2, <2>1 DEF Update
    <2>4. form[a] # None /\ form' = form
      BY <1>2 DEF Update, IInv, TypeOK
    <2>5. Whole(table[i])'
      <3>1. /\ table'[i].provider = form[a].provider
            /\ table'[i].models = form[a].models
        BY <2>3 DEF Edited
      <3>2. i' = i
        BY <1>2 DEF Update
      <3>3. QED
        BY <2>4, <3>1, <3>2 DEF Whole
    <2>6. /\ \A b \in Admins : Saving(b)' => Saving(b) /\ pc'[b] \notin {"edit", "insert"}
      BY <1>2, <2>1 DEF Update, IInv, TypeOK
    <2>7. \A j \in DOMAIN table' : Whole(table[j])'
      <3>1. i' = i
        BY <1>2 DEF Update
      <3>2. QED
        BY <2>2, <2>5, <3>1 DEF Whole
    <2>8. QED
      BY <2>1, <2>2, <2>6, <2>7
  <1>3. ASSUME NEW a \in Admins, Insert(a) PROVE SoloInv'
    <2>1. SoloInv /\ DOMAIN table = {} /\ table' = table
      BY <1>3 DEF Insert
    <2>2. \A b \in Admins : Saving(b)' => Saving(b) /\ pc'[b] # "edit"
      BY <1>3, <2>1 DEF Insert, IInv, TypeOK
    <2>3. QED
      BY <2>1, <2>2
  <1>4. ASSUME NEW a \in Admins, CommitInsert(a) PROVE SoloInv'
    <2>1. SoloInv /\ DOMAIN table = {}
      BY <1>4 DEF CommitInsert
    <2>2. table' = [id \in {seen[a][1]} |-> seen[a][2]]
      BY <1>4, <2>1 DEF CommitInsert
    <2>3. \A b \in Admins : Saving(b)' => Saving(b) /\ pc'[b] \notin {"edit", "insert"}
      BY <1>4, <2>1 DEF CommitInsert, IInv, TypeOK
    <2>4. seen[a][2] = form[a] /\ form[a] # None /\ form' = form
      BY <1>4 DEF CommitInsert, IInv, TypeOK, Drawing
    <2>5. \A i \in DOMAIN table' : Whole(table[i])'
      BY <2>2, <2>4 DEF Whole
    <2>6. QED
      BY <2>1, <2>2, <2>3, <2>5
  <1>5. ASSUME UNCHANGED <<table, seen, form, met>>,
               \A b \in Admins : \/ pc'[b] \in {pc[b], "done", "idle"}
        PROVE  SoloInv'
    BY <1>5 DEF Whole
  <1>6. ASSUME NEW a \in Admins, SaveFails(a) \/ Invalidate(a) PROVE SoloInv'
    BY <1>5, <1>6 DEF SaveFails, Invalidate, IInv, TypeOK
  <1>7. ASSUME NEW t \in Tasks, Ask(t) \/ Load(t) \/ Install(t) PROVE SoloInv'
    BY <1>5, <1>7, ConstantsOK DEF Ask, Load, Install, IInv, TypeOK
  <1>8. CASE Restart
    BY <1>5, <1>8, ConstantsOK DEF Restart
  <1>9. CASE UNCHANGED vars
    BY <1>5, <1>9 DEF vars
  <1>10. QED
    BY <1>1, <1>2, <1>3, <1>4, <1>6, <1>7, <1>8, <1>9 DEF Next

\* Saves that follow one another leave one row, its provider and models chosen
\* together: two rows or a mixture are the work of administrators that have met.
THEOREM SavedWhole == Spec => []SavedWholeUnlessMet
  <1> DEFINE Solo == met = {} => SoloInv
  <1>1. Init => Solo
    BY SoloInit
  <1>2. IInv /\ Solo /\ [Next]_vars => Solo'
    BY SoloStep
  <1>3. IInv /\ Solo => SavedWholeUnlessMet
    <2> SUFFICES ASSUME IInv, SoloInv PROVE ~(Cardinality(DOMAIN table) > 1) /\ Whole(Active)
      BY DEF SavedWholeUnlessMet
    <2>1. Whole(Env)
      BY DEF Whole
    <2>2. Whole(Active)
      BY <2>1, FoundIsTheRow DEF SoloInv
    <2>3. CASE DOMAIN table = {}
      BY <2>2, <2>3, FS_EmptySet
    <2>4. CASE DOMAIN table # {}
      <3>1. PICK i \in DOMAIN table : \A j \in DOMAIN table : j = i
        BY <2>4 DEF SoloInv
      <3>2. DOMAIN table = {i}
        BY <3>1, OnlyOne
      <3>3. Cardinality(DOMAIN table) = 1
        BY <3>2, FS_Singleton
      <3>4. QED
        BY <2>2, <3>3
    <2>5. QED
      BY <2>3, <2>4
  <1>4. QED
    BY <1>1, <1>2, <1>3, InvHolds, PTL DEF Spec
-----------------------------------------------------------------------------
(***************************************************************************)
(* The jobs: GuruDaily.                                                    *)
(***************************************************************************)

\* The users job j has on its list.
Listed(j) == {t[1] : t \in todo[j]}

\* What catch_up's list says of the digests it has made: a user is looked up
\* before it is listed, is listed once, and leaves the list to be served; a
\* digest it made is a report, and the user is never listed for one after it.
CaughtUpInv ==
    /\ \A u \in Users : caughtUp[u] \in {0, 1}
    /\ \A u \in Users : caughtUp[u] = 1 => u \in reports["digest"] /\ MaxBoots # 0
    /\ unchecked \cap Listed("boot") = {}
    /\ \A s, t \in todo["boot"] : s[1] = t[1] => s = t
    /\ \A t \in todo["boot"] : t[2] = "digest" => caughtUp[t[1]] = 0
    /\ work["boot"] # Idle =>
          /\ unchecked = {}
          /\ work["boot"][1] \notin Listed("boot")
          /\ work["boot"][2] = "digest" => caughtUp[work["boot"][1]] = 0
    /\ running["boot"] => boots # 0
    /\ unchecked # {} => running["boot"]

\* u has both reports of the day, or j still has to look him up or to serve him.
InSight(j, u) ==
    \/ \A k \in DailyKinds : u \in reports[k]
    \/ j = "boot" /\ u \in unchecked
    \/ u \in Listed(j)
    \/ work[j] # Idle /\ work[j][1] = u

\* What is owed to u: j keeps him in sight while it runs, and turns to his take
\* only when his digest is there.
ServedInv ==
    /\ \A j \in Jobs : \A u \in owed[j] : running[j] => InSight(j, u)
    /\ \A j \in Jobs : \A t \in todo[j] :
          t[2] = "take" /\ t[1] \in owed[j] => t[1] \in reports["digest"]
    /\ \A j \in Jobs :
          work[j] # Idle /\ work[j][2] = "take" /\ work[j][1] \in owed[j]
          => work[j][1] \in reports["digest"]

DailyInv == DailyTypeOK /\ CaughtUpInv /\ ServedInv /\ UnservedHasReason

LEMMA DailyInitInv == DailyInit => DailyInv
  <1> SUFFICES ASSUME DailyInit PROVE DailyInv
    OBVIOUS
  <1>1. DailyTypeOK
    <2>1. /\ boots \in 0 .. MaxBoots /\ caughtUp \in [Users -> 0 .. MaxBoots]
      BY DailyConstantsOK DEF DailyInit
    <2>2. /\ reports \in [DailyKinds -> SUBSET Users]
          /\ held \in [DailyKinds -> Actors \cup {Idle}]
          /\ todo \in [Jobs -> SUBSET (Users \X DailyKinds)]
          /\ running \in [Jobs -> BOOLEAN]
          /\ owed \in [Jobs -> SUBSET Users]
          /\ stopped \in [Jobs -> BOOLEAN]
      BY DEF DailyInit
    <2>3. /\ work \in [Actors -> {Idle}]
          /\ \A j \in Jobs : todo[j] = {} /\ work[j] = Idle
      BY DEF DailyInit, Actors
    <2>4. QED
      BY <2>1, <2>2, <2>3 DEF DailyInit, DailyTypeOK
  <1>2. UnservedHasReason /\ ServedInv
    BY DEF DailyInit, UnservedHasReason, Unserved, ServedInv, Jobs, Actors
  <1>3. CaughtUpInv
    BY DEF DailyInit, CaughtUpInv, Listed, Jobs, Actors
  <1>4. QED
    BY <1>1, <1>2, <1>3 DEF DailyInv

-----------------------------------------------------------------------------
LEMMA BootKeeps ==
    ASSUME DailyInv, NEW S \in SUBSET Users, Boot(S)
    PROVE  DailyInv'
  <1>1. DailyTypeOK'
    <2>1. boots' \in 0 .. MaxBoots
      BY DailyConstantsOK DEF Boot, DailyInv, DailyTypeOK
    <2>2. /\ keyed' \in BOOLEAN /\ unchecked' \subseteq Users
          /\ held' \in [DailyKinds -> Actors \cup {Idle}]
          /\ todo' \in [Jobs -> SUBSET (Users \X DailyKinds)]
          /\ running' \in [Jobs -> BOOLEAN]
          /\ owed' \in [Jobs -> SUBSET Users]
          /\ stopped' \in [Jobs -> BOOLEAN]
      BY DEF Boot
    <2>3. /\ work' \in [Actors -> {Idle}]
          /\ \A j \in Jobs : todo'[j] = {} /\ work'[j] = Idle
      BY DEF Boot, Actors
    <2>4. work' \in [Actors -> Works \cup {Idle}]
      BY <2>3
    <2>5. UNCHANGED <<reports, fired, caughtUp>>
      BY DEF Boot
    <2>6. QED
      BY <2>1, <2>2, <2>3, <2>4, <2>5 DEF DailyInv, DailyTypeOK
  <1>2. UnservedHasReason' /\ ServedInv'
    BY DEF Boot, DailyInv, DailyTypeOK, UnservedHasReason, Unserved, ServedInv, InSight, Jobs, Actors
  <1>3. CaughtUpInv'
    <2>1. boots' # 0
      BY DailyConstantsOK DEF Boot, DailyInv, DailyTypeOK
    <2>2. /\ todo'["boot"] = {} /\ Listed("boot")' = {}
          /\ work'["boot"] = Idle /\ running'["boot"]
      BY DEF Boot, Jobs, Actors, Listed
    <2>3. UNCHANGED <<caughtUp, reports>>
      BY DEF Boot
    <2>4. QED
      BY <2>1, <2>2, <2>3 DEF DailyInv, CaughtUpInv
  <1>4. QED
    BY <1>1, <1>2, <1>3 DEF DailyInv

LEMMA CronKeeps ==
    ASSUME DailyInv, NEW S \in SUBSET Users, CronFires(S)
    PROVE  DailyInv'
  <1>1. DailyTypeOK'
    BY DEF CronFires, DailyInv, DailyTypeOK, DailyKinds, Jobs
  <1>2. \A j \in Jobs \ {"cron"} : UNCHANGED <<owed[j], running[j], stopped[j], todo[j], work[j]>>
    BY DEF CronFires, DailyInv, DailyTypeOK, Jobs
  <1>3. /\ running'["cron"] /\ ~stopped'["cron"] /\ owed'["cron"] = S
        /\ todo'["cron"] = {<<u, "digest">> : u \in S} /\ work'["cron"] = Idle
    BY DEF CronFires, DailyInv, DailyTypeOK, Jobs
  <1>4. UNCHANGED <<reports, unchecked>>
    BY DEF CronFires
  <1>5. UnservedHasReason'
    BY <1>2, <1>3, <1>4 DEF DailyInv, UnservedHasReason, Unserved, ExistsToday
  <1>6. \A u \in S : u \in Listed("cron")'
    <2> SUFFICES ASSUME NEW u \in S PROVE u \in Listed("cron")'
      OBVIOUS
    <2>1. <<u, "digest">> \in todo'["cron"]
      BY <1>3
    <2>2. QED
      BY <2>1 DEF Listed
  <1>7. ServedInv'
    <2>1. \A j \in Jobs \ {"cron"} : \A u : InSight(j, u)' <=> InSight(j, u)
      BY <1>2, <1>4 DEF InSight, Listed
    <2>2. \A t \in todo'["cron"] : t[2] # "take"
      BY <1>3
    <2>3. \A u \in owed'["cron"] : InSight("cron", u)'
      BY <1>3, <1>6 DEF InSight
    <2>4. \A j \in Jobs \ {"cron"} :
             /\ \A u \in owed'[j] : running'[j] => InSight(j, u)'
             /\ \A t \in todo'[j] : t[2] = "take" /\ t[1] \in owed'[j] => t[1] \in reports'["digest"]
             /\ work'[j] # Idle /\ work'[j][2] = "take" /\ work'[j][1] \in owed'[j]
                => work'[j][1] \in reports'["digest"]
      BY <1>2, <1>4, <2>1 DEF DailyInv, ServedInv
    <2>5. QED
      BY <1>3, <2>2, <2>3, <2>4 DEF ServedInv
  <1>8. CaughtUpInv'
    BY DEF CronFires, DailyInv, DailyTypeOK, CaughtUpInv, Listed, Jobs
  <1>9. QED
    BY <1>1, <1>5, <1>7, <1>8 DEF DailyInv

LEMMA LookUpKeeps ==
    ASSUME DailyInv, LookUp
    PROVE  DailyInv'
  <1> DEFINE missing(v) == {k \in DailyKinds : ~ExistsToday(k, v)}
             from(v) == IF "digest" \in missing(v) THEN "digest" ELSE "take"
  <1>0. PICK u \in unchecked :
             /\ unchecked' = unchecked \ {u}
             /\ \/ todo' = todo /\ missing(u) = {}
                \/ todo' = [todo EXCEPT !["boot"] = @ \cup {<<u, from(u)>>}]
    BY DEF LookUp, Lowest
  <1> DEFINE start == from(u)
  <1>1. u \in unchecked /\ u \in Users /\ unchecked' = unchecked \ {u}
    BY <1>0 DEF DailyInv, DailyTypeOK
  <1>2. start \in DailyKinds /\ (start = "digest" <=> u \notin reports["digest"])
    BY DEF DailyKinds, ExistsToday
  <1>3. \/ todo' = todo /\ \A k \in DailyKinds : u \in reports[k]
        \/ todo' = [todo EXCEPT !["boot"] = @ \cup {<<u, start>>}]
    BY <1>0 DEF ExistsToday
  <1> HIDE DEF start
  <1>4. todo' \in [Jobs -> SUBSET (Users \X DailyKinds)]
    <2>1. <<u, start>> \in Users \X DailyKinds
      BY <1>1, <1>2
    <2>2. todo["boot"] \cup {<<u, start>>} \in SUBSET (Users \X DailyKinds)
      BY <2>1 DEF DailyInv, DailyTypeOK, Jobs
    <2>3. QED
      BY <1>3, <2>2 DEF DailyInv, DailyTypeOK
  <1>5. running["boot"]
    BY <1>1 DEF DailyInv, DailyTypeOK, CaughtUpInv
  <1>6. work["boot"] # Idle => FALSE
    BY <1>1 DEF DailyInv, CaughtUpInv
  <1>7. DailyTypeOK'
    <2>1. \A j \in Jobs : running[j] \/ (todo'[j] = {} /\ work[j] = Idle)
      BY <1>3, <1>5 DEF DailyInv, DailyTypeOK, Jobs
    <2>2. UNCHANGED <<keyed, reports, held, running, work, fired, boots, history>>
      BY DEF LookUp
    <2>3. QED
      BY <1>1, <1>4, <2>1, <2>2 DEF DailyInv, DailyTypeOK, history
  <1>8. todo'["boot"] = todo["boot"] \/ todo'["boot"] = todo["boot"] \cup {<<u, start>>}
    BY <1>3 DEF DailyInv, DailyTypeOK, Jobs
  <1>9. UnservedHasReason' /\ ServedInv'
    <2>1. UNCHANGED <<reports, running, work, owed, stopped>>
      BY DEF LookUp, history
    <2>2. UnservedHasReason'
      BY <2>1 DEF DailyInv, UnservedHasReason, Unserved, ExistsToday
    <2>3. \A t \in todo'["boot"] : t[2] = "take" /\ t[1] \in owed["boot"] => t[1] \in reports["digest"]
      BY <1>2, <1>8 DEF DailyInv, ServedInv, Jobs
    <2>4. \A j \in Jobs : j # "boot" => todo'[j] = todo[j]
      BY <1>3 DEF DailyInv, DailyTypeOK, Jobs
    <2>5. \A j \in Jobs : \A v : InSight(j, v) => InSight(j, v)'
      <3> SUFFICES ASSUME NEW j \in Jobs, NEW v, InSight(j, v) PROVE InSight(j, v)'
        OBVIOUS
      <3>1. todo[j] \subseteq todo'[j]
        BY <1>8, <2>4
      <3>2. v \in Listed(j) => v \in Listed(j)'
        BY <3>1 DEF Listed
      <3>3. CASE j = "boot" /\ v = u
        <4>1. CASE todo' = todo /\ \A k \in DailyKinds : u \in reports[k]
          BY <2>1, <3>3, <4>1 DEF InSight
        <4>2. CASE todo' = [todo EXCEPT !["boot"] = @ \cup {<<u, start>>}]
          <5>1. <<u, start>> \in todo'["boot"]
            BY <4>2 DEF DailyInv, DailyTypeOK, Jobs
          <5>2. u \in Listed("boot")'
            BY <5>1 DEF Listed
          <5>3. QED
            BY <3>3, <5>2 DEF InSight
        <4>3. QED
          BY <1>3, <4>1, <4>2
      <3>4. CASE ~(j = "boot" /\ v = u)
        BY <1>1, <2>1, <3>2, <3>4 DEF InSight
      <3>5. QED
        BY <3>3, <3>4
    <2>6. QED
      BY <2>1, <2>3, <2>2, <2>4, <2>5 DEF DailyInv, ServedInv
  <1>10. CaughtUpInv'
    <2>1. UNCHANGED <<reports, running, work, boots, caughtUp>>
      BY DEF LookUp, history
    <2>2. u \notin Listed("boot")
      BY <1>1 DEF DailyInv, CaughtUpInv
    <2>3. Listed("boot")' \subseteq Listed("boot") \cup {u}
      BY <1>8 DEF Listed
    <2>4. start = "digest" => caughtUp[u] = 0
      BY <1>1, <1>2 DEF DailyInv, CaughtUpInv
    <2>5. \A s, t \in todo'["boot"] : s[1] = t[1] => s = t
      BY <1>8, <2>2 DEF DailyInv, CaughtUpInv, Listed
    <2>6. QED
      BY <1>1, <1>6, <1>8, <2>1, <2>3, <2>4, <2>5 DEF DailyInv, CaughtUpInv
  <1>11. QED
    BY <1>7, <1>9, <1>10 DEF DailyInv

LEMMA LookUpFailsKeeps ==
    ASSUME DailyInv, LookUpFails
    PROVE  DailyInv'
  <1>1. "boot" \in Jobs /\ running["boot"] /\ work["boot"] = Idle
    BY DEF LookUpFails, DailyInv, CaughtUpInv, Jobs
  <1>2. /\ unchecked' = {} /\ running' = [running EXCEPT !["boot"] = FALSE]
        /\ todo' = [todo EXCEPT !["boot"] = {}] /\ stopped' = [stopped EXCEPT !["boot"] = TRUE]
        /\ UNCHANGED <<keyed, reports, held, work, fired, boots, owed, caughtUp>>
    BY DEF LookUpFails, BreaksOff
  <1>3. DailyTypeOK'
    BY <1>1, <1>2 DEF DailyInv, DailyTypeOK
  <1>4. CaughtUpInv'
    BY <1>1, <1>2 DEF DailyInv, DailyTypeOK, CaughtUpInv, Listed
  <1>5. \A j \in Jobs \ {"boot"} : UNCHANGED <<running[j], todo[j], stopped[j]>>
    BY <1>2 DEF DailyInv, DailyTypeOK
  <1>6. ~running'["boot"] /\ todo'["boot"] = {} /\ stopped'["boot"]
    BY <1>1, <1>2 DEF DailyInv, DailyTypeOK
  <1>7. UnservedHasReason'
    BY <1>2, <1>5, <1>6 DEF DailyInv, UnservedHasReason, Unserved, ExistsToday
  <1>8. ServedInv'
    BY <1>2, <1>5, <1>6 DEF DailyInv, ServedInv, InSight, Listed
  <1>9. QED
    BY <1>3, <1>4, <1>7, <1>8 DEF DailyInv

LEMMA RequestKeeps ==
    ASSUME DailyInv, NEW r \in Requests, NEW u \in Users, NEW k \in DailyKinds, Request(r, u, k)
    PROVE  DailyInv'
  <1>1. r \in Actors /\ r \notin Jobs
    BY DailyConstantsOK DEF Actors
  <1>2. \A a \in Actors : work'[a] = IF a = r THEN <<u, k, "ready", TRUE>> ELSE work[a]
    BY <1>1 DEF Request, DailyInv, DailyTypeOK
  <1>3. \A j \in Jobs : j \in Actors /\ work'[j] = work[j]
    BY <1>1, <1>2 DEF Actors
  <1>4. DailyTypeOK'
    <2>1. <<u, k, "ready", TRUE>> \in Works
      BY DEF Works
    <2>2. work' \in [Actors -> Works \cup {Idle}]
      BY <2>1 DEF Request, DailyInv, DailyTypeOK
    <2>3. \A j \in Jobs : running[j] \/ (todo[j] = {} /\ work'[j] = Idle)
      BY <1>3 DEF DailyInv, DailyTypeOK
    <2>4. QED
      BY <2>2, <2>3 DEF Request, DailyInv, DailyTypeOK, history
  <1>5. CaughtUpInv'
    BY <1>3 DEF Request, DailyInv, CaughtUpInv, Listed, Jobs, history
  <1>6. UnservedHasReason'
    BY DEF Request, DailyInv, UnservedHasReason, Unserved, ExistsToday, history
  <1>7. ServedInv'
    <2>1. UNCHANGED <<reports, unchecked, todo, running, owed>>
      BY DEF Request, history
    <2>2. \A j \in Jobs : \A v \in owed[j] : InSight(j, v) => InSight(j, v)'
      BY <1>3, <2>1 DEF InSight, Listed
    <2>3. QED
      BY <1>3, <2>1, <2>2 DEF DailyInv, ServedInv
  <1>8. QED
    BY <1>4, <1>5, <1>6, <1>7 DEF DailyInv

-----------------------------------------------------------------------------
LEMMA NextUserKeeps ==
    ASSUME DailyInv, NEW j \in Jobs, NextUser(j)
    PROVE  DailyInv'
  <1>1. j \in Actors /\ todo[j] \in SUBSET (Users \X DailyKinds)
    BY DEF Actors, DailyInv, DailyTypeOK
  <1>2. PICK t \in todo[j] :
             /\ todo' = [todo EXCEPT ![j] = @ \ {t}]
             /\ work' = [work EXCEPT ![j] = <<t[1], t[2], "ready", t[2] = "take">>]
    BY DEF NextUser
  <1> DEFINE u == t[1]
  <1>3. t \in todo[j] /\ t[1] = u /\ t[2] \in DailyKinds /\ u \in Users
    BY <1>1
  <1>4. /\ todo' = [todo EXCEPT ![j] = @ \ {t}]
        /\ work' = [work EXCEPT ![j] = <<u, t[2], "ready", t[2] = "take">>]
        /\ UNCHANGED <<keyed, reports, held, unchecked, running, fired, boots, owed, stopped, caughtUp>>
    BY <1>2 DEF NextUser, history
  <1>5. running[j] /\ (j = "boot" => unchecked = {})
    BY DEF NextUser
  <1> HIDE DEF u
  <1>6. DailyTypeOK'
    <2>1. <<u, t[2], "ready", t[2] = "take">> \in Works
      BY <1>3 DEF Works
    <2>2. work' \in [Actors -> Works \cup {Idle}]
      BY <1>1, <1>4, <2>1 DEF DailyInv, DailyTypeOK
    <2>3. todo' \in [Jobs -> SUBSET (Users \X DailyKinds)]
      BY <1>4 DEF DailyInv, DailyTypeOK
    <2>4. \A i \in Jobs : running'[i] \/ (todo'[i] = {} /\ work'[i] = Idle)
      BY <1>4, <1>5 DEF DailyInv, DailyTypeOK
    <2>5. QED
      BY <1>4, <2>2, <2>3, <2>4 DEF DailyInv, DailyTypeOK
  <1>7. UnservedHasReason' /\ ServedInv'
    <2>1. \A i \in Jobs \ {j} : todo'[i] = todo[i] /\ work'[i] = work[i]
      BY <1>4 DEF DailyInv, DailyTypeOK, Actors
    <2>2. todo'[j] = todo[j] \ {t} /\ work'[j] = <<u, t[2], "ready", t[2] = "take">> /\ work'[j] # Idle
      <3>1. <<u, t[2], "ready", t[2] = "take">> \in Works
        BY <1>3 DEF Works
      <3>2. Idle \notin Works
        BY DailyConstantsOK
      <3>3. todo'[j] = todo[j] \ {t} /\ work'[j] = <<u, t[2], "ready", t[2] = "take">>
        BY <1>1, <1>4 DEF DailyInv, DailyTypeOK
      <3>4. QED
        BY <3>1, <3>2, <3>3
    <2>3. \A v \in Listed(j) : v \in Listed(j)' \/ v = u
      BY <1>3, <2>2 DEF Listed
    <2>4. \A i \in Jobs : \A v : InSight(i, v) => InSight(i, v)'
      <3>1. work[j] = Idle
        BY DEF NextUser
      <3>2. QED
        BY <1>4, <2>1, <2>2, <2>3, <3>1 DEF InSight, Listed
    <2>5. UnservedHasReason'
      BY <1>4 DEF DailyInv, UnservedHasReason, Unserved, ExistsToday
    <2>6. work'[j][2] = "take" /\ work'[j][1] \in owed[j] => work'[j][1] \in reports["digest"]
      BY <1>3, <2>2 DEF DailyInv, ServedInv
    <2>7. QED
      BY <1>4, <2>1, <2>2, <2>4, <2>5, <2>6 DEF DailyInv, ServedInv
  <1>8. CaughtUpInv'
    <2>1. CASE j = "boot"
      <3>1. todo'["boot"] = todo["boot"] \ {t} /\ work'["boot"] = <<u, t[2], "ready", t[2] = "take">>
        BY <1>1, <1>4, <2>1 DEF DailyInv, DailyTypeOK
      <3>2. u \notin Listed("boot")'
        BY <1>3, <2>1, <3>1 DEF DailyInv, CaughtUpInv, Listed
      <3>3. t[2] = "digest" => caughtUp[u] = 0
        BY <1>3, <2>1 DEF DailyInv, CaughtUpInv
      <3>4. Listed("boot")' \subseteq Listed("boot")
        BY <3>1 DEF Listed
      <3>5. QED
        BY <1>4, <1>5, <2>1, <3>1, <3>2, <3>3, <3>4 DEF DailyInv, CaughtUpInv
    <2>2. CASE j # "boot"
      <3>1. todo'["boot"] = todo["boot"] /\ work'["boot"] = work["boot"]
        BY <1>4, <2>2 DEF DailyInv, DailyTypeOK, Jobs, Actors
      <3>2. QED
        BY <1>4, <3>1 DEF DailyInv, CaughtUpInv, Listed
    <2>3. QED
      BY <2>1, <2>2
  <1>9. QED
    BY <1>6, <1>7, <1>8 DEF DailyInv

LEMMA EndJobKeeps ==
    ASSUME DailyInv, NEW j \in Jobs, EndJob(j)
    PROVE  DailyInv'
  <1>1. DailyTypeOK'
    BY DEF EndJob, DailyInv, DailyTypeOK, history
  <1>2. CaughtUpInv'
    BY DEF EndJob, DailyInv, DailyTypeOK, CaughtUpInv, Listed, Jobs, history
  <1>3. ServedInv'
    BY DEF EndJob, DailyInv, DailyTypeOK, ServedInv, InSight, Listed, history
  <1>4. Unserved(j) = {}
    <2>1. running[j] /\ work[j] = Idle /\ Listed(j) = {} /\ (j = "boot" => unchecked = {})
      BY DEF EndJob, Listed
    <2>2. \A u \in owed[j] : \A k \in DailyKinds : u \in reports[k]
      BY <2>1 DEF DailyInv, ServedInv, InSight
    <2>3. QED
      BY <2>2 DEF Unserved, ExistsToday
  <1>5. UnservedHasReason'
    BY <1>4 DEF EndJob, DailyInv, DailyTypeOK, UnservedHasReason, Unserved, ExistsToday, history
  <1>6. QED
    BY <1>1, <1>2, <1>3, <1>5 DEF DailyInv

LEMMA NextUserFailsKeeps ==
    ASSUME DailyInv, NEW j \in Jobs, NextUserFails(j)
    PROVE  DailyInv'
  <1>1. running[j] /\ work[j] = Idle /\ (j = "boot" => unchecked = {})
    BY DEF NextUserFails
  <1>2. /\ running' = [running EXCEPT ![j] = FALSE]
        /\ todo' = [todo EXCEPT ![j] = {}] /\ stopped' = [stopped EXCEPT ![j] = TRUE]
        /\ UNCHANGED <<keyed, reports, held, unchecked, work, fired, boots, owed, caughtUp>>
    BY DEF NextUserFails, BreaksOff
  <1>3. DailyTypeOK'
    BY <1>1, <1>2 DEF DailyInv, DailyTypeOK
  <1>4. CaughtUpInv'
    BY <1>1, <1>2 DEF DailyInv, DailyTypeOK, CaughtUpInv, Listed, Jobs
  <1>5. \A i \in Jobs \ {j} : UNCHANGED <<running[i], todo[i], stopped[i]>>
    BY <1>2 DEF DailyInv, DailyTypeOK
  <1>6. ~running'[j] /\ todo'[j] = {} /\ stopped'[j]
    BY <1>2 DEF DailyInv, DailyTypeOK
  <1>7. UnservedHasReason'
    BY <1>2, <1>5, <1>6 DEF DailyInv, UnservedHasReason, Unserved, ExistsToday
  <1>8. ServedInv'
    BY <1>2, <1>5, <1>6 DEF DailyInv, ServedInv, InSight, Listed
  <1>9. QED
    BY <1>3, <1>4, <1>7, <1>8 DEF DailyInv

-----------------------------------------------------------------------------
\* Who gives a user up owes him nothing any more.
LEMMA GivesUpKeeps ==
    ASSUME DailyInv, NEW a \in Actors, work[a] # Idle, GivesUp(a),
           \/ UNCHANGED <<running, todo, stopped>>
           \/ a \in Jobs /\ BreaksOff(a),
           held' \in [DailyKinds -> Actors \cup {Idle}],
           UNCHANGED <<keyed, reports, unchecked, fired, boots, caughtUp>>
    PROVE  DailyInv'
  <1> DEFINE u == work[a][1]
  <1>1. /\ work' = [work EXCEPT ![a] = Idle]
        /\ owed' = IF a \in Jobs THEN [owed EXCEPT ![a] = @ \ {u}] ELSE owed
    BY DEF GivesUp
  <1>2. /\ \A b \in Actors \ {a} : work'[b] = work[b]
        /\ work'[a] = Idle
        /\ \A j \in Jobs \ {a} : owed'[j] = owed[j]
        /\ a \in Jobs => owed'[a] = owed[a] \ {u}
        /\ Jobs \subseteq Actors
    BY <1>1 DEF DailyInv, DailyTypeOK, Actors
  <1>3. /\ \A j \in Jobs : /\ todo'[j] = todo[j] \/ (todo'[j] = {} /\ ~running'[j])
                           /\ running'[j] => running[j] /\ todo'[j] = todo[j]
                           /\ ~running'[j] /\ ~stopped'[j] => ~running[j] /\ ~stopped[j]
        /\ running' \in [Jobs -> BOOLEAN] /\ todo' \in [Jobs -> SUBSET (Users \X DailyKinds)]
        /\ stopped' \in [Jobs -> BOOLEAN]
    BY DEF DailyInv, DailyTypeOK, BreaksOff
  <1>4. (\A j \in Jobs : owed'[j] \subseteq owed[j]) /\ owed' \in [Jobs -> SUBSET Users]
    BY <1>1 DEF DailyInv, DailyTypeOK
  <1>5. DailyTypeOK'
    <2>1. work' \in [Actors -> Works \cup {Idle}]
      BY <1>1 DEF DailyInv, DailyTypeOK
    <2>2. \A j \in Jobs : running'[j] \/ (todo'[j] = {} /\ work'[j] = Idle)
      <3> SUFFICES ASSUME NEW j \in Jobs PROVE running'[j] \/ (todo'[j] = {} /\ work'[j] = Idle)
        OBVIOUS
      <3>1. CASE UNCHANGED <<running, todo, stopped>>
        BY <1>2, <3>1 DEF DailyInv, DailyTypeOK
      <3>2. CASE a \in Jobs /\ BreaksOff(a)
        BY <1>2, <3>2 DEF DailyInv, DailyTypeOK, BreaksOff
      <3>3. QED
        BY <3>1, <3>2
    <2>3. /\ keyed \in BOOLEAN /\ reports \in [DailyKinds -> SUBSET Users]
          /\ unchecked \subseteq Users /\ fired \in BOOLEAN /\ boots \in 0 .. MaxBoots
          /\ caughtUp \in [Users -> 0 .. MaxBoots]
      BY DEF DailyInv, DailyTypeOK
    <2>4. QED
      BY <1>3, <1>4, <2>1, <2>2, <2>3 DEF DailyTypeOK
  <1>6. CaughtUpInv'
    <2>1. unchecked # {} => running'["boot"]
      <3>1. CASE UNCHANGED <<running, todo, stopped>>
        BY <3>1 DEF DailyInv, CaughtUpInv
      <3>2. CASE a \in Jobs /\ BreaksOff(a)
        BY <3>2 DEF DailyInv, DailyTypeOK, CaughtUpInv, BreaksOff, Jobs
      <3>3. QED
        BY <3>1, <3>2
    <2>2. todo'["boot"] \subseteq todo["boot"] /\ (running'["boot"] => running["boot"]) /\ "boot" \in Jobs
      BY <1>3 DEF Jobs
    <2>3. Listed("boot")' \subseteq Listed("boot")
      BY <2>2 DEF Listed
    <2>4. work'["boot"] # Idle => work'["boot"] = work["boot"]
      BY <1>2, <2>2
    <2>5. QED
      BY <2>1, <2>2, <2>3, <2>4 DEF DailyInv, CaughtUpInv
  <1>7. UnservedHasReason'
    <2>1. \A j \in Jobs : Unserved(j)' \subseteq Unserved(j)
      BY <1>4 DEF Unserved, ExistsToday
    <2>2. QED
      BY <1>3, <2>1 DEF DailyInv, UnservedHasReason
  <1>8. ServedInv'
    <2>1. ASSUME NEW j \in Jobs, NEW v \in owed'[j], running'[j] PROVE InSight(j, v)'
      <3>1. v \in owed[j] /\ InSight(j, v) /\ todo'[j] = todo[j]
        BY <1>3, <1>4, <2>1 DEF DailyInv, ServedInv
      <3>2. j = a => v # u
        BY <1>2, <2>1
      <3>3. v \in Listed(j) => v \in Listed(j)'
        BY <3>1 DEF Listed
      <3>4. QED
        BY <1>2, <3>1, <3>2, <3>3 DEF InSight
    <2>2. ASSUME NEW j \in Jobs, NEW t \in todo'[j], t[2] = "take", t[1] \in owed'[j]
          PROVE  t[1] \in reports'["digest"]
      BY <1>3, <1>4, <2>2 DEF DailyInv, ServedInv
    <2>3. ASSUME NEW j \in Jobs, work'[j] # Idle, work'[j][2] = "take", work'[j][1] \in owed'[j]
          PROVE  work'[j][1] \in reports'["digest"]
      BY <1>2, <1>4, <2>3 DEF DailyInv, ServedInv
    <2>4. QED
      BY <2>1, <2>2, <2>3 DEF ServedInv
  <1>9. QED
    BY <1>5, <1>6, <1>7, <1>8 DEF DailyInv

LEMMA StoppedKeeps ==
    ASSUME DailyInv, NEW a \in Actors, Refused(a) \/ Fails(a) \/ FlushFails(a)
    PROVE  DailyInv'
  <1>1. work[a] # Idle /\ GivesUp(a)
    BY DEF Refused, Fails, FlushFails, Ready, Busy
  <1>2. held' \in [DailyKinds -> Actors \cup {Idle}]
    BY DEF Refused, Fails, FlushFails, Unlocks, DailyInv, DailyTypeOK
  <1>3. UNCHANGED <<keyed, reports, unchecked, fired, boots, caughtUp>>
    BY DEF Refused, Fails, FlushFails
  <1>4. UNCHANGED <<running, todo, stopped>> \/ (a \in Jobs /\ BreaksOff(a))
    BY DEF Refused, Fails, FlushFails
  <1>5. QED
    BY <1>1, <1>2, <1>3, <1>4, GivesUpKeeps

LEMMA EnterKeeps ==
    ASSUME DailyInv, NEW a \in Actors, Enter(a)
    PROVE  DailyInv'
  <1> DEFINE w == [work[a] EXCEPT ![3] = "busy"]
  <1>1. work[a] \in Works
    BY DEF Enter, Ready, DailyInv, DailyTypeOK
  <1>2. w = <<work[a][1], work[a][2], "busy", work[a][4]>> /\ w \in Works
    BY <1>1 DEF Works
  <1>3. work' = [work EXCEPT ![a] = w] /\ work[a] # Idle
    BY DEF Enter, Ready
  <1> HIDE DEF w
  <1>4. UNCHANGED <<keyed, reports, unchecked, todo, running, fired, boots, history>>
    BY DEF Enter
  <1>5. DailyTypeOK'
    <2>1. held' \in [DailyKinds -> Actors \cup {Idle}]
      BY DEF Enter, DailyInv, DailyTypeOK
    <2>2. work' \in [Actors -> Works \cup {Idle}]
      BY <1>2, <1>3 DEF DailyInv, DailyTypeOK
    <2>3. \A j \in Jobs : running[j] \/ (todo[j] = {} /\ work'[j] = Idle)
      BY <1>3 DEF DailyInv, DailyTypeOK, Actors
    <2>4. QED
      BY <1>4, <2>1, <2>2, <2>3 DEF DailyInv, DailyTypeOK, history
  <1>6. CaughtUpInv'
    <2>1. \/ /\ work["boot"] # Idle
             /\ work'["boot"][1] = work["boot"][1]
             /\ work'["boot"][2] = work["boot"][2]
          \/ work'["boot"] = work["boot"]
      BY <1>2, <1>3 DEF DailyInv, DailyTypeOK
    <2>2. QED
      BY <1>4, <2>1 DEF DailyInv, CaughtUpInv, Listed, history
  <1>7. UnservedHasReason' /\ ServedInv'
    <2>1. \A j \in Jobs : /\ work'[j] = Idle <=> work[j] = Idle
                          /\ work[j] # Idle => work'[j][1] = work[j][1] /\ work'[j][2] = work[j][2]
      BY <1>2, <1>3, DailyConstantsOK DEF DailyInv, DailyTypeOK, Actors
    <2>2. QED
      BY <1>4, <2>1 DEF DailyInv, UnservedHasReason, Unserved, ExistsToday, ServedInv, InSight, Listed, history
  <1>8. QED
    BY <1>5, <1>6, <1>7 DEF DailyInv

LEMMA GeneratedKeeps ==
    ASSUME DailyInv, NEW a \in Actors, Generated(a)
    PROVE  DailyInv'
  <1> DEFINE u == work[a][1]
             k == work[a][2]
             w == IF k = "digest" THEN <<u, "take", "ready", work[a][4]>> ELSE Idle
  <1>1. work[a] # Idle /\ u \in Users /\ k \in DailyKinds /\ work[a][4] \in BOOLEAN
    BY DEF Generated, Busy, DailyInv, DailyTypeOK, Works
  <1>2. /\ reports' = [reports EXCEPT ![k] = @ \cup {u}]
        /\ work' = [work EXCEPT ![a] = w]
        /\ caughtUp' = IF a = "boot" /\ k = "digest" THEN [caughtUp EXCEPT ![u] = @ + 1] ELSE caughtUp
        /\ held' = [held EXCEPT ![k] = Idle]
        /\ UNCHANGED <<keyed, unchecked, todo, running, fired, boots, owed, stopped>>
    BY DEF Generated
  <1>3. w \in Works \cup {Idle}
    BY <1>1 DEF DailyKinds, Works
  <1>4. a = "boot" /\ k = "digest" => caughtUp[u] = 0 /\ MaxBoots # 0 /\ u \notin Listed("boot") /\ unchecked = {}
    <2>1. a = "boot" => running["boot"]
      BY <1>1 DEF DailyInv, DailyTypeOK, Jobs
    <2>2. boots # 0 => MaxBoots # 0
      BY DailyConstantsOK DEF DailyInv, DailyTypeOK
    <2>3. QED
      BY <1>1, <2>1, <2>2 DEF DailyInv, CaughtUpInv
  <1>5. \A v \in Users : caughtUp'[v] = IF a = "boot" /\ k = "digest" /\ v = u THEN 1 ELSE caughtUp[v]
    BY <1>1, <1>2, <1>4 DEF DailyInv, DailyTypeOK
  <1>6. "digest" \in DailyKinds /\ (k = "digest" => u \in reports'["digest"]) /\ reports["digest"] \subseteq reports'["digest"]
    BY <1>1, <1>2 DEF DailyInv, DailyTypeOK, DailyKinds
  <1>7. DailyTypeOK'
    <2>1. caughtUp' \in [Users -> 0 .. MaxBoots]
      <3>1. 1 \in 0 .. MaxBoots \/ ~(a = "boot" /\ k = "digest")
        BY <1>4, DailyConstantsOK
      <3>2. caughtUp[u] = 0 => caughtUp[u] + 1 = 1
        OBVIOUS
      <3>3. QED
        BY <1>1, <1>2, <1>4, <3>1, <3>2 DEF DailyInv, DailyTypeOK
    <2>2. reports' \in [DailyKinds -> SUBSET Users]
      BY <1>1, <1>2 DEF DailyInv, DailyTypeOK
    <2>3. work' \in [Actors -> Works \cup {Idle}]
      BY <1>2, <1>3 DEF DailyInv, DailyTypeOK
    <2>4. held' \in [DailyKinds -> Actors \cup {Idle}]
      BY <1>2 DEF DailyInv, DailyTypeOK
    <2>5. \A j \in Jobs : running[j] \/ (todo[j] = {} /\ work'[j] = Idle)
      BY <1>1, <1>2 DEF DailyInv, DailyTypeOK, Actors
    <2>6. QED
      BY <1>2, <2>1, <2>2, <2>3, <2>4, <2>5 DEF DailyInv, DailyTypeOK
  <1>8. CaughtUpInv'
    <2>1. \A v \in Listed("boot") : caughtUp'[v] = caughtUp[v] \/ v \notin Users
      BY <1>4, <1>5
    <2>2. \A s \in todo["boot"] : s[1] \in Users /\ s[1] \in Listed("boot")
      BY DEF Listed, DailyInv, DailyTypeOK, Jobs
    <2>3. work'["boot"] # Idle =>
             /\ work["boot"] # Idle /\ work'["boot"][1] = work["boot"][1]
             /\ work'["boot"][2] = "digest" => work'["boot"] = work["boot"] /\ a # "boot"
      <3>1. CASE a = "boot"
        BY <1>1, <1>2, <3>1 DEF DailyInv, DailyTypeOK
      <3>2. CASE a # "boot"
        BY <1>2, <3>2 DEF DailyInv, DailyTypeOK, Actors, Jobs
      <3>3. QED
        BY <3>1, <3>2
    <2>4. work["boot"] # Idle => work["boot"][1] \in Users
      BY DEF DailyInv, DailyTypeOK, Actors, Jobs, Works
    <2>5. Listed("boot")' = Listed("boot")
      BY <1>2 DEF Listed
    <2>6. \A v \in Users : caughtUp'[v] \in {0, 1} /\ (caughtUp'[v] = 1 => v \in reports'["digest"] /\ MaxBoots # 0)
      BY <1>4, <1>5, <1>6 DEF DailyInv, CaughtUpInv
    <2>7. \A s \in todo'["boot"] : s[2] = "digest" => caughtUp'[s[1]] = 0
      BY <1>2, <2>1, <2>2 DEF DailyInv, CaughtUpInv
    <2>8. work'["boot"] # Idle =>
             /\ unchecked' = {}
             /\ work'["boot"][1] \notin Listed("boot")'
             /\ work'["boot"][2] = "digest" => caughtUp'[work'["boot"][1]] = 0
      BY <1>2, <1>5, <2>3, <2>4, <2>5 DEF DailyInv, CaughtUpInv
    <2>9. QED
      BY <1>2, <2>5, <2>6, <2>7, <2>8 DEF DailyInv, CaughtUpInv
  <1>9. UnservedHasReason' /\ ServedInv'
    <2>1. /\ \A l \in DailyKinds : reports[l] \subseteq reports'[l]
          /\ u \in reports'[k]
          /\ \A j \in Jobs \ {a} : work'[j] = work[j]
          /\ work'[a] = w /\ Jobs \subseteq Actors
      BY <1>1, <1>2 DEF DailyInv, DailyTypeOK, Actors
    <2>2. UnservedHasReason'
      <3>1. \A j \in Jobs : Unserved(j)' \subseteq Unserved(j)
        BY <1>2, <2>1 DEF Unserved, ExistsToday
      <3>2. QED
        BY <1>2, <3>1 DEF DailyInv, UnservedHasReason
    <2>3. ASSUME NEW j \in Jobs, NEW v \in owed[j], running[j] PROVE InSight(j, v)'
      <3>1. InSight(j, v)
        BY <2>3 DEF DailyInv, ServedInv
      <3>2. CASE j = a /\ v = u
        <4>1. CASE k = "digest"
          <5>1. <<u, "take", "ready", work[a][4]>> \in Works
            BY <1>1 DEF Works, DailyKinds
          <5>2. work'[j] # Idle /\ work'[j][1] = u
            BY <2>1, <3>2, <4>1, <5>1, DailyConstantsOK
          <5>3. QED
            BY <3>2, <5>2 DEF InSight
        <4>2. CASE k = "take"
          <5>1. u \in reports["digest"]
            BY <1>1, <2>3, <3>2, <4>2 DEF DailyInv, ServedInv
          <5>2. \A l \in DailyKinds : u \in reports'[l]
            BY <2>1, <4>2, <5>1 DEF DailyKinds
          <5>3. QED
            BY <3>2, <5>2 DEF InSight
        <4>3. QED
          BY <1>1, <4>1, <4>2 DEF DailyKinds
      <3>3. CASE ~(j = a /\ v = u)
        BY <1>2, <2>1, <3>1, <3>3 DEF InSight, Listed
      <3>4. QED
        BY <3>2, <3>3
    <2>4. ASSUME NEW j \in Jobs, NEW t \in todo[j], t[2] = "take", t[1] \in owed[j]
          PROVE  t[1] \in reports'["digest"]
      BY <1>6, <2>4 DEF DailyInv, ServedInv
    <2>5. ASSUME NEW j \in Jobs, work'[j] # Idle, work'[j][2] = "take", work'[j][1] \in owed[j]
          PROVE  work'[j][1] \in reports'["digest"]
      <3>1. CASE j = a
        BY <1>6, <2>1, <2>5, <3>1
      <3>2. CASE j # a
        BY <1>6, <2>1, <2>5, <3>2 DEF DailyInv, ServedInv
      <3>3. QED
        BY <3>1, <3>2
    <2>6. QED
      BY <1>2, <2>2, <2>3, <2>4, <2>5 DEF ServedInv
  <1>10. QED
    BY <1>7, <1>8, <1>9 DEF DailyInv

LEMMA MidnightKeeps ==
    ASSUME DailyInv, Midnight
    PROVE  DailyInv'
  <1>1. DailyTypeOK'
    <2>1. caughtUp' \in [Users -> 0 .. MaxBoots]
      BY DailyConstantsOK DEF Midnight
    <2>2. /\ reports' \in [DailyKinds -> SUBSET Users] /\ fired' \in BOOLEAN
          /\ owed' \in [Jobs -> SUBSET Users] /\ stopped' \in [Jobs -> BOOLEAN]
      BY DEF Midnight
    <2>3. UNCHANGED <<keyed, held, unchecked, todo, running, work, boots>>
      BY DEF Midnight, process
    <2>4. QED
      BY <2>1, <2>2, <2>3 DEF DailyInv, DailyTypeOK
  <1>2. CaughtUpInv'
    <2>1. \A u \in Users : caughtUp'[u] = 0
      BY DEF Midnight
    <2>2. UNCHANGED <<process, boots>>
      BY DEF Midnight
    <2>3. \A s \in todo["boot"] : s[1] \in Users
      BY DEF DailyInv, DailyTypeOK, Jobs
    <2>4. work["boot"] # Idle => work["boot"][1] \in Users
      BY DEF DailyInv, DailyTypeOK, Actors, Jobs, Works
    <2>5. QED
      BY <2>1, <2>2, <2>3, <2>4 DEF DailyInv, CaughtUpInv, Listed, process
  <1>3. UnservedHasReason' /\ ServedInv'
    BY DEF Midnight, UnservedHasReason, Unserved, ServedInv
  <1>4. QED
    BY <1>1, <1>2, <1>3 DEF DailyInv

LEMMA DailyInvHolds == DailySpec => []DailyInv
  <1>1. DailyInv /\ [DailyNext]_dailyVars => DailyInv'
    <2> SUFFICES ASSUME DailyInv, [DailyNext]_dailyVars PROVE DailyInv'
      OBVIOUS
    <2>1. ASSUME NEW S \in OptIns, Boot(S) \/ CronFires(S) PROVE DailyInv'
      BY <2>1, BootKeeps, CronKeeps, DailyConstantsOK
    <2>2. CASE Look
      BY <2>2, LookUpKeeps, LookUpFailsKeeps DEF Look
    <2>3. ASSUME NEW r \in Requests, NEW u \in Users, NEW k \in DailyKinds, Request(r, u, k)
          PROVE  DailyInv'
      BY <2>3, RequestKeeps
    <2>4. ASSUME NEW a \in Actors, Step(a) PROVE DailyInv'
      BY <2>4, StoppedKeeps, EnterKeeps, GeneratedKeeps DEF Step
    <2>5. ASSUME NEW j \in Jobs, Walk(j) PROVE DailyInv'
      BY <2>5, NextUserKeeps, NextUserFailsKeeps, EndJobKeeps DEF Walk
    <2>6. CASE Midnight
      BY <2>6, MidnightKeeps
    <2>7. CASE UNCHANGED dailyVars
      BY <2>7 DEF dailyVars, DailyInv, DailyTypeOK, CaughtUpInv, Listed,
                     UnservedHasReason, Unserved, ExistsToday, ServedInv, InSight
    <2>8. QED
      BY <2>1, <2>2, <2>3, <2>4, <2>5, <2>6, <2>7 DEF DailyNext
  <1>2. QED
    BY DailyInitInv, <1>1, PTL DEF DailySpec

-----------------------------------------------------------------------------
(***************************************************************************)
(* Theorems                                                                *)
(***************************************************************************)

\* The jobs, the locks and the reports are well typed, and a job that is over has
\* nothing left to do.
THEOREM DailyTyped == DailySpec => []DailyTypeOK
  <1>1. DailyInv => DailyTypeOK
    BY DEF DailyInv
  <1>2. QED
    BY <1>1, DailyInvHolds, PTL

\* A job of run_daily_job or catch_up that came to the end of its list has left
\* every user it was to serve with both reports of the day, or has failed for that
\* very user.
THEOREM NobodyIsSkipped == DailySpec => []UnservedHasReason
  <1>1. DailyInv => UnservedHasReason
    BY DEF DailyInv
  <1>2. QED
    BY <1>1, DailyInvHolds, PTL

\* However often the process boots, catch_up makes at most one digest of a day
\* for a user.
THEOREM CatchUpIsOnce == DailySpec => []CatchUpOncePerDay
  <1>1. DailyInv => CatchUpOncePerDay
    <2>1. \A n \in {0, 1} : n <= 1
      OBVIOUS
    <2>2. QED
      BY <2>1 DEF DailyInv, CaughtUpInv, CatchUpOncePerDay
  <1>2. QED
    BY <1>1, DailyInvHolds, PTL
-----------------------------------------------------------------------------
(***************************************************************************)
(* The threads: ChatTurns.                                                 *)
(***************************************************************************)

Roles == {"user", "assistant"}
Message == [id : Nat, at : Nat, role : Roles, thread : Threads, turn : Turns]
Unsent == [id : Nat \cup {Null}, at : Nat, role : Roles, thread : Threads, turn : Turns]

Typed ==
    /\ messages \subseteq Message /\ IsFiniteSet(messages)
    /\ ids \in Nat /\ clock \in Nat /\ threads \subseteq Threads
    /\ stage \in [Turns -> {"idle", "begun", "stamped", "inserted", "asked", "streaming"} \cup Over]
    /\ thread \in [Turns -> Threads \cup {Null}]
    /\ unsent \in [Turns -> Unsent \cup {Null}]
    /\ window \in [Turns -> SUBSET Message]
    /\ before \in [Turns -> SUBSET Turns]

\* A turn has its thread once it has begun, and only turns that are over came
\* before it.
Begun ==
    \A t \in Turns :
        /\ stage[t] # "idle" => thread[t] \in Threads
        /\ stage[t] = "idle" => before[t] = {}
        /\ \A u \in before[t] : stage[u] \in Over

Pending(t) == stage[t] \in {"stamped", "inserted"}

\* A message was committed by its turn, an answer after its question; a turn
\* that waits for the provider has asked.
Committed ==
    /\ \A m \in messages :
          /\ m.id < ids /\ m.at <= clock
          /\ m.thread = thread[m.turn]
          /\ stage[m.turn] \notin {"idle", "begun"}
          /\ m.role = "assistant" =>
                /\ stage[m.turn] = "answered"
                /\ \E q \in messages : Own(m.turn, q) /\ Earlier(q, m)
    /\ \A t \in Turns : stage[t] \in {"asked", "streaming"} => \E q \in messages : Own(t, q)

\* What a turn is about to commit: a question if it has committed nothing, an
\* answer if it has committed its question.
Drafted ==
    \A t \in Turns : Pending(t) =>
        /\ unsent[t] \in Unsent
        /\ unsent[t].turn = t /\ unsent[t].thread = thread[t]
        /\ unsent[t].at <= clock
        /\ stage[t] = "inserted" => unsent[t].id \in Nat /\ unsent[t].id < ids
        /\ unsent[t].role = "assistant" => \E q \in messages : Own(t, q)
        /\ \A q \in messages : q.turn = t =>
              /\ unsent[t].role = "assistant"
              /\ q.at <= unsent[t].at
              /\ stage[t] = "inserted" => q.id < unsent[t].id

\* No id is given twice, and a turn commits one question and one answer.
Distinct ==
    /\ \A m, n \in messages :
          /\ m.id = n.id => m = n
          /\ m.turn = n.turn /\ m.role = n.role => m = n
    /\ \A t \in Turns : stage[t] = "inserted" =>
          /\ \A m \in messages : m.id # unsent[t].id
          /\ \A u \in Turns \ {t} : stage[u] = "inserted" => unsent[u].id # unsent[t].id

\* A turn that began when another was over comes after it in the thread.
Sequential ==
    \A t \in Turns : \A u \in before[t] : \A m \in messages : m.turn = u =>
        /\ \A n \in messages : n.turn = t => Earlier(m, n)
        /\ Pending(t) => m.at <= unsent[t].at
        /\ stage[t] = "inserted" => m.id < unsent[t].id

Core == Typed /\ Begun /\ Committed /\ Drafted /\ Distinct /\ Sequential

ChatInv == Core /\ WindowSound

-----------------------------------------------------------------------------
(***************************************************************************)
(* The core of the invariant, conjunct by conjunct                         *)
(***************************************************************************)

LEMMA CoreInit == ASSUME ChatInit PROVE Core
  <1>1. Typed
    BY ChatOK, FS_EmptySet DEF ChatInit, Typed
  <1>2. Begun /\ Committed /\ Drafted /\ Distinct /\ Sequential
    BY DEF ChatInit, Begun, Committed, Drafted, Distinct, Sequential, Pending
  <1>3. QED
    BY <1>1, <1>2 DEF Core

\* A turn that has begun keeps its thread and its predecessors.
Persists ==
    \A t \in Turns : stage[t] # "idle" =>
        stage'[t] # "idle" /\ thread'[t] = thread[t] /\ before'[t] = before[t]

LEMMA BegunStep ==
    ASSUME Core, [ChatNext]_chatVars
    PROVE  Begun' /\ Persists
  <1> USE DEF Core, Typed, Begun, Persists, Over
  <1>1. ASSUME NEW t \in Turns, NEW h \in Threads, Begin(t, h) PROVE Begun' /\ Persists
    BY <1>1 DEF Begin
  <1>2. ASSUME NEW t \in Turns, NEW role \in Roles, Stamp(t, role) PROVE Begun' /\ Persists
    BY <1>2 DEF Stamp
  <1>3. ASSUME NEW t \in Turns, InsertMessage(t) \/ CommitMessage(t) \/ ReadHistory(t) \/ Stop(t)
        PROVE  Begun' /\ Persists
    BY <1>3 DEF InsertMessage, CommitMessage, ReadHistory, Stop, Open
  <1>4. CASE UNCHANGED <<stage, thread, before>>
    BY <1>4
  <1>5. QED
    BY <1>1, <1>2, <1>3, <1>4 DEF ChatNext, Tick, CreateThread, chatVars, Roles

LEMMA TypedStep ==
    ASSUME Core, [ChatNext]_chatVars
    PROVE  Typed'
  <1> USE DEF Core, Typed
  <1>1. ASSUME NEW t \in Turns, NEW h \in Threads, Begin(t, h) PROVE Typed'
    BY <1>1 DEF Begin
  <1>2. ASSUME NEW t \in Turns, NEW role \in Roles, Stamp(t, role) PROVE Typed'
    <2>1. [id |-> Null, at |-> clock, role |-> role, thread |-> thread[t], turn |-> t] \in Unsent
      BY <1>2 DEF Stamp, Begun, Unsent
    <2>2. QED
      BY <1>2, <2>1 DEF Stamp
  <1>3. ASSUME NEW t \in Turns, InsertMessage(t) PROVE Typed'
    <2>1. [unsent[t] EXCEPT !.id = ids] \in Unsent
      BY <1>3 DEF InsertMessage, Drafted, Pending, Unsent
    <2>2. QED
      BY <1>3, <2>1 DEF InsertMessage
  <1>4. ASSUME NEW t \in Turns, CommitMessage(t) PROVE Typed'
    <2>1. unsent[t] \in Message
      BY <1>4 DEF CommitMessage, Drafted, Pending, Unsent, Message
    <2>2. IsFiniteSet(messages \cup {unsent[t]})
      BY FS_AddElement
    <2>3. QED
      BY <1>4, <2>1, <2>2 DEF CommitMessage, Over
  <1>5. ASSUME NEW t \in Turns, ReadHistory(t) PROVE Typed'
    <2>1. Window(thread[t]) \subseteq Message
      BY DEF Window, FromUser, Newest, Stored
    <2>2. QED
      BY <1>5, <2>1 DEF ReadHistory
  <1>6. ASSUME NEW t \in Turns, Stop(t) PROVE Typed'
    BY <1>6 DEF Stop, Over
  <1>7. CASE Tick
    BY <1>7 DEF Tick
  <1>8. ASSUME NEW h \in Threads, CreateThread(h) PROVE Typed'
    BY <1>8 DEF CreateThread
  <1>9. CASE UNCHANGED chatVars
    BY <1>9 DEF chatVars
  <1>10. QED
    BY <1>1, <1>2, <1>3, <1>4, <1>5, <1>6, <1>7, <1>8, <1>9 DEF ChatNext, Roles

LEMMA CommittedStep ==
    ASSUME Core, [ChatNext]_chatVars
    PROVE  Committed'
  <1> USE DEF Core, Typed, Committed, Over
  <1>0. \A m \in messages : m.turn \in Turns /\ m.id \in Nat /\ m.at \in Nat
    BY DEF Message
  <1>1. ASSUME NEW t \in Turns, NEW h \in Threads, Begin(t, h) PROVE Committed'
    BY <1>0, <1>1 DEF Begin
  <1>2. ASSUME NEW t \in Turns, NEW role \in Roles, Stamp(t, role) PROVE Committed'
    BY <1>0, <1>2 DEF Stamp
  <1>3. ASSUME NEW t \in Turns, InsertMessage(t) PROVE Committed'
    BY <1>0, <1>3 DEF InsertMessage
  <1>4. ASSUME NEW t \in Turns, CommitMessage(t) PROVE Committed'
    <2> DEFINE d == unsent[t]
    <2>1. /\ stage[t] = "inserted" /\ messages' = messages \cup {d}
          /\ stage' = [stage EXCEPT ![t] = IF d.role = "user" THEN "asked" ELSE "answered"]
          /\ UNCHANGED <<ids, clock, thread>>
      BY <1>4 DEF CommitMessage
    <2>2. /\ d.turn = t /\ d.thread = thread[t] /\ d.at <= clock /\ d.id < ids
          /\ d.role \in Roles /\ d.at \in Nat /\ d.id \in Nat
          /\ d.role = "assistant" => \E q \in messages : Own(t, q)
          /\ \A q \in messages : q.turn = t => q.at <= d.at /\ q.id < d.id /\ d.role = "assistant"
      BY <2>1 DEF Drafted, Pending, Unsent
    <2> HIDE DEF d
    <2>3. d.role = "assistant" => \E q \in messages : Own(t, q) /\ Earlier(q, d)
      BY <1>0, <2>2 DEF Own, Earlier
    <2>4. ASSUME NEW m \in messages'
          PROVE  /\ m.id < ids' /\ m.at <= clock'
                 /\ m.thread = thread'[m.turn]
                 /\ stage'[m.turn] \notin {"idle", "begun"}
                 /\ m.role = "assistant" =>
                       /\ stage'[m.turn] = "answered"
                       /\ \E q \in messages' : Own(m.turn, q) /\ Earlier(q, m)
      <3>1. CASE m = d
        BY <2>1, <2>2, <2>3, <3>1
      <3>2. CASE m \in messages
        BY <1>0, <2>1, <3>2
      <3>3. QED
        BY <2>1, <3>1, <3>2
    <2>5. ASSUME NEW u \in Turns, stage'[u] \in {"asked", "streaming"}
          PROVE  \E q \in messages' : Own(u, q)
      <3>1. CASE u = t
        <4>1. d.role = "user" /\ d \in messages'
          BY <2>1, <2>5, <3>1
        <4>2. QED
          BY <2>2, <3>1, <4>1 DEF Own
      <3>2. CASE u # t
        BY <2>1, <2>5, <3>2
      <3>3. QED
        BY <3>1, <3>2
    <2>6. QED
      BY <2>4, <2>5
  <1>5. ASSUME NEW t \in Turns, ReadHistory(t) PROVE Committed'
    BY <1>0, <1>5 DEF ReadHistory
  <1>6. ASSUME NEW t \in Turns, Stop(t) PROVE Committed'
    BY <1>0, <1>6 DEF Stop, Open
  <1>7. CASE Tick
    BY <1>0, <1>7 DEF Tick
  <1>8. CASE UNCHANGED <<messages, ids, clock, stage, thread>>
    BY <1>8
  <1>9. QED
    BY <1>1, <1>2, <1>3, <1>4, <1>5, <1>6, <1>7, <1>8 DEF ChatNext, CreateThread, chatVars, Roles

LEMMA DistinctStep ==
    ASSUME Core, [ChatNext]_chatVars
    PROVE  Distinct'
  <1> USE DEF Core, Typed, Distinct
  <1>0. \A m \in messages : m.id \in Nat /\ m.id < ids
    BY DEF Message, Committed
  <1>1. ASSUME messages' = messages, unsent' = unsent,
               \A u \in Turns : stage'[u] = "inserted" => stage[u] = "inserted"
        PROVE  Distinct'
    BY <1>1
  <1>2. ASSUME NEW t \in Turns, NEW h \in Threads, Begin(t, h) PROVE Distinct'
    BY <1>1, <1>2 DEF Begin
  <1>3. ASSUME NEW t \in Turns, NEW role \in Roles, Stamp(t, role) PROVE Distinct'
    BY <1>3 DEF Stamp
  <1>4. ASSUME NEW t \in Turns, InsertMessage(t) PROVE Distinct'
    <2>1. /\ messages' = messages /\ unsent'[t].id = ids
          /\ \A u \in Turns \ {t} : unsent'[u] = unsent[u] /\ stage'[u] = stage[u]
      BY <1>4 DEF InsertMessage, Drafted, Pending, Unsent
    <2>2. \A u \in Turns \ {t} : stage[u] = "inserted" => unsent[u].id \in Nat /\ unsent[u].id < ids
      BY DEF Drafted, Pending
    <2>3. QED
      BY <1>0, <2>1, <2>2
  <1>5. ASSUME NEW t \in Turns, CommitMessage(t) PROVE Distinct'
    <2>1. /\ stage[t] = "inserted" /\ messages' = messages \cup {unsent[t]}
          /\ \A u \in Turns \ {t} : unsent'[u] = unsent[u] /\ stage'[u] = stage[u]
          /\ stage'[t] # "inserted"
      BY <1>5 DEF CommitMessage
    <2>2. \A q \in messages : q.turn = unsent[t].turn =>
              q.role # unsent[t].role
      <3>1. /\ unsent[t].turn = t
            /\ \A q \in messages : q.turn = t => unsent[t].role = "assistant"
        BY <2>1 DEF Drafted, Pending
      <3>2. \A q \in messages : q.turn = t => q.role # "assistant"
        BY <2>1 DEF Committed
      <3>3. QED
        BY <3>1, <3>2
    <2>3. QED
      BY <2>1, <2>2
  <1>6. ASSUME NEW t \in Turns, ReadHistory(t) PROVE Distinct'
    BY <1>1, <1>6 DEF ReadHistory
  <1>7. ASSUME NEW t \in Turns, Stop(t) PROVE Distinct'
    BY <1>7 DEF Stop
  <1>8. CASE UNCHANGED <<messages, stage, unsent>>
    BY <1>1, <1>8
  <1>9. QED
    BY <1>2, <1>3, <1>4, <1>5, <1>6, <1>7, <1>8 DEF ChatNext, Tick, CreateThread, chatVars, Roles

LEMMA DraftedStep ==
    ASSUME Core, [ChatNext]_chatVars
    PROVE  Drafted'
  <1> USE DEF Core, Typed, Drafted, Pending
  <1>0. \A m \in messages : m.turn \in Turns /\ m.id \in Nat /\ m.at \in Nat
    BY DEF Message
  <1>1. ASSUME NEW t \in Turns, NEW h \in Threads, Begin(t, h) PROVE Drafted'
    BY <1>0, <1>1 DEF Begin
  <1>2. ASSUME NEW t \in Turns, NEW role \in Roles, Stamp(t, role) PROVE Drafted'
    <2> DEFINE d == [id |-> Null, at |-> clock, role |-> role, thread |-> thread[t], turn |-> t]
    <2>1. /\ UNCHANGED <<messages, ids, clock, thread>>
          /\ unsent' = [unsent EXCEPT ![t] = d] /\ stage' = [stage EXCEPT ![t] = "stamped"]
          /\ stage[t] = IF role = "user" THEN "begun" ELSE "streaming"
      BY <1>2 DEF Stamp
    <2>2. d \in Unsent
      BY <2>1 DEF Begun, Unsent
    <2>3. role = "assistant" => \E q \in messages : Own(t, q)
      BY <2>1 DEF Committed
    <2>4. \A q \in messages : q.turn = t => role = "assistant" /\ q.at <= clock
      BY <2>1 DEF Committed, Roles
    <2>5. \A u \in Turns \ {t} : unsent'[u] = unsent[u] /\ stage'[u] = stage[u]
      BY <2>1
    <2>6. unsent'[t] = d /\ stage'[t] = "stamped"
      BY <2>1
    <2>7. QED
      BY <2>1, <2>2, <2>3, <2>4, <2>5, <2>6
  <1>3. ASSUME NEW t \in Turns, InsertMessage(t) PROVE Drafted'
    <2>1. /\ UNCHANGED <<messages, clock, thread>>
          /\ stage[t] = "stamped" /\ ids' = ids + 1
          /\ unsent' = [unsent EXCEPT ![t].id = ids] /\ stage' = [stage EXCEPT ![t] = "inserted"]
      BY <1>3 DEF InsertMessage
    <2>2. \A u \in Turns \ {t} : unsent'[u] = unsent[u] /\ stage'[u] = stage[u]
      BY <2>1
    <2>3. /\ stage'[t] = "inserted" /\ unsent'[t].id = ids /\ unsent'[t] \in Unsent
          /\ unsent'[t].at = unsent[t].at /\ unsent'[t].role = unsent[t].role
          /\ unsent'[t].turn = t /\ unsent'[t].thread = thread[t]
      BY <2>1 DEF Unsent
    <2>4. \A q \in messages : q.id < ids
      BY DEF Committed
    <2>5. QED
      BY <1>0, <2>1, <2>2, <2>3, <2>4
  <1>4. ASSUME NEW t \in Turns, CommitMessage(t) PROVE Drafted'
    <2>1. /\ messages' = messages \cup {unsent[t]} /\ unsent[t].turn = t
          /\ \A u \in Turns \ {t} : unsent'[u] = unsent[u] /\ stage'[u] = stage[u]
          /\ stage'[t] \notin {"stamped", "inserted"}
          /\ UNCHANGED <<ids, clock, thread>>
      BY <1>4 DEF CommitMessage
    <2>2. QED
      BY <2>1
  <1>5. ASSUME NEW t \in Turns, ReadHistory(t) PROVE Drafted'
    BY <1>5 DEF ReadHistory
  <1>6. ASSUME NEW t \in Turns, Stop(t) PROVE Drafted'
    BY <1>6 DEF Stop
  <1>7. CASE Tick
    <2>1. clock' \in Nat /\ clock < clock' /\ UNCHANGED <<messages, ids, stage, thread, unsent>>
      BY <1>7 DEF Tick
    <2>2. \A u \in Turns : Pending(u) => unsent[u].at \in Nat
      BY DEF Unsent
    <2>3. QED
      BY <2>1, <2>2
  <1>8. CASE UNCHANGED <<messages, ids, clock, stage, thread, unsent>>
    BY <1>8
  <1>9. QED
    BY <1>1, <1>2, <1>3, <1>4, <1>5, <1>6, <1>7, <1>8 DEF ChatNext, CreateThread, chatVars, Roles

LEMMA SequentialStep ==
    ASSUME Core, [ChatNext]_chatVars
    PROVE  Sequential'
  <1> USE DEF Core, Typed, Sequential, Pending
  <1>0. \A m \in messages : m.turn \in Turns /\ m.id \in Nat /\ m.at \in Nat
    BY DEF Message
  <1>1. ASSUME NEW t \in Turns, NEW h \in Threads, Begin(t, h) PROVE Sequential'
    <2>1. \A m \in messages : m.turn # t
      BY <1>1 DEF Begin, Committed
    <2>2. QED
      BY <1>1, <2>1 DEF Begin
  <1>2. ASSUME NEW t \in Turns, NEW role \in Roles, Stamp(t, role) PROVE Sequential'
    <2>1. /\ UNCHANGED <<messages, before>>
          /\ unsent'[t].at = clock /\ stage'[t] = "stamped"
          /\ \A u \in Turns \ {t} : unsent'[u] = unsent[u] /\ stage'[u] = stage[u]
      BY <1>2 DEF Stamp
    <2>2. \A m \in messages : m.at <= clock
      BY DEF Committed
    <2>3. QED
      BY <2>1, <2>2
  <1>3. ASSUME NEW t \in Turns, InsertMessage(t) PROVE Sequential'
    <2>1. /\ UNCHANGED <<messages, before>> /\ stage[t] = "stamped"
          /\ unsent'[t].at = unsent[t].at /\ unsent'[t].id = ids
          /\ \A u \in Turns \ {t} : unsent'[u] = unsent[u] /\ stage'[u] = stage[u]
      BY <1>3 DEF InsertMessage, Drafted, Unsent
    <2>2. \A m \in messages : m.id < ids
      BY DEF Committed
    <2>3. QED
      BY <2>1, <2>2
  <1>4. ASSUME NEW t \in Turns, CommitMessage(t) PROVE Sequential'
    <2> DEFINE d == unsent[t]
    <2>1. /\ stage[t] = "inserted" /\ messages' = messages \cup {d} /\ before' = before
          /\ \A u \in Turns \ {t} : unsent'[u] = unsent[u] /\ stage'[u] = stage[u]
          /\ stage'[t] \notin {"stamped", "inserted"}
      BY <1>4 DEF CommitMessage
    <2>2. d.turn = t /\ d.at \in Nat /\ d.id \in Nat
      BY <2>1 DEF Drafted, Unsent
    <2> HIDE DEF d
    <2>3. \A v \in Turns : t \notin before[v]
      BY <2>1 DEF Begun, Over
    <2>4. \A u \in before[t] : \A m \in messages : m.turn = u => m.at <= d.at /\ m.id < d.id
      BY <2>1 DEF d
    <2>5. \A u \in before[t] : \A m \in messages : m.turn = u => Earlier(m, d)
      BY <1>0, <2>2, <2>4 DEF Earlier
    <2>6. ASSUME NEW v \in Turns, NEW u \in before'[v], NEW m \in messages', m.turn = u
          PROVE  /\ \A n \in messages' : n.turn = v => Earlier(m, n)
                 /\ Pending(v)' => m.at <= unsent'[v].at
                 /\ stage'[v] = "inserted" => m.id < unsent'[v].id
      <3>1. u \in before[v] /\ m \in messages
        BY <2>1, <2>2, <2>3, <2>6
      <3>2. \A n \in messages' : n.turn = v => Earlier(m, n)
        BY <2>1, <2>2, <2>5, <2>6, <3>1
      <3>3. QED
        BY <2>1, <2>6, <3>1, <3>2
    <2>7. QED
      BY <2>6
  <1>5. ASSUME NEW t \in Turns, ReadHistory(t) PROVE Sequential'
    BY <1>5 DEF ReadHistory
  <1>6. ASSUME NEW t \in Turns, Stop(t) PROVE Sequential'
    BY <1>6 DEF Stop
  <1>7. CASE UNCHANGED <<messages, stage, unsent, before>>
    BY <1>7
  <1>8. QED
    BY <1>1, <1>2, <1>3, <1>4, <1>5, <1>6, <1>7 DEF ChatNext, Tick, CreateThread, chatVars, Roles

LEMMA CoreStep ==
    ASSUME Core, [ChatNext]_chatVars
    PROVE  Core'
  BY TypedStep, BegunStep, CommittedStep, DraftedStep, DistinctStep, SequentialStep DEF Core

-----------------------------------------------------------------------------
(***************************************************************************)
(* The window                                                              *)
(***************************************************************************)

\* WindowSound of one turn, for a window w.
Sound(t, w) ==
    /\ \A m \in Earliest(w) : m.role = "user"
    /\ Alone(t) => w # {} /\ \A m \in Latest(w) : Own(t, m)
    /\ (\A m \in w : ~Own(t, m)) => Cardinality(Since(t)) >= Limit

LEMMA Ordered ==
    ASSUME Core, NEW m \in messages, NEW n \in messages
    PROVE  /\ ~Earlier(m, m)
           /\ Earlier(m, n) => ~Earlier(n, m)
           /\ m # n => Earlier(m, n) \/ Earlier(n, m)
  <1>1. m.id \in Nat /\ m.at \in Nat /\ n.id \in Nat /\ n.at \in Nat
    BY DEF Core, Typed, Message
  <1>2. m # n => m.id # n.id
    BY DEF Core, Distinct
  <1>3. QED
    BY <1>1, <1>2 DEF Earlier

LEMMA MetStays ==
    ASSUME Persists, NEW t \in Turns, NEW u \in Turns, Met(t, u)
    PROVE  Met(t, u)'
  BY DEF Persists, Met

LEMMA SinceFinite ==
    ASSUME Core, NEW t \in Turns
    PROVE  \A S \in SUBSET Since(t) :
              /\ IsFiniteSet(S) /\ Cardinality(S) \in Nat
              /\ Cardinality(Since(t)) \in Nat /\ Cardinality(S) <= Cardinality(Since(t))
  <1>1. IsFiniteSet(Since(t))
    BY FS_Subset DEF Core, Typed, Since
  <1>2. QED
    BY <1>1, FS_Subset, FS_CardinalityType

\* Whatever others write, a window that was sound stays so.
LEMMA SoundStays ==
    ASSUME Core, Core', Persists, messages \subseteq messages',
           NEW t \in Turns, NEW w, Sound(t, w)
    PROVE  Sound(t, w)'
  <1>1. Alone(t)' => Alone(t)
    BY MetStays DEF Alone
  <1>2. Since(t) \subseteq Since(t)'
    <2>1. \A n \in messages : n.turn \in Turns
      BY DEF Core, Typed, Message
    <2>2. QED
      BY <2>1, MetStays DEF Since
  <1>3. Cardinality(Since(t)) >= Limit => Cardinality(Since(t)') >= Limit
    <2>1. \A S \in SUBSET Since(t)' :
              /\ Cardinality(S) \in Nat
              /\ Cardinality(Since(t)') \in Nat /\ Cardinality(S) <= Cardinality(Since(t)')
      <3>1. IsFiniteSet(Since(t)')
        BY FS_Subset DEF Core, Typed, Since
      <3>2. QED
        BY <3>1, FS_Subset, FS_CardinalityType
    <2>2. QED
      BY <1>2, <2>1, ChatOK
  <1>4. QED
    BY <1>1, <1>3 DEF Sound

\* What comes after the question of a turn that still waits was written by a turn
\* it met.
LEMMA LaterMet ==
    ASSUME Core, NEW t \in Turns, stage[t] = "asked",
           NEW q \in messages, Own(t, q), NEW n \in Stored(thread[t]), Earlier(q, n)
    PROVE  n \in Since(t)
  <1> DEFINE u == n.turn
  <1>1. n \in messages /\ u \in Turns /\ n.thread = thread[t]
    BY DEF Stored, Core, Typed, Message
  <1>2. u # t
    <2>1. ASSUME u = t PROVE FALSE
      <3>1. n.role # "assistant"
        BY <1>1, <2>1 DEF Core, Committed
      <3>2. n.role = "user"
        BY <1>1, <3>1 DEF Core, Typed, Message, Roles
      <3>3. n = q
        BY <1>1, <2>1, <3>2 DEF Own, Core, Distinct
      <3>4. QED
        BY <3>3, Ordered
    <2>2. QED
      BY <2>1
  <1>3. stage[u] # "idle" /\ thread[u] = thread[t]
    BY <1>1 DEF Core, Committed
  <1>4. t \notin before[u]
    BY <1>1 DEF Core, Begun, Over
  <1>5. u \notin before[t]
    <2>1. ASSUME u \in before[t] PROVE Earlier(n, q)
      BY <1>1, <2>1 DEF Own, Core, Sequential
    <2>2. QED
      BY <1>1, <2>1, Ordered
  <1>6. QED
    BY <1>1, <1>2, <1>3, <1>4, <1>5 DEF Since, Met

LEMMA WindowIsSound ==
    ASSUME Core, NEW t \in Turns, stage[t] = "asked"
    PROVE  Sound(t, Window(thread[t]))
  <1> DEFINE S == Stored(thread[t])
             W == Window(thread[t])
  <1>1. PICK q \in messages : Own(t, q)
    BY DEF Core, Committed
  <1>2. q \in S /\ S \subseteq messages /\ W \subseteq Newest(S) /\ Newest(S) \subseteq S
    BY <1>1 DEF Own, Core, Committed, Stored, Window, FromUser, Newest
  <1>3. \A u \in Newest(S) : u.role = "user" => u \in W
    BY <1>2, Ordered DEF Window, FromUser
  <1>4. ASSUME NEW m \in Earliest(W) PROVE m.role = "user"
    <2>1. m \in W /\ \A n \in W : ~Earlier(n, m)
      BY DEF Earliest
    <2>2. PICK u \in Newest(S) : u.role = "user" /\ ~Earlier(m, u)
      BY <2>1 DEF Window, FromUser
    <2>3. u \in W /\ ~Earlier(u, m)
      BY <1>3, <2>1, <2>2
    <2>4. m = u
      BY <1>2, <2>1, <2>2, <2>3, Ordered
    <2>5. QED
      BY <2>2, <2>4
  <1> DEFINE L == {n \in S : Earlier(q, n)}
  <1>5. L \subseteq Since(t)
    BY <1>1, LaterMet
  <1>6. Cardinality(L) < Limit => q \in W
    BY <1>1, <1>2, <1>3 DEF Newest, Own
  <1>7. ASSUME Alone(t) PROVE W # {} /\ \A m \in Latest(W) : Own(t, m)
    <2>1. Since(t) = {}
      BY <1>7 DEF Alone, Since, Core, Typed, Message
    <2>2. L = {}
      BY <1>5, <2>1
    <2>3. q \in W
      BY <1>6, <2>2, FS_EmptySet, ChatOK
    <2>4. ASSUME NEW m \in Latest(W) PROVE m = q
      <3>1. m \in S /\ ~Earlier(m, q)
        BY <1>2, <2>3 DEF Latest
      <3>2. m \in messages /\ ~Earlier(q, m)
        BY <1>2, <2>2, <3>1
      <3>3. QED
        BY <3>1, <3>2, Ordered
    <2>5. QED
      BY <1>1, <2>3, <2>4
  <1>8. ASSUME \A m \in W : ~Own(t, m) PROVE Cardinality(Since(t)) >= Limit
    <2>1. ~(Cardinality(L) < Limit)
      BY <1>1, <1>6, <1>8
    <2>2. /\ Cardinality(L) \in Nat /\ Cardinality(Since(t)) \in Nat
          /\ Cardinality(L) <= Cardinality(Since(t))
      BY <1>5, SinceFinite
    <2>3. QED
      BY <2>1, <2>2, ChatOK
  <1>9. QED
    BY <1>4, <1>7, <1>8 DEF Sound

LEMMA MessagesKept ==
    ASSUME [ChatNext]_chatVars
    PROVE  messages \subseteq messages'
  BY DEF ChatNext, chatVars, Tick, CreateThread, Begin, Stamp, InsertMessage, CommitMessage, ReadHistory, Stop

LEMMA WindowStep ==
    ASSUME ChatInv, [ChatNext]_chatVars
    PROVE  WindowSound'
  <1>0. Core /\ Core' /\ Persists /\ messages \subseteq messages'
    BY CoreStep, BegunStep, MessagesKept DEF ChatInv
  <1>1. SUFFICES ASSUME NEW t \in Turns, window'[t] # {} \/ stage'[t] = "streaming"
                 PROVE  Sound(t, window[t])'
    BY DEF WindowSound, Sound
  <1>2. ASSUME NEW w, Sound(t, w), w = window'[t] PROVE Sound(t, window[t])'
    <2>1. Sound(t, w)'
      BY <1>0, <1>2, SoundStays
    <2>2. QED
      BY <1>2, <2>1 DEF Sound
  <1>3. ASSUME window'[t] = window[t], stage'[t] = "streaming" => stage[t] = "streaming"
        PROVE  Sound(t, window[t])'
    <2>1. PICK w : w = window'[t]
      OBVIOUS
    <2>2. Sound(t, w)
      BY <1>1, <1>3, <2>1 DEF ChatInv, WindowSound, Sound
    <2>3. QED
      BY <1>2, <2>1, <2>2
  <1>4. ASSUME stage[t] = "asked", window'[t] = Window(thread[t]) PROVE Sound(t, window[t])'
    <2>1. PICK w : w = window'[t]
      OBVIOUS
    <2>2. Sound(t, w)
      BY <1>0, <1>4, <2>1, WindowIsSound
    <2>3. QED
      BY <1>2, <2>1, <2>2
  <1> USE DEF Core, Typed
  <1>5. ASSUME NEW u \in Turns, ReadHistory(u) PROVE Sound(t, window[t])'
    <2>1. CASE u = t
      BY <1>0, <1>4, <1>5, <2>1 DEF ReadHistory
    <2>2. CASE u # t
      BY <1>0, <1>3, <1>5, <2>2 DEF ReadHistory
    <2>3. QED
      BY <2>1, <2>2
  <1>6. ASSUME NEW u \in Turns, NEW h \in Threads, Begin(u, h) PROVE Sound(t, window[t])'
    BY <1>0, <1>3, <1>6 DEF Begin
  <1>7. ASSUME NEW u \in Turns, NEW role \in Roles, Stamp(u, role) PROVE Sound(t, window[t])'
    BY <1>0, <1>3, <1>7 DEF Stamp
  <1>8. ASSUME NEW u \in Turns, InsertMessage(u) \/ CommitMessage(u) \/ Stop(u) PROVE Sound(t, window[t])'
    BY <1>0, <1>3, <1>8 DEF InsertMessage, CommitMessage, Stop
  <1>9. CASE UNCHANGED <<window, stage>>
    BY <1>3, <1>9
  <1>10. QED
    BY <1>5, <1>6, <1>7, <1>8, <1>9 DEF ChatNext, Tick, CreateThread, chatVars, Roles

LEMMA ChatInvHolds == ChatSpec => []ChatInv
  <1>1. ChatInit => ChatInv
    <2> SUFFICES ASSUME ChatInit PROVE WindowSound
      BY CoreInit DEF ChatInv
    <2>1. \A t \in Turns : window[t] = {} /\ stage[t] # "streaming"
      BY DEF ChatInit
    <2>2. QED
      BY <2>1 DEF WindowSound
  <1>2. ChatInv /\ [ChatNext]_chatVars => ChatInv'
    BY CoreStep, WindowStep DEF ChatInv
  <1>3. QED
    BY <1>1, <1>2, PTL DEF ChatSpec

\* Nothing comes between the question and the answer of a turn that met no other:
\* it would be of a turn that was over before the question, or began after the
\* answer.
LEMMA NothingBetween ==
    ASSUME Core, NEW m \in messages, m.role = "assistant", Alone(m.turn),
           NEW q \in messages, Own(m.turn, q),
           NEW n \in Stored(m.thread), Earlier(q, n), Earlier(n, m)
    PROVE  FALSE
  <1> DEFINE t == m.turn
             u == n.turn
  <1>1. n \in messages /\ t \in Turns /\ u \in Turns /\ n.thread = m.thread
    BY DEF Stored, Core, Typed, Message
  <1>2. u # t
    <2>1. ASSUME u = t PROVE n \in {q, m}
      <3>1. n.role \in Roles
        BY <1>1 DEF Core, Typed, Message
      <3>2. QED
        BY <1>1, <2>1, <3>1 DEF Roles, Own, Core, Distinct
    <2>2. ~Earlier(q, q) /\ ~Earlier(m, m)
      BY Ordered
    <2>3. QED
      BY <2>1, <2>2
  <1>3. /\ stage[t] # "idle" /\ stage[u] # "idle"
        /\ thread[u] = thread[t]
    BY <1>1 DEF Core, Committed
  <1>4. t \in before[u] \/ u \in before[t]
    BY <1>1, <1>2, <1>3 DEF Alone, Met
  <1>5. t \in before[u] => Earlier(m, n)
    BY <1>1 DEF Core, Sequential
  <1>6. u \in before[t] => Earlier(n, q)
    BY <1>1 DEF Own, Core, Sequential
  <1>7. QED
    BY <1>1, <1>4, <1>5, <1>6, Ordered

-----------------------------------------------------------------------------
(***************************************************************************)
(* Theorems                                                                *)
(***************************************************************************)

\* However many turns of a thread run together, fail or follow one another, the
\* provider is sent a history that begins with a question and, for a turn that met
\* no other, ends with its own; a question is crowded out only by _HISTORY_LIMIT
\* messages of turns it met.
THEOREM WindowsAreSound == ChatSpec => []WindowSound
  <1>1. ChatInv => WindowSound
    BY DEF ChatInv
  <1>2. QED
    BY <1>1, ChatInvHolds, PTL

\* However the commits of a thread's turns interleave, the answer of a turn that
\* met no other follows its question in the order read_thread shows.
THEOREM AnswersFollow == ChatSpec => []AnswersAdjacent
  <1>1. ChatInv => AnswersAdjacent
    <2> SUFFICES ASSUME ChatInv, NEW h \in threads, NEW m \in Stored(h),
                        m.role = "assistant", Alone(m.turn)
                 PROVE  \E q \in Stored(h) :
                           /\ Own(m.turn, q) /\ Earlier(q, m)
                           /\ ~\E n \in Stored(h) : Earlier(q, n) /\ Earlier(n, m)
      BY DEF AnswersAdjacent
    <2>1. Core /\ m \in messages /\ m.thread = h
      BY DEF ChatInv, Stored
    <2>2. PICK q \in messages : Own(m.turn, q) /\ Earlier(q, m)
      BY <2>1 DEF Core, Committed
    <2>3. q \in Stored(h)
      BY <2>1, <2>2 DEF Own, Stored, Core, Committed
    <2>4. ~\E n \in Stored(h) : Earlier(q, n) /\ Earlier(n, m)
      BY <2>1, <2>2, NothingBetween
    <2>5. QED
      BY <2>2, <2>3, <2>4
  <1>2. QED
    BY <1>1, ChatInvHolds, PTL
=============================================================================
