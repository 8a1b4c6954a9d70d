-------------------------- MODULE MemoryStorageProofs --------------------------
(***************************************************************************)
(* What holds of an agent and its storage for any sets of values, any      *)
(* bounds and any program: with any engine and any failure, that the graph *)
(* that is loaded is consistent; with the transactions of Sqlite, that     *)
(* dumps and loads are atomic and exact: MemoryStorage implements          *)
(* DurableTransitions, whatever crashes and failing commits come between.  *)
(***************************************************************************)
EXTENDS MemoryStorage, AgentMemoryProofs

USE SentinelsDistinct, FiniteValues, InfosAssumption

\* Every value that is stored reads back as it was; under Sqlite the invalid
\* value may not, and is not stored.
ValuesFit ==
  "Sqlite" \in Engines =>
    "blank_dump" \notin Habits /\ \A v \in State \cup Action : SqliteColumn(v) = v

--------------------------------------------------------------------------------
(* Types.                                                                     *)

\* The time sequence may be continued from either tables.
Continues(tables) ==
  tables.info # NULL => /\ column(tables.info.last[1]) = tables.info.last[1]
                        /\ column(tables.info.last[2]) = tables.info.last[2]
StorageTypes == TypeOK /\ StorageTypeOK /\ Continues(db) /\ Continues(disk)

\* A value that fits reads back from either engine.
LEMMA ColumnFits ==
  ASSUME ValuesFit, StorageTypeOK, NEW v \in State \cup Action PROVE column(v) = v
BY DEF ValuesFit, StorageTypeOK, column, MysqlColumn

\* A state as it is dumped.
LEMMA DumpedInfo == ASSUME TypeOK, NEW s \in State PROVE getStateInfo(s) \in Info
<1>1. \A an \in Action \X State : <<s, an[1], an[2]>> \in Transition
  BY TransitionParts
<1>2. QED BY <1>1 DEF TypeOK, getStateInfo, Info

\* The rows that are stored are state informations.
LEMMA StoredRow ==
  ASSUME NEW tables \in Tables, NEW s \in Stored(tables)
  PROVE  s \in State /\ tables.rows[s] \in Info
BY DEF Tables, Stored

\* A statement that writes keeps the tables' types.
LEMMA WrittenTypes ==
  ASSUME StorageTypes, NEW tables \in Tables, Continues(tables), Written(tables),
         UNCHANGED engine
  PROVE  db' \in Tables /\ disk' \in Tables /\ Continues(db)' /\ Continues(disk)'
BY DEF StorageTypes, StorageTypeOK, Written, SqliteWrite, MysqlWrite, Continues, column

\* A step of the storage keeps every type.
LEMMA StorageTypeStep ==
  ASSUME ValuesFit PROVE StorageTypes /\ [StorageNext]_allVars => StorageTypes'
<1> SUFFICES ASSUME StorageTypes, [StorageNext]_allVars PROVE StorageTypes'
  OBVIOUS
<1> USE DEF StorageTypes
<1>1. ASSUME UNCHANGED <<engine, db, disk, saved_nums, warned>>, left' \subseteq State,
             phase' \in {"starting", "loading", "running", "dumping"}
      PROVE  StorageTypeOK' /\ Continues(db)' /\ Continues(disk)'
  BY <1>1 DEF StorageTypeOK, Continues, column
<1>2. UNCHANGED agentVars => TypeOK'
  BY TypeStep DEF agentVars
<1>3. CASE Live
  <2>1. [Next]_vars BY <1>3 DEF Live, AgentStep, Next
  <2>2. QED BY <1>1, <1>3, <2>1, TypeStep DEF Live, storageVars, StorageTypeOK
<1>4. CASE BeginLoad
  <2>1. <<pre_in', pre_out'>> \in (State \X Action) \cup {<<Invalid, Invalid>>}
    BY <1>4 DEF BeginLoad, StorageTypeOK, Tables, MemoryInfo, Continues, TypeOK
  <2>2. TypeOK' BY <1>4, <2>1 DEF BeginLoad, TypeOK, structures
  <2>3. saved_nums' \in Int \X Int
    BY <1>4 DEF BeginLoad, StorageTypeOK, Tables, MemoryInfo
  <2>4. QED BY <1>4, <2>2, <2>3 DEF BeginLoad, StorageTypeOK, Continues, column, Stored
<1>5. CASE SkipLoad \/ EndLoad \/ InfoFails
  <2>1. StorageTypeOK' /\ Continues(db)' /\ Continues(disk)'
    BY <1>5 DEF SkipLoad, EndLoad, InfoFails, StorageTypeOK, Continues, column, TypeOK
  <2>2. QED BY <1>2, <1>5, <2>1 DEF SkipLoad, EndLoad, InfoFails
<1>6. ASSUME NEW s \in State, LoadState(s) PROVE StorageTypes'
  <2>1. column(s) = s BY ColumnFits
  <2>2. s \in Stored(db) /\ Built(s, db.rows[s]) BY <1>6, <2>1 DEF LoadState
  <2>3. db.rows[s] \in Info BY <2>2, StoredRow DEF StorageTypeOK
  <2>4. Build(s, db.rows[s]) BY <2>2 DEF Built, AddStateInfo, UpdateStateInfo
  <2>5. lk_num' \in Int
    <3>1. InfoLinks(s, db.rows[s]) \in SUBSET Transition BY <2>3, InfoTypes
    <3>2. Cardinality(InfoLinks(s, db.rows[s])) \in Nat BY <3>1, CardinalityIsNat
    <3>3. Cardinality({t \in Links : t[1] = s}) \in Nat
      BY CardinalityIsNat DEF Links
    <3>4. QED BY <2>2, <3>2, <3>3 DEF Built, AddStateInfo, UpdateStateInfo, RelinkedNum, TypeOK
  <2>6. TypeOK' BY <2>3, <2>4, <2>5, BuildType
  <2>7. QED BY <1>1, <1>6, <2>6 DEF LoadState, StorageTypeOK
<1>7. ASSUME NEW s \in State, LoadMissing(s) PROVE StorageTypes'
  <2>1. TypeOK' BY <1>7 DEF LoadMissing, TypeOK, structures, sequence
  <2>2. QED BY <1>1, <1>7, <2>1 DEF LoadMissing, storageVars, StorageTypeOK
<1>8. CASE BeginDump
  <2>1. getMemoryInfo \in MemoryInfo BY DEF getMemoryInfo, MemoryInfo, TypeOK
  <2>2. [db EXCEPT !.info = getMemoryInfo] \in Tables BY <2>1 DEF StorageTypeOK, Tables
  <2>3. Continues([db EXCEPT !.info = getMemoryInfo])
    <3> DEFINE last == <<pre_in, pre_out>>
    <3>1. CASE pre_in = Invalid
      <4>1. engine # "Sqlite" BY <1>8, <3>1 DEF BeginDump, ValuesFit, StorageTypeOK
      <4>2. QED BY <4>1 DEF Continues, column, MysqlColumn, getMemoryInfo, StorageTypeOK, Tables
    <3>2. CASE pre_in # Invalid
      <4>1. pre_in \in State /\ pre_out \in Action BY <3>2, SequenceType
      <4>2. column(pre_in) = pre_in /\ column(pre_out) = pre_out BY <4>1, ColumnFits
      <4>3. QED BY <4>2 DEF Continues, getMemoryInfo, StorageTypeOK, Tables
    <3>3. QED BY <3>1, <3>2
  <2>4. db' \in Tables /\ disk' \in Tables /\ Continues(db)' /\ Continues(disk)'
    BY <1>8, <2>2, <2>3, WrittenTypes DEF BeginDump, addMemoryInfo
  <2>5. QED BY <1>2, <1>8, <2>4 DEF BeginDump, StorageTypeOK, TypeOK
<1>9. ASSUME NEW s \in State, DumpState(s) PROVE StorageTypes'
  <2>1. [db EXCEPT !.rows[s] = getStateInfo(s)] \in Tables
    BY DumpedInfo DEF StorageTypeOK, Tables
  <2>2. Continues([db EXCEPT !.rows[s] = getStateInfo(s)])
    BY DEF Continues, StorageTypeOK, Tables
  <2>3. db' \in Tables /\ disk' \in Tables /\ Continues(db)' /\ Continues(disk)'
    BY <1>9, <2>1, <2>2, WrittenTypes DEF DumpState
  <2>4. QED BY <1>2, <1>9, <2>3 DEF DumpState, StorageTypeOK
<1>10. ASSUME NEW s \in State, WriteFails(s) PROVE StorageTypes'
  BY <1>1, <1>2, <1>10 DEF WriteFails, StorageTypeOK
<1>11. CASE EndDump \/ CommitFails
  BY <1>2, <1>11 DEF EndDump, CommitFails, StorageTypeOK, Continues, column
<1>12. CASE Restart
  <2>1. TypeOK' BY <1>12 DEF Restart, TypeOK
  <2>2. QED BY <1>12, <2>1 DEF Restart, StorageTypeOK, Continues, column
<1>13. CASE UNCHANGED allVars
  BY <1>1, <1>2, <1>13 DEF allVars, storageVars, StorageTypeOK
<1>14. QED
  BY <1>3, <1>4, <1>5, <1>6, <1>7, <1>8, <1>9, <1>10, <1>11, <1>12, <1>13 DEF StorageNext

\* The types hold at the start.
LEMMA StorageTypeInit == StorageInit => StorageTypes
<1> SUFFICES ASSUME StorageInit PROVE StorageTypes OBVIOUS
<1>1. TypeOK BY DEF StorageInit, Init, TypeOK
<1>2. NoTables \in Tables BY DEF NoTables, Tables
<1>3. <<0, 0>> \in Int \X Int /\ FALSE \in BOOLEAN OBVIOUS
<1>4. StorageTypeOK
  <2>1. engine \in Engines /\ db \in Tables /\ disk \in Tables
    BY <1>2 DEF StorageInit
  <2>2. phase = "starting" /\ left = {} /\ saved_nums = <<0, 0>> /\ warned = FALSE
    BY DEF StorageInit
  <2>3. QED BY <1>3, <2>1, <2>2 DEF StorageTypeOK
<1>5. Continues(db) /\ Continues(disk)
  BY DEF StorageInit, Continues, NoTables
<1>6. QED BY <1>1, <1>4, <1>5 DEF StorageTypes

\* Rows, memory informations and the numbers read from them keep their types, in
\* any engine and whatever fails.
THEOREM StorageTypeCorrect == ASSUME ValuesFit PROVE StorageSpec => []StorageTypeOK
<1>1. StorageTypes => StorageTypeOK BY DEF StorageTypes
<1>2. QED BY <1>1, ValuesFit, StorageTypeInit, StorageTypeStep, PTL DEF StorageSpec

--------------------------------------------------------------------------------
(* The graph that is loaded.  A row is built onto a state that has no link yet: *)
(* this is why a load, unlike a transfer, never drops a follower.             *)

FreshLoad ==
  /\ phase = "starting" => \A t \in Transition : eats[t] = 0
  /\ phase = "loading" => \A t \in Transition : t[1] \in left => eats[t] = 0

\* A program that only deletes, and only between two steps, never has an update
\* take the structure of another state.
NeverStale == fault # "stale"

LoadInv == StorageTypes /\ LoadedGraphConsistent /\ FreshLoad /\ NeverStale

\* The row that LoadState(s) reads is that of s, and builds s.
LEMMA LoadedRow ==
  ASSUME ValuesFit, StorageTypes, NEW s \in State, LoadState(s)
  PROVE  /\ s \in left /\ s \in Stored(db)
         /\ db.rows[s] \in Info
         /\ Build(s, db.rows[s])
         /\ Built(s, db.rows[s])
<1>1. column(s) = s BY ColumnFits DEF StorageTypes
<1>2. s \in Stored(db) /\ Built(s, db.rows[s]) /\ s \in left BY <1>1 DEF LoadState
<1>3. db.rows[s] \in Info BY <1>2, StoredRow DEF StorageTypes, StorageTypeOK
<1>4. QED BY <1>2, <1>3 DEF Built, AddStateInfo, UpdateStateInfo

\* A state that is built has no follower before.
LEMMA FreshState ==
  ASSUME FreshLoad, NEW s \in left, s \in State, phase = "loading"
  PROVE  Followers(s) = {} /\ {t \in Links : t[1] = s} = {}
<1>1. \A t \in Transition : t[1] = s => eats[t] = 0 BY DEF FreshLoad
<1>2. {t \in Links : t[1] = s} = {} BY <1>1 DEF Links
<1>3. \A a \in Action, n \in State : ~ (eats[<<s, a, n>>] > 0) BY <1>1, TransitionParts
<1>4. Followers(s) = {} BY <1>3 DEF Followers
<1>5. QED BY <1>2, <1>4

\* A memory without a state.
EmptyMemory ==
  /\ mem = {} /\ state_num = 0 /\ lk_num = 0
  /\ eats = [t \in Transition |-> 0]
  /\ blist = [n \in State |-> {}]
  /\ count = [s \in State |-> 0]

\* Nothing is consistent.
LEMMA EmptyIsConsistent == EmptyMemory => LoadedGraphConsistent /\ FreshLoad
<1> SUFFICES ASSUME EmptyMemory PROVE LoadedGraphConsistent /\ FreshLoad OBVIOUS
<1> USE DEF EmptyMemory
<1>1. \A t \in Transition : ~ (eats[t] > 0) OBVIOUS
<1>2. \A s \in State, a \in Action, n \in State : ~ (eats[<<s, a, n>>] > 0)
  BY <1>1, TransitionParts
<1>3. GraphConsistent
  BY <1>2 DEF GraphConsistent, NothingLeft, ForwardLive, BlistCovers
<1>4. \A s \in State : Followers(s) = {} BY <1>2 DEF Followers
<1>5. BlistExact BY <1>4 DEF BlistExact
<1>6. Links = {} BY <1>1 DEF Links
<1>7. CountersExact BY <1>6, FS_EmptySet DEF CountersExact
<1>8. FreshLoad BY DEF FreshLoad
<1>9. QED BY <1>3, <1>5, <1>7, <1>8 DEF LoadedGraphConsistent

\* Every step keeps the graph.
LEMMA LoadedStep ==
  ASSUME ValuesFit PROVE LoadInv /\ [StorageNext]_allVars => LoadInv'
<1> SUFFICES ASSUME LoadInv, [StorageNext]_allVars PROVE LoadInv'
  OBVIOUS
<1> USE DEF LoadInv
<1>0. NeverStale'
  <2>1. Live => NeverStale'
    <3>1. \A bl, start : WalkOutcomes(bl, start) \subseteq {"none", "freed"}
      BY DEF WalkOutcomes
    <3>2. QED BY <3>1 DEF NeverStale, Live, AgentStep, Process, FirstUpdate, LinkUpdate,
                          LostUpdate, DeleteState
  <2>2. \A s \in State : LoadState(s) => NeverStale'
    BY DEF NeverStale, LoadState, Built, AddStateInfo, UpdateStateInfo, Build
  <2>3. ASSUME UNCHANGED agentVars PROVE NeverStale'
    BY <2>3 DEF NeverStale, agentVars, vars
  <2>4. QED BY <2>1, <2>2, <2>3
    DEF StorageNext, NeverStale, BeginLoad, SkipLoad, LoadMissing, EndLoad, BeginDump, InfoFails,
        DumpState, WriteFails, EndDump, CommitFails, Restart, allVars
<1>1. StorageTypes' BY ValuesFit, StorageTypeStep
<1>2. TypeOK BY DEF StorageTypes
<1>3. ASSUME UNCHANGED structures PROVE LoadedGraphConsistent'
  <2>1. UNCHANGED <<eats, blist>> BY <1>3 DEF structures
  <2>2. BlistExact' BY <2>1 DEF LoadedGraphConsistent, BlistExact, Followers
  <2>3. CountersExact'
    BY <1>3 DEF LoadedGraphConsistent, CountersExact, NeverStale, Links, structures
  <2>4. QED BY <1>3, <2>2, <2>3, GraphUnchanged DEF LoadedGraphConsistent
<1>4. ASSUME UNCHANGED structures, phase' \in {"running", "dumping"} PROVE LoadInv'
  BY <1>1, <1>3, <1>4, <1>0 DEF FreshLoad
<1>5. CASE Live
  <2>1. [Next]_vars BY <1>5 DEF Live, AgentStep, Next
  <2>2. GraphConsistent' /\ CountersExact'
    BY <1>2, <2>1, GraphStep, CountersStep DEF LoadedGraphConsistent
  <2>3. BlistExact'
    <3>1. LinkUpdate => BlistExact' BY <1>2, ExactLink DEF LoadedGraphConsistent
    <3>2. ASSUME NEW s \in State, DeleteState(s) PROVE BlistExact'
      BY <1>2, <3>2, ExactDelete DEF LoadedGraphConsistent
    <3>3. FirstUpdate => UNCHANGED <<eats, blist>> BY DEF FirstUpdate
    <3>4. ASSUME UNCHANGED <<eats, blist>> PROVE BlistExact'
      BY <3>4 DEF LoadedGraphConsistent, BlistExact, Followers
    <3>5. QED BY <1>3, <1>5, <3>1, <3>2, <3>3, <3>4
              DEF Live, AgentStep, Process, LostUpdate, LoadedGraphConsistent
  <2>4. FreshLoad' BY <1>5 DEF Live, storageVars, FreshLoad
  <2>5. QED BY <1>1, <1>0, <2>2, <2>3, <2>4 DEF LoadedGraphConsistent
<1>6. CASE BeginLoad
  <2>1. FreshLoad' BY <1>6 DEF BeginLoad, FreshLoad, structures
  <2>2. QED BY <1>1, <1>3, <1>6, <1>0, <2>1 DEF BeginLoad
<1>7. ASSUME NEW s \in State, LoadState(s) PROVE LoadInv'
  <2> DEFINE info == db.rows[s]
  <2>1. s \in left /\ info \in Info /\ Build(s, info) /\ Built(s, info)
    BY <1>7, ValuesFit, LoadedRow
  <2>2. Followers(s) = {} /\ {t \in Links : t[1] = s} = {}
    BY <1>7, <2>1, FreshState DEF LoadState
  <2>3. lk_num' = RelinkedNum(s, info)
    <3>1. CASE AddStateInfo(s, info)
      <4>1. lk_num' = lk_num + Cardinality(InfoLinks(s, info)) BY <3>1 DEF AddStateInfo
      <4>2. Cardinality({t \in Links : t[1] = s}) = 0 BY <2>2, FS_EmptySet
      <4>3. InfoLinks(s, info) \in SUBSET Transition BY <2>1, InfoTypes
      <4>4. Cardinality(InfoLinks(s, info)) \in Nat BY <4>3, CardinalityIsNat
      <4>5. QED BY <1>2, <4>1, <4>2, <4>4 DEF RelinkedNum, TypeOK
    <3>2. CASE UpdateStateInfo(s, info) BY <3>2 DEF UpdateStateInfo
    <3>3. QED BY <2>1, <3>1, <3>2 DEF Built
  <2>4. GraphConsistent' BY <1>2, <2>1, GraphBuild DEF LoadedGraphConsistent
  <2>5. CountersExact' BY <1>2, <2>1, <2>3, CountersBuild DEF LoadedGraphConsistent
  <2>6. BlistExact' BY <1>2, <2>1, <2>2, ExactBuild DEF LoadedGraphConsistent
  <2>7. FreshLoad'
    <3>1. phase = "loading" /\ phase' = "loading" /\ left' = left \ {s}
      BY <1>7 DEF LoadState
    <3>2. \A t \in Transition : t[1] # s => eats'[t] = eats[t] BY <2>1 DEF Build
    <3>3. QED BY <3>1, <3>2 DEF FreshLoad
  <2>8. QED BY <1>1, <1>0, <2>4, <2>5, <2>6, <2>7 DEF LoadedGraphConsistent
<1>8. CASE Restart
  <2>1. EmptyMemory' BY <1>8 DEF Restart, EmptyMemory
  <2>2. LoadedGraphConsistent' /\ FreshLoad' BY <2>1, EmptyIsConsistent, PTL
  <2>3. QED BY <1>1, <1>0, <2>2
<1>9. ASSUME UNCHANGED <<structures, phase, left>> PROVE LoadInv'
  BY <1>1, <1>3, <1>9, <1>0 DEF FreshLoad, structures
<1>10. \A s \in State : LoadMissing(s) => UNCHANGED <<structures, phase, left>>
  BY DEF LoadMissing, storageVars
<1>11. UNCHANGED allVars => UNCHANGED <<structures, phase, left>>
  BY DEF allVars, agentVars, vars, storageVars
<1>12. UNCHANGED agentVars => UNCHANGED structures BY DEF agentVars, vars
<1>13. SkipLoad \/ EndLoad \/ BeginDump \/ InfoFails \/ EndDump \/ CommitFails => LoadInv'
  BY <1>4, <1>12 DEF SkipLoad, EndLoad, BeginDump, InfoFails, EndDump, CommitFails
<1>14. \A s \in State : DumpState(s) \/ WriteFails(s) => LoadInv'
  BY <1>4, <1>12 DEF DumpState, WriteFails
<1>15. QED
  BY <1>5, <1>6, <1>7, <1>8, <1>9, <1>10, <1>11, <1>13, <1>14 DEF StorageNext

\* Whatever a crash, a failing statement or a failing commit left in the storage,
\* in either engine, the graph built from it is closed, can be walked both ways
\* and is counted right, at every step of the load and after it.
THEOREM LoadedIsConsistent == ASSUME ValuesFit PROVE StorageSpec => []LoadedGraphConsistent
<1>1. StorageInit => LoadInv
  <2>1. StorageInit => EmptyMemory BY DEF StorageInit, Init, EmptyMemory
  <2>2. StorageInit => NeverStale BY DEF StorageInit, Init, NeverStale
  <2>3. QED BY <2>1, <2>2, EmptyIsConsistent, StorageTypeInit DEF LoadInv
<1>2. LoadInv => LoadedGraphConsistent BY DEF LoadInv
<1>3. QED BY <1>1, <1>2, ValuesFit, LoadedStep, PTL DEF StorageSpec

--------------------------------------------------------------------------------
(* What the transactions of Sqlite add.                                       *)

\* What is asked of the storage and the program: every dump is a transaction of
\* which no statement fails, a program loads before it runs and steps before it
\* dumps, and deletes no state, which no dump would delete from the storage.
Transactional ==
  /\ Engines = {"Sqlite"}
  /\ "write" \notin Failures
  /\ Habits = {}
  /\ "delete" \notin Calls \cup Reenter

--------------------------------------------------------------------------------
(* The inductive invariant.                                                   *)

LinksIn(tables) == {t \in Transition : TimesIn(tables)[t] > 0}

\* The rows lead to no state without a row, and the memory information, if there
\* is any, counts them and ends in one of them.
TablesSound(tables) ==
  /\ \A s \in Stored(tables) : InfoFollowers(tables.rows[s]) \subseteq Stored(tables)
  /\ IF tables.info = NULL
     THEN Stored(tables) = {}
     ELSE /\ tables.info.last[1] \in Stored(tables)
          /\ tables.info.nums = <<Cardinality(Stored(tables)), Cardinality(LinksIn(tables))>>

\* A new agent knows nothing.
StartingOK == mem = {} /\ <<pre_in, pre_out>> = <<Invalid, Invalid>>

\* In a load the rows that are done are in memory as they are stored, the others
\* at most as following states.
LoadingOK ==
  /\ left \subseteq Stored(disk)
  /\ Stored(disk) \ left \subseteq mem /\ mem \subseteq Stored(disk)
  /\ \A t \in Transition : eats[t] = IF t[1] \in left THEN 0 ELSE TimesIn(disk)[t]
  /\ <<pre_in, pre_out>> = LastIn(disk)
  /\ saved_nums = <<Cardinality(Stored(disk)), Cardinality(LinksIn(disk))>>

\* What was stored is in memory, and so is the state last left.
ReadyOK == Stored(disk) \subseteq mem /\ PreviousExists

\* In a dump the rows that are done hold what is in memory, the others what was
\* stored.
DumpingOK ==
  /\ left \subseteq mem
  /\ pre_in # Invalid
  /\ db.info = getMemoryInfo
  /\ \A s \in State : db.rows[s] = IF s \in mem \ left THEN getStateInfo(s) ELSE disk.rows[s]

DurableInv ==
  /\ LoadInv
  /\ TablesSound(disk)
  /\ phase # "dumping" => db = disk
  /\ phase = "starting" => StartingOK
  /\ phase = "loading" => LoadingOK
  /\ phase \in {"running", "dumping"} => ReadyOK
  /\ phase = "dumping" => DumpingOK
  /\ NeverWarned

--------------------------------------------------------------------------------
(* The two ends of a dump and of a load.                                      *)

\* Under Sqlite a statement that writes leaves the disk alone.
LEMMA IsSqlite ==
  ASSUME Transactional, StorageTypes PROVE engine = "Sqlite"
BY DEF Transactional, StorageTypes, StorageTypeOK

\* What the storage says of a transition.
LEMMA TimesAre ==
  ASSUME NEW tables, NEW t \in Transition
  PROVE  TimesIn(tables)[t] = IF tables.rows[t[1]] = NULL THEN 0
                              ELSE tables.rows[t[1]].eats[<<t[2], t[3]>>]
BY DEF TimesIn

\* Numbers of states and links that are stored are those of the information.
LEMMA NumsAre ==
  ASSUME NEW tables, TablesSound(tables)
  PROVE  (IF tables.info = NULL THEN <<0, 0>> ELSE tables.info.nums)
           = <<Cardinality(Stored(tables)), Cardinality(LinksIn(tables))>>
<1>1. CASE tables.info = NULL
  <2>1. Stored(tables) = {} BY <1>1 DEF TablesSound
  <2>2. \A s \in State : tables.rows[s] = NULL BY <2>1 DEF Stored
  <2>3. \A t \in Transition : ~ (TimesIn(tables)[t] > 0)
    <3> TAKE t \in Transition
    <3>1. tables.rows[t[1]] = NULL BY <2>2, TransitionParts
    <3>2. TimesIn(tables)[t] = 0 BY <3>1, TimesAre
    <3>3. QED BY <3>2
  <2>4. LinksIn(tables) = {} BY <2>3 DEF LinksIn
  <2>5. QED BY <1>1, <2>1, <2>4, FS_EmptySet
<1>2. CASE tables.info # NULL BY <1>2 DEF TablesSound
<1>3. QED BY <1>1, <1>2

\* When every row is loaded, the agent is what was stored.
LEMMA Loaded ==
  ASSUME DurableInv, phase = "loading", left = {}
  PROVE  /\ mem = Stored(disk) /\ eats = TimesIn(disk)
         /\ <<pre_in, pre_out>> = LastIn(disk)
         /\ saved_nums = <<state_num, lk_num>>
         /\ PreviousExists
<1>1. LoadingOK /\ TablesSound(disk) /\ LoadInv BY DEF DurableInv
<1>2. mem = Stored(disk) BY <1>1 DEF LoadingOK
<1>3. eats = TimesIn(disk)
  <2>1. \A t \in Transition : eats[t] = TimesIn(disk)[t] BY <1>1 DEF LoadingOK
  <2>2. eats = [t \in Transition |-> eats[t]]
    BY <1>1 DEF LoadInv, StorageTypes, TypeOK
  <2>3. TimesIn(disk) = [t \in Transition |-> TimesIn(disk)[t]] BY DEF TimesIn
  <2>4. QED BY <2>1, <2>2, <2>3
<1>4. Links = LinksIn(disk) BY <1>3 DEF Links, LinksIn
<1>5. saved_nums = <<state_num, lk_num>>
  BY <1>1, <1>2, <1>4 DEF LoadingOK, LoadInv, LoadedGraphConsistent, CountersExact, NeverStale
<1>6. PreviousExists
  <2>1. <<pre_in, pre_out>> = LastIn(disk) BY <1>1 DEF LoadingOK
  <2>2. CASE disk.info = NULL BY <2>1, <2>2 DEF LastIn, PreviousExists
  <2>3. CASE disk.info # NULL
    <3>1. pre_in = disk.info.last[1] BY <2>1, <2>3 DEF LastIn
    <3>2. QED BY <1>1, <1>2, <2>3, <3>1 DEF TablesSound, PreviousExists
  <2>4. QED BY <2>2, <2>3
<1>7. QED BY <1>1, <1>2, <1>3, <1>5, <1>6 DEF LoadingOK

\* When every state is dumped, the tables are what the agent knows.
LEMMA Dumped ==
  ASSUME DurableInv, phase = "dumping", left = {}
  PROVE  /\ Stored(db) = mem /\ TimesIn(db) = eats
         /\ LastIn(db) = <<pre_in, pre_out>>
         /\ TablesSound(db)
<1>1. DumpingOK /\ ReadyOK /\ LoadInv BY DEF DurableInv
<1>2. TypeOK BY <1>1 DEF LoadInv, StorageTypes
<1>3. \A s \in State : getStateInfo(s) # NULL BY <1>2, DumpedInfo, NullIsNoRow
<1>4. \A s \in mem : s \in State /\ db.rows[s] = getStateInfo(s)
  BY <1>1, <1>2 DEF DumpingOK, TypeOK
<1>5. \A s \in State \ mem : db.rows[s] = NULL BY <1>1 DEF DumpingOK, ReadyOK, Stored
<1>6. Stored(db) = mem
  <2>1. \A s \in mem : s \in Stored(db) BY <1>3, <1>4 DEF Stored
  <2>2. \A s \in State \ mem : s \notin Stored(db) BY <1>5 DEF Stored
  <2>3. Stored(db) \subseteq State BY DEF Stored
  <2>4. QED BY <2>1, <2>2, <2>3
<1>7. \A t \in Transition : TimesIn(db)[t] = eats[t]
  <2> TAKE t \in Transition
  <2>1. CASE t[1] \in mem
    <3>1. getStateInfo(t[1]).eats[<<t[2], t[3]>>] = eats[t]
      BY TransitionParts DEF getStateInfo
    <3>2. QED BY <1>3, <1>4, <2>1, <3>1, TimesAre
  <2>2. CASE t[1] \notin mem
    <3>1. eats[t] = 0
      BY <1>1, <1>2, <2>2, TransitionParts
      DEF LoadInv, LoadedGraphConsistent, GraphConsistent, ForwardLive, TypeOK
    <3>2. db.rows[t[1]] = NULL BY <1>5, <2>2, TransitionParts
    <3>3. TimesIn(db)[t] = 0 BY <3>2, TimesAre
    <3>4. QED BY <3>1, <3>3
  <2>3. QED BY <2>1, <2>2
<1>8. TimesIn(db) = eats
  <2>1. eats = [t \in Transition |-> eats[t]] BY <1>2 DEF TypeOK
  <2>2. TimesIn(db) = [t \in Transition |-> TimesIn(db)[t]] BY DEF TimesIn
  <2>3. QED BY <1>7, <2>1, <2>2
<1>9. getMemoryInfo # NULL
  <2>1. getMemoryInfo \in MemoryInfo BY <1>2 DEF getMemoryInfo, MemoryInfo, TypeOK
  <2>2. QED BY <2>1, NullIsNoRow
<1>10. LastIn(db) = <<pre_in, pre_out>>
  BY <1>1, <1>9 DEF DumpingOK, LastIn, getMemoryInfo
<1>11. \A s \in mem : InfoFollowers(db.rows[s]) \subseteq mem
  <2> TAKE s \in mem
  <2>1. s \in State /\ db.rows[s] = getStateInfo(s) BY <1>4
  <2>2. \A a \in Action, n \in State : getStateInfo(s).eats[<<a, n>>] = eats[<<s, a, n>>]
    BY DEF getStateInfo
  <2>3. \A a \in Action, n \in State : eats[<<s, a, n>>] > 0 => n \in mem
    BY <1>1, <2>1 DEF LoadInv, LoadedGraphConsistent, GraphConsistent, ForwardLive
  <2>4. QED BY <2>1, <2>2, <2>3 DEF InfoFollowers
<1>12. db.info.last[1] = pre_in /\ db.info.nums = <<state_num, lk_num>>
  BY <1>1 DEF DumpingOK, getMemoryInfo
<1>13. Links = LinksIn(db) BY <1>8 DEF Links, LinksIn
<1>14. TablesSound(db)
  BY <1>1, <1>6, <1>9, <1>11, <1>12, <1>13
  DEF DumpingOK, ReadyOK, PreviousExists, TablesSound, LoadInv, LoadedGraphConsistent,
      CountersExact, NeverStale
<1>15. QED BY <1>6, <1>8, <1>10, <1>14

--------------------------------------------------------------------------------
(* Every step keeps the invariant.                                            *)

\* A step that leaves the tables, the phase and the agent's knowledge alone.
LEMMA DurableUnchanged ==
  ASSUME DurableInv, LoadInv',
         UNCHANGED <<structures, pre_in, pre_out, db, disk, phase, left, saved_nums, warned>>
  PROVE  DurableInv'
<1>1. UNCHANGED <<mem, eats, count, state_num, lk_num>> BY DEF structures
<1>2. TimesIn(disk)' = TimesIn(disk) /\ LastIn(disk)' = LastIn(disk)
      /\ LinksIn(disk)' = LinksIn(disk) /\ Stored(disk)' = Stored(disk)
  BY DEF TimesIn, LastIn, LinksIn, Stored
<1>3. TablesSound(disk) => TablesSound(disk)' BY <1>2 DEF TablesSound, InfoFollowers
<1>4. StartingOK => StartingOK' BY <1>1 DEF StartingOK
<1>5. LoadingOK => LoadingOK' BY <1>1, <1>2 DEF LoadingOK
<1>6. ReadyOK => ReadyOK' BY <1>1, <1>2 DEF ReadyOK, PreviousExists
<1>7. DumpingOK => DumpingOK' BY <1>1 DEF DumpingOK, getMemoryInfo, getStateInfo
<1>8. QED BY <1>3, <1>4, <1>5, <1>6, <1>7 DEF DurableInv, NeverWarned

\* A step of a running agent adds to the memory, and leaves a state it knows.
LEMMA DurableLive ==
  ASSUME Transactional, DurableInv, LoadInv', Live PROVE DurableInv'
<1>1. phase = "running" /\ phase' = "running" /\ UNCHANGED <<db, disk, left, warned>>
  BY DEF Live, storageVars
<1>2. ReadyOK /\ TablesSound(disk) /\ db = disk BY <1>1 DEF DurableInv
<1>3. TablesSound(disk)'
  BY <1>1, <1>2 DEF TablesSound, TimesIn, LinksIn, Stored, InfoFollowers
<1>4. ReadyOK'
  <2>1. \A s \in State : ~ DeleteState(s)
    BY DEF Transactional, DeleteState, May
  <2>2. CASE FirstUpdate \/ LinkUpdate
    <3>1. mem' = mem \cup {cur_in}
      BY <2>2, RightVisit DEF DurableInv, LoadInv, StorageTypes
    <3>2. pre_in' = cur_in BY <2>2 DEF FirstUpdate, LinkUpdate, Advance
    <3>3. QED BY <1>1, <1>2, <3>1, <3>2 DEF ReadyOK, Stored, PreviousExists
  <2>3. CASE LostUpdate \/ \E st \in State, out \in Action : Process(st, out)
    <3>1. UNCHANGED <<mem, pre_in>>
      BY <2>3 DEF LostUpdate, Process, structures, sequence
    <3>2. QED BY <1>1, <1>2, <3>1 DEF ReadyOK, Stored, PreviousExists
  <2>4. QED BY <2>1, <2>2, <2>3 DEF Live, AgentStep
<1>5. QED BY <1>1, <1>2, <1>3, <1>4 DEF DurableInv, NeverWarned

\* A load begins with nothing in memory, and every row to do.
LEMMA DurableBeginLoad ==
  ASSUME DurableInv, LoadInv', BeginLoad PROVE DurableInv'
<1>1. /\ phase = "starting" /\ phase' = "loading" /\ left' = Stored(disk)
      /\ UNCHANGED <<structures, db, disk, warned>>
  BY DEF BeginLoad, DurableInv
<1>2. StartingOK /\ TablesSound(disk) /\ db = disk /\ FreshLoad
  BY <1>1 DEF DurableInv, LoadInv
<1>3. mem' = {} /\ \A t \in Transition : eats'[t] = 0
  BY <1>1, <1>2 DEF StartingOK, FreshLoad, structures
<1>4. \A t \in Transition : t[1] \notin left' => TimesIn(disk)[t] = 0
  <2> TAKE t \in Transition
  <2>1. ASSUME t[1] \notin left' PROVE TimesIn(disk)[t] = 0
    <3>1. disk.rows[t[1]] = NULL BY <1>1, <2>1, TransitionParts DEF Stored
    <3>2. QED BY <3>1, TimesAre
  <2>2. QED BY <2>1
<1>5. saved_nums' = <<Cardinality(Stored(disk)), Cardinality(LinksIn(disk))>>
  BY <1>2, NumsAre DEF BeginLoad
<1>6. <<pre_in', pre_out'>> = LastIn(disk)
  <2>1. CASE db.info = NULL BY <1>2, <2>1 DEF BeginLoad, StartingOK, LastIn
  <2>2. CASE db.info # NULL
    <3>1. db.info.last = <<db.info.last[1], db.info.last[2]>>
      BY <2>2 DEF DurableInv, LoadInv, StorageTypes, StorageTypeOK, Tables, MemoryInfo
    <3>2. pre_in' = db.info.last[1] /\ pre_out' = db.info.last[2]
      BY <2>2 DEF BeginLoad, DurableInv, LoadInv, StorageTypes, Continues
    <3>3. QED BY <1>2, <2>2, <3>1, <3>2 DEF LastIn
  <2>3. QED BY <2>1, <2>2
<1>7. TablesSound(disk)'
  BY <1>1, <1>2 DEF TablesSound, TimesIn, LinksIn, Stored, InfoFollowers
<1>8. LoadingOK'
  <2>1. TimesIn(disk)' = TimesIn(disk) /\ LastIn(disk)' = LastIn(disk)
        /\ LinksIn(disk)' = LinksIn(disk) /\ Stored(disk)' = Stored(disk)
    BY <1>1 DEF TimesIn, LastIn, LinksIn, Stored
  <2>2. QED BY <1>1, <1>3, <1>4, <1>5, <1>6, <2>1 DEF LoadingOK
<1>9. QED BY <1>1, <1>2, <1>7, <1>8 DEF DurableInv, NeverWarned

\* A row that is loaded is in memory as it is stored, and what it leads to is
\* stored too.
LEMMA DurableLoadState ==
  ASSUME ValuesFit, DurableInv, LoadInv', NEW s \in State, LoadState(s) PROVE DurableInv'
<1> DEFINE info == db.rows[s]
<1>1. /\ phase = "loading" /\ phase' = "loading" /\ left' = left \ {s}
      /\ UNCHANGED <<db, disk, saved_nums, warned>>
  BY DEF LoadState
<1>2. LoadingOK /\ TablesSound(disk) /\ db = disk /\ StorageTypes
  BY <1>1 DEF DurableInv, LoadInv
<1>3. s \in left /\ s \in Stored(disk) /\ info \in Info /\ Build(s, info)
  BY <1>2, LoadedRow
<1>4. InfoFollowers(info) \subseteq Stored(disk) BY <1>2, <1>3 DEF TablesSound
<1>5. TimesIn(disk)' = TimesIn(disk) /\ LastIn(disk)' = LastIn(disk)
      /\ LinksIn(disk)' = LinksIn(disk) /\ Stored(disk)' = Stored(disk)
  BY <1>1 DEF TimesIn, LastIn, LinksIn, Stored
<1>6. left' \subseteq Stored(disk) BY <1>1, <1>2 DEF LoadingOK
<1>7. Stored(disk) \ left' \subseteq mem' /\ mem' \subseteq Stored(disk)
  BY <1>1, <1>2, <1>3, <1>4 DEF Build, LoadingOK
<1>8. \A t \in Transition : eats'[t] = IF t[1] \in left' THEN 0 ELSE TimesIn(disk)[t]
  <2> TAKE t \in Transition
  <2>1. CASE t[1] = s
    <3>1. eats'[t] = info.eats[<<t[2], t[3]>>] BY <1>3, <2>1 DEF Build
    <3>2. TimesIn(disk)[t] = info.eats[<<t[2], t[3]>>]
      BY <1>2, <1>3, <2>1, TimesAre DEF Stored
    <3>3. QED BY <1>1, <2>1, <3>1, <3>2
  <2>2. CASE t[1] # s
    <3>1. eats'[t] = eats[t] BY <1>3, <2>2 DEF Build
    <3>2. QED BY <1>1, <1>2, <2>2, <3>1 DEF LoadingOK
  <2>3. QED BY <2>1, <2>2
<1>9. <<pre_in, pre_out>>' = LastIn(disk)
  BY <1>2, <1>3 DEF Build, sequence, LoadingOK
<1>10. LoadingOK' BY <1>1, <1>2, <1>5, <1>6, <1>7, <1>8, <1>9 DEF LoadingOK
<1>11. TablesSound(disk)' BY <1>1, <1>2, <1>5 DEF TablesSound, InfoFollowers
<1>12. QED BY <1>1, <1>2, <1>10, <1>11 DEF DurableInv, NeverWarned

\* The numbers agree at the end of a load.
LEMMA DurableEndLoad ==
  ASSUME DurableInv, LoadInv', EndLoad PROVE DurableInv'
<1>1. /\ phase = "loading" /\ left = {} /\ phase' = "running"
      /\ UNCHANGED <<agentVars, db, disk>>
  BY DEF EndLoad
<1>2. /\ mem = Stored(disk) /\ saved_nums = <<state_num, lk_num>> /\ PreviousExists
  BY <1>1, Loaded
<1>3. NeverWarned'
  <2>1. ~ warned /\ ~ (saved_nums # <<state_num, lk_num>>)
    BY <1>2 DEF DurableInv, NeverWarned
  <2>2. warned' = (warned \/ saved_nums # <<state_num, lk_num>>) BY DEF EndLoad
  <2>3. QED BY <2>1, <2>2, Zenon DEF NeverWarned
<1>4. TablesSound(disk) /\ db = disk /\ NeverWarned BY <1>1 DEF DurableInv
<1>5. TablesSound(disk)'
  BY <1>1, <1>4 DEF TablesSound, TimesIn, LinksIn, Stored, InfoFollowers
<1>6. ReadyOK'
  BY <1>1, <1>2 DEF ReadyOK, PreviousExists, Stored, agentVars, vars, structures, sequence
<1>7. QED BY <1>1, <1>3, <1>4, <1>5, <1>6 DEF DurableInv

\* A dump begins with the memory information.
LEMMA DurableBeginDump ==
  ASSUME Transactional, DurableInv, LoadInv', BeginDump PROVE DurableInv'
<1>1. /\ phase = "running" /\ phase' = "dumping" /\ left' = mem
      /\ UNCHANGED <<agentVars, warned>>
  BY DEF BeginDump
<1>2. TablesSound(disk) /\ db = disk /\ ReadyOK /\ StorageTypes
  BY <1>1 DEF DurableInv, LoadInv
<1>3. db' = [db EXCEPT !.info = getMemoryInfo] /\ disk' = disk
  BY <1>2, IsSqlite DEF BeginDump, addMemoryInfo, Written, SqliteWrite
<1>4. pre_in # Invalid BY DEF BeginDump, Transactional
<1>5. UNCHANGED <<mem, eats, count, state_num, lk_num, pre_in, pre_out>>
  BY <1>1 DEF agentVars, vars, structures, sequence
<1>6. db'.info = getMemoryInfo' /\ db'.rows = disk'.rows
  BY <1>2, <1>3, <1>5 DEF getMemoryInfo, StorageTypes, StorageTypeOK, Tables
<1>7. DumpingOK' BY <1>1, <1>4, <1>5, <1>6 DEF DumpingOK
<1>8. TablesSound(disk)' /\ ReadyOK'
  BY <1>2, <1>3, <1>5
  DEF TablesSound, TimesIn, LinksIn, Stored, InfoFollowers, ReadyOK, PreviousExists
<1>9. QED BY <1>1, <1>7, <1>8 DEF DurableInv, NeverWarned

\* A state that is dumped has the row of what is in memory.
LEMMA DurableDumpState ==
  ASSUME Transactional, DurableInv, LoadInv', NEW s \in State, DumpState(s) PROVE DurableInv'
<1>1. /\ phase = "dumping" /\ phase' = "dumping" /\ s \in left /\ left' = left \ {s}
      /\ UNCHANGED <<agentVars, warned>>
  BY DEF DumpState
<1>2. TablesSound(disk) /\ ReadyOK /\ DumpingOK /\ StorageTypes
  BY <1>1 DEF DurableInv, LoadInv
<1>3. db' = [db EXCEPT !.rows[s] = getStateInfo(s)] /\ disk' = disk
  BY <1>2, IsSqlite DEF DumpState, Written, SqliteWrite
<1>4. UNCHANGED <<mem, eats, count, state_num, lk_num, pre_in, pre_out>>
  BY <1>1 DEF agentVars, vars, structures, sequence
<1>5. /\ db'.info = db.info
      /\ \A x \in State : db'.rows[x] = IF x = s THEN getStateInfo(s) ELSE db.rows[x]
  BY <1>2, <1>3 DEF StorageTypes, StorageTypeOK, Tables
<1>6. getMemoryInfo' = getMemoryInfo /\ \A x \in State : getStateInfo(x)' = getStateInfo(x)
  BY <1>4 DEF getMemoryInfo, getStateInfo
<1>7. \A x \in State : db'.rows[x] = IF x \in mem' \ left' THEN getStateInfo(x)' ELSE disk'.rows[x]
  <2> TAKE x \in State
  <2>1. CASE x = s BY <1>1, <1>2, <1>4, <1>5, <1>6, <2>1 DEF DumpingOK
  <2>2. CASE x # s BY <1>1, <1>2, <1>3, <1>4, <1>5, <1>6, <2>2 DEF DumpingOK
  <2>3. QED BY <2>1, <2>2
<1>8. DumpingOK' BY <1>1, <1>2, <1>4, <1>5, <1>6, <1>7 DEF DumpingOK
<1>9. TablesSound(disk)' /\ ReadyOK'
  BY <1>2, <1>3, <1>4
  DEF TablesSound, TimesIn, LinksIn, Stored, InfoFollowers, ReadyOK, PreviousExists
<1>10. QED BY <1>1, <1>8, <1>9 DEF DurableInv, NeverWarned

\* A commit makes the rows those of the memory, a failing one takes them back.
LEMMA DurableEndDump ==
  ASSUME DurableInv, LoadInv', EndDump \/ CommitFails PROVE DurableInv'
<1>1. /\ phase = "dumping" /\ phase' = "running" /\ left = {}
      /\ UNCHANGED <<agentVars, warned>> /\ db' = disk'
      /\ disk' = db \/ disk' = disk
  BY DEF EndDump, CommitFails
<1>2. TablesSound(disk) /\ ReadyOK BY <1>1 DEF DurableInv
<1>3. Stored(db) = mem /\ TablesSound(db) BY <1>1, Dumped
<1>4. UNCHANGED <<mem, pre_in>> BY <1>1 DEF agentVars, vars, structures, sequence
<1>5. ASSUME NEW tables, disk' = tables, TablesSound(tables), Stored(tables) \subseteq mem
      PROVE  TablesSound(disk)' /\ ReadyOK'
  <2>1. Stored(disk)' = Stored(tables) /\ LinksIn(disk)' = LinksIn(tables)
    BY <1>5 DEF Stored, LinksIn, TimesIn
  <2>2. TablesSound(disk)' BY <1>5, <2>1 DEF TablesSound, InfoFollowers
  <2>3. QED BY <1>2, <1>4, <1>5, <2>1, <2>2 DEF ReadyOK, PreviousExists
<1>6. TablesSound(disk)' /\ ReadyOK' BY <1>1, <1>2, <1>3, <1>5 DEF ReadyOK
<1>7. QED BY <1>1, <1>6 DEF DurableInv, NeverWarned

\* Every step keeps the invariant.
LEMMA DurableStep ==
  ASSUME ValuesFit, Transactional PROVE DurableInv /\ [StorageNext]_allVars => DurableInv'
<1> SUFFICES ASSUME DurableInv, [StorageNext]_allVars PROVE DurableInv'
  OBVIOUS
<1>1. LoadInv /\ LoadInv' BY ValuesFit, LoadedStep DEF DurableInv
<1>2. Live \/ BeginDump => DurableInv'
  BY <1>1, Transactional, DurableLive, DurableBeginDump
<1>3. BeginLoad \/ EndLoad => DurableInv' BY <1>1, DurableBeginLoad, DurableEndLoad
<1>4. ASSUME NEW s \in State, LoadState(s) PROVE DurableInv'
  BY <1>1, <1>4, ValuesFit, DurableLoadState
<1>5. ASSUME NEW s \in State, LoadMissing(s) PROVE DurableInv'
  <2>1. column(s) = s BY <1>1, ValuesFit, ColumnFits DEF LoadInv, StorageTypes
  <2>2. phase = "loading" /\ s \in left /\ s \notin Stored(db) BY <1>5, <2>1 DEF LoadMissing
  <2>3. left \subseteq Stored(disk) /\ db = disk BY <2>2 DEF DurableInv, LoadingOK
  <2>4. QED BY <2>2, <2>3
<1>6. ~ SkipLoad /\ ~ InfoFails /\ \A s \in State : ~ WriteFails(s)
  BY Transactional DEF Transactional, SkipLoad, InfoFails, WriteFails
<1>7. ASSUME NEW s \in State, DumpState(s) PROVE DurableInv'
  BY <1>1, <1>7, Transactional, DurableDumpState
<1>8. EndDump \/ CommitFails => DurableInv' BY <1>1, DurableEndDump
<1>9. CASE Restart
  <2>1. /\ phase' = "starting" /\ db' = disk /\ disk' = disk /\ warned' = warned
        /\ mem' = {} /\ pre_in' = Invalid /\ pre_out' = Invalid
    BY <1>9 DEF Restart
  <2>2. TablesSound(disk)'
    BY <2>1 DEF DurableInv, TablesSound, TimesIn, LinksIn, Stored, InfoFollowers
  <2>3. QED BY <1>1, <2>1, <2>2 DEF DurableInv, StartingOK, NeverWarned
<1>10. CASE UNCHANGED allVars
  BY <1>1, <1>10, DurableUnchanged DEF allVars, agentVars, vars, sequence, storageVars
<1>11. QED
  BY <1>2, <1>3, <1>4, <1>5, <1>6, <1>7, <1>8, <1>9, <1>10 DEF StorageNext

\* An empty storage and a new agent.
LEMMA DurableInit == StorageInit => DurableInv
<1> SUFFICES ASSUME StorageInit PROVE DurableInv OBVIOUS
<1>1. LoadInv
  <2>1. EmptyMemory BY DEF StorageInit, Init, EmptyMemory
  <2>2. NeverStale BY DEF StorageInit, Init, NeverStale
  <2>3. QED BY <2>1, <2>2, EmptyIsConsistent, StorageTypeInit DEF LoadInv
<1>2. Stored(disk) = {} /\ disk.info = NULL BY DEF StorageInit, NoTables, Stored
<1>3. TablesSound(disk) BY <1>2 DEF TablesSound
<1>4. phase = "starting" /\ db = disk /\ ~ warned /\ StartingOK
  BY DEF StorageInit, Init, StartingOK
<1>5. QED BY <1>1, <1>3, <1>4 DEF DurableInv, NeverWarned

--------------------------------------------------------------------------------
(* What follows from it.                                                      *)

\* A running agent that was killed, loaded and dumped any number of times finds
\* the state its next link starts from: "it should be existing".
THEOREM PreviousIsStored ==
  ASSUME ValuesFit, Transactional PROVE StorageSpec => []PreviousStored
<1>1. DurableInv => PreviousStored BY DEF DurableInv, ReadyOK, PreviousStored
<1>2. QED BY <1>1, ValuesFit, Transactional, DurableInit, DurableStep, PTL DEF StorageSpec

\* A load never warns that "data may have been corrupted": the counters of a dump
\* agree with what a later load counts.
THEOREM LoadNeverWarns ==
  ASSUME ValuesFit, Transactional PROVE StorageSpec => []NeverWarned
<1>1. DurableInv => NeverWarned BY DEF DurableInv
<1>2. QED BY <1>1, ValuesFit, Transactional, DurableInit, DurableStep, PTL DEF StorageSpec

\* The agent as its user sees it, and what the last dump kept.
agentSeen == IF phase = "loading" THEN <<TimesIn(disk), LastIn(disk)>>
             ELSE <<eats, <<pre_in, pre_out>>>>
diskSeen == <<TimesIn(disk), LastIn(disk)>>

\* Every step is one of the abstract storage, or none of its business.
LEMMA StepIsDurable ==
  ASSUME ValuesFit, Transactional
  PROVE  DurableInv /\ [StorageNext]_allVars => [Durable!DTNext]_(Durable!dtVars)
<1> SUFFICES ASSUME DurableInv, [StorageNext]_allVars
             PROVE  Durable!DTNext \/ UNCHANGED <<agentSeen, diskSeen>>
  BY DEF Durable!dtVars, Durable!tmVars, agentSeen, diskSeen
<1>1. TypeOK /\ StorageTypes BY DEF DurableInv, LoadInv, StorageTypes
<1>2. ASSUME UNCHANGED disk PROVE UNCHANGED diskSeen
  BY <1>2 DEF diskSeen, TimesIn, LastIn
<1>3. ASSUME UNCHANGED <<disk, phase, eats, pre_in, pre_out>>
      PROVE  UNCHANGED <<agentSeen, diskSeen>>
  BY <1>2, <1>3 DEF agentSeen, TimesIn, LastIn
<1>4. UNCHANGED agentVars => UNCHANGED <<eats, pre_in, pre_out>>
  BY DEF agentVars, vars, structures, sequence
<1>5. CASE Live
  <2>1. phase = "running" /\ UNCHANGED <<phase, disk>> BY <1>5 DEF Live, storageVars
  <2>2. \A s \in State : ~ DeleteState(s)
    BY Transactional DEF Transactional, DeleteState, May
  <2>3. CASE FirstUpdate \/ LinkUpdate
    <3>1. cur_in \in State /\ cur_out \in Action
      BY <1>1, <2>3, SequenceType DEF FirstUpdate, LinkUpdate, Stepping
    <3>2. Abstract!Observe(cur_in, cur_out) BY <1>1, <2>3, VisitIsObserve
    <3>3. Durable!Observe(cur_in, cur_out)
      BY <2>1, <3>2
      DEF Abstract!Observe, Durable!Observe, Abstract!Transition, Durable!Transition
    <3>4. Durable!TMNext BY <3>1, <3>3 DEF Durable!TMNext
    <3>5. UNCHANGED diskSeen BY <1>2, <2>1
    <3>6. QED BY <3>4, <3>5 DEF Durable!DTNext, Durable!Live, diskSeen
  <2>4. CASE LostUpdate \/ \E st \in State, out \in Action : Process(st, out)
    <3>1. UNCHANGED <<eats, pre_in, pre_out>>
      BY <2>4 DEF LostUpdate, Process, structures, sequence
    <3>2. QED BY <1>3, <2>1, <3>1
  <2>5. QED BY <1>5, <2>2, <2>3, <2>4 DEF Live, AgentStep
<1>6. CASE BeginLoad
  <2>1. phase' = "loading" /\ disk' = disk BY <1>6 DEF BeginLoad
  <2>2. agentSeen' = diskSeen /\ diskSeen' = diskSeen
    BY <1>2, <2>1 DEF agentSeen, diskSeen, TimesIn, LastIn
  <2>3. Durable!Load BY <2>1, <2>2 DEF Durable!Load, agentSeen, diskSeen
  <2>4. QED BY <2>3 DEF Durable!DTNext
<1>7. ASSUME NEW s \in State, LoadState(s) PROVE UNCHANGED <<agentSeen, diskSeen>>
  <2>1. phase = "loading" /\ UNCHANGED <<phase, disk>> BY <1>7 DEF LoadState
  <2>2. QED BY <1>2, <2>1 DEF agentSeen, TimesIn, LastIn
<1>8. ASSUME NEW s \in State, LoadMissing(s) PROVE UNCHANGED <<agentSeen, diskSeen>>
  <2>1. UNCHANGED <<disk, phase, eats, pre_in, pre_out>>
    BY <1>8 DEF LoadMissing, structures, sequence, storageVars
  <2>2. QED BY <1>3, <2>1
<1>9. CASE EndLoad
  <2>1. phase = "loading" /\ left = {} /\ phase' = "running" /\ disk' = disk
        /\ UNCHANGED agentVars
    BY <1>9 DEF EndLoad
  <2>2. eats = TimesIn(disk) /\ <<pre_in, pre_out>> = LastIn(disk) BY <2>1, Loaded
  <2>3. UNCHANGED agentSeen BY <1>4, <2>1, <2>2 DEF agentSeen
  <2>4. QED BY <1>2, <2>1, <2>3
<1>10. CASE BeginDump
  <2>1. phase = "running" /\ phase' = "dumping" /\ UNCHANGED agentVars
    BY <1>10 DEF BeginDump
  <2>2. disk' = disk
    BY <1>1, <1>10, Transactional, IsSqlite DEF BeginDump, addMemoryInfo, Written, SqliteWrite
  <2>3. UNCHANGED agentSeen BY <1>4, <2>1 DEF agentSeen
  <2>4. QED BY <1>2, <2>2, <2>3
<1>11. ASSUME NEW s \in State, DumpState(s) PROVE UNCHANGED <<agentSeen, diskSeen>>
  <2>1. disk' = disk
    BY <1>1, <1>11, Transactional, IsSqlite DEF DumpState, Written, SqliteWrite
  <2>2. QED BY <1>3, <1>4, <1>11, <2>1 DEF DumpState
<1>12. CASE EndDump
  <2>1. phase = "dumping" /\ left = {} /\ phase' = "running" /\ disk' = db
        /\ UNCHANGED agentVars
    BY <1>12 DEF EndDump
  <2>2. TimesIn(db) = eats /\ LastIn(db) = <<pre_in, pre_out>> BY <2>1, Dumped
  <2>3. diskSeen' = <<eats, <<pre_in, pre_out>>>>
    BY <2>1, <2>2 DEF diskSeen, TimesIn, LastIn
  <2>4. Durable!Dump
    BY <1>4, <2>1, <2>3 DEF Durable!Dump, Durable!tmVars, diskSeen
  <2>5. QED BY <2>4 DEF Durable!DTNext
<1>13. CASE CommitFails
  <2>1. phase = "dumping" /\ phase' = "running" /\ disk' = disk /\ UNCHANGED agentVars
    BY <1>13 DEF CommitFails
  <2>2. UNCHANGED agentSeen BY <1>4, <2>1 DEF agentSeen
  <2>3. QED BY <1>2, <2>1, <2>2
<1>14. CASE Restart
  <2>1. /\ phase' = "starting" /\ disk' = disk /\ eats' = [t \in Transition |-> 0]
        /\ pre_in' = Invalid /\ pre_out' = Invalid
    BY <1>14 DEF Restart
  <2>2. UNCHANGED diskSeen BY <1>2, <2>1
  <2>3. Durable!Crash
    BY <2>1, <2>2 DEF Durable!Crash, Durable!Transition, Transition, diskSeen
  <2>4. QED BY <2>3 DEF Durable!DTNext
<1>15. ~ SkipLoad /\ ~ InfoFails /\ \A s \in State : ~ WriteFails(s)
  BY Transactional DEF Transactional, SkipLoad, InfoFails, WriteFails
<1>16. CASE UNCHANGED allVars
  BY <1>3, <1>4, <1>16 DEF allVars, storageVars
<1>17. QED
  BY <1>5, <1>6, <1>7, <1>8, <1>9, <1>10, <1>11, <1>12, <1>13, <1>14, <1>15, <1>16
  DEF StorageNext

\* Dump, load and crash are one step each to the user: a load brings back what
\* the last committed dump kept, whole, and a crash at any point between two
\* statements loses nothing of it.
THEOREM StorageIsDurable ==
  ASSUME ValuesFit, Transactional PROVE StorageSpec => RefinesDurableTransitions
<1>1. StorageInit => Durable!DTInit
  <2> SUFFICES ASSUME StorageInit PROVE Durable!DTInit OBVIOUS
  <2>1. /\ phase = "starting" /\ eats = [t \in Transition |-> 0]
        /\ pre_in = Invalid /\ pre_out = Invalid /\ disk = NoTables
    BY DEF StorageInit, Init
  <2>2. TimesIn(disk) = [t \in Transition |-> 0]
    BY <2>1, TransitionParts DEF TimesIn, NoTables
  <2>3. LastIn(disk) = <<Invalid, Invalid>> BY <2>1 DEF LastIn, NoTables
  <2>4. QED
    BY <2>1, <2>2, <2>3
    DEF Durable!DTInit, Durable!TMInit, Durable!tmVars, Durable!Transition, Transition
<1>2. QED
  BY <1>1, ValuesFit, Transactional, DurableInit, DurableStep, StepIsDurable, PTL
  DEF StorageSpec, RefinesDurableTransitions, Durable!DTSpec

--------------------------------------------------------------------------------
(* The path that is stored.                                                   *)

\* The visits the tables count.
CountsIn(tables) == [s \in State |->
  IF tables.rows[s] = NULL THEN 0 ELSE tables.rows[s].count]

\* Visits, times and a last state are those of one path: what OnePath says of
\* the memory, and NothingCounted before the first step, said of any counts.
IsPath(visits, times, end) ==
  /\ \A s \in State : visits[s] = SumOver(times, From(s)) + (IF s = end THEN 1 ELSE 0)
  /\ end # Invalid =>
       \E first \in State : \A s \in State :
         visits[s] = SumOver(times, Into(s)) + (IF s = first THEN 1 ELSE 0)
  /\ end = Invalid => \A s \in State : visits[s] = 0 /\ \A t \in Transition : times[t] = 0

\* What is stored is a path, of which a load that is under way has taken the rows
\* that are done; and so is what is in memory otherwise: the inductive invariant.
PathStoredInv ==
  /\ DurableInv
  /\ IsPath(CountsIn(disk), TimesIn(disk), LastIn(disk)[1])
  /\ phase # "loading" => IsPath(count, eats, pre_in)
  /\ phase = "loading" => \A s \in Stored(disk) \ left : count[s] = CountsIn(disk)[s]

\* That is what the invariant of the agent says.
LEMMA MemoryIsPath ==
  /\ IsPath(count, eats, pre_in) <=> OnePath /\ (pre_in = Invalid => NothingCounted)
  /\ IsPath(count', eats', pre_in') <=> (OnePath /\ (pre_in = Invalid => NothingCounted))'
<1>1. \A s \in State : TimesLeft(s) = SumOver(eats, From(s)) /\ TimesEntered(s) = SumOver(eats, Into(s))
  BY PathSums
<1>2. \A s \in State :
        /\ TimesLeft(s)' = SumOver(eats', From(s))
        /\ TimesEntered(s)' = SumOver(eats', Into(s))
  BY PathSums
<1>3. QED BY <1>1, <1>2 DEF IsPath, OnePath, NothingCounted

\* A path is one of whatever has its visits, its times and its end.
LEMMA SamePath ==
  ASSUME NEW visits, NEW times, NEW end, IsPath(visits, times, end),
         NEW visits1, NEW times1, NEW end1,
         \A s \in State : visits1[s] = visits[s], times1 = times, end1 = end
  PROVE  IsPath(visits1, times1, end1)
BY DEF IsPath

\* A step that leaves alone what is stored and what is in memory, outside a load.
LEMMA PathKept ==
  ASSUME PathStoredInv, DurableInv', UNCHANGED <<disk, count, eats, pre_in>>,
         phase # "loading", phase' # "loading"
  PROVE  PathStoredInv'
<1>1. /\ CountsIn(disk)' = CountsIn(disk) /\ TimesIn(disk)' = TimesIn(disk)
      /\ LastIn(disk)' = LastIn(disk)
  BY DEF CountsIn, TimesIn, LastIn
<1>2. QED BY <1>1 DEF PathStoredInv, IsPath

\* A step of a running agent goes on along its path.
LEMMA PathLive ==
  ASSUME Transactional, PathStoredInv, DurableInv', Live PROVE PathStoredInv'
<1>1. phase = "running" /\ phase' = "running" /\ UNCHANGED disk BY DEF Live, storageVars
<1>2. \A s \in State : ~ DeleteState(s) BY DEF Transactional, DeleteState, May
<1>3. CASE FirstUpdate \/ LinkUpdate
  <2>1. PathInv
    BY <1>1, MemoryIsPath DEF PathStoredInv, PathInv, DurableInv, LoadInv, StorageTypes
  <2>2. OnePath' /\ pre_in' # Invalid BY <1>3, <2>1, PathUpdate
  <2>3. IsPath(count', eats', pre_in') BY <2>2, MemoryIsPath
  <2>4. CountsIn(disk)' = CountsIn(disk) /\ TimesIn(disk)' = TimesIn(disk)
        /\ LastIn(disk)' = LastIn(disk)
    BY <1>1 DEF CountsIn, TimesIn, LastIn
  <2>5. IsPath(count, eats, pre_in)' BY <2>3 DEF IsPath
  <2>6. QED BY <1>1, <2>4, <2>5 DEF PathStoredInv, IsPath
<1>4. CASE LostUpdate \/ \E st \in State, out \in Action : Process(st, out)
  <2>1. UNCHANGED <<count, eats, pre_in>>
    BY <1>4 DEF LostUpdate, Process, structures, sequence
  <2>2. QED BY <1>1, <2>1, PathKept
<1>5. QED BY <1>2, <1>3, <1>4 DEF Live, AgentStep

\* A load takes the visits of a state from its row, and no later row changes them.
LEMMA PathLoadState ==
  ASSUME ValuesFit, PathStoredInv, DurableInv', NEW s \in State, LoadState(s)
  PROVE  PathStoredInv'
<1> DEFINE info == db.rows[s]
<1>1. /\ phase = "loading" /\ phase' = "loading" /\ left' = left \ {s} /\ UNCHANGED disk
  BY DEF LoadState
<1>2. LoadingOK /\ db = disk /\ StorageTypes BY <1>1 DEF PathStoredInv, DurableInv, LoadInv
<1>3. s \in left /\ Build(s, info) /\ s \in Stored(disk) BY <1>2, LoadedRow
<1>4. /\ CountsIn(disk)' = CountsIn(disk) /\ TimesIn(disk)' = TimesIn(disk)
      /\ LastIn(disk)' = LastIn(disk) /\ Stored(disk)' = Stored(disk)
  BY <1>1 DEF CountsIn, TimesIn, LastIn, Stored
<1>5. ASSUME NEW x \in Stored(disk) \ left' PROVE count'[x] = CountsIn(disk)[x]
  <2>1. x \in State BY DEF Stored
  <2>2. CASE x = s
    <3>1. count'[s] = info.count BY <1>3 DEF Build
    <3>2. CountsIn(disk)[s] = info.count BY <1>2, <1>3 DEF CountsIn, Stored
    <3>3. QED BY <2>2, <3>1, <3>2
  <2>3. CASE x # s
    <3>1. x \in Stored(disk) \ left BY <1>1, <2>3
    <3>2. x \in mem BY <1>2, <3>1 DEF LoadingOK
    <3>3. count'[x] = count[x] BY <1>3, <2>1, <2>3, <3>2 DEF Build
    <3>4. QED BY <1>1, <3>1, <3>3 DEF PathStoredInv
  <2>4. QED BY <2>2, <2>3
<1> HIDE DEF info
<1>6. IsPath(CountsIn(disk), TimesIn(disk), LastIn(disk)[1])'
  BY <1>4 DEF PathStoredInv, IsPath
<1>7. QED BY <1>1, <1>4, <1>5, <1>6 DEF PathStoredInv

\* At the end of a load the path in memory is the one that was stored.
LEMMA PathEndLoad ==
  ASSUME PathStoredInv, DurableInv', EndLoad PROVE PathStoredInv'
<1>1. /\ phase = "loading" /\ left = {} /\ phase' = "running"
      /\ UNCHANGED <<disk, count, eats, pre_in>>
  BY DEF EndLoad, agentVars, vars, structures, sequence
<1>2. /\ mem = Stored(disk) /\ eats = TimesIn(disk) /\ <<pre_in, pre_out>> = LastIn(disk)
  BY <1>1, Loaded DEF PathStoredInv
<1>3. \A s \in State : count[s] = CountsIn(disk)[s]
  <2> TAKE s \in State
  <2>1. CASE s \in Stored(disk) BY <1>1, <2>1 DEF PathStoredInv
  <2>2. CASE s \notin Stored(disk)
    <3>1. count[s] = 0
      BY <1>2, <2>2
      DEF PathStoredInv, DurableInv, LoadInv, LoadedGraphConsistent, GraphConsistent, NothingLeft
    <3>2. CountsIn(disk)[s] = 0 BY <2>2 DEF CountsIn, Stored
    <3>3. QED BY <3>1, <3>2
  <2>3. QED BY <2>1, <2>2
<1>4. pre_in = LastIn(disk)[1] BY <1>2
<1>5. IsPath(count, eats, pre_in)
  BY <1>2, <1>3, <1>4, SamePath DEF PathStoredInv
<1>6. IsPath(count, eats, pre_in)' BY <1>1, <1>5 DEF IsPath
<1>7. CountsIn(disk)' = CountsIn(disk) /\ TimesIn(disk)' = TimesIn(disk)
      /\ LastIn(disk)' = LastIn(disk)
  BY <1>1 DEF CountsIn, TimesIn, LastIn
<1>8. QED BY <1>1, <1>6, <1>7 DEF PathStoredInv, IsPath

\* A commit stores the path in memory; taken back, the one stored before remains.
LEMMA PathEndDump ==
  ASSUME PathStoredInv, DurableInv', EndDump \/ CommitFails PROVE PathStoredInv'
<1>1. /\ phase = "dumping" /\ phase' = "running" /\ left = {}
      /\ UNCHANGED <<count, eats, pre_in>> /\ (disk' = db \/ disk' = disk)
  BY DEF EndDump, CommitFails, agentVars, vars, structures, sequence
<1>2. /\ Stored(db) = mem /\ TimesIn(db) = eats /\ LastIn(db) = <<pre_in, pre_out>>
  BY <1>1, Dumped DEF PathStoredInv
<1>3. \A s \in State : CountsIn(db)[s] = count[s]
  <2> TAKE s \in State
  <2>1. CASE s \in mem
    <3>1. db.rows[s] = getStateInfo(s)
      BY <1>1, <2>1 DEF PathStoredInv, DurableInv, DumpingOK
    <3>2. db.rows[s] # NULL BY <1>2, <2>1 DEF Stored
    <3>3. QED BY <3>1, <3>2 DEF CountsIn, getStateInfo
  <2>2. CASE s \notin mem
    <3>1. count[s] = 0
      BY <2>2
      DEF PathStoredInv, DurableInv, LoadInv, LoadedGraphConsistent, GraphConsistent, NothingLeft
    <3>2. CountsIn(db)[s] = 0 BY <1>2, <2>2 DEF CountsIn, Stored
    <3>3. QED BY <3>1, <3>2
  <2>3. QED BY <2>1, <2>2
<1>4. IsPath(CountsIn(db), TimesIn(db), LastIn(db)[1])
  <2>1. LastIn(db)[1] = pre_in BY <1>2
  <2>2. QED BY <1>1, <1>2, <1>3, <2>1, SamePath DEF PathStoredInv
<1>5. CASE disk' = disk BY <1>1, <1>5, PathKept
<1>6. CASE disk' = db
  <2>1. CountsIn(disk)' = CountsIn(db) /\ TimesIn(disk)' = TimesIn(db)
        /\ LastIn(disk)' = LastIn(db)
    BY <1>6 DEF CountsIn, TimesIn, LastIn
  <2>2. IsPath(count, eats, pre_in)' BY <1>1 DEF PathStoredInv, IsPath
  <2>3. QED BY <1>1, <1>4, <2>1, <2>2 DEF PathStoredInv, IsPath
<1>7. QED BY <1>1, <1>5, <1>6

\* No visits, no times and no state.
LEMMA NoPath ==
  ASSUME NEW visits, NEW times, \A s \in State : visits[s] = 0,
         \A t \in Transition : times[t] = 0
  PROVE  IsPath(visits, times, Invalid)
<1>1. \A s \in State : SumOver(times, From(s)) = 0
  <2> TAKE s \in State
  <2>1. IsFiniteSet(From(s)) /\ \A t \in From(s) : times[t] = 0 BY PathSums DEF From
  <2>2. QED BY <2>1, SumOfZeros
<1>2. QED BY <1>1 DEF IsPath

\* What a program begins with is nothing, of which the storage knows what it did.
LEMMA PathRestart ==
  ASSUME PathStoredInv, DurableInv', Restart PROVE PathStoredInv'
<1>1. /\ phase' = "starting" /\ UNCHANGED disk /\ pre_in' = Invalid
      /\ \A s \in State : count'[s] = 0
      /\ \A t \in Transition : eats'[t] = 0
  BY DEF Restart
<1>2. IsPath(count', eats', pre_in') BY <1>1, NoPath
<1>3. IsPath(count, eats, pre_in)' BY <1>2 DEF IsPath
<1>4. CountsIn(disk)' = CountsIn(disk) /\ TimesIn(disk)' = TimesIn(disk)
      /\ LastIn(disk)' = LastIn(disk)
  BY <1>1 DEF CountsIn, TimesIn, LastIn
<1>5. QED BY <1>1, <1>3, <1>4 DEF PathStoredInv, IsPath

\* No row is done when a load begins.
LEMMA PathBeginLoad ==
  ASSUME PathStoredInv, DurableInv', BeginLoad PROVE PathStoredInv'
<1>1. /\ phase' = "loading" /\ left' = Stored(disk) /\ UNCHANGED disk
  BY DEF BeginLoad, PathStoredInv, DurableInv
<1>2. CountsIn(disk)' = CountsIn(disk) /\ TimesIn(disk)' = TimesIn(disk)
      /\ LastIn(disk)' = LastIn(disk) /\ Stored(disk)' = Stored(disk)
  BY <1>1 DEF CountsIn, TimesIn, LastIn, Stored
<1>3. QED BY <1>1, <1>2 DEF PathStoredInv, IsPath

\* Every step keeps the paths.
LEMMA PathStoredStep ==
  ASSUME ValuesFit, Transactional
  PROVE  PathStoredInv /\ [StorageNext]_allVars => PathStoredInv'
<1> SUFFICES ASSUME PathStoredInv, [StorageNext]_allVars PROVE PathStoredInv' OBVIOUS
<1>1. DurableInv /\ DurableInv' BY ValuesFit, Transactional, DurableStep DEF PathStoredInv
<1>2. Live => PathStoredInv' BY <1>1, Transactional, PathLive
<1>3. BeginLoad \/ EndLoad \/ Restart => PathStoredInv'
  BY <1>1, PathBeginLoad, PathEndLoad, PathRestart
<1>4. ASSUME NEW s \in State, LoadState(s) PROVE PathStoredInv'
  BY <1>1, <1>4, ValuesFit, PathLoadState
<1>5. EndDump \/ CommitFails => PathStoredInv' BY <1>1, PathEndDump
<1>6. ASSUME NEW s \in State, LoadMissing(s) PROVE PathStoredInv'
  <2>1. column(s) = s BY <1>1, ValuesFit, ColumnFits DEF DurableInv, LoadInv, StorageTypes
  <2>2. phase = "loading" /\ s \in left /\ s \notin Stored(db) BY <1>6, <2>1 DEF LoadMissing
  <2>3. left \subseteq Stored(disk) /\ db = disk BY <1>1, <2>2 DEF DurableInv, LoadingOK
  <2>4. QED BY <2>2, <2>3
<1>7. engine = "Sqlite" BY <1>1, Transactional, IsSqlite DEF DurableInv, LoadInv
<1>8. BeginDump \/ (\E s \in State : DumpState(s)) => PathStoredInv'
  <2> SUFFICES ASSUME BeginDump \/ \E s \in State : DumpState(s) PROVE PathStoredInv' OBVIOUS
  <2>1. UNCHANGED <<disk, agentVars>> /\ phase # "loading" /\ phase' # "loading"
    BY <1>7 DEF BeginDump, addMemoryInfo, DumpState, Written, SqliteWrite
  <2>2. UNCHANGED <<count, eats, pre_in>> BY <2>1 DEF agentVars, vars, structures, sequence
  <2>3. QED BY <1>1, <2>1, <2>2, PathKept
<1>9. ~ SkipLoad /\ ~ InfoFails /\ \A s \in State : ~ WriteFails(s)
  BY Transactional DEF Transactional, SkipLoad, InfoFails, WriteFails
<1>10. CASE UNCHANGED allVars
  <2>1. UNCHANGED <<disk, phase, left, count, eats, pre_in>>
    BY <1>10 DEF allVars, agentVars, vars, structures, sequence, storageVars
  <2>2. CountsIn(disk)' = CountsIn(disk) /\ TimesIn(disk)' = TimesIn(disk)
        /\ LastIn(disk)' = LastIn(disk) /\ Stored(disk)' = Stored(disk)
    BY <2>1 DEF CountsIn, TimesIn, LastIn, Stored
  <2>3. QED BY <1>1, <2>1, <2>2 DEF PathStoredInv, IsPath
<1>11. QED
  BY <1>2, <1>3, <1>4, <1>5, <1>6, <1>8, <1>9, <1>10 DEF StorageNext

\* Dumped, lost and loaded again, however often, and with whatever crashes and
\* failing commits in between, the memory holds one path, from the first state of
\* the agent to its last: no visit and no transition is counted twice or lost.
THEOREM StoredPathIsOne ==
  ASSUME ValuesFit, Transactional PROVE StorageSpec => []PathStored
<1>1. StorageInit => PathStoredInv
  <2> SUFFICES ASSUME StorageInit PROVE PathStoredInv OBVIOUS
  <2>1. /\ phase = "starting" /\ disk = NoTables /\ pre_in = Invalid
        /\ \A s \in State : count[s] = 0
        /\ \A t \in Transition : eats[t] = 0
    BY DEF StorageInit, Init
  <2>2. IsPath(count, eats, pre_in) BY <2>1, NoPath
  <2>3. \A s \in State : CountsIn(disk)[s] = 0 BY <2>1 DEF CountsIn, NoTables
  <2>4. \A t \in Transition : TimesIn(disk)[t] = 0
    <3> TAKE t \in Transition
    <3>1. disk.rows[t[1]] = NULL BY <2>1, TransitionParts DEF NoTables
    <3>2. QED BY <3>1, TimesAre
  <2>5. LastIn(disk)[1] = Invalid BY <2>1 DEF LastIn, NoTables
  <2>6. IsPath(CountsIn(disk), TimesIn(disk), LastIn(disk)[1]) BY <2>3, <2>4, <2>5, NoPath
  <2>7. QED BY <2>1, <2>2, <2>6, DurableInit DEF PathStoredInv
<1>2. PathStoredInv => PathStored BY MemoryIsPath DEF PathStoredInv, PathStored
<1>3. QED BY <1>1, <1>2, ValuesFit, Transactional, PathStoredStep, PTL DEF StorageSpec
================================================================================
