----------------------------- MODULE MemoryStorage -----------------------------
(***************************************************************************)
(* An agent and the storage it is dumped to and loaded from:               *)
(* dumpMemoryToStorage() and loadMemoryFromStorage() of CSOSAgent, row by  *)
(* row, against the storages Sqlite (one transaction for a dump) and Mysql *)
(* (tables of the MyISAM engine, every row kept as it is written).  The    *)
(* program may be killed at any point and started again.                   *)
(*                                                                         *)
(* The agent is that of AgentMemory; of the calls of a program only those  *)
(* that change what a dump finds are kept.  Payoffs, the discount rate and *)
(* the accuracy travel with the rows and are left out.                     *)
(***************************************************************************)
EXTENDS AgentPath

CONSTANTS
  Engines,         \* the kinds of storage there are: "Sqlite", "Mysql"
  Bits,            \* the width of the int sqlite3_column_int() returns: 32 in
                   \* the build, where values have 64
  Failures,        \* what may go wrong: "crash", the program is killed; "write",
                   \* a statement fails; "commit", the end of a transaction does
  Habits           \* what a program may do: "no_load", start without loading;
                   \* "blank_dump", dump before the first step

ASSUME EnginesAssumption == Engines \subseteq {"Sqlite", "Mysql"}
ASSUME ValuesAreIntegers == State \subseteq Int /\ Action \subseteq Int /\ Invalid \in Int
ASSUME BitsAssumption == Bits \in Nat \ {0}
ASSUME FailuresAssumption == Failures \subseteq {"crash", "write", "commit"}
ASSUME DeletionsBetweenSteps == "delete" \notin Reenter
ASSUME HabitsAssumption == Habits \subseteq {"no_load", "blank_dump"}

VARIABLES
  engine,          \* the kind of storage the program was given
  db,              \* the tables as the open connection sees them: one row for
                   \* a state, and the newest row of the memory information
  disk,            \* the tables as a crash leaves them
  phase,           \* "starting", "loading", "running" or "dumping"
  left,            \* the rows still to load, or the states still to dump
  saved_nums,      \* saved_state_num and saved_lk_num of the load under way
  warned           \* whether a load found other numbers than these

agentVars == vars
storageVars == <<engine, db, disk, phase, left, saved_nums, warned>>
allVars == <<agentVars, storageVars>>

\* Memory_Info: state_num and lk_num, last_st and last_act.
MemoryInfo == [nums : Int \X Int,
               last : (State \X Action) \cup {<<Invalid, Invalid>>}]

\* A row is told from none.
ASSUME NullIsNoRow == NULL \notin Info \cup MemoryInfo

NoTables == [rows |-> [s \in State |-> NULL], info |-> NULL]
Stored(tables) == {s \in State : tables.rows[s] # NULL}

--------------------------------------------------------------------------------
(* As in AgentMemory, a definition may stand next to a variant with one       *)
(* plausible slip, which no specification uses.                               *)

\* What a column reads as: sqlite3_column_int() takes the low bits of the value,
\* as a signed number; the text of a column of Mysql is converted whole.
SqliteColumn(v) == ((v + 2^(Bits - 1)) % 2^Bits) - 2^(Bits - 1)
MysqlColumn(v) == v
column(v) == IF engine = "Sqlite" THEN SqliteColumn(v) ELSE MysqlColumn(v)

\* getStateInfo() of a state in memory.
getStateInfo(s) ==
  [count |-> count[s],
   eats |-> [an \in Action \X State |-> eats[<<s, an[1], an[2]>>]]]

\* One statement that writes: final in the tables of Mysql, part of the
\* transaction in Sqlite.
MysqlWrite(tables) == db' = tables /\ disk' = tables
SqliteWrite(tables) == db' = tables /\ UNCHANGED disk
Written(tables) == IF engine = "Sqlite" THEN SqliteWrite(tables) ELSE MysqlWrite(tables)

\* The memory information of the agent, and the row it becomes in the storage.
getMemoryInfo == [nums |-> <<state_num, lk_num>>, last |-> <<pre_in, pre_out>>]
addMemoryInfo(info) == Written([db EXCEPT !.info = info])

StorageInit ==
  /\ Init
  /\ engine \in Engines
  /\ db = NoTables /\ disk = NoTables
  /\ phase = "starting" /\ left = {}
  /\ saved_nums = <<0, 0>> /\ warned = FALSE

--------------------------------------------------------------------------------
\* open(O_READ) and getMemoryInfo(): the time sequence continues from the
\* newest memory information, if there is one.
BeginLoad ==
  /\ phase = "starting"
  /\ phase' = "loading" /\ left' = Stored(db)
  /\ IF db.info = NULL
     THEN saved_nums' = <<0, 0>> /\ UNCHANGED <<pre_in, pre_out>>
     ELSE /\ saved_nums' = db.info.nums
          /\ pre_in' = column(db.info.last[1]) /\ pre_out' = column(db.info.last[2])
  /\ UNCHANGED <<structures, cur_mst, cur_in, cur_out, learning_mode, fault>>
  /\ UNCHANGED <<db, disk, warned, engine>>

\* A program that starts without a load, or whose open(O_READ) fails.
SkipLoad ==
  /\ phase = "starting" /\ "no_load" \in Habits
  /\ phase' = "running"
  /\ UNCHANGED <<agentVars, db, disk, left, saved_nums, warned, engine>>

\* loadState() of the state the next row reads as.
BuiltUnlessKnown(s, info) == AddStateInfo(s, info) \/ (s \in mem /\ UNCHANGED agentVars)
Built(s, info) == AddStateInfo(s, info) \/ UpdateStateInfo(s, info)
LoadState(s) ==
  /\ phase = "loading" /\ Running /\ s \in left
  /\ column(s) \in Stored(db)
  /\ Built(column(s), db.rows[column(s)])
  /\ left' = left \ {s}
  /\ UNCHANGED <<db, disk, phase, saved_nums, warned, engine>>

\* loadState() of a state that has no row: ERROR() exits.
LoadMissing(s) ==
  /\ phase = "loading" /\ Running /\ s \in left
  /\ column(s) \notin Stored(db)
  /\ fault' = "exit"
  /\ UNCHANGED <<structures, cur_mst, sequence, learning_mode, storageVars>>

\* The numbers are compared, a difference is only warned of.
EndLoad ==
  /\ phase = "loading" /\ Running /\ left = {}
  /\ warned' = (warned \/ saved_nums # <<state_num, lk_num>>)
  /\ phase' = "running"
  /\ UNCHANGED <<agentVars, db, disk, left, saved_nums, engine>>

--------------------------------------------------------------------------------
\* open(O_WRITE) and addMemoryInfo(), which adds a row that getMemoryInfo()
\* prefers to the older ones.
BeginDump ==
  /\ phase = "running" /\ Running /\ cur_in = Invalid
  /\ pre_in = Invalid => "blank_dump" \in Habits
  /\ addMemoryInfo(getMemoryInfo)
  /\ phase' = "dumping" /\ left' = mem
  /\ UNCHANGED <<agentVars, saved_nums, warned, engine>>

\* The statement of addMemoryInfo() fails: the dump goes on without it.
InfoFails ==
  /\ phase = "running" /\ Running /\ cur_in = Invalid /\ "write" \in Failures
  /\ pre_in = Invalid => "blank_dump" \in Habits
  /\ phase' = "dumping" /\ left' = mem
  /\ UNCHANGED <<agentVars, db, disk, saved_nums, warned, engine>>

\* updateStateInfo() of the storage for a state that has a row, addStateInfo()
\* for another.
DumpNew(s) ==
  /\ phase = "dumping" /\ s \in left
  /\ Written(IF s \in Stored(db) THEN db ELSE [db EXCEPT !.rows[s] = getStateInfo(s)])
  /\ left' = left \ {s}
  /\ UNCHANGED <<agentVars, phase, saved_nums, warned, engine>>
DumpState(s) ==
  /\ phase = "dumping" /\ s \in left
  /\ Written([db EXCEPT !.rows[s] = getStateInfo(s)])
  /\ left' = left \ {s}
  /\ UNCHANGED <<agentVars, phase, saved_nums, warned, engine>>

\* A statement fails: a message is printed and the dump goes on.
WriteFails(s) ==
  /\ phase = "dumping" /\ s \in left /\ "write" \in Failures
  /\ left' = left \ {s}
  /\ UNCHANGED <<agentVars, db, disk, phase, saved_nums, warned, engine>>

\* close(): the transaction of Sqlite ends.
EndDumpEarly ==
  /\ phase = "dumping" /\ Cardinality(left) < 2
  /\ disk' = db
  /\ phase' = "running" /\ left' = {}
  /\ UNCHANGED <<agentVars, db, saved_nums, warned, engine>>
EndDump ==
  /\ phase = "dumping" /\ left = {}
  /\ disk' = db
  /\ phase' = "running" /\ left' = {}
  /\ UNCHANGED <<agentVars, db, saved_nums, warned, engine>>

\* END TRANSACTION fails, which nobody looks at: closing takes the dump back.
CommitFails ==
  /\ phase = "dumping" /\ left = {}
  /\ engine = "Sqlite" /\ "commit" \in Failures
  /\ db' = disk
  /\ phase' = "running"
  /\ UNCHANGED <<agentVars, disk, left, saved_nums, warned, engine>>

\* The program ends between two steps, or is killed, and is started again with
\* a new agent.
Restart ==
  /\ Running
  /\ "crash" \in Failures \/ (phase = "running" /\ cur_in = Invalid)
  /\ mem' = {}
  /\ eats' = [t \in Transition |-> 0]
  /\ blist' = [n \in State |-> {}]
  /\ count' = [s \in State |-> 0]
  /\ state_num' = 0 /\ lk_num' = 0
  /\ cur_mst' = NULL
  /\ cur_in' = Invalid /\ cur_out' = Invalid
  /\ pre_in' = Invalid /\ pre_out' = Invalid
  /\ learning_mode' = "ONLINE"
  /\ fault' = "none"
  /\ db' = disk
  /\ phase' = "starting" /\ left' = {}
  /\ UNCHANGED <<disk, saved_nums, warned, engine>>

\* A step of the agent, or the deletion of a state.
AgentStep ==
  \/ \E st \in State, out \in Action : Process(st, out)
  \/ FirstUpdate
  \/ LinkUpdate
  \/ LostUpdate
  \/ \E s \in State : AsksDelete(s) /\ DeleteState(s)
Live == phase = "running" /\ AgentStep /\ UNCHANGED storageVars

StorageNext ==
  \/ Live
  \/ BeginLoad
  \/ SkipLoad
  \/ \E s \in State : LoadState(s)
  \/ \E s \in State : LoadMissing(s)
  \/ EndLoad
  \/ BeginDump
  \/ InfoFails
  \/ \E s \in State : DumpState(s)
  \/ \E s \in State : WriteFails(s)
  \/ EndDump
  \/ CommitFails
  \/ Restart

StorageSpec == StorageInit /\ [][StorageNext]_allVars

--------------------------------------------------------------------------------
\* Every variable of the storage holds a value the program can give it.
Tables == [rows : [State -> Info \cup {NULL}], info : MemoryInfo \cup {NULL}]
StorageTypeOK ==
  /\ engine \in Engines
  /\ db \in Tables /\ disk \in Tables
  /\ phase \in {"starting", "loading", "running", "dumping"}
  /\ left \subseteq State
  /\ saved_nums \in Int \X Int
  /\ warned \in BOOLEAN

\* The state the next step links from "should be existing", also after a load.
PreviousStored == phase = "running" => PreviousExists

\* Dumped, lost and loaded again, the memory still holds one path: the count of
\* a state, the counts of its links and the last state were all kept.
PathStored == phase # "loading" => OnePath

\* The numbers of states and links in the memory information are those of the
\* rows: only a "corrupted" storage makes a load warn.
NeverWarned == ~ warned

\* Whatever a crash or a failing statement left in the storage, the graph that
\* is built from it is closed, can be walked both ways and is counted right.
LoadedGraphConsistent == GraphConsistent /\ BlistExact /\ CountersExact

--------------------------------------------------------------------------------
\* A dump, a load and a crash are one step each for the user.  While a load is
\* under way the agent already stands for what it is going to hold.
TimesIn(tables) == [t \in Transition |->
  IF tables.rows[t[1]] = NULL THEN 0 ELSE tables.rows[t[1]].eats[<<t[2], t[3]>>]]
LastIn(tables) == IF tables.info = NULL THEN <<Invalid, Invalid>> ELSE tables.info.last

Durable == INSTANCE DurableTransitions
  WITH times <- IF phase = "loading" THEN TimesIn(disk) ELSE eats,
       last <- IF phase = "loading" THEN LastIn(disk) ELSE <<pre_in, pre_out>>,
       archive <- <<TimesIn(disk), LastIn(disk)>>,
       Given <- {}

RefinesDurableTransitions == Durable!DTSpec
================================================================================
