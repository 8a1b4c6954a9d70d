---------------------------- MODULE StorageSessions ----------------------------
(***************************************************************************)
(* Two programs at one storage: an agent that is dumped to it again and     *)
(* again while it learns, and a reader with a Storage object of its own,    *)
(* which loads the memory (loadMemoryFromStorage()) or draws it, whole      *)
(* (view()) or one state of it (viewState()), as sgviewer does.  Every      *)
(* statement on the tables is a step, so that a session of the reader may   *)
(* meet dumps half way.  The storage is Sqlite, Mysql, or another agent of  *)
(* the same thread, and then sessions and dumps exclude each other.         *)
(*                                                                         *)
(* MemoryStorage has the crashes and the restarts of a program alone with   *)
(* its storage; here a row is the set of links of a state and a figure for  *)
(* its counts and payoffs, and what a session does with its connection and  *)
(* its index is kept.  The agent learns and deletes nothing.                *)
(***************************************************************************)
EXTENDS Integers, FiniteSets, Sequences, SequencesExt

CONSTANTS
  State, Action,   \* the values perceived and the actions taken
  NULL,            \* no state, no row, no memory information
  Engines,         \* the kinds of storage there are: "Sqlite", "Mysql", "Agent"
  Failures,        \* what may go wrong: "open", connecting; "create", a CREATE
                   \* statement; "commit", the end of a transaction; "kill", the
                   \* program that dumps is killed
  Requests,        \* the sessions asked for: <<viewer, NULL>>, the whole memory,
                   \* or <<viewer, state>>
  Bits,            \* the width of the int sqlite3_column_int() returns: 32 in
                   \* the build, where values have 64
  MaxSteps         \* bound on the steps of the agent

Viewer == {"load", "dot", "cdot", "print"}

ASSUME ValuesAreIntegers == State \subseteq Int /\ NULL \notin State /\ IsFiniteSet(State)
ASSUME NullIsNone ==
  /\ \A row \in SUBSET (Action \X State) : row # NULL
  /\ \A graph \in [states : SUBSET State, links : SUBSET (State \X Action \X State)] : graph # NULL
ASSUME EnginesAssumption == Engines \subseteq {"Sqlite", "Mysql", "Agent"}
ASSUME FailuresAssumption == Failures \subseteq {"open", "create", "commit", "kill"}
ASSUME RequestsAssumption ==
  Requests \subseteq (Viewer \X {NULL}) \cup ((Viewer \ {"load"}) \X State)
ASSUME BitsAssumption == Bits \in Nat \ {0}
ASSUME MaxStepsAssumption == MaxSteps \in Nat

VARIABLES
  engine,          \* the kind of storage
  list, links,     \* the agent's states, newest first, and its links
  last,            \* the state it is in, NULL before its first step
  figures,         \* of each state the step in which its counts or payoffs
                   \* changed last, which stands for their values
  tables,          \* the tables as the connection of the dump sees them
  disk,            \* the tables as everybody else does
  dumper,          \* "idle", "opened", "dumping" or "dead"
  left,            \* the states still to dump, in the order of the list
  locked,          \* whether the dump has locked readers of Sqlite out
  con,             \* db_con of each program: "null", "open", "failed" (a handle
                   \* without a connection), "freed" (a handle closed before)
  misused,         \* whether a freed handle was used
  session,         \* the reader's session, see Fresh
  began, disturbed \* the states stored when the session began, and whether the
                   \* tables changed since

agentVars == <<list, links, last, figures>>
dumpVars == <<agentVars, tables, disk, dumper, left, locked>>
vars == <<engine, dumpVars, con, misused, session, began, disturbed>>

\* What the counts and payoffs of a memory were, and its last state: a dump writes
\* them all, but into different rows.
Moment(f, st) == [figures |-> f, last |-> st]
NoFigures == [s \in State |-> 0]

\* The locals of loadMemoryFromStorage(), view() or viewState(), which is the
\* state asked for or NULL for the whole memory, and current_index of the storage.
Fresh(viewer, which) ==
  [viewer |-> viewer, which |-> which, place |-> "rest",
   index |-> 0, st |-> which, info |-> NULL, moment |-> Moment(NoFigures, NULL),
   pages |-> <<>>,    \* the rows read, in order
   pending |-> {},    \* the following states whose rows are still to be read
   drawn |-> {},      \* and those whose nodes are drawn
   missed |-> FALSE,  \* whether a statement failed
   midway |-> FALSE,  \* whether the memory information, or the row of the one
                      \* state, was read while a dump of Mysql was under way
   outcome |-> "none", warned |-> FALSE]

NoTables ==
  [created |-> FALSE, rows |-> [s \in State |-> NULL], order |-> <<>>, info |-> NULL,
   figures |-> NoFigures, moment |-> Moment(NoFigures, NULL)]
Stored(t) == {s \in State : t.rows[s] # NULL}

\* A memory as a graph, and the numbers that are stored of it.
Graph(rows) ==
  LET kept == {s \in State : rows[s] # NULL} IN
  [states |-> kept \cup UNION {{l[2] : l \in rows[s]} : s \in kept},
   links |-> UNION {{<<s, l[1], l[2]>> : l \in rows[s]} : s \in kept}]
Numbers(graph) ==
  IF graph = NULL THEN <<0, 0>> ELSE <<Cardinality(graph.states), Cardinality(graph.links)>>

AtRest == session.place \in {"rest", "exited"}
Noticed == disturbed' = (disturbed \/ (~ AtRest /\ disk' # disk))

\* One thread runs both programs where the storage is an agent.
MayDump == engine = "Agent" => AtRest
MayRead == engine = "Agent" => dumper = "idle"

--------------------------------------------------------------------------------
(* As elsewhere, a definition may stand next to a variant with one plausible  *)
(* slip, which no specification uses.                                         *)

Init ==
  /\ engine \in Engines
  /\ list = <<>> /\ links = {} /\ last = NULL /\ figures = NoFigures
  /\ tables = NoTables /\ disk = NoTables
  /\ dumper = "idle" /\ left = <<>> /\ locked = FALSE
  /\ con = [side \in {"dumper", "reader"} |-> "null"] /\ misused = FALSE
  /\ session = Fresh("load", NULL)
  /\ began = {} /\ disturbed = FALSE

\* The connections that open() may leave, without and with success.
SqliteFailed(side, writing) ==
  (IF "open" \in Failures \/ ~ (writing \/ disk.created) THEN {"failed"} ELSE {})
  \cup (IF writing /\ "create" \in Failures THEN {"freed"} ELSE {})
MysqlFailed(side, writing) ==
  (IF "open" \in Failures THEN {con[side], "null", "failed"} ELSE {})
  \cup (IF ~ (writing \/ disk.created) \/ (writing /\ "create" \in Failures)
        THEN {"failed"} ELSE {})
OpenFailed(side, writing) ==
  CASE engine = "Sqlite" -> SqliteFailed(side, writing)
    [] engine = "Mysql" -> MysqlFailed(side, writing)
    [] OTHER -> {}
Opened(writing) ==
  IF engine = "Agent" THEN {"null"} ELSE IF writing \/ disk.created THEN {"open"} ELSE {}

\* close(): the handle a connection is left with.
Closed(c) == "null"

--------------------------------------------------------------------------------
(* The program that dumps.                                                    *)

\* A step of the agent: it is in a first state, or goes from the last state to a
\* next one, new or not, by a link, new or not.  That changes the counts of both,
\* and the payoffs of whatever states the update of payoffs reaches.
Steps == IF list = <<>> THEN 0 ELSE figures[last]
Learn ==
  /\ dumper = "idle" /\ MayDump /\ Steps < MaxSteps
  /\ \E n \in State, others \in SUBSET ToSet(list) :
       /\ last' = n
       /\ list' = IF n \in ToSet(list) THEN list ELSE <<n>> \o list
       /\ \/ list = <<>> /\ UNCHANGED links
          \/ list # <<>> /\ \E a \in Action : links' = links \cup {<<last, a, n>>}
       /\ figures' = [s \in State |-> IF s \in others \cup {last, n} THEN Steps + 1 ELSE figures[s]]
  /\ UNCHANGED <<engine, tables, disk, dumper, left, locked, con, misused, session, began, disturbed>>

\* A statement that writes: part of the transaction in Sqlite, seen at once in
\* the tables of Mysql and in the memory of an agent.
WrittenAtOnce(t) == tables' = t /\ disk' = t
Written(t) == tables' = t /\ disk' = IF engine = "Sqlite" THEN disk ELSE t

\* open(O_WRITE) creates the tables before the transaction begins.
OpenDump ==
  /\ dumper = "idle" /\ MayDump
  /\ \E c \in Opened(TRUE) : con' = [con EXCEPT !.dumper = c]
  /\ tables' = [tables EXCEPT !.created = TRUE] /\ disk' = tables' /\ Noticed
  /\ dumper' = "opened"
  /\ UNCHANGED <<engine, agentVars, left, locked, misused, session, began>>

\* dumpMemoryToStorage() closes a storage it could not open.
OpenDumpFails ==
  /\ dumper = "idle" /\ MayDump
  /\ \E c \in OpenFailed("dumper", TRUE) :
       IF c = "freed"
       THEN misused' = TRUE /\ dumper' = "dead" /\ con' = [con EXCEPT !.dumper = c]
       ELSE con' = [con EXCEPT !.dumper = Closed(c)] /\ UNCHANGED <<misused, dumper>>
  /\ UNCHANGED <<engine, agentVars, tables, disk, left, locked, session, began, disturbed>>

\* addMemoryInfo(), which an agent as the storage ignores.
AddMemoryInfo ==
  /\ dumper = "opened"
  /\ Written(IF engine = "Agent" THEN tables
             ELSE [tables EXCEPT !.info = [states |-> ToSet(list), links |-> links],
                                 !.moment = Moment(figures, last)])
  /\ Noticed
  /\ dumper' = "dumping" /\ left' = list
  /\ UNCHANGED <<engine, agentVars, locked, con, misused, session, began>>

getStateInfo(s) == {<<l[2], l[3]>> : l \in {l \in links : l[1] = s}}

\* addStateInfo() or updateStateInfo(): the tables of Sqlite are in the order of
\* their key, those of Mysql in the order of insertion.
ByKey(S) == {q \in SetToSeqs(S) : \A i, j \in DOMAIN q : i < j => q[i] < q[j]}
LinksPut(t, s, row) ==
  {[t EXCEPT !.rows[s] = row, !.figures[s] = IF s \in Stored(t) THEN @ ELSE figures[s],
             !.order = order] :
     order \in IF s \in Stored(t) THEN {t.order}
               ELSE IF engine = "Sqlite" THEN ByKey(Stored(t) \cup {s})
               ELSE {Append(t.order, s)}}
DatabasePut(t, s, row) ==
  {[t EXCEPT !.rows[s] = row, !.figures[s] = figures[s], !.order = order] :
     order \in IF s \in Stored(t) THEN {t.order}
               ELSE IF engine = "Sqlite" THEN ByKey(Stored(t) \cup {s})
               ELSE {Append(t.order, s)}}

\* An agent makes the following states it does not know, newest first.
AgentPut(t, s, row) ==
  LET followers == {l[2] : l \in row} \ (Stored(t) \cup {s}) IN
  {[t EXCEPT !.rows = [x \in State |-> IF x = s THEN row
                                       ELSE IF x \in followers THEN {} ELSE @[x]],
             !.figures = [x \in State |-> IF x = s THEN figures[s]
                                          ELSE IF x \in followers THEN 0 ELSE @[x]],
             !.order = new \o (IF s \in Stored(t) THEN @ ELSE <<s>> \o @)]
     : new \in SetToSeqs(followers)}

DumpState ==
  /\ dumper = "dumping" /\ left # <<>>
  /\ LET s == Head(left) IN
     \E t \in IF engine = "Agent" THEN AgentPut(tables, s, getStateInfo(s))
              ELSE DatabasePut(tables, s, getStateInfo(s)) : Written(t)
  /\ Noticed
  /\ left' = Tail(left)
  /\ UNCHANGED <<engine, agentVars, dumper, locked, con, misused, session, began>>

\* Sqlite locks readers out when it commits, or before, when its cache is full.
Lock ==
  /\ dumper = "dumping" /\ engine = "Sqlite" /\ ~ locked
  /\ locked' = TRUE
  /\ UNCHANGED <<engine, agentVars, tables, disk, dumper, left, con, misused, session, began, disturbed>>

\* close(): the transaction ends, or fails to, which nobody looks at.
EndDump(t) ==
  /\ dumper = "dumping" /\ left = <<>> /\ (engine = "Sqlite" => locked)
  /\ tables' = t /\ disk' = t /\ Noticed
  /\ dumper' = "idle" /\ locked' = FALSE
  /\ con' = [con EXCEPT !.dumper = Closed(@)]
  /\ UNCHANGED <<engine, agentVars, left, misused, session, began>>
CloseDump == EndDump(tables)
CommitFails == engine = "Sqlite" /\ "commit" \in Failures /\ EndDump(disk)

Kill ==
  /\ dumper \in {"opened", "dumping"} /\ engine # "Agent" /\ "kill" \in Failures
  /\ tables' = disk /\ left' = <<>> /\ locked' = FALSE
  /\ dumper' = "dead" /\ con' = [con EXCEPT !.dumper = "null"]
  /\ UNCHANGED <<engine, agentVars, disk, misused, session, began, disturbed>>

--------------------------------------------------------------------------------
(* The reader.  A SELECT that fails is reported and taken for one that finds  *)
(* nothing.                                                                   *)

SelectFails == engine = "Sqlite" /\ locked
InfoRead ==
  IF SelectFails THEN NULL ELSE IF engine = "Agent" THEN Graph(disk.rows) ELSE disk.info

\* What a column reads as: sqlite3_column_int() takes the low bits of the value,
\* as a signed number; the text of a column of Mysql is converted whole.
SqliteColumn(v) == ((v + 2^(Bits - 1)) % 2^Bits) - 2^(Bits - 1)
column(v) == IF engine = "Sqlite" THEN SqliteColumn(v) ELSE v

\* An agent that is a storage keeps no memory information of others, and its own
\* has no last state.  (That of a dump before the first step is MemoryStorage's.)
MomentRead ==
  IF engine = "Agent" THEN Moment(disk.figures, NULL)
  ELSE [disk.moment EXCEPT !.last = IF @ = NULL THEN NULL ELSE column(@)]

RowRead(s) == IF SelectFails \/ s \notin State THEN NULL ELSE disk.rows[s]
StateByIndex(i) == IF SelectFails \/ i >= Len(disk.order) THEN NULL ELSE column(disk.order[i + 1])

\* The session goes on as s, or is over and its storage closed.
GoesOn(s) ==
  /\ session' = [s EXCEPT !.missed = @ \/ SelectFails]
  /\ UNCHANGED con
Ends(s, outcome) ==
  /\ session' = [s EXCEPT !.missed = @ \/ SelectFails, !.place = "rest", !.outcome = outcome]
  /\ con' = [con EXCEPT !.reader = Closed(@)]
EndsOpen(s, outcome) ==
  /\ session' = [s EXCEPT !.missed = @ \/ SelectFails, !.place = "rest", !.outcome = outcome]
  /\ UNCHANGED con

\* ERROR() ends the process, and its handles with it.
Exits ==
  /\ session' = [session EXCEPT !.missed = @ \/ SelectFails, !.place = "exited", !.outcome = "exited"]
  /\ con' = [con EXCEPT !.reader = "null"]

Reads(place) == session.place = place /\ UNCHANGED <<engine, dumpVars, misused, began, disturbed>>

\* open(O_READ).
BeginSession(viewer, which) ==
  /\ AtRest /\ MayRead
  /\ \E c \in Opened(FALSE) : con' = [con EXCEPT !.reader = c]
  /\ session' = [Fresh(viewer, which) EXCEPT !.index = session.index,
                   !.place = IF which = NULL THEN "info" ELSE "row"]
  /\ began' = Stored(disk) /\ disturbed' = FALSE
  /\ UNCHANGED <<engine, dumpVars, misused>>

\* A viewer returns without close(), a load closes the storage all the same.
SessionRefused(viewer, which) ==
  /\ AtRest /\ MayRead
  /\ \E c \in OpenFailed("reader", FALSE) :
       con' = [con EXCEPT !.reader = IF viewer = "load" THEN Closed(c) ELSE c]
  /\ session' = [Fresh(viewer, which) EXCEPT !.index = session.index, !.outcome = "not_opened"]
  /\ UNCHANGED <<engine, dumpVars, misused, began, disturbed>>

\* getMemoryInfo(): a load goes on without it, a viewer gives up.
UnderWay == engine = "Mysql" /\ dumper = "dumping"
ReadInfo ==
  /\ Reads("info")
  /\ GoesOn([session EXCEPT !.info = InfoRead, !.moment = MomentRead, !.place = "first",
                            !.midway = UnderWay])
  /\ InfoRead # NULL \/ session.viewer = "load"
NoInfoLeftOpen ==
  /\ Reads("info") /\ InfoRead = NULL /\ session.viewer # "load"
  /\ EndsOpen(session, "not_found")
NoInfo ==
  /\ Reads("info") /\ InfoRead = NULL /\ session.viewer # "load"
  /\ Ends(session, "not_found")

\* Only the numbers of the memory information are compared with the numbers of
\* what was loaded, and a difference only warned of.
Loaded(pages) ==
  Graph([s \in State |-> IF \E i \in DOMAIN pages : pages[i].st = s
                         THEN pages[SelectLastInSeq(pages, LAMBDA p : p.st = s)].row ELSE NULL])
DiffersInStates(s) == Numbers(s.info)[1] # Numbers(Loaded(s.pages))[1]
Differs(s) == Numbers(s.info) # Numbers(Loaded(s.pages))

\* The loop goes on with the state at an index, and is over when there is none.
At(s, i) == LET st == StateByIndex(i) IN
  IF st # NULL THEN GoesOn([s EXCEPT !.index = i, !.st = st, !.place = "row"])
  ELSE Ends([s EXCEPT !.index = i, !.st = st,
                      !.warned = s.viewer = "load" /\ Differs(s)], "shown")
FirstStateGoesOn == Reads("first") /\ At(session, session.index)
FirstState == Reads("first") /\ At(session, 0)
NextState == Reads("next") /\ At(session, session.index + 1)

\* getStateInfo() of the state: its row is loaded, printed or drawn.  The column
\* of the state is read again.
Draws(s) == s.viewer \in {"dot", "cdot"}
ReadState ==
  /\ Reads("row") /\ RowRead(session.st) # NULL
  /\ LET row == RowRead(session.st)
         page == [st |-> column(session.st), row |-> row, figure |-> disk.figures[session.st]]
         read == [session EXCEPT !.pages = Append(@, page)]
         others == {l[2] : l \in row} \ {page.st} IN
     IF session.which = NULL THEN GoesOn([read EXCEPT !.place = "next"])
     ELSE IF Draws(session) /\ others # {}
     THEN GoesOn([read EXCEPT !.place = "follower", !.pending = others, !.midway = UnderWay])
     ELSE Ends(read, "shown")

\* Without a row the state asked for is "not found", a state of the loop an ERROR().
NoState ==
  /\ Reads("row") /\ RowRead(session.st) = NULL
  /\ IF session.which # NULL THEN Ends(session, "not_found") ELSE Exits

\* viewState() draws the following states too, and reads their payoffs for it.
ReadFollowerFirst ==
  /\ Reads("follower")
  /\ \E f \in session.pending :
       IF RowRead(f) = NULL THEN Exits
       ELSE LET rest == [session EXCEPT !.drawn = @ \cup {f}] IN
            IF rest.pending = {} THEN Ends(rest, "shown") ELSE GoesOn(rest)
ReadFollower ==
  /\ Reads("follower")
  /\ \E f \in session.pending :
       IF RowRead(f) = NULL THEN Exits
       ELSE LET rest == [session EXCEPT !.pending = @ \ {f}, !.drawn = @ \cup {f}] IN
            IF rest.pending = {} THEN Ends(rest, "shown") ELSE GoesOn(rest)

--------------------------------------------------------------------------------
(* What a session has drawn when it is over, by the names of the nodes: the   *)
(* names dot knows may not hold a minus sign.                                 *)

int2StringUnsigned(v) == <<"", IF v >= 0 THEN v ELSE -v>>
int2String(v) == IF v >= 0 THEN <<"", v>> ELSE <<"_", -v>>
StateNode(s) == <<"st", int2String(s)>>
ActNode(a, s) == <<"act", int2String(a), int2String(s)>>

dotStateInfo(p) ==
  [nodes |-> {StateNode(p.st)} \cup {ActNode(l[1], p.st) : l \in p.row},
   arrows |-> {<<StateNode(p.st), ActNode(l[1], p.st)>> : l \in p.row}
              \cup {<<ActNode(l[1], p.st), StateNode(l[2])>> : l \in p.row}]
cleanDotStateInfo(p) ==
  [nodes |-> {StateNode(p.st)},
   arrows |-> {<<StateNode(p.st), StateNode(l[2])>> : l \in p.row}]

\* viewState() is the same for both viewers and adds the following states.
Drawings(s) ==
  {IF s.viewer = "cdot" /\ s.which = NULL THEN cleanDotStateInfo(p) ELSE dotStateInfo(p)
     : p \in ToSet(s.pages)}
Nodes(s) == (UNION {d.nodes : d \in Drawings(s)}) \cup {StateNode(f) : f \in s.drawn}
Arrows(s) == UNION {d.arrows : d \in Drawings(s)}

--------------------------------------------------------------------------------
Session == ReadInfo \/ NoInfo \/ FirstState \/ NextState \/ ReadState \/ NoState \/ ReadFollower

SessionsNext ==
  \/ Learn
  \/ OpenDump
  \/ OpenDumpFails
  \/ AddMemoryInfo
  \/ DumpState
  \/ Lock
  \/ CloseDump
  \/ CommitFails
  \/ Kill
  \/ \E r \in Requests : BeginSession(r[1], r[2])
  \/ \E r \in Requests : SessionRefused(r[1], r[2])
  \/ Session

\* A session is one call of a function, which runs until it is over.
SessionsSpec == Init /\ [][SessionsNext]_vars /\ WF_vars(Session)

--------------------------------------------------------------------------------
\* Every early return included, a session or a dump that is over leaves no
\* connection, no transaction and no lock behind, but for a viewer that could
\* not open its storage; and no freed handle is used, but after a CREATE TABLE
\* of Sqlite that failed.
ConnectionsClosed ==
  /\ AtRest /\ con.reader # "null" =>
       con.reader = "failed" /\ session.viewer # "load" /\ session.outcome = "not_opened"
  /\ dumper = "idle" => con.dumper = "null" /\ ~ locked /\ tables = disk
  /\ misused => engine = "Sqlite" /\ dumper = "dead" /\ "create" \in Failures

Shown == session.outcome = "shown"
Whole == session.which = NULL
StatesRead == {session.pages[i].st : i \in DOMAIN session.pages}

\* A load or a view of the whole memory that met no lock has read every state
\* that was stored when it began, whatever was dumped meanwhile; and no state
\* twice, unless a commit moved the rows of Sqlite on under its index.
WalkComplete ==
  Shown /\ Whole /\ ~ session.missed =>
    /\ began \subseteq StatesRead
    /\ Cardinality(StatesRead) = Len(session.pages) \/ (engine = "Sqlite" /\ disturbed)

\* A drawing shows every state it read as a node of its own, and every arrow of
\* it ends at such a node: always where one state is drawn, for a whole memory
\* as long as no commit came in between and the storage is not that of Mysql,
\* which shows links before the states they lead to.
DrawingSound ==
  Shown /\ Draws(session) =>
    /\ Cardinality({n \in Nodes(session) : n[1] = "st"})
         = Cardinality(StatesRead \cup session.drawn)
    /\ ~ Whole \/ (engine # "Mysql" /\ ~ disturbed /\ ~ session.missed) =>
         \A arrow \in Arrows(session) : {arrow[1], arrow[2]} \subseteq Nodes(session)

\* A load that does not warn has brought back exactly the states and links of the
\* memory whose information it read, although only their numbers are compared:
\* also one that met a dump, or one cut short by a lock.  Nothing at all is read,
\* without a warning, by a load that did not get the information either.  The
\* counts, the payoffs and the last state may be those of another dump, see
\* LoadContinues; and the agent that dumps deletes no state, which deleteState()
\* itself declares unfit for storages.
UnwarnedGraphExact ==
  Shown /\ session.viewer = "load" /\ ~ session.warned
    /\ (~ disturbed \/ ~ (session.missed \/ session.midway)) =>
  IF session.info = NULL THEN session.pages = <<>> ELSE Loaded(session.pages) = session.info

\* The rows that were read have the counts and payoffs which the memory had whose
\* information was read, and with it the last state.
OneMoment ==
  \A i \in DOMAIN session.pages :
    session.pages[i].figure = session.moment.figures[session.pages[i].st]

\* Whatever was killed and whatever failed before, a load that no commit came into
\* and no lock stopped brings back one memory as it was at one moment: its states
\* and links, all their counts and payoffs, and a last state that is one of them;
\* and it does not warn.  With the tables of Mysql this takes a dump that is over.
LoadIsWhole ==
  /\ Shown /\ session.viewer = "load" /\ session.info # NULL
  /\ ~ disturbed /\ ~ session.missed
  /\ engine = "Mysql" => ~ session.midway /\ dumper # "dead"
  => /\ ~ session.warned
     /\ Loaded(session.pages) = session.info
     /\ OneMoment
     /\ session.moment.last # NULL => session.moment.last \in session.info.states

\* What the comment at the last state says, "it's continuous": an agent that was
\* loaded without a warning goes on from its last state in the memory that this
\* was the last state of.
LoadContinues ==
  Shown /\ session.viewer = "load" /\ session.info # NULL /\ ~ session.warned => OneMoment

\* ERROR() ends no reader whose statements all succeed, in spite of commits between
\* them, unless it draws a state of Mysql whose row it read while a dump was under
\* way or after one was killed.
ReaderSurvives ==
  session.outcome = "exited" =>
    \/ session.missed
    \/ /\ engine = "Mysql" /\ Draws(session) /\ ~ Whole
       /\ session.midway \/ dumper = "dead"

\* What the comments at ERROR() say, "should not happen, otherwise database
\* corrupted!" and "shouldn't happen".
NoReaderExits == session.outcome # "exited"

\* Every session comes to its end.
SessionEnds == ~ AtRest ~> AtRest
================================================================================
