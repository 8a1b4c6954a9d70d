# Verification of GAMCS

TLA+ models of GAMCS (Generalized Agent Model and Computer Simulation), the
TLC runs that check them on small instances, and proofs that TLAPS checks for
every instance. Paths are relative to the repository (`src/src/CSOSAgent.cpp`
is the file `src/CSOSAgent.cpp` of GAMCS). `PROJECT.json` lists components,
runs, mutants, the code each definition stands for, hazards, findings and
theorems.

## 1. The system

An *avatar* perceives a state, offers the actions available in it to its
*agent*, which chooses one by the maximum payoff rule, remembers what happened,
and has the avatar perform it. The memory is a graph: state + action +
environment action leads to a following state, each link with a count, each
state with a payoff. A memory can be dumped to a storage (Sqlite, Mysql),
loaded from one, viewed, and its states can be transferred as packed
"state informations". The library is single-threaded: everything below
interleaves calls, and processes at one storage, not threads.

| component | state it keeps | operations | modelled by |
|---|---|---|---|
| Agent memory (`CSOSAgent.cpp`) | structures of states, forward links (`actlist`, `ealist`), backward links (`blist`), `state_num`, `lk_num`, `cur_mst` | `updateMemory`, `linkStates`, `addStateInfo`, `updateStateInfo`, `deleteState`, `updatePayoff` | `AgentMemory`, `AgentPath`; promise: `TransitionModel` |
| List of states (`CSOSAgent.cpp`) | `head`, `next`, `prev`, `current_st_index` | `newState`, `_deleteState`, `firstState`/`nextState`, the loop of a dump, `freeMemory` | `StateList` |
| Step protocol (`GIOM`, `TSGIOM`, `Agent`) | `cur_in/out`, `pre_in/out`, `learning_mode` | `process`, `constrain`, `update`, `setMode`, `singleOutputEntropy` | `AgentMemory` |
| Avatar (`Avatar.cpp`) | the connected agent; locals of `step()`, `loop()` | `connectAgent`, `step`, `teach`, `loop` | `AvatarSteps`, `AvatarLoop` |
| Payoffs (`CSOSAgent.cpp`) | `payoff`, `original_payoff`, `update_queue`, `visited_states` | `calStatePayoff`, `calActPayoff`, `updateStatePayoff` | `PayoffBackup` |
| Output space (`GIOM.h`) | fragments, capacity, size, iterator | `add`, `operator[]`, `first`/`next`, `clear`, `bestActions` | `OutputSpace` |
| Storage (`Sqlite.cpp`, `Mysql.cpp`) | table of states, table of memory informations, connection, `o_flag` and transaction, `current_index` | `dumpMemoryToStorage`, `loadMemoryFromStorage` and what they call | `MemoryStorage`, with the promise `DurableTransitions`; `StorageSessions` |
| State information (`getStateInfo`, `StateInfoParser`) | packed bytes, cursor | `firstAct`, `nextAct`, `firstEat`, `nextEat`, `move2...` | `StateInformation` |
| Viewers (`PrintViewer`, `DotViewer`, `CDotViewer`), `sgviewer` | locals of a session; `last_state`, `last_action` for a colour | `view`, `viewState` | `StorageSessions` |
| Debugging, platform helpers | none | messages, sleep, logarithm | not modelled |
| Examples, tests | - | programs that use the library | not modelled; read for the order of calls a program makes |

How they interact. `Avatar::step()` calls `process()`, then the program's own
`originalPayoff()`, then `update()`, then the program's `performAction()`: the
callback runs between the two halves of a step, and what it calls of the agent
falls in between. `process()` leaves the structure it found in `cur_mst`, a
cache that `update()` trusts. `update()` makes the link into the *current*
state from `pre_in`, one step after the transition happened, and starts one
payoff update for every backward link of that state. A load writes `pre_in`
and `pre_out`, so the time sequence runs on through a restart. An agent is
itself a `Storage`, with which other agents exchange state informations. A
viewer or a load may run in another process while a program dumps: the two
meet in the tables, statement by statement. A dump calls the program's progress
callback between two states of the list it walks along.

What is hard here: backward and forward links are kept by different functions
(`newBlk`, `deleteBlk`, `buildStateFromHeader`) and only agree if all of them
do; counters are adjusted in four places; the payoff update walks cycles; a
dump can be killed half way, with different results in the two engines, and
read half way by another process; a pointer into the list is kept across calls;
numbers cross three widths (values of `INT_BITS` bits, columns read as `int`,
a 16-bit size field). The hazards of `PROJECT.json` name the lines.

What makes each component correct:

* memory: the graph is closed and walkable both ways, counters exact, the last
  state found again, no freed or wrong structure ever used, counts those of the
  transitions experienced;
* avatar: the memory is what the avatar went through, the pace is kept;
* payoffs: an update ends, leaves nothing stale without a known cause, and
  payoffs stay within the discounted sum;
* output space: size, index and choice agree with what was added;
* storage: a dump is atomic where the engine can make it so, a load brings back
  exactly the last dump, whatever is in the tables never breaks the graph, and a
  session beside a dump misses nothing it does not tell, and leaves nothing open;
* list of states: exact both ways, walked without omission or repetition;
* state information: what is read is what was packed, and nothing beyond it.

## 2. The modules

**`TransitionModel`**: how often each transition was experienced, and the last
state and action. `Observe`, `Forget`, `Assign`.

**`AgentMemory`**: the structures. `mem` is `states_map` (and the list from
`head`), `eats[s, a, n]` the count in `cs_EnvAction` (an environment action is
`n - s - a`, so the transition names it), `blist[n]` the pointers in the backward
list, `Dangling` being a pointer to a freed structure. A step is two actions,
`Process` and one of `FirstUpdate`, `LinkUpdate`, `LostUpdate` (`ERROR()` exits)
and `FreedUpdate` (`cur_mst` was freed meanwhile), so that the calls of `Reenter`
can come in between and those of `Calls` between steps. Where such a call has
left `cur_mst` at another state, or at none although the state has a structure by
now, `StaleFirst` and `StaleLink` do what `updateMemory()` does: they count a visit
of that other state, or make a second structure, and link to it.
`DeadEnd` is a step without actions; `SetMode`, `Entropy`, `AddStateInfo`,
`UpdateStateInfo`, `DeleteState`, `UpdatePayoff` are the public calls, with
`DeleteThroughFreed` and `UpdateUnknown` the calls that fault. `AsksUpdate` and
`AsksDelete` are no code of the library: they say which calls a program with a
rule makes (a cfg drops the rule by naming the habit). `fault` says how
a program ended; what a freed structure holds is undefined. After a link to a
wrong structure, fault `stale`, the code runs on and the model does not: a name no
longer stands for one structure, and no property says anything about that agent.
*Abstractions*: an action left without any environment action
stays in the code's `actlist` and is not seen here (`PayoffBackup` and
`StateInformation` have it); reuse of a freed address is
not modelled; payoffs only decide how far an update walks (`WalkOutcomes`) and
which action is best, both left open. `MaxCount` bounds the counts (`Room`).

**`AgentPath`**: sums over the links.

**`AvatarSteps`** composes `AgentMemory` with avatars and an environment:
`ConnectAgent`, `Choose` (perceive and `process()`, for `step()` and for
`teach()`, which offers one action), `StopAtDeadEnd`, `UpdateAgent`, `Perform`
(the environment answers with any transition of `World`), `CallAgent`. The
history `lived` counts what happened. Avatars with agents of their own do not
meet, so one agent is enough. **`AvatarLoop`** is `loop()`: reading the clock
(`getCurrentTime`, an unsigned long of twice `Half` values), the step, the remaining
time through its conversions, the sleep. The clock is steady, a sleep may be late.

**`PayoffBackup`**: links, payoffs in units of the accuracy (`trimPayoff` is the
floor of a division), and the update, one pop of `update_queue` at a time:
`Experience` (the step up to the update), `UpdatePayoff`, `BeginWalk` (one entry
of the backward list), `Pop`. Between updates `DeleteState` takes a state away:
it calculates nothing again, and leaves the actions that led to the state in
`actlist`, where they count 0. Arithmetic is exact, the rounding of binary32 is
not modelled. The backward list is derived from the links, as `BlistExact` of
`AgentMemory` allows, and walked in any order. `earlier` and `unsettled` are
histories for the properties.

**`OutputSpace`**: fragments in integers of which there are
2 * `Half`, with C's division and
promotions as in the builds with 8 and 16 bits, `AddOutput`, `AddRange` with
`expand`, and the loop of `bestActions()`: `Begin`, `Weigh`, `Finish`, then
`Clear`. `RefuseRange` is the `ERROR()` for a range that goes the wrong way;
one that does so by less than a step passes the check and is one output. A
range may hold the invalid output. Excluded inputs: step 0, 2^INT_BITS outputs.
Overflow of signed 32- and 64-bit integers is
undefined in C++ and not reached by the inputs.

**`MemoryStorage`** composes `AgentMemory` with a storage: `BeginLoad`,
`LoadState` row by row in any order, `LoadMissing`, `EndLoad`, `BeginDump`
(memory information first, as the code does), `DumpState`, `EndDump`, the
failures `InfoFails`, `WriteFails`, `CommitFails`, and `Restart`, a kill at any
point or the normal end. `db` is what the connection sees, `disk` what a kill
leaves: the same for Mysql (MyISAM), the last commit for Sqlite. `column` is
what a column reads as. Only the newest memory information is kept, since only
it is read. `SkipLoad` also stands for an `open(O_READ)` that fails. Left out:
payoffs, discount rate and accuracy in the rows (that a load brings the payoffs of
one dump is a matter of `StorageSessions`); loading into an agent that
already has states. **`DurableTransitions`** is its promise.

**`StateList`**: the double linked list pointer by pointer, which `AgentMemory`
has as a set. `newState`, `deleteState` (`RelinkedForward` and `RelinkedBack`
are the two repairs around the structure taken out), two walks with `First` and
`Next`: the iterator, whose `current_st_index` is a member, and the loop of
`dumpMemoryToStorage()`, whose progress callback may call anything;
`NextThroughFreed` reads a structure that was freed under a walk.
`FreeMemory` and `freeState` are the destructor, one turn a step. A pointer to
a freed structure becomes `Dangling` wherever it is kept. The histories `seen`,
`began`, `steady`, `born` serve the properties. `MaxBirths` bounds the states
ever made.

**`StorageSessions`**: a program that learns (`Learn`, a step: a visit, a link
new or not, and the payoffs that change with it) and dumps (`OpenDump`,
`AddMemoryInfo`, `DumpState`, `Lock`, `CloseDump`) beside a reader that loads or
views (`BeginSession`, `ReadInfo`, `FirstState`, `ReadState`, `NextState`,
`ReadFollower`), one statement on the tables a step; the early returns
`OpenDumpFails`, `SessionRefused`, `NoInfo`, `NoState`, and `CommitFails`,
`Kill`. The storage is Sqlite (rows in the order of the key, a transaction, readers
locked out at the commit), Mysql (rows in the order they were added, every
statement seen at once) or an agent of the same thread (newest state first,
sessions and dumps do not overlap). `con` is `db_con` of both programs, `index` is
`current_index`, read by one `SELECT` each. `Drawings` is what the dot viewers
write, as nodes and arrows by name (`int2String`). A row is the links of a state
and a `figure`, the number of the step that last changed its counts or its payoff:
two rows with the same figure hold the same numbers. `Moment` is what goes with a
memory information: the figures of all states when it was written, and the last
state. `column` is what a column of `Bits` bits reads as, for the states a load walks
along and the last state. *Abstractions*: the followers in a packed row are read
as they are, as only the state column is narrow; only the last memory
information is kept (`MemoryStorage` has the rest); a write that fails, a table
created half and Mysql losing a connection later are not modelled; a program
that was killed is not started again; rows are in the order the engines return
them in, although SQL promises none. `MaxSteps` bounds the steps of the agent.

**`StateInformation`**: `Packed` lays the items of a state out at their offsets,
`Kept` is what a storage keeps of them by the size field, which can say
`SizeValues` numbers and wraps; wrapped below the size of the header, the length
given to the database underflows, and how much is kept, from nothing to all of it,
is undefined (`Lengths`).
`firstAct`, `nextAct`, `firstEat`, `nextEat` move the cursor. They check nothing:
where the cursor stands outside of the kept bytes, or on none of the items, what
is read is any action, any environment action and any number of them
(`ActsRead`, `EatsRead`, `EatNums`, numbers from `GarbageNums`), and the parser
goes on with it; `outside` remembers that it happened. `BuildAct`, `BuildNewAct`,
`BuildEat`, `BuildLink` are the loops of `buildStateFromHeader()` and `AnyCall` a
reader that calls in any order. `move2Act()` and `move2Eat()` are such calls in a row.

Next to some definitions stands a variant with one plausible slip
(`calStatePayoff` and `UndiscountedPayoff`, say). No specification uses them: they are the
mutants of `PROJECT.json`, each of which makes TLC find a property violated.

## 3. What is checked

Deadlock is checked where the system cannot stop. It is off where a bound, a
fault or the end of a walk stops the model: runs with faults or an `ERROR()`,
with an `AnyCall` reader that is done, with the bound on counts in an
environment without deletions, a list that is freed, and `loop()` after a dead
end.

| run | question | bounds |
|---|---|---|
| `memory_reenter` | with every call allowed everywhere: types, graph, counters; refinement of `TransitionModel` | 2 states, 1 action, counts to 2 |
| `memory_client` | a program that keeps the rules meets no fault; backward lists exact | 3 states, 1 action, counts to 2 |
| `avatar_life` | the memory is what the avatar went through, its counts those of one path; changes of mode and questions between steps, updates of payoffs also inside them | 3 states, 2 actions, counts to 2 |
| `loop_pace` | no sleep too long, no step too early | a second of 10 units, 6-bit clock from every start, 20 units |
| `payoff_walk` | an update ends, each turn leaves less to do, staleness has a cause, payoffs stay in range | 3 states, 2 actions (7 links to 1), deletions, one negative payoff, 0 or "keep" |
| `storage_durable` | Sqlite: types, exact and atomic dump and load, through kills and failing commits | 3 values, counts to 2 |
| `storage_damaged` | both engines, kills, failing statements, any habit, values wider than a column: what loads is a consistent graph | 2 values of 3 bits, columns of 2, counts to 1 |
| `state_walks` | the list exact both ways, newest first; walks miss and repeat nothing; all is freed | 3 states, 2 walks, 5 structures made |
| `sessions` | connections closed, walks complete, the graph of a load exact or warned of, an undisturbed load whole in all its numbers, drawings sound, readers ended only by a failing statement or a dump of Mysql under way; every session ends | 3 states of both signs, 1 action, 3 steps, 4 kinds of requests, 3 engines, every failure, columns wide enough |
| `space_walk` | size, index, capacity, choice exact; the walk ends | 5 bits, 6 fragments (past the first expansion), no fragment added once there are more than 7 outputs |
| `info_calls` | nothing read outside of what is whole; what is read is the state | all lists of 3 actions with 2 environment actions, a size field of 7 bits, which some of them exceed and some wrap below the header; numbers 0 to 2 read where nothing was written |

Why these bounds are enough: a misbehaviour of the graph needs a predecessor, a
state and a follower, so three states show it, with a self-loop and a cycle
among them (where every call is allowed, two states with self-loops and a cycle
already reach each fault, and the theorems of section 4 cover the rest); a
count beyond 2 is handled as 2 is; three states give the walk of an update a
state reached along two paths, the case its visited set is about, and the two
actions a best one to change; payoffs are trimmed downwards, so that negative
ones are those rounding could make grow; a restart in the middle of a load, a
dump, or after a failed one is reached in `MemoryStorage` with one link
already; six fragments pass one expansion of the array; three states are a first,
a middle and a last one of a list, and five creations give every one of them a
second life under a walk; three steps make two dumps with different rows and numbers, the
later adds rows before, between and after the rows a session has read, and one
of the states is a follower of another; a number read where nothing was written is
too small, right, or too large.

One run finds a violation, a disagreement between the code and what it says of
itself (`findings` in `PROJECT.json` quotes the lines): `storage_wide`. Under
Sqlite a state wider than an `int` is not found again, and loading a sound
storage exits with the message of a corrupted one.

The passing runs exclude some behaviour of the code on purpose. What is behind
each exclusion, to be kept in mind by who relies on a property:

| excluded by | behaviour |
|---|---|
| the rules of `memory_client`, `AsksUpdate` | `updateStateInfo()` of a state that loses a follower leaves a backward entry for a link that is gone, although `CSOSAgent.h:139` says what the list holds; deleting the state later makes the entry a pointer to freed memory |
| the rules of `memory_client`, `AsksDelete` | `deleteState()` accepts the state last left; the next update then exits with `ERROR("Can not find previous state ...")`, `CSOSAgent.cpp:910` (`LostUpdate`, which `memory_reenter` takes) |
| `memory_client` with `Reenter <- NoCalls`, `QuietSteps` | `singleOutputEntropy()`, a const member, and a change of mode inside a step redirect the update: it counts and links another state, so that "mst->st + eat + act == nmst->st" (`CSOSAgent.cpp:617`) does not hold, or makes a second structure (`StaleFirst`, `StaleLink`, which `memory_reenter` takes and stops after) |
| `avatar_life` without `"spawn"` | a second avatar on a used agent, as in two examples, adds a link nobody observed |
| `StaleIsExplained` | a state visited before a change is not updated again by the same walk |
| `storage_durable` with Sqlite only | a program killed in a dump to Mysql's MyISAM tables leaves a last state that has no row |
| `storage_durable` without `"blank_dump"` | the invalid last state comes back as -1, a valid one |
| `WithinCapacity` with few fragments | in a build with 8 bits the capacity wraps at 170 fragments |
| `PaceKept`, of `control_step_time` | 1000 / sps is rounded down, so more steps in a second than asked for |
| `WalkExact`, after `slipped` | a program that deletes, from its progress callback or between two `nextState()`, the state a walk stands at, has the next call read a freed structure |
| `ConnectionsClosed` | Sqlite: a `CREATE TABLE` that fails closes the connection, and `close()` closes it again; a viewer whose `open()` failed keeps the failed handle |
| `UnwarnedGraphExact` | a load that a lock met from its first statement on reads neither rows nor numbers, and does not warn. A load that met a lock, or the memory information of a Mysql dump under way, while the tables changed is not judged: its numbers may agree by chance |
| `UnwarnedGraphExact` is about states and links, `LoadIsWhole` about undisturbed loads | a commit of Sqlite between the memory information and the rows, which adds neither state nor link, gives a load the counts and payoffs of the newer dump and the last state of the older one, without a warning; "it's continuous", says `CSOSAgent.cpp:102` of the two states. So does a Mysql dump under way, or killed |
| `ReaderSurvives` | `viewState()` exits where a follower has no row yet, under Mysql during or after a killed dump, which "shouldn't happen" (`DotViewer.cpp:498`); any view or load exits where a lock comes between a state and its row, which "should not happen, otherwise database corrupted!" (`CSOSAgent.cpp:59`) |
| `DrawingSound` | Mysql: a whole drawing made during a dump, or after one was killed, has arrows to states without a node |
| `ValuesFit`, and the values of `sessions` | Sqlite: a state wider than an `int` reads as another one, and has no row (`storage_wide`) |
| `Whole` of `StateInformation` | the 16-bit size of a state information wraps (at 3275 links of one action): a storage keeps only the first part, and the parser reads beyond it after a load. `Rebuilt` still says that what is built without reading there is right; what is built otherwise may be anything, a smaller state too |
| `info_calls` begins with `firstAct()` | a parser just made does not point to the first environment action |

Seven configurations beside the runs show what is behind some of these rows. They
are not runs of `PROJECT.json`; TLC ends each with a counterexample, in seconds
(`tlc -config MCAgentMemory_shrink.cfg MCAgentMemory`, say).

| configuration | what it violates, and how |
|---|---|
| `MCAgentMemory_shrink.cfg` | `BlistExact`: a transfer with fewer followers than the state has |
| `MCAgentMemory_delete.cfg` | `PreviousFound`: the last state deleted between two steps |
| `MCAgentMemory_stale.cfg` | `LinksAddUp`: `singleOutputEntropy()` asked from `originalPayoff()` |
| `MCStateInformation_wrapped.cfg` | `AtSomeHeader`: a state longer than its size field can say, read back from a storage |
| `MCStorageSessions_mixed.cfg` | `LoadContinues`: a commit of Sqlite between two statements of a load |
| `MCStorageSessions_locked.cfg` | `NoReaderExits`: a dump of Sqlite that locks between two statements of a load |
| `MCStorageSessions_follower.cfg` | `NoReaderExits`: one state of Mysql drawn while a dump is under way |

Fairness. `UpdateEnds` assumes that `BeginWalk` and `Pop` are taken when they
can be, `WalkEnds` the same of `Weigh` and `Finish`, `SessionEnds` of the
statements of a session: each is a loop of one function of a single-threaded
program, which runs until it is over (a `SELECT` under a lock does not wait, it
fails). No other run assumes fairness; in particular nothing says a program goes on stepping.

## 4. What is proved

All proofs hold for every value of the constants that satisfies the named
assumptions of the modules (finite sets of states and actions, sentinels that
are not values, a discount rate below 1).

* `AgentMemoryProofs`: `TypeCorrect`; `GraphIsConsistent`, whatever the program
  calls; `CountersAreExact`. `GraphConsistent` is inductive with the types only
  because of its part `NothingLeft`: a state created anew must start with an
  empty backward list. The counters need the graph: a deletion subtracts the
  links it severs, found through the backward list, so the list must cover them.
* Also in `AgentMemoryProofs`: four rules for a program, and what each is for. They
  are hypotheses about programs; no code of the library keeps them.
  `NoShrink` (no update drops a follower) gives `BlistIsExact`; `QuietSteps`
  (`originalPayoff()` calls nothing of the agent but `updatePayoff()`) makes `cur_mst`
  the structure of the current state; with that, `KeepsPrevious` (the last state is
  not deleted) keeps the previous state in memory; with `KnownOnly`
  (`updatePayoff()` of states in memory) all four give
  `RulesAreEnough`: no fault. The invariant is the conjunction of the others: no
  `Dangling` pointer enters a backward list as long as the lists are exact.
  None of the first three can be left out: for each there is a configuration above.
* Also in `AgentMemoryProofs`: `MemoryImplementsTransitions`, every step of
  `AgentMemory` is a step of `TransitionModel` or a stutter, up to the first link
  to a wrong structure. It needs the graph:
  a deletion must sever exactly the links into and out of the state.
* Also in `AgentMemoryProofs`: `AgentWalksOnePath`, the counts are those of one
  path, if no state information is transferred, no state deleted (`PathOnly`), and
  no step redirected (`QuietSteps`). A step adds
  one to a count of a state and one to a count of a link, so the proof is what
  that does to two sums, those of the links out of the state and into it; it
  needs in addition that nothing is counted before the first step.
* `AvatarProofs`: `MemoryIsTheLife`, for one avatar and under `QuietSteps`: the
  mode may change and questions may be asked between steps; inside one they have
  the code record a transition nobody made. The invariant
  `StepsAgree` ties the stage of a step to the time sequence of the agent: the
  one transition lived and not yet linked starts at `<<pre_in, pre_out>>` and
  ends where the avatar is. One avatar is needed: a second one would be where
  the time sequence of the agent does not lead. `AvatarsWalkOnePath` is
  the path of `AgentWalksOnePath` for an agent that any avatars use, under the same.
  `LoopNeverOversleeps` and `LoopKeepsPace`: `LoopInv` says that the clock read
  at the beginning of a step is the true time modulo the width, so that the
  difference of two readings is the time passed as long as a step lasts less
  than half the range of the clock (`TimesAssumption`).
* `StateListProofs`: `ListTypeCorrect`, `ListIsNewestFirst`, `WalkIsExact`,
  `WalkNeverRepeats`, `EverythingFreed`. The list is described by the order in
  which its states were created, without any path through it: the next pointer
  of a state leads to the youngest of the older ones. With that, inserting and
  taking out are statements about a number and its neighbours, and a walk has
  seen exactly the states it began with that are younger than where it stands;
  both hold for lists of any length without induction along the list.
* `MemoryStorageProofs`: `StorageTypeCorrect` and `LoadedIsConsistent`, in both
  engines and with every failure. The one hypothesis, `ValuesFit`, is that
  values read back as they were (`storage_damaged` checks the graph without it).
  The invariant behind the second is `FreshLoad`: until its row is loaded a state
  has no link, so `loadState()` may build a row onto a placeholder without
  dropping a follower, which is what a transfer between agents may not do.
* Also in `MemoryStorageProofs`: `StorageIsDurable`, that `MemoryStorage` implements
  `DurableTransitions`, with `PreviousIsStored` and `LoadNeverWarns`, under
  `Transactional`: Sqlite, no failing statement within a dump, a program that
  loads before it runs, steps before it dumps and deletes no state. Crashes and
  failing commits may come anywhere. The invariant says what a half-done load
  and a half-done dump are: the rows done agree with the memory, the others are
  still as the last commit left them (`LoadingOK`, `DumpingOK`); the tables a
  commit makes are closed, counted, and end in a state they hold (`TablesSound`),
  which follows from the consistency of the graph that was dumped.
  `StoredPathIsOne`, under the same, carries the path of the agent through the
  storage: the invariant (`PathStoredInv`) says that what the last commit left is
  counted along one path, and so is what is in memory but during a load, of
  which it says that each row read has the count it was stored with. That half
  a load or half a dump come to a whole path in the end is what `LoadingOK` and
  `DumpingOK` are needed for.
* `PayoffBackupProofs`: `WalksDecrease`, the variant behind `UpdateEnds`: a turn
  visits a new state, or leaves fewer repeated entries in the queue;
  `StaleHasACause`, where a deletion disturbs exactly the states that led to the
  one deleted. `PayoffTypes` and `PayoffsAreBounded`: what `calStatePayoff()`
  adds up is a sum over the followers weighted by their counts, and lies between
  the greatest and the least payoff times the sum of the counts; `trimPayoff()`
  rounds down by less than one unit, and the discount makes the steps a
  geometric series. The invariant adds `OriginalGiven`: original payoffs are
  those the program gave, or 0.
* `StorageSessionsProofs`: `WalksAreComplete`, `UnwarnedGraphsAreExact`,
  `LoadsAreWhole`, `DrawingsAreSound`, `ReadersSurvive`, `ConnectionsAreClosed`, for
  any finite set of states, any requests and failures, in all three storages; all
  but the last under `ValuesFit`, that states read back as they were written. The
  invariant has two halves. `DumpInv` is about the tables: rows never disappear
  and never lose a link (`Grown`); they are part of what the agent knows, and of
  the memory information stored (`Within`); the last committed tables hold all
  of their memory information (`Holds`), but for those of Mysql while a dump is
  under way or after it was killed; a dump has written the states it has passed.
  `SessionInv` is about a session, and refers to the tables only by what dumps
  keep: the rows read are part of the rows there are, a walk at index n has come
  by every expected state among the first n rows (`Passed`), and the rows read
  hold the links of the memory information (`PagesHold`). That a walk by index
  misses nothing although commits insert rows is `OrderMovesOn`: in an order by
  key a row only moves to a later place. That two numbers are enough for a load
  is `SameNumbers`: what was loaded is part of the memory information or the
  other way round, so equal numbers make them equal. `FollowersStored` is why a
  drawing from Sqlite or an agent has a node for every arrow, in the cases
  `DrawingSound` names. For `LoadsAreWhole` the tables at rest hold one moment: the
  figures of the rows are those of the memory information, and the last state is
  one of its states; a dump under way has brought the rows it has passed to that
  moment, and Mysql's tables come back to it only when the dump is over. A dump keeps
  `SessionInv` by `DumpKeepsSession`, from `DiskMoves` alone, what a step of a
  dump may do to the disk; a step of the reader keeps `DumpInv` trivially.
  `ConnectionsAreClosed` needs the types of the handles besides.
* `OffsetProofs`: `IndexIsExact` and `ChoiceIsExact`, for integers of any
  width and any outputs, ranges and payoffs, under `OutputsFit`: an `ossize_t`
  can count the outputs, those of a single range included. `CapacityHolds` needs
  `FragmentsFit`: twice the number of fragments and 5 spare ones can be counted;
  what comes without it is in the table above. The instance of `space_walk`
  satisfies both. The invariant behind the index is `Indexed`: the fragments before
  a place hold no more outputs than there are, and an index below the size is
  found in the first fragment that reaches beyond it. A fragment that is added
  is found only by the indices behind all others (`AppendIsIndexed`), and its
  outputs never leave the integers on the way from start to end
  (`StepsStayInside`). `Passed` and the flattening of `Outputs` are recursive
  functions: that there are such functions, and what one fragment more does to
  them, is proved by induction over their length. The walk keeps what it found
  among the outputs before the current one: the greatest of their payoffs
  (`GreatestFound`), and how often each that has it was offered (`BestFound`).
* Also in `OffsetProofs`: `NothingReadOutside`, `BuiltIsTheState` and
  `EatIsOfItsAction`, for any action lists, sizes of the three items and width of
  the size field, without a hypothesis beyond the assumptions of the module.
  Offsets grow by the bytes of an action with its environment actions
  (`Offsets`, `EatsInside`), so an offset is that of one item only (`OneAction`,
  `OneEat`), and what a whole information has at the offset of an item is that item
  (`ReadAct`, `ReadEat`). The invariant `InfoInv` says where the cursor stands: on an
  action of the list (`Current`), and on the environment action of it that the
  index counts, as long as the index counts one (`OnEat`). What
  `buildStateFromHeader()` has built are the links up to there (`Links`,
  `FirstLinks`). The invariant holds until the parser reads outside of what was
  kept, which `outside` remembers; `BuiltIsTheState` says nothing of what it builds
  then, since nothing in the code notices. A whole information is never read
  outside.
* `SumTheorems`: the sums and the division the others need. A sum is the fold of
  the community modules; that it exists, does not depend on the order and changes
  with one of its terms is proved with induction over the natural numbers and
  over finite subsets, which come from the well-foundedness of < and a least
  counterexample (`LeastNat`, `InductionOnNat`, `InductionOnSubsets`): the
  theorems of the library with an operator as parameter are not used.

All invariants named above were first checked by TLC on the run of their module.

Only model-checked: liveness (`UpdateEnds`, `WalkEnds`, `SessionEnds`), as
ENABLED is out of the prover's reach.

## 5. Not modelled

* Debugging and platform helpers: message formatting, sleep and logarithm keep
  no state. The text of SQL statements, and the labels, colours and payoffs in
  a drawing, are left out of `StorageSessions`.
* The random draw of `process()` is any choice.
* `deleteAct()`, and `updateMemoryInfo()` and `deleteState()` of a storage, have
  no caller in the library.
* Payoffs in binary32: rounding on top of `trimPayoff()`, and payoffs that come
  with a row or a state information.
* `teach()` of the invalid action, which records a step in the invalid state; a
  second avatar on a used agent is in `AvatarSteps` but excluded from its run.
* Copies of an output space, a space built for n fragments, and spaces with
  2^`INT_BITS` outputs.
* A clock that the system sets back during a sleep of `loop()`.
* `int2String()` of the smallest value, whose negation overflows.
* The programs under `examples/` and `test/`, read for the order of calls only.

## 6. Plan

Order: the memory first, as everything writes to it; then what a step adds to it
(payoffs, choice), then what leaves the process (storage, state information, a
reader beside a dump), then the programs around it (avatar).

Done: the modules above, and the theorems of section 4.

Next, the models:

1. `AgentMemory` with `teach()` of the invalid action, and loading into an agent
   that is not empty.
2. A composition of `AgentMemory`, `PayoffBackup` and the choice of
   `OutputSpace`: transfers and loads in between updates, and whether the
   action chosen is the best of those offered.
3. `OutputSpace`: copies, and a space built for n fragments.

The proofs that go with them: that the action chosen in the composition is the
best one, from `ChoiceIsExact` and `PayoffsAreBounded`; the path of an agent that
is loaded when it is not empty.
