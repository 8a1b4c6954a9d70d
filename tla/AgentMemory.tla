------------------------------ MODULE AgentMemory ------------------------------
(***************************************************************************)
(* The memory of one CSOSAgent and the step protocol that fills it: the    *)
(* graph of cs_State structures with their forward links (actlist, ealist) *)
(* and backward links (blist), the counters state_num and lk_num, the time *)
(* sequence of TSGIOM (cur_in, cur_out, pre_in, pre_out) and the cached    *)
(* pointer cur_mst that process() leaves for update().                     *)
(*                                                                         *)
(* A state is named by its value; the pointer to its structure is the same *)
(* value, Dangling once the structure is freed, or NULL.  An environment   *)
(* action is determined by the transition (eat = nst - st - act), so an    *)
(* entry of an ealist is the transition itself.  Payoffs are the subject   *)
(* of PayoffBackup: here any action offered may turn out the best one.     *)
(***************************************************************************)
EXTENDS Integers, FiniteSets

CONSTANTS
  State, Action,   \* the values perceived and the values performed
  Invalid,         \* INVALID_STATE and INVALID_ACTION
  NULL,            \* the null pointer
  Dangling,        \* a pointer to a structure that has been freed
  MaxCount,        \* bound on the counts of a state and of a link
  Infos,           \* what a State_Info of another agent or a storage may hold
  Calls,           \* the calls the program makes between two steps
  Reenter          \* those made from originalPayoff(), between process() and
                   \* update() of one step

Transition == State \X Action \X State

\* Calls of a program, and two habits: shrink, updateStateInfo() that drops a
\* following state; delete_previous, deleteState() of the last state.
CallNames == {"add", "update", "shrink", "delete", "delete_previous", "set_mode",
              "entropy", "update_payoff", "update_unknown"}

Info == [count : Nat, eats : [Action \X State -> Nat]]

ASSUME SentinelsDistinct ==
  /\ Invalid \notin State \cup Action
  /\ {NULL, Dangling} \cap State = {}
  /\ NULL # Dangling
ASSUME FiniteValues == IsFiniteSet(State) /\ IsFiniteSet(Action)
ASSUME InfosAssumption == Infos \subseteq Info
ASSUME BoundAssumption == MaxCount \in Nat \ {0}
ASSUME CallsAssumption == Calls \subseteq CallNames /\ Reenter \subseteq CallNames

VARIABLES
  mem,             \* the states that have a structure (head list, states_map)
  eats,            \* eats[s, a, n]: count of the link, 0 when there is none
  blist,           \* blist[n]: the pointers in the backward list of n
  count,           \* count[s]: experiencing count, 0 without a structure
  state_num, lk_num,
  cur_mst,         \* the pointer maxPayoffRule() leaves for updateMemory()
  cur_in, cur_out, \* the step under way, Invalid between two steps
  pre_in, pre_out, \* the step before
  learning_mode,
  fault            \* "none", or how the program ended: "exit" by ERROR(),
                   \* "freed" by reading a freed structure, "null" by reading
                   \* through NULL; "stale": a wrong structure was linked, or a
                   \* state got a second one, which is as far as the model
                   \* follows the program

structures == <<mem, eats, blist, count, state_num, lk_num>>
sequence == <<cur_in, cur_out, pre_in, pre_out>>
vars == <<structures, cur_mst, sequence, learning_mode, fault>>

--------------------------------------------------------------------------------
(* Some definitions below stand next to a variant, defined just before, that *)
(* differs from the code by one plausible slip; no specification uses one,   *)
(* they only serve to see that the properties notice.                        *)

Links == {t \in Transition : eats[t] > 0}
Followers(s) == {n \in State : \E a \in Action : eats[<<s, a, n>>] > 0}
InfoFollowers(info) == {n \in State : \E a \in Action : info.eats[<<a, n>>] > 0}
InfoLinks(s, info) == {t \in Transition : t[1] = s /\ info.eats[<<t[2], t[3]>>] > 0}

\* The structure of a state, found through states_map.
searchState(st) == IF st \in mem THEN st ELSE NULL

\* The backward lists once p has been added to those of the states ns; newBlk()
\* adds no entry twice.
NewBlkButSelf(bl, p, ns) == [n \in State |-> IF n \in ns \ {p} THEN bl[n] \cup {p} ELSE bl[n]]
newBlk(bl, p, ns) == [n \in State |-> IF n \in ns THEN bl[n] \cup {p} ELSE bl[n]]

\* What _deleteState(s) takes away: the links out of s, and those into s that
\* are found through its backward list.
SeveredInto(s) == {t \in Links : t[3] = s /\ t[1] \in blist[s]}
Severed(s) == {t \in Links : t[1] = s \/ (t[3] = s /\ t[1] \in blist[s])}

\* The backward lists afterwards: s leaves those of its followers; any other
\* entry for s now points to a freed structure.
BlistKept(s) ==
  [n \in State |-> IF n = s THEN {}
                   ELSE IF s \in blist[n] THEN (blist[n] \ {s}) \cup {Dangling}
                   ELSE blist[n]]
BlistWithout(s) ==
  [n \in State |-> IF n = s THEN {}
                   ELSE IF n \in Followers(s) THEN blist[n] \ {s}
                   ELSE IF s \in blist[n] THEN (blist[n] \ {s}) \cup {Dangling}
                   ELSE blist[n]]

\* The pointers an update of payoffs that starts at the pointers in start may
\* follow through the backward lists bl.
Upstream(bl, start) ==
  {p \in State \cup {Dangling} :
     \A U \in SUBSET (State \cup {Dangling}) :
       (start \subseteq U /\ \A n \in U \cap State : bl[n] \subseteq U) => p \in U}

\* updateStatePayoff() reads every structure it starts from; it goes further
\* upstream as far as payoffs happen to change.
WalkOutcomes(bl, start) ==
  IF Dangling \in start THEN {"freed"}
  ELSE IF Dangling \in Upstream(bl, start) THEN {"none", "freed"}
  ELSE {"none"}

--------------------------------------------------------------------------------
Init ==
  /\ mem = {}
  /\ eats = [t \in Transition |-> 0]
  /\ blist = [n \in State |-> {}]
  /\ count = [s \in State |-> 0]
  /\ state_num = 0 /\ lk_num = 0
  /\ cur_mst = NULL
  /\ cur_in = Invalid /\ cur_out = Invalid
  /\ pre_in = Invalid /\ pre_out = Invalid
  /\ learning_mode = "ONLINE"
  /\ fault = "none"

Running == fault = "none"
Stepping == Running /\ cur_in # Invalid
May(call) == Running /\ call \in (IF cur_in = Invalid THEN Calls ELSE Reenter)

\* constrain(): only ONLINE does it look the state up, and remember where.
ConstrainKnown(st) ==
  cur_mst' = IF learning_mode = "ONLINE" /\ st \in mem THEN st ELSE cur_mst
Constrain(st) ==
  cur_mst' = IF learning_mode = "ONLINE" THEN searchState(st) ELSE cur_mst

\* The bound: no state is visited and no link counted more than MaxCount times.
Room(st) ==
  /\ count[st] < MaxCount
  /\ \A t \in Transition : t = <<pre_in, pre_out, st>> => eats[t] < MaxCount

\* First half of Avatar::step(): perceive st, process() chooses out.
Process(st, out) ==
  /\ Running /\ cur_in = Invalid
  /\ Room(st)
  /\ Constrain(st)
  /\ cur_in' = st /\ cur_out' = out
  /\ UNCHANGED <<structures, pre_in, pre_out, learning_mode, fault>>

\* process() with no action available: INVALID_OUTPUT, nothing recorded.
DeadEnd(st) ==
  /\ Running /\ cur_in = Invalid
  /\ Constrain(st)
  /\ UNCHANGED <<structures, sequence, learning_mode, fault>>

\* The structure updateMemory() takes for the current state.
CurrentUnsearched == cur_mst
CurrentStructure == IF learning_mode = "EXPLORE" THEN searchState(cur_in) ELSE cur_mst

\* The state it is counted as, and linked to: newState(cur_in) if it is NULL.
Visited == IF CurrentStructure = NULL THEN cur_in ELSE CurrentStructure

\* newState(cur_in), or one more visit of the structure there is.
VisitOnce ==
  /\ count' = [count EXCEPT ![Visited] = 1]
  /\ mem' = mem \cup {Visited}
  /\ state_num' = IF CurrentStructure = NULL THEN state_num + 1 ELSE state_num
  /\ cur_mst' = Visited
Visit ==
  /\ count' = [count EXCEPT ![Visited] = @ + 1]
  /\ mem' = mem \cup {Visited}
  /\ state_num' = IF CurrentStructure = NULL THEN state_num + 1 ELSE state_num
  /\ cur_mst' = Visited

\* TSGIOM::update(): the time sequence moves on.
AdvanceState ==
  /\ pre_in' = cur_in /\ UNCHANGED pre_out
  /\ cur_in' = Invalid /\ cur_out' = Invalid
Advance ==
  /\ pre_in' = cur_in /\ pre_out' = cur_out
  /\ cur_in' = Invalid /\ cur_out' = Invalid

\* update() of the first step: there is no link to make.
FirstUpdate ==
  /\ Stepping /\ pre_in = Invalid
  /\ CurrentStructure = searchState(cur_in)
  /\ Visit
  /\ Advance
  /\ UNCHANGED <<eats, blist, lk_num, learning_mode, fault>>

\* linkStates(): the link from the previous state is made or counted.
linkAnew(t) ==
  /\ eats' = [eats EXCEPT ![t] = @ + 1]
  /\ lk_num' = lk_num + 1
  /\ blist' = newBlk(blist, t[1], {t[3]})
linkStates(t) ==
  /\ eats' = [eats EXCEPT ![t] = @ + 1]
  /\ lk_num' = IF eats[t] = 0 THEN lk_num + 1 ELSE lk_num
  /\ blist' = IF eats[t] = 0 THEN newBlk(blist, t[1], {t[3]}) ELSE blist

\* update() of a later step: link, then update the payoff of every state in
\* the backward list of the current one.
LinkUpdate ==
  /\ Stepping /\ pre_in \in mem
  /\ CurrentStructure = searchState(cur_in)
  /\ Visit
  /\ linkStates(<<pre_in, pre_out, cur_in>>)
  /\ fault' \in WalkOutcomes(blist', blist'[cur_in])
  /\ Advance
  /\ UNCHANGED learning_mode

\* update() that cannot find the previous state: ERROR() exits.
LostUpdate ==
  /\ Stepping /\ pre_in \notin mem \cup {Invalid}
  /\ fault' = "exit"
  /\ UNCHANGED <<structures, cur_mst, sequence, learning_mode>>

\* In ONLINE mode update() takes cur_mst as process() left it, and nobody looks
\* whether it still is the structure of cur_in.
Stale == CurrentStructure \notin {searchState(cur_in), Dangling}

\* NULL for a state that has got a structure since: it gets a second one, which
\* states_map does not know.
Twin == CurrentStructure = NULL

\* update() of the first step then counts a visit of another state, and the
\* program runs on, with a previous state that may have no structure.
StaleFirst ==
  /\ Stepping /\ pre_in = Invalid /\ Stale
  /\ Visit
  /\ Advance
  /\ fault' = IF Twin THEN "stale" ELSE fault
  /\ UNCHANGED <<eats, blist, lk_num, learning_mode>>

\* Later it links another state under the environment action of this one, or a
\* second structure of it: searchEat() finds no such entry, so that the link is
\* always new.  (The structures of a state are seen together here; the walk of
\* payoffs that follows, which may meet a freed one, is left out.)
StaleLink ==
  /\ Stepping /\ pre_in \in mem /\ Stale
  /\ Visit
  /\ linkAnew(<<pre_in, pre_out, Visited>>)
  /\ fault' = "stale"
  /\ Advance
  /\ UNCHANGED learning_mode

\* update() that counts a visit in a structure that has been freed.
FreedUpdate ==
  /\ Stepping /\ pre_in \in mem \cup {Invalid}
  /\ CurrentStructure = Dangling
  /\ fault' = "freed"
  /\ UNCHANGED <<structures, cur_mst, sequence, learning_mode>>

--------------------------------------------------------------------------------
SetMode(mode) ==
  /\ May("set_mode")
  /\ learning_mode' = mode
  /\ UNCHANGED <<structures, cur_mst, sequence, fault>>

\* singleOutputEntropy(st): const, yet it constrains.
Entropy(st) ==
  /\ May("entropy")
  /\ Constrain(st)
  /\ UNCHANGED <<structures, sequence, learning_mode, fault>>

\* buildStateFromHeader(): the links of s become those of info, followers
\* that are not in memory get a structure of count 1.
Build(s, info) ==
  LET fresh == ({s} \cup InfoFollowers(info)) \ mem IN
  /\ mem' = mem \cup fresh
  /\ state_num' = state_num + Cardinality(fresh)
  /\ count' = [n \in State |-> IF n = s THEN info.count
                               ELSE IF n \in fresh THEN 1 ELSE count[n]]
  /\ eats' = [t \in Transition |->
                IF t[1] = s THEN info.eats[<<t[2], t[3]>>] ELSE eats[t]]
  /\ blist' = newBlk(blist, s, InfoFollowers(info))
  /\ UNCHANGED <<cur_mst, sequence, learning_mode, fault>>

\* addStateInfo() of a state not in memory; of another it only warns.
AddStateInfo(s, info) ==
  /\ May("add") /\ s \notin mem
  /\ Build(s, info)
  /\ lk_num' = lk_num + Cardinality(InfoLinks(s, info))

\* updateStateInfo() of a state in memory; of another it only warns.  The
\* backward lists of followers that are dropped keep their entry for s.
RelinkedAnew(s, info) == lk_num + Cardinality(InfoLinks(s, info))
RelinkedNum(s, info) ==
  (lk_num - Cardinality({t \in Links : t[1] = s})) + Cardinality(InfoLinks(s, info))
UpdateStateInfo(s, info) ==
  /\ May("update") /\ s \in mem
  /\ Build(s, info)
  /\ lk_num' = RelinkedNum(s, info)

\* deleteState() of a state in memory; of another it does nothing.
DeleteState(s) ==
  /\ May("delete") /\ s \in mem
  /\ Dangling \notin blist[s]
  /\ mem' = mem \ {s}
  /\ state_num' = state_num - 1
  /\ count' = [count EXCEPT ![s] = 0]
  /\ eats' = [t \in Transition |-> IF t \in Severed(s) THEN 0 ELSE eats[t]]
  /\ lk_num' = lk_num - Cardinality(Severed(s))
  /\ blist' = BlistWithout(s)
  /\ cur_mst' = IF cur_mst = s THEN Dangling ELSE cur_mst
  /\ UNCHANGED <<sequence, learning_mode, fault>>

\* deleteState() that follows a backward link to a freed structure.
DeleteThroughFreed(s) ==
  /\ May("delete") /\ s \in mem
  /\ Dangling \in blist[s]
  /\ fault' = "freed"
  /\ UNCHANGED <<structures, cur_mst, sequence, learning_mode>>

\* updatePayoff() of a state in memory.
UpdatePayoff(s) ==
  /\ May("update_payoff") /\ s \in mem
  /\ fault' \in WalkOutcomes(blist, {s})
  /\ UNCHANGED <<structures, cur_mst, sequence, learning_mode>>

\* updatePayoff() of any other state reads through NULL.
UpdateUnknown(s) ==
  /\ May("update_unknown") /\ s \notin mem
  /\ fault' = "null"
  /\ UNCHANGED <<structures, cur_mst, sequence, learning_mode>>

--------------------------------------------------------------------------------
(* The program around the agent.  No code of the library keeps these rules:   *)
(* a program does, or has the habit not to.                                   *)

\* It drops a following state from one it updates.
AsksUpdate(s, info) ==
  "shrink" \in Calls \cup Reenter \/ Followers(s) \subseteq InfoFollowers(info)

\* It deletes the state the agent was last in.
AsksDelete(s) == "delete_previous" \in Calls \cup Reenter \/ s # pre_in

Next ==
  \/ \E st \in State, out \in Action : Process(st, out)
  \/ \E st \in State : DeadEnd(st)
  \/ FirstUpdate
  \/ LinkUpdate
  \/ LostUpdate
  \/ StaleFirst
  \/ StaleLink
  \/ FreedUpdate
  \/ \E mode \in {"ONLINE", "EXPLORE"} : SetMode(mode)
  \/ \E st \in State : Entropy(st)
  \/ \E s \in State, info \in Infos : AddStateInfo(s, info)
  \/ \E s \in State, info \in Infos : AsksUpdate(s, info) /\ UpdateStateInfo(s, info)
  \/ \E s \in State : AsksDelete(s) /\ DeleteState(s)
  \/ \E s \in State : AsksDelete(s) /\ DeleteThroughFreed(s)
  \/ \E s \in State : UpdatePayoff(s)
  \/ \E s \in State : UpdateUnknown(s)

Spec == Init /\ [][Next]_vars

--------------------------------------------------------------------------------
\* Every variable holds a value the program can give it.
TypeOK ==
  /\ mem \subseteq State
  /\ eats \in [Transition -> Nat]
  /\ blist \in [State -> SUBSET (State \cup {Dangling})]
  /\ count \in [State -> Nat]
  /\ state_num \in Int /\ lk_num \in Int
  /\ cur_mst \in mem \cup {NULL, Dangling}
  /\ <<cur_in, cur_out>> \in (State \X Action) \cup {<<Invalid, Invalid>>}
  /\ <<pre_in, pre_out>> \in (State \X Action) \cup {<<Invalid, Invalid>>}
  /\ learning_mode \in {"ONLINE", "EXPLORE"}
  /\ fault \in {"none", "exit", "freed", "null", "stale"}

\* What is not in memory has no links, no backward list and no count.
NothingLeft ==
  \A s \in State \ mem : blist[s] = {} /\ count[s] = 0

\* No forward link starts at or leads to a freed structure: calStatePayoff()
\* and getStateInfo() may follow ea->nstate without a check.
ForwardLive ==
  \A s \in State, a \in Action, n \in State :
    eats[<<s, a, n>>] > 0 => s \in mem /\ n \in mem

\* The backward list of a state holds every state that leads to it, the
\* promise _deleteState() and updateStatePayoff() rely on.
BlistCovers ==
  \A s \in State, a \in Action, n \in State :
    eats[<<s, a, n>>] > 0 => s \in blist[n]

\* The three together: the graph is closed and can be walked both ways.
GraphConsistent == NothingLeft /\ ForwardLive /\ BlistCovers

\* The counters that getMemoryInfo() reports, and loadMemoryFromStorage()
\* compares, are the numbers of structures and links there are (a link made to
\* a wrong structure is seen as one with another link here).
CountersExact ==
  fault # "stale" => state_num = Cardinality(mem) /\ lk_num = Cardinality(Links)

\* The backward list of a state holds no more than the states that "have this
\* state as their following state".
BlistExact ==
  \A n \in State : blist[n] = {s \in State : n \in Followers(s)}

\* The state the next link starts from is in memory.
PreviousExists == pre_in # Invalid => pre_in \in mem

\* update() finds the previous state, "which should be existing".
PreviousFound == fault # "exit"

\* The link an update makes leads to the state that was perceived: as
\* linkStates() has it, "mst->st + eat + act == nmst->st".
LinksAddUp ==
  [][cur_in # Invalid /\ cur_in' = Invalid =>
       \A t \in Transition : eats'[t] > eats[t] => t = <<pre_in, pre_out, cur_in>>]_vars

\* The program never ends by ERROR(), and never uses a structure that is freed,
\* NULL or another state's.
NoFault == fault = "none"

--------------------------------------------------------------------------------
\* The counts the user sees are those of the abstract model of transitions, up
\* to the first link to a wrong structure.
Abstract == INSTANCE TransitionModel
  WITH times <- eats, last <- <<pre_in, pre_out>>, Given <- {i.eats : i \in Infos}

RefinesTransitionModel ==
  Abstract!TMInit /\ [][Abstract!TMNext \/ fault' = "stale"]_(Abstract!tmVars)
================================================================================
