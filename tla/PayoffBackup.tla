------------------------------ MODULE PayoffBackup ------------------------------
(***************************************************************************)
(* How a CSOSAgent keeps the payoffs of its states: every visit links the  *)
(* current state to the previous one, then updateStatePayoff() walks the   *)
(* backward links breadth first from each predecessor of the current       *)
(* state, one pop of update_queue at a time.  Deleting a state updates no  *)
(* payoff, and leaves the actions that led to it in their lists.           *)
(*                                                                         *)
(* A payoff is a number of units of the accuracy, so that trimPayoff() is  *)
(* the floor of a division; the discount rate is DNum / DDen.  Arithmetic  *)
(* is exact: the rounding of binary32 is not modelled.  A backward list is *)
(* the set of states that lead to the state (AgentMemory!BlistExact) and   *)
(* is walked in any order, where the code takes the newest entry first.    *)
(***************************************************************************)
EXTENDS Integers, Sequences, FiniteSets, Functions

CONSTANTS
  State, Action,
  Invalid,          \* INVALID_STATE and INVALID_ACTION
  World,            \* the transitions the environment can make
  Payoffs,          \* the original payoffs originalPayoff() may return
  Keep,             \* INVALID_PAYOFF: keep the original payoff as it is
  DNum, DDen,       \* the discount rate
  MaxCount          \* bound on the count of a link

Transition == State \X Action \X State

ASSUME InvalidAssumption == Invalid \notin State \cup Action
ASSUME WorldAssumption == World \subseteq Transition
ASSUME FiniteAssumption == IsFiniteSet(State) /\ IsFiniteSet(Action)
ASSUME PayoffsAssumption == Payoffs \subseteq Int /\ Keep \notin Payoffs
ASSUME DiscountAssumption == DNum \in Nat /\ DDen \in Nat /\ DNum < DDen
ASSUME MaxCountAssumption == MaxCount \in Nat \ {0}

VARIABLES
  eats,             \* eats[s, a, n]: count of the link, 0 when there is none
  actlist,          \* actlist[s]: the actions s was left by
  original_payoff, payoff,
  pre_in, pre_out,  \* the last state and action
  blk,              \* what updateMemory() has left to walk of the backward
                    \* list of the current state
  update_queue,     \* the queue of updateStatePayoff()
  visited_states,
  earlier,          \* (for the properties) states visited by the walks from
                    \* the entries of the list before this one
  unsettled         \* (for the properties) states whose payoff did not agree
                    \* with their followers when the update began, or that
                    \* led to a state deleted since

links == <<eats, actlist, original_payoff, pre_in, pre_out>>
walk == <<blk, update_queue, visited_states, earlier>>
vars == <<links, payoff, walk, unsettled>>

--------------------------------------------------------------------------------
(* As in AgentMemory, a definition may stand next to a variant with one       *)
(* plausible slip, which no specification uses.                               *)

Elements(seq) == {seq[i] : i \in 1..Len(seq)}
Total(f) == FoldFunction(+, 0, f)

\* The sequences that hold each element of a set once.
Orders(S) == {q \in [1..Cardinality(S) -> S] : Elements(q) = S}

\* The states that lead to n, and the states an action has led to.
blist(n) == {s \in State : \E a \in Action : eats[<<s, a, n>>] > 0}
ealist(s, a) == {n \in State : eats[<<s, a, n>>] > 0}

\* The states that have a structure: who is not the last one was left.
InMemory(s) == s = pre_in \/ actlist[s] # {}

\* _calActPayoff(): the expected payoff of the followers, trimmed; 0 of an action
\* whose followers are all deleted.
calActPayoff(s, a) ==
  IF ealist(s, a) = {} THEN 0
  ELSE Total([n \in ealist(s, a) |-> eats[<<s, a, n>>] * payoff[n]])
         \div Total([n \in ealist(s, a) |-> eats[<<s, a, n>>]])

\* calStatePayoff(): the original payoff and the discounted best, trimmed.
BestOf(S) == CHOOSE best \in S : \A x \in S : x <= best
BestPayoff(s) == BestOf({calActPayoff(s, a) : a \in actlist[s]})
UndiscountedPayoff(s) ==
  IF actlist[s] = {} THEN original_payoff[s] ELSE original_payoff[s] + BestPayoff(s)
calStatePayoff(s) ==
  IF actlist[s] = {} THEN original_payoff[s]
  ELSE (original_payoff[s] * DDen + DNum * BestPayoff(s)) \div DDen

Settled(s) == payoff[s] = calStatePayoff(s)

--------------------------------------------------------------------------------
Init ==
  /\ eats = [t \in Transition |-> 0]
  /\ actlist = [s \in State |-> {}]
  /\ original_payoff = [s \in State |-> 0]
  /\ payoff = [s \in State |-> 0]
  /\ pre_in = Invalid /\ pre_out = Invalid
  /\ blk = {} /\ update_queue = <<>>
  /\ visited_states = {} /\ earlier = {} /\ unsettled = {}

Idle == blk = {} /\ update_queue = <<>>

\* The links of updateMemory(): none at the first step.
LinkPreviousLate(n) ==
  IF pre_in = Invalid
  THEN UNCHANGED <<eats, actlist>> /\ blk' = {}
  ELSE LET t == <<pre_in, pre_out, n>> IN
       /\ t \in World /\ eats[t] < MaxCount
       /\ eats' = [eats EXCEPT ![t] = @ + 1]
       /\ actlist' = [actlist EXCEPT ![pre_in] = @ \cup {pre_out}]
       /\ blk' = blist(n)
LinkPrevious(n) ==
  IF pre_in = Invalid
  THEN UNCHANGED <<eats, actlist>> /\ blk' = {}
  ELSE LET t == <<pre_in, pre_out, n>> IN
       /\ t \in World /\ eats[t] < MaxCount
       /\ eats' = [eats EXCEPT ![t] = @ + 1]
       /\ actlist' = [actlist EXCEPT ![pre_in] = @ \cup {pre_out}]
       /\ blk' = blist(n)'

\* The original payoff of n is set, INVALID_PAYOFF leaves it as it is.
SetAnyPayoff(n, oripayoff) ==
  original_payoff' = [original_payoff EXCEPT ![n] = oripayoff]
SetOriginalPayoff(n, oripayoff) ==
  original_payoff' =
    IF oripayoff = Keep THEN original_payoff
    ELSE [original_payoff EXCEPT ![n] = oripayoff]

\* One step of the agent in n, up to the update of payoffs: the original payoff
\* is taken over, the payoff of n itself is not calculated again.
Experience(n, out, oripayoff) ==
  /\ Idle
  /\ LinkPrevious(n)
  /\ SetOriginalPayoff(n, oripayoff)
  /\ pre_in' = n /\ pre_out' = out
  /\ unsettled' = {s \in State : ~ Settled(s)}
  /\ visited_states' = {} /\ earlier' = {}
  /\ UNCHANGED <<payoff, update_queue>>

\* updatePayoff() of a state with a structure, called by the program.
UpdatePayoff(s) ==
  /\ Idle
  /\ InMemory(s)
  /\ blk' = {s}
  /\ unsettled' = {n \in State : ~ Settled(n)}
  /\ visited_states' = {} /\ earlier' = {}
  /\ UNCHANGED <<links, payoff, update_queue>>

\* deleteState() of another state than the last one, which AgentMemory is about:
\* its links and payoffs are gone, those who led to it keep their payoffs.
DeleteState(s) ==
  /\ Idle
  /\ InMemory(s) /\ s # pre_in
  /\ eats' = [t \in Transition |-> IF s \in {t[1], t[3]} THEN 0 ELSE eats[t]]
  /\ actlist' = [actlist EXCEPT ![s] = {}]
  /\ original_payoff' = [original_payoff EXCEPT ![s] = 0]
  /\ payoff' = [payoff EXCEPT ![s] = 0]
  /\ unsettled' = unsettled \cup blist(s)
  /\ UNCHANGED <<pre_in, pre_out, walk>>

\* updateStatePayoff() of an entry: a fresh queue, nothing visited.
BeginWalk ==
  /\ update_queue = <<>>
  /\ \E start \in blk :
       /\ update_queue' = <<start>>
       /\ blk' = blk \ {start}
  /\ visited_states' = {}
  /\ earlier' = earlier \cup visited_states
  /\ UNCHANGED <<links, payoff, unsettled>>

\* The predecessors that are pushed when the payoff of s changed: those not
\* visited yet.  The backtrace stops at a payoff that does not change.
PushedAlways(s) == IF Settled(s) THEN {} ELSE blist(s)
Pushed(s) == IF Settled(s) THEN {} ELSE blist(s) \ visited_states

\* One turn of the loop of updateStatePayoff().
PopChanged ==
  /\ update_queue # <<>>
  /\ LET cmst == Head(update_queue) IN
     /\ payoff' = [payoff EXCEPT ![cmst] = calStatePayoff(cmst)]
     /\ \E pushed \in Orders(Pushed(cmst)) :
          update_queue' = IF Settled(cmst) THEN update_queue ELSE Tail(update_queue) \o pushed
     /\ visited_states' = visited_states \cup {cmst}
  /\ UNCHANGED <<links, blk, earlier, unsettled>>
Pop ==
  /\ update_queue # <<>>
  /\ LET cmst == Head(update_queue) IN
     /\ payoff' = [payoff EXCEPT ![cmst] = calStatePayoff(cmst)]
     /\ \E pushed \in Orders(Pushed(cmst)) : update_queue' = Tail(update_queue) \o pushed
     /\ visited_states' = visited_states \cup {cmst}
  /\ UNCHANGED <<links, blk, earlier, unsettled>>

Next ==
  \/ \E n \in State, out \in Action, oripayoff \in Payoffs \cup {Keep} :
       Experience(n, out, oripayoff)
  \/ \E s \in State : UpdatePayoff(s)
  \/ \E s \in State : DeleteState(s)
  \/ BeginWalk
  \/ Pop

Spec == Init /\ [][Next]_vars

\* The loops run without interruption once begun.
FairSpec == Spec /\ WF_vars(BeginWalk) /\ WF_vars(Pop)

--------------------------------------------------------------------------------
\* Every variable holds a value the program can give it.
TypeOK ==
  /\ eats \in [Transition -> Nat]
  /\ actlist \in [State -> SUBSET Action]
  /\ original_payoff \in [State -> Int]
  /\ payoff \in [State -> Int]
  /\ pre_in \in State \cup {Invalid} /\ pre_out \in Action \cup {Invalid}
  /\ blk \subseteq State /\ update_queue \in Seq(State)
  /\ visited_states \subseteq State /\ earlier \subseteq State
  /\ unsettled \subseteq State

\* What is left of a walk: the states it has not visited, and the entries of
\* the queue that it has.
Unvisited == Cardinality(State \ visited_states)
Repeats == Cardinality({i \in 1..Len(update_queue) : update_queue[i] \in visited_states})

\* Every turn of the loop leaves less to do, although it may push more entries
\* than it pops and a state may be in the queue more than once.
TurnsDecrease ==
  [][update_queue # <<>> =>
       \/ Unvisited' < Unvisited
       \/ Unvisited' = Unvisited /\ Repeats' < Repeats]_vars

\* Every update of payoffs ends.
UpdateEnds == ~ Idle ~> Idle

\* The payoff of a state disagrees with its original payoff and its followers
\* only if it did before the update, or it led to a state deleted since, or the
\* walks still have to come to it or have been there already, or it is the
\* current state.
StaleIsExplained ==
  \A s \in State : ~ Settled(s) =>
    s \in blk \cup Elements(update_queue) \cup visited_states \cup earlier
          \cup unsettled \cup {pre_in}

\* No payoff leaves the range of the discounted sum of original payoffs, less
\* one rounding for every step of it.
PayoffBounded ==
  \A s \in State, most, least \in Payoffs \cup {0} :
    (\A u \in Payoffs \cup {0} : least <= u /\ u <= most) =>
      /\ payoff[s] * (DDen - DNum) <= most * DDen
      /\ payoff[s] * (DDen - DNum) >= least * DDen - (DDen - 1)
================================================================================
