--------------------------- MODULE AgentMemoryProofs ---------------------------
(***************************************************************************)
(* What holds of AgentMemory for any finite sets of states and actions,    *)
(* any bound and any use the program makes of the agent; that it           *)
(* implements TransitionModel; and what more holds if the program keeps to *)
(* some rules.                                                             *)
(***************************************************************************)
EXTENDS AgentPath, SumTheorems, FiniteSetTheorems, TLAPS

USE SentinelsDistinct, FiniteValues, InfosAssumption

--------------------------------------------------------------------------------
(* The sets that are counted are finite.                                      *)

\* There are finitely many transitions.
LEMMA TransitionsFinite == IsFiniteSet(Transition)
<1> DEFINE Nested == (State \X Action) \X State
           f == [p \in Nested |-> <<p[1][1], p[1][2], p[2]>>]
<1>1. IsFiniteSet(Nested)
  <2>1. IsFiniteSet(State \X Action) BY FS_Product
  <2>2. QED BY <2>1, FS_Product
<1>2. f \in Surjection(Nested, Transition)
  <2>1. f \in [Nested -> Transition] BY DEF Transition
  <2>2. ASSUME NEW t \in Transition PROVE \E p \in Nested : f[p] = t
    <3>1. t = <<t[1], t[2], t[3]>> /\ t[1] \in State /\ t[2] \in Action /\ t[3] \in State
      BY DEF Transition
    <3>2. <<<<t[1], t[2]>>, t[3]>> \in Nested BY <3>1
    <3>3. f[<<<<t[1], t[2]>>, t[3]>>] = t BY <3>1, <3>2
    <3>4. QED BY <3>2, <3>3
  <2>3. QED BY <2>1, <2>2 DEF Surjection
<1>3. QED BY <1>1, <1>2, FS_Surjection

\* The number of any of them is a natural number.
LEMMA CardinalityIsNat ==
  /\ \A S \in SUBSET State : IsFiniteSet(S) /\ Cardinality(S) \in Nat
  /\ \A S \in SUBSET Transition : IsFiniteSet(S) /\ Cardinality(S) \in Nat
BY TransitionsFinite, FS_Subset, FS_CardinalityType

--------------------------------------------------------------------------------
(* Type correctness.                                                          *)

\* The pairs of the time sequence, field by field.
LEMMA SequenceType ==
  ASSUME TypeOK
  PROVE  /\ \/ cur_in \in State /\ cur_out \in Action
            \/ cur_in = Invalid /\ cur_out = Invalid
         /\ \/ pre_in \in State /\ pre_out \in Action
            \/ pre_in = Invalid /\ pre_out = Invalid
BY DEF TypeOK

\* What _deleteState() and buildStateFromHeader() make of the structures is of
\* their type.
LEMMA BlistTypes ==
  ASSUME TypeOK, NEW s \in State, NEW ns \in SUBSET State
  PROVE  /\ newBlk(blist, s, ns) \in [State -> SUBSET (State \cup {Dangling})]
         /\ BlistWithout(s) \in [State -> SUBSET (State \cup {Dangling})]
BY DEF TypeOK, newBlk, BlistWithout

\* The parts of a state information.
LEMMA InfoTypes ==
  ASSUME NEW s \in State, NEW info \in Info
  PROVE  /\ info.count \in Nat
         /\ info.eats \in [Action \X State -> Nat]
         /\ InfoFollowers(info) \subseteq State
         /\ InfoLinks(s, info) \subseteq Transition
BY DEF Info, InfoFollowers, InfoLinks

\* A transfer of state information keeps the types.
LEMMA BuildType ==
  ASSUME TypeOK, NEW s \in State, NEW info \in Info, Build(s, info), lk_num' \in Int
  PROVE  TypeOK'
<1> DEFINE fresh == ({s} \cup InfoFollowers(info)) \ mem
<1>1. fresh \subseteq State BY InfoTypes
<1>2. mem' \subseteq State /\ state_num' \in Int
  BY <1>1, CardinalityIsNat DEF Build, TypeOK
<1>3. eats' \in [Transition -> Nat]
  <2>1. \A t \in Transition : t[1] = s => info.eats[<<t[2], t[3]>>] \in Nat
    BY InfoTypes DEF Transition
  <2>2. QED BY <2>1 DEF Build, TypeOK
<1>4. count' \in [State -> Nat] BY InfoTypes DEF Build, TypeOK
<1>5. blist' \in [State -> SUBSET (State \cup {Dangling})]
  BY BlistTypes, InfoTypes DEF Build
<1>6. cur_mst' \in mem' \cup {NULL, Dangling} BY DEF Build, TypeOK
<1>7. QED BY <1>2, <1>3, <1>4, <1>5, <1>6 DEF Build, TypeOK, sequence

\* What update() takes for the current state is one that has a structure, or the
\* current state itself.
LEMMA VisitedIs ==
  ASSUME TypeOK, Stepping, CurrentStructure # Dangling
  PROVE  /\ cur_in \in State /\ cur_out \in Action /\ Visited \in State
         /\ CurrentStructure # NULL => Visited \in mem
         /\ CurrentStructure = NULL => Visited = cur_in
         /\ CurrentStructure = searchState(cur_in)
              => Visited = cur_in /\ (CurrentStructure = NULL <=> cur_in \notin mem)
<1>1. cur_in \in State /\ cur_out \in Action BY SequenceType DEF Stepping
<1>2. mem \subseteq State /\ NULL \notin State BY DEF TypeOK
<1>3. CurrentStructure \in mem \cup {NULL}
  BY <1>1, <1>2 DEF CurrentStructure, searchState, TypeOK
<1>4. QED BY <1>1, <1>2, <1>3 DEF Visited, searchState

\* An update that is right visits the state that was perceived.
LEMMA RightVisit ==
  ASSUME TypeOK, FirstUpdate \/ LinkUpdate
  PROVE  /\ cur_in \in State /\ cur_out \in Action /\ Visited = cur_in
         /\ mem' = mem \cup {cur_in}
         /\ count' = [count EXCEPT ![cur_in] = @ + 1]
         /\ state_num' = IF cur_in \in mem THEN state_num ELSE state_num + 1
         /\ cur_mst' = cur_in
<1>1. Stepping /\ CurrentStructure = searchState(cur_in) /\ Visit
  BY DEF FirstUpdate, LinkUpdate
<1>2. cur_in \in State BY <1>1, SequenceType DEF Stepping
<1>3. CurrentStructure # Dangling BY <1>1, <1>2 DEF searchState
<1>4. QED BY <1>1, <1>3, VisitedIs DEF Visit

\* A visit is of the types, whatever it visits.
LEMMA VisitTypes ==
  ASSUME TypeOK, Stepping, CurrentStructure # Dangling, Visit
  PROVE  /\ count' \in [State -> Nat] /\ mem' \subseteq State /\ state_num' \in Int
         /\ cur_mst' \in mem'
BY VisitedIs DEF Visit, TypeOK

\* So is a link.
LEMMA LinkTypes ==
  ASSUME TypeOK, NEW t \in Transition, linkStates(t) \/ linkAnew(t)
  PROVE  /\ eats' \in [Transition -> Nat] /\ lk_num' \in Int
         /\ blist' \in [State -> SUBSET (State \cup {Dangling})]
<1>1. eats' \in [Transition -> Nat] /\ lk_num' \in Int
  BY DEF linkStates, linkAnew, TypeOK
<1>2. t[1] \in State /\ t[3] \in State BY DEF Transition
<1>3. newBlk(blist, t[1], {t[3]}) \in [State -> SUBSET (State \cup {Dangling})]
  BY <1>2, BlistTypes
<1>4. QED BY <1>1, <1>3 DEF linkStates, linkAnew, TypeOK

\* An update of payoffs ends well or in a freed structure.
LEMMA OutcomesType ==
  ASSUME NEW bl, NEW start PROVE WalkOutcomes(bl, start) \subseteq {"none", "freed"}
BY DEF WalkOutcomes

\* Every step keeps the types.
LEMMA TypeStep == TypeOK /\ [Next]_vars => TypeOK'
<1> SUFFICES ASSUME TypeOK, [Next]_vars PROVE TypeOK'
  OBVIOUS
<1> USE SequenceType
<1>1. ASSUME NEW st \in State, NEW out \in Action, Process(st, out) PROVE TypeOK'
  BY <1>1 DEF Process, Constrain, TypeOK, structures, Running, searchState
<1>2. ASSUME NEW st \in State, DeadEnd(st) PROVE TypeOK'
  BY <1>2 DEF DeadEnd, Constrain, TypeOK, structures, sequence, searchState
<1>3. ASSUME Stepping, CurrentStructure # Dangling, Visit, Advance,
             eats' \in [Transition -> Nat], lk_num' \in Int,
             blist' \in [State -> SUBSET (State \cup {Dangling})],
             learning_mode' = learning_mode,
             fault' \in {"none", "exit", "freed", "null", "stale"}
      PROVE  TypeOK'
  <2>1. cur_in \in State /\ cur_out \in Action BY <1>3, VisitedIs
  <2>2. <<pre_in', pre_out'>> \in State \X Action /\ cur_in' = Invalid /\ cur_out' = Invalid
    BY <1>3, <2>1 DEF Advance
  <2>3. QED BY <1>3, <2>2, VisitTypes DEF TypeOK
<1>4. CASE FirstUpdate \/ StaleFirst
  <2>1. CurrentStructure # Dangling
    BY <1>4 DEF FirstUpdate, StaleFirst, Stale, searchState, Stepping, TypeOK
  <2>2. QED BY <1>3, <1>4, <2>1 DEF FirstUpdate, StaleFirst, TypeOK
<1>5. CASE LinkUpdate \/ StaleLink
  <2>1. CurrentStructure # Dangling /\ Stepping
    BY <1>5 DEF LinkUpdate, StaleLink, Stale, searchState, Stepping, TypeOK
  <2>2. pre_in \in State /\ pre_out \in Action
    BY <1>5 DEF LinkUpdate, StaleLink, TypeOK
  <2>3. cur_in \in State /\ Visited \in State BY <2>1, VisitedIs
  <2>4. <<pre_in, pre_out, cur_in>> \in Transition /\ <<pre_in, pre_out, Visited>> \in Transition
    BY <2>2, <2>3 DEF Transition
  <2>5. /\ eats' \in [Transition -> Nat] /\ lk_num' \in Int
        /\ blist' \in [State -> SUBSET (State \cup {Dangling})]
    BY <1>5, <2>4, LinkTypes DEF LinkUpdate, StaleLink
  <2>6. fault' \in {"none", "freed", "stale"}
    BY <1>5, OutcomesType DEF LinkUpdate, StaleLink
  <2>7. QED BY <1>3, <1>5, <2>1, <2>5, <2>6 DEF LinkUpdate, StaleLink
<1>6. CASE LostUpdate \/ FreedUpdate
  BY <1>6 DEF LostUpdate, FreedUpdate, TypeOK, structures, sequence
<1>7. ASSUME NEW mode \in {"ONLINE", "EXPLORE"}, SetMode(mode) PROVE TypeOK'
  BY <1>7 DEF SetMode, TypeOK, structures, sequence
<1>8. ASSUME NEW st \in State, Entropy(st) PROVE TypeOK'
  BY <1>8 DEF Entropy, Constrain, TypeOK, structures, sequence, searchState
<1>9. ASSUME NEW s \in State, NEW info \in Infos, AddStateInfo(s, info) PROVE TypeOK'
  <2>1. lk_num' \in Int
    BY <1>9, InfoTypes, CardinalityIsNat DEF AddStateInfo, TypeOK
  <2>2. QED BY <1>9, <2>1, BuildType DEF AddStateInfo
<1>10. ASSUME NEW s \in State, NEW info \in Infos, UpdateStateInfo(s, info) PROVE TypeOK'
  <2>1. {t \in Links : t[1] = s} \subseteq Transition BY DEF Links
  <2>2. lk_num' \in Int
    BY <1>10, <2>1, InfoTypes, CardinalityIsNat DEF UpdateStateInfo, RelinkedNum, TypeOK
  <2>3. QED BY <1>10, <2>2, BuildType DEF UpdateStateInfo
<1>11. ASSUME NEW s \in State, DeleteState(s) PROVE TypeOK'
  <2>1. Severed(s) \subseteq Transition BY DEF Severed, Links
  <2>2. lk_num' \in Int BY <1>11, <2>1, CardinalityIsNat DEF DeleteState, TypeOK
  <2>3. eats' \in [Transition -> Nat] BY <1>11 DEF DeleteState, TypeOK
  <2>4. blist' \in [State -> SUBSET (State \cup {Dangling})]
    BY <1>11, BlistTypes DEF DeleteState
  <2>5. count' \in [State -> Nat] BY <1>11 DEF DeleteState, TypeOK
  <2>6. cur_mst' \in mem' \cup {NULL, Dangling} /\ mem' \subseteq State /\ state_num' \in Int
    BY <1>11 DEF DeleteState, TypeOK
  <2>7. UNCHANGED <<cur_in, cur_out, pre_in, pre_out, learning_mode, fault>>
    BY <1>11 DEF DeleteState, sequence
  <2>8. QED BY <2>2, <2>3, <2>4, <2>5, <2>6, <2>7 DEF TypeOK
<1>12. ASSUME NEW s \in State, DeleteThroughFreed(s) PROVE TypeOK'
  BY <1>12 DEF DeleteThroughFreed, TypeOK, structures, sequence
<1>13. ASSUME NEW s \in State, UpdatePayoff(s) PROVE TypeOK'
  <2>1. fault' \in {"none", "freed"} BY <1>13, OutcomesType DEF UpdatePayoff
  <2>2. QED BY <1>13, <2>1 DEF UpdatePayoff, TypeOK, structures, sequence
<1>14. ASSUME NEW s \in State, UpdateUnknown(s) PROVE TypeOK'
  BY <1>14 DEF UpdateUnknown, TypeOK, structures, sequence
<1>15. CASE UNCHANGED vars
  BY <1>15 DEF vars, TypeOK, structures, sequence
<1>16. QED
  BY <1>1, <1>2, <1>3, <1>4, <1>5, <1>6, <1>7, <1>8, <1>9, <1>10, <1>11, <1>12,
     <1>13, <1>14, <1>15 DEF Next

\* Every variable always holds a value of its type, whatever the program calls.
THEOREM TypeCorrect == Spec => []TypeOK
<1>1. Init => TypeOK BY DEF Init, TypeOK
<1>2. QED BY <1>1, TypeStep, PTL DEF Spec

--------------------------------------------------------------------------------
(* The graph.  NothingLeft is what makes a structure created anew start with  *)
(* an empty backward list; without it GraphConsistent is not inductive.       *)

\* A transition is given by its three parts.
LEMMA TransitionParts ==
  /\ \A s \in State, a \in Action, n \in State :
       LET t == <<s, a, n>> IN t \in Transition /\ t[1] = s /\ t[2] = a /\ t[3] = n
  /\ \A t \in Transition :
       t[1] \in State /\ t[2] \in Action /\ t[3] \in State /\ t = <<t[1], t[2], t[3]>>
BY DEF Transition

\* Nothing that GraphConsistent mentions changes in most actions.
LEMMA GraphUnchanged ==
  ASSUME GraphConsistent, UNCHANGED structures PROVE GraphConsistent'
BY DEF GraphConsistent, NothingLeft, ForwardLive, BlistCovers, structures

\* A visit that makes no link keeps the graph.
LEMMA GraphFirst ==
  ASSUME TypeOK, GraphConsistent, Stepping, CurrentStructure # Dangling, Visit,
         UNCHANGED <<eats, blist>>
  PROVE  GraphConsistent'
<1>1. Visited \in State BY VisitedIs
<1>2. NothingLeft'
  BY <1>1 DEF GraphConsistent, NothingLeft, Visit, TypeOK
<1>3. ForwardLive' BY DEF GraphConsistent, ForwardLive, Visit
<1>4. BlistCovers' BY DEF GraphConsistent, BlistCovers
<1>5. QED BY <1>2, <1>3, <1>4 DEF GraphConsistent

\* linkStates() counts one link more, which its end knows of afterwards.
LEMMA LinkEffect ==
  ASSUME TypeOK, BlistCovers, NEW t \in Transition, linkStates(t) \/ linkAnew(t)
  PROVE  /\ eats'[t] = eats[t] + 1 /\ eats[t] \in Nat
         /\ \A u \in Transition : u # t => eats'[u] = eats[u]
         /\ \A n \in State :
              blist'[n] = IF n = t[3] THEN blist[n] \cup {t[1]} ELSE blist[n]
<1>1. t[1] \in State /\ t[2] \in Action /\ t[3] \in State /\ t = <<t[1], t[2], t[3]>>
  BY TransitionParts
<1>2. eats' = [eats EXCEPT ![t] = @ + 1] BY DEF linkStates, linkAnew
<1>3. CASE eats[t] = 0 \/ linkAnew(t)
  <2>1. blist' = newBlk(blist, t[1], {t[3]}) BY <1>3 DEF linkStates, linkAnew
  <2>2. QED BY <1>1, <1>2, <2>1 DEF newBlk, TypeOK
<1>4. CASE eats[t] # 0 /\ linkStates(t)
  <2>1. eats[t] > 0 BY <1>4 DEF TypeOK
  <2>2. t[1] \in blist[t[3]] BY <1>1, <2>1 DEF BlistCovers
  <2>3. blist' = blist BY <1>4 DEF linkStates
  <2>4. QED BY <1>1, <1>2, <2>2, <2>3 DEF TypeOK
<1>5. QED BY <1>3, <1>4

\* A visit that makes or counts a link from the previous state keeps it, whatever
\* it visits.
LEMMA GraphLink ==
  ASSUME TypeOK, GraphConsistent, Stepping, CurrentStructure # Dangling, pre_in \in mem,
         Visit, NEW t \in Transition, t[1] = pre_in, t[3] = Visited,
         linkStates(t) \/ linkAnew(t)
  PROVE  GraphConsistent'
<1>1. Visited \in State /\ pre_in \in State BY VisitedIs DEF TypeOK
<1>2. /\ mem' = mem \cup {Visited}
      /\ count' = [count EXCEPT ![Visited] = @ + 1]
  BY DEF Visit
<1>3. /\ \A u \in Transition : u # t => eats'[u] = eats[u]
      /\ \A n \in State :
           blist'[n] = IF n = t[3] THEN blist[n] \cup {t[1]} ELSE blist[n]
  BY LinkEffect DEF GraphConsistent
<1>4. NothingLeft'
  BY <1>1, <1>2, <1>3 DEF GraphConsistent, NothingLeft, TypeOK
<1>5. ForwardLive'
  <2> SUFFICES ASSUME NEW s \in State, NEW a \in Action, NEW n \in State,
                      eats'[<<s, a, n>>] > 0
               PROVE  s \in mem' /\ n \in mem'
    BY DEF ForwardLive
  <2>1. CASE <<s, a, n>> = t BY <1>2, <2>1
  <2>2. CASE <<s, a, n>> # t
    BY <1>2, <1>3, <2>2, TransitionParts DEF GraphConsistent, ForwardLive
  <2>3. QED BY <2>1, <2>2
<1>6. BlistCovers'
  <2> SUFFICES ASSUME NEW s \in State, NEW a \in Action, NEW n \in State,
                      eats'[<<s, a, n>>] > 0
               PROVE  s \in blist'[n]
    BY DEF BlistCovers
  <2>1. CASE <<s, a, n>> = t BY <1>3, <2>1
  <2>2. CASE <<s, a, n>> # t
    <3>1. <<s, a, n>> \in Transition BY TransitionParts
    <3>2. eats[<<s, a, n>>] > 0 BY <1>3, <2>2, <3>1
    <3>3. s \in blist[n] BY <3>2 DEF GraphConsistent, BlistCovers
    <3>4. QED BY <1>3, <3>3
  <2>3. QED BY <2>1, <2>2
<1>7. QED BY <1>4, <1>5, <1>6 DEF GraphConsistent

\* A transfer of state information keeps it.
LEMMA GraphBuild ==
  ASSUME TypeOK, GraphConsistent, NEW s \in State, NEW info \in Info, Build(s, info)
  PROVE  GraphConsistent'
<1> DEFINE fs == InfoFollowers(info)
<1>1. /\ mem' = mem \cup {s} \cup fs
      /\ eats' = [t \in Transition |->
                    IF t[1] = s THEN info.eats[<<t[2], t[3]>>] ELSE eats[t]]
      /\ blist' = [n \in State |-> IF n \in fs THEN blist[n] \cup {s} ELSE blist[n]]
  BY DEF Build, newBlk
<1>2. NothingLeft'
  <2>1. \A n \in State \ mem' : n # s /\ n \notin fs /\ n \notin mem BY <1>1
  <2>2. \A n \in State \ mem' : count'[n] = count[n]
    BY <2>1 DEF Build
  <2>3. QED BY <1>1, <2>1, <2>2 DEF GraphConsistent, NothingLeft
<1>3. \A a \in Action, n \in State : eats'[<<s, a, n>>] > 0 => n \in fs
  BY <1>1, TransitionParts DEF InfoFollowers
<1>4. \A p \in State, a \in Action, n \in State :
        p # s => eats'[<<p, a, n>>] = eats[<<p, a, n>>]
  BY <1>1, TransitionParts
<1>5. ForwardLive'
  BY <1>1, <1>3, <1>4 DEF GraphConsistent, ForwardLive
<1>6. BlistCovers'
  BY <1>1, <1>3, <1>4 DEF GraphConsistent, BlistCovers
<1>7. QED BY <1>2, <1>5, <1>6 DEF GraphConsistent

\* A deletion finds every link to the state through its backward list.
LEMMA GraphDelete ==
  ASSUME TypeOK, GraphConsistent, NEW s \in State, DeleteState(s)
  PROVE  GraphConsistent'
<1>1. /\ mem' = mem \ {s}
      /\ count' = [count EXCEPT ![s] = 0]
      /\ eats' = [t \in Transition |-> IF t \in Severed(s) THEN 0 ELSE eats[t]]
      /\ blist' = BlistWithout(s)
  BY DEF DeleteState
<1>2. \A p \in State, a \in Action, n \in State :
        eats'[<<p, a, n>>] > 0 => p # s /\ n # s /\ eats[<<p, a, n>>] > 0
  <2> SUFFICES ASSUME NEW p \in State, NEW a \in Action, NEW n \in State,
                      eats'[<<p, a, n>>] > 0
               PROVE  p # s /\ n # s /\ eats[<<p, a, n>>] > 0
    OBVIOUS
  <2> DEFINE t == <<p, a, n>>
  <2>1. t \in Transition /\ t[1] = p /\ t[3] = n BY TransitionParts
  <2>2. t \notin Severed(s) /\ eats[t] > 0 BY <1>1, <2>1
  <2>3. p \in blist[n] BY <2>2 DEF GraphConsistent, BlistCovers
  <2>4. QED BY <2>1, <2>2, <2>3 DEF Severed, Links
<1>3. NothingLeft'
  <2>1. \A n \in State \ mem' : count'[n] = 0
    BY <1>1 DEF GraphConsistent, NothingLeft, TypeOK
  <2>2. \A n \in State \ mem' : blist'[n] = {}
    BY <1>1 DEF GraphConsistent, NothingLeft, BlistWithout
  <2>3. QED BY <2>1, <2>2 DEF NothingLeft
<1>4. ForwardLive' BY <1>1, <1>2 DEF GraphConsistent, ForwardLive
<1>5. BlistCovers'
  <2>1. \A p \in State, n \in State :
          p # s /\ n # s /\ p \in blist[n] => p \in blist'[n]
    BY <1>1 DEF BlistWithout
  <2>2. QED BY <1>2, <2>1 DEF GraphConsistent, BlistCovers
<1>6. QED BY <1>3, <1>4, <1>5 DEF GraphConsistent

\* An update that goes on has a structure to go on with.
LEMMA StructureThere ==
  ASSUME TypeOK, FirstUpdate \/ StaleFirst \/ LinkUpdate \/ StaleLink
  PROVE  Stepping /\ CurrentStructure # Dangling
BY DEF FirstUpdate, StaleFirst, LinkUpdate, StaleLink, Stale, searchState, Stepping, TypeOK

\* It makes a link from the previous state to what it visits.
LEMMA LinkMade ==
  ASSUME TypeOK, LinkUpdate \/ StaleLink
  PROVE  \E t \in Transition : /\ t[1] = pre_in /\ t[2] = pre_out /\ t[3] = Visited
                               /\ linkStates(t) \/ linkAnew(t)
<1> DEFINE t == <<pre_in, pre_out, Visited>>
<1>1. pre_in \in State /\ pre_out \in Action BY DEF LinkUpdate, StaleLink, TypeOK
<1>2. Visited \in State BY StructureThere, VisitedIs
<1>3. t \in Transition /\ t[1] = pre_in /\ t[2] = pre_out /\ t[3] = Visited
  BY <1>1, <1>2, TransitionParts
<1>4. linkStates(t) \/ linkAnew(t)
  <2>1. CASE LinkUpdate
    <3>1. Visited = cur_in BY <2>1, RightVisit
    <3>2. QED BY <2>1, <3>1 DEF LinkUpdate
  <2>2. CASE StaleLink BY <2>2 DEF StaleLink
  <2>3. QED BY <2>1, <2>2
<1> HIDE DEF t
<1>5. QED BY <1>3, <1>4

\* Every step keeps the graph closed and navigable both ways.
LEMMA GraphStep == TypeOK /\ GraphConsistent /\ [Next]_vars => GraphConsistent'
<1> SUFFICES ASSUME TypeOK, GraphConsistent, [Next]_vars PROVE GraphConsistent'
  OBVIOUS
<1>1. ASSUME NEW st \in State, NEW out \in Action, Process(st, out) PROVE GraphConsistent'
  BY <1>1, GraphUnchanged DEF Process
<1>2. ASSUME NEW st \in State, DeadEnd(st) PROVE GraphConsistent'
  BY <1>2, GraphUnchanged DEF DeadEnd
<1>3. CASE FirstUpdate \/ StaleFirst
  BY <1>3, StructureThere, GraphFirst DEF FirstUpdate, StaleFirst
<1>4. CASE LinkUpdate \/ StaleLink
  <2>1. PICK t \in Transition : (t[1] = pre_in /\ t[2] = pre_out /\ t[3] = Visited)
                               /\ (linkStates(t) \/ linkAnew(t))
    BY <1>4, LinkMade
  <2>2. /\ Stepping /\ CurrentStructure # Dangling /\ pre_in \in mem /\ Visit
    BY <1>4, StructureThere DEF LinkUpdate, StaleLink
  <2>3. QED BY <2>1, <2>2, GraphLink
<1>5. CASE LostUpdate \/ FreedUpdate BY <1>5, GraphUnchanged DEF LostUpdate, FreedUpdate
<1>7. ASSUME NEW mode \in {"ONLINE", "EXPLORE"}, SetMode(mode) PROVE GraphConsistent'
  BY <1>7, GraphUnchanged DEF SetMode
<1>8. ASSUME NEW st \in State, Entropy(st) PROVE GraphConsistent'
  BY <1>8, GraphUnchanged DEF Entropy
<1>9. ASSUME NEW s \in State, NEW info \in Infos, AddStateInfo(s, info) PROVE GraphConsistent'
  BY <1>9, GraphBuild DEF AddStateInfo
<1>10. ASSUME NEW s \in State, NEW info \in Infos, UpdateStateInfo(s, info)
       PROVE  GraphConsistent'
  BY <1>10, GraphBuild DEF UpdateStateInfo
<1>11. ASSUME NEW s \in State, DeleteState(s) PROVE GraphConsistent'
  BY <1>11, GraphDelete
<1>12. ASSUME NEW s \in State, DeleteThroughFreed(s) PROVE GraphConsistent'
  BY <1>12, GraphUnchanged DEF DeleteThroughFreed
<1>13. ASSUME NEW s \in State, UpdatePayoff(s) PROVE GraphConsistent'
  BY <1>13, GraphUnchanged DEF UpdatePayoff
<1>14. ASSUME NEW s \in State, UpdateUnknown(s) PROVE GraphConsistent'
  BY <1>14, GraphUnchanged DEF UpdateUnknown
<1>15. CASE UNCHANGED vars BY <1>15, GraphUnchanged DEF vars
<1>16. QED
  BY <1>1, <1>2, <1>3, <1>4, <1>5, <1>7, <1>8, <1>9, <1>10, <1>11, <1>12,
     <1>13, <1>14, <1>15 DEF Next

\* No forward link leads to a freed structure and every link is known to its
\* follower, whatever the program calls and even after a fault.
THEOREM GraphIsConsistent == Spec => []GraphConsistent
<1>1. Init => GraphConsistent
  BY DEF Init, GraphConsistent, NothingLeft, ForwardLive, BlistCovers, Transition
<1>2. QED BY <1>1, TypeCorrect, GraphStep, PTL DEF Spec

--------------------------------------------------------------------------------
(* The counters.                                                              *)

\* Two disjoint sets of links are counted apart.
LEMMA CountReplaced ==
  ASSUME NEW S, NEW Out \in SUBSET S, NEW In, IsFiniteSet(S), IsFiniteSet(In),
         In \cap (S \ Out) = {}
  PROVE  Cardinality((S \ Out) \cup In) = (Cardinality(S) - Cardinality(Out)) + Cardinality(In)
<1>1. IsFiniteSet(S \ Out) /\ Cardinality(S \ Out) = Cardinality(S) - Cardinality(Out)
  <2>1. S \cap Out = Out OBVIOUS
  <2>2. QED BY <2>1, FS_Difference
<1>2. Cardinality((S \ Out) \cap In) = 0
  <2>1. (S \ Out) \cap In = {} OBVIOUS
  <2>2. QED BY <2>1, FS_EmptySet
<1>3. Cardinality((S \ Out) \cup In)
        = Cardinality(S \ Out) + Cardinality(In) - Cardinality((S \ Out) \cap In)
  BY <1>1, FS_Union
<1>4. Cardinality(S) \in Nat /\ Cardinality(Out) \in Nat /\ Cardinality(In) \in Nat
  BY FS_CardinalityType, FS_Subset
<1>5. QED BY <1>1, <1>2, <1>3, <1>4

\* The links are a finite set of transitions.
LEMMA LinksFinite == IsFiniteSet(Links) /\ Cardinality(Links) \in Nat
BY CardinalityIsNat DEF Links

\* Nothing that CountersExact mentions changes in most actions.
LEMMA CountersUnchanged ==
  ASSUME CountersExact, UNCHANGED structures, Running \/ UNCHANGED fault
  PROVE  CountersExact'
BY DEF CountersExact, Links, structures, Running

\* A visit that is right counts the state it creates.
LEMMA CountersVisit ==
  ASSUME TypeOK, CountersExact, Running, FirstUpdate \/ LinkUpdate
  PROVE  state_num' = Cardinality(mem')
<1>1. IsFiniteSet(mem) BY CardinalityIsNat DEF TypeOK
<1>2. QED BY <1>1, RightVisit, FS_AddElement DEF CountersExact, Running

\* So does the first one, even if it is counted for another state.
LEMMA CountersStale ==
  ASSUME TypeOK, CountersExact, StaleFirst PROVE CountersExact'
<1>1. CASE Twin BY <1>1 DEF StaleFirst, CountersExact
<1>2. CASE ~ Twin
  <2>1. Visited \in mem BY <1>2, StructureThere, VisitedIs DEF Twin
  <2>2. state_num' = state_num /\ mem' = mem BY <1>2, <2>1 DEF StaleFirst, Visit, Twin
  <2>3. QED
    BY <2>2 DEF StaleFirst, CountersExact, Links, Stepping, Running
<1>3. QED BY <1>1, <1>2

\* linkStates() counts the link it creates.
LEMMA CountersLink ==
  ASSUME TypeOK, CountersExact, Running, NEW t \in Transition, linkStates(t)
  PROVE  lk_num' = Cardinality(Links')
<1>1. eats' = [eats EXCEPT ![t] = @ + 1] BY DEF linkStates
<1>2. Links' = Links \cup {t} BY <1>1 DEF Links, TypeOK
<1>3. t \in Links <=> eats[t] # 0 BY DEF Links, TypeOK
<1>4. Cardinality(Links') = IF t \in Links THEN Cardinality(Links) ELSE Cardinality(Links) + 1
  BY <1>2, LinksFinite, FS_AddElement
<1>5. QED BY <1>3, <1>4 DEF linkStates, CountersExact, Running

\* buildStateFromHeader() counts the placeholders, and the links of s are
\* taken off and counted anew.
LEMMA CountersBuild ==
  ASSUME TypeOK, CountersExact, NEW s \in State, NEW info \in Info, Build(s, info),
         lk_num' = RelinkedNum(s, info)
  PROVE  CountersExact'
<1>0. SUFFICES ASSUME fault # "stale" PROVE state_num' = Cardinality(mem') /\ lk_num' = Cardinality(Links')
  BY DEF Build, CountersExact
<1> DEFINE fresh == ({s} \cup InfoFollowers(info)) \ mem
           own == {t \in Links : t[1] = s}
           new == InfoLinks(s, info)
<1>1. state_num' = Cardinality(mem')
  <2>1. fresh \in SUBSET State /\ mem \in SUBSET State
    BY InfoTypes DEF TypeOK
  <2>2. IsFiniteSet(fresh) /\ IsFiniteSet(mem) /\ Cardinality(mem) \in Nat
        /\ Cardinality(fresh) \in Nat
    BY <2>1, CardinalityIsNat
  <2>3. Cardinality(mem \cap fresh) = 0
    <3>1. mem \cap fresh = {} OBVIOUS
    <3>2. QED BY <3>1, FS_EmptySet
  <2>4. Cardinality(mem \cup fresh) = Cardinality(mem) + Cardinality(fresh) - Cardinality(mem \cap fresh)
    BY <2>2, FS_Union
  <2>5. QED BY <1>0, <2>2, <2>3, <2>4 DEF Build, CountersExact
<1>2. Links' = (Links \ own) \cup new
  <2>1. ASSUME NEW t \in Transition PROVE t \in Links' <=> t \in (Links \ own) \cup new
    BY DEF Build, Links, InfoLinks
  <2>2. Links' \subseteq Transition /\ (Links \ own) \cup new \subseteq Transition
    BY DEF Links, InfoLinks
  <2>3. QED BY <2>1, <2>2
<1>3. new \cap (Links \ own) = {} /\ own \in SUBSET Links
  BY DEF InfoLinks
<1>4. IsFiniteSet(new) BY InfoTypes, CardinalityIsNat
<1>5. Cardinality(Links') = (Cardinality(Links) - Cardinality(own)) + Cardinality(new)
  <2>1. Cardinality((Links \ own) \cup new)
          = (Cardinality(Links) - Cardinality(own)) + Cardinality(new)
    BY <1>3, <1>4, LinksFinite, CountReplaced
  <2>2. QED BY <1>2, <2>1
<1>6. QED BY <1>0, <1>1, <1>5 DEF RelinkedNum, CountersExact

\* _deleteState() takes off what it severs.
LEMMA CountersDelete ==
  ASSUME TypeOK, CountersExact, NEW s \in State, DeleteState(s) PROVE CountersExact'
<1>1. state_num' = Cardinality(mem')
  <2>1. IsFiniteSet(mem) /\ s \in mem BY CardinalityIsNat DEF TypeOK, DeleteState
  <2>2. Cardinality(mem \ {s}) = Cardinality(mem) - 1 BY <2>1, FS_RemoveElement
  <2>3. QED BY <2>2 DEF DeleteState, CountersExact, May, Running
<1>2. Links' = Links \ Severed(s)
  BY DEF DeleteState, Links, Severed
<1>3. Links \cap Severed(s) = Severed(s) BY DEF Severed
<1>4. Cardinality(Links \ Severed(s)) = Cardinality(Links) - Cardinality(Severed(s))
  BY <1>3, LinksFinite, FS_Difference
<1>5. QED BY <1>1, <1>2, <1>4 DEF DeleteState, CountersExact, May, Running

\* Every step keeps the counters exact.
LEMMA CountersStep ==
  TypeOK /\ GraphConsistent /\ CountersExact /\ [Next]_vars => CountersExact'
<1> SUFFICES ASSUME TypeOK, GraphConsistent, CountersExact, [Next]_vars PROVE CountersExact'
  OBVIOUS
<1>1. ASSUME NEW st \in State, NEW out \in Action, Process(st, out) PROVE CountersExact'
  BY <1>1, CountersUnchanged DEF Process
<1>2. ASSUME NEW st \in State, DeadEnd(st) PROVE CountersExact'
  BY <1>2, CountersUnchanged DEF DeadEnd
<1>3. CASE FirstUpdate
  <2>1. Running BY <1>3 DEF FirstUpdate, Stepping
  <2>2. state_num' = Cardinality(mem') BY <1>3, <2>1, CountersVisit
  <2>3. QED BY <1>3, <2>1, <2>2 DEF FirstUpdate, CountersExact, Links, Running
<1>4. CASE LinkUpdate
  <2>1. cur_in \in State /\ pre_in \in State /\ pre_out \in Action /\ Running
    BY <1>4, SequenceType DEF LinkUpdate, Stepping, TypeOK
  <2>2. state_num' = Cardinality(mem') BY <1>4, <2>1, CountersVisit
  <2>3. lk_num' = Cardinality(Links')
    BY <1>4, <2>1, CountersLink, TransitionParts DEF LinkUpdate
  <2>4. QED BY <2>2, <2>3 DEF CountersExact
<1>5. CASE LostUpdate \/ FreedUpdate
  BY <1>5, CountersUnchanged DEF LostUpdate, FreedUpdate, Stepping
<1>6. CASE StaleFirst \/ StaleLink
  BY <1>6, CountersStale DEF StaleLink, CountersExact
<1>7. ASSUME NEW mode \in {"ONLINE", "EXPLORE"}, SetMode(mode) PROVE CountersExact'
  BY <1>7, CountersUnchanged DEF SetMode, May
<1>8. ASSUME NEW st \in State, Entropy(st) PROVE CountersExact'
  BY <1>8, CountersUnchanged DEF Entropy, May
<1>9. ASSUME NEW s \in State, NEW info \in Infos, AddStateInfo(s, info) PROVE CountersExact'
  <2>1. {t \in Links : t[1] = s} = {}
    BY <1>9, TransitionParts DEF AddStateInfo, Links, GraphConsistent, ForwardLive
  <2>2. Cardinality({t \in Links : t[1] = s}) = 0 BY <2>1, FS_EmptySet
  <2>3. RelinkedNum(s, info) = lk_num + Cardinality(InfoLinks(s, info))
    BY <2>2 DEF RelinkedNum, TypeOK
  <2>4. QED BY <1>9, <2>3, CountersBuild DEF AddStateInfo
<1>10. ASSUME NEW s \in State, NEW info \in Infos, UpdateStateInfo(s, info)
       PROVE  CountersExact'
  BY <1>10, CountersBuild DEF UpdateStateInfo
<1>11. ASSUME NEW s \in State, DeleteState(s) PROVE CountersExact'
  BY <1>11, CountersDelete
<1>12. ASSUME NEW s \in State, DeleteThroughFreed(s) PROVE CountersExact'
  BY <1>12, CountersUnchanged DEF DeleteThroughFreed, May
<1>13. ASSUME NEW s \in State, UpdatePayoff(s) PROVE CountersExact'
  BY <1>13, CountersUnchanged DEF UpdatePayoff, May
<1>14. ASSUME NEW s \in State, UpdateUnknown(s) PROVE CountersExact'
  BY <1>14, CountersUnchanged DEF UpdateUnknown, May
<1>15. CASE UNCHANGED vars BY <1>15, CountersUnchanged DEF vars
<1>16. QED
  BY <1>1, <1>2, <1>3, <1>4, <1>5, <1>6, <1>7, <1>8, <1>9, <1>10, <1>11, <1>12,
     <1>13, <1>14, <1>15 DEF Next

\* state_num and lk_num are always the numbers of structures and of links in
\* memory: no sequence of visits, transfers and deletions makes them drift.
THEOREM CountersAreExact == Spec => []CountersExact
<1>1. Init => CountersExact
  <2>1. Init => Links = {} BY DEF Init, Links
  <2>2. QED BY <2>1, FS_EmptySet DEF Init, CountersExact
<1>2. QED BY <1>1, TypeCorrect, GraphIsConsistent, CountersStep, PTL DEF Spec

--------------------------------------------------------------------------------
(* AgentMemory implements TransitionModel, whatever the program calls.         *)

\* The counts of links and the time sequence, as the abstract model sees them.
seen == <<eats, <<pre_in, pre_out>>>>

\* A visit counts the transition that led to it, and is the last.
LEMMA VisitIsObserve ==
  ASSUME TypeOK, FirstUpdate \/ LinkUpdate \/ StaleFirst
  PROVE  Abstract!Observe(cur_in, cur_out)
<1>1. CASE FirstUpdate \/ StaleFirst
  <2>1. pre_in = Invalid /\ eats' = eats /\ pre_in' = cur_in /\ pre_out' = cur_out
    BY <1>1 DEF FirstUpdate, StaleFirst, Advance
  <2>2. \A t \in Transition : t # <<pre_in, pre_out, cur_in>>
    BY <2>1, TransitionParts
  <2>3. eats = [t \in Transition |-> eats[t]] BY DEF TypeOK
  <2>4. QED BY <2>1, <2>2, <2>3 DEF Abstract!Observe, Abstract!Transition, Transition
<1>2. CASE LinkUpdate
  <2>1. /\ eats' = [eats EXCEPT ![<<pre_in, pre_out, cur_in>>] = @ + 1]
        /\ pre_in' = cur_in /\ pre_out' = cur_out
    BY <1>2 DEF LinkUpdate, linkStates, Advance
  <2>2. eats' = [t \in Transition |->
                   IF t = <<pre_in, pre_out, cur_in>> THEN eats[t] + 1 ELSE eats[t]]
    BY <2>1 DEF TypeOK
  <2>3. QED BY <2>1, <2>2 DEF Abstract!Observe, Abstract!Transition, Transition
<1>3. QED BY <1>1, <1>2

\* A transfer assigns the transitions out of one state.
LEMMA BuildIsAssign ==
  ASSUME NEW s \in State, NEW info \in Infos, Build(s, info)
  PROVE  Abstract!Assign(s, info.eats)
BY DEF Build, sequence, Abstract!Assign, Abstract!Transition, Transition

\* A deletion forgets every transition from or to the state: that no link into
\* it is missed is where BlistCovers is needed.
LEMMA DeleteIsForget ==
  ASSUME TypeOK, GraphConsistent, NEW s \in State, DeleteState(s)
  PROVE  Abstract!Forget(s)
<1>1. ASSUME NEW t \in Transition
      PROVE  (IF t \in Severed(s) THEN 0 ELSE eats[t])
               = (IF s \in {t[1], t[3]} THEN 0 ELSE eats[t])
  <2>1. CASE eats[t] > 0
    <3>1. t[1] \in blist[t[3]]
      BY <2>1, TransitionParts DEF GraphConsistent, BlistCovers
    <3>2. t \in Severed(s) <=> s \in {t[1], t[3]}
      BY <2>1, <3>1 DEF Severed, Links
    <3>3. QED BY <3>2
  <2>2. CASE eats[t] = 0 BY <2>2
  <2>3. QED BY <2>1, <2>2 DEF TypeOK
<1>2. eats' = [t \in Transition |-> IF s \in {t[1], t[3]} THEN 0 ELSE eats[t]]
  BY <1>1 DEF DeleteState
<1>3. QED BY <1>2 DEF DeleteState, sequence, Abstract!Forget, Abstract!Transition, Transition

\* Every step of the memory is a step of the abstract model, or none of its
\* business, or a link to a wrong structure.
LEMMA StepIsAbstract ==
  TypeOK /\ GraphConsistent /\ [Next]_vars
    => [Abstract!TMNext \/ fault' = "stale"]_(Abstract!tmVars)
<1> SUFFICES ASSUME TypeOK, GraphConsistent, [Next]_vars
             PROVE  Abstract!TMNext \/ fault' = "stale" \/ UNCHANGED seen
  BY DEF Abstract!tmVars, seen
<1>1. CASE FirstUpdate \/ LinkUpdate \/ StaleFirst
  <2>1. cur_in \in State /\ cur_out \in Action
    BY <1>1, SequenceType DEF FirstUpdate, LinkUpdate, StaleFirst, Stepping
  <2>2. QED BY <1>1, <2>1, VisitIsObserve DEF Abstract!TMNext
<1>2. ASSUME NEW s \in State, NEW info \in Infos, Build(s, info) PROVE Abstract!TMNext
  <2>1. info.eats \in {i.eats : i \in Infos} OBVIOUS
  <2>2. QED BY <1>2, <2>1, BuildIsAssign DEF Abstract!TMNext
<1>3. ASSUME NEW s \in State, DeleteState(s) PROVE Abstract!TMNext
  BY <1>3, DeleteIsForget DEF Abstract!TMNext
<1>4. UNCHANGED <<structures, pre_in, pre_out>> => UNCHANGED seen
  BY DEF structures, seen
<1>5. UNCHANGED <<structures, sequence>> => UNCHANGED seen
  BY DEF structures, sequence, seen
<1>6. QED
  BY <1>1, <1>2, <1>3, <1>4, <1>5
  DEF Next, vars, Process, DeadEnd, LostUpdate, StaleLink, FreedUpdate, SetMode, Entropy,
      AddStateInfo, UpdateStateInfo, DeleteThroughFreed, UpdatePayoff, UpdateUnknown

\* The memory of an agent counts exactly the transitions it experienced or was
\* told of, and forgets exactly those of the states deleted, up to the first link
\* updateMemory() makes to a wrong structure.
THEOREM MemoryImplementsTransitions == Spec => RefinesTransitionModel
<1>1. Init => Abstract!TMInit
  BY DEF Init, Abstract!TMInit, Abstract!Transition, Transition
<1>2. QED
  BY <1>1, TypeCorrect, GraphIsConsistent, StepIsAbstract, PTL
  DEF Spec, RefinesTransitionModel

--------------------------------------------------------------------------------
(* What a program must keep to for its agent never to end by ERROR(), by a    *)
(* freed structure or by a wrong one, and the proof that it is enough.        *)

\* updateStateInfo() never drops a following state.
NoShrink == "shrink" \notin Calls \cup Reenter

\* deleteState() is never called for the state last left.
KeepsPrevious == "delete_previous" \notin Calls \cup Reenter

\* originalPayoff() asks nothing of the agent but an update of payoffs.
QuietSteps == Reenter \subseteq {"update_payoff", "update_unknown"}

\* updatePayoff() is only called for states in memory.
KnownOnly == "update_unknown" \notin Calls \cup Reenter

--------------------------------------------------------------------------------
(* The backward lists.                                                        *)

\* A link made or counted is entered in the backward list once.
LEMMA ExactLink ==
  ASSUME TypeOK, GraphConsistent, BlistExact, LinkUpdate \/ StaleLink PROVE BlistExact'
<1>1. PICK t \in Transition : linkStates(t) \/ linkAnew(t) BY LinkMade
<1>2. t[1] \in State /\ t[2] \in Action /\ t[3] \in State /\ t = <<t[1], t[2], t[3]>>
  BY TransitionParts
<1>3. /\ eats'[t] > 0
      /\ \A u \in Transition : u # t => eats'[u] = eats[u]
      /\ \A n \in State :
           blist'[n] = IF n = t[3] THEN blist[n] \cup {t[1]} ELSE blist[n]
  BY <1>1, LinkEffect DEF GraphConsistent
<1>4. \A s \in State, n \in State :
        n \in Followers(s)' <=> n \in Followers(s) \/ (s = t[1] /\ n = t[3])
  <2> TAKE s \in State, n \in State
  <2>1. \A a \in Action : <<s, a, n>> # t => eats'[<<s, a, n>>] = eats[<<s, a, n>>]
    BY <1>3, TransitionParts
  <2>2. CASE s = t[1] /\ n = t[3] BY <1>2, <1>3, <2>2 DEF Followers
  <2>3. CASE ~(s = t[1] /\ n = t[3])
    <3>1. \A a \in Action : <<s, a, n>> # t BY <1>2, <2>3
    <3>2. QED BY <2>1, <2>3, <3>1 DEF Followers
  <2>4. QED BY <2>2, <2>3
<1>5. \A n \in State : blist'[n] = {s \in State : n \in Followers(s)'}
  <2> TAKE n \in State
  <2>1. blist[n] = {s \in State : n \in Followers(s)} BY DEF BlistExact
  <2>2. CASE n = t[3]
    <3>1. blist'[n] = blist[n] \cup {t[1]} BY <1>3, <2>2
    <3>2. \A s \in State : n \in Followers(s)' <=> n \in Followers(s) \/ s = t[1]
      BY <1>4, <2>2
    <3>3. t[1] \in State BY <1>2
    <3>4. QED BY ONLY <2>1, <3>1, <3>2, <3>3
  <2>3. CASE n # t[3] BY <1>3, <1>4, <2>1, <2>3
  <2>4. QED BY <2>2, <2>3
<1>6. QED BY <1>5 DEF BlistExact

\* A transfer that drops no follower only adds entries that have a link.
LEMMA ExactBuild ==
  ASSUME TypeOK, BlistExact, NEW s \in State, NEW info \in Info, Build(s, info),
         Followers(s) \subseteq InfoFollowers(info)
  PROVE  BlistExact'
<1>1. Followers(s)' = InfoFollowers(info)
  <2>1. \A a \in Action, n \in State : eats'[<<s, a, n>>] = info.eats[<<a, n>>]
    BY TransitionParts DEF Build
  <2>2. QED BY <2>1 DEF Followers, InfoFollowers
<1>2. \A p \in State : p # s => Followers(p)' = Followers(p)
  <2>1. \A p \in State, a \in Action, n \in State :
          p # s => eats'[<<p, a, n>>] = eats[<<p, a, n>>]
    BY TransitionParts DEF Build
  <2>2. QED BY <2>1 DEF Followers
<1>3. \A n \in State :
        blist'[n] = IF n \in InfoFollowers(info) THEN blist[n] \cup {s} ELSE blist[n]
  BY DEF Build, newBlk
<1>4. SUFFICES ASSUME NEW n \in State
               PROVE  blist'[n] = {p \in State : n \in Followers(p)'}
  BY DEF BlistExact
<1>5. blist[n] = {p \in State : n \in Followers(p)} BY DEF BlistExact
<1>6. CASE n \in InfoFollowers(info)
  BY <1>1, <1>2, <1>3, <1>5, <1>6
<1>7. CASE n \notin InfoFollowers(info)
  <2>1. s \notin blist[n] BY <1>5, <1>7
  <2>2. QED BY <1>1, <1>2, <1>3, <1>5, <1>7, <2>1
<1>8. QED BY <1>6, <1>7

\* A deletion takes the state out of the lists of exactly its followers.
LEMMA ExactDelete ==
  ASSUME TypeOK, GraphConsistent, BlistExact, NEW s \in State, DeleteState(s)
  PROVE  BlistExact'
<1>1. \A p \in State, n \in State :
        n \in Followers(p)' <=> p # s /\ n # s /\ n \in Followers(p)
  <2> TAKE p \in State, n \in State
  <2>1. \A a \in Action : <<p, a, n>> \in Severed(s)
                            <=> eats[<<p, a, n>>] > 0 /\ (p = s \/ n = s)
    BY TransitionParts DEF Severed, Links, GraphConsistent, BlistCovers
  <2>2. \A a \in Action : eats'[<<p, a, n>>]
                            = IF <<p, a, n>> \in Severed(s) THEN 0 ELSE eats[<<p, a, n>>]
    BY TransitionParts DEF DeleteState
  <2>3. \A a \in Action : eats'[<<p, a, n>>] > 0
                            <=> eats[<<p, a, n>>] > 0 /\ p # s /\ n # s
    <3> TAKE a \in Action
    <3>1. CASE <<p, a, n>> \in Severed(s) BY <2>1, <2>2, <3>1
    <3>2. CASE <<p, a, n>> \notin Severed(s) BY <2>1, <2>2, <3>2
    <3>3. QED BY <3>1, <3>2
  <2>4. QED BY <2>3 DEF Followers
<1>2. \A n \in State : blist'[n] = IF n = s THEN {} ELSE blist[n] \ {s}
  BY DEF DeleteState, BlistWithout, BlistExact
<1>3. QED BY <1>1, <1>2 DEF BlistExact

\* A step changes the backward lists in these three ways only.
LEMMA ExactStep ==
  ASSUME NoShrink PROVE TypeOK /\ GraphConsistent /\ BlistExact /\ [Next]_vars => BlistExact'
<1> SUFFICES ASSUME TypeOK, GraphConsistent, BlistExact, [Next]_vars PROVE BlistExact'
  OBVIOUS
<1>1. CASE LinkUpdate \/ StaleLink BY <1>1, ExactLink
<1>2. ASSUME NEW s \in State, NEW info \in Infos, AddStateInfo(s, info) PROVE BlistExact'
  <2>1. Followers(s) = {}
    BY <1>2 DEF AddStateInfo, Followers, GraphConsistent, ForwardLive
  <2>2. QED BY <1>2, <2>1, ExactBuild DEF AddStateInfo
<1>3. ASSUME NEW s \in State, NEW info \in Infos, AsksUpdate(s, info), UpdateStateInfo(s, info)
      PROVE  BlistExact'
  BY <1>3, NoShrink, ExactBuild DEF UpdateStateInfo, AsksUpdate, NoShrink
<1>4. ASSUME NEW s \in State, DeleteState(s) PROVE BlistExact'
  BY <1>4, ExactDelete
<1>5. ASSUME UNCHANGED <<eats, blist>> PROVE BlistExact'
  BY <1>5 DEF BlistExact, Followers
<1>6. FirstUpdate \/ StaleFirst => UNCHANGED <<eats, blist>> BY DEF FirstUpdate, StaleFirst
<1>7. UNCHANGED structures => UNCHANGED <<eats, blist>> BY DEF structures
<1>8. QED
  BY <1>1, <1>2, <1>3, <1>4, <1>5, <1>6, <1>7
  DEF Next, vars, Process, DeadEnd, LostUpdate, FreedUpdate, SetMode, Entropy,
      DeleteThroughFreed, UpdatePayoff, UpdateUnknown

\* As long as no transfer drops a follower, a backward list holds exactly the
\* states that lead to the state: no pointer in it is dangling.
THEOREM BlistIsExact == ASSUME NoShrink PROVE Spec => []BlistExact
<1>1. Init => BlistExact
  <2>1. Init => \A t \in Transition : ~ (eats[t] > 0) BY DEF Init
  <2>2. Init => \A s \in State : Followers(s) = {}
    BY <2>1, TransitionParts DEF Followers
  <2>3. QED BY <2>2 DEF Init, BlistExact
<1>2. QED BY <1>1, NoShrink, ExactStep, TypeCorrect, GraphIsConsistent, PTL DEF Spec

--------------------------------------------------------------------------------
(* The previous state and the current structure.                              *)

\* Between process() and update() of a step in ONLINE mode, cur_mst is the
\* structure of the current state, or NULL if there is none.
CurMstIsCurrent ==
  Stepping /\ learning_mode = "ONLINE" => cur_mst = searchState(cur_in)

\* Then an update is right.
LEMMA RightStructure ==
  ASSUME TypeOK, CurMstIsCurrent
  PROVE  ~ StaleFirst /\ ~ StaleLink /\ ~ FreedUpdate
<1>1. SUFFICES ASSUME Stepping PROVE CurrentStructure = searchState(cur_in)
  <2>1. Stepping => searchState(cur_in) # Dangling
    BY SequenceType DEF searchState, Stepping
  <2>2. QED BY <1>1, <2>1 DEF StaleFirst, StaleLink, FreedUpdate, Stale
<1>2. QED BY <1>1 DEF CurrentStructure, CurMstIsCurrent, TypeOK

\* What may happen between process(), which sets cur_mst, and update(), which
\* uses it, changes neither cur_mst nor the states there are nor the mode.
LEMMA CurrentStep ==
  ASSUME QuietSteps PROVE CurMstIsCurrent /\ [Next]_vars => CurMstIsCurrent'
<1> SUFFICES ASSUME CurMstIsCurrent, [Next]_vars PROVE CurMstIsCurrent'
  OBVIOUS
<1> USE QuietSteps DEF QuietSteps
<1>1. ASSUME cur_in' = Invalid PROVE CurMstIsCurrent'
  BY <1>1 DEF CurMstIsCurrent, Stepping
<1>2. ASSUME NEW call \in CallNames \ {"update_payoff", "update_unknown"}, May(call),
             UNCHANGED sequence
      PROVE  CurMstIsCurrent'
  BY <1>1, <1>2 DEF May, sequence
<1>3. ASSUME fault' # "none" PROVE CurMstIsCurrent'
  BY <1>3 DEF CurMstIsCurrent, Stepping, Running
<1>4. ASSUME NEW st \in State, NEW out \in Action, Process(st, out) PROVE CurMstIsCurrent'
  BY <1>4 DEF Process, Constrain, CurMstIsCurrent, searchState, structures
<1>5. ASSUME NEW st \in State, DeadEnd(st) PROVE CurMstIsCurrent'
  BY <1>1, <1>5 DEF DeadEnd, sequence
<1>6. FirstUpdate \/ LinkUpdate \/ StaleFirst \/ StaleLink => cur_in' = Invalid
  BY DEF FirstUpdate, LinkUpdate, StaleFirst, StaleLink, Advance
<1>7. LostUpdate \/ FreedUpdate => fault' # "none" BY DEF LostUpdate, FreedUpdate
<1>8. ASSUME UNCHANGED <<structures, cur_mst, sequence, learning_mode>>, Running \/ UNCHANGED fault
      PROVE  CurMstIsCurrent'
  BY <1>8 DEF CurMstIsCurrent, Stepping, Running, searchState, structures, sequence
<1>9. \A s \in State : UpdatePayoff(s) \/ UpdateUnknown(s) => CurMstIsCurrent'
  BY <1>8 DEF UpdatePayoff, UpdateUnknown, May
<1>10. UNCHANGED vars => CurMstIsCurrent' BY <1>8 DEF vars
<1>11. {"add", "update", "delete", "set_mode", "entropy"}
         \subseteq CallNames \ {"update_payoff", "update_unknown"}
  BY DEF CallNames
<1>12. QED
  BY <1>2, <1>3, <1>1, <1>4, <1>5, <1>6, <1>7, <1>9, <1>10, <1>11
  DEF Next, SetMode, Entropy, AddStateInfo, UpdateStateInfo, Build, DeleteState,
      DeleteThroughFreed

\* In a step that is not meddled with, updateMemory() works on the structure of
\* the current state.
LEMMA CurrentIsCurrent == ASSUME QuietSteps PROVE Spec => []CurMstIsCurrent
<1>1. Init => CurMstIsCurrent BY DEF Init, CurMstIsCurrent, Stepping
<1>2. QED BY <1>1, QuietSteps, CurrentStep, PTL DEF Spec

\* A step that leaves pre_in alone and takes no other state away keeps it.
LEMMA PreviousKept ==
  ASSUME PreviousExists, pre_in' = pre_in, pre_in \in mem => pre_in \in mem'
  PROVE  PreviousExists'
BY DEF PreviousExists

\* Every step keeps the previous state in memory.
LEMMA PreviousStep ==
  ASSUME KeepsPrevious
  PROVE  TypeOK /\ CurMstIsCurrent /\ PreviousExists /\ [Next]_vars => PreviousExists'
<1> SUFFICES ASSUME TypeOK, CurMstIsCurrent, PreviousExists, [Next]_vars PROVE PreviousExists'
  OBVIOUS
<1>1. CASE FirstUpdate \/ LinkUpdate
  BY <1>1, RightVisit DEF FirstUpdate, LinkUpdate, Advance, PreviousExists
<1>2. ~ StaleFirst /\ ~ StaleLink /\ ~ FreedUpdate BY RightStructure
<1>3. ASSUME NEW s \in State, NEW info \in Infos, Build(s, info) PROVE PreviousExists'
  BY <1>3, PreviousKept DEF Build, sequence
<1>4. ASSUME NEW s \in State, AsksDelete(s), DeleteState(s) PROVE PreviousExists'
  <2>1. s # pre_in BY <1>4, KeepsPrevious DEF AsksDelete, KeepsPrevious
  <2>2. QED BY <1>4, <2>1, PreviousKept DEF DeleteState, sequence
<1>5. ASSUME UNCHANGED <<mem, pre_in>> PROVE PreviousExists'
  BY <1>5, PreviousKept
<1>6. UNCHANGED <<structures, pre_in>> => UNCHANGED <<mem, pre_in>> BY DEF structures
<1>7. UNCHANGED sequence => UNCHANGED pre_in BY DEF sequence
<1>8. QED
  BY <1>1, <1>2, <1>3, <1>4, <1>5, <1>6, <1>7
  DEF Next, vars, Process, DeadEnd, LostUpdate, SetMode, Entropy,
      AddStateInfo, UpdateStateInfo, DeleteThroughFreed, UpdatePayoff, UpdateUnknown

\* As long as the state last left is not deleted, update() finds it.
LEMMA PreviousIsFound == ASSUME KeepsPrevious, QuietSteps PROVE Spec => []PreviousExists
<1>1. Init => PreviousExists BY DEF Init, PreviousExists
<1>2. QED
  BY <1>1, KeepsPrevious, QuietSteps, PreviousStep, TypeCorrect, CurrentIsCurrent, PTL DEF Spec

--------------------------------------------------------------------------------
(* The end of the program.                                                    *)

\* An update of payoffs over backward lists without dangling pointers ends well.
LEMMA WalkIsSafe ==
  ASSUME NEW bl, NEW start \in SUBSET State, \A n \in State : bl[n] \subseteq State
  PROVE  WalkOutcomes(bl, start) = {"none"}
<1>1. Dangling \notin start OBVIOUS
<1>2. Dangling \notin Upstream(bl, start)
  <2>1. /\ State \in SUBSET (State \cup {Dangling})
        /\ start \subseteq State
        /\ \A n \in State \cap State : bl[n] \subseteq State
        /\ Dangling \notin State
    OBVIOUS
  <2>2. QED BY <2>1 DEF Upstream
<1>3. QED BY <1>1, <1>2 DEF WalkOutcomes

\* No step of a program that keeps to the rules is its last.
LEMMA FaultStep ==
  ASSUME KnownOnly
  PROVE  /\ TypeOK /\ BlistExact /\ BlistExact'
         /\ PreviousExists /\ CurMstIsCurrent /\ NoFault
         /\ [Next]_vars
         => NoFault'
<1> SUFFICES ASSUME TypeOK, BlistExact, BlistExact', PreviousExists, CurMstIsCurrent, NoFault,
                    [Next]_vars
             PROVE  NoFault'
  OBVIOUS
<1> USE DEF NoFault
<1>1. CASE LinkUpdate
  <2>1. cur_in \in State BY <1>1, SequenceType DEF LinkUpdate, Stepping
  <2>2. \A n \in State : blist'[n] \subseteq State BY DEF BlistExact
  <2>3. WalkOutcomes(blist', blist'[cur_in]) = {"none"} BY <2>1, <2>2, WalkIsSafe
  <2>4. QED BY <1>1, <2>3 DEF LinkUpdate
<1>2. CASE LostUpdate
  BY <1>2 DEF LostUpdate, PreviousExists
<1>3. ~ StaleFirst /\ ~ StaleLink /\ ~ FreedUpdate BY RightStructure
<1>4. ASSUME NEW s \in State, DeleteThroughFreed(s) PROVE NoFault'
  BY <1>4 DEF DeleteThroughFreed, BlistExact
<1>5. ASSUME NEW s \in State, UpdatePayoff(s) PROVE NoFault'
  <2>1. \A n \in State : blist[n] \subseteq State BY DEF BlistExact
  <2>2. WalkOutcomes(blist, {s}) = {"none"} BY <2>1, WalkIsSafe
  <2>3. QED BY <1>5, <2>2 DEF UpdatePayoff
<1>6. ASSUME NEW s \in State, UpdateUnknown(s) PROVE NoFault'
  BY <1>6, KnownOnly DEF UpdateUnknown, May, KnownOnly
<1>7. QED
  BY <1>1, <1>2, <1>3, <1>4, <1>5, <1>6
  DEF Next, vars, Process, DeadEnd, FirstUpdate, SetMode, Entropy, AddStateInfo,
      UpdateStateInfo, Build, DeleteState

\* An agent whose program keeps to the four rules never ends by ERROR(), never
\* reads a freed structure and never updates a wrong one.
THEOREM RulesAreEnough ==
  ASSUME NoShrink, KeepsPrevious, QuietSteps, KnownOnly PROVE Spec => []NoFault
<1>1. Init => NoFault BY DEF Init, NoFault
<1>2. QED
  BY <1>1, NoShrink, KeepsPrevious, QuietSteps, KnownOnly, FaultStep,
     TypeCorrect, BlistIsExact, PreviousIsFound, CurrentIsCurrent, PTL DEF Spec

--------------------------------------------------------------------------------
(* One path.                                                                  *)

\* Before the first update nothing is counted: the invariant OnePath needs.
NothingCounted == \A s \in State : count[s] = 0 /\ \A t \in Transition : eats[t] = 0
PathInv == TypeOK /\ OnePath /\ (pre_in = Invalid => NothingCounted)

\* A program that neither transfers nor deletes a state.
PathOnly == {"add", "update", "delete"} \cap (Calls \cup Reenter) = {}

From(s) == {t \in Transition : t[1] = s}
Into(s) == {t \in Transition : t[3] = s}

\* The sums of AgentPath are sums over finite sets of transitions.
LEMMA PathSums ==
  ASSUME NEW s
  PROVE  /\ TimesLeft(s) = SumOver(eats, From(s)) /\ IsFiniteSet(From(s))
         /\ TimesEntered(s) = SumOver(eats, Into(s)) /\ IsFiniteSet(Into(s))
         /\ TimesLeft(s)' = SumOver(eats', From(s))
         /\ TimesEntered(s)' = SumOver(eats', Into(s))
<1>1. From(s) \in SUBSET Transition /\ Into(s) \in SUBSET Transition BY DEF From, Into
<1>2. IsFiniteSet(From(s)) /\ IsFiniteSet(Into(s)) BY <1>1, CardinalityIsNat
<1>3. TimesLeft(s) = SumOver(eats, From(s)) /\ TimesEntered(s) = SumOver(eats, Into(s))
  BY DEF TimesLeft, TimesEntered, MapThenSumSet, SumOver, From, Into
<1>4. TimesLeft(s)' = SumOver(eats', From(s)) /\ TimesEntered(s)' = SumOver(eats', Into(s))
  BY DEF TimesLeft, TimesEntered, MapThenSumSet, MapThenFoldSet, SumOver, From, Into
<1>5. QED BY <1>2, <1>3, <1>4

\* Sums of no counts.
LEMMA NoSums ==
  ASSUME \A t \in Transition : eats[t] = 0, NEW s
  PROVE  TimesLeft(s) = 0 /\ TimesEntered(s) = 0
<1>1. \A S \in SUBSET Transition : \A t \in S : eats[t] = 0 OBVIOUS
<1>2. From(s) \in SUBSET Transition /\ Into(s) \in SUBSET Transition BY DEF From, Into
<1>3. SumOver(eats, From(s)) = 0 /\ SumOver(eats, Into(s)) = 0
  BY <1>1, <1>2, PathSums, SumOfZeros
<1>4. QED BY <1>3, PathSums

\* One more count of a transition is one more time its state is left and its
\* following state entered.
LEMMA OneMore ==
  ASSUME NEW t \in Transition, NEW s \in State,
         \A u \in Transition :
           eats[u] \in Int /\ eats'[u] = (IF u = t THEN eats[u] + 1 ELSE eats[u])
  PROVE  /\ TimesLeft(s) \in Int /\ TimesEntered(s) \in Int
         /\ TimesLeft(s)' = TimesLeft(s) + (IF s = t[1] THEN 1 ELSE 0)
         /\ TimesEntered(s)' = TimesEntered(s) + (IF s = t[3] THEN 1 ELSE 0)
<1>1. \A S \in SUBSET Transition :
        IsFiniteSet(S) =>
          /\ SumOver(eats, S) \in Int
          /\ t \in S => SumOver(eats', S) = SumOver(eats, S) + 1
          /\ t \notin S => SumOver(eats', S) = SumOver(eats, S)
  <2> TAKE S \in SUBSET Transition
  <2>1. SUFFICES ASSUME IsFiniteSet(S)
                 PROVE  /\ SumOver(eats, S) \in Int
                        /\ t \in S => SumOver(eats', S) = SumOver(eats, S) + 1
                        /\ t \notin S => SumOver(eats', S) = SumOver(eats, S)
    OBVIOUS
  <2>2. \A u \in S : eats[u] \in Int /\ eats'[u] = (IF u = t THEN eats[u] + 1 ELSE eats[u])
    OBVIOUS
  <2>3. QED BY <2>1, <2>2, SumOfCounted
<1>2. /\ From(s) \in SUBSET Transition /\ (t \in From(s) <=> s = t[1])
      /\ Into(s) \in SUBSET Transition /\ (t \in Into(s) <=> s = t[3])
  BY DEF From, Into
<1>3. /\ TimesLeft(s) \in Int /\ TimesLeft(s)' = TimesLeft(s) + (IF s = t[1] THEN 1 ELSE 0)
  <2>1. IsFiniteSet(From(s)) /\ TimesLeft(s) = SumOver(eats, From(s))
        /\ TimesLeft(s)' = SumOver(eats', From(s))
    BY PathSums
  <2>2. QED BY <1>1, <1>2, <2>1
<1>4. /\ TimesEntered(s) \in Int
      /\ TimesEntered(s)' = TimesEntered(s) + (IF s = t[3] THEN 1 ELSE 0)
  <2>1. IsFiniteSet(Into(s)) /\ TimesEntered(s) = SumOver(eats, Into(s))
        /\ TimesEntered(s)' = SumOver(eats', Into(s))
    BY PathSums
  <2>2. QED BY <1>1, <1>2, <2>1
<1>5. QED BY <1>3, <1>4

\* An update goes one step further along the path.
LEMMA PathUpdate == ASSUME PathInv, FirstUpdate \/ LinkUpdate PROVE OnePath' /\ pre_in' # Invalid
<1>1. cur_in \in State /\ cur_out \in Action /\ pre_in' = cur_in
  BY RightVisit DEF PathInv, FirstUpdate, LinkUpdate, Advance
<1>2. \A s \in State : count[s] \in Nat /\ count'[s] = count[s] + (IF s = cur_in THEN 1 ELSE 0)
  BY <1>1, RightVisit DEF PathInv, TypeOK
<1>3. CASE FirstUpdate
  <2>1. pre_in = Invalid /\ NothingCounted /\ eats' = eats
    BY <1>3 DEF FirstUpdate, PathInv
  <2>2. \A s \in State : TimesLeft(s) = 0 /\ TimesEntered(s) = 0
    BY <2>1, NoSums DEF NothingCounted
  <2>3. \A s \in State : TimesLeft(s)' = TimesLeft(s) /\ TimesEntered(s)' = TimesEntered(s)
    BY <2>1, PathSums
  <2>4. \A s \in State : count'[s] = (IF s = cur_in THEN 1 ELSE 0)
    BY <1>2, <2>1 DEF NothingCounted
  <2>5. QED BY <1>1, <2>2, <2>3, <2>4 DEF OnePath
<1>4. CASE LinkUpdate
  <2> DEFINE t == <<pre_in, pre_out, cur_in>>
  <2>1. pre_in \in State /\ pre_in # Invalid /\ pre_out \in Action
    BY <1>4, SequenceType DEF LinkUpdate, PathInv, TypeOK
  <2>2. t \in Transition /\ t[1] = pre_in /\ t[3] = cur_in BY <1>1, <2>1, TransitionParts
  <2>3. \A u \in Transition :
          eats[u] \in Int /\ eats'[u] = (IF u = t THEN eats[u] + 1 ELSE eats[u])
    BY <1>4 DEF LinkUpdate, linkStates, PathInv, TypeOK
  <2>4. \A s \in State :
          /\ TimesLeft(s) \in Int /\ TimesEntered(s) \in Int
          /\ TimesLeft(s)' = TimesLeft(s) + (IF s = pre_in THEN 1 ELSE 0)
          /\ TimesEntered(s)' = TimesEntered(s) + (IF s = cur_in THEN 1 ELSE 0)
    BY <2>2, <2>3, OneMore DEF PathInv
  <2>5. \A s \in State : count[s] = TimesLeft(s) + (IF s = pre_in THEN 1 ELSE 0)
    BY DEF PathInv, OnePath
  <2>6. PICK first \in State :
          \A s \in State : count[s] = TimesEntered(s) + (IF s = first THEN 1 ELSE 0)
    BY <2>1 DEF PathInv, OnePath
  <2>7. \A s \in State : count'[s] = TimesLeft(s)' + (IF s = cur_in THEN 1 ELSE 0)
    BY <1>2, <2>4, <2>5
  <2>8. \A s \in State : count'[s] = TimesEntered(s)' + (IF s = first THEN 1 ELSE 0)
    BY <1>2, <2>4, <2>6
  <2>9. QED BY <1>1, <2>7, <2>8 DEF OnePath
<1>5. QED BY <1>1, <1>3, <1>4

\* Nothing else counts.
LEMMA PathUnchanged ==
  ASSUME OnePath, pre_in = Invalid => NothingCounted, UNCHANGED <<count, eats, pre_in>>
  PROVE  OnePath' /\ (pre_in = Invalid => NothingCounted)'
<1>1. \A s \in State : TimesLeft(s)' = TimesLeft(s) /\ TimesEntered(s)' = TimesEntered(s)
  BY PathSums
<1>2. OnePath' BY <1>1 DEF OnePath
<1>3. QED BY <1>2 DEF NothingCounted

\* The invariant holds at first.
LEMMA PathInit == Init => PathInv
<1> SUFFICES ASSUME Init PROVE PathInv OBVIOUS
<1>1. TypeOK BY DEF Init, TypeOK
<1>2. NothingCounted BY DEF Init, NothingCounted
<1>3. \A s \in State : TimesLeft(s) = 0 BY NoSums DEF Init
<1>4. pre_in = Invalid BY DEF Init
<1>5. OnePath BY <1>2, <1>3, <1>4 DEF OnePath, NothingCounted
<1>6. QED BY <1>1, <1>2, <1>5 DEF PathInv

\* What every step of the agent does to the counts.
LEMMA PathSteps ==
  ASSUME TypeOK, CurMstIsCurrent, [Next]_vars
  PROVE  \/ FirstUpdate \/ LinkUpdate
         \/ UNCHANGED <<count, eats, pre_in>>
         \/ \E s \in State, info \in Infos : AddStateInfo(s, info) \/ UpdateStateInfo(s, info)
         \/ \E s \in State : DeleteState(s)
BY RightStructure
DEF Next, vars, structures, sequence, Process, DeadEnd, LostUpdate, SetMode,
   Entropy, DeleteThroughFreed, UpdatePayoff, UpdateUnknown

\* An agent to which nothing is transferred and of which nothing is deleted, and
\* which is left alone within its steps, has walked one path through its memory:
\* linkStates() and updateMemory() counted every visit once, in whatever mode and
\* however steps failed.
THEOREM AgentWalksOnePath == ASSUME PathOnly, QuietSteps PROVE Spec => []OnePath
<1>1. PathInv /\ CurMstIsCurrent /\ [Next]_vars => PathInv'
  <2> SUFFICES ASSUME PathInv, CurMstIsCurrent, [Next]_vars PROVE PathInv' OBVIOUS
  <2>1. TypeOK' BY TypeStep DEF PathInv
  <2>2. CASE FirstUpdate \/ LinkUpdate BY <2>1, <2>2, PathUpdate DEF PathInv
  <2>3. CASE UNCHANGED <<count, eats, pre_in>> BY <2>1, <2>3, PathUnchanged DEF PathInv
  <2>4. ASSUME NEW call \in {"add", "update", "delete"} PROVE ~ May(call)
    BY PathOnly DEF PathOnly, May
  <2>5. QED
    BY <2>2, <2>3, <2>4, PathSteps DEF PathInv, AddStateInfo, UpdateStateInfo, DeleteState
<1>2. PathInv => OnePath BY DEF PathInv
<1>3. QED BY <1>1, <1>2, QuietSteps, CurrentIsCurrent, PathInit, PTL DEF Spec
================================================================================
