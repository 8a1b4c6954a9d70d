-------------------------- MODULE PayoffBackupProofs --------------------------
(***************************************************************************)
(* Why every walk of updateStatePayoff() comes to an end, and what it may  *)
(* leave behind, for any finite world, discount rate and payoffs; and why  *)
(* no payoff leaves the range of those the program gave.  For the walks    *)
(* only what calStatePayoff() depends on matters, for the range what it    *)
(* adds up and divides by.                                                 *)
(***************************************************************************)
EXTENDS PayoffBackup, SumTheorems, SequenceTheorems

\* The types of everything but the payoffs themselves.
WalkTypeOK ==
  /\ eats \in [Transition -> Nat]
  /\ actlist \in [State -> SUBSET Action]
  /\ original_payoff \in [State -> {original_payoff[s] : s \in State}]
  /\ payoff \in [State -> {payoff[s] : s \in State}]
  /\ pre_in \in State \cup {Invalid}
  /\ blk \subseteq State /\ update_queue \in Seq(State)
  /\ visited_states \subseteq State

--------------------------------------------------------------------------------
\* A sequence chosen from Orders(S) holds the elements of S and no others.
LEMMA OrdersType ==
  ASSUME NEW S, IsFiniteSet(S), NEW q \in Orders(S)
  PROVE  q \in Seq(S) /\ Len(q) = Cardinality(S) /\ Elements(q) = S
<1>1. Cardinality(S) \in Nat BY FS_CardinalityType
<1>2. q \in [1..Cardinality(S) -> S] /\ Elements(q) = S BY DEF Orders
<1>3. q \in Seq(S) /\ Len(q) = Cardinality(S) BY <1>1, <1>2
<1>4. QED BY <1>2, <1>3

\* What a turn of the loop makes of the queue.
LEMMA PopQueue ==
  ASSUME WalkTypeOK, Pop
  PROVE  LET c == Head(update_queue) IN
         /\ c \in State
         /\ \E q \in Seq(State) :
              /\ Elements(q) = Pushed(c)
              /\ update_queue' = Tail(update_queue) \o q
         /\ visited_states' = visited_states \cup {c}
<1> DEFINE c == Head(update_queue)
<1>1. c \in State BY HeadTailProperties DEF WalkTypeOK, Pop
<1>2. Pushed(c) \subseteq State BY DEF Pushed, blist
<1>3. IsFiniteSet(Pushed(c)) BY <1>2, FiniteAssumption, FS_Subset
<1>4. PICK q \in Orders(Pushed(c)) : update_queue' = Tail(update_queue) \o q
  BY DEF Pop
<1>5. q \in Seq(Pushed(c)) /\ Elements(q) = Pushed(c) BY <1>3, OrdersType
<1>6. q \in Seq(State) BY <1>2, <1>5, SeqMonotonic
<1>7. QED BY <1>1, <1>4, <1>5, <1>6 DEF Pop

\* The types are an invariant.
LEMMA WalkTypes == Spec => []WalkTypeOK
<1>1. Init => WalkTypeOK BY DEF Init, WalkTypeOK
<1>2. WalkTypeOK /\ [Next]_vars => WalkTypeOK'
  <2> SUFFICES ASSUME WalkTypeOK, [Next]_vars PROVE WalkTypeOK'
    OBVIOUS
  <2>1. ASSUME NEW n \in State, NEW out \in Action, NEW oripayoff, Experience(n, out, oripayoff)
        PROVE  WalkTypeOK'
    <3> DEFINE t == <<pre_in, pre_out, n>>
    <3>1. eats' \in [Transition -> Nat]
      <4>1. eats' = eats \/ (t \in World /\ eats' = [eats EXCEPT ![t] = @ + 1])
        BY <2>1 DEF Experience, LinkPrevious
      <4> HIDE DEF t
      <4>2. eats \in [Transition -> Nat] BY DEF WalkTypeOK
      <4>3. QED BY <4>1, <4>2, WorldAssumption
    <3>2. blk' \subseteq State
      BY <2>1 DEF Experience, LinkPrevious, blist
    <3>3. actlist' \in [State -> SUBSET Action]
      <4>1. actlist' = actlist \/ actlist' = [actlist EXCEPT ![pre_in] = @ \cup {pre_out}]
        BY <2>1 DEF Experience, LinkPrevious
      <4>2. actlist' = actlist \/ pre_out \in Action
        BY <2>1, WorldAssumption DEF Experience, LinkPrevious, Transition
      <4>3. QED BY <4>1, <4>2 DEF WalkTypeOK
    <3>4. original_payoff' \in [State -> {original_payoff'[s] : s \in State}]
      BY <2>1 DEF Experience, SetOriginalPayoff, WalkTypeOK
    <3>5. QED BY <2>1, <3>1, <3>2, <3>3, <3>4 DEF Experience, WalkTypeOK
  <2>2. ASSUME NEW s \in State, UpdatePayoff(s) PROVE WalkTypeOK'
    BY <2>2 DEF UpdatePayoff, WalkTypeOK, links
  <2>3. ASSUME NEW s \in State, DeleteState(s) PROVE WalkTypeOK'
    <3>1. eats' \in [Transition -> Nat] /\ actlist' \in [State -> SUBSET Action]
      BY <2>3 DEF DeleteState, WalkTypeOK
    <3>2. /\ original_payoff' \in [State -> {original_payoff'[n] : n \in State}]
          /\ payoff' \in [State -> {payoff'[n] : n \in State}]
      BY <2>3 DEF DeleteState, WalkTypeOK
    <3>3. QED BY <2>3, <3>1, <3>2 DEF DeleteState, WalkTypeOK, walk
  <2>4. CASE BeginWalk BY <2>4 DEF BeginWalk, WalkTypeOK, links
  <2>5. CASE Pop
    <3>1. update_queue' \in Seq(State) /\ visited_states' \subseteq State
      <4>1. Tail(update_queue) \in Seq(State)
        BY <2>5, HeadTailProperties DEF WalkTypeOK, Pop
      <4>2. PICK q \in Seq(State) : update_queue' = Tail(update_queue) \o q
        BY <2>5, PopQueue
      <4>3. update_queue' \in Seq(State) BY <4>1, <4>2, ConcatProperties
      <4>4. QED BY <2>5, <4>3, PopQueue DEF WalkTypeOK
    <3>2. payoff' = [payoff EXCEPT ![Head(update_queue)] = calStatePayoff(Head(update_queue))]
      BY <2>5 DEF Pop
    <3>3. payoff' \in [State -> {payoff'[s] : s \in State}]
      BY <3>2 DEF WalkTypeOK
    <3>4. QED BY <2>5, <3>1, <3>3 DEF Pop, WalkTypeOK, links
  <2>6. CASE UNCHANGED vars BY <2>6 DEF vars, links, walk, WalkTypeOK
  <2>7. QED BY <2>1, <2>2, <2>3, <2>4, <2>5, <2>6 DEF Next
<1>3. QED BY <1>1, <1>2, PTL DEF Spec

--------------------------------------------------------------------------------
(* Every turn leaves less to do.                                              *)

\* The entries of a queue that have been visited, by their place in it.
Visited(queue, seen) == {i \in 1..Len(queue) : queue[i] \in seen}

\* Visiting one state more leaves one unvisited state less.
LEMMA UnvisitedDecreases ==
  ASSUME NEW V \in SUBSET State, NEW c \in State \ V
  PROVE  Cardinality(State \ (V \cup {c})) < Cardinality(State \ V)
<1>1. IsFiniteSet(State \ V) BY FiniteAssumption, FS_Difference
<1>2. State \ (V \cup {c}) = (State \ V) \ {c} OBVIOUS
<1>3. Cardinality((State \ V) \ {c}) = Cardinality(State \ V) - 1
  BY <1>1, FS_RemoveElement
<1>4. Cardinality(State \ V) \in Nat BY <1>1, FS_CardinalityType
<1>5. Cardinality(State \ (V \cup {c})) = Cardinality((State \ V) \ {c}) BY <1>2
<1>6. QED BY <1>3, <1>4, <1>5

\* Popping a visited entry, and pushing only states that are not visited,
\* leaves one visited entry less: the others move up by one place.
LEMMA RepeatsDecrease ==
  ASSUME NEW V \in SUBSET State, NEW q \in Seq(State), NEW r \in Seq(State),
         q # <<>>, Head(q) \in V, Elements(r) \cap V = {}
  PROVE  Cardinality(Visited(Tail(q) \o r, V)) < Cardinality(Visited(q, V))
<1> DEFINE new == Tail(q) \o r
           Old == Visited(q, V)
           New == Visited(new, V)
<1>1. /\ Tail(q) \in Seq(State) /\ Len(Tail(q)) = Len(q) - 1
      /\ \A i \in 1..Len(Tail(q)) : Tail(q)[i] = q[i + 1]
      /\ Len(q) \in Nat \ {0} /\ Len(r) \in Nat /\ Head(q) = q[1]
  BY HeadTailProperties, EmptySeq, LenProperties
<1>2. /\ Len(new) = Len(q) - 1 + Len(r)
      /\ \A i \in 1..Len(new) : new[i] = IF i <= Len(q) - 1 THEN Tail(q)[i] ELSE r[i - (Len(q) - 1)]
  BY <1>1, ConcatProperties
<1>3. \A i \in New : i \in 1..(Len(q) - 1) /\ q[i + 1] \in V
  <2> SUFFICES ASSUME NEW i \in New PROVE i \in 1..(Len(q) - 1) /\ q[i + 1] \in V
    OBVIOUS
  <2>1. i \in 1..Len(new) /\ new[i] \in V BY DEF Visited
  <2>2. CASE i > Len(q) - 1
    <3>1. i - (Len(q) - 1) \in 1..Len(r) BY <1>1, <1>2, <2>1, <2>2
    <3>2. r[i - (Len(q) - 1)] \in Elements(r) BY <3>1 DEF Elements
    <3>3. QED BY <1>1, <1>2, <2>1, <2>2, <3>2
  <2>3. CASE i <= Len(q) - 1
    <3>1. i \in 1..Len(Tail(q)) BY <1>1, <2>1, <2>3
    <3>2. new[i] = q[i + 1] BY <1>1, <1>2, <2>1, <2>3, <3>1
    <3>3. QED BY <1>1, <2>1, <3>1, <3>2
  <2>4. QED BY <1>1, <2>1, <2>2, <2>3
<1>4. IsFiniteSet(Old \ {1}) /\ Cardinality(Old \ {1}) = Cardinality(Old) - 1
      /\ Cardinality(Old) \in Nat
  <2>1. IsFiniteSet(Old)
    <3>1. IsFiniteSet(1..Len(q)) BY <1>1, FS_Interval
    <3>2. QED BY <3>1, FS_Subset DEF Visited
  <2>2. 1 \in Old BY <1>1 DEF Visited
  <2>3. QED BY <2>1, <2>2, FS_RemoveElement, FS_CardinalityType
<1>5. Cardinality(New) <= Cardinality(Old \ {1})
  <2> DEFINE f == [i \in New |-> i + 1]
  <2>1. \A i \in New : f[i] \in Old \ {1}
    BY <1>1, <1>3 DEF Visited
  <2>2. New \subseteq Int BY DEF Visited
  <2>3. f \in Injection(New, Old \ {1})
    <3>1. f \in [New -> Old \ {1}] BY <2>1
    <3>2. \A i, j \in New : f[i] = f[j] => i = j BY <2>2
    <3>3. QED BY <3>1, <3>2 DEF Injection, IsInjective
  <2>4. QED BY <1>4, <2>3, FS_Injection
<1>6. Cardinality(New) \in Nat
  <2>1. IsFiniteSet(1..Len(new)) BY <1>1, <1>2, FS_Interval
  <2>2. QED BY <2>1, FS_Subset, FS_CardinalityType DEF Visited
<1>7. QED BY <1>4, <1>5, <1>6

\* No walk of the backward links goes on for ever, whatever the links, the
\* payoffs and the discount rate are: what is left of it decreases by every turn.
THEOREM WalksDecrease == Spec => TurnsDecrease
<1> DEFINE Less == \/ Unvisited' < Unvisited
                   \/ Unvisited' = Unvisited /\ Repeats' < Repeats
<1>1. ASSUME WalkTypeOK, Pop PROVE Less
  <2> DEFINE c == Head(update_queue)
  <2>1. c \in State /\ visited_states' = visited_states \cup {c} BY <1>1, PopQueue
  <2>2. PICK q \in Seq(State) :
          Elements(q) = Pushed(c) /\ update_queue' = Tail(update_queue) \o q
    BY <1>1, PopQueue
  <2>3. CASE c \notin visited_states
    BY <1>1, <2>1, <2>3, UnvisitedDecreases DEF WalkTypeOK, Unvisited
  <2>4. CASE c \in visited_states
    <3>1. visited_states' = visited_states BY <2>1, <2>4
    <3>2. Elements(q) \cap visited_states = {} BY <2>2 DEF Pushed
    <3>3. /\ update_queue \in Seq(State) /\ update_queue # <<>>
          /\ visited_states \in SUBSET State
      BY <1>1 DEF WalkTypeOK, Pop
    <3>4. Cardinality(Visited(Tail(update_queue) \o q, visited_states))
            < Cardinality(Visited(update_queue, visited_states))
      BY <2>4, <3>2, <3>3, RepeatsDecrease
    <3>5. Repeats = Cardinality(Visited(update_queue, visited_states))
      BY DEF Repeats, Visited
    <3>6. Repeats' = Cardinality(Visited(Tail(update_queue) \o q, visited_states))
      BY <2>2, <3>1 DEF Repeats, Visited
    <3>7. QED BY <3>1, <3>4, <3>5, <3>6 DEF Unvisited
  <2>5. QED BY <2>3, <2>4
<1>2. ASSUME WalkTypeOK, Next, update_queue # <<>> PROVE Less
  BY <1>1, <1>2 DEF Next, Experience, UpdatePayoff, DeleteState, BeginWalk, Idle
<1>3. WalkTypeOK /\ [Next]_vars => [update_queue # <<>> => Less]_vars
  BY <1>2
<1>4. QED BY <1>3, WalkTypes, PTL DEF Spec, TurnsDecrease

--------------------------------------------------------------------------------
(* What a walk leaves behind.                                                 *)

\* The payoff calculated for a state depends on its own links and original
\* payoff, and on the payoffs of its followers only.
LEMMA PayoffDepends ==
  ASSUME NEW s \in State,
         actlist[s] \subseteq Action,
         \A a \in Action, n \in State : eats'[<<s, a, n>>] = eats[<<s, a, n>>],
         actlist'[s] = actlist[s], original_payoff'[s] = original_payoff[s],
         \A n \in State : s \in blist(n) => payoff'[n] = payoff[n]
  PROVE  calStatePayoff(s)' = calStatePayoff(s)
<1>1. \A a \in Action : ealist(s, a)' = ealist(s, a) BY DEF ealist
<1>2. \A a \in Action : calActPayoff(s, a)' = calActPayoff(s, a)
  <2> TAKE a \in Action
  <2>1. \A n \in ealist(s, a) : payoff'[n] = payoff[n] BY DEF ealist, blist
  <2>2. \A n \in ealist(s, a) : eats'[<<s, a, n>>] = eats[<<s, a, n>>] BY DEF ealist
  <2>3. [n \in ealist(s, a)' |-> eats'[<<s, a, n>>] * payoff'[n]]
          = [n \in ealist(s, a) |-> eats[<<s, a, n>>] * payoff[n]]
    BY <1>1, <2>1, <2>2
  <2>4. [n \in ealist(s, a)' |-> eats'[<<s, a, n>>]]
          = [n \in ealist(s, a) |-> eats[<<s, a, n>>]]
    BY <1>1, <2>2
  <2>5. QED BY <1>1, <2>3, <2>4 DEF calActPayoff
<1>3. BestPayoff(s)' = BestPayoff(s)
  <2>1. {calActPayoff(s, a)' : a \in actlist'[s]} = {calActPayoff(s, a) : a \in actlist[s]}
    BY <1>2
  <2>2. QED BY <2>1 DEF BestPayoff
<1>4. QED BY <1>3 DEF calStatePayoff

\* The states that may be stale, in the words of StaleIsExplained.
Explained ==
  blk \cup Elements(update_queue) \cup visited_states \cup earlier \cup unsettled \cup {pre_in}

\* A visit disturbs the current state and the previous one, which it enters in
\* the list to be walked.
LEMMA ExplainedExperience ==
  ASSUME WalkTypeOK, NEW n \in State, NEW out \in Action, NEW oripayoff,
         Experience(n, out, oripayoff)
  PROVE  StaleIsExplained'
<1> SUFFICES ASSUME NEW s \in State, ~ Settled(s)' PROVE s \in Explained'
  BY DEF StaleIsExplained, Explained
<1> DEFINE t == <<pre_in, pre_out, n>>
<1>1. CASE s = n BY <1>1 DEF Experience, Explained
<1>2. CASE s = pre_in
  <2>1. /\ t \in Transition /\ eats' = [eats EXCEPT ![t] = @ + 1] /\ blk' = blist(n)'
    BY <1>2, InvalidAssumption, WorldAssumption DEF Experience, LinkPrevious
  <2>2. eats'[t] > 0 /\ pre_out \in Action BY <2>1 DEF WalkTypeOK, Transition
  <2>3. QED BY <1>2, <2>1, <2>2 DEF blist, Explained
<1>3. CASE s # n /\ s # pre_in
  <2>1. \A a \in Action, m \in State : eats'[<<s, a, m>>] = eats[<<s, a, m>>]
    <3>1. eats' = eats \/ eats' = [eats EXCEPT ![t] = @ + 1]
      BY DEF Experience, LinkPrevious
    <3>2. \A a \in Action, m \in State : <<s, a, m>> \in Transition /\ <<s, a, m>> # t
      BY <1>3 DEF Transition
    <3>3. QED BY <3>1, <3>2 DEF WalkTypeOK
  <2>2. original_payoff'[s] = original_payoff[s] /\ payoff' = payoff
    BY <1>3 DEF Experience, SetOriginalPayoff
  <2>3. calStatePayoff(s)' = calStatePayoff(s)
    <3>1. actlist'[s] = actlist[s] /\ actlist[s] \subseteq Action
      BY <1>3 DEF Experience, LinkPrevious, WalkTypeOK
    <3>2. QED BY <2>1, <2>2, <3>1, PayoffDepends
  <2>4. ~ Settled(s) BY <2>2, <2>3 DEF Settled
  <2>5. QED BY <2>4 DEF Experience, Explained
<1>4. QED BY <1>1, <1>2, <1>3

\* A deletion disturbs the predecessors of the state, what is left of it agrees.
LEMMA ExplainedDelete ==
  ASSUME WalkTypeOK, StaleIsExplained, NEW d \in State, DeleteState(d)
  PROVE  StaleIsExplained'
<1> SUFFICES ASSUME NEW s \in State, ~ Settled(s)' PROVE s \in Explained'
  BY DEF StaleIsExplained, Explained
<1>1. Explained' = Explained \cup blist(d) BY DEF DeleteState, walk, Explained
<1>2. s # d
  <2>1. payoff'[d] = 0 /\ original_payoff'[d] = 0 /\ actlist'[d] = {}
    BY DEF DeleteState, WalkTypeOK
  <2>2. Settled(d)' BY <2>1 DEF Settled, calStatePayoff
  <2>3. QED BY <2>2
<1>3. CASE s \in blist(d) BY <1>1, <1>3
<1>4. CASE s \notin blist(d)
  <2>1. \A a \in Action, n \in State : eats'[<<s, a, n>>] = eats[<<s, a, n>>]
    <3> TAKE a \in Action, n \in State
    <3>1. <<s, a, n>> \in Transition BY DEF Transition
    <3>2. n = d => eats[<<s, a, n>>] = 0
      <4>1. eats[<<s, a, n>>] \in Nat BY <3>1 DEF WalkTypeOK
      <4>2. n = d => ~ (eats[<<s, a, n>>] > 0) BY <1>4 DEF blist
      <4>3. QED BY <4>1, <4>2
    <3>3. QED BY <1>2, <3>1, <3>2 DEF DeleteState
  <2>2. \A n \in State : s \in blist(n) => payoff'[n] = payoff[n]
    BY <1>4 DEF DeleteState, WalkTypeOK
  <2>3. /\ actlist'[s] = actlist[s] /\ actlist[s] \subseteq Action
        /\ original_payoff'[s] = original_payoff[s] /\ payoff'[s] = payoff[s]
    BY <1>2 DEF DeleteState, WalkTypeOK
  <2>4. calStatePayoff(s)' = calStatePayoff(s) BY <2>1, <2>2, <2>3, PayoffDepends
  <2>5. ~ Settled(s) BY <2>3, <2>4 DEF Settled
  <2>6. QED BY <1>1, <2>5 DEF StaleIsExplained, Explained
<1>5. QED BY <1>3, <1>4

\* A turn of the loop disturbs the predecessors of the state popped: they are
\* pushed, or have been visited.
LEMMA ExplainedPop ==
  ASSUME WalkTypeOK, StaleIsExplained, Pop PROVE StaleIsExplained'
<1> SUFFICES ASSUME NEW s \in State, ~ Settled(s)' PROVE s \in Explained'
  BY DEF StaleIsExplained, Explained
<1> DEFINE c == Head(update_queue)
<1>1. /\ c \in State /\ visited_states' = visited_states \cup {c}
      /\ payoff' = [payoff EXCEPT ![c] = calStatePayoff(c)]
      /\ UNCHANGED <<links, blk, earlier, unsettled>>
  BY PopQueue DEF Pop
<1>2. Elements(update_queue') = Elements(Tail(update_queue)) \cup Pushed(c)
  <2>1. PICK q \in Seq(State) : Elements(q) = Pushed(c) /\ update_queue' = Tail(update_queue) \o q
    BY PopQueue
  <2>2. Tail(update_queue) \in Seq(State) BY HeadTailProperties DEF WalkTypeOK, Pop
  <2>3. \A r \in Seq(State) : Elements(r) = Range(r) BY RangeEquality DEF Elements
  <2>4. Range(Tail(update_queue) \o q) = Range(Tail(update_queue)) \cup Range(q)
    BY <2>2, RangeConcatenation
  <2>5. update_queue' \in Seq(State) BY <2>1, <2>2, ConcatProperties
  <2>6. QED BY <2>1, <2>2, <2>3, <2>4, <2>5
<1>3. Elements(update_queue) \subseteq Elements(Tail(update_queue)) \cup {c}
  <2>1. /\ Len(update_queue) \in Nat \ {0} /\ c = update_queue[1]
        /\ Len(Tail(update_queue)) = Len(update_queue) - 1
        /\ \A i \in 1..Len(Tail(update_queue)) : Tail(update_queue)[i] = update_queue[i + 1]
    BY HeadTailProperties, EmptySeq DEF WalkTypeOK, Pop
  <2>2. SUFFICES ASSUME NEW i \in 1..Len(update_queue), i # 1
                 PROVE  update_queue[i] \in Elements(Tail(update_queue))
    BY <2>1 DEF Elements
  <2>3. i - 1 \in 1..Len(Tail(update_queue)) BY <2>1, <2>2
  <2>4. Tail(update_queue)[i - 1] = update_queue[i] BY <2>1, <2>2, <2>3
  <2>5. QED BY <2>3, <2>4 DEF Elements
<1>4. CASE s = c BY <1>1, <1>4 DEF Explained
<1>5. CASE s # c /\ s \in Pushed(c) BY <1>2, <1>5 DEF Explained
<1>6. CASE s # c /\ s \in visited_states BY <1>1, <1>6 DEF Explained
<1>7. CASE s # c /\ s \notin Pushed(c) /\ s \notin visited_states
  <2>1. s \in blist(c) => Settled(c) BY <1>7 DEF Pushed
  <2>2. \A n \in State : s \in blist(n) => payoff'[n] = payoff[n]
    BY <1>1, <2>1 DEF Settled, WalkTypeOK
  <2>3. calStatePayoff(s)' = calStatePayoff(s)
    BY <1>1, <2>2, PayoffDepends DEF links, WalkTypeOK
  <2>4. ~ Settled(s) BY <1>1, <1>7, <2>3 DEF Settled, WalkTypeOK
  <2>5. s \in Explained BY <2>4 DEF StaleIsExplained, Explained
  <2>6. QED BY <1>1, <1>2, <1>3, <1>7, <2>5 DEF Explained, links
<1>8. QED BY <1>4, <1>5, <1>6, <1>7

\* Whatever an update leaves stale was stale before it, or led to a state that
\* was deleted since, or is the current state, or was visited by one of its walks before the change that made it so.
THEOREM StaleHasACause == Spec => []StaleIsExplained
<1>1. Init => StaleIsExplained
  <2> SUFFICES ASSUME Init, NEW s \in State PROVE Settled(s)
    BY DEF StaleIsExplained
  <2> QED BY DEF Init, Settled, calStatePayoff
<1>2. WalkTypeOK /\ StaleIsExplained /\ [Next]_vars => StaleIsExplained'
  <2> SUFFICES ASSUME WalkTypeOK, StaleIsExplained, [Next]_vars PROVE StaleIsExplained'
    OBVIOUS
  <2>1. ASSUME NEW n \in State, NEW out \in Action, NEW oripayoff, Experience(n, out, oripayoff)
        PROVE  StaleIsExplained'
    BY <2>1, ExplainedExperience
  <2>2. ASSUME UNCHANGED <<eats, actlist, original_payoff, payoff>>, Explained \subseteq Explained'
        PROVE  StaleIsExplained'
    <3>1. \A s \in State : calStatePayoff(s)' = calStatePayoff(s)
      BY <2>2, PayoffDepends DEF WalkTypeOK
    <3>2. QED BY <2>2, <3>1 DEF StaleIsExplained, Explained, Settled
  <2>3. ASSUME NEW s \in State, UpdatePayoff(s) PROVE StaleIsExplained'
    <3>1. \A n \in State : calStatePayoff(n)' = calStatePayoff(n)
      BY <2>3, PayoffDepends DEF UpdatePayoff, links, WalkTypeOK
    <3>2. QED BY <2>3, <3>1 DEF UpdatePayoff, StaleIsExplained, Settled, links
  <2>4. CASE BeginWalk
    <3>1. PICK start \in blk : update_queue' = <<start>> /\ blk' = blk \ {start}
      BY <2>4 DEF BeginWalk
    <3>2. Elements(update_queue') = {start}
      <4>1. update_queue' \in Seq(State) /\ Len(update_queue') = 1 /\ update_queue'[1] = start
        BY <3>1 DEF WalkTypeOK
      <4>2. QED BY <4>1 DEF Elements
    <3>3. Elements(update_queue) = {} BY <2>4 DEF BeginWalk, Elements
    <3>4. Explained \subseteq Explained'
      BY <2>4, <3>1, <3>2, <3>3 DEF BeginWalk, Explained, links
    <3>5. QED BY <2>2, <2>4, <3>4 DEF BeginWalk, links
  <2>5. CASE Pop BY <2>5, ExplainedPop
  <2>6. CASE UNCHANGED vars
    BY <2>2, <2>6 DEF vars, links, walk, Explained
  <2>7. ASSUME NEW s \in State, DeleteState(s) PROVE StaleIsExplained'
    BY <2>7, ExplainedDelete
  <2>8. QED BY <2>1, <2>3, <2>4, <2>5, <2>6, <2>7 DEF Next
<1>3. QED BY <1>1, <1>2, WalkTypes, PTL DEF Spec

--------------------------------------------------------------------------------
(* What a payoff is.                                                          *)

\* Every original payoff was given by the program, or is that of a new state.
OriginalGiven == original_payoff \in [State -> Payoffs \cup {0}]

\* Payoffs are integers.
LEMMA GivenAreInt == Payoffs \cup {0} \subseteq Int
<1>1. Payoffs \subseteq Int BY PayoffsAssumption, Zenon
<1>2. QED BY <1>1

\* The inductive invariant.
PayoffInv == TypeOK /\ OriginalGiven /\ PayoffBounded

\* Of a finite set of integers that is not empty one is the greatest.
LEMMA BestIsOne ==
  ASSUME NEW S \in SUBSET Int, IsFiniteSet(S), S # {} PROVE BestOf(S) \in S
<1> DEFINE Good == {T \in SUBSET S : T # {} => \E best \in T : \A x \in T : x <= best}
<1>1. ASSUME NEW T \in SUBSET S, \A x \in T : T \ {x} \in Good PROVE T \in Good
  <2> SUFFICES ASSUME NEW x \in T PROVE \E best \in T : \A y \in T : y <= best
    OBVIOUS
  <2>1. CASE T \ {x} = {} BY <2>1
  <2>2. CASE T \ {x} # {}
    <3>1. PICK b \in T \ {x} : \A y \in T \ {x} : y <= b BY <1>1, <2>2
    <3>2. CASE x <= b BY <3>1, <3>2
    <3>3. CASE ~ (x <= b)
      <4>1. \A y \in T : y <= x BY <3>1, <3>3
      <4>2. QED BY <4>1
    <3>4. QED BY <3>2, <3>3
  <2>3. QED BY <2>1, <2>2
<1>2. \A T \in SUBSET S : T \in Good
  <2> HIDE DEF Good
  <2>1. QED BY <1>1, InductionOnSubsets
<1>3. QED BY <1>2 DEF BestOf

\* The expected payoff of an action is an integer between any bounds of the
\* payoffs of its followers; that of an action whose followers are gone is 0.
LEMMA ActPayoffBetween ==
  ASSUME eats \in [Transition -> Nat], payoff \in [State -> Int],
         NEW s \in State, NEW a \in Action
  PROVE  /\ calActPayoff(s, a) \in Int
         /\ \A low \in Int, high \in Int :
              low <= 0 /\ 0 <= high /\ (\A n \in State : low <= payoff[n] /\ payoff[n] <= high)
              => calActPayoff(s, a) \in low..high
<1> DEFINE F == ealist(s, a)
           w == [n \in F |-> eats[<<s, a, n>>]]
           v == [n \in F |-> eats[<<s, a, n>>] * payoff[n]]
<1>1. CASE F = {} BY <1>1 DEF calActPayoff
<1>2. CASE F # {}
  <2>1. F \subseteq State /\ IsFiniteSet(F) BY FiniteAssumption, FS_Subset DEF ealist
  <2>2. \A n \in F : <<s, a, n>> \in Transition /\ eats[<<s, a, n>>] \in Nat \ {0}
    BY <2>1 DEF ealist, Transition
  <2>3. \A n \in F : w[n] \in Nat \ {0} /\ payoff[n] \in Int /\ v[n] = w[n] * payoff[n]
    BY <2>1, <2>2
  <2>4. Total(w) = SumOver(w, F) /\ Total(v) = SumOver(v, F)
    BY DEF Total, FoldFunction, FoldFunctionOnSet, SumOver
  <2>5. calActPayoff(s, a) = SumOver(v, F) \div SumOver(w, F)
    BY <1>2, <2>4 DEF calActPayoff
  <2> HIDE DEF F, w, v
  <2>6. SumOver(w, F) \in Nat \ {0}
    <3>1. PICK n \in F : TRUE BY <1>2
    <3>2. SumOver(w, F) \in Nat /\ w[n] <= SumOver(w, F) BY <2>1, <2>3, SumOfNats
    <3>3. QED BY <2>3, <3>2
  <2>7. SumOver(v, F) \in Int BY <2>1, <2>3, SumType
  <2>8. calActPayoff(s, a) \in Int BY <2>5, <2>6, <2>7, DivisionBounds
  <2>9. ASSUME NEW low \in Int, NEW high \in Int,
               \A n \in State : low <= payoff[n] /\ payoff[n] <= high
        PROVE  calActPayoff(s, a) \in low..high
    <3>1. \A n \in F : v[n] <= high * w[n] /\ v[n] >= low * w[n]
      <4> TAKE n \in F
      <4>1. payoff[n] * w[n] <= high * w[n] /\ low * w[n] <= payoff[n] * w[n]
        BY <2>1, <2>3, <2>9, ProductOrder
      <4>2. QED BY <2>3, <4>1
    <3>2. SumOver(v, F) <= high * SumOver(w, F) /\ SumOver(v, F) >= low * SumOver(w, F)
      BY <2>1, <2>3, <3>1, SumAtMost, SumAtLeast
    <3>3. QED BY <2>5, <2>6, <2>7, <2>8, <3>2, DivisionBounds
  <2>10. QED BY <2>8, <2>9
<1>3. QED BY <1>1, <1>2

\* The best payoff is that of one of the actions, which are finitely many.
LEMMA BestPayoffIsOne ==
  ASSUME eats \in [Transition -> Nat], payoff \in [State -> Int],
         NEW s \in State, actlist[s] \in SUBSET Action, actlist[s] # {}
  PROVE  \E a \in actlist[s] : BestPayoff(s) = calActPayoff(s, a)
<1> DEFINE A == actlist[s]
           S == {calActPayoff(s, a) : a \in A}
           f == [a \in A |-> calActPayoff(s, a)]
<1>1. S \in SUBSET Int BY ActPayoffBetween
<1>2. IsFiniteSet(S)
  <2>1. IsFiniteSet(A) BY FiniteAssumption, FS_Subset
  <2>2. f \in Surjection(A, S) BY DEF Surjection
  <2>3. QED BY <2>1, <2>2, FS_Surjection
<1>3. S # {} OBVIOUS
<1>4. BestPayoff(s) = BestOf(S) BY DEF BestPayoff
<1>5. BestPayoff(s) \in S
  <2> HIDE DEF S
  <2>1. QED BY <1>1, <1>2, <1>3, <1>4, BestIsOne
<1>6. QED BY <1>5

\* One more step of a discounted sum stays within the bounds of the sum: most
\* and least bound the original payoffs, b is the best payoff of the followers.
LEMMA DiscountedStep ==
  ASSUME NEW o \in Int, NEW b \in Int, NEW most \in Int, NEW least \in Int,
         least <= o, o <= most,
         b * (DDen - DNum) <= most * DDen,
         b * (DDen - DNum) >= least * DDen - (DDen - 1)
  PROVE  LET p == (o * DDen + DNum * b) \div DDen IN
         /\ p \in Int
         /\ p * (DDen - DNum) <= most * DDen
         /\ p * (DDen - DNum) >= least * DDen - (DDen - 1)
<1> DEFINE p == (o * DDen + DNum * b) \div DDen
           D == DDen
           N == DNum
           E == DDen - DNum
<1>1. D \in Nat \ {0} /\ N \in Nat /\ E \in Nat \ {0} /\ D = N + E
  BY DiscountAssumption
<1>2. p \in Int /\ p * D <= o * D + N * b /\ o * D + N * b < p * D + D
  <2>1. o * D + N * b \in Int BY <1>1
  <2>2. QED BY <1>1, <2>1, DivisionFloor
<1>3. b * E <= most * D /\ b * E >= least * D - (D - 1)
  OBVIOUS
<1> HIDE DEF p, D, N, E
<1>4. p * E <= most * D
  <2>1. (p * D) * E <= (o * D + N * b) * E BY <1>1, <1>2, ProductOrder
  <2>2. (o * E) * D <= (most * E) * D
    <3>1. o * E <= most * E BY <1>1, ProductOrder
    <3>2. QED BY <1>1, <3>1, ProductOrder
  <2>3. (b * E) * N <= (most * D) * N BY <1>1, <1>3, ProductOrder
  <2>4. (o * D + N * b) * E = (o * E) * D + (b * E) * N BY <1>1
  <2>5. (most * E) * D + (most * D) * N = (most * D) * D BY <1>1
  <2>6. (p * D) * E = (p * E) * D BY <1>1, <1>2
  <2>7. (p * E) * D <= (most * D) * D
    <3>1. /\ (p * E) * D \in Int /\ (most * D) * D \in Int /\ (o * E) * D \in Int
          /\ (b * E) * N \in Int /\ (most * E) * D \in Int /\ (most * D) * N \in Int
      BY <1>1, <1>2
    <3>2. QED BY <2>1, <2>2, <2>3, <2>4, <2>5, <2>6, <3>1
  <2>8. ASSUME p * E > most * D PROVE FALSE
    <3>1. (most * D + 1) * D <= (p * E) * D BY <1>1, <1>2, <2>8, ProductOrder
    <3>2. (most * D + 1) * D = (most * D) * D + D BY <1>1
    <3>3. (p * E) * D \in Int /\ (most * D) * D \in Int BY <1>1, <1>2
    <3>4. QED BY <1>1, <2>7, <3>1, <3>2, <3>3
  <2>9. p * E \in Int /\ most * D \in Int BY <1>1, <1>2
  <2>10. QED BY <2>8, <2>9
<1>5. p * E >= least * D - (D - 1)
  <2> DEFINE low == least * D - (D - 1)
  <2>0. low \in Int /\ p * E \in Int BY <1>1, <1>2
  <2>1. (o * D + N * b) * E <= (p * D + (D - 1)) * E
    <3>1. o * D + N * b <= p * D + (D - 1) BY <1>1, <1>2
    <3>2. QED BY <1>1, <1>2, <3>1, ProductOrder
  <2>2. (least * E) * D <= (o * E) * D
    <3>1. least * E <= o * E BY <1>1, ProductOrder
    <3>2. QED BY <1>1, <3>1, ProductOrder
  <2>3. low * N <= (b * E) * N BY <1>1, <1>3, <2>0, ProductOrder
  <2>4. (o * D + N * b) * E = (o * E) * D + (b * E) * N BY <1>1
  <2>5. (least * E) * D + low * N - (D - 1) * E = low * D
    <3>1. (least * E) * D + (least * D - (D - 1)) * N - (D - 1) * E
            = (least * D) * (E + N) - (D - 1) * (N + E)
      BY <1>1
    <3>2. (least * D) * (E + N) - (D - 1) * (N + E) = (least * D - (D - 1)) * D BY <1>1
    <3>3. QED BY <3>1, <3>2
  <2>6. (p * D + (D - 1)) * E = (p * E) * D + (D - 1) * E BY <1>1, <1>2
  <2>7. low * D <= (p * E) * D
    <3>1. /\ (p * E) * D \in Int /\ low * D \in Int /\ (o * E) * D \in Int
          /\ (b * E) * N \in Int /\ (least * E) * D \in Int /\ low * N \in Int
          /\ (D - 1) * E \in Int
      BY <1>1, <1>2, <2>0
    <3> HIDE DEF low
    <3>2. QED BY <2>1, <2>2, <2>3, <2>4, <2>5, <2>6, <3>1
  <2>8. ASSUME p * E < low PROVE FALSE
    <3> HIDE DEF low
    <3>1. (p * E + 1) * D <= low * D BY <1>1, <2>0, <2>8, ProductOrder
    <3>2. (p * E + 1) * D = (p * E) * D + D BY <1>1, <2>0
    <3>3. (p * E) * D \in Int /\ low * D \in Int BY <1>1, <2>0
    <3>4. QED BY <1>1, <2>7, <3>1, <3>2, <3>3
  <2>9. QED BY <2>0, <2>8
<1>6. QED BY <1>2, <1>4, <1>5 DEF p, D, E, N

\* What the bounds say of one number.
Between(p, least, most) ==
  p * (DDen - DNum) <= most * DDen /\ p * (DDen - DNum) >= least * DDen - (DDen - 1)

\* An original payoff alone, and no payoff at all, are within the bounds.
LEMMA OriginalBetween ==
  ASSUME NEW o \in Int, NEW most \in Int, NEW least \in Int,
         least <= 0, 0 <= most, least <= o, o <= most
  PROVE  Between(o, least, most)
<1> DEFINE E == DDen - DNum
<1>1. DDen \in Nat \ {0} /\ DNum \in Nat /\ E \in Nat \ {0} /\ DDen = DNum + E
  BY DiscountAssumption
<1> HIDE DEF E
<1>2. o * E <= most * E /\ least * E <= o * E BY <1>1, ProductOrder
<1>3. 0 * DNum <= most * DNum /\ least * DNum <= 0 * DNum BY <1>1, ProductOrder
<1>4. most * DDen = most * DNum + most * E /\ least * DDen = least * DNum + least * E
  BY <1>1
<1>5. /\ most * DNum \in Int /\ most * E \in Int /\ least * DNum \in Int /\ least * E \in Int
      /\ o * E \in Int
  BY <1>1
<1>6. o * E <= most * DDen /\ o * E >= least * DDen - (DDen - 1)
  BY <1>1, <1>2, <1>3, <1>4, <1>5
<1>7. QED BY <1>6 DEF Between, E

\* What calStatePayoff() returns is an integer within the bounds, if the payoffs
\* it looks at are.
LEMMA StatePayoffBetween ==
  ASSUME TypeOK, OriginalGiven, PayoffBounded, NEW s \in State
  PROVE  /\ calStatePayoff(s) \in Int
         /\ \A most, least \in Payoffs \cup {0} :
              (\A u \in Payoffs \cup {0} : least <= u /\ u <= most)
              => Between(calStatePayoff(s), least, most)
<1>1. /\ original_payoff[s] \in Payoffs \cup {0} /\ original_payoff[s] \in Int
      /\ Payoffs \cup {0} \subseteq Int
  BY GivenAreInt DEF OriginalGiven
<1>2. CASE actlist[s] = {}
  BY <1>1, <1>2, OriginalBetween DEF calStatePayoff
<1>3. CASE actlist[s] # {}
  <2> DEFINE o == original_payoff[s]
             b == BestPayoff(s)
  <2>1. actlist[s] \in SUBSET Action BY DEF TypeOK
  <2>2. PICK a \in actlist[s] : b = calActPayoff(s, a)
    BY <1>3, <2>1, BestPayoffIsOne DEF TypeOK
  <2>3. b \in Int BY <2>1, <2>2, ActPayoffBetween DEF TypeOK
  <2>4. calStatePayoff(s) = (o * DDen + DNum * b) \div DDen
    BY <1>3 DEF calStatePayoff
  <2>5. calStatePayoff(s) \in Int
    <3>1. o * DDen + DNum * b \in Int /\ DDen \in Nat \ {0}
      BY <1>1, <2>3, DiscountAssumption
    <3>2. QED BY <2>4, <3>1, DivisionFloor
  <2>6. ASSUME NEW most \in Payoffs \cup {0}, NEW least \in Payoffs \cup {0},
               \A u \in Payoffs \cup {0} : least <= u /\ u <= most
        PROVE  Between(calStatePayoff(s), least, most)
    <3> DEFINE E == DDen - DNum
               high == (most * DDen) \div E
               low == -(((DDen - 1) - least * DDen) \div E)
    <3>1. DDen \in Nat \ {0} /\ E \in Nat \ {0} BY DiscountAssumption
    <3>2. most \in Int /\ least \in Int /\ least <= 0 /\ 0 <= most /\ least <= o /\ o <= most
      BY <1>1, <2>6
    <3>3. /\ most * DDen \in Int /\ most * DDen >= 0 * E
          /\ (DDen - 1) - least * DDen \in Int /\ (DDen - 1) - least * DDen >= 0 * E
      <4>1. 0 * DDen <= most * DDen /\ least * DDen <= 0 * DDen BY <3>1, <3>2, ProductOrder
      <4>2. most * DDen \in Int /\ least * DDen \in Int BY <3>1, <3>2
      <4>3. QED BY <3>1, <4>1, <4>2
    <3>4. high \in Int /\ 0 <= high /\ low \in Int /\ low <= 0
      <4>1. high \in Int /\ high >= 0 BY <3>1, <3>3, DivisionBounds
      <4>2. ((DDen - 1) - least * DDen) \div E \in Int /\ ((DDen - 1) - least * DDen) \div E >= 0
        BY <3>1, <3>3, DivisionBounds
      <4>3. QED BY <4>1, <4>2
    <3>5. \A p \in Int : low <= p /\ p <= high <=> Between(p, least, most)
      <4> TAKE p \in Int
      <4>1. p <= high <=> p * E <= most * DDen
        <5>1. most * DDen >= p * E => high >= p BY <3>1, <3>3, DivisionBounds
        <5>2. high * E <= most * DDen BY <3>1, <3>3, DivisionFloor
        <5>3. p <= high => p * E <= high * E BY <3>1, <3>4, ProductOrder
        <5>4. p * E \in Int /\ high * E \in Int BY <3>1, <3>4
        <5> HIDE DEF high, E
        <5>5. QED BY <3>3, <3>4, <5>1, <5>2, <5>3, <5>4
      <4>2. low <= p <=> p * E >= least * DDen - (DDen - 1)
        <5> DEFINE x == (DDen - 1) - least * DDen
        <5>1. x >= (-p) * E => x \div E >= -p
          <6>1. x \in Int /\ -p \in Int BY <3>3
          <6> HIDE DEF x, E
          <6>2. QED BY <3>1, <6>1, DivisionBounds
        <5>2. (x \div E) * E <= x /\ x \div E \in Int BY <3>1, <3>3, DivisionFloor
        <5>3. -p <= x \div E => (-p) * E <= (x \div E) * E BY <3>1, <5>2, ProductOrder
        <5>4. (-p) * E = -(p * E) /\ p * E \in Int /\ (x \div E) * E \in Int BY <3>1, <5>2
        <5>5. low = -(x \div E) OBVIOUS
        <5>6. least * DDen - (DDen - 1) = -x BY <3>1, <3>2
        <5>7. x \in Int BY <3>3
        <5> HIDE DEF x, low, E
        <5>8. QED BY <5>1, <5>2, <5>3, <5>4, <5>5, <5>6, <5>7
      <4>3. QED BY <4>1, <4>2 DEF Between
    <3>6. \A n \in State : low <= payoff[n] /\ payoff[n] <= high
      BY <2>6, <3>5 DEF PayoffBounded, Between, TypeOK
    <3>7. b \in low..high
      <4> HIDE DEF low, high
      <4>1. QED BY <2>1, <2>2, <3>4, <3>6, ActPayoffBetween DEF TypeOK
    <3>8. Between(b, least, most) BY <2>3, <3>5, <3>7
    <3>9. QED BY <2>3, <2>4, <3>2, <3>8, <1>1, DiscountedStep DEF Between
  <2>7. QED BY <2>5, <2>6
<1>4. QED BY <1>2, <1>3

\* Every step keeps the invariant: only a turn of the loop calculates a payoff.
LEMMA PayoffStep == WalkTypeOK' /\ PayoffInv /\ [Next]_vars => PayoffInv'
<1> SUFFICES ASSUME WalkTypeOK', PayoffInv, [Next]_vars PROVE PayoffInv'
  OBVIOUS
<1> USE DEF PayoffInv
<1>1. ASSUME NEW n \in State, NEW out \in Action, NEW oripayoff \in Payoffs \cup {Keep},
             Experience(n, out, oripayoff)
      PROVE  PayoffInv'
  <2>1. original_payoff' \in [State -> Payoffs \cup {0}]
    BY <1>1 DEF Experience, SetOriginalPayoff, OriginalGiven
  <2>2. payoff' = payoff /\ PayoffBounded' BY <1>1 DEF Experience, PayoffBounded
  <2>3. TypeOK'
    <3>1. original_payoff' \in [State -> Int] BY <2>1, GivenAreInt
    <3>2. QED BY <1>1, <2>2, <3>1 DEF Experience, TypeOK, WalkTypeOK
  <2>4. QED BY <2>1, <2>2, <2>3 DEF OriginalGiven
<1>2. ASSUME NEW s \in State, UpdatePayoff(s) PROVE PayoffInv'
  BY <1>2 DEF UpdatePayoff, TypeOK, WalkTypeOK, OriginalGiven, PayoffBounded, links
<1>3. ASSUME NEW s \in State, DeleteState(s) PROVE PayoffInv'
  <2>1. original_payoff' \in [State -> Payoffs \cup {0}]
    BY <1>3 DEF DeleteState, OriginalGiven
  <2>2. payoff' \in [State -> Int] BY <1>3 DEF DeleteState, TypeOK
  <2>3. PayoffBounded'
    <3>1. \A most, least \in Payoffs \cup {0} :
            (\A u \in Payoffs \cup {0} : least <= u /\ u <= most) => Between(0, least, most)
      BY GivenAreInt, OriginalBetween
    <3>2. \A n \in State : payoff'[n] = payoff[n] \/ payoff'[n] = 0
      BY <1>3 DEF DeleteState, TypeOK
    <3>3. QED BY <3>1, <3>2 DEF PayoffBounded, Between
  <2>4. TypeOK'
    <3>1. original_payoff' \in [State -> Int] BY <2>1, GivenAreInt
    <3>2. blist(s) \subseteq State BY DEF blist
    <3>3. QED BY <1>3, <2>2, <3>1, <3>2 DEF DeleteState, TypeOK, WalkTypeOK, walk
  <2>5. QED BY <2>1, <2>3, <2>4 DEF OriginalGiven
<1>4. CASE BeginWalk
  BY <1>4 DEF BeginWalk, TypeOK, WalkTypeOK, OriginalGiven, PayoffBounded, links
<1>5. CASE Pop
  <2> DEFINE c == Head(update_queue)
  <2>1. c \in State BY <1>5, HeadTailProperties DEF TypeOK, Pop
  <2>2. payoff' = [payoff EXCEPT ![c] = calStatePayoff(c)]
        /\ UNCHANGED <<links, blk, earlier, unsettled>>
    BY <1>5 DEF Pop
  <2>3. payoff' \in [State -> Int] BY <2>1, <2>2, StatePayoffBetween DEF TypeOK
  <2>4. PayoffBounded'
    <3>1. \A n \in State : payoff'[n] = payoff[n] \/ (n = c /\ payoff'[n] = calStatePayoff(c))
      BY <2>1, <2>2 DEF TypeOK
    <3>2. QED BY <2>1, <3>1, StatePayoffBetween DEF PayoffBounded, Between
  <2>5. TypeOK' BY <2>2, <2>3 DEF TypeOK, WalkTypeOK, links
  <2>6. QED BY <2>2, <2>4, <2>5 DEF OriginalGiven, links
<1>6. CASE UNCHANGED vars
  BY <1>6 DEF vars, links, walk, TypeOK, OriginalGiven, PayoffBounded
<1>7. QED BY <1>1, <1>2, <1>3, <1>4, <1>5, <1>6 DEF Next

\* Every payoff calStatePayoff() ever gives a state, whatever is visited, set,
\* updated and deleted in whatever order, stays within the discounted sum of
\* the least and of the greatest original payoff, less one rounding.
LEMMA PayoffInvariant == Spec => []PayoffInv
<1>1. Init => PayoffInv
  <2>1. Init => TypeOK /\ OriginalGiven BY DEF Init, TypeOK, OriginalGiven
  <2>2. ASSUME Init PROVE PayoffBounded
    <3>1. \A most, least \in Payoffs \cup {0} :
            (\A u \in Payoffs \cup {0} : least <= u /\ u <= most) => Between(0, least, most)
      BY GivenAreInt, OriginalBetween
    <3>2. QED BY <2>2, <3>1 DEF Init, PayoffBounded, Between
  <2>3. QED BY <2>1, <2>2 DEF PayoffInv
<1>2. QED BY <1>1, WalkTypes, PayoffStep, PTL DEF Spec

\* Every variable of the payoffs always holds a value of its type: no division
\* of calStatePayoff() is by zero.
THEOREM PayoffTypes == Spec => []TypeOK
BY PayoffInvariant, PTL DEF PayoffInv

\* No payoff ever leaves the range of the discounted sum of original payoffs.
THEOREM PayoffsAreBounded == Spec => []PayoffBounded
BY PayoffInvariant, PTL DEF PayoffInv
================================================================================
