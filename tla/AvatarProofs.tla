------------------------------ MODULE AvatarProofs ------------------------------
(***************************************************************************)
(* The memory of an agent with one avatar is the life of that avatar, and  *)
(* its counts are those of one path: for any finite sets of states and     *)
(* actions, any environment, any calls of setMode(), singleOutputEntropy() *)
(* and updatePayoff() between two steps, and of the last within one.  And  *)
(* the loop that takes the steps keeps its pace, whatever the steps and    *)
(* the sleeps last.                                                        *)
(***************************************************************************)
EXTENDS AvatarSteps, AvatarLoop, AgentMemoryProofs

USE SentinelsDistinct, WorldAssumption, NobodyAssumption

\* An agent is only ever used by one avatar.
OneAvatar == "spawn" \notin Uses

\* Where a step is, who makes it and what the agent holds belong together: the
\* inductive invariant.
StepsAgree ==
  /\ stage = "chosen" <=> cur_in # Invalid
  /\ cur_in # Invalid => whose \in Avatars /\ cur_in = place[whose]
  /\ pre_in # Invalid => whose \in Avatars
  /\ \A u \in Avatars : place[u] # Invalid => u = whose

LifeInv == TypeOK /\ CurMstIsCurrent /\ LifeTypeOK /\ StepsAgree /\ MemoryIsLife

--------------------------------------------------------------------------------
\* Every step of the avatars is one of their agent, or leaves it alone.
LEMMA LifeStepsAgent == ASSUME LifeTypeOK, LifeNext PROVE [Next]_vars
<1>1. CASE \E v \in Avatars, s \in State : ConnectAgent(v, s)
  BY <1>1 DEF ConnectAgent, agentVars
<1>2. CASE \E v \in Avatars, out \in Action : Choose(v, out)
  <2>1. PICK v \in Avatars, out \in Action : Choose(v, out) BY <1>2
  <2>2. place[v] \in State BY <2>1 DEF Choose, LifeTypeOK
  <2>3. QED BY <2>1, <2>2 DEF Choose, Next
<1>3. CASE \E v \in Avatars : StopAtDeadEnd(v)
  <2>1. PICK v \in Avatars : StopAtDeadEnd(v) BY <1>3
  <2>2. place[v] \in State BY <2>1 DEF StopAtDeadEnd, LifeTypeOK
  <2>3. QED BY <2>1, <2>2 DEF StopAtDeadEnd, Next
<1>4. CASE UpdateAgent BY <1>4 DEF UpdateAgent, Next
<1>5. CASE \E n \in State : Perform(n) BY <1>5 DEF Perform, agentVars
<1>6. CASE CallAgent BY <1>6 DEF CallAgent, Next
<1>7. QED BY <1>1, <1>2, <1>3, <1>4, <1>5, <1>6 DEF LifeNext

\* A connection is only made before anything has been lived.
LEMMA LifeConnect ==
  ASSUME OneAvatar, LifeInv, NEW v \in Avatars, NEW s \in State, ConnectAgent(v, s)
  PROVE  LifeTypeOK' /\ StepsAgree' /\ MemoryIsLife'
<1>1. whose = NULL /\ pre_in = Invalid /\ \A u \in Avatars : place[u] = Invalid
  BY DEF OneAvatar, LifeInv, ConnectAgent, Free, StepsAgree
<1>2. LifeTypeOK' BY <1>1 DEF LifeInv, LifeTypeOK, ConnectAgent
<1>3. UNCHANGED <<eats, cur_in, pre_in, lived, stage>>
  BY DEF ConnectAgent, agentVars, vars, structures, sequence
<1>4. whose' = v /\ place' = [place EXCEPT ![v] = s] BY <1>1 DEF ConnectAgent
<1>5. StepsAgree'
  BY <1>1, <1>3, <1>4 DEF LifeInv, LifeTypeOK, StepsAgree
<1>6. MemoryIsLife' BY <1>1, <1>3 DEF LifeInv, MemoryIsLife, Pending
<1>7. QED BY <1>2, <1>5, <1>6

\* The avatar that is stepped is the one that was before: what it made pending
\* still is.
LEMMA LifeChoose ==
  ASSUME LifeInv, NEW v \in Avatars, NEW out \in Action, Choose(v, out)
  PROVE  LifeTypeOK' /\ StepsAgree' /\ MemoryIsLife'
<1>1. v = whose BY DEF LifeInv, StepsAgree, Choose
<1>2. LifeTypeOK' BY DEF LifeInv, LifeTypeOK, Choose
<1>3. /\ UNCHANGED <<eats, pre_in, pre_out, lived, place, whose>>
      /\ cur_in' = place[v] /\ stage = "over" /\ stage' = "chosen"
  BY <1>1 DEF Choose, Process, structures
<1>4. place[v] # Invalid BY DEF Choose
<1>5. StepsAgree' BY <1>1, <1>3, <1>4 DEF LifeInv, StepsAgree
<1>6. MemoryIsLife' BY <1>3 DEF LifeInv, MemoryIsLife, Pending
<1>7. QED BY <1>2, <1>5, <1>6

\* What an update links is the transition that was pending.
LEMMA LifeUpdate ==
  ASSUME LifeInv, UpdateAgent
  PROVE  LifeTypeOK' /\ StepsAgree' /\ MemoryIsLife'
<1>1. LifeTypeOK' BY DEF LifeInv, LifeTypeOK, UpdateAgent
<1>2. CASE FirstUpdate
  <2>1. /\ UNCHANGED <<eats, lived, place, whose, fault>> /\ fault = "none"
        /\ pre_in = Invalid /\ pre_in' = cur_in /\ cur_in' = Invalid
        /\ stage' = "updated" /\ cur_in # Invalid
    BY <1>2 DEF FirstUpdate, UpdateAgent, Stepping, Running, Advance
  <2>2. StepsAgree' BY <2>1 DEF LifeInv, StepsAgree
  <2>3. MemoryIsLife' BY <2>1 DEF LifeInv, MemoryIsLife, Pending
  <2>4. QED BY <1>1, <2>2, <2>3
<1>3. CASE LinkUpdate
  <2> DEFINE t == <<pre_in, pre_out, cur_in>>
  <2>1. /\ UNCHANGED <<lived, place, whose>>
        /\ pre_in # Invalid /\ pre_in' = cur_in /\ cur_in' = Invalid
        /\ cur_in # Invalid
        /\ eats' = [eats EXCEPT ![t] = @ + 1]
    BY <1>3 DEF LinkUpdate, linkStates, UpdateAgent, Stepping, Advance, LifeInv, TypeOK
  <2>2. stage' = "updated" BY <2>1 DEF UpdateAgent
  <2>3. StepsAgree' BY <2>1, <2>2 DEF LifeInv, StepsAgree
  <2>4. cur_in = place[whose] /\ stage = "chosen"
    BY <2>1 DEF LifeInv, StepsAgree
  <2>5. SUFFICES ASSUME NEW u \in Transition PROVE lived'[u] = eats'[u] /\ eats'[u] \in Nat
    <3>1. \A w \in Transition : ~ Pending(w)' BY <2>2 DEF Pending
    <3>2. QED BY <1>1, <2>3, <3>1 DEF MemoryIsLife
  <2>6. lived[u] = eats[u] + (IF u = t THEN 1 ELSE 0)
    BY <2>1, <2>4 DEF LifeInv, MemoryIsLife, Pending
  <2>7. eats'[u] = IF u = t THEN eats[u] + 1 ELSE eats[u]
    BY <2>1 DEF LifeInv, TypeOK
  <2>8. QED BY <2>1, <2>6, <2>7 DEF LifeInv, TypeOK
<1>4. CASE LostUpdate \/ FreedUpdate
  <2>1. UNCHANGED <<eats, lived, place, whose, pre_in, pre_out, cur_in>> /\ cur_in # Invalid
    BY <1>4 DEF LostUpdate, FreedUpdate, Stepping, UpdateAgent, structures, sequence
  <2>2. UNCHANGED stage BY <2>1 DEF UpdateAgent
  <2>3. QED BY <1>1, <2>1, <2>2 DEF LifeInv, StepsAgree, MemoryIsLife, Pending
<1>5. ~ StaleFirst /\ ~ StaleLink BY RightStructure DEF LifeInv
<1>6. QED BY <1>2, <1>3, <1>4, <1>5 DEF UpdateAgent

\* An action performed makes one transition happen, which is then pending.
LEMMA LifePerform ==
  ASSUME LifeInv, NEW n \in State, Perform(n)
  PROVE  LifeTypeOK' /\ StepsAgree' /\ MemoryIsLife'
<1> DEFINE t == <<pre_in, pre_out, n>>
<1>1. t \in Transition BY DEF Perform
<1>2. pre_in \in State BY <1>1 DEF Transition
<1>3. /\ UNCHANGED <<eats, pre_in, pre_out, cur_in, whose>>
      /\ stage = "updated" /\ stage' = "over"
      /\ place' = [place EXCEPT ![whose] = n]
      /\ lived' = [lived EXCEPT ![t] = @ + 1]
  BY DEF Perform, agentVars, vars, structures, sequence
<1>4. whose \in Avatars BY <1>2 DEF LifeInv, StepsAgree
<1>5. LifeTypeOK' BY <1>1, <1>3, <1>4 DEF LifeInv, LifeTypeOK
<1>6. StepsAgree' BY <1>3, <1>4 DEF LifeInv, LifeTypeOK, StepsAgree
<1>7. SUFFICES ASSUME NEW u \in Transition
               PROVE  lived'[u] = eats'[u] + (IF Pending(u)' THEN 1 ELSE 0)
  BY <1>5, <1>6 DEF MemoryIsLife
<1>8. Pending(u)' <=> u = t
  BY <1>2, <1>3, <1>4 DEF Pending, LifeInv, LifeTypeOK
<1>9. lived[u] = eats[u] BY <1>3 DEF LifeInv, MemoryIsLife, Pending, TypeOK
<1>10. QED BY <1>3, <1>8, <1>9 DEF LifeInv, LifeTypeOK

\* Nothing else touches the links or the time sequence.
LEMMA LifeOther ==
  ASSUME LifeInv, \/ \E v \in Avatars : StopAtDeadEnd(v)
                  \/ CallAgent
                  \/ UNCHANGED lifeVars
  PROVE  LifeTypeOK' /\ StepsAgree' /\ MemoryIsLife'
<1>1. UNCHANGED <<eats, sequence, place, whose, stage, lived>>
  <2>1. CASE \E v \in Avatars : StopAtDeadEnd(v)
    BY <2>1 DEF StopAtDeadEnd, DeadEnd, structures, avatarVars
  <2>2. CASE CallAgent
    BY <2>2 DEF CallAgent, SetMode, Entropy, UpdatePayoff, structures, avatarVars
  <2>3. CASE UNCHANGED lifeVars
    BY <2>3 DEF lifeVars, agentVars, vars, structures, avatarVars
  <2>4. QED BY <2>1, <2>2, <2>3
<1>2. QED BY <1>1 DEF LifeInv, LifeTypeOK, StepsAgree, MemoryIsLife, Pending, sequence

--------------------------------------------------------------------------------
\* The memory of an agent with one avatar holds exactly the transitions that
\* avatar went through, each as often as it happened: the counts linkStates()
\* keeps, through dead ends and changes of mode between its steps.  Within a
\* step originalPayoff() may at most update payoffs: a call that changes cur_mst
\* or the mode there has update() record a transition nobody made.
THEOREM MemoryIsTheLife == ASSUME OneAvatar, QuietSteps PROVE LifeSpec => []MemoryIsLife
<1>1. LifeInit => LifeInv
  <2> SUFFICES ASSUME LifeInit PROVE LifeInv OBVIOUS
  <2>2. TypeOK BY DEF LifeInit, Init, TypeOK
  <2>3. LifeTypeOK /\ StepsAgree BY DEF LifeInit, Init, LifeTypeOK, StepsAgree
  <2>4. MemoryIsLife BY DEF LifeInit, Init, MemoryIsLife, Pending
  <2>5. CurMstIsCurrent BY DEF LifeInit, Init, CurMstIsCurrent, Stepping
  <2>6. QED BY <2>2, <2>3, <2>4, <2>5 DEF LifeInv
<1>2. LifeInv /\ [LifeNext]_lifeVars => LifeInv'
  <2> SUFFICES ASSUME LifeInv, [LifeNext]_lifeVars PROVE LifeInv' OBVIOUS
  <2>2. TypeOK' /\ CurMstIsCurrent'
    <3>1. [Next]_vars BY LifeStepsAgent DEF LifeInv, lifeVars, agentVars
    <3>2. QED BY <3>1, QuietSteps, TypeStep, CurrentStep DEF LifeInv
  <2>3. LifeTypeOK' /\ StepsAgree' /\ MemoryIsLife'
    BY OneAvatar, LifeConnect, LifeChoose, LifeUpdate, LifePerform, LifeOther DEF LifeNext
  <2>4. QED BY <2>2, <2>3 DEF LifeInv
<1>3. LifeInv => MemoryIsLife BY DEF LifeInv
<1>4. QED BY <1>1, <1>2, <1>3, PTL DEF LifeSpec

--------------------------------------------------------------------------------
(* One path, whoever steps.                                                   *)

\* What every step of avatars does to them.
LEMMA LifeCounts ==
  ASSUME TypeOK, CurMstIsCurrent, [LifeNext]_lifeVars
  PROVE  FirstUpdate \/ LinkUpdate \/ UNCHANGED <<count, eats, pre_in>>
<1>1. CASE \E v \in Avatars, s \in State : ConnectAgent(v, s)
  BY <1>1 DEF ConnectAgent, agentVars, vars, structures, sequence
<1>2. CASE \E v \in Avatars, out \in Action : Choose(v, out)
  BY <1>2 DEF Choose, Process, structures
<1>3. CASE \E v \in Avatars : StopAtDeadEnd(v)
  BY <1>3 DEF StopAtDeadEnd, DeadEnd, structures, sequence
<1>4. CASE UpdateAgent
  BY <1>4, RightStructure DEF UpdateAgent, LostUpdate, FreedUpdate, structures, sequence
<1>5. CASE \E n \in State : Perform(n)
  BY <1>5 DEF Perform, agentVars, vars, structures, sequence
<1>6. CASE CallAgent
  BY <1>6 DEF CallAgent, SetMode, Entropy, UpdatePayoff, structures, sequence
<1>7. CASE UNCHANGED lifeVars
  BY <1>7 DEF lifeVars, agentVars, vars, structures, sequence
<1>8. QED BY <1>1, <1>2, <1>3, <1>4, <1>5, <1>6, <1>7 DEF LifeNext

\* Every step of avatars keeps the types, whoever makes it.
LEMMA LifeTypeStep ==
  ASSUME LifeTypeOK, TypeOK, [LifeNext]_lifeVars PROVE LifeTypeOK'
<1> USE DEF LifeTypeOK
<1>1. CASE \E v \in Avatars, s \in State : ConnectAgent(v, s)
  BY <1>1 DEF ConnectAgent
<1>2. CASE \E v \in Avatars, out \in Action : Choose(v, out)
  BY <1>2 DEF Choose
<1>3. CASE (\E v \in Avatars : StopAtDeadEnd(v)) \/ CallAgent \/ UNCHANGED lifeVars
  BY <1>3 DEF StopAtDeadEnd, CallAgent, avatarVars, lifeVars
<1>4. CASE UpdateAgent BY <1>4 DEF UpdateAgent
<1>5. ASSUME NEW n \in State, Perform(n) PROVE LifeTypeOK'
  <2> DEFINE t == <<pre_in, pre_out, n>>
  <2>1. t \in Transition /\ lived' = [lived EXCEPT ![t] = @ + 1]
    BY <1>5 DEF Perform
  <2>2. place' = [place EXCEPT ![whose] = n] /\ whose' = whose /\ stage' = "over"
    BY <1>5 DEF Perform
  <2> HIDE DEF t
  <2>3. lived' \in [Transition -> Nat] BY <2>1
  <2>4. place' \in [Avatars -> State \cup {Invalid}] BY <2>2
  <2>5. QED BY <2>2, <2>3, <2>4
<1>6. QED BY <1>1, <1>2, <1>3, <1>4, <1>5 DEF LifeNext

\* So has an agent its avatars step and teach, one or several of them: a second
\* one goes on where the first has stopped.
THEOREM AvatarsWalkOnePath == ASSUME QuietSteps PROVE LifeSpec => []OnePath
<1> DEFINE Inv == PathInv /\ CurMstIsCurrent /\ LifeTypeOK
<1>1. LifeInit => Inv
  <2>1. LifeInit => LifeTypeOK BY DEF LifeInit, LifeTypeOK
  <2>2. LifeInit => CurMstIsCurrent BY DEF LifeInit, Init, CurMstIsCurrent, Stepping
  <2>3. QED BY <2>1, <2>2, PathInit DEF LifeInit
<1>2. Inv /\ [LifeNext]_lifeVars => Inv'
  <2> SUFFICES ASSUME Inv, [LifeNext]_lifeVars PROVE Inv' OBVIOUS
  <2>1. [Next]_vars BY LifeStepsAgent DEF lifeVars, agentVars
  <2>2. TypeOK' /\ CurMstIsCurrent' BY <2>1, QuietSteps, TypeStep, CurrentStep DEF PathInv
  <2>3. LifeTypeOK' BY LifeTypeStep DEF PathInv
  <2>4. FirstUpdate \/ LinkUpdate \/ UNCHANGED <<count, eats, pre_in>> BY LifeCounts DEF PathInv
  <2>5. CASE FirstUpdate \/ LinkUpdate BY <2>2, <2>3, <2>5, PathUpdate DEF PathInv
  <2>6. CASE UNCHANGED <<count, eats, pre_in>> BY <2>2, <2>3, <2>6, PathUnchanged DEF PathInv
  <2>7. QED BY <2>4, <2>5, <2>6
<1>3. Inv => OnePath BY DEF PathInv
<1>4. QED BY <1>1, <1>2, <1>3, PTL DEF LifeSpec

--------------------------------------------------------------------------------
(* The pace of a loop.                                                        *)

\* The time that steps began last, as the loop remembers it.
BegunAt(b) ==
  /\ b \in starts /\ \A a \in starts : a <= b
  /\ sps > 0 => start_time = ulong(epoch + b)

\* Where the loop is tells how long ago that was: the inductive invariant.
LoopInv ==
  /\ time \in Nat /\ epoch \in Nat /\ starts \subseteq Nat
  /\ pc \in {"enter", "step", "pace", "quit"}
  /\ pc = "enter" => \A a \in starts : a + control_step_time <= time
  /\ pc = "step" => BegunAt(time)
  /\ pc = "pace" => \E d \in 0..Half - 1 : time - d \in Nat /\ BegunAt(time - d)
  /\ NeverOversleeps /\ PaceKept

\* The time of a step is a part of a second, which a clock can show.
LEMMA StepTimeType == control_step_time \in Nat /\ control_step_time < Half
<1>1. Second \in Nat \ {0} /\ Half \in Nat \ {0} /\ Second < Half /\ sps \in Int
  BY SecondAssumption, WidthAssumption, SpsAssumption
<1>2. CASE sps > 0
  <2> DEFINE c == Second \div sps
  <2>1. 0 * sps <= Second BY <1>1
  <2>2. 1 * Second <= sps * Second BY <1>1, <1>2, ProductOrder
  <2>3. sps * Second = Second * sps /\ Second * sps \in Int BY <1>1
  <2>4. c \in Int /\ c <= Second /\ c >= 0
    BY <1>1, <1>2, <2>1, <2>2, <2>3, DivisionBounds
  <2>5. QED BY <1>1, <1>2, <2>4 DEF control_step_time
<1>3. CASE ~ (sps > 0) BY <1>1, <1>3 DEF control_step_time
<1>4. QED BY <1>2, <1>3

\* The difference of two readings of a clock that wraps is the time between
\* them, as long as that is less than what the clock can show.
LEMMA ClockDifference ==
  ASSUME NEW n \in Nat, NEW d \in 0..Half - 1, n - d \in Nat
  PROVE  ulong(ulong(n) - ulong(n - d)) = d
<1> DEFINE W == 2 * Half
           q == n \div W
           p == (n - d) \div W
<1>1. W \in Nat \ {0} /\ d \in 0..W - 1 BY WidthAssumption
<1> HIDE DEF W
<1>2. q \in Int /\ n % W \in Int /\ n = q * W + (n % W) BY <1>1, RemainderOf
<1>3. p \in Int /\ (n - d) % W \in Int /\ n - d = p * W + ((n - d) % W)
  BY <1>1, RemainderOf
<1> HIDE DEF q, p
<1>4. (n % W) - ((n - d) % W) = (p - q) * W + d
  <2>1. (p - q) * W = p * W - q * W /\ p * W \in Int /\ q * W \in Int BY <1>1, <1>2, <1>3
  <2>2. QED BY <1>1, <1>2, <1>3, <2>1
<1>5. ((p - q) * W + d) % W = d
  <2>1. p - q \in Int BY <1>2, <1>3
  <2>2. QED BY <1>1, <2>1, RemainderUnique
<1>6. QED BY <1>4, <1>5 DEF ulong, W

\* A small number is itself as a long.
LEMMA LongIsItself ==
  ASSUME NEW n \in Int, -Half <= n, n < Half PROVE long(n) = n
<1> DEFINE W == 2 * Half
<1>1. W \in Nat \ {0} /\ n + Half \in 0..W - 1 /\ 0 * W + (n + Half) = n + Half /\ Half \in Nat
  BY WidthAssumption
<1> HIDE DEF W
<1>2. (n + Half) % W = n + Half BY <1>1, RemainderUnique
<1>3. QED BY <1>1, <1>2 DEF long, W

\* Every step of the loop keeps the invariant.
LEMMA LoopStep == LoopInv /\ [LoopNext]_loopVars => LoopInv'
<1> SUFFICES ASSUME LoopInv, [LoopNext]_loopVars PROVE LoopInv' OBVIOUS
<1>0. /\ control_step_time \in Nat /\ control_step_time < Half /\ Half \in Nat \ {0}
      /\ control_step_time' = control_step_time
  BY StepTimeType, WidthAssumption DEF control_step_time
<1>1. CASE BeginStep
  <2>1. /\ pc = "enter" /\ pc' = "step" /\ starts' = starts \cup {time}
        /\ UNCHANGED <<time, epoch, slept>>
        /\ sps > 0 => start_time' = ulong(epoch + time)
    BY <1>1 DEF BeginStep, getCurrentTime
  <2>2. /\ time \in Nat /\ starts \subseteq Nat
        /\ \A a \in starts : a + control_step_time <= time
    BY <2>1 DEF LoopInv
  <2>3. BegunAt(time)' BY <1>0, <2>1, <2>2 DEF BegunAt, ulong
  <2>4. PaceKept' BY <1>0, <2>1, <2>2 DEF PaceKept, LoopInv
  <2>5. NeverOversleeps' BY <1>0, <2>1 DEF NeverOversleeps, LoopInv
  <2>6. QED BY <2>1, <2>2, <2>3, <2>4, <2>5 DEF LoopInv
<1>2. CASE Step
  <2>1. PICK d \in StepTimes : time' = time + d BY <1>2 DEF Step
  <2>2. d \in 0..Half - 1 /\ d \in Nat BY TimesAssumption, <1>0
  <2>3. /\ pc = "step" /\ pc' = "pace" /\ UNCHANGED <<epoch, start_time, slept, starts>>
    BY <1>2 DEF Step
  <2>4. time \in Nat /\ time' \in Nat /\ time' - d = time /\ BegunAt(time)
    BY <2>1, <2>2, <2>3 DEF LoopInv
  <2>5. BegunAt(time - d)' BY <2>3, <2>4 DEF BegunAt, ulong
  <2>6. NeverOversleeps' /\ PaceKept'
    BY <1>0, <2>3 DEF LoopInv, NeverOversleeps, PaceKept
  <2>7. QED BY <2>2, <2>3, <2>4, <2>5, <2>6 DEF LoopInv
<1>3. CASE Quit
  BY <1>0, <1>3 DEF Quit, LoopInv, NeverOversleeps, PaceKept
<1>4. CASE Pace
  <2>1. pc = "pace" /\ pc' = "enter" /\ UNCHANGED <<epoch, start_time, starts>>
    BY <1>4 DEF Pace
  <2>2. PICK d \in 0..Half - 1 : time - d \in Nat /\ BegunAt(time - d)
    BY <2>1 DEF LoopInv
  <2>3. time \in Nat /\ epoch \in Nat /\ starts \subseteq Nat BY DEF LoopInv
  <2>4. sps > 0 => time_remaining = control_step_time - d
    <3>1. SUFFICES ASSUME sps > 0 PROVE time_remaining = control_step_time - d OBVIOUS
    <3>2. getCurrentTime = ulong(epoch + time) /\ start_time = ulong((epoch + time) - d)
      <4>1. epoch + (time - d) = (epoch + time) - d BY <2>2, <2>3
      <4>2. QED BY <2>2, <3>1, <4>1 DEF BegunAt, getCurrentTime
    <3>3. epoch + time \in Nat /\ (epoch + time) - d \in Nat
      BY <2>2, <2>3
    <3>4. ulong(getCurrentTime - start_time) = d BY <3>2, <3>3, ClockDifference
    <3>5. long(control_step_time - d) = control_step_time - d BY <1>0, LongIsItself
    <3>6. QED BY <3>4, <3>5 DEF time_remaining
  <2>5. time' \in Nat /\ time' >= (time - d) + control_step_time /\ slept' <= control_step_time
    <3>1. CASE sps > 0 /\ time_remaining > 0
      <4>1. slept' = control_step_time - d BY <1>4, <2>4, <3>1 DEF Pace
      <4>2. PICK late \in Delays : time' = time + (control_step_time - d) + late
        BY <1>4, <2>4, <3>1 DEF Pace
      <4>3. late \in Nat BY TimesAssumption
      <4>4. QED BY <1>0, <2>2, <2>3, <4>1, <4>2, <4>3
    <3>2. CASE sps > 0 /\ ~ (time_remaining > 0)
      BY <1>0, <1>4, <2>2, <2>3, <2>4, <3>2 DEF Pace
    <3>3. CASE ~ (sps > 0)
      BY <1>0, <1>4, <2>2, <2>3, <3>3 DEF Pace, control_step_time
    <3>4. QED BY <3>1, <3>2, <3>3
  <2>6. \A a \in starts' : a + control_step_time <= time'
    BY <1>0, <2>1, <2>2, <2>3, <2>5 DEF BegunAt
  <2>7. NeverOversleeps' /\ PaceKept'
    BY <1>0, <2>1, <2>5 DEF LoopInv, NeverOversleeps, PaceKept
  <2>8. QED BY <1>0, <2>1, <2>3, <2>5, <2>6, <2>7 DEF LoopInv
<1>5. CASE UNCHANGED loopVars
  BY <1>5 DEF loopVars, LoopInv, BegunAt, NeverOversleeps, PaceKept, control_step_time, ulong
<1>6. QED BY <1>1, <1>2, <1>3, <1>4, <1>5 DEF LoopNext

\* The invariant holds at first.
LEMMA LoopInitial == LoopInit => LoopInv
BY StepTimeType, WidthAssumption DEF LoopInit, LoopInv, NeverOversleeps, PaceKept

\* However the clock of loop() wraps, and however long its steps took up to half
\* of what the clock can show, it never sleeps longer than a step may take.
THEOREM LoopNeverOversleeps == LoopSpec => []NeverOversleeps
<1>1. LoopInv => NeverOversleeps BY DEF LoopInv
<1>2. QED BY <1>1, LoopInitial, LoopStep, PTL DEF LoopSpec

\* Nor does a step ever begin before its share of a second is over.
THEOREM LoopKeepsPace == LoopSpec => []PaceKept
<1>1. LoopInv => PaceKept BY DEF LoopInv
<1>2. QED BY <1>1, LoopInitial, LoopStep, PTL DEF LoopSpec
================================================================================
