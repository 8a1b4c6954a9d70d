------------------------------ MODULE AvatarSteps ------------------------------
(***************************************************************************)
(* Avatars in their environment, connected to one agent: step() and        *)
(* teach() of class Avatar, call by call, and what the environment makes   *)
(* of the actions that are performed.  The history "lived" counts the      *)
(* transitions that really happened, to compare the memory of the agent    *)
(* with.  The program is one thread: a step of an avatar is over before    *)
(* another begins.                                                         *)
(***************************************************************************)
EXTENDS AgentMemory

CONSTANTS
  Avatars,
  World,           \* the transitions the environment can make
  Uses             \* "spawn": another avatar is connected to an agent that has
                   \* been used, as the examples mouse and room_escape do

ASSUME WorldAssumption == World \subseteq Transition
ASSUME NobodyAssumption == NULL \notin Avatars
ASSUME UsesAssumption == Uses \subseteq {"spawn"}

VARIABLES
  place,           \* the state an avatar would perceive; Invalid: not connected
  whose,           \* the avatar whose step is under way, or was the last
  stage,           \* of that step: "over", "chosen" after process(), "updated"
                   \* after update(), the action not being performed yet
  lived            \* (for the properties) how often a transition happened

agentVars == vars
avatarVars == <<place, whose, stage, lived>>
lifeVars == <<agentVars, avatarVars>>

--------------------------------------------------------------------------------
(* As in AgentMemory, a definition may stand next to a variant with one       *)
(* plausible slip, which no specification uses.                               *)

LifeInit ==
  /\ Init
  /\ place = [v \in Avatars |-> Invalid]
  /\ whose = NULL
  /\ stage = "over"
  /\ lived = [t \in Transition |-> 0]

Free(v) == place[v] = Invalid /\ (whose = NULL \/ "spawn" \in Uses)

\* connectAgent(): the avatar comes into the world at s.
ConnectAgent(v, s) ==
  /\ Running /\ stage = "over" /\ Free(v)
  /\ place' = [place EXCEPT ![v] = s]
  /\ whose' = IF whose = NULL THEN v ELSE whose
  /\ UNCHANGED <<agentVars, stage, lived>>

\* The first half of step() and teach(): the state is perceived, process()
\* chooses out among the actions available, or takes the one that is taught.
Choose(v, out) ==
  /\ stage = "over" /\ place[v] # Invalid
  /\ Process(place[v], out)
  /\ whose' = v /\ stage' = "chosen"
  /\ UNCHANGED <<place, lived>>

\* step() in a state without actions returns -1, "before update stage"; the
\* avatar may be stepped again.
StopAfterUpdate(v) ==
  /\ stage = "over" /\ place[v] # Invalid
  /\ Running /\ cur_in = Invalid
  /\ Constrain(place[v])
  /\ pre_in' = cur_in /\ pre_out' = cur_out
  /\ UNCHANGED <<structures, cur_in, cur_out, learning_mode, fault, avatarVars>>
StopAtDeadEnd(v) ==
  /\ stage = "over" /\ place[v] # Invalid
  /\ DeadEnd(place[v])
  /\ UNCHANGED avatarVars

\* update(originalPayoff(cs)).
UpdateAgent ==
  /\ stage = "chosen"
  /\ FirstUpdate \/ LinkUpdate \/ LostUpdate \/ StaleFirst \/ StaleLink \/ FreedUpdate
  /\ stage' = IF cur_in' = Invalid THEN "updated" ELSE stage
  /\ UNCHANGED <<place, whose, lived>>

\* performAction(act), or the external force that performs what was taught:
\* the environment answers, and the avatar finds itself in n.
Perform(n) ==
  /\ Running /\ stage = "updated"
  /\ LET t == <<pre_in, pre_out, n>> IN
     /\ t \in World
     /\ lived' = [lived EXCEPT ![t] = @ + 1]
  /\ place' = [place EXCEPT ![whose] = n]
  /\ stage' = "over"
  /\ UNCHANGED <<agentVars, whose>>

\* What the program calls of the agent between steps, or inside one.
CallAgent ==
  /\ \/ \E mode \in {"ONLINE", "EXPLORE"} : SetMode(mode)
     \/ \E st \in State : Entropy(st)
     \/ \E s \in State : UpdatePayoff(s)
  /\ UNCHANGED avatarVars

LifeNext ==
  \/ \E v \in Avatars, s \in State : ConnectAgent(v, s)
  \/ \E v \in Avatars, out \in Action : Choose(v, out)
  \/ \E v \in Avatars : StopAtDeadEnd(v)
  \/ UpdateAgent
  \/ \E n \in State : Perform(n)
  \/ CallAgent

LifeSpec == LifeInit /\ [][LifeNext]_lifeVars

--------------------------------------------------------------------------------
\* Every variable of the avatars holds a value the program can give it.
LifeTypeOK ==
  /\ place \in [Avatars -> State \cup {Invalid}]
  /\ whose \in Avatars \cup {NULL}
  /\ stage \in {"over", "chosen", "updated"}
  /\ lived \in [Transition -> Nat]

\* The transition the avatar has just made is linked when it is stepped again.
Pending(t) ==
  pre_in # Invalid /\ stage # "updated" /\ t = <<pre_in, pre_out, place[whose]>>

\* The memory holds exactly the transitions its avatar went through, each as
\* often as it happened, whatever the dead ends and the changes of mode between
\* its steps.
MemoryIsLife ==
  \A t \in Transition : lived[t] = eats[t] + (IF Pending(t) THEN 1 ELSE 0)
================================================================================
