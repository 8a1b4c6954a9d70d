---------------------------- MODULE TransitionModel ----------------------------
(***************************************************************************)
(* What the memory of a GAMCS agent promises its user, with none of the    *)
(* structures that keep it: how often each transition                      *)
(*                                                                         *)
(*        state  +  action  ==>  following state                           *)
(*                                                                         *)
(* was experienced, and the last <<state, action>> of the agent, from      *)
(* which the next transition will start.  AgentMemory implements it.       *)
(***************************************************************************)
EXTENDS Naturals

CONSTANTS
  State,      \* the values an avatar perceives
  Action,     \* the values it can perform
  Invalid,    \* INVALID_STATE and INVALID_ACTION: "there is none"
  Given       \* the transitions out of a state another agent or a storage may
              \* supply, each a function Action \X State -> Nat

Transition == State \X Action \X State

VARIABLES
  times,      \* times[s, a, n]: how often s + a led to n
  last        \* the last <<state, action>>, <<Invalid, Invalid>> at first

tmVars == <<times, last>>

TMInit ==
  /\ times = [t \in Transition |-> 0]
  /\ last = <<Invalid, Invalid>>

\* The agent finds itself in n and chooses a: the transition that led to n is
\* counted once, unless this is the very first state.
Observe(n, a) ==
  /\ times' = [t \in Transition |->
       IF t = <<last[1], last[2], n>> THEN times[t] + 1 ELSE times[t]]
  /\ last' = <<n, a>>

\* Everything that starts or ends in s is forgotten, nothing else is.
Forget(s) ==
  /\ times' = [t \in Transition |-> IF s \in {t[1], t[3]} THEN 0 ELSE times[t]]
  /\ UNCHANGED last

\* The transitions that start in s are replaced by given ones.
Assign(s, given) ==
  /\ times' = [t \in Transition |-> IF t[1] = s THEN given[t[2], t[3]] ELSE times[t]]
  /\ UNCHANGED last

TMNext ==
  \E s \in State :
    \/ \E a \in Action : Observe(s, a)
    \/ Forget(s)
    \/ \E given \in Given : Assign(s, given)

TMSpec == TMInit /\ [][TMNext]_tmVars
================================================================================
