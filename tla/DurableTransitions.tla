--------------------------- MODULE DurableTransitions ---------------------------
(***************************************************************************)
(* What an agent with a storage promises its user, on top of               *)
(* TransitionModel: a dump keeps everything the agent knows at once, a     *)
(* crash loses what the agent knows and nothing of what was dumped, and a  *)
(* load brings back exactly what the last dump kept.  MemoryStorage        *)
(* implements it with an engine that has transactions.                     *)
(***************************************************************************)
EXTENDS TransitionModel

VARIABLE archive   \* <<times, last>> as the last dump kept them

dtVars == <<tmVars, archive>>

DTInit == TMInit /\ archive = tmVars

Live == TMNext /\ UNCHANGED archive

Dump == archive' = tmVars /\ UNCHANGED tmVars

Load == <<times, last>>' = archive /\ UNCHANGED archive

Crash ==
  /\ times' = [t \in Transition |-> 0]
  /\ last' = <<Invalid, Invalid>>
  /\ UNCHANGED archive

DTNext == Live \/ Dump \/ Load \/ Crash

DTSpec == DTInit /\ [][DTNext]_dtVars
================================================================================
