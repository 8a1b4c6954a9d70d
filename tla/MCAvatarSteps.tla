----------------------------- MODULE MCAvatarSteps -----------------------------
(* Small instances of AvatarSteps.                                            *)
EXTENDS AvatarSteps, AgentPath, TLC

CONSTANTS s1, s2, s3, a1, a2, v1

\* The environment can lead from anywhere to anywhere.
Anywhere == Transition

None == {}
PayoffCalls == {"update_payoff"}
ModeCalls == {"set_mode", "entropy", "update_payoff"}

Symmetric == Permutations(State) \cup Permutations(Action)
================================================================================
