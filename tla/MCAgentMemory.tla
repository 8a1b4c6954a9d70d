----------------------------- MODULE MCAgentMemory -----------------------------
(* Small instances of AgentMemory.                                            *)
EXTENDS AgentMemory, TLC

CONSTANTS s1, s2, s3, a1

\* The state informations a client passes: any set of followers of any action,
\* each met once.
OnceEach == [count : {1}, eats : [Action \X State -> {0, 1}]]

NoCalls == {}
ClientCalls == {"add", "update", "delete", "set_mode", "entropy", "update_payoff"}
AllCalls == CallNames
DeletingCalls == {"delete", "delete_previous"}
ShrinkingCalls == {"update", "shrink"}
ConstCalls == {"entropy"}

Symmetric == Permutations(State) \cup Permutations(Action)
================================================================================
