------------------------------ MODULE MCStateList ------------------------------
(* A small instance of StateList: three states, five structures ever made, so  *)
(* that a state can come back, and both walks.  Nothing tells states apart.    *)
EXTENDS StateList, TLC

CONSTANTS a, b, c
ThreeStates == {a, b, c}
StatesAlike == Permutations(ThreeStates)
BothWalks == {"iterator", "dump"}
================================================================================
