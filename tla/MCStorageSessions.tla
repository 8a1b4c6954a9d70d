--------------------------- MODULE MCStorageSessions ---------------------------
(* Small instances of StorageSessions: states of both signs, so that the order *)
(* of the keys of Sqlite is not the order in which states are met.             *)
EXTENDS StorageSessions

SignedState == {-1, 1, 2}
TwoStates == {1, 2}
OneAction == {0}
\* A load, a drawing of everything, and the drawing or the text of one state.
EverySession == {<<"load", NULL>>, <<"cdot", NULL>>, <<"dot", -1>>, <<"print", 2>>}
Loads == {<<"load", NULL>>}
Drawing == {<<"dot", 1>>}
EveryEngine == {"Sqlite", "Mysql", "Agent"}
EveryFailure == {"open", "create", "commit", "kill"}
None == {}
================================================================================
