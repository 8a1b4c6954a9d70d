---------------------------- MODULE MCMemoryStorage ----------------------------
(* Small instances of MemoryStorage.  A value has three bits, -4 to 3, the     *)
(* greatest being the invalid one; a column of Sqlite reads as two bits, -2 to *)
(* 1, so that -4 reads as 0 and the invalid value as -1.                       *)
EXTENDS MemoryStorage

NoInfo == {}
InvalidValue == 3

Narrow == {-1, 0, 1}
WideState == {-4, 0}
OneAction == {-1}

None == {}
LoadCalls == {"add", "update"}
LoadDeleteCalls == {"add", "update", "delete"}
KilledOrNotCommitted == {"crash", "commit"}
KilledOrNotWritten == {"crash", "write"}
AnyHabit == {"no_load", "blank_dump"}
================================================================================
