------------------------------ MODULE MCAvatarLoop ------------------------------
(* Small instances of AvatarLoop: a second of a few units, a clock of six     *)
(* bits.                                                                      *)
EXTENDS AvatarLoop

AnyStep == {0, 1, 3, 6, 20}
Punctual == {0, 2}
================================================================================
