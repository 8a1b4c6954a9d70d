----------------------------- MODULE MCOutputSpace -----------------------------
(* Small instances of OutputSpace.                                            *)
EXTENDS OutputSpace

\* One output, and ranges: up to the invalid output, down with a step, up past no
\* exact end; the wrong way by less than a step and by more.
Zero == {0}
FiveRanges == {<<13, 15, 1>>, <<2, -2, -2>>, <<-1, 2, 2>>, <<5, 4, 2>>, <<3, 1, 1>>}

\* The actions are all alike, or the even ones are better.
AllAlike == {[a \in Output |-> 0]}
AnyPayoffs == AllAlike \cup {[a \in Output |-> (a + 1) % 2]}
================================================================================
