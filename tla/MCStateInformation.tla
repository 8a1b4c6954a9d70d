-------------------------- MODULE MCStateInformation --------------------------
(* Small instances of StateInformation, with the sizes of the packed structs   *)
(* and a field of 7 bits, which cannot say the size of the longer lists, as    *)
(* 16 bits cannot say that of an action seen to lead to 3300 states.           *)
EXTENDS StateInformation

\* Up to three actions with up to two environment actions each, none being
\* left of some by deletions.
TwoEats == {"e1", "e2"}
ThreeActs == {"a", "b", "c"}
EaLists == {<<>>, <<"e1">>, <<"e1", "e2">>, <<"e2", "e1">>}
SmallLists ==
  {<<>>} \cup {<<[act |-> "a", ealist |-> x]>> : x \in EaLists}
  \cup {<<[act |-> "a", ealist |-> x], [act |-> "b", ealist |-> y]>> : x \in EaLists, y \in EaLists}
  \cup {<<[act |-> "a", ealist |-> x], [act |-> "b", ealist |-> y], [act |-> "c", ealist |-> z]>>
          : x \in EaLists, y \in EaLists, z \in EaLists}

\* Bytes that are no header say no environment action, or as many as fit or more.
SomeNums == 0..2

Everyone == {"any", "build"}
================================================================================
