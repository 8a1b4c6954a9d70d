--------------------------- MODULE StateInformation ---------------------------
(***************************************************************************)
(* A State_Info_Header with the actions and environment actions of a state *)
(* packed behind it: written by CSOSAgent::getStateInfo(), kept or not in  *)
(* a storage, and read with the cursor of StateInfoParser.                 *)
(*                                                                         *)
(* A piece of memory is known by its offset from the header: a function    *)
(* from the offsets where an item begins to the items.                     *)
(***************************************************************************)
EXTENDS Integers, Sequences, SequencesExt

CONSTANTS
  Acts, Eats,      \* actions and environment actions
  Lists,           \* the action lists a state may have: sequences of records
                   \* [act, ealist], ealist a sequence of environment actions
  HdSize, ActSize, EatSize,
                   \* sizeof State_Info_Header, Action_Info_Header and
                   \* EnvAction_Info
  SizeValues,      \* the numbers the field size can say, 2^16
  GarbageNums,     \* the bound of undefined reads: the numbers of environment
                   \* actions that bytes which are no header are taken for
  NULL,            \* no pointer
  Clients          \* "build", the walk of buildStateFromHeader(); "any", calls
                   \* in any order once there is an action

ASSUME SizesAssumption == {HdSize, ActSize, EatSize} \subseteq Nat \ {0}
ASSUME SizeValuesAssumption == SizeValues \in Nat \ {0}
ASSUME GarbageAssumption == GarbageNums \subseteq Nat /\ GarbageNums # {}
ASSUME ListsAssumption == Lists \subseteq Seq([act : Acts, ealist : Seq(Eats)])
ASSUME NullAssumption == NULL \notin Nat
ASSUME ClientsAssumption == Clients \subseteq {"build", "any"}

VARIABLES
  actlist,         \* of the state whose information is taken
  info,            \* the information as its reader has it
  atp, act_index,  \* the cursor: the current action
  eap, eat_index,  \* and the current environment action
  returned,        \* the pointer the last call returned, or NULL
  client, pc,      \* who reads, and where buildStateFromHeader() is in its loops
  mac, built,      \* the action it is at, and the links it has built, in order
  outside          \* whether something was read where no item is

cursor == <<atp, act_index, eap, eat_index>>
infoVars == <<actlist, info, cursor, returned, client, pc, mac, built, outside>>

--------------------------------------------------------------------------------
(* As elsewhere, a definition may stand next to a variant with one plausible  *)
(* slip, which no specification uses.                                         *)

\* The bytes of an action with its environment actions, and of the items before
\* the i-th action.
ActBytes(a) == ActSize + Len(a.ealist) * EatSize
ActAt(list, i) ==
  LET offset[k \in 1..i] ==
        IF k = 1 THEN HdSize ELSE offset[k - 1] + ActBytes(list[k - 1])
  IN offset[i]
TotalBytes(list) == ActAt(list, Len(list) + 1)

\* getStateInfo(): the header and, item by item, the lists behind it.
PackedShort(list) ==
  LET at == [i \in 1..Len(list) |-> ActAt(list, i)] IN
  [size |-> TotalBytes(list) % SizeValues,
   act_num |-> Len(list),
   acts |-> {[at |-> at[i], act |-> list[i].act, eat_num |-> Len(list[i].ealist) - 1]
               : i \in DOMAIN list},
   eats |-> UNION {{[at |-> at[i] + ActSize + (j - 1) * EatSize, eat |-> list[i].ealist[j]]
                      : j \in DOMAIN list[i].ealist} : i \in DOMAIN list}]
Packed(list) ==
  LET at == [i \in 1..Len(list) |-> ActAt(list, i)] IN
  [size |-> TotalBytes(list) % SizeValues,
   act_num |-> Len(list),
   acts |-> {[at |-> at[i], act |-> list[i].act, eat_num |-> Len(list[i].ealist)]
               : i \in DOMAIN list},
   eats |-> UNION {{[at |-> at[i] + ActSize + (j - 1) * EatSize, eat |-> list[i].ealist[j]]
                      : j \in DOMAIN list[i].ealist} : i \in DOMAIN list}]

\* A storage keeps as many bytes as the field size says.  Of a size that wrapped to
\* less than the header takes, what is left to write underflows as an unsigned long:
\* how much of the bytes a row then gets, if any, is undefined.
Lengths(packed, total) == IF packed.size >= HdSize THEN {packed.size} ELSE 0..total
Kept(packed, length) ==
  [packed EXCEPT !.acts = {a \in @ : a.at + ActSize <= length},
                 !.eats = {e \in @ : e.at + EatSize <= length}]

ActsAt(o) == {a \in info.acts : a.at = o}
EatsAt(o) == {e \in info.eats : e.at = o}

--------------------------------------------------------------------------------
\* What is read of an action and of an environment action where the cursor is: the
\* item that is there.  Nothing checks that there is one; behind the bytes that were
\* kept it may be anything, and something else the next time.
ActsRead == IF ActsAt(atp) = {} THEN Acts ELSE {a.act : a \in ActsAt(atp)}
EatNums == IF ActsAt(atp) = {} THEN GarbageNums ELSE {a.eat_num : a \in ActsAt(atp)}
EatsRead == IF EatsAt(returned) = {} THEN Eats ELSE {e.eat : e \in EatsAt(returned)}
ReadsAct == outside' = (outside \/ ActsAt(atp) = {})

--------------------------------------------------------------------------------
\* The constructor: the first environment action is expected behind an item of
\* the wrong size.
InfoInit ==
  /\ actlist \in Lists
  /\ LET packed == Packed(actlist) IN
     info \in {packed} \cup {Kept(packed, n) : n \in Lengths(packed, TotalBytes(actlist))}
  /\ atp = HdSize /\ act_index = 0
  /\ eap = HdSize + EatSize /\ eat_index = 0
  /\ returned = NULL
  /\ client \in Clients /\ pc = "first_act"
  /\ mac = NULL /\ built = <<>>
  /\ outside = FALSE

firstAct ==
  /\ UNCHANGED outside
  /\ IF info.act_num = 0 THEN returned' = NULL /\ UNCHANGED cursor
     ELSE /\ atp' = HdSize /\ act_index' = 0
          /\ eap' = HdSize + ActSize /\ eat_index' = 0
          /\ returned' = HdSize

\* The cursor moves to the next action, if there is one.
nextActSameEat ==
  /\ act_index' = act_index + 1
  /\ IF act_index + 1 >= info.act_num
     THEN returned' = NULL /\ UNCHANGED <<atp, eap, eat_index, outside>>
     ELSE /\ \E n \in EatNums : atp' = atp + ActSize + n * EatSize
          /\ returned' = atp' /\ UNCHANGED <<eap, eat_index>> /\ ReadsAct
nextAct ==
  /\ act_index' = act_index + 1
  /\ IF act_index + 1 >= info.act_num
     THEN returned' = NULL /\ UNCHANGED <<atp, eap, eat_index, outside>>
     ELSE /\ \E n \in EatNums : atp' = atp + ActSize + n * EatSize
          /\ eap' = atp' + ActSize /\ eat_index' = 0
          /\ returned' = atp' /\ ReadsAct

firstEat ==
  /\ ReadsAct
  /\ \E n \in EatNums :
       IF n = 0 THEN returned' = NULL /\ UNCHANGED cursor
       ELSE /\ eap' = atp + ActSize /\ eat_index' = 0
            /\ returned' = eap' /\ UNCHANGED <<atp, act_index>>

\* The index is counted up whether or not the cursor moves.
nextEatLate ==
  /\ ReadsAct
  /\ eat_index' = eat_index + 1 /\ UNCHANGED <<atp, act_index>>
  /\ \E n \in EatNums : IF eat_index + 1 > n THEN returned' = NULL /\ UNCHANGED eap
                        ELSE eap' = eap + EatSize /\ returned' = eap'
nextEat ==
  /\ ReadsAct
  /\ eat_index' = eat_index + 1 /\ UNCHANGED <<atp, act_index>>
  /\ \E n \in EatNums : IF eat_index + 1 >= n THEN returned' = NULL /\ UNCHANGED eap
                        ELSE eap' = eap + EatSize /\ returned' = eap'

--------------------------------------------------------------------------------
\* buildStateFromHeader(): a structure for every action, a link for every one of
\* its environment actions.
BuildAct ==
  /\ client = "build" /\ pc \in {"first_act", "next_act"}
  /\ IF pc = "first_act" THEN firstAct ELSE nextAct
  /\ pc' = IF returned' = NULL THEN "done" ELSE "new_act"
  /\ UNCHANGED <<actlist, info, client, mac, built>>

BuildNewAct ==
  /\ client = "build" /\ pc = "new_act"
  /\ mac' \in ActsRead /\ ReadsAct
  /\ pc' = "first_eat"
  /\ UNCHANGED <<actlist, info, cursor, returned, client, built>>

BuildEat ==
  /\ client = "build" /\ pc \in {"first_eat", "next_eat"}
  /\ IF pc = "first_eat" THEN firstEat ELSE nextEat
  /\ pc' = IF returned' = NULL THEN "next_act" ELSE "new_eat"
  /\ UNCHANGED <<actlist, info, client, mac, built>>

BuildLink ==
  /\ client = "build" /\ pc = "new_eat"
  /\ \E eat \in EatsRead : built' = Append(built, <<mac, eat>>)
  /\ outside' = (outside \/ EatsAt(returned) = {})
  /\ pc' = "next_eat"
  /\ UNCHANGED <<actlist, info, cursor, returned, client, mac>>

\* Another reader looks for an action first, then calls as it likes: move2Act()
\* and move2Eat() are such calls in a row.  The bound: it counts an index up at
\* most once beyond the end.
AnyCall ==
  /\ client = "any"
  /\ \/ firstAct /\ pc' = IF returned' = NULL THEN pc ELSE "has_act"
     \/ pc = "has_act" /\ act_index < info.act_num /\ nextAct /\ UNCHANGED pc
     \/ pc = "has_act" /\ firstEat /\ UNCHANGED pc
     \/ pc = "has_act" /\ (\E n \in EatNums : eat_index <= n) /\ nextEat /\ UNCHANGED pc
  /\ UNCHANGED <<actlist, info, client, mac, built>>

InfoNext == BuildAct \/ BuildNewAct \/ BuildEat \/ BuildLink \/ AnyCall

InfoSpec == InfoInit /\ [][InfoNext]_infoVars

--------------------------------------------------------------------------------
\* The links of the list, in order.
LinksOf(list) ==
  FlattenSeq([i \in DOMAIN list |->
    [j \in DOMAIN list[i].ealist |-> <<list[i].act, list[i].ealist[j]>>]])

\* The information is whole: it did not go through a storage, or its size could
\* be said in the field.
Whole == info = Packed(actlist) \/ TotalBytes(actlist) < SizeValues

\* "atp should point to some act header", and nothing is ever read that is not
\* there, as long as the information is whole.
ReadsInside == Whole => ~ outside /\ (info.act_num > 0 => ActsAt(atp) # {})

\* Who has read a state to its end has read that state, link by link, from the agent
\* or out of a storage, as long as the information is whole.  Of what lost its tail
\* this holds only if every item read was still there: nothing notices the others,
\* and what is built of them is a state that was never there.
Rebuilt == pc = "done" /\ (Whole \/ ~ outside) => built = LinksOf(actlist)

\* "atp should point to some act header" (StateInfoParser.cpp:75), whenever
\* buildStateFromHeader() takes it for one.
AtSomeHeader ==
  pc \in {"new_act", "first_eat", "next_eat", "next_act"} => ActsAt(atp) # {}

\* In whatever order the cursor is moved, an environment action it returns is
\* one of the action it is on, the one with that index.
EatOfAct ==
  Whole /\ pc = "has_act" /\ returned # NULL /\ returned # atp =>
    /\ returned = eap /\ (\A n \in EatNums : eat_index < n)
    /\ \E i \in DOMAIN actlist :
         /\ atp = ActAt(actlist, i)
         /\ \A e \in EatsAt(returned) : e.eat = actlist[i].ealist[eat_index + 1]
         /\ EatsAt(returned) # {}
================================================================================
