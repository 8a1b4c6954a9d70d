------------------------------- MODULE StateList -------------------------------
(***************************************************************************)
(* The double linked list of the states of a CSOSAgent, pointer by pointer: *)
(* newState() puts a structure in front, _deleteState() takes one out,      *)
(* freeMemory() frees them all.  Two walks go along it while the program    *)
(* adds and deletes states: the iterator firstState()/nextState(), whose    *)
(* current_st_index outlives the calls, and the loop of                     *)
(* dumpMemoryToStorage(), which follows mst->next after it has called the   *)
(* program's progress callback.                                             *)
(*                                                                         *)
(* As in AgentMemory a pointer is the value of the state it leads to; every *)
(* pointer that is left to a freed structure becomes Dangling.              *)
(***************************************************************************)
EXTENDS Integers

CONSTANTS
  State,           \* the values perceived
  NULL, Dangling,  \* no structure, and one that has been freed
  Walker,          \* who walks: "iterator", "dump"
  MaxBirths        \* bound on the structures ever made

ASSUME PointersAssumption == {NULL, Dangling} \cap State = {} /\ NULL # Dangling
ASSUME BirthsAssumption == MaxBirths \in Nat

VARIABLES
  mem,             \* the structures there are (states_map)
  head, next, prev,\* the list
  cursor,          \* where a walk stands: current_st_index, mst of the dump
  seen,            \* the states a walk has returned since it began
  began, steady,   \* the states there were when it began, and those of them
                   \* that were not deleted since
  born, births,    \* the number of each structure in order of creation
  dying, doomed,   \* whether freeMemory() has begun, and its pointer
  slipped,         \* whether a state was deleted that a walk stood at
  fault            \* whether a freed structure was read

list == <<mem, head, next, prev>>
walks == <<cursor, seen, began, steady>>
ages == <<born, births>>
fates == <<dying, doomed, slipped, fault>>
vars == <<list, walks, ages, fates>>

Pointer == State \cup {NULL, Dangling}

--------------------------------------------------------------------------------
(* As elsewhere, a definition may stand next to a variant with one plausible  *)
(* slip, which no specification uses.                                         *)

Init ==
  /\ mem = {} /\ head = NULL
  /\ next = [s \in State |-> NULL] /\ prev = [s \in State |-> NULL]
  /\ cursor = [w \in Walker |-> NULL]
  /\ seen = [w \in Walker |-> {}]
  /\ began = [w \in Walker |-> {}] /\ steady = [w \in Walker |-> {}]
  /\ born = [s \in State |-> 0] /\ births = 0
  /\ dying = FALSE /\ doomed = NULL
  /\ slipped = FALSE /\ fault = FALSE

Alive == ~ fault /\ ~ dying

\* newState(): in front of the head; every caller has searched for the state.
newStateUnsearched(s) ==
  /\ Alive /\ births < MaxBirths
  /\ mem' = mem \cup {s}
  /\ next' = [next EXCEPT ![s] = head]
  /\ prev' = [t \in State |-> IF t = s THEN NULL ELSE IF t = head THEN s ELSE prev[t]]
  /\ head' = s
  /\ births' = births + 1 /\ born' = [born EXCEPT ![s] = births + 1]
  /\ UNCHANGED <<walks, fates>>
newState(s) ==
  /\ Alive /\ s \notin mem /\ births < MaxBirths
  /\ mem' = mem \cup {s}
  /\ next' = [next EXCEPT ![s] = head]
  /\ prev' = [t \in State |-> IF t = s THEN NULL ELSE IF t = head THEN s ELSE prev[t]]
  /\ head' = s
  /\ births' = births + 1 /\ born' = [born EXCEPT ![s] = births + 1]
  /\ UNCHANGED <<walks, fates>>

\* What a pointer holds once the structure of s is freed.
Freed(s, p) == IF p = s THEN Dangling ELSE p

\* _deleteState(): the neighbours are linked to each other, the head moves on,
\* the structure is freed.
RelinkedForward(s) == [t \in State |-> IF t = prev[s] THEN next[s] ELSE next[t]]
RelinkedBackButHead(s) ==
  [t \in State |-> IF t = next[s] /\ prev[s] # NULL THEN prev[s] ELSE prev[t]]
RelinkedBack(s) == [t \in State |-> IF t = next[s] THEN prev[s] ELSE prev[t]]
deleteState(s) ==
  /\ Alive /\ s \in mem
  /\ mem' = mem \ {s}
  /\ head' = Freed(s, IF head = s THEN next[s] ELSE head)
  /\ next' = [t \in State |-> Freed(s, RelinkedForward(s)[t])]
  /\ prev' = [t \in State |-> Freed(s, RelinkedBack(s)[t])]
  /\ cursor' = [w \in Walker |-> Freed(s, cursor[w])]
  /\ steady' = [w \in Walker |-> steady[w] \ {s}]
  /\ slipped' = (slipped \/ \E w \in Walker : cursor[w] = s)
  /\ UNCHANGED <<seen, began, ages, dying, doomed, fault>>

--------------------------------------------------------------------------------
Returned(w, p) == IF p \in State THEN seen[w] \cup {p} ELSE seen[w]

\* firstState(), or the beginning of the loop of a dump.
FirstKeepsPlace(w) ==
  /\ Alive
  /\ cursor' = [cursor EXCEPT ![w] = IF cursor[w] \in State THEN @ ELSE head]
  /\ seen' = [seen EXCEPT ![w] = {cursor'[w]} \cap State]
  /\ began' = [began EXCEPT ![w] = mem] /\ steady' = [steady EXCEPT ![w] = mem]
  /\ UNCHANGED <<list, ages, fates>>
First(w) ==
  /\ Alive
  /\ cursor' = [cursor EXCEPT ![w] = head]
  /\ seen' = [seen EXCEPT ![w] = {head} \cap State]
  /\ began' = [began EXCEPT ![w] = mem] /\ steady' = [steady EXCEPT ![w] = mem]
  /\ UNCHANGED <<list, ages, fates>>

\* nextState(), or the next turn of the loop.  Past the end it stays there.
Next(w) ==
  /\ Alive /\ cursor[w] \in State
  /\ cursor' = [cursor EXCEPT ![w] = next[cursor[w]]]
  /\ seen' = [seen EXCEPT ![w] = Returned(w, next[cursor[w]])]
  /\ UNCHANGED <<list, began, steady, ages, fates>>

\* The state the walk stood at was deleted: its next pointer is read all the same.
NextThroughFreed(w) ==
  /\ Alive /\ cursor[w] = Dangling
  /\ fault' = TRUE
  /\ UNCHANGED <<list, walks, ages, dying, doomed, slipped>>

\* ~CSOSAgent(), freeMemory(): from the head, the next pointer of a structure
\* being read before it is freed.
FreeMemory ==
  /\ Alive
  /\ dying' = TRUE /\ doomed' = head
  /\ UNCHANGED <<list, walks, ages, slipped, fault>>

freeStateFirst ==
  /\ dying /\ doomed \in mem
  /\ mem' = mem \ {doomed}
  /\ next' = [t \in State |-> IF t = doomed THEN Dangling ELSE Freed(doomed, next[t])]
  /\ prev' = [t \in State |-> Freed(doomed, prev[t])]
  /\ head' = Freed(doomed, head)
  /\ doomed' = next'[doomed]
  /\ UNCHANGED <<walks, ages, dying, slipped, fault>>
freeState ==
  /\ dying /\ doomed \in mem
  /\ mem' = mem \ {doomed}
  /\ next' = [t \in State |-> Freed(doomed, next[t])]
  /\ prev' = [t \in State |-> Freed(doomed, prev[t])]
  /\ head' = Freed(doomed, head)
  /\ doomed' = next[doomed]
  /\ UNCHANGED <<walks, ages, dying, slipped, fault>>

ListNext ==
  \/ \E s \in State : newState(s)
  \/ \E s \in State : deleteState(s)
  \/ \E w \in Walker : First(w)
  \/ \E w \in Walker : Next(w)
  \/ \E w \in Walker : NextThroughFreed(w)
  \/ FreeMemory
  \/ freeState

ListSpec == Init /\ [][ListNext]_vars

--------------------------------------------------------------------------------
\* Every variable holds a value the program can give it.
TypeOK ==
  /\ mem \subseteq State
  /\ head \in Pointer
  /\ next \in [State -> Pointer] /\ prev \in [State -> Pointer]
  /\ cursor \in [Walker -> Pointer]
  /\ seen \in [Walker -> SUBSET State]
  /\ began \in [Walker -> SUBSET State] /\ steady \in [Walker -> SUBSET State]
  /\ born \in [State -> Nat] /\ births \in Nat
  /\ dying \in BOOLEAN /\ doomed \in Pointer
  /\ slipped \in BOOLEAN /\ fault \in BOOLEAN

\* The structure p comes right after the structures younger than b, or right
\* before those older than b.
NextOlder(b, p) ==
  IF p = NULL THEN \A t \in mem : born[t] >= b
  ELSE /\ p \in mem /\ born[p] < b
       /\ \A t \in mem : born[t] >= b \/ born[t] <= born[p]
NextYounger(b, p) ==
  IF p = NULL THEN \A t \in mem : born[t] <= b
  ELSE /\ p \in mem /\ born[p] > b
       /\ \A t \in mem : born[t] <= b \/ born[t] >= born[p]

\* After any sequence of newState() and _deleteState() the list holds exactly
\* the structures of states_map, newest first, and can be walked both ways.
NewestFirst ==
  ~ dying =>
    /\ NextOlder(births + 1, head)
    /\ \A s \in mem : NextOlder(born[s], next[s]) /\ NextYounger(born[s], prev[s])

\* Whatever is added and deleted during a walk by firstState() and nextState(),
\* or during a dump, the walk returns only states that were there when it began
\* and, once at its end, every one of them that was not deleted meanwhile.  It
\* reads a freed structure only if the program deleted the very state it stood
\* at: current_st_index, or mst of a dump, is not moved on.
WalkExact ==
  /\ \A w \in Walker :
       /\ seen[w] \subseteq began[w]
       /\ cursor[w] = NULL => steady[w] \subseteq seen[w]
  /\ fault => slipped

\* nextState() never returns a state the walk has returned before.
NoStateTwice ==
  [][\A w \in Walker : Next(w) => next[cursor[w]] \notin seen[w]]_vars

\* freeMemory() frees every structure, although it reads the list as it goes.
AllFreed == dying /\ doomed \notin mem => mem = {}
================================================================================
