---------------------------- MODULE StateListProofs ----------------------------
(***************************************************************************)
(* The properties of StateList for any number of states, structures and    *)
(* walks.  The order of creation is what makes them provable without       *)
(* induction along the list: a pointer leads to the next older structure,  *)
(* and a walk has yet to see exactly the structures older than the one it  *)
(* stands at.                                                              *)
(***************************************************************************)
EXTENDS StateList, TLAPS

\* Structures are numbered apart, up to births.
Numbered ==
  /\ \A s \in mem : born[s] >= 1 /\ born[s] <= births
  /\ \A s, t \in mem : born[s] = born[t] => s = t

\* What is ahead of a walk was there when it began and is not yet seen; of what
\* is behind, everything steady is.
WalkInv(w) ==
  /\ seen[w] \subseteq began[w] /\ steady[w] \subseteq mem
  /\ cursor[w] = NULL => steady[w] \subseteq seen[w]
  /\ cursor[w] = Dangling => slipped
  /\ cursor[w] \in State =>
       /\ cursor[w] \in mem
       /\ \A t \in mem : born[t] < born[cursor[w]] => t \in began[w] \ seen[w]
       /\ \A t \in steady[w] : born[t] >= born[cursor[w]] => t \in seen[w]

\* While memory is freed the youngest structure left is the next to go.
DyingInv ==
  dying => /\ NextOlder(births + 1, doomed)
           /\ \A s \in mem : NextOlder(born[s], next[s])

ListInv ==
  /\ TypeOK /\ Numbered /\ NewestFirst /\ DyingInv
  /\ ~ dying => \A w \in Walker : WalkInv(w)
  /\ dying => \A w \in Walker : seen[w] \subseteq began[w] /\ (cursor[w] = NULL => steady[w] \subseteq seen[w])
  /\ fault => slipped

--------------------------------------------------------------------------------
\* The empty list has it.
LEMMA ListInvInit == Init => ListInv
<1> SUFFICES ASSUME Init PROVE ListInv
  OBVIOUS
<1>1. TypeOK BY DEF Init, TypeOK, Pointer
<1>2. Numbered /\ NewestFirst /\ DyingInv BY DEF Init, Numbered, NewestFirst, DyingInv, NextOlder
<1>3. \A w \in Walker : WalkInv(w)
  BY PointersAssumption DEF Init, WalkInv
<1>4. QED BY <1>1, <1>2, <1>3 DEF ListInv, Init

\* A new structure in front: the list stays in order, nothing gets ahead of a walk.
LEMMA NewStateKeeps ==
  ASSUME ListInv, NEW s \in State, newState(s)
  PROVE  ListInv'
<1> USE DEF ListInv
<1>1. /\ ~ dying /\ ~ dying' /\ s \notin mem
      /\ mem' = mem \cup {s} /\ births' = births + 1 /\ births \in Nat
      /\ born' = [born EXCEPT ![s] = births + 1] /\ born \in [State -> Nat]
      /\ mem \subseteq State
  BY DEF newState, Alive, fates, TypeOK
<1>2. born'[s] = births + 1 /\ \A t \in mem : born'[t] = born[t]
  BY <1>1
<1>3. TypeOK'
  BY DEF TypeOK, newState, fates, walks, Pointer
<1>4. Numbered'
  BY <1>1, <1>2 DEF Numbered
<1>5. NewestFirst'
  <2>1. NextOlder(births + 1, head) /\ \A t \in mem : NextOlder(born[t], next[t]) /\ NextYounger(born[t], prev[t])
    BY <1>1 DEF NewestFirst
  <2>2. head' = s /\ next'[s] = head /\ prev'[s] = NULL
    BY <1>1 DEF newState, TypeOK
  <2>3. \A t \in mem : next'[t] = next[t] /\ prev'[t] = IF t = head THEN s ELSE prev[t]
    BY <1>1 DEF newState, TypeOK
  <2>4. \A t \in mem : born[t] \in Nat /\ born[t] <= births
    BY <1>1 DEF Numbered
  <2>5. NextOlder(births + 1, head)'
    BY <1>1, <1>2, <2>2, <2>4, PointersAssumption DEF NextOlder
  <2>6. NextOlder(born[s], next[s])' /\ NextYounger(born[s], prev[s])'
    BY <1>1, <1>2, <2>1, <2>2, <2>4 DEF NextOlder, NextYounger
  <2>7. ASSUME NEW t \in mem PROVE NextOlder(born[t], next[t])'
    BY <1>1, <1>2, <2>1, <2>3, <2>4 DEF NextOlder
  <2>8. ASSUME NEW t \in mem PROVE NextYounger(born[t], prev[t])'
    <3>1. CASE t = head
      BY <3>1, <1>1, <1>2, <2>1, <2>3, <2>4, PointersAssumption DEF NextOlder, NextYounger
    <3>2. CASE t # head
      <4>1. prev[t] # NULL
        BY <3>2, <1>1, <2>1, <2>4, PointersAssumption DEF NextOlder, NextYounger, Numbered
      <4>2. QED BY <4>1, <3>2, <1>1, <1>2, <2>1, <2>3, <2>4 DEF NextYounger
    <3>3. QED BY <3>1, <3>2
  <2>9. QED BY <1>1, <2>5, <2>6, <2>7, <2>8 DEF NewestFirst
<1>6. DyingInv' BY <1>1 DEF DyingInv
<1>7. ASSUME NEW w \in Walker PROVE WalkInv(w)'
  <2>1. WalkInv(w) BY <1>1
  <2>2. UNCHANGED <<cursor, seen, began, steady, slipped>> BY DEF newState, walks, fates
  <2>3. \A t \in mem : born[t] \in Nat /\ born[t] <= births
    BY <1>1 DEF Numbered
  <2>4. QED BY <1>1, <1>2, <2>1, <2>2, <2>3 DEF WalkInv
<1>8. fault' = fault /\ slipped' = slipped BY DEF newState, fates
<1>9. QED BY <1>1, <1>3, <1>4, <1>5, <1>6, <1>7, <1>8

\* A structure taken out: its neighbours become neighbours, and no pointer of
\* the list is left to it.
LEMMA DeleteStateKeeps ==
  ASSUME ListInv, NEW s \in State, deleteState(s)
  PROVE  ListInv'
<1> USE DEF ListInv
<1>1. /\ ~ dying /\ ~ dying' /\ s \in mem /\ mem' = mem \ {s}
      /\ UNCHANGED <<born, births, fault>>
      /\ mem \subseteq State /\ born \in [State -> Nat] /\ births \in Nat
  BY DEF deleteState, Alive, ages, TypeOK
<1>2. Numbered /\ Numbered'
  BY <1>1 DEF Numbered
<1>3. /\ NextOlder(births + 1, head)
      /\ \A t \in mem : NextOlder(born[t], next[t]) /\ NextYounger(born[t], prev[t])
  BY <1>1 DEF NewestFirst
<1>4. \A t, u \in mem : next[t] = u <=> prev[u] = t
  <2>1. ASSUME NEW t \in mem, NEW u \in mem, next[t] = u PROVE prev[u] = t
    <3>1. u # NULL /\ t # NULL BY <1>1, PointersAssumption
    <3>2. /\ born[u] < born[t] /\ \A v \in mem : born[v] >= born[t] \/ born[v] <= born[u]
      BY <1>3, <2>1, <3>1 DEF NextOlder
    <3>3. prev[u] # NULL BY <1>1, <1>3, <3>2 DEF NextYounger
    <3>4. /\ prev[u] \in mem /\ born[prev[u]] > born[u]
          /\ \A v \in mem : born[v] <= born[u] \/ born[v] >= born[prev[u]]
      BY <1>3, <3>3 DEF NextYounger
    <3>5. born[prev[u]] = born[t] BY <1>1, <3>2, <3>4
    <3>6. QED BY <1>2, <3>4, <3>5 DEF Numbered
  <2>2. ASSUME NEW t \in mem, NEW u \in mem, prev[u] = t PROVE next[t] = u
    <3>1. u # NULL /\ t # NULL BY <1>1, PointersAssumption
    <3>2. /\ born[t] > born[u] /\ \A v \in mem : born[v] <= born[u] \/ born[v] >= born[t]
      BY <1>3, <2>2, <3>1 DEF NextYounger
    <3>3. next[t] # NULL BY <1>1, <1>3, <3>2 DEF NextOlder
    <3>4. /\ next[t] \in mem /\ born[next[t]] < born[t]
          /\ \A v \in mem : born[v] >= born[t] \/ born[v] <= born[next[t]]
      BY <1>3, <3>3 DEF NextOlder
    <3>5. born[next[t]] = born[u] BY <1>1, <3>2, <3>4
    <3>6. QED BY <1>2, <3>4, <3>5 DEF Numbered
  <2>3. QED BY <2>1, <2>2
<1>5. /\ next[s] # s /\ prev[s] # s /\ next[s] # Dangling /\ prev[s] # Dangling
  <2>1. Dangling \notin mem /\ NULL \notin mem /\ NULL # Dangling BY <1>1, PointersAssumption
  <2>2. QED BY <1>1, <1>3, <2>1 DEF NextOlder, NextYounger
<1>6. TypeOK'
  <2>1. head' \in Pointer /\ next' \in [State -> Pointer] /\ prev' \in [State -> Pointer]
    BY DEF TypeOK, deleteState, Freed, RelinkedForward, RelinkedBack, Pointer
  <2>2. cursor' \in [Walker -> Pointer] /\ steady' \in [Walker -> SUBSET State]
    BY DEF TypeOK, deleteState, Freed, Pointer
  <2>3. QED BY <2>1, <2>2 DEF TypeOK, deleteState, ages
<1>7. head' = IF head = s THEN next[s] ELSE head
  BY <1>5 DEF deleteState, Freed
<1>8. \A t \in mem' : next'[t] = IF t = prev[s] THEN next[s] ELSE next[t]
  <2>1. ASSUME NEW t \in mem' PROVE next'[t] = Freed(s, IF t = prev[s] THEN next[s] ELSE next[t])
    BY <1>1 DEF deleteState, RelinkedForward
  <2>2. QED BY <2>1, <1>1, <1>4, <1>5 DEF Freed
<1>9. \A t \in mem' : prev'[t] = IF t = next[s] THEN prev[s] ELSE prev[t]
  <2>1. ASSUME NEW t \in mem' PROVE prev'[t] = Freed(s, IF t = next[s] THEN prev[s] ELSE prev[t])
    BY <1>1 DEF deleteState, RelinkedBack
  <2>2. QED BY <2>1, <1>1, <1>4, <1>5 DEF Freed
<1>10. \A t \in mem : t # s => born[t] # born[s]
  BY <1>1, <1>2 DEF Numbered
<1>11. NewestFirst'
  <2>1. NextOlder(births + 1, head)'
    <3>1. head # NULL /\ s # NULL BY <1>1, <1>2, <1>3, PointersAssumption DEF NextOlder, Numbered
    <3>2. CASE head = s
      BY <3>1, <3>2, <1>1, <1>2, <1>3, <1>7, <1>10 DEF NextOlder, Numbered
    <3>3. CASE head # s
      BY <3>1, <3>3, <1>1, <1>2, <1>3, <1>7 DEF NextOlder
    <3>4. QED BY <3>2, <3>3
  <2>2. ASSUME NEW t \in mem' PROVE NextOlder(born[t], next[t])'
    <3>1. CASE t = prev[s]
      <4>1. t # NULL BY <1>1, PointersAssumption
      <4>2. QED BY <3>1, <4>1, <1>1, <1>3, <1>8, <1>10 DEF NextOlder, NextYounger
    <3>2. CASE t # prev[s]
      <4>1. next[t] # s BY <3>2, <1>1, <1>4
      <4>2. QED BY <3>2, <4>1, <1>1, <1>3, <1>8 DEF NextOlder
    <3>3. QED BY <3>1, <3>2
  <2>3. ASSUME NEW t \in mem' PROVE NextYounger(born[t], prev[t])'
    <3>1. CASE t = next[s]
      <4>1. t # NULL BY <1>1, PointersAssumption
      <4>2. QED BY <3>1, <4>1, <1>1, <1>3, <1>9, <1>10 DEF NextOlder, NextYounger
    <3>2. CASE t # next[s]
      <4>1. prev[t] # s BY <3>2, <1>1, <1>4
      <4>2. QED BY <3>2, <4>1, <1>1, <1>3, <1>9 DEF NextYounger
    <3>3. QED BY <3>1, <3>2
  <2>4. QED BY <2>1, <2>2, <2>3 DEF NewestFirst
<1>12. DyingInv' BY <1>1 DEF DyingInv
<1>13. ASSUME NEW w \in Walker PROVE WalkInv(w)'
  <2>1. WalkInv(w) BY <1>1
  <2>2. /\ cursor'[w] = Freed(s, cursor[w]) /\ steady'[w] = steady[w] \ {s}
        /\ UNCHANGED <<seen, began>>
        /\ slipped' = (slipped \/ \E v \in Walker : cursor[v] = s)
    BY DEF deleteState
  <2>3. CASE cursor[w] = s
    BY <2>1, <2>2, <2>3, <1>1, PointersAssumption DEF WalkInv, Freed
  <2>4. CASE cursor[w] # s
    BY <2>1, <2>2, <2>4, <1>1 DEF WalkInv, Freed
  <2>5. QED BY <2>3, <2>4
<1>14. fault' => slipped' BY DEF deleteState
<1>15. QED BY <1>1, <1>2, <1>6, <1>11, <1>12, <1>13, <1>14

\* A walk that begins has everything ahead of it; one that goes on has seen the
\* state it goes to, and nothing lies in between.
LEMMA WalkKeeps ==
  ASSUME ListInv, NEW v \in Walker, First(v) \/ Next(v)
  PROVE  ListInv'
<1> USE DEF ListInv
<1>1. /\ ~ dying /\ UNCHANGED <<list, ages, fates>>
  BY DEF First, Next, Alive
<1>2. /\ ~ dying' /\ Numbered' /\ NewestFirst' /\ DyingInv' /\ (fault' => slipped')
  BY <1>1 DEF Numbered, NewestFirst, DyingInv, NextOlder, NextYounger, list, ages, fates
<1>3. /\ mem \subseteq State /\ born \in [State -> Nat] /\ births \in Nat
      /\ cursor \in [Walker -> Pointer] /\ seen \in [Walker -> SUBSET State]
      /\ began \in [Walker -> SUBSET State] /\ steady \in [Walker -> SUBSET State]
      /\ head \in Pointer /\ next \in [State -> Pointer]
  BY DEF TypeOK
<1>4. /\ NextOlder(births + 1, head)
      /\ \A t \in mem : NextOlder(born[t], next[t])
      /\ Dangling \notin mem /\ NULL \notin mem /\ NULL # Dangling
  BY <1>1, <1>3, PointersAssumption DEF NewestFirst
<1>5. TypeOK'
  <2>1. /\ cursor' \in [Walker -> Pointer] /\ seen' \in [Walker -> SUBSET State]
        /\ began' \in [Walker -> SUBSET State] /\ steady' \in [Walker -> SUBSET State]
    BY <1>3 DEF First, Next, Returned, Pointer
  <2>2. QED BY <2>1, <1>1 DEF TypeOK, list, ages, fates
<1>6. UNCHANGED <<mem, head, next, born, births, slipped>> BY <1>1 DEF list, ages, fates
<1>7. WalkInv(v)'
  <2>1. CASE First(v)
    <3>1. /\ cursor'[v] = head /\ seen'[v] = {head} \cap State
          /\ began'[v] = mem /\ steady'[v] = mem
      BY <2>1, <1>3 DEF First
    <3>2. CASE head = NULL
      <4>1. mem = {} BY <3>2, <1>4, <1>3, <1>1 DEF NextOlder, Numbered
      <4>2. QED BY <3>1, <3>2, <4>1, <1>6, PointersAssumption DEF WalkInv
    <3>3. CASE head # NULL
      <4>1. /\ head \in mem
            /\ \A t \in mem : born[t] >= births + 1 \/ born[t] <= born[head]
        BY <3>3, <1>4 DEF NextOlder
      <4>2. \A t \in mem : born[t] <= born[head] /\ (born[t] = born[head] => t = head)
        BY <4>1, <1>3 DEF Numbered
      <4>3. QED BY <3>1, <4>1, <4>2, <1>3, <1>4, <1>6 DEF WalkInv
    <3>4. QED BY <3>2, <3>3
  <2>2. CASE Next(v)
    <3> DEFINE c == cursor[v]
    <3>1. /\ c \in State /\ cursor'[v] = next[c] /\ seen'[v] = Returned(v, next[c])
          /\ began'[v] = began[v] /\ steady'[v] = steady[v]
      BY <2>2, <1>3 DEF Next
    <3>2. WalkInv(v) BY <1>1
    <3>3. c \in mem /\ NextOlder(born[c], next[c]) BY <3>1, <3>2, <1>4 DEF WalkInv
    <3> HIDE DEF c
    <3>4. /\ seen[v] \subseteq began[v] /\ steady[v] \subseteq mem
          /\ \A t \in mem : born[t] < born[c] => t \in began[v] \ seen[v]
          /\ \A t \in steady[v] : born[t] >= born[c] => t \in seen[v]
      BY <3>1, <3>2 DEF WalkInv, c
    <3>5. CASE next[c] = NULL
      <4>1. \A t \in mem : born[t] >= born[c] BY <3>3, <3>5 DEF NextOlder
      <4>2. NULL \notin State BY PointersAssumption
      <4>3. QED BY <3>1, <3>4, <3>5, <4>1, <4>2, <1>4, <1>6 DEF WalkInv, Returned
    <3>6. CASE next[c] # NULL
      <4> DEFINE n == next[c]
      <4>1. /\ n \in mem /\ born[n] < born[c]
            /\ \A t \in mem : born[t] >= born[c] \/ born[t] <= born[n]
        BY <3>3, <3>6 DEF NextOlder
      <4>2. seen'[v] = seen[v] \cup {n} BY <4>1, <3>1, <1>3 DEF Returned
      <4> HIDE DEF n
      <4>3. \A t \in mem : born[t] = born[n] => t = n BY <4>1 DEF Numbered
      <4>4. \A t \in mem : born[t] < born[n] => t \in began[v] \ (seen[v] \cup {n})
        BY <4>1, <3>3, <3>4, <1>3
      <4>5. \A t \in steady[v] : born[t] >= born[n] => t \in seen[v] \cup {n}
        BY <4>1, <4>3, <3>3, <3>4, <1>3
      <4>6. cursor'[v] = n /\ n # NULL /\ n # Dangling BY <3>1, <4>1, <1>4 DEF n
      <4>7. seen[v] \cup {n} \subseteq began[v] BY <4>1, <3>3, <3>4
      <4>8. QED BY <3>1, <3>4, <4>1, <4>2, <4>4, <4>5, <4>6, <4>7, <1>6 DEF WalkInv
    <3>7. QED BY <3>5, <3>6
  <2>3. QED BY <2>1, <2>2
<1>8. ASSUME NEW w \in Walker, w # v PROVE WalkInv(w)'
  <2>1. WalkInv(w) BY <1>1
  <2>2. /\ cursor'[w] = cursor[w] /\ seen'[w] = seen[w]
        /\ began'[w] = began[w] /\ steady'[w] = steady[w]
    BY <1>3, <1>8 DEF First, Next
  <2>3. QED BY <2>1, <2>2, <1>6 DEF WalkInv
<1>9. QED BY <1>2, <1>5, <1>7, <1>8

\* freeMemory() takes the youngest structure each time.
LEMMA FreeKeeps ==
  ASSUME ListInv, NextOlder(births + 1, doomed), dying, freeState
  PROVE  ListInv'
<1> USE DEF ListInv
<1>1. /\ dying' /\ doomed \in mem /\ mem' = mem \ {doomed} /\ doomed' = next[doomed]
      /\ UNCHANGED <<walks, born, births, slipped, fault>>
      /\ mem \subseteq State /\ born \in [State -> Nat] /\ births \in Nat
      /\ next \in [State -> Pointer]
      /\ \A t \in mem : next'[t] = Freed(doomed, next[t])
  BY DEF freeState, ages, TypeOK
<1>2. TypeOK'
  BY <1>1 DEF TypeOK, freeState, Freed, Pointer, walks, ages
<1>3. Numbered /\ Numbered' BY <1>1 DEF Numbered
<1>4. /\ \A t \in mem : NextOlder(born[t], next[t])
      /\ \A t \in mem : born[t] <= born[doomed] /\ (t # doomed => born[t] # born[doomed])
  <2>1. \A t \in mem : NextOlder(born[t], next[t]) BY DEF DyingInv
  <2>2. doomed # NULL BY <1>1, PointersAssumption
  <2>3. QED BY <1>1, <1>3, <2>1, <2>2 DEF NextOlder, Numbered
<1>5. ASSUME NEW t \in mem' PROVE NextOlder(born[t], next[t])'
  <2>1. next[t] # doomed BY <1>1, <1>4, PointersAssumption DEF NextOlder
  <2>2. next'[t] = next[t] BY <2>1, <1>1 DEF Freed
  <2>3. QED BY <1>1, <1>4, <2>1, <2>2 DEF NextOlder
<1>6. NextOlder(births + 1, doomed)'
  BY <1>1, <1>3, <1>4, PointersAssumption DEF NextOlder, Numbered
<1>7. DyingInv' BY <1>5, <1>6 DEF DyingInv
<1>8. NewestFirst' BY <1>1 DEF NewestFirst
<1>9. QED BY <1>1, <1>2, <1>3, <1>7, <1>8 DEF walks

\* Every step keeps it.
LEMMA ListInvNext == ListInv /\ [ListNext]_vars => ListInv'
<1> SUFFICES ASSUME ListInv, [ListNext]_vars PROVE ListInv'
  OBVIOUS
<1>1. ASSUME NEW s \in State, newState(s) PROVE ListInv'
  BY <1>1, NewStateKeeps
<1>2. ASSUME NEW s \in State, deleteState(s) PROVE ListInv'
  BY <1>2, DeleteStateKeeps
<1>3. ASSUME NEW w \in Walker, First(w) \/ Next(w) PROVE ListInv'
  BY <1>3, WalkKeeps
<1>4. ASSUME NEW w \in Walker, NextThroughFreed(w) PROVE ListInv'
  <2>1. ~ dying /\ slipped /\ cursor[w] = Dangling /\ Dangling \notin State
    BY <1>4, PointersAssumption DEF NextThroughFreed, Alive, ListInv, WalkInv
  <2>2. UNCHANGED <<list, walks, ages, dying, doomed, slipped>> /\ fault'
    BY <1>4 DEF NextThroughFreed
  <2>3. TypeOK' BY <2>2 DEF ListInv, TypeOK, list, walks, ages
  <2>4. Numbered' /\ NewestFirst' /\ DyingInv' /\ \A v \in Walker : WalkInv(v)'
    BY <2>1, <2>2 DEF ListInv, Numbered, NewestFirst, DyingInv, NextOlder, NextYounger, WalkInv, list, walks, ages
  <2>5. QED BY <2>1, <2>2, <2>3, <2>4 DEF ListInv
<1>5. ASSUME FreeMemory PROVE ListInv'
  <2>1. /\ ~ dying /\ dying' /\ doomed' = head /\ UNCHANGED <<list, walks, ages, slipped, fault>>
    BY <1>5 DEF FreeMemory, Alive
  <2>2. TypeOK' BY <2>1 DEF ListInv, TypeOK, list, walks, ages
  <2>3. DyingInv'
    BY <2>1 DEF ListInv, NewestFirst, DyingInv, NextOlder, list, ages
  <2>4. Numbered' /\ NewestFirst' BY <2>1 DEF ListInv, Numbered, NewestFirst, list, ages
  <2>5. QED BY <2>1, <2>2, <2>3, <2>4 DEF ListInv, WalkInv, walks
<1>6. ASSUME freeState PROVE ListInv'
  <2>1. dying BY <1>6 DEF freeState
  <2>2. NextOlder(births + 1, doomed) BY <2>1 DEF ListInv, DyingInv
  <2>3. QED BY <1>6, <2>1, <2>2, FreeKeeps
<1>7. ASSUME UNCHANGED vars PROVE ListInv'
  BY <1>7 DEF ListInv, TypeOK, Numbered, NewestFirst, DyingInv, NextOlder, NextYounger, WalkInv,
              vars, list, walks, ages, fates
<1>8. QED BY <1>1, <1>2, <1>3, <1>4, <1>5, <1>6, <1>7 DEF ListNext

\* So it always holds.
LEMMA ListInvAlways == ListSpec => []ListInv
<1>1. QED BY ListInvInit, ListInvNext, PTL DEF ListSpec

--------------------------------------------------------------------------------
\* For any values and any number of walks: the types of the list and its walks.
THEOREM ListTypeCorrect == ListSpec => []TypeOK
<1>1. ListInv => TypeOK BY DEF ListInv
<1>2. QED BY <1>1, ListInvAlways, PTL

\* The list is the structures of states_map, newest first, both ways.
THEOREM ListIsNewestFirst == ListSpec => []NewestFirst
<1>1. ListInv => NewestFirst BY DEF ListInv
<1>2. QED BY <1>1, ListInvAlways, PTL

\* A walk returns exactly the states that were there all the time, and of the
\* others only ones that were there when it began; only a program that deletes
\* the state it stands at makes it read a freed one.
THEOREM WalkIsExact == ListSpec => []WalkExact
<1>1. ListInv => WalkExact BY DEF ListInv, WalkInv, WalkExact
<1>2. QED BY <1>1, ListInvAlways, PTL

\* nextState() never returns a state twice.
THEOREM WalkNeverRepeats == ListSpec => NoStateTwice
<1>1. ListInv /\ [ListNext]_vars => [\A w \in Walker : Next(w) => next[cursor[w]] \notin seen[w]]_vars
  <2> SUFFICES ASSUME ListInv, NEW w \in Walker, Next(w) PROVE next[cursor[w]] \notin seen[w]
    OBVIOUS
  <2>1. ~ dying /\ cursor[w] \in State /\ WalkInv(w) BY DEF Next, Alive, ListInv
  <2>2. cursor[w] \in mem /\ NextOlder(born[cursor[w]], next[cursor[w]])
    BY <2>1 DEF WalkInv, ListInv, NewestFirst
  <2>3. NULL \notin seen[w] BY PointersAssumption DEF ListInv, TypeOK
  <2>4. QED BY <2>1, <2>2, <2>3 DEF WalkInv, NextOlder
<1>2. QED BY <1>1, ListInvAlways, PTL DEF ListSpec, NoStateTwice

\* The destructor leaves no structure behind.
THEOREM EverythingFreed == ListSpec => []AllFreed
<1>1. ListInv => AllFreed
  BY DEF ListInv, DyingInv, NextOlder, Numbered, AllFreed, TypeOK
<1>2. QED BY <1>1, ListInvAlways, PTL

================================================================================
