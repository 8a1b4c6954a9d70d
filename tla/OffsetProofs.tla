----------------------------- MODULE OffsetProofs -----------------------------
(***************************************************************************)
(* Two lists of items of unlike length that are laid end to end and read   *)
(* by an offset: the fragments of an OSpace, by the index of an output,    *)
(* and the items of a state information, by the byte.                      *)
(*                                                                         *)
(* The list of outputs is what was added to it, and the choice of          *)
(* bestActions() is right, for integers of any width and any outputs,      *)
(* ranges and payoffs, as long as there are fewer outputs and fragments    *)
(* than the sizes can say.                                                 *)
(*                                                                         *)
(* A state that is read is the state that was written, and a cursor reads  *)
(* nothing but what is there, for any lists, sizes of items and width of   *)
(* the field size.                                                         *)
(***************************************************************************)
EXTENDS OutputSpace, StateInformation, SumTheorems, SequenceTheorems

USE WidthAssumption

\* As many outputs as a fragment stands for.
Length(f) == Abs(f[2] - f[1]) \div Abs(f[3]) + 1

\* What is asked of the sizes: an ossize_t can count the outputs, also those of
\* a single range, which may be all there are of this width;
OutputsFit ==
  /\ MaxOutputs \in Nat /\ MaxOutputs < 2 * Half
  /\ \A r \in Ranges : Length(r) < 2 * Half

\* and the capacity for the fragments, of which expand() allocates up to twice as
\* many and some spare ones.
FragmentsFit == MaxFrags \in Nat /\ 2 * MaxFrags + SPARE_CAPACITY <= 2 * Half

\* The fragments that are added.
Frag == {f \in Output \X Output \X (Int \ {0}) :
           quotient(f[2] - f[1], f[3]) >= 0 /\ Length(f) < 2 * Half}

--------------------------------------------------------------------------------
(* Fragments.                                                                 *)

\* A number that fits is stored as it is.
LEMMA Stores ==
  /\ \A n \in 0..2 * Half - 1 : ossize(n) = n
  /\ \A n \in Output : output(n) = n
<1> DEFINE W == 2 * Half
<1>1. W \in Nat \ {0} OBVIOUS
<1>2. \A n \in 0..W - 1 : (n % W) = n
  <2> HIDE DEF W
  <2>1. QED BY <1>1
<1>3. \A n \in Output : n + Half \in 0..W - 1 BY DEF Output
<1>4. \A n \in Output : ((n + Half) % W) = n + Half BY <1>2, <1>3
<1>5. \A n \in Output : n \in Int /\ Half \in Int BY DEF Output
<1>6. QED BY <1>2, <1>4, <1>5 DEF ossize, output

\* What is divided is at least the result times what it is divided by.
LEMMA DivisionRoundsDown ==
  ASSUME NEW m \in Nat, NEW n \in Nat \ {0}, NEW k \in 0..(m \div n)
  PROVE  m \div n \in Nat /\ n * k \in Nat /\ n * k <= m
<1>1. m \div n \in Nat /\ n * (m \div n) <= m OBVIOUS
<1>2. n * k \in Nat /\ n * k <= n * (m \div n) BY <1>1
<1>3. QED BY <1>1, <1>2

\* The steps of a range stay between its start and its end.
LEMMA StepsStayInside ==
  ASSUME NEW a \in Output, NEW b \in Output, NEW n \in Int \ {0}, quotient(b - a, n) >= 0,
         NEW k \in 0..(Abs(b - a) \div Abs(n))
  PROVE  /\ quotient(b - a, n) = Abs(b - a) \div Abs(n)
         /\ quotient(b - a, n) \in Nat
         /\ a + n * k \in Output
<1> DEFINE m == b - a
           q == Abs(m) \div Abs(n)
<1>1. m \in Int /\ Abs(m) \in Nat /\ Abs(n) \in Nat \ {0} BY DEF Abs, Output
<1>2. q \in Nat /\ Abs(n) * k \in Nat /\ Abs(n) * k <= Abs(m)
  <2>1. k \in 0..(Abs(m) \div Abs(n)) OBVIOUS
  <2> HIDE DEF m
  <2>2. QED BY <1>1, <2>1, DivisionRoundsDown
<1>3. k \in Nat BY <1>2
<1>4. quotient(m, n) = IF m >= 0 <=> n > 0 THEN q ELSE - q BY DEF quotient
<1>5. quotient(m, n) = q /\ ((m >= 0 <=> n > 0) \/ q = 0)
  <2> HIDE DEF m, q
  <2>1. quotient(m, n) >= 0 BY DEF m
  <2>2. QED BY <1>2, <1>4, <2>1
<1>6. a + n * k \in Output
  <2>1. CASE q = 0
    <3>1. k = 0 BY <2>1
    <3>2. n * k = 0 BY <3>1
    <3>3. QED BY <3>2 DEF Output
  <2>2. CASE m >= 0 /\ n > 0
    <3>1. Abs(n) = n /\ Abs(m) = m BY <1>1, <2>2 DEF Abs
    <3>2. n * k \in Nat /\ n * k <= b - a BY <1>2, <3>1
    <3>3. QED BY <3>2 DEF Output
  <2>3. CASE ~ (m >= 0) /\ ~ (n > 0)
    <3>1. Abs(n) = - n /\ Abs(m) = a - b BY <1>1, <2>3 DEF Abs, Output
    <3>2. (- n) * k \in Nat /\ (- n) * k <= a - b BY <1>2, <3>1
    <3>3. (- n) * k = - (n * k) /\ n * k \in Int BY <1>3
    <3>4. QED BY <3>2, <3>3 DEF Output
  <2>4. QED BY <1>5, <2>1, <2>2, <2>3
<1>7. QED BY <1>2, <1>5, <1>6

\* A fragment holds as many outputs as operator[] counts, and these.
LEMMA FragmentHolds ==
  ASSUME NEW f \in Frag
  PROVE  /\ OutNum(f) = Length(f) /\ Length(f) \in Nat \ {0}
         /\ quotient(f[2] - f[1], f[3]) + 1 = Length(f)
         /\ Progression(f) \in Seq(Output) /\ Len(Progression(f)) = Length(f)
         /\ \A k \in 1..Length(f) :
              Progression(f)[k] = f[1] + f[3] * (k - 1) /\ Progression(f)[k] \in Output
<1> DEFINE q == Abs(f[2] - f[1]) \div Abs(f[3])
<1>1. f[1] \in Output /\ f[2] \in Output /\ f[3] \in Int \ {0}
      /\ quotient(f[2] - f[1], f[3]) >= 0 /\ Length(f) < 2 * Half
  BY DEF Frag
<1>2. q \in Nat
  <2>1. Abs(f[2] - f[1]) \in Nat /\ Abs(f[3]) \in Nat \ {0} BY <1>1 DEF Abs, Output
  <2>2. QED BY <2>1
<1>3. /\ quotient(f[2] - f[1], f[3]) = q
      /\ \A k \in 0..q : f[1] + f[3] * k \in Output
  BY <1>1, <1>2, StepsStayInside
<1>4. Length(f) = q + 1 BY DEF Length
<1> HIDE DEF q
<1>5. OutNum(f) = Length(f)
  <2>1. q + 1 \in 0..2 * Half - 1 BY <1>1, <1>2, <1>4
  <2>2. QED BY <1>3, <1>4, <2>1, Stores DEF OutNum
<1>6. Progression(f) = [k \in 1..Length(f) |-> f[1] + f[3] * (k - 1)]
  BY DEF Progression, Length
<1>7. \A k \in 1..Length(f) : f[1] + f[3] * (k - 1) \in Output
  <2> TAKE k \in 1..Length(f)
  <2>1. k - 1 \in 0..q BY <1>2, <1>4
  <2>2. QED BY <1>3, <2>1
<1>8. Progression(f) \in Seq(Output) /\ Len(Progression(f)) = Length(f)
  <2>1. Length(f) \in Nat BY <1>2, <1>4
  <2>2. Progression(f) \in [1..Length(f) -> Output] BY <1>6, <1>7
  <2>3. QED BY <2>1, <2>2, IsASeq, LenProperties
<1>9. QED BY <1>2, <1>3, <1>4, <1>5, <1>6, <1>7, <1>8

--------------------------------------------------------------------------------
(* The recursive functions behind Passed and FlattenSeq.                      *)

AddsUp(frags, n, t) ==
  t = [k \in 1..n |-> IF k = 1 THEN 0 ELSE ossize(t[k - 1] + OutNum(frags[k - 1]))]
Flattens(seqs, n, t) ==
  t = [i \in 1..n |-> IF i = 1 THEN seqs[i] ELSE t[i - 1] \o seqs[i]]

\* There are such functions.
LEMMA AddsUpExists ==
  ASSUME NEW frags, NEW n \in Nat PROVE \E t : AddsUp(frags, n, t)
<1> DEFINE Built == {i \in Nat : \E t : AddsUp(frags, i, t)}
<1>1. 0 \in Built
  <2> DEFINE t == [k \in 1..0 |-> 0]
  <2>1. AddsUp(frags, 0, t) BY DEF AddsUp
  <2> HIDE DEF t
  <2>2. QED BY <2>1
<1>2. ASSUME NEW i \in Nat, i \in Built PROVE i + 1 \in Built
  <2>1. PICK t : AddsUp(frags, i, t) BY <1>2
  <2> DEFINE u == [k \in 1..i + 1 |->
                     IF k = 1 THEN 0 ELSE ossize(t[k - 1] + OutNum(frags[k - 1]))]
  <2>2. \A k \in 1..i : u[k] = t[k] BY <2>1 DEF AddsUp
  <2>3. \A k \in 1..i + 1 : k # 1 => k - 1 \in 1..i OBVIOUS
  <2>4. u = [k \in 1..i + 1 |->
               IF k = 1 THEN 0 ELSE ossize(u[k - 1] + OutNum(frags[k - 1]))]
    <3> DEFINE v == [k \in 1..i + 1 |->
                       IF k = 1 THEN 0 ELSE ossize(u[k - 1] + OutNum(frags[k - 1]))]
    <3>1. \A k \in 1..i + 1 : u[k] = v[k]
      <4> TAKE k \in 1..i + 1
      <4>1. CASE k = 1 BY <4>1
      <4>2. CASE k # 1
        <5>1. u[k - 1] = t[k - 1] BY <2>2, <2>3, <4>2
        <5> HIDE DEF u
        <5>2. v[k] = ossize(t[k - 1] + OutNum(frags[k - 1])) BY <4>2, <5>1
        <5>3. u[k] = ossize(t[k - 1] + OutNum(frags[k - 1])) BY <4>2 DEF u
        <5>4. QED BY <5>2, <5>3
      <4>3. QED BY <4>1, <4>2
    <3>2. u = [k \in 1..i + 1 |-> u[k]] /\ v = [k \in 1..i + 1 |-> v[k]] OBVIOUS
    <3> HIDE DEF u, v
    <3>3. QED BY <3>1, <3>2 DEF v
  <2> HIDE DEF u
  <2>5. AddsUp(frags, i + 1, u) BY <2>4 DEF AddsUp
  <2>6. QED BY <2>5
<1>3. Nat \subseteq Built
  <2> HIDE DEF Built
  <2>1. QED BY <1>1, <1>2, InductionOnNat
<1>4. QED BY <1>3

LEMMA FlattensExists ==
  ASSUME NEW seqs, NEW n \in Nat PROVE \E t : Flattens(seqs, n, t)
<1> DEFINE Built == {i \in Nat : \E t : Flattens(seqs, i, t)}
<1>1. 0 \in Built
  <2> DEFINE t == [k \in 1..0 |-> 0]
  <2>1. Flattens(seqs, 0, t) BY DEF Flattens
  <2> HIDE DEF t
  <2>2. QED BY <2>1
<1>2. ASSUME NEW i \in Nat, i \in Built PROVE i + 1 \in Built
  <2>1. PICK t : Flattens(seqs, i, t) BY <1>2
  <2> DEFINE u == [k \in 1..i + 1 |-> IF k = 1 THEN seqs[k] ELSE t[k - 1] \o seqs[k]]
  <2>2. \A k \in 1..i : u[k] = t[k]
    <3> TAKE k \in 1..i
    <3>1. k \in 1..i + 1 OBVIOUS
    <3>2. t[k] = IF k = 1 THEN seqs[k] ELSE t[k - 1] \o seqs[k] BY <2>1 DEF Flattens
    <3>3. u[k] = IF k = 1 THEN seqs[k] ELSE t[k - 1] \o seqs[k] BY <3>1
    <3>4. QED BY ONLY <3>2, <3>3, Zenon
  <2>3. \A k \in 1..i + 1 : k # 1 => k - 1 \in 1..i OBVIOUS
  <2>4. u = [k \in 1..i + 1 |-> IF k = 1 THEN seqs[k] ELSE u[k - 1] \o seqs[k]]
    <3> DEFINE v == [k \in 1..i + 1 |-> IF k = 1 THEN seqs[k] ELSE u[k - 1] \o seqs[k]]
    <3>1. \A k \in 1..i + 1 : u[k] = v[k]
      <4> TAKE k \in 1..i + 1
      <4>1. CASE k = 1 BY <4>1
      <4>2. CASE k # 1
        <5>1. u[k - 1] = t[k - 1] BY <2>2, <2>3, <4>2
        <5> HIDE DEF u
        <5>2. v[k] = t[k - 1] \o seqs[k] BY <4>2, <5>1
        <5>3. u[k] = t[k - 1] \o seqs[k] BY <4>2 DEF u
        <5>4. QED BY <5>2, <5>3
      <4>3. QED BY <4>1, <4>2
    <3>2. u = [k \in 1..i + 1 |-> u[k]] /\ v = [k \in 1..i + 1 |-> v[k]] OBVIOUS
    <3> HIDE DEF u, v
    <3>3. QED BY <3>1, <3>2 DEF v
  <2> HIDE DEF u
  <2>5. Flattens(seqs, i + 1, u) BY <2>4 DEF Flattens
  <2>6. QED BY <2>5
<1>3. Nat \subseteq Built
  <2> HIDE DEF Built
  <2>1. QED BY <1>1, <1>2, InductionOnNat
<1>4. QED BY <1>3

\* They agree as far as the fragments, or the sequences, are the same.
LEMMA AddsUpAgree ==
  ASSUME NEW frags, NEW more, NEW n \in Nat, NEW m \in Nat, n <= m, NEW t, NEW u,
         AddsUp(frags, n, t), AddsUp(more, m, u), \A k \in 1..n : k < n => frags[k] = more[k]
  PROVE  \A k \in 1..n : t[k] = u[k]
<1> DEFINE Same == {k \in Nat : k \in 1..n => t[k] = u[k]}
<1>1. 0 \in Same OBVIOUS
<1>2. ASSUME NEW k \in Nat, k \in Same PROVE k + 1 \in Same
  <2> SUFFICES ASSUME k + 1 \in 1..n PROVE t[k + 1] = u[k + 1] OBVIOUS
  <2>1. k + 1 \in 1..m /\ (k + 1) - 1 = k BY <1>2
  <2>2. t[k + 1] = IF k + 1 = 1 THEN 0 ELSE ossize(t[k] + OutNum(frags[k])) BY <2>1 DEF AddsUp
  <2>3. u[k + 1] = IF k + 1 = 1 THEN 0 ELSE ossize(u[k] + OutNum(more[k])) BY <2>1 DEF AddsUp
  <2>4. CASE k = 0 BY <2>2, <2>3, <2>4
  <2>5. CASE k # 0
    <3>1. k \in 1..n /\ k < n BY <1>2, <2>5
    <3>2. frags[k] = more[k] /\ t[k] = u[k] BY <1>2, <3>1
    <3>3. QED BY <2>2, <2>3, <3>2
  <2>6. QED BY <2>4, <2>5
<1>3. Nat \subseteq Same
  <2> HIDE DEF Same
  <2>1. QED BY <1>1, <1>2, InductionOnNat
<1>4. QED BY <1>3

LEMMA FlattensAgree ==
  ASSUME NEW seqs, NEW more, NEW n \in Nat, NEW m \in Nat, n <= m, NEW t, NEW u,
         Flattens(seqs, n, t), Flattens(more, m, u), \A k \in 1..n : seqs[k] = more[k]
  PROVE  \A k \in 1..n : t[k] = u[k]
<1> DEFINE Same == {k \in Nat : k \in 1..n => t[k] = u[k]}
<1>1. 0 \in Same OBVIOUS
<1>2. ASSUME NEW k \in Nat, k \in Same PROVE k + 1 \in Same
  <2> SUFFICES ASSUME k + 1 \in 1..n PROVE t[k + 1] = u[k + 1] OBVIOUS
  <2>1. k + 1 \in 1..m /\ (k + 1) - 1 = k BY <1>2
  <2>2. t[k + 1] = IF k + 1 = 1 THEN seqs[k + 1] ELSE t[k] \o seqs[k + 1]
    BY <2>1 DEF Flattens
  <2>3. u[k + 1] = IF k + 1 = 1 THEN more[k + 1] ELSE u[k] \o more[k + 1]
    BY <2>1 DEF Flattens
  <2>4. seqs[k + 1] = more[k + 1] OBVIOUS
  <2>5. CASE k = 0 BY <2>2, <2>3, <2>4, <2>5
  <2>6. CASE k # 0
    <3>1. t[k] = u[k] BY <1>2, <2>6
    <3>2. QED BY <2>2, <2>3, <2>4, <3>1
  <2>7. QED BY <2>5, <2>6
<1>3. Nat \subseteq Same
  <2> HIDE DEF Same
  <2>1. QED BY <1>1, <1>2, InductionOnNat
<1>4. QED BY <1>3

--------------------------------------------------------------------------------
(* What they compute.                                                         *)

\* The value of Passed is that of any function that adds up.
LEMMA PassedIs ==
  ASSUME NEW frags, NEW n \in Nat \ {0}
  PROVE  \E t : AddsUp(frags, n, t) /\ Passed(frags, n) = t[n]
<1>1. Passed(frags, n) = (CHOOSE t : AddsUp(frags, n, t))[n] BY DEF Passed, AddsUp
<1>2. AddsUp(frags, n, CHOOSE t : AddsUp(frags, n, t)) BY AddsUpExists
<1>3. QED BY <1>1, <1>2

\* Nothing has been passed by before the first fragment, and of two lists with
\* the same fragments before the n-th the same.
LEMMA PassedSame ==
  ASSUME NEW frags, NEW more, NEW n \in Nat \ {0}, \A k \in 1..n : k < n => frags[k] = more[k]
  PROVE  Passed(frags, n) = Passed(more, n)
<1>1. PICK t : AddsUp(frags, n, t) /\ Passed(frags, n) = t[n] BY PassedIs
<1>2. PICK u : AddsUp(more, n, u) /\ Passed(more, n) = u[n] BY PassedIs
<1>3. \A k \in 1..n : t[k] = u[k]
  <2>1. n \in Nat /\ n <= n OBVIOUS
  <2>2. QED BY <1>1, <1>2, <2>1, AddsUpAgree
<1>4. QED BY <1>1, <1>2, <1>3

LEMMA PassedFirst == ASSUME NEW frags PROVE Passed(frags, 1) = 0
<1>1. PICK t : AddsUp(frags, 1, t) /\ Passed(frags, 1) = t[1] BY PassedIs
<1>2. QED BY <1>1 DEF AddsUp

\* Each fragment that is passed by adds its outputs.
LEMMA PassedNext ==
  ASSUME NEW frags, NEW n \in Nat \ {0}
  PROVE  Passed(frags, n + 1) = ossize(Passed(frags, n) + OutNum(frags[n]))
<1>1. PICK t : AddsUp(frags, n, t) /\ Passed(frags, n) = t[n] BY PassedIs
<1>2. n + 1 \in Nat \ {0} OBVIOUS
<1>3. PICK u : AddsUp(frags, n + 1, u) /\ Passed(frags, n + 1) = u[n + 1] BY <1>2, PassedIs
<1>4. \A k \in 1..n : t[k] = u[k]
  <2>1. n \in Nat /\ n + 1 \in Nat /\ n <= n + 1 OBVIOUS
  <2>2. QED BY <1>1, <1>3, <2>1, AddsUpAgree
<1>5. t[n] = u[n] BY <1>4
<1>6. u[n + 1] = ossize(u[n] + OutNum(frags[n]))
  <2>1. n + 1 \in 1..n + 1 /\ n + 1 # 1 /\ (n + 1) - 1 = n OBVIOUS
  <2>2. QED BY <1>3, <2>1 DEF AddsUp
<1>7. QED BY <1>1, <1>3, <1>5, <1>6

\* One sequence more is flattened by adding it at the end.
LEMMA FlattenMore ==
  ASSUME NEW seqs, NEW more, NEW n \in Nat, Len(seqs) = n, Len(more) = n + 1,
         \A k \in 1..n : seqs[k] = more[k]
  PROVE  FlattenSeq(more) = IF n = 0 THEN more[1] ELSE FlattenSeq(seqs) \o more[n + 1]
<1> DEFINE t == CHOOSE t : Flattens(seqs, n, t)
           u == CHOOSE u : Flattens(more, n + 1, u)
<1>1. Flattens(seqs, n, t) BY FlattensExists
<1>2. Flattens(more, n + 1, u)
  <2>1. n + 1 \in Nat OBVIOUS
  <2>2. QED BY <2>1, FlattensExists
<1>3. FlattenSeq(more) = u[n + 1]
  <2>1. Len(more) # 0 OBVIOUS
  <2>2. QED BY <2>1 DEF FlattenSeq, Flattens
<1>4. n # 0 => FlattenSeq(seqs) = t[n] BY DEF FlattenSeq, Flattens
<1> HIDE DEF t, u
<1>5. \A k \in 1..n : t[k] = u[k]
  <2>1. n + 1 \in Nat /\ n <= n + 1 OBVIOUS
  <2>2. QED BY <1>1, <1>2, <2>1, FlattensAgree
<1>6. u[n + 1] = IF n + 1 = 1 THEN more[n + 1] ELSE u[n] \o more[n + 1]
  <2>1. n + 1 \in 1..n + 1 /\ (n + 1) - 1 = n OBVIOUS
  <2>2. QED BY <1>2, <2>1 DEF Flattens
<1>7. CASE n = 0 BY <1>3, <1>6, <1>7
<1>8. CASE n # 0
  <2>1. t[n] = u[n] /\ n + 1 # 1 BY <1>5, <1>8
  <2>2. QED BY ONLY <1>3, <1>4, <1>6, <1>8, <2>1, Zenon
<1>9. QED BY <1>7, <1>8

--------------------------------------------------------------------------------
(* The index.                                                                 *)

\* A list of fragments that is read as the outputs offered: they are as many as
\* all fragments hold together, and each is found in a fragment.
Indexed(frags, offered) ==
  /\ frags \in Seq(Frag) /\ offered \in Seq(Output) /\ Len(offered) < 2 * Half
  /\ Passed(frags, Len(frags) + 1) = Len(offered)
  /\ \A i \in 1..Len(frags) :
       Passed(frags, i) \in Nat /\ Passed(frags, i) + OutNum(frags[i]) <= Len(offered)
  /\ \A index \in 0..Len(offered) - 1 :
       Reaching(frags, index) # {} /\ at(frags, index) = offered[index + 1]

\* The least of some numbers.
LEMMA MinIs ==
  ASSUME NEW S \in SUBSET Nat, NEW n \in S, \A m \in S : n <= m PROVE Min(S) = n
<1>1. Min(S) \in S /\ \A m \in S : Min(S) <= m BY DEF Min
<1>2. Min(S) <= n /\ n <= Min(S) /\ Min(S) \in Nat /\ n \in Nat BY <1>1
<1>3. QED BY <1>2
LEMMA MinOf ==
  ASSUME NEW S \in SUBSET Nat, S # {} PROVE Min(S) \in S /\ \A m \in S : Min(S) <= m
<1>1. \E n \in S : \A m \in S : n <= m BY LeastNat
<1>2. QED BY <1>1 DEF Min

\* Beyond the last output nothing is found.
LEMMA BeyondTheLast ==
  ASSUME NEW frags, NEW offered, Indexed(frags, offered), NEW index \in Nat,
         index >= Len(offered)
  PROVE  Reaching(frags, index) = {} /\ at(frags, index) = INVALID_OUTPUT
<1>1. DOMAIN frags = 1..Len(frags) /\ Len(offered) \in Nat BY LenProperties DEF Indexed
<1>2. ASSUME NEW i \in 1..Len(frags) PROVE ~ (Passed(frags, i) + OutNum(frags[i]) > index)
  <2>1. frags[i] \in Frag BY LenProperties DEF Indexed
  <2>2. OutNum(frags[i]) \in Nat BY <2>1, FragmentHolds
  <2>3. Passed(frags, i) \in Nat /\ Passed(frags, i) + OutNum(frags[i]) <= Len(offered)
    BY DEF Indexed
  <2>4. QED BY <1>1, <2>2, <2>3
<1>3. Reaching(frags, index) = {} BY <1>1, <1>2 DEF Reaching
<1>4. QED BY <1>3 DEF at

\* An empty list offers nothing.
LEMMA EmptyIsIndexed == Indexed(<<>>, <<>>)
<1>1. <<>> \in Seq(Frag) /\ <<>> \in Seq(Output) /\ Len(<<>>) = 0 BY EmptySeq
<1>2. Passed(<<>>, 1) = 0 BY PassedFirst
<1>3. QED BY <1>1, <1>2 DEF Indexed

\* A fragment that is added offers its outputs behind the others.
LEMMA AppendIsIndexed ==
  ASSUME NEW frags, NEW offered, NEW f \in Frag,
         Indexed(frags, offered), Len(offered) + Length(f) < 2 * Half
  PROVE  Indexed(Append(frags, f), offered \o Progression(f))
<1> DEFINE more == Append(frags, f)
           all == offered \o Progression(f)
           n == Len(frags)
           total == Len(offered)
<1>1. /\ frags \in Seq(Frag) /\ offered \in Seq(Output) /\ n \in Nat /\ total \in Nat
      /\ Passed(frags, n + 1) = total
      /\ \A i \in 1..n : Passed(frags, i) \in Nat /\ Passed(frags, i) + OutNum(frags[i]) <= total
      /\ \A index \in 0..total - 1 :
           Reaching(frags, index) # {} /\ at(frags, index) = offered[index + 1]
  BY LenProperties DEF Indexed
<1>2. /\ OutNum(f) = Length(f) /\ Length(f) \in Nat \ {0}
      /\ Progression(f) \in Seq(Output) /\ Len(Progression(f)) = Length(f)
      /\ \A k \in 1..Length(f) :
           Progression(f)[k] = f[1] + f[3] * (k - 1) /\ Progression(f)[k] \in Output
  BY FragmentHolds
<1>3. /\ more \in Seq(Frag) /\ Len(more) = n + 1
      /\ more[n + 1] = f /\ \A i \in 1..n : more[i] = frags[i]
  BY <1>1, AppendProperties
<1>4. /\ all \in Seq(Output) /\ Len(all) = total + Length(f)
      /\ \A i \in 1..total + Length(f) :
           all[i] = IF i <= total THEN offered[i] ELSE Progression(f)[i - total]
  BY <1>1, <1>2, ConcatProperties, LenProperties
<1>5. DOMAIN more = 1..n + 1 /\ DOMAIN frags = 1..n BY <1>1, <1>3, LenProperties
<1> HIDE DEF more, all, n, total
<1>6. \A i \in 1..n + 1 : Passed(more, i) = Passed(frags, i)
  <2> TAKE i \in 1..n + 1
  <2>1. i \in Nat \ {0} /\ \A k \in 1..i : k < i => more[k] = frags[k] BY <1>1, <1>3
  <2>2. QED BY ONLY <2>1, PassedSame, Zenon
<1>7. Passed(more, n + 1) = total BY <1>1, <1>6
<1>8. Passed(more, (n + 1) + 1) = total + Length(f)
  <2>1. n + 1 \in Nat \ {0} BY <1>1
  <2>2. Passed(more, (n + 1) + 1) = ossize(total + Length(f))
    BY <1>2, <1>3, <1>7, <2>1, PassedNext
  <2>3. total + Length(f) \in 0..2 * Half - 1 BY <1>1, <1>2 DEF total
  <2>4. QED BY <2>2, <2>3, Stores
<1>9. \A i \in 1..n + 1 :
        Passed(more, i) \in Nat /\ Passed(more, i) + OutNum(more[i]) <= total + Length(f)
  <2> TAKE i \in 1..n + 1
  <2>1. CASE i = n + 1 BY <1>1, <1>2, <1>3, <1>7, <2>1
  <2>2. CASE i # n + 1
    <3>0. i \in 1..n BY <1>1, <2>2
    <3>1. i \in 1..n /\ frags[i] \in Frag BY <1>1, <3>0, LenProperties DEF n
    <3>2. OutNum(frags[i]) \in Nat BY <3>1, FragmentHolds
    <3>3. Passed(more, i) = Passed(frags, i) /\ more[i] = frags[i] BY <1>3, <1>6, <3>1
    <3>4. Passed(frags, i) \in Nat /\ Passed(frags, i) + OutNum(frags[i]) <= total
      BY <1>1, <3>1
    <3>5. QED BY <1>1, <1>2, <3>2, <3>3, <3>4
  <2>3. QED BY <2>1, <2>2
<1>10. \A index \in Nat :
         Reaching(more, index) = Reaching(frags, index) \cup
                                   (IF total + Length(f) > index THEN {n + 1} ELSE {})
  <2> TAKE index \in Nat
  <2>1. \A i \in 1..n : i \in 1..n + 1 /\ Passed(more, i) = Passed(frags, i) /\ more[i] = frags[i]
    BY <1>1, <1>3, <1>6
  <2>2. \A i \in 1..n : i \in Reaching(more, index) <=> i \in Reaching(frags, index)
    BY <1>5, <2>1 DEF Reaching
  <2>3. n + 1 \in Reaching(more, index) <=> total + Length(f) > index
    <3>1. n + 1 \in 1..n + 1 BY <1>1
    <3>2. QED BY <1>2, <1>3, <1>5, <1>7, <3>1 DEF Reaching
  <2>4. Reaching(frags, index) \subseteq 1..n /\ Reaching(more, index) \subseteq 1..n + 1
    BY <1>5 DEF Reaching
  <2>5. \A i \in 1..n + 1 : i \in 1..n \/ i = n + 1 BY <1>1
  <2>6. n + 1 \notin 1..n BY <1>1
  <2>7. QED BY <2>2, <2>3, <2>4, <2>5, <2>6
<1>11. \A index \in 0..total + Length(f) - 1 :
         Reaching(more, index) # {} /\ at(more, index) = all[index + 1]
  <2> TAKE index \in 0..total + Length(f) - 1
  <2>0. index \in Nat /\ total + Length(f) > index BY <1>1, <1>2
  <2>1. Reaching(more, index) = Reaching(frags, index) \cup {n + 1} BY <1>10, <2>0
  <2>2. Reaching(frags, index) \subseteq 1..n BY <1>5 DEF Reaching
  <2>3. CASE index < total
    <3>1. Reaching(frags, index) # {} /\ at(frags, index) = offered[index + 1]
      BY <1>1, <2>0, <2>3
    <3> DEFINE i == Min(Reaching(frags, index))
    <3>2. i \in Reaching(frags, index) /\ \A m \in Reaching(frags, index) : i <= m
      <4>1. Reaching(frags, index) \in SUBSET Nat BY <2>2
      <4>2. QED BY <3>1, <4>1, MinOf
    <3>3. i \in 1..n BY <2>2, <3>2
    <3>4. Min(Reaching(more, index)) = i
      <4>1. Reaching(more, index) \in SUBSET Nat BY <1>1, <2>1, <2>2
      <4>2. i \in Reaching(more, index) BY <2>1, <3>2
      <4>3. \A m \in Reaching(more, index) : i <= m BY <1>1, <2>1, <3>2, <3>3
      <4> HIDE DEF i
      <4>4. QED BY <4>1, <4>2, <4>3, MinIs
    <3>5. at(frags, index) = output(frags[i][1] + frags[i][3] * (index - Passed(frags, i)))
      BY <3>1 DEF at
    <3>6. at(more, index) = output(more[i][1] + more[i][3] * (index - Passed(more, i)))
      BY <2>1, <3>4 DEF at
    <3> HIDE DEF i
    <3>7. more[i] = frags[i] /\ Passed(more, i) = Passed(frags, i) BY <1>1, <1>3, <1>6, <3>3
    <3>8. all[index + 1] = offered[index + 1]
      <4>1. index + 1 \in 1..total + Length(f) /\ index + 1 <= total BY <1>1, <1>2, <2>0, <2>3
      <4>2. QED BY <1>4, <4>1
    <3>9. QED BY <2>1, <3>1, <3>5, <3>6, <3>7, <3>8
  <2>4. CASE ~ (index < total)
    <3>1. Reaching(frags, index) = {}
      <4>1. index >= Len(offered) BY <1>1, <2>0, <2>4 DEF total
      <4>2. QED BY <2>0, <4>1, BeyondTheLast
    <3>2. Reaching(more, index) = {n + 1} BY <2>1, <3>1
    <3>3. Min(Reaching(more, index)) = n + 1
      <4>1. {n + 1} \in SUBSET Nat BY <1>1
      <4>2. \A m \in {n + 1} : n + 1 <= m BY <1>1
      <4>3. QED BY <3>2, <4>1, <4>2, MinIs
    <3>4. at(more, index) = output(f[1] + f[3] * (index - total))
      BY <1>3, <1>7, <3>2, <3>3 DEF at
    <3> DEFINE k == (index - total) + 1
    <3>5. k \in 1..Length(f) /\ k - 1 = index - total BY <1>1, <1>2, <2>0, <2>4
    <3>6. Progression(f)[k] = f[1] + f[3] * (index - total) /\ Progression(f)[k] \in Output
      BY <1>2, <3>5
    <3>7. all[index + 1] = Progression(f)[k]
      <4>1. /\ index + 1 \in 1..total + Length(f) /\ ~ (index + 1 <= total)
            /\ (index + 1) - total = k
        BY <1>1, <1>2, <2>0, <2>4
      <4>2. QED BY <1>4, <4>1
    <3> HIDE DEF k
    <3>8. at(more, index) = all[index + 1] BY <3>4, <3>6, <3>7, Stores
    <3>9. QED BY <3>2, <3>8
  <2>5. QED BY <2>3, <2>4
<1>12. total + Length(f) < 2 * Half BY DEF total
<1>13. Indexed(more, all)
  <2>1. more \in Seq(Frag) /\ all \in Seq(Output) /\ Len(all) < 2 * Half
    BY <1>3, <1>4, <1>12
  <2>2. Passed(more, Len(more) + 1) = Len(all) BY <1>3, <1>4, <1>8
  <2>3. \A i \in 1..Len(more) :
          Passed(more, i) \in Nat /\ Passed(more, i) + OutNum(more[i]) <= Len(all)
    BY <1>3, <1>4, <1>9
  <2>4. \A index \in 0..Len(all) - 1 :
          Reaching(more, index) # {} /\ at(more, index) = all[index + 1]
    <3>1. Len(all) = total + Length(f) BY <1>4
    <3> TAKE index \in 0..Len(all) - 1
    <3>2. index \in 0..total + Length(f) - 1 BY <1>1, <1>2, <3>1
    <3>3. QED BY ONLY <1>11, <3>2, Zenon
  <2>5. QED BY ONLY <2>1, <2>2, <2>3, <2>4 DEF Indexed
<1>14. QED BY <1>13 DEF more, all

--------------------------------------------------------------------------------
(* The list of outputs.                                                       *)

\* The fragments are read as the outputs that were added, of which size() is the
\* number.
SpaceInv == Indexed(outputs, Outputs) /\ output_num = Len(Outputs)

\* What is added comes behind what is there.
LEMMA OutputsGrow ==
  ASSUME NEW f \in Frag, outputs \in Seq(Frag), Outputs \in Seq(Output),
         outputs' = Append(outputs, f)
  PROVE  Outputs' = Outputs \o Progression(f)
<1> DEFINE n == Len(outputs)
           seqs == [i \in DOMAIN outputs |-> Progression(outputs[i])]
           more == [i \in DOMAIN outputs' |-> Progression(outputs'[i])]
<1>1. n \in Nat /\ DOMAIN outputs = 1..n BY LenProperties
<1>2. /\ outputs' \in Seq(Frag) /\ Len(outputs') = n + 1
      /\ outputs'[n + 1] = f /\ \A i \in 1..n : outputs'[i] = outputs[i]
  BY AppendProperties
<1>3. DOMAIN outputs' = 1..n + 1 BY <1>2, LenProperties
<1>4. Outputs = FlattenSeq(seqs) /\ Outputs' = FlattenSeq(more) BY DEF Outputs
<1>5. Len(seqs) = n /\ Len(more) = n + 1 BY <1>1, <1>3
<1>6. more[n + 1] = Progression(f) BY <1>1, <1>2, <1>3
<1>7. \A k \in 1..n : seqs[k] = more[k]
  <2> TAKE k \in 1..n
  <2>1. k \in DOMAIN outputs /\ k \in DOMAIN outputs' BY <1>1, <1>3
  <2>2. outputs'[k] = outputs[k] BY <1>2
  <2>3. QED BY <2>1, <2>2
<1>8. Progression(f) \in Seq(Output) BY FragmentHolds
<1> HIDE DEF n, seqs, more
<1>9. FlattenSeq(more) = IF n = 0 THEN more[1] ELSE FlattenSeq(seqs) \o more[n + 1]
  BY <1>1, <1>5, <1>7, FlattenMore
<1>10. CASE n = 0
  <2>1. Outputs = <<>> BY <1>4, <1>5, <1>10 DEF FlattenSeq
  <2>2. Outputs' = Progression(f) BY <1>4, <1>6, <1>9, <1>10
  <2>3. <<>> \o Progression(f) = Progression(f) BY <1>8, ConcatEmptySeq
  <2>4. QED BY <2>1, <2>2, <2>3
<1>11. CASE n # 0 BY ONLY <1>4, <1>6, <1>9, <1>11, Zenon
<1>12. QED BY <1>10, <1>11

\* Nothing is offered of an empty list.
LEMMA NothingOffered ==
  /\ outputs = <<>> => Outputs = <<>>
  /\ outputs' = <<>> => Outputs' = <<>>
<1>1. [i \in DOMAIN (<<>>) |-> Progression((<<>>)[i])] = <<>> OBVIOUS
<1>2. FlattenSeq(<<>>) = <<>> BY DEF FlattenSeq
<1>3. QED BY <1>1, <1>2 DEF Outputs

\* A fragment more, with room for its outputs.
LEMMA SpaceGrows ==
  ASSUME OutputsFit, SpaceInv, NEW f \in Frag, Room(Length(f)),
         outputs' = Append(outputs, f), output_num' = ossize(output_num + Length(f))
  PROVE  SpaceInv'
<1>1. /\ outputs \in Seq(Frag) /\ Outputs \in Seq(Output) /\ Len(Outputs) \in Nat
      /\ Passed(outputs, Len(outputs) + 1) = Len(Outputs)
  BY LenProperties DEF SpaceInv, Indexed
<1>2. Length(f) \in Nat \ {0} /\ Progression(f) \in Seq(Output)
      /\ Len(Progression(f)) = Length(f)
  BY FragmentHolds
<1>3. Len(Outputs) + Length(f) \in 0..2 * Half - 1 BY <1>1, <1>2 DEF Room, OutputsFit
<1>4. Outputs' = Outputs \o Progression(f) BY <1>1, OutputsGrow
<1>5. Indexed(outputs', Outputs')
  <2>1. Len(Outputs) + Length(f) < 2 * Half BY <1>1, <1>2, <1>3
  <2>2. Indexed(Append(outputs, f), Outputs \o Progression(f))
    BY <2>1, AppendIsIndexed DEF SpaceInv
  <2>3. QED BY <1>4, <2>2
<1>6. Len(Outputs') = Len(Outputs) + Length(f) BY <1>1, <1>2, <1>4, ConcatProperties
<1>7. output_num' = Len(Outputs) + Length(f) BY <1>3, Stores DEF SpaceInv
<1>8. QED BY <1>5, <1>6, <1>7 DEF SpaceInv

\* What is added of an avatar's outputs and ranges are fragments.
LEMMA OutputIsFragment ==
  ASSUME NEW out \in Singles PROVE <<out, out, 1>> \in Frag /\ Length(<<out, out, 1>>) = 1
<1>1. out \in Output /\ out - out = 0 BY SinglesAssumption DEF Output
<1>2. Abs(0) = 0 /\ Abs(1) = 1 BY DEF Abs
<1>3. 0 \div 1 = 0 /\ quotient(0, 1) = 0 BY <1>2 DEF quotient
<1>4. Length(<<out, out, 1>>) = 1 BY <1>1, <1>2, <1>3 DEF Length
<1>5. QED BY <1>1, <1>3, <1>4 DEF Frag

LEMMA RangeIsFragment ==
  ASSUME OutputsFit, NEW r \in Ranges, quotient(r[2] - r[1], r[3]) >= 0
  PROVE  <<r[1], r[2], r[3]>> \in Frag
<1>1. r[1] \in Output /\ r[2] \in Output /\ r[3] \in Output \ {0}
  BY RangesAssumption
<1>2. Length(<<r[1], r[2], r[3]>>) = Length(r) BY DEF Length
<1>3. Length(r) < 2 * Half BY DEF OutputsFit
<1>4. QED BY <1>1, <1>2, <1>3 DEF Frag, Output

LEMMA SpaceInit == Init => SpaceInv
<1> SUFFICES ASSUME Init PROVE SpaceInv OBVIOUS
<1>1. outputs = <<>> /\ Outputs = <<>> /\ output_num = 0 BY NothingOffered DEF Init
<1>2. QED BY <1>1, EmptyIsIndexed DEF SpaceInv

LEMMA SpaceStep == ASSUME OutputsFit, SpaceInv, [Next]_vars PROVE SpaceInv'
<1>1. ASSUME NEW out \in Singles, AddOutput(out) PROVE SpaceInv'
  <2>1. <<out, out, 1>> \in Frag /\ Length(<<out, out, 1>>) = 1 BY OutputIsFragment
  <2>2. Room(Length(<<out, out, 1>>)) BY <1>1, <2>1 DEF AddOutput
  <2>3. outputs' = Append(outputs, <<out, out, 1>>)
        /\ output_num' = ossize(output_num + Length(<<out, out, 1>>))
    BY <1>1, <2>1 DEF AddOutput
  <2>4. QED BY <2>1, <2>2, <2>3, SpaceGrows
<1>2. ASSUME NEW r \in Ranges, AddRange(r[1], r[2], r[3]) PROVE SpaceInv'
  <2> DEFINE f == <<r[1], r[2], r[3]>>
  <2>1. f \in Frag
    <3>1. quotient(r[2] - r[1], r[3]) >= 0 BY <1>2 DEF AddRange
    <3>2. QED BY <3>1, RangeIsFragment
  <2>2. OutNum(f) = Length(f) /\ quotient(f[2] - f[1], f[3]) + 1 = Length(f)
    BY <2>1, FragmentHolds
  <2>3. Room(Length(f)) BY <1>2, <2>2 DEF AddRange
  <2>4. outputs' = Append(outputs, f) BY <1>2 DEF AddRange
  <2>5. output_num' = ossize(output_num + Length(f))
    <3>1. output_num' = ossize(output_num + quotient(r[2] - r[1], r[3]) + 1)
      BY <1>2 DEF AddRange
    <3>2. f[1] = r[1] /\ f[2] = r[2] /\ f[3] = r[3] OBVIOUS
    <3> HIDE DEF f
    <3>3. quotient(r[2] - r[1], r[3]) + 1 = Length(f) /\ Length(f) \in Nat
      BY <2>1, <2>2, <3>2, FragmentHolds
    <3>4. quotient(r[2] - r[1], r[3]) \in Int
      <4>1. r[1] \in Int /\ r[2] \in Int /\ r[3] \in Int \ {0}
        BY RangesAssumption DEF Output
      <4>2. Abs(r[2] - r[1]) \in Nat /\ Abs(r[3]) \in Nat \ {0} BY <4>1 DEF Abs
      <4>3. Abs(r[2] - r[1]) \div Abs(r[3]) \in Int BY <4>2
      <4>4. QED BY <4>3 DEF quotient
    <3>5. output_num \in Int BY LenProperties DEF SpaceInv, Indexed
    <3>6. output_num + quotient(r[2] - r[1], r[3]) + 1 = output_num + Length(f)
      BY <3>3, <3>4, <3>5
    <3>7. QED BY <3>1, <3>6
  <2> HIDE DEF f
  <2>6. QED BY <2>1, <2>3, <2>4, <2>5, SpaceGrows
<1>3. ASSUME UNCHANGED <<outputs, output_num>> PROVE SpaceInv'
  <2>1. Outputs' = Outputs BY <1>3 DEF Outputs
  <2>2. Indexed(outputs', Outputs') BY <1>3, <2>1 DEF SpaceInv
  <2>3. output_num' = Len(Outputs') BY <1>3, <2>1 DEF SpaceInv
  <2>4. QED BY <2>2, <2>3 DEF SpaceInv
<1>4. CASE Clear
  <2>1. outputs' = <<>> /\ Outputs' = <<>> /\ output_num' = 0
    BY <1>4, NothingOffered DEF Clear
  <2>2. QED BY <2>1, EmptyIsIndexed DEF SpaceInv
<1>5. QED
  BY <1>1, <1>2, <1>3, <1>4
  DEF Next, RefuseRange, Begin, Weigh, Finish, space, vars

LEMMA AlwaysSpace == ASSUME OutputsFit PROVE Spec => []SpaceInv
<1>1. SpaceInv /\ [Next]_vars => SpaceInv' BY SpaceStep
<1>2. QED BY <1>1, SpaceInit, PTL DEF Spec

\* The index and the size see exactly the outputs that were added to the list,
\* of ascending, descending and single fragments, however wide the integers are:
\* operator[], add() and size() of OSpace.
THEOREM IndexIsExact == ASSUME OutputsFit PROVE Spec => []IndexAgrees
<1>1. SpaceInv => IndexAgrees
  <2> SUFFICES ASSUME SpaceInv PROVE IndexAgrees OBVIOUS
  <2> DEFINE offered == Outputs
  <2>1. /\ Indexed(outputs, offered) /\ offered \in Seq(Output)
        /\ Len(offered) \in Nat /\ Len(offered) < 2 * Half /\ output_num = Len(offered)
        /\ DOMAIN offered = 1..Len(offered)
    BY LenProperties DEF SpaceInv, Indexed
  <2> HIDE DEF offered
  <2>2. \A i \in DOMAIN offered : at(outputs, i - 1) = offered[i]
    <3> TAKE i \in DOMAIN offered
    <3>1. i - 1 \in 0..Len(offered) - 1 /\ (i - 1) + 1 = i BY <2>1
    <3>2. at(outputs, i - 1) = offered[(i - 1) + 1] BY <2>1, <3>1 DEF Indexed
    <3>3. QED BY <3>1, <3>2
  <2>3. \A i \in {Len(offered), 2 * Half - 1} : at(outputs, i) = INVALID_OUTPUT
    <3> TAKE i \in {Len(offered), 2 * Half - 1}
    <3>1. i \in Nat /\ i >= Len(offered) BY <2>1
    <3>2. QED BY <2>1, <3>1, BeyondTheLast
  <2>4. last = IF offered = <<>> THEN INVALID_OUTPUT ELSE offered[Len(offered)]
    <3>1. CASE offered = <<>>
      <4>1. Len(offered) = 0 BY <3>1
      <4>2. ossize(output_num - 1) = 2 * Half - 1
        <5>1. output_num - 1 = -1 BY <2>1, <4>1
        <5>2. ((-1) % (2 * Half)) = 2 * Half - 1 OBVIOUS
        <5>3. QED BY <5>1, <5>2 DEF ossize
      <4>3. QED BY <2>3, <3>1, <4>2 DEF last
    <3>2. CASE offered # <<>>
      <4>1. Len(offered) # 0 BY <2>1, <3>2, EmptySeq
      <4>2. output_num - 1 \in 0..2 * Half - 1 /\ Len(offered) \in DOMAIN offered
        BY <2>1, <4>1
      <4>3. ossize(output_num - 1) = Len(offered) - 1 BY <2>1, <4>2, Stores
      <4>4. QED BY <2>2, <3>2, <4>2, <4>3 DEF last
    <3>3. QED BY <3>1, <3>2
  <2>5. QED BY <2>1, <2>2, <2>3, <2>4 DEF IndexAgrees, offered
<1>2. QED BY <1>1, AlwaysSpace, PTL

--------------------------------------------------------------------------------
(* The array of the fragments.                                                *)

CapacityInv ==
  /\ outputs \in Seq(Output \X Output \X Output \cup {<<out, out, 1>> : out \in Output})
  /\ the_capacity \in Nat /\ Len(outputs) <= the_capacity

\* The array that expand() allocates has place for one fragment more.
LEMMA ExpandHolds ==
  ASSUME FragmentsFit, the_capacity \in Nat, Len(outputs) = the_capacity,
         Len(outputs) < MaxFrags, NEW ncap \in {2 * the_capacity, 2 * the_capacity + 1}
  PROVE  expand(ossize(ncap)) \in Nat /\ the_capacity + 1 <= expand(ossize(ncap))
<1>1. /\ ncap \in 0..2 * Half - 1 /\ ncap + SPARE_CAPACITY \in 0..2 * Half - 1
      /\ the_capacity <= ncap
  BY DEF FragmentsFit, SPARE_CAPACITY
<1>2. ossize(ncap) = ncap /\ ossize(ncap + SPARE_CAPACITY) = ncap + SPARE_CAPACITY
  BY <1>1, Stores
<1>3. expand(ossize(ncap)) = ncap + SPARE_CAPACITY
  <2>1. ~ (ncap < Len(outputs)) BY <1>1
  <2>2. QED BY <1>2, <2>1 DEF expand
<1>4. QED BY <1>1, <1>3 DEF SPARE_CAPACITY

LEMMA CapacityStep == ASSUME FragmentsFit, CapacityInv, [Next]_vars PROVE CapacityInv'
<1> DEFINE F == Output \X Output \X Output \cup {<<out, out, 1>> : out \in Output}
<1>1. outputs \in Seq(F) /\ the_capacity \in Nat /\ Len(outputs) <= the_capacity
      /\ Len(outputs) \in Nat
  BY LenProperties DEF CapacityInv
<1>2. ASSUME NEW f \in F, NEW ncap \in {2 * the_capacity, 2 * the_capacity + 1},
             Len(outputs) < MaxFrags, outputs' = Append(outputs, f),
             the_capacity' = IF Len(outputs) = the_capacity
                             THEN expand(ossize(ncap)) ELSE the_capacity
      PROVE  CapacityInv'
  <2> HIDE DEF F
  <2>1. outputs' \in Seq(F) /\ Len(outputs') = Len(outputs) + 1
    BY <1>1, <1>2, AppendProperties
  <2>2. the_capacity' \in Nat /\ Len(outputs) + 1 <= the_capacity'
    <3>1. CASE Len(outputs) = the_capacity BY <1>1, <1>2, <3>1, ExpandHolds
    <3>2. CASE Len(outputs) # the_capacity BY <1>1, <1>2, <3>2
    <3>3. QED BY <3>1, <3>2
  <2>3. QED BY <2>1, <2>2 DEF CapacityInv, F
<1>3. ASSUME NEW out \in Singles, AddOutput(out) PROVE CapacityInv'
  <2>1. <<out, out, 1>> \in F BY SinglesAssumption
  <2> HIDE DEF F
  <2>2. QED BY <1>2, <1>3, <2>1 DEF AddOutput, Room
<1>4. ASSUME NEW r \in Ranges, AddRange(r[1], r[2], r[3]) PROVE CapacityInv'
  <2>1. <<r[1], r[2], r[3]>> \in F BY RangesAssumption
  <2> HIDE DEF F
  <2>2. QED BY <1>2, <1>4, <2>1 DEF AddRange, Room
<1>5. CASE UNCHANGED space BY <1>5 DEF CapacityInv, space
<1>6. CASE Clear
  <2>1. outputs' = <<>> /\ the_capacity' = the_capacity BY <1>6 DEF Clear
  <2>2. QED BY <1>1, <2>1, EmptySeq DEF CapacityInv
<1>7. QED
  BY <1>3, <1>4, <1>5, <1>6 DEF Next, RefuseRange, Begin, Weigh, Finish, vars

\* The array never holds more fragments than it has place for: expand(), "the new
\* capacity should at least include all current fragments", and its calls in add().
THEOREM CapacityHolds == ASSUME FragmentsFit PROVE Spec => []WithinCapacity
<1>1. Init => CapacityInv
  BY EmptySeq DEF Init, CapacityInv, SPARE_CAPACITY
<1>2. CapacityInv /\ [Next]_vars => CapacityInv' BY CapacityStep
<1>3. CapacityInv => WithinCapacity BY DEF CapacityInv, WithinCapacity
<1>4. QED BY <1>1, <1>2, <1>3, PTL DEF Spec

--------------------------------------------------------------------------------
(* The choice.                                                                *)

\* How often something is among the first of a sequence.
Times(s, n, x) == Cardinality({i \in 1..n : s[i] = x})

\* While the actions are weighed: those before the current one have been, none of
\* which is the invalid output.
Weighing ==
  /\ current_index \in 0..Len(Outputs) /\ act = at(outputs, current_index)
  /\ \A i \in 1..current_index : Outputs[i] # INVALID_OUTPUT

\* max_payoff is the greatest of their payoffs,
GreatestFound ==
  /\ max_payoff \in Nat \cup {Lowest}
  /\ \A i \in 1..current_index : payoffs[Outputs[i]] <= max_payoff
  /\ IF current_index = 0 THEN max_payoff = Lowest
     ELSE \E i \in 1..current_index : payoffs[Outputs[i]] = max_payoff

\* and best_acts holds those that have it, as often as they were offered.
BestFound ==
  /\ best_acts \in Seq(Output)
  /\ \A a \in Output :
       Times(best_acts, Len(best_acts), a) =
         IF payoffs[a] = max_payoff THEN Times(Outputs, current_index, a) ELSE 0

ChoiceInv ==
  /\ SpaceInv
  /\ payoffs \in Payoffs
  /\ phase \in {"walking", "chosen"} => Weighing /\ GreatestFound /\ BestFound
  /\ phase = "chosen" => act = INVALID_OUTPUT

\* Of none, nothing; one more counts if it is the same; none is counted if and only
\* if there is none.
LEMMA TimesNone == ASSUME NEW s, NEW x PROVE Times(s, 0, x) = 0
<1>1. {i \in 1..0 : s[i] = x} = {} OBVIOUS
<1>2. QED BY <1>1, FS_EmptySet DEF Times

LEMMA TimesNext ==
  ASSUME NEW s, NEW n \in Nat, NEW x
  PROVE  /\ Times(s, n, x) \in Nat
         /\ Times(s, n + 1, x) = Times(s, n, x) + (IF s[n + 1] = x THEN 1 ELSE 0)
<1> DEFINE T == {i \in 1..n : s[i] = x}
<1>1. IsFiniteSet(T) /\ Cardinality(T) \in Nat
  <2>1. IsFiniteSet(1..n) /\ T \in SUBSET (1..n) BY FS_Interval
  <2>2. IsFiniteSet(T) BY <2>1, FS_Subset
  <2>3. QED BY <2>2, FS_CardinalityType
<1>2. n + 1 \notin T OBVIOUS
<1>3. \A i \in 1..n + 1 : i \in 1..n \/ i = n + 1 OBVIOUS
<1>4. CASE s[n + 1] = x
  <2>1. {i \in 1..n + 1 : s[i] = x} = T \cup {n + 1} BY <1>3, <1>4
  <2>2. Cardinality(T \cup {n + 1}) = Cardinality(T) + 1 BY <1>1, <1>2, FS_AddElement
  <2>3. QED BY <1>1, <1>4, <2>1, <2>2 DEF Times
<1>5. CASE s[n + 1] # x
  <2>1. {i \in 1..n + 1 : s[i] = x} = T BY <1>3, <1>5
  <2>2. Times(s, n, x) = Cardinality(T) /\ Times(s, n + 1, x) = Cardinality(T)
    BY <2>1 DEF Times
  <2> HIDE DEF T
  <2>3. QED BY <1>1, <1>5, <2>2
<1>6. QED BY <1>4, <1>5

LEMMA TimesOfNone ==
  ASSUME NEW s, NEW n \in Nat, NEW x
  PROVE  Times(s, n, x) = 0 <=> \A i \in 1..n : s[i] # x
<1> DEFINE T == {i \in 1..n : s[i] = x}
<1>1. IsFiniteSet(T)
  <2>1. IsFiniteSet(1..n) /\ T \in SUBSET (1..n) BY FS_Interval
  <2>2. QED BY <2>1, FS_Subset
<1>2. Cardinality(T) = 0 <=> T = {} BY <1>1, FS_EmptySet
<1>3. QED BY <1>2 DEF Times

\* Of the same first elements it is the same.
LEMMA TimesSame ==
  ASSUME NEW s, NEW t, NEW n \in Nat, NEW x, \A i \in 1..n : s[i] = t[i]
  PROVE  Times(s, n, x) = Times(t, n, x)
<1>1. {i \in 1..n : s[i] = x} = {i \in 1..n : t[i] = x} OBVIOUS
<1>2. QED BY <1>1 DEF Times

\* An action that is not the invalid output is one that is offered.
LEMMA ActIsOffered ==
  ASSUME SpaceInv, current_index \in 0..Len(Outputs), act = at(outputs, current_index)
  PROVE  /\ act # INVALID_OUTPUT => current_index < Len(Outputs)
         /\ current_index < Len(Outputs) => act = Outputs[current_index + 1] /\ act \in Output
<1>1. Indexed(outputs, Outputs) /\ Outputs \in Seq(Output) /\ Len(Outputs) \in Nat
  BY LenProperties DEF SpaceInv, Indexed
<1>2. CASE current_index < Len(Outputs)
  <2>1. current_index \in 0..Len(Outputs) - 1 /\ current_index + 1 \in 1..Len(Outputs)
    BY <1>1, <1>2
  <2>2. act = Outputs[current_index + 1] BY <1>1, <2>1 DEF Indexed
  <2>3. Outputs[current_index + 1] \in Output BY <1>1, <2>1, LenProperties
  <2>4. QED BY <1>2, <2>2, <2>3
<1>3. CASE ~ (current_index < Len(Outputs))
  <2>1. current_index \in Nat /\ current_index >= Len(Outputs) BY <1>1, <1>3
  <2>2. QED BY <1>1, <1>3, <2>1, BeyondTheLast
<1>4. QED BY <1>2, <1>3

\* One turn of the loop, for one action: how often it is kept.
LEMMA KeepsBest ==
  ASSUME Outputs \in Seq(Output), current_index \in Nat, payoffs \in [Output -> Nat],
         GreatestFound, BestFound, act \in Output, act = Outputs[current_index + 1],
         NEW b \in Output
  PROVE  /\ payoffs[act] > max_payoff =>
              Times(<<act>>, 1, b) =
                IF payoffs[b] = payoffs[act] THEN Times(Outputs, current_index + 1, b) ELSE 0
         /\ payoffs[act] = max_payoff =>
              Times(Append(best_acts, act), Len(best_acts) + 1, b) =
                IF payoffs[b] = max_payoff THEN Times(Outputs, current_index + 1, b) ELSE 0
         /\ payoffs[act] < max_payoff =>
              Times(best_acts, Len(best_acts), b) =
                IF payoffs[b] = max_payoff THEN Times(Outputs, current_index + 1, b) ELSE 0
<1> DEFINE offered == Outputs
           n == current_index
           pay == payoffs
           m == max_payoff
           best == best_acts
           a == act
<1>0. /\ offered \in Seq(Output) /\ n \in Nat /\ pay \in [Output -> Nat]
      /\ m \in Nat \cup {Lowest} /\ best \in Seq(Output) /\ a \in Output /\ a = offered[n + 1]
      /\ \A i \in 1..n : pay[offered[i]] <= m
      /\ Times(best, Len(best), b) = IF pay[b] = m THEN Times(offered, n, b) ELSE 0
  BY DEF GreatestFound, BestFound
<1> HIDE DEF offered, n, pay, m, best, a
<1>1. /\ m \in Int /\ pay[a] \in Nat /\ pay[b] \in Nat
      /\ Times(offered, n, b) \in Nat
      /\ Times(offered, n + 1, b) = Times(offered, n, b) + (IF a = b THEN 1 ELSE 0)
  <2>1. m \in Int /\ pay[a] \in Nat /\ pay[b] \in Nat BY <1>0 DEF Lowest
  <2>2. /\ Times(offered, n, b) \in Nat
        /\ Times(offered, n + 1, b) = Times(offered, n, b) + (IF offered[n + 1] = b THEN 1 ELSE 0)
    <3>1. n \in Nat BY <1>0
    <3>2. QED BY ONLY <3>1, TimesNext
  <2>3. a = offered[n + 1] BY <1>0
  <2>4. QED BY <2>1, <2>2, <2>3
<1>2. ASSUME pay[a] > m
      PROVE  Times(<<a>>, 1, b) = IF pay[b] = pay[a] THEN Times(offered, n + 1, b) ELSE 0
  <2>1. Times(<<a>>, 1, b) = IF a = b THEN 1 ELSE 0
    <3>1. 0 \in Nat /\ 0 + 1 = 1 /\ (<<a>>)[0 + 1] = a OBVIOUS
    <3>2. Times(<<a>>, 0 + 1, b) = Times(<<a>>, 0, b) + (IF (<<a>>)[0 + 1] = b THEN 1 ELSE 0)
      BY ONLY <3>1, TimesNext
    <3>3. QED BY <3>1, <3>2, TimesNone
  <2>2. CASE pay[b] = pay[a]
    <3>1. \A i \in 1..n : offered[i] # b
      <4> SUFFICES ASSUME NEW i \in 1..n, offered[i] = b PROVE FALSE OBVIOUS
      <4>1. pay[b] <= m BY <1>0
      <4>2. QED BY <1>1, <1>2, <2>2, <4>1
    <3>2. Times(offered, n, b) = 0 BY <1>0, <3>1, TimesOfNone
    <3>3. QED BY <1>1, <2>1, <2>2, <3>2
  <2>3. CASE pay[b] # pay[a] BY <2>1, <2>3
  <2>4. QED BY <2>2, <2>3
<1>3. ASSUME pay[a] = m
      PROVE  Times(Append(best, a), Len(best) + 1, b) =
               IF pay[b] = m THEN Times(offered, n + 1, b) ELSE 0
  <2> DEFINE more == Append(best, a)
             l == Len(best)
  <2>1. l \in Nat /\ more[l + 1] = a /\ \A i \in 1..l : more[i] = best[i]
    BY <1>0, AppendProperties, LenProperties
  <2> HIDE DEF more, l
  <2>2. Times(more, l + 1, b) = Times(more, l, b) + (IF a = b THEN 1 ELSE 0)
    <3>1. Times(more, l + 1, b) = Times(more, l, b) + (IF more[l + 1] = b THEN 1 ELSE 0)
      BY ONLY <2>1, TimesNext
    <3>2. QED BY <2>1, <3>1
  <2>3. Times(more, l, b) = Times(best, l, b) BY <2>1, TimesSame
  <2>4. Times(best, l, b) = IF pay[b] = m THEN Times(offered, n, b) ELSE 0 BY <1>0 DEF l
  <2>5. Times(more, l + 1, b) = IF pay[b] = m THEN Times(offered, n + 1, b) ELSE 0
    BY <1>1, <1>3, <2>2, <2>3, <2>4
  <2>6. QED BY <2>5 DEF more, l
<1>4. ASSUME pay[a] < m
      PROVE  Times(best, Len(best), b) = IF pay[b] = m THEN Times(offered, n + 1, b) ELSE 0
  BY <1>0, <1>1, <1>4
<1>5. QED BY <1>2, <1>3, <1>4 DEF offered, n, pay, m, best, a

\* One turn of the loop keeps what was found before.
LEMMA TurnFinds ==
  ASSUME OutputsFit, ChoiceInv, Weigh
  PROVE  Weighing' /\ GreatestFound' /\ BestFound'
<1> DEFINE n == current_index
<1>1. /\ SpaceInv /\ payoffs \in [Output -> Nat] /\ Weighing /\ GreatestFound /\ BestFound
      /\ act # INVALID_OUTPUT
  BY PayoffsAssumption DEF ChoiceInv, Weigh
<1>2. /\ Outputs \in Seq(Output) /\ Len(Outputs) \in Nat /\ Len(Outputs) < 2 * Half
      /\ n \in Nat /\ n + 1 \in Nat /\ n < Len(Outputs) /\ (n + 1) - 1 = n
      /\ act = Outputs[n + 1] /\ act \in Output
  <2>1. Outputs \in Seq(Output) /\ Len(Outputs) \in Nat /\ Len(Outputs) < 2 * Half
    BY <1>1, LenProperties DEF SpaceInv, Indexed
  <2>2. n < Len(Outputs) /\ act = Outputs[n + 1] /\ act \in Output
    BY <1>1, ActIsOffered DEF Weighing
  <2>3. n \in Nat BY <1>1, <2>1 DEF Weighing
  <2>4. QED BY <2>1, <2>2, <2>3
<1>3. current_index' = n + 1 /\ act' = at(outputs, n + 1)
  <2>1. n + 1 \in 0..2 * Half - 1 BY <1>2
  <2>2. QED BY <2>1, Stores DEF Weigh
<1>4. /\ outputs' = outputs /\ Outputs' = Outputs /\ payoffs' = payoffs
      /\ Len(Outputs') = Len(Outputs)
  BY DEF Weigh, space, Outputs
<1> DEFINE p == payoffs[act]
<1>5. p \in Nat /\ max_payoff \in Int BY <1>1, <1>2 DEF GreatestFound, Lowest
<1>6. \A i \in 1..n + 1 : i \in 1..n \/ i = n + 1 BY <1>2
<1>7. Weighing'
  <2>1. n + 1 \in 0..Len(Outputs) BY <1>2
  <2>2. \A i \in 1..n + 1 : Outputs[i] # INVALID_OUTPUT BY <1>1, <1>2, <1>6 DEF Weighing
  <2>3. QED BY <1>3, <1>4, <2>1, <2>2 DEF Weighing
<1>8. /\ p > max_payoff => best_acts' = <<act>> /\ max_payoff' = p
      /\ p = max_payoff => best_acts' = Append(best_acts, act) /\ max_payoff' = max_payoff
      /\ p < max_payoff => best_acts' = best_acts /\ max_payoff' = max_payoff
  BY <1>5 DEF Weigh, KeepBest
<1>9. p > max_payoff \/ p = max_payoff \/ p < max_payoff BY <1>5
<1>10. GreatestFound'
  <2>1. \A i \in 1..n : i \in 1..n + 1 /\ Outputs[i] \in Output /\ payoffs[Outputs[i]] \in Nat
    <3> TAKE i \in 1..n
    <3>1. i \in 1..n + 1 /\ i \in 1..Len(Outputs) BY <1>2
    <3>2. Outputs[i] \in Output BY <1>2, <3>1, LenProperties
    <3>3. QED BY <1>1, <3>1, <3>2
  <2>2. n + 1 \in 1..n + 1 /\ payoffs[Outputs[n + 1]] = p BY <1>2
  <2>3. \A i \in 1..n : payoffs[Outputs[i]] <= max_payoff BY <1>1 DEF GreatestFound
  <2>4. max_payoff' \in Nat \cup {Lowest} /\ max_payoff' \in Int
        /\ p <= max_payoff' /\ max_payoff <= max_payoff'
    BY <1>1, <1>5, <1>8, <1>9 DEF GreatestFound
  <2>5. \A i \in 1..n + 1 : payoffs[Outputs[i]] <= max_payoff'
    BY <1>5, <1>6, <2>1, <2>2, <2>3, <2>4
  <2>6. \E i \in 1..n + 1 : payoffs[Outputs[i]] = max_payoff'
    <3>1. CASE p >= max_payoff
      <4>1. payoffs[Outputs[n + 1]] = max_payoff' BY <1>5, <1>8, <2>2, <3>1
      <4>2. QED BY <2>2, <4>1
    <3>2. CASE ~ (p >= max_payoff)
      <4>1. n # 0
        <5> SUFFICES ASSUME n = 0 PROVE FALSE OBVIOUS
        <5>1. max_payoff = -1 BY <1>1 DEF GreatestFound, Lowest
        <5>2. QED BY <1>5, <3>2, <5>1
      <4>2. PICK i \in 1..n : payoffs[Outputs[i]] = max_payoff BY <1>1, <4>1 DEF GreatestFound
      <4>3. max_payoff' = max_payoff BY <1>5, <1>8, <3>2
      <4>4. QED BY <2>1, <4>2, <4>3
    <3>3. QED BY <3>1, <3>2
  <2>7. QED BY <1>3, <1>4, <2>4, <2>5, <2>6 DEF GreatestFound
<1>11. BestFound'
  <2>1. /\ best_acts \in Seq(Output) /\ Len(best_acts) \in Nat
        /\ \A b \in Output :
             Times(best_acts, Len(best_acts), b) =
               IF payoffs[b] = max_payoff THEN Times(Outputs, n, b) ELSE 0
        /\ \A i \in 1..n : payoffs[Outputs[i]] <= max_payoff
        /\ max_payoff \in Nat \cup {Lowest}
    BY <1>1, LenProperties DEF BestFound, GreatestFound
  <2> HIDE DEF n, p
  <2>2. ASSUME NEW b \in Output
        PROVE  /\ p > max_payoff =>
                    Times(<<act>>, 1, b) = IF payoffs[b] = p THEN Times(Outputs, n + 1, b) ELSE 0
               /\ p = max_payoff =>
                    Times(Append(best_acts, act), Len(best_acts) + 1, b) =
                      IF payoffs[b] = max_payoff THEN Times(Outputs, n + 1, b) ELSE 0
               /\ p < max_payoff =>
                    Times(best_acts, Len(best_acts), b) =
                      IF payoffs[b] = max_payoff THEN Times(Outputs, n + 1, b) ELSE 0
    BY <1>1, <1>2, KeepsBest DEF n, p
  <2>3. /\ best_acts' \in Seq(Output)
        /\ \A b \in Output :
             Times(best_acts', Len(best_acts'), b) =
               IF payoffs[b] = max_payoff' THEN Times(Outputs, n + 1, b) ELSE 0
    <3>1. CASE p > max_payoff
      <4>1. <<act>> \in Seq(Output) /\ Len(<<act>>) = 1 BY <1>2
      <4>2. best_acts' = <<act>> /\ max_payoff' = p BY <1>8, <3>1
      <4>3. QED BY <2>2, <3>1, <4>1, <4>2
    <3>2. CASE p = max_payoff
      <4>1. Append(best_acts, act) \in Seq(Output)
            /\ Len(Append(best_acts, act)) = Len(best_acts) + 1
        BY <1>2, <2>1, AppendProperties
      <4>2. best_acts' = Append(best_acts, act) /\ max_payoff' = max_payoff BY <1>8, <3>2
      <4>3. QED BY <2>2, <3>2, <4>1, <4>2
    <3>3. CASE p < max_payoff
      <4>1. best_acts' = best_acts /\ max_payoff' = max_payoff BY <1>8, <3>3
      <4>2. QED BY <2>1, <2>2, <3>3, <4>1
    <3>4. QED BY <1>9, <3>1, <3>2, <3>3
  <2>4. QED BY <1>3, <1>4, <2>3 DEF BestFound
<1>12. QED BY <1>7, <1>10, <1>11

\* Before the first turn nothing has been found.
LEMMA BeginFinds ==
  ASSUME SpaceInv, Begin PROVE Weighing' /\ GreatestFound' /\ BestFound'
<1>1. /\ current_index' = 0 /\ act' = at(outputs, 0) /\ max_payoff' = Lowest
      /\ best_acts' = <<>> /\ outputs' = outputs /\ Outputs' = Outputs
  BY DEF Begin, space, Outputs
<1>2. Len(Outputs) \in Nat BY LenProperties DEF SpaceInv, Indexed
<1>3. Weighing' BY <1>1, <1>2 DEF Weighing
<1>4. GreatestFound' BY <1>1 DEF GreatestFound
<1>5. BestFound'
  <2>1. <<>> \in Seq(Output) /\ Len(<<>>) = 0 BY EmptySeq
  <2>2. \A a \in Output : Times(<<>>, 0, a) = 0 /\ Times(Outputs, 0, a) = 0 BY TimesNone
  <2>3. \A a \in Output :
          Times(<<>>, Len(<<>>), a) = IF (payoffs')[a] = max_payoff' THEN Times(Outputs, 0, a) ELSE 0
    BY <2>1, <2>2
  <2>4. QED BY <1>1, <2>1, <2>3 DEF BestFound
<1>6. QED BY <1>3, <1>4, <1>5

LEMMA ChoiceStep == ASSUME OutputsFit, ChoiceInv, [Next]_vars PROVE ChoiceInv'
<1>1. SpaceInv' BY SpaceStep DEF ChoiceInv
<1>2. SpaceInv /\ payoffs \in Payoffs BY DEF ChoiceInv
<1>3. ASSUME phase = "filling", phase' \in {"filling", "exited"}, payoffs' = payoffs
      PROVE  ChoiceInv'
  BY <1>1, <1>2, <1>3 DEF ChoiceInv
<1>4. ASSUME NEW out \in Singles, AddOutput(out) PROVE ChoiceInv'
  BY <1>3, <1>4 DEF AddOutput, choice
<1>5. ASSUME NEW r \in Ranges, AddRange(r[1], r[2], r[3]) PROVE ChoiceInv'
  BY <1>3, <1>5 DEF AddRange, choice
<1>6. ASSUME NEW r \in Ranges, RefuseRange(r[1], r[2], r[3]) PROVE ChoiceInv'
  BY <1>3, <1>6 DEF RefuseRange, choice
<1>7. CASE Begin
  <2>1. payoffs' = payoffs /\ phase' = "walking" BY <1>7 DEF Begin
  <2>2. Weighing' /\ GreatestFound' /\ BestFound' BY <1>2, <1>7, BeginFinds
  <2>3. QED BY <1>1, <1>2, <2>1, <2>2 DEF ChoiceInv
<1>8. CASE Weigh
  <2>1. payoffs' = payoffs /\ phase' = "walking" BY <1>8 DEF Weigh
  <2>2. Weighing' /\ GreatestFound' /\ BestFound' BY <1>8, TurnFinds
  <2>3. QED BY <1>1, <1>2, <2>1, <2>2 DEF ChoiceInv
<1>9. ASSUME UNCHANGED <<space, current_index, choice>> PROVE
         (Weighing /\ GreatestFound /\ BestFound) => (Weighing /\ GreatestFound /\ BestFound)'
  <2>1. Outputs' = Outputs BY <1>9 DEF Outputs, space
  <2>2. Weighing => Weighing' BY <1>9, <2>1 DEF Weighing, space, choice
  <2>3. GreatestFound => GreatestFound' BY <1>9, <2>1 DEF GreatestFound, choice
  <2>4. BestFound => BestFound' BY <1>9, <2>1 DEF BestFound, choice
  <2>5. QED BY <2>2, <2>3, <2>4
<1>10. CASE Finish
  <2>1. /\ Weighing /\ GreatestFound /\ BestFound
        /\ payoffs' = payoffs /\ act' = INVALID_OUTPUT /\ phase' = "chosen"
    BY <1>10 DEF Finish, ChoiceInv, choice
  <2>2. Weighing' /\ GreatestFound' /\ BestFound' BY <1>9, <1>10, <2>1 DEF Finish
  <2>3. QED BY <1>1, <1>2, <2>1, <2>2 DEF ChoiceInv
<1>11. CASE Clear
  <2>1. payoffs' \in Payoffs /\ phase' = "filling" BY <1>11 DEF Clear
  <2>2. QED BY <1>1, <2>1 DEF ChoiceInv
<1>12. CASE UNCHANGED vars
  <2>1. phase' = phase /\ payoffs' = payoffs /\ act' = act
        /\ UNCHANGED <<space, current_index, choice>>
    BY <1>12 DEF vars, choice
  <2>2. QED BY <1>1, <1>9, <2>1 DEF ChoiceInv
<1>13. QED
  BY <1>4, <1>5, <1>6, <1>7, <1>8, <1>10, <1>11, <1>12 DEF Next

\* When everything has been weighed, the best actions are those with the greatest
\* payoff, each as often as it was offered.
LEMMA BestIsExact ==
  ASSUME SpaceInv, payoffs \in Payoffs, Weighing, GreatestFound, BestFound,
         act = INVALID_OUTPUT, phase = "chosen"
  PROVE  BestActionsExact
<1> DEFINE n == current_index
           best == {Outputs[i] : i \in {i \in Weighed :
                      \A k \in Weighed : payoffs[Outputs[k]] <= payoffs[Outputs[i]]}}
<1>1. /\ Outputs \in Seq(Output) /\ Len(Outputs) \in Nat /\ DOMAIN Outputs = 1..Len(Outputs)
      /\ payoffs \in [Output -> Nat] /\ n \in 0..Len(Outputs) /\ n \in Nat
  BY PayoffsAssumption, LenProperties DEF SpaceInv, Indexed, Weighing
<1>2. Weighed = 1..n
  <2>1. \A i \in 1..n : i \in DOMAIN Outputs /\ \A k \in 1..i : k \in 1..n BY <1>1
  <2>2. 1..n \subseteq Weighed BY <2>1 DEF Weighed, Weighing
  <2>3. ASSUME NEW i \in Weighed PROVE i \in 1..n
    <3>1. i \in 1..Len(Outputs) /\ \A k \in 1..i : Outputs[k] # INVALID_OUTPUT
      BY <1>1 DEF Weighed
    <3>2. CASE n < Len(Outputs)
      <4>1. Outputs[n + 1] = INVALID_OUTPUT BY <3>2, ActIsOffered DEF Weighing
      <4>2. n + 1 \notin 1..i BY <3>1, <4>1
      <4>3. QED BY <1>1, <3>1, <4>2
    <3>3. CASE ~ (n < Len(Outputs)) BY <1>1, <3>1, <3>3
    <3>4. QED BY <3>2, <3>3
  <2>4. QED BY <2>2, <2>3
<1>3. \A i \in 1..n : Outputs[i] \in Output /\ payoffs[Outputs[i]] \in Nat
  <2> TAKE i \in 1..n
  <2>1. i \in 1..Len(Outputs) BY <1>1
  <2>2. Outputs[i] \in Output BY <1>1, <2>1, LenProperties
  <2>3. QED BY <1>1, <2>2
<1>4. /\ best_acts \in Seq(Output) /\ Len(best_acts) \in Nat
      /\ DOMAIN best_acts = 1..Len(best_acts)
      /\ \A i \in 1..Len(best_acts) : best_acts[i] \in Output
      /\ \A a \in Output :
           Times(best_acts, Len(best_acts), a) =
             IF payoffs[a] = max_payoff THEN Times(Outputs, n, a) ELSE 0
      /\ \A i \in 1..n : payoffs[Outputs[i]] <= max_payoff
      /\ n # 0 => \E i \in 1..n : payoffs[Outputs[i]] = max_payoff
      /\ max_payoff \in Int
  BY LenProperties DEF BestFound, GreatestFound, Lowest
<1> HIDE DEF n
<1>5. \A i \in 1..n : Outputs[i] \in best <=> payoffs[Outputs[i]] = max_payoff
  <2> TAKE i \in 1..n
  <2>1. PICK k \in 1..n : payoffs[Outputs[k]] = max_payoff BY <1>1, <1>4
  <2>2. ASSUME payoffs[Outputs[i]] = max_payoff PROVE Outputs[i] \in best
    BY <1>2, <1>4, <2>2
  <2>3. ASSUME Outputs[i] \in best PROVE payoffs[Outputs[i]] = max_payoff
    <3>1. PICK j \in Weighed : /\ \A l \in Weighed : payoffs[Outputs[l]] <= payoffs[Outputs[j]]
                               /\ Outputs[i] = Outputs[j]
      BY <2>3
    <3>2. max_payoff <= payoffs[Outputs[i]] BY <1>2, <2>1, <3>1
    <3>3. payoffs[Outputs[i]] <= max_payoff BY <1>4
    <3>4. QED BY <1>3, <1>4, <3>2, <3>3
  <2>4. QED BY <2>2, <2>3
<1>6. \A a \in best : \E i \in 1..n : a = Outputs[i] BY <1>2
<1> HIDE DEF best
<1>7. \A i \in DOMAIN best_acts : best_acts[i] \in best
  <2> TAKE i \in DOMAIN best_acts
  <2> DEFINE a == best_acts[i]
  <2>1. i \in 1..Len(best_acts) /\ a \in Output BY <1>4
  <2>2. Times(best_acts, Len(best_acts), a) # 0 BY <1>4, <2>1, TimesOfNone
  <2>3. payoffs[a] = max_payoff /\ Times(Outputs, n, a) # 0 BY <1>4, <2>1, <2>2
  <2>4. PICK k \in 1..n : Outputs[k] = a BY <1>1, <2>3, TimesOfNone
  <2>5. QED BY <1>5, <2>3, <2>4
<1>8. \A a \in best : Cardinality({i \in DOMAIN best_acts : best_acts[i] = a})
                        = Cardinality({i \in Weighed : Outputs[i] = a})
  <2> TAKE a \in best
  <2>1. PICK i \in 1..n : a = Outputs[i] BY <1>6
  <2>2. a \in Output /\ payoffs[a] = max_payoff BY <1>3, <1>5, <2>1
  <2>3. Times(best_acts, Len(best_acts), a) = Times(Outputs, n, a) BY <1>4, <2>2
  <2>4. QED BY <1>2, <1>4, <2>3 DEF Times
<1>9. QED BY <1>7, <1>8 DEF BestActionsExact, best

\* Whatever is offered, bestActions() returns every action that has the greatest
\* payoff, as often as it was offered, and nothing else: of a list that holds the
\* invalid output what is offered before that.
THEOREM ChoiceIsExact == ASSUME OutputsFit PROVE Spec => []BestActionsExact
<1>1. Init => ChoiceInv
  <2>1. Init => SpaceInv BY SpaceInit
  <2>2. QED BY <2>1 DEF Init, ChoiceInv
<1>2. ChoiceInv /\ [Next]_vars => ChoiceInv' BY ChoiceStep
<1>3. ChoiceInv => BestActionsExact
  <2> SUFFICES ASSUME ChoiceInv, phase = "chosen" PROVE BestActionsExact
    BY DEF BestActionsExact
  <2>1. SpaceInv /\ payoffs \in Payoffs /\ Weighing /\ GreatestFound /\ BestFound
        /\ act = INVALID_OUTPUT
    BY DEF ChoiceInv
  <2>2. QED BY <2>1, BestIsExact
<1>4. QED BY <1>1, <1>2, <1>3, PTL DEF Spec

--------------------------------------------------------------------------------
(* The offsets of the items of a state information.                           *)

USE SizesAssumption, SizeValuesAssumption, NullAssumption

\* The recursive function behind ActAt: there is one, and of the same lists it is
\* the same as far as it goes.
AddsBytes(list, n, t) ==
  t = [k \in 1..n |-> IF k = 1 THEN HdSize ELSE t[k - 1] + ActBytes(list[k - 1])]

LEMMA AddsBytesExists ==
  ASSUME NEW list, NEW n \in Nat PROVE \E t : AddsBytes(list, n, t)
<1> DEFINE Built == {i \in Nat : \E t : AddsBytes(list, i, t)}
<1>1. 0 \in Built
  <2> DEFINE t == [k \in 1..0 |-> 0]
  <2>1. AddsBytes(list, 0, t) BY DEF AddsBytes
  <2> HIDE DEF t
  <2>2. QED BY <2>1
<1>2. ASSUME NEW i \in Nat, i \in Built PROVE i + 1 \in Built
  <2>1. PICK t : AddsBytes(list, i, t) BY <1>2
  <2> DEFINE u == [k \in 1..i + 1 |->
                     IF k = 1 THEN HdSize ELSE t[k - 1] + ActBytes(list[k - 1])]
  <2>2. \A k \in 1..i : u[k] = t[k] BY <2>1 DEF AddsBytes
  <2>3. \A k \in 1..i + 1 : k # 1 => k - 1 \in 1..i OBVIOUS
  <2>4. u = [k \in 1..i + 1 |->
               IF k = 1 THEN HdSize ELSE u[k - 1] + ActBytes(list[k - 1])]
    <3> DEFINE v == [k \in 1..i + 1 |->
                       IF k = 1 THEN HdSize ELSE u[k - 1] + ActBytes(list[k - 1])]
    <3>1. \A k \in 1..i + 1 : u[k] = v[k]
      <4> TAKE k \in 1..i + 1
      <4>1. CASE k = 1 BY <4>1
      <4>2. CASE k # 1
        <5>1. u[k - 1] = t[k - 1] BY <2>2, <2>3, <4>2
        <5> HIDE DEF u
        <5>2. v[k] = t[k - 1] + ActBytes(list[k - 1]) BY <4>2, <5>1
        <5>3. u[k] = t[k - 1] + ActBytes(list[k - 1]) BY <4>2 DEF u
        <5>4. QED BY <5>2, <5>3
      <4>3. QED BY <4>1, <4>2
    <3>2. u = [k \in 1..i + 1 |-> u[k]] /\ v = [k \in 1..i + 1 |-> v[k]] OBVIOUS
    <3> HIDE DEF u, v
    <3>3. QED BY <3>1, <3>2 DEF v
  <2> HIDE DEF u
  <2>5. AddsBytes(list, i + 1, u) BY <2>4 DEF AddsBytes
  <2>6. QED BY <2>5
<1>3. Nat \subseteq Built
  <2> HIDE DEF Built
  <2>1. QED BY <1>1, <1>2, InductionOnNat
<1>4. QED BY <1>3

LEMMA AddsBytesAgree ==
  ASSUME NEW list, NEW n \in Nat, NEW m \in Nat, n <= m, NEW t, NEW u,
         AddsBytes(list, n, t), AddsBytes(list, m, u)
  PROVE  \A k \in 1..n : t[k] = u[k]
<1> DEFINE Same == {k \in Nat : k \in 1..n => t[k] = u[k]}
<1>1. 0 \in Same OBVIOUS
<1>2. ASSUME NEW k \in Nat, k \in Same PROVE k + 1 \in Same
  <2> SUFFICES ASSUME k + 1 \in 1..n PROVE t[k + 1] = u[k + 1] OBVIOUS
  <2>1. k + 1 \in 1..m /\ (k + 1) - 1 = k BY <1>2
  <2>2. t[k + 1] = IF k + 1 = 1 THEN HdSize ELSE t[k] + ActBytes(list[k])
    BY <2>1 DEF AddsBytes
  <2>3. u[k + 1] = IF k + 1 = 1 THEN HdSize ELSE u[k] + ActBytes(list[k])
    BY <2>1 DEF AddsBytes
  <2>4. CASE k = 0 BY <2>2, <2>3, <2>4
  <2>5. CASE k # 0
    <3>1. t[k] = u[k] BY <1>2, <2>5
    <3>2. QED BY <2>2, <2>3, <3>1
  <2>6. QED BY <2>4, <2>5
<1>3. Nat \subseteq Same
  <2> HIDE DEF Same
  <2>1. QED BY <1>1, <1>2, InductionOnNat
<1>4. QED BY <1>3

LEMMA ActAtIs ==
  ASSUME NEW list, NEW n \in Nat \ {0}
  PROVE  \E t : AddsBytes(list, n, t) /\ ActAt(list, n) = t[n]
<1>1. ActAt(list, n) = (CHOOSE t : AddsBytes(list, n, t))[n] BY DEF ActAt, AddsBytes
<1>2. AddsBytes(list, n, CHOOSE t : AddsBytes(list, n, t)) BY AddsBytesExists
<1>3. QED BY <1>1, <1>2

\* The first action stands behind the header, the next behind an action and its
\* environment actions.
LEMMA ActAtFirst == ASSUME NEW list PROVE ActAt(list, 1) = HdSize
<1>1. PICK t : AddsBytes(list, 1, t) /\ ActAt(list, 1) = t[1] BY ActAtIs
<1>2. QED BY <1>1 DEF AddsBytes

LEMMA ActAtNext ==
  ASSUME NEW list, NEW n \in Nat \ {0}
  PROVE  ActAt(list, n + 1) = ActAt(list, n) + ActBytes(list[n])
<1>1. PICK t : AddsBytes(list, n, t) /\ ActAt(list, n) = t[n] BY ActAtIs
<1>2. n + 1 \in Nat \ {0} OBVIOUS
<1>3. PICK u : AddsBytes(list, n + 1, u) /\ ActAt(list, n + 1) = u[n + 1] BY <1>2, ActAtIs
<1>4. \A k \in 1..n : t[k] = u[k]
  <2>1. n \in Nat /\ n + 1 \in Nat /\ n <= n + 1 OBVIOUS
  <2>2. QED BY <1>1, <1>3, <2>1, AddsBytesAgree
<1>5. t[n] = u[n] BY <1>4
<1>6. u[n + 1] = u[n] + ActBytes(list[n])
  <2>1. n + 1 \in 1..n + 1 /\ n + 1 # 1 /\ (n + 1) - 1 = n OBVIOUS
  <2>2. QED BY <1>3, <2>1 DEF AddsBytes
<1>7. QED BY <1>1, <1>3, <1>5, <1>6

\* A list of actions, and the environment actions of one.
ActList == Seq([act : Acts, ealist : Seq(Eats)])
Num(list, i) == Len(list[i].ealist)

LEMMA ListTypes ==
  ASSUME NEW list \in ActList
  PROVE  /\ Len(list) \in Nat /\ DOMAIN list = 1..Len(list)
         /\ \A i \in 1..Len(list) :
              /\ list[i].act \in Acts /\ list[i].ealist \in Seq(Eats)
              /\ Num(list, i) \in Nat /\ DOMAIN list[i].ealist = 1..Num(list, i)
              /\ \A j \in 1..Num(list, i) : list[i].ealist[j] \in Eats
<1>1. Len(list) \in Nat /\ DOMAIN list = 1..Len(list)
  BY LenProperties DEF ActList
<1>2. \A i \in 1..Len(list) : list[i].act \in Acts /\ list[i].ealist \in Seq(Eats)
  <2> DEFINE R == [act : Acts, ealist : Seq(Eats)]
  <2>1. list \in Seq(R) BY DEF ActList
  <2> HIDE DEF R
  <2>2. \A i \in 1..Len(list) : list[i] \in R BY <2>1, LenProperties
  <2>3. QED BY <2>2 DEF R
<1>3. \A i \in 1..Len(list) :
        /\ Num(list, i) \in Nat /\ DOMAIN list[i].ealist = 1..Num(list, i)
        /\ \A j \in 1..Num(list, i) : list[i].ealist[j] \in Eats
  <2> TAKE i \in 1..Len(list)
  <2> DEFINE eats == list[i].ealist
  <2>1. eats \in Seq(Eats) /\ Num(list, i) = Len(eats) BY <1>2 DEF Num
  <2> HIDE DEF eats
  <2>2. Len(eats) \in Nat /\ eats \in [1..Len(eats) -> Eats] BY <2>1, LenProperties
  <2>3. QED BY <2>1, <2>2 DEF eats
<1>4. QED BY <1>1, <1>2, <1>3

\* The offset of an environment action from that of its action.
EatOffset(j) == ActSize + (j - 1) * EatSize

\* Offsets grow: an item ends where the next begins, or before.
LEMMA Offsets ==
  ASSUME NEW list \in ActList
  PROVE  /\ \A i \in 1..Len(list) + 1 : ActAt(list, i) \in Nat
         /\ \A i \in 1..Len(list) :
              /\ ActAt(list, i + 1) = ActAt(list, i) + ActSize + Num(list, i) * EatSize
              /\ ActAt(list, i) + ActSize <= ActAt(list, i + 1)
         /\ \A i, j \in 1..Len(list) + 1 : i <= j => ActAt(list, i) <= ActAt(list, j)
<1>1. \A i \in 1..Len(list) : Num(list, i) \in Nat /\ Num(list, i) * EatSize \in Nat
  BY ListTypes
<1>2. Len(list) \in Nat BY ListTypes
<1>3. \A i \in 1..Len(list) :
        ActAt(list, i + 1) = ActAt(list, i) + (ActSize + Num(list, i) * EatSize)
  <2> TAKE i \in 1..Len(list)
  <2>1. i \in Nat \ {0} OBVIOUS
  <2>2. ActAt(list, i + 1) = ActAt(list, i) + ActBytes(list[i]) BY ONLY <2>1, ActAtNext
  <2>3. QED BY <2>2 DEF ActBytes, Num
<1> DEFINE Good == {n \in Nat : n <= Len(list) =>
                      \A i \in 1..n + 1 : ActAt(list, i) \in Nat
                                          /\ ActAt(list, i) <= ActAt(list, n + 1)}
<1>4. 0 \in Good
  <2>1. ActAt(list, 1) = HdSize BY ActAtFirst
  <2>2. \A i \in 1..0 + 1 : i = 1 OBVIOUS
  <2>3. QED BY <2>1, <2>2
<1>5. ASSUME NEW n \in Nat, n \in Good PROVE n + 1 \in Good
  <2> SUFFICES ASSUME n + 1 <= Len(list)
               PROVE  \A i \in 1..(n + 1) + 1 : ActAt(list, i) \in Nat
                        /\ ActAt(list, i) <= ActAt(list, (n + 1) + 1)
    OBVIOUS
  <2>1. n + 1 \in 1..Len(list) BY <1>2
  <2>2. \A i \in 1..n + 1 : ActAt(list, i) \in Nat /\ ActAt(list, i) <= ActAt(list, n + 1)
    BY <1>2, <1>5
  <2> DEFINE here == ActAt(list, n + 1)
             there == ActAt(list, (n + 1) + 1)
             bytes == Num(list, n + 1) * EatSize
  <2>3. there \in Nat /\ here \in Nat /\ here <= there
    <3>1. bytes \in Nat /\ there = here + (ActSize + bytes) BY <1>1, <1>3, <2>1
    <3>2. here \in Nat BY <2>2
    <3> HIDE DEF here, there, bytes
    <3>3. QED BY <3>1, <3>2
  <2> TAKE i \in 1..(n + 1) + 1
  <2>4. CASE i = (n + 1) + 1 BY <2>3, <2>4
  <2>5. CASE i # (n + 1) + 1
    <3>1. i \in 1..n + 1 BY <2>5
    <3>2. ActAt(list, i) \in Nat /\ ActAt(list, i) <= here BY <2>2, <3>1
    <3> HIDE DEF here, there
    <3>3. ActAt(list, i) <= there BY <2>3, <3>2
    <3>4. QED BY <3>2, <3>3 DEF there
  <2>6. QED BY <2>4, <2>5
<1>6. Nat \subseteq Good
  <2> HIDE DEF Good
  <2>1. QED BY <1>4, <1>5, InductionOnNat
<1>7. \A i, j \in 1..Len(list) + 1 :
        ActAt(list, i) \in Nat /\ (i <= j => ActAt(list, i) <= ActAt(list, j))
  <2> TAKE i, j \in 1..Len(list) + 1
  <2>1. i - 1 \in Nat /\ i - 1 <= Len(list) /\ i \in 1..(i - 1) + 1 BY <1>2
  <2>2. ActAt(list, i) \in Nat BY <1>6, <2>1
  <2>3. ASSUME i <= j PROVE ActAt(list, i) <= ActAt(list, j)
    <3>1. j - 1 \in Nat /\ j - 1 <= Len(list) /\ i \in 1..(j - 1) + 1 /\ (j - 1) + 1 = j
      BY <1>2, <2>3
    <3>2. ActAt(list, i) <= ActAt(list, (j - 1) + 1) BY <1>6, <3>1
    <3>3. QED BY <3>1, <3>2
  <2>4. QED BY <2>2, <2>3
<1>8. \A i \in 1..Len(list) :
        /\ ActAt(list, i + 1) = ActAt(list, i) + ActSize + Num(list, i) * EatSize
        /\ ActAt(list, i) + ActSize <= ActAt(list, i + 1)
  <2> TAKE i \in 1..Len(list)
  <2>1. i \in 1..Len(list) + 1 BY <1>2
  <2>2. ActAt(list, i) \in Nat BY <1>7, <2>1
  <2> DEFINE bytes == Num(list, i) * EatSize
  <2>3. bytes \in Nat /\ ActAt(list, i + 1) = ActAt(list, i) + (ActSize + bytes)
    BY <1>1, <1>3
  <2> HIDE DEF bytes
  <2>4. ActAt(list, i + 1) = ActAt(list, i) + ActSize + bytes
        /\ ActAt(list, i) + ActSize <= ActAt(list, i + 1)
    BY <2>2, <2>3
  <2>5. QED BY <2>4 DEF bytes
<1>9. QED BY <1>2, <1>7, <1>8

\* Multiples of the size of an item are at least an item apart.
LEMMA MultiplesApart ==
  ASSUME NEW a \in Nat, NEW b \in Nat, a < b
  PROVE  a * EatSize \in Nat /\ b * EatSize \in Nat /\ a * EatSize + EatSize <= b * EatSize
<1> DEFINE d == b - a - 1
<1>1. d \in Nat /\ b = a + 1 + d OBVIOUS
<1> HIDE DEF d
<1>2. b * EatSize = (a + 1 + d) * EatSize BY <1>1
<1>3. (a + 1 + d) * EatSize = a * EatSize + EatSize + d * EatSize BY <1>1
<1>4. a * EatSize \in Nat /\ d * EatSize \in Nat /\ b * EatSize \in Nat BY <1>1
<1>5. QED BY <1>2, <1>3, <1>4

\* The environment actions of an action lie between it and the next action.
LEMMA EatsInside ==
  ASSUME NEW list \in ActList, NEW i \in 1..Len(list), NEW j \in 1..Num(list, i)
  PROVE  /\ EatOffset(j) \in Nat /\ ActSize <= EatOffset(j)
         /\ ActAt(list, i) + EatOffset(j) + EatSize <= ActAt(list, i + 1)
<1>1. Num(list, i) \in Nat /\ Len(list) \in Nat BY ListTypes
<1>2. j - 1 \in Nat /\ j - 1 < Num(list, i) BY <1>1
<1> DEFINE before == (j - 1) * EatSize
           bytes == Num(list, i) * EatSize
<1>3. before \in Nat /\ bytes \in Nat /\ before + EatSize <= bytes
  BY <1>1, <1>2, MultiplesApart
<1>4. ActAt(list, i) \in Nat /\ ActAt(list, i + 1) = ActAt(list, i) + ActSize + bytes
  <2>1. i \in 1..Len(list) + 1 BY <1>1
  <2>2. QED BY <2>1, Offsets
<1>5. EatOffset(j) = ActSize + before BY DEF EatOffset
<1> HIDE DEF before, bytes
<1>6. QED BY <1>3, <1>4, <1>5

\* An offset is that of one item only: the action there, and the environment action.
LEMMA OneAction ==
  ASSUME NEW list \in ActList, NEW i \in 1..Len(list),
         NEW a \in Packed(list).acts, a.at = ActAt(list, i)
  PROVE  a.act = list[i].act /\ a.eat_num = Num(list, i)
<1>1. PICK k \in 1..Len(list) :
        a = [at |-> ActAt(list, k), act |-> list[k].act, eat_num |-> Num(list, k)]
  <2>1. DOMAIN list = 1..Len(list) BY ListTypes
  <2>2. QED BY <2>1 DEF Packed, Num
<1>2. ActAt(list, k) = ActAt(list, i) BY <1>1
<1>3. Len(list) \in Nat BY ListTypes
<1>4. \A m, n \in 1..Len(list) : m < n => ActAt(list, m) # ActAt(list, n)
  <2> SUFFICES ASSUME NEW m \in 1..Len(list), NEW n \in 1..Len(list), m < n
               PROVE  ActAt(list, m) # ActAt(list, n)
    OBVIOUS
  <2>1. m + 1 \in 1..Len(list) + 1 /\ m \in 1..Len(list) + 1 /\ n \in 1..Len(list) + 1
        /\ m + 1 <= n
    BY <1>3
  <2>2. /\ ActAt(list, m) \in Nat /\ ActAt(list, m + 1) \in Nat /\ ActAt(list, n) \in Nat
        /\ ActAt(list, m) + ActSize <= ActAt(list, m + 1)
        /\ ActAt(list, m + 1) <= ActAt(list, n)
    BY <2>1, Offsets
  <2>3. QED BY <2>2
<1>5. k = i BY <1>2, <1>4
<1>6. QED BY <1>1, <1>5

LEMMA OneEat ==
  ASSUME NEW list \in ActList, NEW i \in 1..Len(list), NEW j \in 1..Num(list, i),
         NEW e \in Packed(list).eats, e.at = ActAt(list, i) + EatOffset(j)
  PROVE  e.eat = list[i].ealist[j]
<1>0. PICK k \in 1..Len(list) : \E l \in 1..Num(list, k) :
        e = [at |-> ActAt(list, k) + ActSize + (l - 1) * EatSize, eat |-> list[k].ealist[l]]
  <2>1. DOMAIN list = 1..Len(list)
        /\ \A k \in 1..Len(list) : DOMAIN list[k].ealist = 1..Num(list, k)
    BY ListTypes
  <2>2. PICK k \in 1..Len(list) :
          e \in {[at |-> ActAt(list, k) + ActSize + (l - 1) * EatSize, eat |-> list[k].ealist[l]]
                   : l \in DOMAIN list[k].ealist}
    BY <2>1 DEF Packed
  <2>3. QED BY <2>1, <2>2
<1>1. PICK l \in 1..Num(list, k) :
        /\ e.at = ActAt(list, k) + ActSize + (l - 1) * EatSize
        /\ e.eat = list[k].ealist[l]
  BY <1>0
<1>2. Len(list) \in Nat /\ Num(list, i) \in Nat /\ Num(list, k) \in Nat BY ListTypes
<1>3. \A n \in 1..Len(list) : ActAt(list, n) \in Nat
  BY <1>2, Offsets
<1>4. ActAt(list, k) + EatOffset(l) = ActAt(list, i) + EatOffset(j)
  <2>1. (l - 1) * EatSize \in Int BY <1>2
  <2>2. ActAt(list, k) \in Nat BY <1>3
  <2>3. QED BY <1>1, <2>1, <2>2 DEF EatOffset
<1>5. \A m, n \in 1..Len(list) : \A p \in 1..Num(list, m), q \in 1..Num(list, n) :
        m < n => ActAt(list, m) + EatOffset(p) # ActAt(list, n) + EatOffset(q)
  <2> SUFFICES ASSUME NEW m \in 1..Len(list), NEW n \in 1..Len(list), m < n,
                      NEW p \in 1..Num(list, m), NEW q \in 1..Num(list, n)
               PROVE  ActAt(list, m) + EatOffset(p) # ActAt(list, n) + EatOffset(q)
    OBVIOUS
  <2>1. m + 1 \in 1..Len(list) + 1 /\ n \in 1..Len(list) + 1 /\ m + 1 <= n BY <1>2
  <2>2. ActAt(list, m + 1) \in Nat /\ ActAt(list, m + 1) <= ActAt(list, n) BY <2>1, Offsets
  <2>3. EatOffset(p) \in Nat /\ EatOffset(q) \in Nat
        /\ ActAt(list, m) + EatOffset(p) + EatSize <= ActAt(list, m + 1)
    BY EatsInside
  <2>4. ActAt(list, m) \in Nat /\ ActAt(list, n) \in Nat BY <1>3
  <2>5. ActAt(list, m) + EatOffset(p) + EatSize <= ActAt(list, n) BY <2>2, <2>3, <2>4
  <2>6. QED BY <2>3, <2>4, <2>5
<1>6. k = i BY <1>4, <1>5
<1>7. l = j
  <2>1. EatOffset(l) \in Nat /\ EatOffset(j) \in Nat BY <1>6, EatsInside
  <2>2. EatOffset(l) = EatOffset(j) BY <1>3, <1>4, <1>6, <2>1
  <2>4. l - 1 \in Nat /\ j - 1 \in Nat BY <1>2
  <2> DEFINE x == l - 1
             y == j - 1
  <2>5. x \in Nat /\ y \in Nat BY <2>4
  <2>6. l = x + 1 /\ j = y + 1 BY <1>2
  <2> DEFINE p == x * EatSize
             q == y * EatSize
  <2>3. ActSize + p = ActSize + q BY <2>2 DEF EatOffset
  <2> HIDE DEF x, y
  <2>7. p \in Nat /\ q \in Nat /\ p = q
    <3>1. p \in Nat /\ q \in Nat BY <2>5
    <3> HIDE DEF p, q
    <3>2. ActSize \in Nat OBVIOUS
    <3>3. QED BY ONLY <2>3, <3>1, <3>2
  <2>8. ASSUME x < y PROVE FALSE
    <3>1. x * EatSize + EatSize <= y * EatSize BY <2>5, <2>8, MultiplesApart
    <3>2. QED BY <2>7, <3>1
  <2>9. ASSUME y < x PROVE FALSE
    <3>1. y * EatSize + EatSize <= x * EatSize BY <2>5, <2>9, MultiplesApart
    <3>2. QED BY <2>7, <3>1
  <2>10. QED BY <2>5, <2>6, <2>8, <2>9
<1>8. QED BY <1>1, <1>6, <1>7

\* The items are there: an action at its offset, and each environment action at
\* its own, all of them before the end.
LEMMA ItemsThere ==
  ASSUME NEW list \in ActList, NEW i \in 1..Len(list)
  PROVE  /\ \E a \in Packed(list).acts :
              a.at = ActAt(list, i) /\ ActAt(list, i) + ActSize <= TotalBytes(list)
         /\ \A j \in 1..Num(list, i) : \E e \in Packed(list).eats :
              /\ e.at = ActAt(list, i) + EatOffset(j)
              /\ ActAt(list, i) + EatOffset(j) + EatSize <= TotalBytes(list)
<1>1. /\ DOMAIN list = 1..Len(list) /\ DOMAIN list[i].ealist = 1..Num(list, i)
      /\ Len(list) \in Nat /\ Num(list, i) \in Nat
  BY ListTypes
<1>2. /\ ActAt(list, i) \in Nat /\ ActAt(list, i + 1) \in Nat /\ TotalBytes(list) \in Nat
      /\ ActAt(list, i) + ActSize <= ActAt(list, i + 1)
      /\ ActAt(list, i + 1) <= TotalBytes(list)
  <2>1. i \in 1..Len(list) + 1 /\ i + 1 \in 1..Len(list) + 1
        /\ Len(list) + 1 \in 1..Len(list) + 1 /\ i + 1 <= Len(list) + 1
    BY <1>1
  <2>2. QED BY <2>1, Offsets DEF TotalBytes
<1>3. \E a \in Packed(list).acts : a.at = ActAt(list, i)
  <2> DEFINE a == [at |-> ActAt(list, i), act |-> list[i].act, eat_num |-> Num(list, i)]
  <2>1. a \in Packed(list).acts BY <1>1 DEF Packed, Num
  <2>2. a.at = ActAt(list, i) OBVIOUS
  <2> HIDE DEF a
  <2>3. QED BY <2>1, <2>2
<1>4. \A j \in 1..Num(list, i) : \E e \in Packed(list).eats :
        e.at = ActAt(list, i) + EatOffset(j)
  <2> TAKE j \in 1..Num(list, i)
  <2> DEFINE e == [at |-> ActAt(list, i) + ActSize + (j - 1) * EatSize,
                   eat |-> list[i].ealist[j]]
  <2>1. e \in Packed(list).eats BY <1>1 DEF Packed
  <2>2. e.at = ActAt(list, i) + EatOffset(j)
    <3>1. (j - 1) * EatSize \in Int BY <1>1
    <3>2. ActAt(list, i) + ActSize + (j - 1) * EatSize
            = ActAt(list, i) + (ActSize + (j - 1) * EatSize)
      BY <1>2, <3>1
    <3>3. QED BY <3>2 DEF EatOffset
  <2> HIDE DEF e
  <2>3. QED BY <2>1, <2>2
<1>5. ActAt(list, i) + ActSize <= TotalBytes(list) BY <1>2
<1>6. \A j \in 1..Num(list, i) : ActAt(list, i) + EatOffset(j) + EatSize <= TotalBytes(list)
  <2> TAKE j \in 1..Num(list, i)
  <2>1. EatOffset(j) \in Nat /\ ActAt(list, i) + EatOffset(j) + EatSize <= ActAt(list, i + 1)
    BY EatsInside
  <2>2. QED BY <1>2, <2>1
<1>7. QED BY <1>3, <1>4, <1>5, <1>6

--------------------------------------------------------------------------------
(* The cursor.                                                                *)

\* What is read is what was packed, whole or as much of it as a storage keeps.
InfoIsKept ==
  /\ actlist \in ActList
  /\ \/ info = Packed(actlist)
     \/ \E n \in Lengths(Packed(actlist), TotalBytes(actlist)) : info = Kept(Packed(actlist), n)

\* The cursor is on the i-th action.
Current(i) == i \in 1..Len(actlist) /\ atp = ActAt(actlist, i)

\* Nothing is made up, and what is whole holds everything.
LEMMA InfoHolds ==
  ASSUME InfoIsKept
  PROVE  /\ info.act_num = Len(actlist)
         /\ info.acts \subseteq Packed(actlist).acts /\ info.eats \subseteq Packed(actlist).eats
         /\ Whole => /\ \A a \in Packed(actlist).acts :
                          a.at + ActSize <= TotalBytes(actlist) => a \in info.acts
                     /\ \A e \in Packed(actlist).eats :
                          e.at + EatSize <= TotalBytes(actlist) => e \in info.eats
<1> DEFINE p == Packed(actlist)
           total == TotalBytes(actlist)
<1>1. p.act_num = Len(actlist) /\ p.size = (total % SizeValues)
  BY DEF Packed
<1>2. \A n : /\ Kept(p, n).act_num = p.act_num
             /\ Kept(p, n).acts = {a \in p.acts : a.at + ActSize <= n}
             /\ Kept(p, n).eats = {e \in p.eats : e.at + EatSize <= n}
  BY DEF Kept, Packed
<1>3. total \in Nat /\ HdSize <= total
  <2>1. Len(actlist) \in Nat /\ actlist \in ActList BY ListTypes DEF InfoIsKept
  <2>2. Len(actlist) + 1 \in 1..Len(actlist) + 1 /\ 1 \in 1..Len(actlist) + 1
        /\ 1 <= Len(actlist) + 1
    BY <2>1
  <2>3. ActAt(actlist, 1) <= total /\ total \in Nat BY <2>1, <2>2, Offsets DEF TotalBytes
  <2>4. ActAt(actlist, 1) = HdSize BY ActAtFirst
  <2>5. QED BY ONLY <2>3, <2>4
<1> HIDE DEF p, total
<1>4. total < SizeValues => p.size = total
  <2>1. total \in Nat /\ total < SizeValues => (total % SizeValues) = total OBVIOUS
  <2>2. QED BY <1>1, <1>3, <2>1
<1>5. CASE info = p BY <1>1, <1>5 DEF p, total
<1>6. ASSUME NEW n, n \in Lengths(p, total), info = Kept(p, n), info # p
      PROVE  /\ info.act_num = Len(actlist) /\ info.acts \subseteq p.acts /\ info.eats \subseteq p.eats
             /\ Whole => /\ \A a \in p.acts : a.at + ActSize <= total => a \in info.acts
                         /\ \A e \in p.eats : e.at + EatSize <= total => e \in info.eats
  <2>1. Whole => n = total
    <3>1. Whole => total < SizeValues BY <1>6 DEF Whole, p, total
    <3>2. total < SizeValues => p.size = total /\ HdSize <= p.size BY <1>3, <1>4
    <3>3. HdSize <= p.size => p.size >= HdSize BY <1>3, <1>4
    <3>4. p.size >= HdSize => n = p.size BY <1>6 DEF Lengths
    <3>5. total < SizeValues => n = total
      <4>1. total < SizeValues => p.size = total /\ p.size >= HdSize BY <1>3, <1>4
      <4>2. QED BY ONLY <3>4, <4>1
    <3>6. QED BY <3>1, <3>5
  <2>2. QED BY <1>1, <1>2, <1>6, <2>1
<1>7. QED BY <1>5, <1>6 DEF InfoIsKept, p, total

\* The header the cursor is on is that of the current action, if it is there.
LEMMA ReadAct ==
  ASSUME InfoIsKept, NEW i, Current(i)
  PROVE  /\ \A a \in ActsAt(atp) : a.act = actlist[i].act /\ a.eat_num = Num(actlist, i)
         /\ ActsAt(atp) # {} =>
              EatNums = {Num(actlist, i)} /\ ActsRead = {actlist[i].act}
         /\ Whole => ActsAt(atp) # {}
<1>1. actlist \in ActList /\ i \in 1..Len(actlist) /\ atp = ActAt(actlist, i)
  BY DEF InfoIsKept, Current
<1>2. \A a \in ActsAt(atp) : a \in Packed(actlist).acts /\ a.at = ActAt(actlist, i)
  BY <1>1, InfoHolds DEF ActsAt
<1>3. \A a \in ActsAt(atp) : a.act = actlist[i].act /\ a.eat_num = Num(actlist, i)
  BY <1>1, <1>2, OneAction
<1>4. ActsAt(atp) # {} => EatNums = {Num(actlist, i)} /\ ActsRead = {actlist[i].act}
  BY <1>3 DEF EatNums, ActsRead
<1>5. ASSUME Whole PROVE ActsAt(atp) # {}
  <2>1. PICK a \in Packed(actlist).acts :
          a.at = atp /\ atp + ActSize <= TotalBytes(actlist)
    BY <1>1, ItemsThere
  <2>2. a \in info.acts BY <1>5, <2>1, InfoHolds
  <2>3. QED BY <2>1, <2>2 DEF ActsAt
<1>6. QED BY <1>3, <1>4, <1>5

LEMMA ReadEat ==
  ASSUME InfoIsKept, NEW i, Current(i), NEW j \in 1..Num(actlist, i)
  PROVE  /\ \A e \in EatsAt(atp + EatOffset(j)) : e.eat = actlist[i].ealist[j]
         /\ Whole => EatsAt(atp + EatOffset(j)) # {}
<1>1. actlist \in ActList /\ i \in 1..Len(actlist) /\ atp = ActAt(actlist, i)
  BY DEF InfoIsKept, Current
<1> DEFINE o == atp + EatOffset(j)
<1>2. \A e \in EatsAt(o) : e \in Packed(actlist).eats /\ e.at = o
  BY InfoHolds DEF EatsAt
<1>3. \A e \in EatsAt(o) : e.eat = actlist[i].ealist[j]
  BY <1>1, <1>2, OneEat
<1>4. ASSUME Whole PROVE EatsAt(o) # {}
  <2>1. PICK e \in Packed(actlist).eats : e.at = o /\ o + EatSize <= TotalBytes(actlist)
    BY <1>1, ItemsThere
  <2>2. e \in info.eats BY <1>4, <2>1, InfoHolds
  <2>3. QED BY <2>1, <2>2 DEF EatsAt
<1>5. QED BY <1>3, <1>4

\* The action the cursor is on: the last one once the index has passed it.
Here == IF act_index < Len(actlist) THEN act_index + 1 ELSE Len(actlist)

\* Where the cursor stands, if there is any action; from the first call on the
\* environment action is one of that action, as long as the index is.
OnAction ==
  /\ act_index \in Nat /\ eat_index \in Nat
  /\ actlist # <<>> => Current(Here)
OnEat ==
  /\ actlist # <<>>
  /\ eat_index < Num(actlist, Here) => eap = atp + EatOffset(eat_index + 1)

\* The links of the first actions, and the first links of an action.
FirstLinks(i, m) == [j \in 1..m |-> <<actlist[i].act, actlist[i].ealist[j]>>]
Links(n) == FlattenSeq([i \in 1..n |-> FirstLinks(i, Num(actlist, i))])

\* buildStateFromHeader() has built the links up to where it is.
BuildInv ==
  /\ pc \in {"first_act", "new_act", "first_eat", "new_eat", "next_eat", "next_act", "done"}
  /\ pc = "first_act" => built = <<>>
  /\ pc \in {"new_act", "first_eat", "new_eat", "next_eat", "next_act"} =>
       OnEat /\ act_index < Len(actlist)
  /\ pc \in {"new_act", "first_eat"} => built = Links(act_index)
  /\ pc \in {"first_eat", "new_eat", "next_eat"} => mac = actlist[Here].act
  /\ pc = "new_eat" =>
       /\ returned = eap /\ eat_index < Num(actlist, Here)
       /\ built = Links(act_index) \o FirstLinks(Here, eat_index)
  /\ pc = "next_eat" =>
       /\ eat_index < Num(actlist, Here)
       /\ built = Links(act_index) \o FirstLinks(Here, eat_index + 1)
  /\ pc = "next_act" => built = Links(act_index + 1)
  /\ pc = "done" => built = LinksOf(actlist)

\* What another reader has in hand is the action or one of its environment actions.
AnyInv ==
  /\ pc \in {"first_act", "has_act"}
  /\ pc = "has_act" =>
       /\ OnEat
       /\ \/ returned \in {NULL, atp}
          \/ returned = eap /\ eat_index < Num(actlist, Here)

\* All this as long as nothing was read that is not there.
InfoInv ==
  /\ InfoIsKept
  /\ ~ outside => /\ OnAction
                  /\ client = "build" => BuildInv
                  /\ client # "build" => AnyInv
  /\ Whole => ~ outside

\* The first environment action stands behind its action, each at the end of the
\* one before.
LEMMA EatOffsetNext ==
  /\ EatOffset(1) = ActSize
  /\ \A j \in Nat : EatOffset(j + 1) \in Nat /\ EatOffset((j + 1) + 1) = EatOffset(j + 1) + EatSize
<1>1. (1 - 1) * EatSize = 0 OBVIOUS
<1>2. EatOffset(1) = ActSize BY <1>1 DEF EatOffset
<1>3. \A j \in Nat : EatOffset(j + 1) = ActSize + j * EatSize
                     /\ EatOffset((j + 1) + 1) = ActSize + (j + 1) * EatSize
  <2> TAKE j \in Nat
  <2>1. (j + 1) - 1 = j /\ ((j + 1) + 1) - 1 = j + 1 OBVIOUS
  <2>2. QED BY <2>1 DEF EatOffset
<1>4. \A j \in Nat : j * EatSize \in Nat /\ (j + 1) * EatSize = j * EatSize + EatSize
  OBVIOUS
<1>5. \A j \in Nat : EatOffset(j + 1) \in Nat
                     /\ EatOffset((j + 1) + 1) = EatOffset(j + 1) + EatSize
  <2> TAKE j \in Nat
  <2> DEFINE x == j * EatSize
             y == (j + 1) * EatSize
  <2>1. x \in Nat /\ y = x + EatSize BY <1>4
  <2>2. EatOffset(j + 1) = ActSize + x /\ EatOffset((j + 1) + 1) = ActSize + y BY <1>3
  <2> HIDE DEF x, y
  <2>3. QED BY <2>1, <2>2
<1>6. QED BY <1>2, <1>5

\* Where the cursor is, if there is any action.
LEMMA HereIs ==
  ASSUME InfoIsKept, OnAction, actlist # <<>>
  PROVE  /\ Len(actlist) \in Nat \ {0} /\ Here \in 1..Len(actlist) /\ Current(Here)
         /\ Num(actlist, Here) \in Nat /\ atp \in Nat
         /\ act_index + 1 < Len(actlist) => Here = act_index + 1 /\ Here + 1 \in 1..Len(actlist)
         /\ act_index < Len(actlist) => Here = act_index + 1
<1>1. actlist \in ActList BY DEF InfoIsKept
<1>2. Len(actlist) \in Nat \ {0}
  <2>1. Len(actlist) \in Nat BY <1>1, ListTypes
  <2>2. Len(actlist) # 0 BY <1>1, EmptySeq DEF ActList
  <2>3. QED BY <2>1, <2>2
<1>3. Here \in 1..Len(actlist) /\ Current(Here) BY <1>2 DEF OnAction, Here
<1>4. Num(actlist, Here) \in Nat BY <1>1, <1>3, ListTypes
<1>5. atp \in Nat
  <2>1. Here \in 1..Len(actlist) + 1 BY <1>2, <1>3
  <2>2. QED BY <1>1, <1>3, <2>1, Offsets DEF Current
<1>6. QED BY <1>2, <1>3, <1>4, <1>5 DEF OnAction, Here

\* What the calls do to the cursor.
LEMMA FirstActMoves ==
  ASSUME InfoIsKept, actlist # <<>>, UNCHANGED <<actlist, info>>, firstAct
  PROVE  /\ outside' = outside /\ OnAction' /\ OnEat'
         /\ act_index' = 0 /\ returned' = atp' /\ atp' \in Nat
<1>1. actlist \in ActList /\ Len(actlist) \in Nat /\ Len(actlist) # 0
  <2>1. actlist \in ActList BY DEF InfoIsKept
  <2>2. Len(actlist) # 0 BY <2>1, EmptySeq DEF ActList
  <2>3. QED BY <2>1, <2>2, ListTypes
<1>2. /\ atp' = HdSize /\ act_index' = 0 /\ eap' = HdSize + ActSize /\ eat_index' = 0
      /\ returned' = HdSize /\ outside' = outside /\ actlist' = actlist
  BY <1>1, InfoHolds DEF firstAct
<1>3. Here' = 1 /\ 1 \in 1..Len(actlist) BY <1>1, <1>2 DEF Here
<1>4. (Current(Here))' BY <1>2, <1>3, ActAtFirst DEF Current
<1>5. OnAction' BY <1>2, <1>4 DEF OnAction
<1>6. OnEat'
  <2>1. eap' = atp' + EatOffset(eat_index' + 1)
    <3>1. eat_index' + 1 = 1 BY <1>2
    <3>2. QED BY <1>2, <3>1, EatOffsetNext
  <2>2. QED BY <1>2, <2>1 DEF OnEat
<1>7. QED BY <1>2, <1>5, <1>6

\* Of the other calls what they do when they read the header that is there.
LEMMA NextActMoves ==
  ASSUME InfoIsKept, OnAction, OnEat, ~ outside', UNCHANGED <<actlist, info>>, nextAct
  PROVE  /\ OnAction' /\ OnEat' /\ act_index' = act_index + 1
         /\ IF act_index + 1 >= Len(actlist)
            THEN returned' = NULL /\ UNCHANGED <<atp, eap, eat_index>>
            ELSE returned' = atp' /\ atp' \in Nat
<1>1. /\ actlist # <<>> /\ Len(actlist) \in Nat \ {0} /\ Here \in 1..Len(actlist)
      /\ Current(Here) /\ Num(actlist, Here) \in Nat
      /\ act_index \in Nat /\ eat_index \in Nat /\ info.act_num = Len(actlist)
      /\ actlist \in ActList /\ actlist' = actlist
  BY HereIs, InfoHolds DEF OnEat, OnAction, InfoIsKept
<1>2. CASE act_index + 1 >= Len(actlist)
  <2>1. /\ act_index' = act_index + 1 /\ returned' = NULL
        /\ UNCHANGED <<atp, eap, eat_index>>
    BY <1>1, <1>2 DEF nextAct
  <2>2. Here' = Here BY <1>1, <1>2, <2>1 DEF Here
  <2>3. OnAction' BY <1>1, <2>1, <2>2 DEF OnAction, Current
  <2>4. OnEat' BY <1>1, <2>1, <2>2 DEF OnEat
  <2>5. QED BY <1>2, <2>1, <2>3, <2>4
<1>3. CASE ~ (act_index + 1 >= Len(actlist))
  <2> DEFINE there == atp + ActSize + Num(actlist, Here) * EatSize
  <2>1. ActsAt(atp) # {} BY <1>1, <1>3 DEF nextAct, ReadsAct
  <2>2. EatNums = {Num(actlist, Here)} BY <1>1, <2>1, ReadAct
  <2>3. /\ act_index' = act_index + 1 /\ atp' = there
        /\ eap' = there + ActSize /\ eat_index' = 0 /\ returned' = there
    BY <1>1, <1>3, <2>2 DEF nextAct
  <2>4. act_index + 1 < Len(actlist) BY <1>1, <1>3
  <2>5. Here' = Here + 1 /\ Here + 1 \in 1..Len(actlist)
    BY <1>1, <2>3, <2>4 DEF Here
  <2>6. there = ActAt(actlist, Here + 1)
    <3>1. ActAt(actlist, Here + 1) = ActAt(actlist, Here) + ActSize + Num(actlist, Here) * EatSize
      BY <1>1, Offsets
    <3>2. atp = ActAt(actlist, Here) BY <1>1 DEF Current
    <3>3. QED BY <3>1, <3>2
  <2> HIDE DEF there
  <2>7. (Current(Here))' BY <1>1, <2>3, <2>5, <2>6 DEF Current
  <2>8. OnAction' BY <1>1, <2>3, <2>7 DEF OnAction
  <2>9. OnEat'
    <3>1. eap' = atp' + EatOffset(eat_index' + 1)
      <4>1. eat_index' + 1 = 1 BY <2>3
      <4>2. QED BY <2>3, <4>1, EatOffsetNext
    <3>2. QED BY <1>1, <3>1 DEF OnEat
  <2>10. there \in Nat
    <3>1. Here + 1 \in 1..Len(actlist) + 1 BY <1>1
    <3>2. QED BY <1>1, <2>6, <3>1, Offsets
  <2>11. QED BY <1>3, <2>3, <2>8, <2>9, <2>10
<1>4. QED BY <1>2, <1>3

LEMMA FirstEatMoves ==
  ASSUME InfoIsKept, OnAction, OnEat, ~ outside', UNCHANGED <<actlist, info>>, firstEat
  PROVE  /\ OnAction' /\ OnEat' /\ atp' = atp /\ act_index' = act_index
         /\ IF Num(actlist, Here) = 0 THEN returned' = NULL
            ELSE eat_index' = 0 /\ returned' = eap' /\ eap' \in Nat
<1>1. /\ actlist # <<>> /\ Current(Here) /\ Num(actlist, Here) \in Nat /\ atp \in Nat
      /\ act_index \in Nat /\ eat_index \in Nat /\ actlist' = actlist
  BY HereIs DEF OnEat, OnAction
<1>2. ActsAt(atp) # {} BY DEF firstEat, ReadsAct
<1>3. EatNums = {Num(actlist, Here)} BY <1>1, <1>2, ReadAct
<1>4. CASE Num(actlist, Here) = 0
  <2>1. returned' = NULL /\ UNCHANGED cursor BY <1>3, <1>4 DEF firstEat
  <2>2. UNCHANGED <<atp, act_index, eap, eat_index>> BY <2>1 DEF cursor
  <2>3. Here' = Here BY <1>1, <2>2 DEF Here
  <2>4. OnAction' BY <1>1, <2>2, <2>3 DEF OnAction, Current
  <2>5. OnEat' BY <1>1, <2>2, <2>3 DEF OnEat
  <2>6. QED BY <1>4, <2>1, <2>2, <2>4, <2>5
<1>5. CASE Num(actlist, Here) # 0
  <2>1. /\ eap' = atp + ActSize /\ eat_index' = 0 /\ returned' = eap'
        /\ atp' = atp /\ act_index' = act_index
    BY <1>3, <1>5 DEF firstEat
  <2>2. Here' = Here BY <1>1, <2>1 DEF Here
  <2>3. OnAction' BY <1>1, <2>1, <2>2 DEF OnAction, Current
  <2>4. OnEat'
    <3>1. eap' = atp' + EatOffset(eat_index' + 1)
      <4>1. eat_index' + 1 = 1 BY <2>1
      <4>2. QED BY <2>1, <4>1, EatOffsetNext
    <3>2. QED BY <1>1, <3>1 DEF OnEat
  <2>5. QED BY <1>1, <1>5, <2>1, <2>3, <2>4
<1>6. QED BY <1>4, <1>5

LEMMA NextEatMoves ==
  ASSUME InfoIsKept, OnAction, OnEat, ~ outside', UNCHANGED <<actlist, info>>, nextEat
  PROVE  /\ OnAction' /\ OnEat' /\ atp' = atp /\ act_index' = act_index
         /\ eat_index' = eat_index + 1
         /\ IF eat_index + 1 >= Num(actlist, Here) THEN returned' = NULL
            ELSE returned' = eap' /\ eap' \in Nat
<1>1. /\ actlist # <<>> /\ Current(Here) /\ Num(actlist, Here) \in Nat /\ atp \in Nat
      /\ act_index \in Nat /\ eat_index \in Nat /\ actlist' = actlist
      /\ eat_index < Num(actlist, Here) => eap = atp + EatOffset(eat_index + 1)
  BY HereIs DEF OnEat, OnAction
<1>2. ActsAt(atp) # {} BY DEF nextEat, ReadsAct
<1>3. EatNums = {Num(actlist, Here)} BY <1>1, <1>2, ReadAct
<1>4. /\ eat_index' = eat_index + 1 /\ atp' = atp /\ act_index' = act_index
      /\ IF eat_index + 1 >= Num(actlist, Here) THEN returned' = NULL /\ eap' = eap
         ELSE eap' = eap + EatSize /\ returned' = eap'
  BY <1>3 DEF nextEat
<1>5. Here' = Here BY <1>1, <1>4 DEF Here
<1>6. OnAction' BY <1>1, <1>4, <1>5 DEF OnAction, Current
<1>7. ASSUME ~ (eat_index + 1 >= Num(actlist, Here))
      PROVE  eap' = atp' + EatOffset(eat_index' + 1) /\ eap' \in Nat
  <2>1. eap' = eap + EatSize /\ eap = atp + EatOffset(eat_index + 1) BY <1>1, <1>4, <1>7
  <2>2. /\ EatOffset(eat_index + 1) \in Nat
        /\ EatOffset((eat_index + 1) + 1) = EatOffset(eat_index + 1) + EatSize
    BY <1>1, EatOffsetNext
  <2>3. eap' = atp + EatOffset((eat_index + 1) + 1) /\ eap' \in Nat BY <1>1, <2>1, <2>2
  <2>4. QED BY <1>4, <2>3
<1>8. OnEat' BY <1>1, <1>4, <1>5, <1>7 DEF OnEat
<1>9. QED BY <1>1, <1>4, <1>6, <1>7, <1>8

--------------------------------------------------------------------------------
(* The links.                                                                 *)

Link == Acts \X Eats

LEMMA FirstLinksType ==
  ASSUME InfoIsKept, NEW i \in 1..Len(actlist), NEW m \in 0..Num(actlist, i)
  PROVE  FirstLinks(i, m) \in Seq(Link) /\ Len(FirstLinks(i, m)) = m
<1>1. /\ actlist[i].act \in Acts /\ Num(actlist, i) \in Nat
      /\ \A j \in 1..Num(actlist, i) : actlist[i].ealist[j] \in Eats
  BY ListTypes DEF InfoIsKept
<1>2. m \in Nat /\ \A j \in 1..m : j \in 1..Num(actlist, i) BY <1>1
<1>3. \A j \in 1..m : <<actlist[i].act, actlist[i].ealist[j]>> \in Link
  BY <1>1, <1>2 DEF Link
<1>4. FirstLinks(i, m) \in [1..m -> Link] BY <1>3 DEF FirstLinks
<1>5. FirstLinks(i, m) \in Seq(Link) BY <1>2, <1>4, SeqDef
<1>6. DOMAIN FirstLinks(i, m) = 1..m BY DEF FirstLinks
<1>7. Len(FirstLinks(i, m)) = m BY <1>2, <1>5, <1>6, LenProperties
<1>8. QED BY <1>5, <1>7

\* An environment action more of an action is a link more.
LEMMA FirstLinksNext ==
  ASSUME InfoIsKept, NEW i \in 1..Len(actlist), NEW m \in Nat, m < Num(actlist, i)
  PROVE  /\ FirstLinks(i, m + 1)
              = Append(FirstLinks(i, m), <<actlist[i].act, actlist[i].ealist[m + 1]>>)
         /\ <<actlist[i].act, actlist[i].ealist[m + 1]>> \in Link
<1> DEFINE new == <<actlist[i].act, actlist[i].ealist[m + 1]>>
           less == FirstLinks(i, m)
           more == FirstLinks(i, m + 1)
<1>1. /\ actlist[i].act \in Acts /\ Num(actlist, i) \in Nat
      /\ \A j \in 1..Num(actlist, i) : actlist[i].ealist[j] \in Eats
  BY ListTypes DEF InfoIsKept
<1>2. m \in 0..Num(actlist, i) /\ m + 1 \in 0..Num(actlist, i) /\ m + 1 \in 1..Num(actlist, i)
  BY <1>1
<1>3. new \in Link BY <1>1, <1>2 DEF Link
<1>4. less \in Seq(Link) /\ Len(less) = m BY <1>2, FirstLinksType
<1>5. more \in Seq(Link) /\ Len(more) = m + 1 BY <1>2, FirstLinksType
<1>6. more[m + 1] = new /\ \A j \in 1..m : more[j] = less[j]
  BY <1>2 DEF FirstLinks
<1> HIDE DEF less, more, new
<1> DEFINE longer == Append(less, new)
<1>7. /\ longer \in Seq(Link) /\ Len(longer) = m + 1 /\ longer[m + 1] = new
      /\ \A j \in 1..m : longer[j] = less[j]
  BY <1>3, <1>4, AppendProperties
<1> HIDE DEF longer
<1>8. \A j \in 1..m + 1 : more[j] = longer[j]
  <2> TAKE j \in 1..m + 1
  <2>1. j = m + 1 \/ j \in 1..m OBVIOUS
  <2>2. QED BY <1>6, <1>7, <2>1
<1>9. more = longer BY <1>5, <1>7, <1>8, SeqEqual
<1>10. QED BY <1>3, <1>9 DEF less, more, new, longer

\* An action more adds all its links.
LEMMA LinksNext ==
  ASSUME InfoIsKept
  PROVE  /\ Links(0) = <<>>
         /\ \A n \in 0..Len(actlist) : Links(n) \in Seq(Link)
         /\ \A n \in Nat : n < Len(actlist) =>
              Links(n + 1) = Links(n) \o FirstLinks(n + 1, Num(actlist, n + 1))
<1> DEFINE seqs(n) == [i \in 1..n |-> FirstLinks(i, Num(actlist, i))]
           added(n) == FirstLinks(n + 1, Num(actlist, n + 1))
<1>1. Len(actlist) \in Nat BY ListTypes DEF InfoIsKept
<1>2. Links(0) = <<>>
  <2>1. seqs(0) = <<>> OBVIOUS
  <2>2. FlattenSeq(<<>>) = <<>> BY DEF FlattenSeq
  <2>3. QED BY <2>1, <2>2 DEF Links
<1>3. ASSUME NEW n \in Nat, n < Len(actlist) PROVE added(n) \in Seq(Link)
  <2>1. n + 1 \in 1..Len(actlist) BY <1>1, <1>3
  <2>2. Num(actlist, n + 1) \in 0..Num(actlist, n + 1) BY <2>1, ListTypes DEF InfoIsKept
  <2>3. QED BY <2>1, <2>2, FirstLinksType
<1>4. ASSUME NEW n \in Nat, n < Len(actlist) PROVE Links(n + 1) = Links(n) \o added(n)
  <2> DEFINE s == seqs(n)
             t == seqs(n + 1)
             x == added(n)
  <2>1. Len(s) = n /\ Len(t) = n + 1 OBVIOUS
  <2>2. t[n + 1] = x /\ \A k \in 1..n : s[k] = t[k] OBVIOUS
  <2>3. Links(n) = FlattenSeq(s) /\ Links(n + 1) = FlattenSeq(t) BY DEF Links
  <2>4. x \in Seq(Link) BY <1>3, <1>4
  <2> HIDE DEF s, t, x
  <2>5. FlattenSeq(t) = IF n = 0 THEN t[1] ELSE FlattenSeq(s) \o t[n + 1]
    BY <2>1, <2>2, FlattenMore
  <2>6. CASE n = 0
    <3>1. Links(n) = <<>> BY <1>2, <2>6
    <3>2. Links(n + 1) = x BY <2>2, <2>3, <2>5, <2>6
    <3>3. <<>> \o x = x BY <2>4, ConcatEmptySeq
    <3>4. QED BY <3>1, <3>2, <3>3 DEF x
  <2>7. CASE n # 0
    <3>1. Links(n + 1) = Links(n) \o x BY ONLY <2>2, <2>3, <2>5, <2>7, Zenon
    <3>2. QED BY <3>1 DEF x
  <2>8. QED BY <2>6, <2>7
<1> DEFINE Good == {n \in Nat : n <= Len(actlist) => Links(n) \in Seq(Link)}
<1> HIDE DEF added, seqs
<1>5. 0 \in Good
  <2>1. <<>> \in Seq(Link) BY EmptySeq
  <2>2. QED BY <1>2, <2>1
<1>6. ASSUME NEW n \in Nat, n \in Good PROVE n + 1 \in Good
  <2> SUFFICES ASSUME n + 1 <= Len(actlist) PROVE Links(n + 1) \in Seq(Link) OBVIOUS
  <2>1. n < Len(actlist) /\ n <= Len(actlist) BY <1>1
  <2>2. Links(n) \in Seq(Link) /\ added(n) \in Seq(Link) BY <1>3, <1>6, <2>1
  <2>3. Links(n + 1) = Links(n) \o added(n) BY <1>4, <2>1
  <2>4. Links(n) \o added(n) \in Seq(Link) BY ONLY <2>2, ConcatProperties
  <2>5. QED BY <2>3, <2>4
<1>7. Nat \subseteq Good
  <2> HIDE DEF Good
  <2>1. QED BY <1>5, <1>6, InductionOnNat
<1>8. \A n \in 0..Len(actlist) : Links(n) \in Seq(Link) BY <1>1, <1>7
<1>9. QED BY <1>2, <1>4, <1>8 DEF added

\* Where a reader is in the links: at the first of an action, at the next one, and
\* behind the last.
LEMMA LinksStep ==
  ASSUME InfoIsKept, NEW n \in Nat, n < Len(actlist)
  PROVE  /\ Links(n) \o FirstLinks(n + 1, 0) = Links(n)
         /\ \A m \in Nat : m < Num(actlist, n + 1) =>
              Append(Links(n) \o FirstLinks(n + 1, m),
                     <<actlist[n + 1].act, actlist[n + 1].ealist[m + 1]>>)
                = Links(n) \o FirstLinks(n + 1, m + 1)
<1>1. Len(actlist) \in Nat BY ListTypes DEF InfoIsKept
<1>2. n + 1 \in 1..Len(actlist) /\ n \in 0..Len(actlist) BY <1>1
<1>3. Links(n) \in Seq(Link) /\ Num(actlist, n + 1) \in Nat
  BY <1>2, LinksNext, ListTypes DEF InfoIsKept
<1>4. FirstLinks(n + 1, 0) = <<>> BY DEF FirstLinks
<1>5. Links(n) \o <<>> = Links(n) BY ONLY <1>3, ConcatEmptySeq
<1>6. ASSUME NEW m \in Nat, m < Num(actlist, n + 1)
      PROVE  Append(Links(n) \o FirstLinks(n + 1, m),
                    <<actlist[n + 1].act, actlist[n + 1].ealist[m + 1]>>)
               = Links(n) \o FirstLinks(n + 1, m + 1)
  <2> DEFINE s == Links(n)
             t == FirstLinks(n + 1, m)
             x == <<actlist[n + 1].act, actlist[n + 1].ealist[m + 1]>>
  <2>1. FirstLinks(n + 1, m + 1) = Append(t, x) /\ x \in Link
    BY <1>2, <1>6, FirstLinksNext
  <2>2. t \in Seq(Link)
    <3>1. m \in 0..Num(actlist, n + 1) BY <1>3, <1>6
    <3>2. QED BY <1>2, <3>1, FirstLinksType
  <2>3. s \in Seq(Link) BY <1>3
  <2> HIDE DEF s, t, x
  <2>4. s \o t \in Seq(Link) BY ONLY <2>2, <2>3, ConcatProperties
  <2>5. Append(s \o t, x) = (s \o t) \o <<x>> BY ONLY <2>1, <2>4, AppendIsConcat
  <2>6. Append(t, x) = t \o <<x>> BY ONLY <2>1, <2>2, AppendIsConcat
  <2>7. <<x>> \in Seq(Link) BY <2>1
  <2>8. (s \o t) \o <<x>> = s \o (t \o <<x>>) BY ONLY <2>2, <2>3, <2>7, ConcatAssociative
  <2>9. Append(s \o t, x) = s \o FirstLinks(n + 1, m + 1) BY ONLY <2>1, <2>5, <2>6, <2>8, Zenon
  <2>10. QED BY <2>9 DEF s, t, x
<1>7. QED BY ONLY <1>4, <1>5, <1>6, Zenon

\* All links are those of the list.
LEMMA LinksAll == ASSUME InfoIsKept PROVE Links(Len(actlist)) = LinksOf(actlist)
<1>1. /\ DOMAIN actlist = 1..Len(actlist)
      /\ \A i \in 1..Len(actlist) : DOMAIN actlist[i].ealist = 1..Num(actlist, i)
  BY ListTypes DEF InfoIsKept
<1>2. \A i \in 1..Len(actlist) :
        [j \in DOMAIN actlist[i].ealist |-> <<actlist[i].act, actlist[i].ealist[j]>>]
          = FirstLinks(i, Num(actlist, i))
  BY <1>1 DEF FirstLinks
<1>3. [i \in DOMAIN actlist |->
         [j \in DOMAIN actlist[i].ealist |-> <<actlist[i].act, actlist[i].ealist[j]>>]]
        = [i \in 1..Len(actlist) |-> FirstLinks(i, Num(actlist, i))]
  BY <1>1, <1>2
<1>4. QED BY <1>3 DEF Links, LinksOf

--------------------------------------------------------------------------------
(* Every call keeps the cursor and what was built.                            *)

LEMMA InfoStarts == InfoInit => InfoInv
<1> SUFFICES ASSUME InfoInit PROVE InfoInv OBVIOUS
<1>1. InfoIsKept BY ListsAssumption DEF InfoInit, InfoIsKept, ActList
<1>2. OnAction
  <2>1. ASSUME actlist # <<>> PROVE Current(Here)
    <3>1. Len(actlist) \in Nat /\ Len(actlist) # 0
      <4>1. actlist \in ActList BY <1>1 DEF InfoIsKept
      <4>2. QED BY <2>1, <4>1, EmptySeq, ListTypes DEF ActList
    <3>2. act_index = 0 /\ atp = HdSize BY DEF InfoInit
    <3>3. Here = 1 /\ 1 \in 1..Len(actlist) BY <3>1, <3>2 DEF Here
    <3>4. QED BY <3>2, <3>3, ActAtFirst DEF Current
  <2>2. QED BY <2>1 DEF OnAction, InfoInit
<1>3. pc = "first_act" /\ built = <<>> /\ outside = FALSE BY DEF InfoInit
<1>4. BuildInv BY <1>3 DEF BuildInv
<1>5. AnyInv BY <1>3 DEF AnyInv
<1>6. QED BY <1>1, <1>2, <1>3, <1>4, <1>5 DEF InfoInv

\* The list that is read stays, and what is said of it.
LEMMA InfoStays ==
  ASSUME InfoIsKept, UNCHANGED <<actlist, info>>
  PROVE  /\ InfoIsKept' /\ (Whole' <=> Whole)
         /\ (Links(act_index))' = Links(act_index')
         /\ (Links(act_index + 1))' = Links(act_index' + 1)
         /\ (FirstLinks(Here, eat_index))' = FirstLinks(Here', eat_index')
         /\ (FirstLinks(Here, eat_index + 1))' = FirstLinks(Here', eat_index' + 1)
         /\ (Num(actlist, Here))' = Num(actlist, Here')
         /\ (actlist[Here].act)' = actlist[Here'].act
         /\ (LinksOf(actlist))' = LinksOf(actlist)
<1>1. actlist' = actlist /\ info' = info OBVIOUS
<1>2. InfoIsKept' BY <1>1 DEF InfoIsKept
<1>3. Whole' <=> Whole BY <1>1 DEF Whole
<1>4. (Links(act_index))' = Links(act_index') BY <1>1 DEF Links, FirstLinks, Num
<1>5. (Links(act_index + 1))' = Links(act_index' + 1) BY <1>1 DEF Links, FirstLinks, Num
<1>6. (FirstLinks(Here, eat_index))' = FirstLinks(Here', eat_index')
  BY <1>1 DEF FirstLinks
<1>7. (FirstLinks(Here, eat_index + 1))' = FirstLinks(Here', eat_index' + 1)
  BY <1>1 DEF FirstLinks
<1>8. (Num(actlist, Here))' = Num(actlist, Here') BY <1>1 DEF Num
<1>9. (LinksOf(actlist))' = LinksOf(actlist) BY <1>1
<1>10. QED BY <1>1, <1>2, <1>3, <1>4, <1>5, <1>6, <1>7, <1>8, <1>9

LEMMA CursorStays ==
  ASSUME OnAction, UNCHANGED <<actlist, cursor>>
  PROVE  /\ UNCHANGED <<atp, act_index, eap, eat_index, Here>>
         /\ OnAction' /\ (OnEat => OnEat')
<1>1. UNCHANGED <<actlist, atp, act_index, eap, eat_index>> BY DEF cursor
<1>2. Here' = Here BY <1>1 DEF Here
<1>3. OnAction' BY <1>1, <1>2 DEF OnAction, Current
<1>4. OnEat => OnEat' BY <1>1, <1>2 DEF OnEat, Num
<1>5. QED BY <1>1, <1>2, <1>3, <1>4

\* The header of the current action of a whole information is there.
LEMMA ActThere ==
  ASSUME InfoIsKept, OnAction, actlist # <<>>
  PROVE  /\ ActsAt(atp) # {} =>
              EatNums = {Num(actlist, Here)} /\ ActsRead = {actlist[Here].act}
         /\ Whole => ActsAt(atp) # {}
BY HereIs, ReadAct

\* The environment action the cursor is on is the next one of the current action,
\* if it is there.
LEMMA EatThere ==
  ASSUME InfoIsKept, OnAction, OnEat, eat_index < Num(actlist, Here)
  PROVE  /\ \A e \in EatsAt(eap) : e.eat = actlist[Here].ealist[eat_index + 1]
         /\ Whole => EatsAt(eap) # {}
<1>1. /\ Current(Here) /\ eat_index + 1 \in 1..Num(actlist, Here)
      /\ eap = atp + EatOffset(eat_index + 1)
  BY HereIs DEF OnEat, OnAction
<1>2. QED BY <1>1, ReadEat

LEMMA BuildActKeeps == ASSUME InfoInv, BuildAct PROVE InfoInv'
<1>1. /\ InfoIsKept /\ client = "build" /\ pc \in {"first_act", "next_act"}
      /\ client' = "build" /\ UNCHANGED <<actlist, info, built>>
      /\ pc' = IF returned' = NULL THEN "done" ELSE "new_act"
      /\ actlist \in ActList /\ Len(actlist) \in Nat
      /\ ~ outside => OnAction /\ BuildInv
  BY ListTypes DEF InfoInv, BuildAct, InfoIsKept
<1>2. /\ InfoIsKept' /\ (Whole' <=> Whole) /\ (Links(act_index))' = Links(act_index')
      /\ (LinksOf(actlist))' = LinksOf(actlist)
  BY <1>1, InfoStays
<1>3. /\ outside => outside'
      /\ outside' => outside \/ (pc = "next_act" /\ ActsAt(atp) = {})
  BY <1>1 DEF BuildAct, firstAct, nextAct, ReadsAct
<1>4. ASSUME Whole PROVE ~ outside'
  <2>1. OnAction /\ BuildInv /\ ~ outside BY <1>1, <1>4 DEF InfoInv
  <2>2. pc = "next_act" => actlist # <<>> BY <2>1 DEF BuildInv, OnEat
  <2>3. pc = "next_act" => ActsAt(atp) # {} BY <1>1, <1>4, <2>1, <2>2, ActThere
  <2>4. QED BY <1>3, <2>1, <2>3
<1>5. ASSUME ~ outside', pc = "first_act" PROVE OnAction' /\ BuildInv'
  <2>1. OnAction /\ firstAct /\ built' = <<>>
    BY <1>1, <1>3, <1>5 DEF BuildAct, BuildInv
  <2>2. Links(0) = <<>> BY <1>1, LinksNext
  <2>3. CASE actlist = <<>>
    <3>1. info.act_num = 0 BY <1>1, <2>3, InfoHolds
    <3>2. returned' = NULL /\ UNCHANGED cursor BY <1>1, <2>1, <3>1 DEF firstAct
    <3>3. OnAction' BY <1>1, <2>1, <3>2, CursorStays
    <3>4. built' = (LinksOf(actlist))'
      <4>1. Len(actlist) = 0 BY <2>3
      <4>2. Links(0) = LinksOf(actlist) BY <1>1, <4>1, LinksAll
      <4>3. QED BY <1>2, <2>1, <2>2, <4>2
    <3>5. BuildInv' BY <1>1, <3>2, <3>4 DEF BuildInv
    <3>6. QED BY <3>3, <3>5
  <2>4. CASE actlist # <<>>
    <3>1. OnAction' /\ OnEat' /\ act_index' = 0 /\ returned' = atp' /\ atp' \in Nat
      BY <1>1, <2>1, <2>4, FirstActMoves
    <3>2. pc' = "new_act" BY <1>1, <3>1
    <3>3. act_index' < Len(actlist')
      <4>1. Len(actlist) # 0 BY <1>1, <2>4, EmptySeq DEF ActList
      <4>2. QED BY <1>1, <3>1, <4>1
    <3>4. built' = (Links(act_index))' BY <1>2, <2>1, <2>2, <3>1
    <3>5. BuildInv' BY <3>1, <3>2, <3>3, <3>4 DEF BuildInv
    <3>6. QED BY <3>1, <3>5
  <2>5. QED BY <2>3, <2>4
<1>6. ASSUME ~ outside', pc = "next_act" PROVE OnAction' /\ BuildInv'
  <2>1. /\ OnAction /\ nextAct /\ OnEat /\ act_index < Len(actlist)
        /\ built' = Links(act_index + 1)
    BY <1>1, <1>3, <1>6 DEF BuildAct, BuildInv
  <2>2. /\ OnAction' /\ OnEat' /\ act_index' = act_index + 1
        /\ IF act_index + 1 >= Len(actlist) THEN returned' = NULL
           ELSE returned' = atp' /\ atp' \in Nat
    BY <1>1, <1>6, <2>1, NextActMoves
  <2>3. act_index \in Nat BY <2>1 DEF OnAction
  <2>4. CASE act_index + 1 >= Len(actlist)
    <3>1. act_index + 1 = Len(actlist) BY <1>1, <2>1, <2>3, <2>4
    <3>2. built' = (LinksOf(actlist))' BY <1>1, <1>2, <2>1, <3>1, LinksAll
    <3>3. pc' = "done" BY <1>1, <2>2, <2>4
    <3>4. BuildInv' BY <3>2, <3>3 DEF BuildInv
    <3>5. QED BY <2>2, <3>4
  <2>5. CASE ~ (act_index + 1 >= Len(actlist))
    <3>1. pc' = "new_act" BY <1>1, <2>2, <2>5
    <3>2. act_index' < Len(actlist') BY <1>1, <2>2, <2>3, <2>5
    <3>3. built' = (Links(act_index))' BY <1>2, <2>1, <2>2
    <3>4. BuildInv' BY <2>2, <3>1, <3>2, <3>3 DEF BuildInv
    <3>5. QED BY <2>2, <3>4
  <2>6. QED BY <2>4, <2>5
<1>7. QED BY <1>1, <1>2, <1>4, <1>5, <1>6 DEF InfoInv

LEMMA BuildNewActKeeps == ASSUME InfoInv, BuildNewAct PROVE InfoInv'
<1>1. /\ InfoIsKept /\ client' = "build" /\ pc = "new_act" /\ pc' = "first_eat"
      /\ UNCHANGED <<actlist, info, cursor, built>>
      /\ mac' \in ActsRead /\ outside' = (outside \/ ActsAt(atp) = {})
      /\ ~ outside => OnAction /\ OnEat /\ act_index < Len(actlist) /\ built = Links(act_index)
  BY DEF InfoInv, BuildNewAct, ReadsAct, BuildInv
<1>2. /\ InfoIsKept' /\ (Whole' <=> Whole) /\ (Links(act_index))' = Links(act_index')
      /\ (actlist[Here].act)' = actlist[Here'].act
  BY <1>1, InfoStays
<1>3. ~ outside => actlist # <<>> BY <1>1 DEF OnEat
<1>4. ASSUME Whole PROVE ~ outside'
  <2>1. ~ outside BY <1>4 DEF InfoInv
  <2>2. QED BY <1>1, <1>3, <1>4, <2>1, ActThere
<1>5. ASSUME ~ outside' PROVE OnAction' /\ BuildInv'
  <2>1. ~ outside /\ ActsAt(atp) # {} BY <1>1, <1>5
  <2>2. mac' = actlist[Here].act BY <1>1, <1>3, <2>1, ActThere
  <2>3. UNCHANGED <<act_index, Here>> /\ OnAction' /\ OnEat' BY <1>1, <2>1, CursorStays
  <2>4. act_index' < Len(actlist') BY <1>1, <2>1, <2>3
  <2>5. BuildInv' BY <1>1, <1>2, <2>1, <2>2, <2>3, <2>4 DEF BuildInv
  <2>6. QED BY <2>3, <2>5
<1>6. QED BY <1>1, <1>2, <1>4, <1>5 DEF InfoInv

LEMMA BuildEatKeeps == ASSUME InfoInv, BuildEat PROVE InfoInv'
<1>1. /\ InfoIsKept /\ client = "build" /\ pc \in {"first_eat", "next_eat"}
      /\ client' = "build" /\ UNCHANGED <<actlist, info, mac, built>>
      /\ outside' = (outside \/ ActsAt(atp) = {})
      /\ pc' = IF returned' = NULL THEN "next_act" ELSE "new_eat"
      /\ pc = "first_eat" => firstEat
      /\ pc = "next_eat" => nextEat
      /\ ~ outside => /\ OnAction /\ OnEat /\ act_index < Len(actlist)
                      /\ mac = actlist[Here].act
                      /\ pc = "first_eat" => built = Links(act_index)
                      /\ pc = "next_eat" =>
                           /\ eat_index < Num(actlist, Here)
                           /\ built = Links(act_index) \o FirstLinks(Here, eat_index + 1)
  BY DEF InfoInv, BuildEat, BuildInv, firstEat, nextEat, ReadsAct
<1>2. /\ InfoIsKept' /\ (Whole' <=> Whole)
      /\ (Links(act_index))' = Links(act_index')
      /\ (Links(act_index + 1))' = Links(act_index' + 1)
      /\ (FirstLinks(Here, eat_index))' = FirstLinks(Here', eat_index')
      /\ (Num(actlist, Here))' = Num(actlist, Here')
      /\ (actlist[Here].act)' = actlist[Here'].act
  BY <1>1, InfoStays
<1>3. ASSUME Whole PROVE ~ outside'
  <2>1. ~ outside BY <1>3 DEF InfoInv
  <2>2. actlist # <<>> BY <1>1, <2>1 DEF OnEat
  <2>3. QED BY <1>1, <1>3, <2>1, <2>2, ActThere
<1>4. ASSUME ~ outside' PROVE OnAction' /\ BuildInv'
  <2> DEFINE n == act_index
             num == Num(actlist, act_index + 1)
  <2>1. /\ OnAction /\ OnEat /\ n < Len(actlist) /\ mac = actlist[Here].act
        /\ pc = "first_eat" => built = Links(n)
        /\ pc = "next_eat" => /\ eat_index < Num(actlist, Here)
                              /\ built = Links(n) \o FirstLinks(Here, eat_index + 1)
    BY <1>1, <1>4
  <2>2. /\ actlist # <<>> /\ n \in Nat /\ Len(actlist) \in Nat /\ Here = n + 1
        /\ num \in Nat /\ eat_index \in Nat
    BY <1>1, <2>1, HereIs DEF OnEat, OnAction
  <2>3. /\ OnAction' /\ OnEat' /\ act_index' = act_index
        /\ pc = "first_eat" =>
             IF num = 0 THEN returned' = NULL
             ELSE eat_index' = 0 /\ returned' = eap' /\ eap' \in Nat
        /\ pc = "next_eat" =>
             /\ eat_index' = eat_index + 1
             /\ IF eat_index + 1 >= num THEN returned' = NULL
                ELSE returned' = eap' /\ eap' \in Nat
    BY <1>1, <1>4, <2>1, <2>2, FirstEatMoves, NextEatMoves
  <2>4. Here' = Here /\ act_index' < Len(actlist') BY <1>1, <2>1, <2>3 DEF Here
  <2>5. /\ Links(n + 1) = Links(n) \o FirstLinks(n + 1, num)
        /\ Links(n) \o FirstLinks(n + 1, 0) = Links(n)
    BY <1>1, <2>1, <2>2, LinksNext, LinksStep
  <2>6. CASE pc' = "next_act"
    <3>1. \/ pc = "first_eat" /\ num = 0 /\ built = Links(n)
          \/ pc = "next_eat" /\ num = eat_index + 1
               /\ built = Links(n) \o FirstLinks(n + 1, eat_index + 1)
      BY <1>1, <2>1, <2>2, <2>3, <2>6
    <3>2. built = Links(n + 1) BY ONLY <2>5, <3>1, Zenon
    <3>3. built' = (Links(act_index + 1))' BY <1>1, <1>2, <2>3, <3>2
    <3>4. BuildInv' BY <2>3, <2>4, <2>6, <3>3 DEF BuildInv
    <3>5. QED BY <2>3, <3>4
  <2>7. CASE pc' = "new_eat"
    <3>1. returned' = eap' BY <1>1, <2>3, <2>7
    <3>2. /\ eat_index' < num
          /\ \/ eat_index' = 0 /\ built = Links(n)
             \/ built = Links(n) \o FirstLinks(n + 1, eat_index')
      <4>1. CASE pc = "first_eat" BY <1>1, <2>1, <2>2, <2>3, <2>7, <4>1
      <4>2. CASE pc = "next_eat" BY <1>1, <2>1, <2>2, <2>3, <2>7, <4>2
      <4>3. QED BY <1>1, <4>1, <4>2
    <3>3. built = Links(n) \o FirstLinks(n + 1, eat_index')
      BY ONLY <2>5, <3>2, Zenon
    <3>4. built' = (Links(act_index) \o FirstLinks(Here, eat_index))'
      <4>1. (Links(act_index))' = Links(n) BY <1>2, <2>3
      <4>2. (FirstLinks(Here, eat_index))' = FirstLinks(n + 1, eat_index')
        BY <1>2, <2>2, <2>4
      <4>3. built' = built BY <1>1
      <4>4. QED BY ONLY <3>3, <4>1, <4>2, <4>3, Zenon
    <3>5. eat_index' < (Num(actlist, Here))' BY <1>2, <2>2, <2>4, <3>2
    <3>6. mac' = (actlist[Here].act)' BY <1>1, <1>2, <2>1, <2>4
    <3>7. BuildInv' BY <2>3, <2>4, <2>7, <3>1, <3>4, <3>5, <3>6 DEF BuildInv
    <3>8. QED BY <2>3, <3>7
  <2>8. QED BY <1>1, <2>6, <2>7
<1>5. QED BY <1>1, <1>2, <1>3, <1>4 DEF InfoInv

LEMMA BuildLinkKeeps == ASSUME InfoInv, BuildLink PROVE InfoInv'
<1>1. /\ InfoIsKept /\ client' = "build" /\ UNCHANGED <<actlist, info, cursor, mac>>
      /\ pc' = "next_eat"
      /\ \E eat \in EatsRead : built' = Append(built, <<mac, eat>>)
      /\ outside' = (outside \/ EatsAt(returned) = {})
      /\ ~ outside =>
           /\ OnAction /\ OnEat /\ act_index < Len(actlist) /\ mac = actlist[Here].act
           /\ returned = eap /\ eat_index < Num(actlist, Here)
           /\ built = Links(act_index) \o FirstLinks(Here, eat_index)
  BY DEF InfoInv, BuildLink, BuildInv
<1>2. /\ InfoIsKept' /\ (Whole' <=> Whole)
      /\ (Links(act_index))' = Links(act_index')
      /\ (FirstLinks(Here, eat_index + 1))' = FirstLinks(Here', eat_index' + 1)
      /\ (Num(actlist, Here))' = Num(actlist, Here')
      /\ (actlist[Here].act)' = actlist[Here'].act
  BY <1>1, InfoStays
<1>3. /\ ~ outside => \A e \in EatsAt(returned) :
                        e.eat = actlist[Here].ealist[eat_index + 1]
      /\ ~ outside /\ Whole => EatsAt(returned) # {}
  BY <1>1, EatThere
<1>4. Whole => ~ outside' BY <1>1, <1>3 DEF InfoInv
<1>5. ASSUME ~ outside' PROVE OnAction' /\ BuildInv'
  <2> DEFINE n == act_index
             k == eat_index
  <2>1. /\ ~ outside /\ EatsAt(returned) # {}
        /\ OnAction /\ OnEat /\ n < Len(actlist) /\ mac = actlist[Here].act
        /\ k < Num(actlist, Here) /\ built = Links(n) \o FirstLinks(Here, k)
    BY <1>1, <1>5
  <2>2. n \in Nat /\ k \in Nat /\ Here = n + 1 BY <1>1, <2>1, HereIs DEF OnEat, OnAction
  <2>3. EatsRead = {actlist[Here].ealist[k + 1]}
    <3>1. EatsRead = {e.eat : e \in EatsAt(returned)} BY <2>1 DEF EatsRead
    <3>2. \A e \in EatsAt(returned) : e.eat = actlist[Here].ealist[k + 1] BY <1>3, <2>1
    <3>3. QED BY ONLY <2>1, <3>1, <3>2
  <2>4. built' = Append(built, <<actlist[n + 1].act, actlist[n + 1].ealist[k + 1]>>)
    BY <1>1, <2>1, <2>2, <2>3
  <2>5. Append(Links(n) \o FirstLinks(n + 1, k),
               <<actlist[n + 1].act, actlist[n + 1].ealist[k + 1]>>)
          = Links(n) \o FirstLinks(n + 1, k + 1)
    BY <1>1, <2>1, <2>2, LinksStep
  <2>6. built = Links(n) \o FirstLinks(n + 1, k) BY <2>1, <2>2
  <2>7. built' = Links(n) \o FirstLinks(n + 1, k + 1) BY ONLY <2>4, <2>5, <2>6, Zenon
  <2>8. UNCHANGED <<act_index, eat_index, Here>> /\ OnAction' /\ OnEat'
    BY <1>1, <2>1, CursorStays
  <2>9. built' = (Links(act_index) \o FirstLinks(Here, eat_index + 1))'
    <3>1. (Links(act_index))' = Links(n) BY <1>2, <2>8
    <3>2. (FirstLinks(Here, eat_index + 1))' = FirstLinks(n + 1, k + 1) BY <1>2, <2>2, <2>8
    <3>3. QED BY ONLY <2>7, <3>1, <3>2, Zenon
  <2>10. /\ eat_index' < (Num(actlist, Here))' /\ mac' = (actlist[Here].act)'
         /\ act_index' < Len(actlist')
    BY <1>1, <1>2, <2>1, <2>8
  <2>11. BuildInv' BY <1>1, <2>8, <2>9, <2>10 DEF BuildInv
  <2>12. QED BY <2>8, <2>11
<1>6. QED BY <1>1, <1>2, <1>4, <1>5 DEF InfoInv

LEMMA AnyCallKeeps == ASSUME InfoInv, AnyCall PROVE InfoInv'
<1>1. /\ InfoIsKept /\ client # "build" /\ client' # "build" /\ UNCHANGED <<actlist, info>>
      /\ ~ outside => OnAction /\ AnyInv
  BY DEF InfoInv, AnyCall
<1>2. /\ InfoIsKept' /\ (Whole' <=> Whole) /\ (Num(actlist, Here))' = Num(actlist, Here')
  BY <1>1, InfoStays
<1>3. CASE firstAct /\ pc' = IF returned' = NULL THEN pc ELSE "has_act"
  <2>1. outside' = outside BY <1>3 DEF firstAct
  <2>2. CASE actlist = <<>>
    <3>1. info.act_num = 0
      <4>1. Len(actlist) = 0 BY <2>2
      <4>2. QED BY <1>1, <4>1, InfoHolds
    <3>2. returned' = NULL /\ UNCHANGED cursor BY <1>3, <3>1 DEF firstAct
    <3>3. ASSUME ~ outside PROVE OnAction' /\ AnyInv'
      <4>1. OnAction' BY <1>1, <3>2, <3>3, CursorStays
      <4>2. pc' = "first_act" BY <1>1, <1>3, <2>2, <3>2, <3>3 DEF AnyInv, OnEat
      <4>3. QED BY <4>1, <4>2 DEF AnyInv
    <3>4. QED BY <1>1, <1>2, <2>1, <3>3 DEF InfoInv
  <2>3. CASE actlist # <<>>
    <3>1. /\ OnAction' /\ OnEat' /\ returned' = atp' /\ atp' \in Nat
      BY <1>1, <1>3, <2>3, FirstActMoves
    <3>2. pc' = "has_act" BY <1>3, <3>1
    <3>3. AnyInv' BY <3>1, <3>2 DEF AnyInv
    <3>4. QED BY <1>1, <1>2, <2>1, <3>1, <3>3 DEF InfoInv
  <2>4. QED BY <2>2, <2>3
<1>4. ASSUME pc = "has_act", nextAct \/ firstEat \/ nextEat, UNCHANGED pc PROVE InfoInv'
  <2>1. /\ outside => outside'
        /\ outside' => outside \/ ActsAt(atp) = {}
    BY <1>4 DEF nextAct, firstEat, nextEat, ReadsAct
  <2>2. ~ outside => /\ OnAction /\ OnEat /\ actlist # <<>>
    BY <1>1, <1>4 DEF AnyInv, OnEat
  <2>3. ASSUME Whole PROVE ~ outside'
    <3>1. ~ outside BY <2>3 DEF InfoInv
    <3>2. ActsAt(atp) # {} BY <1>1, <2>2, <2>3, <3>1, ActThere
    <3>3. QED BY <2>1, <3>1, <3>2
  <2>4. ASSUME ~ outside' PROVE OnAction' /\ AnyInv'
    <3>1. OnAction /\ OnEat /\ actlist # <<>> BY <2>1, <2>2, <2>4
    <3>2. Num(actlist, Here) \in Nat /\ eat_index \in Nat BY <1>1, <3>1, HereIs DEF OnAction
    <3>3. CASE nextAct
      <4>1. OnAction' /\ OnEat' /\ returned' \in {NULL, atp'}
        BY <1>1, <2>4, <3>1, <3>3, NextActMoves
      <4>2. QED BY <1>4, <4>1 DEF AnyInv
    <3>4. CASE firstEat
      <4>1. /\ OnAction' /\ OnEat' /\ act_index' = act_index
            /\ IF Num(actlist, Here) = 0 THEN returned' = NULL
               ELSE eat_index' = 0 /\ returned' = eap'
        BY <1>1, <2>4, <3>1, <3>4, FirstEatMoves
      <4>2. (Num(actlist, Here))' = Num(actlist, Here) BY <1>1, <4>1 DEF Here, Num
      <4>3. QED BY <1>4, <3>2, <4>1, <4>2 DEF AnyInv
    <3>5. CASE nextEat
      <4>1. /\ OnAction' /\ OnEat' /\ act_index' = act_index /\ eat_index' = eat_index + 1
            /\ IF eat_index + 1 >= Num(actlist, Here) THEN returned' = NULL
               ELSE returned' = eap'
        BY <1>1, <2>4, <3>1, <3>5, NextEatMoves
      <4>2. (Num(actlist, Here))' = Num(actlist, Here) BY <1>1, <4>1 DEF Here, Num
      <4>3. QED BY <1>4, <3>2, <4>1, <4>2 DEF AnyInv
    <3>6. QED BY <1>4, <3>3, <3>4, <3>5
  <2>5. QED BY <1>1, <1>2, <2>3, <2>4 DEF InfoInv
<1>5. QED BY <1>3, <1>4 DEF AnyCall

LEMMA NoCallKeeps == ASSUME InfoInv, UNCHANGED infoVars PROVE InfoInv'
<1>1. /\ InfoIsKept
      /\ UNCHANGED <<actlist, info, cursor, returned, client, pc, mac, built, outside>>
  BY DEF InfoInv, infoVars
<1>2. /\ InfoIsKept' /\ (Whole' <=> Whole)
      /\ (Links(act_index))' = Links(act_index')
      /\ (Links(act_index + 1))' = Links(act_index' + 1)
      /\ (FirstLinks(Here, eat_index))' = FirstLinks(Here', eat_index')
      /\ (FirstLinks(Here, eat_index + 1))' = FirstLinks(Here', eat_index' + 1)
      /\ (Num(actlist, Here))' = Num(actlist, Here')
      /\ (actlist[Here].act)' = actlist[Here'].act
      /\ (LinksOf(actlist))' = LinksOf(actlist)
  BY <1>1, InfoStays
<1>3. ASSUME ~ outside
      PROVE  /\ OnAction' /\ (client = "build" => BuildInv') /\ (client # "build" => AnyInv')
  <2>1. OnAction /\ (client = "build" => BuildInv) /\ (client # "build" => AnyInv)
    BY <1>3 DEF InfoInv
  <2>2. /\ UNCHANGED <<atp, act_index, eap, eat_index, Here>> /\ OnAction' /\ (OnEat => OnEat')
    BY <1>1, <2>1, CursorStays
  <2>3. BuildInv => BuildInv' BY <1>1, <1>2, <2>2 DEF BuildInv
  <2>4. AnyInv => AnyInv' BY <1>1, <1>2, <2>2 DEF AnyInv
  <2>5. QED BY <2>1, <2>2, <2>3, <2>4
<1>4. QED BY <1>1, <1>2, <1>3 DEF InfoInv

LEMMA InfoInvariant == InfoSpec => []InfoInv
<1>1. InfoInv /\ [InfoNext]_infoVars => InfoInv'
  BY BuildActKeeps, BuildNewActKeeps, BuildEatKeeps, BuildLinkKeeps, AnyCallKeeps, NoCallKeeps
  DEF InfoNext
<1>2. QED BY InfoStarts, <1>1, PTL DEF InfoSpec

\* Nothing is read that is not there, and the cursor is always on an action of a
\* state that has any, as long as the information is whole, whatever is stored and
\* whoever reads it.
THEOREM NothingReadOutside == InfoSpec => []ReadsInside
<1>1. InfoInv => ReadsInside
  <2> SUFFICES ASSUME InfoInv, Whole
               PROVE  ~ outside /\ (info.act_num > 0 => ActsAt(atp) # {})
    BY DEF ReadsInside
  <2>1. InfoIsKept /\ OnAction /\ ~ outside BY DEF InfoInv
  <2>2. info.act_num > 0 => actlist # <<>>
    <3>1. info.act_num = Len(actlist) BY <2>1, InfoHolds
    <3>2. Len(<<>>) = 0 OBVIOUS
    <3>3. QED BY <3>1, <3>2
  <2>3. QED BY <2>1, <2>2, ActThere
<1>2. QED BY InfoInvariant, <1>1, PTL

\* A state that was read to its end is the state that was written, link by link, as
\* long as the information is whole, and else only if every item read was there.
THEOREM BuiltIsTheState == InfoSpec => []Rebuilt
<1>1. InfoInv => Rebuilt BY DEF InfoInv, BuildInv, AnyInv, Rebuilt
<1>2. QED BY InfoInvariant, <1>1, PTL

\* In whatever order the cursor was moved, an environment action that was returned
\* is one of the action the cursor is on, the one with that index.
THEOREM EatIsOfItsAction == InfoSpec => []EatOfAct
<1>1. InfoInv => EatOfAct
  <2> SUFFICES ASSUME InfoInv, Whole, pc = "has_act", returned # NULL, returned # atp
               PROVE  /\ returned = eap /\ (\A n \in EatNums : eat_index < n)
                      /\ \E i \in DOMAIN actlist :
                           /\ atp = ActAt(actlist, i)
                           /\ \A e \in EatsAt(returned) :
                                e.eat = actlist[i].ealist[eat_index + 1]
                           /\ EatsAt(returned) # {}
    BY DEF EatOfAct
  <2>1. InfoIsKept /\ OnAction /\ AnyInv BY DEF InfoInv, BuildInv
  <2>2. OnEat /\ actlist # <<>> /\ returned = eap /\ eat_index < Num(actlist, Here)
    BY <2>1 DEF AnyInv, OnEat
  <2>3. Here \in DOMAIN actlist /\ atp = ActAt(actlist, Here)
    BY <2>1, <2>2, HereIs, ListTypes DEF Current, InfoIsKept
  <2>4. EatNums = {Num(actlist, Here)} BY <2>1, <2>2, ActThere
  <2>5. /\ \A e \in EatsAt(returned) : e.eat = actlist[Here].ealist[eat_index + 1]
        /\ EatsAt(returned) # {}
    BY <2>1, <2>2, EatThere
  <2>6. QED BY <2>2, <2>3, <2>4, <2>5
<1>2. QED BY InfoInvariant, <1>1, PTL
================================================================================
