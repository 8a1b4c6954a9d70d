------------------------------ MODULE SumTheorems ------------------------------
(***************************************************************************)
(* Sums of a function over a finite set, as the folds of the community     *)
(* modules form them: what AgentPath adds up of the counts of links, and   *)
(* PayoffBackup of the payoffs of followers.  Induction is by the least    *)
(* number, or the least set, of which something does not hold.             *)
(***************************************************************************)
EXTENDS Integers, Functions, FiniteSetTheorems, WellFoundedInduction, TLAPS

SumOver(f, S) == MapThenFoldSet(+, 0, LAMBDA i : f[i], LAMBDA s : CHOOSE x \in s : TRUE, S)

--------------------------------------------------------------------------------
\* Of every set of natural numbers that is not empty one is the least.
LEMMA LeastNat == ASSUME NEW T \in SUBSET Nat, T # {} PROVE \E n \in T : \A m \in T : n <= m
<1>1. PICK n \in T : \A m \in T : ~ (<<m, n>> \in OpToRel(<, Nat))
  BY NatLessThanWellFounded, WFMin
<1>2. \A m \in T : ~ (m < n) BY <1>1 DEF OpToRel
<1>3. QED BY <1>2

\* Induction over the natural numbers.
LEMMA InductionOnNat ==
  ASSUME NEW Good, 0 \in Good, \A n \in Nat : n \in Good => n + 1 \in Good
  PROVE  Nat \subseteq Good
<1> SUFFICES ASSUME Nat \ Good # {} PROVE FALSE OBVIOUS
<1>1. PICK n \in Nat \ Good : \A m \in Nat \ Good : n <= m BY LeastNat
<1>2. n - 1 \in Nat /\ n - 1 \in Good BY <1>1
<1>3. QED BY <1>1, <1>2

\* Induction over the subsets of a finite set: what holds of a set if it holds
\* of all those with fewer elements.
LEMMA InductionOnSubsets ==
  ASSUME NEW S, IsFiniteSet(S), NEW Good,
         \A T \in SUBSET S :
           (\A x \in T : T \ {x} \in Good) => T \in Good
  PROVE  \A T \in SUBSET S : T \in Good
<1> DEFINE Held == {n \in Nat : \A T \in SUBSET S : Cardinality(T) = n => T \in Good}
<1>0. \A T \in SUBSET S : IsFiniteSet(T) /\ Cardinality(T) \in Nat
  BY FS_Subset, FS_CardinalityType
<1>1. 0 \in Held
  <2>1. ASSUME NEW T \in SUBSET S, Cardinality(T) = 0 PROVE T \in Good
    <3>1. T = {} BY <1>0, <2>1, FS_EmptySet
    <3>2. QED BY <3>1
  <2>2. QED BY <2>1
<1>2. ASSUME NEW n \in Nat, n \in Held PROVE n + 1 \in Held
  <2>1. ASSUME NEW T \in SUBSET S, Cardinality(T) = n + 1 PROVE T \in Good
    <3>1. ASSUME NEW x \in T PROVE T \ {x} \in Good
      <4>1. Cardinality(T \ {x}) = n BY <1>0, <2>1, FS_RemoveElement
      <4>2. QED BY <1>2, <4>1
    <3>2. QED BY <3>1
  <2>2. QED BY <2>1
<1>3. Nat \subseteq Held
  <2> HIDE DEF Held
  <2>1. QED BY <1>1, <1>2, InductionOnNat
<1>4. QED BY <1>0, <1>3

--------------------------------------------------------------------------------
(* The recursive function behind a sum.                                       *)

Pick(s) == CHOOSE x \in s : TRUE
Adds(f, S, g) ==
  g = [s \in SUBSET S |-> IF s = {} THEN 0 ELSE f[Pick(s)] + g[s \ {Pick(s)}]]

\* A sum is the value of any function that adds.
LEMMA SumIsIteration ==
  ASSUME NEW f, NEW S PROVE SumOver(f, S) = (CHOOSE g : Adds(f, S, g))[S]
BY DEF SumOver, MapThenFoldSet, Pick, Adds

\* What is picked of a set is in it.
LEMMA PickIn == ASSUME NEW s, s # {} PROVE Pick(s) \in s
BY DEF Pick

\* There is such a function.
LEMMA IterationExists ==
  ASSUME NEW S, IsFiniteSet(S), NEW f PROVE \E g : Adds(f, S, g)
<1> DEFINE Body(g, s) == IF s = {} THEN 0 ELSE f[Pick(s)] + g[s \ {Pick(s)}]
           Upto(n, g) == \A s \in SUBSET S : Cardinality(s) < n => g[s] = Body(g, s)
           Built == {n \in Nat : \E g : g = [s \in SUBSET S |-> g[s]] /\ Upto(n, g)}
<1>0. \A T \in SUBSET S : IsFiniteSet(T) /\ Cardinality(T) \in Nat
  BY FS_Subset, FS_CardinalityType
<1>1. 0 \in Built
  <2> DEFINE g == [s \in SUBSET S |-> 0]
  <2>1. g = [s \in SUBSET S |-> g[s]] OBVIOUS
  <2>2. Upto(0, g) BY <1>0
  <2> HIDE DEF g, Upto
  <2>3. QED BY <2>1, <2>2
<1>2. ASSUME NEW n \in Nat, n \in Built PROVE n + 1 \in Built
  <2>1. PICK g : g = [s \in SUBSET S |-> g[s]] /\ Upto(n, g) BY <1>2
  <2> DEFINE h == [s \in SUBSET S |-> Body(g, s)]
  <2>2. h = [s \in SUBSET S |-> h[s]] OBVIOUS
  <2>3. ASSUME NEW s \in SUBSET S, Cardinality(s) < n + 1 PROVE h[s] = Body(h, s)
    <3>1. CASE s = {} BY <3>1
    <3>2. CASE s # {}
      <4> DEFINE r == s \ {Pick(s)}
      <4>1. r \in SUBSET S /\ Cardinality(r) < n
        <5>1. Cardinality(r) = Cardinality(s) - 1 BY <1>0, <3>2, PickIn, FS_RemoveElement
        <5>2. QED BY <1>0, <2>3, <5>1
      <4>2. g[r] = Body(g, r) BY <2>1, <4>1
      <4>3. h[r] = Body(g, r) BY <4>1
      <4>4. h[s] = f[Pick(s)] + g[r] BY <3>2
      <4> HIDE DEF r, h
      <4>5. h[s] = f[Pick(s)] + h[r] BY <4>2, <4>3, <4>4
      <4>6. QED BY <3>2, <4>5 DEF r
    <3>3. QED BY <3>1, <3>2
  <2>4. Upto(n + 1, h) BY <2>3
  <2> HIDE DEF h, Upto
  <2>5. QED BY <2>2, <2>4
<1>3. Nat \subseteq Built
  <2> HIDE DEF Built
  <2>1. QED BY <1>1, <1>2, InductionOnNat
<1>4. Cardinality(S) + 1 \in Built
  <2> HIDE DEF Built
  <2>1. Cardinality(S) + 1 \in Nat BY <1>0
  <2>2. QED BY <1>3, <2>1
<1>5. PICK g : g = [s \in SUBSET S |-> g[s]] /\ Upto(Cardinality(S) + 1, g) BY <1>4
<1>6. \A s \in SUBSET S : g[s] = Body(g, s)
  <2> TAKE s \in SUBSET S
  <2>1. Cardinality(s) < Cardinality(S) + 1 BY <1>0, FS_Subset
  <2>2. QED BY <1>5, <2>1
<1>7. Adds(f, S, g) BY <1>5, <1>6 DEF Adds
<1>8. QED BY <1>7

\* And only one, also as seen from a larger set.
LEMMA IterationUnique ==
  ASSUME NEW S, IsFiniteSet(S), NEW T \in SUBSET S, NEW f, NEW g, NEW h,
         Adds(f, S, g), Adds(f, T, h)
  PROVE  g[T] = h[T]
<1> DEFINE Good == {s \in SUBSET T : g[s] = h[s]}
<1>1. IsFiniteSet(T) BY FS_Subset
<1>2. ASSUME NEW s \in SUBSET T, \A x \in s : s \ {x} \in Good PROVE s \in Good
  <2>1. g[s] = IF s = {} THEN 0 ELSE f[Pick(s)] + g[s \ {Pick(s)}] BY DEF Adds
  <2>2. h[s] = IF s = {} THEN 0 ELSE f[Pick(s)] + h[s \ {Pick(s)}] BY DEF Adds
  <2>3. QED BY <1>2, <2>1, <2>2, PickIn
<1>3. \A s \in SUBSET T : s \in Good
  <2> HIDE DEF Good
  <2>1. QED BY <1>1, <1>2, InductionOnSubsets
<1>4. QED BY <1>3

--------------------------------------------------------------------------------
(* Sums.                                                                      *)

\* The sum over no elements.
THEOREM SumOfNone == ASSUME NEW f PROVE SumOver(f, {}) = 0
<1> DEFINE g == CHOOSE g : Adds(f, {}, g)
<1>1. Adds(f, {}, g) BY IterationExists, FS_EmptySet
<1> HIDE DEF g
<1>2. g[{}] = 0 BY <1>1 DEF Adds
<1>3. QED BY <1>2, SumIsIteration DEF g

\* The sum over some, the first being the one that is chosen.
LEMMA SumOfPicked ==
  ASSUME NEW S, IsFiniteSet(S), S # {}, NEW f
  PROVE  SumOver(f, S) = f[Pick(S)] + SumOver(f, S \ {Pick(S)})
<1> DEFINE R == S \ {Pick(S)}
           g == CHOOSE g : Adds(f, S, g)
           h == CHOOSE h : Adds(f, R, h)
<1>1. IsFiniteSet(R) /\ R \in SUBSET S BY FS_Subset
<1>2. Adds(f, S, g) BY IterationExists
<1>3. Adds(f, R, h) BY <1>1, IterationExists
<1>4. SumOver(f, S) = g[S] /\ SumOver(f, R) = h[R] BY SumIsIteration
<1> HIDE DEF g, h
<1>5. g[R] = h[R] BY <1>1, <1>2, <1>3, IterationUnique
<1>6. g[S] = f[Pick(S)] + g[R] BY <1>2 DEF Adds
<1>7. QED BY <1>4, <1>5, <1>6

\* A sum of integers is one.
THEOREM SumType ==
  ASSUME NEW S, IsFiniteSet(S), NEW f, \A x \in S : f[x] \in Int
  PROVE  SumOver(f, S) \in Int
<1> DEFINE Good == {T \in SUBSET S : SumOver(f, T) \in Int}
<1>1. ASSUME NEW T \in SUBSET S, \A x \in T : T \ {x} \in Good PROVE T \in Good
  <2>1. CASE T = {} BY <2>1, SumOfNone
  <2>2. CASE T # {}
    <3>1. IsFiniteSet(T) BY FS_Subset
    <3>2. Pick(T) \in T BY <2>2, PickIn
    <3>3. SumOver(f, T) = f[Pick(T)] + SumOver(f, T \ {Pick(T)}) BY <2>2, <3>1, SumOfPicked
    <3>4. SumOver(f, T \ {Pick(T)}) \in Int BY <1>1, <3>2
    <3>5. QED BY <3>2, <3>3, <3>4
  <2>3. QED BY <2>1, <2>2
<1>2. \A T \in SUBSET S : T \in Good
  <2> HIDE DEF Good
  <2>1. QED BY <1>1, InductionOnSubsets
<1>3. QED BY <1>2

\* It does not matter which element is added first.
THEOREM SumOfSome ==
  ASSUME NEW S, IsFiniteSet(S), NEW f, \A x \in S : f[x] \in Int
  PROVE  \A x \in S : SumOver(f, S) = f[x] + SumOver(f, S \ {x})
<1> DEFINE Good == {T \in SUBSET S : \A x \in T : SumOver(f, T) = f[x] + SumOver(f, T \ {x})}
<1>1. ASSUME NEW T \in SUBSET S, \A x \in T : T \ {x} \in Good PROVE T \in Good
  <2> SUFFICES ASSUME NEW x \in T PROVE SumOver(f, T) = f[x] + SumOver(f, T \ {x})
    OBVIOUS
  <2> DEFINE c == Pick(T)
  <2>0. \A U \in SUBSET S : IsFiniteSet(U) /\ SumOver(f, U) \in Int
    BY FS_Subset, SumType
  <2>1. c \in T BY PickIn
  <2>2. SumOver(f, T) = f[c] + SumOver(f, T \ {c}) BY <2>0, SumOfPicked
  <2>3. CASE x = c BY <2>2, <2>3
  <2>4. CASE x # c
    <3>1. T \ {c} \in Good /\ T \ {x} \in Good BY <1>1, <2>1
    <3>2. x \in T \ {c} /\ c \in T \ {x} BY <2>1, <2>4
    <3>3. (T \ {c}) \ {x} = (T \ {x}) \ {c} OBVIOUS
    <3>4. SumOver(f, T \ {c}) = f[x] + SumOver(f, (T \ {c}) \ {x}) BY <3>1, <3>2
    <3>5. SumOver(f, T \ {x}) = f[c] + SumOver(f, (T \ {x}) \ {c}) BY <3>1, <3>2
    <3>6. SumOver(f, (T \ {x}) \ {c}) \in Int /\ f[x] \in Int /\ f[c] \in Int
      BY <2>0, <2>1
    <3> DEFINE both == SumOver(f, (T \ {x}) \ {c})
    <3>7. SumOver(f, (T \ {c}) \ {x}) = both BY <3>3
    <3> HIDE DEF c, both
    <3>8. /\ SumOver(f, T) = f[c] + SumOver(f, T \ {c})
          /\ SumOver(f, T \ {c}) = f[x] + both
          /\ SumOver(f, T \ {x}) = f[c] + both
      BY <2>2, <3>4, <3>5, <3>7 DEF both
    <3>9. both \in Int BY <3>6 DEF both
    <3>10. QED BY <3>6, <3>8, <3>9
  <2>5. QED BY <2>3, <2>4
<1>2. \A T \in SUBSET S : T \in Good
  <2> HIDE DEF Good
  <2>1. QED BY <1>1, InductionOnSubsets
<1>3. QED BY <1>2

\* Only the values that are added matter.
THEOREM SumOfEquals ==
  ASSUME NEW S, IsFiniteSet(S), NEW f, NEW g, \A x \in S : f[x] \in Int /\ g[x] = f[x]
  PROVE  SumOver(g, S) = SumOver(f, S)
<1> DEFINE Good == {T \in SUBSET S : SumOver(g, T) = SumOver(f, T)}
<1>1. ASSUME NEW T \in SUBSET S, \A x \in T : T \ {x} \in Good PROVE T \in Good
  <2>1. CASE T = {} BY <2>1, SumOfNone
  <2>2. CASE T # {}
    <3>1. IsFiniteSet(T) BY FS_Subset
    <3>2. PICK x \in T : TRUE BY <2>2
    <3>3. SumOver(f, T) = f[x] + SumOver(f, T \ {x}) BY <3>1, SumOfSome
    <3>4. SumOver(g, T) = g[x] + SumOver(g, T \ {x}) BY <3>1, SumOfSome
    <3>5. QED BY <1>1, <3>3, <3>4
  <2>3. QED BY <2>1, <2>2
<1>2. \A T \in SUBSET S : T \in Good
  <2> HIDE DEF Good
  <2>1. QED BY <1>1, InductionOnSubsets
<1>3. QED BY <1>2

\* One value that changes changes the sum by as much.
THEOREM SumOfChanged ==
  ASSUME NEW S, IsFiniteSet(S), NEW f, NEW g, NEW x \in S, g[x] \in Int,
         \A y \in S : f[y] \in Int, \A y \in S \ {x} : g[y] = f[y]
  PROVE  SumOver(g, S) = SumOver(f, S) + (g[x] - f[x])
<1>1. \A y \in S : g[y] \in Int OBVIOUS
<1>2. SumOver(f, S) = f[x] + SumOver(f, S \ {x}) BY SumOfSome
<1>3. SumOver(g, S) = g[x] + SumOver(g, S \ {x}) BY <1>1, SumOfSome
<1>4. IsFiniteSet(S \ {x}) BY FS_RemoveElement
<1>5. SumOver(g, S \ {x}) = SumOver(f, S \ {x}) BY <1>4, SumOfEquals
<1>6. SumOver(f, S \ {x}) \in Int BY <1>4, SumType
<1>7. QED BY <1>2, <1>3, <1>5, <1>6

\* One more of what is counted is one more in every sum it belongs to.
THEOREM SumOfCounted ==
  ASSUME NEW S, IsFiniteSet(S), NEW f, NEW g, NEW x,
         \A y \in S : f[y] \in Int /\ g[y] = (IF y = x THEN f[y] + 1 ELSE f[y])
  PROVE  /\ SumOver(f, S) \in Int
         /\ x \in S => SumOver(g, S) = SumOver(f, S) + 1
         /\ x \notin S => SumOver(g, S) = SumOver(f, S)
<1>1. \A y \in S : f[y] \in Int OBVIOUS
<1>2. SumOver(f, S) \in Int BY <1>1, SumType
<1>3. CASE x \in S
  <2>1. g[x] \in Int /\ f[x] \in Int /\ g[x] = f[x] + 1 BY <1>3
  <2>2. \A y \in S \ {x} : g[y] = f[y] OBVIOUS
  <2>3. SumOver(g, S) = SumOver(f, S) + (g[x] - f[x])
    BY <1>1, <1>3, <2>1, <2>2, SumOfChanged
  <2>4. QED BY <1>2, <1>3, <2>1, <2>3
<1>4. CASE x \notin S
  <2>1. \A y \in S : f[y] \in Int /\ g[y] = f[y] BY <1>4
  <2>2. SumOver(g, S) = SumOver(f, S) BY <2>1, SumOfEquals
  <2>3. QED BY <1>2, <1>4, <2>2
<1>5. QED BY <1>2, <1>3, <1>4

\* Weights, and the values they weigh, each at most or at least k times its
\* weight: so are the sums.
THEOREM SumAtMost ==
  ASSUME NEW S, IsFiniteSet(S), NEW f, NEW w, NEW k \in Int,
         \A x \in S : f[x] \in Int /\ w[x] \in Int /\ f[x] <= k * w[x]
  PROVE  SumOver(f, S) <= k * SumOver(w, S)
<1> DEFINE Good == {T \in SUBSET S : SumOver(f, T) <= k * SumOver(w, T)}
<1>1. ASSUME NEW T \in SUBSET S, \A x \in T : T \ {x} \in Good PROVE T \in Good
  <2>1. CASE T = {}
    <3>1. k * 0 = 0 OBVIOUS
    <3>2. SumOver(f, {}) <= k * SumOver(w, {}) BY <3>1, SumOfNone
    <3>3. QED BY <2>1, <3>2
  <2>2. CASE T # {}
    <3>1. IsFiniteSet(T) BY FS_Subset
    <3>2. PICK x \in T : TRUE BY <2>2
    <3> DEFINE a == f[x]
               b == w[x]
               u == SumOver(f, T \ {x})
               v == SumOver(w, T \ {x})
    <3>3. SumOver(f, T) = a + u BY <3>1, SumOfSome
    <3>4. SumOver(w, T) = b + v BY <3>1, SumOfSome
    <3>5. u <= k * v BY <1>1
    <3>6. IsFiniteSet(T \ {x}) BY <3>1, FS_RemoveElement
    <3>7. u \in Int /\ v \in Int BY <3>6, SumType
    <3>8. a \in Int /\ b \in Int /\ a <= k * b OBVIOUS
    <3> HIDE DEF a, b, u, v
    <3>9. k * (b + v) = k * b + k * v /\ k * b \in Int /\ k * v \in Int BY <3>7, <3>8
    <3>10. a + u <= k * b + k * v BY <3>5, <3>7, <3>8, <3>9
    <3>11. SumOver(f, T) <= k * SumOver(w, T) BY <3>3, <3>4, <3>9, <3>10
    <3>12. QED BY <3>11
  <2>3. QED BY <2>1, <2>2
<1>2. \A T \in SUBSET S : T \in Good
  <2> HIDE DEF Good
  <2>1. QED BY <1>1, InductionOnSubsets
<1>3. QED BY <1>2

\* The same the other way round.
THEOREM SumAtLeast ==
  ASSUME NEW S, IsFiniteSet(S), NEW f, NEW w, NEW k \in Int,
         \A x \in S : f[x] \in Int /\ w[x] \in Int /\ f[x] >= k * w[x]
  PROVE  SumOver(f, S) >= k * SumOver(w, S)
<1> DEFINE Good == {T \in SUBSET S : SumOver(f, T) >= k * SumOver(w, T)}
<1>1. ASSUME NEW T \in SUBSET S, \A x \in T : T \ {x} \in Good PROVE T \in Good
  <2>1. CASE T = {}
    <3>1. k * 0 = 0 OBVIOUS
    <3>2. SumOver(f, {}) >= k * SumOver(w, {}) BY <3>1, SumOfNone
    <3>3. QED BY <2>1, <3>2
  <2>2. CASE T # {}
    <3>1. IsFiniteSet(T) BY FS_Subset
    <3>2. PICK x \in T : TRUE BY <2>2
    <3> DEFINE a == f[x]
               b == w[x]
               u == SumOver(f, T \ {x})
               v == SumOver(w, T \ {x})
    <3>3. SumOver(f, T) = a + u BY <3>1, SumOfSome
    <3>4. SumOver(w, T) = b + v BY <3>1, SumOfSome
    <3>5. u >= k * v BY <1>1
    <3>6. IsFiniteSet(T \ {x}) BY <3>1, FS_RemoveElement
    <3>7. u \in Int /\ v \in Int BY <3>6, SumType
    <3>8. a \in Int /\ b \in Int /\ a >= k * b OBVIOUS
    <3> HIDE DEF a, b, u, v
    <3>9. k * (b + v) = k * b + k * v /\ k * b \in Int /\ k * v \in Int BY <3>7, <3>8
    <3>10. a + u >= k * b + k * v BY <3>5, <3>7, <3>8, <3>9
    <3>11. SumOver(f, T) >= k * SumOver(w, T) BY <3>3, <3>4, <3>9, <3>10
    <3>12. QED BY <3>11
  <2>3. QED BY <2>1, <2>2
<1>2. \A T \in SUBSET S : T \in Good
  <2> HIDE DEF Good
  <2>1. QED BY <1>1, InductionOnSubsets
<1>3. QED BY <1>2

\* A sum of nothing but zeros.
THEOREM SumOfZeros ==
  ASSUME NEW S, IsFiniteSet(S), NEW f, \A x \in S : f[x] = 0
  PROVE  SumOver(f, S) = 0
<1>1. \A x \in S : f[x] \in Int /\ f[x] <= 0 * f[x] /\ f[x] >= 0 * f[x] OBVIOUS
<1>2. SumOver(f, S) <= 0 * SumOver(f, S) /\ SumOver(f, S) >= 0 * SumOver(f, S)
  BY <1>1, SumAtMost, SumAtLeast
<1>3. SumOver(f, S) \in Int BY <1>1, SumType
<1>4. QED BY <1>2, <1>3

\* A sum of natural numbers is one, and at least as great as each of them.
THEOREM SumOfNats ==
  ASSUME NEW S, IsFiniteSet(S), NEW f, \A x \in S : f[x] \in Nat
  PROVE  SumOver(f, S) \in Nat /\ \A x \in S : f[x] <= SumOver(f, S)
<1>1. ASSUME NEW T \in SUBSET S PROVE SumOver(f, T) \in Nat
  <2>1. IsFiniteSet(T) BY FS_Subset
  <2>2. SumOver(f, T) \in Int BY <2>1, SumType
  <2>3. SumOver(f, T) >= 0 * SumOver(f, T) BY <2>1, SumAtLeast
  <2>4. QED BY <2>2, <2>3
<1>2. ASSUME NEW x \in S PROVE f[x] <= SumOver(f, S)
  <2>1. SumOver(f, S) = f[x] + SumOver(f, S \ {x}) BY SumOfSome
  <2>2. SumOver(f, S \ {x}) \in Nat BY <1>1
  <2>3. QED BY <2>1, <2>2
<1>3. QED BY <1>1, <1>2

--------------------------------------------------------------------------------
(* Quotients, which averages are.                                             *)

\* A quotient, rounded down.
LEMMA DivisionFloor ==
  ASSUME NEW v \in Int, NEW w \in Nat \ {0}
  PROVE  v \div w \in Int /\ (v \div w) * w <= v /\ v < (v \div w) * w + w
OBVIOUS

\* Multiplication by a natural number keeps the order.
LEMMA ProductOrder ==
  ASSUME NEW a \in Int, NEW b \in Int, NEW w \in Nat, a <= b PROVE a * w <= b * w
OBVIOUS

\* It is bounded by a whole number as the fraction is.
LEMMA DivisionBounds ==
  ASSUME NEW v \in Int, NEW w \in Nat \ {0}, NEW k \in Int
  PROVE  /\ v \div w \in Int
         /\ v <= k * w => v \div w <= k
         /\ v >= k * w => v \div w >= k
<1> DEFINE q == v \div w
<1>1. q \in Int /\ q * w <= v /\ v < q * w + w BY DivisionFloor
<1> HIDE DEF q
<1>2. ASSUME v <= k * w, q > k PROVE FALSE
  <2>1. (k + 1) * w <= q * w BY <1>1, <1>2, ProductOrder
  <2>2. (k + 1) * w = k * w + w OBVIOUS
  <2>3. k * w \in Int /\ q * w \in Int BY <1>1
  <2>4. QED BY <1>1, <1>2, <2>1, <2>2, <2>3
<1>3. ASSUME v >= k * w, q < k PROVE FALSE
  <2>1. (q + 1) * w <= k * w BY <1>1, <1>3, ProductOrder
  <2>2. (q + 1) * w = q * w + w BY <1>1
  <2>3. k * w \in Int /\ q * w \in Int BY <1>1
  <2>4. QED BY <1>1, <1>3, <2>1, <2>2, <2>3
<1>4. QED BY <1>1, <1>2, <1>3 DEF q

\* A number is a multiple of another and the remainder.
LEMMA RemainderOf ==
  ASSUME NEW n \in Int, NEW w \in Nat \ {0}
  PROVE  n \div w \in Int /\ n % w \in 0..w - 1 /\ n = (n \div w) * w + (n % w)
OBVIOUS

\* In one way only.
LEMMA RemainderUnique ==
  ASSUME NEW w \in Nat \ {0}, NEW q \in Int, NEW r \in 0..w - 1 PROVE (q * w + r) % w = r
<1> DEFINE n == q * w + r
           p == n \div w
           m == n % w
<1>1. n \in Int OBVIOUS
<1>2. p \in Int /\ m \in 0..w - 1 /\ n = p * w + m BY <1>1, RemainderOf
<1>3. n = q * w + r OBVIOUS
<1> HIDE DEF n, p, m
<1>4. p * w \in Int /\ q * w \in Int BY <1>2
<1>5. CASE p = q BY <1>2, <1>3, <1>4, <1>5 DEF m, n
<1>6. CASE p > q
  <2>1. (q + 1) * w <= p * w BY <1>2, <1>6, ProductOrder
  <2>2. (q + 1) * w = q * w + w OBVIOUS
  <2>3. QED BY <1>2, <1>3, <1>4, <2>1, <2>2
<1>7. CASE p < q
  <2>1. (p + 1) * w <= q * w BY <1>2, <1>7, ProductOrder
  <2>2. (p + 1) * w = p * w + w BY <1>2
  <2>3. QED BY <1>2, <1>3, <1>4, <2>1, <2>2
<1>8. QED BY <1>2, <1>5, <1>6, <1>7
================================================================================
