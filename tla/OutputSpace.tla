------------------------------ MODULE OutputSpace ------------------------------
(***************************************************************************)
(* OSpace, the list of actions an avatar offers, kept as fragments (single *)
(* outputs and ranges) and read by index; and the walk through it with     *)
(* first() and next() in bestActions(), from whose result process() draws. *)
(*                                                                         *)
(* Every number is an integer of INT_BITS bits, of which there are         *)
(* 2 * Half.  The arithmetic is that of the builds with 8 and 16 bits:     *)
(* exact, as int, until it is stored.                                      *)
(***************************************************************************)
EXTENDS Integers, Sequences, FiniteSets, SequencesExt

CONSTANTS
  Half,            \* 2^(INT_BITS - 1)
  Singles,         \* the outputs and the ranges <<start, end, step>> an avatar
  Ranges,          \* adds
  Payoffs,         \* the payoffs actions may have, functions Output -> Nat
  MaxFrags,        \* bound on the number of fragments
  MaxOutputs       \* bound on the number of outputs

Output == -Half .. Half - 1
INVALID_OUTPUT == Half - 1
SPARE_CAPACITY == 5
Lowest == -1       \* -FLT_MAX, less than any payoff

ASSUME WidthAssumption == Half \in Nat \ {0}
ASSUME SinglesAssumption == Singles \subseteq Output
ASSUME RangesAssumption ==
  Ranges \subseteq Output \X Output \X (Output \ {0})
ASSUME PayoffsAssumption == Payoffs \subseteq [Output -> Nat]

VARIABLES
  outputs, the_capacity,  \* the fragments <<start, end, step>>, and the size of
                          \* the array that holds them
  output_num,             \* size()
  current_index,          \* of the iterator
  act, max_payoff,        \* locals of bestActions()
  best_acts,              \* the best actions so far, an OSpace of singles
  payoffs,                \* the payoffs of the actions in the current state
  phase                   \* "filling", "walking", "chosen" or "exited"

space == <<outputs, the_capacity, output_num>>
choice == <<act, max_payoff, best_acts, payoffs>>
vars == <<space, current_index, choice, phase>>

--------------------------------------------------------------------------------
(* As elsewhere, a definition may stand next to a variant with one plausible  *)
(* slip, which no specification uses.                                         *)

\* A number stored in an ossize_t, and in an Output.
ossize(n) == n % (2 * Half)
output(n) == ((n + Half) % (2 * Half)) - Half

\* Division of C, towards zero.
Abs(n) == IF n < 0 THEN -n ELSE n
quotient(m, n) ==
  IF m >= 0 <=> n > 0 THEN Abs(m) \div Abs(n) ELSE -(Abs(m) \div Abs(n))

\* The number of outputs in a fragment.
OutNumExclusive(f) == ossize(quotient(f[2] - f[1], f[3]))
OutNum(f) == ossize(quotient(f[2] - f[1], f[3]) + 1)

\* operator[]: the outputs of the fragments passed by, and the fragments that
\* reach beyond an index, the first of which holds it.
Passed(frags, i) ==
  LET total_num[k \in 1..i] ==
        IF k = 1 THEN 0 ELSE ossize(total_num[k - 1] + OutNum(frags[k - 1]))
  IN total_num[i]
Reaching(frags, index) ==
  {i \in DOMAIN frags : Passed(frags, i) + OutNum(frags[i]) > index}
at(frags, index) ==
  LET reaching == Reaching(frags, index)
      i == Min(reaching)
  IN IF reaching = {} THEN INVALID_OUTPUT
     ELSE output(frags[i][1] + frags[i][3] * (index - Passed(frags, i)))

\* expand(): does nothing if the array would become too small for what is there.
expandReversed(ncap) ==
  IF ncap > Len(outputs) THEN the_capacity ELSE ossize(ncap + SPARE_CAPACITY)
expand(ncap) ==
  IF ncap < Len(outputs) THEN the_capacity ELSE ossize(ncap + SPARE_CAPACITY)

last == at(outputs, ossize(output_num - 1))

--------------------------------------------------------------------------------
Init ==
  /\ outputs = <<>> /\ the_capacity = SPARE_CAPACITY /\ output_num = 0
  /\ current_index = 0
  /\ act = INVALID_OUTPUT /\ max_payoff = Lowest /\ best_acts = <<>>
  /\ payoffs \in Payoffs
  /\ phase = "filling"

\* The bound: a fragment more, and what it holds.
Room(n) ==
  /\ Len(outputs) < MaxFrags
  /\ Passed(outputs, Len(outputs) + 1) + n <= MaxOutputs

\* add() of an output, and of a range: one is refused only if it goes at least a
\* whole step the wrong way.
AddOutput(out) ==
  /\ phase = "filling" /\ Room(1)
  /\ the_capacity' = IF Len(outputs) = the_capacity
                     THEN expand(ossize(2 * the_capacity + 1)) ELSE the_capacity
  /\ outputs' = Append(outputs, <<out, out, 1>>)
  /\ output_num' = ossize(output_num + 1)
  /\ UNCHANGED <<current_index, choice, phase>>
AddRange(start, end, step) ==
  /\ phase = "filling" /\ Room(OutNum(<<start, end, step>>))
  /\ quotient(end - start, step) >= 0
  /\ the_capacity' = IF Len(outputs) = the_capacity
                     THEN expand(ossize(2 * the_capacity)) ELSE the_capacity
  /\ outputs' = Append(outputs, <<start, end, step>>)
  /\ output_num' = ossize(output_num + quotient(end - start, step) + 1)
  /\ UNCHANGED <<current_index, choice, phase>>

RefuseRange(start, end, step) ==
  /\ phase = "filling" /\ quotient(end - start, step) < 0
  /\ phase' = "exited"
  /\ UNCHANGED <<space, current_index, choice>>

\* bestActions() begins with the first action.
Begin ==
  /\ phase = "filling"
  /\ current_index' = 0
  /\ act' = at(outputs, 0)
  /\ max_payoff' = Lowest /\ best_acts' = <<>>
  /\ phase' = "walking"
  /\ UNCHANGED <<space, payoffs>>

\* One turn of its loop: an action that is better replaces the best ones, one
\* that is as good joins them.
KeepBestOnly(a) ==
  IF payoffs[a] > max_payoff THEN best_acts' = <<a>> /\ max_payoff' = payoffs[a]
  ELSE UNCHANGED <<best_acts, max_payoff>>
KeepBest(a) ==
  IF payoffs[a] > max_payoff THEN best_acts' = <<a>> /\ max_payoff' = payoffs[a]
  ELSE /\ UNCHANGED max_payoff
       /\ best_acts' = IF payoffs[a] = max_payoff THEN Append(best_acts, a) ELSE best_acts
WeighStuck ==
  /\ phase = "walking" /\ act # INVALID_OUTPUT
  /\ KeepBest(act)
  /\ IF payoffs[act] < max_payoff THEN UNCHANGED <<current_index, act>>
     ELSE /\ current_index' = ossize(current_index + 1)
          /\ act' = at(outputs, ossize(current_index + 1))
  /\ UNCHANGED <<space, payoffs, phase>>
Weigh ==
  /\ phase = "walking" /\ act # INVALID_OUTPUT
  /\ KeepBest(act)
  /\ current_index' = ossize(current_index + 1)
  /\ act' = at(outputs, ossize(current_index + 1))
  /\ UNCHANGED <<space, payoffs, phase>>

\* "Until out of bound"; process() may draw any of best_acts.
Finish ==
  /\ phase = "walking" /\ act = INVALID_OUTPUT
  /\ phase' = "chosen"
  /\ UNCHANGED <<space, current_index, choice>>

\* clear(), for the next state.
Clear ==
  /\ phase = "chosen"
  /\ outputs' = <<>> /\ output_num' = 0 /\ current_index' = 0
  /\ act' = INVALID_OUTPUT /\ max_payoff' = Lowest /\ best_acts' = <<>>
  /\ payoffs' \in Payoffs
  /\ phase' = "filling"
  /\ UNCHANGED the_capacity

Next ==
  \/ \E out \in Singles : AddOutput(out)
  \/ \E r \in Ranges : AddRange(r[1], r[2], r[3])
  \/ \E r \in Ranges : RefuseRange(r[1], r[2], r[3])
  \/ Begin
  \/ Weigh
  \/ Finish
  \/ Clear

Spec == Init /\ [][Next]_vars

\* The loop of bestActions() runs without interruption.
FairSpec == Spec /\ WF_vars(Weigh) /\ WF_vars(Finish)

--------------------------------------------------------------------------------
\* The outputs as they were added, without any fragment: what the space stands
\* for.  A range that goes less than a step the wrong way is its start.
Progression(f) ==
  [k \in 1..Abs(f[2] - f[1]) \div Abs(f[3]) + 1 |-> f[1] + f[3] * (k - 1)]
Outputs == FlattenSeq([i \in DOMAIN outputs |-> Progression(outputs[i])])

\* The index and the size see exactly the outputs that were added, repeated
\* ones counted more than once, in ascending, descending and single fragments.
IndexAgrees ==
  phase = "filling" =>
    LET offered == Outputs IN
    /\ output_num = Len(offered)
    /\ \A i \in DOMAIN offered : at(outputs, i - 1) = offered[i]
    /\ \A i \in {Len(offered), 2 * Half - 1} : at(outputs, i) = INVALID_OUTPUT
    /\ last = IF offered = <<>> THEN INVALID_OUTPUT ELSE offered[Len(offered)]

\* "The new capacity should at least include all current fragments."
WithinCapacity == Len(outputs) <= the_capacity

\* bestActions() returns every action offered whose payoff is the greatest, as
\* often as it was offered, and nothing else; of a space that holds the invalid
\* output only what is offered before that.
Weighed == {i \in DOMAIN Outputs : \A k \in 1..i : Outputs[k] # INVALID_OUTPUT}
BestActionsExact ==
  phase = "chosen" =>
    LET best == {Outputs[i] : i \in {i \in Weighed :
                  \A k \in Weighed : payoffs[Outputs[k]] <= payoffs[Outputs[i]]}}
    IN /\ \A i \in DOMAIN best_acts : best_acts[i] \in best
       /\ \A a \in best : Cardinality({i \in DOMAIN best_acts : best_acts[i] = a})
                            = Cardinality({i \in Weighed : Outputs[i] = a})

\* The walk goes on "until out of bound", and comes to that.
WalkEnds == phase = "walking" ~> phase # "walking"
================================================================================
