------------------------------- MODULE AvatarLoop -------------------------------
(***************************************************************************)
(* Avatar::loop(): steps of an avatar, so many of them in a second, until  *)
(* a dead end.  Times are milliseconds; the program sees the clock as an   *)
(* unsigned long, which wraps (every 49 days where it has 32 bits), and    *)
(* subtracts one reading from another.  The clock itself runs steadily.    *)
(***************************************************************************)
EXTENDS Integers

CONSTANTS
  Second,          \* 1000 milliseconds
  sps,             \* steps per second, no control unless positive
  Half,            \* half the number of values of an unsigned long: 2^31 where
                   \* it has 32 bits
  StepTimes,       \* how long a step may take
  Delays,          \* by how much a sleep may be longer than asked for
  MaxTime          \* bound on the time the loop runs

ASSUME SecondAssumption == Second \in Nat \ {0}
ASSUME SpsAssumption == sps \in Int
ASSUME WidthAssumption == Half \in Nat \ {0} /\ Second < Half
ASSUME TimesAssumption == StepTimes \subseteq 0..Half - 1 /\ Delays \subseteq Nat

VARIABLES
  time,            \* the time since the loop was entered
  epoch,           \* what the clock showed then
  start_time,      \* local of the loop: the clock when the step began
  pc,              \* "enter", "step", "pace" or "quit"
  slept,           \* (for the properties) what the last sleep was asked for
  starts           \* (for the properties) the times at which steps began

loopVars == <<time, epoch, start_time, pc, slept, starts>>

--------------------------------------------------------------------------------
(* As elsewhere, a definition may stand next to a variant with one plausible  *)
(* slip, which no specification uses.                                         *)

\* A number stored in an unsigned long, and in a long.
ulong(n) == n % (2 * Half)
long(n) == ((n + Half) % (2 * Half)) - Half

getCurrentTime == ulong(epoch + time)

control_step_time == IF sps > 0 THEN Second \div sps ELSE 0

\* What is left of the time of a step: negative when it took too long.
remaining_wrapped == ulong(control_step_time - ulong(getCurrentTime - start_time))
remaining_seconds == control_step_time - (getCurrentTime - start_time)
time_remaining == long(control_step_time - ulong(getCurrentTime - start_time))

LoopInit ==
  /\ time = 0 /\ epoch \in 0..2 * Half - 1
  /\ start_time = 0
  /\ pc = "enter"
  /\ slept = 0 /\ starts = {}

\* The clock is read, and a step begins.
BeginStepOnce ==
  /\ pc = "enter" /\ time < MaxTime
  /\ start_time' = IF sps > 0 /\ starts = {} THEN getCurrentTime ELSE start_time
  /\ starts' = starts \cup {time}
  /\ pc' = "step"
  /\ UNCHANGED <<time, epoch, slept>>
BeginStep ==
  /\ pc = "enter" /\ time < MaxTime
  /\ start_time' = IF sps > 0 THEN getCurrentTime ELSE start_time
  /\ starts' = starts \cup {time}
  /\ pc' = "step"
  /\ UNCHANGED <<time, epoch, slept>>

\* step() takes its time.
Step ==
  /\ pc = "step"
  /\ \E d \in StepTimes : time' = time + d
  /\ pc' = "pace"
  /\ UNCHANGED <<epoch, start_time, slept, starts>>

\* step() returned -1: there is no action available, the loop is over.
Quit ==
  /\ pc = "step"
  /\ pc' = "quit"
  /\ UNCHANGED <<time, epoch, start_time, slept, starts>>

\* The loop sleeps for the time that remains, or warns that there is none.
Pace ==
  /\ pc = "pace"
  /\ IF sps > 0 /\ time_remaining > 0
     THEN /\ slept' = time_remaining
          /\ \E late \in Delays : time' = time + time_remaining + late
     ELSE slept' = 0 /\ UNCHANGED time
  /\ pc' = "enter"
  /\ UNCHANGED <<epoch, start_time, starts>>

LoopNext == BeginStep \/ Step \/ Quit \/ Pace

LoopSpec == LoopInit /\ [][LoopNext]_loopVars

--------------------------------------------------------------------------------
\* No sleep is longer than the time a step may have, wherever the clock wraps
\* and however long the step took.
NeverOversleeps == slept <= control_step_time

\* A step never begins earlier than its share of a second after the one before.
PaceKept ==
  \A a \in starts, b \in starts : a < b => b - a >= control_step_time
================================================================================
