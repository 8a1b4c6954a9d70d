------------------------------- MODULE AgentPath -------------------------------
(* What the counts of an agent's memory say together, stated with sums.       *)
EXTENDS AgentMemory, FiniteSetsExt

\* An agent of whose memory the program adds, updates and deletes nothing, and
\* which it leaves alone within a step but for updates of payoffs, lives one path
\* through its memory: each state was left as often as it was entered, the first
\* state being entered once from nowhere and the last one not left yet, and its
\* count is the number of visits.
TimesLeft(s) == MapThenSumSet(LAMBDA t : eats[t], {t \in Transition : t[1] = s})
TimesEntered(s) == MapThenSumSet(LAMBDA t : eats[t], {t \in Transition : t[3] = s})
OnePath ==
  /\ \A s \in State : count[s] = TimesLeft(s) + (IF s = pre_in THEN 1 ELSE 0)
  /\ pre_in # Invalid =>
       \E first \in State : \A s \in State :
         count[s] = TimesEntered(s) + (IF s = first THEN 1 ELSE 0)
================================================================================
