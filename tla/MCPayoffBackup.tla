---------------------------- MODULE MCPayoffBackup ----------------------------
(* Small instances of PayoffBackup.                                           *)
EXTENDS PayoffBackup

CONSTANTS s1, s2, s3, a1, a2

\* One action leads around in two cycles and from s1 to s1; the other one may be
\* better or worse, in a state with a self-loop and in one without.
TwoActions ==
  {<<s1, a1, s1>>, <<s1, a1, s2>>, <<s2, a1, s1>>, <<s2, a1, s3>>, <<s3, a1, s1>>,
   <<s1, a2, s2>>, <<s2, a2, s3>>}

\* The original payoff of a state is 0 or this one, a negative one: trimmed
\* towards minus infinity, payoffs below 0 are those that rounding can make grow.
OneDisliked == {-1}
================================================================================
