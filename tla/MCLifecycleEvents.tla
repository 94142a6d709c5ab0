-------------------------- MODULE MCLifecycleEvents --------------------------
(* Model-checking instances of LifecycleEvents.                            *)
EXTENDS LifecycleEvents

CONSTANTS a1, s1, s2, k1, k2

\* Both spans are shown by the one answer.
OneAnswer == [s \in Spans |-> a1]

\* The answer is withdrawn under either key, and two losses share a key.
TwoOfEach ==
  {[stream |-> Withdrawal, target |-> a1, key |-> k] : k \in {k1, k2}}
    \cup {[stream |-> Loss, target |-> s, key |-> k1] : s \in {s1, s2}}
=============================================================================
