---------------------------- MODULE MCRateLimit ----------------------------
(* Model checking instances of RateLimit.                                  *)
EXTENDS RateLimit, TLC

Symmetry == Permutations(Messages) \cup Permutations(Senders)

\* The tag is the scarcest budget, as in DefaultConfig; the group's is next.
TagTightest == [agent |-> 3, group |-> 2, tag |-> 2]
=============================================================================
