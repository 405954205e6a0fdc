---------------------------- MODULE MCConnections ----------------------------
(* Model checking instances of Connections.                                *)
EXTENDS Connections, TLC

\* A group's invitation, and the same under a kind that does not exist.
MCParties == GroupIds \X {"group", "other"}

\* Row ids are request names, so requests are interchangeable.
Symmetry == Permutations(Requests) \cup Permutations(AgentIds)
=============================================================================
