-------------------------- MODULE MCNodeLifecycle --------------------------
(* NodeLifecycle on small instances.                                       *)
EXTENDS NodeLifecycle, TLC

CONSTANTS n1, n2, p1, p2

Symmetric == Permutations(Nodes) \cup Permutations(Profiles)
=============================================================================
