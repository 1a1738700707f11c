---------------------------- MODULE MCNodeAgent ----------------------------
(* NodeAgent on small instances.                                           *)
EXTENDS NodeAgent, TLC

CONSTANTS p1, p2, u1, u2, t1, t2

Symmetric ==
  Permutations(Procs) \cup Permutations(Users) \cup Permutations(Tags)
=============================================================================
