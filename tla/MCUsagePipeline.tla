-------------------------- MODULE MCUsagePipeline --------------------------
(* UsagePipeline on small instances.                                       *)
EXTENDS UsagePipeline, TLC

CONSTANTS n1, n2, u1, u2

\* One node counts once, the other twice.
Multipliers == [n \in Nodes |-> IF n = n1 THEN 1 ELSE 2]
=============================================================================
