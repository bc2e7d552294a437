---------------------------- MODULE MCRunRegistry ----------------------------
(* RunRegistry on small instances. *)
EXTENDS RunRegistry, TLC

CONSTANTS j1, j2

\* The second job is the more urgent one.
MCPriority == [j \in Jobs |-> IF j = j2 THEN 1 ELSE 0]

Symmetry == Permutations(Workers)
=============================================================================
