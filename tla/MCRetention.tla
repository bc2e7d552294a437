----------------------------- MODULE MCRetention -----------------------------
(* Retention on small instances. *)
EXTENDS Retention, TLC

\* One job at a time: priority does not matter.
Equal == [j \in Jobs |-> 0]

Symmetry == Permutations(Digests) \cup Permutations(Controllers)
=============================================================================
