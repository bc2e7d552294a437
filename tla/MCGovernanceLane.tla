-------------------------- MODULE MCGovernanceLane ---------------------------
(* GovernanceLane on small instances. *)
EXTENDS GovernanceLane, TLC

\* Events of other kinds, one with content of its own and one with the content of
\* a freeze, as monitoring may record it.
Noted == [kind : {"note"}, payload : Note \cup Stop]

Symmetry == Permutations(Writers) \cup Permutations(Revisions)
=============================================================================
