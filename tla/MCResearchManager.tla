-------------------------- MODULE MCResearchManager --------------------------
(* ResearchManager on small instances. *)
EXTENDS ResearchManager, TLC

\* Keys, requests and callers are interchangeable.
Symmetry ==
    Permutations(Keys) \cup Permutations(Requests) \cup Permutations(Clients)
=============================================================================
