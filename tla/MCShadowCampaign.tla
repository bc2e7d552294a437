--------------------------- MODULE MCShadowCampaign --------------------------
(* ShadowCampaign on small instances. *)
EXTENDS ShadowCampaign, TLC

Symmetry == Permutations(Writers) \cup Permutations(Opinions)
            \cup Permutations(Labels)
=============================================================================
