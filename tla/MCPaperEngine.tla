---------------------------- MODULE MCPaperEngine ----------------------------
(* PaperEngine on small instances. *)
EXTENDS PaperEngine, TLC

Symmetry == Permutations(Symbols)
=============================================================================
