--------------------------- MODULE MCReindexQueue ---------------------------
(* Small instances of ReindexQueue for TLC.                                *)
EXTENDS ReindexQueue, TLC

Symmetry == Permutations(Run) \cup Permutations(Entity)
=============================================================================
