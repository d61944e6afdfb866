-------------------------- MODULE MCChatGeneration --------------------------
(* Small instances of ChatGeneration for TLC.                              *)
EXTENDS ChatGeneration, TLC

Symmetry == Permutations(Gen) \cup Permutations(Sid)
=============================================================================
