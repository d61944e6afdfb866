--------------------------- MODULE MCKeywordIndex ---------------------------
(* Small instances of KeywordIndex for TLC.                                *)
EXTENDS KeywordIndex
=============================================================================
