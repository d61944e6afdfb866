----------------------------- MODULE MCKbUpload -----------------------------
(* Small instances of KbUpload for TLC.                                    *)
EXTENDS KbUpload, TLC

CONSTANTS f, g, h, s, t

(* f and g are two files with one text.                                    *)
Texts == [x \in File |-> IF x = h THEN s ELSE t]

Symmetry == Permutations(Upload)
=============================================================================
