---------------------------- MODULE MCKbReindex ----------------------------
(* Small instances of KbReindex for TLC.                                   *)
EXTENDS KbReindex, TLC

CONSTANTS a, b, d1, d2, x, y

OwnDocs == [e \in Entity |-> IF e = a THEN {d1} ELSE {d2}]
SharedDocs == [e \in Entity |-> {d1}]
NoBases == {}
OneBase == {{d2}}

Symmetry == Permutations(Run)
=============================================================================
