---------------------------- MODULE MCMcpSessions ----------------------------
(* Small instances of McpSessions for TLC.                                 *)
EXTENDS McpSessions, TLC

CONSTANTS s1, s2, r1, r2, r3

OneOrBoth == r1 :> <<s1, s2>> @@ r2 :> <<s1>> @@ r3 :> <<s1>>
TwoUsers == r1 :> "ann" @@ r2 :> "ann" @@ r3 :> "bob"
=============================================================================
