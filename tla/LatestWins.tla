----------------------------- MODULE LatestWins -----------------------------
(***************************************************************************)
(* What the user is promised of a streamed answer: the growing text is     *)
(* shown in order, versions may be skipped but never shown again, and      *)
(* "complete" is only said once the newest version has been handed over.   *)
(***************************************************************************)
EXTENDS Naturals

CONSTANT Chunks     \* bound of the versions one answer goes through

VARIABLES newest,   \* the last version the model produced
          given,    \* the last version handed to the connection
          ended     \* the answer was announced as complete

channel == <<newest, given, ended>>

Init == newest = 0 /\ given = 0 /\ ended = FALSE

Produce == /\ ~ended /\ newest < Chunks
           /\ newest' = newest + 1
           /\ UNCHANGED <<given, ended>>

Give == /\ ~ended
        /\ given' \in given + 1 .. newest
        /\ UNCHANGED <<newest, ended>>

Complete == /\ ~ended /\ given = newest
            /\ ended' = TRUE
            /\ UNCHANGED <<newest, given>>

Spec == Init /\ [][Produce \/ Give \/ Complete]_channel
=============================================================================
