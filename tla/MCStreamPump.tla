---------------------------- MODULE MCStreamPump ----------------------------
(* A small instance of StreamPump for TLC.                                 *)
EXTENDS StreamPump
=============================================================================
