----------------------------- MODULE MCMultiLlm -----------------------------
(* Small instances of MultiLlm for TLC.                                    *)
EXTENDS MultiLlm, TLC
=============================================================================
