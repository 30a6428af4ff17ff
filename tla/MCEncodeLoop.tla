----------------------------- MODULE MCEncodeLoop -----------------------------
(***************************************************************************)
(* Instance of EncodeLoop.                                                 *)
(***************************************************************************)
EXTENDS EncodeLoop
=============================================================================
