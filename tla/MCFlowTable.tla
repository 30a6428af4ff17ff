----------------------------- MODULE MCFlowTable -----------------------------
(***************************************************************************)
(* Instances of FlowTable.                                                 *)
(***************************************************************************)
EXTENDS FlowTable
=============================================================================
