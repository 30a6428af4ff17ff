------------------------------ MODULE MCPipeline ------------------------------
(***************************************************************************)
(* Instance of Pipeline.                                                   *)
(***************************************************************************)
EXTENDS Pipeline
=============================================================================
