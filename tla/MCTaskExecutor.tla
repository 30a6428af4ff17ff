---------------------------- MODULE MCTaskExecutor ----------------------------
(***************************************************************************)
(* Instances of TaskExecutor.                                              *)
(***************************************************************************)
EXTENDS TaskExecutor
=============================================================================
