---------------------------- MODULE MCProducerPool ----------------------------
(***************************************************************************)
(* Instances of ProducerPool.                                              *)
(***************************************************************************)
EXTENDS ProducerPool
=============================================================================
