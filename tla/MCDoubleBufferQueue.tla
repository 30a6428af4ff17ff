------------------------ MODULE MCDoubleBufferQueue ------------------------
(***************************************************************************)
(* Instances of DoubleBufferQueue: one reader, as in LiveParser with the   *)
(* default of one worker, and two, as in KafkaSink with two GPUs.          *)
(***************************************************************************)
EXTENDS DoubleBufferQueue
=============================================================================
