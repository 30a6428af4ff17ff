------------------------------ MODULE EncodeLoop ------------------------------
(***************************************************************************)
(* The second half of KafkaSink: one LoopTask thread per GPU takes the     *)
(* flows queued for encoding, counts them in NumBlockedFlows and adds a    *)
(* task for the batch; the task cuts the batch in chunks, encodes each     *)
(* chunk in a thread of its own on the GPU of the loop, concatenates the   *)
(* results, cuts them again and sends each piece as one Kafka message.     *)
(* The destructor stops the loops, each of which deletes its model, and    *)
(* then the executor, which drops the tasks it has not started.            *)
(*                                                                         *)
(* The queue hands batches over as module Handoff says, the executor       *)
(* starts tasks as module TaskExecutor shows.  Flows are numbered; the     *)
(* encoding of a flow is its number, or Rand when encode_flow_tensors      *)
(* caught an exception and returned random rows.                           *)
(***************************************************************************)
EXTENDS Integers, Sequences, FiniteSets, FiniteSetsExt, SequencesExt

CONSTANTS
  Gpu,               \* CUDA devices, one LoopTask each
  MaxFlows,          \* bound on the flows
  max_encode_batch,
  max_send_batch

ASSUME BatchAssumption == max_encode_batch \in Nat \ {0} /\ max_send_batch \in Nat \ {0}
ASSUME MaxFlowsAssumption == MaxFlows \in Nat

FlowId == 1 .. MaxFlows
Rand == 0            \* a row of torch::rand
Batch == 1 .. MaxFlows  \* no batch is empty
Chunk == 1 .. MaxFlows

VARIABLES
  made,             \* flows enqueued so far
  doubleBufferQueue,\* flows not yet read
  mIsRunning,
  loopPc,           \* per GPU: "load", "check", "read", "count", "add", "exited"
  hold,             \* per GPU: current_queue
  NumBlockedFlows,
  numBatches,       \* batches passed to AddTask so far
  list,             \* per batch: its flows
  device,           \* per batch: the GPU of the loop that read it
  taskPc,           \* per batch: "none", "queued", "encode", "send", "done", "failed", "dropped"
  encPc,            \* per batch and chunk: "new", "run", "ok", "rand", "threw"
  feature,          \* per batch: the rows after torch::concat
  sendPc,           \* per batch and chunk: "new", "sent", "lost"
  messages,         \* messages given to librdkafka: [ids, rows]
  usedDeleted,      \* history: an encoding used a deleted model
  dtorPc,           \* "none", "cleaner", "loops", "executor", "destroyed"
  aborted           \* std::terminate was called, or the process crashed

queueVars == <<made, doubleBufferQueue>>
loopVars == <<loopPc, hold, NumBlockedFlows>>
batchVars == <<numBatches, list, device>>
encodeVars == <<encPc, feature, usedDeleted>>
sendVars == <<sendPc, messages>>
taskVars == <<batchVars, taskPc, encodeVars, sendVars>>
sinkVars == <<mIsRunning, dtorPc, aborted>>
vars == <<queueVars, loopVars, taskVars, sinkVars>>

TypeOK ==
  /\ made \in 0 .. MaxFlows
  /\ doubleBufferQueue \in Seq(FlowId)
  /\ mIsRunning \in BOOLEAN
  /\ loopPc \in [Gpu -> {"load", "check", "read", "count", "add", "exited"}]
  /\ hold \in [Gpu -> Seq(FlowId)]
  /\ NumBlockedFlows \in 0 .. MaxFlows
  /\ numBatches \in 0 .. MaxFlows
  /\ list \in [Batch -> Seq(FlowId)]
  /\ device \in Seq(Gpu) /\ Len(device) = numBatches
  /\ taskPc \in [Batch -> {"none", "queued", "encode", "send", "done", "failed", "dropped"}]
  /\ encPc \in [Batch -> [Chunk -> {"new", "run", "ok", "rand", "threw"}]]
  /\ feature \in [Batch -> Seq(FlowId \cup {Rand})]
  /\ sendPc \in [Batch -> [Chunk -> {"new", "sent", "lost"}]]
  /\ \A m \in messages : m.ids \in Seq(FlowId) /\ m.rows \in Seq(FlowId \cup {Rand})
  /\ usedDeleted \in BOOLEAN
  /\ dtorPc \in {"none", "cleaner", "loops", "executor", "destroyed"}
  /\ aborted \in BOOLEAN

Init ==
  /\ made = 0
  /\ doubleBufferQueue = <<>>
  /\ mIsRunning = TRUE
  /\ loopPc = [g \in Gpu |-> "load"]
  /\ hold = [g \in Gpu |-> <<>>]
  /\ NumBlockedFlows = 0
  /\ numBatches = 0
  /\ list = [b \in Batch |-> <<>>]
  /\ device = <<>>
  /\ taskPc = [b \in Batch |-> "none"]
  /\ encPc = [b \in Batch |-> [c \in Chunk |-> "new"]]
  /\ feature = [b \in Batch |-> <<>>]
  /\ sendPc = [b \in Batch |-> [c \in Chunk |-> "new"]]
  /\ messages = {}
  /\ usedDeleted = FALSE
  /\ dtorPc = "none"
  /\ aborted = FALSE

-----------------------------------------------------------------------------
(* A batch of n items in pieces of at most size *)

(* (data_size + max - 1) / max *)
NumChunks(n, size) == (n + size - 1) \div size

(* The c-th piece: from (c - 1) * size, min(size, n - offset) items. *)
PieceFrom(s, offset, size) == SubSeq(s, offset + 1, offset + Min({size, Len(s) - offset}))
PieceShifted(s, c, size) == PieceFrom(s, c * size, size)
Piece(s, c, size) == PieceFrom(s, (c - 1) * size, size)

EncodeChunks(b) == 1 .. NumChunks(Len(list[b]), max_encode_batch)
SendChunks(b) == 1 .. NumChunks(Len(list[b]), max_send_batch)
EncodePiece(b, c) == Piece(list[b], c, max_encode_batch)

-----------------------------------------------------------------------------
(* merge_to_existing_flow or cleanUnwantedFlowTask enqueue a flow.  The    *)
(* latter may do so until the destructor has joined it.                    *)
NewFlow ==
  /\ dtorPc \in {"none", "cleaner"}
  /\ made < MaxFlows
  /\ made' = made + 1
  /\ doubleBufferQueue' = Append(doubleBufferQueue, made + 1)
  /\ UNCHANGED <<sinkVars, loopVars, taskVars>>

(* LoopTask *)

(* The thread loads the model and moves it to its GPU; nothing catches an  *)
(* exception, which terminates the process.                                *)
LoopLoad(g) ==
  /\ loopPc[g] = "load"
  /\ \/ loopPc' = [loopPc EXCEPT ![g] = "check"] /\ UNCHANGED aborted
     \/ aborted' = TRUE /\ UNCHANGED loopPc
  /\ UNCHANGED <<queueVars, mIsRunning, dtorPc, hold, NumBlockedFlows, taskVars>>

(* while (mIsRunning); when it ends, the thread deletes the model. *)
LoopCheck(g) ==
  /\ loopPc[g] = "check"
  /\ loopPc' = [loopPc EXCEPT ![g] = IF mIsRunning THEN "read" ELSE "exited"]
  /\ UNCHANGED <<queueVars, sinkVars, hold, NumBlockedFlows, taskVars>>

(* An empty batch: the loop sleeps and tries again. *)
AfterEmptyExits == "exited"
AfterEmptyReads == "read"
AfterEmpty == "check"

LoopRead(g) ==
  /\ loopPc[g] = "read"
  /\ hold' = [hold EXCEPT ![g] = doubleBufferQueue]
  /\ doubleBufferQueue' = <<>>
  /\ loopPc' = [loopPc EXCEPT ![g] = IF doubleBufferQueue = <<>> THEN AfterEmpty ELSE "count"]
  /\ UNCHANGED <<made, sinkVars, NumBlockedFlows, taskVars>>

(* NumBlockedFlows.fetch_add(new_data_size) *)
CountedOnce(g) == 1
Counted(g) == Len(hold[g])

LoopCount(g) ==
  /\ loopPc[g] = "count"
  /\ NumBlockedFlows' = NumBlockedFlows + Counted(g)
  /\ loopPc' = [loopPc EXCEPT ![g] = "add"]
  /\ UNCHANGED <<queueVars, sinkVars, hold, taskVars>>

(* mTaskExecutor.AddTask(...) *)
LoopAdd(g) ==
  /\ loopPc[g] = "add"
  /\ numBatches' = numBatches + 1
  /\ list' = [list EXCEPT ![numBatches + 1] = hold[g]]
  /\ device' = Append(device, g)
  /\ taskPc' = [taskPc EXCEPT ![numBatches + 1] = "queued"]
  /\ hold' = [hold EXCEPT ![g] = <<>>]
  /\ loopPc' = [loopPc EXCEPT ![g] = "check"]
  /\ UNCHANGED <<queueVars, sinkVars, NumBlockedFlows, encodeVars, sendVars>>

-----------------------------------------------------------------------------
(* The task of a batch *)

(* The executor starts its tasks in the order of AddTask. *)
MayStartAfterDone(b) == \A a \in Batch : a < b => taskPc[a] = "done"
MayStart(b) == \A a \in Batch : a < b => taskPc[a] # "queued"

TaskStart(b) ==
  /\ taskPc[b] = "queued"
  /\ MayStart(b)
  /\ taskPc' = [taskPc EXCEPT ![b] = "encode"]
  /\ UNCHANGED <<queueVars, sinkVars, loopVars, batchVars, encodeVars, sendVars>>

(* EncodeFlowList: a batch below max_encode_batch is a single chunk, which *)
(* the task encodes itself; otherwise each chunk has a thread.  Either way *)
(* the flows stop being blocked when the encoding of their chunk begins.   *)
UnblockAll(b, c) == Len(list[b])
Unblocked(b, c) == Len(EncodePiece(b, c))

EncodeBegin(b, c) ==
  /\ taskPc[b] = "encode"
  /\ c \in EncodeChunks(b)
  /\ encPc[b][c] = "new"
  /\ NumBlockedFlows' = NumBlockedFlows - Unblocked(b, c)
  /\ encPc' = [encPc EXCEPT ![b][c] = "run"]
  /\ UNCHANGED <<queueVars, sinkVars, loopPc, hold, batchVars, taskPc, feature, usedDeleted,
                 sendVars>>

(* encode_flow_tensors: the encodings, or random rows after an exception.  *)
(* model is a raw pointer, deleted when the loop of its GPU has ended: an  *)
(* encoding that goes on may find what is left of it, or crash.            *)
EncodeEnd(b, c) ==
  /\ encPc[b][c] = "run"
  /\ \E outcome \in {"ok", "rand"} : encPc' = [encPc EXCEPT ![b][c] = outcome]
  /\ usedDeleted' = (usedDeleted \/ loopPc[device[b]] = "exited")
  /\ UNCHANGED <<queueVars, sinkVars, loopVars, batchVars, taskPc, feature, sendVars>>

(* The use of a model already deleted brings the process down. *)
EncodeCrash(b, c) ==
  /\ encPc[b][c] = "run"
  /\ loopPc[device[b]] = "exited"
  /\ usedDeleted' = TRUE
  /\ aborted' = TRUE
  /\ UNCHANGED <<queueVars, mIsRunning, dtorPc, loopVars, batchVars, taskPc, encPc, feature,
                 sendVars>>

(* A batch of max_encode_batch flows or more is encoded by threads. *)
Threaded(b) == Len(list[b]) >= max_encode_batch

(* encodings.cpu(), after the try block, throws (a failure of the device   *)
(* may surface only there).  In the task the exception ends in a future    *)
(* nobody reads; in a thread of encode_flow_concurrently nothing catches   *)
(* it and the process is terminated.                                       *)
EncodeThrow(b, c) ==
  /\ encPc[b][c] = "run"
  /\ encPc' = [encPc EXCEPT ![b][c] = "threw"]
  /\ usedDeleted' = (usedDeleted \/ loopPc[device[b]] = "exited")
  /\ IF Threaded(b)
       THEN aborted' = TRUE /\ UNCHANGED taskPc
       ELSE taskPc' = [taskPc EXCEPT ![b] = "failed"] /\ UNCHANGED aborted
  /\ UNCHANGED <<queueVars, mIsRunning, loopVars, batchVars, feature, sendVars, dtorPc>>

(* result[batch_index]: {n, 128} rows, or {n, 1, 128} random ones. *)
Result(b, c) ==
  IF encPc[b][c] = "ok" THEN EncodePiece(b, c)
                        ELSE [n \in 1 .. Len(EncodePiece(b, c)) |-> Rand]

(* The results in the order of the chunks, whichever ended first. *)
ConcatReversed(b) == FlattenSeq(Reverse([c \in EncodeChunks(b) |-> Result(b, c)]))
Concat(b) == FlattenSeq([c \in EncodeChunks(b) |-> Result(b, c)])

(* All threads joined; torch::concat throws when the results differ in     *)
(* dimension, and the exception ends in a future nobody reads.             *)
EncodeJoin(b) ==
  /\ taskPc[b] = "encode"
  /\ \A c \in EncodeChunks(b) : encPc[b][c] \in {"ok", "rand"}
  /\ IF \E outcome \in {"ok", "rand"} : \A c \in EncodeChunks(b) : encPc[b][c] = outcome
       THEN /\ feature' = [feature EXCEPT ![b] = Concat(b)]
            /\ taskPc' = [taskPc EXCEPT ![b] = "send"]
       ELSE /\ taskPc' = [taskPc EXCEPT ![b] = "failed"]
            /\ UNCHANGED feature
  /\ UNCHANGED <<queueVars, sinkVars, loopVars, batchVars, encPc, usedDeleted, sendVars>>

(* send_one_msg: rows and ids of one piece; the errors of produce are only *)
(* reported to the caller, which ignores them.                             *)
SendOneMsg(b, c) ==
  /\ taskPc[b] = "send"
  /\ c \in SendChunks(b)
  /\ sendPc[b][c] = "new"
  /\ \/ /\ messages' = messages \cup {[ids |-> Piece(list[b], c, max_send_batch),
                                       rows |-> Piece(feature[b], c, max_send_batch)]}
        /\ sendPc' = [sendPc EXCEPT ![b][c] = "sent"]
     \/ /\ sendPc' = [sendPc EXCEPT ![b][c] = "lost"]
        /\ UNCHANGED messages
  /\ UNCHANGED <<queueVars, sinkVars, loopVars, batchVars, taskPc, encodeVars>>

SendJoin(b) ==
  /\ taskPc[b] = "send"
  /\ \A c \in SendChunks(b) : sendPc[b][c] # "new"
  /\ taskPc' = [taskPc EXCEPT ![b] = "done"]
  /\ UNCHANGED <<queueVars, sinkVars, loopVars, batchVars, encodeVars, sendVars>>

-----------------------------------------------------------------------------
(* ~KafkaSink *)

DtorStop ==
  /\ dtorPc = "none"
  /\ mIsRunning' = FALSE
  /\ dtorPc' = "cleaner"
  /\ UNCHANGED <<queueVars, loopVars, taskVars, aborted>>

DtorJoinCleaner ==
  /\ dtorPc = "cleaner"
  /\ dtorPc' = "loops"
  /\ UNCHANGED <<queueVars, mIsRunning, loopVars, taskVars, aborted>>

(* The loops are joined, then mTaskExecutor is destroyed: what it has not  *)
(* started is dropped, what runs is waited for.                            *)
DtorJoin ==
  /\ dtorPc = "loops"
  /\ \A g \in Gpu : loopPc[g] = "exited"
  /\ taskPc' = [b \in Batch |-> IF taskPc[b] = "queued" THEN "dropped" ELSE taskPc[b]]
  /\ dtorPc' = "executor"
  /\ UNCHANGED <<queueVars, mIsRunning, loopVars, batchVars, encodeVars, sendVars, aborted>>

DtorExecutor ==
  /\ dtorPc = "executor"
  /\ \A b \in Batch : taskPc[b] \notin {"encode", "send"}
  /\ dtorPc' = "destroyed"
  /\ UNCHANGED <<queueVars, mIsRunning, loopVars, taskVars, aborted>>

-----------------------------------------------------------------------------

Up == ~aborted

LoopTask(g) ==
  Up /\ (LoopLoad(g) \/ LoopCheck(g) \/ LoopRead(g) \/ LoopCount(g) \/ LoopAdd(g))

EncodeStep(b, c) ==
  EncodeBegin(b, c) \/ EncodeEnd(b, c) \/ EncodeCrash(b, c) \/ EncodeThrow(b, c)

TaskStep(b) ==
  Up /\ (\/ TaskStart(b) \/ EncodeJoin(b) \/ SendJoin(b)
         \/ \E c \in Chunk : EncodeStep(b, c) \/ SendOneMsg(b, c))

DtorStep == Up /\ (DtorJoinCleaner \/ DtorJoin \/ DtorExecutor)

Next ==
  \/ Up /\ (NewFlow \/ DtorStop)
  \/ \E g \in Gpu : LoopTask(g)
  \/ \E b \in Batch : TaskStep(b)
  \/ DtorStep

(* The loops, the tasks and the destructor are threads that are scheduled; *)
(* encoding and sending a chunk take finite time.                          *)
Fairness ==
  /\ \A g \in Gpu : WF_vars(LoopTask(g))
  /\ \A b \in Batch : WF_vars(TaskStep(b))
  /\ WF_vars(DtorStep)

Spec == Init /\ [][Next]_vars /\ Fairness

-----------------------------------------------------------------------------
(* Properties *)

FlowsOf(b, status) ==
  UNION {ToSet(EncodePiece(b, c)) : c \in {c \in EncodeChunks(b) : encPc[b][c] = status}}

(* Flows counted by a loop and not yet given to a task, and flows of the   *)
(* tasks' chunks whose encoding has not begun                              *)
HeldFlows == UNION {ToSet(hold[g]) : g \in {g \in Gpu : loopPc[g] = "add"}}
WaitingFlows == UNION {FlowsOf(b, "new") : b \in Batch}

(* NumBlockedFlows, reported as the number of flows waiting, is the number *)
(* of flows read by a loop whose encoding has not begun (for good, if      *)
(* their task was dropped): never negative, and exact under any            *)
(* interleaving of loops, tasks and chunk threads.                         *)
BlockedExact == NumBlockedFlows = Cardinality(HeldFlows \cup WaitingFlows)

(* Every message has at most max_send_batch flows (global.hpp), one row    *)
(* for each, and row n is the encoding of flow n or, for the whole         *)
(* message, random: the order in which the chunk threads end never shifts  *)
(* a row to another id.                                                    *)
RowsMatchIds ==
  \A m \in messages :
    /\ Len(m.ids) \in 1 .. max_send_batch
    /\ m.rows = m.ids \/ m.rows = [n \in 1 .. Len(m.ids) |-> Rand]

(* No flow is in two messages, and a task that ends normally without an    *)
(* error of produce has sent every flow of its batch: the pieces of        *)
(* send_concurrently cover the batch exactly.                              *)
EachFlowSentOnce ==
  /\ \A f \in FlowId : Cardinality({m \in messages : f \in ToSet(m.ids)}) <= 1
  /\ \A b \in Batch :
       taskPc[b] = "done" /\ (\A c \in Chunk : sendPc[b][c] # "lost")
         => ToSet(list[b]) \subseteq UNION {ToSet(m.ids) : m \in messages}

(* While the sink is in use, no encoding uses a deleted model: the tasks   *)
(* hold a raw pointer that only the end of a loop invalidates.  (Once the  *)
(* destructor has begun, the loops delete the models before the executor   *)
(* has finished its tasks, and nothing prevents the use.)                  *)
ModelAliveInUse == usedDeleted => dtorPc # "none"

(* Unless the process is terminated, every batch is sent, given up or      *)
(* dropped; a batch that failed does not hold up those behind it.          *)
BatchSettles ==
  \A b \in Batch : taskPc[b] = "queued"
                      ~> taskPc[b] \in {"done", "failed", "dropped"} \/ aborted

(* The destructor of the sink returns: every loop notices the stop, and no *)
(* task it waits for is stuck, whichever of its chunks failed.             *)
SinkDestroyed == dtorPc = "cleaner" ~> dtorPc = "destroyed" \/ aborted

=============================================================================
