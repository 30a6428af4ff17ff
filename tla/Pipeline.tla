------------------------------- MODULE Pipeline -------------------------------
(***************************************************************************)
(* One consumer and its sink, end to end, composed of what the modules of  *)
(* the components promise: the capture queue and the queue of flows are    *)
(* Handoffs, the executors of the LiveParser and of the KafkaSink are      *)
(* Executors.  Between them stand consumer_job, the flow table with its    *)
(* mutex and its sweep, and one LoopTask per GPU; the stop travels from    *)
(* stopCapture through the consumer and ~KafkaSink back to ~LiveParser.    *)
(*                                                                         *)
(* A thread that reads a queue gives what it got to AddTask and does       *)
(* nothing between: batch n of a queue is task n of the executor behind    *)
(* it, and reading and AddTask are one step here.  Time is left out: a     *)
(* sleep may end and a flow may be too old at any time (FlowTable has the  *)
(* clock).                                                                 *)
(***************************************************************************)
EXTENDS Integers, Sequences, FiniteSets, FiniteSetsExt, SequencesExt

CONSTANTS
  Key,         \* flow ids
  Gpu,         \* CUDA devices, one LoopTask each
  MinPackets,  \* values of opt.min_packets tried
  NumPackets   \* bound on the captured packets

ASSUME KeyAssumption == IsFiniteSet(Key)
ASSUME MinPacketsAssumption == MinPackets \subseteq Nat \ {0}
ASSUME NumPacketsAssumption == NumPackets \in Nat

Packet == 1 .. NumPackets
Task == 1 .. NumPackets    \* no batch is empty
FlowId == 1 .. NumPackets  \* nor is a flow

VARIABLES
  min_packets, \* of opt
  mainPc,      \* "loop", "join", "exit"; "undefined" after the use of a dead sink
  consumerPc,  \* "check", "read", then ~KafkaSink: "wakeup", "clear", "cleaner",
               \* "loops", "executor", "gone"
  sent, handed, batches, status,  \* capture queue, and MakeFlow tasks
  todo,        \* per MakeFlow task: packets still to be merged
  mtx,         \* MakeFlow task that holds mtxAccessToFlowTable, 0 if none
  table,       \* mFlowTable: the packet list of each key
  cleanPc,     \* cleanUnwantedFlowTask: "check", "sleep", "exited"
  stop_requested, mIsRunning,     \* of mSleeper and of the sink
  expired, unparsed,              \* packets discarded
  flows,       \* the flows enqueued, in order
  flowHanded, flowBatches, flowStatus,  \* queue of flows, and encode tasks
  loopPc,      \* per GPU: "check", "read", "exited"
  messages,    \* flows given to librdkafka
  lost         \* flows of a failed task or of a message librdkafka refused

threadVars == <<min_packets, mainPc, consumerPc>>
captureVars == <<sent, handed>>
taskVars == <<batches, status, todo>>
tableVars == <<mtx, table, expired, unparsed>>
sinkVars == <<cleanPc, stop_requested, mIsRunning>>
encodeVars == <<flowHanded, flowBatches, flowStatus, loopPc, messages, lost>>
vars == <<threadVars, captureVars, taskVars, tableVars, sinkVars, flows, encodeVars>>

PacketQueue == INSTANCE Handoff WITH MaxItems <- NumPackets, broken <- FALSE
FlowQueue == INSTANCE Handoff WITH MaxItems <- NumPackets, broken <- FALSE,
                sent <- Len(flows), handed <- flowHanded, batches <- flowBatches
ParserTasks == INSTANCE Executor WITH MaxTasks <- NumPackets, added <- batches,
                closed <- mainPc = "exit" /\ consumerPc = "gone"
SinkTasks == INSTANCE Executor WITH MaxTasks <- NumPackets, added <- flowBatches,
                status <- flowStatus, closed <- consumerPc = "gone"

Init ==
  /\ min_packets \in MinPackets
  /\ mainPc = "loop"
  /\ consumerPc = "check"
  /\ sent = 0 /\ handed = [p \in Packet |-> 0] /\ batches = 0
  /\ status = [t \in Task |-> "new"]
  /\ todo = [t \in Task |-> {}]
  /\ mtx = 0
  /\ table = [k \in Key |-> <<>>]
  /\ cleanPc = "check"
  /\ stop_requested = FALSE
  /\ mIsRunning = TRUE
  /\ expired = {}
  /\ unparsed = {}
  /\ flows = <<>> /\ flowHanded = [f \in FlowId |-> 0] /\ flowBatches = 0
  /\ flowStatus = [t \in Task |-> "new"]
  /\ loopPc = [g \in Gpu |-> "check"]
  /\ messages = {}
  /\ lost = {}

-----------------------------------------------------------------------------
(* The main thread: pcap_loop, then ~LiveParser *)

LiveHandler ==
  /\ mainPc = "loop"
  /\ PacketQueue!Put
  /\ UNCHANGED <<threadVars, status, todo, tableVars, sinkVars, flows, encodeVars>>

(* stopCapture, the return of pcap_loop and the beginning of ~LiveParser   *)
(* (apart from each other in LiveParser)                                   *)
StopCapture ==
  /\ mainPc = "loop"
  /\ mainPc' = "join"
  /\ UNCHANGED <<min_packets, consumerPc, captureVars, taskVars, tableVars, sinkVars, flows,
                 encodeVars>>

is_running == mainPc = "loop"

(* The consumer is joined and the executor destroyed. *)
ParserDeleted ==
  /\ mainPc = "join"
  /\ consumerPc = "gone"
  /\ mainPc' = "exit"
  /\ UNCHANGED <<min_packets, consumerPc, captureVars, todo, tableVars, sinkVars, flows,
                 encodeVars>>
  /\ ParserTasks!Close

-----------------------------------------------------------------------------
(* consumer_job and, when its loop ends, ~KafkaSink *)

ConsumerCheck ==
  /\ consumerPc = "check"
  /\ consumerPc' = IF is_running THEN "read" ELSE "wakeup"
  /\ UNCHANGED <<min_packets, mainPc, captureVars, taskVars, tableVars, sinkVars, flows,
                 encodeVars>>

(* The batch S is the next task; an empty one is skipped. *)
ConsumerRead(S) ==
  /\ consumerPc = "read"
  /\ consumerPc' = "check"
  /\ UNCHANGED <<min_packets, mainPc, tableVars, sinkVars, flows, encodeVars>>
  /\ IF S = {}
       THEN UNCHANGED <<captureVars, taskVars>>
       ELSE /\ PacketQueue!Take(S)
            /\ ParserTasks!Submit
            /\ todo' = [todo EXCEPT ![batches + 1] = S]

(* mSleeper.wakeup() *)
StopNotRequested == FALSE
StopRequested == TRUE

DtorWakeup ==
  /\ consumerPc = "wakeup"
  /\ stop_requested' = StopRequested
  /\ consumerPc' = "clear"
  /\ UNCHANGED <<min_packets, mainPc, captureVars, taskVars, tableVars, cleanPc, mIsRunning, flows,
                 encodeVars>>

DtorStop ==
  /\ consumerPc = "clear"
  /\ mIsRunning' = FALSE
  /\ consumerPc' = "cleaner"
  /\ UNCHANGED <<min_packets, mainPc, captureVars, taskVars, tableVars, cleanPc, stop_requested,
                 flows, encodeVars>>

DtorJoin ==
  /\ \/ consumerPc = "cleaner" /\ cleanPc = "exited" /\ consumerPc' = "loops"
     \/ consumerPc = "loops" /\ (\A g \in Gpu : loopPc[g] = "exited") /\ consumerPc' = "executor"
  /\ UNCHANGED <<min_packets, mainPc, captureVars, taskVars, tableVars, sinkVars, flows,
                 encodeVars>>

(* The members are destroyed, mTaskExecutor before the table. *)
DtorExecutor ==
  /\ consumerPc = "executor"
  /\ consumerPc' = "gone"
  /\ SinkTasks!Close
  /\ UNCHANGED <<min_packets, mainPc, captureVars, taskVars, tableVars, sinkVars, flows, flowHanded,
                 loopPc, messages, lost>>

-----------------------------------------------------------------------------
(* MakeFlow, as a task of the parser's executor *)

TaskStart(t) ==
  /\ UNCHANGED <<threadVars, captureVars, todo, tableVars, sinkVars, flows, encodeVars>>
  /\ ParserTasks!Start(t)

OnLiveSink(t) == status[t] = "running" /\ consumerPc # "gone"

(* parse_raw_packets, which drops the packets of S, and the scoped_lock of *)
(* merge_to_existing_flow                                                  *)
ParseAndLock(t, S) ==
  /\ OnLiveSink(t)
  /\ mtx = 0
  /\ mtx' = t
  /\ todo' = [todo EXCEPT ![t] = @ \ S]
  /\ unparsed' = unparsed \cup S
  /\ UNCHANGED <<threadVars, captureVars, batches, status, table, expired, sinkVars, flows,
                 encodeVars>>

(* util::IsFlowReady *)
IsFlowReady(k) == Len(table[k]) >= min_packets

(* A packet of key k: a complete list is enqueued first. *)
Merge(t, k) ==
  /\ OnLiveSink(t)
  /\ mtx = t
  /\ todo[t] # {}
  /\ LET p == Min(todo[t]) IN
       /\ todo' = [todo EXCEPT ![t] = @ \ {p}]
       /\ IF IsFlowReady(k)
            THEN /\ flows' = Append(flows, table[k])
                 /\ table' = [table EXCEPT ![k] = <<p>>]
                 /\ FlowQueue!Put
            ELSE /\ table' = [table EXCEPT ![k] = Append(@, p)]
                 /\ UNCHANGED <<flows, flowHanded, flowBatches>>
  /\ UNCHANGED <<threadVars, captureVars, batches, status, mtx, expired, unparsed, sinkVars,
                 flowStatus, loopPc, messages, lost>>

TaskEnd(t) ==
  /\ OnLiveSink(t)
  /\ mtx = t
  /\ todo[t] = {}
  /\ mtx' = 0
  /\ UNCHANGED <<threadVars, captureVars, todo, table, expired, unparsed, sinkVars, flows,
                 encodeVars>>
  /\ ParserTasks!Finish(t)

(* A task has a plain reference to the sink of a consumer that has ended:  *)
(* nothing is said of what happens then.                                   *)
DeadSinkUsed(t) ==
  /\ status[t] = "running"
  /\ consumerPc = "gone"
  /\ mainPc' = "undefined"
  /\ UNCHANGED <<min_packets, consumerPc, captureVars, taskVars, tableVars, sinkVars, flows,
                 encodeVars>>

-----------------------------------------------------------------------------
(* cleanUnwantedFlowTask *)

CleanCheck ==
  /\ cleanPc = "check"
  /\ cleanPc' = IF mIsRunning THEN "sleep" ELSE "exited"
  /\ UNCHANGED <<threadVars, captureVars, taskVars, tableVars, stop_requested, mIsRunning, flows,
                 encodeVars>>

(* The keys erased from the table *)
ErasedLate(ready, late) == late
Erased(ready, late) == ready \cup late

(* The sleep ends and the table is swept under the mutex: complete lists   *)
(* are enqueued, and those that _isTimeout finds too old are discarded.    *)
SweepTable(late) ==
  /\ cleanPc = "sleep"
  /\ mtx = 0
  /\ cleanPc' = "check"
  /\ LET ready == {k \in Key : IsFlowReady(k)} IN
       /\ flows' = flows \o SetToSeq({table[k] : k \in ready})
       /\ expired' = expired \cup UNION {ToSet(table[k]) : k \in late}
       /\ table' = [k \in Key |-> IF k \in Erased(ready, late) THEN <<>> ELSE table[k]]
  /\ UNCHANGED <<threadVars, captureVars, taskVars, mtx, unparsed, stop_requested, mIsRunning,
                 encodeVars>>

Short == {k \in Key : table[k] # <<>> /\ ~IsFlowReady(k)}

SleepInterrupted == stop_requested /\ \E late \in SUBSET Short : SweepTable(late)
SleepTimeout == ~stop_requested /\ \E late \in SUBSET Short : SweepTable(late)

-----------------------------------------------------------------------------
(* LoopTask, and its tasks: EncodeFlowList and send_all_to_kafka *)

LoopCheck(g) ==
  /\ loopPc[g] = "check"
  /\ loopPc' = [loopPc EXCEPT ![g] = IF mIsRunning THEN "read" ELSE "exited"]
  /\ UNCHANGED <<threadVars, captureVars, taskVars, tableVars, sinkVars, flows, flowHanded,
                 flowBatches, flowStatus, messages, lost>>

(* After an empty batch the loop sleeps and tries again. *)
AfterReadExits(S) == IF S = {} THEN "exited" ELSE "check"
AfterRead(S) == "check"

LoopRead(g, S) ==
  /\ loopPc[g] = "read"
  /\ loopPc' = [loopPc EXCEPT ![g] = AfterRead(S)]
  /\ UNCHANGED <<threadVars, captureVars, taskVars, tableVars, sinkVars, flows, messages, lost>>
  /\ IF S = {}
       THEN UNCHANGED <<flowHanded, flowBatches, flowStatus>>
       ELSE FlowQueue!Take(S) /\ SinkTasks!Submit

EncodeStart(t) ==
  /\ UNCHANGED <<threadVars, captureVars, taskVars, tableVars, sinkVars, flows, flowHanded, loopPc,
                 messages, lost>>
  /\ SinkTasks!Start(t)

(* The flows of S are in a message that librdkafka accepted. *)
EncodeEnd(t) ==
  /\ UNCHANGED <<threadVars, captureVars, taskVars, tableVars, sinkVars, flows, flowHanded, loopPc>>
  /\ LET batch == {f \in FlowId : flowHanded[f] = t} IN
       \E S \in SUBSET batch : messages' = messages \cup S /\ lost' = lost \cup (batch \ S)
  /\ SinkTasks!Finish(t)

(* An exception in a thread of encode_flow_concurrently ends the process. *)
Terminate(t) ==
  /\ flowStatus[t] = "running"
  /\ mainPc' = "exit"
  /\ UNCHANGED <<min_packets, consumerPc, captureVars, taskVars, tableVars, sinkVars, flows,
                 encodeVars>>

-----------------------------------------------------------------------------

Up == mainPc \in {"loop", "join"}

MainStep == Up /\ ParserDeleted
ConsumerStep ==
  Up /\ (\/ ConsumerCheck \/ \E S \in SUBSET PacketQueue!Pending : ConsumerRead(S)
         \/ DtorWakeup \/ DtorStop \/ DtorJoin \/ DtorExecutor)
MakeFlow(t) ==
  Up /\ (\/ TaskStart(t) \/ \E S \in SUBSET todo[t] : ParseAndLock(t, S)
         \/ \E k \in Key : Merge(t, k)
         \/ TaskEnd(t) \/ DeadSinkUsed(t))
CleanStep == Up /\ (CleanCheck \/ SleepInterrupted)
LoopStep(g) == Up /\ (LoopCheck(g) \/ \E S \in SUBSET FlowQueue!Pending : LoopRead(g, S))
EncodeStep(t) == Up /\ (EncodeStart(t) \/ EncodeEnd(t) \/ Terminate(t))

(* Steps of these threads that fairness singles out *)
ShortExpire == Up /\ is_running /\ SweepTable(Short)
OldestPacketRead ==
  Up /\ \E S \in SUBSET PacketQueue!Pending :
          S # {} /\ Min(PacketQueue!Pending) \in S /\ ConsumerRead(S)
OldestFlowRead ==
  Up /\ \E g \in Gpu, S \in SUBSET FlowQueue!Pending :
          S # {} /\ Min(FlowQueue!Pending) \in S /\ LoopRead(g, S)

Next ==
  \/ Up /\ (LiveHandler \/ StopCapture \/ SleepTimeout)
  \/ MainStep \/ ConsumerStep \/ CleanStep
  \/ \E t \in Task : MakeFlow(t) \/ EncodeStep(t)
  \/ \E g \in Gpu : LoopStep(g)

(* Threads and tasks are scheduled and a mutex released again and again is *)
(* obtained.  Whoever keeps reading a queue gets its oldest item           *)
(* (EventuallyHanded of DoubleBufferQueue); a short list is too old in the *)
(* end.  The timer of the sweep is relied on while the capture runs, not   *)
(* to stop.                                                                *)
Fairness ==
  /\ WF_vars(MainStep)
  /\ WF_vars(ConsumerStep)
  /\ SF_vars(OldestPacketRead)
  /\ WF_vars(\E t \in Task : MakeFlow(t))
  /\ WF_vars(CleanStep)
  /\ SF_vars(ShortExpire)
  /\ WF_vars(\E g \in Gpu : LoopStep(g))
  /\ SF_vars(OldestFlowRead)
  /\ WF_vars(\E t \in Task : EncodeStep(t))

Spec == Init /\ [][Next]_vars /\ Fairness

-----------------------------------------------------------------------------
(* Properties *)

(* Where a flow may be: in the queue of flows, in a task, or settled *)
FlowPlaces(f) ==
  {x \in {"queue", "task", "message", "lost"} :
     \/ x = "queue" /\ f \in FlowQueue!Pending
     \/ x = "task" /\ flowHanded[f] # 0 /\ flowStatus[flowHanded[f]] # "ready"
     \/ x = "message" /\ f \in messages
     \/ x = "lost" /\ f \in lost}

(* Where a packet may be: each position in a list counts, so that a list   *)
(* with a packet twice is two places                                       *)
ListPlaces(tag, owner, list, p) == {<<tag, owner, n>> : n \in {n \in DOMAIN list : list[n] = p}}

QueuePlaces(p) == IF p \in PacketQueue!Pending THEN {<<"queue">>} ELSE {}
TodoPlaces(p) == {<<"todo", t>> : t \in {t \in Task : p \in todo[t]}}
TablePlaces(p) == UNION {ListPlaces("table", k, table[k], p) : k \in Key}
ListedPlaces(p) == UNION {ListPlaces("flow", f, flows[f], p) : f \in DOMAIN flows}
ExpiredPlaces(p) == IF p \in expired THEN {<<"expired">>} ELSE {}
UnparsedPlaces(p) == IF p \in unparsed THEN {<<"unparsed">>} ELSE {}

Places(p) ==
  QueuePlaces(p) \cup TodoPlaces(p) \cup TablePlaces(p) \cup ListedPlaces(p)
    \cup ExpiredPlaces(p) \cup UnparsedPlaces(p)

(* From the capture queue to the message: every captured packet is in      *)
(* exactly one place, and so is the flow it is in, whichever of the        *)
(* threads of the pipeline and of its shutdown runs.  Only the destructors *)
(* leave packets behind, in the queues, the table and the tasks that are   *)
(* dropped.                                                                *)
Conserved ==
  /\ \A p \in Packet : Cardinality(Places(p)) = IF p <= sent THEN 1 ELSE 0
  /\ \A f \in FlowId : Cardinality(FlowPlaces(f)) = IF f <= Len(flows) THEN 1 ELSE 0

Settled(p) ==
  p \in expired \cup unparsed \/ \E f \in messages \cup lost : p \in ToSet(flows[f])

(* A captured packet reaches a message, or is discarded as unparsable, as  *)
(* too old or with a failed batch: no queue, executor, list or loop of the *)
(* whole pipeline holds it for ever while the capture runs.                *)
Delivered == \A p \in Packet : p <= sent ~> Settled(p) \/ ~is_running \/ mainPc = "exit"

(* A stop ends the process through four joins and two executors, in the    *)
(* order of the code and without any timer of the sweep, unless a MakeFlow *)
(* task meets the destroyed sink.                                          *)
StopEnds == ~is_running ~> mainPc \in {"exit", "undefined"}

=============================================================================
