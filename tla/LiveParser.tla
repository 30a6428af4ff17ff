------------------------------ MODULE LiveParser ------------------------------
(***************************************************************************)
(* The life of the process: main() parses the options, registers the       *)
(* signal handler, creates the LiveParser, runs pcap_loop and deletes the  *)
(* parser.  Each consumer thread owns a KafkaSink and turns the packets it *)
(* reads into MakeFlow tasks of the shared executor, which refer to that   *)
(* sink.  stopCapture() is called by a detached canceler thread (option    *)
(* duration) and by the signal handler.                                    *)
(*                                                                         *)
(* Module Options holds the switch of ParseOptions.                        *)
(*                                                                         *)
(* The packet queue hands batches over as module Handoff says, MakeFlow is *)
(* module FlowTable, the executor module TaskExecutor and the destructor   *)
(* of a sink module EncodeLoop.                                            *)
(***************************************************************************)
EXTENDS Options, SequencesExt, FiniteSets

CONSTANTS
  CommandLines,  \* the command lines tried
  MaxWorkers,    \* bound on opt.workers
  MaxPackets,    \* bound on the packets captured
  MaxSignals,    \* bound on the signals received
  patience       \* of register_handler

ASSUME BoundAssumption ==
  /\ MaxWorkers \in Nat \ {0} /\ MaxPackets \in Nat
  /\ MaxSignals \in Nat /\ patience \in Nat

(* The number after -J is within its bound. *)
Within(line) ==
  \A i \in 1 .. Len(line) - 1 :
    line[i] \in {"J", "workers"} /\ ~Throws(line[i + 1]) => stoi[line[i + 1]] <= MaxWorkers

ASSUME CommandLineAssumption ==
  \A line \in CommandLines : line \in Seq(STRING) /\ Within(line)

Packet == 1 .. MaxPackets
Consumer == 1 .. MaxWorkers
Stopper == {"canceler", "handler"}

VARIABLES
  argv,         \* the words getopt_long has not yet seen
  opt,          \* the global capture_option
  mainPc,       \* "options", "start", "loop", "delete", "join", "executor", "deleted", "exit"
  is_running,
  breakLoop,    \* pcap_breakloop was called
  captured,     \* packets captured so far
  queue,        \* doubleBufferQueue: the packets not yet read
  consumerPc,   \* per consumer: "none", "check", "read", "add", "destroy", "exited"
  hand,         \* per consumer: current_queue
  tasks,        \* tasks given to mTaskExecutor: [sink, packets, status]
  processed,    \* packets for which MakeFlow of a live sink has run
  stopPc,       \* per stopper: "idle", "break", "clear", "guard"
  cancelled,    \* the canceler thread has been started and has ended its sleep
  ctrlc,        \* signals handled so far
  staleSink,    \* history: a task used a sink after its destruction began
  stalePointer  \* history: a stopper used pLiveParser null or deleted

optionVars == <<argv, opt>>
captureVars == <<captured, queue>>
runVars == <<is_running, breakLoop, captureVars>>
consumerVars == <<consumerPc, hand>>
taskVars == <<tasks, processed>>
stopVars == <<stopPc, cancelled, ctrlc>>
historyVars == <<staleSink, stalePointer>>
vars == <<optionVars, mainPc, runVars, consumerVars, taskVars, stopVars, historyVars>>

Task == [sink : Consumer, packets : SUBSET Packet,
         status : {"queued", "running", "done", "dropped"}]

TypeOK ==
  /\ argv \in Seq(STRING)
  /\ DOMAIN opt = DOMAIN capture_option /\ opt.workers \in Consumer
  /\ mainPc \in {"options", "start", "loop", "delete", "join", "executor", "deleted", "exit"}
  /\ is_running \in BOOLEAN
  /\ breakLoop \in BOOLEAN
  /\ captured \in 0 .. MaxPackets
  /\ queue \in SUBSET Packet
  /\ consumerPc \in [Consumer -> {"none", "check", "read", "add", "destroy", "exited"}]
  /\ hand \in [Consumer -> SUBSET Packet]
  /\ tasks \in Seq(Task)
  /\ processed \in SUBSET Packet
  /\ stopPc \in [Stopper -> {"idle", "break", "clear", "guard"}]
  /\ cancelled \in BOOLEAN
  /\ ctrlc \in 0 .. MaxSignals
  /\ staleSink \in BOOLEAN
  /\ stalePointer \in BOOLEAN

(* main() has been called with some command line. *)
Init ==
  /\ argv \in CommandLines
  /\ opt = capture_option
  /\ mainPc = IF argv = <<>> THEN "exit" ELSE "options"
  /\ is_running = TRUE
  /\ breakLoop = FALSE
  /\ captured = 0
  /\ queue = {}
  /\ consumerPc = [c \in Consumer |-> "none"]
  /\ hand = [c \in Consumer |-> {}]
  /\ tasks = <<>>
  /\ processed = {}
  /\ stopPc = [s \in Stopper |-> "idle"]
  /\ cancelled = FALSE
  /\ ctrlc = 0
  /\ staleSink = FALSE
  /\ stalePointer = FALSE

(* The process has ended, by the return of main() or by exit(). *)
Exited == mainPc = "exit"

-----------------------------------------------------------------------------
(* main_loop *)

(* One turn of the loop of ParseOptions: a word that is no option is       *)
(* passed over, an option may end the process, or sets a member of opt.    *)
ParseOption ==
  /\ mainPc = "options"
  /\ argv # <<>>
  /\ IF Head(argv) \in Plain
       THEN argv' = Tail(argv) /\ UNCHANGED <<opt, mainPc>>
       ELSE LET o == Option(argv)
                w == Optarg(argv)
            IN /\ argv' = Rest(argv)
               /\ IF Refuses(o, w)
                    THEN mainPc' = "exit" /\ UNCHANGED opt
                    ELSE opt' = Assign(opt, o, w) /\ UNCHANGED mainPc
  /\ UNCHANGED <<runVars, consumerVars, taskVars, stopVars, historyVars>>

(* The rest of init_parameters, and register_handler *)
OptionsParsed ==
  /\ mainPc = "options"
  /\ argv = <<>>
  /\ mainPc' = "start"
  /\ UNCHANGED <<optionVars, runVars, consumerVars, taskVars, stopVars, historyVars>>

(* OpenLiveHandle and SetFilter exit when libpcap reports an error. *)
OpenFails ==
  /\ mainPc = "start"
  /\ mainPc' = "exit"
  /\ UNCHANGED <<optionVars, runVars, consumerVars, taskVars, stopVars, historyVars>>

(* new LiveParser() starts the consumers; startCapture() enters pcap_loop. *)
StartCapture ==
  /\ mainPc = "start"
  /\ mainPc' = "loop"
  /\ consumerPc' = [c \in Consumer |-> IF c <= opt.workers THEN "check" ELSE "none"]
  /\ UNCHANGED <<optionVars, runVars, hand, taskVars, stopVars, historyVars>>

(* pcap_loop counts the packets it delivers, unless its count is not       *)
(* positive.                                                               *)
WithinLimit ==
  /\ captured < MaxPackets
  /\ opt.num_packets > 0 => captured < opt.num_packets

LiveHandler ==
  /\ mainPc = "loop"
  /\ WithinLimit
  /\ captured' = captured + 1
  /\ queue' = queue \cup {captured + 1}
  /\ UNCHANGED <<optionVars, mainPc, is_running, breakLoop, consumerVars, taskVars, stopVars,
                 historyVars>>

(* pcap_loop returns, after pcap_breakloop or when it has delivered what   *)
(* it was asked for.                                                       *)
LoopEnds ==
  /\ mainPc = "loop"
  /\ breakLoop \/ (opt.num_packets > 0 /\ captured = opt.num_packets)
  /\ mainPc' = "delete"
  /\ UNCHANGED <<optionVars, runVars, consumerVars, taskVars, stopVars, historyVars>>

(* pcap_loop returns an error, which startCapture does not look at. *)
LoopFails ==
  /\ mainPc = "loop"
  /\ mainPc' = "delete"
  /\ UNCHANGED <<optionVars, runVars, consumerVars, taskVars, stopVars, historyVars>>

(* ~LiveParser: is_running = false *)
DeleteStopForgotten == is_running
DeleteStop == FALSE

Delete ==
  /\ mainPc = "delete"
  /\ is_running' = DeleteStop
  /\ mainPc' = "join"
  /\ UNCHANGED <<optionVars, breakLoop, captureVars, consumerVars, taskVars, stopVars, historyVars>>

(* The consumers are joined; then the members are destroyed, the executor  *)
(* dropping the tasks it has not started and waiting for the others.       *)
JoinConsumers ==
  /\ mainPc = "join"
  /\ \A c \in Consumer : consumerPc[c] \in {"none", "exited"}
  /\ tasks' = [n \in DOMAIN tasks |-> IF tasks[n].status = "queued"
                                        THEN [tasks[n] EXCEPT !.status = "dropped"] ELSE tasks[n]]
  /\ mainPc' = "executor"
  /\ UNCHANGED <<optionVars, runVars, consumerVars, processed, stopVars, historyVars>>

Deleted ==
  /\ mainPc = "executor"
  /\ \A n \in DOMAIN tasks : tasks[n].status # "running"
  /\ mainPc' = "deleted"
  /\ UNCHANGED <<optionVars, runVars, consumerVars, taskVars, stopVars, historyVars>>

(* main() returns. *)
MainReturns ==
  /\ mainPc = "deleted"
  /\ mainPc' = "exit"
  /\ UNCHANGED <<optionVars, runVars, consumerVars, taskVars, stopVars, historyVars>>

-----------------------------------------------------------------------------
(* consumer_job *)

(* while (is_running); then the local sink is destroyed. *)
ConsumerCheck(c) ==
  /\ consumerPc[c] = "check"
  /\ consumerPc' = [consumerPc EXCEPT ![c] = IF is_running THEN "read" ELSE "destroy"]
  /\ UNCHANGED <<optionVars, mainPc, runVars, hand, taskVars, stopVars, historyVars>>

(* An empty batch: the consumer sleeps and tries again. *)
AfterEmptyBreaks == "destroy"
AfterEmpty == "check"

ConsumerRead(c) ==
  /\ consumerPc[c] = "read"
  /\ hand' = [hand EXCEPT ![c] = queue]
  /\ queue' = {}
  /\ consumerPc' = [consumerPc EXCEPT ![c] = IF queue = {} THEN AfterEmpty ELSE "add"]
  /\ UNCHANGED <<optionVars, mainPc, is_running, breakLoop, captured, taskVars, stopVars,
                 historyVars>>

(* mTaskExecutor.AddTask([current_queue, &sink] { ... }) *)
ConsumerAdd(c) ==
  /\ consumerPc[c] = "add"
  /\ tasks' = Append(tasks, [sink |-> c, packets |-> hand[c], status |-> "queued"])
  /\ hand' = [hand EXCEPT ![c] = {}]
  /\ consumerPc' = [consumerPc EXCEPT ![c] = "check"]
  /\ UNCHANGED <<optionVars, mainPc, runVars, processed, stopVars, historyVars>>

ConsumerExit(c) ==
  /\ consumerPc[c] = "destroy"
  /\ consumerPc' = [consumerPc EXCEPT ![c] = "exited"]
  /\ UNCHANGED <<optionVars, mainPc, runVars, hand, taskVars, stopVars, historyVars>>

-----------------------------------------------------------------------------
(* Tasks of the executor *)

SinkAlive(c) == consumerPc[c] \in {"check", "read", "add"}

TaskStart(n) ==
  /\ tasks[n].status = "queued"
  /\ \A m \in 1 .. n - 1 : tasks[m].status # "queued"
  /\ tasks' = [tasks EXCEPT ![n].status = "running"]
  /\ UNCHANGED <<optionVars, mainPc, runVars, consumerVars, processed, stopVars, historyVars>>

(* sink.MakeFlow has run on the batch; of a sink that is gone it finds     *)
(* what is left, or crashes.                                               *)
TaskEnd(n) ==
  /\ tasks[n].status = "running"
  /\ tasks' = [tasks EXCEPT ![n].status = "done"]
  /\ IF SinkAlive(tasks[n].sink)
       THEN processed' = processed \cup tasks[n].packets /\ UNCHANGED staleSink
       ELSE staleSink' = TRUE /\ UNCHANGED processed
  /\ UNCHANGED <<optionVars, mainPc, runVars, consumerVars, stopVars, stalePointer>>

TaskCrash(n) ==
  /\ tasks[n].status = "running"
  /\ ~SinkAlive(tasks[n].sink)
  /\ staleSink' = TRUE
  /\ mainPc' = "exit"
  /\ UNCHANGED <<optionVars, runVars, consumerVars, taskVars, stopVars, stalePointer>>

-----------------------------------------------------------------------------
(* stopCapture, called by the canceler and by the signal handler *)

ParserAlive == mainPc \notin {"options", "start", "deleted", "exit"}

(* The canceler wakes up.  (The sleep may end at any time; the thread is   *)
(* detached and may wake up after the parser is gone.)                     *)
CancelerWakes ==
  /\ opt.duration > 0
  /\ mainPc \notin {"options", "start", "exit"}
  /\ ~cancelled
  /\ cancelled' = TRUE
  /\ stopPc' = [stopPc EXCEPT !["canceler"] = "break"]
  /\ UNCHANGED <<optionVars, mainPc, runVars, consumerVars, taskVars, ctrlc, historyVars>>

(* handler: pLiveParser->isRunning() decides whether to call stopCapture.  *)
(* A null or deleted parser is read all the same: the process crashes, or  *)
(* goes on with what it finds there.  (Before the handler is registered a  *)
(* signal ends the process.)                                               *)
Signal ==
  /\ mainPc \notin {"options", "exit"}
  /\ stopPc["handler"] = "idle"
  /\ ctrlc < MaxSignals
  /\ stalePointer' = (stalePointer \/ ~ParserAlive)
  /\ \/ /\ is_running \/ mainPc = "deleted"
        /\ mainPc # "start"
        /\ stopPc' = [stopPc EXCEPT !["handler"] = "break"]
        /\ UNCHANGED mainPc
     \/ /\ ~is_running \/ mainPc = "deleted"
        /\ stopPc' = [stopPc EXCEPT !["handler"] = "guard"]
        /\ UNCHANGED mainPc
     \/ /\ ~ParserAlive
        /\ mainPc' = "exit"
        /\ UNCHANGED stopPc
  /\ UNCHANGED <<optionVars, runVars, consumerVars, taskVars, cancelled, ctrlc, staleSink>>

(* pcap_breakloop(mHandle.get()) *)
BreakRequestedNever == FALSE
BreakRequested == ParserAlive

StopBreak(s) ==
  /\ stopPc[s] = "break"
  /\ breakLoop' = (breakLoop \/ BreakRequested)
  /\ stalePointer' = (stalePointer \/ ~ParserAlive)
  /\ stopPc' = [stopPc EXCEPT ![s] = "clear"]
  /\ UNCHANGED <<optionVars, mainPc, is_running, captureVars, consumerVars, taskVars, cancelled,
                 ctrlc, staleSink>>

(* is_running = false, by which time main may have deleted the parser. *)
StopClear(s) ==
  /\ stopPc[s] = "clear"
  /\ is_running' = (is_running /\ ~ParserAlive)
  /\ stalePointer' = (stalePointer \/ ~ParserAlive)
  /\ stopPc' = [stopPc EXCEPT ![s] = IF s = "handler" THEN "guard" ELSE "idle"]
  /\ UNCHANGED <<optionVars, mainPc, breakLoop, captureVars, consumerVars, taskVars, cancelled,
                 ctrlc, staleSink>>

(* stopCapture of a parser that is gone crashes. *)
StopCrash(s) ==
  /\ stopPc[s] \in {"break", "clear"}
  /\ ~ParserAlive
  /\ stalePointer' = TRUE
  /\ mainPc' = "exit"
  /\ UNCHANGED <<optionVars, runVars, consumerVars, taskVars, stopVars, staleSink>>

(* quit_guard: the first two signals pass; the process exits at patience. *)
QuitGuard ==
  /\ stopPc["handler"] = "guard"
  /\ ctrlc' = ctrlc + 1
  /\ mainPc' = IF ctrlc > 1 /\ ctrlc' >= patience THEN "exit" ELSE mainPc
  /\ stopPc' = [stopPc EXCEPT !["handler"] = "idle"]
  /\ UNCHANGED <<optionVars, runVars, consumerVars, taskVars, cancelled, historyVars>>

-----------------------------------------------------------------------------

MainStep ==
  \/ ParseOption \/ OptionsParsed \/ StartCapture
  \/ LoopEnds \/ Delete \/ JoinConsumers \/ Deleted \/ MainReturns
ConsumerStep(c) ==
  ~Exited /\ (ConsumerCheck(c) \/ ConsumerRead(c) \/ ConsumerAdd(c) \/ ConsumerExit(c))
TaskStep == ~Exited /\ \E n \in DOMAIN tasks : TaskStart(n) \/ TaskEnd(n)
StopStep(s) == ~Exited /\ (StopBreak(s) \/ StopClear(s) \/ (s = "handler" /\ QuitGuard))
Crash ==
  /\ ~Exited
  /\ (\E n \in DOMAIN tasks : TaskCrash(n)) \/ (\E s \in Stopper : StopCrash(s))

Next ==
  \/ MainStep \/ OpenFails \/ LoopFails \/ LiveHandler
  \/ \E c \in Consumer : ConsumerStep(c)
  \/ TaskStep
  \/ CancelerWakes \/ Signal
  \/ \E s \in Stopper : StopStep(s)
  \/ Crash

(* Threads are scheduled, the sleeps of the consumers and of the canceler  *)
(* are finite, and pcap_loop notices pcap_breakloop.  No packet need       *)
(* arrive, no signal need come, and nothing need fail or crash.            *)
Fairness ==
  /\ WF_vars(MainStep)
  /\ \A c \in Consumer : WF_vars(ConsumerStep(c))
  /\ WF_vars(TaskStep)
  /\ WF_vars(CancelerWakes)
  /\ \A s \in Stopper : WF_vars(StopStep(s))

Spec == Init /\ [][Next]_vars /\ Fairness

-----------------------------------------------------------------------------
(* Properties *)

(* While the capture runs, no MakeFlow task meets a destroyed sink: tasks  *)
(* hold a plain reference to the sink of a consumer, which destroys it     *)
(* when its loop ends, without regard to the tasks still in the executor.  *)
SinkAliveInUse == staleSink => ~is_running

(* A captured packet is merged into the flow table of some sink, unless    *)
(* the capture is stopped first.                                           *)
PacketProcessed == \A p \in Packet : p <= captured ~> p \in processed \/ ~is_running

(* A stop, by whatever caller, or the end of pcap_loop ends the process:   *)
(* no consumer, task or destructor waits for ever, also when the two       *)
(* callers of stopCapture overlap with each other and with the end of      *)
(* pcap_loop.                                                              *)
ShutdownCompletes == ~is_running \/ mainPc = "delete" ~> mainPc = "exit"

(* "end the capture after D seconds" (option duration): the process ends   *)
(* although no packet and no signal comes, also when the canceler wakes up *)
(* before pcap_loop is entered.                                            *)
DurationStops == mainPc = "loop" /\ opt.duration > 0 ~> mainPc = "exit"

(* "processing the remaining data" (log of stopCapture): when the parser   *)
(* is gone, every captured packet has been processed.                      *)
RemainingProcessed == mainPc = "deleted" /\ breakLoop => processed = 1 .. captured

=============================================================================
