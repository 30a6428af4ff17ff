--------------------------- MODULE LiveParserProofs ---------------------------
(***************************************************************************)
(* Proofs about LiveParser and Options, for any command lines whose -J is  *)
(* within the bound, and for any number of consumers, packets and signals: *)
(* type correctness and the life of the sinks.                             *)
(***************************************************************************)
EXTENDS LiveParser, TLAPS, SequenceTheorems

(* What is left of the command line keeps within the bounds. *)
ArgvInv == argv \in Seq(STRING) /\ Within(argv)

(* The consumers start once, when main leaves "start". *)
StartInv ==
  mainPc \in {"options", "start"} =>
    tasks = <<>> /\ \A c \in Consumer : consumerPc[c] = "none"

(* A consumer leaves its loop only when is_running is false, which it then *)
(* stays for ever.                                                         *)
SinkInv ==
  /\ \A c \in Consumer : consumerPc[c] \in {"destroy", "exited"} => ~is_running
  /\ \A n \in 1 .. Len(tasks) : consumerPc[tasks[n].sink] # "none"
  /\ SinkAliveInUse

(* A signal is counted when its handler ends. *)
SignalInv == stopPc["handler"] # "idle" => ctrlc < MaxSignals

Inv == TypeOK /\ ArgvInv /\ StartInv /\ SinkInv /\ SignalInv

-----------------------------------------------------------------------------
(* The options *)

(* Only -J and --workers have the code J. *)
LEMMA CodeOf ==
  ASSUME NEW w
  PROVE  Code(w) = "J" => w \in {"J", "workers"}
<1>1. CASE w \in DOMAIN longopts_required
  <2>1. w \notin DOMAIN longopts_none /\ w \notin shortopts_required \cup shortopts_none
    BY <1>1 DEF longopts_required, longopts_none, shortopts_required, shortopts_none
  <2>2. Code(w) = longopts_required[w]
    BY <1>1, <2>1, Zenon DEF Code
  <2>3. longopts_required[w] = "J" => w = "workers"
    BY <1>1 DEF longopts_required
  <2> QED
    BY <2>2, <2>3
<1>2. CASE w \in DOMAIN longopts_none
  <2>1. w \notin DOMAIN longopts_required /\ w \notin shortopts_required \cup shortopts_none
    BY <1>2 DEF longopts_required, longopts_none, shortopts_required, shortopts_none
  <2>2. Code(w) = longopts_none[w]
    BY <1>2, <2>1, Zenon DEF Code
  <2>3. longopts_none[w] # "J"
    BY <1>2 DEF longopts_none
  <2> QED
    BY <2>2, <2>3
<1>3. CASE w \in shortopts_required \cup shortopts_none
  <2>1. w \notin DOMAIN longopts_required /\ w \notin DOMAIN longopts_none
    BY <1>3 DEF longopts_required, longopts_none, shortopts_required, shortopts_none
  <2>2. Code(w) = w
    BY <1>3, <2>1, Zenon DEF Code
  <2> QED
    BY <2>2
<1>4. CASE /\ w \notin DOMAIN longopts_required /\ w \notin DOMAIN longopts_none
           /\ w \notin shortopts_required \cup shortopts_none
  <2>1. Code(w) = "?"
    BY <1>4, Zenon DEF Code
  <2> QED
    BY <2>1
<1> QED
  BY <1>1, <1>2, <1>3, <1>4

(* An argument read as the number of -J is the word that follows. *)
LEMMA OptionArgument ==
  ASSUME NEW line \in Seq(STRING), line # <<>>, Within(line),
         Option(line) = "J", ~Throws(Optarg(line))
  PROVE  stoi[Optarg(line)] <= MaxWorkers
<1>1. Option(line) = Code(Head(line)) /\ ~(TakesArgument(Head(line)) /\ Len(line) = 1)
  BY DEF Option
<1>2. Head(line) \in {"J", "workers"}
  BY <1>1, CodeOf
<1>3. TakesArgument(Head(line))
  BY <1>2 DEF TakesArgument, longopts_required, shortopts_required
<1>4. Len(line) \in Nat /\ Len(line) > 1 /\ Head(line) = line[1]
  <2>1. Len(line) \in Nat
    BY LenProperties
  <2>2. Len(line) # 0
    BY EmptySeq
  <2>3. Len(line) # 1
    BY <1>1, <1>3
  <2>4. Head(line) = line[1]
    OBVIOUS
  <2> QED
    BY <2>1, <2>2, <2>3, <2>4
<1>5. Optarg(line) = line[1 + 1] /\ 1 \in 1 .. Len(line) - 1
  BY <1>3, <1>4 DEF Optarg
<1> QED
  BY <1>1, <1>4, <1>5, CodeOf DEF Within

(* What getopt_long leaves of a command line. *)
LEMMA WithinRest ==
  ASSUME NEW line \in Seq(STRING), line # <<>>, Within(line)
  PROVE  /\ Tail(line) \in Seq(STRING) /\ Within(Tail(line))
         /\ Rest(line) \in Seq(STRING) /\ Within(Rest(line))
<1>1. ASSUME NEW s \in Seq(STRING), s # <<>>, Within(s)
      PROVE  Tail(s) \in Seq(STRING) /\ Within(Tail(s))
  <2>1. /\ Tail(s) \in Seq(STRING) /\ Len(Tail(s)) = Len(s) - 1 /\ Len(s) \in Nat
        /\ \A i \in 1 .. Len(Tail(s)) : Tail(s)[i] = s[i + 1]
    BY <1>1, HeadTailProperties, LenProperties
  <2>2. ASSUME NEW i \in 1 .. Len(Tail(s)) - 1
        PROVE  /\ i + 1 \in 1 .. Len(s) - 1
               /\ Tail(s)[i] = s[i + 1] /\ Tail(s)[i + 1] = s[(i + 1) + 1]
    <3>1. i \in 1 .. Len(Tail(s)) /\ i + 1 \in 1 .. Len(Tail(s)) /\ i + 1 \in 1 .. Len(s) - 1
      BY <2>1
    <3> QED
      BY <2>1, <3>1
  <2> QED
    BY <1>1, <2>1, <2>2 DEF Within
<1>2. CASE TakesArgument(Head(line)) /\ Len(line) > 1
  <2>1. Len(Tail(line)) = Len(line) - 1 /\ Len(line) \in Nat
    BY HeadTailProperties, LenProperties
  <2>2. Tail(line) # <<>>
    <3>1. Len(Tail(line)) # 0
      BY <1>2, <2>1
    <3>2. Len(<<>>) = 0
      BY EmptySeq
    <3> QED
      BY <3>1, <3>2, Zenon
  <2> QED
    BY <1>1, <1>2, <2>2 DEF Rest
<1>3. CASE ~(TakesArgument(Head(line)) /\ Len(line) > 1)
  BY <1>1, <1>3 DEF Rest
<1> QED
  BY <1>2, <1>3

(* The member the proofs are about is set by -J only. *)
LEMMA Members ==
  /\ NumberMember["J"] = "workers" /\ "J" \in DOMAIN NumberMember
  /\ \A o \in DOMAIN NumberMember :
       /\ o \notin DOMAIN WaitMember /\ o \notin DOMAIN TextMember
       /\ o \notin DOMAIN FlagMember /\ o # "p"
       /\ o # "J" => NumberMember[o] # "workers"
  /\ \A o \in DOMAIN WaitMember :
       /\ o \notin DOMAIN TextMember /\ o \notin DOMAIN FlagMember /\ o # "p"
       /\ WaitMember[o] # "workers"
  /\ \A o \in DOMAIN TextMember :
       o \notin DOMAIN FlagMember /\ o # "p" /\ TextMember[o] # "workers"
  /\ \A o \in DOMAIN FlagMember : o # "p" /\ FlagMember[o] # "workers"
<1>1. DOMAIN WaitMember = {".", "/"} /\ \A o \in {".", "/"} : WaitMember[o] \in {"wait1", "wait2"}
  BY DEF WaitMember
<1>2. DOMAIN NumberMember = {"D", "c", "f", "N", "L", "R", "E", "b", "J", "S"}
  BY DEF NumberMember
<1>3. DOMAIN TextMember = {"d", "F", "m", "B", "y", "M"}
  BY DEF TextMember
<1>4. DOMAIN FlagMember = {"C", "T", "V", "I"}
  BY DEF FlagMember
<1>5. /\ NumberMember["J"] = "workers"
      /\ \A o \in DOMAIN NumberMember : o # "J" => NumberMember[o] # "workers"
  BY DEF NumberMember
<1>6. \A o \in DOMAIN TextMember : TextMember[o] # "workers"
  BY DEF TextMember
<1>7. \A o \in DOMAIN FlagMember : FlagMember[o] # "workers"
  BY DEF FlagMember
<1> QED
  BY <1>1, <1>2, <1>3, <1>4, <1>5, <1>6, <1>7

OptInv(o) == DOMAIN o = DOMAIN capture_option /\ o.workers \in Consumer

(* An option that sets another member. *)
LEMMA OtherMember ==
  ASSUME NEW o, OptInv(o), NEW x, x # "workers", NEW v, NEW n, n = [o EXCEPT ![x] = v]
  PROVE  OptInv(n)
<1>1. "workers" \in DOMAIN o
  BY DEF OptInv, capture_option
<1>2. DOMAIN n = DOMAIN o /\ n.workers = o.workers
  BY <1>1
<1> QED
  BY ONLY <1>2, OptInv(o) DEF OptInv

(* The case of the switch for an accepted option. *)
LEMMA AssignKeeps ==
  ASSUME NEW line \in Seq(STRING), line # <<>>, Within(line), NEW old, OptInv(old),
         ~Refuses(Option(line), Optarg(line))
  PROVE  OptInv(Assign(old, Option(line), Optarg(line)))
<1> DEFINE o == Option(line)
           w == Optarg(line)
<1>o. ~Refuses(o, w) /\ (o = "J" /\ ~Throws(w) => stoi[w] <= MaxWorkers)
  BY OptionArgument
<1> SUFFICES OptInv(Assign(old, o, w))
  OBVIOUS
<1> HIDE DEF o, w
<1>d. {"workers", "payload", "total_bytes"} \subseteq DOMAIN old
  BY DEF OptInv, capture_option
<1>1. CASE o \in DOMAIN NumberMember
  <2>1. Assign(old, o, w) = [old EXCEPT ![NumberMember[o]] = stoi[w]]
    BY <1>1, Members, Zenon DEF Assign
  <2>2. CASE o = "J"
    <3>1. w \in DOMAIN stoi
      BY <1>1, <1>o DEF Refuses, TakesNumber, Throws
    <3>2. stoi[w] \in Int /\ stoi[w] >= 1 /\ stoi[w] <= MaxWorkers
      BY <1>o, <2>2, <3>1, StoiAssumption DEF Refuses, NoWorker, Throws
    <3>3. stoi[w] \in Consumer
      BY <3>2, BoundAssumption DEF Consumer
    <3> DEFINE n == [old EXCEPT !["workers"] = stoi[w]]
    <3>4. DOMAIN n = DOMAIN old /\ n.workers = stoi[w]
      BY <1>d
    <3>5. Assign(old, o, w) = n
      BY <2>1, <2>2, Members
    <3> HIDE DEF n
    <3> QED
      BY <3>3, <3>4, <3>5 DEF OptInv
  <2>3. CASE o # "J"
    <3>1. NumberMember[o] # "workers"
      BY <1>1, <2>3, Members
    <3> QED
      BY <2>1, <3>1, OtherMember, Zenon
  <2> QED
    BY <2>2, <2>3
<1>2. CASE o \in DOMAIN WaitMember
  <2>1. o \notin DOMAIN NumberMember
    BY <1>2, Members
  <2>2. Assign(old, o, w) = [old EXCEPT ![WaitMember[o]] = stoi[w]]
    BY <1>2, <2>1, Members, Zenon DEF Assign
  <2>3. WaitMember[o] # "workers"
    BY <1>2, Members
  <2> QED
    BY <2>2, <2>3, OtherMember, Zenon
<1>3. CASE o \in DOMAIN TextMember
  <2>1. o \notin DOMAIN NumberMember /\ o \notin DOMAIN WaitMember
    BY <1>3, Members
  <2>2. Assign(old, o, w) = [old EXCEPT ![TextMember[o]] = w]
    BY <1>3, <2>1, Members, Zenon DEF Assign
  <2>3. TextMember[o] # "workers"
    BY <1>3, Members
  <2> QED
    BY <2>2, <2>3, OtherMember, Zenon
<1>4. CASE o \in DOMAIN FlagMember
  <2>1. o \notin DOMAIN NumberMember /\ o \notin DOMAIN WaitMember /\ o \notin DOMAIN TextMember
    BY <1>4, Members
  <2>2. Assign(old, o, w) = [old EXCEPT ![FlagMember[o]] = TRUE]
    BY <1>4, <2>1, Members, Zenon DEF Assign
  <2>3. FlagMember[o] # "workers"
    BY <1>4, Members
  <2> QED
    BY <2>2, <2>3, OtherMember, Zenon
<1>5. CASE o = "p"
  <2>1. /\ o \notin DOMAIN NumberMember /\ o \notin DOMAIN WaitMember
        /\ o \notin DOMAIN TextMember /\ o \notin DOMAIN FlagMember
    BY <1>5, Members
  <2> DEFINE n == [old EXCEPT !.payload = stoi[w], !.total_bytes = @ + stoi[w]]
  <2>2. Assign(old, o, w) = n
    BY <1>5, <2>1, Zenon DEF Assign
  <2>3. DOMAIN n = DOMAIN old /\ n.workers = old.workers
    BY <1>d
  <2> HIDE DEF n
  <2> QED
    BY <2>2, <2>3 DEF OptInv
<1>6. CASE /\ o \notin DOMAIN NumberMember /\ o \notin DOMAIN WaitMember
           /\ o \notin DOMAIN TextMember /\ o \notin DOMAIN FlagMember /\ o # "p"
  <2>1. Assign(old, o, w) = old
    BY <1>6, Zenon DEF Assign
  <2> QED
    BY <2>1
<1> QED
  BY <1>1, <1>2, <1>3, <1>4, <1>5, <1>6

(* getopt_long consumes the command line from its head, and the members    *)
(* of opt change by the switch only.                                       *)
LEMMA NextOptions == Inv /\ [Next]_vars => ArgvInv' /\ OptInv(opt')
<1> SUFFICES ASSUME Inv, [Next]_vars PROVE ArgvInv' /\ OptInv(opt')
  OBVIOUS
<1>t. argv \in Seq(STRING) /\ Within(argv) /\ OptInv(opt)
  BY DEF Inv, ArgvInv, TypeOK, OptInv
<1>1. CASE ParseOption
  <2>1. CASE Head(argv) \in Plain
    <3>1. argv' = Tail(argv) /\ opt' = opt /\ argv # <<>>
      BY <1>1, <2>1 DEF ParseOption
    <3>2. Tail(argv) \in Seq(STRING) /\ Within(Tail(argv))
      BY <1>t, <3>1, WithinRest
    <3> QED
      BY <1>t, <3>1, <3>2 DEF ArgvInv, Within
  <2>2. CASE Head(argv) \notin Plain
    <3>1. /\ argv' = Rest(argv) /\ argv # <<>>
          /\ \/ opt' = opt
             \/ ~Refuses(Option(argv), Optarg(argv)) /\ opt' = Assign(opt, Option(argv), Optarg(argv))
      BY <1>1, <2>2 DEF ParseOption
    <3>2. Rest(argv) \in Seq(STRING) /\ Within(Rest(argv))
      BY <1>t, <3>1, WithinRest
    <3>3. ArgvInv'
      BY <3>1, <3>2 DEF ArgvInv, Within
    <3>4. OptInv(opt')
      <4>1. CASE opt' = opt
        BY <4>1, <1>t
      <4>2. CASE opt' # opt
        <5>1. ~Refuses(Option(argv), Optarg(argv)) /\ opt' = Assign(opt, Option(argv), Optarg(argv))
          BY <3>1, <4>2
        <5>2. OptInv(Assign(opt, Option(argv), Optarg(argv)))
          BY <1>t, <3>1, <5>1, AssignKeeps
        <5> QED
          BY <5>1, <5>2, Zenon
      <4> QED
        BY <4>1, <4>2
    <3> QED
      BY <3>3, <3>4
  <2> QED
    BY <2>1, <2>2
<1>2. CASE UNCHANGED optionVars
  BY <1>2, <1>t DEF optionVars, ArgvInv, Within
<1>3. ParseOption \/ UNCHANGED optionVars
  BY DEF Next, MainStep, ConsumerStep, TaskStep, StopStep, OptionsParsed, StartCapture, LoopEnds, LoopFails, Crash, TaskCrash, StopCrash,
           Delete,
         JoinConsumers, Deleted, MainReturns, OpenFails, LiveHandler, ConsumerCheck, ConsumerRead,
         ConsumerAdd, ConsumerExit, TaskStart, TaskEnd, CancelerWakes, Signal, StopBreak, StopClear,
         QuitGuard, vars
<1> QED
  BY <1>1, <1>2, <1>3

-----------------------------------------------------------------------------
(* Types *)

(* A task changes its status and nothing else. *)
LEMMA StatusStep ==
  ASSUME TypeOK, NEW n \in DOMAIN tasks, NEW st \in {"queued", "running", "done", "dropped"},
         tasks' = [tasks EXCEPT ![n].status = st]
  PROVE  /\ tasks' \in Seq(Task) /\ Len(tasks') = Len(tasks)
         /\ \A m \in 1 .. Len(tasks) : tasks'[m].sink = tasks[m].sink
<1>1. tasks \in Seq(Task) /\ DOMAIN tasks = 1 .. Len(tasks)
  BY LenProperties DEF TypeOK
<1>2. tasks[n] \in Task
  BY <1>1, ElementOfSeq
<1>3. PICK e : e = [tasks[n] EXCEPT !.status = st]
  OBVIOUS
<1>4. e \in Task /\ e.sink = tasks[n].sink
  BY <1>2, <1>3 DEF Task
<1>5. tasks' = [tasks EXCEPT ![n] = e]
  BY <1>3
<1>6. /\ [tasks EXCEPT ![n] = e] \in Seq(Task)
      /\ Len([tasks EXCEPT ![n] = e]) = Len(tasks)
      /\ \A m \in 1 .. Len(tasks) : [tasks EXCEPT ![n] = e][m] = IF m = n THEN e ELSE tasks[m]
  BY <1>1, <1>4, ExceptSeq
<1> QED
  BY <1>4, <1>5, <1>6

(* The executor's destructor drops what is queued. *)
LEMMA DropStep ==
  ASSUME TypeOK, JoinConsumers
  PROVE  /\ tasks' \in Seq(Task) /\ Len(tasks') = Len(tasks)
         /\ \A m \in 1 .. Len(tasks) : tasks'[m].sink = tasks[m].sink
<1>1. tasks \in Seq(Task) /\ DOMAIN tasks = 1 .. Len(tasks) /\ Len(tasks) \in Nat
  BY LenProperties DEF TypeOK
<1>2. \A m \in 1 .. Len(tasks) : tasks[m] \in Task
  BY <1>1, ElementOfSeq
<1>3. tasks' = [m \in 1 .. Len(tasks) |-> IF tasks[m].status = "queued"
                                            THEN [tasks[m] EXCEPT !.status = "dropped"] ELSE tasks[m]]
  BY <1>1 DEF JoinConsumers
<1>4. \A m \in 1 .. Len(tasks) : [tasks[m] EXCEPT !.status = "dropped"] \in Task
  BY <1>2 DEF Task
<1>5. \A m \in 1 .. Len(tasks) : [tasks[m] EXCEPT !.status = "dropped"].sink = tasks[m].sink
  BY <1>2 DEF Task
<1>6. tasks' \in [1 .. Len(tasks) -> Task]
  BY <1>2, <1>3, <1>4
<1>7. tasks' \in Seq(Task)
  BY <1>1, <1>6, SeqDef
<1>8. Len(tasks') = Len(tasks)
  <2>1. DOMAIN tasks' = 1 .. Len(tasks') /\ Len(tasks') \in Nat
    BY <1>7, LenProperties
  <2>2. DOMAIN tasks' = 1 .. Len(tasks)
    BY <1>6
  <2>3. \A a, b \in Nat : (\A m \in Int : m \in 1 .. a <=> m \in 1 .. b) => a = b
    <3> SUFFICES ASSUME NEW a \in Nat, NEW b \in Nat, \A m \in Int : m \in 1 .. a <=> m \in 1 .. b
                 PROVE  a = b
      OBVIOUS
    <3>1. a \in 1 .. a => a \in 1 .. b
      OBVIOUS
    <3>2. b \in 1 .. b => b \in 1 .. a
      OBVIOUS
    <3> QED
      BY <3>1, <3>2
  <2>4. \A m \in Int : m \in 1 .. Len(tasks') <=> m \in 1 .. Len(tasks)
    BY <2>1, <2>2, Zenon
  <2> QED
    BY <1>1, <2>1, <2>3, <2>4
<1>9. \A m \in 1 .. Len(tasks) : tasks'[m].sink = tasks[m].sink
  BY <1>3, <1>5
<1> QED
  BY <1>7, <1>8, <1>9

(* Every step keeps the types. *)
LEMMA NextType == Inv /\ [Next]_vars => TypeOK'
<1> SUFFICES ASSUME Inv, [Next]_vars PROVE TypeOK'
  OBVIOUS
<1>o. /\ argv' \in Seq(STRING)
      /\ DOMAIN opt' = DOMAIN capture_option /\ opt'.workers \in Consumer
  BY NextOptions DEF ArgvInv, OptInv
<1>t. TypeOK /\ MaxPackets \in Nat /\ MaxSignals \in Nat
  BY BoundAssumption DEF Inv
<1>s. SignalInv
  BY DEF Inv
<1> USE <1>o, <1>t DEF TypeOK
<1>1. CASE ParseOption \/ OptionsParsed \/ OpenFails \/ LoopEnds \/ LoopFails \/ Deleted \/ MainReturns
  BY <1>1 DEF ParseOption, OptionsParsed, OpenFails, LoopEnds, LoopFails, Deleted, MainReturns,
              runVars, captureVars, consumerVars, taskVars, stopVars, historyVars
<1>2. CASE StartCapture
  BY <1>2 DEF StartCapture, runVars, captureVars, taskVars, stopVars, historyVars
<1>3. CASE LiveHandler
  BY <1>3 DEF LiveHandler, WithinLimit, Packet, consumerVars, taskVars, stopVars, historyVars
<1>4. CASE Delete
  <2>1. is_running' \in BOOLEAN
    BY <1>4 DEF Delete, DeleteStop
  <2> QED
    BY <1>4, <2>1 DEF Delete, captureVars, consumerVars, taskVars, stopVars, historyVars
<1>5. CASE JoinConsumers
  <2>1. tasks' \in Seq(Task)
    BY <1>5, DropStep
  <2> QED
    BY <1>5, <2>1 DEF JoinConsumers, runVars, captureVars, consumerVars, stopVars, historyVars
<1>6. ASSUME NEW c \in Consumer, ConsumerStep(c) PROVE TypeOK'
  <2>1. CASE ConsumerCheck(c)
    BY <2>1 DEF ConsumerCheck, runVars, captureVars, taskVars, stopVars, historyVars
  <2>2. CASE ConsumerRead(c)
    <3>1. /\ hand' \in [Consumer -> SUBSET Packet]
          /\ consumerPc' \in [Consumer -> {"none", "check", "read", "add", "destroy", "exited"}]
      BY <2>2 DEF ConsumerRead, AfterEmpty
    <3> QED
      BY <2>2, <3>1 DEF ConsumerRead, taskVars, stopVars, historyVars
  <2>3. CASE ConsumerAdd(c)
    <3>1. [sink |-> c, packets |-> hand[c], status |-> "queued"] \in Task
      BY DEF Task
    <3>2. tasks' \in Seq(Task)
      BY <2>3, <3>1, AppendProperties DEF ConsumerAdd
    <3>3. hand' \in [Consumer -> SUBSET Packet]
      BY <2>3 DEF ConsumerAdd
    <3> QED
      BY <2>3, <3>2, <3>3 DEF ConsumerAdd, runVars, captureVars, stopVars, historyVars
  <2>4. CASE ConsumerExit(c)
    BY <2>4 DEF ConsumerExit, runVars, captureVars, taskVars, stopVars, historyVars
  <2> QED
    BY <1>6, <2>1, <2>2, <2>3, <2>4 DEF ConsumerStep
<1>7. ASSUME NEW n \in DOMAIN tasks, TaskStart(n) PROVE TypeOK'
  <2>1. tasks' \in Seq(Task)
    BY <1>7, StatusStep DEF TaskStart
  <2> QED
    BY <1>7, <2>1 DEF TaskStart, runVars, captureVars, consumerVars, stopVars, historyVars
<1>8. ASSUME NEW n \in DOMAIN tasks, TaskEnd(n) PROVE TypeOK'
  <2>1. tasks' \in Seq(Task)
    BY <1>8, StatusStep DEF TaskEnd
  <2>2. tasks[n].packets \in SUBSET Packet
    <3>1. tasks[n] \in Task
      BY ElementOfSeq, LenProperties
    <3> QED
      BY <3>1 DEF Task
  <2>3. processed' \in SUBSET Packet
    BY <1>8, <2>2 DEF TaskEnd
  <2>4. staleSink' \in BOOLEAN
    BY <1>8 DEF TaskEnd
  <2> QED
    BY <1>8, <2>1, <2>3, <2>4 DEF TaskEnd, runVars, captureVars, consumerVars, stopVars
<1>9. CASE CancelerWakes
  <2>1. stopPc' \in [Stopper -> {"idle", "break", "clear", "guard"}]
    BY <1>9 DEF CancelerWakes, Stopper
  <2>2. cancelled' \in BOOLEAN
    BY <1>9 DEF CancelerWakes
  <2> QED
    BY <1>9, <2>1, <2>2 DEF CancelerWakes, runVars, captureVars, consumerVars, taskVars, historyVars
<1>10. CASE Signal
  <2>1. stopPc' \in [Stopper -> {"idle", "break", "clear", "guard"}]
    BY <1>10 DEF Signal, Stopper
  <2>2. stalePointer' \in BOOLEAN
    BY <1>10 DEF Signal
  <2>3. mainPc' \in {mainPc, "exit"}
    BY <1>10 DEF Signal
  <2> QED
    BY <1>10, <2>1, <2>2, <2>3 DEF Signal, runVars, captureVars, consumerVars, taskVars
<1>11. ASSUME NEW s \in Stopper, StopStep(s) PROVE TypeOK'
  <2>1. CASE StopBreak(s)
    <3>1. stopPc' \in [Stopper -> {"idle", "break", "clear", "guard"}]
      BY <2>1 DEF StopBreak
    <3>2. breakLoop' \in BOOLEAN /\ stalePointer' \in BOOLEAN
      BY <2>1 DEF StopBreak
    <3> QED
      BY <2>1, <3>1, <3>2 DEF StopBreak, captureVars, consumerVars, taskVars
  <2>2. CASE StopClear(s)
    <3>1. stopPc' \in [Stopper -> {"idle", "break", "clear", "guard"}]
      BY <2>2 DEF StopClear
    <3>2. is_running' \in BOOLEAN /\ stalePointer' \in BOOLEAN
      BY <2>2 DEF StopClear
    <3> QED
      BY <2>2, <3>1, <3>2 DEF StopClear, captureVars, consumerVars, taskVars
  <2>3. CASE QuitGuard
    <3>1. stopPc' \in [Stopper -> {"idle", "break", "clear", "guard"}]
      BY <2>3 DEF QuitGuard
    <3>2. ctrlc' \in 0 .. MaxSignals
      BY <2>3, <1>s DEF QuitGuard, SignalInv
    <3>3. mainPc' \in {mainPc, "exit"}
      BY <2>3 DEF QuitGuard
    <3> QED
      BY <2>3, <3>1, <3>2, <3>3 DEF QuitGuard, runVars, captureVars, consumerVars, taskVars, historyVars
  <2> QED
    BY <1>11, <2>1, <2>2, <2>3 DEF StopStep
<1>12. CASE Crash
  <2>1. staleSink' \in BOOLEAN /\ stalePointer' \in BOOLEAN /\ mainPc' = "exit"
    BY <1>12 DEF Crash, TaskCrash, StopCrash
  <2>2. UNCHANGED <<optionVars, runVars, consumerVars, taskVars, stopVars>>
    BY <1>12 DEF Crash, TaskCrash, StopCrash
  <2> QED
    BY <2>1, <2>2 DEF optionVars, runVars, captureVars, consumerVars, taskVars, stopVars
<1>13. CASE UNCHANGED vars
  BY <1>13 DEF vars, optionVars, runVars, captureVars, consumerVars, taskVars, stopVars, historyVars
<1> QED
  BY <1>1, <1>2, <1>3, <1>4, <1>5, <1>6, <1>7, <1>8, <1>9, <1>10, <1>11, <1>12, <1>13
     DEF Next, MainStep, TaskStep

-----------------------------------------------------------------------------
(* The invariant *)

(* The states main() starts in. *)
LEMMA InitInv == Init => Inv
<1> SUFFICES ASSUME Init PROVE Inv
  OBVIOUS
<1>1. argv \in Seq(STRING) /\ Within(argv)
  BY CommandLineAssumption DEF Init
<1>2. opt.workers = 1
  BY DEF Init, capture_option
<1>3. 1 \in Consumer /\ 0 \in 0 .. MaxPackets /\ 0 \in 0 .. MaxSignals
  BY BoundAssumption DEF Consumer
<1>4. tasks \in Seq(Task) /\ Len(tasks) = 0
  BY EmptySeq DEF Init
<1>5. /\ is_running \in BOOLEAN /\ breakLoop \in BOOLEAN /\ cancelled \in BOOLEAN
      /\ staleSink \in BOOLEAN /\ stalePointer \in BOOLEAN
  BY DEF Init
<1>6. TypeOK
  BY <1>1, <1>2, <1>3, <1>4, <1>5 DEF Init, TypeOK
<1>7. StartInv
  BY DEF Init, StartInv
<1>8. SinkInv
  <2>1. \A c \in Consumer : consumerPc[c] = "none"
    BY DEF Init
  <2>2. ~staleSink
    BY DEF Init
  <2> QED
    BY <1>4, <2>1, <2>2 DEF SinkInv, SinkAliveInUse
<1>9. SignalInv
  BY DEF Init, SignalInv, Stopper
<1> QED
  BY <1>1, <1>6, <1>7, <1>8, <1>9 DEF Inv, ArgvInv

(* is_running is set by its initialiser and by nothing else. *)
LEMMA StaysStopped == Inv /\ [Next]_vars => (is_running' => is_running)
<1> SUFFICES ASSUME Inv, [Next]_vars PROVE is_running' => is_running
  OBVIOUS
<1>1. CASE Delete
  BY <1>1, Zenon DEF Delete, DeleteStop
<1>2. ASSUME NEW s \in Stopper, StopClear(s) PROVE is_running' => is_running
  BY <1>2, Zenon DEF StopClear
<1>3. CASE is_running' = is_running
  BY <1>3
<1>4. Delete \/ (\E s \in Stopper : StopClear(s)) \/ is_running' = is_running
  BY DEF Next, MainStep, ConsumerStep, TaskStep, StopStep, ParseOption, OptionsParsed, StartCapture,
         LoopEnds, LoopFails, Crash, TaskCrash, StopCrash,
           JoinConsumers, Deleted, MainReturns, OpenFails, LiveHandler, ConsumerCheck,
         ConsumerRead, ConsumerAdd, ConsumerExit, TaskStart, TaskEnd, CancelerWakes, Signal, StopBreak,
         QuitGuard, vars, runVars
<1> QED
  BY <1>1, <1>2, <1>3, <1>4

(* A step that leaves the consumers, the tasks' sinks and staleSink alone. *)
LEMMA SinksKept ==
  ASSUME Inv, [Next]_vars, UNCHANGED <<consumerPc, staleSink>>, Len(tasks') = Len(tasks),
         \A m \in 1 .. Len(tasks) : tasks'[m].sink = tasks[m].sink
  PROVE  SinkInv'
<1>1. is_running' => is_running
  BY StaysStopped
<1>2. (\A c \in Consumer : consumerPc[c] \in {"destroy", "exited"} => ~is_running)'
  BY <1>1 DEF Inv, SinkInv
<1>3. (\A n \in 1 .. Len(tasks) : consumerPc[tasks[n].sink] # "none")'
  BY DEF Inv, SinkInv
<1>4. SinkAliveInUse'
  BY <1>1 DEF Inv, SinkInv, SinkAliveInUse
<1> QED
  BY <1>2, <1>3, <1>4 DEF SinkInv

(* A step of a consumer moves it within its loop, or out of it when the    *)
(* capture has stopped.                                                    *)
LEMMA ConsumerKept ==
  ASSUME Inv, [Next]_vars, UNCHANGED <<is_running, tasks, staleSink>>,
         NEW c \in Consumer, consumerPc[c] # "none",
         NEW to \in {"check", "read", "add", "destroy", "exited"},
         to \in {"destroy", "exited"} => ~is_running,
         consumerPc' = [consumerPc EXCEPT ![c] = to]
  PROVE  SinkInv'
<1>t. consumerPc \in [Consumer -> {"none", "check", "read", "add", "destroy", "exited"}]
  BY DEF Inv, TypeOK
<1>1. \A d \in Consumer : consumerPc'[d] = IF d = c THEN to ELSE consumerPc[d]
  BY <1>t
<1>2. (\A d \in Consumer : consumerPc[d] \in {"destroy", "exited"} => ~is_running)'
  BY <1>1 DEF Inv, SinkInv
<1>3. (\A n \in 1 .. Len(tasks) : consumerPc[tasks[n].sink] # "none")'
  <2> SUFFICES ASSUME NEW n \in 1 .. Len(tasks) PROVE consumerPc'[tasks[n].sink] # "none"
    OBVIOUS
  <2>1. tasks[n] \in Task
    BY ElementOfSeq DEF Inv, TypeOK
  <2>2. tasks[n].sink \in Consumer /\ consumerPc[tasks[n].sink] # "none"
    BY <2>1 DEF Task, Inv, SinkInv
  <2> QED
    BY <1>1, <2>2
<1>4. SinkAliveInUse'
  BY DEF Inv, SinkInv, SinkAliveInUse
<1> QED
  BY <1>2, <1>3, <1>4 DEF SinkInv

(* Every step keeps the sinks' part of the invariant. *)
LEMMA NextSink == Inv /\ [Next]_vars => SinkInv'
<1> SUFFICES ASSUME Inv, [Next]_vars PROVE SinkInv'
  OBVIOUS
<1>t. /\ TypeOK /\ tasks \in Seq(Task) /\ Len(tasks) \in Nat /\ DOMAIN tasks = 1 .. Len(tasks)
      /\ \A n \in 1 .. Len(tasks) : tasks[n] \in Task
  BY ElementOfSeq, LenProperties DEF Inv, TypeOK
<1>1. CASE UNCHANGED <<consumerPc, tasks, staleSink>>
  BY <1>1, SinksKept
<1>2. CASE StartCapture
  <2>1. tasks' = <<>> /\ Len(tasks') = 0
    BY <1>2, EmptySeq DEF StartCapture, taskVars, Inv, StartInv
  <2>2. \A c \in Consumer : consumerPc'[c] \in {"check", "none"}
    BY <1>2 DEF StartCapture
  <2>3. UNCHANGED <<is_running, staleSink>>
    BY <1>2 DEF StartCapture, runVars, historyVars
  <2>4. SinkAliveInUse'
    BY <2>3 DEF Inv, SinkInv, SinkAliveInUse
  <2> QED
    BY <2>1, <2>2, <2>4 DEF SinkInv
<1>3. CASE JoinConsumers
  <2>1. UNCHANGED <<consumerPc, staleSink>>
    BY <1>3 DEF JoinConsumers, consumerVars, historyVars
  <2> QED
    BY <1>3, <1>t, <2>1, DropStep, SinksKept
<1>4. ASSUME NEW c \in Consumer, ConsumerCheck(c) PROVE SinkInv'
  <2>1. PICK to : to = IF is_running THEN "read" ELSE "destroy"
    OBVIOUS
  <2>2. UNCHANGED <<is_running, tasks, staleSink>>
    BY <1>4 DEF ConsumerCheck, runVars, taskVars, historyVars
  <2>3. consumerPc[c] # "none" /\ consumerPc' = [consumerPc EXCEPT ![c] = to]
    BY <1>4, <2>1 DEF ConsumerCheck
  <2> QED
    BY <2>1, <2>2, <2>3, ConsumerKept
<1>5. ASSUME NEW c \in Consumer, ConsumerRead(c) PROVE SinkInv'
  <2>1. PICK to : to = IF queue = {} THEN "check" ELSE "add"
    OBVIOUS
  <2>2. UNCHANGED <<is_running, tasks, staleSink>>
    BY <1>5 DEF ConsumerRead, taskVars, historyVars
  <2>3. consumerPc[c] # "none" /\ consumerPc' = [consumerPc EXCEPT ![c] = to]
    BY <1>5, <2>1 DEF ConsumerRead, AfterEmpty
  <2> QED
    BY <2>1, <2>2, <2>3, ConsumerKept
<1>6. ASSUME NEW c \in Consumer, ConsumerAdd(c) PROVE SinkInv'
  <2>1. PICK e : e = [sink |-> c, packets |-> hand[c], status |-> "queued"]
    OBVIOUS
  <2>2. e \in Task /\ e.sink = c
    BY <1>t, <2>1 DEF Task, TypeOK
  <2>3. /\ tasks' = Append(tasks, e)
        /\ consumerPc[c] = "check" \/ consumerPc[c] = "add"
        /\ consumerPc' = [consumerPc EXCEPT ![c] = "check"]
        /\ UNCHANGED <<is_running, staleSink>>
    BY <1>6, <2>1 DEF ConsumerAdd, runVars, historyVars
  <2>4. \A d \in Consumer : consumerPc'[d] = IF d = c THEN "check" ELSE consumerPc[d]
    BY <1>t, <2>3 DEF TypeOK
  <2>5. /\ Len(tasks') = Len(tasks) + 1
        /\ \A m \in 1 .. Len(tasks) : tasks'[m] = tasks[m]
        /\ tasks'[Len(tasks) + 1] = e
    BY <1>t, <2>2, <2>3, AppendProperties
  <2>6. (\A d \in Consumer : consumerPc[d] \in {"destroy", "exited"} => ~is_running)'
    BY <2>3, <2>4 DEF Inv, SinkInv
  <2>7. (\A n \in 1 .. Len(tasks) : consumerPc[tasks[n].sink] # "none")'
    <3> SUFFICES ASSUME NEW n \in 1 .. Len(tasks') PROVE consumerPc'[tasks'[n].sink] # "none"
      OBVIOUS
    <3>1. CASE n \in 1 .. Len(tasks)
      <4>1. tasks'[n] = tasks[n] /\ tasks[n].sink \in Consumer /\ consumerPc[tasks[n].sink] # "none"
        BY <1>t, <2>5, <3>1 DEF Task, Inv, SinkInv
      <4> QED
        BY <2>4, <4>1
    <3>2. CASE n = Len(tasks) + 1
      BY <2>2, <2>4, <2>5, <3>2
    <3> QED
      BY <1>t, <2>5, <3>1, <3>2
  <2>8. SinkAliveInUse'
    BY <2>3 DEF Inv, SinkInv, SinkAliveInUse
  <2> QED
    BY <2>6, <2>7, <2>8 DEF SinkInv
<1>7. ASSUME NEW c \in Consumer, ConsumerExit(c) PROVE SinkInv'
  <2>1. UNCHANGED <<is_running, tasks, staleSink>>
    BY <1>7 DEF ConsumerExit, runVars, taskVars, historyVars
  <2>2. consumerPc[c] = "destroy" /\ consumerPc' = [consumerPc EXCEPT ![c] = "exited"]
    BY <1>7 DEF ConsumerExit
  <2>3. ~is_running
    BY <2>2 DEF Inv, SinkInv
  <2> QED
    BY <2>1, <2>2, <2>3, ConsumerKept
<1>8. ASSUME NEW n \in DOMAIN tasks, TaskStart(n) PROVE SinkInv'
  <2>1. UNCHANGED <<consumerPc, staleSink>>
    BY <1>8 DEF TaskStart, consumerVars, historyVars
  <2>2. /\ Len(tasks') = Len(tasks)
        /\ \A m \in 1 .. Len(tasks) : tasks'[m].sink = tasks[m].sink
    BY <1>8, <1>t, StatusStep DEF TaskStart
  <2> QED
    BY <2>1, <2>2, SinksKept
<1>9. ASSUME NEW n \in DOMAIN tasks, TaskEnd(n) PROVE SinkInv'
  <2>1. /\ Len(tasks') = Len(tasks)
        /\ \A m \in 1 .. Len(tasks) : tasks'[m].sink = tasks[m].sink
    BY <1>9, <1>t, StatusStep DEF TaskEnd
  <2>2. UNCHANGED <<consumerPc, is_running>>
    BY <1>9 DEF TaskEnd, consumerVars, runVars
  <2>3. CASE UNCHANGED staleSink
    BY <2>1, <2>2, <2>3, SinksKept
  <2>4. CASE ~SinkAlive(tasks[n].sink)
    <3>1. tasks[n].sink \in Consumer /\ consumerPc[tasks[n].sink] # "none"
      BY <1>t DEF Task, Inv, SinkInv
    <3>2. consumerPc[tasks[n].sink] \in {"destroy", "exited"}
      BY <1>t, <2>4, <3>1 DEF SinkAlive, TypeOK
    <3>3. ~is_running
      BY <3>1, <3>2 DEF Inv, SinkInv
    <3> QED
      BY <2>1, <2>2, <3>3 DEF Inv, SinkInv, SinkAliveInUse
  <2> QED
    BY <1>9, <2>3, <2>4 DEF TaskEnd
<1>10. ASSUME NEW n \in DOMAIN tasks, TaskCrash(n) PROVE SinkInv'
  <2>1. UNCHANGED <<consumerPc, is_running, tasks>> /\ ~SinkAlive(tasks[n].sink)
    BY <1>10 DEF TaskCrash, consumerVars, runVars, taskVars
  <2>2. tasks[n].sink \in Consumer /\ consumerPc[tasks[n].sink] # "none"
    BY <1>t DEF Task, Inv, SinkInv
  <2>3. consumerPc[tasks[n].sink] \in {"destroy", "exited"}
    BY <1>t, <2>1, <2>2 DEF SinkAlive, TypeOK
  <2>4. ~is_running
    BY <2>2, <2>3 DEF Inv, SinkInv
  <2> QED
    BY <2>1, <2>4 DEF Inv, SinkInv, SinkAliveInUse
<1>11. \/ UNCHANGED <<consumerPc, tasks, staleSink>> \/ StartCapture \/ JoinConsumers
       \/ \E c \in Consumer : ConsumerCheck(c) \/ ConsumerRead(c) \/ ConsumerAdd(c) \/ ConsumerExit(c)
       \/ \E n \in DOMAIN tasks : TaskStart(n) \/ TaskEnd(n) \/ TaskCrash(n)
  BY DEF Next, MainStep, ConsumerStep, TaskStep, StopStep, ParseOption, OptionsParsed, LoopEnds, LoopFails, Crash, StopCrash,
           Delete,
         Deleted, MainReturns, OpenFails, LiveHandler, CancelerWakes, Signal, StopBreak, StopClear,
         QuitGuard, vars, consumerVars, taskVars, historyVars
<1> QED
  BY <1>1, <1>2, <1>3, <1>4, <1>5, <1>6, <1>7, <1>8, <1>9, <1>10, <1>11

(* main() leaves "start" for good, and a handler that runs is not counted. *)
LEMMA NextStart == Inv /\ [Next]_vars => StartInv' /\ SignalInv'
<1> SUFFICES ASSUME Inv, [Next]_vars PROVE StartInv' /\ SignalInv'
  OBVIOUS
<1>1. StartInv'
  <2>1. mainPc' \in {"options", "start"} => mainPc \in {"options", "start"}
    BY DEF Next, MainStep, ConsumerStep, TaskStep, StopStep, ParseOption, OptionsParsed, StartCapture,
           LoopEnds, LoopFails, Crash, TaskCrash, StopCrash,
           Delete, JoinConsumers, Deleted, MainReturns, OpenFails, LiveHandler, ConsumerCheck,
           ConsumerRead, ConsumerAdd, ConsumerExit, TaskStart, TaskEnd, CancelerWakes, Signal, StopBreak,
           StopClear, QuitGuard, vars
  <2> SUFFICES ASSUME mainPc' \in {"options", "start"}
               PROVE  tasks' = <<>> /\ \A c \in Consumer : consumerPc'[c] = "none"
    BY DEF StartInv
  <2>2. tasks = <<>> /\ DOMAIN tasks = {} /\ \A c \in Consumer : consumerPc[c] = "none"
    <3>1. tasks = <<>> /\ \A c \in Consumer : consumerPc[c] = "none"
      BY <2>1 DEF Inv, StartInv
    <3>2. DOMAIN tasks = 1 .. Len(tasks) /\ Len(tasks) = 0
      BY <3>1, EmptySeq, LenProperties DEF Inv, TypeOK
    <3> QED
      BY <3>1, <3>2
  <2>3. UNCHANGED <<tasks, consumerPc>>
    <3>1. ~(\E n \in DOMAIN tasks : TaskStart(n) \/ TaskEnd(n) \/ TaskCrash(n))
      BY <2>2
    <3>2. ~(\E c \in Consumer : ConsumerStep(c))
      BY <2>2 DEF ConsumerStep, ConsumerCheck, ConsumerRead, ConsumerAdd, ConsumerExit
    <3>3. ~StartCapture /\ ~JoinConsumers
      BY DEF StartCapture, JoinConsumers
    <3> QED
      BY <3>1, <3>2, <3>3 DEF Next, MainStep, TaskStep, StopStep, ParseOption, OptionsParsed, LoopEnds, LoopFails, Crash, TaskCrash, StopCrash,
         Delete, Deleted, MainReturns, OpenFails, LiveHandler, CancelerWakes, Signal, StopBreak, StopClear,
         QuitGuard, vars, consumerVars, taskVars
  <2> QED
    BY <2>2, <2>3
<1>2. SignalInv'
  <2>t. stopPc \in [Stopper -> {"idle", "break", "clear", "guard"}] /\ "handler" \in Stopper
    BY DEF Inv, TypeOK, Stopper
  <2>1. CASE UNCHANGED <<stopPc, ctrlc>>
    BY <2>1 DEF Inv, SignalInv
  <2>2. CASE CancelerWakes
    BY <2>2, <2>t DEF CancelerWakes, Inv, SignalInv, stopVars
  <2>3. CASE Signal
    BY <2>3, <2>t DEF Signal, SignalInv
  <2>4. ASSUME NEW s \in Stopper, StopBreak(s) PROVE SignalInv'
    BY <2>4, <2>t DEF StopBreak, Inv, SignalInv
  <2>5. ASSUME NEW s \in Stopper, StopClear(s) PROVE SignalInv'
    BY <2>5, <2>t DEF StopClear, Inv, SignalInv
  <2>6. CASE QuitGuard
    BY <2>6, <2>t DEF QuitGuard, SignalInv
  <2>7. \/ UNCHANGED <<stopPc, ctrlc>> \/ CancelerWakes \/ Signal \/ QuitGuard
        \/ \E s \in Stopper : StopBreak(s) \/ StopClear(s)
    BY DEF Next, MainStep, ConsumerStep, TaskStep, StopStep, ParseOption, OptionsParsed, StartCapture,
           LoopEnds, LoopFails, Crash, TaskCrash, StopCrash,
           Delete, JoinConsumers, Deleted, MainReturns, OpenFails, LiveHandler, ConsumerCheck,
           ConsumerRead, ConsumerAdd, ConsumerExit, TaskStart, TaskEnd, vars, stopVars
  <2> QED
    BY <2>1, <2>2, <2>3, <2>4, <2>5, <2>6, <2>7
<1> QED
  BY <1>1, <1>2

(* The invariant is inductive. *)
LEMMA NextInv == Inv /\ [Next]_vars => Inv'
<1> SUFFICES ASSUME Inv, [Next]_vars PROVE Inv'
  OBVIOUS
<1> QED
  BY NextOptions, NextType, NextSink, NextStart DEF Inv

-----------------------------------------------------------------------------
(* The theorems *)

(* Every variable of LiveParser has its type: in particular, whatever the  *)
(* command line, -J leaves a number of consumers between 1 and the bound.  *)
THEOREM TypeCorrect == Spec => []TypeOK
<1>1. Inv => TypeOK
  BY DEF Inv
<1> QED
  BY <1>1, InitInv, NextInv, PTL DEF Spec

(* While the capture runs no MakeFlow task meets a destroyed sink: a       *)
(* consumer of consumer_job leaves its loop, and destroys its sink, only   *)
(* after is_running was cleared, and nothing sets it again.                *)
THEOREM SinksAliveInUse == Spec => []SinkAliveInUse
<1>1. Inv => SinkAliveInUse
  BY DEF Inv, SinkInv
<1> QED
  BY <1>1, InitInv, NextInv, PTL DEF Spec

=============================================================================
