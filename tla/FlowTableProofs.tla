--------------------------- MODULE FlowTableProofs ---------------------------
(***************************************************************************)
(* Proofs about FlowTable, for any keys, tasks, packets and options with   *)
(* min_packets > 0: type correctness, FlowExact, NoEmptyEntry, the         *)
(* accounting of packets, when min_packets <= max_packets the assertion of *)
(* merge_to_existing_flow, and, when packets are merged in capture order,  *)
(* the age of what the sweep discards.                                     *)
(***************************************************************************)
EXTENDS FlowTable, TLAPS, SequenceTheorems, FiniteSetTheorems

(* A task is in its critical section exactly when it holds the mutex. *)
MutexInv == \A t \in Task : mtx = t <=> taskPc[t] \in {"merge", "append"}

(* The packets of a batch: read, of one task only, keyed once past the     *)
(* parser; a free task has none, the packet being merged is one of them.   *)
TodoInv ==
  /\ \A t \in Task :
       /\ todo[t] \subseteq read
       /\ taskPc[t] = "free" => todo[t] = {}
       /\ taskPc[t] = "append" => parsed[t] \in todo[t]
       /\ taskPc[t] \in {"lock", "merge", "append"} => \A p \in todo[t] : mKey[p] \in Key
  /\ \A t, u \in Task : t # u => todo[t] \cap todo[u] = {}

(* The packets of a list have been read, have the key of the list and are  *)
(* in no batch any more.                                                   *)
Filed(list, k, rd, key, batch) ==
  \A n \in 1 .. Len(list) :
    list[n] \in rd /\ key[list[n]] = k /\ \A t \in Task : list[n] \notin batch[t]

(* No list outgrows min_packets, and the one about to be appended to has   *)
(* room; only the latter may be empty.                                     *)
TableInv ==
  \A k \in Key : Filed(table[k], k, read, mKey, todo) /\ Len(table[k]) <= MinPackets

FlowInv ==
  \A f \in flows : Filed(f.list, f.flowId, read, mKey, todo) /\ Len(f.list) = MinPackets

AppendInv ==
  \A t \in Task : taskPc[t] = "append" => Len(table[mKey[parsed[t]]]) < MinPackets

EntryInv ==
  \A k \in present : table[k] = <<>> =>
    \E t \in Task : taskPc[t] = "append" /\ mKey[parsed[t]] = k

Inv == TypeOK /\ MutexInv /\ TodoInv /\ TableInv /\ FlowInv /\ AppendInv /\ EntryInv

-----------------------------------------------------------------------------
(* Types and batches *)

(* Nothing is captured and no task is under way at first. *)
LEMMA InitInv == Init => Inv
<1> SUFFICES ASSUME Init PROVE Inv
  OBVIOUS
<1>1. TypeOK
  <2>1. clock \in 0 .. MaxTime /\ captured \in 0 .. NumPackets /\ read \in SUBSET (1 .. captured)
    BY BoundAssumption DEF Init
  <2>2. ts \in [Packet -> 0 .. MaxTime] /\ mKey \in [Packet -> Key \cup {NoKey}]
    BY BoundAssumption DEF Init
  <2>3. /\ taskPc \in [Task -> {"free", "parse", "lock", "merge", "append"}]
        /\ todo \in [Task -> SUBSET Packet]
        /\ parsed \in [Task -> Packet \cup {0}]
    BY DEF Init
  <2>4. table \in [Key -> Seq(Packet)]
    BY DEF Init
  <2> QED
    BY <2>1, <2>2, <2>3, <2>4 DEF Init, TypeOK
<1>2. MutexInv
  BY TaskAssumption DEF Init, MutexInv
<1>3. TodoInv
  BY DEF Init, TodoInv
<1>4. TableInv
  BY MinPacketsAssumption DEF Init, TableInv, Filed
<1>5. FlowInv /\ AppendInv /\ EntryInv
  BY DEF Init, FlowInv, AppendInv, EntryInv
<1> QED
  BY <1>1, <1>2, <1>3, <1>4, <1>5 DEF Inv

(* The mutex excludes: a task in its critical section is the only one. *)
LEMMA NextMutex == TypeOK /\ MutexInv /\ [Next]_vars => MutexInv'
<1> SUFFICES ASSUME TypeOK, MutexInv, [Next]_vars PROVE MutexInv'
  OBVIOUS
<1> USE TaskAssumption DEF TypeOK, MutexInv
<1>1. CASE Tick \/ Capture \/ CleanRound \/ UNCHANGED vars
  BY <1>1 DEF Tick, Capture, CleanRound, vars, taskVars
<1>2. ASSUME NEW t \in Task, StartTask(t) \/ Parse(t) PROVE MutexInv'
  BY <1>2 DEF StartTask, Parse
<1>3. ASSUME NEW t \in Task, MergeLock(t) PROVE MutexInv'
  BY <1>3 DEF MergeLock
<1>4. ASSUME NEW t \in Task, FlushReady(t) \/ AppendPacket(t) PROVE MutexInv'
  BY <1>4 DEF FlushReady, AppendPacket
<1>5. ASSUME NEW t \in Task, MergeUnlock(t) PROVE MutexInv'
  BY <1>5 DEF MergeUnlock
<1> QED
  BY <1>1, <1>2, <1>3, <1>4, <1>5 DEF Next, MakeFlow

(* Batches stay disjoint and keyed: each packet is read once, and the      *)
(* parser of one task changes no key of another.                           *)
LEMMA NextTodo == TypeOK /\ TodoInv /\ [Next]_vars => TodoInv'
<1> SUFFICES ASSUME TypeOK, TodoInv, [Next]_vars PROVE TodoInv'
  OBVIOUS
<1> USE BoundAssumption DEF TypeOK, TodoInv, Packet
<1>1. CASE Tick \/ Capture \/ CleanRound \/ UNCHANGED vars
  BY <1>1 DEF Tick, Capture, CleanRound, vars, taskVars, captureVars
<1>2. ASSUME NEW t \in Task, StartTask(t) PROVE TodoInv'
  <2>1. PICK batch \in SUBSET Queued : /\ todo' = [todo EXCEPT ![t] = batch]
                                      /\ read' = read \cup batch
    BY <1>2 DEF StartTask
  <2>2. /\ taskPc' = [taskPc EXCEPT ![t] = "parse"]
        /\ parsed' = parsed /\ mKey' = mKey
    BY <1>2 DEF StartTask
  <2>3. batch \cap read = {}
    BY DEF Queued
  <2> QED
    BY <2>1, <2>2, <2>3
<1>3. ASSUME NEW t \in Task, Parse(t) PROVE TodoInv'
  <2>1. PICK key \in [Packet -> Key \cup {NoKey}] :
          /\ \A p \in Packet : p \notin todo[t] => key[p] = mKey[p]
          /\ mKey' = key
          /\ todo' = [todo EXCEPT ![t] = {p \in @ : key[p] # NoKey}]
    BY <1>3 DEF Parse
  <2>2. /\ taskPc' = [taskPc EXCEPT ![t] = "lock"]
        /\ read' = read /\ parsed' = parsed
    BY <1>3 DEF Parse, captureVars
  <2>3. \A u \in Task : todo'[u] \subseteq todo[u] /\ (u # t => todo'[u] = todo[u])
    BY <2>1
  <2>4. \A u \in Task : u # t => \A p \in todo[u] : mKey'[p] = mKey[p]
    BY <2>1
  <2>5. \A p \in todo'[t] : mKey'[p] \in Key
    BY <2>1
  <2> QED
    BY <2>2, <2>3, <2>4, <2>5
<1>4. ASSUME NEW t \in Task, MergeLock(t) \/ MergeUnlock(t) PROVE TodoInv'
  BY <1>4 DEF MergeLock, MergeUnlock, captureVars
<1>5. ASSUME NEW t \in Task, FlushReady(t) PROVE TodoInv'
  BY <1>5 DEF FlushReady, Flushed, captureVars
<1>6. ASSUME NEW t \in Task, AppendPacket(t) PROVE TodoInv'
  BY <1>6 DEF AppendPacket, Appended, captureVars
<1> QED
  BY <1>1, <1>2, <1>3, <1>4, <1>5, <1>6 DEF Next, MakeFlow

(* The packet being merged has a key, so it is merged into a list. *)
LEMMA ParsedKey ==
  ASSUME TypeOK, TodoInv, NEW t \in Task, taskPc[t] = "append"
  PROVE  parsed[t] \in Packet /\ mKey[parsed[t]] \in Key
  BY DEF TypeOK, TodoInv

(* What CleanRound makes of the table. *)
LEMMA CleanTable ==
  ASSUME TypeOK, CleanRound
  PROVE  /\ present' \subseteq present
         /\ table' \in [Key -> Seq(Packet)]
         /\ \A k \in Key : table'[k] = table[k] \/ (table'[k] = <<>> /\ k \notin present')
<1> DEFINE ready == {k \in present : IsFlowReady(table[k])}
           late == {k \in present \ ready : IsTimeout(table[k])}
<1>1. /\ present' = present \ (ready \cup late)
      /\ table' = [k \in Key |-> IF k \in ready \cup late THEN <<>> ELSE table[k]]
  BY DEF CleanRound
<1>2. table \in [Key -> Seq(Packet)] /\ <<>> \in Seq(Packet)
  BY DEF TypeOK
<1> HIDE DEF ready, late
<1>3. \A k \in Key : (IF k \in ready \cup late THEN <<>> ELSE table[k]) \in Seq(Packet)
  BY <1>2
<1> QED
  BY <1>1, <1>2, <1>3

(* The flows CleanRound enqueues are complete lists of the table. *)
LEMMA CleanFlows ==
  ASSUME TypeOK, CleanRound, NEW f \in flows'
  PROVE  \/ f \in flows
         \/ \E k \in Key : f = MakeHdFlow(k, table[k]) /\ IsFlowReady(table[k])
  BY DEF CleanRound, TypeOK

(* Every step of a task, the sweep and the capture keeps the types. *)
LEMMA NextType == TypeOK /\ TodoInv /\ [Next]_vars => TypeOK'
<1> SUFFICES ASSUME TypeOK, TodoInv, [Next]_vars PROVE TypeOK'
  OBVIOUS
<1> USE BoundAssumption DEF TypeOK
<1>1. CASE Tick
  BY <1>1 DEF Tick, taskVars, tableVars
<1>2. CASE Capture
  BY <1>2 DEF Capture, taskVars, tableVars, Packet
<1>3. CASE CleanRound
  <2>1. table' \in [Key -> Seq(Packet)] /\ present' \in SUBSET Key
    BY <1>3, CleanTable
  <2>2. \A k \in Key : MakeHdFlow(k, table[k]) \in Flow
    BY DEF MakeHdFlow, Flow
  <2>3. flows' \in SUBSET Flow
    BY <1>3, <2>2, CleanFlows
  <2>4. \A k \in Key : ToSet(table[k]) \subseteq Packet
    BY DEF ToSet
  <2>5. expired' \in SUBSET Packet
    BY <1>3, <2>4 DEF CleanRound
  <2> QED
    BY <1>3, <2>1, <2>3, <2>5 DEF CleanRound, captureVars, taskVars
<1>4. ASSUME NEW t \in Task, StartTask(t) PROVE TypeOK'
  <2>1. PICK batch \in SUBSET Queued : /\ todo' = [todo EXCEPT ![t] = batch]
                                      /\ read' = read \cup batch
    BY <1>4 DEF StartTask
  <2>2. batch \in SUBSET Packet /\ batch \in SUBSET (1 .. captured)
    BY DEF Packet, Queued
  <2>3. todo' \in [Task -> SUBSET Packet] /\ read' \in SUBSET (1 .. captured)
    BY <2>1, <2>2
  <2> QED
    BY <1>4, <2>3 DEF StartTask, tableVars
<1>5. ASSUME NEW t \in Task, Parse(t) PROVE TypeOK'
  <2>1. PICK key \in [Packet -> Key \cup {NoKey}] :
          /\ mKey' = key
          /\ todo' = [todo EXCEPT ![t] = {p \in @ : key[p] # NoKey}]
          /\ unparsed' = unparsed \cup {p \in todo[t] : key[p] = NoKey}
    BY <1>5 DEF Parse
  <2>2. /\ mKey' \in [Packet -> Key \cup {NoKey}]
        /\ todo' \in [Task -> SUBSET Packet]
        /\ unparsed' \in SUBSET Packet
    BY <2>1
  <2> QED
    BY <1>5, <2>2 DEF Parse, captureVars, tableVars
<1>6. ASSUME NEW t \in Task, MergeLock(t) \/ MergeUnlock(t) PROVE TypeOK'
  BY <1>6 DEF MergeLock, MergeUnlock, captureVars, tableVars
<1>7. ASSUME NEW t \in Task, FlushReady(t) PROVE TypeOK'
  <2>1. PICK p \in todo[t] :
          /\ parsed' = [parsed EXCEPT ![t] = p]
          /\ present' = present \cup {mKey[p]}
          /\ IF IsFlowReady(table[mKey[p]])
               THEN /\ flows' = flows \cup {MakeHdFlow(mKey[p], table[mKey[p]])}
                    /\ table' = [table EXCEPT ![mKey[p]] = <<>>]
               ELSE UNCHANGED <<flows, table>>
    BY <1>7 DEF FlushReady, Flushed
  <2>2. mKey[p] \in Key /\ p \in Packet
    BY <1>7 DEF FlushReady, Flushed, TodoInv
  <2>3. MakeHdFlow(mKey[p], table[mKey[p]]) \in Flow
    BY <2>2 DEF MakeHdFlow, Flow
  <2>4. flows' \in SUBSET Flow /\ table' \in [Key -> Seq(Packet)]
    <3>1. CASE IsFlowReady(table[mKey[p]])
      <4>1. /\ flows' = flows \cup {MakeHdFlow(mKey[p], table[mKey[p]])}
            /\ table' = [table EXCEPT ![mKey[p]] = <<>>]
        BY <2>1, <3>1
      <4>2. table \in [Key -> Seq(Packet)] /\ <<>> \in Seq(Packet) /\ flows \in SUBSET Flow
        OBVIOUS
      <4>3. table' \in [Key -> Seq(Packet)]
        BY <4>1, <4>2
      <4> QED
        BY <4>1, <4>2, <4>3, <2>3
    <3>2. CASE ~IsFlowReady(table[mKey[p]])
      BY <2>1, <3>2
    <3> QED
      BY <3>1, <3>2
  <2> QED
    BY <1>7, <2>1, <2>2, <2>4 DEF FlushReady, Flushed, captureVars
<1>8. ASSUME NEW t \in Task, AppendPacket(t) PROVE TypeOK'
  <2>1. parsed[t] \in Packet /\ mKey[parsed[t]] \in Key
    BY <1>8, ParsedKey DEF AppendPacket, Appended
  <2>2. Append(table[mKey[parsed[t]]], parsed[t]) \in Seq(Packet)
    BY <2>1
  <2>3. table' \in [Key -> Seq(Packet)]
    BY <1>8, <2>1, <2>2 DEF AppendPacket, Appended
  <2> QED
    BY <1>8, <2>3 DEF AppendPacket, Appended, captureVars
<1>9. CASE UNCHANGED vars
  BY <1>9 DEF vars, captureVars, taskVars, tableVars
<1> QED
  BY <1>1, <1>2, <1>3, <1>4, <1>5, <1>6, <1>7, <1>8, <1>9 DEF Next, MakeFlow

-----------------------------------------------------------------------------
(* Lists *)

(* Packets that are in no batch keep their key and enter no batch again. *)
Kept ==
  /\ read \subseteq read'
  /\ \A p \in Packet : p \in read /\ (\A t \in Task : p \notin todo[t])
       => mKey'[p] = mKey[p] /\ \A t \in Task : p \notin todo'[t]

(* Only a new batch, of packets not read before, and the parser, of its    *)
(* own batch, touch batches and keys.                                      *)
LEMMA NextKept == TypeOK /\ TodoInv /\ [Next]_vars => Kept
<1> SUFFICES ASSUME TypeOK, TodoInv, [Next]_vars PROVE Kept
  OBVIOUS
<1> USE BoundAssumption DEF TypeOK, Packet, Kept
<1>1. CASE Tick \/ Capture \/ CleanRound \/ UNCHANGED vars
  BY <1>1 DEF Tick, Capture, CleanRound, vars, taskVars, captureVars
<1>2. ASSUME NEW t \in Task, StartTask(t) PROVE Kept
  <2>1. PICK batch \in SUBSET Queued : /\ todo' = [todo EXCEPT ![t] = batch]
                                      /\ read' = read \cup batch
    BY <1>2 DEF StartTask
  <2>2. mKey' = mKey /\ batch \cap read = {}
    BY <1>2 DEF StartTask, Queued
  <2> QED
    BY <2>1, <2>2
<1>3. ASSUME NEW t \in Task, Parse(t) PROVE Kept
  <2>1. PICK key \in [Packet -> Key \cup {NoKey}] :
          /\ \A p \in Packet : p \notin todo[t] => key[p] = mKey[p]
          /\ mKey' = key
          /\ todo' = [todo EXCEPT ![t] = {p \in @ : key[p] # NoKey}]
    BY <1>3 DEF Parse
  <2>2. \A u \in Task : todo'[u] \subseteq todo[u]
    BY <2>1
  <2>3. read' = read
    BY <1>3 DEF Parse, captureVars
  <2> QED
    BY <2>1, <2>2, <2>3
<1>4. ASSUME NEW t \in Task, MergeLock(t) \/ MergeUnlock(t) \/ FlushReady(t) PROVE Kept
  <2>1. todo' = todo /\ mKey' = mKey /\ read' = read
    BY <1>4 DEF MergeLock, MergeUnlock, FlushReady, Flushed, captureVars
  <2> QED
    BY <2>1
<1>5. ASSUME NEW t \in Task, AppendPacket(t) PROVE Kept
  BY <1>5 DEF AppendPacket, Appended, captureVars
<1> QED
  BY <1>1, <1>2, <1>3, <1>4, <1>5 DEF Next, MakeFlow

(* A filed packet stays filed. *)
LEMMA FiledKept ==
  ASSUME TypeOK, TypeOK', Kept,
         NEW list \in Seq(Packet), NEW k, Filed(list, k, read, mKey, todo)
  PROVE  Filed(list, k, read', mKey', todo')
<1>1. ASSUME NEW n \in 1 .. Len(list)
      PROVE  list[n] \in read' /\ mKey'[list[n]] = k /\ \A t \in Task : list[n] \notin todo'[t]
  <2>1. list[n] \in Packet
    BY <1>1, ElementOfSeq
  <2> QED
    BY <1>1, <2>1 DEF Filed, Kept
<1> QED
  BY <1>1 DEF Filed

(* A list grows only by AppendPacket, which finds room in it. *)
LEMMA NextTable == Inv /\ [Next]_vars => TableInv'
<1> SUFFICES ASSUME Inv, [Next]_vars PROVE TableInv'
  OBVIOUS
<1>t. TypeOK /\ TypeOK' /\ Kept
  BY NextType, NextKept DEF Inv
<1>e. <<>> \in Seq(Packet) /\ Len(<<>>) <= MinPackets
  BY MinPacketsAssumption
<1>f. \A k : Filed(<<>>, k, read', mKey', todo')
  BY DEF Filed
<1>k. \A k \in Key : /\ Filed(table[k], k, read', mKey', todo')
                     /\ Len(table[k]) <= MinPackets
  BY <1>t, FiledKept DEF Inv, TypeOK, TableInv
<1>1. CASE Tick \/ Capture \/ UNCHANGED vars
  BY <1>1, <1>k DEF Tick, Capture, vars, tableVars, TableInv
<1>2. CASE CleanRound
  BY <1>2, <1>t, <1>e, <1>f, <1>k, CleanTable DEF TableInv
<1>3. ASSUME NEW t \in Task, StartTask(t) \/ Parse(t) \/ MergeLock(t) \/ MergeUnlock(t)
      PROVE  TableInv'
  BY <1>3, <1>k DEF StartTask, Parse, MergeLock, MergeUnlock, tableVars, TableInv
<1>4. ASSUME NEW t \in Task, FlushReady(t) PROVE TableInv'
  <2>1. \A k \in Key : table'[k] = table[k] \/ table'[k] = <<>>
    BY <1>4, <1>t DEF FlushReady, Flushed, TypeOK
  <2> QED
    BY <2>1, <1>e, <1>f, <1>k DEF TableInv
<1>5. ASSUME NEW t \in Task, AppendPacket(t) PROVE TableInv'
  <2>1. PICK p \in Packet : p = parsed[t]
    BY <1>5, <1>t, ParsedKey DEF AppendPacket, Appended, Inv
  <2>2. PICK k \in Key : k = mKey[p]
    BY <1>5, <2>1, <1>t, ParsedKey DEF AppendPacket, Appended, Inv
  <2>3. table' = [table EXCEPT ![k] = Append(@, p)]
    BY <1>5, <2>1, <2>2 DEF AppendPacket, Appended
  <2>4. table[k] \in Seq(Packet) /\ Len(table[k]) < MinPackets
    BY <1>5, <1>t, <2>1, <2>2 DEF AppendPacket, Appended, Inv, AppendInv, TypeOK
  <2>5. p \in read' /\ mKey'[p] = k /\ \A u \in Task : p \notin todo'[u]
    <3>1. p \in todo[t] /\ p \in read /\ \A u \in Task : u # t => p \notin todo[u]
      BY <1>5, <2>1, <1>t, BoundAssumption DEF AppendPacket, Appended, Inv, TodoInv, TypeOK
    <3>2. todo' = [todo EXCEPT ![t] = @ \ {p}] /\ read' = read /\ mKey' = mKey
      BY <1>5, <2>1 DEF AppendPacket, Appended, captureVars
    <3> QED
      BY <3>1, <3>2, <2>2, <1>t DEF TypeOK
  <2>6. Filed(Append(table[k], p), k, read', mKey', todo')
    BY <2>4, <2>5, <1>k, AppendProperties DEF Filed
  <2>7. Len(Append(table[k], p)) <= MinPackets
    BY <2>4, MinPacketsAssumption
  <2>8. table'[k] = Append(table[k], p) /\ \A j \in Key : j # k => table'[j] = table[j]
    BY <2>3, <1>t DEF TypeOK
  <2> QED
    BY <2>6, <2>7, <2>8, <1>k DEF TableInv
<1> QED
  BY <1>1, <1>2, <1>3, <1>4, <1>5 DEF Next, MakeFlow

(* A list is enqueued when it is complete, and then has min_packets        *)
(* packets; a flow in the queue is not touched any more.                   *)
LEMMA NextFlow == Inv /\ [Next]_vars => FlowInv'
<1> SUFFICES ASSUME Inv, [Next]_vars, NEW f \in flows'
             PROVE  Filed(f.list, f.flowId, read', mKey', todo') /\ Len(f.list) = MinPackets
  BY DEF FlowInv
<1>t. TypeOK /\ Kept /\ TypeOK'
  BY NextType, NextKept DEF Inv
<1>1. \/ f \in flows
      \/ \E k \in Key : f = MakeHdFlow(k, table[k]) /\ IsFlowReady(table[k])
  <2>1. CASE Tick \/ Capture \/ UNCHANGED vars
    BY <2>1 DEF Tick, Capture, vars, tableVars
  <2>2. CASE CleanRound
    BY <2>2, <1>t, CleanFlows
  <2>3. ASSUME NEW t \in Task, StartTask(t) \/ Parse(t) \/ MergeLock(t) \/ MergeUnlock(t)
        PROVE  f \in flows
    BY <2>3 DEF StartTask, Parse, MergeLock, MergeUnlock, tableVars
  <2>4. ASSUME NEW t \in Task, FlushReady(t), f \notin flows
        PROVE  \E k \in Key : f = MakeHdFlow(k, table[k]) /\ IsFlowReady(table[k])
    <3>1. PICK p \in todo[t] : f = MakeHdFlow(mKey[p], table[mKey[p]]) /\ IsFlowReady(table[mKey[p]])
      BY <2>4 DEF FlushReady, Flushed
    <3>2. mKey[p] \in Key
      BY <2>4 DEF FlushReady, Flushed, Inv, TodoInv
    <3> QED
      BY <3>1, <3>2
  <2>5. ASSUME NEW t \in Task, AppendPacket(t) PROVE f \in flows
    BY <2>5 DEF AppendPacket, Appended
  <2> QED
    BY <2>1, <2>2, <2>3, <2>4, <2>5 DEF Next, MakeFlow
<1>2. CASE f \in flows
  <2>1. f.list \in Seq(Packet)
    BY <1>2, <1>t DEF TypeOK, Flow
  <2> QED
    BY <1>2, <2>1, <1>t, FiledKept DEF Inv, FlowInv
<1>3. ASSUME NEW k \in Key, f = MakeHdFlow(k, table[k]), IsFlowReady(table[k])
      PROVE  Filed(f.list, f.flowId, read', mKey', todo') /\ Len(f.list) = MinPackets
  <2>1. f.list = table[k] /\ f.flowId = k /\ table[k] \in Seq(Packet)
    BY <1>3, <1>t DEF MakeHdFlow, TypeOK
  <2>2. Len(table[k]) = MinPackets
    BY <1>3, <2>1, MinPacketsAssumption DEF Inv, TableInv, IsFlowReady
  <2> QED
    BY <2>1, <2>2, <1>t, FiledKept DEF Inv, TableInv
<1> QED
  BY <1>1, <1>2, <1>3

(* Between FlushReady and AppendPacket nobody else reaches the list: the   *)
(* task holds the mutex.                                                   *)
LEMMA NextAppend == Inv /\ [Next]_vars => AppendInv'
<1> SUFFICES ASSUME Inv, [Next]_vars, NEW u \in Task, taskPc'[u] = "append"
             PROVE  Len(table'[mKey'[parsed'[u]]]) < MinPackets
  BY DEF AppendInv
<1> USE TaskAssumption, MinPacketsAssumption DEF Inv, AppendInv
<1>1. CASE Tick \/ Capture \/ UNCHANGED vars
  BY <1>1 DEF Tick, Capture, vars, taskVars, tableVars
<1>2. CASE CleanRound
  BY <1>2 DEF CleanRound, CleanMayRun, taskVars, MutexInv
<1>3. ASSUME NEW t \in Task, StartTask(t) \/ MergeLock(t) \/ MergeUnlock(t)
      PROVE  Len(table'[mKey'[parsed'[u]]]) < MinPackets
  BY <1>3 DEF StartTask, MergeLock, MergeUnlock, tableVars, TypeOK
<1>4. ASSUME NEW t \in Task, Parse(t)
      PROVE  Len(table'[mKey'[parsed'[u]]]) < MinPackets
  <2>1. taskPc[u] = "append" /\ u # t /\ parsed' = parsed /\ table' = table
    BY <1>4 DEF Parse, TypeOK, tableVars
  <2>2. parsed[u] \in Packet /\ parsed[u] \notin todo[t]
    BY <2>1 DEF TypeOK, TodoInv
  <2>3. mKey'[parsed[u]] = mKey[parsed[u]]
    BY <1>4, <2>2 DEF Parse
  <2> QED
    BY <2>1, <2>3
<1>5. ASSUME NEW t \in Task, FlushReady(t)
      PROVE  Len(table'[mKey'[parsed'[u]]]) < MinPackets
  <2>1. u = t
    BY <1>5 DEF FlushReady, Flushed, MutexInv, TypeOK
  <2>2. PICK p \in todo[t] :
          /\ parsed' = [parsed EXCEPT ![t] = p]
          /\ IF IsFlowReady(table[mKey[p]])
               THEN table' = [table EXCEPT ![mKey[p]] = <<>>]
               ELSE table' = table
    BY <1>5 DEF FlushReady, Flushed
  <2>3. mKey' = mKey /\ mKey[p] \in Key /\ parsed'[t] = p
    BY <1>5, <2>2 DEF FlushReady, Flushed, TodoInv, TypeOK
  <2>4. CASE IsFlowReady(table[mKey[p]])
    BY <2>1, <2>2, <2>3, <2>4 DEF TypeOK
  <2>5. CASE ~IsFlowReady(table[mKey[p]])
    <3>1. Len(table[mKey[p]]) \in Nat
      BY <2>3 DEF TypeOK
    <3> QED
      BY <2>1, <2>2, <2>3, <2>5, <3>1 DEF IsFlowReady
  <2> QED
    BY <2>4, <2>5
<1>6. ASSUME NEW t \in Task, AppendPacket(t)
      PROVE  Len(table'[mKey'[parsed'[u]]]) < MinPackets
  BY <1>6 DEF AppendPacket, Appended, MutexInv, TypeOK
<1> QED
  BY <1>1, <1>2, <1>3, <1>4, <1>5, <1>6 DEF Next, MakeFlow

(* With the mutex free no task is between FlushReady and AppendPacket. *)
LEMMA NoEmptyWhenFree == Inv => NoEmptyEntry
  BY TaskAssumption DEF Inv, NoEmptyEntry, CleanMayRun, EntryInv, MutexInv

(* An entry is empty only while the task that created or flushed it is     *)
(* about to append to it.                                                  *)
LEMMA NextEntry == Inv /\ [Next]_vars => EntryInv'
<1> DEFINE Waits(k) == \E t \in Task : taskPc[t] = "append" /\ mKey[parsed[t]] = k
           WaitsNext(k) == \E t \in Task : taskPc'[t] = "append" /\ mKey'[parsed'[t]] = k
<1> SUFFICES ASSUME Inv, [Next]_vars, NEW k \in present', table'[k] = <<>>
             PROVE  WaitsNext(k)
  BY DEF EntryInv
<1>e. k \in present /\ table[k] = <<>> => Waits(k)
  BY DEF Inv, EntryInv
<1>1. CASE Tick \/ Capture \/ UNCHANGED vars
  BY <1>1, <1>e DEF Tick, Capture, vars, taskVars, tableVars
<1>2. CASE CleanRound
  <2>1. k \in Key /\ k \in present /\ table[k] = <<>>
    BY <1>2, CleanTable DEF Inv, TypeOK
  <2> QED
    BY <1>2, <2>1, NoEmptyWhenFree DEF CleanRound, NoEmptyEntry
<1>3. ASSUME NEW t \in Task, StartTask(t) \/ MergeLock(t) \/ MergeUnlock(t) PROVE WaitsNext(k)
  <2>1. Waits(k)
    BY <1>3, <1>e DEF StartTask, MergeLock, MergeUnlock, tableVars
  <2>2. PICK u \in Task : taskPc[u] = "append" /\ mKey[parsed[u]] = k
    BY <2>1
  <2>3. taskPc'[u] = "append" /\ mKey' = mKey /\ parsed' = parsed
    BY <1>3, <2>2 DEF StartTask, MergeLock, MergeUnlock, Inv, TypeOK
  <2> QED
    BY <2>2, <2>3
<1>4. ASSUME NEW t \in Task, Parse(t) PROVE WaitsNext(k)
  <2>1. PICK u \in Task : taskPc[u] = "append" /\ mKey[parsed[u]] = k
    BY <1>4, <1>e DEF Parse, tableVars
  <2>2. u # t /\ taskPc'[u] = "append" /\ parsed' = parsed
    BY <1>4, <2>1 DEF Parse, Inv, TypeOK
  <2>3. parsed[u] \in Packet /\ parsed[u] \notin todo[t]
    BY <2>1, <2>2 DEF Inv, TypeOK, TodoInv
  <2>4. mKey'[parsed[u]] = mKey[parsed[u]]
    BY <1>4, <2>3 DEF Parse
  <2> QED
    BY <2>1, <2>2, <2>4
<1>5. ASSUME NEW t \in Task, FlushReady(t) PROVE WaitsNext(k)
  <2>1. PICK p \in todo[t] :
          /\ parsed' = [parsed EXCEPT ![t] = p]
          /\ present' = present \cup {mKey[p]}
          /\ IF IsFlowReady(table[mKey[p]])
               THEN table' = [table EXCEPT ![mKey[p]] = <<>>]
               ELSE table' = table
    BY <1>5 DEF FlushReady, Flushed
  <2>2. taskPc'[t] = "append" /\ mKey' = mKey /\ parsed'[t] = p
    BY <1>5, <2>1 DEF FlushReady, Flushed, Inv, TypeOK
  <2>3. CASE k = mKey[p]
    BY <2>2, <2>3
  <2>4. CASE k # mKey[p]
    <3>1. k \in present /\ table[k] = <<>>
      BY <2>1, <2>4 DEF Inv, TypeOK
    <3>2. PICK u \in Task : taskPc[u] = "append"
      BY <3>1, <1>e
    <3>3. FALSE
      BY <1>5, <3>2 DEF FlushReady, Flushed, Inv, MutexInv
    <3> QED
      BY <3>3
  <2> QED
    BY <2>3, <2>4
<1>6. ASSUME NEW t \in Task, AppendPacket(t) PROVE WaitsNext(k)
  <2>1. parsed[t] \in Packet /\ mKey[parsed[t]] \in Key /\ taskPc[t] = "append"
    BY <1>6, ParsedKey DEF AppendPacket, Appended, Inv
  <2>2. table[mKey[parsed[t]]] \in Seq(Packet)
    BY <2>1 DEF Inv, TypeOK
  <2>3. /\ present' = present
        /\ table' = [table EXCEPT ![mKey[parsed[t]]] = Append(@, parsed[t])]
    BY <1>6 DEF AppendPacket, Appended
  <2>4. k # mKey[parsed[t]]
    BY <2>1, <2>2, <2>3, AppendProperties DEF Inv, TypeOK
  <2>5. k \in present /\ table[k] = <<>>
    BY <2>3, <2>4 DEF Inv, TypeOK
  <2>6. PICK u \in Task : taskPc[u] = "append" /\ mKey[parsed[u]] = k
    BY <2>5, <1>e
  <2>7. u = t
    BY <2>1, <2>6 DEF Inv, MutexInv
  <2> QED
    BY <2>4, <2>6, <2>7
<1> QED
  BY <1>1, <1>2, <1>3, <1>4, <1>5, <1>6 DEF Next, MakeFlow

(* The invariant is inductive. *)
LEMMA NextInv == Inv /\ [Next]_vars => Inv'
  BY NextType, NextMutex, NextTodo, NextTable, NextFlow, NextAppend, NextEntry DEF Inv

(* Every reachable state satisfies the invariant. *)
LEMMA Invariance == Spec => []Inv
  BY InitInv, NextInv, PTL DEF Spec

-----------------------------------------------------------------------------
(* Theorems *)

(* FlowTable is type correct for any keys, tasks, packets and options. *)
THEOREM TypeCorrect == Spec => []TypeOK
<1>1. Inv => TypeOK
  BY DEF Inv
<1> QED
  BY Invariance, <1>1, PTL

(* Whatever the tasks and the sweep interleave to, a flow enqueued for     *)
(* encoding has exactly min_packets packets, all of its key.               *)
THEOREM FlowsExact == Spec => []FlowExact
<1>1. Inv => FlowExact
  <2> SUFFICES ASSUME Inv, NEW f \in flows
               PROVE  Len(f.list) = MinPackets /\ \A n \in DOMAIN f.list : mKey[f.list[n]] = f.flowId
    BY DEF FlowExact
  <2>1. f.list \in Seq(Packet)
    BY DEF Inv, TypeOK, Flow
  <2>2. DOMAIN f.list = 1 .. Len(f.list)
    BY <2>1, LenProperties
  <2> QED
    BY <2>2 DEF Inv, FlowInv, Filed
<1> QED
  BY Invariance, <1>1, PTL

(* The sweep, which needs the mutex, never meets an empty list.            *)
THEOREM SweepMeetsNoEmptyList == Spec => []NoEmptyEntry
  BY Invariance, NoEmptyWhenFree, PTL

(* The assertion on max_packets in merge_to_existing_flow holds for every  *)
(* choice of options with min_packets <= max_packets.                      *)
THEOREM MaxPacketsAsserted ==
  ASSUME MinPackets <= MaxPackets
  PROVE  Spec => []AssertMaxPackets
<1>1. Inv => AssertMaxPackets
  <2> SUFFICES ASSUME Inv, NEW k \in Key PROVE Len(table[k]) <= MaxPackets
    BY DEF AssertMaxPackets
  <2>1. Len(table[k]) \in Nat /\ Len(table[k]) <= MinPackets
    BY DEF Inv, TypeOK, TableInv
  <2> QED
    BY <2>1, MinPacketsAssumption, MaxPacketsAssumption
<1> QED
  BY Invariance, <1>1, PTL

-----------------------------------------------------------------------------
(* The accounting of packets *)

In(list, p) == \E n \in 1 .. Len(list) : list[n] = p

NoRepeat(list) == \A m, n \in 1 .. Len(list) : m # n => list[m] # list[n]

InTable(p) == \E k \in Key : In(table[k], p)
InFlow(p) == \E f \in flows : In(f.list, p)
InBatch(p) == \E t \in Task : p \in todo[t]

(* No packet is twice in the table, in the enqueued flows, or in both. *)
ListsInv ==
  /\ \A k \in Key : NoRepeat(table[k])
  /\ \A f \in flows : NoRepeat(f.list)
  /\ \A f, g \in flows : \A p \in Packet : In(f.list, p) /\ In(g.list, p) => f = g
  /\ \A p \in Packet : InTable(p) => ~InFlow(p)

(* A discarded packet is in no batch and no list; the key it was parsed    *)
(* with tells the unparsed from the expired.                               *)
DiscardInv ==
  /\ \A p \in expired : /\ p \in read /\ ~InBatch(p) /\ mKey[p] \in Key
                        /\ ~InTable(p) /\ ~InFlow(p)
  /\ \A p \in unparsed : p \in read /\ ~InBatch(p) /\ mKey[p] = NoKey

(* Every packet that was read is somewhere. *)
CompleteInv ==
  \A p \in read : InBatch(p) \/ InTable(p) \/ InFlow(p) \/ p \in expired \cup unparsed

PlaceInv == ListsInv /\ DiscardInv /\ CompleteInv

(* The packets of a list in the table have its key and are in no batch. *)
LEMMA ListedPacket ==
  ASSUME Inv, NEW k \in Key, NEW p, In(table[k], p)
  PROVE  p \in Packet /\ p \in read /\ mKey[p] = k /\ ~InBatch(p)
<1>1. PICK n \in 1 .. Len(table[k]) : table[k][n] = p
  BY DEF In
<1>2. table[k] \in Seq(Packet)
  BY DEF Inv, TypeOK
<1>3. p \in Packet
  BY <1>1, <1>2, ElementOfSeq
<1> QED
  BY <1>1, <1>3 DEF Inv, TableInv, Filed, InBatch

(* So have the packets of an enqueued flow. *)
LEMMA FlowPacket ==
  ASSUME Inv, NEW f \in flows, NEW p, In(f.list, p)
  PROVE  p \in Packet /\ p \in read /\ mKey[p] = f.flowId /\ f.flowId \in Key /\ ~InBatch(p)
<1>1. PICK n \in 1 .. Len(f.list) : f.list[n] = p
  BY DEF In
<1>2. f.list \in Seq(Packet) /\ f.flowId \in Key
  BY DEF Inv, TypeOK, Flow
<1>3. p \in Packet
  BY <1>1, <1>2, ElementOfSeq
<1> QED
  BY <1>1, <1>2, <1>3 DEF Inv, FlowInv, Filed, InBatch

(* The initial state has no packets. *)
LEMMA InitPlace == Init => PlaceInv
<1> SUFFICES ASSUME Init PROVE PlaceInv
  OBVIOUS
<1>1. \A k \in Key : Len(table[k]) = 0
  BY DEF Init
<1>2. \A p : ~InTable(p) /\ ~InFlow(p)
  BY <1>1 DEF Init, InTable, InFlow, In
<1>3. ListsInv
  BY <1>1, <1>2 DEF Init, ListsInv, NoRepeat
<1> QED
  BY <1>3 DEF Init, PlaceInv, DiscardInv, CompleteInv

(* A step that leaves batches, lists and discarded packets alone. *)
LEMMA PlaceFrame ==
  ASSUME PlaceInv, UNCHANGED <<table, flows, expired, unparsed, todo, mKey, read>>
  PROVE  PlaceInv'
<1>1. \A p : /\ InTable(p)' <=> InTable(p)
             /\ InFlow(p)' <=> InFlow(p)
             /\ InBatch(p)' <=> InBatch(p)
  BY DEF InTable, InFlow, InBatch
<1>2. ListsInv'
  BY <1>1 DEF PlaceInv, ListsInv
<1>3. DiscardInv'
  BY <1>1 DEF PlaceInv, DiscardInv
<1>4. CompleteInv'
  BY <1>1 DEF PlaceInv, CompleteInv
<1> QED
  BY <1>2, <1>3, <1>4 DEF PlaceInv

(* Lists of the table that are moved into flows (R), or discarded (L), and *)
(* replaced by empty ones, take their packets with them: FlushReady moves  *)
(* at most one list, a round of the sweep any number.                      *)
LEMMA MoveLists ==
  ASSUME Inv, PlaceInv, NEW R \in SUBSET Key, NEW L \in SUBSET Key, R \cap L = {},
         UNCHANGED <<todo, mKey, read, unparsed>>,
         flows' = flows \cup {MakeHdFlow(k, table[k]) : k \in R},
         expired' = expired \cup UNION {ToSet(table[k]) : k \in L},
         table' = [k \in Key |-> IF k \in R \cup L THEN <<>> ELSE table[k]]
  PROVE  PlaceInv'
<1> DEFINE Moved(k, p) == k \in Key /\ In(table[k], p)
<1>k. \A k, p : Moved(k, p) => /\ k \in Key /\ p \in Packet /\ p \in read /\ mKey[p] = k
                              /\ ~InBatch(p) /\ InTable(p)
  BY ListedPacket DEF InTable
<1>b. \A p : InBatch(p)' <=> InBatch(p)
  BY DEF InBatch
<1>t. \A p : InTable(p)' <=> \E k \in Key \ (R \cup L) : Moved(k, p)
  <2>1. \A k \in Key : table'[k] = IF k \in R \cup L THEN <<>> ELSE table[k]
    OBVIOUS
  <2>2. \A p : ~In(<<>>, p)
    BY DEF In
  <2> QED
    BY <2>1, <2>2 DEF InTable
<1>f. \A f \in flows' : f \in flows \/ \E k \in R : f = MakeHdFlow(k, table[k]) /\ f.list = table[k]
  BY DEF MakeHdFlow
<1>g. ASSUME NEW k \in R PROVE \E f \in flows' : f.list = table[k]
  <2>1. MakeHdFlow(k, table[k]) \in flows' /\ MakeHdFlow(k, table[k]).list = table[k]
    BY DEF MakeHdFlow
  <2> QED
    BY <2>1
<1>w. \A p : InFlow(p)' <=> InFlow(p) \/ \E k \in R : Moved(k, p)
  <2>1. \A f \in flows : f \in flows'
    OBVIOUS
  <2>2. \A p : InFlow(p)' <=> \E f \in flows' : In(f.list, p)
    BY DEF InFlow
  <2> HIDE DEF Moved
  <2>3. ASSUME NEW p, NEW f \in flows', In(f.list, p) PROVE InFlow(p) \/ \E k \in R : Moved(k, p)
    BY <2>3, <1>f DEF InFlow, Moved
  <2>4. ASSUME NEW p, NEW k \in R, Moved(k, p) PROVE \E f \in flows' : In(f.list, p)
    BY <2>4, <1>g DEF Moved
  <2>5. ASSUME NEW p, InFlow(p) PROVE \E f \in flows' : In(f.list, p)
    BY <2>5, <2>1 DEF InFlow
  <2> QED
    BY <2>2, <2>3, <2>4, <2>5
<1>x. \A p : p \in expired' <=> p \in expired \/ \E k \in L : Moved(k, p)
  <2>1. \A k \in Key : \A p : p \in ToSet(table[k]) <=> In(table[k], p)
    <3> SUFFICES ASSUME NEW k \in Key PROVE \A p : p \in ToSet(table[k]) <=> In(table[k], p)
      OBVIOUS
    <3>1. DOMAIN table[k] = 1 .. Len(table[k])
      BY LenProperties DEF Inv, TypeOK
    <3> QED
      BY <3>1 DEF ToSet, In
  <2> QED
    BY <2>1
<1>1. ListsInv'
  <2>1. \A k \in Key : NoRepeat(table[k])' <=> NoRepeat(table'[k])
    BY DEF NoRepeat
  <2>2. \A k \in Key : NoRepeat(table'[k])
    <3>1. NoRepeat(<<>>)
      BY DEF NoRepeat
    <3> QED
      BY <3>1 DEF PlaceInv, ListsInv
  <2>3. \A f \in flows' : NoRepeat(f.list)
    BY <1>f DEF PlaceInv, ListsInv
  <2>4. ASSUME NEW f \in flows', NEW g \in flows', NEW p \in Packet, In(f.list, p), In(g.list, p)
        PROVE  f = g
    <3>1. CASE f \in flows /\ g \in flows
      BY <2>4, <3>1 DEF PlaceInv, ListsInv
    <3>2. ASSUME NEW h \in flows, In(h.list, p) PROVE ~\E k \in R : In(table[k], p)
      BY <3>2 DEF PlaceInv, ListsInv, InTable, InFlow
    <3>3. ASSUME NEW j \in R, NEW k \in R, In(table[j], p), In(table[k], p) PROVE j = k
      <4>1. mKey[p] = j /\ mKey[p] = k
        BY <3>3, ListedPacket
      <4> QED
        BY <4>1
    <3> QED
      BY <1>f, <2>4, <3>1, <3>2, <3>3
  <2>5. ASSUME NEW p \in Packet, InTable(p)' PROVE ~InFlow(p)'
    <3>1. PICK k \in Key \ (R \cup L) : Moved(k, p)
      BY <1>t, <2>5
    <3>2. ~InFlow(p)
      BY <3>1, <1>k DEF PlaceInv, ListsInv
    <3>3. ASSUME NEW j \in R, Moved(j, p) PROVE FALSE
      <4>1. mKey[p] = j /\ mKey[p] = k
        BY <3>1, <3>3, ListedPacket
      <4> QED
        BY <3>1, <4>1
    <3> QED
      BY <3>2, <3>3, <1>w
  <2> QED
    BY <2>2, <2>3, <2>4, <2>5 DEF ListsInv
<1>2. DiscardInv'
  <2>1. ASSUME NEW p \in expired'
        PROVE  /\ p \in read /\ ~InBatch(p) /\ mKey[p] \in Key
               /\ ~InTable(p)' /\ ~InFlow(p)'
    <3>1. CASE p \in expired
      <4>1. p \in read /\ ~InBatch(p) /\ mKey[p] \in Key /\ ~InTable(p) /\ ~InFlow(p)
        BY <3>1 DEF PlaceInv, DiscardInv
      <4> QED
        BY <4>1, <1>k, <1>t, <1>w
    <3>2. ASSUME NEW k \in L, Moved(k, p)
          PROVE  /\ p \in read /\ ~InBatch(p) /\ mKey[p] \in Key
                 /\ ~InTable(p)' /\ ~InFlow(p)'
      <4>1. p \in Packet /\ p \in read /\ ~InBatch(p) /\ mKey[p] = k /\ k \in Key /\ InTable(p)
        BY <3>2, <1>k
      <4>2. ~InFlow(p)
        BY <4>1 DEF PlaceInv, ListsInv
      <4>3. \A j : Moved(j, p) => j = k
        BY <4>1, <1>k
      <4> QED
        BY <4>1, <4>2, <4>3, <1>t, <1>w
    <3> QED
      BY <2>1, <1>x, <3>1, <3>2
  <2> QED
    BY <2>1, <1>b DEF PlaceInv, DiscardInv
<1>3. CompleteInv'
  <2>1. \A p : InTable(p) => InTable(p)' \/ InFlow(p)' \/ p \in expired'
    BY <1>t, <1>w, <1>x DEF InTable
  <2> QED
    BY <2>1, <1>b, <1>w, <1>x DEF PlaceInv, CompleteInv
<1> QED
  BY <1>1, <1>2, <1>3 DEF PlaceInv

(* Every step moves packets from one place to another: none is lost, none  *)
(* is left behind in its old place.                                        *)
LEMMA NextPlace == Inv /\ PlaceInv /\ [Next]_vars => PlaceInv'
<1> SUFFICES ASSUME Inv, PlaceInv, [Next]_vars PROVE PlaceInv'
  OBVIOUS
<1>t. /\ captured \in Nat /\ read \subseteq 1 .. captured /\ NumPackets \in Nat
      /\ captured <= NumPackets
      /\ todo \in [Task -> SUBSET Packet] /\ table \in [Key -> Seq(Packet)]
      /\ mKey \in [Packet -> Key \cup {NoKey}]
      /\ expired \in SUBSET Packet /\ unparsed \in SUBSET Packet
      /\ \A p \in Packet : p \in Nat
  BY BoundAssumption DEF Inv, TypeOK, Packet
<1>1. CASE Tick \/ Capture \/ UNCHANGED vars
  BY <1>1, PlaceFrame DEF Tick, Capture, vars, captureVars, taskVars, tableVars
<1>2. CASE CleanRound
  <2> DEFINE ready == {k \in present : IsFlowReady(table[k])}
             late == {k \in present \ ready : IsTimeout(table[k])}
  <2>1. /\ flows' = flows \cup {MakeHdFlow(k, table[k]) : k \in ready}
        /\ expired' = expired \cup UNION {ToSet(table[k]) : k \in late}
        /\ table' = [k \in Key |-> IF k \in ready \cup late THEN <<>> ELSE table[k]]
    BY <1>2 DEF CleanRound
  <2>2. ready \in SUBSET Key /\ late \in SUBSET Key /\ ready \cap late = {}
    BY DEF Inv, TypeOK
  <2>3. UNCHANGED <<todo, mKey, read, unparsed>>
    BY <1>2 DEF CleanRound, captureVars, taskVars
  <2> HIDE DEF ready, late
  <2> QED
    BY <2>1, <2>2, <2>3, MoveLists
<1>3. ASSUME NEW t \in Task, StartTask(t) PROVE PlaceInv'
  <2>0. PICK batch \in SUBSET Queued : /\ todo' = [todo EXCEPT ![t] = batch]
                                      /\ read' = read \cup batch
    BY <1>3 DEF StartTask
  <2>1. /\ UNCHANGED <<table, flows, expired, unparsed, mKey>>
        /\ todo[t] = {} /\ batch \cap read = {}
    BY <1>3 DEF StartTask, tableVars, Inv, TodoInv, Queued
  <2>2. \A p : (InTable(p)' <=> InTable(p)) /\ (InFlow(p)' <=> InFlow(p))
    BY <2>1 DEF InTable, InFlow
  <2>3. \A p : InBatch(p)' <=> InBatch(p) \/ p \in batch
    BY <2>0, <2>1, <1>t DEF InBatch
  <2>4. ListsInv'
    BY <2>1, <2>2 DEF PlaceInv, ListsInv
  <2>5. DiscardInv'
    <3>1. ASSUME NEW p \in expired PROVE p \in read' /\ ~InBatch(p)'
      <4>1. p \in Nat /\ p \in read /\ ~InBatch(p)
        BY <3>1, <1>t DEF PlaceInv, DiscardInv
      <4> QED
        BY <4>1, <2>0, <2>1, <2>3, <1>t
    <3>2. ASSUME NEW p \in unparsed PROVE p \in read' /\ ~InBatch(p)'
      <4>1. p \in Nat /\ p \in read /\ ~InBatch(p)
        BY <3>2, <1>t DEF PlaceInv, DiscardInv
      <4> QED
        BY <4>1, <2>0, <2>1, <2>3, <1>t
    <3> QED
      BY <2>1, <2>2, <3>1, <3>2 DEF PlaceInv, DiscardInv
  <2>6. CompleteInv'
    <3>1. \A p \in read' : p \in read \/ p \in batch
      BY <2>0
    <3> QED
      BY <2>1, <2>2, <2>3, <3>1 DEF PlaceInv, CompleteInv
  <2> QED
    BY <2>4, <2>5, <2>6 DEF PlaceInv
<1>4. ASSUME NEW t \in Task, Parse(t) PROVE PlaceInv'
  <2>1. PICK key \in [Packet -> Key \cup {NoKey}] :
          /\ \A p \in Packet : p \notin todo[t] => key[p] = mKey[p]
          /\ mKey' = key
          /\ todo' = [todo EXCEPT ![t] = {p \in @ : key[p] # NoKey}]
          /\ unparsed' = unparsed \cup {p \in todo[t] : key[p] = NoKey}
    BY <1>4 DEF Parse
  <2>2. UNCHANGED <<table, flows, expired, read>>
    BY <1>4 DEF Parse, captureVars, tableVars
  <2>3. \A p : (InTable(p)' <=> InTable(p)) /\ (InFlow(p)' <=> InFlow(p))
    BY <2>2 DEF InTable, InFlow
  <2>4. \A p : InBatch(p)' => InBatch(p)
    BY <2>1, <1>t DEF InBatch
  <2>5. \A p : InBatch(p) => InBatch(p)' \/ p \in unparsed'
    BY <2>1, <1>t DEF InBatch
  <2>6. ASSUME NEW p \in todo[t], key[p] = NoKey PROVE p \in Packet /\ p \in read /\ ~InBatch(p)'
    <3>1. p \in Packet /\ p \in read /\ \A u \in Task : u # t => p \notin todo[u]
      BY <2>6, <1>t DEF Inv, TodoInv
    <3> QED
      BY <3>1, <2>1, <2>6, <1>t DEF InBatch
  <2>7. ListsInv'
    BY <2>2, <2>3 DEF PlaceInv, ListsInv
  <2>8. DiscardInv'
    <3>1. ASSUME NEW p \in expired
          PROVE  p \in read /\ ~InBatch(p)' /\ mKey'[p] \in Key /\ ~InTable(p)' /\ ~InFlow(p)'
      <4>1. p \in Packet /\ p \in read /\ ~InBatch(p) /\ mKey[p] \in Key /\ ~InTable(p) /\ ~InFlow(p)
        BY <3>1, <1>t DEF PlaceInv, DiscardInv
      <4>2. mKey'[p] = mKey[p]
        BY <4>1, <2>1 DEF InBatch
      <4> QED
        BY <4>1, <4>2, <2>3, <2>4
    <3>2. ASSUME NEW p \in unparsed'
          PROVE  p \in read /\ ~InBatch(p)' /\ mKey'[p] = NoKey
      <4>1. CASE p \in unparsed
        <5>1. p \in Packet /\ p \in read /\ ~InBatch(p) /\ mKey[p] = NoKey
          BY <4>1, <1>t DEF PlaceInv, DiscardInv
        <5>2. mKey'[p] = mKey[p]
          BY <5>1, <2>1 DEF InBatch
        <5> QED
          BY <5>1, <5>2, <2>4
      <4>2. CASE p \in todo[t] /\ key[p] = NoKey
        BY <4>2, <2>1, <2>6
      <4> QED
        BY <3>2, <4>1, <4>2, <2>1
    <3> QED
      BY <2>2, <3>1, <3>2 DEF DiscardInv
  <2>9. CompleteInv'
    BY <2>1, <2>2, <2>3, <2>5 DEF PlaceInv, CompleteInv
  <2> QED
    BY <2>7, <2>8, <2>9 DEF PlaceInv
<1>5. ASSUME NEW t \in Task, MergeLock(t) \/ MergeUnlock(t) PROVE PlaceInv'
  BY <1>5, PlaceFrame DEF MergeLock, MergeUnlock, captureVars, tableVars
<1>6. ASSUME NEW t \in Task, FlushReady(t) PROVE PlaceInv'
  <2>1. PICK p \in todo[t] :
          IF IsFlowReady(table[mKey[p]])
            THEN /\ flows' = flows \cup {MakeHdFlow(mKey[p], table[mKey[p]])}
                 /\ table' = [table EXCEPT ![mKey[p]] = <<>>]
            ELSE UNCHANGED <<flows, table>>
    BY <1>6 DEF FlushReady, Flushed
  <2>2. mKey[p] \in Key
    BY <1>6 DEF FlushReady, Inv, TodoInv
  <2>3. UNCHANGED <<todo, mKey, read, expired, unparsed>>
    BY <1>6 DEF FlushReady, captureVars
  <2>4. CASE IsFlowReady(table[mKey[p]])
    <3>1. PICK k \in Key : k = mKey[p]
      BY <2>2
    <3>2. flows' = flows \cup {MakeHdFlow(j, table[j]) : j \in {k}}
      BY <2>1, <2>4, <3>1
    <3>3. expired' = expired \cup UNION {ToSet(table[j]) : j \in {}}
      BY <2>3
    <3>4. table' = [j \in Key |-> IF j \in {k} \cup {} THEN <<>> ELSE table[j]]
      BY <2>1, <2>4, <3>1, <1>t
    <3>5. UNCHANGED <<todo, mKey, read, unparsed>> /\ {k} \in SUBSET Key
      BY <2>3
    <3>6. {} \in SUBSET Key /\ {k} \cap {} = {}
      OBVIOUS
    <3> QED
      BY <3>2, <3>3, <3>4, <3>5, <3>6, MoveLists
  <2>5. CASE ~IsFlowReady(table[mKey[p]])
    BY <2>1, <2>3, <2>5, PlaceFrame
  <2> QED
    BY <2>4, <2>5
<1>7. ASSUME NEW t \in Task, AppendPacket(t) PROVE PlaceInv'
  <2>1. PICK p \in Packet : p = parsed[t]
    BY <1>7, ParsedKey DEF AppendPacket, Inv
  <2>2. PICK k \in Key : k = mKey[p]
    BY <1>7, <2>1, ParsedKey DEF AppendPacket, Inv
  <2>3. /\ table' = [table EXCEPT ![k] = Append(@, p)] /\ todo' = [todo EXCEPT ![t] = @ \ {p}]
        /\ UNCHANGED <<flows, expired, unparsed, mKey, read>>
        /\ p \in todo[t]
    BY <1>7, <2>1, <2>2 DEF AppendPacket, Appended, captureVars, Inv, TodoInv
  <2>4. InBatch(p) /\ ~InBatch(p)' /\ \A q : q # p => (InBatch(q)' <=> InBatch(q))
    <3>1. \A u \in Task : u # t => p \notin todo[u]
      BY <2>3 DEF Inv, TodoInv
    <3> QED
      BY <2>3, <3>1, <1>t DEF InBatch
  <2>5. ~InTable(p) /\ ~InFlow(p)
    BY <2>4, ListedPacket, FlowPacket DEF InTable, InFlow
  <2>6. /\ Append(table[k], p) \in Seq(Packet)
        /\ Len(Append(table[k], p)) = Len(table[k]) + 1 /\ Len(table[k]) \in Nat
        /\ \A n \in 1 .. Len(table[k]) : Append(table[k], p)[n] = table[k][n]
        /\ Append(table[k], p)[Len(table[k]) + 1] = p
        /\ \A n \in 1 .. Len(table[k]) + 1 : n \in 1 .. Len(table[k]) \/ n = Len(table[k]) + 1
    BY <1>t, AppendProperties, LenProperties
  <2>7. \A q : In(Append(table[k], p), q) <=> In(table[k], q) \/ q = p
    <3>1. Len(table[k]) + 1 \in 1 .. Len(table[k]) + 1
      BY <2>6
    <3>2. \A n \in 1 .. Len(table[k]) : n \in 1 .. Len(table[k]) + 1
      BY <2>6
    <3> QED
      BY <2>6, <3>1, <3>2 DEF In
  <2>8. \A j \in Key : table'[j] = IF j = k THEN Append(table[k], p) ELSE table[j]
    BY <2>3, <1>t
  <2>9. \A q : /\ InTable(q)' <=> InTable(q) \/ q = p
               /\ InFlow(q)' <=> InFlow(q)
    <3>1. \A q : InTable(q)' <=> \E j \in Key : In(table'[j], q)
      BY DEF InTable
    <3>2. \A q : InTable(q)' => InTable(q) \/ q = p
      BY <3>1, <2>7, <2>8 DEF InTable
    <3>3. \A q : InTable(q) \/ q = p => InTable(q)'
      BY <3>1, <2>7, <2>8 DEF InTable
    <3> QED
      BY <2>3, <3>2, <3>3 DEF InFlow
  <2>10. ListsInv'
    <3>1. \A n \in 1 .. Len(table[k]) : table[k][n] # p
      BY <2>5 DEF InTable, In
    <3>2. NoRepeat(table[k])
      BY DEF PlaceInv, ListsInv
    <3>3. NoRepeat(Append(table[k], p))
      BY <2>6, <3>1, <3>2 DEF NoRepeat
    <3>4. \A j \in Key : NoRepeat(table'[j])
      BY <2>8, <3>3 DEF PlaceInv, ListsInv
    <3>5. \A q \in Packet : InTable(q)' => ~InFlow(q)'
      BY <2>5, <2>9 DEF PlaceInv, ListsInv
    <3> QED
      BY <2>3, <3>4, <3>5 DEF PlaceInv, ListsInv
  <2>11. DiscardInv'
    <3>1. \A q \in expired : q # p
      BY <2>4 DEF PlaceInv, DiscardInv
    <3>2. \A q \in unparsed : q # p
      BY <2>4 DEF PlaceInv, DiscardInv
    <3> QED
      BY <2>3, <2>4, <2>9, <3>1, <3>2 DEF PlaceInv, DiscardInv
  <2>12. CompleteInv'
    BY <2>3, <2>4, <2>9 DEF PlaceInv, CompleteInv
  <2> QED
    BY <2>10, <2>11, <2>12 DEF PlaceInv
<1> QED
  BY <1>1, <1>2, <1>3, <1>4, <1>5, <1>6, <1>7 DEF Next, MakeFlow

(* What it means to be a place of a packet. *)
LEMMA PlacesMember ==
  ASSUME TypeOK, NEW p \in Packet, NEW x
  PROVE  x \in Places(p) <=>
           \/ x = <<"queue">> /\ p \in Queued
           \/ \E t \in Task : x = <<"task", t>> /\ p \in todo[t]
           \/ \E k \in Key : \E n \in 1 .. Len(table[k]) : x = <<"table", k, n>> /\ table[k][n] = p
           \/ \E f \in flows : \E n \in 1 .. Len(f.list) : x = <<"flow", f, n>> /\ f.list[n] = p
           \/ x = <<"expired">> /\ p \in expired
           \/ x = <<"unparsed">> /\ p \in unparsed
<1>1. \A k \in Key : DOMAIN table[k] = 1 .. Len(table[k])
  BY LenProperties DEF TypeOK
<1>2. \A f \in flows : DOMAIN f.list = 1 .. Len(f.list)
  BY LenProperties DEF TypeOK, Flow
<1>3. ASSUME NEW k \in Key
      PROVE  x \in ListPlaces("table", k, table[k], p) <=>
               \E n \in 1 .. Len(table[k]) : x = <<"table", k, n>> /\ table[k][n] = p
  BY <1>1 DEF ListPlaces
<1>4. ASSUME NEW f \in flows
      PROVE  x \in ListPlaces("flow", f, f.list, p) <=>
               \E n \in 1 .. Len(f.list) : x = <<"flow", f, n>> /\ f.list[n] = p
  BY <1>2 DEF ListPlaces
<1>5. x \in TablePlaces(p) <=>
        \E k \in Key : \E n \in 1 .. Len(table[k]) : x = <<"table", k, n>> /\ table[k][n] = p
  <2>1. x \in TablePlaces(p) <=> \E k \in Key : x \in ListPlaces("table", k, table[k], p)
    BY DEF TablePlaces
  <2> QED
    BY <1>3, <2>1, Zenon
<1>6. x \in FlowPlaces(p) <=>
        \E f \in flows : \E n \in 1 .. Len(f.list) : x = <<"flow", f, n>> /\ f.list[n] = p
  <2>1. x \in FlowPlaces(p) <=> \E f \in flows : x \in ListPlaces("flow", f, f.list, p)
    BY DEF FlowPlaces
  <2> QED
    BY <1>4, <2>1, Zenon
<1>7. x \in TaskPlaces(p) <=> \E t \in Task : x = <<"task", t>> /\ p \in todo[t]
  BY DEF TaskPlaces
<1>8. /\ x \in QueuePlaces(p) <=> x = <<"queue">> /\ p \in Queued
      /\ x \in ExpiredPlaces(p) <=> x = <<"expired">> /\ p \in expired
      /\ x \in UnparsedPlaces(p) <=> x = <<"unparsed">> /\ p \in unparsed
  BY DEF QueuePlaces, ExpiredPlaces, UnparsedPlaces
<1> QED
  BY <1>5, <1>6, <1>7, <1>8, Zenon DEF Places

(* Disjoint and complete places make exactly one place per packet. *)
LEMMA PlaceAccounted == Inv /\ PlaceInv => PacketAccounted
<1> SUFFICES ASSUME Inv, PlaceInv, NEW p \in Packet
             PROVE  Cardinality(Places(p)) = IF p <= captured THEN 1 ELSE 0
  BY DEF PacketAccounted
<1>t. /\ TypeOK /\ p \in Nat /\ p >= 1 /\ captured \in Nat /\ read \subseteq 1 .. captured
  BY BoundAssumption DEF Inv, TypeOK, Packet
<1> DEFINE Queue(x) == x = <<"queue">> /\ p \in Queued
           Batch(x) == \E t \in Task : x = <<"task", t>> /\ p \in todo[t]
           Listed(x) == \E k \in Key : \E n \in 1 .. Len(table[k]) : x = <<"table", k, n>> /\ table[k][n] = p
           Sent(x) == \E f \in flows : \E n \in 1 .. Len(f.list) : x = <<"flow", f, n>> /\ f.list[n] = p
           Late(x) == x = <<"expired">> /\ p \in expired
           Bad(x) == x = <<"unparsed">> /\ p \in unparsed
<1>m. \A x : x \in Places(p) <=> Queue(x) \/ Batch(x) \/ Listed(x) \/ Sent(x) \/ Late(x) \/ Bad(x)
  BY <1>t, PlacesMember, Zenon
<1>l. \A x : Listed(x) => InTable(p)
  BY DEF InTable, In
<1>s. \A x : Sent(x) => InFlow(p)
  BY DEF InFlow, In
<1>b. \A x : Batch(x) => InBatch(p)
  BY DEF InBatch
<1>k. /\ InTable(p) => p \in read /\ mKey[p] \in Key /\ ~InBatch(p) /\ ~InFlow(p)
      /\ InFlow(p) => p \in read /\ mKey[p] \in Key /\ ~InBatch(p) /\ ~InTable(p)
      /\ InBatch(p) => p \in read
      /\ p \in expired => p \in read /\ mKey[p] \in Key /\ ~InBatch(p) /\ ~InTable(p) /\ ~InFlow(p)
      /\ p \in unparsed => p \in read /\ mKey[p] \notin Key /\ ~InBatch(p)
  <2>1. InTable(p) => p \in read /\ mKey[p] \in Key /\ ~InBatch(p) /\ ~InFlow(p)
    BY ListedPacket DEF InTable, PlaceInv, ListsInv
  <2>2. InFlow(p) => p \in read /\ mKey[p] \in Key /\ ~InBatch(p)
    BY FlowPacket DEF InFlow
  <2>3. InBatch(p) => p \in read
    BY <1>t DEF InBatch, Inv, TodoInv
  <2>4. p \in expired => p \in read /\ mKey[p] \in Key /\ ~InBatch(p) /\ ~InTable(p) /\ ~InFlow(p)
    BY DEF PlaceInv, DiscardInv
  <2>5. p \in unparsed => p \in read /\ mKey[p] \notin Key /\ ~InBatch(p)
    BY KeyAssumption DEF PlaceInv, DiscardInv
  <2> QED
    BY <2>1, <2>2, <2>3, <2>4, <2>5
<1>c. Cardinality({}) = 0 /\ \A x : Cardinality({x}) = 1
  BY FS_EmptySet, FS_Singleton
<1>1. CASE p \notin read
  <2>1. ~InTable(p) /\ ~InFlow(p) /\ ~InBatch(p) /\ p \notin expired /\ p \notin unparsed
    BY <1>1, <1>k, <1>t
  <2>2. \A x : ~Batch(x) /\ ~Listed(x) /\ ~Sent(x) /\ ~Late(x) /\ ~Bad(x)
    BY <2>1, <1>l, <1>s, <1>b
  <2>3. CASE p <= captured
    <3>1. Places(p) = {<<"queue">>}
      <4>1. p \in Queued
        BY <1>1, <1>t, <2>3 DEF Queued
      <4> QED
        BY <1>m, <2>1, <2>2, <4>1
    <3> QED
      BY <3>1, <1>c, <2>3
  <2>4. CASE ~(p <= captured)
    <3>1. Places(p) = {}
      <4>1. p \notin Queued
        BY <1>t, <2>4 DEF Queued
      <4> QED
        BY <1>m, <2>2, <4>1
    <3> QED
      BY <3>1, <1>c, <2>4
  <2> QED
    BY <2>3, <2>4
<1>2. CASE p \in read
  <2>1. p <= captured /\ \A x : ~Queue(x)
    BY <1>2, <1>t DEF Queued
  <2>2. InBatch(p) \/ InTable(p) \/ InFlow(p) \/ p \in expired \/ p \in unparsed
    BY <1>2, <1>t DEF PlaceInv, CompleteInv
  <2>3. SUFFICES \E x : Places(p) = {x}
    BY <2>1, <1>c
  <2>4. CASE InBatch(p)
    <3>1. PICK t \in Task : p \in todo[t]
      BY <2>4 DEF InBatch
    <3>2. \A x : ~Listed(x) /\ ~Sent(x) /\ ~Late(x) /\ ~Bad(x)
      BY <2>4, <1>k, <1>l, <1>s
    <3>3. \A u \in Task : p \in todo[u] => u = t
      BY <3>1 DEF Inv, TodoInv
    <3>4. \A x : Batch(x) <=> x = <<"task", t>>
      BY <3>1, <3>3
    <3>5. Places(p) = {<<"task", t>>}
      BY <1>m, <2>1, <3>2, <3>4
    <3> QED
      BY <3>5
  <2>5. CASE InTable(p)
    <3>1. PICK k \in Key : In(table[k], p)
      BY <2>5 DEF InTable
    <3>2. PICK n \in 1 .. Len(table[k]) : table[k][n] = p
      BY <3>1 DEF In
    <3>3. \A x : ~Batch(x) /\ ~Sent(x) /\ ~Late(x) /\ ~Bad(x)
      BY <2>5, <1>k, <1>b, <1>s
    <3>4. \A j \in Key : \A m \in 1 .. Len(table[j]) : table[j][m] = p => j = k /\ m = n
      <4> SUFFICES ASSUME NEW j \in Key, NEW m \in 1 .. Len(table[j]), table[j][m] = p
                   PROVE  j = k /\ m = n
        OBVIOUS
      <4>1. mKey[p] = j /\ mKey[p] = k
        BY <3>1, ListedPacket DEF In
      <4>2. NoRepeat(table[k])
        BY DEF PlaceInv, ListsInv
      <4> QED
        BY <3>2, <4>1, <4>2 DEF NoRepeat
    <3>5. \A x : Listed(x) <=> x = <<"table", k, n>>
      BY <3>2, <3>4
    <3>6. Places(p) = {<<"table", k, n>>}
      BY <1>m, <2>1, <3>3, <3>5
    <3> QED
      BY <3>6
  <2>6. CASE InFlow(p)
    <3>1. PICK f \in flows : In(f.list, p)
      BY <2>6 DEF InFlow
    <3>2. PICK n \in 1 .. Len(f.list) : f.list[n] = p
      BY <3>1 DEF In
    <3>3. \A x : ~Batch(x) /\ ~Listed(x) /\ ~Late(x) /\ ~Bad(x)
      BY <2>6, <1>k, <1>b, <1>l
    <3>4. \A g \in flows : \A m \in 1 .. Len(g.list) : g.list[m] = p => g = f /\ m = n
      <4> SUFFICES ASSUME NEW g \in flows, NEW m \in 1 .. Len(g.list), g.list[m] = p
                   PROVE  g = f /\ m = n
        OBVIOUS
      <4>1. g = f
        BY <3>1 DEF In, PlaceInv, ListsInv
      <4>2. NoRepeat(f.list)
        BY DEF PlaceInv, ListsInv
      <4> QED
        BY <3>2, <4>1, <4>2 DEF NoRepeat
    <3>5. \A x : Sent(x) <=> x = <<"flow", f, n>>
      BY <3>2, <3>4
    <3>6. Places(p) = {<<"flow", f, n>>}
      BY <1>m, <2>1, <3>3, <3>5
    <3> QED
      BY <3>6
  <2>7. CASE p \in expired
    <3>1. \A x : ~Batch(x) /\ ~Listed(x) /\ ~Sent(x) /\ ~Bad(x)
      BY <2>7, <1>k, <1>b, <1>l, <1>s
    <3>2. Places(p) = {<<"expired">>}
      BY <1>m, <2>1, <2>7, <3>1
    <3> QED
      BY <3>2
  <2>8. CASE p \in unparsed
    <3>1. \A x : ~Batch(x) /\ ~Listed(x) /\ ~Sent(x) /\ ~Late(x)
      BY <2>8, <1>k, <1>b, <1>l, <1>s
    <3>2. Places(p) = {<<"unparsed">>}
      BY <1>m, <2>1, <2>8, <3>1
    <3> QED
      BY <3>2
  <2> QED
    BY <2>2, <2>4, <2>5, <2>6, <2>7, <2>8
<1> QED
  BY <1>1, <1>2

(* Every captured packet is in exactly one place, whatever the number of   *)
(* tasks that merge at once, and whenever the sweep runs.                  *)
THEOREM PacketsAccounted == Spec => []PacketAccounted
<1>1. Init => Inv /\ PlaceInv
  BY InitInv, InitPlace
<1>2. (Inv /\ PlaceInv) /\ [Next]_vars => (Inv /\ PlaceInv)'
  BY NextInv, NextPlace
<1> QED
  BY <1>1, <1>2, PlaceAccounted, PTL DEF Spec

-----------------------------------------------------------------------------
(* When the sweep is right about the age of a flow *)

(* The MakeFlow tasks do not overlap.  Nothing in the program sees to it. *)
NoOverlap == \A t, u \in Task : taskPc[t] # "free" /\ taskPc[u] # "free" => t = u

(* The capture queue leaves no packet behind that comes before one already *)
(* read: no append is late.  Nothing in the program sees to that either.   *)
ReadInOrder == \A p \in read, q \in Queued : p < q

(* Time stamps follow the capture order. *)
StampInv ==
  /\ \A p \in Packet : p <= captured => ts[p] <= clock
  /\ \A p, q \in Packet : p <= q /\ q <= captured => ts[p] <= ts[q]

(* list is in capture order; and it is older than the packets of S. *)
Ascending(list) == \A m, n \in 1 .. Len(list) : m <= n => list[m] <= list[n]

Precedes(list, S) == \A n \in 1 .. Len(list) : \A p \in S : list[n] < p

(* Lists are in capture order, and what a batch still holds comes later. *)
OrderInv ==
  /\ \A k \in Key : Ascending(table[k])
  /\ \A k \in Key, t \in Task : Precedes(table[k], todo[t])
  /\ \A t \in Task : taskPc[t] = "append" => FirstOf(parsed[t], todo[t])

AgeInv == StampInv /\ OrderInv

(* Nothing has been captured yet. *)
LEMMA InitAge == Init => AgeInv
  BY BoundAssumption
     DEF Init, AgeInv, StampInv, OrderInv, Ascending, Precedes, Packet

(* A packet is stamped with the time of its capture. *)
LEMMA NextStamp == Inv /\ StampInv /\ [Next]_vars => StampInv'
<1> SUFFICES ASSUME Inv, StampInv, [Next]_vars PROVE StampInv'
  OBVIOUS
<1>t. /\ clock \in Int /\ captured \in 0 .. NumPackets /\ ts \in [Packet -> 0 .. MaxTime]
      /\ Packet \subseteq Int
  BY BoundAssumption DEF Inv, TypeOK, Packet
<1>1. CASE Tick
  BY <1>1, <1>t, BoundAssumption DEF Tick, StampInv
<1>2. CASE Capture
  <2>1. /\ captured' = captured + 1 /\ clock' = clock /\ captured + 1 \in Packet
        /\ ts' = [ts EXCEPT ![captured + 1] = clock]
    BY <1>2, <1>t, BoundAssumption DEF Capture, Packet
  <2>2. \A p \in Packet : ts'[p] = IF p = captured + 1 THEN clock ELSE ts[p]
    BY <2>1, <1>t
  <2>3. \A p \in Packet : p <= captured' => p <= captured \/ p = captured + 1
    BY <2>1, <1>t
  <2>4. \A p \in Packet : p <= captured' => ts'[p] <= clock'
    BY <2>1, <2>2, <2>3, <1>t DEF StampInv
  <2>5. ASSUME NEW p \in Packet, NEW q \in Packet, p <= q, q <= captured' PROVE ts'[p] <= ts'[q]
    <3>1. CASE q = captured + 1
      <4>1. ts'[q] = clock'
        BY <2>1, <2>2, <3>1
      <4>2. p <= captured'
        BY <2>1, <2>5, <1>t
      <4> QED
        BY <2>4, <4>1, <4>2
    <3>2. CASE q <= captured
      <4>1. ts'[q] = ts[q] /\ ts'[p] = ts[p]
        BY <2>2, <2>5, <3>2, <1>t
      <4> QED
        BY <2>5, <3>2, <4>1 DEF StampInv
    <3> QED
      BY <2>3, <2>5, <3>1, <3>2
  <2> QED
    BY <2>4, <2>5 DEF StampInv
<1>3. CASE CleanRound \/ UNCHANGED vars
  BY <1>3 DEF CleanRound, vars, captureVars, StampInv
<1>4. ASSUME NEW t \in Task, StartTask(t) \/ MakeFlow(t) PROVE StampInv'
  BY <1>4 DEF StartTask, MakeFlow, Parse, MergeLock, FlushReady, AppendPacket, MergeUnlock,
              captureVars, StampInv
<1> QED
  BY <1>1, <1>2, <1>3, <1>4 DEF Next

(* A list that is emptied, or not touched, stays in order; so does one     *)
(* whose later packets become fewer.                                       *)
LEMMA OrderShrinks ==
  ASSUME OrderInv,
         \A k \in Key : table'[k] = table[k] \/ table'[k] = <<>>,
         \A t \in Task : todo'[t] \subseteq todo[t]
  PROVE  /\ \A k \in Key : Ascending(table'[k])
         /\ \A k \in Key, t \in Task : Precedes(table'[k], todo'[t])
<1>1. Ascending(<<>>) /\ \A S : Precedes(<<>>, S)
  BY DEF Ascending, Precedes
<1>2. ASSUME NEW k \in Key PROVE Ascending(table'[k])
  BY <1>1, Zenon DEF OrderInv
<1>3. ASSUME NEW k \in Key, NEW t \in Task PROVE Precedes(table'[k], todo'[t])
  <2>1. Precedes(table[k], todo[t])
    BY DEF OrderInv
  <2>2. Precedes(table[k], todo'[t])
    BY <2>1, Zenon DEF Precedes
  <2> QED
    BY <1>1, <2>2, Zenon
<1> QED
  BY <1>2, <1>3

(* Tasks that do not overlap and take their batches in capture order merge *)
(* their packets in capture order.                                         *)
LEMMA NextOrder ==
  Inv /\ OrderInv /\ ReadInOrder /\ NoOverlap /\ NoOverlap' /\ [Next]_vars => OrderInv'
<1> SUFFICES ASSUME Inv, OrderInv, ReadInOrder, NoOverlap, NoOverlap', [Next]_vars
             PROVE  OrderInv'
  OBVIOUS
<1>t. /\ taskPc \in [Task -> {"free", "parse", "lock", "merge", "append"}]
      /\ todo \in [Task -> SUBSET Packet] /\ parsed \in [Task -> Packet \cup {0}]
      /\ table \in [Key -> Seq(Packet)] /\ Packet \subseteq Int
  BY BoundAssumption DEF Inv, TypeOK, Packet
<1>n. \A t \in Task : taskPc[t] = "free" => todo[t] = {}
  BY DEF Inv, TodoInv
<1>1. CASE Tick \/ Capture \/ UNCHANGED vars
  BY <1>1 DEF Tick, Capture, vars, taskVars, tableVars, OrderInv
<1>2. CASE CleanRound
  <2>1. \A k \in Key : table'[k] = table[k] \/ table'[k] = <<>>
    BY <1>2, CleanTable DEF Inv
  <2>2. taskPc' = taskPc /\ todo' = todo /\ parsed' = parsed
    BY <1>2 DEF CleanRound, taskVars
  <2> QED
    BY <2>1, <2>2, OrderShrinks DEF OrderInv
<1>3. ASSUME NEW t \in Task, StartTask(t) PROVE OrderInv'
  <2>0. PICK batch \in SUBSET Queued : todo' = [todo EXCEPT ![t] = batch]
    BY <1>3 DEF StartTask
  <2>1. /\ taskPc' = [taskPc EXCEPT ![t] = "parse"]
        /\ parsed' = parsed /\ table' = table
    BY <1>3 DEF StartTask, tableVars
  <2>2. \A u \in Task : u # t => taskPc[u] = "free" /\ todo[u] = {}
    BY <2>1, <1>t, <1>n DEF NoOverlap
  <2>3. ASSUME NEW k \in Key PROVE Precedes(table[k], batch)
    <3>1. PICK l \in Seq(Packet) : l = table[k]
      BY <1>t
    <3>2. Filed(l, k, read, mKey, todo)
      BY <3>1 DEF Inv, TableInv
    <3>3. \A n \in 1 .. Len(l) : l[n] \in read
      BY <3>2, Zenon DEF Filed
    <3>4. Precedes(l, batch)
      BY <3>3, Zenon DEF Precedes, ReadInOrder
    <3> QED
      BY <3>1, <3>4
  <2>4. \A k \in Key, u \in Task : Precedes(table'[k], todo'[u])
    BY <2>0, <2>1, <2>2, <2>3, <1>t DEF Precedes
  <2>5. \A u \in Task : taskPc'[u] # "append"
    BY <2>1, <2>2, <1>t
  <2> QED
    BY <2>1, <2>4, <2>5 DEF OrderInv
<1>4. ASSUME NEW t \in Task, Parse(t) \/ MergeLock(t) \/ MergeUnlock(t) PROVE OrderInv'
  <2>1. \A u \in Task : todo'[u] \subseteq todo[u] /\ (u # t => todo'[u] = todo[u])
    BY <1>4, <1>t DEF Parse, MergeLock, MergeUnlock
  <2>2. table' = table /\ parsed' = parsed
    BY <1>4 DEF Parse, MergeLock, MergeUnlock, tableVars
  <2>3. /\ \A u \in Task : u # t => taskPc'[u] = taskPc[u]
        /\ taskPc'[t] # "append"
    BY <1>4, <1>t DEF Parse, MergeLock, MergeUnlock
  <2> QED
    BY <2>1, <2>2, <2>3, OrderShrinks DEF OrderInv
<1>5. ASSUME NEW t \in Task, FlushReady(t) PROVE OrderInv'
  <2>1. PICK p \in todo[t] : FirstOf(p, todo[t]) /\ parsed' = [parsed EXCEPT ![t] = p]
    BY <1>5 DEF FlushReady
  <2>2. todo' = todo /\ taskPc' = [taskPc EXCEPT ![t] = "append"]
    BY <1>5 DEF FlushReady
  <2>3. \A k \in Key : table'[k] = table[k] \/ table'[k] = <<>>
    BY <1>5, <1>t DEF FlushReady, Flushed
  <2>4. \A u \in Task : taskPc'[u] = "append" => FirstOf(parsed'[u], todo'[u])
    BY <2>1, <2>2, <1>t DEF OrderInv
  <2> QED
    BY <2>2, <2>3, <2>4, OrderShrinks DEF OrderInv
<1>6. ASSUME NEW t \in Task, AppendPacket(t) PROVE OrderInv'
  <2>1. PICK q \in Packet : q = parsed[t]
    BY <1>6, ParsedKey DEF AppendPacket, Inv
  <2>2. PICK k \in Key : k = mKey[q]
    BY <1>6, <2>1, ParsedKey DEF AppendPacket, Inv
  <2>3. /\ q \in todo[t] /\ FirstOf(q, todo[t])
    BY <1>6, <2>1 DEF AppendPacket, Inv, TodoInv, OrderInv
  <2>4. /\ table' = [table EXCEPT ![k] = Append(@, q)]
        /\ todo' = [todo EXCEPT ![t] = @ \ {q}]
        /\ taskPc' = [taskPc EXCEPT ![t] = "merge"]
    BY <1>6, <2>1, <2>2 DEF AppendPacket, Appended
  <2>5. \A u \in Task : u # t => taskPc[u] = "free" /\ todo[u] = {}
    BY <1>6, <1>n DEF AppendPacket, NoOverlap
  <2>6. PICK l \in Seq(Packet) : l = table[k]
    BY <1>t
  <2>7. Ascending(l) /\ Precedes(l, todo[t])
    BY <2>6 DEF OrderInv
  <2>8. /\ Len(Append(l, q)) = Len(l) + 1 /\ Append(l, q)[Len(l) + 1] = q
        /\ \A n \in 1 .. Len(l) : Append(l, q)[n] = l[n]
    BY AppendProperties
  <2>9. PICK a, c : a = Append(l, q) /\ c = Len(l) /\ c \in Nat
    <3>1. Len(l) \in Nat
      OBVIOUS
    <3> QED
      BY <3>1, Zenon
  <2>10. /\ Len(a) = c + 1 /\ a[c + 1] = q
         /\ \A n \in 1 .. c : a[n] = l[n] /\ l[n] \in Int /\ l[n] < q
    <3>1. \A n \in 1 .. c : l[n] \in Packet /\ l[n] < q
      BY <2>3, <2>7, <2>9 DEF Precedes
    <3> QED
      BY <2>8, <2>9, <3>1, <1>t
  <2>11. Ascending(a)
    <3> SUFFICES ASSUME NEW m \in 1 .. c + 1, NEW n \in 1 .. c + 1, m <= n PROVE a[m] <= a[n]
      BY <2>10 DEF Ascending
    <3>1. CASE n = c + 1
      BY <2>9, <2>10, <3>1, <1>t
    <3>2. CASE n # c + 1
      <4>1. m \in 1 .. c /\ n \in 1 .. c
        BY <2>9, <3>2
      <4> QED
        BY <2>7, <2>9, <2>10, <4>1 DEF Ascending
    <3> QED
      BY <3>1, <3>2
  <2>12. \A p \in todo[t] \ {q} : p \in Int /\ q < p
    BY <2>3, <1>t DEF FirstOf
  <2>13. Precedes(a, todo[t] \ {q})
    <3> SUFFICES ASSUME NEW n \in 1 .. c + 1, NEW p \in todo[t] \ {q} PROVE a[n] < p
      BY <2>10 DEF Precedes
    <3>1. CASE n = c + 1
      BY <2>10, <2>12, <3>1
    <3>2. CASE n # c + 1
      <4>1. n \in 1 .. c
        BY <2>9, <3>2
      <4> QED
        BY <2>10, <2>12, <4>1, <1>t
    <3> QED
      BY <3>1, <3>2
  <2>14. /\ table'[k] = a /\ \A j \in Key : j # k => table'[j] = table[j]
         /\ todo'[t] = todo[t] \ {q} /\ \A u \in Task : u # t => todo'[u] = {}
         /\ \A u \in Task : taskPc'[u] # "append"
    BY <2>4, <2>5, <2>6, <2>9, <1>t
  <2>15. \A j \in Key : Ascending(table'[j])
    BY <2>11, <2>14 DEF OrderInv
  <2>16. ASSUME NEW j \in Key, NEW u \in Task PROVE Precedes(table'[j], todo'[u])
    <3>1. CASE u # t
      BY <2>14, <3>1 DEF Precedes
    <3>2. CASE u = t /\ j = k
      BY <2>13, <2>14, <3>2, Zenon
    <3>3. CASE u = t /\ j # k
      <4>1. Precedes(table[j], todo[t])
        BY DEF OrderInv
      <4> QED
        BY <2>14, <3>3, <4>1 DEF Precedes
    <3> QED
      BY <3>1, <3>2, <3>3
  <2> QED
    BY <2>14, <2>15, <2>16 DEF OrderInv
<1> QED
  BY <1>1, <1>2, <1>3, <1>4, <1>5, <1>6 DEF Next, MakeFlow

(* The last packet of a list in capture order is its youngest. *)
LEMMA OldAllOver ==
  ASSUME Inv, AgeInv, NEW k \in Key, table[k] # <<>>, IsTimeout(table[k]),
         NEW p \in ToSet(table[k])
  PROVE  clock - ts[p] >= FlowTimeout
<1>1. PICK l \in Seq(Packet) : l = table[k]
  BY DEF Inv, TypeOK
<1>2. /\ clock \in Int /\ captured \in Int /\ read \subseteq 1 .. captured
      /\ ts \in [Packet -> 0 .. MaxTime] /\ Packet \subseteq Int
  BY BoundAssumption DEF Inv, TypeOK, Packet
<1>3. PICK c \in Nat \ {0} : c = Len(l) /\ DOMAIN l = 1 .. c
  BY <1>1
<1>4. PICK q \in Packet : q = l[c] /\ q = Last(l)
  BY <1>3 DEF Last
<1>5. PICK n \in 1 .. c : p = l[n]
  BY <1>1, <1>3 DEF ToSet
<1>6. p \in Packet /\ p <= q /\ q \in read
  <2>1. Ascending(l) /\ Filed(l, k, read, mKey, todo)
    BY <1>1 DEF AgeInv, OrderInv, Inv, TableInv
  <2>2. n \in 1 .. Len(l) /\ c \in 1 .. Len(l) /\ n <= c
    BY <1>3
  <2>3. p \in Packet
    BY <1>5, <2>2
  <2>4. l[n] <= l[c] /\ l[c] \in read
    BY <2>1, <2>2, Zenon DEF Ascending, Filed
  <2> QED
    BY <1>4, <1>5, <2>3, <2>4, Zenon
<1>7. ts[p] <= ts[q] /\ ts[p] \in Int /\ ts[q] \in Int
  BY <1>2, <1>6, BoundAssumption DEF AgeInv, StampInv
<1>8. clock - ts[q] >= FlowTimeout
  BY <1>1, <1>4 DEF IsTimeout
<1> QED
  BY <1>2, <1>7, <1>8, BoundAssumption

(* For any keys, tasks, packets and options: if the MakeFlow tasks of a    *)
(* sink do not overlap and no append to the capture queue is late,         *)
(* cleanUnwantedFlowTask discards no packet that is younger than           *)
(* flowTimeout, although _isTimeout looks at one packet of the list only.  *)
(* Young packets are lost for these two reasons and no other.              *)
THEOREM YoungKeptInOrder == Spec /\ []NoOverlap /\ []ReadInOrder => YoungNeverExpired
<1>1. Inv /\ AgeInv /\ ReadInOrder /\ NoOverlap /\ NoOverlap' /\ [Next]_vars => AgeInv'
  BY NextStamp, NextOrder DEF AgeInv
<1>2. Inv /\ AgeInv /\ [Next]_vars
        => [\A p \in expired' \ expired : clock - ts[p] >= FlowTimeout]_vars
  <2> SUFFICES ASSUME Inv, AgeInv, [Next]_vars, NEW p \in expired' \ expired
               PROVE  clock - ts[p] >= FlowTimeout
    OBVIOUS
  <2>1. CASE CleanRound
    <3> DEFINE ready == {k \in present : IsFlowReady(table[k])}
               late == {k \in present \ ready : IsTimeout(table[k])}
    <3>1. CleanMayRun /\ expired' = expired \cup UNION {ToSet(table[k]) : k \in late}
      BY <2>1 DEF CleanRound
    <3>2. PICK k \in late : p \in ToSet(table[k])
      BY <3>1
    <3>3. k \in present /\ k \in Key /\ IsTimeout(table[k])
      BY DEF Inv, TypeOK
    <3>4. table[k] # <<>>
      BY <3>1, <3>3, NoEmptyWhenFree DEF NoEmptyEntry, CleanMayRun
    <3> QED
      BY <3>2, <3>3, <3>4, OldAllOver
  <2>2. expired' # expired => CleanRound
    BY DEF Next, Tick, Capture, StartTask, MakeFlow, Parse, MergeLock, FlushReady, AppendPacket,
           MergeUnlock, tableVars, vars
  <2> QED
    BY <2>1, <2>2
<1> QED
  BY Invariance, InitAge, <1>1, <1>2, PTL DEF Spec, YoungNeverExpired

=============================================================================
