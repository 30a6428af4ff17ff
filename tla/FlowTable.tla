------------------------------ MODULE FlowTable ------------------------------
(***************************************************************************)
(* KafkaSink::mFlowTable: the tasks that run MakeFlow parse a batch of raw *)
(* packets and merge it into the table, packet by packet, under            *)
(* mtxAccessToFlowTable; cleanUnwantedFlowTask sweeps the table under the  *)
(* same mutex.  Both pass complete flows to the encoding queue (module     *)
(* DoubleBufferQueue), here the set flows.                                 *)
(*                                                                         *)
(* Packets are numbered in capture order.  Two things put them out of      *)
(* order: a batch is any part of the capture queue (module Handoff says    *)
(* what that queue promises; an append that comes late is left to a later  *)
(* batch), and the batches are merged by asynchronous tasks.               *)
(***************************************************************************)
EXTENDS Integers, Sequences, FiniteSets, SequencesExt

CONSTANTS
  Key,          \* flow ids (addresses, ports and protocol of a packet)
  NoKey,        \* the packet is not IPv4 TCP/UDP: present() is false
  Task,         \* MakeFlow tasks that may be under way together
  NoOne,        \* mtxAccessToFlowTable is free
  MinPackets,   \* opt.min_packets
  MaxPackets,   \* opt.max_packets
  FlowTimeout,  \* opt.flowTimeout, in seconds
  NumPackets,   \* bound on the captured packets
  MaxTime       \* bound on the clock

(* -L 0 is accepted by ParseOptions but is outside the model: the first    *)
(* packet of a flow would make hd_flow read _data[0] of an empty list.     *)
ASSUME MinPacketsAssumption == MinPackets \in Nat \ {0}
ASSUME MaxPacketsAssumption == MaxPackets \in Nat
ASSUME KeyAssumption == NoKey \notin Key
ASSUME TaskAssumption == NoOne \notin Task
ASSUME BoundAssumption == NumPackets \in Nat /\ MaxTime \in Nat /\ FlowTimeout \in Nat

Packet == 1 .. NumPackets

VARIABLES
  clock,     \* wall clock, in seconds
  captured,  \* packets captured so far
  ts,        \* mTsSec: the second each packet was captured in
  read,      \* packets the consumers have read from the capture queue
  mKey,      \* flow id of each parsed packet
  taskPc,    \* per task: "free", "parse", "lock", "merge" or "append"
  todo,      \* per task: packets of its batch still to be merged, in capture order
  parsed,    \* per task: the packet being merged, 0 if none
  mtx,       \* holder of mtxAccessToFlowTable
  present,   \* keys that have an entry in mFlowTable
  table,     \* the packet list of each entry
  flows,     \* flows enqueued for encoding
  expired,   \* packets discarded with a flow that timed out
  unparsed   \* packets discarded by parse_raw_packets

captureVars == <<clock, captured, ts, read>>
taskVars == <<taskPc, todo, parsed, mKey>>
tableVars == <<present, table, flows, expired>>
vars == <<captureVars, taskVars, mtx, tableVars, unparsed>>

Flow == [flowId : Key, list : Seq(Packet)]

TypeOK ==
  /\ clock \in 0 .. MaxTime
  /\ captured \in 0 .. NumPackets
  /\ read \in SUBSET (1 .. captured)
  /\ ts \in [Packet -> 0 .. MaxTime]
  /\ mKey \in [Packet -> Key \cup {NoKey}]
  /\ taskPc \in [Task -> {"free", "parse", "lock", "merge", "append"}]
  /\ todo \in [Task -> SUBSET Packet]
  /\ parsed \in [Task -> Packet \cup {0}]
  /\ mtx \in Task \cup {NoOne}
  /\ present \in SUBSET Key
  /\ table \in [Key -> Seq(Packet)]
  /\ flows \in SUBSET Flow
  /\ expired \in SUBSET Packet
  /\ unparsed \in SUBSET Packet

Init ==
  /\ clock = 0
  /\ captured = 0
  /\ read = {}
  /\ ts = [p \in Packet |-> 0]
  /\ mKey = [p \in Packet |-> NoKey]
  /\ taskPc = [t \in Task |-> "free"]
  /\ todo = [t \in Task |-> {}]
  /\ parsed = [t \in Task |-> 0]
  /\ mtx = NoOne
  /\ present = {}
  /\ table = [k \in Key |-> <<>>]
  /\ flows = {}
  /\ expired = {}
  /\ unparsed = {}

-----------------------------------------------------------------------------
(* Environment *)

Tick ==
  /\ clock < MaxTime
  /\ clock' = clock + 1
  /\ UNCHANGED <<captured, ts, read, taskVars, mtx, tableVars, unparsed>>

(* liveHandler: the packet header, with its time stamp, is copied.  The    *)
(* bound on the clock leaves every packet time to expire.                  *)
Capture ==
  /\ captured < NumPackets
  /\ clock + FlowTimeout <= MaxTime
  /\ captured' = captured + 1
  /\ ts' = [ts EXCEPT ![captured + 1] = clock]
  /\ UNCHANGED <<clock, read, taskVars, mtx, tableVars, unparsed>>

(* consumer_job: what a read of the capture queue gives is the batch of a  *)
(* new task; an empty batch is skipped.                                    *)
Queued == (1 .. captured) \ read

StartTask(t) ==
  /\ taskPc[t] = "free"
  /\ \E batch \in SUBSET Queued :
       /\ batch # {}
       /\ todo' = [todo EXCEPT ![t] = batch]
       /\ read' = read \cup batch
  /\ taskPc' = [taskPc EXCEPT ![t] = "parse"]
  /\ UNCHANGED <<parsed, clock, captured, ts, mKey, mtx, tableVars, unparsed>>

-----------------------------------------------------------------------------
(* MakeFlow *)

(* parse_raw_packets: gives each packet its key, drops what is not present.*)
(* raw_packet holds a string_view into the buffer of pcap, which may have  *)
(* been reused by now, so any key may be read.                             *)
Parse(t) ==
  /\ taskPc[t] = "parse"
  /\ \E key \in [Packet -> Key \cup {NoKey}] :
       /\ \A p \in Packet : p \notin todo[t] => key[p] = mKey[p]
       /\ mKey' = key
       /\ todo' = [todo EXCEPT ![t] = {p \in @ : key[p] # NoKey}]
       /\ unparsed' = unparsed \cup {p \in todo[t] : key[p] = NoKey}
  /\ taskPc' = [taskPc EXCEPT ![t] = "lock"]
  /\ UNCHANGED <<parsed, captureVars, mtx, tableVars>>

MergeLock(t) ==
  /\ taskPc[t] = "lock"
  /\ mtx = NoOne
  /\ mtx' = t
  /\ taskPc' = [taskPc EXCEPT ![t] = "merge"]
  /\ UNCHANGED <<parsed, captureVars, todo, mKey, tableVars, unparsed>>

(* util::IsFlowReady and _checkLength *)
IsFlowReadyLate(list) == Len(list) > MinPackets
IsFlowReadyTooLate(list) == Len(list) > MaxPackets
IsFlowReady(list) == Len(list) >= MinPackets

(* hd_flow{key, list}: the list is moved into the flow *)
MakeHdFlowUnkeyed(k, list) == [flowId |-> NoKey, list |-> list]
MakeHdFlow(k, list) == [flowId |-> k, list |-> list]

(* The packets of a batch are merged in capture order. *)
FirstOf(p, S) == \A q \in S : p <= q

(* The list of the table after data.swap(existing) *)
FlushedByCopy(list) == list
Flushed(list) == <<>>

(* mFlowTable[key] creates the entry; a complete list is swapped out of it *)
(* and enqueued, which leaves the entry empty until AppendPacket.          *)
FlushReady(t) ==
  /\ taskPc[t] = "merge"
  /\ \E p \in todo[t] :
       /\ FirstOf(p, todo[t])
       /\ parsed' = [parsed EXCEPT ![t] = p]
       /\ present' = present \cup {mKey[p]}
       /\ IF IsFlowReady(table[mKey[p]])
            THEN /\ flows' = flows \cup {MakeHdFlow(mKey[p], table[mKey[p]])}
                 /\ table' = [table EXCEPT ![mKey[p]] = Flushed(@)]
            ELSE UNCHANGED <<flows, table>>
  /\ taskPc' = [taskPc EXCEPT ![t] = "append"]
  /\ UNCHANGED <<captureVars, todo, mKey, mtx, expired, unparsed>>

(* existing.emplace_back(_parsed) *)
Appended(list, p) == Append(list, p)

AppendPacket(t) ==
  /\ taskPc[t] = "append"
  /\ LET p == parsed[t]
     IN  /\ table' = [table EXCEPT ![mKey[p]] = Appended(@, p)]
         /\ todo' = [todo EXCEPT ![t] = @ \ {p}]
  /\ parsed' = [parsed EXCEPT ![t] = 0]
  /\ taskPc' = [taskPc EXCEPT ![t] = "merge"]
  /\ UNCHANGED <<captureVars, mKey, mtx, present, flows, expired, unparsed>>

(* End of merge_to_existing_flow: the mutex is released, the task ends. *)
MergeUnlock(t) ==
  /\ taskPc[t] = "merge"
  /\ todo[t] = {}
  /\ mtx' = NoOne
  /\ taskPc' = [taskPc EXCEPT ![t] = "free"]
  /\ UNCHANGED <<parsed, captureVars, todo, mKey, tableVars, unparsed>>

-----------------------------------------------------------------------------
(* cleanUnwantedFlowTask *)

(* util::detail::_isTimeout(list): the age of the last packet of the list *)
IsTimeoutNever(list) == FALSE
IsTimeout(list) == clock - ts[Last(list)] >= FlowTimeout

(* std::scoped_lock lock(mtxAccessToFlowTable) *)
CleanUnlocked == TRUE
CleanMayRun == mtx = NoOne

(* One round of the loop: mSleeper.sleep_for ends, the sweep runs under    *)
(* the mutex.  The sleep is relative to the previous round, so the round   *)
(* may fall anywhere between the steps of the tasks.                       *)
CleanRound ==
  /\ CleanMayRun
  /\ LET ready == {k \in present : IsFlowReady(table[k])}
         late == {k \in present \ ready : IsTimeout(table[k])}
     IN  /\ flows' = flows \cup {MakeHdFlow(k, table[k]) : k \in ready}
         /\ expired' = expired \cup UNION {ToSet(table[k]) : k \in late}
         /\ present' = present \ (ready \cup late)
         /\ table' = [k \in Key |-> IF k \in ready \cup late THEN <<>> ELSE table[k]]
  /\ UNCHANGED <<captureVars, taskVars, mtx, unparsed>>

-----------------------------------------------------------------------------

MakeFlow(t) == Parse(t) \/ MergeLock(t) \/ FlushReady(t) \/ AppendPacket(t) \/ MergeUnlock(t)

Next ==
  \/ Tick
  \/ Capture
  \/ CleanRound
  \/ \E t \in Task : StartTask(t) \/ MakeFlow(t)

(* Time passes; tasks and the two threads are scheduled, and a thread that *)
(* waits for a mutex released again and again gets it in the end.          *)
Fairness ==
  /\ WF_vars(Tick)
  /\ WF_vars(\E t \in Task : StartTask(t))
  /\ \A t \in Task : SF_vars(MakeFlow(t))
  /\ SF_vars(CleanRound)

Spec == Init /\ [][Next]_vars /\ Fairness

-----------------------------------------------------------------------------
(* Properties *)

(* Every flow enqueued for encoding has exactly min_packets packets, all   *)
(* of its own key, in whichever order tasks and sweeps interleave: a list  *)
(* never outgrows min_packets, because it is flushed before the append     *)
(* that would exceed it.                                                   *)
FlowExact ==
  \A f \in flows : /\ Len(f.list) = MinPackets
                   /\ \A n \in DOMAIN f.list : mKey[f.list[n]] = f.flowId

(* assert(existing.size() <= opt.max_packets) in merge_to_existing_flow *)
AssertMaxPackets == \A k \in Key : Len(table[k]) <= MaxPackets

(* Whenever the sweep may run every entry of the table holds a packet, so  *)
(* that it never calls back() on an empty list, although the merge creates *)
(* entries and empties lists in passing.                                   *)
NoEmptyEntry == CleanMayRun => \A k \in present : table[k] # <<>>

ListPlaces(tag, owner, list, p) == {<<tag, owner, n>> : n \in {n \in DOMAIN list : list[n] = p}}

QueuePlaces(p) == IF p \in Queued THEN {<<"queue">>} ELSE {}
TaskPlaces(p) == {<<"task", t>> : t \in {t \in Task : p \in todo[t]}}
TablePlaces(p) == UNION {ListPlaces("table", k, table[k], p) : k \in Key}
FlowPlaces(p) == UNION {ListPlaces("flow", f, f.list, p) : f \in flows}
ExpiredPlaces(p) == IF p \in expired THEN {<<"expired">>} ELSE {}
UnparsedPlaces(p) == IF p \in unparsed THEN {<<"unparsed">>} ELSE {}

Places(p) ==
  QueuePlaces(p) \cup TaskPlaces(p) \cup TablePlaces(p) \cup FlowPlaces(p)
    \cup ExpiredPlaces(p) \cup UnparsedPlaces(p)

(* Every captured packet is in exactly one place: still queued, in the     *)
(* batch of one task, in one list of the table, in one enqueued flow, or   *)
(* discarded as unparsable or expired.  No merge or sweep loses a packet   *)
(* or puts it in two flows.                                                *)
PacketAccounted == \A p \in Packet : Cardinality(Places(p)) = IF p <= captured THEN 1 ELSE 0

(* A packet is expired only when it is itself flowTimeout seconds old: the *)
(* sweep deletes flows beyond the timeout (kafka_sink.hpp), and looks at   *)
(* the last packet of the list only.                                       *)
YoungNeverExpired == [][\A p \in expired' \ expired : clock - ts[p] >= FlowTimeout]_vars

Settled(p) == p \in expired \cup unparsed \/ \E f \in flows : p \in ToSet(f.list)

(* No captured packet stays in the table or in a task for ever: it is      *)
(* enqueued with a flow or discarded.                                      *)
EventuallySettled == \A p \in Packet : p <= captured ~> Settled(p)

=============================================================================
