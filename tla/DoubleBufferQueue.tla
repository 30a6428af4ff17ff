-------------------------- MODULE DoubleBufferQueue --------------------------
(***************************************************************************)
(* DoubleBufferQueue<Data, container> of double_buffered_queue.hpp: two    *)
(* containers and an atomic index of the active one.  enqueue() appends to *)
(* the container the index names; read() flips the index and then, under   *)
(* the mutex read_, swaps the container it just deactivated with an empty  *)
(* local one, which it returns.                                            *)
(*                                                                         *)
(* enqueue() takes no lock, so between its load of the index and the end   *)
(* of its append any number of read() steps may happen.  Each step of the  *)
(* code that another thread can observe is an action of its own: the load  *)
(* of the index, the begin and the end of the append, the load and the     *)
(* store of read(), the take and the clear of the swap.                    *)
(*                                                                         *)
(* Calls of enqueue() are serialised by the callers (the capture thread is *)
(* the only one in LiveParser; in KafkaSink they hold                      *)
(* mtxAccessToFlowTable), so at most one is under way: enqPc and enqIdx    *)
(* are its locals.  Items are numbered 1, 2, ... in the order of the calls.*)
(***************************************************************************)
EXTENDS Integers, FiniteSets

CONSTANTS Reader,    \* threads that call read()
          NoReader,  \* read_ is free
          MaxItems   \* bound on the enqueue() calls

ASSUME ReaderAssumption == NoReader \notin Reader
ASSUME MaxItemsAssumption == MaxItems \in Nat

Item == 1 .. MaxItems
Index == {0, 1}

VARIABLES
  current,   \* std::atomic<int> current
  queues,    \* the two containers, as sets of items
  enqPc,     \* the enqueue() under way: "idle", "loaded" or "appending"
  enqIdx,    \* the index it loaded
  sent,      \* number of enqueue() calls so far; the last is the one under way
  readPc,    \* per reader: "idle", "loaded", "flipped", "swapping", "holding"
  readIdx,   \* per reader: currentQueue
  buffer,    \* per reader: the local container
  readLock,  \* holder of read_
  clash,     \* readers whose swap overlapped the append under way
  raced,     \* history: some append and some swap of one container overlapped
  handed,    \* history: the number of the batch an item was returned in, 0 if none
  batches    \* history: number of non-empty batches returned so far

enqVars == <<enqPc, enqIdx, sent>>
readVars == <<readPc, readIdx, buffer, readLock>>
raceVars == <<clash, raced>>
outVars == <<handed, batches>>
vars == <<current, queues, enqVars, readVars, raceVars, outVars>>

TypeOK ==
  /\ current \in Index
  /\ queues \in [Index -> SUBSET Item]
  /\ enqPc \in {"idle", "loaded", "appending"}
  /\ enqIdx \in Index
  /\ sent \in 0 .. MaxItems
  /\ readPc \in [Reader -> {"idle", "loaded", "flipped", "swapping", "holding"}]
  /\ readIdx \in [Reader -> Index]
  /\ buffer \in [Reader -> SUBSET Item]
  /\ readLock \in Reader \cup {NoReader}
  /\ clash \in SUBSET Reader
  /\ raced \in BOOLEAN
  /\ handed \in [Item -> Nat]
  /\ batches \in Nat

Init ==
  /\ current = 0
  /\ queues = [i \in Index |-> {}]
  /\ enqPc = "idle"
  /\ enqIdx = 0
  /\ sent = 0
  /\ readPc = [r \in Reader |-> "idle"]
  /\ readIdx = [r \in Reader |-> 0]
  /\ buffer = [r \in Reader |-> {}]
  /\ readLock = NoReader
  /\ clash = {}
  /\ raced = FALSE
  /\ handed = [i \in Item |-> 0]
  /\ batches = 0

-----------------------------------------------------------------------------
(* enqueue *)

(* queues[current.load()]: the index is loaded once and used afterwards. *)
EnqueueLoad ==
  /\ enqPc = "idle"
  /\ sent < MaxItems
  /\ sent' = sent + 1
  /\ enqIdx' = current
  /\ enqPc' = "loaded"
  /\ UNCHANGED <<current, queues, readVars, raceVars, outVars>>

(* Readers in the middle of swapping container i. *)
Swapping(i) == {r \in Reader : readPc[r] = "swapping" /\ readIdx[r] = i}

AppendBegin ==
  /\ enqPc = "loaded"
  /\ enqPc' = "appending"
  /\ clash' = Swapping(enqIdx)
  /\ raced' = (raced \/ Swapping(enqIdx) # {})
  /\ UNCHANGED <<current, queues, enqIdx, sent, readVars, outVars>>

(* emplace_back or enqueue that no swap of the container overlapped. *)
AppendEnd ==
  /\ enqPc = "appending"
  /\ clash = {}
  /\ queues' = [queues EXCEPT ![enqIdx] = @ \cup {sent}]
  /\ enqPc' = "idle"
  /\ UNCHANGED <<current, enqIdx, sent, readVars, raceVars, outVars>>

(* The append and a swap of the same container overlapped: a data race on  *)
(* the begin, end and capacity of the vector, or on the producer list of   *)
(* the ConcurrentQueue.  Whatever the container and the overlapping local  *)
(* buffers held may end up in the container, in such a buffer, in both or  *)
(* in neither.                                                             *)
AppendRaced ==
  /\ enqPc = "appending"
  /\ clash # {}
  /\ LET holders == {r \in clash : readPc[r] \in {"swapping", "holding"}}
         torn == {sent} \cup queues[enqIdx] \cup UNION {buffer[r] : r \in holders}
     IN  \E left \in SUBSET torn, taken \in [holders -> SUBSET torn] :
           /\ queues' = [queues EXCEPT ![enqIdx] = left]
           /\ buffer' = [r \in Reader |-> IF r \in holders THEN taken[r] ELSE buffer[r]]
  /\ enqPc' = "idle"
  /\ clash' = {}
  /\ UNCHANGED <<current, enqIdx, sent, readPc, readIdx, readLock, raced, outVars>>

-----------------------------------------------------------------------------
(* read *)

ReadLoad(r) ==
  /\ readPc[r] = "idle"
  /\ readIdx' = [readIdx EXCEPT ![r] = current]
  /\ readPc' = [readPc EXCEPT ![r] = "loaded"]
  /\ UNCHANGED <<current, queues, enqVars, buffer, readLock, raceVars, outVars>>

(* (currentQueue + 1) & 0x1 *)
NextQueueStuck(i) == 1
NextQueueUnmasked(i) == i + 1
NextQueue(i) == (i + 1) % 2

ReadFlip(r) ==
  /\ readPc[r] = "loaded"
  /\ current' = NextQueue(readIdx[r])
  /\ readPc' = [readPc EXCEPT ![r] = "flipped"]
  /\ UNCHANGED <<queues, enqVars, readIdx, buffer, readLock, raceVars, outVars>>

(* std::scoped_lock read_lock(read_) *)
MayLockUnguarded == TRUE
MayLock == readLock = NoReader

(* First half of buffer.swap(queues[currentQueue]). *)
SwapTake(r) ==
  /\ readPc[r] = "flipped"
  /\ MayLock
  /\ readLock' = r
  /\ buffer' = [buffer EXCEPT ![r] = queues[readIdx[r]]]
  /\ readPc' = [readPc EXCEPT ![r] = "swapping"]
  /\ IF enqPc = "appending" /\ enqIdx = readIdx[r]
       THEN clash' = clash \cup {r} /\ raced' = TRUE
       ELSE UNCHANGED raceVars
  /\ UNCHANGED <<current, queues, enqVars, readIdx, outVars>>

(* Second half: the container gets the empty local; read_ is released. *)
SwapClear(r) ==
  /\ readPc[r] = "swapping"
  /\ queues' = [queues EXCEPT ![readIdx[r]] = {}]
  /\ readLock' = NoReader
  /\ readPc' = [readPc EXCEPT ![r] = "holding"]
  /\ UNCHANGED <<current, enqVars, readIdx, buffer, raceVars, outVars>>

(* make_shared<container>(std::move(buffer)); an empty batch is discarded  *)
(* by both callers.                                                        *)
ReadReturn(r) ==
  /\ readPc[r] = "holding"
  /\ IF buffer[r] = {}
       THEN UNCHANGED outVars
       ELSE /\ batches' = batches + 1
            /\ handed' = [i \in Item |-> IF i \in buffer[r] THEN batches + 1 ELSE handed[i]]
  /\ buffer' = [buffer EXCEPT ![r] = {}]
  /\ readPc' = [readPc EXCEPT ![r] = "idle"]
  /\ UNCHANGED <<current, queues, enqVars, readIdx, readLock, raceVars>>

Enqueue == EnqueueLoad \/ AppendBegin \/ AppendEnd \/ AppendRaced
Read(r) == ReadLoad(r) \/ ReadFlip(r) \/ SwapTake(r) \/ SwapClear(r) \/ ReadReturn(r)

Next == Enqueue \/ \E r \in Reader : Read(r)

(* A thread inside enqueue() is scheduled, and every reader is a loop that *)
(* calls read() again and again.                                           *)
Fairness ==
  /\ WF_vars(AppendBegin \/ AppendEnd \/ AppendRaced)
  /\ \A r \in Reader : WF_vars(Read(r))

Spec == Init /\ [][Next]_vars /\ Fairness

-----------------------------------------------------------------------------
(* Properties *)

InFlight(i) == enqPc # "idle" /\ i = sent

(* What container c holds; while a swap is half done its items are counted *)
(* in the local buffer of the reader.                                      *)
Held(c) == IF Swapping(c) = {} THEN queues[c] ELSE {}

Places(i) == {<<"call", 0>> : x \in {TRUE} \cap {InFlight(i)}}
               \cup {<<"queue", c>> : c \in {c \in Index : i \in Held(c)}}
               \cup {<<"buffer", r>> : r \in {r \in Reader : i \in buffer[r]}}
               \cup {<<"handed", 0>> : x \in {TRUE} \cap {handed[i] # 0}}

(* Unless an append and a swap have raced, every item passed to enqueue()  *)
(* is in exactly one place: in the call under way, in one of the two       *)
(* containers, in the local buffer of one read(), or returned to a caller. *)
(* No interleaving of readers that load the same index, flip it back under *)
(* each other or find a late append in a deactivated container loses an    *)
(* item or returns it twice.                                               *)
ExactlyOnce ==
  ~raced => \A i \in Item : Cardinality(Places(i)) = IF i <= sent THEN 1 ELSE 0

(* With a single reader and no race, an item whose append landed in the    *)
(* container read() had just deactivated is overtaken by the items of at   *)
(* most one later batch: read() flips every time, so the late item is in   *)
(* the next non-empty batch.                                               *)
BoundedReorder ==
  ~raced => \A i, j \in Item :
              i < j /\ handed[j] # 0
                => \/ handed[i] # 0 /\ handed[i] <= handed[j] + 1
                   \/ handed[i] = 0 /\ batches = handed[j]

(* Every item that reached a container is eventually returned by a read(), *)
(* also one left behind in the inactive container, unless a race occurred. *)
EventuallyHanded ==
  \A i \in Item : i \in queues[0] \cup queues[1] ~> handed[i] # 0 \/ raced

H == INSTANCE Handoff WITH broken <- raced

(* Until a race, the queue implements the batch hand-off of module         *)
(* Handoff: whatever the readers' interleaving, each batch consists of     *)
(* items that were passed to enqueue() and returned by no earlier read().  *)
ImplementsHandoff == H!Spec

(* The container swapped by read() is not in use by anyone else while it   *)
(* is being swapped (concurrentqueue.h, on swap and move).                 *)
NobodyUsesSwapped ==
  \A r \in Reader : readPc[r] = "swapping" => ~(enqPc = "appending" /\ enqIdx = readIdx[r])

=============================================================================
