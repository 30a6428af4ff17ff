----------------------- MODULE DoubleBufferQueueProofs -----------------------
(***************************************************************************)
(* Proofs about DoubleBufferQueue, for any number of readers and items:    *)
(* type correctness, ExactlyOnce, the implementation of Handoff, for one   *)
(* reader the order of the batches, and safety without the proviso of a    *)
(* race when containers are not used while they are swapped.               *)
(*                                                                         *)
(* ExactlyOnce is not inductive: Inv adds that the mutex is held by the    *)
(* one reader that is swapping, that a swap and an append of the same      *)
(* container are never under way together unless a race was recorded, and  *)
(* that a reader outside its swap has an empty buffer.                     *)
(***************************************************************************)
EXTENDS DoubleBufferQueue, TLAPS, FiniteSetTheorems

TypeInv == TypeOK /\ (enqPc # "idle" => sent \in Item)

(* Whoever swaps holds read_. *)
LockInv == \A r \in Reader : readPc[r] = "swapping" => readLock = r

BufferInv ==
  \A r \in Reader : readPc[r] \notin {"swapping", "holding"} => buffer[r] = {}

RaceInv ==
  /\ clash # {} => raced
  /\ ~raced /\ enqPc = "appending" => Swapping(enqIdx) = {}

(* No item is in two places. *)
Disjoint ==
  \A i \in Item :
    /\ InFlight(i) => /\ handed[i] = 0
                      /\ \A c \in Index : i \notin Held(c)
                      /\ \A r \in Reader : i \notin buffer[r]
    /\ handed[i] # 0 => /\ \A c \in Index : i \notin Held(c)
                        /\ \A r \in Reader : i \notin buffer[r]
    /\ \A c, d \in Index : i \in Held(c) /\ i \in Held(d) => c = d
    /\ \A r \in Reader, c \in Index : i \in buffer[r] => i \notin Held(c)
    /\ \A r, q \in Reader : i \in buffer[r] /\ i \in buffer[q] => r = q

(* Every item passed to enqueue() is in some place, no other is. *)
Complete ==
  \A i \in Item :
    i <= sent <=> \/ InFlight(i)
                  \/ handed[i] # 0
                  \/ \E c \in Index : i \in Held(c)
                  \/ \E r \in Reader : i \in buffer[r]

Inv ==
  /\ TypeInv
  /\ LockInv
  /\ BufferInv
  /\ RaceInv
  /\ ~raced => Disjoint /\ Complete

-----------------------------------------------------------------------------
(* Type correctness *)

(* The initial state is well typed. *)
LEMMA InitType == Init => TypeInv
<1> SUFFICES ASSUME Init PROVE TypeInv
  OBVIOUS
<1>1. raced \in BOOLEAN
  BY DEF Init
<1>2. handed \in [Item -> Nat] /\ batches \in Nat /\ sent \in 0 .. MaxItems
  BY MaxItemsAssumption DEF Init
<1>3. /\ readPc \in [Reader -> {"idle", "loaded", "flipped", "swapping", "holding"}]
      /\ readIdx \in [Reader -> Index]
      /\ buffer \in [Reader -> SUBSET Item]
  BY DEF Init, Index
<1>4. current \in Index /\ queues \in [Index -> SUBSET Item] /\ enqIdx \in Index
  BY DEF Init, Index
<1> QED
  BY <1>1, <1>2, <1>3, <1>4 DEF Init, TypeInv, TypeOK

(* Every step of enqueue() and read() keeps the types. *)
LEMMA NextType == TypeInv /\ [Next]_vars => TypeInv'
<1> SUFFICES ASSUME TypeInv, [Next]_vars PROVE TypeInv'
  OBVIOUS
<1> USE MaxItemsAssumption DEF TypeInv, TypeOK, Item, Index
<1>1. CASE EnqueueLoad
  BY <1>1 DEF EnqueueLoad, readVars, raceVars, outVars
<1>2. CASE AppendBegin
  BY <1>2 DEF AppendBegin, readVars, outVars, Swapping
<1>3. CASE AppendEnd
  BY <1>3 DEF AppendEnd, readVars, raceVars, outVars
<1>4. CASE AppendRaced
  <2> DEFINE holders == {r \in clash : readPc[r] \in {"swapping", "holding"}}
             torn == {sent} \cup queues[enqIdx] \cup UNION {buffer[r] : r \in holders}
  <2>1. PICK left \in SUBSET torn, taken \in [holders -> SUBSET torn] :
          /\ queues' = [queues EXCEPT ![enqIdx] = left]
          /\ buffer' = [r \in Reader |-> IF r \in holders THEN taken[r] ELSE buffer[r]]
    BY <1>4 DEF AppendRaced
  <2>2. torn \subseteq 1 .. MaxItems
    BY <1>4 DEF AppendRaced
  <2>3. left \in SUBSET (1 .. MaxItems) /\ \A r \in holders : taken[r] \in SUBSET (1 .. MaxItems)
    BY <2>1, <2>2
  <2>4. queues' \in [{0, 1} -> SUBSET (1 .. MaxItems)]
    BY <2>1, <2>3
  <2>5. buffer' \in [Reader -> SUBSET (1 .. MaxItems)]
    BY <2>1, <2>3
  <2> QED
    BY <1>4, <2>4, <2>5 DEF AppendRaced, outVars
<1>5. ASSUME NEW r \in Reader, Read(r) PROVE TypeInv'
  <2>1. CASE ReadLoad(r)
    BY <2>1 DEF ReadLoad, enqVars, raceVars, outVars
  <2>2. CASE ReadFlip(r)
    <3>1. NextQueue(readIdx[r]) \in {0, 1}
      BY DEF NextQueue
    <3> QED
      BY <2>2, <3>1 DEF ReadFlip, enqVars, raceVars, outVars
  <2>3. CASE SwapTake(r)
    BY <2>3 DEF SwapTake, enqVars, raceVars, outVars
  <2>4. CASE SwapClear(r)
    BY <2>4 DEF SwapClear, enqVars, raceVars, outVars
  <2>5. CASE ReadReturn(r)
    <3>1. handed' \in [Item -> Nat] /\ batches' \in Nat
      <4>1. CASE buffer[r] = {}
        BY <2>5, <4>1 DEF ReadReturn, outVars
      <4>2. CASE buffer[r] # {}
        <5>1. /\ batches' = batches + 1
              /\ handed' = [i \in Item |-> IF i \in buffer[r] THEN batches + 1 ELSE handed[i]]
          BY <2>5, <4>2 DEF ReadReturn
        <5>2. batches \in Nat /\ handed \in [Item -> Nat]
          OBVIOUS
        <5> HIDE DEF TypeInv, Item
        <5>3. \A i \in Item : (IF i \in buffer[r] THEN batches + 1 ELSE handed[i]) \in Nat
          BY <5>2
        <5> QED
          BY <5>1, <5>2, <5>3
      <4> QED
        BY <4>1, <4>2
    <3> QED
      BY <2>5, <3>1 DEF ReadReturn, enqVars, raceVars
  <2> QED
    BY <1>5, <2>1, <2>2, <2>3, <2>4, <2>5 DEF Read
<1>6. CASE UNCHANGED vars
  BY <1>6 DEF vars, enqVars, readVars, raceVars, outVars
<1> QED
  BY <1>1, <1>2, <1>3, <1>4, <1>5, <1>6 DEF Next, Enqueue

(* DoubleBufferQueue is type correct for any readers and items. *)
THEOREM TypeCorrect == Spec => []TypeOK
<1>1. TypeInv => TypeOK
  BY DEF TypeInv
<1> QED
  BY InitType, NextType, <1>1, PTL DEF Spec

-----------------------------------------------------------------------------
(* The invariant *)

(* No race is possible before the first step, and no item has been put. *)
LEMMA InitInv == Init => Inv
<1> SUFFICES ASSUME Init PROVE Inv
  OBVIOUS
<1>1. TypeInv
  BY InitType
<1>2. LockInv /\ BufferInv
  BY DEF Init, LockInv, BufferInv
<1>3. RaceInv
  BY DEF Init, RaceInv
<1>4. \A c \in Index : Held(c) = {}
  BY DEF Init, Held
<1>5. \A i \in Item : ~InFlight(i) /\ handed[i] = 0 /\ \A r \in Reader : buffer[r] = {}
  BY DEF Init, InFlight
<1>6. \A i \in Item : ~(i <= sent)
  BY MaxItemsAssumption DEF Init, Item
<1>7. Disjoint
  BY <1>4, <1>5 DEF Disjoint
<1>8. Complete
  BY <1>4, <1>5, <1>6 DEF Complete
<1> QED
  BY <1>1, <1>2, <1>3, <1>7, <1>8 DEF Inv

(* At most one reader swaps: with the mutex free, none does. *)
LEMMA NoneSwaps ==
  ASSUME LockInv, ReaderAssumption, readLock = NoReader
  PROVE  \A c \in Index : Swapping(c) = {}
  BY DEF LockInv, Swapping

(* The mutex, the local buffers and the race flag are kept by every step. *)
LEMMA NextLocks ==
  TypeInv /\ LockInv /\ BufferInv /\ RaceInv /\ [Next]_vars => (LockInv /\ BufferInv /\ RaceInv)'
<1> SUFFICES ASSUME TypeInv, LockInv, BufferInv, RaceInv, [Next]_vars
             PROVE  (LockInv /\ BufferInv /\ RaceInv)'
  OBVIOUS
<1> USE DEF LockInv, BufferInv, RaceInv, TypeInv, TypeOK
<1>1. CASE EnqueueLoad
  BY <1>1 DEF EnqueueLoad, readVars, raceVars
<1>2. CASE AppendBegin
  BY <1>2 DEF AppendBegin, readVars, Swapping
<1>3. CASE AppendEnd
  BY <1>3 DEF AppendEnd, readVars, raceVars
<1>4. CASE AppendRaced
  <2>1. LockInv' /\ RaceInv'
    BY <1>4 DEF AppendRaced
  <2>2. \A r \in Reader : readPc[r] \notin {"swapping", "holding"} => buffer'[r] = buffer[r]
    BY <1>4 DEF AppendRaced
  <2>3. BufferInv'
    BY <1>4, <2>2 DEF AppendRaced
  <2> QED
    BY <2>1, <2>3
<1>5. ASSUME NEW r \in Reader, Read(r) PROVE (LockInv /\ BufferInv /\ RaceInv)'
  <2>1. CASE ReadLoad(r)
    BY <2>1 DEF ReadLoad, enqVars, raceVars, Swapping
  <2>2. CASE ReadFlip(r)
    BY <2>2 DEF ReadFlip, enqVars, raceVars, Swapping
  <2>3. CASE SwapTake(r)
    <3>1. LockInv' /\ BufferInv'
      BY <2>3, ReaderAssumption DEF SwapTake, MayLock
    <3>2. RaceInv'
      BY <2>3 DEF SwapTake, enqVars, raceVars, Swapping
    <3> QED
      BY <3>1, <3>2
  <2>4. CASE SwapClear(r)
    <3>1. LockInv' /\ BufferInv'
      BY <2>4, ReaderAssumption DEF SwapClear
    <3>2. RaceInv'
      BY <2>4 DEF SwapClear, enqVars, raceVars, Swapping
    <3> QED
      BY <3>1, <3>2
  <2>5. CASE ReadReturn(r)
    BY <2>5 DEF ReadReturn, enqVars, raceVars, Swapping
  <2> QED
    BY <1>5, <2>1, <2>2, <2>3, <2>4, <2>5 DEF Read
<1>6. CASE UNCHANGED vars
  BY <1>6 DEF vars, enqVars, readVars, raceVars, Swapping
<1> QED
  BY <1>1, <1>2, <1>3, <1>4, <1>5, <1>6 DEF Next, Enqueue

(* While no race is recorded, every step moves an item from one place to   *)
(* the next and duplicates or loses none.                                  *)
LEMMA NextItems == Inv /\ [Next]_vars /\ ~raced' => (Disjoint /\ Complete)'
<1> SUFFICES ASSUME Inv, [Next]_vars, ~raced' PROVE (Disjoint /\ Complete)'
  OBVIOUS
<1> USE DEF Inv
<1>t. /\ sent \in Nat /\ MaxItems \in Nat /\ sent <= MaxItems
      /\ \A i \in Item : i \in Nat
      /\ handed \in [Item -> Nat] /\ batches \in Nat
      /\ readPc \in [Reader -> {"idle", "loaded", "flipped", "swapping", "holding"}]
      /\ readIdx \in [Reader -> Index]
      /\ buffer \in [Reader -> SUBSET Item] /\ queues \in [Index -> SUBSET Item]
      /\ enqIdx \in Index
  BY MaxItemsAssumption DEF TypeInv, TypeOK, Item
<1>n. ~raced
  <2>1. raced => raced'
    BY DEF Next, Enqueue, Read, EnqueueLoad, AppendBegin, AppendEnd, AppendRaced, ReadLoad,
           ReadFlip, SwapTake, SwapClear, ReadReturn, vars, raceVars
  <2> QED
    BY <2>1
<1>d. Disjoint /\ Complete
  BY <1>n
<1>1. CASE EnqueueLoad
  <2>1. \A c \in Index : Held(c)' = Held(c)
    BY <1>1 DEF EnqueueLoad, readVars, Held, Swapping
  <2>2. \A i \in Item : ~InFlight(i) /\ (InFlight(i)' <=> i = sent + 1)
    BY <1>1 DEF EnqueueLoad, InFlight
  <2>3. sent' = sent + 1 /\ handed' = handed /\ buffer' = buffer
    BY <1>1 DEF EnqueueLoad, readVars, outVars
  <2>4. Disjoint'
    BY <1>t, <1>d, <2>1, <2>2, <2>3 DEF Disjoint, Complete
  <2>5. Complete'
    BY <1>t, <1>d, <2>1, <2>2, <2>3 DEF Complete
  <2> QED
    BY <2>4, <2>5
<1>2. CASE AppendBegin
  <2>1. \A c \in Index : Held(c)' = Held(c)
    BY <1>2 DEF AppendBegin, readVars, Held, Swapping
  <2>2. \A i \in Item : InFlight(i)' <=> InFlight(i)
    BY <1>2 DEF AppendBegin, InFlight
  <2>3. sent' = sent /\ handed' = handed /\ buffer' = buffer
    BY <1>2 DEF AppendBegin, readVars, outVars
  <2> QED
    BY <1>d, <2>1, <2>2, <2>3 DEF Disjoint, Complete
<1>3. CASE AppendEnd
  <2>1. Held(enqIdx)' = Held(enqIdx) \cup {sent}
    <3>1. Swapping(enqIdx) = {} /\ Swapping(enqIdx)' = {}
      BY <1>3, <1>n DEF RaceInv, AppendEnd, readVars, Swapping
    <3>2. queues'[enqIdx] = queues[enqIdx] \cup {sent} /\ enqIdx' = enqIdx
      BY <1>3, <1>t DEF AppendEnd
    <3> QED
      BY <3>1, <3>2 DEF Held
  <2>2. \A c \in Index : c # enqIdx => Held(c)' = Held(c)
    BY <1>3, <1>t DEF AppendEnd, readVars, Held, Swapping
  <2>3. \A i \in Item : ~InFlight(i)' /\ (InFlight(i) <=> i = sent)
    BY <1>3 DEF AppendEnd, InFlight
  <2>4. sent' = sent /\ handed' = handed /\ buffer' = buffer /\ enqIdx' = enqIdx
    BY <1>3 DEF AppendEnd, readVars, outVars
  <2>5. Disjoint'
    BY <1>t, <1>d, <2>1, <2>2, <2>3, <2>4 DEF Disjoint
  <2>6. Complete'
    BY <1>t, <1>d, <2>1, <2>2, <2>3, <2>4 DEF Complete
  <2> QED
    BY <2>5, <2>6
<1>4. CASE AppendRaced
  BY <1>4, <1>n DEF AppendRaced, RaceInv
<1>5. ASSUME NEW r \in Reader, Read(r) PROVE (Disjoint /\ Complete)'
  <2>1. CASE ReadLoad(r) \/ ReadFlip(r)
    <3>1. \A c \in Index : Held(c)' = Held(c)
      BY <2>1, <1>t DEF ReadLoad, ReadFlip, Held, Swapping
    <3>2. \A i \in Item : InFlight(i)' <=> InFlight(i)
      BY <2>1 DEF ReadLoad, ReadFlip, enqVars, InFlight
    <3>3. sent' = sent /\ handed' = handed /\ buffer' = buffer
      BY <2>1 DEF ReadLoad, ReadFlip, enqVars, outVars
    <3> QED
      BY <1>d, <3>1, <3>2, <3>3 DEF Disjoint, Complete
  <2>3. CASE SwapTake(r)
    <3>c. PICK c \in Index : c = readIdx[r]
      BY <1>t
    <3>1. \A d \in Index : Held(d) = queues[d]
      BY <2>3, NoneSwaps, ReaderAssumption DEF SwapTake, MayLock, Held
    <3>2. Held(c)' = {}
      <4>1. r \in Swapping(c)'
        BY <2>3, <1>t, <3>c DEF SwapTake, Swapping
      <4> QED
        BY <4>1 DEF Held
    <3>3. \A d \in Index : d # c => Held(d)' = Held(d)
      <4>1. \A d \in Index : d # c => Swapping(d)' = Swapping(d)
        BY <2>3, <1>t, <3>c DEF SwapTake, Swapping
      <4> QED
        BY <2>3, <4>1 DEF SwapTake, Held
    <3>4. \A i \in Item : InFlight(i)' <=> InFlight(i)
      BY <2>3 DEF SwapTake, enqVars, InFlight
    <3>5. /\ sent' = sent /\ handed' = handed
          /\ buffer[r] = {} /\ buffer'[r] = Held(c)
          /\ \A q \in Reader : q # r => buffer'[q] = buffer[q]
      BY <2>3, <1>t, <3>c, <3>1 DEF SwapTake, BufferInv, enqVars, outVars
    <3>6. Disjoint'
      BY <1>d, <3>2, <3>3, <3>4, <3>5 DEF Disjoint
    <3>7. Complete'
      BY <1>d, <3>2, <3>3, <3>4, <3>5 DEF Complete
    <3> QED
      BY <3>6, <3>7
  <2>4. CASE SwapClear(r)
    <3>1. \A d \in Index : Held(d)' = Held(d)
      <4>1. \A q \in Reader : readPc[q] = "swapping" => q = r
        BY <2>4, ReaderAssumption DEF SwapClear, LockInv
      <4>2. Held(readIdx[r]) = {} /\ Held(readIdx[r])' = {}
        BY <2>4, <1>t DEF SwapClear, Held, Swapping
      <4>3. \A d \in Index : d # readIdx[r] => Held(d)' = Held(d)
        BY <2>4, <4>1, <1>t DEF SwapClear, Held, Swapping
      <4> QED
        BY <4>2, <4>3, <2>4 DEF SwapClear
    <3>2. \A i \in Item : InFlight(i)' <=> InFlight(i)
      BY <2>4 DEF SwapClear, enqVars, InFlight
    <3>3. sent' = sent /\ handed' = handed /\ buffer' = buffer
      BY <2>4 DEF SwapClear, enqVars, outVars
    <3> QED
      BY <1>d, <3>1, <3>2, <3>3 DEF Disjoint, Complete
  <2>5. CASE ReadReturn(r)
    <3>1. \A c \in Index : Held(c)' = Held(c)
      BY <2>5, <1>t DEF ReadReturn, Held, Swapping
    <3>2. \A i \in Item : InFlight(i)' <=> InFlight(i)
      BY <2>5 DEF ReadReturn, enqVars, InFlight
    <3>3. \A i \in Item : handed'[i] # 0 <=> handed[i] # 0 \/ i \in buffer[r]
      BY <2>5, <1>t DEF ReadReturn, outVars
    <3>4. /\ sent' = sent
          /\ buffer'[r] = {}
          /\ \A q \in Reader : q # r => buffer'[q] = buffer[q]
      BY <2>5, <1>t DEF ReadReturn, enqVars
    <3>5. Disjoint'
      BY <1>d, <3>1, <3>2, <3>3, <3>4 DEF Disjoint
    <3>6. Complete'
      BY <1>d, <3>1, <3>2, <3>3, <3>4 DEF Complete
    <3> QED
      BY <3>5, <3>6
  <2> QED
    BY <1>5, <2>1, <2>3, <2>4, <2>5 DEF Read
<1>6. CASE UNCHANGED vars
  <2>1. \A c \in Index : Held(c)' = Held(c)
    BY <1>6 DEF vars, readVars, Held, Swapping
  <2>2. \A i \in Item : InFlight(i)' <=> InFlight(i)
    BY <1>6 DEF vars, enqVars, InFlight
  <2>3. sent' = sent /\ handed' = handed /\ buffer' = buffer
    BY <1>6 DEF vars, enqVars, readVars, outVars
  <2> QED
    BY <1>d, <2>1, <2>2, <2>3 DEF Disjoint, Complete
<1> QED
  BY <1>1, <1>2, <1>3, <1>4, <1>5, <1>6 DEF Next, Enqueue

(* The invariant is inductive. *)
LEMMA NextInv == Inv /\ [Next]_vars => Inv'
  BY NextType, NextLocks, NextItems DEF Inv

(* What the invariant says about the set Places(i): it has one element for *)
(* an item that was put and none for any other.                            *)
LEMMA InvExactlyOnce == Inv => ExactlyOnce
<1> SUFFICES ASSUME Inv, ~raced, NEW i \in Item
             PROVE  Cardinality(Places(i)) = IF i <= sent THEN 1 ELSE 0
  BY DEF ExactlyOnce
<1> DEFINE A == {<<"call", 0>> : x \in {TRUE} \cap {InFlight(i)}}
           B == {<<"queue", c>> : c \in {c \in Index : i \in Held(c)}}
           C == {<<"buffer", r>> : r \in {r \in Reader : i \in buffer[r]}}
           D == {<<"handed", 0>> : x \in {TRUE} \cap {handed[i] # 0}}
<1>1. Places(i) = A \cup B \cup C \cup D
  BY DEF Places
<1>2. Disjoint /\ Complete
  BY DEF Inv
<1>a. /\ InFlight(i) => A = {<<"call", 0>>}
      /\ ~InFlight(i) => A = {}
  BY DEF InFlight
<1>d. /\ handed[i] # 0 => D = {<<"handed", 0>>}
      /\ handed[i] = 0 => D = {}
  OBVIOUS
<1>b. /\ \A c \in Index : i \in Held(c) => B = {<<"queue", c>>}
      /\ (\A c \in Index : i \notin Held(c)) => B = {}
  BY <1>2 DEF Disjoint
<1>c. /\ \A r \in Reader : i \in buffer[r] => C = {<<"buffer", r>>}
      /\ (\A r \in Reader : i \notin buffer[r]) => C = {}
  BY <1>2 DEF Disjoint
<1> HIDE DEF A, B, C, D
<1>3. CASE i <= sent
  <2>1. \E x : Places(i) = {x}
    <3>1. CASE InFlight(i)
      BY <1>1, <1>2, <1>a, <1>b, <1>c, <1>d, <3>1 DEF Disjoint
    <3>2. CASE handed[i] # 0
      BY <1>1, <1>2, <1>a, <1>b, <1>c, <1>d, <3>2 DEF Disjoint
    <3>3. CASE \E c \in Index : i \in Held(c)
      BY <1>1, <1>2, <1>a, <1>b, <1>c, <1>d, <3>3 DEF Disjoint
    <3>4. CASE \E r \in Reader : i \in buffer[r]
      BY <1>1, <1>2, <1>a, <1>b, <1>c, <1>d, <3>4 DEF Disjoint
    <3> QED
      BY <1>2, <1>3, <3>1, <3>2, <3>3, <3>4 DEF Complete
  <2> QED
    BY <1>3, <2>1, FS_Singleton
<1>4. CASE ~(i <= sent)
  <2>1. Places(i) = {}
    BY <1>1, <1>2, <1>a, <1>b, <1>c, <1>d, <1>4 DEF Complete
  <2> QED
    BY <1>4, <2>1, FS_EmptySet
<1> QED
  BY <1>3, <1>4

(* Without a race on a container, no interleaving of enqueue() and any     *)
(* number of concurrent read() calls loses or duplicates an item.          *)
THEOREM NoLossNoDuplicate == Spec => []ExactlyOnce
  BY InitInv, NextInv, InvExactlyOnce, PTL DEF Spec

-----------------------------------------------------------------------------
(* The queue as its containers demand to be used *)

(* Every item passed to enqueue() is in exactly one place, race or not. *)
ItemsOnce == \A i \in Item : Cardinality(Places(i)) = IF i <= sent THEN 1 ELSE 0

(* A race is recorded only in a step after which somebody uses a container *)
(* that is being swapped.                                                  *)
LEMMA RaceIsUse ==
  TypeInv /\ ~raced /\ NobodyUsesSwapped' /\ [Next]_vars => ~raced'
<1> SUFFICES ASSUME TypeInv, ~raced, NobodyUsesSwapped', [Next]_vars PROVE ~raced'
  OBVIOUS
<1>1. CASE EnqueueLoad \/ AppendEnd \/ AppendRaced \/ UNCHANGED vars
  BY <1>1 DEF EnqueueLoad, AppendEnd, AppendRaced, vars, raceVars
<1>2. CASE AppendBegin
  <2>1. enqPc' = "appending" /\ enqIdx' = enqIdx /\ readPc' = readPc /\ readIdx' = readIdx
    BY <1>2 DEF AppendBegin, readVars
  <2>2. Swapping(enqIdx) = {}
    BY <2>1 DEF NobodyUsesSwapped, Swapping
  <2> QED
    BY <1>2, <2>2 DEF AppendBegin
<1>3. ASSUME NEW r \in Reader, SwapTake(r) PROVE ~raced'
  <2>1. /\ readPc'[r] = "swapping" /\ readIdx' = readIdx /\ enqPc' = enqPc /\ enqIdx' = enqIdx
    BY <1>3 DEF SwapTake, enqVars, TypeInv, TypeOK
  <2>2. ~(enqPc = "appending" /\ enqIdx = readIdx[r])
    BY <2>1 DEF NobodyUsesSwapped
  <2> QED
    BY <1>3, <2>2 DEF SwapTake, raceVars
<1>4. ASSUME NEW r \in Reader, ReadLoad(r) \/ ReadFlip(r) \/ SwapClear(r) \/ ReadReturn(r)
      PROVE  ~raced'
  BY <1>4 DEF ReadLoad, ReadFlip, SwapClear, ReadReturn, raceVars
<1> QED
  BY <1>1, <1>2, <1>3, <1>4 DEF Next, Enqueue, Read

(* If, as concurrentqueue.h demands, nobody uses a container while read()  *)
(* swaps it, no item is ever lost or returned twice, for any number of     *)
(* readers: the unguarded load of the index alone does no harm.            *)
THEOREM SafeIfNobodyUses == Spec /\ []NobodyUsesSwapped => []ItemsOnce
<1>1. Init => ~raced
  BY DEF Init
<1>2. Inv => TypeInv
  BY DEF Inv
<1>3. Inv /\ ~raced => ItemsOnce
  BY InvExactlyOnce DEF ExactlyOnce, ItemsOnce
<1> QED
  BY InitInv, NextInv, RaceIsUse, <1>1, <1>2, <1>3, PTL DEF Spec

-----------------------------------------------------------------------------
(* Implementation of the hand-off *)

(* The initial state of the queue is the initial state of the hand-off. *)
LEMMA HandoffInit == Init => H!Init
  BY DEF Init, H!Init, Item

(* Every step of the queue is a step of the hand-off or leaves it alone. *)
LEMMA HandoffNext == Inv /\ [Next]_vars => [H!Next]_H!vars
<1> SUFFICES ASSUME Inv, [Next]_vars PROVE [H!Next]_H!vars
  OBVIOUS
<1> USE DEF H!vars
<1>1. CASE EnqueueLoad
  BY <1>1 DEF EnqueueLoad, raceVars, outVars, H!Next, H!Put
<1>2. CASE AppendBegin
  <2>1. CASE Swapping(enqIdx) = {}
    BY <1>2, <2>1 DEF AppendBegin, outVars, Inv, TypeInv, TypeOK
  <2>2. CASE Swapping(enqIdx) # {}
    BY <1>2, <2>2 DEF AppendBegin, H!Next
  <2> QED
    BY <2>1, <2>2
<1>3. CASE AppendEnd
  BY <1>3 DEF AppendEnd, raceVars, outVars
<1>4. CASE AppendRaced
  BY <1>4 DEF AppendRaced, outVars
<1>5. ASSUME NEW r \in Reader, Read(r) PROVE [H!Next]_H!vars
  <2>1. CASE ReadLoad(r) \/ ReadFlip(r) \/ SwapClear(r)
    BY <2>1 DEF ReadLoad, ReadFlip, SwapClear, enqVars, raceVars, outVars
  <2>2. CASE SwapTake(r)
    <3>1. CASE enqPc = "appending" /\ enqIdx = readIdx[r]
      BY <2>2, <3>1 DEF SwapTake, H!Next
    <3>2. CASE ~(enqPc = "appending" /\ enqIdx = readIdx[r])
      BY <2>2, <3>2 DEF SwapTake, enqVars, raceVars, outVars
    <3> QED
      BY <3>1, <3>2
  <2>3. CASE ReadReturn(r)
    <3>1. CASE raced
      BY <2>3, <3>1 DEF ReadReturn, raceVars, H!Next
    <3>2. CASE buffer[r] = {}
      BY <2>3, <3>2 DEF ReadReturn, enqVars, raceVars, outVars
    <3>3. CASE ~raced /\ buffer[r] # {}
      <4>1. buffer[r] \in SUBSET H!Pending
        BY <3>3, MaxItemsAssumption DEF Inv, Disjoint, Complete, TypeInv, TypeOK, Item, H!Pending
      <4>2. H!Take(buffer[r])
        BY <2>3, <3>3 DEF ReadReturn, enqVars, raceVars, H!Take, Item
      <4> QED
        BY <4>1, <4>2 DEF H!Next
    <3> QED
      BY <3>1, <3>2, <3>3
  <2> QED
    BY <1>5, <2>1, <2>2, <2>3 DEF Read
<1>6. CASE UNCHANGED vars
  BY <1>6 DEF vars, enqVars, raceVars, outVars
<1> QED
  BY <1>1, <1>2, <1>3, <1>4, <1>5, <1>6 DEF Next, Enqueue

(* DoubleBufferQueue implements Handoff, for any readers and items. *)
THEOREM RefinesHandoff == Spec => ImplementsHandoff
  BY InitInv, NextInv, HandoffInit, HandoffNext, PTL DEF Spec, ImplementsHandoff, H!Spec

-----------------------------------------------------------------------------
(* The order of the batches, with one reader *)

(* read() flips the index it has loaded, and nobody else does. *)
Alternates ==
  \A r \in Reader :
    /\ readPc[r] = "loaded" => current = readIdx[r]
    /\ readPc[r] \in {"flipped", "swapping", "holding"} => current # readIdx[r]

(* What the read() under way, or else the next one, returns: items may     *)
(* still be added to it before the swap.                                   *)
NextBatch(r) ==
  CASE readPc[r] \in {"swapping", "holding"} -> buffer[r]
    [] readPc[r] = "flipped" -> queues[readIdx[r]]
    [] OTHER -> queues[current]

(* An item that was overtaken was overtaken by the last batch only, and is *)
(* in the next.                                                            *)
OvertakenOnce ==
  \A r \in Reader : \A i, j \in Item :
    i < j /\ handed[i] = 0 /\ handed[j] # 0 => handed[j] = batches /\ i \in NextBatch(r)

(* What is appended to a container after its swap is younger than what the *)
(* swap took.                                                              *)
LateIsYounger ==
  \A r \in Reader : readPc[r] = "holding" =>
    \A i \in queues[readIdx[r]], j \in buffer[r] : j < i

HandedBefore == \A i \in Item : handed[i] <= batches

OrderInv ==
  Alternates /\ (~raced => OvertakenOnce /\ LateIsYounger /\ HandedBefore /\ BoundedReorder)

(* Nothing has been handed out before the first read(). *)
LEMMA InitOrder == Init => OrderInv
<1> SUFFICES ASSUME Init PROVE OrderInv
  OBVIOUS
<1>1. Alternates /\ LateIsYounger
  BY DEF Init, Alternates, LateIsYounger
<1>2. \A i \in Item : handed[i] = 0
  BY DEF Init
<1>3. OvertakenOnce /\ HandedBefore /\ BoundedReorder
  BY <1>2 DEF Init, OvertakenOnce, HandedBefore, BoundedReorder
<1> QED
  BY <1>1, <1>3 DEF OrderInv

(* With one reader the index alternates. *)
LEMMA NextAlternates ==
  ASSUME NEW r, Reader = {r}, TypeInv, Alternates, [Next]_vars
  PROVE  Alternates'
<1> USE DEF Alternates, TypeInv, TypeOK
<1>1. CASE Enqueue
  <2>1. readPc' = readPc /\ current' = current /\ readIdx' = readIdx
    BY <1>1 DEF Enqueue, EnqueueLoad, AppendBegin, AppendEnd, AppendRaced, readVars
  <2> QED
    BY <2>1
<1>2. CASE ReadLoad(r)
  BY <1>2 DEF ReadLoad
<1>3. CASE ReadFlip(r)
  <2>1. NextQueue(readIdx[r]) # readIdx[r]
    BY DEF NextQueue, Index
  <2> QED
    BY <1>3, <2>1 DEF ReadFlip
<1>4. CASE SwapTake(r)
  BY <1>4 DEF SwapTake
<1>5. CASE SwapClear(r)
  BY <1>5 DEF SwapClear
<1>6. CASE ReadReturn(r)
  BY <1>6 DEF ReadReturn
<1>7. CASE UNCHANGED vars
  BY <1>7 DEF vars, readVars
<1> QED
  BY <1>1, <1>2, <1>3, <1>4, <1>5, <1>6, <1>7 DEF Next, Read

(* A step that hands out nothing and takes nothing away from the next      *)
(* batch keeps the order.                                                  *)
LEMMA SameOrder ==
  ASSUME NEW r, Reader = {r}, OvertakenOnce, HandedBefore, BoundedReorder, ~raced,
         UNCHANGED outVars, NextBatch(r) \subseteq NextBatch(r)'
  PROVE  OvertakenOnce' /\ HandedBefore' /\ BoundedReorder'
<1>1. handed' = handed /\ batches' = batches
  BY DEF outVars
<1>2. OvertakenOnce'
  BY <1>1 DEF OvertakenOnce
<1>3. HandedBefore' /\ BoundedReorder'
  BY <1>1 DEF HandedBefore, BoundedReorder
<1> QED
  BY <1>2, <1>3

(* An item older than one in the buffer is in a container, in the buffer,  *)
(* or handed out: the one under way is younger than all.                   *)
LEMMA OlderIsPlaced ==
  ASSUME NEW r, Reader = {r}, Inv, ~raced, readPc[r] = "holding", NEW i \in Item, NEW j \in Item,
         i < j, j \in buffer[r], handed[i] = 0, i \notin buffer[r]
  PROVE  \E c \in Index : i \in queues[c]
<1>1. Disjoint /\ Complete /\ sent \in Nat /\ j \in Nat /\ i \in Nat
  BY MaxItemsAssumption DEF Inv, TypeInv, TypeOK, Item
<1>2. j <= sent
  BY <1>1 DEF Complete
<1>3. ~InFlight(i)
  BY <1>1, <1>2 DEF InFlight
<1>4. PICK c \in Index : i \in Held(c)
  BY <1>1, <1>2, <1>3 DEF Complete
<1> QED
  BY <1>4 DEF Held

(* read() returns a batch. *)
LEMMA ReturnOrder ==
  ASSUME NEW r, Reader = {r}, Inv, OrderInv, ~raced, ReadReturn(r)
  PROVE  (OvertakenOnce /\ LateIsYounger /\ HandedBefore /\ BoundedReorder)'
<1>1. /\ \A i \in Item : i \in Nat /\ handed[i] \in Nat
      /\ batches \in Nat /\ current \in Index /\ readIdx[r] \in Index
      /\ buffer \in [Reader -> SUBSET Item]
  BY MaxItemsAssumption DEF Inv, TypeInv, TypeOK, Item
<1>2. OvertakenOnce /\ LateIsYounger /\ HandedBefore /\ BoundedReorder /\ Alternates
  BY DEF OrderInv
<1>3. /\ readPc[r] = "holding" /\ readPc'[r] = "idle" /\ queues' = queues /\ current' = current
      /\ current # readIdx[r]
  BY <1>2 DEF ReadReturn, Inv, TypeInv, TypeOK, Alternates
<1>4. NextBatch(r) = buffer[r] /\ NextBatch(r)' = queues[current]
  BY <1>3 DEF NextBatch
<1>5. LateIsYounger'
  BY <1>3 DEF LateIsYounger
<1>6. CASE buffer[r] = {}
  <2>1. handed' = handed /\ batches' = batches
    BY <1>6 DEF ReadReturn, outVars
  <2>2. \A i, j \in Item : i < j /\ handed[j] # 0 => handed[i] # 0
    BY <1>2, <1>4, <1>6 DEF OvertakenOnce
  <2>3. OvertakenOnce'
    BY <2>1, <2>2 DEF OvertakenOnce
  <2>4. HandedBefore' /\ BoundedReorder'
    BY <1>2, <2>1 DEF HandedBefore, BoundedReorder, ReadReturn, raceVars
  <2> QED
    BY <1>5, <2>3, <2>4
<1>7. CASE buffer[r] # {}
  <2>1. /\ batches' = batches + 1
        /\ \A i \in Item : handed'[i] = IF i \in buffer[r] THEN batches + 1 ELSE handed[i]
    BY <1>7 DEF ReadReturn
  <2>2. ASSUME NEW i \in Item, NEW j \in Item, i < j, handed'[i] = 0, handed'[j] # 0
        PROVE  j \in buffer[r] /\ i \in queues[current]
    <3>1. handed[i] = 0 /\ i \notin buffer[r]
      BY <1>1, <2>1, <2>2
    <3>2. j \in buffer[r]
      <4>1. ASSUME j \notin buffer[r] PROVE FALSE
        <5>1. handed[j] # 0
          BY <2>1, <2>2, <4>1
        <5> QED
          BY <1>2, <1>4, <2>2, <3>1, <5>1 DEF OvertakenOnce
      <4> QED
        BY <4>1
    <3>3. PICK c \in Index : i \in queues[c]
      BY <1>3, <2>2, <3>1, <3>2, OlderIsPlaced
    <3>4. c # readIdx[r]
      BY <1>1, <1>2, <1>3, <2>2, <3>2, <3>3 DEF LateIsYounger
    <3> QED
      BY <1>1, <1>3, <3>2, <3>3, <3>4 DEF Index
  <2>3. OvertakenOnce'
    <3> SUFFICES ASSUME NEW i \in Item, NEW j \in Item, i < j, handed'[i] = 0, handed'[j] # 0
                 PROVE  handed'[j] = batches' /\ i \in NextBatch(r)'
      BY DEF OvertakenOnce
    <3> QED
      BY <1>4, <2>1, <2>2
  <2>4. HandedBefore'
    BY <1>1, <1>2, <2>1 DEF HandedBefore
  <2>5. BoundedReorder'
    <3> SUFFICES ASSUME NEW i \in Item, NEW j \in Item, i < j, handed'[j] # 0
                 PROVE  \/ handed'[i] # 0 /\ handed'[i] <= handed'[j] + 1
                        \/ handed'[i] = 0 /\ batches' = handed'[j]
      BY DEF BoundedReorder
    <3>1. CASE handed'[i] = 0
      BY <2>1, <2>2, <3>1
    <3>2. CASE handed'[i] # 0 /\ j \in buffer[r]
      BY <1>1, <1>2, <2>1, <3>2 DEF HandedBefore
    <3>3. CASE handed'[i] # 0 /\ j \notin buffer[r] /\ i \in buffer[r]
      <4>1. handed[i] = 0
        BY <3>3 DEF Inv, Disjoint
      <4>2. handed'[j] = handed[j] /\ handed[j] = batches
        BY <1>2, <2>1, <3>3, <4>1 DEF OvertakenOnce
      <4> QED
        BY <1>1, <2>1, <3>3, <4>2
    <3>4. CASE handed'[i] # 0 /\ j \notin buffer[r] /\ i \notin buffer[r]
      <4>1. handed'[i] = handed[i] /\ handed'[j] = handed[j]
        BY <2>1, <3>4
      <4> QED
        BY <1>2, <3>4, <4>1 DEF BoundedReorder
    <3> QED
      BY <3>1, <3>2, <3>3, <3>4
  <2> QED
    BY <1>5, <2>3, <2>4, <2>5
<1> QED
  BY <1>6, <1>7

(* No step lets an item be overtaken twice. *)
LEMMA NextOrder ==
  ASSUME NEW r, Reader = {r}, Inv, OrderInv, [Next]_vars
  PROVE  OrderInv'
<1>1. Alternates'
  BY NextAlternates DEF Inv, OrderInv
<1> SUFFICES ASSUME ~raced' PROVE (OvertakenOnce /\ LateIsYounger /\ HandedBefore /\ BoundedReorder)'
  BY <1>1 DEF OrderInv
<1>2. ~raced
  <2>1. raced => raced'
    BY DEF Next, Enqueue, Read, EnqueueLoad, AppendBegin, AppendEnd, AppendRaced, ReadLoad,
           ReadFlip, SwapTake, SwapClear, ReadReturn, vars, raceVars
  <2> QED
    BY <2>1
<1>3. OvertakenOnce /\ LateIsYounger /\ HandedBefore /\ BoundedReorder /\ Alternates
  BY <1>2 DEF OrderInv
<1>t. /\ readPc \in [Reader -> {"idle", "loaded", "flipped", "swapping", "holding"}]
      /\ readIdx \in [Reader -> Index] /\ buffer \in [Reader -> SUBSET Item]
      /\ queues \in [Index -> SUBSET Item] /\ enqIdx \in Index /\ current \in Index
      /\ sent \in Nat /\ \A i \in Item : i \in Nat
  BY MaxItemsAssumption DEF Inv, TypeInv, TypeOK, Item
<1>4. CASE EnqueueLoad \/ AppendBegin
  <2>1. UNCHANGED <<readPc, readIdx, buffer, queues, current, handed, batches>>
    BY <1>4 DEF EnqueueLoad, AppendBegin, readVars, outVars
  <2>2. NextBatch(r)' = NextBatch(r) /\ LateIsYounger'
    BY <1>3, <2>1 DEF NextBatch, LateIsYounger
  <2> QED
    BY <1>2, <1>3, <2>1, <2>2, SameOrder DEF outVars
<1>5. CASE AppendEnd
  <2>1. /\ UNCHANGED <<readPc, readIdx, buffer, current, handed, batches>>
        /\ queues' = [queues EXCEPT ![enqIdx] = @ \cup {sent}]
    BY <1>5 DEF AppendEnd, readVars, outVars
  <2>2. \A c \in Index : queues[c] \subseteq queues'[c] /\ queues'[c] \subseteq queues[c] \cup {sent}
    BY <1>t, <2>1
  <2>3. NextBatch(r) \subseteq NextBatch(r)'
    BY <1>t, <2>1, <2>2 DEF NextBatch
  <2>4. \A j \in buffer[r] : j < sent
    <3>1. Disjoint /\ Complete
      BY <1>2 DEF Inv
    <3>2. \A j \in Item : j \in buffer[r] => j <= sent /\ ~InFlight(j)
      BY <3>1 DEF Disjoint, Complete
    <3> QED
      BY <1>5, <1>t, <3>2 DEF AppendEnd, InFlight
  <2>5. LateIsYounger'
    BY <1>3, <1>t, <2>1, <2>2, <2>4 DEF LateIsYounger
  <2> QED
    BY <1>2, <1>3, <2>1, <2>3, <2>5, SameOrder DEF outVars
<1>6. CASE AppendRaced
  BY <1>2, <1>6 DEF AppendRaced, Inv, RaceInv
<1>7. CASE ReadLoad(r) \/ ReadFlip(r)
  <2>1. NextBatch(r)' = NextBatch(r)
    BY <1>3, <1>7, <1>t DEF ReadLoad, ReadFlip, NextBatch, Alternates
  <2>2. LateIsYounger' /\ UNCHANGED outVars
    BY <1>7, <1>t DEF ReadLoad, ReadFlip, LateIsYounger
  <2> QED
    BY <1>2, <1>3, <2>1, <2>2, SameOrder
<1>8. CASE SwapTake(r)
  <2>1. NextBatch(r)' = NextBatch(r)
    BY <1>8, <1>t DEF SwapTake, NextBatch
  <2>2. LateIsYounger' /\ UNCHANGED outVars
    BY <1>8, <1>t DEF SwapTake, LateIsYounger
  <2> QED
    BY <1>2, <1>3, <2>1, <2>2, SameOrder
<1>9. CASE SwapClear(r)
  <2>1. NextBatch(r)' = NextBatch(r)
    BY <1>9, <1>t DEF SwapClear, NextBatch
  <2>2. LateIsYounger' /\ UNCHANGED outVars
    BY <1>9, <1>t DEF SwapClear, LateIsYounger
  <2> QED
    BY <1>2, <1>3, <2>1, <2>2, SameOrder
<1>10. CASE ReadReturn(r)
  BY <1>2, <1>10, ReturnOrder
<1>11. CASE UNCHANGED vars
  <2>1. UNCHANGED <<readPc, readIdx, buffer, queues, current, handed, batches>>
    BY <1>11 DEF vars, readVars, outVars
  <2>2. NextBatch(r)' = NextBatch(r) /\ LateIsYounger'
    BY <1>3, <2>1 DEF NextBatch, LateIsYounger
  <2> QED
    BY <1>2, <1>3, <2>1, <2>2, SameOrder DEF outVars
<1> QED
  BY <1>4, <1>5, <1>6, <1>7, <1>8, <1>9, <1>10, <1>11 DEF Next, Enqueue, Read

(* With one reader, as LiveParser with its default of one consumer, an     *)
(* item that enqueue() appended to the container read() had just           *)
(* deactivated is overtaken by one batch at most, for any number of items. *)
THEOREM OvertakenByOneBatch ==
  ASSUME NEW r, Reader = {r}
  PROVE  Spec => []BoundedReorder
<1>1. Inv /\ OrderInv => BoundedReorder
  BY DEF OrderInv, BoundedReorder
<1>2. Inv /\ OrderInv /\ [Next]_vars => OrderInv'
  BY NextOrder
<1> QED
  BY InitInv, NextInv, InitOrder, <1>1, <1>2, PTL DEF Spec

=============================================================================
