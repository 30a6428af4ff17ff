-------------------------- MODULE ProducerPoolProofs --------------------------
(***************************************************************************)
(* Proofs about ProducerPool, for any number of senders, messages and      *)
(* producers: type correctness, the ownership of producers, the bound on   *)
(* the pool, and the life of the callbacks.                                *)
(***************************************************************************)
EXTENDS ProducerPool, TLAPS, FiniteSetTheorems, SequenceTheorems

(* A sender has a producer exactly while it is in send_one_msg, and nobody *)
(* sends before the pool is in place.                                      *)
SenderInv ==
  /\ \A s \in Sender : manager[s] = None <=> sendPc[s] = "idle"
  /\ mainPc \in {"build", "assigned"} => \A s \in Sender : sendPc[s] = "idle"

(* The producers in the pool and those of the senders are different ones,  *)
(* and all have been created.                                              *)
DistinctInv ==
  /\ \A i, j \in 1 .. Len(producers_) : i # j => producers_[i] # producers_[j]
  /\ \A s, t \in Sender : s # t /\ manager[s] # None => manager[s] # manager[t]
  /\ \A i \in 1 .. Len(producers_), s \in Sender : producers_[i] # manager[s]

CreatedInv ==
  /\ \A i \in 1 .. Len(producers_) : producers_[i] <= created
  /\ \A s \in Sender : manager[s] <= created
  /\ \A p \in Producer : p > created => polling[p] = "none"

(* Until the destruction no producer is lost. *)
InPool(p) == \E i \in 1 .. Len(producers_) : producers_[i] = p

CompleteInv ==
  mainPc \in {"build", "assigned", "run"} =>
    \A p \in 1 .. created : InPool(p) \/ \E s \in Sender : manager[s] = p

BoundInv ==
  /\ created <= poolSize \/ created <= Cardinality(Sender)
  /\ mainPc = "build" => created <= poolSize

(* A message waits for its report only if a call of send_one_msg made it. *)
MessageInv ==
  /\ \A p \in Producer : outQueue[p] <= sends
  /\ \A s \in Sender : sendPc[s] = "produce" => outQueue[manager[s]] < sends

(* Who owns the callbacks, and who may still call them. *)
ConfInv ==
  /\ mainPc = "build" => tempConf
  /\ mainPc = "assigned" => ~tempConf
  /\ mainPc \in {"build", "assigned", "run", "destroy"} => callbacks

QuietInv ==
  ~abrupt /\ mainPc \in {"destroy", "freed"} =>
    /\ \A s \in Sender : sendPc[s] = "idle"
    /\ \A p \in 1 .. created : InPool(p) \/ polling[p] = "off"
    /\ mainPc = "freed" => producers_ = <<>>

Inv ==
  /\ TypeOK /\ SenderInv /\ DistinctInv /\ CreatedInv /\ CompleteInv /\ BoundInv /\ MessageInv
  /\ ConfInv /\ QuietInv /\ CallbacksAlive

-----------------------------------------------------------------------------
(* Type correctness and the messages *)

TypeInv == TypeOK /\ SenderInv /\ MessageInv

(* producers_.pop_back() keeps the others, and takes the last one. *)
LEMMA FrontLast ==
  ASSUME TypeOK, producers_ # <<>>
  PROVE  /\ Len(producers_) \in Nat /\ Len(producers_) >= 1
         /\ Popped \in Seq(Producer) /\ Len(Popped) = Len(producers_) - 1
         /\ \A i \in 1 .. Len(Popped) : Popped[i] = producers_[i]
         /\ Last(producers_) = producers_[Len(producers_)]
         /\ Last(producers_) \in Producer
<1>1. producers_ \in Seq(Producer)
  BY DEF TypeOK
<1>2. Len(producers_) \in Nat /\ Len(producers_) # 0
  BY <1>1, EmptySeq, LenProperties
<1>3. \A i \in 1 .. Len(producers_) : producers_[i] \in Producer
  BY <1>1, ElementOfSeq
<1>4. \A i \in 1 .. Len(producers_) - 1 : producers_[i] \in Producer
  BY <1>2, <1>3
<1>5. Popped = SubSeq(producers_, 1, Len(producers_) - 1)
  BY DEF Popped, Front
<1>6. /\ Popped \in Seq(Producer) /\ Len(Popped) = Len(producers_) - 1
      /\ \A i \in 1 .. Len(producers_) - 1 : Popped[i] = producers_[i]
  <2>1. Len(producers_) - 1 \in Int
    BY <1>2
  <2>2. /\ SubSeq(producers_, 1, Len(producers_) - 1) \in Seq(Producer)
        /\ Len(SubSeq(producers_, 1, Len(producers_) - 1))
             = IF 1 <= Len(producers_) - 1 THEN Len(producers_) - 1 - 1 + 1 ELSE 0
        /\ \A i \in 1 .. Len(producers_) - 1 - 1 + 1 :
             SubSeq(producers_, 1, Len(producers_) - 1)[i] = producers_[1 + i - 1]
    BY <2>1, <1>4, SubSeqProperties
  <2>3. Len(Popped) = Len(producers_) - 1
    <3> DEFINE n == Len(producers_)
    <3>1. Len(Popped) = IF 1 <= n - 1 THEN n - 1 - 1 + 1 ELSE 0
      BY <1>5, <2>2
    <3>2. n \in Nat /\ n # 0
      BY <1>2
    <3> HIDE DEF n
    <3>3. Len(Popped) = n - 1
      BY <3>1, <3>2
    <3> QED
      BY <3>3 DEF n
  <2>4. ASSUME NEW i \in 1 .. Len(producers_) - 1 PROVE Popped[i] = producers_[i]
    <3>1. i \in 1 .. Len(producers_) - 1 - 1 + 1 /\ 1 + i - 1 = i
      BY <1>2
    <3> QED
      BY <1>5, <2>2, <3>1
  <2> QED
    BY <1>5, <2>2, <2>3, <2>4
<1> QED
  BY <1>2, <1>3, <1>6 DEF Last

(* The initial state has no senders at work and no messages. *)
LEMMA InitType == Init => TypeInv
<1> SUFFICES ASSUME Init PROVE TypeInv
  OBVIOUS
<1>1. /\ tempConf \in BOOLEAN /\ poolConf \in BOOLEAN /\ callbacks \in BOOLEAN
      /\ abrupt \in BOOLEAN /\ usedFreed \in BOOLEAN
  BY DEF Init
<1>2. producers_ \in Seq(Producer)
  BY EmptySeq DEF Init
<1>3. TypeOK
  BY <1>1, <1>2, BoundAssumption DEF Init, TypeOK
<1>4. SenderInv /\ MessageInv
  BY BoundAssumption DEF Init, SenderInv, MessageInv, None
<1> QED
  BY <1>3, <1>4 DEF TypeInv

(* Every step keeps the types, the phase of the senders and the messages. *)
LEMMA NextType == Inv /\ [Next]_vars => TypeInv'
<1> SUFFICES ASSUME Inv, [Next]_vars PROVE TypeInv'
  OBVIOUS
<1>t. /\ TypeOK /\ SenderInv /\ MessageInv /\ DistinctInv
      /\ poolSize \in Nat /\ MaxCreate \in Nat /\ MaxSends \in Nat
  BY BoundAssumption DEF Inv
<1>m. \A s \in Sender : sendPc[s] # "idle" => manager[s] \in Producer
  BY <1>t DEF TypeOK, SenderInv, None
<1>1. CASE BuildProducer
  <2>1. created + 1 \in Producer
    BY <1>1, <1>t DEF BuildProducer, NewProducer, Producer, TypeOK
  <2>2. producers_' \in Seq(Producer)
    BY <1>1, <1>t, <2>1, AppendProperties DEF BuildProducer, TypeOK
  <2>3. TypeOK'
    BY <1>1, <1>t, <2>1, <2>2 DEF BuildProducer, NewProducer, TypeOK, confVars, sendVars, Producer
  <2>4. SenderInv' /\ MessageInv'
    BY <1>1, <1>t DEF BuildProducer, SenderInv, MessageInv, sendVars
  <2> QED
    BY <2>3, <2>4 DEF TypeInv
<1>2. CASE CreateFails
  BY <1>2, <1>t DEF CreateFails, TypeInv, TypeOK, SenderInv, MessageInv, confVars, poolVars, sendVars
<1>3. CASE AssignPool
  <2>1. poolConf' \in BOOLEAN /\ tempConf' \in BOOLEAN
    BY <1>3, <1>t DEF AssignPool, SourceNulled, TypeOK
  <2> QED
    BY <1>3, <1>t, <2>1 DEF AssignPool, TypeInv, TypeOK, SenderInv, MessageInv, poolVars, sendVars
<1>4. CASE DestroyTemporary
  <2>1. callbacks' \in BOOLEAN
    BY <1>4 DEF DestroyTemporary
  <2> QED
    BY <1>4, <1>t, <2>1 DEF DestroyTemporary, TypeInv, TypeOK, SenderInv, MessageInv, poolVars, sendVars
<1>5. ASSUME NEW s \in Sender, SendStep(s) \/ UseDestroyed(s) PROVE TypeInv'
  <2>1. CASE Acquire(s)
    <3>1. CASE producers_ = <<>>
      <4>1. created + 1 \in Producer
        BY <2>1, <3>1, <1>t DEF Acquire, NewProducer, Producer, TypeOK
      <4>2. TypeOK'
        <5>1. sends' \in 0 .. MaxSends /\ created' \in 0 .. MaxCreate
          BY <2>1, <3>1, <1>t DEF Acquire, NewProducer, TypeOK
        <5>2. /\ polling' \in [Producer -> {"none", "on", "stop", "off"}]
              /\ manager' \in [Sender -> Producer \cup {None}]
              /\ sendPc' \in [Sender -> {"idle", "produce", "flush", "collect"}]
          BY <2>1, <3>1, <1>t, <4>1 DEF Acquire, NewProducer, TypeOK
        <5> QED
          BY <2>1, <3>1, <1>t, <5>1, <5>2 DEF Acquire, TypeOK, confVars
      <4>3. created + 1 # None
        BY <1>t DEF TypeOK, None
      <4>4. SenderInv'
        BY <2>1, <3>1, <1>t, <4>3 DEF Acquire, SenderInv, TypeOK
      <4>5. MessageInv'
        BY <2>1, <3>1, <1>t, <1>m, <4>1 DEF Acquire, MessageInv, TypeOK
      <4> QED
        BY <4>2, <4>4, <4>5 DEF TypeInv
    <3>2. CASE producers_ # <<>>
      <4>1. Popped \in Seq(Producer) /\ Last(producers_) \in Producer
        BY <1>t, <3>2, FrontLast
      <4>2. TypeOK'
        <5>1. sends' \in 0 .. MaxSends
          BY <2>1, <3>2, <1>t DEF Acquire, TypeOK
        <5>2. /\ manager' \in [Sender -> Producer \cup {None}]
              /\ sendPc' \in [Sender -> {"idle", "produce", "flush", "collect"}]
          BY <2>1, <3>2, <1>t, <4>1 DEF Acquire, TypeOK
        <5> QED
          BY <2>1, <3>2, <1>t, <4>1, <5>1, <5>2 DEF Acquire, TypeOK, confVars
      <4>3. Last(producers_) # None
        BY <4>1 DEF None, Producer
      <4>4. SenderInv'
        BY <2>1, <3>2, <1>t, <4>3 DEF Acquire, SenderInv, TypeOK
      <4>5. MessageInv'
        BY <2>1, <3>2, <1>t, <1>m, <4>1 DEF Acquire, MessageInv, TypeOK
      <4> QED
        BY <4>2, <4>4, <4>5 DEF TypeInv
    <3> QED
      BY <3>1, <3>2
  <2>2. CASE Produce(s)
    <3>1. manager[s] \in Producer /\ outQueue[manager[s]] < sends
      BY <2>2, <1>t, <1>m DEF Produce, MessageInv
    <3>2. usedFreed' \in BOOLEAN
      BY <2>2, <1>t DEF Produce, TypeOK
    <3>3. \/ outQueue' = [outQueue EXCEPT ![manager[s]] = @ + 1]
          \/ outQueue' = outQueue
      BY <2>2 DEF Produce
    <3>4. outQueue' \in [Producer -> 0 .. MaxSends]
      <4>1. sends \in Nat /\ sends <= MaxSends /\ outQueue \in [Producer -> 0 .. MaxSends]
        BY <1>t DEF TypeOK
      <4>2. outQueue[manager[s]] \in Nat /\ outQueue[manager[s]] + 1 \in 0 .. MaxSends
        BY <4>1, <3>1, <1>t
      <4> QED
        BY <3>1, <3>3, <4>1, <4>2
    <3>5. TypeOK'
      BY <2>2, <1>t, <3>2, <3>4 DEF Produce, TypeOK, confVars, poolVars
    <3>6. SenderInv'
      BY <2>2, <1>t DEF Produce, SenderInv, TypeOK
    <3>7. MessageInv'
      <4>1. sends \in Nat /\ outQueue \in [Producer -> 0 .. MaxSends] /\ sends' = sends
        BY <2>2, <1>t DEF TypeOK, Produce
      <4>2. outQueue[manager[s]] \in Nat /\ outQueue[manager[s]] + 1 <= sends
        BY <4>1, <3>1, <1>t
      <4>3. \A p \in Producer : outQueue'[p] <= sends
        BY <1>t, <3>1, <3>3, <4>1, <4>2 DEF MessageInv
      <4>4. ASSUME NEW t \in Sender, sendPc'[t] = "produce" PROVE outQueue'[manager[t]] < sends
        <5>1. t # s /\ sendPc[t] = "produce"
          BY <2>2, <4>4, <1>t DEF Produce, TypeOK
        <5>2. manager[t] \in Producer /\ manager[t] # manager[s]
          BY <2>2, <5>1, <1>m, <1>t DEF Produce, DistinctInv, SenderInv
        <5> QED
          BY <3>3, <4>1, <5>1, <5>2, <1>t DEF MessageInv
      <4> QED
        BY <2>2, <4>1, <4>3, <4>4 DEF Produce, MessageInv
    <3> QED
      BY <3>5, <3>6, <3>7 DEF TypeInv
  <2>3. CASE Flush(s)
    <3>1. PICK left \in 0 .. outQueue[manager[s]] :
            outQueue' = [outQueue EXCEPT ![manager[s]] = left]
      BY <2>3 DEF Flush
    <3>2. manager[s] \in Producer
      BY <2>3, <1>t, <1>m DEF Flush
    <3>3. outQueue' \in [Producer -> 0 .. MaxSends] /\ \A p \in Producer : outQueue'[p] <= outQueue[p]
      BY <3>1, <3>2, <1>t DEF TypeOK
    <3>4. usedFreed' \in BOOLEAN
      BY <2>3, <1>t DEF Flush, TypeOK
    <3>5. TypeOK'
      BY <2>3, <1>t, <3>3, <3>4 DEF Flush, TypeOK, confVars, poolVars
    <3>6. SenderInv'
      BY <2>3, <1>t DEF Flush, SenderInv, TypeOK
    <3>7. MessageInv'
      BY <2>3, <1>t, <1>m, <3>3 DEF Flush, MessageInv, TypeOK
    <3> QED
      BY <3>5, <3>6, <3>7 DEF TypeInv
  <2>4. CASE Collect(s)
    <3>1. producers_' \in Seq(Producer)
      <4>1. manager[s] \in Producer
        BY <2>4, <1>t, <1>m DEF Collect
      <4> QED
        BY <2>4, <1>t, <4>1, AppendProperties DEF Collect, Collected, TypeOK
    <3>2. TypeOK'
      BY <2>4, <1>t, <3>1 DEF Collect, TypeOK, confVars
    <3>3. SenderInv' /\ MessageInv'
      BY <2>4, <1>t DEF Collect, SenderInv, MessageInv, TypeOK
    <3> QED
      BY <3>2, <3>3 DEF TypeInv
  <2>5. CASE UseDestroyed(s)
    BY <2>5, <1>t DEF UseDestroyed, TypeInv, TypeOK, SenderInv, MessageInv, confVars, poolVars, sendVars
  <2> QED
    BY <1>5, <2>1, <2>2, <2>3, <2>4, <2>5 DEF SendStep
<1>6. ASSUME NEW p \in Producer, Poll(p) \/ PollEnds(p) PROVE TypeInv'
  <2>1. CASE Poll(p)
    <3>1. outQueue' \in [Producer -> 0 .. MaxSends] /\ \A q \in Producer : outQueue'[q] <= outQueue[q]
      BY <2>1, <1>t DEF Poll, TypeOK
    <3>2. usedFreed' \in BOOLEAN
      BY <2>1, <1>t DEF Poll, TypeOK
    <3>3. TypeOK'
      BY <2>1, <1>t, <3>1, <3>2 DEF Poll, PollAgain, TypeOK, confVars, poolVars, sendVars
    <3>4. SenderInv'
      BY <2>1, <1>t DEF Poll, SenderInv, sendVars
    <3>5. MessageInv'
      BY <2>1, <1>t, <1>m, <3>1 DEF Poll, MessageInv, TypeOK, sendVars
    <3> QED
      BY <3>3, <3>4, <3>5 DEF TypeInv
  <2>2. CASE PollEnds(p)
    BY <2>2, <1>t DEF PollEnds, TypeInv, TypeOK, SenderInv, MessageInv, confVars, poolVars, sendVars
  <2> QED
    BY <1>6, <2>1, <2>2
<1>7. CASE MainReturns
  BY <1>7, <1>t DEF MainReturns, TypeInv, TypeOK, SenderInv, MessageInv, confVars, poolVars, sendVars
<1>8. CASE SignalExit
  <2>1. abrupt' \in BOOLEAN
    BY <1>8 DEF SignalExit
  <2> QED
    BY <1>8, <1>t, <2>1 DEF SignalExit, TypeInv, TypeOK, SenderInv, MessageInv, confVars, poolVars, sendVars
<1>9. CASE DestroyStep
  <2>1. CASE DestroyStop
    <3>1. Head(producers_) \in Producer
      BY <2>1, <1>t, HeadTailProperties DEF DestroyStop, TypeOK
    <3> QED
      BY <2>1, <1>t, <3>1 DEF DestroyStop, StopPolling, TypeInv, TypeOK, SenderInv, MessageInv,
                              confVars, poolVars, sendVars
  <2>2. CASE DestroyProducer
    <3>1. Head(producers_) \in Producer /\ producers_' \in Seq(Producer)
      BY <2>2, <1>t, HeadTailProperties DEF DestroyProducer, TypeOK
    <3>2. outQueue' \in [Producer -> 0 .. MaxSends] /\ \A q \in Producer : outQueue'[q] <= outQueue[q]
      BY <2>2, <1>t, <3>1 DEF DestroyProducer, TypeOK
    <3>3. usedFreed' \in BOOLEAN
      BY <2>2, <1>t DEF DestroyProducer, TypeOK
    <3>4. TypeOK'
      BY <2>2, <1>t, <3>1, <3>2, <3>3 DEF DestroyProducer, TypeOK, confVars, sendVars
    <3>5. SenderInv'
      BY <2>2, <1>t DEF DestroyProducer, SenderInv, sendVars
    <3>6. MessageInv'
      BY <2>2, <1>t, <1>m, <3>2 DEF DestroyProducer, MessageInv, TypeOK, sendVars
    <3> QED
      BY <3>4, <3>5, <3>6 DEF TypeInv
  <2>3. CASE DestroyConf
    <3>1. callbacks' \in BOOLEAN
      BY <2>3, <1>t DEF DestroyConf, TypeOK
    <3> QED
      BY <2>3, <1>t, <3>1 DEF DestroyConf, TypeInv, TypeOK, SenderInv, MessageInv, poolVars, sendVars
  <2>4. CASE ProcessEnds
    BY <2>4, <1>t DEF ProcessEnds, TypeInv, TypeOK, SenderInv, MessageInv, confVars, poolVars, sendVars
  <2> QED
    BY <1>9, <2>1, <2>2, <2>3, <2>4 DEF DestroyStep
<1>10. CASE UNCHANGED vars
  BY <1>10, <1>t DEF vars, TypeInv, TypeOK, SenderInv, MessageInv, confVars, poolVars, sendVars
<1> QED
  BY <1>1, <1>2, <1>3, <1>4, <1>5, <1>6, <1>7, <1>8, <1>9, <1>10 DEF Next, InitStep

-----------------------------------------------------------------------------
(* Who owns the producers *)

Owned == DistinctInv /\ CreatedInv /\ CompleteInv

(* A step that moves no producer keeps their owners. *)
LEMMA OwnedFrame ==
  ASSUME Inv, UNCHANGED <<producers_, created, manager>>,
         mainPc' \in {"build", "assigned", "run"} => mainPc \in {"build", "assigned", "run"},
         \A p \in Producer : p > created => polling'[p] = polling[p]
  PROVE  Owned'
<1>1. DistinctInv'
  BY DEF Inv, DistinctInv
<1>2. CreatedInv'
  BY DEF Inv, CreatedInv
<1>3. CompleteInv'
  BY DEF Inv, CompleteInv, InPool
<1> QED
  BY <1>1, <1>2, <1>3 DEF Owned

(* A producer with a polling thread has been created. *)
LEMMA PollingCreated ==
  ASSUME Inv, NEW p \in Producer, polling[p] # "none"
  PROVE  ~(p > created)
  BY DEF Inv, CreatedInv

(* Every step moves a producer from one owner to the next, makes a new one *)
(* for one owner, or takes one out of the pool under destruction.          *)
LEMMA NextOwned == Inv /\ [Next]_vars => Owned'
<1> SUFFICES ASSUME Inv, [Next]_vars PROVE Owned'
  OBVIOUS
<1>t. /\ producers_ \in Seq(Producer) /\ created \in Nat /\ created <= MaxCreate
      /\ MaxCreate \in Nat /\ manager \in [Sender -> Producer \cup {None}]
      /\ polling \in [Producer -> {"none", "on", "stop", "off"}]
      /\ Len(producers_) \in Nat
  BY BoundAssumption, LenProperties DEF Inv, TypeOK
<1>e. \A i \in 1 .. Len(producers_) : producers_[i] \in Producer
  BY <1>t, ElementOfSeq
<1>p. \A p \in Producer : p \in Nat /\ p # None
  BY <1>t DEF Producer, None
<1>i. DistinctInv /\ CreatedInv /\ CompleteInv /\ SenderInv
  BY DEF Inv
<1>1. CASE BuildProducer
  <2>1. created + 1 \in Producer
    BY <1>1, <1>t DEF BuildProducer, NewProducer, Producer
  <2>2. /\ Len(producers_') = Len(producers_) + 1
        /\ \A i \in 1 .. Len(producers_) : producers_'[i] = producers_[i]
        /\ producers_'[Len(producers_) + 1] = created + 1
        /\ manager' = manager /\ created' = created + 1
        /\ polling' = [polling EXCEPT ![created + 1] = "on"]
    BY <1>1, <1>t, <2>1, AppendProperties DEF BuildProducer, NewProducer, sendVars
  <2>3. \A i \in 1 .. Len(producers_) + 1 : i \in 1 .. Len(producers_) \/ i = Len(producers_) + 1
    BY <1>t
  <2>4. DistinctInv'
    <3>1. \A i \in 1 .. Len(producers_) : producers_[i] # created + 1
      BY <1>i, <1>e, <1>p, <1>t DEF CreatedInv
    <3>2. \A q \in Sender : manager[q] # created + 1
      BY <1>i, <1>t DEF CreatedInv, Producer, None
    <3> QED
      BY <1>i, <2>2, <2>3, <3>1, <3>2 DEF DistinctInv
  <2>5. CreatedInv'
    <3>1. \A i \in 1 .. Len(producers_) : producers_[i] <= created + 1
      BY <1>i, <1>e, <1>p, <1>t DEF CreatedInv
    <3>2. \A q \in Sender : manager[q] <= created + 1
      BY <1>i, <1>t DEF CreatedInv, Producer, None
    <3>3. \A q \in Producer : q > created + 1 => polling'[q] = "none"
      BY <1>i, <1>t, <2>2 DEF CreatedInv, Producer
    <3> QED
      BY <2>2, <2>3, <3>1, <3>2, <3>3, <1>t DEF CreatedInv
  <2>6. CompleteInv'
    <3>1. \A q \in 1 .. created : InPool(q) => InPool(q)'
      BY <1>t, <2>2 DEF InPool
    <3>2. \A q : q = created + 1 => InPool(q)'
      <4>1. Len(producers_) + 1 \in 1 .. Len(producers_')
        BY <1>t, <2>2
      <4> QED
        BY <2>2, <4>1 DEF InPool
    <3>3. \A q \in 1 .. created + 1 : q \in 1 .. created \/ q = created + 1
      BY <1>t
    <3> QED
      BY <1>1, <1>i, <2>2, <3>1, <3>2, <3>3 DEF CompleteInv, BuildProducer
  <2> QED
    BY <2>4, <2>5, <2>6 DEF Owned
<1>2. CASE CreateFails
  BY <1>2, OwnedFrame DEF CreateFails, poolVars, sendVars
<1>3. CASE AssignPool
  BY <1>3, OwnedFrame DEF AssignPool, poolVars, sendVars
<1>4. CASE DestroyTemporary
  BY <1>4, OwnedFrame DEF DestroyTemporary, poolVars, sendVars
<1>5. ASSUME NEW s \in Sender, SendStep(s) \/ UseDestroyed(s) PROVE Owned'
  <2>1. CASE Acquire(s) /\ producers_ = <<>>
    <3>1. created + 1 \in Producer /\ manager[s] = None
      BY <2>1, <1>t, <1>i DEF Acquire, NewProducer, Producer, SenderInv
    <3>2. /\ producers_' = producers_ /\ created' = created + 1
          /\ manager' = [manager EXCEPT ![s] = created + 1]
          /\ polling' = [polling EXCEPT ![created + 1] = "on"]
          /\ mainPc = "run"
      BY <2>1 DEF Acquire, NewProducer
    <3>3. DistinctInv'
      <4>1. \A i \in 1 .. Len(producers_) : producers_[i] # created + 1
        BY <1>i, <1>e, <1>p, <1>t DEF CreatedInv
      <4>2. \A q \in Sender : manager[q] # created + 1
        BY <1>i, <1>t DEF CreatedInv, Producer, None
      <4> QED
        BY <1>i, <1>t, <3>1, <3>2, <4>1, <4>2 DEF DistinctInv
    <3>4. CreatedInv'
      <4>1. \A i \in 1 .. Len(producers_) : producers_[i] <= created + 1
        BY <1>i, <1>e, <1>p, <1>t DEF CreatedInv
      <4>2. \A q \in Sender : manager[q] <= created + 1
        BY <1>i, <1>t DEF CreatedInv, Producer, None
      <4>3. \A q \in Producer : q > created + 1 => polling'[q] = "none"
        BY <1>i, <1>t, <3>2 DEF CreatedInv, Producer
      <4> QED
        BY <3>2, <4>1, <4>2, <4>3, <1>t DEF CreatedInv
    <3>5. CompleteInv'
      <4>1. ASSUME NEW q \in 1 .. created + 1
            PROVE  InPool(q)' \/ \E r \in Sender : manager'[r] = q
        <5>1. CASE q = created + 1
          BY <3>2, <5>1, <1>t
        <5>2. CASE q # created + 1
          <6>1. q \in 1 .. created /\ q # None
            BY <1>t, <5>2 DEF None
          <6> QED
            BY <1>i, <1>t, <3>1, <3>2, <6>1 DEF CompleteInv, InPool
        <5> QED
          BY <5>1, <5>2
      <4> QED
        BY <3>2, <4>1 DEF CompleteInv
    <3> QED
      BY <3>3, <3>4, <3>5 DEF Owned
  <2>2. CASE Acquire(s) /\ producers_ # <<>>
    <3> DEFINE n == Len(producers_)
    <3>1. /\ manager[s] = None /\ n \in Nat /\ n >= 1
          /\ Len(producers_') = n - 1
          /\ \A i \in 1 .. n - 1 : producers_'[i] = producers_[i]
          /\ manager' = [manager EXCEPT ![s] = producers_[n]]
          /\ created' = created /\ polling' = polling /\ mainPc = "run"
      <4>1. TypeOK /\ producers_ # <<>>
        BY <2>2 DEF Inv
      <4>2. producers_' = Popped /\ manager' = [manager EXCEPT ![s] = Last(producers_)]
        BY <2>2 DEF Acquire
      <4>3. Len(Popped) = n - 1 /\ Last(producers_) = producers_[n] /\ n >= 1
        BY <4>1, FrontLast
      <4>4. \A i \in 1 .. n - 1 : Popped[i] = producers_[i]
        BY <4>1, <4>3, FrontLast
      <4> QED
        BY <2>2, <1>t, <1>i, <4>2, <4>3, <4>4 DEF Acquire, SenderInv
    <3>2. n \in 1 .. n /\ \A i \in 1 .. n - 1 : i \in 1 .. n /\ i # n
      BY <3>1
    <3>3. DistinctInv'
      <4>1. producers_[n] # None
        BY <1>e, <1>p, <3>2
      <4>2. \A q \in Sender : manager'[q] = IF q = s THEN producers_[n] ELSE manager[q]
        BY <3>1, <1>t
      <4>3. \A i, j \in 1 .. n - 1 : i # j => producers_'[i] # producers_'[j]
        BY <1>i, <3>1, <3>2 DEF DistinctInv
      <4>4. \A q, r \in Sender : q # r /\ manager'[q] # None => manager'[q] # manager'[r]
        BY <1>i, <3>2, <4>1, <4>2 DEF DistinctInv
      <4>5. \A i \in 1 .. n - 1, q \in Sender : producers_'[i] # manager'[q]
        BY <1>i, <3>1, <3>2, <4>2 DEF DistinctInv
      <4> QED
        BY <3>1, <4>3, <4>4, <4>5 DEF DistinctInv
    <3>4. CreatedInv'
      BY <1>i, <1>t, <3>1, <3>2 DEF CreatedInv
    <3>5. CompleteInv'
      <4>1. ASSUME NEW q \in 1 .. created
            PROVE  InPool(q)' \/ \E r \in Sender : manager'[r] = q
        <5>1. CASE \E r \in Sender : manager[r] = q
          BY <5>1, <3>1, <1>t DEF None
        <5>2. CASE InPool(q)
          <6>1. PICK i \in 1 .. n : producers_[i] = q
            BY <5>2 DEF InPool
          <6>2. CASE i = n
            BY <6>1, <6>2, <3>1, <1>t
          <6>3. CASE i # n
            <7>1. i \in 1 .. n - 1
              BY <6>3, <3>1
            <7> QED
              BY <7>1, <6>1, <3>1 DEF InPool
          <6> QED
            BY <6>2, <6>3
        <5> QED
          BY <5>1, <5>2, <1>i, <3>1 DEF CompleteInv
      <4> QED
        BY <3>1, <4>1 DEF CompleteInv
    <3> QED
      BY <3>3, <3>4, <3>5 DEF Owned
  <2>3. CASE Produce(s)
    BY <2>3, OwnedFrame DEF Produce, poolVars
  <2>4. CASE Flush(s)
    BY <2>4, OwnedFrame DEF Flush, poolVars
  <2>5. CASE Collect(s)
    <3> DEFINE n == Len(producers_)
    <3>1. manager[s] \in Producer
      BY <2>5, <1>i, <1>t DEF Collect, SenderInv
    <3>2. /\ Len(producers_') = n + 1
          /\ \A i \in 1 .. n : producers_'[i] = producers_[i]
          /\ producers_'[n + 1] = manager[s]
          /\ manager' = [manager EXCEPT ![s] = None]
          /\ created' = created /\ polling' = polling /\ mainPc = "run"
      BY <2>5, <1>t, <3>1, AppendProperties DEF Collect, Collected
    <3>3. \A i \in 1 .. n + 1 : i \in 1 .. n \/ i = n + 1
      BY <1>t
    <3>4. DistinctInv'
      <4>1. \A q \in Sender : manager'[q] = IF q = s THEN None ELSE manager[q]
        BY <3>2, <1>t
      <4>2. manager[s] # None /\ \A i \in 1 .. n : producers_[i] # None
        BY <1>e, <1>p, <3>1
      <4>3. \A i \in 1 .. n + 1 : producers_'[i] = IF i = n + 1 THEN manager[s] ELSE producers_[i]
        BY <3>2, <3>3, <1>t
      <4>4. \A i, j \in 1 .. n + 1 : i # j => producers_'[i] # producers_'[j]
        BY <1>i, <3>3, <4>3 DEF DistinctInv
      <4>5. \A q, r \in Sender : q # r /\ manager'[q] # None => manager'[q] # manager'[r]
        BY <1>i, <4>1 DEF DistinctInv
      <4>6. \A i \in 1 .. n + 1, q \in Sender : producers_'[i] # manager'[q]
        BY <1>i, <3>3, <4>1, <4>2, <4>3 DEF DistinctInv
      <4> QED
        BY <3>2, <4>4, <4>5, <4>6 DEF DistinctInv
    <3>5. CreatedInv'
      BY <1>i, <1>t, <3>2, <3>3 DEF CreatedInv, None
    <3>6. CompleteInv'
      <4>1. ASSUME NEW q \in 1 .. created
            PROVE  InPool(q)' \/ \E r \in Sender : manager'[r] = q
        <5>1. CASE InPool(q)
          BY <5>1, <3>2, <1>t DEF InPool
        <5>2. CASE \E r \in Sender \ {s} : manager[r] = q
          BY <5>2, <3>2, <1>t
        <5>3. CASE manager[s] = q
          <6>1. n + 1 \in 1 .. Len(producers_')
            BY <3>2, <1>t
          <6> QED
            BY <5>3, <6>1, <3>2 DEF InPool
        <5> QED
          BY <5>1, <5>2, <5>3, <1>i, <3>2 DEF CompleteInv
      <4> QED
        BY <3>2, <4>1 DEF CompleteInv
    <3> QED
      BY <3>4, <3>5, <3>6 DEF Owned
  <2>6. CASE UseDestroyed(s)
    BY <2>6, OwnedFrame DEF UseDestroyed, poolVars, sendVars
  <2> QED
    BY <1>5, <2>1, <2>2, <2>3, <2>4, <2>5, <2>6 DEF SendStep
<1>6. ASSUME NEW p \in Producer, Poll(p) \/ PollEnds(p) PROVE Owned'
  <2>1. ~(p > created)
    BY <1>6, PollingCreated DEF Poll, PollEnds
  <2>2. CASE Poll(p)
    BY <2>1, <2>2, <1>t, OwnedFrame DEF Poll, poolVars, sendVars
  <2>3. CASE PollEnds(p)
    BY <2>1, <2>3, <1>t, OwnedFrame DEF PollEnds, poolVars, sendVars
  <2> QED
    BY <1>6, <2>2, <2>3
<1>7. CASE MainReturns
  BY <1>7, OwnedFrame DEF MainReturns, poolVars, sendVars
<1>8. CASE SignalExit
  BY <1>8, OwnedFrame DEF SignalExit, poolVars, sendVars
<1>9. CASE DestroyStop
  <2>1. Head(producers_) \in Producer
    BY <1>9, <1>t, HeadTailProperties DEF DestroyStop
  <2>2. ~(Head(producers_) > created)
    BY <1>9, <2>1, PollingCreated DEF DestroyStop
  <2> QED
    BY <1>9, <1>t, <2>1, <2>2, OwnedFrame DEF DestroyStop, poolVars, sendVars
<1>10. CASE DestroyProducer
  <2> DEFINE n == Len(producers_)
  <2>1. /\ Len(producers_') = n - 1
        /\ \A i \in 1 .. n - 1 : producers_'[i] = producers_[i + 1]
        /\ manager' = manager /\ created' = created /\ polling' = polling
        /\ mainPc' = "destroy"
    BY <1>10, <1>t, HeadTailProperties DEF DestroyProducer, sendVars
  <2>2. \A i \in 1 .. n - 1 : i + 1 \in 1 .. n
    BY <1>t
  <2>3. DistinctInv'
    <3>1. \A i, j \in 1 .. n - 1 : i # j => i + 1 # j + 1
      BY <1>t
    <3> QED
      BY <1>i, <2>1, <2>2, <3>1 DEF DistinctInv
  <2>4. CreatedInv'
    BY <1>i, <2>1, <2>2 DEF CreatedInv
  <2>5. CompleteInv'
    BY <2>1 DEF CompleteInv
  <2> QED
    BY <2>3, <2>4, <2>5 DEF Owned
<1>11. CASE DestroyConf \/ ProcessEnds
  BY <1>11, OwnedFrame DEF DestroyConf, ProcessEnds, poolVars, sendVars
<1>12. CASE UNCHANGED vars
  BY <1>12, OwnedFrame DEF vars, poolVars, sendVars
<1> QED
  BY <1>1, <1>2, <1>3, <1>4, <1>5, <1>6, <1>7, <1>8, <1>9, <1>10, <1>11, <1>12
     DEF Next, InitStep, DestroyStep

-----------------------------------------------------------------------------
(* The bound on the pool *)

(* An empty pool means that every producer is with a sender of its own,    *)
(* and the one that asks has none.                                         *)
LEMMA EmptyPoolBound ==
  ASSUME Inv, mainPc = "run", producers_ = <<>>, NEW s \in Sender, sendPc[s] = "idle"
  PROVE  created + 1 <= Cardinality(Sender)
<1>1. created \in Nat /\ Cardinality(Sender) \in Nat
  BY BoundAssumption, SenderAssumption, FS_CardinalityType DEF Inv, TypeOK
<1>2. manager[s] = None
  BY DEF Inv, SenderInv
<1>3. \A p \in 1 .. created : \E r \in Sender : manager[r] = p
  BY EmptySeq DEF Inv, CompleteInv, InPool
<1> DEFINE f == [p \in 1 .. created |-> CHOOSE r \in Sender : manager[r] = p]
<1>4. \A p \in 1 .. created : f[p] \in Sender /\ manager[f[p]] = p
  BY <1>3
<1>5. \A p \in 1 .. created : f[p] # s
  BY <1>1, <1>2, <1>4 DEF None
<1>6. f \in Injection(1 .. created, Sender \ {s})
  BY <1>4, <1>5 DEF Injection, IsInjective
<1>7. /\ IsFiniteSet(Sender \ {s})
      /\ Cardinality(Sender \ {s}) = Cardinality(Sender) - 1
  BY SenderAssumption, FS_RemoveElement
<1>8. Cardinality(1 .. created) <= Cardinality(Sender) - 1
  BY <1>6, <1>7, FS_Injection
<1>9. Cardinality(1 .. created) = created
  <2>1. Cardinality(1 .. created) = IF 1 > created THEN 0 ELSE created - 1 + 1
    BY <1>1, FS_Interval
  <2> QED
    BY <1>1, <2>1
<1> QED
  BY <1>1, <1>8, <1>9

(* Only init_parameters and an acquire on an empty pool make producers. *)
LEMMA NextBound == Inv /\ [Next]_vars => BoundInv'
<1> SUFFICES ASSUME Inv, [Next]_vars PROVE BoundInv'
  OBVIOUS
<1>t. created \in Nat /\ poolSize \in Nat /\ BoundInv
  BY BoundAssumption DEF Inv, TypeOK
<1>1. CASE BuildProducer
  BY <1>1, <1>t DEF BuildProducer, NewProducer, BoundInv
<1>2. ASSUME NEW s \in Sender, Acquire(s) PROVE BoundInv'
  <2>1. CASE producers_ = <<>>
    <3>1. created + 1 <= Cardinality(Sender)
      BY <1>2, <2>1, EmptyPoolBound DEF Acquire
    <3> QED
      BY <1>2, <2>1, <3>1 DEF Acquire, NewProducer, BoundInv
  <2>2. CASE producers_ # <<>>
    BY <1>2, <1>t, <2>2 DEF Acquire, BoundInv
  <2> QED
    BY <2>1, <2>2
<1>3. CASE created' = created /\ (mainPc' = "build" => mainPc = "build")
  BY <1>3, <1>t DEF BoundInv
<1>4. \/ BuildProducer
      \/ \E s \in Sender : Acquire(s)
      \/ created' = created /\ (mainPc' = "build" => mainPc = "build")
  BY DEF Next, InitStep, SendStep, DestroyStep, CreateFails, AssignPool, DestroyTemporary,
         Produce, Flush, Collect, UseDestroyed, Poll, PollEnds, MainReturns, SignalExit,
         DestroyStop, DestroyProducer, DestroyConf, ProcessEnds, vars, poolVars
<1> QED
  BY <1>1, <1>2, <1>3, <1>4

-----------------------------------------------------------------------------
(* The callbacks *)

CallInv == ConfInv /\ QuietInv /\ CallbacksAlive

(* Before main() returns, QuietInv asks for nothing. *)
LEMMA EarlyCalls ==
  ASSUME ConfInv', mainPc' \in {"build", "assigned", "run", "exited", "crashed"}, CallbacksAlive'
  PROVE  CallInv'
  BY DEF CallInv, QuietInv

(* Whoever may call a callback keeps it alive, unless exit() was called. *)
LEMMA NextCalls == Inv /\ [Next]_vars => CallInv'
<1> SUFFICES ASSUME Inv, [Next]_vars PROVE CallInv'
  OBVIOUS
<1>t. /\ producers_ \in Seq(Producer) /\ created \in Nat /\ MaxCreate \in Nat
      /\ created <= MaxCreate
      /\ polling \in [Producer -> {"none", "on", "stop", "off"}]
      /\ sendPc \in [Sender -> {"idle", "produce", "flush", "collect"}]
      /\ Len(producers_) \in Nat
  BY BoundAssumption, LenProperties DEF Inv, TypeOK
<1>i. ConfInv /\ QuietInv /\ CallbacksAlive
  BY DEF Inv
<1>1. CASE BuildProducer
  BY <1>1, <1>i, EarlyCalls DEF BuildProducer, ConfInv, CallbacksAlive, confVars
<1>2. CASE CreateFails
  BY <1>2, <1>i, EarlyCalls DEF CreateFails, ConfInv, CallbacksAlive, confVars
<1>3. CASE AssignPool
  BY <1>3, <1>i, EarlyCalls DEF AssignPool, SourceNulled, ConfInv, CallbacksAlive
<1>4. CASE DestroyTemporary
  BY <1>4, <1>i, EarlyCalls DEF DestroyTemporary, ConfInv, CallbacksAlive
<1>5. ASSUME NEW s \in Sender, SendStep(s) \/ UseDestroyed(s) PROVE CallInv'
  <2>1. CASE Acquire(s)
    BY <2>1, <1>i, EarlyCalls DEF Acquire, ConfInv, CallbacksAlive, confVars
  <2>2. CASE Produce(s) \/ Flush(s)
    <3>1. mainPc \in {"build", "assigned", "run", "destroy", "freed"} /\ sendPc[s] # "idle"
      BY <2>2 DEF Produce, Flush, Up, Inv, TypeOK
    <3>2. abrupt \/ mainPc \notin {"destroy", "freed"}
      BY <3>1, <1>i DEF QuietInv
    <3>3. abrupt \/ callbacks
      BY <3>1, <3>2, <1>i DEF ConfInv
    <3>4. /\ UNCHANGED <<confVars, mainPc, abrupt>>
          /\ usedFreed' = usedFreed \/ usedFreed' = (usedFreed \/ ~callbacks)
      BY <2>2 DEF Produce, Flush
    <3>5. CallbacksAlive'
      BY <3>3, <3>4, <1>i DEF CallbacksAlive
    <3>6. ConfInv'
      BY <3>4, <1>i DEF ConfInv, confVars
    <3>7. QuietInv'
      BY <3>2, <3>4 DEF QuietInv
    <3> QED
      BY <3>5, <3>6, <3>7 DEF CallInv
  <2>3. CASE Collect(s)
    BY <2>3, <1>i, EarlyCalls DEF Collect, ConfInv, CallbacksAlive, confVars
  <2>4. CASE UseDestroyed(s)
    BY <2>4, <1>i, EarlyCalls DEF UseDestroyed, ConfInv, CallbacksAlive, confVars
  <2> QED
    BY <1>5, <2>1, <2>2, <2>3, <2>4 DEF SendStep
<1>6. ASSUME NEW p \in Producer, Poll(p) \/ PollEnds(p) PROVE CallInv'
  <2>1. p \in 1 .. created
    BY <1>6, <1>t, PollingCreated DEF Poll, PollEnds, Producer
  <2>2. abrupt \/ callbacks
    <3> SUFFICES ASSUME ~abrupt, ~callbacks PROVE FALSE
      OBVIOUS
    <3>1. mainPc = "freed"
      BY <1>6, <1>i DEF Poll, PollEnds, Up, Inv, TypeOK, ConfInv
    <3>2. producers_ = <<>> /\ (InPool(p) \/ polling[p] = "off")
      BY <1>i, <2>1, <3>1 DEF QuietInv
    <3>3. ~InPool(p)
      BY <3>2, EmptySeq DEF InPool
    <3> QED
      BY <1>6, <3>2, <3>3 DEF Poll, PollEnds
  <2>3. /\ UNCHANGED <<confVars, mainPc, abrupt, producers_, created, sendPc>>
        /\ usedFreed' = usedFreed \/ usedFreed' = (usedFreed \/ ~callbacks)
        /\ \A q \in Producer : polling[q] = "off" => polling'[q] = "off"
    BY <1>6, <1>t DEF Poll, PollEnds, PollAgain, poolVars, sendVars
  <2>4. CallbacksAlive'
    BY <2>2, <2>3, <1>i DEF CallbacksAlive
  <2>5. ConfInv'
    BY <2>3, <1>i DEF ConfInv, confVars
  <2>6. QuietInv'
    <3>1. \A q \in 1 .. created : q \in Producer
      BY <1>t DEF Producer
    <3>2. \A q : InPool(q)' <=> InPool(q)
      BY <2>3 DEF InPool
    <3> QED
      BY <1>i, <2>3, <3>1, <3>2 DEF QuietInv
  <2> QED
    BY <2>4, <2>5, <2>6 DEF CallInv
<1>7. CASE MainReturns
  <2>1. \A s \in Sender : manager[s] = None
    BY <1>7 DEF MainReturns, Inv, SenderInv
  <2>2. \A p \in 1 .. created : InPool(p)
    BY <1>7, <2>1, <1>t DEF MainReturns, Inv, CompleteInv, None
  <2>3. \A q : InPool(q)' <=> InPool(q)
    BY <1>7 DEF InPool, MainReturns, poolVars
  <2>4. QuietInv'
    BY <1>7, <2>2, <2>3 DEF MainReturns, QuietInv, poolVars, sendVars
  <2> QED
    BY <1>7, <1>i, <2>4 DEF MainReturns, CallInv, ConfInv, CallbacksAlive, confVars
<1>8. CASE SignalExit
  BY <1>8, <1>i DEF SignalExit, CallInv, QuietInv, ConfInv, CallbacksAlive, confVars
<1>9. CASE DestroyStop
  <2>1. \A q \in Producer : polling[q] = "off" => polling'[q] = "off"
    BY <1>9, <1>t DEF DestroyStop
  <2>2. \A q \in 1 .. created : q \in Producer
    BY <1>t DEF Producer
  <2>3. \A q : InPool(q)' <=> InPool(q)
    BY <1>9 DEF InPool, DestroyStop, poolVars
  <2>4. QuietInv'
    BY <1>9, <1>i, <2>1, <2>2, <2>3 DEF DestroyStop, QuietInv, poolVars, sendVars
  <2> QED
    BY <1>9, <1>i, <2>4 DEF DestroyStop, CallInv, ConfInv, CallbacksAlive, confVars
<1>10. CASE DestroyProducer
  <2> DEFINE n == Len(producers_)
  <2>1. /\ Len(producers_') = n - 1
        /\ \A i \in 1 .. n - 1 : producers_'[i] = producers_[i + 1]
        /\ polling[producers_[1]] = "off"
    BY <1>10, <1>t, HeadTailProperties DEF DestroyProducer
  <2>2. ASSUME NEW q \in 1 .. created, InPool(q) PROVE InPool(q)' \/ polling[q] = "off"
    <3>1. PICK i \in 1 .. n : producers_[i] = q
      BY <2>2 DEF InPool
    <3>2. CASE i = 1
      BY <2>1, <3>1, <3>2
    <3>3. CASE i # 1
      <4>1. i - 1 \in 1 .. n - 1 /\ (i - 1) + 1 = i
        BY <1>t, <3>3
      <4>2. producers_'[i - 1] = q
        BY <2>1, <3>1, <4>1
      <4> QED
        BY <2>1, <4>1, <4>2 DEF InPool
    <3> QED
      BY <3>2, <3>3
  <2>3. QuietInv'
    BY <1>10, <1>i, <2>2 DEF DestroyProducer, QuietInv, sendVars
  <2>4. callbacks
    BY <1>10, <1>i DEF DestroyProducer, ConfInv
  <2> QED
    BY <1>10, <1>i, <2>3, <2>4 DEF DestroyProducer, CallInv, ConfInv, CallbacksAlive, confVars
<1>11. CASE DestroyConf
  <2>1. \A q : InPool(q)' <=> InPool(q)
    BY <1>11 DEF InPool, DestroyConf, poolVars
  <2>2. QuietInv'
    BY <1>11, <1>i, <2>1 DEF DestroyConf, QuietInv, poolVars, sendVars
  <2> QED
    BY <1>11, <1>i, <2>2 DEF DestroyConf, CallInv, ConfInv, CallbacksAlive
<1>12. CASE ProcessEnds
  BY <1>12, <1>i, EarlyCalls DEF ProcessEnds, ConfInv, CallbacksAlive, confVars
<1>13. CASE UNCHANGED vars
  <2>1. \A q : InPool(q)' <=> InPool(q)
    BY <1>13 DEF InPool, vars, poolVars
  <2> QED
    BY <1>13, <1>i, <2>1 DEF vars, confVars, poolVars, sendVars, CallInv, ConfInv, QuietInv, CallbacksAlive
<1> QED
  BY <1>1, <1>2, <1>3, <1>4, <1>5, <1>6, <1>7, <1>8, <1>9, <1>10, <1>11, <1>12, <1>13
     DEF Next, InitStep, DestroyStep

-----------------------------------------------------------------------------
(* The theorems *)

(* Before the first step there is no producer, no message and no sender. *)
LEMMA InitInv == Init => Inv
<1> SUFFICES ASSUME Init PROVE Inv
  OBVIOUS
<1>1. TypeInv
  BY InitType
<1>2. Len(producers_) = 0 /\ created = 0
  BY EmptySeq DEF Init
<1>3. DistinctInv /\ CreatedInv
  BY <1>2, BoundAssumption DEF Init, DistinctInv, CreatedInv, None
<1>4. CompleteInv /\ BoundInv
  BY <1>2, BoundAssumption DEF CompleteInv, BoundInv
<1>5. ConfInv /\ QuietInv /\ CallbacksAlive
  BY DEF Init, ConfInv, QuietInv, CallbacksAlive
<1> QED
  BY <1>1, <1>3, <1>4, <1>5 DEF Inv, TypeInv

(* Inv is inductive. *)
LEMMA NextInv == Inv /\ [Next]_vars => Inv'
  BY NextType, NextOwned, NextBound, NextCalls DEF Inv, TypeInv, Owned, CallInv

(* ProducerPool is type correct for any senders, producers and messages:   *)
(* the unreported messages of a producer, which several senders use in     *)
(* turn, never outnumber the calls of send_one_msg.                        *)
THEOREM TypeCorrect == Spec => []TypeOK
<1>1. Inv => TypeOK
  BY DEF Inv
<1> QED
  BY InitInv, NextInv, <1>1, PTL DEF Spec

(* Distinct places and a complete pool mean exactly one place. *)
LEMMA InvOwned == Inv => ProducerOwnedOnce
<1> SUFFICES ASSUME Inv, mainPc = "run", NEW p \in 1 .. created
             PROVE  Cardinality({n \in DOMAIN producers_ : producers_[n] = p})
                      + Cardinality(Holders(p)) = 1
  BY DEF ProducerOwnedOnce
<1> DEFINE Places == {n \in DOMAIN producers_ : producers_[n] = p}
<1>1. DOMAIN producers_ = 1 .. Len(producers_) /\ p # None
  BY LenProperties DEF Inv, TypeOK, None
<1>2. Cardinality({}) = 0 /\ \A x : Cardinality({x}) = 1
  BY FS_EmptySet, FS_Singleton
<1>3. CASE InPool(p)
  <2>1. PICK i \in 1 .. Len(producers_) : producers_[i] = p
    BY <1>3 DEF InPool
  <2>2. Places = {i}
    BY <1>1, <2>1 DEF Inv, DistinctInv
  <2>3. Holders(p) = {}
    BY <2>1 DEF Inv, DistinctInv, Holders
  <2>4. Cardinality(Places) = 1 /\ Cardinality(Holders(p)) = 0
    BY <1>2, <2>2, <2>3, Zenon
  <2> QED
    BY <2>4
<1>4. CASE ~InPool(p)
  <2>1. PICK s \in Sender : manager[s] = p
    BY <1>4 DEF Inv, CompleteInv
  <2>2. Places = {}
    BY <1>1, <1>4 DEF InPool
  <2>3. Holders(p) = {s}
    BY <1>1, <2>1 DEF Inv, DistinctInv, Holders
  <2>4. Cardinality(Places) = 0 /\ Cardinality(Holders(p)) = 1
    BY <1>2, <2>2, <2>3, Zenon
  <2> QED
    BY <2>4
<1> QED
  BY <1>3, <1>4

(* Whatever the interleaving of acquire, produce and collect, every        *)
(* producer is once in the pool or with one sender while the program runs. *)
THEOREM ProducersOwnedOnce == Spec => []ProducerOwnedOnce
  BY InitInv, NextInv, InvOwned, PTL DEF Spec

(* The larger of two numbers. *)
LEMMA MaxOfTwo ==
  ASSUME NEW a \in Nat, NEW b \in Nat
  PROVE  Max({a, b}) \in Nat /\ a <= Max({a, b}) /\ b <= Max({a, b})
<1>1. \E x \in {a, b} : \A y \in {a, b} : x >= y
  BY SMT
<1>2. Max({a, b}) \in {a, b} /\ \A y \in {a, b} : Max({a, b}) >= y
  BY <1>1 DEF Max
<1> QED
  BY <1>2

(* The pool grows to poolSize, or to one producer per sending thread, and  *)
(* no further, however often acquire finds it empty.                       *)
THEOREM PoolIsBounded == Spec => []PoolBounded
<1>1. Inv => PoolBounded
  <2> SUFFICES ASSUME Inv PROVE PoolBounded
    OBVIOUS
  <2>1. created \in Nat /\ poolSize \in Nat /\ Cardinality(Sender) \in Nat
    BY BoundAssumption, SenderAssumption, FS_CardinalityType DEF Inv, TypeOK
  <2>2. created <= poolSize \/ created <= Cardinality(Sender)
    BY DEF Inv, BoundInv
  <2> DEFINE m == Max({poolSize, Cardinality(Sender)})
  <2>3. m \in Nat /\ poolSize <= m /\ Cardinality(Sender) <= m
    BY <2>1, MaxOfTwo
  <2> HIDE DEF m
  <2>4. created <= m
    BY <2>1, <2>2, <2>3
  <2> QED
    BY <2>4 DEF m, PoolBounded
<1> QED
  BY InitInv, NextInv, <1>1, PTL DEF Spec

(* No callback is called after its deletion, neither when the temporary    *)
(* pool is destroyed nor when the global one flushes its producers, unless *)
(* exit() ran while senders were at work.                                  *)
THEOREM CallbacksOutlive == Spec => []CallbacksAlive
<1>1. Inv => CallbacksAlive
  BY DEF Inv
<1> QED
  BY InitInv, NextInv, <1>1, PTL DEF Spec

=============================================================================
