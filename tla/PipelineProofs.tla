---------------------------- MODULE PipelineProofs ----------------------------
(***************************************************************************)
(* Proofs about Pipeline, for any finite set of keys, any GPUs and any     *)
(* number of packets: no packet is lost or duplicated between the capture  *)
(* queue and the message, and queues and executors are used in steps of    *)
(* Handoff and Executor.                                                   *)
(***************************************************************************)
EXTENDS Pipeline, TLAPS, SequenceTheorems, FiniteSetTheorems, WellFoundedInduction

-----------------------------------------------------------------------------
(* The invariant *)

InQueue(p) == p \in 1 .. sent /\ handed[p] = 0
InTodo(p) == \E t \in Task : p \in todo[t]
InTable(p) == \E k \in Key : p \in ToSet(table[k])
InFlow(p) == \E f \in 1 .. Len(flows) : p \in ToSet(flows[f])

PacketList == Seq(Packet)

(* The types of what holds packets, and of what holds flows *)
PacketType ==
  /\ min_packets \in MinPackets
  /\ sent \in 0 .. NumPackets
  /\ batches \in 0 .. NumPackets
  /\ handed \in [Packet -> 0 .. NumPackets]
  /\ todo \in [Task -> SUBSET Packet]
  /\ table \in [Key -> PacketList]
  /\ flows \in Seq(PacketList)
  /\ expired \in SUBSET Packet
  /\ unparsed \in SUBSET Packet

FlowType ==
  /\ flowBatches \in 0 .. NumPackets
  /\ flowHanded \in [FlowId -> 0 .. flowBatches]
  /\ flowStatus \in [Task -> {"new", "queued", "running", "ready", "dropped"}]
  /\ messages \in SUBSET FlowId
  /\ lost \in SUBSET FlowId

Apart(s, t) == ToSet(s) \cap ToSet(t) = {}

(* No packet is twice in the table, in the flows or in the tasks. *)
TodoApart == \A t, u \in Task : t # u => todo[t] \cap todo[u] = {}
NotYet ==
  /\ \A p \in Packet : p > sent => handed[p] = 0
  /\ \A t \in Task : t > batches => todo[t] = {}
TableApart ==
  /\ \A k \in Key : IsInjective(table[k])
  /\ \A j, k \in Key : j # k => Apart(table[j], table[k])
FlowsApart ==
  /\ \A f \in 1 .. Len(flows) : IsInjective(flows[f]) /\ flows[f] # <<>>
  /\ \A f, g \in 1 .. Len(flows) : f # g => Apart(flows[f], flows[g])

(* A captured packet is in one of six kinds of place. *)
OneKind(p) ==
  /\ InQueue(p) => ~(InTodo(p) \/ InTable(p) \/ InFlow(p) \/ p \in expired \/ p \in unparsed)
  /\ InTodo(p) => ~(InTable(p) \/ InFlow(p) \/ p \in expired \/ p \in unparsed)
  /\ InTable(p) => ~(InFlow(p) \/ p \in expired \/ p \in unparsed)
  /\ InFlow(p) => ~(p \in expired \/ p \in unparsed)
  /\ ~(p \in expired /\ p \in unparsed)
  /\ p <= sent <=> InQueue(p) \/ InTodo(p) \/ InTable(p) \/ InFlow(p) \/ p \in expired \/ p \in unparsed

PlaceInv == \A p \in Packet : OneKind(p)

(* A flow is settled when its task has ended, in one way. *)
FlowInv ==
  /\ Len(flows) <= NumPackets
  /\ \A f \in FlowId :
       /\ flowHanded[f] # 0 => f <= Len(flows)
       /\ f \in messages \cup lost <=> flowHanded[f] # 0 /\ flowStatus[flowHanded[f]] = "ready"
  /\ messages \cap lost = {}

PacketInv == PacketType /\ NotYet /\ TodoApart /\ TableApart /\ FlowsApart /\ PlaceInv
Inv == PacketInv /\ FlowType /\ FlowInv

-----------------------------------------------------------------------------
(* Sets and sequences *)

(* The least of a set of packets is one of them. *)
LEMMA MinMember ==
  ASSUME NEW T \in SUBSET Nat, T # {}
  PROVE  Min(T) \in T
<1>1. IsWellFoundedOn(OpToRel(<, Nat), Nat)
  BY NatLessThanWellFounded
<1>2. PICK x \in T : \A y \in T : ~ (<<y, x>> \in OpToRel(<, Nat))
  BY <1>1, WFMin
<1>3. \A y \in T : <<y, x>> \in Nat \X Nat
  OBVIOUS
<1>4. \A y \in T : ~ (<<y, x>>[1] < <<y, x>>[2])
  BY <1>2, <1>3, Zenon DEF OpToRel
<1>5. \A y \in T : x <= y
  BY <1>4
<1> QED
  BY <1>5 DEF Min

(* The elements of a sequence. *)
LEMMA SeqSet ==
  ASSUME NEW S, NEW s \in Seq(S)
  PROVE  /\ DOMAIN s = 1 .. Len(s) /\ Len(s) \in Nat
         /\ ToSet(s) \in SUBSET S
         /\ \A x : x \in ToSet(s) <=> \E i \in 1 .. Len(s) : s[i] = x
         /\ s # <<>> => s[1] \in ToSet(s)
         /\ s # <<>> => Len(s) >= 1
<1>1. DOMAIN s = 1 .. Len(s) /\ Len(s) \in Nat
  BY LenProperties
<1>2. \A i \in 1 .. Len(s) : s[i] \in S
  BY ElementOfSeq
<1>3. s # <<>> => 1 \in 1 .. Len(s)
  BY <1>1, EmptySeq
<1> QED
  BY <1>1, <1>2, <1>3 DEF ToSet

(* The empty list repeats nothing. *)
LEMMA EmptyOnce == IsInjective(<<>>) /\ ToSet(<<>>) = {}
  BY DEF IsInjective, ToSet

(* One more packet in a list. *)
LEMMA AppendOnce ==
  ASSUME NEW S, NEW s \in Seq(S), NEW e \in S, e \notin ToSet(s), IsInjective(s)
  PROVE  IsInjective(Append(s, e)) /\ ToSet(Append(s, e)) = ToSet(s) \cup {e}
<1>1. PICK t : t = Append(s, e)
  OBVIOUS
<1>2. /\ t \in Seq(S) /\ Len(t) = Len(s) + 1
      /\ \A i \in 1 .. Len(s) : t[i] = s[i]
      /\ t[Len(s) + 1] = e
  BY <1>1, AppendProperties
<1>3. DOMAIN t = 1 .. Len(s) + 1 /\ DOMAIN s = 1 .. Len(s) /\ Len(s) \in Nat
  BY <1>2, LenProperties
<1>4. \A i \in 1 .. Len(s) : s[i] # e
  BY <1>3 DEF ToSet
<1>5. IsInjective(t)
  BY <1>2, <1>3, <1>4 DEF IsInjective
<1>6. \A i \in 1 .. Len(s) + 1 : i \in 1 .. Len(s) \/ i = Len(s) + 1
  BY <1>3
<1>7. \A x : x \in ToSet(t) <=> x \in ToSet(s) \cup {e}
  BY <1>2, <1>3, <1>6 DEF ToSet
<1> QED
  BY <1>1, <1>5, <1>7

(* A list with one packet. *)
LEMMA SingleOnce ==
  ASSUME NEW e
  PROVE  IsInjective(<<e>>) /\ ToSet(<<e>>) = {e} /\ <<e>> # <<>>
  BY DEF IsInjective, ToSet

(* The order in which the sweep enqueues the complete lists is not fixed,  *)
(* but each is enqueued once.                                              *)
LEMMA SetToSeqFacts ==
  ASSUME NEW S, IsFiniteSet(S)
  PROVE  /\ SetToSeq(S) \in Seq(S)
         /\ IsInjective(SetToSeq(S))
         /\ \A x : x \in S <=> \E i \in 1 .. Len(SetToSeq(S)) : SetToSeq(S)[i] = x
<1>1. PICK n \in Nat : n = Cardinality(S)
  BY FS_CardinalityType
<1>2. PICK b : b \in Bijection(1 .. n, S)
  BY <1>1, FS_CardinalityType DEF ExistsBijection
<1>3. b \in [1 .. n -> S] /\ IsInjective(b)
  BY <1>2 DEF Bijection, Injection
<1>4. PICK s : s = SetToSeq(S)
  OBVIOUS
<1>5. s \in [1 .. n -> S] /\ IsInjective(s)
  BY <1>1, <1>3, <1>4 DEF SetToSeq
<1>6. s \in Seq(S)
  BY <1>5, SeqDef
<1>7. s \in Surjection(1 .. n, S)
  <2>1. s \in Injection(1 .. n, S)
    BY <1>5 DEF Injection
  <2>2. IsFiniteSet(1 .. n) /\ Cardinality(1 .. n) = n
    BY FS_Interval
  <2> QED
    BY <1>1, <2>1, <2>2, FS_Injection
<1>8. DOMAIN s = 1 .. n /\ DOMAIN s = 1 .. Len(s)
  BY <1>5, <1>6, LenProperties
<1>9. \A x : x \in S <=> \E i \in DOMAIN s : s[i] = x
  BY <1>5, <1>7, <1>8 DEF Surjection
<1> QED
  BY <1>4, <1>5, <1>6, <1>8, <1>9

(* The image of a finite set of keys is finite. *)
LEMMA ImageFinite ==
  ASSUME NEW R, IsFiniteSet(R), NEW lists
  PROVE  IsFiniteSet({lists[k] : k \in R})
<1>1. PICK T : T = {lists[k] : k \in R}
  OBVIOUS
<1>2. PICK f : f = [k \in R |-> lists[k]]
  OBVIOUS
<1>3. f \in [R -> T]
  BY <1>1, <1>2
<1>4. \A x \in T : \E k \in R : f[k] = x
  BY <1>1, <1>2
<1>5. f \in Surjection(R, T)
  BY <1>3, <1>4, Zenon DEF Surjection
<1>6. IsFiniteSet(T)
  BY <1>5, FS_Surjection
<1> QED
  BY <1>1, <1>6

(* An injection into 1 .. m has at most m arguments. *)
LEMMA InjectionBound ==
  ASSUME NEW n \in Nat, NEW m \in Nat, NEW f \in [1 .. n -> 1 .. m],
         \A i, j \in 1 .. n : i # j => f[i] # f[j]
  PROVE  n <= m
<1>1. IsFiniteSet(1 .. n) /\ Cardinality(1 .. n) = n
  BY FS_Interval
<1>2. IsFiniteSet(1 .. m) /\ Cardinality(1 .. m) = m
  BY FS_Interval
<1>3. ~(m < n)
  BY <1>1, <1>2, FS_PigeonHole
<1> QED
  BY <1>3

(* There are no more flows than packets: none is empty, no two share one. *)
LEMMA FlowRoom ==
  ASSUME NEW s \in Seq(PacketList),
         \A f \in 1 .. Len(s) : s[f] # <<>>,
         \A f, g \in 1 .. Len(s) : f # g => Apart(s[f], s[g])
  PROVE  Len(s) <= NumPackets
<1>t. NumPackets \in Nat /\ Len(s) \in Nat
  BY NumPacketsAssumption, LenProperties
<1>1. \A f \in 1 .. Len(s) : s[f][1] \in Packet /\ s[f][1] \in ToSet(s[f])
  <2> SUFFICES ASSUME NEW f \in 1 .. Len(s) PROVE s[f][1] \in Packet /\ s[f][1] \in ToSet(s[f])
    OBVIOUS
  <2>1. s[f] \in PacketList /\ s[f] # <<>>
    BY ElementOfSeq
  <2> QED
    BY <2>1, SeqSet DEF PacketList
<1>2. PICK n : n = Len(s)
  OBVIOUS
<1>3. PICK first : first = [f \in 1 .. n |-> s[f][1]]
  OBVIOUS
<1>4. first \in [1 .. n -> Packet] /\ \A f \in 1 .. n : first[f] \in ToSet(s[f])
  BY <1>1, <1>2, <1>3
<1>5. \A f, g \in 1 .. n : f # g => first[f] # first[g]
  BY <1>2, <1>4 DEF Apart
<1>6. n <= NumPackets
  BY <1>2, <1>4, <1>5, <1>t, InjectionBound DEF Packet
<1> QED
  BY <1>2, <1>6

-----------------------------------------------------------------------------
(* The steps that move packets *)

(* The lists are sequences of packets. *)
LEMMA ListFacts ==
  ASSUME PacketType
  PROVE  /\ \A k \in Key : table[k] \in Seq(Packet) /\ ToSet(table[k]) \in SUBSET Packet
         /\ \A f \in 1 .. Len(flows) : flows[f] \in Seq(Packet) /\ ToSet(flows[f]) \in SUBSET Packet
         /\ Len(flows) \in Nat
         /\ \A p \in Packet : p \in Nat
         /\ NumPackets \in Nat
<1>1. \A k \in Key : table[k] \in Seq(Packet)
  BY DEF PacketType, PacketList
<1>2. \A f \in 1 .. Len(flows) : flows[f] \in PacketList
  BY ElementOfSeq DEF PacketType
<1>3. Len(flows) \in Nat
  BY LenProperties DEF PacketType
<1>4. \A f \in 1 .. Len(flows) : flows[f] \in Seq(Packet)
  BY <1>2 DEF PacketList
<1> QED
  BY <1>1, <1>3, <1>4, SeqSet, NumPacketsAssumption DEF Packet

(* liveHandler puts a packet in the capture queue. *)
LEMMA PutPacket == Inv /\ LiveHandler => PacketInv'
<1> SUFFICES ASSUME Inv, LiveHandler PROVE PacketInv'
  OBVIOUS
<1>t. /\ PacketType /\ NotYet /\ TodoApart /\ TableApart /\ FlowsApart /\ PlaceInv
      /\ NumPackets \in Nat /\ sent \in 0 .. NumPackets
      /\ \A p \in Packet : p \in 1 .. NumPackets
  BY NumPacketsAssumption DEF Inv, PacketInv, PacketType, Packet
<1>1. /\ sent < NumPackets /\ sent' = sent + 1
      /\ UNCHANGED <<min_packets, handed, batches, todo, table, flows, expired, unparsed>>
  BY DEF LiveHandler, PacketQueue!Put, threadVars, tableVars
<1>2. PICK p \in Packet : p = sent + 1
  BY <1>1, <1>t DEF Packet
<1>3. PacketType'
  BY <1>1, <1>t DEF PacketType
<1>4. NotYet'
  BY <1>1, <1>t DEF NotYet
<1>5. TodoApart' /\ TableApart' /\ FlowsApart'
  BY <1>1, <1>t DEF TodoApart, TableApart, FlowsApart, Apart
<1>6. ASSUME NEW q \in Packet
      PROVE  /\ InTodo(q)' <=> InTodo(q)
             /\ InTable(q)' <=> InTable(q)
             /\ InFlow(q)' <=> InFlow(q)
             /\ InQueue(q)' <=> InQueue(q) \/ q = p
             /\ q <= sent' <=> q <= sent \/ q = p
             /\ q = p => ~(q <= sent)
  <2>1. /\ InTodo(q)' <=> InTodo(q)
        /\ InTable(q)' <=> InTable(q)
        /\ InFlow(q)' <=> InFlow(q)
    BY <1>1 DEF InTodo, InTable, InFlow
  <2>2. handed[p] = 0
    BY <1>2, <1>t DEF NotYet
  <2>3. InQueue(q)' <=> InQueue(q) \/ q = p
    BY <1>1, <1>2, <1>t, <2>2 DEF InQueue
  <2>4. (q <= sent' <=> q <= sent \/ q = p) /\ (q = p => ~(q <= sent))
    BY <1>1, <1>2, <1>t
  <2> QED
    BY <2>1, <2>3, <2>4
<1>7. PlaceInv'
  <2> SUFFICES ASSUME NEW q \in Packet PROVE OneKind(q)'
    BY DEF PlaceInv
  <2>1. OneKind(q) /\ expired' = expired /\ unparsed' = unparsed
    BY <1>1, <1>t DEF PlaceInv
  <2> QED
    BY <1>6, <2>1 DEF OneKind
<1> QED
  BY <1>3, <1>4, <1>5, <1>7 DEF PacketInv

(* consumer_job reads a batch and adds a task for it. *)
LEMMA ReadPackets ==
  ASSUME Inv, NEW S \in SUBSET PacketQueue!Pending, S # {}, ConsumerRead(S)
  PROVE  PacketInv'
<1>t. /\ PacketType /\ NotYet /\ TodoApart /\ TableApart /\ FlowsApart /\ PlaceInv
      /\ NumPackets \in Nat /\ sent \in 0 .. NumPackets /\ batches \in 0 .. NumPackets
      /\ todo \in [Task -> SUBSET Packet] /\ handed \in [Packet -> 0 .. NumPackets]
      /\ \A p \in Packet : p \in 1 .. NumPackets
  BY NumPacketsAssumption DEF Inv, PacketInv, PacketType, Packet
<1>1. /\ batches < NumPackets /\ batches' = batches + 1 /\ sent' = sent
      /\ handed' = [i \in 1 .. NumPackets |-> IF i \in S THEN batches + 1 ELSE handed[i]]
      /\ todo' = [todo EXCEPT ![batches + 1] = S]
      /\ UNCHANGED <<min_packets, table, flows, expired, unparsed>>
  BY DEF ConsumerRead, PacketQueue!Take, ParserTasks!Submit, tableVars
<1>2. PICK nt \in Task : nt = batches + 1
  BY <1>1, <1>t DEF Task
<1>3. \A p \in S : p \in Packet /\ p \in 1 .. sent /\ handed[p] = 0
  BY <1>t DEF PacketQueue!Pending, Packet
<1>4. /\ todo'[nt] = S /\ todo[nt] = {}
      /\ \A t \in Task : t # nt => todo'[t] = todo[t]
  BY <1>1, <1>2, <1>t DEF NotYet, Task
<1>5. \A p \in Packet : handed'[p] = IF p \in S THEN nt ELSE handed[p]
  BY <1>1, <1>2 DEF Packet
<1>6. PacketType'
  <2>1. handed' \in [Packet -> 0 .. NumPackets]
    BY <1>1, <1>t DEF Packet
  <2>2. todo' \in [Task -> SUBSET Packet]
    BY <1>1, <1>2, <1>3, <1>t
  <2>3. batches' \in 0 .. NumPackets
    BY <1>1, <1>t
  <2> QED
    BY <1>1, <1>t, <2>1, <2>2, <2>3 DEF PacketType
<1>7. NotYet'
  <2>1. \A p \in Packet : p > sent => handed'[p] = 0
    <3> SUFFICES ASSUME NEW p \in Packet, p > sent PROVE handed'[p] = 0
      OBVIOUS
    <3>1. p \notin S
      BY <1>3, <1>t
    <3> QED
      BY <1>5, <1>t, <3>1 DEF NotYet
  <2>2. \A t \in Task : t > batches' => todo'[t] = {}
    <3> SUFFICES ASSUME NEW t \in Task, t > batches' PROVE todo'[t] = {}
      OBVIOUS
    <3>1. t # nt /\ t > batches
      BY <1>1, <1>2, <1>t DEF Task
    <3> QED
      BY <1>4, <1>t, <3>1 DEF NotYet
  <2> QED
    BY <1>1, <2>1, <2>2 DEF NotYet
<1>8. ASSUME NEW q \in Packet
      PROVE  /\ InQueue(q)' <=> InQueue(q) /\ q \notin S
             /\ q \in S => InQueue(q)
             /\ InTodo(q)' <=> InTodo(q) \/ q \in S
             /\ InTable(q)' <=> InTable(q)
             /\ InFlow(q)' <=> InFlow(q)
             /\ q <= sent' <=> q <= sent
  <2>1. /\ InTable(q)' <=> InTable(q)
        /\ InFlow(q)' <=> InFlow(q)
        /\ q <= sent' <=> q <= sent
    BY <1>1 DEF InTable, InFlow
  <2>2. (InQueue(q)' <=> InQueue(q) /\ q \notin S) /\ (q \in S => InQueue(q))
    <3>1. nt # 0
      BY <1>2, <1>t
    <3>2. handed'[q] = IF q \in S THEN nt ELSE handed[q]
      BY <1>5
    <3>3. InQueue(q)' <=> q \in 1 .. sent /\ handed'[q] = 0
      BY <1>1 DEF InQueue
    <3> QED
      BY <1>3, <3>1, <3>2, <3>3 DEF InQueue
  <2>3. InTodo(q)' <=> InTodo(q) \/ q \in S
    BY <1>4 DEF InTodo
  <2> QED
    BY <2>1, <2>2, <2>3
<1>9. TodoApart'
  <2>1. \A q \in S : ~InTodo(q)
    BY <1>3, <1>8, <1>t DEF PlaceInv, OneKind
  <2>2. \A t \in Task : t # nt => todo'[t] \cap S = {}
    BY <1>4, <2>1 DEF InTodo
  <2> QED
    BY <1>4, <1>t, <2>2 DEF TodoApart
<1>10. TableApart' /\ FlowsApart'
  BY <1>1, <1>t DEF TableApart, FlowsApart, Apart
<1>11. PlaceInv'
  <2> SUFFICES ASSUME NEW q \in Packet PROVE OneKind(q)'
    BY DEF PlaceInv
  <2>1. OneKind(q) /\ expired' = expired /\ unparsed' = unparsed
    BY <1>1, <1>t DEF PlaceInv
  <2> QED
    BY <1>8, <2>1 DEF OneKind
<1> QED
  BY <1>6, <1>7, <1>9, <1>10, <1>11 DEF PacketInv

(* parse_raw_packets drops the packets it cannot parse. *)
LEMMA ParsePackets ==
  ASSUME Inv, NEW t \in Task, NEW S \in SUBSET todo[t], ParseAndLock(t, S)
  PROVE  PacketInv'
<1>t. /\ PacketType /\ NotYet /\ TodoApart /\ TableApart /\ FlowsApart /\ PlaceInv
      /\ todo \in [Task -> SUBSET Packet] /\ unparsed \in SUBSET Packet
  BY DEF Inv, PacketInv, PacketType
<1>1. /\ todo' = [todo EXCEPT ![t] = @ \ S] /\ unparsed' = unparsed \cup S
      /\ UNCHANGED <<min_packets, sent, handed, batches, table, flows, expired>>
  BY DEF ParseAndLock, threadVars, captureVars
<1>2. \A u \in Task : todo'[u] = IF u = t THEN todo[t] \ S ELSE todo[u]
  BY <1>1, <1>t
<1>3. PacketType'
  <2>1. todo' \in [Task -> SUBSET Packet] /\ unparsed' \in SUBSET Packet
    BY <1>1, <1>t
  <2> QED
    BY <1>1, <1>t, <2>1 DEF PacketType
<1>4. NotYet'
  BY <1>1, <1>2, <1>t DEF NotYet
<1>5. TodoApart'
  BY <1>2, <1>t DEF TodoApart
<1>6. TableApart' /\ FlowsApart'
  BY <1>1, <1>t DEF TableApart, FlowsApart, Apart
<1>7. ASSUME NEW q \in Packet
      PROVE  /\ InQueue(q)' <=> InQueue(q)
             /\ InTodo(q)' <=> InTodo(q) /\ q \notin S
             /\ q \in S => InTodo(q)
             /\ InTable(q)' <=> InTable(q)
             /\ InFlow(q)' <=> InFlow(q)
             /\ q <= sent' <=> q <= sent
             /\ q \in unparsed' <=> q \in unparsed \/ q \in S
  <2>1. /\ InQueue(q)' <=> InQueue(q)
        /\ InTable(q)' <=> InTable(q)
        /\ InFlow(q)' <=> InFlow(q)
        /\ q <= sent' <=> q <= sent
        /\ q \in unparsed' <=> q \in unparsed \/ q \in S
    BY <1>1 DEF InQueue, InTable, InFlow
  <2>2. q \in S => \A u \in Task : u # t => q \notin todo[u]
    BY <1>t DEF TodoApart
  <2>3. InTodo(q)' <=> InTodo(q) /\ q \notin S
    BY <1>2, <2>2 DEF InTodo
  <2> QED
    BY <2>1, <2>3 DEF InTodo
<1>8. PlaceInv'
  <2> SUFFICES ASSUME NEW q \in Packet PROVE OneKind(q)'
    BY DEF PlaceInv
  <2>1. OneKind(q) /\ expired' = expired
    BY <1>1, <1>t DEF PlaceInv
  <2> QED
    BY <1>7, <2>1 DEF OneKind
<1> QED
  BY <1>3, <1>4, <1>5, <1>6, <1>8 DEF PacketInv

(* A flow appended to those enqueued. *)
LEMMA AppendFlow ==
  ASSUME PacketType, FlowsApart, NEW l \in PacketList, IsInjective(l), l # <<>>,
         \A q \in ToSet(l) : ~InFlow(q), flows' = Append(flows, l)
  PROVE  /\ flows' \in Seq(PacketList) /\ FlowsApart'
         /\ \A q : InFlow(q)' <=> InFlow(q) \/ q \in ToSet(l)
<1>t. flows \in Seq(PacketList) /\ Len(flows) \in Nat
  BY LenProperties DEF PacketType
<1>1. /\ flows' \in Seq(PacketList) /\ Len(flows') = Len(flows) + 1
      /\ \A f \in 1 .. Len(flows) : flows'[f] = flows[f]
      /\ flows'[Len(flows) + 1] = l
  BY <1>t, AppendProperties
<1>2. PICK n \in Nat : n = Len(flows)
  BY <1>t
<1>3. /\ Len(flows') = n + 1 /\ flows'[n + 1] = l
      /\ \A f \in 1 .. n : flows'[f] = flows[f]
      /\ \A f : f \in 1 .. n + 1 <=> f \in 1 .. n \/ f = n + 1
  BY <1>1, <1>2
<1>4. \A f \in 1 .. n : \A q \in ToSet(flows[f]) : q \notin ToSet(l)
  BY <1>2 DEF InFlow
<1>5. /\ \A f \in 1 .. n : IsInjective(flows[f]) /\ flows[f] # <<>>
      /\ \A f, g \in 1 .. n : f # g => Apart(flows[f], flows[g])
  BY <1>2 DEF FlowsApart
<1>6. \A f \in 1 .. n + 1 : IsInjective(flows'[f]) /\ flows'[f] # <<>>
  BY <1>3, <1>5
<1>7. \A f, g \in 1 .. n + 1 : f # g => Apart(flows'[f], flows'[g])
  BY <1>3, <1>4, <1>5 DEF Apart
<1>8. FlowsApart'
  BY <1>3, <1>6, <1>7 DEF FlowsApart, Apart
<1>9. ASSUME NEW q PROVE InFlow(q)' <=> InFlow(q) \/ q \in ToSet(l)
  <2>1. InFlow(q)' <=> \E f \in 1 .. n + 1 : q \in ToSet(flows'[f])
    BY <1>3 DEF InFlow
  <2>2. InFlow(q) <=> \E f \in 1 .. n : q \in ToSet(flows[f])
    BY <1>2 DEF InFlow
  <2> QED
    BY <1>3, <2>1, <2>2
<1> QED
  BY <1>1, <1>8, <1>9

(* merge_to_existing_flow moves a packet to the list of its key, which is  *)
(* enqueued before if it is complete.                                      *)
LEMMA MergePacket ==
  ASSUME Inv, NEW t \in Task, NEW k \in Key, Merge(t, k)
  PROVE  PacketInv'
<1>t. /\ PacketType /\ NotYet /\ TodoApart /\ TableApart /\ FlowsApart /\ PlaceInv
      /\ todo \in [Task -> SUBSET Packet] /\ table \in [Key -> PacketList]
      /\ todo[t] # {} /\ todo[t] \in SUBSET Packet
  BY DEF Inv, PacketInv, PacketType, Merge
<1>1. PICK p : p = Min(todo[t])
  OBVIOUS
<1>2. p \in todo[t] /\ p \in Packet
  <2>1. todo[t] \in SUBSET Nat
    BY <1>t, ListFacts
  <2> QED
    BY <1>1, <1>t, <2>1, MinMember
<1>3. /\ todo' = [todo EXCEPT ![t] = @ \ {p}]
      /\ UNCHANGED <<min_packets, sent, handed, batches, expired, unparsed>>
      /\ \/ /\ IsFlowReady(k) /\ flows' = Append(flows, table[k])
            /\ table' = [table EXCEPT ![k] = <<p>>]
         \/ flows' = flows /\ table' = [table EXCEPT ![k] = Append(@, p)]
  BY <1>1 DEF Merge, threadVars, captureVars
<1>4. \A u \in Task : todo'[u] = IF u = t THEN todo[t] \ {p} ELSE todo[u]
  BY <1>3, <1>t
<1>5. \A u \in Task : u # t => p \notin todo[u]
  BY <1>2, <1>t DEF TodoApart
<1>6. \A q \in Packet : /\ InTodo(q)' <=> InTodo(q) /\ q # p
                        /\ InQueue(q)' <=> InQueue(q)
                        /\ q <= sent' <=> q <= sent
  BY <1>3, <1>4, <1>5 DEF InTodo, InQueue
<1>7. InTodo(p) /\ ~InTable(p) /\ ~InFlow(p)
  <2>1. InTodo(p) /\ OneKind(p)
    BY <1>2, <1>t DEF InTodo, PlaceInv
  <2> QED
    BY <2>1 DEF OneKind
<1>8. NotYet' /\ TodoApart'
  BY <1>3, <1>4, <1>t DEF NotYet, TodoApart
<1>9. todo' \in [Task -> SUBSET Packet]
  BY <1>3, <1>t
<1>10. PICK l : l = table[k]
  OBVIOUS
<1>11. /\ l \in Seq(Packet) /\ IsInjective(l) /\ p \notin ToSet(l) /\ ToSet(l) \in SUBSET Packet
       /\ \A q \in ToSet(l) : InTable(q) /\ ~InFlow(q)
  <2>1. l \in Seq(Packet) /\ IsInjective(l) /\ ToSet(l) \in SUBSET Packet
    BY <1>10, <1>t, ListFacts DEF TableApart
  <2>2. \A q \in ToSet(l) : InTable(q)
    BY <1>10 DEF InTable
  <2>3. \A q \in ToSet(l) : OneKind(q)
    BY <1>t, <2>1 DEF PlaceInv
  <2> QED
    BY <1>7, <2>1, <2>2, <2>3 DEF OneKind
<1>12. \A j \in Key : j # k => p \notin ToSet(table[j]) /\ Apart(table[j], l)
  BY <1>7, <1>10, <1>t DEF InTable, TableApart
<1>13. CASE IsFlowReady(k) /\ flows' = Append(flows, l) /\ table' = [table EXCEPT ![k] = <<p>>]
  <2>1. \A j \in Key : table'[j] = IF j = k THEN <<p>> ELSE table[j]
    BY <1>13, <1>t
  <2>2. IsInjective(<<p>>) /\ ToSet(<<p>>) = {p}
    BY SingleOnce
  <2>3. TableApart'
    <3>1. \A j \in Key : IsInjective(table'[j])
      BY <1>t, <2>1, <2>2 DEF TableApart
    <3>2. \A i, j \in Key : i # j => Apart(table'[i], table'[j])
      BY <1>12, <1>t, <2>1, <2>2 DEF TableApart, Apart
    <3> QED
      BY <3>1, <3>2 DEF TableApart, Apart
  <2>4. l # <<>>
    <3>1. min_packets \in Nat \ {0} /\ Len(l) >= min_packets
      BY <1>10, <1>13, <1>t, MinPacketsAssumption DEF IsFlowReady, PacketType
    <3>2. Len(<<>>) = 0
      OBVIOUS
    <3> QED
      BY <3>1, <3>2
  <2>5. /\ flows' \in Seq(PacketList) /\ FlowsApart'
        /\ \A q : InFlow(q)' <=> InFlow(q) \/ q \in ToSet(l)
    BY <1>11, <1>13, <1>t, <2>4, AppendFlow DEF PacketList
  <2>6. table' \in [Key -> PacketList]
    <3>1. <<p>> \in PacketList
      BY <1>2 DEF PacketList
    <3> QED
      BY <1>13, <1>t, <3>1
  <2>7. PacketType'
    BY <1>3, <1>9, <1>t, <2>5, <2>6 DEF PacketType
  <2>8. \A q : InTable(q)' <=> (InTable(q) /\ q \notin ToSet(l)) \/ q = p
    <3>1. \A q : InTable(q)' <=> \E j \in Key : q \in ToSet(table'[j])
      BY DEF InTable
    <3>2. \A q : InTable(q) /\ q \notin ToSet(l) => \E j \in Key : j # k /\ q \in ToSet(table[j])
      BY <1>10 DEF InTable
    <3>3. \A j \in Key : j # k => \A q \in ToSet(table[j]) : InTable(q) /\ q \notin ToSet(l)
      BY <1>12 DEF InTable, Apart
    <3> QED
      BY <2>1, <2>2, <3>1, <3>2, <3>3
  <2>9. PlaceInv'
    <3> SUFFICES ASSUME NEW q \in Packet PROVE OneKind(q)'
      BY DEF PlaceInv
    <3>1. OneKind(q) /\ expired' = expired /\ unparsed' = unparsed
      BY <1>3, <1>t DEF PlaceInv
    <3>2. (q \in ToSet(l) => InTable(q)) /\ (q = p => InTodo(q))
      BY <1>7, <1>11
    <3>3. q \in ToSet(l) => q # p
      BY <1>11
    <3> QED
      BY <1>6, <2>5, <2>8, <3>1, <3>2, <3>3 DEF OneKind
  <2> QED
    BY <1>8, <2>3, <2>5, <2>7, <2>9 DEF PacketInv
<1>14. CASE flows' = flows /\ table' = [table EXCEPT ![k] = Append(@, p)]
  <2>1. \A j \in Key : table'[j] = IF j = k THEN Append(l, p) ELSE table[j]
    BY <1>10, <1>14, <1>t
  <2>2. /\ IsInjective(Append(l, p)) /\ ToSet(Append(l, p)) = ToSet(l) \cup {p}
        /\ Append(l, p) \in Seq(Packet)
    BY <1>2, <1>11, AppendOnce, AppendProperties
  <2>3. TableApart'
    <3>1. \A j \in Key : IsInjective(table'[j])
      BY <1>t, <2>1, <2>2 DEF TableApart
    <3>2. \A i, j \in Key : i # j => Apart(table'[i], table'[j])
      BY <1>12, <1>t, <2>1, <2>2 DEF TableApart, Apart
    <3> QED
      BY <3>1, <3>2 DEF TableApart, Apart
  <2>4. FlowsApart' /\ \A q : InFlow(q)' <=> InFlow(q)
    BY <1>14, <1>t DEF FlowsApart, Apart, InFlow
  <2>5. table' \in [Key -> PacketList]
    BY <1>10, <1>14, <1>t, <2>2 DEF PacketList
  <2>6. PacketType'
    BY <1>3, <1>9, <1>14, <1>t, <2>5 DEF PacketType
  <2>7. \A q : InTable(q)' <=> InTable(q) \/ q = p
    <3>1. \A q : InTable(q)' <=> \E j \in Key : q \in ToSet(table'[j])
      BY DEF InTable
    <3> QED
      BY <1>10, <2>1, <2>2, <3>1 DEF InTable
  <2>8. PlaceInv'
    <3> SUFFICES ASSUME NEW q \in Packet PROVE OneKind(q)'
      BY DEF PlaceInv
    <3>1. OneKind(q) /\ expired' = expired /\ unparsed' = unparsed
      BY <1>3, <1>t DEF PlaceInv
    <3>2. q = p => InTodo(q)
      BY <1>7
    <3> QED
      BY <1>6, <2>4, <2>7, <3>1, <3>2 DEF OneKind
  <2> QED
    BY <1>8, <2>3, <2>4, <2>6, <2>8 DEF PacketInv
<1> QED
  BY <1>3, <1>10, <1>13, <1>14

(* The lists of the keys in R appended to the flows enqueued. *)
Enqueued(R) == flows \o SetToSeq({table[k] : k \in R})

(* Enqueueing the lists of some keys adds their packets to the flows, each *)
(* once.                                                                   *)
LEMMA AppendFlows ==
  ASSUME PacketType, FlowsApart, TableApart, NEW R \in SUBSET Key,
         \A k \in R : table[k] # <<>> /\ \A q \in ToSet(table[k]) : ~InFlow(q),
         flows' = Enqueued(R)
  PROVE  /\ flows' \in Seq(PacketList) /\ FlowsApart' /\ Len(flows') >= Len(flows)
         /\ \A q : InFlow(q)' <=> InFlow(q) \/ \E k \in R : q \in ToSet(table[k])
<1>t. flows \in Seq(PacketList) /\ Len(flows) \in Nat /\ table \in [Key -> PacketList]
  BY LenProperties DEF PacketType
<1>1. PICK T : T = {table[k] : k \in R}
  OBVIOUS
<1>2. IsFiniteSet(T)
  <2>1. IsFiniteSet(R)
    BY KeyAssumption, FS_Subset
  <2> QED
    BY <1>1, <2>1, ImageFinite
<1>3. PICK s : s = SetToSeq(T)
  OBVIOUS
<1>4. s \in Seq(T) /\ IsInjective(s) /\ \A x : x \in T <=> \E i \in 1 .. Len(s) : s[i] = x
  BY <1>2, <1>3, SetToSeqFacts
<1>5. T \in SUBSET PacketList
  BY <1>1, <1>t
<1>6. s \in Seq(PacketList)
  BY <1>4, <1>5, SeqMonotonic
<1>7. PICK n \in Nat : n = Len(flows)
  BY <1>t
<1>8. PICK m \in Nat : m = Len(s)
  BY <1>6, LenProperties
<1>9. /\ flows \o s \in Seq(PacketList)
      /\ Len(flows \o s) = Len(flows) + Len(s)
      /\ \A f \in 1 .. Len(flows) + Len(s) :
           (flows \o s)[f] = IF f <= Len(flows) THEN flows[f] ELSE s[f - Len(flows)]
  BY <1>6, <1>t, ConcatProperties
<1>e. flows' = flows \o s
  BY <1>1, <1>3 DEF Enqueued
<1>10. /\ flows' \in Seq(PacketList) /\ Len(flows') = n + m
       /\ \A f \in 1 .. n + m : flows'[f] = IF f <= n THEN flows[f] ELSE s[f - n]
  BY <1>7, <1>8, <1>9, <1>e, Zenon
<1>11. ASSUME NEW f \in 1 .. n + m
       PROVE  \/ f \in 1 .. n /\ flows'[f] = flows[f]
              \/ f \notin 1 .. n /\ f - n \in 1 .. m /\ flows'[f] = s[f - n]
  <2>1. flows'[f] = IF f <= n THEN flows[f] ELSE s[f - n]
    BY <1>10
  <2> QED
    BY <2>1
<1>12. \A i \in 1 .. m : \E k \in R : s[i] = table[k]
  BY <1>1, <1>4, <1>8
<1>13. ASSUME NEW i \in 1 .. m, NEW j \in 1 .. m, i # j PROVE Apart(s[i], s[j])
  <2>1. PICK k \in R : s[i] = table[k]
    BY <1>12
  <2>2. PICK h \in R : s[j] = table[h]
    BY <1>12
  <2>3. s[i] # s[j]
    <3>1. DOMAIN s = 1 .. m
      BY <1>6, <1>8, LenProperties
    <3> QED
      BY <1>4, <1>13, <3>1 DEF IsInjective
  <2>4. k # h
    BY <2>1, <2>2, <2>3
  <2> QED
    BY <2>1, <2>2, <2>4 DEF TableApart
<1>14. \A f \in 1 .. n : \A i \in 1 .. m : Apart(flows[f], s[i]) /\ Apart(s[i], flows[f])
  <2> SUFFICES ASSUME NEW f \in 1 .. n, NEW i \in 1 .. m, NEW q, q \in ToSet(flows[f]), q \in ToSet(s[i])
               PROVE  FALSE
    BY DEF Apart
  <2>1. PICK k \in R : s[i] = table[k]
    BY <1>12
  <2>2. InFlow(q)
    BY <1>7 DEF InFlow
  <2> QED
    BY <2>1, <2>2
<1>15. /\ \A f \in 1 .. n : IsInjective(flows[f]) /\ flows[f] # <<>>
       /\ \A f, g \in 1 .. n : f # g => Apart(flows[f], flows[g])
  BY <1>7 DEF FlowsApart
<1>16. \A i \in 1 .. m : IsInjective(s[i]) /\ s[i] # <<>>
  BY <1>12 DEF TableApart
<1>17. \A f \in 1 .. n + m : IsInjective(flows'[f]) /\ flows'[f] # <<>>
  BY <1>11, <1>15, <1>16
<1>18. ASSUME NEW f \in 1 .. n + m, NEW g \in 1 .. n + m, f # g PROVE Apart(flows'[f], flows'[g])
  <2>1. CASE f \in 1 .. n /\ g \in 1 .. n
    BY <1>11, <1>15, <1>18, <2>1
  <2>2. CASE f \in 1 .. n /\ g \notin 1 .. n
    BY <1>11, <1>14, <2>2
  <2>3. CASE f \notin 1 .. n /\ g \in 1 .. n
    BY <1>11, <1>14, <2>3
  <2>4. CASE f \notin 1 .. n /\ g \notin 1 .. n
    <3>1. f - n \in 1 .. m /\ g - n \in 1 .. m /\ flows'[f] = s[f - n] /\ flows'[g] = s[g - n]
      BY <1>11, <2>4
    <3>2. f - n # g - n
      BY <1>18
    <3> QED
      BY <1>13, <3>1, <3>2
  <2> QED
    BY <2>1, <2>2, <2>3, <2>4
<1>19. FlowsApart'
  BY <1>10, <1>17, <1>18 DEF FlowsApart, Apart
<1>20. ASSUME NEW q PROVE InFlow(q)' <=> InFlow(q) \/ \E k \in R : q \in ToSet(table[k])
  <2>1. InFlow(q)' <=> \E f \in 1 .. n + m : q \in ToSet(flows'[f])
    BY <1>10 DEF InFlow
  <2>2. InFlow(q) <=> \E f \in 1 .. n : q \in ToSet(flows[f])
    BY <1>7 DEF InFlow
  <2>3. ASSUME NEW f \in 1 .. n + m, q \in ToSet(flows'[f])
        PROVE  InFlow(q) \/ \E k \in R : q \in ToSet(table[k])
    BY <1>11, <1>12, <2>2, <2>3
  <2>4. ASSUME NEW f \in 1 .. n, q \in ToSet(flows[f]) PROVE InFlow(q)'
    <3>0. f \in 1 .. n + m
      OBVIOUS
    <3>1. f \in 1 .. n + m /\ flows'[f] = flows[f]
      BY <1>11, <3>0
    <3> QED
      BY <2>1, <2>4, <3>1
  <2>5. ASSUME NEW k \in R, q \in ToSet(table[k]) PROVE InFlow(q)'
    <3>1. PICK i \in 1 .. m : s[i] = table[k]
      BY <1>1, <1>4, <1>8
    <3>2. n + i \in 1 .. n + m /\ ~(n + i <= n) /\ (n + i) - n = i
      OBVIOUS
    <3>3. flows'[n + i] = s[(n + i) - n]
      BY <1>10, <3>2
    <3>4. flows'[n + i] = table[k]
      BY <3>1, <3>2, <3>3
    <3> QED
      BY <2>1, <2>5, <3>2, <3>4
  <2> QED
    BY <2>1, <2>2, <2>3, <2>4, <2>5
<1> QED
  BY <1>7, <1>10, <1>19, <1>20

(* cleanUnwantedFlowTask enqueues the complete lists and discards those    *)
(* that are too old.                                                       *)
LEMMA SweepPackets ==
  ASSUME Inv, NEW late \in SUBSET Short, SweepTable(late)
  PROVE  PacketInv' /\ Len(flows') >= Len(flows)
<1>t. /\ PacketType /\ NotYet /\ TodoApart /\ TableApart /\ FlowsApart /\ PlaceInv
      /\ table \in [Key -> PacketList] /\ min_packets \in Nat \ {0}
  BY MinPacketsAssumption DEF Inv, PacketInv, PacketType
<1>1. PICK R : R = {k \in Key : IsFlowReady(k)}
  OBVIOUS
<1>2. /\ flows' = flows \o SetToSeq({table[k] : k \in R})
      /\ expired' = expired \cup UNION {ToSet(table[k]) : k \in late}
      /\ table' = [k \in Key |-> IF k \in R \cup late THEN <<>> ELSE table[k]]
      /\ UNCHANGED <<min_packets, sent, handed, batches, todo, unparsed>>
  BY <1>1 DEF SweepTable, Erased, threadVars, captureVars, taskVars
<1>3. R \in SUBSET Key /\ late \in SUBSET Key /\ R \cap late = {}
  BY <1>1 DEF Short
<1>4. \A k \in R : table[k] # <<>>
  <2> SUFFICES ASSUME NEW k \in R PROVE table[k] # <<>>
    OBVIOUS
  <2>1. Len(table[k]) >= min_packets
    BY <1>1 DEF IsFlowReady
  <2>2. Len(<<>>) = 0
    OBVIOUS
  <2> QED
    BY <1>t, <2>1, <2>2
<1>5. ASSUME NEW k \in Key, NEW q \in ToSet(table[k])
      PROVE  q \in Packet /\ InTable(q) /\ ~InFlow(q) /\ \A j \in Key : q \in ToSet(table[j]) => j = k
  <2>1. q \in Packet /\ InTable(q)
    BY <1>t, ListFacts DEF InTable
  <2>2. OneKind(q)
    BY <1>t, <2>1 DEF PlaceInv
  <2>3. \A j \in Key : q \in ToSet(table[j]) => j = k
    BY <1>t DEF TableApart, Apart
  <2> QED
    BY <2>1, <2>2, <2>3 DEF OneKind
<1>6. /\ flows' \in Seq(PacketList) /\ FlowsApart' /\ Len(flows') >= Len(flows)
      /\ \A q : InFlow(q)' <=> InFlow(q) \/ \E k \in R : q \in ToSet(table[k])
  <2>1. \A k \in R : table[k] # <<>> /\ \A q \in ToSet(table[k]) : ~InFlow(q)
    BY <1>3, <1>4, <1>5
  <2> QED
    BY <1>2, <1>3, <1>t, <2>1, AppendFlows DEF Enqueued
<1>7. \A k \in Key : table'[k] = IF k \in R \cup late THEN <<>> ELSE table[k]
  BY <1>2
<1>8. TableApart'
  <2>1. \A k \in Key : IsInjective(table'[k])
    BY <1>7, <1>t, EmptyOnce DEF TableApart
  <2>2. \A j, k \in Key : j # k => Apart(table'[j], table'[k])
    BY <1>7, <1>t, EmptyOnce DEF TableApart, Apart
  <2> QED
    BY <2>1, <2>2 DEF TableApart, Apart
<1>9. \A q : q \in expired' <=> q \in expired \/ \E k \in late : q \in ToSet(table[k])
  BY <1>2
<1>10. PacketType'
  <2>1. <<>> \in PacketList
    BY EmptySeq DEF PacketList
  <2>2. table' \in [Key -> PacketList]
    BY <1>2, <1>t, <2>1
  <2>3. expired' \in SUBSET Packet
    BY <1>3, <1>5, <1>9, <1>t DEF PacketType
  <2> QED
    BY <1>2, <1>6, <1>t, <2>2, <2>3 DEF PacketType
<1>11. NotYet' /\ TodoApart'
  BY <1>2, <1>t DEF NotYet, TodoApart
<1>12. ASSUME NEW q
       PROVE  InTable(q)' <=> \E k \in Key : k \notin R \cup late /\ q \in ToSet(table[k])
  <2>1. InTable(q)' <=> \E k \in Key : q \in ToSet(table'[k])
    BY DEF InTable
  <2> QED
    BY <1>7, <2>1, EmptyOnce
<1>13. PlaceInv'
  <2> SUFFICES ASSUME NEW q \in Packet PROVE OneKind(q)'
    BY DEF PlaceInv
  <2>1. OneKind(q) /\ unparsed' = unparsed
    BY <1>2, <1>t DEF PlaceInv
  <2>2. /\ InTodo(q)' <=> InTodo(q)
        /\ InQueue(q)' <=> InQueue(q)
        /\ q <= sent' <=> q <= sent
    BY <1>2 DEF InTodo, InQueue
  <2>3. CASE ~InTable(q)
    <3>1. \A k \in Key : q \notin ToSet(table[k])
      BY <2>3 DEF InTable
    <3>2. ~InTable(q)' /\ (InFlow(q)' <=> InFlow(q)) /\ (q \in expired' <=> q \in expired)
      BY <1>3, <1>6, <1>9, <1>12, <3>1
    <3> QED
      BY <2>1, <2>2, <2>3, <3>2 DEF OneKind
  <2>4. CASE InTable(q)
    <3>1. PICK k \in Key : q \in ToSet(table[k])
      BY <2>4 DEF InTable
    <3>2. \A j \in Key : q \in ToSet(table[j]) => j = k
      BY <1>5, <3>1
    <3>3. /\ InTable(q)' <=> k \notin R \cup late
          /\ InFlow(q)' <=> InFlow(q) \/ k \in R
          /\ q \in expired' <=> q \in expired \/ k \in late
      BY <1>3, <1>6, <1>9, <1>12, <3>1, <3>2
    <3>4. ~(k \in R /\ k \in late)
      BY <1>3
    <3> QED
      BY <2>1, <2>2, <2>4, <3>3, <3>4 DEF OneKind
  <2> QED
    BY <2>3, <2>4
<1> QED
  BY <1>6, <1>8, <1>10, <1>11, <1>13 DEF PacketInv

(* No other step of the pipeline moves a packet. *)
LEMMA NextPacket == Inv /\ [Next]_vars => PacketInv' /\ Len(flows') >= Len(flows)
<1> SUFFICES ASSUME Inv, [Next]_vars PROVE PacketInv' /\ Len(flows') >= Len(flows)
  OBVIOUS
<1>i. PacketInv /\ PacketType /\ Len(flows) \in Nat
  BY ListFacts DEF Inv, PacketInv
<1>1. CASE UNCHANGED <<min_packets, sent, handed, batches, todo, table, flows, expired, unparsed>>
  <2>1. PacketType'
    BY <1>1, <1>i DEF PacketType
  <2>2. NotYet' /\ TodoApart' /\ TableApart' /\ FlowsApart'
    BY <1>1, <1>i DEF PacketInv, NotYet, TodoApart, TableApart, FlowsApart, Apart
  <2>3. PlaceInv'
    BY <1>1, <1>i DEF PacketInv, PlaceInv, OneKind, InQueue, InTodo, InTable, InFlow
  <2> QED
    BY <1>1, <1>i, <2>1, <2>2, <2>3 DEF PacketInv
<1>2. CASE LiveHandler
  <2>1. flows' = flows
    BY <1>2 DEF LiveHandler
  <2> QED
    BY <1>2, <1>i, <2>1, PutPacket
<1>3. ASSUME NEW S \in SUBSET PacketQueue!Pending, ConsumerRead(S), S # {}
      PROVE  PacketInv' /\ Len(flows') >= Len(flows)
  <2>1. flows' = flows
    BY <1>3 DEF ConsumerRead
  <2> QED
    BY <1>3, <1>i, <2>1, ReadPackets
<1>4. ASSUME NEW t \in Task, NEW S \in SUBSET todo[t], ParseAndLock(t, S)
      PROVE  PacketInv' /\ Len(flows') >= Len(flows)
  <2>1. flows' = flows
    BY <1>4 DEF ParseAndLock
  <2> QED
    BY <1>4, <1>i, <2>1, ParsePackets
<1>5. ASSUME NEW t \in Task, NEW k \in Key, Merge(t, k) PROVE PacketInv' /\ Len(flows') >= Len(flows)
  <2>1. flows' = flows \/ Len(flows') = Len(flows) + 1
    BY <1>5 DEF Merge, FlowQueue!Put
  <2> QED
    BY <1>5, <1>i, <2>1, MergePacket
<1>6. ASSUME NEW late \in SUBSET Short, SweepTable(late) PROVE PacketInv' /\ Len(flows') >= Len(flows)
  BY <1>6, SweepPackets
<1>7. \/ UNCHANGED <<min_packets, sent, handed, batches, todo, table, flows, expired, unparsed>>
      \/ LiveHandler
      \/ \E S \in SUBSET PacketQueue!Pending : ConsumerRead(S) /\ S # {}
      \/ \E t \in Task : \E S \in SUBSET todo[t] : ParseAndLock(t, S)
      \/ \E t \in Task, k \in Key : Merge(t, k)
      \/ \E late \in SUBSET Short : SweepTable(late)
  <2>1. ASSUME MainStep \/ StopCapture
        PROVE  UNCHANGED <<min_packets, sent, handed, batches, todo, table, flows, expired, unparsed>>
    BY <2>1 DEF MainStep, StopCapture, ParserDeleted, ParserTasks!Close, captureVars, taskVars, tableVars
  <2>2. ASSUME ConsumerStep
        PROVE  \/ UNCHANGED <<min_packets, sent, handed, batches, todo, table, flows, expired, unparsed>>
               \/ \E S \in SUBSET PacketQueue!Pending : ConsumerRead(S) /\ S # {}
    <3>1. CASE ConsumerCheck \/ DtorWakeup \/ DtorStop \/ DtorJoin \/ DtorExecutor
      BY <3>1 DEF ConsumerCheck, DtorWakeup, DtorStop, DtorJoin, DtorExecutor, captureVars, taskVars, tableVars
    <3>2. CASE ConsumerRead({})
      BY <3>2 DEF ConsumerRead, captureVars, taskVars, tableVars
    <3> QED
      BY <2>2, <3>1, <3>2 DEF ConsumerStep
  <2>3. ASSUME CleanStep \/ SleepTimeout
        PROVE  \/ UNCHANGED <<min_packets, sent, handed, batches, todo, table, flows, expired, unparsed>>
               \/ \E late \in SUBSET Short : SweepTable(late)
    BY <2>3 DEF CleanStep, CleanCheck, SleepInterrupted, SleepTimeout, threadVars, captureVars, taskVars, tableVars
  <2>4. ASSUME NEW t \in Task, MakeFlow(t)
        PROVE  \/ UNCHANGED <<min_packets, sent, handed, batches, todo, table, flows, expired, unparsed>>
               \/ \E S \in SUBSET todo[t] : ParseAndLock(t, S)
               \/ \E k \in Key : Merge(t, k)
    BY <2>4 DEF MakeFlow, TaskStart, TaskEnd, DeadSinkUsed, ParserTasks!Start, ParserTasks!Finish,
                threadVars, captureVars, taskVars, tableVars
  <2>5. ASSUME NEW t \in Task, EncodeStep(t)
        PROVE  UNCHANGED <<min_packets, sent, handed, batches, todo, table, flows, expired, unparsed>>
    BY <2>5 DEF EncodeStep, EncodeStart, EncodeEnd, Terminate, threadVars, captureVars, taskVars, tableVars
  <2>6. ASSUME NEW g \in Gpu, LoopStep(g)
        PROVE  UNCHANGED <<min_packets, sent, handed, batches, todo, table, flows, expired, unparsed>>
    BY <2>6 DEF LoopStep, LoopCheck, LoopRead, threadVars, captureVars, taskVars, tableVars
  <2>7. ASSUME UNCHANGED vars
        PROVE  UNCHANGED <<min_packets, sent, handed, batches, todo, table, flows, expired, unparsed>>
    BY <2>7 DEF vars, threadVars, captureVars, taskVars, tableVars
  <2> QED
    BY <2>1, <2>2, <2>3, <2>4, <2>5, <2>6, <2>7 DEF Next
<1> QED
  BY <1>1, <1>2, <1>3, <1>4, <1>5, <1>6, <1>7

-----------------------------------------------------------------------------
(* The steps that move flows *)

(* A step that settles no flow and gives none to a task. *)
LEMMA FlowFrame ==
  ASSUME Inv, PacketInv', Len(flows') >= Len(flows),
         UNCHANGED <<flowHanded, flowBatches, messages, lost>>,
         flowStatus' \in [Task -> {"new", "queued", "running", "ready", "dropped"}],
         \A t \in Task : flowStatus'[t] = "ready" <=> flowStatus[t] = "ready"
  PROVE  FlowType' /\ FlowInv'
<1>t. /\ FlowType /\ FlowInv /\ PacketType /\ NumPackets \in Nat /\ Len(flows) \in Nat /\ Len(flows') \in Nat
      /\ flowHanded \in [FlowId -> 0 .. flowBatches] /\ flowBatches \in 0 .. NumPackets
      /\ \A f \in FlowId : f \in Nat
  <2>1. flows \in Seq(PacketList) /\ flows' \in Seq(PacketList)
    BY DEF Inv, PacketInv, PacketType
  <2>2. Len(flows) \in Nat /\ Len(flows') \in Nat
    BY <2>1, LenProperties
  <2> QED
    BY <2>2, NumPacketsAssumption DEF Inv, PacketInv, FlowType, FlowId
<1>1. Len(flows') <= NumPackets
  <2>1. /\ flows' \in Seq(PacketList)
        /\ \A f \in 1 .. Len(flows') : flows'[f] # <<>>
        /\ \A f, g \in 1 .. Len(flows') : f # g => Apart(flows'[f], flows'[g])
    BY DEF PacketInv, PacketType, FlowsApart, Apart
  <2> QED
    BY <2>1, FlowRoom
<1>2. FlowType'
  BY <1>t DEF FlowType
<1>3. ASSUME NEW f \in FlowId
      PROVE  /\ flowHanded'[f] # 0 => f <= Len(flows')
             /\ f \in messages' \cup lost' <=> flowHanded'[f] # 0 /\ flowStatus'[flowHanded'[f]] = "ready"
  <2>1. flowHanded'[f] = flowHanded[f] /\ messages' = messages /\ lost' = lost
    OBVIOUS
  <2>2. flowHanded[f] # 0 => flowHanded[f] \in Task
    BY <1>t DEF Task
  <2>3. /\ flowHanded[f] # 0 => f <= Len(flows)
        /\ f \in messages \cup lost <=> flowHanded[f] # 0 /\ flowStatus[flowHanded[f]] = "ready"
    BY <1>t DEF FlowInv
  <2>4. f <= Len(flows) => f <= Len(flows')
    BY <1>t
  <2> QED
    BY <2>1, <2>2, <2>3, <2>4
<1>4. messages' \cap lost' = {}
  BY <1>t DEF FlowInv
<1> QED
  BY <1>1, <1>2, <1>3, <1>4 DEF FlowInv

(* A LoopTask reads a batch of flows and adds a task for it. *)
LEMMA ReadFlows ==
  ASSUME Inv, NEW g \in Gpu, NEW S \in SUBSET FlowQueue!Pending, S # {}, LoopRead(g, S)
  PROVE  FlowType' /\ FlowInv'
<1>t. /\ FlowType /\ FlowInv /\ NumPackets \in Nat
      /\ flowHanded \in [FlowId -> 0 .. flowBatches] /\ flowBatches \in 0 .. NumPackets
      /\ flowStatus \in [Task -> {"new", "queued", "running", "ready", "dropped"}]
  BY NumPacketsAssumption DEF Inv, FlowType
<1>1. /\ flowBatches < NumPackets /\ flowBatches' = flowBatches + 1
      /\ flowHanded' = [i \in 1 .. NumPackets |-> IF i \in S THEN flowBatches + 1 ELSE flowHanded[i]]
      /\ flowStatus' = [flowStatus EXCEPT ![flowBatches + 1] = "queued"]
      /\ UNCHANGED <<flows, messages, lost>>
  BY DEF LoopRead, FlowQueue!Take, SinkTasks!Submit
<1>2. PICK nt \in Task : nt = flowBatches + 1
  BY <1>1, <1>t DEF Task
<1>3. /\ \A f \in FlowId : flowHanded'[f] = IF f \in S THEN nt ELSE flowHanded[f]
      /\ \A t \in Task : flowStatus'[t] = IF t = nt THEN "queued" ELSE flowStatus[t]
  BY <1>1, <1>2, <1>t DEF FlowId
<1>4. \A f \in S : f \in FlowId /\ f <= Len(flows) /\ flowHanded[f] = 0
  <2>1. Len(flows) \in Nat
    BY ListFacts DEF Inv, PacketInv
  <2> QED
    BY <1>t, <2>1 DEF FlowQueue!Pending, FlowInv, FlowId
<1>5. FlowType'
  <2>1. flowBatches' \in 0 .. NumPackets
    BY <1>1, <1>t
  <2>2. flowHanded' \in [FlowId -> 0 .. flowBatches']
    BY <1>1, <1>t DEF FlowId
  <2>3. flowStatus' \in [Task -> {"new", "queued", "running", "ready", "dropped"}]
    BY <1>1, <1>t
  <2> QED
    BY <1>1, <1>t, <2>1, <2>2, <2>3 DEF FlowType
<1>6. ASSUME NEW f \in FlowId
      PROVE  /\ flowHanded'[f] # 0 => f <= Len(flows)
             /\ f \in messages \cup lost <=> flowHanded'[f] # 0 /\ flowStatus'[flowHanded'[f]] = "ready"
  <2>1. /\ flowHanded[f] # 0 => f <= Len(flows)
        /\ f \in messages \cup lost <=> flowHanded[f] # 0 /\ flowStatus[flowHanded[f]] = "ready"
    BY <1>t DEF FlowInv
  <2>2. CASE f \in S
    <3>1. flowHanded'[f] = nt /\ flowStatus'[nt] = "queued" /\ flowHanded[f] = 0 /\ f <= Len(flows)
      BY <1>3, <1>4, <2>2
    <3> QED
      BY <2>1, <3>1
  <2>3. CASE f \notin S
    <3>1. flowHanded'[f] = flowHanded[f]
      BY <1>3, <2>3
    <3>2. flowHanded[f] # 0 => flowHanded[f] \in Task /\ flowHanded[f] # nt
      BY <1>2, <1>t DEF Task
    <3> QED
      BY <1>3, <2>1, <3>1, <3>2
  <2> QED
    BY <2>2, <2>3
<1> QED
  BY <1>1, <1>5, <1>6, <1>t DEF FlowInv

(* A task ends, and its flows are sent or lost. *)
LEMMA SettleFlows ==
  ASSUME Inv, NEW t \in Task, EncodeEnd(t)
  PROVE  FlowType' /\ FlowInv'
<1>t. /\ FlowType /\ FlowInv /\ NumPackets \in Nat
      /\ flowHanded \in [FlowId -> 0 .. flowBatches] /\ flowBatches \in 0 .. NumPackets
      /\ flowStatus \in [Task -> {"new", "queued", "running", "ready", "dropped"}]
      /\ messages \in SUBSET FlowId /\ lost \in SUBSET FlowId
  BY NumPacketsAssumption DEF Inv, FlowType
<1>1. PICK B : B = {f \in FlowId : flowHanded[f] = t}
  OBVIOUS
<1>2. PICK S \in SUBSET B : messages' = messages \cup S /\ lost' = lost \cup (B \ S)
  BY <1>1 DEF EncodeEnd
<1>3. /\ flowStatus[t] = "running" /\ flowStatus' = [flowStatus EXCEPT ![t] = "ready"]
      /\ UNCHANGED <<flows, flowHanded, flowBatches>>
  BY DEF EncodeEnd, SinkTasks!Finish
<1>4. \A u \in Task : flowStatus'[u] = IF u = t THEN "ready" ELSE flowStatus[u]
  BY <1>3, <1>t
<1>5. FlowType'
  <2>1. flowStatus' \in [Task -> {"new", "queued", "running", "ready", "dropped"}]
    BY <1>3, <1>t
  <2> QED
    BY <1>1, <1>2, <1>3, <1>t, <2>1 DEF FlowType
<1>6. \A f \in B : f \notin messages /\ f \notin lost
  BY <1>1, <1>3, <1>t DEF FlowInv
<1>7. ASSUME NEW f \in FlowId
      PROVE  f \in messages' \cup lost' <=> flowHanded[f] # 0 /\ flowStatus'[flowHanded[f]] = "ready"
  <2>1. f \in messages \cup lost <=> flowHanded[f] # 0 /\ flowStatus[flowHanded[f]] = "ready"
    BY <1>t DEF FlowInv
  <2>2. f \in messages' \cup lost' <=> f \in messages \cup lost \/ f \in B
    BY <1>2
  <2>3. f \in B <=> flowHanded[f] = t
    BY <1>1
  <2>4. t # 0 /\ (flowHanded[f] # 0 => flowHanded[f] \in Task)
    BY <1>t DEF Task
  <2> QED
    BY <1>4, <2>1, <2>2, <2>3, <2>4
<1>8. messages' \cap lost' = {}
  BY <1>2, <1>6, <1>t DEF FlowInv
<1> QED
  BY <1>3, <1>5, <1>7, <1>8, <1>t DEF FlowInv

(* Every step preserves the invariant of the flows. *)
LEMMA NextFlow == Inv /\ [Next]_vars => FlowType' /\ FlowInv'
<1> SUFFICES ASSUME Inv, [Next]_vars PROVE FlowType' /\ FlowInv'
  OBVIOUS
<1>p. PacketInv' /\ Len(flows') >= Len(flows)
  BY NextPacket
<1>t. flowStatus \in [Task -> {"new", "queued", "running", "ready", "dropped"}]
  BY DEF Inv, FlowType
<1>1. CASE UNCHANGED <<flowHanded, flowBatches, flowStatus, messages, lost>>
  BY <1>1, <1>p, <1>t, FlowFrame
<1>2. ASSUME NEW g \in Gpu, NEW S \in SUBSET FlowQueue!Pending, LoopRead(g, S), S # {}
      PROVE  FlowType' /\ FlowInv'
  BY <1>2, ReadFlows
<1>3. ASSUME NEW t \in Task, EncodeStart(t) PROVE FlowType' /\ FlowInv'
  <2>1. /\ flowStatus[t] = "queued" /\ flowStatus' = [flowStatus EXCEPT ![t] = "running"]
        /\ UNCHANGED <<flowHanded, flowBatches, messages, lost>>
    BY <1>3 DEF EncodeStart, SinkTasks!Start
  <2>2. /\ flowStatus' \in [Task -> {"new", "queued", "running", "ready", "dropped"}]
        /\ \A u \in Task : flowStatus'[u] = "ready" <=> flowStatus[u] = "ready"
    BY <1>t, <2>1
  <2> QED
    BY <1>p, <2>1, <2>2, FlowFrame
<1>4. ASSUME NEW t \in Task, EncodeEnd(t) PROVE FlowType' /\ FlowInv'
  BY <1>4, SettleFlows
<1>5. CASE DtorExecutor
  <2>1. /\ flowStatus' = [t \in Task |-> IF flowStatus[t] = "queued" THEN "dropped" ELSE flowStatus[t]]
        /\ UNCHANGED <<flowHanded, flowBatches, messages, lost>>
    BY <1>5 DEF DtorExecutor, SinkTasks!Close, SinkTasks!Task, Task
  <2>2. /\ flowStatus' \in [Task -> {"new", "queued", "running", "ready", "dropped"}]
        /\ \A u \in Task : flowStatus'[u] = "ready" <=> flowStatus[u] = "ready"
    BY <1>t, <2>1
  <2> QED
    BY <1>p, <2>1, <2>2, FlowFrame
<1>6. \/ UNCHANGED <<flowHanded, flowBatches, flowStatus, messages, lost>>
      \/ \E g \in Gpu : \E S \in SUBSET FlowQueue!Pending : LoopRead(g, S) /\ S # {}
      \/ \E t \in Task : EncodeStart(t) \/ EncodeEnd(t)
      \/ DtorExecutor
  <2>1. ASSUME MainStep \/ StopCapture \/ LiveHandler
        PROVE  UNCHANGED <<flowHanded, flowBatches, flowStatus, messages, lost>>
    BY <2>1 DEF MainStep, StopCapture, LiveHandler, ParserDeleted, encodeVars
  <2>2. ASSUME ConsumerStep
        PROVE  UNCHANGED <<flowHanded, flowBatches, flowStatus, messages, lost>> \/ DtorExecutor
    BY <2>2 DEF ConsumerStep, ConsumerCheck, ConsumerRead, DtorWakeup, DtorStop, DtorJoin, encodeVars
  <2>3. ASSUME CleanStep \/ SleepTimeout
        PROVE  UNCHANGED <<flowHanded, flowBatches, flowStatus, messages, lost>>
    BY <2>3 DEF CleanStep, CleanCheck, SleepInterrupted, SleepTimeout, SweepTable, encodeVars
  <2>4. ASSUME NEW t \in Task, MakeFlow(t)
        PROVE  UNCHANGED <<flowHanded, flowBatches, flowStatus, messages, lost>>
    BY <2>4 DEF MakeFlow, TaskStart, ParseAndLock, Merge, FlowQueue!Put, TaskEnd, DeadSinkUsed, encodeVars
  <2>5. ASSUME NEW t \in Task, EncodeStep(t)
        PROVE  \/ UNCHANGED <<flowHanded, flowBatches, flowStatus, messages, lost>>
               \/ EncodeStart(t) \/ EncodeEnd(t)
    BY <2>5 DEF EncodeStep, Terminate, encodeVars
  <2>6. ASSUME NEW g \in Gpu, LoopStep(g)
        PROVE  \/ UNCHANGED <<flowHanded, flowBatches, flowStatus, messages, lost>>
               \/ \E S \in SUBSET FlowQueue!Pending : LoopRead(g, S) /\ S # {}
    <3>1. CASE LoopCheck(g)
      BY <3>1 DEF LoopCheck
    <3>2. CASE LoopRead(g, {})
      BY <3>2 DEF LoopRead
    <3> QED
      BY <2>6, <3>1, <3>2 DEF LoopStep
  <2>7. ASSUME UNCHANGED vars
        PROVE  UNCHANGED <<flowHanded, flowBatches, flowStatus, messages, lost>>
    BY <2>7 DEF vars, encodeVars
  <2> QED
    BY <2>1, <2>2, <2>3, <2>4, <2>5, <2>6, <2>7 DEF Next
<1> QED
  BY <1>1, <1>2, <1>3, <1>4, <1>5, <1>6

-----------------------------------------------------------------------------
(* From the invariant to the count of places *)

(* What it means to be a place of a packet. *)
LEMMA PlacesMember ==
  ASSUME PacketType, NEW p \in Packet, NEW x
  PROVE  x \in Places(p) <=>
           \/ x = <<"queue">> /\ InQueue(p)
           \/ \E t \in Task : x = <<"todo", t>> /\ p \in todo[t]
           \/ \E k \in Key : \E n \in 1 .. Len(table[k]) : x = <<"table", k, n>> /\ table[k][n] = p
           \/ \E f \in 1 .. Len(flows) : \E n \in 1 .. Len(flows[f]) : x = <<"flow", f, n>> /\ flows[f][n] = p
           \/ x = <<"expired">> /\ p \in expired
           \/ x = <<"unparsed">> /\ p \in unparsed
<1>1. \A k \in Key : DOMAIN table[k] = 1 .. Len(table[k])
  BY ListFacts, LenProperties
<1>2. \A f \in 1 .. Len(flows) : DOMAIN flows[f] = 1 .. Len(flows[f])
  BY ListFacts, LenProperties
<1>3. DOMAIN flows = 1 .. Len(flows)
  BY LenProperties DEF PacketType
<1>4. ASSUME NEW k \in Key
      PROVE  x \in ListPlaces("table", k, table[k], p) <=>
               \E n \in 1 .. Len(table[k]) : x = <<"table", k, n>> /\ table[k][n] = p
  BY <1>1 DEF ListPlaces
<1>5. ASSUME NEW f \in 1 .. Len(flows)
      PROVE  x \in ListPlaces("flow", f, flows[f], p) <=>
               \E n \in 1 .. Len(flows[f]) : x = <<"flow", f, n>> /\ flows[f][n] = p
  BY <1>2 DEF ListPlaces
<1>6. x \in TablePlaces(p) <=>
        \E k \in Key : \E n \in 1 .. Len(table[k]) : x = <<"table", k, n>> /\ table[k][n] = p
  <2>1. x \in TablePlaces(p) <=> \E k \in Key : x \in ListPlaces("table", k, table[k], p)
    BY DEF TablePlaces
  <2> QED
    BY <1>4, <2>1, Zenon
<1>7. x \in ListedPlaces(p) <=>
        \E f \in 1 .. Len(flows) : \E n \in 1 .. Len(flows[f]) : x = <<"flow", f, n>> /\ flows[f][n] = p
  <2>1. x \in ListedPlaces(p) <=> \E f \in 1 .. Len(flows) : x \in ListPlaces("flow", f, flows[f], p)
    BY <1>3 DEF ListedPlaces
  <2> QED
    BY <1>5, <2>1, Zenon
<1>8. x \in TodoPlaces(p) <=> \E t \in Task : x = <<"todo", t>> /\ p \in todo[t]
  BY DEF TodoPlaces
<1>9. /\ x \in QueuePlaces(p) <=> x = <<"queue">> /\ InQueue(p)
      /\ x \in ExpiredPlaces(p) <=> x = <<"expired">> /\ p \in expired
      /\ x \in UnparsedPlaces(p) <=> x = <<"unparsed">> /\ p \in unparsed
  BY DEF QueuePlaces, ExpiredPlaces, UnparsedPlaces, PacketQueue!Pending, InQueue
<1> QED
  BY <1>6, <1>7, <1>8, <1>9, Zenon DEF Places

(* One kind of place, and within it one position. *)
LEMMA OnePlace ==
  ASSUME PacketInv, NEW p \in Packet
  PROVE  Cardinality(Places(p)) = IF p <= sent THEN 1 ELSE 0
<1>t. PacketType /\ OneKind(p) /\ TodoApart /\ TableApart /\ FlowsApart
  BY DEF PacketInv, PlaceInv
<1>z. /\ \A k \in Key : DOMAIN table[k] = 1 .. Len(table[k])
      /\ \A f \in 1 .. Len(flows) : DOMAIN flows[f] = 1 .. Len(flows[f])
  BY <1>t, ListFacts, LenProperties
<1> DEFINE Todo(x) == \E t \in Task : x = <<"todo", t>> /\ p \in todo[t]
           Table(x) == \E k \in Key : \E n \in 1 .. Len(table[k]) : x = <<"table", k, n>> /\ table[k][n] = p
           Listed(x) == \E f \in 1 .. Len(flows) : \E n \in 1 .. Len(flows[f]) :
                          x = <<"flow", f, n>> /\ flows[f][n] = p
<1>m. \A x : x \in Places(p) <=> \/ x = <<"queue">> /\ InQueue(p)
                                 \/ Todo(x) \/ Table(x) \/ Listed(x)
                                 \/ x = <<"expired">> /\ p \in expired
                                 \/ x = <<"unparsed">> /\ p \in unparsed
  BY <1>t, PlacesMember, Zenon
<1>1. \A x : Todo(x) => InTodo(p)
  BY DEF InTodo
<1>2. \A x : Table(x) => InTable(p)
  BY <1>z DEF InTable, ToSet
<1>3. \A x : Listed(x) => InFlow(p)
  BY <1>z DEF InFlow, ToSet
<1>c. Cardinality({}) = 0 /\ \A x : Cardinality({x}) = 1
  BY FS_EmptySet, FS_Singleton
<1>4. CASE ~(p <= sent)
  <2>1. ~InQueue(p) /\ ~InTodo(p) /\ ~InTable(p) /\ ~InFlow(p) /\ p \notin expired /\ p \notin unparsed
    BY <1>4, <1>t DEF OneKind
  <2>2. Places(p) = {}
    BY <1>m, <1>1, <1>2, <1>3, <2>1
  <2> QED
    BY <1>4, <1>c, <2>2
<1>5. CASE p <= sent
  <2>0. SUFFICES \E x : Places(p) = {x}
    BY <1>5, <1>c
  <2>1. CASE InQueue(p)
    <3>1. ~InTodo(p) /\ ~InTable(p) /\ ~InFlow(p) /\ p \notin expired /\ p \notin unparsed
      BY <1>t, <2>1 DEF OneKind
    <3>2. Places(p) = {<<"queue">>}
      BY <1>m, <1>1, <1>2, <1>3, <2>1, <3>1
    <3> QED
      BY <3>2
  <2>2. CASE InTodo(p)
    <3>1. ~InQueue(p) /\ ~InTable(p) /\ ~InFlow(p) /\ p \notin expired /\ p \notin unparsed
      BY <1>t, <2>2 DEF OneKind
    <3>2. PICK t \in Task : p \in todo[t]
      BY <2>2 DEF InTodo
    <3>3. \A u \in Task : p \in todo[u] => u = t
      BY <1>t, <3>2 DEF TodoApart
    <3>4. \A x : Todo(x) <=> x = <<"todo", t>>
      BY <3>2, <3>3
    <3>5. Places(p) = {<<"todo", t>>}
      BY <1>m, <1>2, <1>3, <3>1, <3>4
    <3> QED
      BY <3>5
  <2>3. CASE InTable(p)
    <3>1. ~InQueue(p) /\ ~InTodo(p) /\ ~InFlow(p) /\ p \notin expired /\ p \notin unparsed
      BY <1>t, <2>3 DEF OneKind
    <3>2. PICK k \in Key : p \in ToSet(table[k])
      BY <2>3 DEF InTable
    <3>3. PICK n \in 1 .. Len(table[k]) : table[k][n] = p
      BY <1>z, <3>2 DEF ToSet
    <3>4. \A j \in Key : \A m \in 1 .. Len(table[j]) : table[j][m] = p => j = k /\ m = n
      <4> SUFFICES ASSUME NEW j \in Key, NEW m \in 1 .. Len(table[j]), table[j][m] = p
                   PROVE  j = k /\ m = n
        OBVIOUS
      <4>1. p \in ToSet(table[j])
        BY <1>z DEF ToSet
      <4>2. j = k
        BY <1>t, <3>2, <4>1 DEF TableApart, Apart
      <4> QED
        BY <1>t, <1>z, <3>3, <4>2 DEF TableApart, IsInjective
    <3>5. \A x : Table(x) <=> x = <<"table", k, n>>
      BY <3>3, <3>4
    <3>6. Places(p) = {<<"table", k, n>>}
      BY <1>m, <1>1, <1>3, <3>1, <3>5
    <3> QED
      BY <3>6
  <2>4. CASE InFlow(p)
    <3>1. ~InQueue(p) /\ ~InTodo(p) /\ ~InTable(p) /\ p \notin expired /\ p \notin unparsed
      BY <1>t, <2>4 DEF OneKind
    <3>2. PICK f \in 1 .. Len(flows) : p \in ToSet(flows[f])
      BY <2>4 DEF InFlow
    <3>3. PICK n \in 1 .. Len(flows[f]) : flows[f][n] = p
      BY <1>z, <3>2 DEF ToSet
    <3>4. \A g \in 1 .. Len(flows) : \A m \in 1 .. Len(flows[g]) : flows[g][m] = p => g = f /\ m = n
      <4> SUFFICES ASSUME NEW g \in 1 .. Len(flows), NEW m \in 1 .. Len(flows[g]), flows[g][m] = p
                   PROVE  g = f /\ m = n
        OBVIOUS
      <4>1. p \in ToSet(flows[g])
        BY <1>z DEF ToSet
      <4>2. g = f
        BY <1>t, <3>2, <4>1 DEF FlowsApart, Apart
      <4> QED
        BY <1>t, <1>z, <3>3, <4>2 DEF FlowsApart, IsInjective
    <3>5. \A x : Listed(x) <=> x = <<"flow", f, n>>
      BY <3>3, <3>4
    <3>6. Places(p) = {<<"flow", f, n>>}
      BY <1>m, <1>1, <1>2, <3>1, <3>5
    <3> QED
      BY <3>6
  <2>5. CASE p \in expired
    <3>1. ~InQueue(p) /\ ~InTodo(p) /\ ~InTable(p) /\ ~InFlow(p) /\ p \notin unparsed
      BY <1>t, <2>5 DEF OneKind
    <3>2. Places(p) = {<<"expired">>}
      BY <1>m, <1>1, <1>2, <1>3, <2>5, <3>1
    <3> QED
      BY <3>2
  <2>6. CASE p \in unparsed
    <3>1. ~InQueue(p) /\ ~InTodo(p) /\ ~InTable(p) /\ ~InFlow(p) /\ p \notin expired
      BY <1>t, <2>6 DEF OneKind
    <3>2. Places(p) = {<<"unparsed">>}
      BY <1>m, <1>1, <1>2, <1>3, <2>6, <3>1
    <3> QED
      BY <3>2
  <2> QED
    BY <1>5, <1>t, <2>1, <2>2, <2>3, <2>4, <2>5, <2>6 DEF OneKind
<1> QED
  BY <1>4, <1>5

(* A flow is waiting, in a task, sent or lost. *)
LEMMA OneFlowPlace ==
  ASSUME Inv, NEW f \in FlowId
  PROVE  Cardinality(FlowPlaces(f)) = IF f <= Len(flows) THEN 1 ELSE 0
<1>t. /\ FlowInv /\ Len(flows) \in Nat /\ f \in Nat /\ f >= 1
  BY ListFacts, NumPacketsAssumption DEF Inv, PacketInv, FlowId
<1>1. /\ flowHanded[f] # 0 => f <= Len(flows)
      /\ f \in messages \/ f \in lost <=> flowHanded[f] # 0 /\ flowStatus[flowHanded[f]] = "ready"
      /\ ~(f \in messages /\ f \in lost)
  BY <1>t DEF FlowInv
<1>2. f \in FlowQueue!Pending <=> f <= Len(flows) /\ flowHanded[f] = 0
  BY <1>t DEF FlowQueue!Pending
<1>3. \A x : x \in FlowPlaces(f) <=>
               \/ x = "queue" /\ f <= Len(flows) /\ flowHanded[f] = 0
               \/ x = "task" /\ flowHanded[f] # 0 /\ flowStatus[flowHanded[f]] # "ready"
               \/ x = "message" /\ f \in messages
               \/ x = "lost" /\ f \in lost
  BY <1>2 DEF FlowPlaces
<1>c. Cardinality({}) = 0 /\ \A x : Cardinality({x}) = 1
  BY FS_EmptySet, FS_Singleton
<1>4. CASE ~(f <= Len(flows))
  <2>1. FlowPlaces(f) = {}
    BY <1>1, <1>3, <1>4
  <2> QED
    BY <1>4, <1>c, <2>1
<1>5. CASE f <= Len(flows)
  <2>1. \/ FlowPlaces(f) = {"queue"} \/ FlowPlaces(f) = {"task"}
        \/ FlowPlaces(f) = {"message"} \/ FlowPlaces(f) = {"lost"}
    <3>1. CASE flowHanded[f] = 0
      BY <1>1, <1>3, <1>5, <3>1
    <3>2. CASE flowHanded[f] # 0 /\ flowStatus[flowHanded[f]] # "ready"
      BY <1>1, <1>3, <3>2
    <3>3. CASE f \in messages
      BY <1>1, <1>3, <3>3
    <3>4. CASE f \in lost
      BY <1>1, <1>3, <3>4
    <3> QED
      BY <1>1, <3>1, <3>2, <3>3, <3>4
  <2> QED
    BY <1>5, <1>c, <2>1
<1> QED
  BY <1>4, <1>5

(* The invariant holds when the threads begin. *)
LEMMA InitInv == Init => Inv
<1> SUFFICES ASSUME Init PROVE Inv
  OBVIOUS
<1>t. NumPackets \in Nat
  BY NumPacketsAssumption
<1>e. Len(<<>>) = 0 /\ <<>> \in Seq(PacketList) /\ <<>> \in PacketList
  BY EmptySeq DEF PacketList
<1>1. PacketType
  <2>1. sent \in 0 .. NumPackets /\ batches \in 0 .. NumPackets /\ handed \in [Packet -> 0 .. NumPackets]
    BY <1>t DEF Init
  <2>2. table \in [Key -> PacketList] /\ flows \in Seq(PacketList)
    BY <1>e DEF Init
  <2>3. todo \in [Task -> SUBSET Packet]
    BY DEF Init
  <2> QED
    BY <2>1, <2>2, <2>3 DEF Init, PacketType
<1>2. /\ \A k \in Key : table[k] = <<>>
      /\ \A t \in Task : todo[t] = {}
      /\ \A p \in Packet : handed[p] = 0
      /\ Len(flows) = 0 /\ sent = 0 /\ expired = {} /\ unparsed = {}
  BY <1>e DEF Init
<1>3. NotYet /\ TodoApart /\ TableApart
  BY <1>2, EmptyOnce DEF NotYet, TodoApart, TableApart, Apart
<1>4. 1 .. 0 = {}
  OBVIOUS
<1>5. FlowsApart
  BY <1>2, <1>4 DEF FlowsApart
<1>6. ASSUME NEW p \in Packet PROVE OneKind(p)
  <2>1. ~InQueue(p) /\ ~InTodo(p) /\ ~InTable(p) /\ ~InFlow(p)
    BY <1>2, <1>4, EmptyOnce DEF InQueue, InTodo, InTable, InFlow
  <2>2. ~(p <= sent)
    BY <1>2, <1>t DEF Packet
  <2> QED
    BY <1>2, <2>1, <2>2 DEF OneKind
<1>7. FlowType
  <2>1. flowBatches \in 0 .. NumPackets /\ flowHanded \in [FlowId -> 0 .. flowBatches]
    BY <1>t DEF Init
  <2> QED
    BY <2>1 DEF Init, FlowType
<1>8. FlowInv
  BY <1>2, <1>t DEF Init, FlowInv
<1> QED
  BY <1>1, <1>3, <1>5, <1>6, <1>7, <1>8 DEF Inv, PacketInv, PlaceInv

(* From liveHandler to send_one_msg no packet is lost or duplicated, and   *)
(* no flow: whichever of the consumer, the MakeFlow tasks, the sweep, the  *)
(* loops, the encode tasks and the destructors takes the next step, every  *)
(* captured packet is in exactly one place.                                *)
THEOREM PacketsConserved == Spec => []Conserved
<1>1. Inv /\ [Next]_vars => Inv'
  BY NextPacket, NextFlow DEF Inv
<1>2. Inv => Conserved
  BY OnePlace, OneFlowPlace DEF Inv, Conserved
<1> QED
  BY <1>1, <1>2, InitInv, PTL DEF Spec

-----------------------------------------------------------------------------
(* The queues and executors are used as they promise to be *)

(* Once the executor of the sink is destroyed, no encode task is left. *)
GoneInv == consumerPc = "gone" => \A t \in Task : flowStatus[t] \notin {"queued", "running"}

(* What changes the capture queue: liveHandler and consumer_job *)
LEMMA PacketQueueSteps == [Next]_vars => [PacketQueue!Next]_PacketQueue!vars
<1> SUFFICES ASSUME [Next]_vars, ~UNCHANGED <<sent, handed, batches>> PROVE PacketQueue!Next
  BY DEF PacketQueue!vars
<1>1. CASE LiveHandler
  BY <1>1 DEF LiveHandler, PacketQueue!Next
<1>2. ASSUME NEW S \in SUBSET PacketQueue!Pending, ConsumerRead(S) PROVE PacketQueue!Next
  BY <1>2 DEF ConsumerRead, captureVars, taskVars, PacketQueue!Next
<1>3. CASE MainStep \/ StopCapture \/ CleanStep \/ SleepTimeout \/ UNCHANGED vars
  BY <1>3 DEF MainStep, StopCapture, ParserDeleted, ParserTasks!Close, CleanStep, CleanCheck,
              SleepInterrupted, SleepTimeout, SweepTable, captureVars, taskVars, vars
<1>4. CASE ConsumerCheck \/ DtorWakeup \/ DtorStop \/ DtorJoin \/ DtorExecutor
  BY <1>4 DEF ConsumerCheck, DtorWakeup, DtorStop, DtorJoin, DtorExecutor, captureVars, taskVars
<1>5. ASSUME NEW t \in Task, MakeFlow(t) PROVE FALSE
  BY <1>5 DEF MakeFlow, TaskStart, ParseAndLock, Merge, TaskEnd, DeadSinkUsed, ParserTasks!Start,
              ParserTasks!Finish, captureVars, taskVars
<1>6. ASSUME NEW t \in Task, EncodeStep(t) PROVE FALSE
  BY <1>6 DEF EncodeStep, EncodeStart, EncodeEnd, Terminate, captureVars, taskVars
<1>7. ASSUME NEW g \in Gpu, LoopStep(g) PROVE FALSE
  BY <1>7 DEF LoopStep, LoopCheck, LoopRead, captureVars, taskVars
<1> QED
  BY <1>1, <1>2, <1>3, <1>4, <1>5, <1>6, <1>7 DEF Next, ConsumerStep

(* What changes the queue of flows: merge, sweep and LoopTask *)
FlowsPut ==
  /\ Len(flows') \in Len(flows) .. NumPackets
  /\ UNCHANGED <<flowHanded, flowBatches>>

(* A step that hands over flows is one of Handoff, one that enqueues puts  *)
(* at least one.                                                           *)
LEMMA FlowQueueSteps ==
  Inv /\ Inv' /\ [Next]_vars => [FlowQueue!Next \/ FlowsPut]_FlowQueue!vars
<1> SUFFICES ASSUME Inv, Inv', [Next]_vars, ~UNCHANGED <<flows, flowHanded, flowBatches>>
             PROVE  FlowQueue!Next \/ FlowsPut
  BY DEF FlowQueue!vars
<1>1. ASSUME UNCHANGED <<flowHanded, flowBatches>> PROVE FlowsPut
  <2>1. Len(flows') >= Len(flows) /\ Len(flows) \in Nat
    BY NextPacket, ListFacts DEF Inv, PacketInv
  <2>2. flows' \in Seq(PacketList) /\ Len(flows') <= NumPackets
    BY DEF Inv, PacketInv, PacketType, FlowInv
  <2>3. Len(flows') \in Nat
    BY <2>2, LenProperties
  <2> QED
    BY <1>1, <2>1, <2>2, <2>3, NumPacketsAssumption DEF FlowsPut
<1>2. ASSUME NEW t \in Task, MakeFlow(t) PROVE FlowsPut
  BY <1>1, <1>2 DEF MakeFlow, TaskStart, ParseAndLock, Merge, TaskEnd, DeadSinkUsed,
                    FlowQueue!Put, encodeVars
<1>3. ASSUME CleanStep \/ SleepTimeout PROVE FlowsPut
  BY <1>1, <1>3 DEF CleanStep, CleanCheck, SleepInterrupted, SleepTimeout, SweepTable, encodeVars
<1>4. ASSUME NEW g \in Gpu, LoopStep(g) PROVE FlowQueue!Next
  BY <1>4 DEF LoopStep, LoopCheck, LoopRead, FlowQueue!Next
<1>5. ASSUME MainStep \/ LiveHandler \/ StopCapture \/ ConsumerStep \/ UNCHANGED vars PROVE FALSE
  BY <1>5 DEF MainStep, LiveHandler, StopCapture, ParserDeleted, ConsumerStep, ConsumerCheck,
              ConsumerRead, DtorWakeup, DtorStop, DtorJoin, DtorExecutor, SinkTasks!Close,
              encodeVars, vars
<1>6. ASSUME NEW t \in Task, EncodeStep(t) PROVE FALSE
  BY <1>6 DEF EncodeStep, EncodeStart, EncodeEnd, Terminate, SinkTasks!Start, SinkTasks!Finish,
              encodeVars
<1> QED
  BY <1>2, <1>3, <1>4, <1>5, <1>6 DEF Next

(* What changes the executor of the sink: LoopTask, its tasks, ~KafkaSink *)
LEMMA SinkTasksSteps == [Next]_vars => [SinkTasks!Next]_SinkTasks!vars
<1> SUFFICES ASSUME [Next]_vars,
                    ~(UNCHANGED <<flowBatches, flowStatus>>
                        /\ (consumerPc' = "gone" <=> consumerPc = "gone"))
             PROVE  SinkTasks!Next
  BY DEF SinkTasks!vars
<1>1. ASSUME DtorExecutor PROVE SinkTasks!Next
  BY <1>1 DEF DtorExecutor, SinkTasks!Next
<1>2. ASSUME NEW g \in Gpu, LoopStep(g) PROVE SinkTasks!Next
  BY <1>2 DEF LoopStep, LoopCheck, LoopRead, threadVars, SinkTasks!Next
<1>3. ASSUME NEW t \in Task, EncodeStep(t) PROVE SinkTasks!Next
  BY <1>3 DEF EncodeStep, EncodeStart, EncodeEnd, Terminate, threadVars, encodeVars,
              SinkTasks!Next, SinkTasks!Task, Task
<1>4. ASSUME NEW t \in Task, MakeFlow(t) PROVE FALSE
  BY <1>4 DEF MakeFlow, TaskStart, ParseAndLock, Merge, TaskEnd, DeadSinkUsed, FlowQueue!Put,
              threadVars, encodeVars
<1>5. ASSUME MainStep \/ LiveHandler \/ StopCapture \/ CleanStep \/ SleepTimeout \/ UNCHANGED vars
      PROVE  FALSE
  BY <1>5 DEF MainStep, LiveHandler, StopCapture, ParserDeleted, CleanStep, CleanCheck,
              SleepInterrupted, SleepTimeout, SweepTable, threadVars, encodeVars, vars
<1>6. ASSUME NEW S, ConsumerRead(S) PROVE FALSE
  BY <1>6 DEF ConsumerRead, encodeVars
<1>7. ASSUME ConsumerCheck \/ DtorWakeup \/ DtorStop \/ DtorJoin PROVE FALSE
  BY <1>7 DEF ConsumerCheck, DtorWakeup, DtorStop, DtorJoin, encodeVars
<1> QED
  BY <1>1, <1>2, <1>3, <1>4, <1>5, <1>6, <1>7 DEF Next, ConsumerStep

(* After ~KafkaSink nobody adds or starts an encode task. *)
LEMMA GoneStays == FlowType /\ GoneInv /\ [Next]_vars => GoneInv'
<1> SUFFICES ASSUME FlowType, GoneInv, [SinkTasks!Next]_SinkTasks!vars, consumerPc' = "gone",
                    NEW t \in Task
             PROVE  flowStatus'[t] \notin {"queued", "running"}
  BY SinkTasksSteps DEF GoneInv
<1>t. flowStatus \in [Task -> {"new", "queued", "running", "ready", "dropped"}]
  BY DEF FlowType
<1>1. CASE SinkTasks!Submit
  BY <1>1 DEF SinkTasks!Submit
<1>2. CASE SinkTasks!Close
  BY <1>2, <1>t DEF SinkTasks!Close, SinkTasks!Task, Task
<1>3. ASSUME NEW u \in Task, SinkTasks!Start(u) \/ SinkTasks!Finish(u)
      PROVE  flowStatus'[t] \notin {"queued", "running"}
  BY <1>3 DEF SinkTasks!Start, SinkTasks!Finish, GoneInv
<1>4. CASE UNCHANGED SinkTasks!vars
  BY <1>4 DEF SinkTasks!vars, GoneInv
<1> QED
  BY <1>1, <1>2, <1>3, <1>4 DEF SinkTasks!Next, SinkTasks!Task, Task

(* What changes the executor of the parser: consumer_job, the MakeFlow     *)
(* tasks and ~LiveParser.  The end of the process by an exception is not a *)
(* destruction of the executor.                                            *)
LEMMA ParserTasksSteps == GoneInv /\ [Next]_vars => [ParserTasks!Next]_ParserTasks!vars
<1> DEFINE closed == mainPc = "exit" /\ consumerPc = "gone"
<1> SUFFICES ASSUME GoneInv, [Next]_vars,
                    ~(UNCHANGED <<batches, status>> /\ (closed' <=> closed))
             PROVE  ParserTasks!Next
  BY DEF ParserTasks!vars
<1>1. ASSUME MainStep PROVE ParserTasks!Next
  BY <1>1 DEF MainStep, ParserDeleted, ParserTasks!Next
<1>2. ASSUME NEW S, ConsumerRead(S) PROVE ParserTasks!Next
  BY <1>2 DEF ConsumerRead, taskVars, ParserTasks!Next
<1>3. ASSUME NEW t \in Task, MakeFlow(t) PROVE ParserTasks!Next
  <2>1. CASE TaskStart(t)
    BY <2>1 DEF TaskStart, ParserTasks!Next, ParserTasks!Task, Task
  <2>2. CASE TaskEnd(t)
    BY <2>2 DEF TaskEnd, ParserTasks!Next, ParserTasks!Task, Task
  <2>3. ASSUME NEW S, ParseAndLock(t, S) PROVE FALSE
    BY <2>3 DEF ParseAndLock, threadVars
  <2>4. ASSUME NEW k \in Key, Merge(t, k) PROVE FALSE
    BY <2>4 DEF Merge, threadVars
  <2>5. ASSUME Up, DeadSinkUsed(t) PROVE FALSE
    BY <2>5 DEF DeadSinkUsed, Up, taskVars
  <2> QED
    BY <1>3, <2>1, <2>2, <2>3, <2>4, <2>5 DEF MakeFlow
<1>4. ASSUME Up, LiveHandler \/ StopCapture PROVE FALSE
  BY <1>4 DEF LiveHandler, StopCapture, Up, PacketQueue!Put, threadVars, taskVars
<1>5. ASSUME CleanStep \/ SleepTimeout \/ UNCHANGED vars PROVE FALSE
  BY <1>5 DEF CleanStep, CleanCheck, SleepInterrupted, SleepTimeout, SweepTable, threadVars,
              taskVars, vars
<1>6. ASSUME Up, ConsumerCheck \/ DtorWakeup \/ DtorStop \/ DtorJoin \/ DtorExecutor PROVE FALSE
  BY <1>6 DEF ConsumerCheck, DtorWakeup, DtorStop, DtorJoin, DtorExecutor, Up, taskVars
<1>7. ASSUME NEW t \in Task, EncodeStep(t) PROVE FALSE
  <2>1. CASE EncodeStart(t) \/ EncodeEnd(t)
    BY <2>1 DEF EncodeStart, EncodeEnd, threadVars, taskVars
  <2>2. ASSUME Up, Terminate(t) PROVE FALSE
    BY <2>2 DEF Terminate, GoneInv, Up, taskVars
  <2> QED
    BY <1>7, <2>1, <2>2 DEF EncodeStep
<1>8. ASSUME NEW g \in Gpu, LoopStep(g) PROVE FALSE
  BY <1>8 DEF LoopStep, LoopCheck, LoopRead, threadVars, taskVars
<1> QED
  BY <1>1, <1>2, <1>3, <1>4, <1>5, <1>6, <1>7, <1>8 DEF Next, ConsumerStep

(* The invariant holds throughout. *)
LEMMA InvAlways == Spec => []Inv
<1>1. Inv /\ [Next]_vars => Inv'
  BY NextPacket, NextFlow DEF Inv
<1> QED
  BY InitInv, <1>1, PTL DEF Spec

(* For any keys, GPUs and numbers of packets: consumer, tasks, loops and   *)
(* destructors use the capture queue and the two executors only in the     *)
(* ways Handoff and Executor provide for, which DoubleBufferQueue and      *)
(* TaskExecutor implement.  Neither executor is given a task after its     *)
(* destruction, and none is destroyed with a task running.                 *)
THEOREM ComponentsAsPromised == Spec => PacketQueue!Spec /\ ParserTasks!Spec /\ SinkTasks!Spec
<1>1. Init => PacketQueue!Init /\ ParserTasks!Init /\ SinkTasks!Init /\ GoneInv
  BY DEF Init, PacketQueue!Init, ParserTasks!Init, SinkTasks!Init, ParserTasks!Task,
         SinkTasks!Task, Task, Packet, GoneInv
<1>2. Inv => FlowType
  BY DEF Inv
<1> QED
  BY InvAlways, <1>1, <1>2, PacketQueueSteps, SinkTasksSteps, GoneStays, ParserTasksSteps, PTL
     DEF Spec, PacketQueue!Spec, ParserTasks!Spec, SinkTasks!Spec

(* The same for the queue of flows, where one sweep puts all the flows it  *)
(* finds complete: there is a number left for each of them, and what       *)
(* LoopTask reads is pending.                                              *)
THEOREM FlowQueueAsPromised ==
  Spec => FlowQueue!Init /\ [][FlowQueue!Next \/ FlowsPut]_FlowQueue!vars
<1>1. Init => FlowQueue!Init
  BY DEF Init, FlowQueue!Init, FlowId
<1> QED
  BY InvAlways, <1>1, FlowQueueSteps, PTL DEF Spec

=============================================================================
