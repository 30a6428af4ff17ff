----------------------------- MODULE ProducerPool -----------------------------
(***************************************************************************)
(* The global producer_pool: init_parameters builds a temporary pool and   *)
(* moves it into the global one; send_one_msg, called by any number of     *)
(* threads, acquires a producer, produces one message and gives the        *)
(* producer back; an empty pool makes a new one.  Each ManagedProducer has *)
(* a thread that polls librdkafka, which calls the callbacks owned by the  *)
(* KafkaConf of the pool.  The pool is destroyed after main() or by exit() *)
(* from the signal handler, when senders may still be at work.             *)
(*                                                                         *)
(* acquire and collect hold mutex_ throughout and are single steps.        *)
(***************************************************************************)
EXTENDS Integers, Sequences, FiniteSets, FiniteSetsExt, SequencesExt

CONSTANTS
  Sender,     \* threads that run send_one_msg
  poolSize,   \* opt.poolSize
  MaxCreate,  \* bound on the producers created
  MaxSends    \* bound on the calls of send_one_msg

ASSUME BoundAssumption == poolSize \in Nat /\ MaxCreate \in Nat /\ MaxSends \in Nat
ASSUME SizeAssumption == poolSize <= MaxCreate
ASSUME SenderAssumption == IsFiniteSet(Sender)

Producer == 1 .. MaxCreate
None == 0  \* no producer, a null ProducerManager

VARIABLES
  mainPc,      \* "build", "assigned", "run", "destroy", "freed", "exited" or "crashed"
  tempConf,    \* the temporary pool owns the callbacks
  poolConf,    \* producer_pool owns the callbacks
  callbacks,   \* the callbacks have not been deleted
  producers_,  \* the producers in the pool
  created,     \* producers created so far
  polling,     \* per producer, its polling thread: "none", "on", "stop" or "off"
  outQueue,    \* per producer: messages accepted by produce and not yet reported
  sendPc,      \* per sender: "idle", "produce", "flush" or "collect"
  manager,     \* per sender: _manager
  sends,       \* calls of send_one_msg so far
  abrupt,      \* exit() was called by the signal handler
  usedFreed    \* history: librdkafka called a deleted callback

confVars == <<tempConf, poolConf, callbacks>>
poolVars == <<producers_, created>>
sendVars == <<sendPc, manager, sends>>
vars == <<mainPc, confVars, poolVars, polling, outQueue, sendVars, abrupt, usedFreed>>

TypeOK ==
  /\ mainPc \in {"build", "assigned", "run", "destroy", "freed", "exited", "crashed"}
  /\ tempConf \in BOOLEAN /\ poolConf \in BOOLEAN /\ callbacks \in BOOLEAN
  /\ abrupt \in BOOLEAN /\ usedFreed \in BOOLEAN
  /\ producers_ \in Seq(Producer)
  /\ created \in 0 .. MaxCreate
  /\ polling \in [Producer -> {"none", "on", "stop", "off"}]
  /\ outQueue \in [Producer -> 0 .. MaxSends]
  /\ sendPc \in [Sender -> {"idle", "produce", "flush", "collect"}]
  /\ manager \in [Sender -> Producer \cup {None}]
  /\ sends \in 0 .. MaxSends

(* KafkaConf(brokers) of the temporary pool has created the callbacks. *)
Init ==
  /\ mainPc = "build"
  /\ tempConf = TRUE /\ poolConf = FALSE /\ callbacks = TRUE
  /\ producers_ = <<>>
  /\ created = 0
  /\ polling = [p \in Producer |-> "none"]
  /\ outQueue = [p \in Producer |-> 0]
  /\ sendPc = [s \in Sender |-> "idle"]
  /\ manager = [s \in Sender |-> None]
  /\ sends = 0
  /\ abrupt = FALSE
  /\ usedFreed = FALSE

-----------------------------------------------------------------------------
(* init_parameters *)

(* ManagedProducer(create(...)): starts the polling thread. *)
NewProducer ==
  /\ created < MaxCreate
  /\ created' = created + 1
  /\ polling' = [polling EXCEPT ![created + 1] = "on"]

BuildProducer ==
  /\ mainPc = "build"
  /\ created < poolSize
  /\ NewProducer
  /\ producers_' = Append(producers_, created + 1)
  /\ UNCHANGED <<mainPc, confVars, outQueue, sendVars, abrupt, usedFreed>>

(* create returned null: the constructor throws and nothing catches it;    *)
(* generate passes the null on, and the polling thread dereferences it.    *)
CreateFails ==
  /\ \/ mainPc = "build" /\ created < poolSize
     \/ mainPc = "run" /\ producers_ = <<>> /\ sends < MaxSends
                       /\ \E s \in Sender : sendPc[s] = "idle"
  /\ mainPc' = "crashed"
  /\ UNCHANGED <<confVars, poolVars, polling, outQueue, sendVars, abrupt, usedFreed>>

(* operator=(ProducerPool&&): what other keeps of its configuration *)
SourceKept == tempConf
SourceNulled == FALSE

AssignPool ==
  /\ mainPc = "build"
  /\ created = poolSize
  /\ poolConf' = tempConf
  /\ tempConf' = SourceNulled
  /\ mainPc' = "assigned"
  /\ UNCHANGED <<callbacks, poolVars, polling, outQueue, sendVars, abrupt, usedFreed>>

(* The temporary pool is destroyed: ~KafkaConf deletes what it still owns. *)
DestroyTemporary ==
  /\ mainPc = "assigned"
  /\ callbacks' = ~tempConf
  /\ mainPc' = "run"
  /\ UNCHANGED <<tempConf, poolConf, poolVars, polling, outQueue, sendVars, abrupt, usedFreed>>

-----------------------------------------------------------------------------
(* send_one_msg *)

(* producers_.pop_back() *)
NotPopped == producers_
Popped == Front(producers_)

Acquire(s) ==
  /\ mainPc = "run"
  /\ sendPc[s] = "idle"
  /\ sends < MaxSends
  /\ sends' = sends + 1
  /\ IF producers_ = <<>>
       THEN /\ NewProducer
            /\ manager' = [manager EXCEPT ![s] = created + 1]
            /\ UNCHANGED producers_
       ELSE /\ manager' = [manager EXCEPT ![s] = Last(producers_)]
            /\ producers_' = Popped
            /\ UNCHANGED <<created, polling>>
  /\ sendPc' = [sendPc EXCEPT ![s] = "produce"]
  /\ UNCHANGED <<mainPc, confVars, outQueue, abrupt, usedFreed>>

Up == mainPc \notin {"exited", "crashed"}

(* produce accepts the message, reports ERR_REQUEST_TIMED_OUT, or another  *)
(* error; the partitioner is called for an accepted message.               *)
Produce(s) ==
  /\ Up
  /\ sendPc[s] = "produce"
  /\ \/ /\ outQueue' = [outQueue EXCEPT ![manager[s]] = @ + 1]
        /\ usedFreed' = (usedFreed \/ ~callbacks)
        /\ sendPc' = [sendPc EXCEPT ![s] = "collect"]
     \/ /\ sendPc' = [sendPc EXCEPT ![s] = "flush"]
        /\ UNCHANGED <<outQueue, usedFreed>>
     \/ /\ sendPc' = [sendPc EXCEPT ![s] = "collect"]
        /\ UNCHANGED <<outQueue, usedFreed>>
  /\ UNCHANGED <<mainPc, confVars, poolVars, polling, manager, sends, abrupt>>

(* flush(5000) reports as many messages as the time allows. *)
Flush(s) ==
  /\ Up
  /\ sendPc[s] = "flush"
  /\ \E left \in 0 .. outQueue[manager[s]] :
       outQueue' = [outQueue EXCEPT ![manager[s]] = left]
  /\ usedFreed' = (usedFreed \/ ~callbacks)
  /\ sendPc' = [sendPc EXCEPT ![s] = "collect"]
  /\ UNCHANGED <<mainPc, confVars, poolVars, polling, manager, sends, abrupt>>

(* producers_.emplace_back(std::move(producer)) *)
CollectedNull(s) == Append(producers_, None)
CollectedNot(s) == producers_
Collected(s) == Append(producers_, manager[s])

Collect(s) ==
  /\ mainPc = "run"
  /\ sendPc[s] = "collect"
  /\ producers_' = Collected(s)
  /\ manager' = [manager EXCEPT ![s] = None]
  /\ sendPc' = [sendPc EXCEPT ![s] = "idle"]
  /\ UNCHANGED <<mainPc, confVars, created, polling, outQueue, sends, abrupt, usedFreed>>

(* A sender that acquires from or collects into a pool under destruction   *)
(* uses a dead mutex and a dead vector.                                    *)
UseDestroyed(s) ==
  /\ mainPc \in {"destroy", "freed"}
  /\ abrupt
  /\ sendPc[s] \in {"idle", "collect"}
  /\ mainPc' = "crashed"
  /\ UNCHANGED <<confVars, poolVars, polling, outQueue, sendVars, abrupt, usedFreed>>

-----------------------------------------------------------------------------
(* The polling thread: while (not stop_polling_) producer_->poll(1000) *)

PolledOnce(p) == "off"
PollAgain(p) == polling[p]

(* A poll calls the event callback and reports a message, if there is one; *)
(* message.timeout.ms makes every message reportable.                      *)
Poll(p) ==
  /\ Up
  /\ polling[p] \in {"on", "stop"}
  /\ outQueue' = [outQueue EXCEPT ![p] = IF @ > 0 THEN @ - 1 ELSE 0]
  /\ usedFreed' = (usedFreed \/ ~callbacks)
  /\ polling' = [polling EXCEPT ![p] = PollAgain(p)]
  /\ UNCHANGED <<mainPc, confVars, poolVars, sendVars, abrupt>>

PollEnds(p) ==
  /\ Up
  /\ polling[p] = "stop"
  /\ polling' = [polling EXCEPT ![p] = "off"]
  /\ UNCHANGED <<mainPc, confVars, poolVars, outQueue, sendVars, abrupt, usedFreed>>

-----------------------------------------------------------------------------
(* Destruction *)

(* main() returns when the parser, its executors and so the senders are    *)
(* gone; quit_guard calls exit() at any time.                              *)
MainReturns ==
  /\ mainPc = "run"
  /\ \A s \in Sender : sendPc[s] = "idle"
  /\ mainPc' = "destroy"
  /\ UNCHANGED <<confVars, poolVars, polling, outQueue, sendVars, abrupt, usedFreed>>

SignalExit ==
  /\ mainPc = "run"
  /\ mainPc' = "destroy"
  /\ abrupt' = TRUE
  /\ UNCHANGED <<confVars, poolVars, polling, outQueue, sendVars, usedFreed>>

(* ~ManagedProducer, for each producer in the pool: stop_polling_ = true,  *)
(* join, flush(10'000), delete.                                            *)
StopForgotten == "on"
StopPolling == "stop"

DestroyStop ==
  /\ mainPc = "destroy"
  /\ producers_ # <<>>
  /\ polling[Head(producers_)] = "on"
  /\ polling' = [polling EXCEPT ![Head(producers_)] = StopPolling]
  /\ UNCHANGED <<mainPc, confVars, poolVars, outQueue, sendVars, abrupt, usedFreed>>

DestroyProducer ==
  /\ mainPc = "destroy"
  /\ producers_ # <<>>
  /\ polling[Head(producers_)] = "off"
  /\ outQueue' = [outQueue EXCEPT ![Head(producers_)] = 0]
  /\ usedFreed' = (usedFreed \/ ~callbacks)
  /\ producers_' = Tail(producers_)
  /\ UNCHANGED <<mainPc, confVars, created, polling, sendVars, abrupt>>

(* ~KafkaConf of the pool, the member destroyed last *)
DestroyConf ==
  /\ mainPc = "destroy"
  /\ producers_ = <<>>
  /\ callbacks' = (callbacks /\ ~poolConf)
  /\ mainPc' = "freed"
  /\ UNCHANGED <<tempConf, poolConf, poolVars, polling, outQueue, sendVars, abrupt, usedFreed>>

ProcessEnds ==
  /\ mainPc = "freed"
  /\ mainPc' = "exited"
  /\ UNCHANGED <<confVars, poolVars, polling, outQueue, sendVars, abrupt, usedFreed>>

-----------------------------------------------------------------------------

InitStep == BuildProducer \/ AssignPool \/ DestroyTemporary
SendStep(s) == Acquire(s) \/ Produce(s) \/ Flush(s) \/ Collect(s)
DestroyStep == DestroyStop \/ DestroyProducer \/ DestroyConf \/ ProcessEnds

Next ==
  \/ InitStep \/ CreateFails
  \/ \E s \in Sender : SendStep(s) \/ UseDestroyed(s)
  \/ \E p \in Producer : Poll(p) \/ PollEnds(p)
  \/ MainReturns \/ SignalExit \/ DestroyStep

(* The threads are scheduled; a poll takes a second, and the thread then   *)
(* looks at stop_polling_.                                                 *)
Fairness ==
  /\ WF_vars(InitStep)
  /\ WF_vars(DestroyStep)
  /\ \A s \in Sender : WF_vars(Produce(s) \/ Flush(s) \/ Collect(s))
  /\ \A p \in Producer : WF_vars(Poll(p)) /\ WF_vars(PollEnds(p))

Spec == Init /\ [][Next]_vars /\ Fairness

-----------------------------------------------------------------------------
(* Properties *)

Holders(p) == {s \in Sender : manager[s] = p}

(* While the program runs, every producer ever created is in exactly one   *)
(* place: once in the pool or with one sender.  No two threads use one     *)
(* producer, and none is lost with its polling thread.                     *)
ProducerOwnedOnce ==
  mainPc = "run" =>
    \A p \in 1 .. created :
      Cardinality({n \in DOMAIN producers_ : producers_[n] = p}) + Cardinality(Holders(p)) = 1

(* The pool never shrinks, yet it grows no further than the largest number *)
(* of senders there ever is, or its initial size.                          *)
PoolBounded == created <= Max({poolSize, Cardinality(Sender)})

(* librdkafka never calls a deleted callback, neither after the temporary  *)
(* configuration is destroyed nor while the pool flushes its producers,    *)
(* unless exit() interrupted senders, whose producers the pool no longer   *)
(* knows.                                                                  *)
CallbacksAlive == usedFreed => abrupt

(* Every message produce accepted is reported in the end, in or out of the *)
(* pool, or dropped when its producer is destroyed.                        *)
AcceptedReported == \A p \in Producer : outQueue[p] > 0 ~> outQueue[p] = 0 \/ ~Up

(* The destruction of the pool ends: every polling thread notices. *)
PoolDestroyed == mainPc = "destroy" ~> ~Up

=============================================================================
