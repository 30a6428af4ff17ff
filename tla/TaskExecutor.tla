----------------------------- MODULE TaskExecutor -----------------------------
(***************************************************************************)
(* TaskExecutor: AddTask queues a task under mtxTaskQue and notifies; the  *)
(* thread Run pops tasks, starts each with std::async and keeps its        *)
(* future; a second thread drops the futures that are ready; the           *)
(* destructor stops and joins both threads and then destroys the members,  *)
(* which waits for every stored future.                                    *)
(*                                                                         *)
(* mThread is the first member, so Run is started before mIsRunning, the   *)
(* mutex and the queue are initialised, whatever the order of the          *)
(* constructor's initialiser list says.  What Run reads then is            *)
(* uninitialised memory: RunEarly.                                         *)
(*                                                                         *)
(* mtxFutureQue only guards single steps (RunStore, CleanFutures) and is   *)
(* left implicit; mtxTaskQue is held across steps of Run and is explicit.  *)
(***************************************************************************)
EXTENDS Integers, Sequences, SequencesExt

CONSTANTS Caller,   \* threads that call AddTask
          MaxTasks  \* bound on the AddTask calls

ASSUME MaxTasksAssumption == MaxTasks \in Nat

Task == 1 .. MaxTasks

VARIABLES
  constructed,     \* the members after mThread are initialised
  mIsRunning,
  taskQueLocked,   \* Run holds mtxTaskQue
  mTasks,          \* queue of tasks
  added,           \* number of AddTask calls so far
  callerPc,        \* per caller of AddTask: "idle" or "notify"
  runPc,           \* Run: see TypeOK
  notified,        \* Run waits on mCondition and has been notified
  current,         \* the task Run holds between the pop and the std::async
  mFutures,        \* tasks whose future is stored
  status,          \* per task: "new", "queued", "running", "ready" or "dropped"
  cleanPc,         \* mCleanFutureThread
  stop_requested,  \* of mSleeper
  dtorPc           \* the destructor

lifeVars == <<constructed, mIsRunning, dtorPc>>
queueVars == <<mTasks, added, status>>
taskVars == <<taskQueLocked, queueVars, callerPc, mFutures>>
runVars == <<runPc, notified, current>>
cleanVars == <<cleanPc, stop_requested>>
vars == <<lifeVars, taskVars, runVars, cleanVars>>

TypeOK ==
  /\ constructed \in BOOLEAN
  /\ mIsRunning \in BOOLEAN
  /\ taskQueLocked \in BOOLEAN
  /\ mTasks \in Seq(Task)
  /\ added \in 0 .. MaxTasks
  /\ callerPc \in [Caller -> {"idle", "notify"}]
  /\ runPc \in {"check", "lock", "pred", "block", "waiting", "pop", "spawn", "store",
                "exited", "stuck"}
  /\ notified \in BOOLEAN
  /\ current \in 0 .. MaxTasks
  /\ mFutures \in SUBSET Task
  /\ status \in [Task -> {"new", "queued", "running", "ready", "dropped"}]
  /\ cleanPc \in {"none", "check", "sleep", "clean", "exited"}
  /\ stop_requested \in BOOLEAN
  /\ dtorPc \in {"none", "notify", "join", "wakeup", "joinCleaner", "members", "destroyed"}

(* The thread Run has just been created by the initialiser of mThread. *)
Init ==
  /\ constructed = FALSE
  /\ mIsRunning = FALSE
  /\ taskQueLocked = FALSE
  /\ mTasks = <<>>
  /\ added = 0
  /\ callerPc = [c \in Caller |-> "idle"]
  /\ runPc = "check"
  /\ notified = FALSE
  /\ current = 0
  /\ mFutures = {}
  /\ status = [t \in Task |-> "new"]
  /\ cleanPc = "none"
  /\ stop_requested = FALSE
  /\ dtorPc = "none"

-----------------------------------------------------------------------------
(* Constructor *)

ConstructMembers ==
  /\ ~constructed
  /\ constructed' = TRUE
  /\ mIsRunning' = TRUE
  /\ UNCHANGED <<taskVars, runVars, cleanVars, dtorPc>>

StartCleaner ==
  /\ constructed
  /\ cleanPc = "none"
  /\ cleanPc' = "check"
  /\ UNCHANGED <<lifeVars, taskVars, runVars, stop_requested>>

(* The object may be used by its owner. *)
Usable == cleanPc # "none" /\ dtorPc = "none"

-----------------------------------------------------------------------------
(* AddTask *)

AddTask(c) ==
  /\ Usable
  /\ callerPc[c] = "idle"
  /\ ~taskQueLocked
  /\ added < MaxTasks
  /\ added' = added + 1
  /\ mTasks' = Append(mTasks, added + 1)
  /\ status' = [status EXCEPT ![added + 1] = "queued"]
  /\ callerPc' = [callerPc EXCEPT ![c] = "notify"]
  /\ UNCHANGED <<lifeVars, taskQueLocked, runVars, mFutures, cleanVars>>

(* mCondition.notify_one(), after the mutex is released; notify_all() of   *)
(* the destructor is the same, Run being the only waiter.                  *)
NotifyLost == notified' = notified
Notify == notified' = (notified \/ runPc = "waiting")

AddTaskNotify(c) ==
  /\ callerPc[c] = "notify"
  /\ Notify
  /\ callerPc' = [callerPc EXCEPT ![c] = "idle"]
  /\ UNCHANGED <<lifeVars, taskQueLocked, queueVars, runPc, current, mFutures, cleanVars>>

-----------------------------------------------------------------------------
(* Run *)

(* Run overtakes the constructor: the uninitialised mIsRunning reads as    *)
(* false (Run ends) or true; then the mutex, the condition variable and    *)
(* the queue are initialised under the feet of Run, which may block on     *)
(* them for ever.                                                          *)
RunEarly ==
  /\ ~constructed
  /\ runPc = "check"
  /\ runPc' \in {"exited", "stuck", "lock"}
  /\ UNCHANGED <<lifeVars, taskVars, notified, current, cleanVars>>

RunCheck ==
  /\ constructed
  /\ runPc = "check"
  /\ runPc' = IF mIsRunning THEN "lock" ELSE "exited"
  /\ UNCHANGED <<lifeVars, taskVars, notified, current, cleanVars>>

RunLock ==
  /\ constructed
  /\ runPc = "lock"
  /\ taskQueLocked' = TRUE
  /\ runPc' = "pred"
  /\ UNCHANGED <<lifeVars, queueVars, callerPc, notified, current, mFutures, cleanVars>>

(* The predicate of mCondition.wait. *)
WaitPredicate == mTasks # <<>> \/ ~mIsRunning

RunPredicate ==
  /\ runPc = "pred"
  /\ runPc' = IF WaitPredicate THEN "pop" ELSE "block"
  /\ UNCHANGED <<lifeVars, taskVars, notified, current, cleanVars>>

(* wait() releases the mutex and blocks, in one step for other threads. *)
RunBlock ==
  /\ runPc = "block"
  /\ runPc' = "waiting"
  /\ notified' = FALSE
  /\ taskQueLocked' = FALSE
  /\ UNCHANGED <<lifeVars, queueVars, callerPc, current, mFutures, cleanVars>>

(* A notified or a spurious wake-up; the mutex is taken again. *)
Wake ==
  /\ runPc = "waiting"
  /\ runPc' = "pred"
  /\ notified' = FALSE
  /\ taskQueLocked' = TRUE
  /\ UNCHANGED <<lifeVars, queueVars, callerPc, current, mFutures, cleanVars>>

RunWake == notified /\ Wake
RunWakeSpurious == ~notified /\ Wake

RunPop ==
  /\ runPc = "pop"
  /\ taskQueLocked' = FALSE
  /\ IF ~mIsRunning /\ mTasks = <<>>
       THEN runPc' = "exited" /\ UNCHANGED <<mTasks, current>>
       ELSE /\ current' = Head(mTasks)
            /\ mTasks' = Tail(mTasks)
            /\ runPc' = "spawn"
  /\ UNCHANGED <<lifeVars, added, status, callerPc, notified, mFutures, cleanVars>>

(* std::async(std::launch::async, ...) *)
RunSpawn ==
  /\ runPc = "spawn"
  /\ status' = [status EXCEPT ![current] = "running"]
  /\ runPc' = "store"
  /\ UNCHANGED <<lifeVars, taskQueLocked, mTasks, added, callerPc, notified, current, mFutures,
                 cleanVars>>

(* mFutures.emplace_back(std::move(task_future)) *)
RunStore ==
  /\ runPc = "store"
  /\ mFutures' = mFutures \cup {current}
  /\ current' = 0
  /\ runPc' = "check"
  /\ UNCHANGED <<lifeVars, taskQueLocked, queueVars, callerPc, notified, cleanVars>>

TaskEnd(t) ==
  /\ status[t] = "running"
  /\ status' = [status EXCEPT ![t] = "ready"]
  /\ UNCHANGED <<lifeVars, taskQueLocked, mTasks, added, callerPc, runVars, mFutures, cleanVars>>

-----------------------------------------------------------------------------
(* mCleanFutureThread *)

CleanerCheck ==
  /\ cleanPc = "check"
  /\ cleanPc' = IF mIsRunning THEN "sleep" ELSE "exited"
  /\ UNCHANGED <<lifeVars, taskVars, runVars, stop_requested>>

(* mSleeper.sleep_for(60 s): returns when the sleep was or is interrupted, *)
(* or when the time is over.                                               *)
SleepEnds ==
  /\ cleanPc = "sleep"
  /\ cleanPc' = "clean"
  /\ UNCHANGED <<lifeVars, taskVars, runVars, stop_requested>>

SleepInterrupted == stop_requested /\ SleepEnds
SleepTimeout == ~stop_requested /\ SleepEnds

(* The futures CleanFutures keeps. *)
NotReady == {t \in mFutures : status[t] # "ready"}

CleanFutures ==
  /\ cleanPc = "clean"
  /\ mFutures' = NotReady
  /\ cleanPc' = "check"
  /\ UNCHANGED <<lifeVars, taskQueLocked, queueVars, callerPc, runVars, stop_requested>>

-----------------------------------------------------------------------------
(* Destructor.  The owners of an executor join the threads that call       *)
(* AddTask first.                                                          *)

DtorStop ==
  /\ Usable
  /\ \A c \in Caller : callerPc[c] = "idle"
  /\ mIsRunning' = FALSE
  /\ dtorPc' = "notify"
  /\ UNCHANGED <<constructed, taskVars, runVars, cleanVars>>

(* std::lock_guard lock(mtxTaskQue) around notify_all *)
NotifyUnlocked == TRUE
NotifyMayLock == ~taskQueLocked

DtorNotify ==
  /\ dtorPc = "notify"
  /\ NotifyMayLock
  /\ Notify
  /\ dtorPc' = "join"
  /\ UNCHANGED <<constructed, mIsRunning, taskVars, runPc, current, cleanVars>>

RunJoinable == TRUE
RunJoined == runPc = "exited"

DtorJoin ==
  /\ dtorPc = "join"
  /\ RunJoined
  /\ dtorPc' = "wakeup"
  /\ UNCHANGED <<constructed, mIsRunning, taskVars, runVars, cleanVars>>

DtorWakeup ==
  /\ dtorPc = "wakeup"
  /\ stop_requested' = TRUE
  /\ dtorPc' = "joinCleaner"
  /\ UNCHANGED <<constructed, mIsRunning, taskVars, runVars, cleanPc>>

DtorJoinCleaner ==
  /\ dtorPc = "joinCleaner"
  /\ cleanPc = "exited"
  /\ dtorPc' = "members"
  /\ UNCHANGED <<constructed, mIsRunning, taskVars, runVars, cleanVars>>

(* The futures of std::async block in their destructor until the task is   *)
(* done; mTasks is destroyed with whatever it still holds.                 *)
DtorMembers ==
  /\ dtorPc = "members"
  /\ \A t \in mFutures : status[t] = "ready"
  /\ mFutures' = {}
  /\ mTasks' = <<>>
  /\ status' = [t \in Task |-> IF t \in ToSet(mTasks) THEN "dropped" ELSE status[t]]
  /\ dtorPc' = "destroyed"
  /\ UNCHANGED <<constructed, mIsRunning, taskQueLocked, added, callerPc, runVars, cleanVars>>

-----------------------------------------------------------------------------

RunStep == RunEarly \/ RunCheck \/ RunLock \/ RunPredicate \/ RunBlock \/ RunWake
             \/ RunPop \/ RunSpawn \/ RunStore
CleanerStep == CleanerCheck \/ SleepInterrupted \/ CleanFutures
CtorStep == ConstructMembers \/ StartCleaner
DtorStep == DtorNotify \/ DtorJoin \/ DtorWakeup \/ DtorJoinCleaner \/ DtorMembers

Next ==
  \/ CtorStep
  \/ \E c \in Caller : AddTask(c) \/ AddTaskNotify(c)
  \/ RunStep \/ RunWakeSpurious
  \/ \E t \in Task : TaskEnd(t)
  \/ CleanerStep \/ SleepTimeout
  \/ DtorStop \/ DtorStep

(* The threads are scheduled and tasks end.  Nothing relies on spurious    *)
(* wake-ups or on the 60 s timer; a destructor waiting for the mutex that  *)
(* Run takes again and again gets it in the end.                           *)
Fairness ==
  /\ WF_vars(CtorStep)
  /\ WF_vars(RunStep)
  /\ WF_vars(CleanerStep)
  /\ SF_vars(DtorStep)
  /\ \A c \in Caller : WF_vars(AddTaskNotify(c))
  /\ \A t \in Task : WF_vars(TaskEnd(t))

Spec == Init /\ [][Next]_vars /\ Fairness

-----------------------------------------------------------------------------
(* Properties *)

E == INSTANCE Executor WITH closed <- dtorPc = "destroyed"

(* The executor is what its users expect (module Executor): tasks start in *)
(* the order of AddTask and once each, and when the destructor returns no  *)
(* task runs and the rest was never started, although Run holds a popped   *)
(* task and then its future privately and the cleaner drops futures        *)
(* concurrently.                                                           *)
ImplementsExecutor == E!Spec

(* A queued task is started, unless the executor is being destroyed or Run *)
(* was lost to the uninitialised members: no notification is missed        *)
(* between the evaluation of the wait predicate and the wait.              *)
QueuedTaskStarts ==
  \A t \in Task : status[t] = "queued"
                    ~> status[t] = "ready" \/ dtorPc # "none" \/ runPc \in {"exited", "stuck"}

(* The destructor returns, unless Run was lost to uninitialised members:   *)
(* both threads notice the stop without the help of a timer.               *)
DestructorReturns == dtorPc = "notify" ~> dtorPc = "destroyed" \/ runPc = "stuck"

=============================================================================
