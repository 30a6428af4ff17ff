-------------------------- MODULE TaskExecutorProofs --------------------------
(***************************************************************************)
(* Proofs about TaskExecutor, for any callers and number of tasks: type    *)
(* correctness, the implementation of Executor, and that no wake-up of Run *)
(* is lost.                                                                *)
(***************************************************************************)
EXTENDS TaskExecutor, TLAPS

(* Where Run may be once it has used the members, and where a wait ends.   *)
Started == {"pred", "block", "waiting", "pop", "spawn", "store"}

RunInv ==
  /\ runPc \in Started => constructed
  /\ runPc = "pop" => WaitPredicate
  /\ runPc \in {"spawn", "store"} => current \in Task

(* The queue holds the latest tasks, in the order of AddTask. *)
Popped == added - Len(mTasks)

QueueInv ==
  /\ Popped >= 0
  /\ \A i \in 1 .. Len(mTasks) : mTasks[i] = Popped + i
  /\ runPc = "spawn" => current = Popped

(* The task Run has popped and not started. *)
Held(t) == runPc = "spawn" /\ t = current

(* What a task's place says about its status. *)
StatusInv ==
  \A t \in Task :
    /\ t > added => status[t] = "new"
    /\ t <= added /\ (t > Popped \/ Held(t)) => status[t] = "queued"
    /\ t <= Popped /\ ~Held(t) => status[t] \in {"running", "ready", "dropped"}

(* Somebody holds the future of every running task. *)
FutureInv ==
  \A t \in Task : status[t] = "running" => t \in mFutures \/ (runPc = "store" /\ t = current)

(* Past the first join, Run is gone. *)
JoinInv ==
  dtorPc \in {"wakeup", "joinCleaner", "members", "destroyed"} => runPc = "exited"

Inv == TypeOK /\ RunInv /\ QueueInv /\ StatusInv /\ FutureInv /\ JoinInv

-----------------------------------------------------------------------------
(* The invariant *)

(* A fresh executor has no task. *)
LEMMA InitInv == Init => Inv
<1> SUFFICES ASSUME Init PROVE Inv
  OBVIOUS
<1>1. TypeOK
  <2>1. mTasks \in Seq(Task)
    BY DEF Init
  <2>2. 0 \in 0 .. MaxTasks
    BY MaxTasksAssumption
  <2> QED
    BY <2>1, <2>2 DEF Init, TypeOK
<1>2. RunInv /\ JoinInv
  BY DEF Init, RunInv, JoinInv, Started
<1>3. QueueInv /\ StatusInv /\ FutureInv
  BY MaxTasksAssumption DEF Init, QueueInv, StatusInv, FutureInv, Popped, Held, Task
<1> QED
  BY <1>1, <1>2, <1>3 DEF Inv

(* The tasks in the queue are those that were added and not popped. *)
LEMMA InQueue ==
  ASSUME TypeOK, QueueInv, NEW t \in Task
  PROVE  t \in ToSet(mTasks) <=> t > Popped /\ t <= added
<1> USE MaxTasksAssumption DEF Task, TypeOK, QueueInv
<1>1. mTasks \in Seq(Nat) /\ Len(mTasks) \in Nat /\ DOMAIN mTasks = 1 .. Len(mTasks)
  OBVIOUS
<1>2. ASSUME t \in ToSet(mTasks) PROVE t > Popped /\ t <= added
  <2>1. PICK i \in 1 .. Len(mTasks) : t = mTasks[i]
    BY <1>1, <1>2 DEF ToSet
  <2> QED
    BY <1>1, <2>1 DEF Popped
<1>3. ASSUME t > Popped, t <= added PROVE t \in ToSet(mTasks)
  <2>1. t - Popped \in 1 .. Len(mTasks) /\ Popped + (t - Popped) = t
    BY <1>1, <1>3 DEF Popped
  <2>2. mTasks[t - Popped] = t
    BY <2>1
  <2> QED
    BY <1>1, <2>1, <2>2 DEF ToSet
<1> QED
  BY <1>2, <1>3

(* AddTask appends the next number. *)
LEMMA AddTaskInv == ASSUME Inv, NEW c \in Caller, AddTask(c) PROVE Inv'
<1> USE MaxTasksAssumption DEF Task
<1>1. TypeOK'
  BY DEF Inv, TypeOK, AddTask, lifeVars, runVars, cleanVars
<1>2. Len(mTasks') = Len(mTasks) + 1 /\ Popped' = Popped /\ Popped \in Int
  BY DEF Inv, TypeOK, AddTask, Popped
<1>3. RunInv'
  BY DEF Inv, TypeOK, RunInv, WaitPredicate, AddTask, lifeVars, runVars
<1>4. QueueInv'
  <2>1. \A i \in 1 .. Len(mTasks') : mTasks'[i] = IF i <= Len(mTasks) THEN mTasks[i] ELSE added + 1
    BY <1>2 DEF Inv, TypeOK, AddTask
  <2>2. \A i \in 1 .. Len(mTasks') : mTasks'[i] = Popped + i
    <3>1. Len(mTasks) \in Nat /\ added \in Nat /\ Popped = added - Len(mTasks)
      BY DEF Inv, TypeOK, Popped
    <3>2. \A i \in 1 .. Len(mTasks) : mTasks[i] = Popped + i
      BY DEF Inv, QueueInv
    <3> QED
      BY <1>2, <2>1, <3>1, <3>2
  <2> QED
    BY <1>2, <2>2 DEF Inv, QueueInv, AddTask, runVars
<1>5. StatusInv'
  BY <1>2 DEF Inv, TypeOK, StatusInv, QueueInv, Popped, Held, AddTask, runVars
<1>6. FutureInv'
  BY DEF Inv, TypeOK, FutureInv, AddTask, runVars
<1>7. JoinInv'
  BY DEF Inv, JoinInv, AddTask, lifeVars, runVars
<1> QED
  BY <1>1, <1>3, <1>4, <1>5, <1>6, <1>7 DEF Inv

(* The pop moves the oldest queued task into the hands of Run. *)
LEMMA RunPopInv == ASSUME Inv, RunPop PROVE Inv'
<1> USE MaxTasksAssumption DEF Task
<1>1. CASE ~mIsRunning /\ mTasks = <<>>
  BY <1>1 DEF Inv, TypeOK, RunInv, QueueInv, StatusInv, FutureInv, JoinInv, Popped, Held, Started,
     RunPop, lifeVars, cleanVars
<1>2. CASE ~(~mIsRunning /\ mTasks = <<>>)
  <2>1. mTasks # <<>> /\ mTasks \in Seq(Task) /\ Len(mTasks) > 0
    BY <1>2 DEF Inv, TypeOK, RunInv, WaitPredicate, RunPop
  <2>2. /\ mTasks' = Tail(mTasks) /\ Len(mTasks') = Len(mTasks) - 1
        /\ current' = mTasks[1] /\ current' \in Task
    BY <1>2, <2>1 DEF RunPop
  <2>3. /\ added' = added /\ status' = status /\ mFutures' = mFutures
        /\ dtorPc' = dtorPc /\ constructed' = constructed
        /\ runPc = "pop" /\ runPc' = "spawn"
    BY <1>2 DEF RunPop, lifeVars
  <2>4. Popped \in Int /\ Popped' = Popped + 1 /\ current' = Popped'
    BY <2>1, <2>2, <2>3 DEF Inv, TypeOK, QueueInv, Popped
  <2>5. TypeOK'
    <3>1. mTasks' \in Seq(Task) /\ current' \in 0 .. MaxTasks
      BY <2>1, <2>2
    <3> QED
      BY <2>3, <3>1 DEF Inv, TypeOK, RunPop, lifeVars, cleanVars
  <2>6. RunInv' /\ FutureInv' /\ JoinInv'
    BY <2>2, <2>3 DEF Inv, RunInv, FutureInv, JoinInv, Started
  <2>7. QueueInv'
    <3>1. \A i \in 1 .. Len(mTasks') : mTasks'[i] = mTasks[i + 1]
      BY <2>1, <2>2
    <3> QED
      BY <2>1, <2>2, <2>3, <2>4, <3>1 DEF Inv, QueueInv
  <2>8. StatusInv'
    BY <2>1, <2>2, <2>3, <2>4 DEF Inv, TypeOK, StatusInv, QueueInv, Popped, Held
  <2> QED
    BY <2>5, <2>6, <2>7, <2>8 DEF Inv
<1> QED
  BY <1>1, <1>2

(* Start, storing of the future, and end of a task. *)
LEMMA TaskInv ==
  ASSUME Inv, RunSpawn \/ RunStore \/ \E t \in Task : TaskEnd(t)
  PROVE  Inv'
<1> USE MaxTasksAssumption DEF Task
<1>1. TypeOK'
  <2>1. CASE RunSpawn
    BY <2>1 DEF Inv, TypeOK, RunSpawn, lifeVars, cleanVars
  <2>2. CASE RunStore
    <3>1. current \in Task
      BY <2>2 DEF Inv, RunInv, RunStore
    <3> QED
      BY <2>2, <3>1 DEF Inv, TypeOK, RunStore, lifeVars, queueVars, cleanVars
  <2>3. CASE \E t \in Task : TaskEnd(t)
    BY <2>3 DEF Inv, TypeOK, TaskEnd, lifeVars, runVars, cleanVars
  <2> QED
    BY <2>1, <2>2, <2>3
<1>2. RunInv' /\ JoinInv'
  BY DEF Inv, RunInv, JoinInv, WaitPredicate, Started, RunSpawn, RunStore, TaskEnd, lifeVars,
     queueVars, runVars
<1>3. QueueInv'
  BY DEF Inv, QueueInv, Popped, RunSpawn, RunStore, TaskEnd, queueVars, runVars
<1>4. CASE RunSpawn
  <2>1. StatusInv' /\ FutureInv'
    BY <1>4 DEF Inv, TypeOK, QueueInv, RunInv, StatusInv, FutureInv, Popped, Held, RunSpawn
  <2> QED
    BY <1>1, <1>2, <1>3, <2>1 DEF Inv
<1>5. CASE RunStore
  <2>1. StatusInv' /\ FutureInv'
    BY <1>5 DEF Inv, TypeOK, StatusInv, FutureInv, Popped, Held, RunStore, queueVars
  <2> QED
    BY <1>1, <1>2, <1>3, <2>1 DEF Inv
<1>6. CASE \E t \in Task : TaskEnd(t)
  <2>1. StatusInv' /\ FutureInv'
    BY <1>6 DEF Inv, TypeOK, StatusInv, FutureInv, Popped, Held, TaskEnd, runVars
  <2> QED
    BY <1>1, <1>2, <1>3, <2>1 DEF Inv
<1> QED
  BY <1>4, <1>5, <1>6

(* The destruction of the members: what was queued is dropped. *)
LEMMA DtorMembersInv == ASSUME Inv, DtorMembers PROVE Inv'
<1> USE MaxTasksAssumption DEF Task
<1>1. runPc = "exited" /\ runPc' = "exited" /\ mTasks' = <<>> /\ added' = added
  BY DEF Inv, JoinInv, DtorMembers, runVars
<1>2. TypeOK'
  BY DEF Inv, TypeOK, DtorMembers, runVars, cleanVars
<1>3. RunInv' /\ JoinInv'
  BY <1>1 DEF RunInv, JoinInv, Started
<1>4. QueueInv'
  BY <1>1 DEF Inv, TypeOK, QueueInv, Popped
<1>5. \A t \in Task : t \in ToSet(mTasks) <=> t > Popped /\ t <= added
  BY InQueue DEF Inv
<1>6. StatusInv'
  BY <1>1, <1>5 DEF Inv, TypeOK, QueueInv, StatusInv, Popped, Held, DtorMembers
<1>7. FutureInv'
  BY <1>1 DEF Inv, FutureInv, DtorMembers
<1> QED
  BY <1>2, <1>3, <1>4, <1>6, <1>7 DEF Inv

(* The other steps of Run, of the cleaner, the constructor and the         *)
(* destructor leave tasks and queue alone.                                 *)
LEMMA ControlInv ==
  ASSUME Inv,
         \/ CtorStep
         \/ \E c \in Caller : AddTaskNotify(c)
         \/ RunEarly \/ RunCheck \/ RunLock \/ RunPredicate \/ RunBlock \/ Wake
         \/ CleanerCheck \/ SleepEnds \/ CleanFutures
         \/ DtorStop \/ DtorNotify \/ DtorJoin \/ DtorWakeup \/ DtorJoinCleaner
         \/ UNCHANGED vars
  PROVE  Inv'
<1>1. TypeOK'
  <2> USE DEF Inv, TypeOK, vars, lifeVars, taskVars, queueVars, runVars, cleanVars
  <2>1. CASE CtorStep
    <3>1. constructed' \in BOOLEAN /\ mIsRunning' \in BOOLEAN
      BY <2>1 DEF CtorStep, ConstructMembers, StartCleaner
    <3> QED
      BY <2>1, <3>1 DEF CtorStep, ConstructMembers, StartCleaner
  <2>2. CASE \E c \in Caller : AddTaskNotify(c)
    BY <2>2 DEF AddTaskNotify, Notify
  <2>3. CASE RunEarly \/ RunCheck \/ RunPredicate
    BY <2>3 DEF RunEarly, RunCheck, RunPredicate
  <2>4. CASE RunLock \/ RunBlock \/ Wake
    BY <2>4 DEF RunLock, RunBlock, Wake
  <2>5. CASE CleanerCheck \/ SleepEnds \/ CleanFutures
    BY <2>5 DEF CleanerCheck, SleepEnds, CleanFutures, NotReady
  <2>6. CASE DtorStop \/ DtorJoin
    <3>1. mIsRunning' \in BOOLEAN
      BY <2>6 DEF DtorStop, DtorJoin
    <3> QED
      BY <2>6, <3>1 DEF DtorStop, DtorJoin
  <2>7. CASE DtorNotify
    BY <2>7 DEF DtorNotify, Notify
  <2>8. CASE DtorWakeup \/ DtorJoinCleaner
    BY <2>8 DEF DtorWakeup, DtorJoinCleaner
  <2>9. CASE UNCHANGED vars
    BY <2>9
  <2> QED
    BY <2>1, <2>2, <2>3, <2>4, <2>5, <2>6, <2>7, <2>8, <2>9
<1> USE DEF CtorStep, ConstructMembers, StartCleaner, AddTaskNotify, Notify, RunEarly, RunCheck,
      RunLock, RunPredicate, RunBlock, Wake, CleanerCheck, SleepEnds, CleanFutures, DtorStop,
      DtorNotify, DtorJoin, DtorWakeup, DtorJoinCleaner, vars, lifeVars, taskVars, queueVars,
      runVars, cleanVars
<1>2. mTasks' = mTasks /\ added' = added /\ status' = status /\ current' = current
  OBVIOUS
<1>3. RunInv'
  BY <1>2 DEF Inv, RunInv, WaitPredicate, Started
<1>4. runPc # "spawn" => runPc' # "spawn"
  OBVIOUS
<1>5. runPc \in {"spawn", "store"} => runPc' = runPc
  OBVIOUS
<1>6. QueueInv' /\ StatusInv'
  BY <1>2, <1>4, <1>5 DEF Inv, QueueInv, StatusInv, Popped, Held
<1>7. FutureInv'
  BY <1>2, <1>5 DEF Inv, FutureInv, NotReady
<1>8. JoinInv'
  BY DEF Inv, JoinInv, RunJoined, Usable
<1> QED
  BY <1>1, <1>3, <1>6, <1>7, <1>8 DEF Inv

(* Every step preserves the invariant. *)
LEMMA NextInv == Inv /\ [Next]_vars => Inv'
  BY AddTaskInv, RunPopInv, TaskInv, DtorMembersInv, ControlInv
  DEF Next, RunStep, RunWake, RunWakeSpurious, CleanerStep, SleepInterrupted, SleepTimeout, DtorStep

(* Type correctness of the executor. *)
THEOREM TypeCorrect == Spec => []TypeOK
<1>1. Inv => TypeOK
  BY DEF Inv
<1> QED
  BY <1>1, InitInv, NextInv, PTL DEF Spec

-----------------------------------------------------------------------------
(* Implementation of Executor *)

(* A fresh executor is an open one without tasks. *)
LEMMA ExecutorInit == Init => E!Init
  BY DEF Init, E!Init, Task, E!Task

(* The task Run starts is the oldest that is queued. *)
LEMMA StartsOldest == ASSUME Inv, RunSpawn PROVE E!Next
<1>1. current \in E!Task /\ status[current] = "queued"
  BY MaxTasksAssumption DEF Inv, TypeOK, RunInv, QueueInv, StatusInv, Held, Popped, RunSpawn,
     E!Task, Task
<1>2. \A s \in 1 .. current - 1 : status[s] # "queued"
  BY MaxTasksAssumption DEF Inv, TypeOK, RunInv, QueueInv, StatusInv, Held, Popped, RunSpawn, Task
<1>3. E!Start(current)
  BY <1>1, <1>2 DEF RunSpawn, lifeVars, E!Start
<1> QED
  BY <1>1, <1>3 DEF E!Next

(* When the members are gone nothing runs and all that was queued is       *)
(* dropped.                                                                *)
LEMMA MembersClose == ASSUME Inv, DtorMembers PROVE E!Close
<1>1. runPc = "exited"
  BY DEF Inv, JoinInv, DtorMembers
<1>2. \A t \in Task : status[t] # "running"
  BY <1>1 DEF Inv, FutureInv, DtorMembers
<1>3. \A t \in Task : t \in ToSet(mTasks) <=> status[t] = "queued"
  BY <1>1, MaxTasksAssumption, InQueue DEF Inv, TypeOK, QueueInv, StatusInv, Held, Popped, Task
<1> QED
  BY <1>2, <1>3 DEF DtorMembers, E!Close, E!Task, Task

(* Every step of the executor is one of Executor or leaves it alone. *)
LEMMA ExecutorNext == Inv /\ [Next]_vars => [E!Next]_E!vars
<1> SUFFICES ASSUME Inv, [Next]_vars PROVE [E!Next]_E!vars
  OBVIOUS
<1> USE DEF E!vars
<1>1. CASE \E c \in Caller : AddTask(c)
  BY <1>1 DEF AddTask, Usable, lifeVars, E!Next, E!Submit
<1>2. CASE RunSpawn
  BY <1>2, StartsOldest
<1>3. CASE \E t \in Task : TaskEnd(t)
  BY <1>3 DEF TaskEnd, lifeVars, E!Next, E!Finish, E!Task, Task
<1>4. CASE DtorMembers
  BY <1>4, MembersClose DEF E!Next
<1>5. CASE CtorStep \/ \E c \in Caller : AddTaskNotify(c)
  BY <1>5 DEF CtorStep, ConstructMembers, StartCleaner, AddTaskNotify, lifeVars, taskVars, queueVars
<1>6. CASE \/ RunEarly \/ RunCheck \/ RunLock \/ RunPredicate \/ RunBlock \/ Wake \/ RunPop
           \/ RunStore
  BY <1>6 DEF RunEarly, RunCheck, RunLock, RunPredicate, RunBlock, Wake, RunPop, RunStore,
     lifeVars, taskVars, queueVars
<1>7. CASE CleanerCheck \/ SleepEnds \/ CleanFutures
  BY <1>7 DEF CleanerCheck, SleepEnds, CleanFutures, lifeVars, taskVars, queueVars
<1>8. CASE DtorStop \/ DtorNotify \/ DtorJoin \/ DtorWakeup \/ DtorJoinCleaner
  BY <1>8 DEF DtorStop, Usable, DtorNotify, DtorJoin, DtorWakeup, DtorJoinCleaner, taskVars,
     queueVars
<1>9. CASE UNCHANGED vars
  BY <1>9 DEF vars, lifeVars, taskVars, queueVars
<1> QED
  BY <1>1, <1>2, <1>3, <1>4, <1>5, <1>6, <1>7, <1>8, <1>9
  DEF Next, RunStep, RunWake, RunWakeSpurious, CleanerStep, SleepInterrupted, SleepTimeout, DtorStep

(* TaskExecutor implements Executor, for any callers and tasks: tasks      *)
(* start once and in the order of AddTask, and the destructor returns with *)
(* none running and the rest dropped.                                      *)
THEOREM RefinesExecutor == Spec => ImplementsExecutor
  BY InitInv, NextInv, ExecutorInit, ExecutorNext, PTL DEF Spec, ImplementsExecutor, E!Spec

-----------------------------------------------------------------------------
(* No notification is missed *)

(* Whenever Run waits although the predicate of its wait holds, it has     *)
(* been notified or somebody is about to notify it: a caller between the   *)
(* unlock and the notify_one of AddTask, or the destructor before its      *)
(* notify_all.                                                             *)
WakeupPending ==
  runPc = "waiting" /\ WaitPredicate
    => notified \/ dtorPc = "notify" \/ \E c \in Caller : callerPc[c] = "notify"

(* Run holds the mutex from the lock or the wake-up to the wait or the pop. *)
LockInv == taskQueLocked <=> runPc \in {"pred", "block", "pop"}

(* Until it is destroyed, a constructed executor runs. *)
LifeInv ==
  /\ dtorPc # "none" \/ cleanPc # "none" => constructed
  /\ constructed => (mIsRunning <=> dtorPc = "none")

(* Between predicate and wait no task arrives, as AddTask needs the mutex, *)
(* and a stop, which does not need it, is not yet announced.               *)
BlockInv == runPc = "block" => mTasks = <<>> /\ dtorPc \in {"none", "notify"}

WakeInv == LockInv /\ LifeInv /\ BlockInv /\ WakeupPending

(* Every step preserves it. *)
LEMMA NextWake == Inv /\ WakeInv /\ [Next]_vars => WakeInv'
<1> SUFFICES ASSUME Inv, WakeInv, [Next]_vars PROVE WakeInv'
  OBVIOUS
<1> USE DEF WakeInv, LockInv, LifeInv, BlockInv, WakeupPending, WaitPredicate, lifeVars, taskVars,
      queueVars, runVars, cleanVars
<1>1. CASE CtorStep
  BY <1>1 DEF Inv, RunInv, Started, CtorStep, ConstructMembers, StartCleaner
<1>2. ASSUME NEW c \in Caller, AddTask(c) PROVE WakeInv'
  BY <1>2 DEF Inv, TypeOK, AddTask, Usable
<1>3. ASSUME NEW c \in Caller, AddTaskNotify(c) PROVE WakeInv'
  BY <1>3 DEF AddTaskNotify, Notify
<1>4. CASE RunEarly \/ RunCheck \/ RunLock \/ RunPop \/ RunSpawn \/ RunStore
  BY <1>4 DEF RunEarly, RunCheck, RunLock, RunPop, RunSpawn, RunStore
<1>5. CASE RunPredicate
  BY <1>5 DEF Inv, RunInv, Started, RunPredicate
<1>6. CASE RunBlock
  BY <1>6 DEF Inv, RunInv, Started, RunBlock
<1>7. CASE Wake
  BY <1>7 DEF Wake
<1>8. CASE (\E t \in Task : TaskEnd(t)) \/ CleanerCheck \/ SleepEnds \/ CleanFutures
  BY <1>8 DEF TaskEnd, CleanerCheck, SleepEnds, CleanFutures
<1>9. CASE DtorStop
  BY <1>9 DEF DtorStop, Usable
<1>10. CASE DtorNotify
  BY <1>10 DEF DtorNotify, NotifyMayLock, Notify
<1>11. CASE DtorJoin \/ DtorWakeup \/ DtorJoinCleaner \/ DtorMembers
  BY <1>11 DEF Inv, JoinInv, DtorJoin, RunJoined, DtorWakeup, DtorJoinCleaner, DtorMembers
<1>12. CASE UNCHANGED vars
  BY <1>12 DEF vars
<1> QED
  BY <1>1, <1>2, <1>3, <1>4, <1>5, <1>6, <1>7, <1>8, <1>9, <1>10, <1>11, <1>12
  DEF Next, RunStep, RunWake, RunWakeSpurious, CleanerStep, SleepInterrupted, SleepTimeout, DtorStep

(* No wake-up is lost, for any callers and tasks and with a stop that is   *)
(* set outside the mutex: the safety part of QueuedTaskStarts and          *)
(* DestructorReturns, which need no spurious wake-up.                      *)
THEOREM NoLostWakeup == Spec => []WakeupPending
<1>1. Init => WakeInv
  BY DEF Init, WakeInv, LockInv, LifeInv, BlockInv, WakeupPending
<1>2. WakeInv => WakeupPending
  BY DEF WakeInv
<1> QED
  BY <1>1, <1>2, InitInv, NextInv, NextWake, PTL DEF Spec

=============================================================================
