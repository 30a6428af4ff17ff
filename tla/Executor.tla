------------------------------- MODULE Executor -------------------------------
(***************************************************************************)
(* What the pipeline expects of TaskExecutor: tasks are started in the     *)
(* order of AddTask, each runs once, on its own, and when the executor is  *)
(* closed none runs and those not yet started are dropped.                 *)
(***************************************************************************)
EXTENDS Naturals

CONSTANT MaxTasks

VARIABLES added, status, closed

vars == <<added, status, closed>>

Task == 1 .. MaxTasks

Init ==
  /\ added = 0
  /\ status = [t \in Task |-> "new"]
  /\ closed = FALSE

Submit ==
  /\ ~closed
  /\ added < MaxTasks
  /\ added' = added + 1
  /\ status' = [status EXCEPT ![added + 1] = "queued"]
  /\ UNCHANGED closed

Start(t) ==
  /\ status[t] = "queued"
  /\ \A s \in 1 .. t - 1 : status[s] # "queued"
  /\ status' = [status EXCEPT ![t] = "running"]
  /\ UNCHANGED <<added, closed>>

Finish(t) ==
  /\ status[t] = "running"
  /\ status' = [status EXCEPT ![t] = "ready"]
  /\ UNCHANGED <<added, closed>>

Close ==
  /\ ~closed
  /\ \A t \in Task : status[t] # "running"
  /\ status' = [t \in Task |-> IF status[t] = "queued" THEN "dropped" ELSE status[t]]
  /\ closed' = TRUE
  /\ UNCHANGED added

Next == Submit \/ Close \/ \E t \in Task : Start(t) \/ Finish(t)

Spec == Init /\ [][Next]_vars

=============================================================================
