------------------------------- MODULE Handoff -------------------------------
(***************************************************************************)
(* What the pipeline expects of DoubleBufferQueue: items are put one after *)
(* the other, and each batch a reader gets is a non-empty set of items     *)
(* that were put and are in no earlier batch.  Nothing is promised once    *)
(* the callers have raced on a container (broken).                         *)
(***************************************************************************)
EXTENDS Naturals

CONSTANT MaxItems

VARIABLES sent, handed, batches, broken

vars == <<sent, handed, batches, broken>>

Pending == {i \in 1 .. sent : handed[i] = 0}

Init ==
  /\ sent = 0
  /\ handed = [i \in 1 .. MaxItems |-> 0]
  /\ batches = 0
  /\ broken = FALSE

Put ==
  /\ sent < MaxItems
  /\ sent' = sent + 1
  /\ broken' = broken
  /\ UNCHANGED <<handed, batches>>

Take(S) ==
  /\ S # {}
  /\ batches' = batches + 1
  /\ handed' = [i \in 1 .. MaxItems |-> IF i \in S THEN batches' ELSE handed[i]]
  /\ broken' = broken
  /\ UNCHANGED sent

Next == \/ Put
        \/ \E S \in SUBSET Pending : Take(S)
        \/ broken'

Spec == Init /\ [][Next]_vars

=============================================================================
