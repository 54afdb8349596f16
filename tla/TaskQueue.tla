------------------------------ MODULE TaskQueue ------------------------------
(***************************************************************************)
(* What the standalone thread pool promises: a bounded first-in-first-out  *)
(* queue.  A task is put at most once, so it is taken at most once.        *)
(***************************************************************************)
EXTENDS Sequences, Naturals

CONSTANTS Task, Capacity

VARIABLES queue, put    \* tasks waiting, and all tasks ever put

Init == queue = <<>> /\ put = {}

Put(t) == /\ t \notin put /\ Len(queue) < Capacity
          /\ queue' = Append(queue, t)
          /\ put' = put \cup {t}

Take == /\ queue # <<>>
        /\ queue' = Tail(queue)
        /\ UNCHANGED put

Next == (\E t \in Task : Put(t)) \/ Take

Spec == Init /\ [][Next]_<<queue, put>>
=============================================================================
