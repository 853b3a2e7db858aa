----------------------------- MODULE RoundRobin -----------------------------
(***************************************************************************)
(* What the scheduler promises, without pointers: a FIFO queue of processes *)
(* per priority.  A new process goes to the end of its queue.  To dispatch, *)
(* the head of the highest queue that is not empty is run and moved to the  *)
(* end.  `current' names the process dispatched last; a process that opens  *)
(* an empty queue becomes current without being dispatched.                 *)
(***************************************************************************)
EXTENDS Integers, Sequences

CONSTANTS Proc, NULL, MaxPriority

Priority == 0 .. MaxPriority

VARIABLES queue, current

vars == <<queue, current>>

Members(i) == {queue[i][k] : k \in DOMAIN queue[i]}

Init ==
  /\ queue = [i \in Priority |-> <<>>]
  /\ current = NULL

Enqueue(p, i) ==
  /\ \A j \in Priority : p \notin Members(j)
  /\ queue' = [queue EXCEPT ![i] = Append(@, p)]
  /\ current' = IF queue[i] = <<>> THEN p ELSE current

Dispatch(i) ==
  /\ queue[i] # <<>>
  /\ \A j \in Priority : j > i => queue[j] = <<>>
  /\ queue' = [queue EXCEPT ![i] = Append(Tail(@), Head(@))]
  /\ current' = Head(queue[i])

Next ==
  \E i \in Priority : Dispatch(i) \/ \E p \in Proc : Enqueue(p, i)

Spec == Init /\ [][Next]_vars
=============================================================================
