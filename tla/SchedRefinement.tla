--------------------------- MODULE SchedRefinement ---------------------------
(***************************************************************************)
(* The linked rings of process.c implement the FIFO queues of RoundRobin.  *)
(***************************************************************************)
EXTENDS Sched, Sequences

(* The processes of ring i in the order they will be dispatched: from      *)
(* last->next round to last.                                               *)
Unrolled(i) ==
  LET walk[k \in 1 .. Cardinality(linked[i])] ==
        IF k = 1 THEN next[last[i]] ELSE next[walk[k - 1]]
  IN  IF last[i] = NULL THEN <<>> ELSE walk

(* Between `queue->last->next = process' and `queue->last = process' the   *)
(* new process stands first in the ring; it counts as queued, at the end,  *)
(* from the last of these stores on.                                       *)
Queue ==
  [i \in Priority |->
     IF cpu.pc = "link_last" /\ cpu.job.priority = i
     THEN Tail(Unrolled(i))
     ELSE Unrolled(i)]

Abstract == INSTANCE RoundRobin WITH queue <- Queue

(* Every step of the scheduler is an Enqueue, a Dispatch or no step of the *)
(* FIFO queues: process_spawn appends, process_switch takes the head of    *)
(* the highest queue, and nothing interrupted half-way shows.              *)
ImplementsRoundRobin == Abstract!Spec
=============================================================================
