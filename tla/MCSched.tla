------------------------------- MODULE MCSched -------------------------------
(* Instances of Sched for TLC.                                             *)
EXTENDS SchedRefinement, TLC

CONSTANTS p1, p2, p3, p4

Supervisor == {PROCESS_FLAGS_SUPERVISOR}
AnyFlags == {PROCESS_FLAGS_SUPERVISOR, PROCESS_FLAGS_USER}
ValidPriorities == Priority
UpperPriorities == LowPriority .. MaxPriority
AnyPriority == 0 .. (MaxPriority + 1)
AllCalls == {"spawn", "cli", "sti"}

ProcSymmetry == Permutations(Proc)
=============================================================================
