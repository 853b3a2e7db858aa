-------------------------------- MODULE Sched --------------------------------
(***************************************************************************)
(* The process scheduler of the Redshift kernel on its single CPU:         *)
(* src/sched/process.c (process_spawn, process_switch, process_yield), the *)
(* boot sequence that starts it (src/boot/sched.c, boot() in boot.c), the  *)
(* interrupt flag that protects it, and the halt loop a panic ends in.     *)
(*                                                                         *)
(* A processor context is abstracted to what decides which code runs next: *)
(* the thread whose code it is, the place it resumes at, the interrupt     *)
(* flag, the privilege ring, and the locals of the call in progress.       *)
(* Stack contents and page directories are left out.  Memory obtained from *)
(* kmalloc is fresh; an allocation may panic, as the heap does when it     *)
(* cannot grow.                                                            *)
(***************************************************************************)
EXTENDS Integers, FiniteSets

CONSTANTS
  Proc,            (* Addresses of process structures the heap can provide. *)
  Boot,            (* The boot thread; it has no process structure.         *)
  NULL,
  MaxPriority,     (* PROCESS_PRIORITY_MAX.                                 *)
  LowPriority,     (* PROCESS_PRIORITY_LOW, the priority of kernel_main.    *)
  SpawnPriority,   (* Priorities a process may pass to process_spawn.       *)
  SpawnFlags,      (* Flag sets a process may pass to process_spawn.        *)
  ClientCalls      (* Calls a process body makes besides process_yield.     *)

Priority == 0 .. MaxPriority

ASSUME SchedAssumption ==
  /\ MaxPriority \in Nat
  /\ LowPriority \in Priority
  /\ SpawnPriority \subseteq Nat
  /\ SpawnFlags \subseteq SUBSET {"user"}
  /\ ClientCalls \subseteq {"spawn", "cli", "sti"}
  /\ Boot \notin Proc
  /\ NULL \notin Proc

VARIABLES
  cpu,          (* The context that is executing.                           *)
  state,        (* process->state of each process: its saved context.       *)
  next,         (* process->next.                                           *)
  id,           (* process->id.                                             *)
  flags,        (* process->flags.                                          *)
  last,         (* processes[priority].last.                                *)
  current,      (* current_process.                                         *)
  numProcesses, (* num_processes.                                           *)
  allocated,    (* Process structures handed out by kmalloc.                *)
  timer,        (* Is process_switch registered as a timer event?           *)
  inPanic,      (* in_panic.                                                *)
  linked        (* History: the processes inserted in each queue so far.    *)

vars == <<cpu, state, next, id, flags, last, current, numProcesses, allocated,
          timer, inPanic, linked>>

-----------------------------------------------------------------------------
(* Contexts.                                                               *)

Thread == Proc \union {Boot}

(* Flags are sets of bits; the supervisor flag is the value 0: no bit.     *)
PROCESS_FLAGS_SUPERVISOR == {}
PROCESS_FLAGS_USER == {"user"}

(* TEST_FLAG(value, flag): (value & flag) == flag.                         *)
TestFlag(value, flag) == value \intersect flag = flag

(* Where process_spawn is interruptible if interrupts are not disabled.    *)
SpawnPC == {"create", "stack", "link", "link_prev", "link_last", "spawned"}

PC == SpawnPC \union
      {"boot_main", "boot_idle", "boot_timer",  (* sched_init              *)
       "body",      (* the thread's own code                               *)
       "switch",    (* process_yield, its registers captured in regs       *)
       "capture",   (* the label inside get_cpu_state                      *)
       "wild",      (* an address popped from the stack                    *)
       "halt"}      (* wait_for_interrupt                                  *)

(* Locals of process_spawn: its arguments, `process', the interrupt state  *)
(* it saved and where it returns to.                                       *)
Job == [priority : Nat, flags : SUBSET {"user"}, process : Proc \union {NULL},
        saved : BOOLEAN, ret : PC]

NoJob == [priority |-> 0, flags |-> {}, process |-> NULL,
          saved |-> FALSE, ret |-> "body"]

(* regs is the instruction pointer held by process_yield's local of that   *)
(* name.                                                                   *)
Context == [thread : Thread, pc : PC, intr : BOOLEAN, ring : {0, 3},
            regs : PC, job : Job]

(* The register state process_spawn builds: everything zeroed, EFLAGS      *)
(* included, so interrupts are off; segments by the supervisor test.       *)
EntryState(p, f) ==
  [thread |-> p, pc |-> "body", intr |-> FALSE,
   ring |-> IF TestFlag(f, PROCESS_FLAGS_SUPERVISOR) THEN 0 ELSE 3,
   regs |-> "body", job |-> NoJob]

Init ==
  /\ cpu = [thread |-> Boot, pc |-> "boot_main", intr |-> FALSE, ring |-> 0,
            regs |-> "body", job |-> NoJob]
  /\ state = [p \in Proc |-> EntryState(p, {})]
  /\ next = [p \in Proc |-> NULL]
  /\ id = [p \in Proc |-> 0]
  /\ flags = [p \in Proc |-> {}]
  /\ last = [i \in Priority |-> NULL]
  /\ current = NULL
  /\ numProcesses = 0
  /\ allocated = {}
  /\ timer = FALSE
  /\ inPanic = FALSE
  /\ linked = [i \in Priority |-> {}]

-----------------------------------------------------------------------------
(* Panic: vpanic_common_start disables interrupts and sets in_panic, or    *)
(* goes straight to hang() when it was set; both paths end in hang(), which*)
(* disables interrupts and jumps to wait_for_interrupt.  The locals of the *)
(* calls it never returns to are dropped.                                  *)

Panic ==
  /\ cpu' = [cpu EXCEPT !.pc = "halt", !.intr = FALSE,
                        !.regs = "body", !.job = NoJob]
  /\ inPanic' = TRUE

(* wait_for_interrupt: sti; hlt; jmp wait_for_interrupt.                   *)
WaitForInterrupt ==
  /\ cpu.pc = "halt"
  /\ ~cpu.intr
  /\ cpu' = [cpu EXCEPT !.intr = TRUE]
  /\ UNCHANGED <<state, next, id, flags, last, current, numProcesses,
                 allocated, timer, inPanic, linked>>

-----------------------------------------------------------------------------
(* process_spawn.                                                          *)

(* Mutation: the interrupt state is saved, interrupts are not disabled.    *)
SaveWithoutCli(priority, f, ret) ==
  cpu' = [cpu EXCEPT !.pc = "create",
                     !.job = [priority |-> priority, flags |-> f,
                              process |-> NULL, saved |-> cpu.intr,
                              ret |-> ret]]

(* SAVE_INTERRUPT_STATE at its start.                                      *)
SaveInterruptState(priority, f, ret) ==
  cpu' = [cpu EXCEPT !.pc = "create", !.intr = FALSE,
                     !.job = [priority |-> priority, flags |-> f,
                              process |-> NULL, saved |-> cpu.intr,
                              ret |-> ret]]

CallSpawn ==
  /\ cpu.pc = "body"
  /\ cpu.thread # Boot
  /\ "spawn" \in ClientCalls
  /\ \E priority \in SpawnPriority, f \in SpawnFlags :
        SaveInterruptState(priority, f, "body")
  /\ UNCHANGED <<state, next, id, flags, last, current, numProcesses,
                 allocated, timer, inPanic, linked>>

(* The early return: -1, without RESTORE_INTERRUPT_STATE.                  *)
InvalidPriority ==
  /\ cpu.pc = "create"
  /\ cpu.job.priority > MaxPriority
  /\ cpu' = [cpu EXCEPT !.pc = cpu.job.ret, !.job = NoJob]
  /\ UNCHANGED <<state, next, id, flags, last, current, numProcesses,
                 allocated, timer, inPanic, linked>>

(* Mutation: num_processes is never incremented.                           *)
CreateSameId ==
  /\ cpu.pc = "create"
  /\ cpu.job.priority <= MaxPriority
  /\ \E p \in Proc \ allocated :
        /\ allocated' = allocated \union {p}
        /\ id' = [id EXCEPT ![p] = numProcesses]
        /\ flags' = [flags EXCEPT ![p] = cpu.job.flags]
        /\ cpu' = [cpu EXCEPT !.pc = "stack", !.job.process = p]
  /\ UNCHANGED <<state, next, last, current, numProcesses, timer, inPanic,
                 linked>>

(* Mutation: the id is num_processes before its first process, less one.   *)
CreateIdFromMinusOne ==
  /\ cpu.pc = "create"
  /\ cpu.job.priority <= MaxPriority
  /\ \E p \in Proc \ allocated :
        /\ allocated' = allocated \union {p}
        /\ id' = [id EXCEPT ![p] = numProcesses - 1]
        /\ numProcesses' = numProcesses + 1
        /\ flags' = [flags EXCEPT ![p] = cpu.job.flags]
        /\ cpu' = [cpu EXCEPT !.pc = "stack", !.job.process = p]
  /\ UNCHANGED <<state, next, last, current, timer, inPanic, linked>>

CreateProcess ==
  /\ cpu.pc = "create"
  /\ cpu.job.priority <= MaxPriority
  /\ \E p \in Proc \ allocated :
        /\ allocated' = allocated \union {p}
        /\ id' = [id EXCEPT ![p] = numProcesses]
        /\ numProcesses' = numProcesses + 1
        /\ flags' = [flags EXCEPT ![p] = cpu.job.flags]
        /\ cpu' = [cpu EXCEPT !.pc = "stack", !.job.process = p]
  /\ UNCHANGED <<state, next, last, current, timer, inPanic, linked>>

(* The stack is allocated or the caller's is used; then the registers.     *)
CreateStack ==
  /\ cpu.pc = "stack"
  /\ LET p == cpu.job.process
     IN  state' = [state EXCEPT ![p] = EntryState(p, flags[p])]
  /\ cpu' = [cpu EXCEPT !.pc = "link"]
  /\ UNCHANGED <<next, id, flags, last, current, numProcesses, allocated,
                 timer, inPanic, linked>>

(* kmalloc panics in either allocation, or in add_timer_event's.           *)
OutOfMemory ==
  /\ \/ cpu.pc = "create" /\ cpu.job.priority <= MaxPriority
     \/ cpu.pc \in {"stack", "boot_timer"}
  /\ Panic
  /\ UNCHANGED <<state, next, id, flags, last, current, numProcesses,
                 allocated, timer, linked>>

(* Mutation: queue->last is not set when the queue is initialised.         *)
LinkEmptyWithoutLast ==
  /\ cpu.pc = "link"
  /\ LET p == cpu.job.process
         i == cpu.job.priority
     IN  /\ last[i] = NULL
         /\ next' = [next EXCEPT ![p] = p]
         /\ current' = p
         /\ linked' = [linked EXCEPT ![i] = {p}]
  /\ cpu' = [cpu EXCEPT !.pc = "spawned"]
  /\ UNCHANGED <<state, id, flags, last, numProcesses, allocated, timer, inPanic>>

(* Initialise an empty queue with the process.                             *)
LinkEmpty ==
  /\ cpu.pc = "link"
  /\ LET p == cpu.job.process
         i == cpu.job.priority
     IN  /\ last[i] = NULL
         /\ last' = [last EXCEPT ![i] = p]
         /\ next' = [next EXCEPT ![p] = p]
         /\ current' = p
         /\ linked' = [linked EXCEPT ![i] = {p}]
  /\ cpu' = [cpu EXCEPT !.pc = "spawned"]
  /\ UNCHANGED <<state, id, flags, numProcesses, allocated, timer, inPanic>>

(* Mutation: process->next = queue->last, which closes a ring of two.      *)
LinkNextToLast ==
  /\ cpu.pc = "link"
  /\ last[cpu.job.priority] # NULL
  /\ next' = [next EXCEPT ![cpu.job.process] = last[cpu.job.priority]]
  /\ cpu' = [cpu EXCEPT !.pc = "link_prev"]
  /\ UNCHANGED <<state, id, flags, last, current, numProcesses, allocated,
                 timer, inPanic, linked>>

(* Otherwise insert it after queue->last, one store at a time:             *)
(* process->next = queue->last->next;                                      *)
LinkNext ==
  /\ cpu.pc = "link"
  /\ last[cpu.job.priority] # NULL
  /\ next' = [next EXCEPT ![cpu.job.process] = next[last[cpu.job.priority]]]
  /\ cpu' = [cpu EXCEPT !.pc = "link_prev"]
  /\ UNCHANGED <<state, id, flags, last, current, numProcesses, allocated,
                 timer, inPanic, linked>>

(* queue->last->next = process;                                            *)
LinkPrev ==
  /\ cpu.pc = "link_prev"
  /\ LET p == cpu.job.process
         i == cpu.job.priority
     IN  /\ next' = [next EXCEPT ![last[i]] = p]
         /\ linked' = [linked EXCEPT ![i] = @ \union {p}]
  /\ cpu' = [cpu EXCEPT !.pc = "link_last"]
  /\ UNCHANGED <<state, id, flags, last, current, numProcesses, allocated,
                 timer, inPanic>>

(* Mutation: queue->last stays, so the new process goes first.             *)
LinkWithoutLast ==
  /\ cpu.pc = "link_last"
  /\ cpu' = [cpu EXCEPT !.pc = "spawned"]
  /\ UNCHANGED <<state, next, id, flags, last, current, numProcesses, allocated,
                 timer, inPanic, linked>>

(* queue->last = process;                                                  *)
LinkLast ==
  /\ cpu.pc = "link_last"
  /\ last' = [last EXCEPT ![cpu.job.priority] = cpu.job.process]
  /\ cpu' = [cpu EXCEPT !.pc = "spawned"]
  /\ UNCHANGED <<state, next, id, flags, current, numProcesses, allocated,
                 timer, inPanic, linked>>

(* Mutation: returns without RESTORE_INTERRUPT_STATE.                      *)
ReturnWithoutRestore ==
  /\ cpu.pc = "spawned"
  /\ cpu' = [cpu EXCEPT !.pc = cpu.job.ret, !.job = NoJob]
  /\ UNCHANGED <<state, next, id, flags, last, current, numProcesses,
                 allocated, timer, inPanic, linked>>

(* RESTORE_INTERRUPT_STATE and return process->id.                         *)
RestoreInterruptState ==
  /\ cpu.pc = "spawned"
  /\ cpu' = [cpu EXCEPT !.pc = cpu.job.ret, !.intr = @ \/ cpu.job.saved,
                        !.job = NoJob]
  /\ UNCHANGED <<state, next, id, flags, last, current, numProcesses,
                 allocated, timer, inPanic, linked>>

-----------------------------------------------------------------------------
(* process_switch.  It runs with interrupts off.  `regs' is saved in       *)
(* current_process; the first process after `last' in the highest queue    *)
(* that is not empty becomes last and current, and its saved state the     *)
(* CPU's.  The test of process->blocked always succeeds: the field is set  *)
(* to false by process_spawn and nowhere assigned again.  The return when  *)
(* every queue is empty is never taken (SwitchFindsProcess).               *)

Saved(regs) ==
  IF current = NULL THEN state ELSE [state EXCEPT ![current] = regs]

IsHighest(i) ==
  /\ last[i] # NULL
  /\ \A j \in Priority : j > i => last[j] = NULL

(* Mutation: queue->last is not moved on to the process switched to.       *)
SwitchWithoutRotation(regs) ==
  \E i \in Priority :
     /\ IsHighest(i)
     /\ LET p == next[last[i]]
        IN  /\ state' = Saved(regs)
            /\ last' = last
            /\ current' = p
            /\ cpu' = state'[p]

(* Mutation: current_process is not assigned.                              *)
SwitchKeepsCurrent(regs) ==
  \E i \in Priority :
     /\ IsHighest(i)
     /\ LET p == next[last[i]]
        IN  /\ state' = Saved(regs)
            /\ last' = [last EXCEPT ![i] = p]
            /\ current' = current
            /\ cpu' = state'[p]

ProcessSwitch(regs) ==
  \E i \in Priority :
     /\ IsHighest(i)
     /\ LET p == next[last[i]]
        IN  /\ state' = Saved(regs)
            /\ last' = [last EXCEPT ![i] = p]
            /\ current' = p
            /\ cpu' = state'[p]

(* process_yield, called from a thread's code: get_cpu_state records the   *)
(* address of its own label as the place to resume.                        *)
Yield ==
  /\ cpu.pc = "body"
  /\ cpu' = [cpu EXCEPT !.pc = "switch", !.regs = "capture"]
  /\ UNCHANGED <<state, next, id, flags, last, current, numProcesses,
                 allocated, timer, inPanic, linked>>

(* A thread resumed at that label captures its registers a second time,    *)
(* but no call pushed the address it pops as EIP.                          *)
Recapture ==
  /\ cpu.pc = "capture"
  /\ cpu' = [cpu EXCEPT !.pc = "switch", !.regs = "wild"]
  /\ UNCHANGED <<state, next, id, flags, last, current, numProcesses,
                 allocated, timer, inPanic, linked>>

(* process_yield's call of process_switch.                                 *)
Switch ==
  /\ cpu.pc = "switch"
  /\ ProcessSwitch([cpu EXCEPT !.pc = cpu.regs, !.regs = "body"])
  /\ UNCHANGED <<next, id, flags, numProcesses, allocated, timer, inPanic,
                 linked>>

(* The timer interrupt: the gate disables interrupts, the stub stores the  *)
(* interrupted context in cpu_state, and the timer event calls             *)
(* process_switch(&cpu_state), which does not return to the stub.          *)
Preempt ==
  /\ cpu.intr
  /\ timer
  /\ ProcessSwitch(cpu)
  /\ UNCHANGED <<next, id, flags, numProcesses, allocated, timer, inPanic,
                 linked>>

(* Executing whatever the wild address points at: an exception, which      *)
(* handle_exception turns into a panic, unless it spins there for ever.    *)
Fault ==
  /\ cpu.pc = "wild"
  /\ Panic
  /\ UNCHANGED <<state, next, id, flags, last, current, numProcesses,
                 allocated, timer, linked>>

-----------------------------------------------------------------------------
(* disable_interrupts and enable_interrupts called by a process.           *)
SetInterrupts ==
  /\ cpu.pc = "body"
  /\ cpu.thread # Boot
  /\ \/ "cli" \in ClientCalls /\ cpu' = [cpu EXCEPT !.intr = FALSE]
     \/ "sti" \in ClientCalls /\ cpu' = [cpu EXCEPT !.intr = TRUE]
  /\ UNCHANGED <<state, next, id, flags, last, current, numProcesses,
                 allocated, timer, inPanic, linked>>

(* sched_init: spawn kernel_main, spawn idle, register the timer event,    *)
(* enable interrupts; boot() then yields.                                  *)
BootSpawn ==
  /\ \/ /\ cpu.pc = "boot_main"
        /\ SaveInterruptState(LowPriority, PROCESS_FLAGS_SUPERVISOR, "boot_idle")
     \/ /\ cpu.pc = "boot_idle"
        /\ SaveInterruptState(0, PROCESS_FLAGS_SUPERVISOR, "boot_timer")
  /\ UNCHANGED <<state, next, id, flags, last, current, numProcesses,
                 allocated, timer, inPanic, linked>>

BootTimer ==
  /\ cpu.pc = "boot_timer"
  /\ timer' = TRUE
  /\ cpu' = [cpu EXCEPT !.pc = "body", !.intr = TRUE]
  /\ UNCHANGED <<state, next, id, flags, last, current, numProcesses,
                 allocated, inPanic, linked>>

Next ==
  \/ BootSpawn \/ BootTimer
  \/ CallSpawn \/ InvalidPriority \/ CreateProcess \/ CreateStack
  \/ OutOfMemory
  \/ LinkEmpty \/ LinkNext \/ LinkPrev \/ LinkLast \/ RestoreInterruptState
  \/ Yield \/ Recapture \/ Switch \/ Preempt \/ Fault
  \/ WaitForInterrupt \/ SetInterrupts

Spec == Init /\ [][Next]_vars

(* The CPU executes the code it is in and the PIT keeps ticking.  A body   *)
(* is a loop around process_yield, as kernel_main and idle are.  Nothing   *)
(* is assumed of a wild jump: it need not fault.                           *)
Fairness ==
  /\ WF_vars(BootSpawn) /\ WF_vars(BootTimer)
  /\ WF_vars(InvalidPriority) /\ WF_vars(CreateProcess \/ OutOfMemory)
  /\ WF_vars(CreateStack)
  /\ WF_vars(LinkEmpty) /\ WF_vars(LinkNext) /\ WF_vars(LinkPrev)
  /\ WF_vars(LinkLast) /\ WF_vars(RestoreInterruptState)
  /\ WF_vars(Yield) /\ WF_vars(Recapture) /\ WF_vars(Switch)
  /\ WF_vars(Preempt) /\ WF_vars(WaitForInterrupt)

FairSpec == Spec /\ Fairness

-----------------------------------------------------------------------------
(* Properties.                                                             *)

(* Types of the variables; process structures and queue heads only ever    *)
(* point at process structures.                                            *)
TypeOK ==
  /\ cpu \in Context
  /\ state \in [Proc -> Context]
  /\ next \in [Proc -> Proc \union {NULL}]
  /\ id \in [Proc -> Nat]
  /\ flags \in [Proc -> SUBSET {"user"}]
  /\ last \in [Priority -> Proc \union {NULL}]
  /\ current \in Proc \union {NULL}
  /\ numProcesses \in Nat
  /\ allocated \in SUBSET Proc
  /\ timer \in BOOLEAN
  /\ inPanic \in BOOLEAN
  /\ linked \in [Priority -> SUBSET Proc]

AllLinked == UNION {linked[i] : i \in Priority}

(* M is one ring under f: f stays inside M, and no proper part of M is     *)
(* closed under f, so following f from any member visits them all.         *)
IsRing(M, f) ==
  /\ \A p \in M : f[p] \in M
  /\ \A P \in SUBSET M : P # {} /\ (\A p \in P : f[p] \in P) => P = M

(* Each queue is one ring, and `last' is in it exactly when it has members. *)
(* process_spawn's three stores and process_switch's rotation must keep    *)
(* this at every step, whoever is interrupted; a process cut off the ring  *)
(* would never run again.                                                  *)
RingInv ==
  \A i \in Priority :
     /\ last[i] = NULL <=> linked[i] = {}
     /\ last[i] # NULL => last[i] \in linked[i]
     /\ IsRing(linked[i], next)

(* A process is in at most one queue.                                      *)
OneQueue ==
  \A i, j \in Priority : i # j => linked[i] \intersect linked[j] = {}

(* The critical section of process_spawn is never interrupted: while the   *)
(* CPU is in it interrupts are off, and no saved context is inside it,     *)
(* where it would resume with a stale queue->last.                         *)
SpawnNotInterrupted ==
  /\ cpu.pc \in SpawnPC => ~cpu.intr
  /\ \A p \in Proc : state[p].pc \notin SpawnPC

(* Whenever process_switch can be called, by process_yield or by the timer *)
(* event, it finds a process to run and one to save the registers in: the  *)
(* fall-through return after its loop is dead code, and process_yield never *)
(* comes back to its caller that way.                                      *)
SwitchFindsProcess ==
  cpu.pc = "switch" \/ timer =>
    /\ current # NULL
    /\ \E i \in Priority : last[i] # NULL

(* Process ids identify processes although a panic may burn one.           *)
IdsDistinct ==
  /\ \A p \in allocated : id[p] < numProcesses
  /\ \A p, q \in allocated : p # q => id[p] # id[q]

(* The thread a process stands for: what runs now when it is current, what *)
(* its saved state resumes otherwise.                                      *)
ThreadOf(p) == IF p = current THEN cpu.thread ELSE state[p].thread

DistinctThreads ==
  \A p, q \in AllLinked : p # q => ThreadOf(p) # ThreadOf(q)

(* kernel_main's and idle's queues are the only ones in use.               *)
OnlyBootQueues == \A i \in Priority \ {0, LowPriority} : linked[i] = {}

(* No thread belongs to two processes: it would be resumed twice, the      *)
(* second time from a context it has already left.  Holds until a running  *)
(* process spawns into an empty queue, which makes the new process current *)
(* before it has run.                                                      *)
NoThreadDuplicated == OnlyBootQueues => DistinctThreads

SpawnReturns == cpu.pc \in SpawnPC /\ cpu'.pc \notin SpawnPC \union {"halt"}

(* The interrupt flag a caller had is the one process_spawn returns with,  *)
(* whatever happened in between, if its priority is valid.                 *)
ValidSpawnRestores ==
  [][ SpawnReturns /\ cpu.job.priority \in Priority
        => cpu'.intr = cpu.job.saved ]_vars

(* A process is dispatched before another of its queue is dispatched twice *)
(* and no process of a lower queue runs before it: with the timer running, *)
(* each member of the highest queue becomes current again and again, panic *)
(* or not, unless the CPU stays in a wild jump with interrupts off.        *)
TopQueue == UNION {linked[i] : i \in {j \in Priority : IsHighest(j)}}

StuckInWildJump == cpu.pc = "wild" /\ ~cpu.intr

TopQueueServed ==
  \A p \in Proc :
     <>[](timer /\ p \in TopQueue) => []<>(current = p) \/ <>[]StuckInWildJump

-----------------------------------------------------------------------------
(* What the headers say, and the code does not do.                         *)

(* get_current_process: "a handle to the currently-executing process".     *)
CurrentIsRunning == timer /\ cpu.thread # Boot => current = cpu.thread

(* SAVE_INTERRUPT_STATE and RESTORE_INTERRUPT_STATE: "Restore previous     *)
(* interrupt state", on every path out of process_spawn.                   *)
InterruptStateRestored == [][ SpawnReturns => cpu'.intr = cpu.job.saved ]_vars

(* panic: "Print an error message and then stop execution."                *)
PanicIsFinal == inPanic => cpu.pc = "halt"

(* process_yield gives up the rest of a timeslice: its caller goes on when *)
(* it is next dispatched.                                                  *)
YieldReturns ==
  \A p \in Proc : cpu.pc = "switch" /\ cpu.thread = p ~>
                     cpu.pc = "body" /\ cpu.thread = p
=============================================================================
