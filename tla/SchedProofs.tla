----------------------------- MODULE SchedProofs -----------------------------
(***************************************************************************)
(* Proofs about Sched for every set of processes and every number of       *)
(* priorities.                                                             *)
(***************************************************************************)
EXTENDS SchedRefinement, Induction, TLAPS

(* Between the allocation of the process and the return of process_spawn.  *)
CreatedPC == {"stack", "link", "link_prev", "link_last", "spawned"}

(* What process_spawn knows of the process it is inserting.                *)
JobInv ==
  /\ AllLinked \subseteq allocated
  /\ cpu.pc \in CreatedPC =>
        cpu.job.process \in allocated /\ cpu.job.priority \in Priority
  /\ cpu.pc \in {"stack", "link", "link_prev"} =>
        cpu.job.process \notin AllLinked
  /\ cpu.pc = "link_prev" =>
        /\ last[cpu.job.priority] # NULL
        /\ next[cpu.job.process] = next[last[cpu.job.priority]]
  /\ cpu.pc = "link_last" => cpu.job.process \in linked[cpu.job.priority]

(* No interrupted or yielding thread resumes inside process_spawn.         *)
Outside(ctx) ==
  ctx.pc \notin SpawnPC /\ ctx.regs \notin SpawnPC /\ ctx.job.ret \notin SpawnPC

SpawnInv ==
  /\ cpu.pc \in SpawnPC => ~cpu.intr
  /\ cpu.regs \notin SpawnPC /\ cpu.job.ret \notin SpawnPC
  /\ \A p \in Proc : Outside(state[p])

(* TypeOK alone is not inductive: that process_switch loads the state of a *)
(* process, and not of NULL, needs the rings, and they need SpawnInv.      *)
IInv == TypeOK /\ RingInv /\ OneQueue /\ JobInv /\ SpawnInv

-----------------------------------------------------------------------------
(* Rings.                                                                  *)

(* A ring depends on the successors of its members only.                   *)
LEMMA RingFrame ==
  ASSUME NEW M, NEW f, NEW g, IsRing(M, f), \A p \in M : g[p] = f[p]
  PROVE  IsRing(M, g)
BY DEF IsRing

(* The empty ring and the ring of one process.                             *)
LEMMA RingEmpty == ASSUME NEW f PROVE IsRing({}, f)
BY DEF IsRing

LEMMA RingSingle ==
  ASSUME NEW f, NEW p, f[p] = p
  PROVE  IsRing({p}, f)
BY DEF IsRing

(* process_spawn's insertion: p, already pointing at l's successor, is made *)
(* l's successor, and the ring is one ring again.                          *)
LEMMA RingInsert ==
  ASSUME NEW D, NEW C, NEW f \in [D -> C], NEW M \in SUBSET D, NEW l \in M,
         NEW p \in D, p \notin M, f[p] = f[l], IsRing(M, f)
  PROVE  IsRing(M \union {p}, [f EXCEPT ![l] = p])
<1> DEFINE g == [f EXCEPT ![l] = p]
<1>1. g[l] = p /\ \A x \in D : x # l => g[x] = f[x]
  OBVIOUS
<1>2. \A x \in M : f[x] \in M
  BY DEF IsRing
<1>3. g[p] = f[l] /\ g[p] \in M
  BY <1>1, <1>2
<1>4. \A x \in M \union {p} : g[x] \in M \union {p}
  BY <1>1, <1>2, <1>3
<1>5. ASSUME NEW P \in SUBSET (M \union {p}), P # {}, \A x \in P : g[x] \in P
      PROVE  P = M \union {p}
  <2> DEFINE Q == P \ {p}
  <2>1. Q # {}
    <3>1. PICK x \in P : TRUE
      BY <1>5
    <3>2. g[x] \in P
      BY <1>5, <3>1
    <3>3. CASE x = p
      BY <3>2, <3>3, <1>3
    <3>4. CASE x # p
      BY <3>1, <3>4
    <3> QED BY <3>3, <3>4
  <2>2. ASSUME NEW x \in Q PROVE f[x] \in Q
    <3>1. x \in M /\ g[x] \in P /\ f[x] # p
      BY <2>2, <1>5, <1>2
    <3>2. CASE x = l
      <4>1. p \in P
        BY <3>1, <3>2, <1>1
      <4>2. g[p] \in P
        BY <4>1, <1>5
      <4> QED BY <4>2, <3>1, <3>2, <1>3
    <3>3. CASE x # l
      BY <3>1, <3>3, <1>1
    <3> QED BY <3>2, <3>3
  <2>3. Q \in SUBSET M
    OBVIOUS
  <2>4. Q = M
    BY <2>1, <2>2, <2>3 DEF IsRing
  <2>5. p \in P
    BY <2>4, <1>1, <1>5
  <2> QED BY <2>4, <2>5
<1> QED BY <1>4, <1>5 DEF IsRing

-----------------------------------------------------------------------------
(* The invariant.                                                          *)

LEMMA InitIInv == Init => IInv
<1> SUFFICES ASSUME Init PROVE IInv
  OBVIOUS
<1> USE SchedAssumption DEF Init
<1>1. TypeOK
  BY DEF TypeOK, Context, Job, NoJob, EntryState, Thread, PC, SpawnPC, Priority,
         TestFlag, PROCESS_FLAGS_SUPERVISOR
<1>2. RingInv
  BY RingEmpty DEF RingInv
<1>3. OneQueue
  BY DEF OneQueue
<1>4. JobInv
  BY DEF JobInv, AllLinked, CreatedPC
<1>5. SpawnInv
  BY DEF SpawnInv, Outside, SpawnPC, EntryState, NoJob
<1> QED BY <1>1, <1>2, <1>3, <1>4, <1>5 DEF IInv

(* A step that leaves the processes and the queues alone, and the CPU      *)
(* outside the part of process_spawn that has a process in hand.           *)
LEMMA CpuStep ==
  ASSUME IInv,
         UNCHANGED <<state, next, id, flags, last, current, numProcesses,
                     allocated, linked>>,
         cpu' \in Context, timer' \in BOOLEAN, inPanic' \in BOOLEAN,
         cpu'.pc \notin CreatedPC, cpu'.pc \in SpawnPC => ~cpu'.intr,
         cpu'.regs \notin SpawnPC, cpu'.job.ret \notin SpawnPC
  PROVE  IInv'
<1>1. TypeOK'
  BY DEF IInv, TypeOK
<1>2. RingInv' /\ OneQueue'
  BY DEF IInv, RingInv, OneQueue, IsRing
<1>3. JobInv'
  BY DEF IInv, JobInv, AllLinked, CreatedPC
<1>4. SpawnInv'
  BY DEF IInv, SpawnInv, Outside
<1> QED BY <1>1, <1>2, <1>3, <1>4 DEF IInv

(* The steps CpuStep covers.                                               *)
LEMMA CpuStepIInv ==
  ASSUME IInv,
         \/ WaitForInterrupt \/ CallSpawn \/ InvalidPriority \/ OutOfMemory
         \/ RestoreInterruptState \/ Yield \/ Recapture \/ Fault
         \/ SetInterrupts \/ BootSpawn \/ BootTimer
  PROVE  IInv'
<1> USE DEF Context, Job, NoJob, PC, SpawnPC, CreatedPC
<1>0. /\ cpu \in Context /\ timer \in BOOLEAN /\ inPanic \in BOOLEAN
      /\ cpu.regs \notin SpawnPC /\ cpu.job.ret \notin SpawnPC
  BY DEF IInv, TypeOK, SpawnInv
<1>1. CASE WaitForInterrupt
  BY <1>0, <1>1, CpuStep DEF WaitForInterrupt
<1>2. CASE CallSpawn
  <2>1. PICK priority \in SpawnPriority, f \in SpawnFlags :
             SaveInterruptState(priority, f, "body")
    BY <1>2 DEF CallSpawn
  <2>2. priority \in Nat /\ f \in SUBSET {"user"}
    BY SchedAssumption
  <2> QED BY <1>0, <1>2, <2>1, <2>2, CpuStep, ZenonT(60) DEF CallSpawn, SaveInterruptState
<1>3. CASE InvalidPriority
  BY <1>0, <1>3, CpuStep DEF InvalidPriority
<1>4. CASE OutOfMemory
  BY <1>0, <1>4, CpuStep DEF OutOfMemory, Panic
<1>5. CASE RestoreInterruptState
  BY <1>0, <1>5, CpuStep, ZenonT(60) DEF RestoreInterruptState
<1>6. CASE Yield
  BY <1>0, <1>6, CpuStep DEF Yield
<1>7. CASE Recapture
  BY <1>0, <1>7, CpuStep DEF Recapture
<1>8. CASE Fault
  BY <1>0, <1>8, CpuStep DEF Fault, Panic
<1>9. CASE SetInterrupts
  <2>1. PICK b \in BOOLEAN : cpu' = [cpu EXCEPT !.intr = b]
    BY <1>9 DEF SetInterrupts
  <2>2. cpu.pc = "body"
    BY <1>9 DEF SetInterrupts
  <2> QED BY <1>0, <1>9, <2>1, <2>2, CpuStep DEF SetInterrupts
<1>10. CASE BootSpawn
  <2>1. PICK priority \in {0, LowPriority}, ret \in {"boot_idle", "boot_timer"} :
             SaveInterruptState(priority, {}, ret)
    BY <1>10 DEF BootSpawn, PROCESS_FLAGS_SUPERVISOR
  <2>2. priority \in Nat
    BY SchedAssumption DEF Priority
  <2>3. UNCHANGED <<state, next, id, flags, last, current, numProcesses,
                    allocated, timer, inPanic, linked>>
    BY <1>10 DEF BootSpawn
  <2>4. /\ cpu' \in Context /\ cpu'.pc = "create" /\ cpu'.intr = FALSE
        /\ cpu'.regs = cpu.regs /\ cpu'.job.ret = ret
    BY <1>0, <2>1, <2>2 DEF SaveInterruptState
  <2> QED BY <1>0, <2>3, <2>4, CpuStep
<1>11. CASE BootTimer
  BY <1>0, <1>11, CpuStep DEF BootTimer
<1> QED BY <1>1, <1>2, <1>3, <1>4, <1>5, <1>6, <1>7, <1>8, <1>9, <1>10, <1>11

LEMMA CreateProcessIInv ==
  ASSUME IInv, CreateProcess
  PROVE  IInv'
<1>1. PICK p \in Proc \ allocated :
           /\ allocated' = allocated \union {p}
           /\ id' = [id EXCEPT ![p] = numProcesses]
           /\ numProcesses' = numProcesses + 1
           /\ flags' = [flags EXCEPT ![p] = cpu.job.flags]
           /\ cpu' = [cpu EXCEPT !.pc = "stack", !.job.process = p]
  BY DEF CreateProcess
<1>2. /\ UNCHANGED <<state, next, last, current, timer, inPanic, linked>>
      /\ cpu.pc = "create" /\ cpu.job.priority <= MaxPriority
  BY DEF CreateProcess
<1>3. TypeOK
  BY DEF IInv
<1>4. /\ cpu' \in Context /\ cpu'.pc = "stack" /\ cpu'.intr = cpu.intr
      /\ cpu'.regs = cpu.regs /\ cpu'.job.ret = cpu.job.ret
      /\ cpu'.job.process = p /\ cpu'.job.priority = cpu.job.priority
  BY <1>1, <1>3 DEF TypeOK, Context, Job, PC, SpawnPC
<1>5. TypeOK'
  BY <1>1, <1>2, <1>3, <1>4 DEF TypeOK, Context, Job
<1>6. RingInv' /\ OneQueue'
  BY <1>2 DEF IInv, RingInv, OneQueue, IsRing
<1>7. JobInv'
  <2>1. cpu.job.priority \in Priority
    BY <1>2, <1>3, SchedAssumption DEF TypeOK, Context, Job, Priority
  <2>2. AllLinked' \subseteq allocated /\ AllLinked' = AllLinked
    BY <1>2 DEF IInv, JobInv, AllLinked
  <2> QED BY <1>1, <1>4, <2>1, <2>2 DEF JobInv, CreatedPC
<1>8. SpawnInv'
  BY <1>2, <1>4 DEF IInv, SpawnInv, Outside, SpawnPC
<1> QED BY <1>5, <1>6, <1>7, <1>8 DEF IInv

LEMMA CreateStackIInv ==
  ASSUME IInv, CreateStack
  PROVE  IInv'
<1> DEFINE p == cpu.job.process
<1>1. TypeOK /\ cpu.pc = "stack" /\ p \in Proc
  BY DEF IInv, TypeOK, JobInv, CreatedPC, CreateStack
<1>2. /\ state' = [state EXCEPT ![p] = EntryState(p, flags[p])]
      /\ UNCHANGED <<next, id, flags, last, current, numProcesses, allocated,
                     timer, inPanic, linked>>
  BY DEF CreateStack
<1>3. /\ cpu' \in Context /\ cpu'.pc = "link" /\ cpu'.intr = cpu.intr
      /\ cpu'.regs = cpu.regs /\ cpu'.job = cpu.job
  BY <1>1, SMTT(60) DEF CreateStack, TypeOK, Context, PC, SpawnPC
<1>4. EntryState(p, flags[p]) \in Context /\ Outside(EntryState(p, flags[p]))
  BY <1>1 DEF EntryState, Context, Job, NoJob, PC, SpawnPC, Thread, Outside
<1>5. TypeOK'
  BY <1>1, <1>2, <1>3, <1>4 DEF TypeOK
<1>6. RingInv' /\ OneQueue'
  BY <1>2 DEF IInv, RingInv, OneQueue, IsRing
<1>7. JobInv'
  BY <1>1, <1>2, <1>3 DEF IInv, JobInv, AllLinked, CreatedPC
<1>8. SpawnInv'
  BY <1>1, <1>2, <1>3, <1>4 DEF IInv, TypeOK, SpawnInv, Outside, SpawnPC
<1> QED BY <1>5, <1>6, <1>7, <1>8 DEF IInv

LEMMA LinkEmptyIInv ==
  ASSUME IInv, LinkEmpty
  PROVE  IInv'
<1> DEFINE p == cpu.job.process
           i == cpu.job.priority
<1>1. /\ TypeOK /\ cpu.pc = "link" /\ p \in Proc /\ i \in Priority
      /\ p \in allocated /\ p \notin AllLinked
  BY DEF IInv, TypeOK, JobInv, CreatedPC, LinkEmpty
<1>2. /\ last[i] = NULL
      /\ last' = [last EXCEPT ![i] = p]
      /\ next' = [next EXCEPT ![p] = p]
      /\ current' = p
      /\ linked' = [linked EXCEPT ![i] = {p}]
      /\ UNCHANGED <<state, id, flags, numProcesses, allocated, timer, inPanic>>
  BY DEF LinkEmpty
<1>3. /\ cpu' \in Context /\ cpu'.pc = "spawned" /\ cpu'.intr = cpu.intr
      /\ cpu'.regs = cpu.regs /\ cpu'.job = cpu.job
  BY <1>1 DEF LinkEmpty, TypeOK, Context, PC, SpawnPC
<1>4. TypeOK'
  BY <1>1, <1>2, <1>3 DEF TypeOK
<1>5. RingInv'
  <2> SUFFICES ASSUME NEW j \in Priority
               PROVE  /\ last'[j] = NULL <=> linked'[j] = {}
                      /\ last'[j] # NULL => last'[j] \in linked'[j]
                      /\ IsRing(linked'[j], next')
    BY DEF RingInv
  <2>1. CASE j = i
    <3>1. last'[i] = p /\ linked'[i] = {p} /\ next'[p] = p
      BY <1>1, <1>2 DEF TypeOK
    <3>2. IsRing({p}, next')
      BY <3>1, RingSingle
    <3>3. p # NULL
      BY <1>1, SchedAssumption
    <3> QED BY <2>1, <3>1, <3>2, <3>3
  <2>2. CASE j # i
    <3>1. last'[j] = last[j] /\ linked'[j] = linked[j]
      BY <1>1, <1>2, <2>2 DEF TypeOK
    <3>2. \A q \in linked[j] : next'[q] = next[q]
      BY <1>1, <1>2 DEF TypeOK, AllLinked
    <3>3. IsRing(linked[j], next')
      BY <3>2, RingFrame DEF IInv, RingInv
    <3> QED BY <3>1, <3>3 DEF IInv, RingInv
  <2> QED BY <2>1, <2>2
<1>6. OneQueue'
  BY <1>1, <1>2 DEF IInv, OneQueue, TypeOK, AllLinked
<1>7. JobInv'
  <2>1. AllLinked' \subseteq AllLinked \union {p}
    BY <1>1, <1>2 DEF AllLinked, TypeOK
  <2>2. AllLinked \subseteq allocated
    BY DEF IInv, JobInv
  <2> QED BY <1>1, <1>2, <1>3, <2>1, <2>2 DEF JobInv, CreatedPC
<1>8. SpawnInv'
  BY <1>1, <1>2, <1>3 DEF IInv, SpawnInv, Outside, SpawnPC
<1> QED BY <1>4, <1>5, <1>6, <1>7, <1>8 DEF IInv

LEMMA LinkNextIInv ==
  ASSUME IInv, LinkNext
  PROVE  IInv'
<1> DEFINE p == cpu.job.process
           i == cpu.job.priority
<1>1. /\ TypeOK /\ cpu.pc = "link" /\ p \in Proc /\ i \in Priority
      /\ p \in allocated /\ p \notin AllLinked /\ last[i] # NULL
  BY DEF IInv, TypeOK, JobInv, CreatedPC, LinkNext
<1>2. /\ next' = [next EXCEPT ![p] = next[last[i]]]
      /\ UNCHANGED <<state, id, flags, last, current, numProcesses, allocated,
                     timer, inPanic, linked>>
  BY DEF LinkNext
<1>3. /\ cpu' \in Context /\ cpu'.pc = "link_prev" /\ cpu'.intr = cpu.intr
      /\ cpu'.regs = cpu.regs /\ cpu'.job = cpu.job
  BY <1>1 DEF LinkNext, TypeOK, Context, PC, SpawnPC
<1>4. last[i] \in linked[i] /\ last[i] \in Proc /\ last[i] # p
  BY <1>1 DEF IInv, RingInv, AllLinked, TypeOK
<1>5. TypeOK'
  BY <1>1, <1>2, <1>3, <1>4 DEF TypeOK
<1>6. RingInv'
  <2>1. ASSUME NEW j \in Priority
        PROVE  IsRing(linked[j], next')
    <3>1. \A q \in linked[j] : next'[q] = next[q]
      BY <1>1, <1>2 DEF TypeOK, AllLinked
    <3> QED BY <3>1, RingFrame DEF IInv, RingInv
  <2> QED BY <1>2, <2>1 DEF IInv, RingInv
<1>7. OneQueue'
  BY <1>2 DEF IInv, OneQueue
<1>8. JobInv'
  <2>1. next'[p] = next'[last[i]]
    BY <1>1, <1>2, <1>4 DEF TypeOK
  <2> QED BY <1>1, <1>2, <1>3, <2>1 DEF IInv, JobInv, CreatedPC, AllLinked
<1>9. SpawnInv'
  BY <1>1, <1>2, <1>3 DEF IInv, SpawnInv, Outside, SpawnPC
<1> QED BY <1>5, <1>6, <1>7, <1>8, <1>9 DEF IInv

LEMMA LinkPrevIInv ==
  ASSUME IInv, LinkPrev
  PROVE  IInv'
<1> DEFINE p == cpu.job.process
           i == cpu.job.priority
<1>1. /\ TypeOK /\ cpu.pc = "link_prev" /\ p \in Proc /\ i \in Priority
      /\ p \in allocated /\ p \notin AllLinked
      /\ last[i] # NULL /\ next[p] = next[last[i]]
  BY DEF IInv, TypeOK, JobInv, CreatedPC, LinkPrev
<1>2. /\ next' = [next EXCEPT ![last[i]] = p]
      /\ linked' = [linked EXCEPT ![i] = @ \union {p}]
      /\ UNCHANGED <<state, id, flags, last, current, numProcesses, allocated,
                     timer, inPanic>>
  BY DEF LinkPrev
<1>3. /\ cpu' \in Context /\ cpu'.pc = "link_last" /\ cpu'.intr = cpu.intr
      /\ cpu'.regs = cpu.regs /\ cpu'.job = cpu.job
  BY <1>1 DEF LinkPrev, TypeOK, Context, PC, SpawnPC
<1>4. last[i] \in linked[i] /\ last[i] \in Proc
  BY <1>1 DEF IInv, RingInv, TypeOK
<1>5. linked'[i] = linked[i] \union {p}
  BY <1>1, <1>2 DEF TypeOK
<1>6. TypeOK'
  BY <1>1, <1>2, <1>3, <1>4, <1>5 DEF TypeOK
<1>7. RingInv'
  <2> SUFFICES ASSUME NEW j \in Priority
               PROVE  /\ last'[j] = NULL <=> linked'[j] = {}
                      /\ last'[j] # NULL => last'[j] \in linked'[j]
                      /\ IsRing(linked'[j], next')
    BY DEF RingInv
  <2>1. CASE j = i
    <3>1. /\ next \in [Proc -> Proc \union {NULL}]
          /\ linked[i] \in SUBSET Proc /\ p \notin linked[i]
          /\ IsRing(linked[i], next)
      BY <1>1 DEF TypeOK, IInv, RingInv, AllLinked
    <3>2. IsRing(linked[i] \union {p}, [next EXCEPT ![last[i]] = p])
      BY <1>1, <1>4, <3>1, RingInsert
    <3>3. IsRing(linked'[i], next')
      BY <3>2, <1>2, <1>5
    <3> QED BY <2>1, <3>3, <1>1, <1>2, <1>4, <1>5
  <2>2. CASE j # i
    <3>1. linked'[j] = linked[j]
      BY <1>1, <1>2, <2>2 DEF TypeOK
    <3>2. last[i] \notin linked[j]
      BY <1>1, <1>4, <2>2 DEF IInv, OneQueue
    <3>3. \A q \in linked[j] : next'[q] = next[q]
      BY <1>1, <1>2, <3>2 DEF TypeOK
    <3>4. IsRing(linked[j], next')
      BY <3>3, RingFrame DEF IInv, RingInv
    <3> QED BY <1>2, <3>1, <3>4 DEF IInv, RingInv
  <2> QED BY <2>1, <2>2
<1>8. OneQueue'
  BY <1>1, <1>2, <1>5 DEF IInv, OneQueue, TypeOK, AllLinked
<1>9. JobInv'
  <2>1. AllLinked' \subseteq AllLinked \union {p}
    BY <1>1, <1>2 DEF AllLinked, TypeOK
  <2>2. AllLinked \subseteq allocated
    BY DEF IInv, JobInv
  <2> QED BY <1>1, <1>2, <1>3, <1>5, <2>1, <2>2 DEF JobInv, CreatedPC
<1>10. SpawnInv'
  BY <1>1, <1>2, <1>3 DEF IInv, SpawnInv, Outside, SpawnPC
<1> QED BY <1>6, <1>7, <1>8, <1>9, <1>10 DEF IInv

LEMMA LinkLastIInv ==
  ASSUME IInv, LinkLast
  PROVE  IInv'
<1> DEFINE p == cpu.job.process
           i == cpu.job.priority
<1>1. /\ TypeOK /\ cpu.pc = "link_last" /\ p \in Proc /\ i \in Priority
      /\ p \in allocated /\ p \in linked[i]
  BY DEF IInv, TypeOK, JobInv, CreatedPC, LinkLast
<1>2. /\ last' = [last EXCEPT ![i] = p]
      /\ UNCHANGED <<state, next, id, flags, current, numProcesses, allocated,
                     timer, inPanic, linked>>
  BY DEF LinkLast
<1>3. /\ cpu' \in Context /\ cpu'.pc = "spawned" /\ cpu'.intr = cpu.intr
      /\ cpu'.regs = cpu.regs /\ cpu'.job = cpu.job
  BY <1>1 DEF LinkLast, TypeOK, Context, PC, SpawnPC
<1>4. TypeOK'
  BY <1>1, <1>2, <1>3 DEF TypeOK
<1>5. RingInv'
  <2>1. last'[i] = p /\ p # NULL /\ \A j \in Priority : j # i => last'[j] = last[j]
    BY <1>1, <1>2, SchedAssumption DEF TypeOK
  <2> QED BY <1>1, <1>2, <2>1 DEF IInv, RingInv, IsRing
<1>6. OneQueue'
  BY <1>2 DEF IInv, OneQueue
<1>7. JobInv'
  BY <1>1, <1>2, <1>3 DEF IInv, JobInv, CreatedPC, AllLinked
<1>8. SpawnInv'
  BY <1>1, <1>2, <1>3 DEF IInv, SpawnInv, Outside, SpawnPC
<1> QED BY <1>4, <1>5, <1>6, <1>7, <1>8 DEF IInv

(* process_switch, called with a context that is not inside process_spawn. *)
LEMMA ProcessSwitchIInv ==
  ASSUME IInv, NEW regs \in Context, Outside(regs), ProcessSwitch(regs),
         UNCHANGED <<next, id, flags, numProcesses, allocated, timer, inPanic,
                     linked>>
  PROVE  IInv'
<1>1. PICK i \in Priority :
           /\ IsHighest(i)
           /\ state' = Saved(regs)
           /\ last' = [last EXCEPT ![i] = next[last[i]]]
           /\ current' = next[last[i]]
           /\ cpu' = state'[next[last[i]]]
  BY DEF ProcessSwitch
<1> DEFINE p == next[last[i]]
<1>2. TypeOK
  BY DEF IInv
<1>3. p \in linked[i] /\ p \in Proc
  BY <1>1, <1>2 DEF IInv, RingInv, IsRing, IsHighest, TypeOK
<1>4. state' \in [Proc -> Context] /\ \A q \in Proc : Outside(state'[q])
  BY <1>1, <1>2 DEF Saved, TypeOK, IInv, SpawnInv
<1>5. cpu' \in Context /\ Outside(cpu')
  BY <1>1, <1>3, <1>4
<1>6. TypeOK'
  BY <1>1, <1>2, <1>3, <1>4, <1>5 DEF TypeOK
<1>7. RingInv'
  <2>1. last'[i] = p /\ p # NULL /\ \A j \in Priority : j # i => last'[j] = last[j]
    BY <1>1, <1>2, <1>3, SchedAssumption DEF TypeOK
  <2>2. last[i] # NULL
    BY <1>1 DEF IsHighest
  <2> QED BY <1>3, <2>1, <2>2 DEF IInv, RingInv, IsRing
<1>8. OneQueue'
  BY DEF IInv, OneQueue
<1>9. JobInv'
  BY <1>5 DEF IInv, JobInv, AllLinked, CreatedPC, SpawnPC, Outside
<1>10. SpawnInv'
  BY <1>4, <1>5 DEF SpawnInv, Outside
<1> QED BY <1>6, <1>7, <1>8, <1>9, <1>10 DEF IInv

LEMMA SwitchIInv == ASSUME IInv, Switch \/ Preempt PROVE IInv'
<1>1. TypeOK /\ SpawnInv
  BY DEF IInv
<1>2. CASE Switch
  <2> DEFINE regs == [cpu EXCEPT !.pc = cpu.regs, !.regs = "body"]
  <2>1. regs \in Context /\ Outside(regs)
    BY <1>1 DEF TypeOK, Context, SpawnInv, Outside, PC, SpawnPC
  <2> QED BY <1>2, <2>1, ProcessSwitchIInv DEF Switch
<1>3. CASE Preempt
  <2>1. cpu \in Context /\ Outside(cpu)
    BY <1>1, <1>3 DEF TypeOK, SpawnInv, Outside, Preempt
  <2> QED BY <1>3, <2>1, ProcessSwitchIInv DEF Preempt
<1> QED BY <1>2, <1>3

LEMMA NextIInv == IInv /\ [Next]_vars => IInv'
<1> SUFFICES ASSUME IInv, [Next]_vars PROVE IInv'
  OBVIOUS
<1>1. CASE UNCHANGED vars
  <2> USE <1>1 DEF vars, IInv
  <2>1. TypeOK'
    BY DEF TypeOK
  <2>2. RingInv' /\ OneQueue'
    BY DEF RingInv, OneQueue, IsRing
  <2>3. JobInv'
    BY DEF JobInv, AllLinked
  <2>4. SpawnInv'
    BY DEF SpawnInv, Outside
  <2> QED BY <2>1, <2>2, <2>3, <2>4
<1>2. CASE Next
  BY <1>2, CpuStepIInv, CreateProcessIInv, CreateStackIInv, LinkEmptyIInv,
     LinkNextIInv, LinkPrevIInv, LinkLastIInv, SwitchIInv DEF Next
<1> QED BY <1>1, <1>2

(* The strengthened invariant holds of the scheduler.                      *)
THEOREM IInvHolds == Spec => []IInv
<1> QED BY InitIInv, NextIInv, PTL DEF Spec

-----------------------------------------------------------------------------
(* What it gives.                                                          *)

(* Every variable keeps its type: in particular no pointer the scheduler   *)
(* follows is ever NULL.                                                   *)
THEOREM TypeCorrect == Spec => []TypeOK
<1>1. IInv => TypeOK
  BY DEF IInv
<1> QED BY <1>1, IInvHolds, PTL

(* Every queue is one ring at every step of process_spawn and              *)
(* process_switch, whatever is interrupted and however often they run.     *)
THEOREM RingsIntact == Spec => []RingInv
<1>1. IInv => RingInv
  BY DEF IInv
<1> QED BY <1>1, IInvHolds, PTL

(* No process is ever in two queues.                                       *)
THEOREM QueuesDisjoint == Spec => []OneQueue
<1>1. IInv => OneQueue
  BY DEF IInv
<1> QED BY <1>1, IInvHolds, PTL

(* process_spawn is never interrupted half-way nor resumed half-way.       *)
THEOREM SpawnAtomic == Spec => []SpawnNotInterrupted
<1>1. IInv => SpawnNotInterrupted
  BY DEF IInv, SpawnInv, SpawnNotInterrupted, Outside
<1> QED BY <1>1, IInvHolds, PTL

-----------------------------------------------------------------------------
(* process_switch always finds a process.                                  *)

(* The queues are empty only while sched_init spawns the first process, or *)
(* after it ran out of memory doing so.                                    *)
NoQueueYet == \A i \in Priority : last[i] = NULL

Booting ==
  \/ cpu.pc = "boot_main"
  \/ cpu.pc \in SpawnPC \ {"spawned"} /\ cpu.job.ret = "boot_idle"
  \/ cpu.pc = "halt"

BootInv ==
  /\ NoQueueYet => Booting /\ ~timer
  /\ current = NULL => NoQueueYet
  /\ cpu.pc \in SpawnPC /\ cpu.job.ret \in {"boot_idle", "boot_timer"} =>
        cpu.job.priority \in Priority

LEMMA BootInvImplies == BootInv => SwitchFindsProcess
BY DEF BootInv, SwitchFindsProcess, NoQueueYet, Booting, SpawnPC

LEMMA BootInvNext == IInv /\ BootInv /\ [Next]_vars => BootInv'
<1> SUFFICES ASSUME IInv, BootInv, [Next]_vars PROVE BootInv'
  OBVIOUS
<1> USE DEF BootInv, NoQueueYet, Booting, SpawnPC
<1>0. cpu \in Context /\ TypeOK /\ SpawnInv /\ JobInv /\ RingInv
  BY DEF IInv, TypeOK
<1>1. CASE UNCHANGED vars
  BY <1>1 DEF vars
<1>2. CASE BootSpawn
  <2>1. PICK i \in {0, LowPriority}, ret \in {"boot_idle", "boot_timer"} :
             /\ SaveInterruptState(i, {}, ret)
             /\ cpu.pc = "boot_main" => ret = "boot_idle"
             /\ cpu.pc \in {"boot_main", "boot_idle"}
    BY <1>2 DEF BootSpawn, PROCESS_FLAGS_SUPERVISOR
  <2>2. /\ cpu'.pc = "create" /\ cpu'.job.ret = ret /\ cpu'.job.priority = i
    BY <1>0, <2>1 DEF SaveInterruptState, Context
  <2>3. UNCHANGED <<last, current, timer>>
    BY <1>2 DEF BootSpawn
  <2>4. i \in Priority
    BY SchedAssumption DEF Priority
  <2> QED BY <2>1, <2>2, <2>3, <2>4
<1>3. CASE BootTimer
  BY <1>0, <1>3 DEF BootTimer, Context
<1>4. CASE CallSpawn
  <2>1. PICK i \in SpawnPriority, f \in SpawnFlags :
             SaveInterruptState(i, f, "body")
    BY <1>4 DEF CallSpawn
  <2>2. cpu'.job.ret = "body" /\ cpu.pc = "body"
    BY <1>0, <1>4, <2>1 DEF SaveInterruptState, Context, CallSpawn
  <2> QED BY <1>4, <2>2 DEF CallSpawn
<1>5. CASE InvalidPriority
  <2>1. cpu.job.priority \in Nat /\ cpu.job.priority \notin Priority
    BY <1>0, <1>5, SchedAssumption DEF InvalidPriority, Context, Job, Priority
  <2>2. cpu'.pc = cpu.job.ret /\ cpu'.pc \notin SpawnPC
    BY <1>0, <1>5 DEF InvalidPriority, Context, SpawnInv
  <2> QED BY <1>5, <2>1, <2>2 DEF InvalidPriority
<1>6. CASE CreateProcess
  <2>1. PICK p \in Proc \ allocated :
             cpu' = [cpu EXCEPT !.pc = "stack", !.job.process = p]
    BY <1>6 DEF CreateProcess
  <2>2. /\ cpu'.pc = "stack" /\ cpu'.job.ret = cpu.job.ret
        /\ cpu'.job.priority = cpu.job.priority
    BY <1>0, <2>1 DEF Context, Job
  <2> QED BY <1>6, <2>2 DEF CreateProcess
<1>7. CASE CreateStack
  <2>1. cpu'.pc = "link" /\ cpu'.job = cpu.job
    BY <1>0, <1>7 DEF CreateStack, Context
  <2> QED BY <1>7, <2>1 DEF CreateStack
<1>8. CASE OutOfMemory
  <2>1. cpu'.pc = "halt"
    BY <1>0, <1>8 DEF OutOfMemory, Panic, Context
  <2> QED BY <1>8, <2>1 DEF OutOfMemory
<1>9. CASE LinkEmpty \/ LinkLast
  <2>1. /\ cpu.job.priority \in Priority /\ cpu.job.process \in Proc
        /\ cpu.job.process # NULL
        /\ last' = [last EXCEPT ![cpu.job.priority] = cpu.job.process]
        /\ cpu'.pc = "spawned" /\ cpu'.job = cpu.job
    BY <1>0, <1>9, SchedAssumption
       DEF LinkEmpty, LinkLast, JobInv, CreatedPC, Context, TypeOK
  <2>2. last'[cpu.job.priority] # NULL
    BY <1>0, <2>1 DEF TypeOK
  <2>3. current' # NULL \/ current' = current
    BY <1>9, <2>1 DEF LinkEmpty, LinkLast
  <2>4. cpu.pc = "link_last" => current # NULL
    <3>1. CASE cpu.pc = "link_last"
      <4>1. last[cpu.job.priority] # NULL
        BY <1>0, <3>1 DEF JobInv, RingInv, CreatedPC
      <4> QED BY <2>1, <4>1
    <3> QED BY <3>1
  <2>5. current' # NULL
    BY <1>9, <2>1, <2>4 DEF LinkEmpty, LinkLast
  <2> QED BY <1>9, <2>1, <2>2, <2>5 DEF LinkEmpty, LinkLast
<1>10. CASE LinkNext \/ LinkPrev
  <2>1. cpu'.pc \in {"link_prev", "link_last"} /\ cpu'.job = cpu.job
    BY <1>0, <1>10 DEF LinkNext, LinkPrev, Context
  <2> QED BY <1>10, <2>1 DEF LinkNext, LinkPrev
<1>11. CASE RestoreInterruptState
  <2>1. cpu'.pc \notin SpawnPC /\ cpu.pc = "spawned"
    BY <1>0, <1>11 DEF RestoreInterruptState, Context, SpawnInv
  <2> QED BY <1>11, <2>1 DEF RestoreInterruptState
<1>12. CASE Yield \/ Recapture \/ SetInterrupts
  <2>1. cpu'.pc \in {"switch", "body"} /\ cpu.pc \in {"body", "capture"}
    BY <1>0, <1>12 DEF Yield, Recapture, SetInterrupts, Context
  <2> QED BY <1>12, <2>1 DEF Yield, Recapture, SetInterrupts
<1>13. CASE Fault \/ WaitForInterrupt
  <2>1. cpu'.pc = "halt"
    BY <1>0, <1>13 DEF Fault, Panic, WaitForInterrupt, Context
  <2> QED BY <1>13, <2>1 DEF Fault, WaitForInterrupt
<1>14. CASE Switch \/ Preempt
  <2>1. PICK i \in Priority :
             /\ last[i] # NULL
             /\ last' = [last EXCEPT ![i] = next[last[i]]]
             /\ current' = next[last[i]]
    BY <1>14 DEF Switch, Preempt, ProcessSwitch, IsHighest
  <2>2. next[last[i]] # NULL
    BY <1>0, <2>1, SchedAssumption DEF RingInv, IsRing, TypeOK
  <2>3. last'[i] # NULL /\ current' # NULL
    BY <1>0, <2>1, <2>2 DEF TypeOK
  <2>4. cpu'.pc \notin SpawnPC
    <3>1. IInv'
      BY NextIInv
    <3>2. \E q \in Proc : cpu' = state'[q]
      BY <1>0, <1>14, SchedAssumption
         DEF Switch, Preempt, ProcessSwitch, IsHighest, RingInv, IsRing, TypeOK
    <3> QED BY <3>1, <3>2 DEF IInv, SpawnInv, Outside
  <2> QED BY <2>3, <2>4
<1> QED BY <1>1, <1>2, <1>3, <1>4, <1>5, <1>6, <1>7, <1>8, <1>9, <1>10, <1>11,
           <1>12, <1>13, <1>14 DEF Next

(* process_switch never falls through its loop: whenever process_yield or  *)
(* the timer can call it, a queue has a process and there is a current     *)
(* process to save the registers in.                                       *)
THEOREM SwitchNeverReturns == Spec => []SwitchFindsProcess
<1>1. Init => BootInv
  BY DEF Init, BootInv, NoQueueYet, Booting, SpawnPC
<1> QED BY <1>1, BootInvNext, BootInvImplies, IInvHolds, PTL DEF Spec

-----------------------------------------------------------------------------
(* Process ids.                                                            *)

(* num_processes only grows, and each process gets the value before.       *)
THEOREM IdsUnique == Spec => []IdsDistinct
<1>1. Init => IdsDistinct
  BY DEF Init, IdsDistinct
<1>2. IInv /\ IdsDistinct /\ [Next]_vars => IdsDistinct'
  <2> SUFFICES ASSUME IInv, IdsDistinct, [Next]_vars PROVE IdsDistinct'
    OBVIOUS
  <2>1. CASE UNCHANGED <<id, numProcesses, allocated>>
    BY <2>1 DEF IdsDistinct
  <2>2. CASE CreateProcess
    <3>1. PICK p \in Proc \ allocated :
               /\ allocated' = allocated \union {p}
               /\ id' = [id EXCEPT ![p] = numProcesses]
               /\ numProcesses' = numProcesses + 1
      BY <2>2 DEF CreateProcess
    <3>2. /\ id \in [Proc -> Nat] /\ numProcesses \in Nat
          /\ allocated \subseteq Proc
      BY DEF IInv, TypeOK
    <3>3. id'[p] = numProcesses /\ \A q \in allocated : id'[q] = id[q]
      BY <3>1, <3>2
    <3> QED BY <3>1, <3>2, <3>3 DEF IdsDistinct
  <2>3. CASE UNCHANGED vars
    BY <2>3, <2>1 DEF vars
  <2>4. CASE Next /\ ~CreateProcess
    BY <2>4, <2>1
       DEF Next, BootSpawn, BootTimer, CallSpawn, InvalidPriority, CreateStack,
           OutOfMemory, LinkEmpty, LinkNext, LinkPrev, LinkLast,
           RestoreInterruptState, Yield, Recapture, Switch, Preempt, Fault,
           WaitForInterrupt, SetInterrupts
  <2> QED BY <2>2, <2>3, <2>4
<1> QED BY <1>1, <1>2, IInvHolds, PTL DEF Spec

-----------------------------------------------------------------------------
(* The interrupt flag.                                                     *)

(* With a valid priority process_spawn returns with the interrupt flag it  *)
(* was called with.                                                        *)
THEOREM SpawnRestoresInterrupts == Spec => ValidSpawnRestores
<1>1. IInv /\ [Next]_vars =>
        [ SpawnReturns /\ cpu.job.priority \in Priority
            => cpu'.intr = cpu.job.saved ]_vars
  <2> SUFFICES ASSUME IInv, Next, cpu.job.priority \in Priority,
                      cpu.pc \in SpawnPC, cpu'.pc \notin SpawnPC \union {"halt"}
               PROVE  cpu'.intr = cpu.job.saved
    BY DEF SpawnReturns
  <2>0. cpu \in Context /\ ~cpu.intr
    BY DEF IInv, TypeOK, SpawnInv
  <2>1. CASE RestoreInterruptState
    BY <2>0, <2>1 DEF RestoreInterruptState, Context, Job
  <2>2. CASE InvalidPriority
    BY <2>0, <2>2, SchedAssumption DEF InvalidPriority, Priority
  <2>3. CASE CreateProcess \/ CreateStack \/ LinkEmpty \/ LinkNext \/ LinkPrev
             \/ LinkLast \/ OutOfMemory
    BY <2>0, <2>3 DEF CreateProcess, CreateStack, LinkEmpty, LinkNext, LinkPrev,
                      LinkLast, OutOfMemory, Panic, Context, SpawnPC
  <2>4. CASE Switch \/ Preempt \/ BootSpawn \/ BootTimer \/ CallSpawn \/ Yield
             \/ Recapture \/ Fault \/ WaitForInterrupt \/ SetInterrupts
    BY <2>0, <2>4 DEF Switch, Preempt, BootSpawn, BootTimer, CallSpawn, Yield,
                      Recapture, Fault, WaitForInterrupt, SetInterrupts, SpawnPC
  <2> QED BY <2>1, <2>2, <2>3, <2>4 DEF Next
<1> QED BY <1>1, IInvHolds, PTL DEF Spec, ValidSpawnRestores

-----------------------------------------------------------------------------
(* Threads.                                                                *)

(* What each step makes of the CPU's fields.                               *)
KeepsThread == cpu'.thread = cpu.thread /\ cpu'.regs = cpu.regs

KeepsCall ==
  cpu'.job.ret = cpu.job.ret /\ cpu'.job.priority = cpu.job.priority

LEMMA CpuFields ==
  ASSUME cpu \in Context
  PROVE  /\ Panic => cpu'.pc = "halt" /\ cpu'.thread = cpu.thread
                     /\ cpu'.regs = "body"
         /\ \A i, f, r : SaveInterruptState(i, f, r) =>
              /\ KeepsThread /\ cpu'.pc = "create"
              /\ cpu'.job.ret = r /\ cpu'.job.priority = i
         /\ CreateProcess => KeepsThread /\ KeepsCall /\ cpu'.pc = "stack"
         /\ CreateStack => KeepsThread /\ cpu'.pc = "link" /\ cpu'.job = cpu.job
         /\ LinkNext => KeepsThread /\ cpu'.pc = "link_prev" /\ cpu'.job = cpu.job
         /\ LinkPrev => KeepsThread /\ cpu'.pc = "link_last" /\ cpu'.job = cpu.job
         /\ LinkEmpty \/ LinkLast =>
              KeepsThread /\ cpu'.pc = "spawned" /\ cpu'.job = cpu.job
         /\ InvalidPriority \/ RestoreInterruptState =>
              KeepsThread /\ cpu'.pc = cpu.job.ret
         /\ SetInterrupts \/ BootTimer => KeepsThread /\ cpu'.pc = "body"
         /\ WaitForInterrupt => KeepsThread /\ cpu'.pc = "halt"
         /\ Yield \/ Recapture => cpu'.pc = "switch" /\ cpu'.thread = cpu.thread
                                  /\ cpu'.regs \in {"capture", "wild"}
<1> USE DEF Context, Job, KeepsThread, KeepsCall
<1>1. Panic => cpu'.pc = "halt" /\ cpu'.thread = cpu.thread /\ cpu'.regs = "body"
  BY DEF Panic
<1>2. ASSUME NEW i, NEW f, NEW r, SaveInterruptState(i, f, r)
      PROVE  /\ KeepsThread /\ cpu'.pc = "create"
             /\ cpu'.job.ret = r /\ cpu'.job.priority = i
  BY <1>2 DEF SaveInterruptState
<1>3. ASSUME CreateProcess
      PROVE  KeepsThread /\ KeepsCall /\ cpu'.pc = "stack"
  <2>1. PICK p \in Proc : cpu' = [cpu EXCEPT !.pc = "stack", !.job.process = p]
    BY <1>3 DEF CreateProcess
  <2> QED BY <2>1
<1>4. /\ CreateStack => KeepsThread /\ cpu'.pc = "link" /\ cpu'.job = cpu.job
      /\ LinkNext => KeepsThread /\ cpu'.pc = "link_prev" /\ cpu'.job = cpu.job
      /\ LinkPrev => KeepsThread /\ cpu'.pc = "link_last" /\ cpu'.job = cpu.job
      /\ LinkEmpty \/ LinkLast =>
           KeepsThread /\ cpu'.pc = "spawned" /\ cpu'.job = cpu.job
  BY DEF CreateStack, LinkNext, LinkPrev, LinkEmpty, LinkLast
<1>5. InvalidPriority \/ RestoreInterruptState =>
        KeepsThread /\ cpu'.pc = cpu.job.ret
  BY DEF InvalidPriority, RestoreInterruptState
<1>6. /\ SetInterrupts \/ BootTimer => KeepsThread /\ cpu'.pc = "body"
      /\ WaitForInterrupt => KeepsThread /\ cpu'.pc = "halt"
      /\ Yield \/ Recapture => cpu'.pc = "switch" /\ cpu'.thread = cpu.thread
                               /\ cpu'.regs \in {"capture", "wild"}
  BY DEF SetInterrupts, BootTimer, WaitForInterrupt, Yield, Recapture
<1> QED BY <1>1, <1>2, <1>3, <1>4, <1>5, <1>6

(* sched_init is still spawning.                                           *)
BootPC == {"boot_main", "boot_idle", "boot_timer"}

BootStage ==
  cpu.pc \in BootPC \/ (cpu.pc \in SpawnPC /\ cpu.job.ret \in BootPC)

(* It has spawned kernel_main.                                             *)
MainSpawned ==
  \/ cpu.pc \in {"boot_idle", "boot_timer"}
  \/ cpu.pc \in SpawnPC /\ cpu.job.ret = "boot_timer"

(* From the time the timer runs, kernel_main's queue and idle's are not    *)
(* empty.                                                                  *)
StageInv ==
  /\ timer => last[0] # NULL /\ last[LowPriority] # NULL
  /\ MainSpawned => last[LowPriority] # NULL
  /\ cpu.pc = "boot_timer" => last[0] # NULL
  /\ cpu.pc \in SpawnPC =>
        /\ cpu.job.ret = "boot_idle" => cpu.job.priority = LowPriority
        /\ cpu.job.ret = "boot_timer" => cpu.job.priority = 0
        /\ cpu.job.ret # "boot_main"
  /\ cpu.pc = "spawned" => last[cpu.job.priority] # NULL
  /\ timer \/ BootStage \/ cpu.pc = "halt"
  /\ BootStage => ~timer /\ cpu.thread = Boot
  /\ cpu.regs \notin BootPC
  /\ \A p \in Proc : state[p].pc \notin BootPC /\ state[p].regs \notin BootPC

LEMMA StageInvNext == IInv /\ StageInv /\ [Next]_vars => StageInv'
<1> SUFFICES ASSUME IInv, StageInv, [Next]_vars PROVE StageInv'
  OBVIOUS
<1> USE DEF StageInv, MainSpawned, BootStage, BootPC, SpawnPC
<1>0. cpu \in Context /\ TypeOK /\ SpawnInv /\ JobInv /\ RingInv /\ 0 \in Priority
  BY SchedAssumption DEF IInv, TypeOK, Priority
<1>1. CASE UNCHANGED vars
  BY <1>1 DEF vars
<1>2. CASE BootSpawn
  <2>1. \/ cpu.pc = "boot_main" /\ SaveInterruptState(LowPriority, {}, "boot_idle")
        \/ cpu.pc = "boot_idle" /\ SaveInterruptState(0, {}, "boot_timer")
    BY <1>2 DEF BootSpawn, PROCESS_FLAGS_SUPERVISOR
  <2>2. UNCHANGED <<last, timer, state>>
    BY <1>2 DEF BootSpawn
  <2> QED BY <1>0, <2>1, <2>2, CpuFields DEF KeepsThread
<1>3. CASE BootTimer
  BY <1>0, <1>3, CpuFields DEF BootTimer, KeepsThread
<1>4. CASE CallSpawn
  <2>1. PICK i \in SpawnPriority, f \in SpawnFlags :
             SaveInterruptState(i, f, "body")
    BY <1>4 DEF CallSpawn
  <2>2. UNCHANGED <<last, timer, state>> /\ cpu.pc = "body"
    BY <1>4 DEF CallSpawn
  <2> QED BY <1>0, <2>1, <2>2, CpuFields DEF KeepsThread
<1>5. CASE InvalidPriority
  <2>1. cpu.job.priority \notin Priority
    BY <1>0, <1>5, SchedAssumption DEF InvalidPriority, Context, Job, Priority
  <2>2. cpu.job.ret \notin BootPC
    BY <1>0, <1>5, <2>1, SchedAssumption DEF InvalidPriority
  <2> QED BY <1>0, <1>5, <2>2, CpuFields
          DEF InvalidPriority, KeepsThread, SpawnInv
<1>6. CASE CreateProcess
  BY <1>0, <1>6, CpuFields DEF CreateProcess, KeepsThread, KeepsCall
<1>7. CASE CreateStack
  <2>1. cpu.job.process \in Proc
    BY <1>0, <1>7 DEF CreateStack, JobInv, CreatedPC, TypeOK
  <2>2. \A p \in Proc : state'[p].pc \notin BootPC /\ state'[p].regs \notin BootPC
    BY <1>0, <1>7, <2>1 DEF CreateStack, EntryState, TypeOK
  <2> QED BY <1>0, <1>7, <2>2, CpuFields DEF CreateStack, KeepsThread
<1>8. CASE OutOfMemory \/ Fault \/ WaitForInterrupt
  BY <1>0, <1>8, CpuFields DEF OutOfMemory, Fault, WaitForInterrupt, KeepsThread
<1>9. CASE LinkEmpty \/ LinkLast
  <2>1. /\ cpu.job.priority \in Priority /\ cpu.job.process \in Proc
        /\ cpu.job.process # NULL
        /\ last' = [last EXCEPT ![cpu.job.priority] = cpu.job.process]
        /\ UNCHANGED <<state, timer>> /\ cpu.pc \in {"link", "link_last"}
    BY <1>0, <1>9, SchedAssumption DEF LinkEmpty, LinkLast, JobInv, CreatedPC, TypeOK
  <2>2. /\ last'[cpu.job.priority] # NULL
        /\ \A i \in Priority : last[i] # NULL => last'[i] # NULL
    BY <1>0, <2>1 DEF TypeOK
  <2> QED BY <1>0, <1>9, <2>1, <2>2, CpuFields, SchedAssumption DEF KeepsThread
<1>10. CASE LinkNext \/ LinkPrev
  BY <1>0, <1>10, CpuFields DEF LinkNext, LinkPrev, KeepsThread
<1>11. CASE RestoreInterruptState
  <2>1. UNCHANGED <<last, timer, state>> /\ cpu.pc = "spawned"
    BY <1>11 DEF RestoreInterruptState
  <2> QED BY <1>0, <1>11, <2>1, CpuFields DEF KeepsThread, SpawnInv
<1>12. CASE Yield \/ Recapture \/ SetInterrupts
  BY <1>0, <1>12, CpuFields DEF Yield, Recapture, SetInterrupts, KeepsThread
<1>13. CASE Switch \/ Preempt
  <2>1. PICK i \in Priority, regs \in {cpu, [cpu EXCEPT !.pc = cpu.regs, !.regs = "body"]} :
             /\ last[i] # NULL
             /\ last' = [last EXCEPT ![i] = next[last[i]]]
             /\ state' = Saved(regs)
             /\ cpu' = state'[next[last[i]]]
             /\ timer /\ timer' = timer
    BY <1>0, <1>13 DEF Switch, Preempt, ProcessSwitch, IsHighest
  <2>2. next[last[i]] \in Proc /\ next[last[i]] # NULL
    BY <1>0, <2>1, SchedAssumption DEF RingInv, IsRing, TypeOK
  <2>3. regs.pc \notin BootPC /\ regs.regs \notin BootPC
    BY <1>0, <2>1 DEF Context
  <2>4. \A p \in Proc : state'[p].pc \notin BootPC /\ state'[p].regs \notin BootPC
    BY <1>0, <2>1, <2>3 DEF Saved, TypeOK
  <2>5. cpu'.pc \notin SpawnPC \union BootPC /\ cpu'.regs \notin BootPC
    <3>1. IInv'
      BY NextIInv
    <3> QED BY <3>1, <2>1, <2>2, <2>4 DEF IInv, SpawnInv, Outside
  <2>6. \A j \in Priority : last[j] # NULL => last'[j] # NULL
    BY <1>0, <2>1, <2>2 DEF TypeOK
  <2> QED BY <1>0, <2>1, <2>4, <2>5, <2>6, SchedAssumption
<1> QED BY <1>1, <1>2, <1>3, <1>4, <1>5, <1>6, <1>7, <1>8, <1>9, <1>10, <1>11,
           <1>12, <1>13 DEF Next

(* During boot no process has run, so each still has its own entry state;  *)
(* later the threads are permuted at most.                                 *)
ThreadInv ==
  /\ DistinctThreads
  /\ \A p \in AllLinked : ThreadOf(p) \in AllLinked \union {Boot}
  /\ current \in AllLinked \union {NULL}
  /\ cpu.pc \in {"link", "link_prev"} =>
        state[cpu.job.process].thread = cpu.job.process
  /\ BootStage => \A p \in AllLinked : state[p].thread = p

(* A step that changes no process's thread.                                *)
LEMMA SameThreads ==
  ASSUME ThreadInv, AllLinked' = AllLinked, current' \in AllLinked \union {NULL},
         \A p \in AllLinked : ThreadOf(p)' = ThreadOf(p),
         (cpu.pc \in {"link", "link_prev"})' =>
            state'[cpu'.job.process].thread = cpu'.job.process,
         BootStage' => \A p \in AllLinked : state'[p].thread = p
  PROVE  ThreadInv'
<1>1. DistinctThreads'
  BY DEF ThreadInv, DistinctThreads
<1>2. (\A p \in AllLinked : ThreadOf(p) \in AllLinked \union {Boot})'
  BY DEF ThreadInv
<1> QED BY <1>1, <1>2 DEF ThreadInv

LEMMA ThreadInvNext ==
  ASSUME IInv, StageInv, ThreadInv, [Next]_vars, OnlyBootQueues'
  PROVE  ThreadInv'
<1>0. /\ cpu \in Context /\ TypeOK /\ SpawnInv /\ JobInv /\ RingInv
      /\ AllLinked \subseteq Proc /\ NULL \notin Proc /\ Boot \notin Proc
  BY SchedAssumption DEF IInv, TypeOK, AllLinked
<1>1. CASE UNCHANGED vars
  BY <1>1, SameThreads DEF vars, ThreadInv, ThreadOf, AllLinked, BootStage
<1>2. CASE /\ BootSpawn \/ BootTimer \/ CallSpawn \/ InvalidPriority
              \/ CreateProcess \/ OutOfMemory \/ LinkNext \/ LinkLast
              \/ RestoreInterruptState \/ Yield \/ Recapture \/ Fault
              \/ WaitForInterrupt \/ SetInterrupts
  <2>1. UNCHANGED <<state, current, linked>>
    BY <1>2 DEF BootSpawn, BootTimer, CallSpawn, InvalidPriority, CreateProcess,
         OutOfMemory, LinkNext, LinkLast, RestoreInterruptState, Yield,
         Recapture, Fault, WaitForInterrupt, SetInterrupts
  <2>2. cpu'.thread = cpu.thread
    <3>1. CASE BootSpawn \/ CallSpawn
      <4>1. \E i, f, r : SaveInterruptState(i, f, r)
        BY <3>1 DEF BootSpawn, CallSpawn
      <4> QED BY <4>1, <1>0, CpuFields DEF KeepsThread
    <3>2. CASE OutOfMemory \/ Fault
      BY <3>2, <1>0, CpuFields DEF OutOfMemory, Fault
    <3> QED BY <1>0, <1>2, <3>1, <3>2, CpuFields DEF KeepsThread
  <2>3. (cpu.pc \in {"link", "link_prev"})' =>
           cpu.pc = "link" /\ cpu'.job = cpu.job
    <3>1. CASE BootSpawn \/ CallSpawn
      <4>1. \E i, f, r : SaveInterruptState(i, f, r)
        BY <3>1 DEF BootSpawn, CallSpawn
      <4> QED BY <4>1, <1>0, CpuFields
    <3>2. CASE OutOfMemory \/ Fault
      BY <3>2, <1>0, CpuFields DEF OutOfMemory, Fault
    <3>3. CASE LinkNext
      BY <3>3, <1>0, CpuFields DEF LinkNext
    <3>4. CASE InvalidPriority \/ RestoreInterruptState
      BY <3>4, <1>0, CpuFields DEF SpawnInv, SpawnPC
    <3>5. CASE \/ BootTimer \/ CreateProcess \/ LinkLast \/ Yield \/ Recapture
               \/ WaitForInterrupt \/ SetInterrupts
      BY <3>5, <1>0, CpuFields
    <3> QED BY <1>2, <3>1, <3>2, <3>3, <3>4, <3>5
  <2>4. BootStage' => BootStage
    <3> USE DEF BootStage, BootPC, SpawnPC
    <3>1. CASE BootSpawn
      BY <3>1 DEF BootSpawn
    <3>2. CASE CallSpawn
      <4>1. \E i, f : SaveInterruptState(i, f, "body")
        BY <3>2 DEF CallSpawn
      <4> QED BY <4>1, <1>0, CpuFields
    <3>3. CASE OutOfMemory \/ Fault
      BY <3>3, <1>0, CpuFields DEF OutOfMemory, Fault
    <3>4. CASE InvalidPriority \/ RestoreInterruptState
      <4>1. cpu.pc \in SpawnPC
        BY <3>4 DEF InvalidPriority, RestoreInterruptState
      <4> QED BY <4>1, <3>4, <1>0, CpuFields DEF SpawnInv
    <3>5. CASE CreateProcess
      BY <3>5, <1>0, CpuFields DEF CreateProcess, KeepsCall
    <3>6. CASE LinkNext \/ LinkLast
      BY <3>6, <1>0, CpuFields DEF LinkNext, LinkLast
    <3>7. CASE \/ BootTimer \/ Yield \/ Recapture
               \/ WaitForInterrupt \/ SetInterrupts
      BY <3>7, <1>0, CpuFields
    <3> QED BY <1>2, <3>1, <3>2, <3>3, <3>4, <3>5, <3>6, <3>7
  <2>5. AllLinked' = AllLinked /\ \A p \in AllLinked : ThreadOf(p)' = ThreadOf(p)
    BY <2>1, <2>2 DEF AllLinked, ThreadOf
  <2> QED BY <2>1, <2>3, <2>4, <2>5, SameThreads DEF ThreadInv
<1>3. CASE CreateStack
  <2> DEFINE p == cpu.job.process
  <2>1. /\ p \in Proc /\ p \notin AllLinked /\ cpu.pc = "stack"
        /\ state' = [state EXCEPT ![p] = EntryState(p, flags[p])]
        /\ UNCHANGED <<current, linked>>
    BY <1>0, <1>3 DEF CreateStack, JobInv, CreatedPC, TypeOK
  <2>2. /\ cpu'.thread = cpu.thread /\ cpu'.pc = "link" /\ cpu'.job = cpu.job
    BY <1>0, <1>3, CpuFields DEF KeepsThread
  <2>3. state'[p].thread = p /\ \A q \in AllLinked : state'[q] = state[q]
    BY <1>0, <2>1 DEF TypeOK, EntryState
  <2>4. AllLinked' = AllLinked /\ \A q \in AllLinked : ThreadOf(q)' = ThreadOf(q)
    BY <2>1, <2>2, <2>3 DEF AllLinked, ThreadOf
  <2>5. BootStage' => BootStage
    BY <2>1, <2>2 DEF BootStage, BootPC, SpawnPC
  <2> QED BY <2>1, <2>2, <2>3, <2>4, <2>5, SameThreads DEF ThreadInv
<1>4. CASE LinkPrev
  <2>0. PICK p \in Proc, i \in Priority :
             p = cpu.job.process /\ i = cpu.job.priority
    BY <1>0, <1>4 DEF LinkPrev, JobInv, CreatedPC, TypeOK
  <2>1. /\ p \notin AllLinked /\ cpu.pc = "link_prev"
        /\ linked' = [linked EXCEPT ![i] = @ \union {p}]
        /\ UNCHANGED <<state, current>>
    BY <1>0, <1>4, <2>0 DEF LinkPrev, JobInv, CreatedPC, TypeOK
  <2>2. /\ cpu'.thread = cpu.thread /\ cpu'.pc = "link_last" /\ cpu'.job = cpu.job
    BY <1>0, <1>4, CpuFields DEF KeepsThread
  <2>3. AllLinked' = AllLinked \union {p}
    BY <1>0, <2>1 DEF AllLinked, TypeOK
  <2>4. p # current
    BY <1>0, <2>1 DEF ThreadInv
  <2>5. /\ ThreadOf(p)' = p
        /\ \A q \in AllLinked : ThreadOf(q)' = ThreadOf(q)
    BY <2>0, <2>1, <2>2, <2>4 DEF ThreadOf, ThreadInv
  <2>6. DistinctThreads'
    BY <1>0, <2>1, <2>3, <2>5 DEF ThreadInv, DistinctThreads
  <2>7. BootStage' => BootStage
    BY <2>1, <2>2 DEF BootStage, BootPC, SpawnPC
  <2>8. (\A q \in AllLinked : ThreadOf(q) \in AllLinked \union {Boot})'
    BY <2>3, <2>5 DEF ThreadInv
  <2>9. (BootStage => \A q \in AllLinked : state[q].thread = q)'
    BY <2>0, <2>1, <2>3, <2>7 DEF ThreadInv
  <2> QED BY <2>1, <2>2, <2>3, <2>6, <2>8, <2>9 DEF ThreadInv
<1>5. CASE LinkEmpty
  <2>0. PICK p \in Proc, i \in Priority :
             p = cpu.job.process /\ i = cpu.job.priority
    BY <1>0, <1>5 DEF LinkEmpty, JobInv, CreatedPC, TypeOK
  <2>1. /\ p \notin AllLinked /\ cpu.pc = "link"
        /\ last[i] = NULL
        /\ linked' = [linked EXCEPT ![i] = {p}] /\ current' = p
        /\ UNCHANGED <<state>>
    BY <1>0, <1>5, <2>0 DEF LinkEmpty, JobInv, CreatedPC, TypeOK
  <2>2. ~timer
    <3>1. linked'[i] # {}
      BY <1>0, <2>1 DEF TypeOK
    <3>2. i \in {0, LowPriority}
      BY <3>1 DEF OnlyBootQueues
    <3> QED BY <2>1, <3>2 DEF StageInv
  <2>3. BootStage /\ cpu.thread = Boot
    BY <2>1, <2>2 DEF StageInv
  <2>4. /\ cpu'.thread = cpu.thread /\ cpu'.pc = "spawned"
    BY <1>0, <1>5, CpuFields DEF KeepsThread
  <2>5. AllLinked' = AllLinked \union {p}
    <3>1. linked[i] = {}
      BY <1>0, <2>1 DEF RingInv
    <3> QED BY <1>0, <2>1, <3>1 DEF AllLinked, TypeOK
  <2>6. \A q \in AllLinked : state[q].thread = q
    BY <2>3 DEF ThreadInv
  <2>7. state[p].thread = p
    BY <2>0, <2>1 DEF ThreadInv
  <2>8. ThreadOf(p)' = Boot /\ \A q \in AllLinked : ThreadOf(q)' = q
    BY <2>1, <2>3, <2>4, <2>6 DEF ThreadOf
  <2>9. DistinctThreads'
    BY <1>0, <2>1, <2>5, <2>8 DEF DistinctThreads
  <2>10. (\A q \in AllLinked : ThreadOf(q) \in AllLinked \union {Boot})'
    BY <2>5, <2>8
  <2> QED BY <2>1, <2>4, <2>5, <2>6, <2>7, <2>9, <2>10 DEF ThreadInv
<1>6. CASE Switch \/ Preempt
  <2>1. PICK i \in Priority, regs \in {cpu, [cpu EXCEPT !.pc = cpu.regs, !.regs = "body"]} :
             /\ last[i] # NULL
             /\ state' = Saved(regs)
             /\ current' = next[last[i]]
             /\ cpu' = state'[current']
             /\ UNCHANGED linked
             /\ timer' = timer
    BY <1>6 DEF Switch, Preempt, ProcessSwitch, IsHighest
  <2>2. timer
    BY <1>6 DEF Switch, Preempt, StageInv, BootStage, BootPC, SpawnPC
  <2>3. current' \in linked[i] /\ current' \in AllLinked /\ AllLinked' = AllLinked
    BY <1>0, <2>1 DEF RingInv, IsRing, AllLinked
  <2>4. regs.thread = cpu.thread
    BY <1>0, <2>1 DEF Context
  <2>5. \A q \in AllLinked : state'[q].thread = ThreadOf(q)
    BY <1>0, <2>1, <2>4 DEF Saved, ThreadOf, TypeOK
  <2>6. \A q \in AllLinked : ThreadOf(q)' = ThreadOf(q)
    BY <2>1, <2>3, <2>5 DEF ThreadOf
  <2>7. IInv' /\ StageInv'
    BY NextIInv, StageInvNext
  <2>8. ~BootStage'
    BY <2>1, <2>2, <2>7 DEF StageInv
  <2>9. cpu'.pc \notin SpawnPC
    BY <1>0, <2>1, <2>3, <2>7 DEF IInv, SpawnInv, Outside
  <2> QED BY <2>3, <2>6, <2>8, <2>9, SameThreads DEF SpawnPC
<1> QED BY <1>1, <1>2, <1>3, <1>4, <1>5, <1>6 DEF Next

(* A queue in use stays in use.                                            *)
LEMMA OnlyBootQueuesBefore ==
  ASSUME IInv, [Next]_vars, OnlyBootQueues' PROVE OnlyBootQueues
<1>0. TypeOK
  BY DEF IInv
<1>1. CASE UNCHANGED linked
  BY <1>1 DEF OnlyBootQueues
<1>2. CASE LinkEmpty \/ LinkPrev
  <2>1. PICK p \in Proc, i \in Priority :
             \/ linked' = [linked EXCEPT ![i] = @ \union {p}]
             \/ linked' = [linked EXCEPT ![i] = {p}] /\ last[i] = NULL
    BY <1>0, <1>2, SMTT(60) DEF LinkEmpty, LinkPrev, IInv, JobInv, CreatedPC, TypeOK
  <2>2. \A j \in Priority : linked[j] \subseteq linked'[j]
    BY <1>0, <2>1 DEF TypeOK, IInv, RingInv
  <2> QED BY <2>2 DEF OnlyBootQueues
<1>3. CASE UNCHANGED vars
  BY <1>1, <1>3 DEF vars
<1>4. CASE Next /\ ~LinkEmpty /\ ~LinkPrev
  BY <1>1, <1>4
     DEF Next, BootSpawn, BootTimer, CallSpawn, InvalidPriority, CreateProcess,
         CreateStack, OutOfMemory, LinkNext, LinkLast, RestoreInterruptState,
         Yield, Recapture, Switch, Preempt, Fault, WaitForInterrupt,
         SetInterrupts
<1> QED BY <1>2, <1>3, <1>4

(* Until a running process spawns into an empty queue, no two processes    *)
(* stand for the same thread.                                              *)
THEOREM ThreadsDistinct == Spec => []NoThreadDuplicated
<1> DEFINE Inv == OnlyBootQueues => ThreadInv
<1>1. Init => StageInv /\ Inv
  BY SchedAssumption
     DEF Init, StageInv, ThreadInv, DistinctThreads, AllLinked, BootStage,
         BootPC, MainSpawned, SpawnPC, EntryState
<1>2. IInv /\ StageInv /\ Inv /\ [Next]_vars => Inv'
  BY ThreadInvNext, OnlyBootQueuesBefore
<1>3. Inv => NoThreadDuplicated
  BY DEF ThreadInv, NoThreadDuplicated
<1> QED BY <1>1, <1>2, <1>3, StageInvNext, IInvHolds, PTL DEF Spec
-----------------------------------------------------------------------------
(* The rings are the FIFO queues of RoundRobin.                            *)

(* q lists the n members of M once each, in the order of f, from the       *)
(* successor of l round to l.                                              *)
InOrder(q, n, M, f, l) ==
  /\ n \in Nat /\ n > 0 /\ q \in [1 .. n -> M]
  /\ \A p \in M : \E k \in 1 .. n : q[k] = p
  /\ \A j, k \in 1 .. n : q[j] = q[k] => j = k
  /\ q[1] = f[l] /\ q[n] = l
  /\ \A k \in 1 .. n - 1 : q[k + 1] = f[q[k]]

Listed(M, f, l) ==
  \E q \in [1 .. Cardinality(M) -> M] : InOrder(q, Cardinality(M), M, f, l)

(* Every ring can be listed: it is finite, although Proc need not be.      *)
(* While process_spawn has made its second store and not its third, the    *)
(* new process is the successor of queue->last.                            *)
OrderInv ==
  /\ \A i \in Priority : last[i] # NULL => Listed(linked[i], next, last[i])
  /\ cpu.pc = "link_last" =>
        LET l == last[cpu.job.priority]
        IN  l # NULL /\ l # cpu.job.process /\ next[l] = cpu.job.process

(* SchedRefinement's Unrolled as a function of the ring.                   *)
Walked(M, f, l) ==
  LET walk[k \in 1 .. Cardinality(M)] == IF k = 1 THEN f[l] ELSE f[walk[k - 1]]
  IN  IF l = NULL THEN <<>> ELSE walk

(* The length of a listing is the number of members.                       *)
LEMMA ListedIs ==
  ASSUME NEW M, NEW f, NEW l
  PROVE  /\ Listed(M, f, l) => \E n, q : InOrder(q, n, M, f, l)
         /\ \A n, q : InOrder(q, n, M, f, l) => n = Cardinality(M) /\ Listed(M, f, l)
<1>1. ASSUME NEW n, NEW q, InOrder(q, n, M, f, l)
      PROVE  n = Cardinality(M) /\ q \in [1 .. n -> M]
  <2>1. /\ n \in Nat /\ q \in [1 .. n -> M]
        /\ \A p \in M : \E k \in 1 .. n : q[k] = p
        /\ \A j, k \in 1 .. n : q[j] = q[k] => j = k
    BY <1>1 DEF InOrder
  <2> QED
    BY <2>1, CountSeq
<1> QED
  BY <1>1 DEF Listed

(* Walking a ring yields the listing of its members.                       *)
LEMMA WalkedIs ==
  ASSUME NEW M, NEW f, NEW l, l # NULL, NEW n, NEW q, InOrder(q, n, M, f, l)
  PROVE  Walked(M, f, l) = q
<1> DEFINE IsWalk(w) == w = [k \in 1 .. n |-> IF k = 1 THEN f[l] ELSE f[w[k - 1]]]
<1>1. n \in Nat /\ n \in Int /\ 1 \in Int /\ q \in [1 .. n -> M]
  BY DEF InOrder
<1>2. Cardinality(M) = n
  BY ListedIs
<1>3. \A k \in 1 .. n : q[k] = IF k = 1 THEN f[l] ELSE f[q[k - 1]]
  <2> SUFFICES ASSUME NEW k \in 1 .. n PROVE q[k] = IF k = 1 THEN f[l] ELSE f[q[k - 1]]
    OBVIOUS
  <2>1. CASE k = 1
    BY <2>1 DEF InOrder
  <2>2. CASE k # 1
    <3>1. k - 1 \in 1 .. n - 1 /\ (k - 1) + 1 = k
      BY <1>1, <2>2
    <3>2. q[(k - 1) + 1] = f[q[k - 1]]
      BY <3>1 DEF InOrder
    <3> QED
      BY <2>2, <3>1, <3>2
  <2> QED
    BY <2>1, <2>2
<1>4. IsWalk(q)
  BY <1>1, <1>3
<1>5. Walked(M, f, l) = CHOOSE w : IsWalk(w)
  BY <1>2 DEF Walked
<1>6. ASSUME NEW w, IsWalk(w) PROVE w = q
  <2>1. \A k \in 1 .. n : w[k] = IF k = 1 THEN f[l] ELSE f[w[k - 1]]
    BY <1>6
  <2>2. \A k \in 1 .. n : w[k] = q[k]
    <3>1. Steps(w, f, 1, n) /\ Steps(q, f, 1, n)
      BY <1>3, <2>1 DEF Steps
    <3>2. w[1] = q[1]
      <4>1. 1 \in 1 .. n
        BY <1>1 DEF InOrder
      <4> QED
        BY <1>3, <2>1, <4>1
    <3> HIDE DEF IsWalk
    <3> QED
      BY <1>1, <3>1, <3>2, WalkUnique
  <2> QED
    BY <1>1, <1>6, <2>2
<1> HIDE DEF IsWalk
<1>7. IsWalk(CHOOSE w : IsWalk(w))
  BY <1>4
<1> QED
  BY <1>5, <1>6, <1>7

(* A listing depends on the successors of the members only.                *)
LEMMA OrderFrame ==
  ASSUME NEW M, NEW f, NEW g, NEW l, NEW n, NEW q, InOrder(q, n, M, f, l),
         \A p \in M : g[p] = f[p]
  PROVE  InOrder(q, n, M, g, l)
<1>1. n \in 1 .. n /\ l \in M /\ \A k \in 1 .. n - 1 : k \in 1 .. n
  BY DEF InOrder
<1> QED
  BY <1>1 DEF InOrder

(* The second store of process_spawn puts the new process first.           *)
First(p, q, n) == [k \in 1 .. n + 1 |-> IF k = 1 THEN p ELSE q[k - 1]]

(* A process linked behind the last of an order comes first in the order.  *)
LEMMA OrderInsert ==
  ASSUME NEW M \in SUBSET Proc, NEW f \in [Proc -> Proc \union {NULL}], NEW l \in M,
         NEW n, NEW q, NEW p \in Proc, InOrder(q, n, M, f, l), p \notin M, f[p] = f[l]
  PROVE  InOrder(First(p, q, n), n + 1, M \union {p}, [f EXCEPT ![l] = p], l)
<1> DEFINE r == First(p, q, n)
           g == [f EXCEPT ![l] = p]
<1>1. n \in Nat /\ n > 0 /\ q \in [1 .. n -> M]
  BY DEF InOrder
<1>2. \A k \in 2 .. n + 1 : k - 1 \in 1 .. n /\ k \in 1 .. n + 1 /\ k # 1
  BY <1>1
<1>3. r \in [1 .. n + 1 -> M \union {p}] /\ r[1] = p /\ \A k \in 2 .. n + 1 : r[k] = q[k - 1]
  BY <1>1, <1>2 DEF First
<1> HIDE DEF r
<1>4. g[l] = p /\ \A x \in Proc : x # l => g[x] = f[x]
  OBVIOUS
<1> HIDE DEF g
<1>5. \A x \in M \union {p} : \E k \in 1 .. n + 1 : r[k] = x
  <2> SUFFICES ASSUME NEW x \in M \union {p} PROVE \E k \in 1 .. n + 1 : r[k] = x
    OBVIOUS
  <2>1. CASE x = p
    BY <1>1, <1>3, <2>1
  <2>2. CASE x # p
    <3>1. PICK k \in 1 .. n : q[k] = x
      BY <2>2 DEF InOrder
    <3>2. k + 1 \in 2 .. n + 1 /\ k + 1 \in 1 .. n + 1 /\ (k + 1) - 1 = k
      BY <1>1
    <3>3. r[k + 1] = q[(k + 1) - 1]
      BY <1>3, <3>2
    <3> QED
      BY <3>1, <3>2, <3>3
  <2> QED
    BY <2>1, <2>2
<1>6. \A j, k \in 1 .. n + 1 : r[j] = r[k] => j = k
  <2> SUFFICES ASSUME NEW j \in 1 .. n + 1, NEW k \in 1 .. n + 1, r[j] = r[k] PROVE j = k
    OBVIOUS
  <2>1. \A i \in 2 .. n + 1 : r[i] # p
    BY <1>1, <1>2, <1>3
  <2>2. (j = 1 \/ j \in 2 .. n + 1) /\ (k = 1 \/ k \in 2 .. n + 1)
    BY <1>1
  <2>3. CASE j = 1 \/ k = 1
    BY <1>3, <2>1, <2>2, <2>3
  <2>4. CASE j # 1 /\ k # 1
    <3>1. j - 1 \in 1 .. n /\ k - 1 \in 1 .. n /\ q[j - 1] = q[k - 1]
      BY <1>2, <1>3, <2>2, <2>4
    <3>2. j - 1 = k - 1
      BY <3>1 DEF InOrder
    <3> QED
      BY <3>2
  <2> QED
    BY <2>3, <2>4
<1>7. r[1] = g[l] /\ r[n + 1] = l
  <2>1. n + 1 \in 2 .. n + 1 /\ (n + 1) - 1 = n
    BY <1>1
  <2>2. r[n + 1] = q[n]
    BY <1>3, <2>1
  <2> QED
    BY <1>3, <1>4, <2>2 DEF InOrder
<1>8. ASSUME NEW k \in 1 .. n PROVE r[k + 1] = g[r[k]]
  <2>1. r[k + 1] = q[k]
    <3>1. k + 1 \in 2 .. n + 1 /\ (k + 1) - 1 = k
      BY <1>1
    <3>2. r[k + 1] = q[(k + 1) - 1]
      BY <1>3, <3>1
    <3> QED
      BY <3>1, <3>2
  <2>2. CASE k = 1
    <3>1. p # l /\ q[1] = f[l]
      BY DEF InOrder
    <3> QED
      BY <1>3, <1>4, <2>1, <2>2, <3>1
  <2>3. CASE k # 1
    <3>1. /\ k - 1 \in 1 .. n - 1 /\ k - 1 \in 1 .. n /\ (k - 1) + 1 = k
          /\ n \in 1 .. n /\ k - 1 # n /\ k \in 2 .. n + 1
      BY <1>1, <2>3
    <3>2. q[(k - 1) + 1] = f[q[k - 1]] /\ q[k - 1] # q[n] /\ q[n] = l
      BY <3>1 DEF InOrder
    <3>3. q[k - 1] \in Proc
      BY <1>1, <3>1
    <3>4. r[k] = q[k - 1]
      BY <1>3, <3>1
    <3> QED
      BY <1>4, <2>1, <3>1, <3>2, <3>3, <3>4
  <2> QED
    BY <2>2, <2>3
<1>9. (n + 1) - 1 = n /\ n + 1 \in Nat /\ n + 1 > 0
  BY <1>1
<1>10. r \in [1 .. n + 1 -> M \union {p}]
  BY <1>3
<1>11. \A k \in 1 .. (n + 1) - 1 : r[k + 1] = g[r[k]]
  BY <1>8, <1>9
<1>12. InOrder(r, n + 1, M \union {p}, g, l)
  BY <1>5, <1>6, <1>7, <1>9, <1>10, <1>11 DEF InOrder
<1> QED
  BY <1>12 DEF r, g

(* Moving queue->last on by one rotates the listing.                       *)
Rotated(q, n) == [k \in 1 .. n |-> IF k = n THEN q[1] ELSE q[k + 1]]

(* When the last moves to the next process, the order is rotated by one.   *)
LEMMA OrderRotate ==
  ASSUME NEW M, NEW f, NEW l, NEW n, NEW q, InOrder(q, n, M, f, l)
  PROVE  InOrder(Rotated(q, n), n, M, f, f[l])
<1> DEFINE r == Rotated(q, n)
           From(i) == IF i = n THEN 1 ELSE i + 1
<1>1. n \in Nat /\ n > 0 /\ q \in [1 .. n -> M] /\ q[1] = f[l] /\ q[n] = l
  BY DEF InOrder
<1>2. \A k \in 1 .. n : From(k) \in 1 .. n
  BY <1>1
<1>3. r \in [1 .. n -> M] /\ \A k \in 1 .. n : r[k] = q[From(k)]
  BY <1>1, <1>2 DEF Rotated
<1> HIDE DEF r
<1>4. \A x \in M : \E k \in 1 .. n : r[k] = x
  <2> SUFFICES ASSUME NEW x \in M PROVE \E k \in 1 .. n : r[k] = x
    OBVIOUS
  <2>1. PICK k \in 1 .. n : q[k] = x
    BY DEF InOrder
  <2>2. PICK j \in 1 .. n : From(j) = k
    <3>1. CASE k = 1
      BY <1>1, <3>1
    <3>2. CASE k # 1
      <4>1. k - 1 \in 1 .. n /\ From(k - 1) = k
        BY <1>1, <3>2
      <4> QED
        BY <4>1
    <3> QED
      BY <3>1, <3>2
  <2> QED
    BY <1>3, <2>1, <2>2
<1>5. \A j, k \in 1 .. n : r[j] = r[k] => j = k
  <2> SUFFICES ASSUME NEW j \in 1 .. n, NEW k \in 1 .. n, r[j] = r[k] PROVE j = k
    OBVIOUS
  <2>1. From(j) = From(k)
    <3>1. From(j) \in 1 .. n /\ From(k) \in 1 .. n /\ q[From(j)] = q[From(k)]
      BY <1>2, <1>3
    <3> HIDE DEF From
    <3> QED
      BY <3>1 DEF InOrder
  <2> QED
    BY <1>1, <2>1
<1>6. \A k \in 1 .. n : q[From(k)] = f[q[k]]
  <2> SUFFICES ASSUME NEW k \in 1 .. n PROVE q[From(k)] = f[q[k]]
    OBVIOUS
  <2>1. CASE k = n
    BY <1>1, <2>1
  <2>2. CASE k # n
    <3>1. k \in 1 .. n - 1
      BY <1>1, <2>2
    <3> QED
      BY <2>2, <3>1 DEF InOrder
  <2> QED
    BY <2>1, <2>2
<1>7. 1 \in 1 .. n /\ n \in 1 .. n /\ From(n) = 1
  BY <1>1
<1>8. r[1] = f[f[l]] /\ r[n] = f[l]
  BY <1>1, <1>3, <1>6, <1>7
<1>9. ASSUME NEW k \in 1 .. n - 1 PROVE r[k + 1] = f[r[k]]
  <2>1. k \in 1 .. n /\ k + 1 \in 1 .. n /\ From(k) = k + 1
    BY <1>1
  <2> QED
    BY <1>3, <1>6, <2>1
<1>10. r \in [1 .. n -> M] /\ n \in Nat /\ n > 0
  BY <1>1, <1>3
<1>11. \A k \in 1 .. n - 1 : r[k + 1] = f[r[k]]
  BY <1>9
<1>12. InOrder(r, n, M, f, f[l])
  BY <1>4, <1>5, <1>8, <1>10, <1>11 DEF InOrder
<1> QED
  BY <1>12 DEF r
(* A listing is a sequence, and both stores are what they should be on     *)
(* sequences.                                                              *)
LEMMA OrderAsSeq ==
  ASSUME NEW M, NEW f, NEW l, NEW n, NEW q, InOrder(q, n, M, f, l)
  PROVE  /\ q \in Seq(M) /\ Len(q) = n /\ DOMAIN q = 1 .. n /\ q # <<>>
         /\ Head(q) = f[l] /\ Tail(q) \in Seq(M) /\ Len(Tail(q)) = n - 1
         /\ \A k \in 1 .. n - 1 : Tail(q)[k] = q[k + 1]
         /\ Rotated(q, n) = Append(Tail(q), f[l])
<1>1. n \in Nat /\ n > 0 /\ q \in [1 .. n -> M] /\ q[1] = f[l] /\ 1 \in 1 .. n
  BY DEF InOrder
<1>2. q \in Seq(M) /\ Len(q) = n /\ DOMAIN q = 1 .. n
  BY <1>1
<1>3. q # <<>>
  BY <1>1, <1>2
<1>4. /\ Head(q) = f[l] /\ Tail(q) \in Seq(M) /\ Len(Tail(q)) = n - 1
      /\ \A k \in 1 .. n - 1 : Tail(q)[k] = q[k + 1]
  BY <1>1, <1>2, <1>3, HeadTailProperties
<1>5. f[l] \in M
  BY <1>1
<1> DEFINE a == Append(Tail(q), f[l])
<1>6. /\ a \in Seq(M) /\ Len(a) = n /\ a[n] = f[l]
      /\ \A k \in 1 .. n - 1 : a[k] = q[k + 1]
  BY <1>1, <1>4, <1>5, AppendProperties
<1>7. a \in [1 .. n -> M]
  <2> HIDE DEF a
  <2> QED
    BY <1>6, LenProperties
<1> HIDE DEF a
<1>8. \A k \in 1 .. n : a[k] = IF k = n THEN q[1] ELSE q[k + 1]
  <2>1. \A k \in 1 .. n : k = n \/ k \in 1 .. n - 1
    BY <1>1
  <2>2. \A k \in 1 .. n - 1 : k # n
    BY <1>1
  <2> QED
    BY <1>1, <1>6, <2>1, <2>2
<1>9. a = Rotated(q, n)
  BY <1>7, <1>8 DEF Rotated
<1> QED
  BY <1>2, <1>3, <1>4, <1>9 DEF a

(* What follows the first of an order is the order before it.              *)
LEMMA FirstAsSeq ==
  ASSUME NEW M, NEW n \in Nat, NEW q \in [1 .. n -> M], NEW p
  PROVE  Tail(First(p, q, n)) = q
<1> DEFINE r == First(p, q, n)
           N == M \union {p}
<1>1. /\ r \in [1 .. n + 1 -> N] /\ n + 1 \in Nat /\ 1 \in 1 .. n + 1
      /\ \A k \in 1 .. n : k + 1 \in 1 .. n + 1 /\ k + 1 # 1 /\ (k + 1) - 1 = k
  <2>1. \A k \in 1 .. n + 1 : k # 1 => k - 1 \in 1 .. n
    OBVIOUS
  <2> QED
    BY <2>1 DEF First
<1>2. \A k \in 1 .. n : r[k + 1] = q[k]
  BY <1>1 DEF First
<1> HIDE DEF r, N
<1>3. r \in Seq(N) /\ Len(r) = n + 1
  BY <1>1
<1>4. r # <<>>
  BY <1>3
<1>5. /\ Tail(r) \in Seq(N) /\ Len(Tail(r)) = n
      /\ \A k \in 1 .. n : Tail(r)[k] = r[k + 1]
  BY <1>3, <1>4, HeadTailProperties
<1>6. Tail(r) \in [1 .. n -> N]
  BY <1>5, LenProperties
<1>7. Tail(r) = q
  BY <1>2, <1>5, <1>6
<1> QED
  BY <1>7 DEF r

(* The queues before a step and after it.                                  *)
LEMMA QueueIs ==
  /\ \A i \in Priority : Queue[i] =
        IF cpu.pc = "link_last" /\ cpu.job.priority = i
        THEN Tail(Walked(linked[i], next, last[i])) ELSE Walked(linked[i], next, last[i])
  /\ \A i \in Priority : Queue'[i] =
        IF cpu'.pc = "link_last" /\ cpu'.job.priority = i
        THEN Tail(Walked(linked'[i], next', last'[i])) ELSE Walked(linked'[i], next', last'[i])
  /\ Queue = [i \in Priority |-> Queue[i]] /\ Queue' = [i \in Priority |-> Queue'[i]]
BY DEF Queue, Unrolled, Walked

(* A step that leaves a ring alone leaves its listing and its queue alone. *)
LEMMA RingLeftAlone ==
  ASSUME IInv, OrderInv, NEW i \in Priority, last'[i] = last[i], linked'[i] = linked[i],
         \A x \in linked[i] : next'[x] = next[x]
  PROVE  /\ Walked(linked'[i], next', last'[i]) = Walked(linked[i], next, last[i])
         /\ last'[i] # NULL => Listed(linked'[i], next', last'[i])
<1>1. CASE last[i] = NULL
  BY <1>1 DEF Walked
<1>2. CASE last[i] # NULL
  <2>1. PICK n, q : InOrder(q, n, linked[i], next, last[i])
    BY <1>2, ListedIs DEF OrderInv
  <2>2. InOrder(q, n, linked'[i], next', last'[i])
    BY <2>1, OrderFrame
  <2> QED
    BY <1>2, <2>1, <2>2, ListedIs, WalkedIs
<1> QED
  BY <1>1, <1>2

(* A step of no queue.                                                     *)
LEMMA QueuesLeftAlone ==
  ASSUME IInv, OrderInv, last' = last, linked' = linked, cpu.pc # "link_last",
         cpu'.pc # "link_last", \A x \in AllLinked : next'[x] = next[x]
  PROVE  OrderInv' /\ Queue' = Queue
<1>1. \A i \in Priority : /\ last'[i] = last[i] /\ linked'[i] = linked[i]
                          /\ \A x \in linked[i] : next'[x] = next[x]
  BY DEF AllLinked
<1>2. OrderInv'
  BY <1>1, RingLeftAlone DEF OrderInv
<1>3. \A i \in Priority : Walked(linked'[i], next', last'[i]) = Walked(linked[i], next, last[i])
  BY <1>1, RingLeftAlone
<1>4. \A i \in Priority : Queue'[i] = Queue[i]
  BY <1>3, QueueIs
<1> QED
  BY <1>2, <1>4 DEF Queue

(* Who is in the queue of a ring.                                          *)
LEMMA QueueMembers ==
  ASSUME IInv, OrderInv, NEW i \in Priority, ~(cpu.pc = "link_last" /\ cpu.job.priority = i)
  PROVE  /\ Abstract!Members(i) \subseteq linked[i]
         /\ last[i] = NULL <=> Queue[i] = <<>>
<1>1. Queue[i] = Walked(linked[i], next, last[i])
  BY QueueIs
<1>2. CASE last[i] = NULL
  <2>1. Queue[i] = <<>>
    BY <1>1, <1>2 DEF Walked
  <2> QED
    BY <1>2, <2>1 DEF Abstract!Members
<1>3. CASE last[i] # NULL
  <2>1. PICK n, q : InOrder(q, n, linked[i], next, last[i])
    BY <1>3, ListedIs DEF OrderInv
  <2>2. Queue[i] = q
    BY <1>1, <1>3, <2>1, WalkedIs
  <2>3. q # <<>> /\ DOMAIN q = 1 .. n /\ \A k \in 1 .. n : q[k] \in linked[i]
    BY <2>1, OrderAsSeq DEF InOrder
  <2> QED
    BY <1>3, <2>2, <2>3 DEF Abstract!Members
<1> QED
  BY <1>2, <1>3
(* The new process comes behind the others in its queue when it becomes    *)
(* queue->last, and nothing happens in the queue before that.              *)
LEMMA EmptyStep ==
  ASSUME IInv, OrderInv, LinkEmpty
  PROVE  OrderInv' /\ \E p \in Proc, i \in Priority : Abstract!Enqueue(p, i)
<1> DEFINE p == cpu.job.process
           i == cpu.job.priority
           r == [k \in 1 .. 1 |-> p]
<1>1. /\ TypeOK /\ cpu.pc = "link" /\ p \in Proc /\ i \in Priority
      /\ p \notin AllLinked /\ p # NULL
  BY SchedAssumption DEF IInv, TypeOK, JobInv, CreatedPC, LinkEmpty
<1>2. /\ last[i] = NULL /\ last'[i] = p /\ linked'[i] = {p} /\ next'[p] = p /\ current' = p
      /\ \A j \in Priority : j # i => last'[j] = last[j] /\ linked'[j] = linked[j]
      /\ \A x \in AllLinked : next'[x] = next[x]
  BY <1>1 DEF LinkEmpty, TypeOK, AllLinked
<1>3. cpu'.pc # "link_last"
  BY <1>1 DEF LinkEmpty, TypeOK, Context
<1>4. InOrder(r, 1, {p}, next', p)
  BY <1>2 DEF InOrder
<1>5. \A j \in Priority : j # i =>
         /\ Walked(linked'[j], next', last'[j]) = Walked(linked[j], next, last[j])
         /\ last'[j] # NULL => Listed(linked'[j], next', last'[j])
  <2>1. \A j \in Priority : \A x \in linked[j] : next'[x] = next[x]
    BY <1>2 DEF AllLinked
  <2> QED
    BY <1>2, <2>1, RingLeftAlone
<1>6. OrderInv'
  <2>1. Listed({p}, next', p)
    BY <1>4, ListedIs
  <2>2. \A j \in Priority : last'[j] # NULL => Listed(linked'[j], next', last'[j])
    BY <1>2, <1>5, <2>1
  <2> QED
    BY <1>3, <2>2 DEF OrderInv
<1>7. Walked(linked[i], next, last[i]) = <<>> /\ Walked(linked'[i], next', last'[i]) = r
  <2>1. Walked({p}, next', p) = r
    <3> HIDE DEF r
    <3> QED
      BY <1>1, <1>4, WalkedIs
  <2>2. Walked(linked[i], next, last[i]) = <<>>
    BY <1>2 DEF Walked
  <2> QED
    BY <1>2, <2>1, <2>2
<1>8. r = Append(<<>>, p)
  OBVIOUS
<1>9. Queue' = [Queue EXCEPT ![i] = Append(@, p)] /\ Queue[i] = <<>>
  <2> HIDE DEF r
  <2>1. \A j \in Priority : /\ Queue[j] = Walked(linked[j], next, last[j])
                            /\ Queue'[j] = Walked(linked'[j], next', last'[j])
    BY <1>1, <1>3, QueueIs
  <2>2. \A j \in Priority : Queue'[j] = IF j = i THEN Append(Queue[i], p) ELSE Queue[j]
    BY <1>1, <1>5, <1>7, <1>8, <2>1
  <2> QED
    BY <1>1, <1>7, <2>1, <2>2, QueueIs
<1>10. \A j \in Priority : p \notin Abstract!Members(j)
  BY <1>1, QueueMembers DEF AllLinked
<1>11. Abstract!Enqueue(p, i)
  BY <1>2, <1>9, <1>10 DEF Abstract!Enqueue, Abstract!Priority, Priority
<1> QED
  BY <1>1, <1>6, <1>11

(* Linking the predecessor of a new process changes no queue.              *)
LEMMA PrevStep ==
  ASSUME IInv, OrderInv, LinkPrev
  PROVE  OrderInv' /\ Queue' = Queue /\ current' = current
<1> DEFINE p == cpu.job.process
           i == cpu.job.priority
<1>1. /\ TypeOK /\ cpu.pc = "link_prev" /\ p \in Proc /\ i \in Priority
      /\ p \notin AllLinked /\ last[i] # NULL /\ next[p] = next[last[i]]
      /\ last[i] \in linked[i]
  BY DEF IInv, TypeOK, JobInv, CreatedPC, LinkPrev, RingInv
<1>2. /\ next' = [next EXCEPT ![last[i]] = p] /\ last' = last /\ current' = current
      /\ linked'[i] = linked[i] \union {p}
      /\ \A j \in Priority : j # i => linked'[j] = linked[j]
  BY <1>1 DEF LinkPrev, TypeOK
<1>3. cpu'.pc = "link_last" /\ cpu'.job = cpu.job
  BY <1>1 DEF LinkPrev, TypeOK, Context
<1>4. PICK n, q : InOrder(q, n, linked[i], next, last[i])
  BY <1>1, ListedIs DEF OrderInv
<1>5. InOrder(First(p, q, n), n + 1, linked'[i], next', last'[i])
  <2>1. /\ linked[i] \in SUBSET Proc /\ next \in [Proc -> Proc \union {NULL}]
        /\ p \notin linked[i] /\ last[i] \in linked[i]
    BY <1>1 DEF TypeOK, AllLinked
  <2>2. InOrder(First(p, q, n), n + 1, linked[i] \union {p}, [next EXCEPT ![last[i]] = p], last[i])
    BY <1>1, <1>4, <2>1, OrderInsert
  <2> QED
    BY <1>2, <2>2
<1>6. \A j \in Priority : j # i =>
         /\ Walked(linked'[j], next', last'[j]) = Walked(linked[j], next, last[j])
         /\ last'[j] # NULL => Listed(linked'[j], next', last'[j])
  <2>1. ASSUME NEW j \in Priority, j # i PROVE \A x \in linked[j] : next'[x] = next[x]
    <3>1. last[i] \notin linked[j] /\ linked[j] \subseteq Proc
      BY <1>1, <2>1 DEF IInv, OneQueue, TypeOK
    <3> QED
      BY <1>1, <1>2, <3>1 DEF TypeOK
  <2> QED
    BY <1>2, <2>1, RingLeftAlone
<1>7. last'[i] # NULL /\ last'[i] # p /\ next'[last'[i]] = p
  BY <1>1, <1>2 DEF TypeOK, AllLinked
<1>8. OrderInv'
  BY <1>2, <1>3, <1>5, <1>6, <1>7, ListedIs DEF OrderInv
<1>9. /\ Walked(linked[i], next, last[i]) = q
      /\ Walked(linked'[i], next', last'[i]) = First(p, q, n)
  BY <1>1, <1>2, <1>4, <1>5, WalkedIs
<1>10. Tail(First(p, q, n)) = q
  <2>1. n \in Nat /\ q \in [1 .. n -> linked[i]]
    BY <1>4 DEF InOrder
  <2> QED
    BY <2>1, FirstAsSeq
<1>11. Queue' = Queue
  <2>1. \A j \in Priority : Queue[j] = Walked(linked[j], next, last[j])
    BY <1>1, QueueIs
  <2>2. \A j \in Priority : Queue'[j] =
           IF j = i THEN Tail(Walked(linked'[j], next', last'[j]))
           ELSE Walked(linked'[j], next', last'[j])
    BY <1>3, QueueIs
  <2>3. Queue'[i] = Queue[i]
    BY <1>1, <1>9, <1>10, <2>1, <2>2
  <2>4. \A j \in Priority : j # i => Queue'[j] = Queue[j]
    BY <1>6, <2>1, <2>2
  <2> QED
    BY <2>3, <2>4, QueueIs
<1> QED
  BY <1>2, <1>8, <1>11

(* Making a new process the last of its ring enqueues it.                  *)
LEMMA LastStep ==
  ASSUME IInv, OrderInv, LinkLast
  PROVE  OrderInv' /\ \E p \in Proc, i \in Priority : Abstract!Enqueue(p, i)
<1> DEFINE p == cpu.job.process
           i == cpu.job.priority
           l == last[i]
<1>1. /\ TypeOK /\ cpu.pc = "link_last" /\ p \in Proc /\ i \in Priority
      /\ p \in linked[i] /\ l # NULL /\ l # p /\ next[l] = p /\ p # NULL
  BY SchedAssumption DEF IInv, TypeOK, JobInv, CreatedPC, LinkLast, OrderInv
<1>2. /\ last'[i] = p /\ \A j \in Priority : j # i => last'[j] = last[j]
      /\ UNCHANGED <<next, linked, current>>
  BY <1>1 DEF LinkLast, TypeOK
<1>3. cpu'.pc # "link_last"
  BY <1>1 DEF LinkLast, TypeOK, Context
<1>4. PICK n, q : InOrder(q, n, linked[i], next, l)
  BY <1>1, ListedIs DEF OrderInv
<1>5. InOrder(Rotated(q, n), n, linked'[i], next', last'[i])
  BY <1>1, <1>2, <1>4, OrderRotate
<1>6. \A j \in Priority : j # i =>
         /\ Walked(linked'[j], next', last'[j]) = Walked(linked[j], next, last[j])
         /\ last'[j] # NULL => Listed(linked'[j], next', last'[j])
  BY <1>2, RingLeftAlone
<1>7. OrderInv'
  BY <1>1, <1>2, <1>3, <1>5, <1>6, ListedIs DEF OrderInv
<1>8. /\ Walked(linked[i], next, last[i]) = q
      /\ Walked(linked'[i], next', last'[i]) = Append(Tail(q), p)
  BY <1>1, <1>2, <1>4, <1>5, OrderAsSeq, WalkedIs, SMTT(60)
<1>9. Queue' = [Queue EXCEPT ![i] = Append(@, p)] /\ Queue[i] = Tail(q)
  <2>1. \A j \in Priority : Queue[j] =
           IF j = i THEN Tail(Walked(linked[j], next, last[j]))
           ELSE Walked(linked[j], next, last[j])
    BY <1>1, QueueIs
  <2>2. \A j \in Priority : Queue'[j] = Walked(linked'[j], next', last'[j])
    BY <1>3, QueueIs
  <2>3. \A j \in Priority : Queue'[j] = IF j = i THEN Append(Queue[i], p) ELSE Queue[j]
    BY <1>1, <1>6, <1>8, <2>1, <2>2, ZenonT(60)
  <2> QED
    BY <1>1, <1>8, <2>1, <2>3, QueueIs
<1>10. Tail(q) # <<>> /\ p \notin Abstract!Members(i)
  <2>1. /\ n \in Nat /\ n > 0 /\ q[1] = p /\ q[n] = l
        /\ \A j, k \in 1 .. n : q[j] = q[k] => j = k
    BY <1>1, <1>4 DEF InOrder
  <2>2. /\ Tail(q) \in Seq(linked[i]) /\ Len(Tail(q)) = n - 1
        /\ \A k \in 1 .. n - 1 : Tail(q)[k] = q[k + 1]
    BY <1>4, OrderAsSeq
  <2>3. n # 1
    BY <1>1, <2>1
  <2>4. \A k \in 1 .. n - 1 : Tail(q)[k] # p
    <3>1. \A k \in 1 .. n - 1 : k + 1 \in 1 .. n /\ k + 1 # 1 /\ 1 \in 1 .. n
      BY <2>1
    <3> QED
      BY <2>1, <2>2, <3>1
  <2>5. DOMAIN Tail(q) = 1 .. n - 1
    BY <2>2, LenProperties
  <2>6. Tail(q) # <<>>
    BY <2>1, <2>2, <2>3
  <2> QED
    BY <1>9, <2>4, <2>5, <2>6 DEF Abstract!Members
<1>11. \A j \in Priority : p \notin Abstract!Members(j)
  <2>1. ASSUME NEW j \in Priority, j # i PROVE p \notin Abstract!Members(j)
    <3>1. p \notin linked[j]
      BY <1>1, <2>1 DEF IInv, OneQueue
    <3> QED
      BY <2>1, <3>1, QueueMembers
  <2> QED
    BY <1>10, <2>1
<1>12. Abstract!Enqueue(p, i)
  BY <1>1, <1>2, <1>9, <1>10, <1>11 DEF Abstract!Enqueue, Abstract!Priority, Priority
<1> QED
  BY <1>1, <1>7, <1>12
(* process_switch takes the head of the highest queue and puts it behind.  *)
LEMMA DispatchStep ==
  ASSUME IInv, OrderInv, NEW regs \in Context, Outside(regs), ProcessSwitch(regs),
         UNCHANGED <<next, linked>>, cpu.pc # "link_last"
  PROVE  OrderInv' /\ \E i \in Priority : Abstract!Dispatch(i)
<1>1. PICK i \in Priority :
           /\ IsHighest(i)
           /\ state' = Saved(regs)
           /\ last' = [last EXCEPT ![i] = next[last[i]]]
           /\ current' = next[last[i]]
           /\ cpu' = state'[next[last[i]]]
  BY DEF ProcessSwitch
<1> DEFINE l == last[i]
           p == next[l]
<1>2. TypeOK /\ l # NULL /\ p \in Proc /\ p # NULL
  BY <1>1, SchedAssumption DEF IInv, RingInv, IsRing, IsHighest, TypeOK
<1>3. last'[i] = p /\ \A j \in Priority : j # i => last'[j] = last[j]
  BY <1>1, <1>2 DEF TypeOK
<1>4. cpu'.pc # "link_last"
  <2>1. \A q \in Proc : Outside(state'[q])
    BY <1>1, <1>2 DEF Saved, TypeOK, IInv, SpawnInv
  <2> QED
    BY <1>1, <1>2, <2>1 DEF Outside, SpawnPC
<1>5. PICK n, q : InOrder(q, n, linked[i], next, l)
  BY <1>2, ListedIs DEF OrderInv
<1>6. InOrder(Rotated(q, n), n, linked[i], next, p)
  BY <1>5, OrderRotate
<1>7. \A j \in Priority : j # i =>
         /\ Walked(linked'[j], next', last'[j]) = Walked(linked[j], next, last[j])
         /\ last'[j] # NULL => Listed(linked'[j], next', last'[j])
  BY <1>3, RingLeftAlone
<1>8. OrderInv'
  <2>1. Listed(linked'[i], next', last'[i])
    BY <1>3, <1>6, ListedIs
  <2>2. \A j \in Priority : last'[j] # NULL => Listed(linked'[j], next', last'[j])
    BY <1>7, <2>1
  <2> QED
    BY <1>4, <2>2 DEF OrderInv
<1>9. /\ q # <<>> /\ Head(q) = p
      /\ Walked(linked[i], next, l) = q
      /\ Walked(linked[i], next, p) = Append(Tail(q), p)
  BY <1>2, <1>5, <1>6, OrderAsSeq, WalkedIs
<1>10. Queue' = [Queue EXCEPT ![i] = Append(Tail(@), Head(@))] /\ Queue[i] = q
  <2>1. \A j \in Priority : Queue[j] = Walked(linked[j], next, last[j])
    BY QueueIs
  <2>2. \A j \in Priority : Queue'[j] = Walked(linked'[j], next', last'[j])
    BY <1>4, QueueIs
  <2>3. Queue[i] = q /\ Queue'[i] = Append(Tail(Queue[i]), Head(Queue[i]))
    BY <1>3, <1>9, <2>1, <2>2
  <2>4. \A j \in Priority : j # i => Queue'[j] = Queue[j]
    BY <1>7, <2>1, <2>2
  <2> QED
    BY <2>3, <2>4, QueueIs
<1>11. \A j \in Priority : j > i => Queue[j] = <<>>
  BY <1>1, QueueMembers DEF IsHighest
<1>12. Abstract!Dispatch(i)
  BY <1>1, <1>9, <1>10, <1>11 DEF Abstract!Dispatch, Abstract!Priority, Priority
<1> QED
  BY <1>8, <1>12

(* Every step of the scheduler is one of RoundRobin, or is not seen.       *)
LEMMA RefinementStep ==
  IInv /\ OrderInv /\ [Next]_vars => OrderInv' /\ [Abstract!Next]_(Abstract!vars)
<1> SUFFICES ASSUME IInv, OrderInv, [Next]_vars
             PROVE  OrderInv' /\ (Abstract!Next \/ (Queue' = Queue /\ current' = current))
  BY DEF Abstract!vars
<1>1. cpu \in Context /\ SpawnInv /\ TypeOK
  BY DEF IInv, TypeOK
<1>2. CASE UNCHANGED vars
  BY <1>2 DEF vars, OrderInv, Queue, Unrolled
<1>3. CASE \/ WaitForInterrupt \/ CallSpawn \/ InvalidPriority \/ OutOfMemory
           \/ RestoreInterruptState \/ Yield \/ Recapture \/ Fault
           \/ SetInterrupts \/ BootSpawn \/ BootTimer \/ CreateProcess \/ CreateStack
  <2>1. last' = last /\ linked' = linked /\ next' = next /\ current' = current
    BY <1>3 DEF WaitForInterrupt, CallSpawn, InvalidPriority, OutOfMemory,
       RestoreInterruptState, Yield, Recapture, Fault, SetInterrupts, BootSpawn, BootTimer,
       CreateProcess, CreateStack
  <2>2. cpu.pc # "link_last"
    BY <1>3 DEF WaitForInterrupt, CallSpawn, InvalidPriority, OutOfMemory,
       RestoreInterruptState, Yield, Recapture, Fault, SetInterrupts, BootSpawn, BootTimer,
       CreateProcess, CreateStack
  <2>3. cpu'.pc # "link_last"
    <3>1. cpu.job.ret # "link_last"
      BY <1>1 DEF SpawnInv, SpawnPC
    <3>2. CASE OutOfMemory \/ Fault
      BY <1>1, <3>2, CpuFields DEF OutOfMemory, Fault
    <3>3. CASE CallSpawn \/ BootSpawn
      <4>1. \E i, f, r : SaveInterruptState(i, f, r)
        BY <3>3 DEF CallSpawn, BootSpawn
      <4> QED
        BY <1>1, <4>1, CpuFields
    <3>4. CASE \/ WaitForInterrupt \/ InvalidPriority \/ RestoreInterruptState \/ Yield
               \/ Recapture \/ SetInterrupts \/ BootTimer \/ CreateProcess \/ CreateStack
      BY <1>1, <3>1, <3>4, CpuFields
    <3> QED
      BY <1>3, <3>2, <3>3, <3>4
  <2> QED
    BY <2>1, <2>2, <2>3, QueuesLeftAlone
<1>4. CASE LinkNext
  <2>1. /\ cpu.pc = "link" /\ cpu.job.process \in Proc /\ cpu.job.process \notin AllLinked
    BY <1>1, <1>4 DEF IInv, JobInv, CreatedPC, LinkNext, Context, Job, TypeOK
  <2>2. last' = last /\ linked' = linked /\ current' = current /\ cpu'.pc = "link_prev"
    BY <1>1, <1>4, CpuFields DEF LinkNext
  <2>3. \A x \in AllLinked : next'[x] = next[x]
    BY <1>1, <1>4, <2>1 DEF LinkNext, TypeOK, AllLinked
  <2> QED
    BY <2>1, <2>2, <2>3, QueuesLeftAlone
<1>5. CASE LinkEmpty \/ LinkLast
  <2>1. Priority = Abstract!Priority
    BY DEF Priority, Abstract!Priority
  <2> QED
    BY <1>5, <2>1, EmptyStep, LastStep DEF Abstract!Next
<1>6. CASE LinkPrev
  BY <1>6, PrevStep
<1>7. CASE Switch \/ Preempt
  <2>1. \E regs \in Context : Outside(regs) /\ ProcessSwitch(regs)
    <3>1. CASE Switch
      <4> DEFINE regs == [cpu EXCEPT !.pc = cpu.regs, !.regs = "body"]
      <4>1. regs \in Context /\ Outside(regs)
        BY <1>1 DEF Context, SpawnInv, Outside, PC, SpawnPC
      <4> QED
        BY <3>1, <4>1 DEF Switch
    <3>2. CASE Preempt
      BY <1>1, <3>2 DEF SpawnInv, Outside, Preempt
    <3> QED
      BY <1>7, <3>1, <3>2
  <2>2. UNCHANGED <<next, linked>> /\ cpu.pc # "link_last"
    BY <1>1, <1>7 DEF Switch, Preempt, SpawnInv, SpawnPC
  <2>3. Priority = Abstract!Priority
    BY DEF Priority, Abstract!Priority
  <2> QED
    BY <2>1, <2>2, <2>3, DispatchStep DEF Abstract!Next
<1> QED
  BY <1>2, <1>3, <1>4, <1>5, <1>6, <1>7 DEF Next

(* Every queue begins empty.                                               *)
LEMMA RefinementInit == Init => OrderInv /\ Abstract!Init
<1> SUFFICES ASSUME Init PROVE OrderInv /\ Abstract!Init
  OBVIOUS
<1>1. OrderInv
  BY DEF Init, OrderInv
<1>2. Queue = [i \in Priority |-> <<>>]
  BY DEF Init, Queue, Unrolled
<1> QED
  BY <1>1, <1>2 DEF Init, Abstract!Init, Abstract!Priority, Priority

(* The rings of process.c implement the FIFO queues of RoundRobin, for any *)
(* set of processes and any number of priorities: whatever is interrupted  *)
(* half-way, process_spawn appends and process_switch takes the head of    *)
(* the highest queue (process.c:113-127, 142-174).                         *)
THEOREM RingsAreQueues == Spec => ImplementsRoundRobin
<1>1. Spec => Abstract!Init /\ [][Abstract!Next]_(Abstract!vars)
  BY RefinementInit, RefinementStep, IInvHolds, PTL DEF Spec
<1> QED
  BY <1>1 DEF ImplementsRoundRobin, Abstract!Spec
=============================================================================
