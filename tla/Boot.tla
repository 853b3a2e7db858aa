--------------------------------- MODULE Boot ---------------------------------
(***************************************************************************)
(* The kernel from the boot loader to its processes: boot() step by step   *)
(* (boot.c) on what BootInfo makes of the tags, and the interrupts that    *)
(* reach it - the gates and the controllers, the stubs and the saved state *)
(* (Context), isr_handler and irq_handler (interrupt.c), pit_handler, and  *)
(* the halt loop of a panic.                                               *)
(*                                                                         *)
(* Which process the scheduler picks is open here (see Sched), and so is   *)
(* in which tick the timer queue reaches its event (see Timer).  Copies    *)
(* are taken to be exact, which kmemory_copy is not (see Libk).            *)
(***************************************************************************)
EXTENDS Context, BootInfo, FiniteSets

CONSTANTS
  Environments,     \* what a boot loader passes: [magic, tags, archive]
  KernelStart,      \* __kernel_start__
  Symtab,           \* "boot/redshift.map"
  PagingMemory,     \* static memory that paging_init takes, see Frames
  Lines,            \* interrupt lines that are raised
  Exceptions,       \* exceptions that are raised
  Garbage,          \* what the member interrupt of a wrong structure may hold
  MaxTaken,         \* bound: interrupts taken, but for those of a sleep
  MaxStack,         \* bound: words on the stack after a switch
  MaxWork           \* bound: changes of the registers by a program

ASSUME BootAssumption ==
  /\ Lines \subseteq 0 .. 15 /\ Exceptions \subseteq 0 .. 31 /\ Garbage \subseteq Nat
  /\ {KernelStart, PagingMemory, MaxTaken, MaxStack, MaxWork} \subseteq Nat

\* A boot loader passes well-formed tags, and an archive made of some files.
Files == [name : Seq(Nat) \ {<<>>}, size : 0 .. Word - 1]
Block == [name : Seq(Nat), size : Seq(Nat)]
ASSUME EnvironmentAssumption ==
  \A e \in Environments :
    /\ e.tags \in Seq(Tags)
    /\ e.files \in Seq(Files) /\ e.archive \in Seq(Block) /\ Len(e.archive) <= Offsets
    /\ Holds(e.archive, e.files, e.terminated)

VARIABLES
  env, debug, reading,   \* the boot loader, the build, see Context
  repaired,              \* which of usleep (which never returns) and create_heap
                         \* (which panics) work; {} is the code
  step, info,            \* the place in boot() and what it gathered
  cpu,                   \* the registers, and the stack as a sequence
  where,                 \* "program", "handler", "dispatch" or "return"
  stub, line, number,    \* the last interrupt, and what its handler reads of it
  saved,                 \* the structure cpu_state
  gates, base, inService, handlers,
  states, current,       \* process->state, current_process
  panicked, status,      \* in_panic; "on", "reset" or "wild"
  entered, kept,         \* history: the processor when it was interrupted, and
                         \* the registers of each process when it stopped
  taken, work

vars == <<env, debug, reading, repaired, step, info, cpu, where, stub, line, number, saved, gates, base,
          inService, handlers, states, current, panicked, status, entered, kept, taken, work>>

given     == <<env, debug, reading, repaired>>
interrupt == <<where, stub, line, number, saved, entered, taken>>
set_up    == <<gates, base, handlers>>
processes == <<states, current, kept>>

Processes == {"main", "idle"}
None == "none"
ON == <<"eflags", TRUE>>
OFF == <<"eflags", FALSE>>
HALT == <<"halt", 0>>          \* in the loop of wait_for_interrupt
Entry(p) == <<p, 0>>
Enabled == cpu.reg["eflags"] = ON
Program == status = "on" /\ where = "program"
Running(p) == Program /\ cpu.reg["eip"][1] = p

Init ==
  /\ env \in Environments
  /\ debug \in BOOLEAN /\ reading \in {"written", "assembled"}
  /\ repaired \in {{}, {"usleep"}, {"usleep", "create_heap"}}
  /\ step = "environment"
  /\ info = [size |-> [lower |-> 0, upper |-> 0], map |-> <<>>, end |-> 0, files |-> <<>>,
             modules |-> [list |-> <<>>, count |-> 0], heapAddr |-> 0, heap |-> 0]
  /\ cpu = [reg |-> [r \in Registers |-> CASE r = "eip"    -> Entry("boot")
                                           [] r = "eflags" -> OFF
                                           [] OTHER        -> <<r, "loader", 0>>],
            stack |-> <<>>]
  /\ where = "program" /\ stub = None /\ line = None /\ number = 0 /\ saved = [s \in Slots |-> ZERO]
  /\ gates = {} /\ base = 8 /\ inService = {} /\ handlers = {}
  /\ states = [p \in Processes |-> Spawned(Entry(p))] /\ current = None
  /\ panicked = FALSE /\ status = "on"
  /\ entered = cpu /\ kept = [p \in Processes |-> Spawned(Entry(p))]
  /\ taken = 0 /\ work = 0
---------------------------------------------------------------------------
(* Panic.                                                                  *)

\* Interrupts are disabled, the report is made, and hang enables them again.
Panicked ==
  /\ panicked' = TRUE
  /\ cpu' = [cpu EXCEPT !.reg = [@ EXCEPT !["eip"] = HALT, !["eflags"] = ON]]
  /\ where' = "program"
  /\ UNCHANGED <<given, info, stub, line, number, saved, entered, taken, set_up, processes, status, work>>
PanicInBoot == Panicked /\ UNCHANGED <<step, inService>>
---------------------------------------------------------------------------
(* The steps of boot.  They run with interrupts disabled, but for usleep.  *)

At(s, next) == Running("boot") /\ step = s /\ step' = next
Gathers(i) == info' = i /\ UNCHANGED <<given, cpu, interrupt, set_up, inService, processes, panicked, status, work>>

check_boot_env ==
  /\ Running("boot") /\ step = "environment"
  /\ IF ~env.magic \/ env.tags = <<>> THEN PanicInBoot
     ELSE step' = "tables" /\ Gathers(info)

\* tss_init, gdt_init, idt_init and tss_load.
Gates == 0 .. 47
init_tables ==
  /\ At("tables", "controllers")
  /\ gates' = Gates
  /\ cpu' = [cpu EXCEPT !.reg = [r \in Registers |->
       CASE r \in Segments \union {"ss"} -> DATA [] r = "cs" -> CODE [] OTHER -> @[r]]]
  /\ UNCHANGED <<given, info, interrupt, base, handlers, inService, processes, panicked, status, work>>

\* pic_init and pit_init.
init_controllers ==
  /\ At("controllers", "hal")
  /\ base' = 32 /\ handlers' = {32}
  /\ UNCHANGED <<given, info, cpu, interrupt, gates, inService, processes, panicked, status, work>>

\* cpu_init: without CPUID it panics; and it sleeps, to count the processor's
\* ticks.  The names and features that it stores are left out.
cpuid_init ==
  /\ Running("boot") /\ step = "hal"
  /\ \/ PanicInBoot
     \/ /\ step' = "sleeping"
        /\ cpu' = [cpu EXCEPT !.reg = [@ EXCEPT !["eip"] = HALT, !["eflags"] = ON]]
        /\ UNCHANGED <<given, info, interrupt, set_up, inService, processes, panicked, status, work>>

\* usleep for one tick waits for one interrupt.  wait_for_interrupt is a loop
\* and nothing leaves it; if it were none, the rest of init_hal would follow.
Sleeping == step = "sleeping" /\ ~panicked
init_hal ==
  /\ Program /\ Sleeping /\ "usleep" \in repaired /\ entered.reg["eip"] = HALT
  /\ step' = "modules_1"
  /\ cpu' = [cpu EXCEPT !.reg = [@ EXCEPT !["eip"] = Entry("boot"), !["eflags"] = OFF]]
  /\ info' = [info EXCEPT !.size = MemoryInit(env.tags)]
  /\ UNCHANGED <<given, interrupt, set_up, inService, processes, panicked, status, work>>

init_boot_modules_1 == At("modules_1", "memory") /\ Gathers([info EXCEPT !.end = ModulesEnd(env.tags)])

\* static_init, paging_init, memory_map_init and heap_init.
StaticEnd(map) == Allocated(StaticInit(info.end) + PagingMemory, MemoryMapNode, Len(map))
init_memory ==
  LET map == MemoryMap(env.tags)
      region == HeapRegion(map, StaticEnd(map), debug)
  IN  /\ Running("boot") /\ step = "memory"
      /\ \/ /\ region.status = "wild" /\ status' = "wild"
            /\ UNCHANGED <<given, step, info, cpu, interrupt, set_up, inService, processes, panicked, work>>
         \/ /\ region.status = "panic" \/ (region.status = "ok" /\ "create_heap" \notin repaired)
            /\ PanicInBoot
         \/ /\ region.status = "ok" /\ "create_heap" \in repaired
            /\ step' = "modules_2"
            /\ Gathers([info EXCEPT !.map = map, !.heap = region.address,
                                    !.heapAddr = region.address + INITIAL_HEAP_SIZE])

init_boot_modules_2 ==
  /\ At("modules_2", "initrd")
  /\ Gathers([info EXCEPT !.modules = SavedModules(env.tags),
                          !.heapAddr = ModulesAllocated(@, env.tags)])

load_initrd ==
  /\ Running("boot") /\ step = "initrd"
  /\ IF info.modules.count < 1 THEN PanicInBoot
     ELSE /\ step' = "symbols"
          /\ Gathers([info EXCEPT !.files = Extract(env.archive, Len(env.archive))])

init_symbol_table ==
  /\ Running("boot") /\ step = "symbols"
  /\ IF FileByName(info.files, Symtab) = 0 THEN PanicInBoot
     ELSE step' = "scheduler" /\ Gathers(info)

\* sched_init, and enable_interrupts; see Sched for current_process.
start_scheduler ==
  /\ At("scheduler", "yield")
  /\ current' = "idle"
  /\ cpu' = [cpu EXCEPT !.reg["eflags"] = ON]
  /\ UNCHANGED <<given, info, interrupt, set_up, inService, states, kept, panicked, status, work>>

\* boot() does not expect its process_yield to return.
boot_returns == Running("boot") /\ step = "yielded" /\ PanicInBoot

BootStep ==
  \/ check_boot_env \/ init_tables \/ init_controllers \/ cpuid_init \/ init_hal \/ init_boot_modules_1
  \/ init_memory \/ init_boot_modules_2 \/ load_initrd \/ init_symbol_table
  \/ start_scheduler \/ boot_returns
---------------------------------------------------------------------------
(* Interrupts.                                                             *)

\* Entries that expect the processor to push an error code, and the exceptions
\* for which it does; isr_info agrees with the processor.
ErrorEntries == {8, 10, 11, 12, 13, 14, 17}
ErrorPushed == ErrorEntries \union {30}

\* From the interrupt to the call of the handler.  When the processor pushes a
\* code that the entry does not expect, every word is taken for its neighbour.
Enter(n, kind, reg, stack) ==
  LET code == <<"error", n>>
      pushed == [interrupt |-> <<"number", n>>, error_code |-> ZERO,
                 eip |-> reg["eip"], cs |-> reg["cs"], eflags |-> reg["eflags"]]
      shifted == [pushed EXCEPT !.eip = code, !.cs = reg["eip"], !.eflags = reg["cs"]]
      odd == n \in ErrorPushed \ ErrorEntries
      frame == IF odd THEN shifted
               ELSE IF n \in ErrorEntries THEN [pushed EXCEPT !.error_code = code] ELSE pushed
  IN  /\ taken < MaxTaken /\ taken' = IF Sleeping /\ kind = "irq" THEN taken ELSE taken + 1
      /\ entered' = [reg |-> reg, stack |-> stack]
      /\ saved' = Prologue(reg, frame, saved)
      /\ cpu' = [reg |-> [InKernel(reg) EXCEPT !["eflags"] = OFF],
                 stack |-> stack \o (IF odd THEN <<reg["eflags"]>> ELSE <<>>)
                                 \o <<Argument(reading, saved')>>]
      /\ where' = "handler" /\ stub' = kind
      /\ UNCHANGED <<given, step, info, set_up, processes, panicked, work>>

\* Without a gate the exceptions that follow have none either.
Interrupt(n, kind, reg, stack) ==
  IF n \in gates THEN Enter(n, kind, reg, stack) /\ UNCHANGED status
  ELSE /\ status' = "reset"
       /\ UNCHANGED <<given, step, info, cpu, where, stub, saved, entered, taken, set_up,
                      processes, panicked, work>>

\* A line is served when none that is served comes before it; the slave is the
\* third line of the master.
MasterLine(l) == IF l > 7 THEN 2 ELSE l
Take(l) ==
  /\ Program /\ Enabled
  /\ \A b \in inService : IF b > 7 THEN l < b ELSE MasterLine(l) < b
  /\ inService' = inService \union {l, MasterLine(l)} /\ line' = l /\ UNCHANGED number
  /\ Interrupt(IF base = 8 /\ l > 7 THEN 112 + l - 8 ELSE base + l, "irq", cpu.reg, cpu.stack)

\* An exception in a process, in boot once it depends on what is mapped, or in
\* a handler, which is interrupted itself.
Faults ==
  \/ status = "on" /\ (where = "dispatch" \/ (where = "handler" /\ reading = "assembled"))
  \/ \E p \in Processes : Running(p)
  \/ Running("boot") /\ step \in {"modules_2", "initrd", "symbols", "scheduler", "yield"}
Fault(n) ==
  /\ Faults
  /\ Interrupt(n, "isr", cpu.reg, cpu.stack)
  /\ UNCHANGED <<inService, line, number>>

\* What the handlers read through their argument.
Number == IF reading = "written" THEN {saved["interrupt"][2]} ELSE Garbage

\* The slave is told for numbers from 40 on, and then the master: each ends the
\* first of the lines it serves.
First(S) == {l \in S : \A m \in S : l <= m}
EndOfInterrupt(lines, n) ==
  LET slave == {l \in lines : l > 7}
  IN  lines \ (First(lines \ slave) \union IF n >= 40 THEN First(slave) ELSE {})

Saves(state, reg) ==
  /\ states' = IF current = None THEN states ELSE [states EXCEPT ![current] = state]
  /\ kept' = IF current = None THEN kept ELSE [kept EXCEPT ![current] = reg]

\* process_switch(&state), called with the registers as they are: they were reg
\* in the program that is left.
Switch(state, reg, leaves) ==
  \E q \in Processes :
    /\ Len(cpu.stack) + 3 <= MaxStack
    /\ Saves(state, reg)
    /\ current' = q /\ where' = "program"
    /\ cpu' = [reg |-> Jumped(cpu.reg, states'[q]),
               stack |-> cpu.stack \o leaves \o JumpLeaves(states'[q])]

Returns == where' = "return" /\ cpu' = [cpu EXCEPT !.reg = AfterCall(@)] /\ UNCHANGED processes

Handles(kind) == status = "on" /\ where = "handler" /\ stub = kind

\* The controllers are told before the handler runs.
\* Mutant: they are told when it has returned.
ToldAfterwards ==
  /\ Handles("irq")
  /\ number' \in Number /\ where' = "dispatch" /\ UNCHANGED inService
  /\ UNCHANGED <<given, step, info, cpu, stub, line, saved, entered, taken, set_up, processes,
                 panicked, status, work>>
irq_handler ==
  /\ Handles("irq")
  /\ number' \in Number /\ where' = "dispatch"
  /\ inService' = EndOfInterrupt(inService, number')
  /\ UNCHANGED <<given, step, info, cpu, stub, line, saved, entered, taken, set_up, processes,
                 panicked, status, work>>

isr_handler ==
  /\ Handles("isr")
  /\ \/ (\E n \in Number : n < 34) /\ Panicked
     \/ /\ number' \in Number /\ number' >= 34 /\ where' = "dispatch"
        /\ UNCHANGED <<given, info, cpu, stub, line, saved, entered, taken, set_up, processes,
                       panicked, status, work>>
  /\ UNCHANGED <<step, inService>>

\* call_interrupt_handler.  pit_handler runs the timer queue, which may switch
\* once the scheduler has its event; it leaves the words of its calls.
call_interrupt_handler ==
  /\ status = "on" /\ where = "dispatch"
  /\ \/ number >= 256 /\ status' = "wild" /\ UNCHANGED <<where, cpu, processes>>
     \/ number < 256 /\ Returns /\ UNCHANGED status
  /\ UNCHANGED <<given, step, info, stub, line, number, saved, entered, taken, set_up, inService,
                 panicked, work>>
pit_handler ==
  /\ status = "on" /\ where = "dispatch" /\ number \in handlers /\ current # None
  /\ Switch(saved, entered.reg, <<JUNK>>)
  /\ UNCHANGED <<given, step, info, stub, line, number, saved, entered, taken, set_up, inService,
                 panicked, status, work>>

\* The epilogue.  As it is assembled, iret loads CS with the selector of data,
\* and the general protection fault finds three words more on the stack.
Return ==
  LET frame == ReturnFrame(reading, saved)
      reg == Epilogue(cpu.reg, saved)
      below == SubSeq(cpu.stack, 1, Len(cpu.stack) - 1)
  IN  /\ status = "on" /\ where = "return"
      /\ IF frame["cs"] = CODE
         THEN /\ cpu' = [reg |-> Iret(reg, frame), stack |-> below]
              /\ where' = "program"
              /\ UNCHANGED <<given, step, info, stub, saved, entered, taken, set_up, processes,
                             panicked, status, work>>
         ELSE Interrupt(13, "isr", [reg EXCEPT !["eip"] = <<"iret", 0>>],
                        below \o <<frame["eflags"], frame["cs"], frame["eip"]>>)
      /\ UNCHANGED <<inService, line, number>>
---------------------------------------------------------------------------
(* Programs.                                                               *)

\* A process or boot changes its registers.
Work(p) ==
  /\ Running(p) /\ work < MaxWork /\ work' = work + 1
  /\ cpu' = [cpu EXCEPT !.reg = [r \in Registers |->
       IF r \in General THEN <<r, p, work'>> ELSE IF r = "eip" THEN <<p, work'>> ELSE @[r]]]
  /\ UNCHANGED <<given, step, info, interrupt, set_up, inService, processes, panicked, status>>

process_yield(p) ==
  /\ Running(p) /\ (p = "boot" => step = "yield")
  /\ step' = IF p = "boot" THEN "yielded" ELSE step
  /\ Switch(Captured(cpu.reg), cpu.reg, <<JUNK>>)
  /\ UNCHANGED <<given, info, stub, line, number, saved, entered, taken, set_up, inService, panicked, status, work>>

Next ==
  \/ BootStep
  \/ \E l \in Lines : Take(l)
  \/ \E n \in Exceptions : Fault(n)
  \/ irq_handler \/ isr_handler \/ call_interrupt_handler \/ pit_handler \/ Return
  \/ \E p \in Processes : Work(p) \/ process_yield(p)
  \/ process_yield("boot")

Spec == Init /\ [][Next]_vars

\* The processor goes on, and interrupts come again and again.
FairSpec ==
  /\ Spec
  /\ SF_vars(BootStep) /\ WF_vars(irq_handler) /\ WF_vars(isr_handler)
  /\ WF_vars(call_interrupt_handler) /\ WF_vars(pit_handler) /\ WF_vars(Return)
  /\ \A l \in Lines : SF_vars(Take(l))
---------------------------------------------------------------------------
(* Properties.                                                             *)

(* A program that an interrupt stopped goes on with its own stack and all  *)
(* of its registers but EAX (which the epilogue loads the segments with)   *)
(* when the handler returns, and so does a process that is switched to,    *)
(* in whatever order processes were stopped, by interrupts or by yielding  *)
(* - except that it goes on with the stack of another.  As the stubs are   *)
(* assembled no handler returns to any program (isr_irq_stub.S:80-104).    *)
ResumesIntact ==
  [][/\ (where = "return" /\ where' = "program") =>
          /\ reading = "written" /\ cpu'.stack = entered.stack
          /\ \A r \in Registers \ {"eax"} : cpu'.reg[r] = entered.reg[r]
     /\ (where' = "program" /\ Len(cpu'.stack) = Len(cpu.stack) + 3) =>
          \A r \in General \union {"cs", "eip", "eflags"} : cpu'.reg[r] = kept'[current'][r]
    ]_vars

(* Whenever a program can be interrupted no line is in service, so that    *)
(* every line can be served again, whatever its handler did - switched to  *)
(* another process or panicked included (interrupt.c:106-113).  Every line *)
(* finds its own gate, or the machine panicked before the gates were made, *)
(* and then it starts again instead of halting.  What a panic reports is   *)
(* the place of the exception, unless that is 30 (isr_irq_stub.S:170).     *)
LinesServed ==
  /\ (Program /\ Enabled /\ reading = "written") => inService = {}
  /\ (status = "on" /\ where = "handler" /\ stub = "irq") => saved["interrupt"] = <<"number", 32 + line>>
  /\ status = "reset" => (gates = {} /\ panicked)
  /\ (status = "on" /\ where = "handler" /\ stub = "isr" /\ saved["interrupt"] # <<"number", 30>>)
       => saved["eip"] = entered.reg["eip"]

Lesser(a, b) == IF a < b THEN a ELSE b
HasModules == step \in {"initrd", "symbols", "scheduler", "yield", "yielded"}
HasHeap == step = "modules_2" \/ HasModules
TagsOf(type) == {t \in DOMAIN env.tags : env.tags[t].type = type}
Entries == UNION {{t} \X DOMAIN env.tags[t].entries : t \in TagsOf("mmap")}
EntryOf(k) == env.tags[k[1]].entries[k[2]]
EndOf(e) == e.addr + e.len

(* When the heap gets its region, the memory map holds each entry that the *)
(* boot loader passed, over all of its maps, and the heap is page aligned  *)
(* (unless it is in the first page), in one available entry, and behind    *)
(* the kernel, the modules and what was allocated since if the last ends   *)
(* in that entry - as long as no available entry begins at an address      *)
(* above 32 bits (memory.c:72-133, heap.c:106-142).                        *)
HeapPlaced ==
  HasHeap =>
    /\ Len(info.map) = Cardinality(Entries)
    /\ \A k \in Entries : \E i \in DOMAIN info.map :
         /\ info.map[i].type = EntryOf(k).type
         /\ info.map[i].start = EntryOf(k).addr /\ info.map[i].end = EndOf(EntryOf(k)) - 1
    /\ info.heap >= PAGE_SIZE => info.heap % PAGE_SIZE = 0
    /\ (\A k \in Entries : EntryOf(k).type = "available" => EntryOf(k).addr < Address) =>
         \E k \in Entries :
           /\ EntryOf(k).type = "available"
           /\ EntryOf(k).addr <= info.heap /\ info.heap + INITIAL_HEAP_SIZE <= EndOf(EntryOf(k))
           /\ (EntryOf(k).addr < StaticEnd(info.map) /\ StaticEnd(info.map) < EndOf(EntryOf(k))) =>
                /\ info.heap >= KernelEnd /\ info.heap >= StaticEnd(info.map)
                /\ \A t \in TagsOf("module") : info.heap >= env.tags[t].end

(* The boot modules that boot goes on with are those that were passed, in  *)
(* order.  The files of the ramdisk are those of the archive when no field *)
(* of a size ends in a terminator; with one, the first file is found, and  *)
(* its size is taken for 8 times as much less 48 (tar.c:38-47).            *)
RamdiskRead ==
  LET f == info.files
  IN  /\ HasModules =>
           /\ info.modules.count = Cardinality(TagsOf("module"))
           /\ \A t \in TagsOf("module") :
                info.modules.list[Cardinality({u \in TagsOf("module") : u <= t})] = env.tags[t]
      /\ f # <<>> =>
           /\ f[1].name = env.files[1].name /\ f[1].start = 2
           /\ IF env.terminated THEN f[1].size = (8 * env.files[1].size - 48) % Word
              ELSE /\ Len(f) = Lesser(INITRD_MAX_FILES, Len(env.files))
                   /\ \A i \in DOMAIN f : f[i].name = env.files[i].name /\ f[i].size = env.files[i].size

(* Whoever sleeps wakes up, at least when handlers return to what they     *)
(* interrupted (redshift/kernel/sleep.h:36).                               *)
SleepEnds == (Sleeping /\ reading = "written") ~> ~Sleeping
=============================================================================
