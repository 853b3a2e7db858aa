# Redshift in TLA+

Redshift is a small i686 kernel: one CPU, one kernel address space, cooperative
and timer-driven scheduling, a paged heap, a VGA console, and a small C library
of its own.  This directory holds TLA+ models of it, TLC configurations that
check them on small instances, and TLAPS proofs about the core for instances of
every size.  `PROJECT.json` lists the components, the runs, the lines that each
definition translates, the hazards and the theorems; this file explains them.

## 1. Inventory

| Component | State | Operations | Interacts with |
|---|---|---|---|
| Scheduler (`sched/process.c`, `boot/sched.c`) | four circular run queues `processes[].last`, `current_process`, `num_processes`, the process structures | `process_spawn`, `process_switch`, `process_yield`, `sched_init` | timer events call it from the IRQ handler; heap for its structures |
| Context switch (`state.h`, `set_state_and_jump.S`, `isr_irq_stub.S`) | the register file saved in each process and in the stub's one `cpu_state` | `get_cpu_state`, `set_state_and_jump`, the stubs | scheduler, interrupt dispatch |
| Interrupt flag (`kernel.h`, `common.S`) | EFLAGS.IF | `SAVE_/RESTORE_INTERRUPT_STATE`, `cli`, `sti`, `wait_for_interrupt`, `hang` | the only lock in the kernel: every module uses it |
| Interrupt dispatch (`interrupt.c`, `idt.c`, `pic.c`) | gates, one handler per vector, lines in service | `isr_handler`, `irq_handler` (acknowledges, then calls) | timer, panic |
| Timer events (`timer.c`, `pit.c`) | a linked list of events, its head | `add_timer_event`, `process_timer_queue`, `pit_handler` | scheduler; callbacks may add events |
| Panic (`panic.c`) | `in_panic` | `panic`, `hang` | everything |
| Sleep (`sleep.c`) | none | `usleep` | interrupt flag, `cpu_init` |
| Boot sequence (`boot.c`, `hal.c`, `gdt.c`, `idt.c`, `tss.c`) | the order of initialisation, descriptor tables | one step per subsystem, each of which may panic | all of the above and below |
| Memory map (`hal/memory.c`), boot modules (`boot_module.c`) | lists made of the boot loader's tags | `memory_init`, `memory_map_init`, `init_boot_modules_1`, `_2` | heap region, ramdisk |
| Ramdisk (`initrd.c`, `tar.c`) | headers and hashes of its files | `load_initrd`, look-up by name | symbols |
| Paging (`paging.c`) | frame bitmap, page directory | `frame_alloc`, `frame_free`, `page_get`, `paging_init` | heap, static allocator |
| Static allocator (`static.c`) | bump pointer `heap_addr` | `static_alloc_base` | paging, boot |
| Heap (`heap.c`, `kmalloc.c`) | block list, heap bounds | find a region, create, allocate, free, expand, contract | paging, sorted array |
| Symbol table (`symbols.c`) | a sorted array of addresses and names | load from the ramdisk, search both ways | panic reports |
| Console (`console.c`), `printk` (`printk.c`) | frame buffer, cursor, origin, colours | write, scroll, clear, log levels | everything that reports |
| Sorted array (`ksorted_array.c`) | structure and elements in one allocation | create, place, add, get | heap, symbols |
| Linked list (`klist.c`) | nodes shared by a list and its tails | append, prepend, insert, update, grow, pop, shrink, remove, tail, free | no caller in this commit but its tests |
| Memory, characters, strings, formatting (`kmemory*.[ch]`, `kchar.c`, `kstring*.c`) | the static buffer of `format_number` | copy, fill, compare, search, convert, format | everyone |

The kernel runs on one CPU, so all its concurrency is between a context and the
interrupts that may preempt it.  The behaviours that are hard to test follow
from that: where exactly an interrupt may fall in `process_spawn`; a timer
callback that never returns because it switches processes; which words are left
on whose stack; an early return that forgets to restore the interrupt flag; a
panic in the middle of an operation, after which the timer goes on; an
allocation that fails half way.  The rest is arithmetic at boundaries: counts of
bytes taken for counts of words, unsigned counts that pass zero, indices that
are off by one.  `PROJECT.json` lists each at its line under "hazards", with the
property that watches it or the reason why none does.

What makes each component correct:

* Scheduler: queues are intact rings at every instant, nobody is lost, the
  queue order is FIFO, the caller's interrupt flag comes back, no thread is
  resumed twice.
* Interrupts: what was interrupted goes on with its registers and its stack, and
  every line can be served again whatever the handler did.
* Timer: no event is lost, none is early, each is raised again and again.
* Boot: the memory map, modules and files are those that were passed; the heap
  lies in memory that is free.
* Frames: the map is the identity; a frame has one owner; the allocator knows
  when none is left; the heap's pages are there however it grows and shrinks.
* Heap: blocks do not overlap; free returns what allocate gave; the list is
  sorted.
* Console: it is a terminal - text lands where the cursor is, the screen scrolls,
  nothing is written outside it.
* Lists and tables: a sequence, in order, that never reaches freed memory; a
  search finds what is there.
* Library functions: each meets its header comment on every input.

## 2. Modules

| Module | Role |
|---|---|
| `Sched` | the scheduler, its boot sequence, the interrupt flag and the halt loop |
| `RoundRobin` | what the scheduler promises: FIFO queues, strict priorities |
| `SchedRefinement` | the mapping from rings to queues, `Sched => RoundRobin!Spec` |
| `Timer` | timer events and the tick that drives them |
| `Frames` | page tables, frame bitmap and static allocator, from `paging_init` to the page loops of the heap |
| `Context` | the register file through the stubs, `get_cpu_state` and `set_state_and_jump` (operators) |
| `BootInfo` | memory map, heap region, boot modules, archive (operators) |
| `Boot` | `boot()` step by step and the interrupts that reach it; composes `Context` and `BootInfo` |
| `Console` | the console and `printk` |
| `Terminal` | what the console promises: a screen, a cursor, an origin |
| `KList` | forward lists and their tails |
| `KMemory`, `KChar`, `KString`, `KFormat` | the primitives of the library (operators; the copy and the formatter as machines) |
| `Libk` | calls of them |
| `KSortedArray` | sorted arrays in the memory they are given (operators) |
| `Symbols` | the symbol table: parser, sorted array, searches |
| `Induction` | induction on the natural numbers and recursive functions, for the proofs (lemmas) |
| `SchedProofs`, `TimerProofs`, `FramesProofs`, `ConsoleProofs`, `KListProofs`, `LibkProofs`, `BootProofs` | TLAPS proofs |
| `MCSched`, `MCTimer`, `MCFrames`, `MCBoot`, `MCConsole`, `MCKList`, `MCLibk`, `MCSymbols` | instances for TLC |

### Sched

`cpu` is the executing context, `state[p]` the context saved in process `p`.  A
context is a thread (whose code it is), a place in that code, the interrupt
flag, the ring, and the locals of the call in progress.  The variables `next`,
`id`, `flags`, `last`, `current`, `numProcesses` and `inPanic` are the fields
and globals of the same names; `timer` says whether the sched event is
registered; `linked` is a history variable: who has been inserted where.

`process_spawn` is cut wherever a store becomes visible to an interrupt:
`SaveInterruptState` (entry), `InvalidPriority` (the early return),
`CreateProcess` (structure, id, counter), `CreateStack` (stack and entry
state), `OutOfMemory` (the panic in either allocation), `LinkEmpty` or
`LinkNext`/`LinkPrev`/`LinkLast` (the three stores), `RestoreInterruptState`.
`process_switch` is one operator, `ProcessSwitch`, because every way to it has
interrupts off or is a jump away from the caller; `Switch` is its call from
`process_yield`, `Preempt` from the timer.  An interrupt can fall between any
two actions if `cpu.intr` allows it: that the critical section holds is a
property, not a modelling decision.

`get_cpu_state` captures the address of a label inside itself, so a thread that
yielded resumes there, captures a second time and has no return address to
pop.  The model follows: `Yield` saves the place "capture", `Recapture` the
place "wild".  What a wild address does is unknown; the model lets it fault
(`Fault`, which panics as `handle_exception` does) or spin.

`Timer` models what `Preempt` abstracts: in `Sched` the timer may fire whenever
the flag allows.

### Timer

Events are numbered in order of creation.  `AddTimerEvent`, `Advance` and
`Append` are `add_timer_event`, whose loop moves the list's *head*; it may run
in a callback, in the middle of a traversal.  `Tick`, `Accumulate`, `Call`,
`CallSwitch`, `Return` and `Done` are `process_timer_queue`.  `since` (time since
an event was created or last raised) and `seen` are history variables.

### Frames

Addresses are numbers here, because the hazards are about what lies where: the
static allocator puts page tables just behind the identity map that is growing
over them, and the frame bitmap is allocated with its number of *words* as its
size in *bytes*.  `heapAddr`, `used`, `tables` and `page` are `heap_addr`, the
set bits of the bitmap, and the entries of `kernel_directory`; `identity` (how
far the identity map went) and `owned` (which pages have been given a frame and
not freed) are history.  `CreateDirectory`, `MapFirst`, `MapNext`, `MapDone`,
`MapHeap`, `MapHeapDone` and `EnablePaging` are `paging_init`; each loop body is
one action, because each calls `page_get` (`PageGet`), which may move `heapAddr`
on, and `frame_alloc` (`FrameAlloc`).  `StaticAlloc` is any other use of the
static allocator.  `HeapInit` places the heap; `Expand`/`ExpandPage` and
`Contract`/`ContractPage`/`ContractNoTable`/`ResizeDone` are the loops of
`heap_expand` and `heap_contract`, for any new size that their callers can ask
for.  The blocks of the heap are not in this module.

A boot that gets as far as `HeapInit` panics there: the list of blocks is requested
from `kmalloc`, which panics until the heap exists.  The constant `ListAllocated` is
FALSE for the code as it is.  Everything after that point is modelled for
`ListAllocated = TRUE`, a heap that gets the list it asks for; the run uses that
value, and the proofs cover both.  `Sched` and `Timer` model what comes later still,
and so assume a boot that gets that far; `Boot` shows how far it does get.

Where the code leaves the outcome open, so does the model.  The bits between the
cleared part of the bitmap and the next object are arbitrary (`Own \ Cleared`).
Beyond them lies other data (`Foreign`): its bits may be read as anything, and
setting one corrupts the page directory or whatever is there, after which
nothing is known (`pc = "corrupt"`).  `page_enable` declares the register it
writes to CR0 as an output, so paging may be on or off; with it on, the first
write to the heap faults, since nothing maps it.  `asserts` is the build: with
`DEBUG_ASSERT` a heap that outgrows `max_size` panics, and so does every
`heap_free`, which does not find the footer where it looks.

### Context, BootInfo and Boot

`Context` holds what the stubs, `get_cpu_state` and `set_state_and_jump` do to a
register file: `Prologue` and `Epilogue`, `Captured` and `Jumped`, `Spawned`.
`reading` distinguishes the source as it looks ("written") from what GNU as makes of
it ("assembled"): `push cpu_state` pushes the saved EAX as the handler's argument,
and `push dword [cpu_state_x]` pushes the member behind `x`.

`BootInfo` holds what boot computes from the boot loader's tags (`MemoryInit`,
`MemoryMap`, `HeapRegion`, `ModulesEnd`, `SavedModules`), each a loop over them
(`OverTags`), and from the archive (`tar_oct2dec`, `Extract`, `FileByName`).  Two things
of 32 bits count there: a size, and the offset in the archive, which begins anew behind
the last of them (`Forward`).  `Tags`, `Block` and `Holds` say what a boot loader passes:
well-formed tags of any types, and an archive that was made of some files
(`EnvironmentAssumption`).

`Boot` puts them together.  `step` is the place in `boot()` and `info` what it
gathered; each subsystem's initialisation is an action that goes on or panics.
`cpu` is the register file and the stack, `where` says whether the processor is in a
program, in an entry's handler, behind the dispatch, or about to return; `saved` is
the stub's one `cpu_state`, `gates`, `base`, `inService` and `handlers` are the IDT,
the controllers and the table of handlers, `states` and `current` the saved states
of the two processes of boot and `current_process`.  `Take` is a line that is
raised, `Fault` an exception, `irq_handler`, `isr_handler`,
`call_interrupt_handler`, `pit_handler` and `Return` the way through the kernel and
back, `process_yield` the way out without an interrupt.  `entered` (the processor
when it was interrupted) and `kept` (a process's registers when it stopped) are
history.  `repaired` says which of two functions that end every boot, `usleep`
and `create_heap`, work: `{}` is the code, and the other values are what lets the
model go beyond them.

### Console and Terminal

The screen is one value (`Screen`) and every function of `console.c` a function from
a screen to a screen (`console_write_char`, `console_scroll`, `console_clear`, ...),
as they call each other; the actions are calls from outside.  `printk` and
`console_write_line` print a character per step.  The frame buffer has a second screen behind the visible
one, because the byte counts of `console_scroll` and `console_clear` reach into it:
what lies there may be scrolled in.  `copies = "actual"` is the `kmemory_copy` of this
commit, which scrolling does not survive; "exact" is one that copies what it is told.

`Terminal` is the abstraction: rows of cells, a cursor, an origin; it writes, wraps,
scrolls by a row, clears.  `IsTerminal` is the refinement, with the rows cut out of
the buffer.

### KList

The machine `s` holds nodes, what was freed, the list, a tail of it, and how the
last call ended.  Each function of `klist.c` is a function from machine to machine
(`AppendAll`, `Prepended`, `Inserted`, `Updated`, `Popped`, `Shrunk`, `Removed`, `TailOf`,
`Freed`), `Outcome` giving the place of its checks, its assertions (`debug`) and the
pointers it follows.  `model` is the sequence that `klist.h` describes, `exact`
whether every call so far was one that the code gets right; which calls those are
is the third argument of `Call`.  It is sharp: with any one of its conditions
replaced by TRUE, TLC refutes `ContentsAsDocumented`.

### The library

`KMemory` gives what the loops of fill, compare and copy do in words of
`SizeMax + 1` values; `kmemory_copy` is a machine with a turn of a loop per step
(`CopyStep`), since the question is where it stops.  `KString` has the string
functions on buffers with offsets, `KFormat` the parser of `kstring_vformat` character
by character, with arguments counted in words and output in characters.  `Libk`
makes one call per behaviour, with inputs from small sets - except for
`format_number`, whose static buffer remembers earlier calls and which is therefore
called again and again.

### KSortedArray and Symbols

`ksorted_array_create` asks for `sizeof` of a pointer, so that a structure and its
elements are `gap` words apart where they should be five; `KSortedArray` works on the
memory the two share (`Create`, `Add`, `Get`, `Sound`).  `Symbols` reads a file line by
line through the parser of `load_symbol_table` (`Turn` per character), adds to the
array, and then searches.

### Abstractions

* `Sched`, `Frames` and `Boot` use the memory primitives and `kmalloc` by contract: a
  copy copies, a fill fills, an allocation is fresh or panics.  The primitives
  themselves are in `Libk`, where the copy is shown never to stop at its count.  What
  is shown about the scheduler is shown of a kernel whose copy works; `Console` and
  `KSortedArray` model both.
* `Sched` has no stacks and no registers; these are in `Boot`, where in turn the pick
  of the next process is left open, as is the tick in which the sched event is due.
* `process->blocked` is never set, so the scan of a queue stops at once.
* Page directories: every process has the kernel's.
* The rw and user bits of a page, the physical copy of the directory, and a
  second directory: the kernel has one.
* All of `Frames` runs with interrupts off, between the SAVE_ and
  RESTORE_INTERRUPT_STATE of its callers: the early returns of `frame_alloc`,
  `frame_free` and `page_get` that forget to restore have no effect there.
* `printk` inside the critical sections of other modules touches none of their state.
* In `Timer`, a callback that itself enables interrupts (and nests ticks) is left
  out; no callback in the kernel does.
* In `Console` a cell is its character; colours are kept for the foreground only.
  Interrupts are off for the whole of every call, so calls do not interleave.
* The characters of names, files and formats are few, and outputs of a format are
  counted, not spelled.

## 3. Runs

| Run | Question | Result |
|---|---|---|
| `sched` | the safety properties and the refinement of `RoundRobin` | hold |
| `sched_live` | is every member of the top queue served? | holds |
| `sched_yield` | does `process_yield` return? (`process.h`) | violated |
| `timer` | chain, head, periods, recurrence | hold |
| `frames` | identity map, exclusive frames, pages of the heap | hold |
| `boot` | are lines served, contexts resumed, memory and files found? | hold |
| `boot_sleep` | does a sleep end? (`sleep.h`) | violated |
| `console` | is the console a terminal, and does it stay in its window? | hold |
| `klist` | when is a list the documented sequence, and does it ever reach freed memory? | hold |
| `libk` | what do fill, compare, strings, numbers and formats do at their limits? | hold |
| `memory_copy` | does a copy stay inside its destination? (`kmemory.h`) | violated |
| `symbols` | is the table kept in order, and what do searches answer? | hold |

### Bounds

`sched` has four process structures, two more than boot uses, so that two
processes can be spawned into one queue, into another queue, or into an empty
one, by different spawners.  Three priorities (`PROCESS_PRIORITY_LOW` in the
middle, as in the code, where there are four) are enough for a queue above and
one below; a fourth, invalid, value takes the early return.  Processes are
interchangeable and symmetric.  Deadlock is not checked there because a wild
jump with interrupts off, in a system that has not faulted, is a place where
the CPU really stays.  In `sched_live` there is no symmetry, and priorities are
those at and above kernel_main's: the property is about the highest queue.

`timer` has three events: the head stays near the end of the list, so two events
are fine and the third is the first that can cut one off.  A word of 36 stands
for 2^32 and a tick of 10 for 10 ms, with periods 0 (due at once), 25 (due at
the third tick) and 35 (the longest, so long that elapsed time wraps and it is
never due).  `since` is capped at the word.

`frames` has an address space of 16 pages of 32 bytes in 4 tables, and 48 frames.
With bytes of one bit and words of four, the 12 words of the bitmap get 12 bytes,
aligned to 16: 16 of the 48 bits searched are its own, 32 belong to the objects
behind it.  So the identity map crosses tables that it has to allocate itself,
the heap (four pages at first, one of them its list) grows to the end of the
address space, shrinks below its initial size, grows again, and uses up the own
frames, after which frame 0 and foreign bits are handed out.  The contraction
stops at one page, so that the page it leaves out is freed or kept on both sides
of the initial size.  Deadlock is not checked: a panic stops the system.

`boot` scales addresses to 4096, pages to 64 and the heap to 256 bytes, with the
kernel from 256 to 420.  Its environments are the usual machine, two memory maps,
memory in two regions with the module in either, memory that is too small or in
pieces (the heap's search panics or runs off its list), memory from the first page on,
missing tags and one of another type; archives of up to three files, the symbol file
first, second or absent, one file of several blocks, one of a whole block, one empty, with
and without a terminator in the size - an empty first file with a terminator makes the offset
begin anew, which happens to find the second.  An archive block has 64 bytes and a word 2^16
values.  The lines are the timer, another of the master, and the first-but-one and last of
the slave; the exceptions one without a code (0), one with (14), and 30, where entry and
processor disagree.
`MaxTaken = 3` interrupts reach a switch by the timer on top of a switch on top of
the first, and an exception in a handler; those that only wake a sleep do not
count.  `MaxStack = 8` words hold two switches with what they leave behind, `MaxWork
= 2` lets both processes change their registers.  Deadlock is not checked: a reset,
a wild jump and the bounds stop the machine.

`console` has a screen of 3 lines by 2 columns with tab stops of 2: every character
can wrap and every wrap on the last line scrolls.  The codes are one that is shown,
LF, TAB, BS and BEL.  The origins are none, one above the last line, and one with a
margin to the left; the levels are one suppressed in release builds (0), one without
a colour, which panics, and the highest.  Deadlock is not checked: a panic or a
scroll with the actual copy stops the machine.

`klist` allocates up to 4 nodes and 3 objects: a list of four has two inner elements,
where the off-by-one of the index shows, and a tail can be made, its list be changed
and both be freed.

`libk` counts in words of 32 values, a byte has two.  Fills go to 150 bytes at every
alignment, more than twice the 64 after which the remainder of the eight-byte loop
repeats.  Strings have up to 3 characters of three codes; numbers are
formatted in bases 2, 10 and 16 into a buffer of 6, in any order.  Formats are every
sequence of up to two of 24 directives, which include each flag, width, precision,
`*`, length modifier and conversion, into outputs of 1 to 6 characters.  Deadlock is
not checked: a behaviour is one call.

`symbols` reads up to 4 of nine lines, good and bad, into a table for 3 symbols,
with each of the four gaps that alignment can produce; addresses have two digits.

### What the violations show

* `YieldReturns`: see *Sched* above.  In that run the specification is fair: the
  yielding thread is dispatched, and still never comes back.
* `CopyStaysInside`: the alignment loop takes two off the count for each byte and
  leaves it at the largest `size_t`; a copy of zero bytes writes, too.
* `SleepEnds`: `usleep` waits with `wait_for_interrupt`, a loop that nothing leaves.
  The specification is fair and the interrupts do come.  `cpu_init` sleeps to measure
  the clock, so boot stops there.  With `usleep` in `repaired` the property holds.

Other statements of the sources are formulas in the modules that no configuration
lists, because what they refute is close to one of the above or simple to see.  Each
can be named as an INVARIANT or PROPERTY of the `.cfg` given, and TLC finds its
counterexample at once (`KmallocAfterHeap` with `ListAllocated = FALSE`).

| Formula | Claim | Why it fails | With |
|---|---|---|---|
| `CurrentIsRunning` | `process.h:73` | spawning into an empty queue makes the new process current while the spawner still runs; the next switch saves the spawner's registers in the new process, whose entry point is lost.  `NoThreadDuplicated` holds only as long as boot's queues alone are used, and is so stated | `MCSched.cfg` |
| `InterruptStateRestored` | `kernel.h:37` | the early return of `process_spawn` leaves interrupts off.  For valid priorities the flag does come back (`ValidSpawnRestores`, checked and proved) | `MCSched.cfg` |
| `PanicIsFinal` | `panic.h:30` | the halt loop enables interrupts and the timer preempts it | `MCSched.cfg` |
| `PeriodKept` | `timer.h:29` | `elapsed_time` is reset after the callback returns, which `process_switch` does not | `MCTimer.cfg` |
| `KmallocAfterHeap` | `kmalloc.h:39` | `true`, passed as the flags of `ksorted_array_place`, selects a dynamic array, so creating the heap calls `kmalloc`, which panics | `MCFrames.cfg` |
| `MappedUpToHeapAddress` | `paging.c:204` | the tables of the heap's region are made after the identity map.  `MapCoversItsTables` is what does hold | `MCFrames.cfg` |
| `ZeroFrameMeansFreed` | `paging.c:115` | out of frames, `frame_alloc` hands out frame 0 | `MCFrames.cfg` |
| `NumbersRight` | `kstring.h:40` | the static buffer of `format_number` keeps the digits of longer numbers before | `MCLibk.cfg` |

### What the passing properties leave out

A property that holds of code with faults names the case it excludes.  In
`ResumesIntact` the stack of a process that is switched to is another's, EAX is lost,
and as the stubs are assembled nothing returns; in `LinesServed` a panic before the
gates resets the machine; `HeapPlaced` excludes regions that begin above 32 bits, an
address in the first page, which is not aligned, and kernels whose modules or static
allocations end in another region; `RamdiskRead` gives the wrong size that a terminated
field is read as, and says no more of the files behind it; `IsTerminal` needs a working copy and no left margin;
`ContentsAsDocumented` lists the calls that are wrong; `FillExtent` bounds how far a
fill is off; `NumbersParseBack` speaks of a number at least as long as those before it;
`TableKept` and `SearchesRight` say what is left of a table that overlaps itself and of
searches that expect the other order.

### Fairness

`Sched`: weak fairness of each step of the code being executed, since the CPU
executes it; of `Preempt`, since the PIT keeps ticking and each tick is
acknowledged before its handler runs (`irq_handler`; `LinesServed` of `Boot`); of
`Yield`, since the bodies of `kernel_main` and `idle` are loops around
`process_yield`.  None of calls a body may make, and none of `Fault`.  That every
tick is a switch is what `PeriodKept` refutes, after the first 100 ms.

`Timer`: weak fairness of the code's steps; strong fairness of `Tick`, because
the interrupt controller latches a request that arrives while interrupts are
off and delivers it when they are next on.  `RaisedForever` assumes that they
are on again and again.

`Boot`: weak fairness of the steps of a handler, which nothing disables; strong
fairness of boot's own steps, which interrupts suspend again and again while it
sleeps, and of each line, for the controllers' latch.  It is used for `SleepEnds` only,
which is refuted although all of this is granted.

## 4. Proofs

### Induction and recursion

The models walk lists, repeat loops and take digits off numbers with recursive functions.
The provers cannot instantiate the library's theorems on recursion and induction, which take
an operator; `Induction` restates what is needed for sets and functions.  Finite sets are
well founded under inclusion (a theorem of the library), so a set of numbers has a least
member (`Least`), so a set that contains 0 and every successor is all of Nat (`Induct`).  With
that, a function defined by repeating a step (`Repetition`, `Repeated`), from place to place
(`Unfolding`) or from a smaller number (`Descent`) exists, and a walk is determined by its
start (`WalkUnique`).  A recursive function is a CHOOSE of one that satisfies its equation:
existence is all that is needed to use the equation.

### The scheduler

`SchedProofs` proves, for any finite or infinite set of process structures and
any number of priorities, the invariant

    IInv == TypeOK /\ RingInv /\ OneQueue /\ JobInv /\ SpawnInv

`RingInv` is not inductive alone.  A ring is defined without recursion: a set
closed under `next` of which no proper non-empty part is closed.  Between
`LinkNext` and `LinkPrev` the new process already points into the ring;
`JobInv` says that it is in no queue yet and where it points, and that the id
counter is ahead.  `OneQueue` keeps a store in one ring out of the others, and
`SpawnInv` (the critical section is never interrupted or saved) is what makes
the intermediate shapes invisible to `ProcessSwitch`.  From `IInv` follow
`TypeCorrect`, `RingsIntact`, `QueuesDisjoint`, `SpawnAtomic`, `IdsUnique` and,
as an action property, `SpawnRestoresInterrupts`.  Two more invariants are laid
on it: `BootInv` (what has been spawned at each stage of boot) gives
`SwitchNeverReturns`; `ThreadInv` (which thread each context belongs to while
only the boot queues are used) gives `ThreadsDistinct`.

`RingsAreQueues` is the refinement, `Spec => ImplementsRoundRobin`.  It needs one invariant
more, `OrderInv`: the walk from the process behind `last` lists every process of the ring
once, and while the new process is linked but `last` not yet moved, it is the one behind
`last`.  `RingInv` says which processes are in a ring and that it is closed; that such a
ring has an order, and only one, is what the mapping rests on (`OrderAsSeq`).  A store then
does one of three things to the order: nothing (`QueuesLeftAlone`), a new process comes
first (`OrderInsert`, which the mapping hides until `last` moves on, and then shows last), or
`last` moves on and the order turns (`OrderRotate`).  So each step of `Sched` is an
`Enqueue`, a `Dispatch` of the highest queue that is not empty, or a stutter.

### Timer

`TimerProofs` proves

    Inv == TypeOK /\ ChainInv /\ LastTwoListed /\ CursorInv /\ ElapsedInv

`ElapsedInv` relates `elapsed_time` to true time: it is at most a tick ahead for
an event already visited in this tick, and not ahead for one that is not.  It
gives `PeriodRespected`, `NeverEarly` for every period, tick and number of
events.  `CursorInv` is what lets a callback append while a traversal is under way.

### Frames

`FramesProofs` proves, for every memory size, page and table size, alignment and
placement of the heap,

    IInv == TypeOK /\ AddrInv /\ StartInv /\ LoopInv /\ IdentityInv
            /\ ResizeInv /\ BackedInv /\ ExclusiveInv

`LoopInv` is the heart of `IdentityMapCorrect`: at page `i` of the loop the bits
set are exactly those below `i`, so that the first clear one is `i` itself
(`FirstFreeIsLeast`) although `frame_alloc` is never told the page's number.  The
theorem is limited to the bits that were cleared, `identity <= Words * ByteBits`;
beyond them the code gives no guarantee.  `AddrInv` (every table is below
`heap_addr`) and the loop's exit condition give `MapCoversTables`.
`FramesHaveOneOwner` is stated for a bitmap with at most `PageSize` bits of its own
(`SmallMemory`; a quarter of the bits are its own, so this is a machine of about
64 MiB), where the bit that `frame_free` clears by mistake is always that of
frame 0.
`HeapPagesBacked` rests on `BackedInv`: a page that still has a frame is present,
which is why `heap_expand` may skip it.

### Console

`ConsoleProofs` proves, for every size of the screen, tab and set of characters, texts
and origins,

    IInv == TypeOK /\ WritesInWindow /\ CallInv

As the code's functions call each other, so do the lemmas: one for each function says
that it takes a screen of the right shape to one (`UpdateIsMade`, `ScrollIsMade`,
`ClearIsMade`, `TypedIsMade`, `WrappedIsMade`, `WriteCharIsMade`), the cursor one line
too far being allowed between them.  `CallInv` says what a call under way remembers
and that interrupts are off in it.  From `IInv` follow `TypeCorrect`, `WindowKept` and
`CallsRestore`.

The second part of the module proves the refinement, `ConsoleIsTerminal`.  The buffer is cut into rows
(`ScrolledCell` and `ClearedCell` say what happens to one cell, `ScrollRows` and `ClearRows`
to the rows, and there the cells beyond the screen turn out to be overwritten by the
blank line); `WriteCharLands` follows a character through being typed, wrapped
and scrolled, and `StepShows` maps every step of `Console` to a step of `Terminal` or to a
stutter.

### Lists

`KListProofs` proves `TypeOK`, `NothingFreedIsListed` and `ContentsAsDocumented` for any
number of nodes and objects and both builds (`ListTypeCorrect`, `ListNeverDangles`,
`ListAsDocumented`), from `ListInv`.  Its core is `Listing`: there is a sequence of
different nodes, none of them freed, that starts at the head, follows the successors and
ends at NULL - and no node that is not freed points into it except from the node before.
The last clause is the one that makes it inductive: a call takes a node out of a list by
changing the successor of the node before it, and frees it; if another node that is not freed
pointed there as well, whatever path leads over that node would now reach freed memory.  There is
one lemma for each way a list is changed (`ListingAppend` and the like), one for what each
loop of `klist.c` finds on a path, and one for each function, which says three things of its
result: that the machine stays `Sound` whatever happened before; that it is `Good`,
with such a path, when the call ends well; and that it `Is` the documented
sequence when this call and all before it are among those the code gets right.
`TypeOK` and `NothingFreedIsListed` hold of every call, `ContentsAsDocumented` as far as
`exact` goes.

### The library's primitives

`LibkProofs` proves the properties of `Libk` that hold, for strings and regions of every
length, any characters and byte values, any directives and any sizes, by one lemma for each
call (`FillInv` ... `FormatInv`):

* `FillKept`: `FillBounds` splits on how many units of 8, 4 and 2 bytes the loops leave, the
  rest being linear arithmetic with a quotient and a remainder.
* `ComparesDetect`: words of four digits to any base differ if a digit does
  (`DifferenceTells`), and the remainder of `kmemory_compare` covers what the words do not
  (`CompareTells`).
* `StringsAlwaysRight`: where a string ends is unique (`LengthUnique`); copies,
  concatenations, comparisons, duplicates and case conversions follow in turn (`CopyRight`,
  `ConcatenateRight`, `CompareRight`, `CaseRight`).
* `SearchMissesNothing`: at an occurrence no loop of `kstring_find_str` stops before its last
  character (`FindStrSound`), so the answer is at or before it.
* `OverrunBounded`: `Within` is the invariant of the loops of `kstring_vformat` - between
  two conversions the output is not over its end, and a conversion puts it over by one item
  less a character or by four at most.  One lemma for every kind of conversion keeps it
  (`EndArgKeeps`, `FormatNumberKeeps`, `FormatStringKeeps`, `FormatPointerKeeps`,
  `SetFlagKeeps`; all of them in `ConversionKeeps`), and `VformatKeeps` repeats them as often
  as the loops do.
* `ArgumentsAreTaken`: a format is plain if each part is an ordinary character, or a `%`,
  any flags, widths, precisions and `*`, at most one length modifier, and what ends it
  (`Plain` in `Libk`, which also says how many words a caller passes for such a part).  The
  format is laid out as its parts, each behind an offset and a sum of words (`FormatLaid`).
  The invariant `Taking` of the loops says where the call stands: before part `j` with the
  words of the parts before it, or at place `m` of a conversion with a word more for every
  `*` behind it and a width of two words exactly if a `j` or `q` is (`InPart`).
  `TextTaken`, `InsideTaken` and `EndTaken` keep it turn by turn - digits never run out of
  their conversion (`DigitsWithin`), a letter is not doubled (`ModifierTells`) - and every turn
  moves on (`Moved`), so that the walk of `Vformat` is long enough to end (`VformatTakes`).
* `NumbersAreKept`: the digits that are taken off a number make it up again (`DigitsMakeUp`,
  by induction over its quotients), each is written as a character that is read as itself
  (`DigitCharIs`), and so what is written in order is parsed to the number
  (`ParsesBack`).  Whether they are in order depends on what stands behind them, as
  `kstring_reverse` looks for the last character (`FormatUintIs`); for the static buffer of
  `format_number` that takes an invariant, `Untouched`: behind the longest number so far
  there are terminators.  The numbers are those that fit into the buffer together with a sign,
  in a base that digits and letters suffice for (`NumbersFit`).

### Boot

`BootProofs` proves `LinesServed` (`LinesAreServed`) for any boot loader, any lines and
exceptions and any number of interrupts, from

    IInv == EarlyInv /\ LateInv /\ ServiceInv /\ SavedInv /\ ResetInv

`EarlyInv` says that nothing can interrupt boot before the controllers are programmed,
unless it panicked at once, and that there are no gates then; `LateInv` that afterwards
every number has its gate.  `ServiceInv` is exact: as the source is written, a line is in
service from the interrupt to its handler, in `irq_handler`, and nothing else is
(`LineEnds`: telling slave and master ends what taking the line began).  `SavedInv` is what
the entry stored of the interrupt, before the handler reads it.

The second part of the module proves `ResumesIntact` (`ContextsResume`) on top of it, for any programs and
any order of interrupts and switches, from

    ResumeInv == WordsInv /\ FlatInv /\ TrapInv /\ KeptInv

`WordsInv` gives registers and stack their shape, with a set of words that is closed under
everything the kernel stores.  `FlatInv`: once the tables are loaded the data segments are
the kernel's; without it the SS that the prologue stores in the slot of GS would come back
as another GS.  `TrapInv` is what the way through the kernel leaves alone - the saved
state is that of the interrupted program, the stack is that program's with the argument on
top - and that no handler of an exception gets as far as the dispatch as the source is
written; it is why one global `cpu_state` is enough although a panic's halt loop is
interrupted again.  `KeptInv`: the state of a process that was stopped has the registers it
was stopped with.  `ReturnResumes` also shows that, as assembled, `iret` never loads CS with
a selector of code, so that no handler returns.

The third part proves `HeapPlaced` (`HeapIsPlaced`) and `RamdiskRead` (`RamdiskIsRead`) for
any tags, files and sizes of pages, blocks and words.  Boot gathers a piece at a time and is
interrupted while it sleeps; `InfoInv` says that at each place in `boot()` what it has is
what the tags and the archive give (`InfoInvHolds`: `BootGathers` for its own steps,
`OthersStay` for everything else).  What they give is then a matter of the operators:

* The memory map (`MemoryMapIs`): the list grows by the entries of one tag at a time and has
  as many nodes as there were entries (`ListsOn`).
* The heap: `MAKE_ALIGNED` and `static_alloc` never go back (`MovesOn`, `AllocatedOn`), so the
  static end is behind the kernel and every module (`StaticBehind`, `ModulesEndIs`); a region
  in which the heap fits has room for it behind its beginning and, if the static end is in it,
  behind that (`RegionHolds`).
* The modules: the k-th module tag is the k-th node (`SavesOn`, `SavedModulesIs`).
* The files: octal digits make up the size, as far as a word holds it (`SizeIs`), and a
  terminator counts as one more digit (`OctalEnds`); header, data and padding lead to the
  next header (`PaddedIs`, `HeadersAre`), so that the walk is at the i-th header after i files
  (`WalkFinds`) and in any case begins with the first (`FirstFound`).

### The symbol table

The last part of `BootProofs` proves `TableKept` (`SymbolsKept`) and `SearchesRight`
(`SymbolsFound`), for files of any lines and any number of them, from `SymbolsInv`: while
the file is read and when it was, the machine is `Good`.  That is `Laid` - for each of the
four gaps, what lies in the memory that structure and elements share after so many symbols -
and `Strict`: the symbols ascend.  The invariant is about both because the outcome of an
insertion depends on where `count`, `capacity` and the predicate were overwritten: an
element in front of another is lost in the copy that does not stop, so only ascending
symbols get past `ksorted_array_add`, and with a gap under five the predicate or the
capacity is gone after one or two (`Added`, by the place that the search loop stops at,
`PlaceIs`).  A line is then so many turns of the loop (`TurnKeeps`, `LineKeeps`), and a search
takes the first of what can be visited (`Visited`, `SearchFinds`).

Assumptions are the named ones on the constants only: `SchedAssumption`,
`TimerAssumption`, `FramesAssumption`, `ConsoleAssumption`, `KMemoryAssumption`,
`LibkAssumption`, `NumbersFit`, `BootAssumption`, `BootInfoAssumption`,
`EnvironmentAssumption`, `SymbolsAssumption`, `KListAssumption`.
`EnvironmentAssumption` asks of the boot loader what multiboot2 promises - tags of the
documented shapes, regions that are not empty and do not pass 2^64 - and of the archive that
it fits into memory and has a header for each file.  `NumbersFit` leaves out numbers that fill
all of the 64 digits of `NUMBER_MAX`, which in base 2 have no room for a sign.

### Only model-checked

The liveness properties (`TopQueueServed`, `RaisedForever`), which rest on
fairness.  Every invariant and action property of a passing run is proved.  No formula
uses ENABLED.

## 5. Divergences that no run states as a claim

What was met while translating and is in the models, but is refuted by no run of its
own.

* Stubs (`isr_irq_stub.S`): `push cpu_state` pushes the saved EAX as the handler's
  argument; `push dword [x]` has a displacement of 4, so that `iret` loads CS with a data
  selector and faults; SS goes into the slot of GS; ESP and SS are neither stored nor
  loaded; EAX is lost in the epilogue; every switch leaves at least two words on the
  stack; the entry of vector 30 expects no error code and the processor pushes one.
* Boot: a panic before `idt_init` resets the machine; the `process_yield` at its end must
  not return, or boot panics; the limit of the TSS descriptor is base plus size;
  `pit_init(0)` returns with interrupts off; with a working wait one tick may still be
  shorter than the sleep asked for.
* Memory: `get_heap_region` follows NULL when no region fits; addresses of 4 GiB and more
  are cut to 32 bits; the heap may lie over the kernel when the boot modules lie in another
  region (`heap.c:119`); `save_boot_modules` allocates one node more than it fills.
* Ramdisk: the terminator of an octal size counts as a digit, `8n - 48`, and the offset that
  results may wrap at 32 bits;
  `initrd_get_file_by_name` compares hashes only and returns with interrupts off.
* Console: scrolling with a left margin blanks only what is right of it but moves whole
  lines; `console_write_line` leaves the VGA cursor where the line ended.
* Lists: the calls that `ContentsAsDocumented` excludes; in debug builds nothing can be
  freed, since the assertions want a list that is not dynamic.
* Library: `kmemory_compare` reads up to three bytes behind; `kstring_find_str` skips the
  first place and mistakes the last character; `kstring_vformat` writes one item past its
  output; a doubled length modifier takes one word too few; the 8-byte pattern of
  `kmemory_fill8` is kept in a `uint32_t`.
* Symbols: the comment says descending, the array is ascending, so `get_symbol_name`
  answers the lowest symbol; lower-case hexadecimal digits count from `'A'`; the empty line
  that ends the table is recognised as the first line only; neither the buffer for the
  address nor that for the name is checked.
* Scheduler: the scan has no ageing; the supervisor test (`process.c:96`) is true for
  every set of flags.

## 6. Not modelled

* The blocks of the heap (`heap.c`, the rest).  No execution of this commit reaches them:
  `create_heap` panics, and a heap that were created would call `kmemory_copy`, which never
  stops, at its first insertion.  Read only: `get_smallest_hole` ignores
  `BLOCK_FLAGS_AVAILABLE`; `IS_PAGE_ALIGNED` is false for every address from 4096 on;
  `place_footer` scales the size by the size of a header; `alloc_size - block_size` is
  unsigned.  A model of it would be one of a heap that somebody else would write.
* `ksorted_array_delete` and `_remove`: no caller is reached.
* `kstring_find_char`; the characters that `kstring_vformat` produces.
* The tick arithmetic of `usleep`, behind a wait that does not return.
* Programming of the PIC and the PIT, the contents of the GDT, IDT and TSS beyond what they
  do to segment registers and gates: port and table writes executed once.
* The vendor, brand and feature strings of `cpuid.c`, dumps of registers, stacks and
  symbols, `power.c`: output and port I/O.
