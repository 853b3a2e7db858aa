------------------------------ MODULE BootProofs ------------------------------
(***************************************************************************)
(* That interrupts are served and that only a panic before there are gates *)
(* resets the machine, for all boot loaders, lines and exceptions; that    *)
(* what an interrupt or a switch stops goes on as it was; that boot finds  *)
(* the memory, the modules and the files that it was passed; and that the  *)
(* symbol table keeps what it read and finds what it keeps.                *)
(***************************************************************************)
EXTENDS Boot, Symbols, Induction, TLAPS

Early == {"environment", "tables", "controllers"}

\* Until the controllers are programmed nothing can interrupt boot, unless it
\* panicked at once, and then there are no gates.
EarlyInv ==
  step \in Early =>
    /\ where = "program"
    /\ gates = IF step = "controllers" THEN Gates ELSE {}
    /\ panicked  => step = "environment" /\ cpu.reg["eip"] = HALT
    /\ ~panicked => /\ cpu = [reg |-> cpu.reg, stack |-> cpu.stack]
                    /\ cpu.reg = [r \in Registers |-> cpu.reg[r]]
                    /\ cpu.reg["eip"] = Entry("boot") /\ cpu.reg["eflags"] = OFF

\* From then on every line and every exception has its gate.
LateInv == step \notin Early => gates = Gates /\ base = 32

\* A line is in service from the interrupt to its handler, and never longer.
ServiceInv ==
  (status = "on" /\ reading = "written") =>
    inService = IF where = "handler" /\ stub = "irq" THEN {line, MasterLine(line)} ELSE {}

\* What an entry found when it stored the state.
SavedInv ==
  (status = "on" /\ where = "handler") =>
    /\ stub = "irq" => line \in Lines /\ saved["interrupt"] = <<"number", 32 + line>>
    /\ stub = "isr" => \/ saved["interrupt"] = <<"number", 30>>
                       \/ saved["eip"] = entered.reg["eip"]

ResetInv == status = "reset" => gates = {} /\ panicked

IInv == EarlyInv /\ LateInv /\ ServiceInv /\ SavedInv /\ ResetInv
-----------------------------------------------------------------------------
(* The registers that boot's places and flags are kept in are registers    *)
(* (state.h: struct cpu_state).                                            *)
LEMMA Names ==
  /\ {"eip", "eflags", "cs"} \subseteq Registers
  /\ {"interrupt", "eip"} \subseteq Slots
<1>1. /\ Layout[15] = "eip" /\ Layout[16] = "eflags" /\ Layout[9] = "cs" /\ Layout[21] = "interrupt"
      /\ {9, 15, 16, 21} \subseteq DOMAIN Layout
  BY DEF Layout
<1>2. {"eip", "eflags", "cs", "interrupt"} \subseteq Slots
  BY <1>1 DEF Slots, ToSet
<1> QED
  BY <1>2 DEF Registers

(* Ending the interrupt of a line ends the line and the master's, and      *)
(* nothing is left in service (pic.c: send_eoi).                           *)
LEMMA LineEnds ==
  ASSUME NEW l \in 0 .. 15
  PROVE  EndOfInterrupt({l, MasterLine(l)}, 32 + l) = {}
<1>1. CASE l > 7
  <2>1. {l, MasterLine(l)} = {l, 2} /\ {x \in {l, 2} : x > 7} = {l} /\ {l, 2} \ {l} = {2}
    BY <1>1 DEF MasterLine
  <2>2. First({2}) = {2} /\ First({l}) = {l}
    BY DEF First
  <2>3. 32 + l >= 40
    BY <1>1
  <2> QED
    BY <2>1, <2>2, <2>3 DEF EndOfInterrupt
<1>2. CASE ~(l > 7)
  <2>1. {l, MasterLine(l)} = {l} /\ {x \in {l} : x > 7} = {} /\ {l} \ {} = {l}
    BY <1>2 DEF MasterLine
  <2>2. First({l}) = {l}
    BY DEF First
  <2>3. ~(32 + l >= 40)
    BY <1>2
  <2> QED
    BY <2>1, <2>2, <2>3 DEF EndOfInterrupt
<1> QED
  BY <1>1, <1>2

(* What entering a handler leaves: the number of the interrupt and, unless *)
(* it is 30, the place that was interrupted (isr_irq_stub.S:38-75).        *)
LEMMA EnterStores ==
  ASSUME NEW n \in Nat, NEW kind, NEW reg, NEW stack, Enter(n, kind, reg, stack)
  PROVE  /\ where' = "handler" /\ stub' = kind
         /\ saved'["interrupt"] = <<"number", n>>
         /\ n # 30 => saved'["eip"] = entered'.reg["eip"]
         /\ UNCHANGED <<given, step, info, gates, base, panicked>>
<1> DEFINE code == <<"error", n>>
           pushed == [interrupt |-> <<"number", n>>, error_code |-> ZERO,
                      eip |-> reg["eip"], cs |-> reg["cs"], eflags |-> reg["eflags"]]
           shifted == [pushed EXCEPT !.eip = code, !.cs = reg["eip"], !.eflags = reg["cs"]]
           odd == n \in ErrorPushed \ ErrorEntries
           frame == IF odd THEN shifted
                    ELSE IF n \in ErrorEntries THEN [pushed EXCEPT !.error_code = code] ELSE pushed
<1>1. saved' = Prologue(reg, frame, saved)
  BY DEF Enter
<1>2. entered'.reg = reg
  BY DEF Enter
<1>3. odd => n = 30
  BY DEF ErrorPushed, ErrorEntries
<1>4. frame["interrupt"] = <<"number", n>> /\ (n # 30 => frame["eip"] = reg["eip"])
  BY <1>3
<1> HIDE DEF frame
<1>5. saved'["interrupt"] = frame["interrupt"] /\ saved'["eip"] = frame["eip"]
  BY <1>1, Names DEF Prologue
<1> QED
  BY <1>2, <1>4, <1>5 DEF Enter, given, set_up, processes

(* A panic leaves the processor in the halt loop with interrupts enabled   *)
(* and changes nothing that was set up (panic.c, kernel.h: hang).          *)
LEMMA PanicKeeps ==
  ASSUME Panicked, UNCHANGED <<step, inService>>,
         EarlyInv, LateInv, ResetInv,
         step \in Early => step = "environment" /\ ~panicked,
         status = "on",
         reading = "written" => inService = {}
  PROVE  IInv'
<1>1. /\ panicked' /\ where' = "program" /\ cpu' = [cpu EXCEPT !.reg = cpu'.reg]
      /\ UNCHANGED <<gates, base, status, step, inService, reading>>
  BY DEF Panicked, given, set_up
<1>2. step \in Early => cpu'.reg["eip"] = HALT
  <2> SUFFICES ASSUME step \in Early PROVE cpu'.reg["eip"] = HALT
    OBVIOUS
  <2>1. /\ cpu = [reg |-> cpu.reg, stack |-> cpu.stack]
        /\ cpu.reg = [r \in Registers |-> cpu.reg[r]]
    BY DEF EarlyInv
  <2>2. cpu' = [cpu EXCEPT !.reg = [cpu.reg EXCEPT !["eip"] = HALT, !["eflags"] = ON]]
    BY DEF Panicked
  <2>3. cpu'.reg = [cpu.reg EXCEPT !["eip"] = HALT, !["eflags"] = ON]
    BY <2>1, <2>2
  <2> QED
    BY <2>1, <2>3, Names
<1>3. EarlyInv'
  BY <1>1, <1>2 DEF EarlyInv, Early
<1>4. LateInv' /\ ResetInv'
  BY <1>1 DEF LateInv, ResetInv
<1>5. ServiceInv' /\ SavedInv'
  BY <1>1 DEF ServiceInv, SavedInv
<1> QED
  BY <1>3, <1>4, <1>5 DEF IInv

(* Boot's own steps.                                                       *)
LEMMA BootStepKeeps ==
  ASSUME IInv, BootStep PROVE IInv'
<1>0. Program
  BY DEF BootStep, check_boot_env, init_tables, init_controllers, cpuid_init, init_hal, init_memory,
         init_boot_modules_1, init_boot_modules_2, load_initrd, init_symbol_table, start_scheduler,
         boot_returns, At, Running
<1>1. status = "on" /\ where = "program" /\ (reading = "written" => inService = {})
  BY <1>0 DEF Program, IInv, ServiceInv
<1>2. Running("boot") /\ step \in Early => ~panicked
  BY DEF IInv, EarlyInv, Running, HALT
<1>3. CASE Running("boot") /\ PanicInBoot /\ (step \in Early => step = "environment")
  BY <1>1, <1>2, <1>3, PanicKeeps DEF IInv, PanicInBoot
<1>4. CASE /\ step \notin Early /\ step' \notin Early
           /\ where' = where
           /\ UNCHANGED <<gates, base, inService, reading, saved, entered, stub, line, panicked>>
           /\ status' \in {status, "wild"}
  BY <1>1, <1>4 DEF IInv, EarlyInv, LateInv, ServiceInv, SavedInv, ResetInv
<1>5. CASE check_boot_env /\ ~PanicInBoot
  <2>1. /\ step = "environment" /\ step' = "tables"
        /\ UNCHANGED <<cpu, where, gates, base, inService, reading, panicked, status>>
    BY <1>5 DEF check_boot_env, Gathers, given, set_up, interrupt
  <2> QED
    BY <1>1, <1>2, <1>5, <2>1
       DEF check_boot_env, IInv, EarlyInv, LateInv, ServiceInv, SavedInv, ResetInv, Early
<1>6. CASE init_tables
  <2>1. /\ step = "tables" /\ step' = "controllers" /\ gates' = Gates
        /\ UNCHANGED <<where, base, inService, reading, panicked, status, stub>>
    BY <1>6 DEF init_tables, At, given, interrupt
  <2>2. /\ ~panicked /\ cpu = [reg |-> cpu.reg, stack |-> cpu.stack]
        /\ cpu.reg["eip"] = Entry("boot") /\ cpu.reg["eflags"] = OFF
    BY <1>2, <1>6, <2>1 DEF init_tables, At, IInv, EarlyInv, Early
  <2>3. cpu' = [cpu EXCEPT !.reg = cpu'.reg]
        /\ cpu'.reg = [r \in Registers |->
             CASE r \in Segments \union {"ss"} -> DATA [] r = "cs" -> CODE [] OTHER -> cpu.reg[r]]
    BY <1>6, <2>2 DEF init_tables
  <2>4. cpu'.reg["eip"] = cpu.reg["eip"] /\ cpu'.reg["eflags"] = cpu.reg["eflags"]
    BY <2>3, Names DEF Segments
  <2>5. cpu' = [reg |-> cpu'.reg, stack |-> cpu'.stack]
        /\ cpu'.reg = [r \in Registers |-> cpu'.reg[r]]
    BY <2>2, <2>3
  <2> QED
    BY <1>1, <2>1, <2>2, <2>4, <2>5
       DEF IInv, EarlyInv, LateInv, ServiceInv, SavedInv, ResetInv, Early
<1>7. CASE init_controllers
  <2>1. /\ step = "controllers" /\ step' = "hal" /\ base' = 32
        /\ UNCHANGED <<gates, cpu, where, inService, reading, panicked, status, stub>>
    BY <1>7 DEF init_controllers, At, given, interrupt
  <2> QED
    BY <1>1, <2>1 DEF IInv, EarlyInv, LateInv, ServiceInv, SavedInv, ResetInv, Early
<1>8. CASE cpuid_init /\ ~PanicInBoot
  BY <1>4, <1>8 DEF cpuid_init, Early, given, interrupt, set_up
<1>9. CASE init_hal
  BY <1>4, <1>9 DEF init_hal, Sleeping, Early, given, interrupt, set_up
<1>10. CASE init_boot_modules_1 \/ init_boot_modules_2
  BY <1>4, <1>10 DEF init_boot_modules_1, init_boot_modules_2, At, Gathers, Early, given, interrupt, set_up
<1>11. CASE init_memory /\ ~PanicInBoot
  <2>1. \/ status' = "wild" /\ UNCHANGED <<step, interrupt, set_up, inService, given, panicked>>
        \/ step' = "modules_2" /\ UNCHANGED <<interrupt, set_up, inService, given, panicked, status>>
    BY <1>11 DEF init_memory, Gathers
  <2> QED
    BY <1>4, <1>11, <2>1 DEF init_memory, Early, given, interrupt, set_up
<1>12. CASE (load_initrd \/ init_symbol_table) /\ ~PanicInBoot
  BY <1>4, <1>12 DEF load_initrd, init_symbol_table, Gathers, Early, given, interrupt, set_up
<1>13. CASE start_scheduler
  BY <1>4, <1>13 DEF start_scheduler, At, Early, given, interrupt, set_up
<1>14. CASE PanicInBoot
  <2>1. step' = step
    BY <1>14 DEF PanicInBoot
  <2>2. check_boot_env \/ cpuid_init \/ init_memory \/ load_initrd \/ init_symbol_table \/ boot_returns
    BY <2>1 DEF BootStep, init_tables, init_controllers, init_hal, init_boot_modules_1,
                init_boot_modules_2, start_scheduler, At, Sleeping
  <2>3. Running("boot") /\ (step \in Early => step = "environment")
    BY <2>2 DEF check_boot_env, cpuid_init, init_memory, load_initrd, init_symbol_table, boot_returns, Early
  <2> QED
    BY <1>3, <1>14, <2>3
<1> QED
  BY <1>5, <1>6, <1>7, <1>8, <1>9, <1>10, <1>11, <1>12, <1>13, <1>14 DEF BootStep, boot_returns

(* An exception, or an interrupt whose line has just been put in service,  *)
(* finds its gate and leaves what its handler may rely on.                 *)
LEMMA InterruptKeeps ==
  ASSUME IInv, step \notin Early, status = "on",
         NEW n \in Gates, NEW kind \in {"isr", "irq"}, NEW reg, NEW stack,
         Interrupt(n, kind, reg, stack),
         kind = "irq" => line' \in Lines /\ n = 32 + line',
         reading = "written" =>
           inService' = IF kind = "irq" THEN {line', MasterLine(line')} ELSE {}
  PROVE  IInv'
<1>1. n \in gates
  BY DEF IInv, LateInv
<1>2. Enter(n, kind, reg, stack) /\ UNCHANGED status
  BY <1>1 DEF Interrupt
<1>3. n \in Nat
  BY DEF Gates
<1>4. /\ where' = "handler" /\ stub' = kind
      /\ saved'["interrupt"] = <<"number", n>>
      /\ n # 30 => saved'["eip"] = entered'.reg["eip"]
      /\ UNCHANGED <<step, gates, base, panicked, reading, status>>
  BY <1>2, <1>3, EnterStores DEF given
<1>5. EarlyInv' /\ LateInv' /\ ResetInv'
  BY <1>4 DEF IInv, EarlyInv, LateInv, ResetInv
<1>6. ServiceInv'
  BY <1>4 DEF ServiceInv
<1>7. SavedInv'
  BY <1>4 DEF SavedInv
<1> QED
  BY <1>5, <1>6, <1>7 DEF IInv

(* A line that is raised: its own gate, or after a panic without gates the *)
(* reset (interrupt.c, pic.c, idt.c).                                      *)
LEMMA TakeKeeps ==
  ASSUME IInv, NEW l \in Lines, Take(l) PROVE IInv'
<1>1. /\ status = "on" /\ where = "program" /\ Enabled
      /\ inService' = inService \union {l, MasterLine(l)} /\ line' = l
      /\ reading = "written" => inService = {}
  BY DEF Take, Program, IInv, ServiceInv
<1>2. CASE step \in Early
  <2>1. panicked /\ step = "environment" /\ gates = {}
    BY <1>1, <1>2 DEF IInv, EarlyInv, Enabled, ON, OFF
  <2>2. /\ status' = "reset"
        /\ UNCHANGED <<step, cpu, where, gates, base, panicked, reading>>
    BY <2>1 DEF Take, Interrupt, set_up, given
  <2> QED
    BY <2>1, <2>2 DEF IInv, EarlyInv, LateInv, ServiceInv, SavedInv, ResetInv
<1>3. CASE step \notin Early
  <2>1. base = 32
    BY <1>3 DEF IInv, LateInv
  <2>2. l \in 0 .. 15 /\ 32 + l \in Gates
    BY BootAssumption DEF Gates
  <2>3. Interrupt(32 + l, "irq", cpu.reg, cpu.stack)
    BY <2>1 DEF Take
  <2>4. reading = "written" => inService' = {l, MasterLine(l)}
    BY <1>1
  <2> QED
    BY <1>1, <1>3, <2>2, <2>3, <2>4, InterruptKeeps
<1> QED
  BY <1>2, <1>3

(* An exception: it can happen only where every exception has a gate.      *)
LEMMA FaultKeeps ==
  ASSUME IInv, NEW n \in Exceptions, Fault(n) PROVE IInv'
<1>1. step \notin Early
  BY DEF Fault, Faults, IInv, EarlyInv, Running, Program, Processes, HALT, Entry, Early
<1>2. status = "on" /\ Interrupt(n, "isr", cpu.reg, cpu.stack) /\ UNCHANGED <<inService, line>>
  BY DEF Fault, Faults, Running, Program
<1>3. n \in Gates
  BY BootAssumption DEF Gates
<1>4. reading = "written" => inService = {}
  BY DEF Fault, Faults, Running, Program, IInv, ServiceInv
<1> QED
  BY <1>1, <1>2, <1>3, <1>4, InterruptKeeps

(* The handler of a line ends its interrupt before it runs                 *)
(* (interrupt.c:106-113).                                                  *)
LEMMA HandlerKeeps ==
  ASSUME IInv, irq_handler PROVE IInv'
<1>1. /\ status = "on" /\ where = "handler" /\ stub = "irq" /\ where' = "dispatch"
      /\ number' \in Number /\ inService' = EndOfInterrupt(inService, number')
      /\ UNCHANGED <<step, gates, base, panicked, status, reading, cpu>>
  BY DEF irq_handler, Handles, given, set_up
<1>2. step \notin Early
  BY <1>1 DEF IInv, EarlyInv
<1>3. reading = "written" => inService' = {}
  <2> SUFFICES ASSUME reading = "written" PROVE inService' = {}
    OBVIOUS
  <2>1. line \in Lines /\ saved["interrupt"] = <<"number", 32 + line>>
    BY <1>1 DEF IInv, SavedInv
  <2>2. line \in 0 .. 15
    BY <2>1, BootAssumption
  <2>3. number' = 32 + line
    BY <1>1, <2>1 DEF Number
  <2>4. inService = {line, MasterLine(line)}
    BY <1>1 DEF IInv, ServiceInv
  <2> QED
    BY <1>1, <2>2, <2>3, <2>4, LineEnds
<1> QED
  BY <1>1, <1>2, <1>3 DEF IInv, EarlyInv, LateInv, ServiceInv, SavedInv, ResetInv

(* The rest of the way through the kernel, and the programs.               *)
LEMMA KernelKeeps ==
  ASSUME IInv, isr_handler \/ call_interrupt_handler \/ pit_handler \/ Return PROVE IInv'
<1>1. status = "on" /\ where # "program"
  BY DEF isr_handler, call_interrupt_handler, pit_handler, Return, Handles
<1>2. step \notin Early
  BY <1>1 DEF IInv, EarlyInv
<1>3. reading = "written" /\ ~(where = "handler" /\ stub = "irq") => inService = {}
  BY <1>1 DEF IInv, ServiceInv
<1>4. CASE /\ where' \in {"program", "dispatch", "return"}
           /\ stub = "isr" \/ where # "handler"
           /\ UNCHANGED <<step, gates, base, inService, reading, panicked>>
           /\ status' \in {status, "wild"}
  BY <1>1, <1>2, <1>3, <1>4 DEF IInv, EarlyInv, LateInv, ServiceInv, SavedInv, ResetInv
<1>5. CASE isr_handler
  <2>1. CASE Panicked
    BY <1>1, <1>2, <1>3, <1>5, <2>1, PanicKeeps DEF isr_handler, Handles, IInv
  <2>2. CASE ~Panicked
    BY <1>4, <1>5, <2>2 DEF isr_handler, Handles, given, set_up
  <2> QED
    BY <2>1, <2>2
<1>6. CASE call_interrupt_handler
  BY <1>4, <1>6 DEF call_interrupt_handler, Returns, given, set_up
<1>7. CASE pit_handler
  BY <1>4, <1>7 DEF pit_handler, Switch, given, set_up
<1>8. CASE Return
  <2>1. CASE ReturnFrame(reading, saved)["cs"] = CODE
    BY <1>4, <1>8, <2>1 DEF Return, given, set_up
  <2>2. CASE ReturnFrame(reading, saved)["cs"] # CODE
    <3>1. PICK reg, stack : Interrupt(13, "isr", reg, stack)
      BY <1>8, <2>2 DEF Return
    <3>2. where = "return" /\ inService' = inService
      BY <1>8 DEF Return
    <3>3. 13 \in Gates
      BY DEF Gates
    <3> QED
      BY <1>1, <1>2, <1>3, <3>1, <3>2, <3>3, InterruptKeeps
  <2> QED
    BY <2>1, <2>2
<1> QED
  BY <1>5, <1>6, <1>7, <1>8

(* Programs, at work or yielding.                                          *)
LEMMA ProgramKeeps ==
  ASSUME IInv, NEW p \in Processes \union {"boot"}, process_yield(p) \/ (p # "boot" /\ Work(p))
  PROVE  IInv'
<1>1. status = "on" /\ where = "program" /\ where' = "program"
      /\ UNCHANGED <<gates, base, inService, reading, panicked, status>>
  BY DEF process_yield, Work, Switch, Running, Program, given, set_up, interrupt
<1>2. step \notin Early /\ step' \notin Early
  BY DEF process_yield, Work, Running, IInv, EarlyInv, Processes, HALT, Entry, Early
<1> QED
  BY <1>1, <1>2 DEF IInv, EarlyInv, LateInv, ServiceInv, SavedInv, ResetInv

(* Boot begins without gates and with interrupts disabled (_start.S).      *)
LEMMA IInvInit == Init => IInv
<1> SUFFICES ASSUME Init PROVE IInv
  OBVIOUS
<1>1. /\ step = "environment" /\ where = "program" /\ gates = {} /\ ~panicked
      /\ status = "on" /\ inService = {} /\ stub = None
  BY DEF Init
<1>2. cpu = [reg |-> cpu.reg, stack |-> cpu.stack]
      /\ cpu.reg = [r \in Registers |-> CASE r = "eip"    -> Entry("boot")
                                          [] r = "eflags" -> OFF
                                          [] OTHER        -> <<r, "loader", 0>>]
  BY DEF Init
<1>3. cpu.reg["eip"] = Entry("boot") /\ cpu.reg["eflags"] = OFF
  BY <1>2, Names
<1>4. cpu.reg = [r \in Registers |-> cpu.reg[r]]
  BY <1>2
<1> QED
  BY <1>1, <1>2, <1>3, <1>4
     DEF IInv, EarlyInv, LateInv, ServiceInv, SavedInv, ResetInv, None, Early

(* The inductive invariant holds of every boot, on any boot loader's tags. *)
THEOREM IInvHolds == Spec => []IInv
<1>1. IInv /\ [Next]_vars => IInv'
  <2> SUFFICES ASSUME IInv, [Next]_vars PROVE IInv'
    OBVIOUS
  <2>1. CASE UNCHANGED vars
    BY <2>1 DEF vars, IInv, EarlyInv, LateInv, ServiceInv, SavedInv, ResetInv
  <2>2. CASE Next
    BY <2>2, BootStepKeeps, TakeKeeps, FaultKeeps, HandlerKeeps, KernelKeeps, ProgramKeeps
       DEF Next, Processes
  <2> QED
    BY <2>1, <2>2
<1> QED
  BY <1>1, IInvInit, PTL DEF Spec

(* No line stays in service, every line has its own gate, and nothing but  *)
(* a panic before there are gates resets the machine - for any lines,      *)
(* exceptions, boot loaders and number of interrupts.                      *)
THEOREM LinesAreServed == Spec => []LinesServed
<1>1. IInv => LinesServed
  BY DEF IInv, ServiceInv, SavedInv, ResetInv, LinesServed, Program
<1> QED
  BY <1>1, IInvHolds, PTL

-----------------------------------------------------------------------------
(***************************************************************************)
(* What an interrupt or a switch stops goes on as it was, whatever         *)
(* programs, handlers and switches come in between.                        *)
(***************************************************************************)

\* What registers and the stack hold, and the processor.
Heads ==
  Slots \union {"selector", "number", "junk", "error", "address", "halt", "iret", "boot", "main",
                "idle", "loader"}
Words == (Heads \X Nat) \union (Heads \X BOOLEAN) \union (Heads \X Heads \X Nat)
RegisterFiles == [Registers -> Words]
Processors == [reg : RegisterFiles, stack : Seq(Words)]

Flat == Segments \union {"ss"}
Resumed == General \union {"cs", "eip", "eflags"}

WordsInv ==
  /\ cpu \in Processors /\ entered \in Processors
  /\ saved \in [Slots -> Words]
  /\ states \in [Processes -> [Slots -> Words]]
  /\ kept = [p \in Processes |-> kept[p]]
  /\ current \in Processes \union {None}
  /\ work \in Nat /\ handlers \subseteq {32}

\* Once the descriptor tables are loaded, the data segments stay the kernel's.
FlatInv == gates # {} => \A r \in Flat : cpu.reg[r] = DATA

\* What the way through the kernel leaves alone.  A line is always dispatched
\* with the state that its entry stored; as the source is written, no handler
\* of an exception ever gets as far.
TrapInv ==
  where # "program" =>
    /\ stub \in {"isr", "irq"}
    /\ \A r \in Flat : entered.reg[r] = DATA
    /\ \A r \in Segments : saved[r] = DATA
    /\ stub = "isr" =>
         /\ where = "handler" => saved["interrupt"][2] \in 0 .. 31
         /\ where = "dispatch" => number >= 34
         /\ reading = "written" => where = "handler"
    /\ stub = "irq" =>
         /\ \A r \in Resumed : saved[r] = entered.reg[r]
         /\ cpu.stack = Append(entered.stack, Argument(reading, saved))
         /\ \A r \in Control \union {"ss"} : cpu.reg[r] = entered.reg[r]

KeptInv == \A p \in Processes : \A r \in Resumed : states[p][r] = kept[p][r]

ResumeInv == WordsInv /\ FlatInv /\ TrapInv /\ KeptInv
-----------------------------------------------------------------------------
(* The members of struct cpu_state (state.h).                              *)
LEMMA Members ==
  /\ Slots = {"eax", "ebx", "ecx", "edx", "esp", "ebp", "esi", "edi", "cs", "ds", "es", "fs", "gs",
              "ss", "eip", "eflags", "cr0", "cr2", "cr3", "cr4", "interrupt", "error_code"}
  /\ Registers = General \union Segments \union Control \union {"ss", "cs", "eip", "eflags"}
  /\ Behind("cs") = "ds"
<1>1. DOMAIN Layout = 1 .. 22
  BY DEF Layout
<1>2. Slots = {Layout[i] : i \in 1 .. 22}
  BY <1>1 DEF Slots, ToSet
<1>3. Slots = {"eax", "ebx", "ecx", "edx", "esp", "ebp", "esi", "edi", "cs", "ds", "es", "fs", "gs",
              "ss", "eip", "eflags", "cr0", "cr2", "cr3", "cr4", "interrupt", "error_code"}
  BY <1>2 DEF Layout
<1>4. Registers = General \union Segments \union Control \union {"ss", "cs", "eip", "eflags"}
  <2>1. \A r \in Registers : r \in General \union Segments \union Control \union {"ss", "cs", "eip", "eflags"}
    BY <1>3 DEF Registers, General, Segments, Control
  <2>2. \A r \in General \union Segments \union Control \union {"ss", "cs", "eip", "eflags"} : r \in Registers
    BY <1>3 DEF Registers, General, Segments, Control
  <2> QED
    BY <2>1, <2>2
<1>5. \A i \in 1 .. 22 : Layout[i] = "cs" <=> i = 9
  BY DEF Layout
<1>6. (CHOOSE i \in DOMAIN Layout : Layout[i] = "cs") = 9
  BY <1>1, <1>5
<1>7. Layout[10] = "ds"
  BY DEF Layout
<1>8. Behind("cs") = Layout[9 + 1]
  BY <1>6, Zenon DEF Behind
<1>9. Behind("cs") = "ds"
  BY <1>7, <1>8
<1> QED
  BY <1>3, <1>4, <1>9

(* The values that the kernel itself puts in registers and on the stack.   *)
LEMMA WordsHold ==
  /\ {DATA, CODE, ZERO, JUNK, ON, OFF, HALT, <<"address", 0>>, <<"iret", 0>>} \subseteq Words
  /\ \A p \in {"boot", "main", "idle"} : Entry(p) \in Words
  /\ \A n \in Nat : <<"number", n>> \in Words /\ <<"error", n>> \in Words
  /\ \A p \in Processes, n \in Nat : <<p, n>> \in Words
  /\ \A r \in Registers, n \in Nat : \A p \in Processes \union {"loader"} : <<r, p, n>> \in Words
<1>1. \A s \in Heads, n \in Nat : <<s, n>> \in Words
  BY DEF Words
<1>2. \A s \in Heads, b \in BOOLEAN : <<s, b>> \in Words
  BY DEF Words
<1>3. \A s, t \in Heads, n \in Nat : <<s, t, n>> \in Words
  BY DEF Words
<1>4. /\ {"eflags", "selector", "number", "junk", "error", "address", "halt", "iret",
          "boot", "main", "idle", "loader"} \subseteq Heads
      /\ Registers \subseteq Heads /\ Processes \subseteq Heads
  BY Members DEF Heads, Registers, Processes
<1>5. ON \in Words /\ OFF \in Words
  BY <1>2, <1>4 DEF ON, OFF
<1>6. {DATA, CODE, ZERO, JUNK, HALT, <<"address", 0>>, <<"iret", 0>>} \subseteq Words
  BY <1>1, <1>4 DEF DATA, CODE, ZERO, JUNK, HALT
<1>7. \A p \in {"boot", "main", "idle"} : Entry(p) \in Words
  BY <1>1, <1>4 DEF Entry
<1>8. \A n \in Nat : <<"number", n>> \in Words /\ <<"error", n>> \in Words
  BY <1>1, <1>4
<1>9. \A p \in Processes, n \in Nat : <<p, n>> \in Words
  BY <1>1, <1>4
<1>10. \A r \in Registers, n \in Nat : \A p \in Processes \union {"loader"} : <<r, p, n>> \in Words
  BY <1>3, <1>4
<1> QED
  BY <1>5, <1>6, <1>7, <1>8, <1>9, <1>10

(* What the entry stores and what it leaves to the handler                 *)
(* (isr_irq_stub.S:38-95).                                                 *)
LEMMA EnterTraps ==
  ASSUME ResumeInv,
         NEW n \in Nat, NEW kind \in {"isr", "irq"}, NEW reg \in RegisterFiles, NEW stack \in Seq(Words),
         \A r \in Flat : reg[r] = DATA,
         kind = "irq" => n >= 32,
         kind = "isr" => n < 32,
         Enter(n, kind, reg, stack)
  PROVE  ResumeInv'
<1> DEFINE code == <<"error", n>>
           pushed == [interrupt |-> <<"number", n>>, error_code |-> ZERO,
                      eip |-> reg["eip"], cs |-> reg["cs"], eflags |-> reg["eflags"]]
           shifted == [pushed EXCEPT !.eip = code, !.cs = reg["eip"], !.eflags = reg["cs"]]
           odd == n \in ErrorPushed \ ErrorEntries
           frame == IF odd THEN shifted
                    ELSE IF n \in ErrorEntries THEN [pushed EXCEPT !.error_code = code] ELSE pushed
           extra == IF odd THEN <<reg["eflags"]>> ELSE <<>>
           kernel == [InKernel(reg) EXCEPT !["eflags"] = OFF]
           arg == Argument(reading, saved')
<1>1. /\ entered' = [reg |-> reg, stack |-> stack]
      /\ saved' = Prologue(reg, frame, saved)
      /\ cpu' = [reg |-> kernel, stack |-> stack \o extra \o <<arg>>]
      /\ where' = "handler" /\ stub' = kind
      /\ UNCHANGED <<given, set_up, processes, panicked, work>>
  BY DEF Enter
<1>2. /\ {"eip", "cs", "eflags", "eax"} \subseteq Registers
      /\ \A r \in {"eip", "cs", "eflags"} : reg[r] \in Words
  BY Members DEF RegisterFiles, General
<1>3. odd => n = 30
  BY DEF ErrorPushed, ErrorEntries
<1>4. \A s \in {"interrupt", "error_code", "eip", "cs", "eflags"} : frame[s] \in Words
  <2>1. <<"number", n>> \in Words /\ code \in Words /\ ZERO \in Words
    BY WordsHold
  <2> DEFINE names == {"interrupt", "error_code", "eip", "cs", "eflags"}
  <2>2. \A s \in names : pushed[s] \in Words
    BY <1>2, <2>1
  <2>3. \A s \in names : [pushed EXCEPT !.error_code = code][s] \in Words
    BY <2>1, <2>2
  <2>4. /\ shifted.interrupt = <<"number", n>> /\ shifted.error_code = ZERO
        /\ shifted.eip = code /\ shifted.cs = reg["eip"] /\ shifted.eflags = reg["cs"]
    OBVIOUS
  <2>5. \A s \in names : shifted[s] \in Words
    BY <1>2, <2>1, <2>4
  <2> QED
    BY <2>2, <2>3, <2>5
<1>5. frame["interrupt"] = <<"number", n>>
  OBVIOUS
<1>6. n # 30 => \A s \in {"eip", "cs", "eflags"} : frame[s] = reg[s]
  BY <1>3
<1>7. extra \in Seq(Words)
  BY <1>2
<1> HIDE DEF frame
<1>8. saved' \in [Slots -> Words]
  <2>1. \A s \in Slots : s \notin {"interrupt", "error_code", "esp"} => s \in Registers
    BY Members DEF Registers
  <2>2. \A s \in Slots : saved'[s] \in Words
    <3> SUFFICES ASSUME NEW s \in Slots PROVE saved'[s] \in Words
      OBVIOUS
    <3>1. saved'[s] \in {frame[s], reg["ss"], saved[s], reg[s]}
          /\ (s \in {"interrupt", "error_code", "eip", "cs", "eflags"} => saved'[s] = frame[s])
          /\ (s = "gs" => saved'[s] = reg["ss"])
          /\ (s \in {"esp", "ss"} => saved'[s] = saved[s])
          /\ (s \notin {"interrupt", "error_code", "eip", "cs", "eflags", "gs", "esp", "ss"}
                => saved'[s] = reg[s])
      BY <1>1 DEF Prologue
    <3> QED
      BY <1>4, <2>1, <3>1, Members DEF ResumeInv, WordsInv, RegisterFiles
  <2> QED
    BY <1>1, <2>2 DEF Prologue
<1>9. arg \in Words
  BY <1>8, WordsHold, Members DEF Argument
<1>10. stack \o extra \o <<arg>> \in Seq(Words)
  <2>1. stack \o extra \in Seq(Words)
    BY <1>7
  <2> HIDE DEF extra, arg
  <2> QED
    BY <1>9, <2>1
<1>11. kernel \in RegisterFiles /\ \A r \in Flat : kernel[r] = DATA
  <2>1. InKernel(reg) \in RegisterFiles
    BY WordsHold DEF InKernel, RegisterFiles
  <2>2. \A r \in Flat : r \in Registers /\ r # "eflags" /\ InKernel(reg)[r] = DATA
    BY Members DEF InKernel, Flat, Segments
  <2> QED
    BY <2>1, <2>2, WordsHold DEF RegisterFiles
<1>12. \A r \in Control \union {"ss"} : kernel[r] = reg[r]
  <2>1. \A r \in Control \union {"ss"} : r \in Registers /\ r # "eflags" /\ r \notin Segments
    BY Members DEF Control, Segments
  <2>2. reg["ss"] = DATA
    BY DEF Flat
  <2> QED
    BY <2>1, <2>2 DEF InKernel
<1>13. WordsInv'
  BY <1>1, <1>8, <1>10, <1>11 DEF ResumeInv, WordsInv, Processors, processes, set_up
<1>14. FlatInv'
  BY <1>1, <1>11 DEF FlatInv
<1>15. KeptInv'
  BY <1>1 DEF ResumeInv, KeptInv, processes
<1>16. \A r \in Segments : saved'[r] = DATA
  <2>1. \A r \in Segments : r \in Slots /\ reg[r] = DATA /\ reg["ss"] = DATA
    BY Members DEF Segments, Flat
  <2>2. \A r \in Segments : saved'[r] \in {reg["ss"], reg[r]}
    BY <1>1, <2>1 DEF Prologue, Segments
  <2> QED
    BY <2>1, <2>2
<1>17. saved'["interrupt"] = <<"number", n>>
  BY <1>1, <1>5, Members DEF Prologue
<1>18. n # 30 => \A r \in Resumed : saved'[r] = reg[r]
  <2>1. \A r \in Resumed : r \in Slots /\ r \notin {"interrupt", "error_code", "gs", "esp", "ss"}
    BY Members DEF Resumed, General
  <2> QED
    BY <1>1, <1>6, <2>1 DEF Prologue
<1>19. n # 30 => cpu'.stack = Append(stack, arg)
  <2> SUFFICES ASSUME n # 30 PROVE cpu'.stack = Append(stack, arg)
    OBVIOUS
  <2>1. extra = <<>>
    BY <1>3
  <2>2. stack \o extra = stack
    BY <2>1, ConcatEmptySeq
  <2>3. stack \o <<arg>> = Append(stack, arg)
    BY <1>9, AppendIsConcat
  <2> QED
    BY <1>1, <2>2, <2>3
<1>20. TrapInv'
  <2>1. kind = "irq" => n # 30
    OBVIOUS
  <2>2. \A r \in Flat : entered'.reg[r] = DATA
    BY <1>1
  <2>3. kind = "isr" => saved'["interrupt"][2] \in 0 .. 31
    <3> HIDE DEF pushed, shifted, odd, frame, extra, kernel, arg
    <3>1. saved'["interrupt"][2] = n
      BY <1>17
    <3>2. kind = "isr" => n \in 0 .. 31
      OBVIOUS
    <3> QED
      BY <3>1, <3>2, Zenon
  <2>4. reading' = reading /\ entered'.stack = stack /\ entered'.reg = reg /\ cpu'.reg = kernel
    BY <1>1 DEF given
  <2> HIDE DEF kernel, extra
  <2> QED
    BY <1>1, <1>12, <1>16, <1>18, <1>19, <2>1, <2>2, <2>3, <2>4 DEF TrapInv
<1> QED
  BY <1>13, <1>14, <1>15, <1>20 DEF ResumeInv

\* What ResumesIntact says of a step.
ResumeStep ==
  /\ (where = "return" /\ where' = "program") =>
       /\ reading = "written" /\ cpu'.stack = entered.stack
       /\ \A r \in Registers \ {"eax"} : cpu'.reg[r] = entered.reg[r]
  /\ (where' = "program" /\ Len(cpu'.stack) = Len(cpu.stack) + 3) =>
       \A r \in Resumed : cpu'.reg[r] = kept'[current'][r]

(* A step that leaves the stack, the saved state and the processes alone   *)
(* and ends in a program.                                                  *)
LEMMA ProgramResumes ==
  ASSUME ResumeInv, where # "return", where' = "program", UNCHANGED <<saved, entered, states, kept>>,
         cpu' \in Processors, cpu'.stack = cpu.stack,
         gates' # {} => \A r \in Flat : cpu'.reg[r] = DATA,
         current' \in Processes \union {None}, work' \in Nat, handlers' \subseteq {32}
  PROVE  ResumeInv' /\ ResumeStep
<1>1. WordsInv'
  BY DEF ResumeInv, WordsInv
<1>2. FlatInv' /\ TrapInv' /\ KeptInv'
  BY DEF ResumeInv, FlatInv, TrapInv, KeptInv
<1>3. Len(cpu.stack) \in Nat
  BY DEF ResumeInv, WordsInv, Processors
<1> QED
  BY <1>1, <1>2, <1>3 DEF ResumeInv, ResumeStep

(* Setting the instruction pointer and the flags (panic.c, sleep.c).       *)
LEMMA Jumps ==
  ASSUME ResumeInv, NEW x \in Words, NEW y \in Words,
         cpu' = [cpu EXCEPT !.reg = [@ EXCEPT !["eip"] = x, !["eflags"] = y]]
  PROVE  /\ cpu' \in Processors /\ cpu'.stack = cpu.stack
         /\ \A r \in Flat : cpu'.reg[r] = cpu.reg[r]
<1>1. cpu.reg \in RegisterFiles /\ cpu.stack \in Seq(Words)
      /\ cpu = [reg |-> cpu.reg, stack |-> cpu.stack]
  BY DEF ResumeInv, WordsInv, Processors
<1>2. cpu' = [reg |-> [cpu.reg EXCEPT !["eip"] = x, !["eflags"] = y], stack |-> cpu.stack]
  BY <1>1
<1>3. [cpu.reg EXCEPT !["eip"] = x, !["eflags"] = y] \in RegisterFiles
  BY <1>1 DEF RegisterFiles
<1>4. \A r \in Flat : r \in Registers /\ r \notin {"eip", "eflags"}
  BY Members DEF Flat, Segments
<1> QED
  BY <1>1, <1>2, <1>3, <1>4 DEF Processors, RegisterFiles

(* A panic in a program or in a handler.                                   *)
LEMMA PanicResumes ==
  ASSUME ResumeInv, where # "return", Panicked
  PROVE  ResumeInv' /\ ResumeStep
<1>1. /\ where' = "program" /\ UNCHANGED <<saved, entered, states, kept, current, gates, handlers, work>>
      /\ cpu' = [cpu EXCEPT !.reg = [@ EXCEPT !["eip"] = HALT, !["eflags"] = ON]]
  BY DEF Panicked, processes, set_up
<1>2. /\ cpu' \in Processors /\ cpu'.stack = cpu.stack
      /\ \A r \in Flat : cpu'.reg[r] = cpu.reg[r]
  BY <1>1, Jumps, WordsHold
<1>3. gates' # {} => \A r \in Flat : cpu'.reg[r] = DATA
  BY <1>1, <1>2 DEF ResumeInv, FlatInv
<1>4. current' \in Processes \union {None} /\ work' \in Nat /\ handlers' \subseteq {32}
  BY <1>1 DEF ResumeInv, WordsInv
<1> QED
  BY <1>1, <1>2, <1>3, <1>4, ProgramResumes

(* Boot's own steps.                                                       *)
LEMMA BootStepResumes ==
  ASSUME ResumeInv, BootStep
  PROVE  ResumeInv' /\ ResumeStep
<1>1. where = "program"
  BY DEF BootStep, check_boot_env, init_tables, init_controllers, cpuid_init, init_hal, init_memory,
         init_boot_modules_1, init_boot_modules_2, load_initrd, init_symbol_table, start_scheduler,
         boot_returns, At, Running, Program
<1>2. current \in Processes \union {None} /\ work \in Nat /\ handlers \subseteq {32} /\ cpu \in Processors
  BY DEF ResumeInv, WordsInv
<1>3. CASE PanicInBoot
  BY <1>1, <1>3, PanicResumes DEF PanicInBoot
<1>4. CASE /\ UNCHANGED <<where, saved, entered, states, kept, cpu, gates, work>>
           /\ current' \in {current, "idle"} /\ handlers' \subseteq {32}
  <2>1. gates' # {} => \A r \in Flat : cpu'.reg[r] = DATA
    BY <1>4 DEF ResumeInv, FlatInv
  <2>2. current' \in Processes \union {None}
    BY <1>2, <1>4 DEF Processes
  <2> QED
    BY <1>1, <1>2, <1>4, <2>1, <2>2, ProgramResumes
<1>5. ASSUME UNCHANGED <<where, saved, entered, states, kept, gates, work, handlers>>,
             current' \in {current, "idle"}, NEW x \in Words, NEW y \in Words,
             cpu' = [cpu EXCEPT !.reg = [@ EXCEPT !["eip"] = x, !["eflags"] = y]]
      PROVE  ResumeInv' /\ ResumeStep
  <2>1. /\ cpu' \in Processors /\ cpu'.stack = cpu.stack
        /\ \A r \in Flat : cpu'.reg[r] = cpu.reg[r]
    BY <1>5, Jumps
  <2>2. gates' # {} => \A r \in Flat : cpu'.reg[r] = DATA
    BY <1>5, <2>1 DEF ResumeInv, FlatInv
  <2>3. current' \in Processes \union {None}
    BY <1>2, <1>5 DEF Processes
  <2> QED
    BY <1>1, <1>2, <1>5, <2>1, <2>2, <2>3, ProgramResumes
<1>6. CASE (check_boot_env \/ init_controllers \/ init_boot_modules_1 \/ init_memory
              \/ init_boot_modules_2 \/ load_initrd \/ init_symbol_table) /\ ~PanicInBoot
  <2>1. /\ UNCHANGED <<where, saved, entered, states, kept, cpu, gates, work, current>>
        /\ handlers' \in {handlers, {32}}
    BY <1>6 DEF check_boot_env, init_controllers, init_boot_modules_1, init_memory, init_boot_modules_2,
                load_initrd, init_symbol_table, Gathers, At, interrupt, processes, set_up
  <2> QED
    BY <1>2, <1>4, <2>1
<1>7. CASE init_tables
  <2>1. /\ UNCHANGED <<where, saved, entered, states, kept, current, handlers, work>>
        /\ cpu' = [cpu EXCEPT !.reg = [r \in Registers |->
             CASE r \in Segments \union {"ss"} -> DATA [] r = "cs" -> CODE [] OTHER -> cpu.reg[r]]]
    BY <1>2, <1>7 DEF init_tables, interrupt, processes, Processors
  <2> DEFINE flat == [r \in Registers |->
             CASE r \in Segments \union {"ss"} -> DATA [] r = "cs" -> CODE [] OTHER -> cpu.reg[r]]
  <2>2. cpu' = [reg |-> flat, stack |-> cpu.stack]
    BY <1>2, <2>1 DEF Processors
  <2>3. \A r \in Registers : flat[r] \in Words
    BY <1>2, WordsHold DEF Processors, RegisterFiles
  <2>4. \A r \in Flat : flat[r] = DATA
    <3>1. \A r \in Flat : r \in Registers /\ r \in Segments \union {"ss"} /\ r # "cs"
      BY Members DEF Flat, Segments
    <3> QED
      BY <3>1
  <2>5. flat \in RegisterFiles
    BY <2>3 DEF RegisterFiles
  <2> HIDE DEF flat
  <2>6. cpu' \in Processors /\ cpu'.stack = cpu.stack
    BY <1>2, <2>2, <2>5 DEF Processors
  <2> QED
    BY <1>1, <1>2, <2>1, <2>2, <2>4, <2>6, ProgramResumes
<1>8. CASE cpuid_init /\ ~PanicInBoot
  BY <1>5, <1>8, WordsHold DEF cpuid_init, interrupt, processes, set_up
<1>9. CASE init_hal
  BY <1>5, <1>9, WordsHold DEF init_hal, interrupt, processes, set_up
<1>10. CASE start_scheduler
  <2>1. /\ UNCHANGED <<where, saved, entered, states, kept, gates, work, handlers>> /\ current' = "idle"
        /\ cpu' = [cpu EXCEPT !.reg = [@ EXCEPT !["eflags"] = ON]]
    BY <1>10 DEF start_scheduler, interrupt, set_up
  <2>2. "eip" \in Registers /\ cpu.reg \in RegisterFiles /\ cpu.reg["eip"] \in Words
    BY <1>2, Members DEF Processors, RegisterFiles
  <2>3. cpu' = [cpu EXCEPT !.reg = [cpu.reg EXCEPT !["eip"] = cpu.reg["eip"], !["eflags"] = ON]]
    BY <1>2, <2>1, <2>2 DEF RegisterFiles, Processors
  <2>4. cpu' = [cpu EXCEPT !.reg = [@ EXCEPT !["eip"] = cpu.reg["eip"], !["eflags"] = ON]]
    BY <1>2, <2>3 DEF Processors
  <2> QED
    BY <1>5, <2>1, <2>2, <2>4, WordsHold
<1> QED
  BY <1>3, <1>6, <1>7, <1>8, <1>9, <1>10 DEF BootStep, boot_returns

(* An interrupt, or the reset when it has no gate.                         *)
LEMMA InterruptResumes ==
  ASSUME ResumeInv,
         NEW n \in Nat, NEW kind \in {"isr", "irq"}, NEW reg \in RegisterFiles, NEW stack \in Seq(Words),
         Interrupt(n, kind, reg, stack), UNCHANGED number,
         gates # {} => \A r \in Flat : reg[r] = DATA,
         kind = "irq" /\ gates # {} => n >= 32,
         kind = "isr" => n < 32
  PROVE  ResumeInv' /\ ResumeStep
<1>1. CASE n \in gates
  <2>1. Enter(n, kind, reg, stack)
    BY <1>1 DEF Interrupt
  <2>2. ResumeInv'
    BY <1>1, <2>1, EnterTraps
  <2>3. where' = "handler"
    BY <2>1 DEF Enter
  <2> QED
    BY <2>2, <2>3 DEF ResumeStep
<1>2. CASE n \notin gates
  <2>1. UNCHANGED <<reading, cpu, where, stub, saved, entered, gates, handlers, states, current, kept, work, number>>
    BY <1>2 DEF Interrupt, given, set_up, processes
  <2>2. ResumeInv'
    BY <2>1 DEF ResumeInv, WordsInv, FlatInv, TrapInv, KeptInv
  <2>3. Len(cpu.stack) \in Nat
    BY DEF ResumeInv, WordsInv, Processors
  <2> QED
    BY <1>2, <2>1, <2>2, <2>3 DEF ResumeStep
<1> QED
  BY <1>1, <1>2

(* A line and an exception.                                                *)
LEMMA RaisedResumes ==
  ASSUME IInv, ResumeInv, (\E l \in Lines : Take(l)) \/ (\E n \in Exceptions : Fault(n))
  PROVE  ResumeInv' /\ ResumeStep
<1>1. cpu.reg \in RegisterFiles /\ cpu.stack \in Seq(Words)
      /\ (gates # {} => \A r \in Flat : cpu.reg[r] = DATA)
  BY DEF ResumeInv, WordsInv, Processors, FlatInv
<1>2. ASSUME NEW l \in Lines, Take(l) PROVE ResumeInv' /\ ResumeStep
  <2>1. PICK n : /\ n = IF base = 8 /\ l > 7 THEN 112 + l - 8 ELSE base + l
                 /\ Interrupt(n, "irq", cpu.reg, cpu.stack)
    BY <1>2 DEF Take
  <2>2. where = "program" /\ UNCHANGED number /\ Enabled
    BY <1>2 DEF Take, Program
  <2>3. l \in 0 .. 15
    BY BootAssumption
  <2>4. CASE gates # {}
    <3>1. base = 32
      BY <2>2, <2>4 DEF IInv, EarlyInv, LateInv, Early, Enabled, ON, OFF
    <3>2. n \in Nat /\ n >= 32
      BY <2>1, <2>3, <3>1
    <3> QED
      BY <1>1, <2>1, <2>2, <3>2, InterruptResumes
  <2>5. CASE gates = {}
    <3>1. UNCHANGED <<reading, cpu, where, stub, saved, entered, gates, handlers, states, current, kept, work>>
      BY <2>1, <2>5 DEF Interrupt, given, set_up, processes
    <3>2. ResumeInv'
      BY <2>2, <3>1 DEF ResumeInv, WordsInv, FlatInv, TrapInv, KeptInv
    <3>3. Len(cpu.stack) \in Nat
      BY <1>1
    <3> QED
      BY <2>2, <3>1, <3>2, <3>3 DEF ResumeStep
  <2> QED
    BY <2>4, <2>5
<1>3. ASSUME NEW n \in Exceptions, Fault(n) PROVE ResumeInv' /\ ResumeStep
  <2>1. n \in Nat /\ n < 32
    BY BootAssumption
  <2>2. where # "return" /\ Interrupt(n, "isr", cpu.reg, cpu.stack) /\ UNCHANGED number
    BY <1>3 DEF Fault, Faults, Running, Program
  <2> QED
    BY <1>1, <2>1, <2>2, InterruptResumes
<1> QED
  BY <1>2, <1>3

(* The handlers and the dispatch, when they do not switch.                 *)
LEMMA HandlersResume ==
  ASSUME ResumeInv, irq_handler \/ isr_handler \/ call_interrupt_handler
  PROVE  ResumeInv' /\ ResumeStep
<1>1. where \in {"handler", "dispatch"}
  BY DEF irq_handler, isr_handler, call_interrupt_handler, Handles
<1>2. TrapInv /\ WordsInv /\ FlatInv /\ KeptInv
  BY DEF ResumeInv
<1>3. CASE irq_handler
  <2>1. /\ where' = "dispatch" /\ stub = "irq"
        /\ UNCHANGED <<stub, reading, cpu, saved, entered, gates, handlers, states, current, kept, work>>
    BY <1>3 DEF irq_handler, Handles, given, set_up, processes
  <2> QED
    BY <1>1, <1>2, <2>1 DEF ResumeInv, WordsInv, FlatInv, TrapInv, KeptInv, ResumeStep
<1>4. CASE isr_handler
  <2>1. CASE Panicked
    BY <1>1, <2>1, PanicResumes
  <2>2. CASE ~Panicked
    <3>1. /\ where = "handler" /\ where' = "dispatch" /\ stub = "isr" /\ number' \in Number /\ number' >= 34
          /\ UNCHANGED <<stub, reading, cpu, saved, entered, gates, handlers, states, current, kept, work>>
      BY <1>4, <2>2 DEF isr_handler, Handles, given, set_up, processes
    <3>2. saved["interrupt"][2] \in 0 .. 31
      BY <1>2, <3>1 DEF TrapInv
    <3>3. reading # "written"
      BY <3>1, <3>2 DEF Number
    <3> QED
      BY <1>2, <3>1, <3>3 DEF ResumeInv, WordsInv, FlatInv, TrapInv, KeptInv, ResumeStep
  <2> QED
    BY <2>1, <2>2
<1>5. CASE call_interrupt_handler
  <2>1. /\ where = "dispatch" /\ UNCHANGED <<stub, number, reading, saved, entered, gates, handlers,
                                             states, current, kept, work>>
        /\ \/ UNCHANGED <<where, cpu>>
           \/ where' = "return" /\ cpu' = [cpu EXCEPT !.reg = AfterCall(@)]
    BY <1>5 DEF call_interrupt_handler, Returns, given, set_up, processes
  <2>2. CASE UNCHANGED <<where, cpu>>
    BY <1>2, <2>1, <2>2 DEF ResumeInv, WordsInv, FlatInv, TrapInv, KeptInv, ResumeStep
  <2>3. CASE where' = "return" /\ cpu' = [cpu EXCEPT !.reg = AfterCall(@)]
    <3>1. cpu.reg \in RegisterFiles /\ cpu' = [reg |-> AfterCall(cpu.reg), stack |-> cpu.stack]
          /\ cpu.stack \in Seq(Words)
      BY <1>2, <2>3 DEF WordsInv, Processors
    <3>2. AfterCall(cpu.reg) \in RegisterFiles
      BY <3>1, WordsHold DEF AfterCall, RegisterFiles
    <3>3. \A r \in Flat \union Control : AfterCall(cpu.reg)[r] = cpu.reg[r]
      <4>1. \A r \in Flat \union Control : r \in Registers /\ r \notin {"eax", "ecx", "edx"}
        BY Members DEF Flat, Segments, Control
      <4> QED
        BY <4>1 DEF AfterCall
    <3>4. WordsInv'
      BY <1>2, <2>1, <3>1, <3>2 DEF WordsInv, Processors
    <3>5. FlatInv' /\ KeptInv'
      BY <1>2, <2>1, <3>1, <3>3 DEF FlatInv, KeptInv
    <3>6. "ss" \in Flat
      BY DEF Flat
    <3>7. TrapInv'
      BY <1>2, <2>1, <2>3, <3>1, <3>3, <3>6 DEF TrapInv
    <3> QED
      BY <2>1, <2>3, <3>4, <3>5, <3>7 DEF ResumeInv, ResumeStep
  <2> QED
    BY <2>1, <2>2, <2>3
<1> QED
  BY <1>3, <1>4, <1>5

(* A switch of processes, from the timer or by yielding                    *)
(* (process.c:145-175, set_state_and_jump.S).                              *)
LEMMA SwitchResumes ==
  ASSUME ResumeInv, where # "return",
         NEW state \in [Slots -> Words], NEW reg, \A r \in Resumed : state[r] = reg[r],
         Switch(state, reg, <<JUNK>>), UNCHANGED <<saved, entered, gates, handlers, work>>
  PROVE  ResumeInv' /\ ResumeStep
<1>1. cpu \in Processors /\ states \in [Processes -> [Slots -> Words]]
      /\ kept = [p \in Processes |-> kept[p]] /\ current \in Processes \union {None}
  BY DEF ResumeInv, WordsInv
<1>2. PICK q \in Processes :
        /\ Saves(state, reg) /\ current' = q /\ where' = "program"
        /\ cpu' = [reg |-> Jumped(cpu.reg, states'[q]),
                   stack |-> cpu.stack \o <<JUNK>> \o JumpLeaves(states'[q])]
  BY DEF Switch
<1>3. /\ states' \in [Processes -> [Slots -> Words]] /\ kept' = [p \in Processes |-> kept'[p]]
      /\ \A p \in Processes : \A r \in Resumed : states'[p][r] = kept'[p][r]
  <2>1. CASE current = None
    BY <1>1, <1>2, <2>1 DEF Saves, ResumeInv, KeptInv
  <2>2. CASE current \in Processes
    <3>1. current # None
      BY <2>2 DEF Processes, None
    <3>2. states' = [states EXCEPT ![current] = state] /\ kept' = [kept EXCEPT ![current] = reg]
      BY <1>2, <3>1 DEF Saves
    <3>3. states' \in [Processes -> [Slots -> Words]]
      BY <1>1, <3>2
    <3>4. \A p \in Processes : /\ states'[p] = IF p = current THEN state ELSE states[p]
                               /\ kept'[p] = IF p = current THEN reg ELSE kept[p]
      BY <1>1, <3>2
    <3>5. kept' = [p \in Processes |-> kept'[p]]
      BY <1>1, <3>2
    <3>6. \A p \in Processes : \A r \in Resumed : states'[p][r] = kept'[p][r]
      BY <3>4 DEF ResumeInv, KeptInv
    <3> QED
      BY <3>3, <3>5, <3>6
  <2> QED
    BY <1>1, <2>1, <2>2
<1>4. states'[q] \in [Slots -> Words]
  BY <1>3
<1>5. Resumed \subseteq Slots /\ Resumed \subseteq Registers /\ {"ss", "esp"} \subseteq Slots
      /\ Flat \subseteq Registers /\ Flat \intersect Resumed = {}
  BY Members DEF Resumed, General, Flat, Segments
<1>6. /\ Jumped(cpu.reg, states'[q]) \in RegisterFiles
      /\ \A r \in Resumed : cpu'.reg[r] = states'[q][r]
      /\ \A r \in Flat : cpu'.reg[r] = cpu.reg[r]
  <2>1. Jumped(cpu.reg, states'[q]) \in RegisterFiles
    BY <1>1, <1>4, <1>5 DEF Jumped, RegisterFiles, Processors, Resumed
  <2>2. cpu'.reg = Jumped(cpu.reg, states'[q])
    BY <1>2
  <2>3. \A r \in Resumed : cpu'.reg[r] = states'[q][r]
    BY <1>5, <2>2 DEF Jumped, Resumed
  <2>4. \A r \in Flat : cpu'.reg[r] = cpu.reg[r]
    BY <1>5, <2>2 DEF Jumped, Resumed
  <2> QED
    BY <2>1, <2>3, <2>4
<1>7. cpu'.stack \in Seq(Words)
  <2>1. JUNK \in Words /\ states'[q]["ss"] \in Words /\ states'[q]["esp"] \in Words
    BY <1>4, <1>5, WordsHold
  <2>2. <<JUNK>> \in Seq(Words) /\ JumpLeaves(states'[q]) \in Seq(Words)
    BY <2>1 DEF JumpLeaves
  <2>3. cpu.stack \o <<JUNK>> \in Seq(Words)
    BY <1>1, <2>2 DEF Processors
  <2> QED
    BY <1>2, <2>2, <2>3
<1>8. cpu' \in Processors
  BY <1>2, <1>6, <1>7 DEF Processors
<1>9. WordsInv'
  BY <1>2, <1>3, <1>8 DEF ResumeInv, WordsInv
<1>10. FlatInv' /\ TrapInv' /\ KeptInv'
  BY <1>2, <1>3, <1>6 DEF ResumeInv, FlatInv, TrapInv, KeptInv
<1>11. ResumeStep
  BY <1>2, <1>3, <1>6 DEF ResumeStep
<1> QED
  BY <1>9, <1>10, <1>11 DEF ResumeInv

(* The timer's handler, and a process that yields.                         *)
LEMMA SwitchesResume ==
  ASSUME ResumeInv, pit_handler \/ (\E p \in Processes \union {"boot"} : process_yield(p))
  PROVE  ResumeInv' /\ ResumeStep
<1>1. CASE pit_handler
  <2>1. /\ where = "dispatch" /\ number \in handlers /\ Switch(saved, entered.reg, <<JUNK>>)
        /\ UNCHANGED <<saved, entered, gates, handlers, work>>
    BY <1>1 DEF pit_handler, set_up
  <2>2. saved \in [Slots -> Words] /\ number = 32
    BY <2>1 DEF ResumeInv, WordsInv
  <2>3. \A r \in Resumed : saved[r] = entered.reg[r]
    BY <2>1, <2>2 DEF ResumeInv, TrapInv
  <2> QED
    BY <2>1, <2>2, <2>3, SwitchResumes
<1>2. ASSUME NEW p \in Processes \union {"boot"}, process_yield(p) PROVE ResumeInv' /\ ResumeStep
  <2>1. /\ where = "program" /\ Switch(Captured(cpu.reg), cpu.reg, <<JUNK>>)
        /\ UNCHANGED <<saved, entered, gates, handlers, work>>
    BY <1>2 DEF process_yield, Running, Program, set_up
  <2>2. cpu.reg \in RegisterFiles
    BY DEF ResumeInv, WordsInv, Processors
  <2>3. Captured(cpu.reg) \in [Slots -> Words]
    BY <2>2, WordsHold DEF Captured, RegisterFiles
  <2>4. \A r \in Resumed : r \in Slots /\ r \in Registers
    BY Members DEF Resumed, General
  <2>5. \A r \in Resumed : Captured(cpu.reg)[r] = cpu.reg[r]
    BY <2>4 DEF Captured
  <2> QED
    BY <2>1, <2>3, <2>5, SwitchResumes
<1> QED
  BY <1>1, <1>2

(* A program at work.                                                      *)
LEMMA WorkResumes ==
  ASSUME IInv, ResumeInv, NEW p \in Processes, Work(p)
  PROVE  ResumeInv' /\ ResumeStep
<1> DEFINE reg == [r \in Registers |->
       IF r \in General THEN <<r, p, work'>> ELSE IF r = "eip" THEN <<p, work'>> ELSE cpu.reg[r]]
<1>1. cpu \in Processors /\ work \in Nat /\ current \in Processes \union {None} /\ handlers \subseteq {32}
  BY DEF ResumeInv, WordsInv
<1>2. /\ where = "program" /\ where' = "program" /\ work' = work + 1
      /\ UNCHANGED <<saved, entered, states, kept, current, handlers, gates>>
      /\ cpu' = [cpu EXCEPT !.reg = reg]
  BY <1>1 DEF Work, Running, Program, interrupt, processes, set_up, Processors
<1>3. work' \in Nat
  BY <1>1, <1>2
<1>4. cpu' = [reg |-> reg, stack |-> cpu.stack]
  BY <1>1, <1>2 DEF Processors
<1>5. \A r \in Registers : reg[r] \in Words
  BY <1>1, <1>3, WordsHold DEF Processors, RegisterFiles
<1>6. reg \in RegisterFiles
  BY <1>5 DEF RegisterFiles
<1>7. \A r \in Flat : reg[r] = cpu.reg[r]
  <2>1. \A r \in Flat : r \in Registers /\ r \notin General /\ r # "eip"
    BY Members DEF Flat, Segments, General
  <2> QED
    BY <2>1
<1> HIDE DEF reg
<1>8. cpu' \in Processors /\ cpu'.stack = cpu.stack
  BY <1>1, <1>4, <1>6 DEF Processors
<1>9. gates' # {} => \A r \in Flat : cpu'.reg[r] = DATA
  BY <1>2, <1>4, <1>7 DEF ResumeInv, FlatInv
<1> QED
  BY <1>1, <1>2, <1>3, <1>8, <1>9, ProgramResumes

(* The members that follow those that iret takes (state.h).                *)
LEMMA Follows == \A s \in {"eip", "cs", "eflags"} : Behind(s) \in Slots
<1> SUFFICES ASSUME NEW s \in {"eip", "cs", "eflags"} PROVE Behind(s) \in Slots
  OBVIOUS
<1>1. DOMAIN Layout = 1 .. 22
  BY DEF Layout
<1>2. Slots = {Layout[i] : i \in 1 .. 22}
  BY <1>1 DEF Slots, ToSet
<1>3. \A i \in 1 .. 22 : Layout[i] = s => i < 22
  BY DEF Layout
<1>4. Layout[9] = "cs" /\ Layout[15] = "eip" /\ Layout[16] = "eflags"
  BY DEF Layout
<1>5. \E i \in 1 .. 22 : Layout[i] = s
  BY <1>4
<1> DEFINE i == CHOOSE j \in DOMAIN Layout : Layout[j] = s
<1>6. i \in 1 .. 22 /\ Layout[i] = s
  BY <1>1, <1>5
<1>7. Behind(s) = Layout[i + 1]
  BY Zenon DEF Behind
<1> HIDE DEF i
<1>8. i + 1 \in 1 .. 22
  BY <1>3, <1>6
<1> QED
  BY <1>2, <1>7, <1>8

(* The epilogue and iret, or the fault that it takes                       *)
(* (isr_irq_stub.S:80-104).                                                *)
LEMMA ReturnResumes ==
  ASSUME ResumeInv, Return
  PROVE  ResumeInv' /\ ResumeStep
<1> DEFINE frame == ReturnFrame(reading, saved)
           reg == Epilogue(cpu.reg, saved)
           below == SubSeq(cpu.stack, 1, Len(cpu.stack) - 1)
<1>1. /\ where = "return" /\ UNCHANGED number
      /\ cpu.reg \in RegisterFiles /\ cpu.stack \in Seq(Words)
      /\ entered.reg \in RegisterFiles /\ entered.stack \in Seq(Words)
      /\ saved \in [Slots -> Words]
  BY DEF Return, ResumeInv, WordsInv, Processors
<1>2. /\ stub \in {"isr", "irq"}
      /\ \A r \in Flat : entered.reg[r] = DATA
      /\ \A r \in Segments : saved[r] = DATA
      /\ stub = "isr" /\ reading = "written" => where = "handler"
      /\ stub = "irq" =>
           /\ \A r \in Resumed : saved[r] = entered.reg[r]
           /\ cpu.stack = Append(entered.stack, Argument(reading, saved))
           /\ \A r \in Control \union {"ss"} : cpu.reg[r] = entered.reg[r]
  BY <1>1 DEF ResumeInv, TrapInv
<1>3. /\ General \union Segments \union {"cs", "eip", "eflags"} \subseteq Slots
      /\ "gs" \in Slots /\ "gs" \in Segments /\ "ds" \in Segments
      /\ Segments \intersect (General \union {"eax", "cs", "eip", "eflags", "ss"}) = {}
      /\ "ss" \notin General \union {"eax", "cs", "eip", "eflags"}
      /\ Flat \subseteq Registers
  BY Members DEF General, Segments, Flat
<1>4. reg \in RegisterFiles
  BY <1>1, <1>3 DEF Epilogue, RegisterFiles
<1>5. /\ \A r \in Segments : reg[r] = DATA
      /\ reg["ss"] = cpu.reg["ss"]
  BY <1>2, <1>3 DEF Epilogue, Flat
<1>6. gates # {} => \A r \in Flat : reg[r] = DATA
  BY <1>5 DEF ResumeInv, FlatInv, Flat
<1>7. \A s \in {"eip", "cs", "eflags"} : frame[s] = saved[IF reading = "written" THEN s ELSE Behind(s)]
  BY DEF ReturnFrame
<1>8. below \in Seq(Words)
  <2>1. CASE cpu.stack = <<>>
    <3>1. Len(cpu.stack) - 1 = -1
      BY <2>1
    <3>2. below = <<>>
      BY <3>1, SubSeqProperties, <1>1
    <3> QED
      BY <3>2
  <2>2. CASE cpu.stack # <<>>
    <3>1. Len(cpu.stack) \in Nat /\ Len(cpu.stack) >= 1
      BY <1>1, <2>2, EmptySeq, LenProperties
    <3>2. \A i \in 1 .. Len(cpu.stack) - 1 : i \in 1 .. Len(cpu.stack)
      BY <3>1
    <3> QED
      BY <1>1, <3>1, <3>2, SubSeqProperties
  <2> QED
    BY <2>1, <2>2
<1>9. CASE frame["cs"] = CODE
  <2>1. reading = "written"
    <3>1. Behind("cs") = "ds" /\ saved["ds"] = DATA /\ DATA # CODE
      BY <1>2, <1>3, Members DEF DATA, CODE
    <3> QED
      BY <1>7, <1>9, <3>1
  <2>2. stub = "irq"
    BY <1>1, <1>2, <2>1
  <2>3. \A s \in {"eip", "cs", "eflags"} : frame[s] = entered.reg[s]
    BY <1>2, <1>7, <2>1, <2>2 DEF Resumed
  <2>4. /\ cpu' = [reg |-> Iret(reg, frame), stack |-> below] /\ where' = "program"
        /\ UNCHANGED <<saved, states, current, kept, entered, gates, handlers, work>>
    BY <1>9 DEF Return, set_up, processes
  <2>5. below = entered.stack
    <3>1. Argument(reading, saved) \in Words
      BY <2>1, WordsHold DEF Argument
    <3>2. /\ cpu.stack = Append(entered.stack, Argument(reading, saved))
          /\ Len(cpu.stack) = Len(entered.stack) + 1
          /\ \A i \in 1 .. Len(entered.stack) : cpu.stack[i] = entered.stack[i]
      BY <1>1, <1>2, <2>2, <3>1, AppendProperties
    <3>3. Len(entered.stack) \in Nat
      BY <1>1
    <3>4. Len(cpu.stack) - 1 = Len(entered.stack)
      BY <3>2, <3>3
    <3>5. \A i \in 1 .. Len(cpu.stack) - 1 : cpu.stack[i] \in Words
      BY <1>1, <3>2, <3>4
    <3>6. /\ Len(below) = Len(entered.stack)
          /\ \A i \in 1 .. Len(entered.stack) : below[i] = cpu.stack[i]
      <4>1. /\ Len(below) = IF 1 <= Len(entered.stack) THEN Len(entered.stack) - 1 + 1 ELSE 0
            /\ \A i \in 1 .. Len(entered.stack) - 1 + 1 : below[i] = cpu.stack[1 + i - 1]
        BY <3>3, <3>4, <3>5, SubSeqProperties
      <4> HIDE DEF below
      <4> QED
        BY <3>3, <4>1
    <3> HIDE DEF below
    <3> QED
      BY <1>1, <1>8, <3>2, <3>6, SeqEqual
  <2>6. DOMAIN frame = {"eip", "cs", "eflags"}
    BY DEF ReturnFrame
  <2> HIDE DEF reg, frame, below
  <2>7. \A r \in Registers : cpu'.reg[r] = IF r \in {"eip", "cs", "eflags"} THEN entered.reg[r] ELSE reg[r]
    BY <2>3, <2>4, <2>6 DEF Iret
  <2>8. \A r \in Registers : entered.reg[r] \in Words /\ reg[r] \in Words
    BY <1>1, <1>4 DEF RegisterFiles
  <2>9. cpu' \in Processors
    <3>1. Iret(reg, frame) = [r \in Registers |-> cpu'.reg[r]]
      BY <2>4 DEF Iret
    <3>2. Iret(reg, frame) \in RegisterFiles
      BY <2>7, <2>8, <3>1 DEF RegisterFiles
    <3> QED
      BY <1>8, <2>4, <3>2 DEF Processors
  <2>10. \A r \in Flat : cpu'.reg[r] = reg[r]
    BY <1>3, <2>7 DEF Flat
  <2>11. WordsInv' /\ FlatInv' /\ TrapInv' /\ KeptInv'
    BY <1>6, <2>4, <2>9, <2>10 DEF ResumeInv, WordsInv, FlatInv, TrapInv, KeptInv
  <2>12. ASSUME NEW r \in Registers \ {"eax"} PROVE cpu'.reg[r] = entered.reg[r]
    <3>1. CASE r \in {"eip", "cs", "eflags"}
      BY <2>7, <3>1
    <3>2. CASE r \notin {"eip", "cs", "eflags"}
      <4>1. cpu'.reg[r] = reg[r]
        BY <2>7, <3>2
      <4>2. r \in General \union Segments \union Control \union {"ss"}
        BY <3>2, Members
      <4>3. CASE r \in General \union Segments
        <5>1. reg[r] = saved[r]
          BY <4>3, <2>12 DEF reg, Epilogue
        <5>2. saved[r] = entered.reg[r]
          BY <1>2, <2>2, <4>3 DEF Resumed, Flat
        <5> QED
          BY <4>1, <5>1, <5>2
      <4>4. CASE r \in (Control \union {"ss"}) \ (General \union Segments)
        <5>1. reg[r] = cpu.reg[r]
          BY <4>4, <2>12 DEF reg, Epilogue
        <5> QED
          BY <1>2, <2>2, <4>1, <4>4, <5>1
      <4> QED
        BY <4>2, <4>3, <4>4
    <3> QED
      BY <3>1, <3>2
  <2>13. Len(cpu'.stack) # Len(cpu.stack) + 3
    <3>1. Argument(reading, saved) \in Words
      BY <2>1, WordsHold DEF Argument
    <3>2. Len(cpu.stack) = Len(entered.stack) + 1 /\ Len(entered.stack) \in Nat
      BY <1>1, <1>2, <2>2, <3>1, AppendProperties
    <3>3. Len(cpu'.stack) = Len(entered.stack)
      BY <2>4, <2>5
    <3> QED
      BY <3>2, <3>3
  <2> QED
    BY <2>1, <2>4, <2>5, <2>11, <2>12, <2>13 DEF ResumeInv, ResumeStep
<1>10. CASE frame["cs"] # CODE
  <2> DEFINE stopped == [reg EXCEPT !["eip"] = <<"iret", 0>>]
             stack == below \o <<frame["eflags"], frame["cs"], frame["eip"]>>
  <2>1. Interrupt(13, "isr", stopped, stack)
    BY <1>10 DEF Return
  <2>2. stopped \in RegisterFiles
    BY <1>4, WordsHold DEF RegisterFiles
  <2>3. \A r \in Flat : stopped[r] = reg[r]
    <3>1. \A r \in Flat : r \in Registers /\ r # "eip"
      BY <1>3 DEF Flat
    <3> QED
      BY <1>4, <3>1 DEF RegisterFiles
  <2>4. stack \in Seq(Words)
    <3>1. /\ Behind("cs") \in Slots /\ Behind("eip") \in Slots /\ Behind("eflags") \in Slots
      BY Follows
    <3>2. \A s \in {"eip", "cs", "eflags"} : frame[s] \in Words
      BY <1>1, <1>3, <1>7, <3>1
    <3>3. <<frame["eflags"], frame["cs"], frame["eip"]>> \in Seq(Words)
      BY <3>2
    <3> HIDE DEF frame, below
    <3> QED
      BY <1>8, <3>3
  <2> HIDE DEF stopped, stack, reg
  <2> QED
    BY <1>1, <1>6, <2>1, <2>2, <2>3, <2>4, InterruptResumes
<1> QED
  BY <1>9, <1>10

(* What the boot loader leaves, and the states of processes not yet run.   *)
LEMMA ResumeInit == Init => ResumeInv
<1> SUFFICES ASSUME Init PROVE ResumeInv
  OBVIOUS
<1>1. \A p \in Processes : Spawned(Entry(p)) \in [Slots -> Words]
  <2>1. \A p \in Processes : Entry(p) \in Words
    BY WordsHold DEF Processes
  <2> QED
    BY <2>1, WordsHold DEF Spawned
<1>2. /\ cpu.reg = [r \in Registers |-> CASE r = "eip"    -> Entry("boot")
                                           [] r = "eflags" -> OFF
                                           [] OTHER        -> <<r, "loader", 0>>]
      /\ cpu = [reg |-> cpu.reg, stack |-> <<>>]
  BY DEF Init
<1>3. \A r \in Registers : cpu.reg[r] \in Words
  <2>1. \A r \in Registers : cpu.reg[r] \in {Entry("boot"), OFF, <<r, "loader", 0>>}
    BY <1>2
  <2>2. Entry("boot") \in Words /\ OFF \in Words /\ \A r \in Registers : <<r, "loader", 0>> \in Words
    BY WordsHold
  <2> QED
    BY <2>1, <2>2
<1>4. cpu \in Processors
  <2>1. cpu.reg \in RegisterFiles
    BY <1>2, <1>3 DEF RegisterFiles
  <2>2. << >> \in Seq(Words)
    OBVIOUS
  <2>3. \A f \in RegisterFiles, t \in Seq(Words) : [reg |-> f, stack |-> t] \in Processors
    BY DEF Processors
  <2>4. [reg |-> cpu.reg, stack |-> <<>>] \in Processors
    BY <2>1, <2>2, <2>3
  <2> QED
    BY <1>2, <2>4, Zenon
<1>5. /\ entered = cpu /\ saved = [s \in Slots |-> ZERO] /\ current = None /\ work = 0
      /\ states = [p \in Processes |-> Spawned(Entry(p))] /\ kept = states
      /\ handlers = {} /\ gates = {} /\ where = "program"
  BY DEF Init
<1>6. saved \in [Slots -> Words]
  BY <1>5, WordsHold
<1>7. states \in [Processes -> [Slots -> Words]]
  BY <1>1, <1>5
<1>8. WordsInv
  BY <1>4, <1>5, <1>6, <1>7 DEF WordsInv
<1> QED
  BY <1>5, <1>8 DEF ResumeInv, FlatInv, TrapInv, KeptInv

(* Every step keeps the invariant and resumes what it resumes intact.      *)
LEMMA StepResumes ==
  ASSUME IInv, ResumeInv, [Next]_vars
  PROVE  ResumeInv' /\ [ResumeStep]_vars
<1>1. CASE BootStep
  BY <1>1, BootStepResumes
<1>2. CASE (\E l \in Lines : Take(l)) \/ (\E n \in Exceptions : Fault(n))
  BY <1>2, RaisedResumes
<1>3. CASE irq_handler \/ isr_handler \/ call_interrupt_handler
  BY <1>3, HandlersResume
<1>4. CASE pit_handler \/ (\E p \in Processes \union {"boot"} : process_yield(p))
  BY <1>4, SwitchesResume
<1>5. CASE Return
  BY <1>5, ReturnResumes
<1>6. CASE \E p \in Processes : Work(p)
  BY <1>6, WorkResumes
<1>7. CASE UNCHANGED vars
  BY <1>7 DEF vars, ResumeInv, WordsInv, FlatInv, TrapInv, KeptInv
<1> QED
  BY <1>1, <1>2, <1>3, <1>4, <1>5, <1>6, <1>7 DEF Next

(* The words, the segments, the saved state and the stopped processes are  *)
(* as the stubs left them, in every reachable state (isr_irq_stub.S).      *)
THEOREM ResumeInvHolds == Spec => []ResumeInv
<1>1. IInv /\ ResumeInv /\ [Next]_vars => ResumeInv'
  BY StepResumes
<1> QED
  BY <1>1, ResumeInit, IInvHolds, PTL DEF Spec

(* Whatever an interrupt or a switch stopped goes on intact, for all boot  *)
(* loaders, lines, exceptions, programs and bounds (isr_irq_stub.S:80-104, *)
(* set_state_and_jump.S).                                                  *)
THEOREM ContextsResume == Spec => ResumesIntact
<1>1. IInv /\ ResumeInv /\ [Next]_vars => [ResumeStep]_vars
  BY StepResumes
<1>2. Spec => [][ResumeStep]_vars
  BY <1>1, IInvHolds, ResumeInvHolds, PTL DEF Spec
<1> QED
  BY <1>2 DEF ResumesIntact, ResumeStep, Resumed
-----------------------------------------------------------------------------
(***************************************************************************)
(* What boot gathers from the boot loader's tags and from the archive: the *)
(* memory map, the place of the heap, the modules, the files.              *)
(***************************************************************************)
(* The constants of BootInfo are numbers.                                  *)
LEMMA Amounts ==
  /\ PAGE_SIZE \in Nat /\ PAGE_SIZE # 0 /\ Address \in Nat /\ Address # 0
  /\ INITIAL_HEAP_SIZE \in Nat /\ TAR_HEADER_SIZE \in Nat /\ TAR_HEADER_SIZE # 0
  /\ Word \in Nat /\ Word # 0
  /\ KernelEnd \in Nat /\ INITRD_MAX_FILES \in Nat /\ PagingMemory \in Nat
BY BootInfoAssumption, BootAssumption

(* A multiple leaves no remainder.                                         *)
LEMMA MultipleOf ==
  ASSUME NEW q \in Nat, NEW a \in Nat \ {0}
  PROVE  ((q * a) % a) = 0
OBVIOUS

(* MAKE_ALIGNED moves on, and from the first multiple on it moves to one   *)
(* (mem/common.h).                                                         *)
LEMMA MovesOn ==
  ASSUME NEW x \in Nat, NEW a \in Nat \ {0}
  PROVE  /\ MakeAligned(x, a) \in Nat /\ MakeAligned(x, a) >= x
         /\ MakeAligned(x, a) >= a => (MakeAligned(x, a) % a) = 0
<1>1. x \div a \in Nat /\ x < (x \div a + 1) * a
  OBVIOUS
<1>2. (x \div a + 1) * a \in Nat /\ (((x \div a + 1) * a) % a) = 0
  <2>1. x \div a + 1 \in Nat
    BY <1>1
  <2> DEFINE q == x \div a + 1
  <2> HIDE DEF q
  <2>2. q \in Nat => q * a \in Nat /\ ((q * a) % a) = 0
    BY MultipleOf, SMTT(60)
  <2>3. QED
    BY <2>1, <2>2 DEF q
<1>3. CASE x < a
  <2>1. MakeAligned(x, a) = x
    BY <1>3 DEF MakeAligned
  <2>2. QED
    BY <1>3, <2>1
<1>4. CASE ~(x < a)
  <2>1. MakeAligned(x, a) = (x \div a + 1) * a
    BY <1>4 DEF MakeAligned
  <2> DEFINE y == (x \div a + 1) * a
  <2>2. y \in Nat /\ x < y /\ (y % a) = 0 /\ MakeAligned(x, a) = y
    BY <1>1, <1>2, <2>1
  <2> HIDE DEF y
  <2>3. QED
    BY <2>2
<1>5. QED
  BY <1>3, <1>4

(* static_alloc never goes back, however often it is called (static.c).    *)
LEMMA AllocatedOn ==
  ASSUME NEW heapAddr \in Nat, NEW size \in Nat, NEW n \in Nat
  PROVE  Allocated(heapAddr, size, n) \in Nat /\ Allocated(heapAddr, size, n) >= heapAddr
<1> DEFINE a == IF size < 16 THEN 4 ELSE 16
           V == {v \in Nat : v >= heapAddr}
           steps == [k \in 0 + 1 .. n |-> [v \in V |-> MakeAligned(v, a) + size]]
<1>1. a \in Nat \ {0}
  OBVIOUS
<1> HIDE DEF a
<1>2. ASSUME NEW v \in V PROVE MakeAligned(v, a) + size \in V
  <2>1. MakeAligned(v, a) \in Nat /\ MakeAligned(v, a) >= v
    BY <1>1, MovesOn
  <2>2. QED
    BY <2>1
<1>3. MapsAt(steps, V, 0, n)
  BY <1>2 DEF MapsAt
<1>4. ASSUME NEW k \in 1 .. n, NEW v \in V PROVE steps[k][v] = MakeAligned(v, a) + size
  OBVIOUS
<1> HIDE DEF steps
<1>5. PICK g : Unfolds(g, V, steps, heapAddr, 0, n)
  <2>1. heapAddr \in V /\ 0 \in Int /\ n \in Int
    OBVIOUS
  <2> HIDE DEF V
  <2>2. QED
    BY <1>3, <2>1, Unfolding, Zenon
<1> DEFINE Is(h) == h = [i \in 0 .. n |-> IF i = 0 THEN heapAddr ELSE MakeAligned(h[i - 1], a) + size]
           after == CHOOSE h : Is(h)
<1>6. Is(g)
  <2>1. ASSUME NEW i \in 0 .. n PROVE g[i] = IF i = 0 THEN heapAddr ELSE MakeAligned(g[i - 1], a) + size
    <3>1. CASE i = 0
      BY <1>5, <3>1 DEF Unfolds
    <3>2. CASE i # 0
      <4>1. i \in 1 .. n /\ i - 1 \in 0 .. n
        BY <3>2
      <4>2. g[i - 1] \in V /\ g[i] = steps[i][g[i - 1]]
        BY <1>5, <3>2, <4>1 DEF Unfolds
      <4>3. QED
        BY <1>4, <3>2, <4>1, <4>2
    <3>3. QED
      BY <3>1, <3>2
  <2>2. g = [i \in 0 .. n |-> g[i]]
    BY <1>5 DEF Unfolds
  <2>3. QED
    BY <2>1, <2>2
<1>7. Is(after)
  <2> HIDE DEF Is
  <2>1. QED
    BY <1>6
<1>8. Allocated(heapAddr, size, n) = after[n]
  BY DEF Allocated, a
<1> HIDE DEF after
<1>9. \A i \in 0 .. n : after[i] \in V
  <2>1. 0 <= n => after[0] \in V
    BY <1>7
  <2>2. ASSUME NEW k \in 0 + 1 .. n, after[k - 1] \in V PROVE after[k] \in V
    <3>1. k \in 0 .. n /\ k # 0
      OBVIOUS
    <3>2. after[k] = MakeAligned(after[k - 1], a) + size
      BY <1>7, <3>1
    <3>3. QED
      BY <1>2, <2>2, <3>2
  <2>3. 0 \in Int /\ n \in Int
    OBVIOUS
  <2> HIDE DEF V, Is
  <2>4. QED
    BY <2>1, <2>2, <2>3, EachStepKept
<1>10. n \in 0 .. n
  OBVIOUS
<1>11. QED
  BY <1>8, <1>9, <1>10

(* The fields of a tag, by its type.                                       *)
LEMMA TagFields ==
  ASSUME NEW t \in Tags
  PROVE  /\ t.type = "module" => t.end \in Nat
         /\ t.type = "mmap" => t.entries \in Seq(Regions)
<1>1. CASE t \in [type : {"meminfo"}, lower : Nat, upper : Nat]
  <2>1. t.type = "meminfo"
    BY <1>1
  <2>2. QED
    BY <2>1
<1>2. CASE t \in [type : {"module"}, start : Nat, end : Nat, length : Nat]
  <2>1. t.type = "module" /\ t.end \in Nat
    BY <1>2
  <2>2. QED
    BY <2>1
<1>3. CASE t \in [type : {"mmap"}, entries : Seq(Regions)]
  <2>1. t.type = "mmap" /\ t.entries \in Seq(Regions)
    BY <1>3
  <2>2. QED
    BY <2>1
<1>4. CASE t \in [type : STRING \ {"meminfo", "module", "mmap"}]
  <2>1. t.type \notin {"meminfo", "module", "mmap"}
    BY <1>4
  <2>2. QED
    BY <2>1
<1>5. QED
  BY <1>1, <1>2, <1>3, <1>4 DEF Tags

\* A module ends no later than at `end'.
EndsBy(tags, i, end) == \A t \in 1 .. i : tags[t].type = "module" => tags[t].end <= end

(* discover_boot_modules finds the end of the last module in memory.       *)
LEMMA ModulesEndIs ==
  ASSUME NEW tags \in Seq(Tags)
  PROVE  ModulesEnd(tags) \in Nat /\ EndsBy(tags, Len(tags), ModulesEnd(tags))
<1> DEFINE n == Len(tags)
           Next1(i, v) == IF tags[i].type = "module" THEN Greater(v, tags[i].end) ELSE v
           steps == [k \in 0 + 1 .. n |-> [v \in Nat |-> Next1(k, v)]]
<1>1. n \in Nat
  BY LenProperties
<1>2. ASSUME NEW i \in 1 .. n PROVE tags[i] \in Tags
  BY ElementOfSeq
<1> HIDE DEF n
<1>3. ASSUME NEW i \in 1 .. n, NEW v \in Nat
      PROVE  /\ Next1(i, v) \in Nat /\ Next1(i, v) >= v
             /\ tags[i].type = "module" => tags[i].end <= Next1(i, v)
  <2>1. tags[i].type = "module" => tags[i].end \in Nat
    BY <1>2, TagFields
  <2>2. QED
    BY <2>1 DEF Greater
<1> HIDE DEF Next1
<1>4. MapsAt(steps, Nat, 0, n)
  BY <1>1, <1>3 DEF MapsAt
<1>5. ASSUME NEW k \in 1 .. n, NEW v \in Nat PROVE steps[k][v] = Next1(k, v)
  BY <1>1
<1> HIDE DEF steps
<1>6. PICK g : Unfolds(g, Nat, steps, 0, 0, n)
  <2>1. 0 \in Int /\ 0 \in Nat /\ n \in Int
    BY <1>1
  <2>2. QED
    BY <1>4, <2>1, Unfolding, Zenon
<1> DEFINE Is(h) == h = [i \in 0 .. n |-> IF i = 0 THEN 0 ELSE Next1(i, h[i - 1])]
           after == CHOOSE h : Is(h)
<1>7. Is(g)
  <2>1. ASSUME NEW i \in 0 .. n PROVE g[i] = IF i = 0 THEN 0 ELSE Next1(i, g[i - 1])
    <3>1. CASE i = 0
      BY <1>6, <3>1 DEF Unfolds
    <3>2. CASE i # 0
      <4>1. i \in 1 .. n /\ i - 1 \in 0 .. n
        BY <1>1, <3>2
      <4>2. g[i - 1] \in Nat /\ g[i] = steps[i][g[i - 1]]
        BY <1>6, <3>2, <4>1 DEF Unfolds
      <4>3. QED
        BY <1>5, <3>2, <4>1, <4>2
    <3>3. QED
      BY <3>1, <3>2
  <2>2. g = [i \in 0 .. n |-> g[i]]
    BY <1>6 DEF Unfolds
  <2>3. QED
    BY <2>1, <2>2
<1>8. Is(after)
  <2> HIDE DEF Is
  <2>1. QED
    BY <1>7
<1>9. ModulesEnd(tags) = after[n]
  BY DEF ModulesEnd, OverTags, Next1, n
<1> HIDE DEF after
<1> DEFINE S == {i \in 0 .. n : after[i] \in Nat /\ EndsBy(tags, i, after[i])}
<1>10. \A i \in 0 .. n : i \in S
  <2>1. 0 \in S
    <3>1. after[0] = 0 /\ 0 \in 0 .. n
      BY <1>1, <1>8
    <3>2. EndsBy(tags, 0, 0)
      BY DEF EndsBy
    <3>3. QED
      BY <3>1, <3>2
  <2>2. ASSUME NEW k \in 1 .. n, k - 1 \in S PROVE k \in S
    <3>1. k \in 0 .. n /\ k - 1 \in 0 .. n
      BY <1>1
    <3>2. after[k - 1] \in Nat /\ EndsBy(tags, k - 1, after[k - 1])
      BY <2>2, <3>1
    <3>3. after[k] = Next1(k, after[k - 1])
      BY <1>8, <3>1
    <3>4. after[k] \in Nat /\ after[k] >= after[k - 1] /\ (tags[k].type = "module" => tags[k].end <= after[k])
      BY <1>3, <3>1, <3>2, <3>3
    <3>5. ASSUME NEW t \in 1 .. k, tags[t].type = "module" PROVE tags[t].end <= after[k]
      <4>1. CASE t = k
        BY <3>4, <3>5, <4>1
      <4>2. CASE t # k
        <5>1. t \in 1 .. k - 1 /\ t \in 1 .. n
          BY <1>1, <4>2
        <5>2. tags[t].end <= after[k - 1] /\ tags[t].end \in Nat
          BY <1>2, <3>2, <3>5, <5>1, TagFields DEF EndsBy
        <5>3. QED
          BY <3>2, <3>4, <5>2
      <4>3. QED
        BY <4>1, <4>2
    <3>6. QED
      BY <3>1, <3>4, <3>5 DEF EndsBy
  <2> HIDE DEF S, Is
  <2>3. QED
    BY <1>1, <2>1, <2>2, Climbed
<1>11. n \in 0 .. n
  BY <1>1
<1>12. QED
  BY <1>9, <1>10, <1>11 DEF n
-----------------------------------------------------------------------------
\* The places of the entries in the first j tags, and what a list of regions
\* is when it has those entries.
Nodes == [type : STRING, start : Nat, end : Nat]
Mapped(tags, j) == UNION {{t} \X DOMAIN tags[t].entries : t \in {t \in 1 .. j : tags[t].type = "mmap"}}
Lists(list, tags, j) ==
  /\ list \in Seq(Nodes)
  /\ IsFiniteSet(Mapped(tags, j)) /\ Len(list) = Cardinality(Mapped(tags, j))
  /\ \A k \in Mapped(tags, j) : \E i \in DOMAIN list : list[i] = Region(tags[k[1]].entries[k[2]])
  /\ \A i \in DOMAIN list : \E k \in Mapped(tags, j) : list[i] = Region(tags[k[1]].entries[k[2]])

(* The entries of the first tags, and those of the next one.               *)
LEMMA MapsUp ==
  ASSUME NEW tags, NEW j \in Nat \ {0}
  PROVE  /\ tags[j].type # "mmap" => Mapped(tags, j) = Mapped(tags, j - 1)
         /\ tags[j].type = "mmap" =>
              /\ Mapped(tags, j) = Mapped(tags, j - 1) \union ({j} \X DOMAIN tags[j].entries)
              /\ Mapped(tags, j - 1) \intersect ({j} \X DOMAIN tags[j].entries) = {}
<1>1. \A t : t \in 1 .. j <=> t \in 1 .. j - 1 \/ t = j
  OBVIOUS
<1>2. \A t \in 1 .. j - 1 : t # j
  OBVIOUS
<1>3. ASSUME NEW k PROVE k \in Mapped(tags, j) <=> k \in Mapped(tags, j - 1)
                           \/ (tags[j].type = "mmap" /\ k \in {j} \X DOMAIN tags[j].entries)
  BY <1>1, Zenon DEF Mapped
<1>4. Mapped(tags, j - 1) \intersect ({j} \X DOMAIN tags[j].entries) = {}
  <2>1. ASSUME NEW k \in Mapped(tags, j - 1) PROVE k[1] # j
    BY <1>2 DEF Mapped
  <2>2. ASSUME NEW k \in {j} \X DOMAIN tags[j].entries PROVE k[1] = j
    OBVIOUS
  <2>3. QED
    BY <2>1, <2>2
<1>5. QED
  BY <1>3, <1>4

(* An entry of a map becomes a region, from its first to its last address. *)
LEMMA RegionIs ==
  ASSUME NEW e \in Regions
  PROVE  /\ Region(e) \in Nodes
         /\ Region(e).type = e.type /\ Region(e).start = e.addr
         /\ Region(e).end = EndOf(e) - 1 /\ EndOf(e) \in Nat
<1>1. e.type \in STRING /\ e.addr \in Nat /\ e.len \in Nat /\ e.len # 0
  BY DEF Regions
<1>2. e.addr + e.len - 1 \in Nat
  BY <1>1
<1>3. QED
  BY <1>1, <1>2 DEF Region, Nodes, EndOf

(* A map adds its entries to the list, in order (memory.c:87-105).         *)
LEMMA ListsOn ==
  ASSUME NEW tags \in Seq(Tags), NEW j \in 1 .. Len(tags), tags[j].type = "mmap",
         NEW list, Lists(list, tags, j - 1)
  PROVE  Lists(list \o [i \in DOMAIN tags[j].entries |-> Region(tags[j].entries[i])], tags, j)
<1> DEFINE es == tags[j].entries
           new == [i \in DOMAIN es |-> Region(es[i])]
           old == Mapped(tags, j - 1)
           more == {j} \X DOMAIN es
           Listing(k) == tags[k[1]].entries[k[2]]
           n == Len(es)
           m == Len(list)
<1>1. j \in Nat \ {0} /\ j - 1 \in Nat
  BY LenProperties
<1>2. es \in Seq(Regions)
  BY ElementOfSeq, TagFields
<1>3. n \in Nat /\ DOMAIN es = 1 .. n /\ \A i \in 1 .. n : es[i] \in Regions
  BY <1>2, LenProperties, ElementOfSeq
<1>4. Mapped(tags, j) = old \union more /\ old \intersect more = {}
  BY <1>1, MapsUp
<1>5. /\ list \in Seq(Nodes) /\ IsFiniteSet(old) /\ m = Cardinality(old)
      /\ \A k \in old : \E i \in DOMAIN list : list[i] = Region(Listing(k))
      /\ \A i \in DOMAIN list : \E k \in old : list[i] = Region(Listing(k))
  BY DEF Lists
<1>6. m \in Nat /\ DOMAIN list = 1 .. m
  BY <1>5, LenProperties
<1>7. new \in Seq(Nodes) /\ Len(new) = n
  <2>1. \A i \in 1 .. n : Region(es[i]) \in Nodes
    BY <1>3, RegionIs
  <2>2. new = [i \in 1 .. n |-> Region(es[i])]
    BY <1>3
  <2> HIDE DEF es, n
  <2>3. QED
    BY <1>3, <2>1, <2>2
<1>8. \A i \in 1 .. n : new[i] = Region(es[i])
  BY <1>3
<1>9. IsFiniteSet(more) /\ Cardinality(more) = n
  <2>1. IsFiniteSet({j}) /\ Cardinality({j}) = 1
    BY FS_Singleton
  <2>2. IsFiniteSet(1 .. n) /\ Cardinality(1 .. n) = n
    <3> HIDE DEF n
    <3>1. n \in Nat /\ n \in Int /\ 1 \in Int
      BY <1>3
    <3>2. IsFiniteSet(1 .. n) /\ Cardinality(1 .. n) = IF 1 > n THEN 0 ELSE n - 1 + 1
      BY <3>1, FS_Interval
    <3>3. QED
      BY <3>1, <3>2
  <2>3. IsFiniteSet({j} \X (1 .. n)) /\ Cardinality({j} \X (1 .. n)) = 1 * n
    BY <2>1, <2>2, FS_Product, ZenonT(60)
  <2> HIDE DEF n
  <2>4. QED
    BY <1>3, <2>3
<1>10. IsFiniteSet(old \union more) /\ Cardinality(old \union more) = m + n
  <2>1. Cardinality({}) = 0
    BY FS_EmptySet
  <2> HIDE DEF old, more, n, m
  <2>2. /\ IsFiniteSet(old \union more)
        /\ Cardinality(old \union more) = m + n - Cardinality(old \intersect more)
    BY <1>5, <1>9, FS_Union
  <2>3. n \in Nat /\ m \in Nat
    BY <1>3, <1>6
  <2>4. Cardinality(old \intersect more) = 0
    BY <1>4, <2>1
  <2>5. QED
    BY <2>2, <2>3, <2>4
<1> HIDE DEF es, new, n, m, old, more
<1> DEFINE both == list \o new
<1>11. /\ both \in Seq(Nodes) /\ Len(both) = m + n
       /\ \A i \in 1 .. m + n : both[i] = IF i <= m THEN list[i] ELSE new[i - m]
  BY <1>5, <1>7, ConcatProperties, Zenon DEF m
<1>12. DOMAIN both = 1 .. m + n
  <2> HIDE DEF both
  <2>1. DOMAIN both = 1 .. Len(both)
    BY <1>11, LenProperties
  <2>2. QED
    BY <1>11, <2>1
<1> HIDE DEF both
<1>13. /\ \A i \in 1 .. m : both[i] = list[i] /\ i \in 1 .. m + n
       /\ \A i \in 1 .. n : both[m + i] = new[i] /\ m + i \in 1 .. m + n
  <2>1. m \in Nat /\ n \in Nat
    BY <1>3, <1>6
  <2>2. ASSUME NEW i \in 1 .. m PROVE both[i] = list[i] /\ i \in 1 .. m + n
    <3>1. i \in 1 .. m + n /\ i <= m
      BY <2>1
    <3>2. QED
      BY <1>11, <3>1
  <2>3. ASSUME NEW i \in 1 .. n PROVE both[m + i] = new[i] /\ m + i \in 1 .. m + n
    <3>1. m + i \in 1 .. m + n /\ ~(m + i <= m) /\ (m + i) - m = i
      BY <2>1
    <3>2. QED
      BY <1>11, <3>1
  <2>4. QED
    BY <2>2, <2>3
<1>14. ASSUME NEW k \in old \union more PROVE \E i \in DOMAIN both : both[i] = Region(Listing(k))
  <2>1. CASE k \in old
    BY <1>5, <1>6, <1>12, <1>13, <2>1
  <2>2. CASE k \in more
    <3>1. k[1] = j /\ k[2] \in 1 .. n
      BY <1>3, <2>2 DEF more
    <3>2. both[m + k[2]] = Region(es[k[2]]) /\ m + k[2] \in DOMAIN both
      BY <1>8, <1>12, <1>13, <3>1
    <3>3. Listing(k) = es[k[2]]
      BY <3>1 DEF es
    <3>4. QED
      BY <3>2, <3>3
  <2>3. QED
    BY <2>1, <2>2
<1>15. ASSUME NEW i \in DOMAIN both PROVE \E k \in old \union more : both[i] = Region(Listing(k))
  <2>1. CASE i \in 1 .. m
    <3>1. both[i] = list[i] /\ i \in DOMAIN list
      BY <1>6, <1>13, <2>1
    <3>2. QED
      BY <1>5, <3>1
  <2>2. CASE i \notin 1 .. m
    <3>1. i - m \in 1 .. n /\ i = m + (i - m)
      <4>1. m \in Nat /\ n \in Nat /\ i \in 1 .. m + n
        BY <1>3, <1>6, <1>12
      <4>2. QED
        BY <2>2, <4>1
    <3> DEFINE d == i - m
    <3> HIDE DEF d
    <3>2. d \in 1 .. n /\ i = m + d
      BY <3>1 DEF d
    <3>3. both[i] = Region(es[d])
      BY <1>8, <1>13, <3>2
    <3>4. <<j, d>> \in more /\ Listing(<<j, d>>) = es[d]
      BY <1>3, <3>2 DEF more, es
    <3>5. QED
      BY <3>3, <3>4
  <2>3. QED
    BY <2>1, <2>2
<1>16. Lists(both, tags, j)
  BY <1>4, <1>10, <1>11, <1>14, <1>15, Zenon DEF Lists
<1>17. QED
  BY <1>16 DEF both, new, es

(* memory_map_init lists the entries of all maps.                          *)
LEMMA MemoryMapIs ==
  ASSUME NEW tags \in Seq(Tags)
  PROVE  Lists(MemoryMap(tags), tags, Len(tags))
<1> DEFINE n == Len(tags)
           Entered(i, list) ==
             IF tags[i].type = "mmap"
             THEN list \o [e \in DOMAIN tags[i].entries |-> Region(tags[i].entries[e])] ELSE list
           V == Seq(Nodes)
           steps == [k \in 0 + 1 .. n |-> [v \in V |-> Entered(k, v)]]
<1>1. n \in Nat
  BY LenProperties
<1>2. ASSUME NEW i \in 1 .. n, NEW v \in V PROVE Entered(i, v) \in V
  <2> DEFINE es == tags[i].entries
             new == [e \in DOMAIN es |-> Region(es[e])]
  <2>1. CASE tags[i].type = "mmap"
    <3>1. es \in Seq(Regions)
      BY <2>1, ElementOfSeq, TagFields
    <3>2. new \in V
      <4>1. Len(es) \in Nat /\ DOMAIN es = 1 .. Len(es) /\ \A e \in 1 .. Len(es) : Region(es[e]) \in Nodes
        BY <3>1, LenProperties, ElementOfSeq, RegionIs
      <4>2. new = [e \in 1 .. Len(es) |-> Region(es[e])]
        BY <4>1
      <4> HIDE DEF es
      <4>3. QED
        BY <4>1, <4>2
    <3>3. Entered(i, v) = v \o new
      BY <2>1
    <3> HIDE DEF new, Entered
    <3>4. QED
      BY <3>2, <3>3
  <2>2. QED
    BY <2>1
<1>3. ASSUME NEW i \in 1 .. n, NEW v, Lists(v, tags, i - 1) PROVE Lists(Entered(i, v), tags, i)
  <2>1. CASE tags[i].type = "mmap"
    <3>1. Entered(i, v) = v \o [e \in DOMAIN tags[i].entries |-> Region(tags[i].entries[e])]
      BY <2>1
    <3> HIDE DEF Entered
    <3>2. QED
      BY <1>3, <2>1, <3>1, ListsOn
  <2>2. CASE tags[i].type # "mmap"
    <3>1. i \in Nat \ {0}
      OBVIOUS
    <3>2. Entered(i, v) = v /\ Mapped(tags, i) = Mapped(tags, i - 1)
      BY <2>2, <3>1, MapsUp
    <3> HIDE DEF Entered
    <3>3. QED
      BY <1>3, <3>2 DEF Lists
  <2>3. QED
    BY <2>1, <2>2
<1> HIDE DEF Entered, n
<1>4. MapsAt(steps, V, 0, n)
  BY <1>1, <1>2 DEF MapsAt
<1>5. ASSUME NEW k \in 1 .. n, NEW v \in V PROVE steps[k][v] = Entered(k, v)
  BY <1>1
<1> HIDE DEF steps
<1>6. PICK g : Unfolds(g, V, steps, <<>>, 0, n)
  <2>1. 0 \in Int /\ <<>> \in V /\ n \in Int
    BY <1>1
  <2> HIDE DEF V
  <2>2. QED
    BY <1>4, <2>1, Unfolding, Zenon
<1> HIDE DEF V
<1> DEFINE Is(h) == h = [i \in 0 .. n |-> IF i = 0 THEN <<>> ELSE Entered(i, h[i - 1])]
           after == CHOOSE h : Is(h)
<1>7. Is(g)
  <2>1. ASSUME NEW i \in 0 .. n PROVE g[i] = IF i = 0 THEN <<>> ELSE Entered(i, g[i - 1])
    <3>1. CASE i = 0
      BY <1>6, <3>1 DEF Unfolds
    <3>2. CASE i # 0
      <4>1. i \in 1 .. n /\ i - 1 \in 0 .. n
        BY <1>1, <3>2
      <4>2. g[i - 1] \in V /\ g[i] = steps[i][g[i - 1]]
        BY <1>6, <3>2, <4>1 DEF Unfolds
      <4>3. QED
        BY <1>5, <3>2, <4>1, <4>2
    <3>3. QED
      BY <3>1, <3>2
  <2>2. g = [i \in 0 .. n |-> g[i]]
    BY <1>6 DEF Unfolds
  <2>3. QED
    BY <2>1, <2>2
<1>8. Is(after)
  <2> HIDE DEF Is
  <2>1. QED
    BY <1>7
<1>9. MemoryMap(tags) = after[n]
  BY DEF MemoryMap, OverTags, Entered, n
<1> HIDE DEF after
<1> DEFINE S == {i \in 0 .. n : Lists(after[i], tags, i)}
<1>10. \A i \in 0 .. n : i \in S
  <2>1. 0 \in S
    <3>1. after[0] = <<>> /\ 0 \in 0 .. n
      BY <1>1, <1>8
    <3>2. Mapped(tags, 0) = {}
      <4>1. 1 .. 0 = {}
        OBVIOUS
      <4>2. QED
        BY <4>1 DEF Mapped
    <3>3. IsFiniteSet({}) /\ Cardinality({}) = 0
      BY FS_EmptySet
    <3>4. <<>> \in Seq(Nodes) /\ Len(<<>>) = 0 /\ DOMAIN <<>> = {}
      OBVIOUS
    <3>5. Lists(<<>>, tags, 0)
      BY <3>2, <3>3, <3>4 DEF Lists
    <3>6. QED
      BY <3>1, <3>5
  <2>2. ASSUME NEW k \in 1 .. n, k - 1 \in S PROVE k \in S
    <3>1. k \in 0 .. n /\ k # 0
      BY <1>1
    <3>2. after[k] = Entered(k, after[k - 1])
      BY <1>8, <3>1
    <3>3. Lists(after[k], tags, k)
      BY <1>3, <2>2, <3>2
    <3>4. QED
      BY <3>1, <3>3
  <2> HIDE DEF S, Is
  <2>3. QED
    BY <1>1, <2>1, <2>2, Climbed
<1>11. n \in 0 .. n
  BY <1>1
<1>12. QED
  BY <1>9, <1>10, <1>11 DEF n
-----------------------------------------------------------------------------
\* What boot has gathered is what the tags and the archive give.
InfoInv ==
  /\ env \in Environments
  /\ info = [size |-> info.size, map |-> info.map, end |-> info.end, files |-> info.files,
             modules |-> info.modules, heapAddr |-> info.heapAddr, heap |-> info.heap]
  /\ step = "memory" \/ HasHeap => info.end = ModulesEnd(env.tags)
  /\ HasHeap =>
       /\ info.map = MemoryMap(env.tags)
       /\ HeapRegion(info.map, StaticEnd(info.map), debug).status = "ok"
       /\ info.heap = HeapRegion(info.map, StaticEnd(info.map), debug).address
  /\ HasModules => info.modules = SavedModules(env.tags)
  /\ info.files = <<>> \/ info.files = Extract(env.archive, Len(env.archive))

\* What InfoInv speaks of stays, and so does the place in boot, or it is one
\* before there is a heap or the last one.
Stays ==
  /\ UNCHANGED <<env, debug, info>>
  /\ \/ step' = step
     \/ step' \in {"tables", "controllers", "hal", "sleeping"}
     \/ step \in {"symbols", "scheduler", "yield"} /\ step' \in {"scheduler", "yield", "yielded"}

(* Then it holds on.                                                       *)
LEMMA StaysKeeps ==
  ASSUME InfoInv, Stays
  PROVE  InfoInv'
<1>1. HasModules' => HasModules
  BY DEF Stays, HasModules
<1>2. HasHeap' => HasHeap
  BY <1>1 DEF Stays, HasHeap, HasModules
<1>3. step' = "memory" => step = "memory"
  BY DEF Stays
<1>4. UNCHANGED <<env, debug, info>>
  BY DEF Stays
<1>5. StaticEnd(info.map)' = StaticEnd(info.map)
  BY <1>4 DEF StaticEnd
<1>6. QED
  BY <1>1, <1>2, <1>3, <1>4, <1>5 DEF InfoInv

(* Nothing but boot gathers (boot.c).                                      *)
LEMMA OthersStay ==
  ASSUME [Next]_vars, ~BootStep
  PROVE  Stays
<1>1. CASE UNCHANGED vars
  BY <1>1 DEF vars, Stays
<1>2. ASSUME NEW n, NEW kind, NEW reg, NEW stack, Interrupt(n, kind, reg, stack)
      PROVE  UNCHANGED <<env, debug, info, step>>
  BY <1>2 DEF Interrupt, Enter, given
<1>3. CASE \E l \in Lines : Take(l)
  BY <1>2, <1>3 DEF Take, Stays
<1>4. CASE \E n \in Exceptions : Fault(n)
  BY <1>2, <1>4 DEF Fault, Stays
<1>5. CASE irq_handler \/ isr_handler \/ call_interrupt_handler \/ pit_handler
  BY <1>5 DEF irq_handler, isr_handler, call_interrupt_handler, pit_handler, Panicked, given, Stays
<1>6. CASE Return
  BY <1>2, <1>6 DEF Return, given, Stays
<1>7. CASE \E p \in Processes : Work(p)
  BY <1>7 DEF Work, given, Stays
<1>8. ASSUME NEW p, process_yield(p) PROVE Stays
  BY <1>8 DEF process_yield, given, Stays
<1>9. QED
  BY <1>1, <1>3, <1>4, <1>5, <1>6, <1>7, <1>8 DEF Next

(* Each step of boot gathers what the next one needs (boot.c:190-209).     *)
LEMMA BootGathers ==
  ASSUME InfoInv, BootStep
  PROVE  InfoInv'
<1> USE DEF given
<1>1. CASE PanicInBoot
  BY <1>1, StaysKeeps DEF PanicInBoot, Panicked, Stays
<1>2. CASE ~PanicInBoot /\ (check_boot_env \/ init_tables \/ init_controllers \/ cpuid_init)
  BY <1>2, StaysKeeps DEF check_boot_env, init_tables, init_controllers, cpuid_init, At, Gathers, Stays
<1>3. CASE init_hal
  <2>1. step' = "modules_1" /\ UNCHANGED env /\ info' = [info EXCEPT !.size = MemoryInit(env.tags)]
    BY <1>3 DEF init_hal
  <2>2. info'.files = info.files /\
        info' = [size |-> info'.size, map |-> info'.map, end |-> info'.end, files |-> info'.files,
             modules |-> info'.modules, heapAddr |-> info'.heapAddr, heap |-> info'.heap]
    BY <2>1 DEF InfoInv
  <2>3. QED
    BY <2>1, <2>2 DEF InfoInv, HasHeap, HasModules
<1>4. CASE init_boot_modules_1
  <2>1. step' = "memory" /\ UNCHANGED env /\ info' = [info EXCEPT !.end = ModulesEnd(env.tags)]
    BY <1>4 DEF init_boot_modules_1, At, Gathers
  <2>2. info'.files = info.files /\ info'.end = ModulesEnd(env.tags) /\
        info' = [size |-> info'.size, map |-> info'.map, end |-> info'.end, files |-> info'.files,
             modules |-> info'.modules, heapAddr |-> info'.heapAddr, heap |-> info'.heap]
    BY <2>1 DEF InfoInv
  <2>3. QED
    BY <2>1, <2>2 DEF InfoInv, HasHeap, HasModules
<1>5. CASE init_memory /\ ~PanicInBoot
  <2> DEFINE map == MemoryMap(env.tags)
             region == HeapRegion(map, StaticEnd(map), debug)
  <2> HIDE DEF map, region
  <2>1. CASE status' = "wild" /\ UNCHANGED <<given, step, info>>
    BY <2>1, StaysKeeps DEF Stays
  <2>2. CASE /\ region.status = "ok" /\ step = "memory" /\ step' = "modules_2"
             /\ UNCHANGED <<env, debug>>
             /\ info' = [info EXCEPT !.map = map, !.heap = region.address,
                                     !.heapAddr = region.address + INITIAL_HEAP_SIZE]
    <3>1. /\ info'.files = info.files /\ info'.end = info.end
          /\ info'.map = map /\ info'.heap = region.address
          /\ info' = [size |-> info'.size, map |-> info'.map, end |-> info'.end, files |-> info'.files,
                 modules |-> info'.modules, heapAddr |-> info'.heapAddr, heap |-> info'.heap]
      BY <2>2 DEF InfoInv
    <3>2. info'.end = ModulesEnd(env.tags)
      BY <2>2, <3>1 DEF InfoInv
    <3>3. StaticEnd(info.map)' = StaticEnd(map)
      BY <3>1 DEF StaticEnd
    <3>4. HeapRegion(info.map, StaticEnd(info.map), debug)' = region
      BY <2>2, <3>1, <3>3 DEF region
    <3>5. ~HasModules'
      BY <2>2 DEF HasModules
    <3>6. info'.map = MemoryMap(env'.tags)
      BY <2>2, <3>1 DEF map
    <3>7. QED
      BY <2>2, <3>1, <3>2, <3>4, <3>5, <3>6 DEF InfoInv
  <2>3. QED
    BY <1>5, <2>1, <2>2 DEF init_memory, Gathers, map, region
<1>6. CASE init_boot_modules_2
  <2>1. /\ step = "modules_2" /\ step' = "initrd" /\ UNCHANGED <<env, debug>>
        /\ info' = [info EXCEPT !.modules = SavedModules(env.tags),
                                !.heapAddr = ModulesAllocated(info.heapAddr, env.tags)]
    BY <1>6 DEF init_boot_modules_2, At, Gathers, InfoInv
  <2>2. /\ info'.files = info.files /\ info'.end = info.end
        /\ info'.map = info.map /\ info'.heap = info.heap /\ info'.modules = SavedModules(env.tags)
        /\ info' = [size |-> info'.size, map |-> info'.map, end |-> info'.end, files |-> info'.files,
                 modules |-> info'.modules, heapAddr |-> info'.heapAddr, heap |-> info'.heap]
    BY <2>1 DEF InfoInv
  <2>3. StaticEnd(info.map)' = StaticEnd(info.map)
    BY <2>2 DEF StaticEnd
  <2>4. HasHeap
    BY <2>1 DEF HasHeap
  <2>5. QED
    BY <2>1, <2>2, <2>3, <2>4 DEF InfoInv
<1>7. CASE load_initrd /\ ~PanicInBoot
  <2>1. /\ step = "initrd" /\ step' = "symbols" /\ UNCHANGED <<env, debug>>
        /\ info' = [info EXCEPT !.files = Extract(env.archive, Len(env.archive))]
    BY <1>7 DEF load_initrd, Gathers
  <2>2. /\ info'.files = Extract(env.archive, Len(env.archive)) /\ info'.end = info.end
        /\ info'.map = info.map /\ info'.heap = info.heap /\ info'.modules = info.modules
        /\ info' = [size |-> info'.size, map |-> info'.map, end |-> info'.end, files |-> info'.files,
                 modules |-> info'.modules, heapAddr |-> info'.heapAddr, heap |-> info'.heap]
    BY <2>1 DEF InfoInv
  <2>3. StaticEnd(info.map)' = StaticEnd(info.map)
    BY <2>2 DEF StaticEnd
  <2>4. HasHeap /\ HasModules
    BY <2>1 DEF HasHeap, HasModules
  <2>5. QED
    BY <2>1, <2>2, <2>3, <2>4 DEF InfoInv
<1>8. CASE (init_symbol_table \/ start_scheduler) /\ ~PanicInBoot
  BY <1>8, StaysKeeps DEF init_symbol_table, start_scheduler, At, Gathers, Stays
<1>9. QED
  BY <1>1, <1>2, <1>3, <1>4, <1>5, <1>6, <1>7, <1>8 DEF BootStep, boot_returns

(* The invariant of what boot gathers (boot.c).                            *)
THEOREM InfoInvHolds == Spec => []InfoInv
<1>1. Init => InfoInv
  <2> SUFFICES ASSUME Init PROVE InfoInv
    OBVIOUS
  <2>1. step = "environment" /\ env \in Environments /\ info.files = <<>>
    BY DEF Init
  <2>2. info = [size |-> info.size, map |-> info.map, end |-> info.end, files |-> info.files,
             modules |-> info.modules, heapAddr |-> info.heapAddr, heap |-> info.heap]
    BY DEF Init
  <2>3. ~HasHeap /\ ~HasModules
    BY <2>1 DEF HasHeap, HasModules
  <2>4. QED
    BY <2>1, <2>2, <2>3 DEF InfoInv
<1>2. InfoInv /\ [Next]_vars => InfoInv'
  BY BootGathers, OthersStay, StaysKeeps
<1>3. QED
  BY <1>1, <1>2, PTL DEF Spec
-----------------------------------------------------------------------------
(* get_heap_region takes a region that the heap fits in (heap.c:106-142).  *)
LEMMA HeapRegionIs ==
  ASSUME NEW map \in Seq(Nodes), NEW heapAddr \in Nat, NEW b,
         HeapRegion(map, heapAddr, b).status = "ok"
  PROVE  \E i \in DOMAIN map : /\ Fits(map[i], heapAddr)
                               /\ HeapRegion(map, heapAddr, b).address = RegionStart(map[i], heapAddr)
<1> DEFINE I == {i \in 1 .. Len(map) : Fits(map[i], heapAddr)}
           i == IF I # {} THEN Min(I) ELSE 0
<1>1. Len(map) \in Nat /\ DOMAIN map = 1 .. Len(map)
  BY LenProperties
<1>2. HeapRegion(map, heapAddr, b) =
        IF b /\ map = <<>> THEN [status |-> "panic"]
        ELSE IF i = 0 THEN [status |-> "wild"]
        ELSE [status |-> "ok", address |-> RegionStart(map[i], heapAddr)]
  BY DEF HeapRegion, SelectInSeq
<1>3. I # {} => Min(I) \in I
  <2> SUFFICES ASSUME I # {} PROVE Min(I) \in I
    OBVIOUS
  <2>1. I \in SUBSET Nat
    BY <1>1
  <2> HIDE DEF I
  <2>2. \E x \in I : \A y \in I : x <= y
    BY <2>1, Least
  <2>3. QED
    BY <2>2 DEF Min
<1> HIDE DEF i
<1>4. HeapRegion(map, heapAddr, b) = [status |-> "ok", address |-> RegionStart(map[i], heapAddr)] /\ i # 0
  <2>1. CASE b /\ map = <<>>
    <3>1. HeapRegion(map, heapAddr, b) = [status |-> "panic"]
      BY <1>2, <2>1, Zenon
    <3>2. QED
      BY <3>1
  <2>2. CASE ~(b /\ map = <<>>) /\ i = 0
    <3>1. HeapRegion(map, heapAddr, b) = [status |-> "wild"]
      BY <1>2, <2>2, Zenon
    <3>2. QED
      BY <3>1
  <2>3. CASE ~(b /\ map = <<>>) /\ i # 0
    BY <1>2, <2>3, Zenon
  <2>4. QED
    BY <2>1, <2>2, <2>3
<1>5. i \in I
  BY <1>3, <1>4 DEF i
<1>6. QED
  BY <1>1, <1>4, <1>5

(* Where the heap begins in a region that it fits in (heap.c:117-130).     *)
LEMMA RegionHolds ==
  ASSUME NEW r \in Nodes, NEW heapAddr \in Nat, Fits(r, heapAddr)
  PROVE  /\ r.type = "available"
         /\ RegionStart(r, heapAddr) \in Nat
         /\ RegionStart(r, heapAddr) >= PAGE_SIZE => (RegionStart(r, heapAddr) % PAGE_SIZE) = 0
         /\ RegionStart(r, heapAddr) + INITIAL_HEAP_SIZE <= r.end
         /\ r.start < Address => r.start <= RegionStart(r, heapAddr)
         /\ (r.start < heapAddr /\ heapAddr <= r.end) => heapAddr <= RegionStart(r, heapAddr)
<1> DEFINE x == IF r.start < heapAddr /\ heapAddr <= r.end THEN heapAddr ELSE (r.start % Address)
<1>1. r.start \in Nat /\ r.end \in Nat
  BY DEF Nodes
<1>2. (r.start % Address) \in Nat /\ (r.start < Address => (r.start % Address) = r.start)
  BY <1>1, Amounts
<1>3. x \in Nat /\ (r.start < Address => r.start <= x) /\ ((r.start < heapAddr /\ heapAddr <= r.end) => x = heapAddr)
  BY <1>1, <1>2
<1>4. RegionStart(r, heapAddr) = MakeAligned(x, PAGE_SIZE)
  BY DEF RegionStart
<1> HIDE DEF x
<1>5. /\ MakeAligned(x, PAGE_SIZE) \in Nat /\ MakeAligned(x, PAGE_SIZE) >= x
      /\ MakeAligned(x, PAGE_SIZE) >= PAGE_SIZE => (MakeAligned(x, PAGE_SIZE) % PAGE_SIZE) = 0
  BY <1>3, Amounts, MovesOn
<1>6. r.type = "available" /\ RegionStart(r, heapAddr) + INITIAL_HEAP_SIZE <= r.end
  BY DEF Fits
<1>7. QED
  BY <1>1, <1>3, <1>4, <1>5, <1>6

(* Static memory ends behind the kernel and every boot module.             *)
LEMMA StaticBehind ==
  ASSUME InfoInv, info.end = ModulesEnd(env.tags), NEW map, Len(map) \in Nat
  PROVE  /\ StaticEnd(map) \in Nat /\ StaticEnd(map) >= KernelEnd
         /\ \A t \in TagsOf("module") : env.tags[t].end \in Nat /\ env.tags[t].end <= StaticEnd(map)
<1>1. env.tags \in Seq(Tags)
  BY EnvironmentAssumption DEF InfoInv
<1>2. Len(env.tags) \in Nat /\ DOMAIN env.tags = 1 .. Len(env.tags)
  BY <1>1, LenProperties
<1>3. info.end \in Nat /\ EndsBy(env.tags, Len(env.tags), info.end)
  BY <1>1, ModulesEndIs
<1> DEFINE x == Greater(KernelEnd, info.end)
<1>4. x \in Nat /\ x >= KernelEnd /\ x >= info.end
  BY <1>3, Amounts DEF Greater
<1>5. StaticInit(info.end) = MakeAligned(x, PAGE_SIZE)
  BY DEF StaticInit
<1> HIDE DEF x
<1>6. StaticInit(info.end) \in Nat /\ StaticInit(info.end) >= x
  BY <1>4, <1>5, Amounts, MovesOn
<1> DEFINE y == StaticInit(info.end) + PagingMemory
<1>7. y \in Nat /\ y >= x
  BY <1>4, <1>6, Amounts
<1>8. StaticEnd(map) = Allocated(y, MemoryMapNode, Len(map)) /\ MemoryMapNode \in Nat
  BY DEF StaticEnd, MemoryMapNode
<1> HIDE DEF y
<1>9. StaticEnd(map) \in Nat /\ StaticEnd(map) >= y
  BY <1>7, <1>8, AllocatedOn
<1>10. ASSUME NEW t \in TagsOf("module") PROVE env.tags[t].end \in Nat /\ env.tags[t].end <= info.end
  <2>1. t \in 1 .. Len(env.tags) /\ env.tags[t].type = "module"
    BY <1>2 DEF TagsOf
  <2>2. env.tags[t] \in Tags
    BY <1>1, <2>1, ElementOfSeq
  <2>3. QED
    BY <1>3, <2>1, <2>2, TagFields DEF EndsBy
<1>11. StaticEnd(map) >= KernelEnd /\ StaticEnd(map) >= info.end
  BY <1>3, <1>4, <1>7, <1>9, Amounts
<1>12. QED
  BY <1>3, <1>9, <1>10, <1>11

(* What is gathered places the heap.                                       *)
LEMMA InfoPlaces ==
  ASSUME InfoInv
  PROVE  HeapPlaced
<1> SUFFICES ASSUME HasHeap PROVE HeapPlaced
  BY DEF HeapPlaced
<1> DEFINE tags == env.tags
           map == info.map
           static == StaticEnd(info.map)
           heap == info.heap
<1>1. /\ tags \in Seq(Tags) /\ map = MemoryMap(tags) /\ info.end = ModulesEnd(env.tags)
      /\ HeapRegion(map, static, debug).status = "ok"
      /\ heap = HeapRegion(map, static, debug).address
  BY EnvironmentAssumption DEF InfoInv
<1>2. Lists(map, tags, Len(tags))
  BY <1>1, MemoryMapIs
<1>3. Mapped(tags, Len(tags)) = Entries
  <2>1. DOMAIN tags = 1 .. Len(tags)
    BY <1>1, LenProperties
  <2>2. QED
    BY <2>1 DEF Mapped, Entries, TagsOf
<1>4. map \in Seq(Nodes) /\ Len(map) \in Nat /\ DOMAIN map = 1 .. Len(map)
  BY <1>2, LenProperties DEF Lists
<1>5. /\ Len(map) = Cardinality(Entries)
      /\ \A k \in Entries : \E i \in DOMAIN map : map[i] = Region(EntryOf(k))
      /\ \A i \in DOMAIN map : \E k \in Entries : map[i] = Region(EntryOf(k))
  BY <1>2, <1>3 DEF Lists, EntryOf
<1>6. ASSUME NEW k \in Entries PROVE EntryOf(k) \in Regions
  <2>1. k[1] \in DOMAIN tags /\ tags[k[1]].type = "mmap" /\ k[2] \in DOMAIN tags[k[1]].entries
    BY DEF Entries, TagsOf
  <2>2. tags[k[1]] \in Tags
    BY <1>1, <2>1, LenProperties, ElementOfSeq
  <2>3. tags[k[1]].entries \in Seq(Regions)
    BY <2>1, <2>2, TagFields
  <2>4. QED
    BY <2>1, <2>3, LenProperties, ElementOfSeq DEF EntryOf
<1>7. /\ static \in Nat /\ static >= KernelEnd
      /\ \A t \in TagsOf("module") : env.tags[t].end \in Nat /\ env.tags[t].end <= static
  BY <1>1, <1>4, StaticBehind
<1>8. PICK i \in DOMAIN map : Fits(map[i], static) /\ heap = RegionStart(map[i], static)
  <2> HIDE DEF map, static, heap
  <2>1. QED
    BY <1>1, <1>4, <1>7, HeapRegionIs
<1>9. PICK k \in Entries : map[i] = Region(EntryOf(k))
  BY <1>5
<1>10. /\ map[i] \in Nodes
       /\ map[i].type = EntryOf(k).type /\ map[i].start = EntryOf(k).addr
       /\ map[i].end = EndOf(EntryOf(k)) - 1 /\ EndOf(EntryOf(k)) \in Nat
  BY <1>6, <1>9, RegionIs
<1>11. /\ map[i].type = "available" /\ heap \in Nat
       /\ heap >= PAGE_SIZE => (heap % PAGE_SIZE) = 0
       /\ heap + INITIAL_HEAP_SIZE <= map[i].end
       /\ map[i].start < Address => map[i].start <= heap
       /\ (map[i].start < static /\ static <= map[i].end) => static <= heap
  <2> HIDE DEF map, static, heap
  <2>1. QED
    BY <1>7, <1>8, <1>10, RegionHolds
<1>12. ASSUME NEW e \in Entries
       PROVE  \E j \in DOMAIN map : /\ map[j].type = EntryOf(e).type
                                    /\ map[j].start = EntryOf(e).addr /\ map[j].end = EndOf(EntryOf(e)) - 1
  BY <1>5, <1>6, RegionIs
<1>13. EntryOf(k).type = "available" /\ heap + INITIAL_HEAP_SIZE <= EndOf(EntryOf(k))
  BY <1>10, <1>11, Amounts
<1>14. EntryOf(k).addr < Address => EntryOf(k).addr <= heap
  BY <1>10, <1>11
<1>15. ASSUME EntryOf(k).addr < static, static < EndOf(EntryOf(k))
       PROVE  /\ heap >= KernelEnd /\ heap >= static
              /\ \A t \in TagsOf("module") : heap >= env.tags[t].end
  <2>1. static <= map[i].end
    BY <1>7, <1>10, <1>15
  <2>2. static <= heap
    BY <1>10, <1>11, <1>15, <2>1
  <2> HIDE DEF map, static, heap
  <2>3. heap >= KernelEnd /\ heap >= static
    BY <1>7, <1>11, <2>2, Amounts
  <2>4. \A t \in TagsOf("module") : heap >= env.tags[t].end
    BY <1>7, <1>11, <2>2
  <2>5. QED
    BY <2>3, <2>4
<1>16. (\A e \in Entries : EntryOf(e).type = "available" => EntryOf(e).addr < Address) => EntryOf(k).addr <= heap
  BY <1>13, <1>14
<1>17. heap >= PAGE_SIZE => (heap % PAGE_SIZE) = 0
  BY <1>11
<1>18. QED
  <2> HIDE DEF tags
  <2>1. HeapPlaced <=>
    /\ Len(map) = Cardinality(Entries)
    /\ \A e \in Entries : \E j \in DOMAIN map :
         /\ map[j].type = EntryOf(e).type
         /\ map[j].start = EntryOf(e).addr /\ map[j].end = EndOf(EntryOf(e)) - 1
    /\ heap >= PAGE_SIZE => (heap % PAGE_SIZE) = 0
    /\ (\A e \in Entries : EntryOf(e).type = "available" => EntryOf(e).addr < Address) =>
         \E e \in Entries :
           /\ EntryOf(e).type = "available"
           /\ EntryOf(e).addr <= heap /\ heap + INITIAL_HEAP_SIZE <= EndOf(EntryOf(e))
           /\ (EntryOf(e).addr < static /\ static < EndOf(EntryOf(e))) =>
                /\ heap >= KernelEnd /\ heap >= static
                /\ \A t \in TagsOf("module") : heap >= env.tags[t].end
    BY Zenon DEF HeapPlaced
  <2> HIDE DEF map, static, heap
  <2>2. QED
    BY <1>5, <1>12, <1>13, <1>15, <1>16, <1>17, <2>1, Zenon

(* The memory map is whole, and the heap lies where memory is free         *)
(* (memory.c:72-133, heap.c:106-142).                                      *)
THEOREM HeapIsPlaced == Spec => []HeapPlaced
BY InfoInvHolds, InfoPlaces, PTL
-----------------------------------------------------------------------------
\* The modules among the first j tags, and a list that has them in order.
Mods(tags, j) == {t \in 1 .. j : tags[t].type = "module"}
Gathered(list, tags, j) ==
  /\ list \in Seq(Tags)
  /\ IsFiniteSet(Mods(tags, j)) /\ Len(list) = Cardinality(Mods(tags, j))
  /\ \A t \in Mods(tags, j) : /\ Cardinality(Mods(tags, t)) \in 1 .. Len(list)
                              /\ list[Cardinality(Mods(tags, t))] = tags[t]

(* The list grows by the next module (boot_module.c:65-87).                *)
LEMMA SavesOn ==
  ASSUME NEW tags \in Seq(Tags), NEW j \in 1 .. Len(tags), NEW list, Gathered(list, tags, j - 1)
  PROVE  Gathered(IF tags[j].type = "module" THEN Append(list, tags[j]) ELSE list, tags, j)
<1> DEFINE old == Mods(tags, j - 1)
           n == Len(list)
<1>1. /\ list \in Seq(Tags) /\ IsFiniteSet(old) /\ n = Cardinality(old)
      /\ \A t \in old : Cardinality(Mods(tags, t)) \in 1 .. n /\ list[Cardinality(Mods(tags, t))] = tags[t]
  BY DEF Gathered
<1>2. tags[j] \in Tags /\ n \in Nat /\ Len(tags) \in Nat
  BY <1>1, ElementOfSeq, LenProperties
<1>3. \A t : t \in 1 .. j <=> t \in 1 .. j - 1 \/ t = j
  BY <1>2
<1>4. CASE tags[j].type # "module"
  <2>1. Mods(tags, j) = old
    BY <1>3, <1>4 DEF Mods
  <2>2. QED
    BY <1>1, <1>4, <2>1 DEF Gathered
<1>5. CASE tags[j].type = "module"
  <2> DEFINE more == Append(list, tags[j])
  <2>1. Mods(tags, j) = old \union {j} /\ j \notin old
    <3>1. j \notin 1 .. j - 1
      BY <1>2
    <3>2. QED
      BY <1>3, <1>5, <3>1 DEF Mods
  <2>2. IsFiniteSet(old \union {j}) /\ Cardinality(old \union {j}) = Cardinality(old) + 1
    BY <1>1, <2>1, FS_AddElement
  <2>3. /\ more \in Seq(Tags) /\ Len(more) = n + 1
        /\ \A i \in 1 .. n : more[i] = list[i]
        /\ more[n + 1] = tags[j]
    BY <1>1, <1>2, AppendProperties
  <2> HIDE DEF more, n, old
  <2>4. ASSUME NEW t \in old
        PROVE  Cardinality(Mods(tags, t)) \in 1 .. n + 1 /\ more[Cardinality(Mods(tags, t))] = tags[t]
    BY <1>1, <1>2, <2>3
  <2>5. Cardinality(Mods(tags, j)) = n + 1 /\ n + 1 \in 1 .. n + 1
    BY <1>1, <1>2, <2>1, <2>2
  <2>6. \A t \in Mods(tags, j) : /\ Cardinality(Mods(tags, t)) \in 1 .. n + 1
                                 /\ more[Cardinality(Mods(tags, t))] = tags[t]
    BY <2>1, <2>3, <2>4, <2>5
  <2>7. Gathered(more, tags, j)
    BY <2>1, <2>2, <2>3, <2>5, <2>6 DEF Gathered
  <2>8. QED
    BY <1>5, <2>7 DEF more
<1>6. QED
  BY <1>4, <1>5

(* save_boot_modules keeps the modules in order.                           *)
LEMMA SavedModulesIs ==
  ASSUME NEW tags \in Seq(Tags)
  PROVE  /\ SavedModules(tags).count = Cardinality(Mods(tags, Len(tags)))
         /\ \A t \in Mods(tags, Len(tags)) : SavedModules(tags).list[Cardinality(Mods(tags, t))] = tags[t]
<1> DEFINE n == Len(tags)
           V == Seq(Tags)
           Saved(i, list) == IF tags[i].type = "module" THEN Append(list, tags[i]) ELSE list
           steps == [k \in 0 + 1 .. n |-> [v \in V |-> Saved(k, v)]]
<1>1. n \in Nat
  BY LenProperties
<1>2. ASSUME NEW i \in 1 .. n, NEW v \in V PROVE Saved(i, v) \in V
  <2>1. tags[i] \in Tags
    BY ElementOfSeq
  <2>2. Append(v, tags[i]) \in V
    BY <2>1, AppendProperties
  <2>3. QED
    BY <2>2
<1>3. ASSUME NEW i \in 1 .. n, NEW v, Gathered(v, tags, i - 1) PROVE Gathered(Saved(i, v), tags, i)
  BY <1>3, SavesOn
<1> HIDE DEF Saved, n
<1>4. MapsAt(steps, V, 0, n)
  BY <1>1, <1>2 DEF MapsAt
<1>5. ASSUME NEW k \in 1 .. n, NEW v \in V PROVE steps[k][v] = Saved(k, v)
  BY <1>1
<1> HIDE DEF steps
<1>6. PICK g : Unfolds(g, V, steps, <<>>, 0, n)
  <2>1. 0 \in Int /\ <<>> \in V /\ n \in Int
    BY <1>1
  <2> HIDE DEF V
  <2>2. QED
    BY <1>4, <2>1, Unfolding, Zenon
<1> HIDE DEF V
<1> DEFINE Is(h) == h = [i \in 0 .. n |-> IF i = 0 THEN <<>> ELSE Saved(i, h[i - 1])]
           after == CHOOSE h : Is(h)
<1>7. Is(g)
  <2>1. ASSUME NEW i \in 0 .. n PROVE g[i] = IF i = 0 THEN <<>> ELSE Saved(i, g[i - 1])
    <3>1. CASE i = 0
      BY <1>6, <3>1 DEF Unfolds
    <3>2. CASE i # 0
      <4>1. i \in 1 .. n /\ i - 1 \in 0 .. n
        BY <1>1, <3>2
      <4>2. g[i - 1] \in V /\ g[i] = steps[i][g[i - 1]]
        BY <1>6, <3>2, <4>1 DEF Unfolds
      <4>3. QED
        BY <1>5, <3>2, <4>1, <4>2
    <3>3. QED
      BY <3>1, <3>2
  <2>2. g = [i \in 0 .. n |-> g[i]]
    BY <1>6 DEF Unfolds
  <2>3. QED
    BY <2>1, <2>2
<1>8. Is(after)
  <2> HIDE DEF Is
  <2>1. QED
    BY <1>7
<1>9. SavedModules(tags) = [list |-> Append(after[n], [type |-> "unfilled"]), count |-> Len(after[n])]
  BY DEF SavedModules, OverTags, Saved, n
<1> HIDE DEF after
<1> DEFINE S == {i \in 0 .. n : Gathered(after[i], tags, i)}
<1>10. \A i \in 0 .. n : i \in S
  <2>1. 0 \in S
    <3>1. after[0] = <<>> /\ 0 \in 0 .. n
      BY <1>1, <1>8
    <3>2. Mods(tags, 0) = {}
      BY DEF Mods
    <3>3. IsFiniteSet({}) /\ Cardinality({}) = 0
      BY FS_EmptySet
    <3>4. <<>> \in Seq(Tags) /\ Len(<<>>) = 0
      OBVIOUS
    <3>5. Gathered(<<>>, tags, 0)
      BY <3>2, <3>3, <3>4 DEF Gathered
    <3>6. QED
      BY <3>1, <3>5
  <2>2. ASSUME NEW k \in 1 .. n, k - 1 \in S PROVE k \in S
    <3>1. k \in 0 .. n /\ k # 0
      BY <1>1
    <3>2. after[k] = Saved(k, after[k - 1])
      BY <1>8, <3>1
    <3>3. Gathered(after[k], tags, k)
      BY <1>3, <2>2, <3>2
    <3>4. QED
      BY <3>1, <3>3
  <2> HIDE DEF S, Is
  <2>3. QED
    BY <1>1, <2>1, <2>2, Climbed
<1>11. n \in 0 .. n
  BY <1>1
<1> DEFINE list == after[n]
           all == Append(list, [type |-> "unfilled"])
<1>12. Gathered(list, tags, n)
  BY <1>10, <1>11
<1> HIDE DEF list
<1>13. list \in Seq(Tags) /\ Len(list) \in Nat
  BY <1>12, LenProperties DEF Gathered
<1>14. \A i \in 1 .. Len(list) : all[i] = list[i]
  <2> DEFINE unfilled == [type |-> "unfilled"]
             T == Tags \union {unfilled}
  <2> HIDE DEF unfilled
  <2>1. list \in Seq(T)
    <3>1. list = [i \in 1 .. Len(list) |-> list[i]] /\ \A i \in 1 .. Len(list) : list[i] \in T
      BY <1>13, LenProperties, ElementOfSeq
    <3> HIDE DEF T
    <3>2. QED
      BY <1>13, <3>1
  <2>2. \A i \in 1 .. Len(list) : Append(list, unfilled)[i] = list[i]
    BY <2>1, AppendProperties
  <2>3. QED
    BY <2>2 DEF unfilled
<1> HIDE DEF all
<1>15. SavedModules(tags).list = all /\ SavedModules(tags).count = Len(list)
  BY <1>9 DEF all, list
<1>16. QED
  BY <1>12, <1>14, <1>15 DEF Gathered, n
-----------------------------------------------------------------------------
(* Every number is a multiple and a remainder.                             *)
LEMMA Divided ==
  ASSUME NEW w \in Nat \ {0}, NEW v \in Int
  PROVE  \E q \in Int, r \in 0 .. w - 1 : v = w * q + r /\ v \div w = q /\ (v % w) = r
OBVIOUS

(* There is only one way to write it so.                                   *)
LEMMA Remainder ==
  ASSUME NEW w \in Nat \ {0}, NEW k \in Int, NEW r \in 0 .. w - 1, NEW v \in Int, v = w * k + r
  PROVE  (v % w) = r /\ v \div w = k
<1>1. PICK q \in Int, s \in 0 .. w - 1 : v = w * q + s /\ v \div w = q /\ (v % w) = s
  BY Divided
<1> DEFINE d == k - q
<1>2. d \in Int /\ w * k = w * q + w * d
  OBVIOUS
<1>3. (d >= 1 => w * d >= w) /\ (d <= -1 => w * d <= -w) /\ (d = 0 => w * d = 0) /\ w * d \in Int
  <2> HIDE DEF d
  <2>1. QED
    BY <1>2
<1>4. w * d = s - r
  <2>1. w * q \in Int /\ w * k \in Int /\ w * d \in Int
    BY <1>2
  <2> HIDE DEF d
  <2>2. QED
    BY <1>1, <1>2, <2>1
<1> HIDE DEF d
<1>5. d = 0
  BY <1>2, <1>3, <1>4
<1>6. s = r
  BY <1>3, <1>4, <1>5
<1>7. k = q
  BY <1>5 DEF d
<1>8. QED
  BY <1>1, <1>6, <1>7

(* A step of octal digits can be taken on remainders.                      *)
LEMMA Remainders ==
  ASSUME NEW w \in Nat \ {0}, NEW v \in Int, NEW c \in Int
  PROVE  ((8 * (v % w) + c) % w) = ((8 * v + c) % w)
<1>1. PICK q \in Int, r \in 0 .. w - 1 : v = w * q + r /\ (v % w) = r
  BY Divided
<1> DEFINE x == 8 * r + c
           y == 8 * v + c
<1>2. x \in Int /\ y \in Int /\ y = 8 * (w * q) + x
  BY <1>1
<1> HIDE DEF x
<1>3. PICK p \in Int, s \in 0 .. w - 1 : x = w * p + s /\ (x % w) = s
  BY <1>2, Divided
<1> DEFINE k == 8 * q + p
<1>4. k \in Int /\ y = w * k + s
  <2>1. w * q \in Int /\ w * p \in Int /\ w * (8 * q + p) = 8 * (w * q) + w * p
    BY <1>3
  <2> HIDE DEF y
  <2>2. QED
    BY <1>2, <1>3, <2>1
<1> HIDE DEF k, y
<1>5. (y % w) = s
  <2>1. ASSUME NEW b \in Int, b = w * k + s PROVE (b % w) = s
    BY <1>4, <2>1, Remainder
  <2>2. y \in Int /\ y = w * k + s
    BY <1>2, <1>4
  <2>3. QED
    BY <2>1, <2>2
<1>6. (y % w) = (x % w)
  BY <1>3, <1>5
<1>7. QED
  BY <1>1, <1>6 DEF x, y
-----------------------------------------------------------------------------
\* The values of the digits that were read so far, and what tar_oct2dec has
\* of them.
Octals(v, s) ==
  v \in [0 .. Len(s) -> Int] /\ v[0] = 0 /\ \A i \in 1 .. Len(s) : v[i] = 8 * v[i - 1] + s[i] - 48
Read(v, s) ==
  /\ v \in [0 .. Len(s) -> 0 .. Word - 1] /\ v[0] = 0
  /\ \A i \in 1 .. Len(s) : v[i] = (8 * v[i - 1] + s[i] - 48) % Word

(* Octal is what it says.                                                  *)
LEMMA OctalIs ==
  ASSUME NEW s \in Seq(Nat)
  PROVE  \E v : Octals(v, s) /\ Octal(s) = v[Len(s)]
<1> DEFINE n == Len(s)
           steps == [k \in 0 + 1 .. n |-> [v \in Int |-> 8 * v + s[k] - 48]]
<1>1. n \in Nat /\ \A i \in 1 .. n : s[i] \in Nat
  BY LenProperties, ElementOfSeq
<1> HIDE DEF n
<1>2. MapsAt(steps, Int, 0, n)
  BY <1>1 DEF MapsAt
<1>3. ASSUME NEW k \in 1 .. n, NEW v \in Int PROVE steps[k][v] = 8 * v + s[k] - 48
  BY <1>1
<1> HIDE DEF steps
<1>4. PICK g : Unfolds(g, Int, steps, 0, 0, n)
  <2>1. 0 \in Int /\ n \in Int
    BY <1>1
  <2>2. QED
    BY <1>2, <2>1, Unfolding, Zenon
<1> DEFINE Is(h) == h = [i \in 0 .. n |-> IF i = 0 THEN 0 ELSE 8 * h[i - 1] + s[i] - 48]
           value == CHOOSE h : Is(h)
<1>5. Is(g)
  <2>1. ASSUME NEW i \in 0 .. n PROVE g[i] = IF i = 0 THEN 0 ELSE 8 * g[i - 1] + s[i] - 48
    <3>1. CASE i = 0
      BY <1>4, <3>1 DEF Unfolds
    <3>2. CASE i # 0
      <4>1. i \in 1 .. n /\ i - 1 \in 0 .. n
        BY <1>1, <3>2
      <4>2. g[i - 1] \in Int /\ g[i] = steps[i][g[i - 1]]
        BY <1>4, <3>2, <4>1 DEF Unfolds
      <4>3. QED
        BY <1>3, <3>2, <4>1, <4>2
    <3>3. QED
      BY <3>1, <3>2
  <2>2. g = [i \in 0 .. n |-> g[i]]
    BY <1>4 DEF Unfolds
  <2>3. QED
    BY <2>1, <2>2
<1>6. Is(value)
  <2> HIDE DEF Is
  <2>1. QED
    BY <1>5
<1>7. Octal(s) = value[n]
  BY DEF Octal, n
<1> HIDE DEF value
<1>8. value[0] = 0 /\ \A i \in 1 .. n : value[i] = 8 * value[i - 1] + s[i] - 48
  <2>1. value[0] = 0
    BY <1>1, <1>6
  <2>2. ASSUME NEW i \in 1 .. n PROVE value[i] = 8 * value[i - 1] + s[i] - 48
    <3>1. i \in 0 .. n /\ i # 0
      BY <1>1
    <3>2. QED
      BY <1>6, <3>1
  <2>3. QED
    BY <2>1, <2>2
<1>9. \A i \in 0 .. n : i \in {j \in 0 .. n : value[j] \in Int}
  <2> DEFINE S == {j \in 0 .. n : value[j] \in Int}
  <2>1. 0 \in S
    BY <1>1, <1>8
  <2>2. ASSUME NEW k \in 1 .. n, k - 1 \in S PROVE k \in S
    <3>1. k \in 0 .. n /\ s[k] \in Int
      BY <1>1
    <3>2. value[k] = 8 * value[k - 1] + s[k] - 48 /\ value[k - 1] \in Int
      BY <1>8, <2>2
    <3>3. QED
      BY <3>1, <3>2
  <2> HIDE DEF S, Is
  <2>3. \A i \in 0 .. n : i \in S
    BY <1>1, <2>1, <2>2, Climbed
  <2>4. QED
    BY <2>3 DEF S
<1>10. value \in [0 .. n -> Int]
  <2>1. value = [i \in 0 .. n |-> value[i]]
    BY <1>6
  <2> HIDE DEF Is
  <2>2. QED
    BY <1>9, <2>1
<1> HIDE DEF Is
<1>11. Octals(value, s)
  BY <1>8, <1>10 DEF Octals, n
<1>12. QED
  BY <1>7, <1>11 DEF n

(* So is tar_oct2dec (tar.c:38-47).                                        *)
LEMMA ReadIs ==
  ASSUME NEW s \in Seq(Nat)
  PROVE  \E v : Read(v, s) /\ tar_oct2dec(s) = v[Len(s)]
<1> DEFINE n == Len(s)
           V == 0 .. Word - 1
           steps == [k \in 0 + 1 .. n |-> [v \in V |-> (8 * v + s[k] - 48) % Word]]
<1>1. n \in Nat /\ \A i \in 1 .. n : s[i] \in Nat
  BY LenProperties, ElementOfSeq
<1> HIDE DEF n
<1>2. ASSUME NEW c \in Int PROVE (c % Word) \in V
  BY Amounts
<1>3. ASSUME NEW k \in 1 .. n, NEW v \in V PROVE ((8 * v + s[k] - 48) % Word) \in V
  <2>1. s[k] \in Int /\ v \in Int
    BY <1>1, Amounts
  <2> HIDE DEF V
  <2>2. 8 * v + s[k] - 48 \in Int
    BY <2>1
  <2>3. QED
    BY <1>2, <2>2
<1>4. MapsAt(steps, V, 0, n)
  <2> HIDE DEF V
  <2>1. QED
    BY <1>1, <1>3 DEF MapsAt
<1>5. ASSUME NEW k \in 1 .. n, NEW v \in V PROVE steps[k][v] = (8 * v + s[k] - 48) % Word
  BY <1>1
<1> HIDE DEF steps
<1>6. PICK g : Unfolds(g, V, steps, 0, 0, n)
  <2>1. 0 \in Int /\ n \in Int /\ 0 \in V
    BY <1>1, Amounts
  <2> HIDE DEF V
  <2>2. QED
    BY <1>4, <2>1, Unfolding, Zenon
<1> HIDE DEF V
<1> DEFINE Is(h) == h = [i \in 0 .. n |-> IF i = 0 THEN 0 ELSE (8 * h[i - 1] + s[i] - 48) % Word]
           dec == CHOOSE h : Is(h)
<1>7. Is(g)
  <2>1. ASSUME NEW i \in 0 .. n PROVE g[i] = IF i = 0 THEN 0 ELSE (8 * g[i - 1] + s[i] - 48) % Word
    <3>1. CASE i = 0
      BY <1>6, <3>1 DEF Unfolds
    <3>2. CASE i # 0
      <4>1. i \in 1 .. n /\ i - 1 \in 0 .. n
        BY <1>1, <3>2
      <4>2. g[i - 1] \in V /\ g[i] = steps[i][g[i - 1]]
        BY <1>6, <3>2, <4>1 DEF Unfolds
      <4>3. QED
        BY <1>5, <3>2, <4>1, <4>2
    <3>3. QED
      BY <3>1, <3>2
  <2>2. g = [i \in 0 .. n |-> g[i]]
    BY <1>6 DEF Unfolds
  <2>3. QED
    BY <2>1, <2>2
<1>8. Is(dec)
  <2> HIDE DEF Is
  <2>1. QED
    BY <1>7
<1>9. tar_oct2dec(s) = dec[n]
  BY DEF tar_oct2dec, n
<1> HIDE DEF dec
<1>10. dec[0] = 0 /\ \A i \in 1 .. n : dec[i] = (8 * dec[i - 1] + s[i] - 48) % Word
  <2>1. dec[0] = 0
    BY <1>1, <1>8
  <2>2. ASSUME NEW i \in 1 .. n PROVE dec[i] = (8 * dec[i - 1] + s[i] - 48) % Word
    <3>1. i \in 0 .. n /\ i # 0
      BY <1>1
    <3>2. QED
      BY <1>8, <3>1
  <2>3. QED
    BY <2>1, <2>2
<1>11. \A i \in 0 .. n : dec[i] \in V
  <2>1. 0 <= n => dec[0] \in V
    BY <1>10, Amounts DEF V
  <2>2. ASSUME NEW k \in 0 + 1 .. n, dec[k - 1] \in V PROVE dec[k] \in V
    <3>1. k \in 1 .. n
      OBVIOUS
    <3>2. QED
      BY <1>3, <1>10, <2>2, <3>1
  <2>3. 0 \in Int /\ n \in Int
    BY <1>1
  <2> HIDE DEF Is
  <2>4. QED
    BY <2>1, <2>2, <2>3, EachStepKept
<1>12. dec = [i \in 0 .. n |-> dec[i]]
  BY <1>8
<1> HIDE DEF Is
<1>13. dec \in [0 .. n -> V]
  BY <1>11, <1>12
<1>14. Read(dec, s)
  BY <1>10, <1>13 DEF Read, V, n
<1>15. QED
  BY <1>9, <1>14 DEF n

(* A size is read as its value, as far as 32 bits hold it.                 *)
LEMMA SizeIs ==
  ASSUME NEW s \in Seq(Nat)
  PROVE  /\ Octal(s) \in Int
         /\ tar_oct2dec(s) = (Octal(s) % Word)
         /\ tar_oct2dec(s) \in 0 .. Word - 1
<1>1. PICK v : Octals(v, s) /\ Octal(s) = v[Len(s)]
  BY OctalIs
<1>2. PICK d : Read(d, s) /\ tar_oct2dec(s) = d[Len(s)]
  BY ReadIs
<1> DEFINE n == Len(s)
<1>3. n \in Nat /\ \A i \in 1 .. n : s[i] \in Nat
  BY LenProperties, ElementOfSeq
<1>4. /\ v[0] = 0 /\ d[0] = 0
      /\ \A i \in 0 .. n : v[i] \in Int /\ d[i] \in 0 .. Word - 1
      /\ \A i \in 1 .. n : v[i] = 8 * v[i - 1] + s[i] - 48 /\ d[i] = (8 * d[i - 1] + s[i] - 48) % Word
  BY <1>1, <1>2 DEF Octals, Read
<1> HIDE DEF n
<1> DEFINE S == {i \in 0 .. n : d[i] = (v[i] % Word)}
<1>5. 0 \in S
  BY <1>3, <1>4, Amounts
<1>6. ASSUME NEW k \in 1 .. n, k - 1 \in S PROVE k \in S
  <2> DEFINE x == v[k - 1]
             c == s[k] - 48
  <2>1. k \in 0 .. n /\ k - 1 \in 0 .. n
    BY <1>3
  <2>2. x \in Int /\ s[k] \in Int /\ c \in Int
    BY <1>3, <1>4, <2>1
  <2>3. d[k] = (8 * (x % Word) + s[k] - 48) % Word /\ v[k] = 8 * x + s[k] - 48
    BY <1>4, <1>6
  <2> HIDE DEF x
  <2>4. (x % Word) \in Int
    BY <2>2, Amounts
  <2>5. 8 * (x % Word) + s[k] - 48 = 8 * (x % Word) + c /\ 8 * x + s[k] - 48 = 8 * x + c
    BY <2>2, <2>4
  <2>6. d[k] = (8 * (x % Word) + c) % Word /\ v[k] = 8 * x + c
    BY <2>3, <2>5
  <2> HIDE DEF c
  <2>7. (8 * (x % Word) + c) % Word = (8 * x + c) % Word
    BY <2>2, Amounts, Remainders
  <2>8. QED
    BY <2>1, <2>6, <2>7
<1>7. \A k \in 0 .. n : k \in S
  <2> HIDE DEF S
  <2>1. QED
    BY <1>3, <1>5, <1>6, Climbed
<1>8. n \in 0 .. n
  BY <1>3
<1>9. QED
  BY <1>1, <1>2, <1>4, <1>7, <1>8 DEF n

(* A last character counts as a digit, whatever it is.                     *)
LEMMA OctalEnds ==
  ASSUME NEW s \in Seq(Nat), NEW n \in Nat, Len(s) = n + 1
  PROVE  /\ SubSeq(s, 1, n) \in Seq(Nat)
         /\ Octal(s) = 8 * Octal(SubSeq(s, 1, n)) + s[n + 1] - 48
<1> DEFINE t == SubSeq(s, 1, n)
<1>1. t \in Seq(Nat) /\ Len(t) = n /\ \A i \in 1 .. n : t[i] = s[i]
  <2>1. \A i \in 1 .. n + 1 : s[i] \in Nat
    BY ElementOfSeq
  <2>2. QED
    BY <2>1
<1>2. PICK v : Octals(v, s) /\ Octal(s) = v[n + 1]
  BY OctalIs
<1> HIDE DEF t
<1>3. PICK u : Octals(u, t) /\ Octal(t) = u[n]
  BY <1>1, OctalIs
<1>4. /\ v[0] = 0 /\ u[0] = 0
      /\ \A i \in 1 .. n + 1 : v[i] = 8 * v[i - 1] + s[i] - 48
      /\ \A i \in 1 .. n : u[i] = 8 * u[i - 1] + s[i] - 48
  BY <1>1, <1>2, <1>3 DEF Octals
<1> DEFINE S == {i \in 0 .. n : u[i] = v[i]}
<1>5. 0 \in S
  BY <1>4
<1>6. ASSUME NEW k \in 1 .. n, k - 1 \in S PROVE k \in S
  <2>1. k \in 0 .. n /\ k \in 1 .. n + 1
    OBVIOUS
  <2>2. QED
    BY <1>4, <1>6, <2>1
<1>7. \A k \in 0 .. n : k \in S
  <2> HIDE DEF S
  <2>1. QED
    BY <1>5, <1>6, Climbed
<1>8. n \in 0 .. n /\ n + 1 \in 1 .. n + 1 /\ (n + 1) - 1 = n
  OBVIOUS
<1>9. QED
  BY <1>1, <1>2, <1>3, <1>4, <1>7, <1>8, ZenonT(60) DEF t
-----------------------------------------------------------------------------
(* The padding of a file takes it to the next header (tar.c:87-92).        *)
LEMMA PaddedIs ==
  ASSUME NEW size \in Nat
  PROVE  /\ Blocks(size) \in Nat /\ (size + TAR_HEADER_SIZE - 1) \div TAR_HEADER_SIZE \in Nat
         /\ Blocks(size) = 1 + (size + TAR_HEADER_SIZE - 1) \div TAR_HEADER_SIZE
<1> DEFINE w == TAR_HEADER_SIZE
<1>1. w \in Nat \ {0}
  BY Amounts
<1> HIDE DEF w
<1>2. PICK q \in Int, r \in 0 .. w - 1 : size = w * q + r /\ size \div w = q /\ (size % w) = r
  BY <1>1, Divided
<1>3. q \in Nat
  <2>1. q <= -1 => w * q <= -w
    BY <1>1
  <2>2. w * q \in Int
    BY <1>1
  <2>3. ~(q <= -1)
    BY <1>1, <1>2, <2>1, <2>2
  <2>4. QED
    BY <2>3
<1> DEFINE v == size + w - 1
<1>4. v \in Int
  BY <1>1
<1>5. CASE r = 0
  <2>1. w * q \in Int
    BY <1>1
  <2>2. v = w * q + (w - 1) /\ w - 1 \in 0 .. w - 1
    BY <1>1, <1>2, <1>5, <2>1
  <2> HIDE DEF v
  <2>3. v \div w = q
    <3>1. ASSUME NEW b \in Int, b = w * q + (w - 1) PROVE b \div w = q
      BY <1>1, <2>2, <3>1, Remainder
    <3>2. QED
      BY <1>4, <2>2, <3>1
  <2>4. Blocks(size) = q + 1 + 0
    BY <1>2, <1>5 DEF Blocks, w
  <2>5. QED
    BY <1>3, <2>3, <2>4 DEF v, w
<1>6. CASE r # 0
  <2>1. w * q \in Int /\ w * (q + 1) = w * q + w
    BY <1>1
  <2>2. v = w * (q + 1) + (r - 1) /\ r - 1 \in 0 .. w - 1 /\ q + 1 \in Int
    BY <1>1, <1>2, <1>6, <2>1
  <2> HIDE DEF v
  <2>3. v \div w = q + 1
    <3>1. ASSUME NEW b \in Int, NEW k \in Int, NEW e \in 0 .. w - 1, b = w * k + e PROVE b \div w = k
      BY <1>1, <3>1, Remainder
    <3>2. QED
      BY <1>4, <2>2, <3>1
  <2>4. Blocks(size) = q + 1 + 1
    BY <1>2, <1>6 DEF Blocks, w
  <2>5. QED
    BY <1>3, <2>3, <2>4 DEF v, w
<1>7. QED
  BY <1>5, <1>6

\* Where the headers are.
Packs(at, files) ==
  /\ at[0] = 1 /\ \A k \in 0 .. Len(files) : at[k] \in Nat \ {0}
  /\ \A k \in 1 .. Len(files) : at[k] = at[k - 1] + Blocks(files[k].size)

(* The headers of an archive are where tar_extract looks for them.         *)
LEMMA HeadersAre ==
  ASSUME NEW files \in Seq(Files)
  PROVE  Packs(Headers(files), files)
<1> DEFINE n == Len(files)
           V == Nat \ {0}
           gap1(k) == (files[k].size + TAR_HEADER_SIZE - 1) \div TAR_HEADER_SIZE
           steps == [k \in 0 + 1 .. n |-> [v \in V |-> v + 1 + gap1(k)]]
<1>1. n \in Nat
  BY LenProperties
<1>2. ASSUME NEW k \in 1 .. n PROVE gap1(k) \in Nat /\ Blocks(files[k].size) = 1 + gap1(k)
  <2>1. files[k] \in Files
    BY ElementOfSeq
  <2>2. files[k].size \in Nat
    BY <2>1, Amounts DEF Files
  <2>3. QED
    BY <2>2, PaddedIs
<1> HIDE DEF n, gap1
<1>3. ASSUME NEW k \in 1 .. n, NEW v \in V PROVE v + 1 + gap1(k) \in V
  BY <1>2
<1>4. MapsAt(steps, V, 0, n)
  BY <1>1, <1>3 DEF MapsAt
<1>5. ASSUME NEW k \in 1 .. n, NEW v \in V PROVE steps[k][v] = v + 1 + gap1(k)
  BY <1>1
<1> HIDE DEF steps
<1>6. PICK g : Unfolds(g, V, steps, 1, 0, n)
  <2>1. 0 \in Int /\ 1 \in V /\ n \in Int
    BY <1>1
  <2> HIDE DEF V
  <2>2. QED
    BY <1>4, <2>1, Unfolding, Zenon
<1> DEFINE Is(h) == h = [i \in 0 .. n |-> IF i = 0 THEN 1 ELSE h[i - 1] + 1 + gap1(i)]
           at == CHOOSE h : Is(h)
<1>7. Is(g)
  <2>1. ASSUME NEW i \in 0 .. n PROVE g[i] = IF i = 0 THEN 1 ELSE g[i - 1] + 1 + gap1(i)
    <3>1. CASE i = 0
      BY <1>6, <3>1 DEF Unfolds
    <3>2. CASE i # 0
      <4>1. i \in 1 .. n /\ i - 1 \in 0 .. n
        BY <1>1, <3>2
      <4>2. g[i - 1] \in V /\ g[i] = steps[i][g[i - 1]]
        BY <1>6, <3>2, <4>1 DEF Unfolds
      <4>3. QED
        BY <1>5, <3>2, <4>1, <4>2
    <3>3. QED
      BY <3>1, <3>2
  <2>2. g = [i \in 0 .. n |-> g[i]]
    BY <1>6 DEF Unfolds
  <2>3. QED
    BY <2>1, <2>2
<1>8. Is(at)
  <2> HIDE DEF Is
  <2>1. QED
    BY <1>7
<1>9. Headers(files) = at
  BY DEF Headers, n, gap1
<1> HIDE DEF at
<1>10. at[0] = 1 /\ \A k \in 1 .. n : at[k] = at[k - 1] + 1 + gap1(k)
  <2>1. at[0] = 1
    BY <1>1, <1>8
  <2>2. ASSUME NEW i \in 1 .. n PROVE at[i] = at[i - 1] + 1 + gap1(i)
    <3>1. i \in 0 .. n /\ i # 0
      BY <1>1
    <3>2. QED
      BY <1>8, <3>1
  <2>3. QED
    BY <2>1, <2>2
<1>11. \A k \in 0 .. n : at[k] \in V
  <2>1. 0 <= n => at[0] \in V
    BY <1>10
  <2>2. ASSUME NEW k \in 0 + 1 .. n, at[k - 1] \in V PROVE at[k] \in V
    <3>1. k \in 1 .. n
      OBVIOUS
    <3>2. QED
      BY <1>3, <1>10, <2>2, <3>1
  <2>3. 0 \in Int /\ n \in Int
    BY <1>1
  <2> HIDE DEF Is, V
  <2>4. QED
    BY <2>1, <2>2, <2>3, EachStepKept
<1>12. ASSUME NEW k \in 1 .. n PROVE at[k] = at[k - 1] + Blocks(files[k].size)
  <2>1. k - 1 \in 0 .. n
    BY <1>1
  <2>2. at[k - 1] \in Nat
    BY <1>11, <2>1
  <2> DEFINE b == Blocks(files[k].size)
             x == gap1(k)
  <2>3. at[k] = at[k - 1] + 1 + x /\ b = 1 + x /\ x \in Nat
    BY <1>2, <1>10
  <2> HIDE DEF b, x
  <2>4. at[k] = at[k - 1] + b
    BY <2>2, <2>3
  <2>5. QED
    BY <2>4 DEF b
<1>13. QED
  BY <1>9, <1>10, <1>11, <1>12 DEF Packs, n
-----------------------------------------------------------------------------
\* The places of the walk of tar_extract, and its step.
Places(archive) == [at : Nat \ {0}, files : Seq({FileAt(archive, a) : a \in DOMAIN archive})]
OneFile(archive, w) ==
  IF w.at > Len(archive) \/ archive[w.at].name = <<>> THEN w
  ELSE [at |-> Forward(w.at, Blocks(FileAt(archive, w.at).size)), files |-> Append(w.files, FileAt(archive, w.at))]
Walks(walk, archive) ==
  /\ walk \in [0 .. INITRD_MAX_FILES -> Places(archive)] /\ walk[0] = [at |-> 1, files |-> <<>>]
  /\ \A i \in 1 .. INITRD_MAX_FILES : walk[i] = OneFile(archive, walk[i - 1])

(* Within the offsets the walk goes forward, and else it begins anew       *)
(* (tar.c:87-92).                                                          *)
LEMMA ForwardIs ==
  ASSUME NEW at \in Nat \ {0}, NEW n \in Nat
  PROVE  /\ Offsets \in Nat /\ Forward(at, n) \in Nat \ {0}
         /\ at + n <= Offsets => Forward(at, n) = at + n
<1> DEFINE w == TAR_HEADER_SIZE
<1>1. w \in Nat \ {0} /\ Word \in Nat \ {0} /\ (Word % w) = 0
  BY BootInfoAssumption, Amounts
<1> HIDE DEF w
<1>2. PICK q \in Int, r \in 0 .. w - 1 : Word = w * q + r /\ Word \div w = q /\ (Word % w) = r
  BY <1>1, Divided
<1>3. Offsets = q /\ Word = w * q
  BY <1>1, <1>2 DEF Offsets, w
<1>4. q \in Nat \ {0}
  BY <1>1, <1>2, <1>3
<1>5. Offsets \in Nat \ {0}
  BY <1>3, <1>4
<1> DEFINE o == Offsets
           v == at - 1 + n
<1>6. v \in Nat /\ o \in Nat \ {0} /\ Forward(at, n) = (v % o) + 1
  BY <1>5 DEF Forward
<1>7. at + n <= o => v < o /\ v + 1 = at + n
  BY <1>6
<1> HIDE DEF o, v
<1>8. (v % o) \in Nat /\ (v < o => (v % o) = v)
  BY <1>6
<1>9. QED
  BY <1>6, <1>7, <1>8 DEF o

(* A header gives one more file, and the walk goes on behind it            *)
(* (tar.c:60-92).                                                          *)
LEMMA FileFound ==
  ASSUME NEW archive \in Seq(Block), NEW w \in Places(archive), w.at <= Len(archive), archive[w.at].name # <<>>
  PROVE  LET f == FileAt(archive, w.at)
         IN  /\ OneFile(archive, w) \in Places(archive)
             /\ f.name = archive[w.at].name /\ f.start = w.at + 1 /\ f.size = tar_oct2dec(archive[w.at].size)
             /\ archive[w.at].size \in Seq(Nat)
             /\ OneFile(archive, w).at = Forward(w.at, Blocks(f.size))
             /\ Len(OneFile(archive, w).files) = Len(w.files) + 1
             /\ \A k \in 1 .. Len(w.files) : OneFile(archive, w).files[k] = w.files[k]
             /\ OneFile(archive, w).files[Len(w.files) + 1] = f
<1> DEFINE f == FileAt(archive, w.at)
           E == {FileAt(archive, a) : a \in DOMAIN archive}
           more == Append(w.files, f)
           b == Blocks(f.size)
<1>1. w.at \in Nat \ {0} /\ w.files \in Seq(E)
  BY DEF Places
<1>2. w.at \in 1 .. Len(archive) /\ w.at \in DOMAIN archive /\ Len(archive) \in Nat
  BY <1>1, LenProperties
<1>3. archive[w.at].size \in Seq(Nat)
  <2>1. archive[w.at] \in Block
    BY <1>2, ElementOfSeq
  <2>2. QED
    BY <2>1 DEF Block
<1>4. f.name = archive[w.at].name /\ f.start = w.at + 1 /\ f.size = tar_oct2dec(archive[w.at].size)
  BY DEF FileAt
<1>5. f \in E
  BY <1>2
<1>6. b \in Nat
  <2>1. f.size \in Nat
    <3> HIDE DEF f
    <3>1. QED
      BY <1>3, <1>4, SizeIs, Amounts
  <2> HIDE DEF f
  <2>2. QED
    BY <2>1, PaddedIs
<1>7. ~(w.at > Len(archive) \/ archive[w.at].name = <<>>)
  BY <1>1, <1>2
<1>8. OneFile(archive, w) = [at |-> Forward(w.at, b), files |-> more]
  BY <1>7, Zenon DEF OneFile
<1> HIDE DEF f, E, b
<1>9. /\ more \in Seq(E) /\ Len(more) = Len(w.files) + 1
      /\ \A k \in 1 .. Len(w.files) : more[k] = w.files[k]
      /\ more[Len(w.files) + 1] = f
  BY <1>1, <1>5, AppendProperties
<1> HIDE DEF more
<1>10. Forward(w.at, b) \in Nat \ {0}
  BY <1>1, <1>6, ForwardIs
<1>11. OneFile(archive, w) \in [at : Nat \ {0}, files : Seq(E)]
  BY <1>8, <1>9, <1>10
<1>12. OneFile(archive, w) \in Places(archive)
  BY <1>11 DEF Places, E
<1>13. OneFile(archive, w).at = Forward(w.at, b) /\ OneFile(archive, w).files = more
  BY <1>8
<1>14. QED
  BY <1>3, <1>4, <1>9, <1>12, <1>13 DEF f, b

(* The walk is one of places.                                              *)
LEMMA WalkIs ==
  ASSUME NEW archive \in Seq(Block)
  PROVE  \E walk : Walks(walk, archive) /\ Extract(archive, Len(archive)) = walk[INITRD_MAX_FILES].files
<1> DEFINE n == INITRD_MAX_FILES
           V == Places(archive)
           x == [at |-> 1, files |-> <<>>]
           steps == [k \in 0 + 1 .. n |-> [v \in V |-> OneFile(archive, v)]]
<1>1. n \in Nat
  BY Amounts
<1> HIDE DEF n
<1>2. ASSUME NEW v \in V PROVE OneFile(archive, v) \in V
  <2>1. CASE v.at > Len(archive) \/ archive[v.at].name = <<>>
    BY <2>1 DEF OneFile
  <2>2. CASE ~(v.at > Len(archive) \/ archive[v.at].name = <<>>)
    <3>1. v.at \in Nat /\ Len(archive) \in Nat
      BY LenProperties DEF Places
    <3>2. v.at <= Len(archive) /\ archive[v.at].name # <<>>
      BY <2>2, <3>1
    <3>3. QED
      BY <3>2, FileFound
  <2>3. QED
    BY <2>1, <2>2
<1>3. x \in V
  BY DEF Places
<1> HIDE DEF V, x
<1>4. MapsAt(steps, V, 0, n)
  BY <1>1, <1>2 DEF MapsAt
<1>5. ASSUME NEW k \in 1 .. n, NEW v \in V PROVE steps[k][v] = OneFile(archive, v)
  BY <1>1
<1> HIDE DEF steps
<1>6. PICK g : Unfolds(g, V, steps, x, 0, n)
  <2>1. 0 \in Int /\ n \in Int
    BY <1>1
  <2>2. QED
    BY <1>3, <1>4, <2>1, Unfolding, Zenon
<1> DEFINE Is(h) == h = [i \in 0 .. n |-> IF i = 0 THEN x ELSE OneFile(archive, h[i - 1])]
           walk == CHOOSE h : Is(h)
<1>7. Is(g)
  <2>1. ASSUME NEW i \in 0 .. n PROVE g[i] = IF i = 0 THEN x ELSE OneFile(archive, g[i - 1])
    <3>1. CASE i = 0
      BY <1>6, <3>1 DEF Unfolds
    <3>2. CASE i # 0
      <4>1. i \in 1 .. n /\ i - 1 \in 0 .. n
        BY <1>1, <3>2
      <4>2. g[i - 1] \in V /\ g[i] = steps[i][g[i - 1]]
        BY <1>6, <3>2, <4>1 DEF Unfolds
      <4>3. QED
        BY <1>5, <3>2, <4>1, <4>2
    <3>3. QED
      BY <3>1, <3>2
  <2>2. g = [i \in 0 .. n |-> g[i]]
    BY <1>6 DEF Unfolds
  <2>3. QED
    BY <2>1, <2>2
<1>8. Is(walk)
  <2> HIDE DEF Is
  <2>1. QED
    BY <1>7
<1>9. Extract(archive, Len(archive)) = walk[n].files
  BY DEF Extract, OneFile, n, x
<1> HIDE DEF walk
<1>10. walk[0] = x /\ \A k \in 1 .. n : walk[k] = OneFile(archive, walk[k - 1])
  <2>1. walk[0] = x
    BY <1>1, <1>8
  <2>2. ASSUME NEW i \in 1 .. n PROVE walk[i] = OneFile(archive, walk[i - 1])
    <3>1. i \in 0 .. n /\ i # 0
      BY <1>1
    <3>2. QED
      BY <1>8, <3>1
  <2>3. QED
    BY <2>1, <2>2
<1>11. walk = [i \in 0 .. n |-> walk[i]]
  BY <1>8
<1> HIDE DEF Is
<1>12. \A k \in 0 .. n : walk[k] \in V
  <2>1. 0 <= n => walk[0] \in V
    BY <1>3, <1>10
  <2>2. ASSUME NEW k \in 0 + 1 .. n, walk[k - 1] \in V PROVE walk[k] \in V
    <3>1. k \in 1 .. n
      OBVIOUS
    <3>2. QED
      BY <1>2, <1>10, <2>2, <3>1
  <2>3. 0 \in Int /\ n \in Int
    BY <1>1
  <2>4. QED
    BY <2>1, <2>2, <2>3, EachStepKept
<1>13. walk \in [0 .. n -> V]
  BY <1>11, <1>12
<1>14. Walks(walk, archive)
  BY <1>10, <1>13 DEF Walks, n, V, x
<1>15. QED
  BY <1>9, <1>14 DEF n
-----------------------------------------------------------------------------
\* The first n files of a table are those of an archive.
Finds(got, files, n) ==
  /\ Len(got) = n
  /\ \A k \in 1 .. n : got[k].name = files[k].name /\ got[k].size = files[k].size

(* The walk is in step with the headers, up to the end (tar.c:60-92).      *)
LEMMA WalkFinds ==
  ASSUME NEW archive \in Seq(Block), NEW files \in Seq(Files), NEW terminated, ~terminated,
         Holds(archive, files, terminated), Len(archive) <= Offsets
  PROVE  Finds(Extract(archive, Len(archive)), files, Lesser(INITRD_MAX_FILES, Len(files)))
<1> DEFINE max == INITRD_MAX_FILES
           n == Len(files)
           at == Headers(files)
<1>1. PICK walk : Walks(walk, archive) /\ Extract(archive, Len(archive)) = walk[max].files
  BY WalkIs
<1>2. max \in Nat /\ n \in Nat /\ Len(archive) \in Nat
  BY Amounts, LenProperties
<1>3. /\ \A k \in 0 .. n : at[k] \in 1 .. Len(archive)
      /\ archive[at[n]].name = <<>>
      /\ \A k \in 1 .. n : archive[at[k - 1]].name = files[k].name /\ Octal(archive[at[k - 1]].size) = files[k].size
  <2>1. DOMAIN archive = 1 .. Len(archive)
    BY LenProperties
  <2>2. QED
    BY <2>1 DEF Holds
<1>4. /\ at[0] = 1 /\ \A k \in 0 .. n : at[k] \in Nat \ {0}
      /\ \A k \in 1 .. n : at[k] = at[k - 1] + Blocks(files[k].size)
  BY HeadersAre DEF Packs
<1> HIDE DEF at, n, max
<1>5. /\ \A i \in 0 .. max : walk[i] \in Places(archive)
      /\ walk[0] = [at |-> 1, files |-> <<>>]
      /\ \A i \in 1 .. max : walk[i] = OneFile(archive, walk[i - 1])
  BY <1>1 DEF Walks, max
<1>6. ASSUME NEW k \in 1 .. n
      PROVE  files[k].name # <<>> /\ files[k].size \in 0 .. Word - 1
  <2>1. files[k] \in Files
    BY <1>6, ElementOfSeq DEF n
  <2>2. QED
    BY <2>1 DEF Files
<1> DEFINE S == {i \in 0 .. max : /\ walk[i].at = at[Lesser(i, n)]
                                  /\ Finds(walk[i].files, files, Lesser(i, n))}
<1>7. 0 \in S
  <2>1. Lesser(0, n) = 0 /\ 0 \in 0 .. max
    BY <1>2 DEF Lesser
  <2>2. walk[0].at = 1 /\ walk[0].files = <<>>
    BY <1>5
  <2>3. Finds(<<>>, files, 0)
    BY DEF Finds
  <2>4. QED
    BY <1>4, <2>1, <2>2, <2>3
<1>8. ASSUME NEW i \in 1 .. max, i - 1 \in S PROVE i \in S
  <2> DEFINE w == walk[i - 1]
  <2>1. i \in 0 .. max /\ i - 1 \in 0 .. max /\ i \in Nat /\ i - 1 \in Nat
    BY <1>2
  <2>2. w \in Places(archive) /\ walk[i] = OneFile(archive, w)
    BY <1>5, <2>1
  <2>3. w.at = at[Lesser(i - 1, n)] /\ Finds(w.files, files, Lesser(i - 1, n))
    BY <1>8
  <2> HIDE DEF w
  <2>4. CASE i - 1 >= n
    <3>1. Lesser(i - 1, n) = n /\ Lesser(i, n) = n
      BY <1>2, <2>1, <2>4 DEF Lesser
    <3>2. archive[w.at].name = <<>>
      BY <1>3, <2>3, <3>1
    <3>3. walk[i] = w
      BY <2>2, <3>2 DEF OneFile
    <3>4. QED
      BY <2>1, <2>3, <3>1, <3>3
  <2>5. CASE i - 1 < n
    <3> DEFINE f == FileAt(archive, w.at)
               v == OneFile(archive, w)
    <3>1. Lesser(i - 1, n) = i - 1 /\ Lesser(i, n) = i /\ i \in 1 .. n /\ i - 1 \in 0 .. n
      BY <1>2, <2>1, <2>5 DEF Lesser
    <3>2. w.at = at[i - 1] /\ w.at \in 1 .. Len(archive)
      BY <1>3, <2>3, <3>1
    <3>3. archive[w.at].name = files[i].name /\ Octal(archive[w.at].size) = files[i].size
      BY <1>3, <3>1, <3>2
    <3>4. w.at <= Len(archive) /\ archive[w.at].name # <<>>
      BY <1>2, <1>6, <3>1, <3>2, <3>3
    <3>5. /\ f.name = archive[w.at].name /\ f.size = tar_oct2dec(archive[w.at].size)
          /\ archive[w.at].size \in Seq(Nat)
          /\ v.at = Forward(w.at, Blocks(f.size))
          /\ Len(v.files) = Len(w.files) + 1
          /\ \A k \in 1 .. Len(w.files) : v.files[k] = w.files[k]
          /\ v.files[Len(w.files) + 1] = f
      BY <2>2, <3>4, FileFound
    <3> HIDE DEF f, v
    <3>6. f.name = files[i].name /\ f.size = files[i].size
      <4>1. f.size = (Octal(archive[w.at].size) % Word)
        BY <3>5, SizeIs
      <4>2. \A s \in 0 .. Word - 1 : (s % Word) = s
        BY Amounts
      <4>3. QED
        BY <1>6, <3>1, <3>3, <3>5, <4>1, <4>2
    <3>7. Len(w.files) = i - 1
      BY <2>3, <3>1 DEF Finds
    <3>8. v.at = at[i]
      <4>1. at[i] = w.at + Blocks(files[i].size) /\ v.at = Forward(w.at, Blocks(files[i].size))
        BY <1>4, <3>1, <3>2, <3>5, <3>6
      <4>2. at[i] \in Nat /\ at[i] <= Len(archive)
        BY <1>2, <1>3, <3>1
      <4>3. Blocks(files[i].size) \in Nat
        <5>1. files[i].size \in Nat
          BY <1>6, <3>1, Amounts
        <5>2. QED
          BY <5>1, PaddedIs
      <4>4. w.at \in Nat \ {0} /\ Offsets \in Nat
        BY <2>2, <3>2, <4>3, ForwardIs DEF Places
      <4>5. w.at + Blocks(files[i].size) <= Offsets
        BY <1>2, <4>1, <4>2, <4>4
      <4>6. QED
        BY <4>1, <4>3, <4>4, <4>5, ForwardIs
    <3>9. Finds(v.files, files, i)
      <4>1. Len(v.files) = i
        BY <2>1, <3>5, <3>7
      <4>2. v.files[i] = f
        BY <2>1, <3>5, <3>7
      <4>3. ASSUME NEW k \in 1 .. i PROVE v.files[k].name = files[k].name /\ v.files[k].size = files[k].size
        <5>1. CASE k = i
          BY <3>6, <4>2, <5>1
        <5>2. CASE k # i
          <6>1. k \in 1 .. i - 1
            BY <2>1, <5>2
          <6>2. v.files[k] = w.files[k]
            BY <3>5, <3>7, <6>1
          <6>3. QED
            BY <2>3, <3>1, <6>1, <6>2 DEF Finds
        <5>3. QED
          BY <5>1, <5>2
      <4>4. QED
        BY <4>1, <4>3 DEF Finds
    <3>10. walk[i].at = at[Lesser(i, n)] /\ Finds(walk[i].files, files, Lesser(i, n))
      BY <2>2, <3>1, <3>8, <3>9 DEF v
    <3>11. QED
      BY <2>1, <3>10
  <2>6. QED
    BY <1>2, <2>1, <2>4, <2>5
<1>9. \A i \in 0 .. max : i \in S
  <2> HIDE DEF S
  <2>1. QED
    BY <1>2, <1>7, <1>8, Climbed
<1>10. max \in 0 .. max
  BY <1>2
<1>11. Finds(walk[max].files, files, Lesser(max, n))
  BY <1>9, <1>10
<1>12. QED
  BY <1>1, <1>11 DEF max, n

(* The first file is always found (tar.c:60-80).                           *)
LEMMA FirstFound ==
  ASSUME NEW archive \in Seq(Block), NEW files \in Seq(Files), NEW terminated,
         Holds(archive, files, terminated)
  PROVE  LET found == Extract(archive, Len(archive))
         IN  found # <<>> =>
               Len(files) >= 1 /\ found[1] = FileAt(archive, 1) /\ archive[1].name = files[1].name
<1> DEFINE max == INITRD_MAX_FILES
           n == Len(files)
           at == Headers(files)
<1>1. PICK walk : Walks(walk, archive) /\ Extract(archive, Len(archive)) = walk[max].files
  BY WalkIs
<1>2. max \in Nat /\ n \in Nat /\ Len(archive) \in Nat
  BY Amounts, LenProperties
<1>3. at[0] = 1
  BY HeadersAre DEF Packs
<1>4. /\ at[0] \in DOMAIN archive /\ archive[at[n]].name = <<>>
      /\ \A k \in 1 .. n : archive[at[k - 1]].name = files[k].name
  BY <1>2 DEF Holds
<1> HIDE DEF at, n, max
<1>5. 1 \in 1 .. Len(archive)
  BY <1>3, <1>4, LenProperties
<1>6. /\ \A i \in 0 .. max : walk[i] \in Places(archive)
      /\ walk[0] = [at |-> 1, files |-> <<>>]
      /\ \A i \in 1 .. max : walk[i] = OneFile(archive, walk[i - 1])
  BY <1>1 DEF Walks, max
<1>7. CASE n = 0
  <2>1. archive[1].name = <<>>
    BY <1>3, <1>4, <1>7
  <2> DEFINE S == {i \in 0 .. max : walk[i] = [at |-> 1, files |-> <<>>]}
  <2>2. 0 \in S
    BY <1>2, <1>6
  <2>3. ASSUME NEW i \in 1 .. max, i - 1 \in S PROVE i \in S
    <3>1. i \in 0 .. max
      BY <1>2
    <3>2. walk[i - 1] = [at |-> 1, files |-> <<>>]
      BY <2>3
    <3>3. archive[walk[i - 1].at].name = <<>>
      BY <2>1, <3>2
    <3>4. OneFile(archive, walk[i - 1]) = walk[i - 1]
      BY <3>3, Zenon DEF OneFile
    <3>5. QED
      BY <1>6, <3>1, <3>2, <3>4
  <2>4. \A i \in 0 .. max : i \in S
    <3> HIDE DEF S
    <3>1. QED
      BY <1>2, <2>2, <2>3, Climbed
  <2>5. max \in 0 .. max
    BY <1>2
  <2>6. walk[max].files = <<>>
    BY <2>4, <2>5
  <2>7. QED
    BY <1>1, <2>6
<1>8. CASE n # 0
  <2>1. 1 \in 1 .. n /\ n >= 1
    BY <1>2, <1>8
  <2>2. archive[1].name = files[1].name
    BY <1>3, <1>4, <2>1
  <2>3. files[1].name # <<>>
    <3>1. files[1] \in Files
      BY <2>1, ElementOfSeq DEF n
    <3>2. QED
      BY <3>1 DEF Files
  <2> DEFINE S == {i \in 0 .. max : i = 0 \/ (Len(walk[i].files) >= 1 /\ walk[i].files[1] = FileAt(archive, 1))}
  <2>4. 0 \in S
    BY <1>2
  <2>5. ASSUME NEW i \in 1 .. max, i - 1 \in S PROVE i \in S
    <3> DEFINE w == walk[i - 1]
    <3>1. i \in 0 .. max /\ i - 1 \in 0 .. max
      BY <1>2
    <3>2. w \in Places(archive) /\ walk[i] = OneFile(archive, w)
      BY <1>6, <3>1
    <3>3. w.at \in Nat /\ Len(w.files) \in Nat
      BY <3>2, LenProperties DEF Places
    <3>4. i - 1 = 0 \/ (Len(w.files) >= 1 /\ w.files[1] = FileAt(archive, 1))
      BY <2>5
    <3>5. i - 1 = 0 => w.at = 1 /\ w.files = <<>>
      BY <1>6
    <3> HIDE DEF w
    <3>6. CASE w.at > Len(archive) \/ archive[w.at].name = <<>>
      <4>1. i - 1 # 0
        BY <1>2, <1>5, <2>2, <2>3, <3>5, <3>6
      <4>2. walk[i] = w
        BY <3>2, <3>6 DEF OneFile
      <4>3. QED
        BY <3>1, <3>4, <4>1, <4>2
    <3>7. CASE ~(w.at > Len(archive) \/ archive[w.at].name = <<>>)
      <4> DEFINE f == FileAt(archive, w.at)
                 more == OneFile(archive, w).files
      <4>1. w.at <= Len(archive) /\ archive[w.at].name # <<>>
        BY <1>2, <3>3, <3>7
      <4>2. /\ Len(more) = Len(w.files) + 1
            /\ \A k \in 1 .. Len(w.files) : more[k] = w.files[k]
            /\ more[Len(w.files) + 1] = f
        BY <3>2, <4>1, FileFound
      <4>3. more = walk[i].files
        BY <3>2
      <4> HIDE DEF more
      <4>4. CASE i - 1 = 0
        <5>1. Len(w.files) = 0 /\ f = FileAt(archive, 1)
          BY <3>5, <4>4
        <5>2. Len(more) = 1 /\ more[1] = FileAt(archive, 1)
          BY <4>2, <5>1
        <5>3. QED
          BY <3>1, <4>3, <5>2
      <4>5. CASE i - 1 # 0
        <5>1. Len(w.files) >= 1 /\ w.files[1] = FileAt(archive, 1)
          BY <3>4, <4>5
        <5>2. Len(more) >= 1 /\ more[1] = FileAt(archive, 1)
          BY <3>3, <4>2, <5>1
        <5>3. QED
          BY <3>1, <4>3, <5>2
      <4>6. QED
        BY <4>4, <4>5
    <3>8. QED
      BY <3>6, <3>7
  <2>6. \A i \in 0 .. max : i \in S
    <3> HIDE DEF S
    <3>1. QED
      BY <1>2, <2>4, <2>5, Climbed
  <2>7. max \in 0 .. max
    BY <1>2
  <2>8. max = 0 \/ walk[max].files[1] = FileAt(archive, 1)
    BY <2>6, <2>7
  <2>9. max = 0 => walk[max].files = <<>>
    BY <1>6
  <2>10. QED
    BY <1>1, <2>1, <2>2, <2>8, <2>9 DEF n
<1>9. QED
  BY <1>7, <1>8

(* When the boot has read the ramdisk it has the modules and the files.    *)
LEMMA InfoReads ==
  ASSUME InfoInv
  PROVE  RamdiskRead
<1> DEFINE tags == env.tags
           archive == env.archive
           files == env.files
           found == info.files
           n == Len(tags)
<1>1. /\ tags \in Seq(Tags) /\ files \in Seq(Files) /\ archive \in Seq(Block)
      /\ Holds(archive, files, env.terminated) /\ Len(archive) <= Offsets
      /\ HasModules => info.modules = SavedModules(tags)
      /\ found = <<>> \/ found = Extract(archive, Len(archive))
  BY EnvironmentAssumption DEF InfoInv
<1>2. n \in Nat /\ DOMAIN tags = 1 .. n
  BY <1>1, LenProperties
<1>3. TagsOf("module") = Mods(tags, n)
  BY <1>2 DEF TagsOf, Mods
<1>4. ASSUME NEW t \in TagsOf("module")
      PROVE  {u \in TagsOf("module") : u <= t} = Mods(tags, t)
  <2>1. t \in 1 .. n
    BY <1>2 DEF TagsOf
  <2>2. QED
    BY <1>2, <2>1 DEF TagsOf, Mods
<1>5. ASSUME HasModules
      PROVE  /\ info.modules.count = Cardinality(TagsOf("module"))
             /\ \A t \in TagsOf("module") :
                  info.modules.list[Cardinality({u \in TagsOf("module") : u <= t})] = tags[t]
  <2>1. /\ SavedModules(tags).count = Cardinality(Mods(tags, n))
        /\ \A t \in Mods(tags, n) : SavedModules(tags).list[Cardinality(Mods(tags, t))] = tags[t]
    <3> HIDE DEF tags
    <3>1. QED
      BY <1>1, SavedModulesIs DEF n
  <2>2. QED
    BY <1>1, <1>3, <1>4, <1>5, <2>1
<1> HIDE DEF archive, files, n
<1>6. ASSUME found # <<>>
      PROVE  found[1].name = files[1].name /\ found[1].start = 2 /\ Len(files) >= 1
             /\ found[1].size = tar_oct2dec(archive[1].size)
  <2>1. found = Extract(archive, Len(archive))
    BY <1>1, <1>6
  <2>2. Len(files) >= 1 /\ found[1] = FileAt(archive, 1) /\ archive[1].name = files[1].name
    BY <1>1, <1>6, <2>1, FirstFound
  <2>3. QED
    BY <2>2 DEF FileAt
<1>7. ASSUME found # <<>>, env.terminated
      PROVE  found[1].size = (8 * files[1].size - 48) % Word
  <2> DEFINE s == archive[1].size
             k == Len(s) - 1
  <2>1. 1 \in 1 .. Len(files) /\ 1 - 1 = 0 /\ 0 \in 0 .. Len(files)
    BY <1>1, <1>6, <1>7, LenProperties
  <2>2. Headers(files)[0] = 1
    BY <1>1, HeadersAre DEF Packs
  <2>3. 1 \in DOMAIN archive /\ k >= 0 /\ s[k + 1] = 0 /\ Octal(SubSeq(s, 1, k)) = files[1].size
    <3>1. Headers(files)[0] \in DOMAIN archive
      BY <1>1, <2>1 DEF Holds
    <3>2. LET header == archive[Headers(files)[1 - 1]]
              j == Len(header.size) - 1
          IN  j >= 0 /\ header.size[j + 1] = 0 /\ Octal(SubSeq(header.size, 1, j)) = files[1].size
      BY <1>1, <1>7, <2>1 DEF Holds
    <3>3. QED
      BY <2>1, <2>2, <3>1, <3>2
  <2>4. s \in Seq(Nat)
    <3>1. archive[1] \in Block
      BY <1>1, <2>3, LenProperties, ElementOfSeq
    <3>2. QED
      BY <3>1 DEF Block
  <2>5. k \in Nat /\ Len(s) = k + 1
    BY <2>3, <2>4, LenProperties
  <2>6. files[1].size \in Int
    <3>1. files[1] \in Files
      BY <1>1, <2>1, ElementOfSeq
    <3>2. QED
      BY <3>1, Amounts DEF Files
  <2> HIDE DEF s, k
  <2>7. Octal(s) = 8 * files[1].size + 0 - 48
    BY <2>3, <2>4, <2>5, OctalEnds
  <2>8. Octal(s) = 8 * files[1].size - 48
    BY <2>6, <2>7
  <2>9. tar_oct2dec(s) = (Octal(s) % Word)
    BY <2>4, SizeIs
  <2>10. found[1].size = tar_oct2dec(s)
    BY <1>6, <1>7 DEF s
  <2>11. QED
    BY <2>8, <2>9, <2>10
<1>8. ASSUME found # <<>>, ~env.terminated
      PROVE  /\ Len(found) = Lesser(INITRD_MAX_FILES, Len(files))
             /\ \A i \in DOMAIN found : found[i].name = files[i].name /\ found[i].size = files[i].size
  <2>1. found = Extract(archive, Len(archive))
    BY <1>1, <1>8
  <2>2. Finds(found, files, Lesser(INITRD_MAX_FILES, Len(files)))
    BY <1>1, <1>8, <2>1, WalkFinds
  <2>3. \E E : found \in Seq(E)
    <3>1. PICK walk : Walks(walk, archive) /\ found = walk[INITRD_MAX_FILES].files
      BY <1>1, <2>1, WalkIs
    <3>2. INITRD_MAX_FILES \in 0 .. INITRD_MAX_FILES
      BY Amounts
    <3>3. QED
      BY <3>1, <3>2 DEF Walks, Places
  <2>4. DOMAIN found = 1 .. Len(found)
    BY <2>3, LenProperties
  <2>5. QED
    BY <2>2, <2>4 DEF Finds
<1>9. QED
  BY <1>5, <1>6, <1>7, <1>8 DEF RamdiskRead, archive, files

(* The ramdisk and the boot modules are read as they were passed           *)
(* (boot_module.c:65-90, tar.c:38-92).                                     *)
THEOREM RamdiskIsRead == Spec => []RamdiskRead
BY InfoInvHolds, InfoReads, PTL
-----------------------------------------------------------------------------
(* The symbol table.                                                       *)

\* Characters, the outcomes of loading, the structures and the parser.
Text == Seq(0 .. 127)
Statuses == {"loading", "ok", "panic", "wild", "lost"}
Structures == [address : 0 .. Addresses - 1, name : Text]
Parsers == [state : {"ADDRESS", "SYMBOL"}, address : Text, value : 0 .. Addresses - 1, name : Text,
            stale : Int, first : BOOLEAN, status : Statuses]
Memories == [1 .. gap + MAX_SYMBOLS -> Nat]
Machines == [p : Parsers, mem : Memories, known : Seq(Structures)]

\* What lies in the memory when n symbols were added and none was refused.
Laid(mem, n) ==
  /\ gap = 2 => \/ n = 0 /\ mem[2] = 0
                \/ n = 1 /\ mem[2] = Pointer(1) + 1
  /\ gap # 2 => mem[2] = n /\ \A i \in 0 .. n - 1 : mem[gap + i] = Pointer(i + 1)
  /\ gap = 3 => n <= 2 /\ (n # 2 => mem[4] = PREDICATE)
  /\ gap = 4 => n <= 1
  /\ gap = 5 => n <= MAX_SYMBOLS /\ mem[3] = MAX_SYMBOLS /\ mem[4] = PREDICATE
Strict(known) == \A i, j \in DOMAIN known : i < j => known[i].address < known[j].address
Kept(m) == m.p.status \in {"loading", "ok"} => Laid(m.mem, Len(m.known)) /\ Strict(m.known)
Good == {m \in Machines : Kept(m)}

(* The sizes that the constants give.                                      *)
LEMMA Sizes ==
  /\ Addresses \in Nat /\ Addresses > 0
  /\ MAX_SYMBOLS \in 1 .. 49 /\ PREDICATE = 50
  /\ \A text \in FileLines : text \in Text
<1>1. PREDICATE = 50
  BY DEF PREDICATE
<1>2. QED
  BY <1>1, SymbolsAssumption DEF Text

(* An address that is parsed is one.                                       *)
LEMMA ParsedAddress ==
  ASSUME NEW digits \in Text
  PROVE  parse_address(digits) \in 0 .. Addresses - 1
<1> DEFINE n == Len(digits)
           V == 0 .. Addresses - 1
           worth(c) == IF c \in C!DIGIT THEN c - 48 ELSE c - 65 + 10
           one(k) == [v \in V |-> (16 * v + worth(digits[k])) % Addresses]
           steps == [k \in 0 + 1 .. n |-> one(k)]
<1>1. n \in Nat /\ 0 \in V /\ \A k \in 1 .. n : digits[k] \in 0 .. 127
  <2>1. 0 \in V
    BY Sizes
  <2>2. Len(digits) \in Nat /\ \A k \in 1 .. Len(digits) : digits[k] \in 0 .. 127
    BY LenProperties, ElementOfSeq DEF Text
  <2>3. QED
    BY <2>1, <2>2
<1>2. ASSUME NEW k \in 1 .. n, NEW v \in Int PROVE (16 * v + worth(digits[k])) % Addresses \in V
  <2>1. digits[k] \in Int
    <3> HIDE DEF n, V, worth
    <3>1. QED
      BY <1>1
  <2>2. worth(digits[k]) \in Int
    <3> HIDE DEF n, V
    <3>1. QED
      BY <2>1
  <2> HIDE DEF worth
  <2>3. 16 * v + worth(digits[k]) \in Int
    BY <2>2
  <2>4. QED
    BY <2>3, Sizes
<1> HIDE DEF worth
<1>3. ASSUME NEW k \in 1 .. n PROVE one(k) \in [V -> V]
  BY <1>2
<1>4. MapsAt(steps, V, 0, n)
  BY <1>3 DEF MapsAt
<1>5. ASSUME NEW k \in 1 .. n, NEW v \in V
      PROVE  steps[k][v] = (16 * v + worth(digits[k])) % Addresses
  OBVIOUS
<1> HIDE DEF steps, n
<1>6. PICK g : Unfolds(g, V, steps, 0, 0, n)
  <2>1. 0 \in Int /\ n \in Int
    BY <1>1
  <2> HIDE DEF V
  <2>2. QED
    BY <1>1, <1>4, <2>1, Unfolding, Zenon
<1> DEFINE Is(h) == h = [i \in 0 .. n |-> IF i = 0 THEN 0 ELSE (16 * h[i - 1] + worth(digits[i])) % Addresses]
<1>7. Is(g)
  <2>1. ASSUME NEW i \in 0 .. n
        PROVE  g[i] = IF i = 0 THEN 0 ELSE (16 * g[i - 1] + worth(digits[i])) % Addresses
    <3>1. CASE i = 0
      BY <1>6, <3>1 DEF Unfolds
    <3>2. CASE i # 0
      <4>1. i \in 1 .. n /\ i - 1 \in 0 .. n
        BY <1>1, <3>2
      <4>2. g[i - 1] \in V /\ g[i] = steps[i][g[i - 1]]
        BY <1>6, <3>2, <4>1 DEF Unfolds
      <4>3. QED
        BY <1>5, <3>2, <4>1, <4>2
    <3>3. QED
      BY <3>1, <3>2
  <2>2. g = [i \in 0 .. n |-> g[i]]
    BY <1>6 DEF Unfolds
  <2>3. QED
    BY <2>1, <2>2
<1> DEFINE address == CHOOSE h : Is(h)
<1>8. Is(address)
  <2> HIDE DEF Is
  <2>1. QED
    BY <1>7
<1>9. parse_address(digits) = address[n]
  BY DEF parse_address, n, worth
<1> HIDE DEF address
<1>10. \A i \in 0 .. n : address[i] \in V
  <2>1. 0 <= n => address[0] \in V
    BY <1>1, <1>8
  <2>2. ASSUME NEW k \in 0 + 1 .. n, address[k - 1] \in V PROVE address[k] \in V
    <3>1. k \in 1 .. n /\ k \in 0 .. n /\ k # 0
      BY <1>1
    <3>2. address[k] = (16 * address[k - 1] + worth(digits[k])) % Addresses
      BY <1>8, <3>1
    <3>3. address[k - 1] \in Int
      BY <2>2, Sizes
    <3>4. QED
      BY <1>2, <3>1, <3>2, <3>3
  <2>3. 0 \in Int /\ n \in Int
    BY <1>1
  <2> HIDE DEF V, Is
  <2>4. QED
    BY <2>1, <2>2, <2>3, EachStepKept
<1>11. n \in 0 .. n
  BY <1>1
<1>12. QED
  BY <1>9, <1>10, <1>11

(* A structure lies behind its pointer.                                    *)
LEMMA PointerIs ==
  ASSUME NEW k \in Nat
  PROVE  Pointer(k) \in Int /\ Pointer(k) >= 100 /\ (Pointer(k) - 100) \div 2 = k
<1>1. ((100 + 2 * k) - 100) \div 2 = k
  <2>1. (100 + 2 * k) - 100 = 2 * k
    OBVIOUS
  <2>2. (2 * k) \div 2 = k
    OBVIOUS
  <2>3. QED
    BY <2>1, <2>2
<1>2. QED
  BY <1>1 DEF Pointer

(* The place where an element belongs: behind all of those before it that  *)
(* the predicate puts before it.                                           *)
LEMMA PlaceIs ==
  ASSUME NEW mem, NEW e, NEW before, A!Count(mem) \in Nat
  PROVE  /\ A!Place(mem, gap, e, before) \in 0 .. A!Count(mem)
         /\ A!Place(mem, gap, e, before) = A!Count(mem) =>
              \A i \in 0 .. A!Count(mem) - 1 : <<A!Get(mem, gap, i), e>> \in before
<1> DEFINE n == A!Count(mem)
           T == {i \in 0 .. n : i = n \/ <<A!Get(mem, gap, i), e>> \notin before}
           first == A!Place(mem, gap, e, before)
<1>1. T \in SUBSET Nat /\ n \in T
  OBVIOUS
<1>2. \E i \in T : \A j \in T : i <= j
  <2> HIDE DEF T
  <2>1. QED
    BY <1>1, Least
<1>3. first = CHOOSE i \in T : \A j \in T : i <= j
  BY DEF A!Place
<1>4. first \in T /\ \A j \in T : first <= j
  <2> HIDE DEF T, first
  <2>1. QED
    BY <1>2, <1>3
<1> HIDE DEF first
<1>5. ASSUME first = n, NEW i \in 0 .. n - 1 PROVE <<A!Get(mem, gap, i), e>> \in before
  <2>1. i \in 0 .. n /\ i < first /\ i # n
    BY <1>5
  <2>2. i \notin T
    <3> HIDE DEF T
    <3>1. QED
      BY <1>4, <2>1, <1>1
  <2>3. QED
    BY <2>1, <2>2
<1>6. first \in 0 .. n
  BY <1>4
<1> HIDE DEF n
<1>7. QED
  BY <1>5, <1>6, Zenon DEF first, n

\* The pointers to the structures.
Known(known) == {Pointer(k) : k \in DOMAIN known}

\* What comes of the memory when a symbol is added behind the old ones.
Adds(mem, old, s, known, added) ==
  /\ known = Append(old, s)
  /\ added = A!Add(mem, gap, Pointer(Len(known)), Known(known), Ascending(known))

(* A symbol that was added, and not refused, lies behind the others and    *)
(* above them.                                                             *)
LEMMA Added ==
  ASSUME gap \in A!Gaps, NEW mem \in Memories, NEW old \in Seq(Structures), NEW s \in Structures,
         NEW known, NEW added, Adds(mem, old, s, known, added)
  PROVE  /\ added.mem \in Memories /\ added.status \in Statuses \ {"loading"}
         /\ (Laid(mem, Len(old)) /\ Strict(old) /\ added.status = "ok") =>
              Laid(added.mem, Len(known)) /\ Strict(known)
<1> USE DEF Adds
<1> DEFINE n == Len(old)
           c == A!Count(mem)
           e == Pointer(Len(known))
           before == Ascending(known)
           first == A!Place(mem, gap, e, before)
           m1 == [mem EXCEPT ![gap + first] = e]
           m2 == [m1 EXCEPT ![2] = @ + 1]
           sound == mem[4] = PREDICATE /\ A!Sound(mem, gap, Known(known))
<1>1. n \in Nat /\ Len(known) = n + 1 /\ DOMAIN known = 1 .. n + 1 /\ DOMAIN old = 1 .. n
      /\ known[n + 1] = s /\ \A k \in 1 .. n : known[k] = old[k]
  BY LenProperties, AppendProperties
<1>2. gap \in 2 .. 5 /\ MAX_SYMBOLS \in 1 .. 49 /\ PREDICATE = 50 /\ e \in Nat
  BY <1>1, Sizes DEF A!Gaps, Pointer
<1>3. c = mem[2] /\ c \in Nat /\ 2 \in 1 .. gap + MAX_SYMBOLS
  BY <1>2 DEF A!Count, A!COUNT, Memories
<1>4. first \in 0 .. c /\ (first = c => \A i \in 0 .. c - 1 : <<A!Get(mem, gap, i), e>> \in before)
  <2> HIDE DEF e, before
  <2>1. QED
    BY <1>3, PlaceIs DEF c
<1>5. /\ c = 0 => added.mem = m2 /\ added.status = "ok"
      /\ c > 0 /\ ~sound => added.mem = mem /\ added.status = "wild"
      /\ c > 0 /\ sound /\ first < c => added.mem = mem /\ added.status = "lost"
      /\ c > 0 /\ sound /\ ~(first < c) =>
           added.mem = m2 /\ added.status = IF m2[2] > m2[3] THEN "panic" ELSE "ok"
  <2> HIDE DEF e, before
  <2>1. added = A!Add(mem, gap, e, Known(known), before)
    BY DEF e, before
  <2>2. added = CASE c = 0 -> [mem |-> m2, status |-> "ok"]
                  [] c > 0 /\ (mem[4] # PREDICATE \/ ~A!Sound(mem, gap, Known(known))) ->
                       [mem |-> mem, status |-> "wild"]
                  [] c > 0 /\ mem[4] = PREDICATE /\ A!Sound(mem, gap, Known(known)) ->
                       IF first < c THEN [mem |-> mem, status |-> "lost"]
                       ELSE [mem |-> m2, status |-> IF m2[2] > m2[3] THEN "panic" ELSE "ok"]
    BY <2>1, Zenon DEF A!Add, A!Outcome, A!COUNT, A!CAPACITY, A!ORDER
  <2> HIDE DEF first, c, m2
  <2>3. CASE c = 0
    <3>1. ~(c > 0)
      BY <2>3
    <3>2. added = [mem |-> m2, status |-> "ok"]
      BY <2>2, <2>3, <3>1, Zenon
    <3>3. QED
      BY <2>3, <3>1, <3>2
  <2>4. CASE c > 0 /\ ~sound
    <3>1. c # 0
      BY <2>4
    <3>2. added = [mem |-> mem, status |-> "wild"]
      BY <2>2, <2>4, <3>1, Zenon
    <3>3. QED
      BY <2>4, <3>1, <3>2
  <2>5. CASE c > 0 /\ sound
    <3>1. c # 0
      BY <2>5
    <3>2. added = IF first < c THEN [mem |-> mem, status |-> "lost"]
                  ELSE [mem |-> m2, status |-> IF m2[2] > m2[3] THEN "panic" ELSE "ok"]
      BY <2>2, <2>5, <3>1, Zenon
    <3>3. QED
      BY <2>5, <3>1, <3>2
  <2>6. c = 0 \/ c > 0
    BY <1>3
  <2>7. QED
    BY <2>3, <2>4, <2>5, <2>6, Zenon
<1>6. m2 \in Memories /\ (added.mem = m2 \/ added.mem = mem) /\ added.status \in Statuses \ {"loading"}
  <2> HIDE DEF c, e, first, before, sound
  <2>1. m1 \in Memories
    BY <1>2 DEF Memories
  <2> HIDE DEF m1
  <2>2. m1[2] + 1 \in Nat
    BY <1>3, <2>1 DEF Memories
  <2>3. m2 \in Memories
    BY <2>1, <2>2 DEF Memories
  <2> HIDE DEF m2
  <2>4. c = 0 \/ c > 0
    BY <1>3
  <2>5. QED
    BY <1>5, <2>3, <2>4 DEF Statuses
<1>7. ASSUME Laid(mem, n), Strict(old), added.status = "ok" PROVE Laid(added.mem, n + 1) /\ Strict(known)
  <2> DEFINE W == 1 .. gap + MAX_SYMBOLS
  <2>1. mem \in [W -> Nat] /\ \A w \in W : m1[w] = IF w = gap + first THEN e ELSE mem[w]
    BY <1>2, <1>4 DEF Memories
  <2>2. m2[2] = m1[2] + 1 /\ \A w \in W : w # 2 => m2[w] = m1[w]
    <3>1. m1 \in [W -> Nat]
      BY <1>2 DEF Memories
    <3> HIDE DEF m1
    <3>2. QED
      BY <1>3, <3>1
  <2>3. added.mem = m2 /\ (c = 0 \/ (c > 0 /\ sound /\ first = c /\ ~(m2[2] > m2[3])))
    <3> HIDE DEF c, e, first, before, sound, m2
    <3>1. c = 0 \/ c > 0
      BY <1>3
    <3>2. ~(first < c) => first = c
      BY <1>3, <1>4
    <3>3. QED
      BY <1>5, <1>7, <3>1, <3>2
  <2>4. sound => mem[4] = 50 /\ c <= MAX_SYMBOLS + 1
    BY <1>2 DEF A!Sound
  <2>5. Pointer(1) = 102 /\ Pointer(2) = 104
    BY DEF Pointer
  <2> HIDE DEF c, e, first, before, sound, m1, m2
  <2>6. c = n /\ first = n /\ (n > 0 => sound /\ ~(m2[2] > m2[3]))
    <3>1. first \in 0 .. c
      BY <1>4
    <3>2. CASE gap = 2
      <4>1. (n = 0 /\ c = 0) \/ (n = 1 /\ c = 103)
        BY <1>3, <1>7, <2>5, <3>2 DEF Laid
      <4>2. c # 103
        BY <1>2, <2>3, <2>4
      <4>3. QED
        BY <3>1, <4>1, <4>2
    <3>3. CASE gap # 2
      <4>1. c = n
        BY <1>3, <1>7, <3>3 DEF Laid
      <4>2. CASE c = 0
        BY <3>1, <4>1, <4>2
      <4>3. CASE c # 0
        <5>1. sound /\ first = c /\ ~(m2[2] > m2[3])
          BY <2>3, <4>3, Zenon
        <5>2. QED
          BY <4>1, <5>1
      <4>4. QED
        BY <4>2, <4>3
    <3>4. QED
      BY <3>2, <3>3
  <2>7. Laid(m2, n + 1)
    <3>1. \A w \in W : m1[w] = IF w = gap + n THEN e ELSE mem[w]
      BY <2>1, <2>6
    <3>2. e = Pointer(n + 1)
      BY <1>1 DEF e
    <3>3. gap = 2 => n = 0
      BY <1>2, <1>3, <1>7, <2>4, <2>5, <2>6 DEF Laid
    <3>4. gap = 3 => n \in {0, 1}
      <4>1. gap = 3 => n <= 2 /\ \A i \in 0 .. n - 1 : mem[3 + i] = Pointer(i + 1)
        BY <1>7 DEF Laid
      <4>2. gap = 3 /\ n = 2 => mem[3 + 1] = Pointer(1 + 1)
        BY <4>1
      <4>3. n > 0 => mem[4] = 50
        BY <2>4, <2>6
      <4>4. QED
        BY <1>1, <2>5, <4>1, <4>2, <4>3
    <3>5. gap = 4 => n = 0
      <4>1. gap = 4 => n <= 1 /\ \A i \in 0 .. n - 1 : mem[4 + i] = Pointer(i + 1)
        BY <1>7 DEF Laid
      <4>2. gap = 4 /\ n = 1 => mem[4 + 0] = Pointer(0 + 1)
        BY <4>1
      <4>3. n > 0 => mem[4] = 50
        BY <2>4, <2>6
      <4>4. QED
        BY <1>1, <2>5, <4>1, <4>2, <4>3
    <3>6. gap = 5 => n <= MAX_SYMBOLS - 1 /\ m2[3] = MAX_SYMBOLS /\ m2[4] = PREDICATE
      <4> SUFFICES ASSUME gap = 5 PROVE n <= MAX_SYMBOLS - 1 /\ m2[3] = MAX_SYMBOLS /\ m2[4] = PREDICATE
        OBVIOUS
      <4>1. n <= MAX_SYMBOLS /\ mem[3] = MAX_SYMBOLS /\ mem[4] = PREDICATE /\ mem[2] = n
        BY <1>7 DEF Laid
      <4>2. 5 + n # 3 /\ 5 + n # 4 /\ 5 + n # 2 /\ {2, 3, 4} \subseteq W
        BY <1>1, <1>2
      <4> HIDE DEF W
      <4>3. m2[3] = MAX_SYMBOLS /\ m2[4] = PREDICATE /\ m2[2] = n + 1
        BY <2>2, <3>1, <4>1, <4>2
      <4>4. n > 0 => ~(n + 1 > MAX_SYMBOLS)
        BY <2>6, <4>3
      <4>5. QED
        BY <1>1, <1>2, <4>3, <4>4
    <3>7. n \in 0 .. MAX_SYMBOLS /\ gap + n \in W /\ {2, 3} \subseteq W /\ (gap >= 3 => 4 \in W)
      BY <1>1, <1>2, <3>3, <3>4, <3>5, <3>6
    <3>8. m2[gap + n] = IF gap + n = 2 THEN e + 1 ELSE e
      <4>1. m1[gap + n] = e
        BY <3>1, <3>7
      <4>2. QED
        BY <2>2, <3>7, <4>1
    <3>9. gap # 2 => m2[2] = n + 1
      <4>1. gap # 2 => gap + n # 2
        BY <1>1, <1>2
      <4>2. gap # 2 => m1[2] = mem[2]
        BY <1>3, <3>1, <4>1
      <4>3. QED
        BY <1>3, <2>2, <2>6, <4>2
    <3>10. \A i \in 0 .. n - 1 : gap # 2 => gap + i \in W /\ m2[gap + i] = mem[gap + i]
      <4> SUFFICES ASSUME NEW i \in 0 .. n - 1, gap # 2 PROVE gap + i \in W /\ m2[gap + i] = mem[gap + i]
        OBVIOUS
      <4>1. gap + i \in W /\ gap + i # gap + n /\ gap + i # 2
        BY <1>1, <1>2, <3>7
      <4> HIDE DEF W
      <4>2. QED
        BY <2>2, <3>1, <4>1
    <3>11. gap = 3 /\ n = 0 => m2[4] = PREDICATE
      BY <1>2, <1>7, <2>2, <3>1, <3>7 DEF Laid
    <3>12. gap # 2 => \A i \in 0 .. n : m2[gap + i] = Pointer(i + 1)
      <4> SUFFICES ASSUME gap # 2, NEW i \in 0 .. n PROVE m2[gap + i] = Pointer(i + 1)
        OBVIOUS
      <4>1. CASE i = n
        <5>1. gap + n # 2
          BY <1>1, <1>2
        <5>2. m2[gap + n] = e
          BY <3>8, <5>1
        <5>3. gap + i = gap + n /\ i + 1 = n + 1
          BY <4>1
        <5>4. QED
          BY <3>2, <5>2, <5>3, Zenon
      <4>2. CASE i # n
        <5>1. i \in 0 .. n - 1
          <6> HIDE DEF n
          <6>1. QED
            BY <1>1, <4>2
        <5>2. mem[gap + i] = Pointer(i + 1)
          BY <1>7, <5>1 DEF Laid
        <5>3. QED
          BY <3>10, <5>1, <5>2
      <4>3. QED
        BY <4>1, <4>2
    <3>13. QED
      BY <1>1, <1>2, <3>2, <3>3, <3>4, <3>5, <3>6, <3>8, <3>9, <3>11, <3>12 DEF Laid
  <2>8. Strict(known)
    <3>1. ASSUME NEW i \in 1 .. n PROVE known[i].address < s.address
      <4>1. i - 1 \in 0 .. c - 1 /\ n > 0 /\ gap # 2
        BY <1>1, <1>3, <1>7, <2>3, <2>4, <2>5, <2>6 DEF Laid
      <4>2. A!Get(mem, gap, i - 1) = Pointer(i)
        BY <1>1, <1>7, <4>1 DEF A!Get, Laid
      <4>3. <<Pointer(i), e>> \in before
        BY <1>4, <2>6, <4>1, <4>2
      <4>4. PICK k \in (DOMAIN known) \X (DOMAIN known) :
              /\ known[k[1]].address < known[k[2]].address
              /\ <<Pointer(i), e>> = <<Pointer(k[1]), Pointer(k[2])>>
        BY <4>3 DEF before, Ascending
      <4>5. k[1] = i /\ k[2] = n + 1
        BY <1>1, <4>4 DEF Pointer, e
      <4>6. QED
        BY <1>1, <4>4, <4>5
    <3>2. QED
      BY <1>1, <1>7, <3>1 DEF Strict
  <2>9. QED
    BY <2>3, <2>7, <2>8
<1>8. QED
  BY <1>1, <1>6, <1>7

(* The characters of a text leave the machine as it must be.               *)
LEMMA EndAddressKeeps ==
  ASSUME NEW m \in Good PROVE EndAddress(m) \in Good
<1>1. parse_address(m.p.address) \in 0 .. Addresses - 1
  <2>1. m.p.address \in Text
    BY DEF Good, Machines, Parsers
  <2>2. QED
    BY <2>1, ParsedAddress
<1>2. <<>> \in Text
  BY DEF Text
<1> DEFINE q == [m.p EXCEPT !.value = parse_address(m.p.address), !.state = "SYMBOL", !.name = <<>>]
<1>3. q \in Parsers /\ q.status = m.p.status
  BY <1>1, <1>2 DEF Good, Machines, Parsers
<1> HIDE DEF q
<1>4. EndAddress(m) = [m EXCEPT !.p = q]
  BY DEF EndAddress, q
<1>5. QED
  BY <1>3, <1>4 DEF Good, Machines, Kept

(* White space behind a name adds the symbol, or the machine stops         *)
(* (symbols.c:105-120).                                                    *)
LEMMA EndNameKeeps ==
  ASSUME gap \in A!Gaps, NEW m \in Good, NEW uninitialised \in {0, 95}
  PROVE  EndName(m, uninitialised) \in Good
<1> DEFINE p == m.p
           begin == IF p.name # <<>> THEN p.name[1] ELSE IF p.stale = -1 THEN uninitialised ELSE p.stale
           s == [address |-> p.value, name |-> p.name]
           known == Append(m.known, s)
           added == A!Add(m.mem, gap, Pointer(Len(known)), Known(known), Ascending(known))
           bad == begin \notin {95} \union C!ALPHA \/ (asserts /\ p.name = <<>>)
           q == [p EXCEPT !.state = "ADDRESS", !.address = <<>>, !.stale = begin,
                          !.status = IF added.status = "ok" THEN @ ELSE added.status]
<1>1. p \in Parsers /\ m.mem \in Memories /\ m.known \in Seq(Structures) /\ Kept(m)
  BY DEF Good, Machines
<1>2. begin \in Int
  <2>1. p.name \in Text /\ p.stale \in Int
    BY <1>1 DEF Parsers
  <2>2. p.name # <<>> => p.name[1] \in 0 .. 127
    <3>1. p.name # <<>> => Len(p.name) \in Nat /\ 1 <= Len(p.name)
      BY <2>1, EmptySeq, LenProperties DEF Text
    <3>2. QED
      BY <2>1, <3>1, ElementOfSeq DEF Text
  <2> HIDE DEF p
  <2>3. p.name # <<>> => p.name[1] \in Int
    <3>1. \A x \in 0 .. 127 : x \in Int
      OBVIOUS
    <3>2. QED
      BY <2>2, <3>1, Zenon
  <2>4. QED
    BY <2>1, <2>3
<1>3. s \in Structures
  BY <1>1 DEF Parsers, Structures
<1> HIDE DEF s, added
<1>4. /\ added.mem \in Memories /\ added.status \in Statuses \ {"loading"} /\ known \in Seq(Structures)
      /\ (Laid(m.mem, Len(m.known)) /\ Strict(m.known) /\ added.status = "ok") =>
           Laid(added.mem, Len(known)) /\ Strict(known)
  <2>1. known \in Seq(Structures)
    BY <1>1, <1>3, AppendProperties
  <2> HIDE DEF known
  <2>2. Adds(m.mem, m.known, s, known, added)
    BY DEF known, added, Adds
  <2> HIDE DEF p
  <2>3. m.mem \in Memories /\ m.known \in Seq(Structures)
    BY <1>1
  <2>4. /\ added.mem \in Memories /\ added.status \in Statuses \ {"loading"}
        /\ (Laid(m.mem, Len(m.known)) /\ Strict(m.known) /\ added.status = "ok") =>
             Laid(added.mem, Len(known)) /\ Strict(known)
    <3> HIDE DEF s, known, added, p, q, bad, begin
    <3>1. QED
      BY <1>3, <2>2, <2>3, Added, SMT
  <2>5. QED
    BY <2>1, <2>4
<1>5. CASE bad
  <2>1. EndName(m, uninitialised) = [m EXCEPT !.p.status = "panic"]
    BY <1>5, Zenon DEF EndName, s
  <2>2. QED
    BY <1>1, <2>1 DEF Good, Machines, Kept, Parsers, Statuses
<1>6. CASE ~bad
  <2>1. EndName(m, uninitialised) = [mem |-> added.mem, known |-> known, p |-> q]
    BY <1>6, Zenon DEF EndName, s, added, Known
  <2>2. <<>> \in Text
    BY DEF Text
  <2> HIDE DEF begin, known, p
  <2>3. q \in Parsers
    <3> DEFINE outcome == IF added.status = "ok" THEN p.status ELSE added.status
    <3>1. outcome \in Statuses
      BY <1>1, <1>4 DEF Parsers
    <3>2. q = [p EXCEPT !.state = "ADDRESS", !.address = <<>>, !.stale = begin, !.status = outcome]
      BY <1>1 DEF Parsers
    <3> HIDE DEF q, outcome
    <3>3. QED
      BY <1>1, <1>2, <2>2, <3>1, <3>2 DEF Parsers
  <2>4. q.status \in {"loading", "ok"} => added.status = "ok" /\ p.status \in {"loading", "ok"}
    <3>1. q.status = IF added.status = "ok" THEN p.status ELSE added.status
      BY <1>1 DEF Parsers
    <3>2. added.status # "loading"
      BY <1>4
    <3>3. QED
      BY <3>1, <3>2
  <2> HIDE DEF q
  <2>5. QED
    BY <1>1, <1>4, <2>1, <2>3, <2>4 DEF Good, Machines, Kept, p
<1>7. QED
  BY <1>5, <1>6

(* Other characters only go into the buffers (symbols.c:95-134).           *)
LEMMA OthersKeep ==
  ASSUME NEW m \in Good, NEW c \in 0 .. 127
  PROVE  InAddress(m, c) \in Good /\ InName(m, c) \in Good
<1>1. m.p \in Parsers /\ m.mem \in Memories /\ m.known \in Seq(Structures) /\ Kept(m)
  BY DEF Good, Machines
<1>2. ASSUME NEW outcome \in {"panic", "wild"} PROVE [m EXCEPT !.p.status = outcome] \in Good
  BY <1>1 DEF Good, Machines, Kept, Parsers, Statuses
<1>3. ASSUME NEW t \in Text PROVE Append(t, c) \in Text
  BY AppendProperties DEF Text
<1>4. [m EXCEPT !.p.address = Append(@, c)] \in Good
  <2>1. Append(m.p.address, c) \in Text
    BY <1>1, <1>3 DEF Parsers
  <2>2. QED
    BY <1>1, <2>1 DEF Good, Machines, Kept, Parsers
<1>5. [m EXCEPT !.p.name = Append(@, c)] \in Good
  <2>1. Append(m.p.name, c) \in Text
    BY <1>1, <1>3 DEF Parsers
  <2>2. QED
    BY <1>1, <2>1 DEF Good, Machines, Kept, Parsers
<1>6. QED
  BY <1>2, <1>4, <1>5, Zenon DEF InAddress, InName

(* So a turn of the loop keeps the table (symbols.c:88-142).               *)
LEMMA TurnKeeps ==
  ASSUME gap \in A!Gaps, NEW m \in Good, NEW c \in 0 .. 127, NEW uninitialised \in {0, 95}
  PROVE  Turn(m, c, uninitialised) \in Good
<1> DEFINE n == [m EXCEPT !.p.first = FALSE]
<1>1. m.p \in Parsers /\ m.mem \in Memories /\ m.known \in Seq(Structures) /\ Kept(m)
  BY DEF Good, Machines
<1>2. n \in Good
  BY <1>1 DEF Good, Machines, Kept, Parsers
<1>3. m.p.status = "loading" => [n EXCEPT !.p.status = "ok"] \in Good
  BY <1>1 DEF Good, Machines, Kept, Parsers, Statuses
<1>4. EndAddress(n) \in Good /\ EndName(n, uninitialised) \in Good /\ InAddress(n, c) \in Good /\ InName(n, c) \in Good
  <2> HIDE DEF n
  <2>1. QED
    BY <1>2, EndAddressKeeps, EndNameKeeps, OthersKeep
<1>5. QED
  BY <1>3, <1>4, Zenon DEF Turn

(* So does a text.                                                         *)
LEMMA LineKeeps ==
  ASSUME gap \in A!Gaps, Machine \in Good, ReadLine
  PROVE  [p |-> load', mem |-> table', known |-> symbols'] \in Good /\ lines' = lines + 1
         /\ UNCHANGED <<gap, interrupts, answer, asserts>>
<1>1. PICK text \in FileLines, uninitialised \in {0, 95} :
        LET run[i \in 0 .. Len(text)] ==
              IF i = 0 THEN Machine ELSE Turn(run[i - 1], text[i], uninitialised)
            m == run[Len(text)]
        IN  load' = m.p /\ table' = m.mem /\ symbols' = m.known
  BY DEF ReadLine
<1> DEFINE n == Len(text)
           next(k, m) == Turn(m, text[k], uninitialised)
           one(k) == [m \in Good |-> next(k, m)]
           steps == [k \in 0 + 1 .. n |-> one(k)]
<1>2. n \in Nat /\ \A k \in 1 .. n : text[k] \in 0 .. 127
  <2>1. text \in Seq(0 .. 127)
    BY Sizes DEF Text
  <2>2. Len(text) \in Nat /\ \A k \in 1 .. Len(text) : text[k] \in 0 .. 127
    BY <2>1, LenProperties, ElementOfSeq
  <2>3. QED
    BY <2>2
<1> HIDE DEF n
<1>3. ASSUME NEW k \in 1 .. n, NEW m \in Good PROVE next(k, m) \in Good
  BY <1>2, TurnKeeps
<1> HIDE DEF next
<1>4. MapsAt(steps, Good, 0, n)
  <2>1. \A k \in 0 + 1 .. n : one(k) \in [Good -> Good]
    BY <1>3
  <2> HIDE DEF one
  <2>2. QED
    BY <2>1 DEF MapsAt
<1>5. ASSUME NEW k \in 1 .. n, NEW m \in Good PROVE steps[k][m] = next(k, m)
  OBVIOUS
<1> HIDE DEF steps
<1>6. PICK g : Unfolds(g, Good, steps, Machine, 0, n)
  <2>1. 0 \in Int /\ n \in Int
    BY <1>2
  <2>2. QED
    BY <1>4, <2>1, Unfolding
<1> DEFINE Is(h) == h = [i \in 0 .. n |-> IF i = 0 THEN Machine ELSE next(i, h[i - 1])]
<1>7. Is(g)
  <2>1. ASSUME NEW i \in 0 .. n
        PROVE  g[i] = IF i = 0 THEN Machine ELSE next(i, g[i - 1])
    <3>1. CASE i = 0
      BY <1>6, <3>1 DEF Unfolds
    <3>2. CASE i # 0
      <4>1. i \in 1 .. n /\ i - 1 \in 0 .. n
        BY <1>2, <3>2
      <4>2. g[i - 1] \in Good /\ g[i] = steps[i][g[i - 1]]
        BY <1>6, <3>2, <4>1 DEF Unfolds
      <4>3. QED
        BY <1>5, <3>2, <4>1, <4>2
    <3>3. QED
      BY <3>1, <3>2
  <2>2. g = [i \in 0 .. n |-> g[i]]
    BY <1>6 DEF Unfolds
  <2>3. QED
    BY <2>1, <2>2
<1> DEFINE run == CHOOSE h : Is(h)
<1>8. Is(run)
  <2> HIDE DEF Is
  <2>1. QED
    BY <1>7
<1>9. load' = run[n].p /\ table' = run[n].mem /\ symbols' = run[n].known
  BY <1>1 DEF n, next
<1> HIDE DEF run
<1>10. \A i \in 0 .. n : run[i] \in Good
  <2>1. 0 <= n => run[0] \in Good
    BY <1>2, <1>8
  <2>2. ASSUME NEW k \in 0 + 1 .. n, run[k - 1] \in Good PROVE run[k] \in Good
    <3>1. k \in 1 .. n /\ k \in 0 .. n /\ k # 0
      BY <1>2
    <3>2. run[k] = next(k, run[k - 1])
      <4>1. ASSUME NEW h, Is(h) PROVE h[k] = IF k = 0 THEN Machine ELSE next(k, h[k - 1])
        <5> DEFINE x(i) == IF i = 0 THEN Machine ELSE next(i, h[i - 1])
        <5>1. h = [i \in 0 .. n |-> x(i)]
          BY <4>1
        <5>2. k \in 0 .. n
          BY <3>1
        <5> HIDE DEF x, Is
        <5>3. h[k] = x(k)
          BY <5>1, <5>2
        <5>4. QED
          BY <5>3 DEF x
      <4> HIDE DEF Is
      <4>2. run[k] = IF k = 0 THEN Machine ELSE next(k, run[k - 1])
        BY <1>8, <4>1
      <4>3. QED
        BY <3>1, <4>2
    <3>3. QED
      BY <1>3, <2>2, <3>1, <3>2
  <2>3. 0 \in Int /\ n \in Int
    BY <1>2
  <2> HIDE DEF Is
  <2>4. QED
    BY <2>1, <2>2, <2>3, EachStepKept
<1>11. run[n] \in Good
  BY <1>2, <1>10
<1>12. [p |-> load', mem |-> table', known |-> symbols'] = run[n]
  BY <1>9, <1>11 DEF Good, Machines
<1>13. QED
  BY <1>11, <1>12 DEF ReadLine

(* What can be visited after loading is every symbol, in the order that    *)
(* they were read.                                                         *)
LEMMA Visited ==
  ASSUME gap \in A!Gaps, Machine \in Good, load.status \in {"ok", "loading"}, gap = 5 \/ Usable
  PROVE  /\ Len(symbols) \in Nat /\ DOMAIN symbols = 1 .. Len(symbols)
         /\ A!Count(table) = Len(symbols)
         /\ \A i \in Indices : /\ A!Get(table, gap, i) = Pointer(i + 1) /\ i + 1 \in DOMAIN symbols
                              /\ Listed(i) = symbols[i + 1]
<1> DEFINE n == Len(symbols)
<1>1. symbols \in Seq(Structures) /\ table \in Memories /\ Laid(table, n)
  BY DEF Good, Machines, Machine, Kept
<1>2. n \in Nat /\ DOMAIN symbols = 1 .. n
  BY <1>1, LenProperties
<1>3. Usable => table[2] <= MAX_SYMBOLS + 1
  BY DEF Usable, A!Sound, A!Count, A!COUNT
<1> HIDE DEF n
<1>4. table[2] = n /\ \A i \in 0 .. n - 1 : table[gap + i] = Pointer(i + 1)
  <2>1. Pointer(1) = 102 /\ MAX_SYMBOLS \in 1 .. 49
    BY Sizes DEF Pointer
  <2>2. CASE gap = 2
    BY <1>1, <1>2, <1>3, <2>1, <2>2 DEF Laid
  <2>3. CASE gap # 2
    BY <1>1, <2>3 DEF Laid
  <2>4. QED
    BY <2>2, <2>3
<1>5. ASSUME NEW i \in 0 .. n - 1
      PROVE  A!Get(table, gap, i) = Pointer(i + 1) /\ i + 1 \in 1 .. n /\ Listed(i) = symbols[i + 1]
  <2>1. A!Get(table, gap, i) = Pointer(i + 1)
    BY <1>4 DEF A!Get
  <2>2. i + 1 \in Nat /\ i + 1 \in 1 .. n
    BY <1>2
  <2>3. (Pointer(i + 1) - 100) \div 2 = i + 1
    BY <2>2, PointerIs
  <2>4. QED
    BY <2>1, <2>2, <2>3 DEF Listed, SymbolAt
<1>6. A!Count(table) = n
  BY <1>4 DEF A!Count, A!COUNT
<1>7. QED
  BY <1>2, <1>5, <1>6 DEF Indices, n

\* The table is as it must be while the file is read and when it was.
SymbolsInv ==
  /\ gap \in A!Gaps /\ interrupts \in BOOLEAN
  /\ Machine \in Good
  /\ answer.fn # "none" => load.status = "ok"
  /\ SearchesRight

(* An empty table is in order (symbols.c:80, ksorted_array.c:40-56).       *)
LEMMA InitSymbolsInv == InitSymbols => SymbolsInv
<1> SUFFICES ASSUME InitSymbols PROVE SymbolsInv
  OBVIOUS
<1>1. gap \in 2 .. 5 /\ MAX_SYMBOLS \in 1 .. 49 /\ PREDICATE = 50
  BY Sizes DEF InitSymbols, A!Gaps
<1> DEFINE word(w) == CASE w = 2 -> 0 [] w = 3 -> MAX_SYMBOLS [] w = 4 -> PREDICATE [] OTHER -> 0
<1>2. table \in Memories /\ \A w \in 1 .. gap + MAX_SYMBOLS : table[w] = word(w)
  <2>1. table = [w \in 1 .. gap + MAX_SYMBOLS |-> word(w)]
    BY DEF InitSymbols, A!Create, A!COUNT, A!CAPACITY, A!ORDER
  <2>2. \A w \in Nat : word(w) \in Nat
    BY <1>1
  <2> HIDE DEF word
  <2>3. QED
    BY <1>1, <2>1, <2>2 DEF Memories
<1>3. table[2] = 0 /\ (gap >= 3 => table[4] = PREDICATE /\ table[3] = MAX_SYMBOLS)
  BY <1>1, <1>2
<1>4. Laid(table, 0) /\ Strict(<<>>) /\ <<>> \in Seq(Structures) /\ Len(<<>>) = 0
  BY <1>1, <1>3 DEF Laid, Strict
<1>5. load \in Parsers
  <2>1. <<>> \in Text /\ 0 \in 0 .. Addresses - 1
    BY Sizes DEF Text
  <2>2. QED
    BY <2>1 DEF InitSymbols, Parser, Parsers, Statuses
<1>6. Machine \in Good
  BY <1>2, <1>4, <1>5 DEF InitSymbols, Machine, Machines, Good, Kept
<1>7. QED
  BY <1>6 DEF InitSymbols, SymbolsInv, SearchesRight

(* What a good machine is depends on nothing but the gap.                  *)
LEMMA GoodStays == ASSUME UNCHANGED gap PROVE Good' = Good
<1>1. Memories' = Memories
  BY DEF Memories
<1>2. \A mem, n : Laid(mem, n)' <=> Laid(mem, n)
  BY ZenonT(60) DEF Laid
<1>3. QED
  BY <1>1, <1>2, Zenon DEF Good, Machines, Kept

(* Nothing has to be right of answers before anything is searched for.     *)
LEMMA Unanswered ==
  ASSUME SymbolsInv, gap' = gap, interrupts' \in BOOLEAN, Machine' \in Good, answer.fn = "none",
         answer' = answer
  PROVE  SymbolsInv'
BY GoodStays DEF SymbolsInv, SearchesRight

(* The searches answer with the first symbol that fits                     *)
(* (symbols.c:149-180).                                                    *)
LEMMA SearchFinds ==
  ASSUME SymbolsInv, Search
  PROVE  SymbolsInv'
<1> USE DEF SymbolsInv
<1>1. load.status = "ok" /\ answer.fn = "none" /\ UNCHANGED <<gap, table, symbols, lines, asserts>>
  BY DEF Search, Idle
<1>2. CASE Wild
  <2>1. load' = [load EXCEPT !.status = "wild"] /\ UNCHANGED <<answer, interrupts>>
    BY <1>2 DEF Wild
  <2>2. Machine' \in Good
    BY <1>1, <2>1 DEF Machine, Good, Machines, Kept, Parsers, Statuses
  <2>3. QED
    BY <1>1, <2>1, <2>2, Unanswered
<1>3. ASSUME load' = load, interrupts' \in BOOLEAN, SearchesRight' PROVE SymbolsInv'
  <2>1. Machine' = Machine
    BY <1>1, <1>3 DEF Machine
  <2>2. Machine' \in Good'
    BY <1>1, <2>1, GoodStays
  <2>3. QED
    BY <1>1, <1>3, <2>2
<1>4. ASSUME Usable
      PROVE  /\ \A k \in DOMAIN symbols : \E i \in Indices : Listed(i) = symbols[k]
             /\ \A i \in Indices : /\ A!Get(table, gap, i) # NULL
                                  /\ SymbolAt(A!Get(table, gap, i)) = Listed(i)
                                  /\ \E k \in DOMAIN symbols : Listed(i) = symbols[k]
  <2>1. /\ Len(symbols) \in Nat /\ DOMAIN symbols = 1 .. Len(symbols)
        /\ A!Count(table) = Len(symbols)
        /\ \A i \in Indices : /\ A!Get(table, gap, i) = Pointer(i + 1) /\ i + 1 \in DOMAIN symbols
                             /\ Listed(i) = symbols[i + 1]
    BY <1>1, <1>4, Visited
  <2>2. ASSUME NEW k \in DOMAIN symbols PROVE \E i \in Indices : Listed(i) = symbols[k]
    <3>1. k \in Int /\ k - 1 \in Indices /\ (k - 1) + 1 = k
      BY <2>1 DEF Indices
    <3>2. QED
      BY <2>1, <3>1
  <2>3. ASSUME NEW i \in Indices PROVE A!Get(table, gap, i) # NULL
    <3>1. i + 1 \in Nat
      BY <2>1 DEF Indices
    <3>2. QED
      BY <2>1, <3>1, PointerIs DEF NULL
  <2>4. QED
    BY <2>1, <2>2, <2>3 DEF Listed
<1>5. ASSUME NEW name \in Wanted, Usable, get_symbol_address(name) PROVE SymbolsInv'
  <2> DEFINE found(i) == SameSoFar(Listed(i).name, name)
             T == {i \in Indices : found(i)}
             first == CHOOSE i \in Indices : found(i) /\ \A j \in 0 .. i - 1 : ~found(j)
  <2>1. /\ answer' = [fn |-> "address", of |-> name, before |-> interrupts,
                      symbol |-> IF \E i \in Indices : found(i) THEN A!Get(table, gap, first) ELSE NULL]
        /\ interrupts' = ((~\E i \in Indices : found(i)) /\ interrupts)
        /\ UNCHANGED load
    BY <1>5 DEF get_symbol_address, FirstThat
  <2> HIDE DEF found, first
  <2>2. CASE T = {}
    <3>1. answer' = [fn |-> "address", of |-> name, before |-> interrupts, symbol |-> NULL]
          /\ interrupts' = interrupts
      BY <2>1, <2>2
    <3>2. ASSUME NEW k \in DOMAIN symbols PROVE symbols[k].name # name
      <4>1. PICK i \in Indices : Listed(i) = symbols[k]
        BY <1>4, <1>5
      <4>2. ~SameSoFar(symbols[k].name, name)
        BY <2>2, <4>1 DEF found
      <4>3. QED
        BY <4>2 DEF SameSoFar
    <3>3. SearchesRight'
      BY <1>1, <3>1, <3>2 DEF SearchesRight
    <3>4. QED
      BY <1>3, <2>1, <3>1, <3>3
  <2>3. CASE T # {}
    <3>1. T \in SUBSET Nat
      BY DEF Indices
    <3>2. PICK m \in T : \A j \in T : m <= j
      <4> HIDE DEF T
      <4>1. QED
        BY <2>3, <3>1, Least
    <3>3. m \in Indices /\ found(m) /\ \A j \in 0 .. m - 1 : ~found(j)
      <4>1. A!Count(table) \in Nat
        BY <1>1, <1>5, Visited
      <4>2. ASSUME NEW j \in 0 .. m - 1 PROVE j \in Indices /\ ~(m <= j)
        BY <4>1 DEF Indices
      <4>3. QED
        BY <3>2, <4>2
    <3>4. first \in Indices /\ found(first)
      BY <3>3 DEF first
    <3>5. /\ answer' = [fn |-> "address", of |-> name, before |-> interrupts,
                        symbol |-> A!Get(table, gap, first)]
          /\ interrupts' = FALSE
      BY <2>1, <3>4
    <3>6. A!Get(table, gap, first) # NULL /\ SymbolAt(A!Get(table, gap, first)) = Listed(first)
      BY <1>4, <1>5, <3>4
    <3>7. symbols'[(A!Get(table, gap, first) - 100) \div 2] = Listed(first)
      BY <1>1, <3>6 DEF SymbolAt
    <3>8. SameSoFar(Listed(first).name, name)
      BY <3>4 DEF found
    <3>9. SearchesRight'
      BY <3>5, <3>6, <3>7, <3>8 DEF SearchesRight, SymbolAt, NULL, SameSoFar
    <3>10. QED
      BY <1>3, <2>1, <3>5, <3>9
  <2>4. QED
    BY <2>2, <2>3
<1>6. ASSUME NEW address \in CodeStart - 1 .. CodeEnd + 1, get_symbol_name(address),
             address >= CodeStart /\ address <= CodeEnd => Usable
      PROVE  SymbolsInv'
  <2> DEFINE found(i) == Below(i, address)
             T == {i \in Indices : found(i)}
             first == CHOOSE i \in Indices : found(i) /\ \A j \in 0 .. i - 1 : ~found(j)
             inside == address >= CodeStart /\ address <= CodeEnd
  <2>1. /\ answer' = [fn |-> "name", of |-> address, before |-> interrupts,
                      symbol |-> IF inside /\ \E i \in Indices : found(i)
                                 THEN A!Get(table, gap, first) ELSE NULL]
        /\ UNCHANGED <<interrupts, load>>
    BY <1>6 DEF get_symbol_name, FirstThat
  <2>2. address \in Int /\ CodeStart \in Int /\ CodeEnd \in Int
    BY SymbolsAssumption
  <2>3. \A k \in DOMAIN symbols : symbols[k].address \in Int
    <3>1. symbols \in Seq(Structures)
      BY DEF Machine, Good, Machines
    <3>2. \A k \in DOMAIN symbols : symbols[k] \in Structures
      BY <3>1, LenProperties, ElementOfSeq
    <3>3. QED
      BY <3>2, Sizes DEF Structures
  <2> HIDE DEF found, first
  <2>4. CASE ~inside \/ T = {}
    <3>1. answer' = [fn |-> "name", of |-> address, before |-> interrupts, symbol |-> NULL]
      BY <2>1, <2>4
    <3>2. ASSUME NEW k \in DOMAIN symbols, inside PROVE symbols[k].address > address
      <4>1. PICK i \in Indices : Listed(i) = symbols[k]
        BY <1>4, <1>6, <3>2
      <4>2. ~(symbols[k].address <= address)
        BY <2>4, <3>2, <4>1 DEF found, Below
      <4>3. QED
        BY <2>2, <2>3, <4>2
    <3>3. SearchesRight'
      BY <1>1, <2>2, <3>1, <3>2 DEF SearchesRight
    <3>4. QED
      BY <1>3, <2>1, <3>3
  <2>5. CASE inside /\ T # {}
    <3>1. T \in SUBSET Nat
      BY DEF Indices
    <3>2. PICK m \in T : \A j \in T : m <= j
      <4> HIDE DEF T
      <4>1. QED
        BY <2>5, <3>1, Least
    <3>3. m \in Indices /\ found(m) /\ \A j \in 0 .. m - 1 : ~found(j)
      <4>1. A!Count(table) \in Nat
        BY <1>1, <1>6, <2>5, Visited
      <4>2. ASSUME NEW j \in 0 .. m - 1 PROVE j \in Indices /\ ~(m <= j)
        BY <4>1 DEF Indices
      <4>3. QED
        BY <3>2, <4>2
    <3>4. first \in Indices /\ found(first)
      BY <3>3 DEF first
    <3>5. answer' = [fn |-> "name", of |-> address, before |-> interrupts,
                     symbol |-> A!Get(table, gap, first)]
      BY <2>1, <2>5, <3>4
    <3>6. A!Get(table, gap, first) # NULL /\ SymbolAt(A!Get(table, gap, first)) = Listed(first)
      BY <1>4, <1>6, <2>5, <3>4
    <3>7. symbols'[(A!Get(table, gap, first) - 100) \div 2] = Listed(first)
      BY <1>1, <3>6 DEF SymbolAt
    <3>8. Listed(first).address <= address
      BY <3>4 DEF found, Below
    <3>9. SearchesRight'
      BY <2>1, <3>5, <3>6, <3>7, <3>8 DEF SearchesRight, SymbolAt, NULL
    <3>10. QED
      BY <1>3, <2>1, <3>9
  <2>6. QED
    BY <2>4, <2>5
<1>7. QED
  BY <1>2, <1>5, <1>6 DEF Search, get_symbol_address, get_symbol_name

(* Every step keeps the table and the answers (symbols.c).                 *)
LEMMA NextSymbolsInv == SymbolsInv /\ [NextSymbols]_symbolVars => SymbolsInv'
<1> SUFFICES ASSUME SymbolsInv, [NextSymbols]_symbolVars PROVE SymbolsInv'
  OBVIOUS
<1>1. CASE UNCHANGED symbolVars
  <2>1. Machine' = Machine /\ gap' = gap /\ interrupts' = interrupts /\ answer' = answer
        /\ load' = load
    BY <1>1 DEF symbolVars, Machine
  <2>2. SearchesRight' = SearchesRight
    BY <1>1 DEF symbolVars, SearchesRight, SymbolAt
  <2>3. Machine' \in Good'
    BY <2>1, GoodStays DEF SymbolsInv
  <2>4. QED
    BY <2>1, <2>2, <2>3 DEF SymbolsInv
<1>2. CASE ReadLine
  <2>1. Machine' \in Good /\ UNCHANGED <<gap, interrupts, answer, asserts>>
    BY <1>2, LineKeeps DEF SymbolsInv, Machine
  <2>2. answer.fn = "none"
    BY <1>2 DEF SymbolsInv, ReadLine, Loading
  <2>3. QED
    BY <2>1, <2>2, Unanswered DEF SymbolsInv
<1>3. CASE EndOfFile
  <2>1. Machine' \in Good
    BY <1>3 DEF SymbolsInv, EndOfFile, Loading, Machine, Good, Machines, Kept, Parsers, Statuses
  <2>2. answer.fn = "none"
    BY <1>3 DEF SymbolsInv, EndOfFile, Loading
  <2>3. QED
    BY <1>3, <2>1, <2>2, Unanswered DEF SymbolsInv, EndOfFile
<1>4. CASE SetInterrupts
  <2>1. Machine' \in Good /\ interrupts' \in BOOLEAN /\ answer.fn = "none" /\ gap' = gap /\ answer' = answer
    BY <1>4 DEF SymbolsInv, SetInterrupts, Idle, Machine
  <2>2. QED
    BY <2>1, Unanswered
<1>5. CASE Search
  BY <1>5, SearchFinds
<1>6. QED
  BY <1>1, <1>2, <1>3, <1>4, <1>5 DEF NextSymbols

(* The symbol table keeps every symbol that it took, in ascending order    *)
(* (symbols.c:75-147, ksorted_array.c:59-110), whatever the file, and a    *)
(* table that overlaps its own structure holds at most two.                *)
THEOREM SymbolsKept == SymbolsSpec => []TableKept
<1>1. SymbolsInv => TableKept
  <2> SUFFICES ASSUME SymbolsInv, load.status \in {"ok", "loading"} PROVE TableKept
    BY DEF TableKept
  <2>1. Laid(table, Len(symbols)) /\ Strict(symbols) /\ symbols \in Seq(Structures)
    BY DEF SymbolsInv, Good, Machines, Machine, Kept
  <2>2. Len(symbols) <= CASE gap = 3 -> 2 [] gap \in {2, 4} -> 1 [] OTHER -> MAX_SYMBOLS
    <3>1. gap \in 2 .. 5 /\ MAX_SYMBOLS \in 1 .. 49
      BY Sizes DEF SymbolsInv, A!Gaps
    <3>2. CASE gap = 2
      <4>1. Len(symbols) = 0 \/ Len(symbols) = 1
        BY <2>1, <3>2 DEF Laid
      <4>2. (CASE gap = 3 -> 2 [] gap \in {2, 4} -> 1 [] OTHER -> MAX_SYMBOLS) = 1
        BY <3>2
      <4>3. 0 <= 1 /\ 1 <= 1
        OBVIOUS
      <4>4. QED
        BY <4>1, <4>2, <4>3, Zenon
    <3>3. CASE gap = 3
      BY <2>1, <3>3 DEF Laid
    <3>4. CASE gap = 4
      BY <2>1, <3>4 DEF Laid
    <3>5. CASE gap = 5
      BY <2>1, <3>5 DEF Laid
    <3>6. QED
      BY <3>1, <3>2, <3>3, <3>4, <3>5
  <2>3. ASSUME gap = 5
        PROVE  /\ A!Count(table) = Len(symbols)
               /\ \A i \in Indices : A!Get(table, gap, i) = Pointer(i + 1)
               /\ \A i, j \in Indices : i < j => Listed(i).address < Listed(j).address
    <3>1. /\ Len(symbols) \in Nat /\ DOMAIN symbols = 1 .. Len(symbols)
          /\ A!Count(table) = Len(symbols)
          /\ \A i \in Indices : /\ A!Get(table, gap, i) = Pointer(i + 1) /\ i + 1 \in DOMAIN symbols
                               /\ Listed(i) = symbols[i + 1]
      BY <2>3, Visited DEF SymbolsInv
    <3>2. ASSUME NEW i \in Indices, NEW j \in Indices, i < j PROVE Listed(i).address < Listed(j).address
      <4>1. i + 1 \in DOMAIN symbols /\ j + 1 \in DOMAIN symbols /\ Listed(i) = symbols[i + 1] /\ Listed(j) = symbols[j + 1]
        BY <3>1
      <4>2. i \in Int /\ j \in Int
        BY DEF Indices
      <4>3. i + 1 < j + 1
        BY <3>2, <4>2
      <4>4. QED
        BY <2>1, <4>1, <4>3 DEF Strict
    <3>3. QED
      BY <3>1, <3>2
  <2>4. QED
    BY <2>2, <2>3 DEF TableKept
<1>2. QED
  BY <1>1, InitSymbolsInv, NextSymbolsInv, PTL DEF SymbolsSpec

(* The searches find a symbol if there is one (symbols.c:149-180).         *)
THEOREM SymbolsFound == SymbolsSpec => []SearchesRight
<1>1. SymbolsInv => SearchesRight
  BY DEF SymbolsInv
<1>2. QED
  BY <1>1, InitSymbolsInv, NextSymbolsInv, PTL DEF SymbolsSpec

=============================================================================
