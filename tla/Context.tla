------------------------------- MODULE Context -------------------------------
(***************************************************************************)
(* The processor state across an interrupt: the structure cpu_state, the   *)
(* stubs of isr_irq_stub.S that fill it and load it again, get_cpu_state,  *)
(* and set_state_and_jump.  A register file is a function from register to *)
(* value; values are tuples that nothing computes with.                    *)
(*                                                                         *)
(* `reading' tells two readings of the stubs apart.  "written" takes the   *)
(* operands for what they look like.  "assembled" is what GNU as makes of  *)
(* them: `push cpu_state' pushes the contents of cpu_state, which is the   *)
(* saved EAX, and in `push dword [cpu_state_eip]' dword is the number 4,   *)
(* so that the next member is pushed.                                      *)
(***************************************************************************)
EXTENDS Integers, Sequences, SequencesExt

\* The members of struct cpu_state in their order; the last two, interrupt
\* and error_code, are no registers.
Layout == <<"eax", "ebx", "ecx", "edx", "esp", "ebp", "esi", "edi", "cs", "ds", "es", "fs", "gs",
            "ss", "eip", "eflags", "cr0", "cr2", "cr3", "cr4", "interrupt", "error_code">>
Slots == ToSet(Layout)
Control == {"cr0", "cr2", "cr3", "cr4"}
General == {"eax", "ebx", "ecx", "edx", "ebp", "esi", "edi"}
Segments == {"ds", "es", "fs", "gs"}
Registers == Slots \ {"esp", "interrupt", "error_code"}   \* the stack is apart

DATA == <<"selector", 16>>
CODE == <<"selector", 8>>
ZERO == <<"number", 0>>
JUNK == <<"junk", 0>>

\* The member 4 bytes behind another one.
Behind(slot) == Layout[(CHOOSE i \in DOMAIN Layout : Layout[i] = slot) + 1]

\* COMMON_PROLOGUE: the words that the processor and the entry pushed are
\* popped, SS goes where GS was, and nothing stores ESP and SS.
\* Mutant: ECX is not stored.
PrologueWithoutEcx(reg, frame, saved) ==
  [s \in Slots |->
     CASE s \in {"interrupt", "error_code", "eip", "cs", "eflags"} -> frame[s]
       [] s = "gs"                                                 -> reg["ss"]
       [] s \in {"esp", "ss", "ecx"}                               -> saved[s]
       [] OTHER                                                    -> reg[s]]
Prologue(reg, frame, saved) ==
  [s \in Slots |->
     CASE s \in {"interrupt", "error_code", "eip", "cs", "eflags"} -> frame[s]
       [] s = "gs"                                                 -> reg["ss"]
       [] s \in {"esp", "ss"}                                      -> saved[s]
       [] OTHER                                                    -> reg[s]]

\* CALL_HANDLER: the segments of the kernel, and the word that the handler
\* takes for the address of the state.
InKernel(reg) == [r \in Registers |-> IF r \in Segments \union {"ss"} THEN DATA ELSE reg[r]]
Argument(reading, saved) == IF reading = "written" THEN <<"address", 0>> ELSE saved["eax"]

\* What a function of C leaves of the registers.
AfterCall(reg) == [r \in Registers |-> IF r \in {"eax", "ecx", "edx"} THEN JUNK ELSE reg[r]]

\* COMMON_EPILOGUE up to iret: EAX serves to load the segments and is left with
\* the last of them.
Epilogue(reg, saved) ==
  [r \in Registers |-> IF r = "eax" THEN saved["gs"]
                       ELSE IF r \in General \union Segments THEN saved[r] ELSE reg[r]]

\* What iret finds on the stack.
ReturnFrame(reading, saved) ==
  [s \in {"eip", "cs", "eflags"} |-> saved[IF reading = "written" THEN s ELSE Behind(s)]]
Iret(reg, frame) == [r \in Registers |-> IF r \in DOMAIN frame THEN frame[r] ELSE reg[r]]

\* get_cpu_state stores everything; ESP and the error code are left out.
Captured(reg) == [s \in Slots |-> IF s \in Registers THEN reg[s] ELSE ZERO]

\* set_state_and_jump: everything but the segments and the control registers.
\* The jump stays in its ring, so that iret does not load ESP and SS: both words
\* stay on the stack, and the stack stays the one of the caller.
Jumped(reg, state) ==
  [r \in Registers |-> IF r \in General \union {"cs", "eip", "eflags"} THEN state[r] ELSE reg[r]]
JumpLeaves(state) == <<state["ss"], state["esp"]>>

\* process_spawn in the kernel's ring, in zeroed memory.
Spawned(entry) ==
  [s \in Slots |-> CASE s = "cs"                       -> CODE
                     [] s \in Segments \union {"ss"}   -> DATA
                     [] s = "eip"                      -> entry
                     [] OTHER                          -> ZERO]
=============================================================================
