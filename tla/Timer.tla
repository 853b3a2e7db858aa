-------------------------------- MODULE Timer --------------------------------
(***************************************************************************)
(* The timer events of src/kernel/timer.c and the PIT interrupt that       *)
(* drives them: add_timer_event, process_timer_queue and pit_handler.      *)
(*                                                                         *)
(* Events are numbered in the order add_timer_event creates them; the      *)
(* number stands for the address.  A callback either returns, possibly     *)
(* after adding events itself, or is process_switch, which leaves the      *)
(* interrupt handler for the context of another process.  Memory for an    *)
(* event is there: where it is not the kernel panics, see Sched.           *)
(***************************************************************************)
EXTENDS Integers

CONSTANTS
  MaxEvents,   (* Bound: how many events are created.                       *)
  Word,        (* Number of values of a uint32_t: 2^32.                     *)
  TickTime,    (* 1000 / TICK_RATE, the time one tick stands for.           *)
  Periods,     (* Periods a caller may ask for.                             *)
  Callbacks    (* Callbacks a caller may pass: see CallbackKind.            *)

CallbackKind == {"null", "returns", "switches"}

ASSUME TimerAssumption ==
  /\ MaxEvents \in Nat
  /\ Word \in Nat
  /\ TickTime \in 1 .. Word - 1
  /\ Periods \subseteq 0 .. Word - 1
  /\ Callbacks \subseteq CallbackKind

Event == 1 .. MaxEvents
NULL == 0
Pointer == Event \union {NULL}

VARIABLES
  events,     (* The list's head.                                           *)
  count,      (* How many events have been created.                         *)
  period,     (* event->period.                                             *)
  elapsed,    (* event->elapsed_time.                                       *)
  callback,   (* event->callback.                                           *)
  next,       (* event->next.                                               *)
  pc,         (* Where the CPU is: outside both functions or inside one.    *)
  queue,      (* process_timer_queue's cursor.                              *)
  caller,     (* What add_timer_event returns to.                           *)
  intr,       (* The interrupt flag of the running context; in              *)
              (* add_timer_event, the one it restores.                      *)
  since,      (* History: time since the event was created or last raised,  *)
              (* in whole ticks, no further than Word.                      *)
  seen        (* History: the events visited in the current tick.           *)

vars == <<events, count, period, elapsed, callback, next, pc, queue, caller,
          intr, since, seen>>

Init ==
  /\ events = NULL
  /\ count = 0
  /\ period = [e \in Event |-> 0]
  /\ elapsed = [e \in Event |-> 0]
  /\ callback = [e \in Event |-> "null"]
  /\ next = [e \in Event |-> NULL]
  /\ pc = "out"
  /\ queue = NULL
  /\ caller = "out"
  /\ intr = FALSE
  /\ since = [e \in Event |-> 0]
  /\ seen = {}

-----------------------------------------------------------------------------
(* add_timer_event.                                                        *)

(* A NULL callback: the early return leaves interrupts disabled.           *)
AddNullCallback ==
  /\ pc \in {"out", "callback"}
  /\ "null" \in Callbacks
  /\ intr' = FALSE
  /\ UNCHANGED <<events, count, period, elapsed, callback, next, pc, queue,
                 caller, since, seen>>

(* Mutation: next is left as the memory from kmalloc has it.               *)
CreateWithoutNext(time, function) ==
  LET e == count + 1
  IN  /\ count' = e
      /\ period' = [period EXCEPT ![e] = time]
      /\ elapsed' = [elapsed EXCEPT ![e] = 0]
      /\ callback' = [callback EXCEPT ![e] = function]
      /\ next' = [next EXCEPT ![e] = e + 1]

CreateEvent(time, function) ==
  LET e == count + 1
  IN  /\ count' = e
      /\ period' = [period EXCEPT ![e] = time]
      /\ elapsed' = [elapsed EXCEPT ![e] = 0]
      /\ callback' = [callback EXCEPT ![e] = function]
      /\ next' = [next EXCEPT ![e] = NULL]

(* Called with interrupts on or off, or by a callback.                     *)
AddTimerEvent ==
  /\ pc \in {"out", "callback"}
  /\ count < MaxEvents
  /\ \E time \in Periods, function \in Callbacks \ {"null"} :
        CreateEvent(time, function)
  /\ since' = [since EXCEPT ![count + 1] = 0]
  /\ pc' = "append"
  /\ caller' = pc
  /\ UNCHANGED <<events, queue, intr, seen>>

(* while (events->next) events = events->next: it moves the list's head.   *)
Advance ==
  /\ pc = "append"
  /\ events # NULL
  /\ next[events] # NULL
  /\ events' = next[events]
  /\ UNCHANGED <<count, period, elapsed, callback, next, pc, queue, caller,
                 intr, since, seen>>

(* Mutation: the loop is missing; the head's old successor is overwritten. *)
AppendToHead ==
  /\ pc = "append"
  /\ \/ events = NULL /\ events' = count /\ UNCHANGED next
     \/ events # NULL /\ next' = [next EXCEPT ![events] = count] /\ UNCHANGED events
  /\ pc' = caller
  /\ UNCHANGED <<count, period, elapsed, callback, queue, caller, intr, since,
                 seen>>

(* events->next = event, or events = event for the first one.              *)
Append ==
  /\ pc = "append"
  /\ \/ /\ events = NULL
        /\ events' = count
        /\ UNCHANGED next
     \/ /\ events # NULL
        /\ next[events] = NULL
        /\ next' = [next EXCEPT ![events] = count]
        /\ UNCHANGED events
  /\ pc' = caller
  /\ UNCHANGED <<count, period, elapsed, callback, queue, caller, intr, since,
                 seen>>

-----------------------------------------------------------------------------
(* process_timer_queue, called by pit_handler.                             *)

Later(t) == IF t + TickTime > Word THEN Word ELSE t + TickTime

(* IRQ 0: the gate disables interrupts.                                    *)
Tick ==
  /\ pc = "out"
  /\ intr
  /\ intr' = FALSE
  /\ pc' = "visit"
  /\ queue' = events
  /\ since' = [e \in Event |-> IF e <= count THEN Later(since[e]) ELSE 0]
  /\ seen' = {}
  /\ UNCHANGED <<events, count, period, elapsed, callback, next, caller>>

(* queue->elapsed_time + elapsed_time, in 32 bits.                         *)
NewElapsed(e) ==
  LET sum == elapsed[e] + TickTime IN IF sum < Word THEN sum ELSE sum - Word

(* Mutation: the event is raised one tick before its period is over.       *)
DueEarly(e) == NewElapsed(e) + TickTime >= period[e]

Due(e) == NewElapsed(e) >= period[e]

(* Mutation: the sum is compared with the period but not stored.           *)
AccumulateNothing ==
  /\ pc = "visit"
  /\ queue # NULL
  /\ ~Due(queue)
  /\ queue' = next[queue]
  /\ seen' = seen \union {queue}
  /\ UNCHANGED <<events, count, period, elapsed, callback, next, pc, caller,
                 intr, since>>

Accumulate ==
  /\ pc = "visit"
  /\ queue # NULL
  /\ ~Due(queue)
  /\ elapsed' = [elapsed EXCEPT ![queue] = NewElapsed(queue)]
  /\ queue' = next[queue]
  /\ seen' = seen \union {queue}
  /\ UNCHANGED <<events, count, period, callback, next, pc, caller, intr, since>>

(* The call of a callback that returns.                                    *)
Call ==
  /\ pc = "visit"
  /\ queue # NULL
  /\ Due(queue)
  /\ callback[queue] = "returns"
  /\ pc' = "callback"
  /\ since' = [since EXCEPT ![queue] = 0]
  /\ seen' = seen \union {queue}
  /\ UNCHANGED <<events, count, period, elapsed, callback, next, queue, caller,
                 intr>>

(* The call of process_switch: the CPU goes on in another process, with    *)
(* interrupts on or off as they were there.  elapsed_time is not reset and *)
(* the rest of the list is not visited.                                    *)
CallSwitch ==
  /\ pc = "visit"
  /\ queue # NULL
  /\ Due(queue)
  /\ callback[queue] = "switches"
  /\ pc' = "out"
  /\ queue' = NULL
  /\ intr' \in BOOLEAN
  /\ since' = [since EXCEPT ![queue] = 0]
  /\ seen' = seen \union {queue}
  /\ UNCHANGED <<events, count, period, elapsed, callback, next, caller>>

Return ==
  /\ pc = "callback"
  /\ elapsed' = [elapsed EXCEPT ![queue] = 0]
  /\ queue' = next[queue]
  /\ pc' = "visit"
  /\ UNCHANGED <<events, count, period, callback, next, caller, intr, since,
                 seen>>

(* The end of the list; iret restores the flag, which was set.             *)
Done ==
  /\ pc = "visit"
  /\ queue = NULL
  /\ pc' = "out"
  /\ intr' = TRUE
  /\ UNCHANGED <<events, count, period, elapsed, callback, next, queue, caller,
                 since, seen>>

(* disable_interrupts and enable_interrupts in the running context.        *)
SetInterrupts ==
  /\ pc = "out"
  /\ intr' = ~intr
  /\ UNCHANGED <<events, count, period, elapsed, callback, next, pc, queue,
                 caller, since, seen>>

Next ==
  \/ AddNullCallback \/ AddTimerEvent \/ Advance \/ Append
  \/ Tick \/ Accumulate \/ Call \/ CallSwitch \/ Return \/ Done
  \/ SetInterrupts

Spec == Init /\ [][Next]_vars

(* The CPU executes the code it is in; a callback returns.  The interrupt  *)
(* controller keeps a tick pending while interrupts are off, so one that   *)
(* is possible again and again is taken (SF).                              *)
Fairness ==
  /\ WF_vars(Advance) /\ WF_vars(Append)
  /\ WF_vars(Accumulate) /\ WF_vars(Call) /\ WF_vars(CallSwitch)
  /\ WF_vars(Done) /\ WF_vars(Return)
  /\ SF_vars(Tick)

FairSpec == Spec /\ Fairness

-----------------------------------------------------------------------------
(* Properties.                                                             *)

(* Types of the variables; elapsed_time stays a uint32_t.                  *)
TypeOK ==
  /\ events \in Pointer
  /\ count \in 0 .. MaxEvents
  /\ period \in [Event -> 0 .. Word - 1]
  /\ elapsed \in [Event -> 0 .. Word - 1]
  /\ callback \in [Event -> CallbackKind]
  /\ next \in [Event -> Pointer]
  /\ pc \in {"out", "append", "visit", "callback"}
  /\ queue \in Pointer
  /\ caller \in {"out", "callback"}
  /\ intr \in BOOLEAN
  /\ since \in [Event -> 0 .. Word]
  /\ seen \in SUBSET Event

Created == 1 .. count

Linked == IF pc = "append" THEN count - 1 ELSE count

(* add_timer_event links each event after the one before it and cuts none  *)
(* off, though it moves the head, and its cursor a traversal in progress   *)
(* may hold, on the way: the events stay one chain, whoever calls it.      *)
ChainInv ==
  \A e \in Created :
     next[e] = IF e < Linked THEN e + 1 ELSE NULL

(* The head is never more than one event behind the last: with one or two  *)
(* events registered nothing is lost, which is all the kernel relies on.   *)
LastTwoListed ==
  /\ events = NULL <=> Linked = 0
  /\ events # NULL => events \in {Linked - 1, Linked}
  /\ pc # "append" /\ Linked >= 2 => events = Linked - 1

Raised(e) ==
  /\ pc = "visit" /\ queue = e
  /\ pc' # "visit"

(* A callback that returns is never called before its period has gone by,  *)
(* one tick of rounding excepted, since the event was created or last      *)
(* raised: whatever is added to the list meanwhile, by the callback itself *)
(* or in mid-tick, and whether earlier events cut ticks short.             *)
NeverEarly ==
  [][ \A e \in Event :
        Raised(e) /\ callback[e] = "returns" => since[e] + TickTime >= period[e]
    ]_vars

Listed(e) == events # NULL /\ events <= e /\ e <= count

NoSwitchBefore(e) ==
  \A d \in Event : Listed(d) /\ d < e => callback[d] # "switches"

(* As long as interrupts come on again and again, an event that stays on   *)
(* the list before any process_switch event is raised again and again; its *)
(* period must leave room to add a tick in 32 bits.                        *)
RaisedForever ==
  \A e \in Event :
     /\ <>[](/\ Listed(e) /\ NoSwitchBefore(e)
             /\ callback[e] = "returns" /\ period[e] <= Word - TickTime)
     /\ []<>(pc = "out" /\ intr)
     => []<>(pc = "callback" /\ queue = e)

-----------------------------------------------------------------------------
(* What the header says, and the code does not do.                         *)

(* period: "The period of time to allow in between function calls (ms)",   *)
(* for every callback, one tick of rounding excepted.                      *)
PeriodKept ==
  [][ \A e \in Event : Raised(e) => since[e] + TickTime >= period[e] ]_vars
=============================================================================
