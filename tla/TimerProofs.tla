----------------------------- MODULE TimerProofs -----------------------------
(***************************************************************************)
(* Proofs about Timer: the list stays one chain, and a callback that       *)
(* returns is never called early.                                          *)
(***************************************************************************)
EXTENDS Timer, TLAPS

(* A tick is being processed, possibly inside a callback.                  *)
InTick == pc \in {"visit", "callback"} \/ (pc = "append" /\ caller = "callback")

InCallback == InTick /\ pc # "visit"

(* A traversal visits the events in ascending order.                       *)
CursorInv ==
  /\ pc = "append" => count >= 1
  /\ InTick => queue <= Linked
  /\ InCallback => queue # NULL
  /\ InTick /\ queue # NULL =>
        \A e \in seen : IF InCallback THEN e <= queue ELSE e < queue
  /\ InTick => \A e \in seen : e <= count

(* elapsed_time runs ahead of the true time by a tick at most, and not at  *)
(* all when the event is about to be visited.  It is out of date while the *)
(* event's own callback runs.                                              *)
ElapsedInv ==
  \A e \in Created :
     callback[e] = "returns" /\ ~(InCallback /\ e = queue) =>
        elapsed[e] <= since[e] + (IF InTick /\ e \notin seen THEN 0 ELSE TickTime)

Inv == TypeOK /\ ChainInv /\ LastTwoListed /\ CursorInv /\ ElapsedInv

-----------------------------------------------------------------------------
LEMMA Constants ==
  /\ Word \in Nat /\ TickTime \in Nat /\ TickTime >= 1 /\ TickTime < Word
  /\ 0 \in 0 .. Word /\ 0 \in 0 .. Word - 1
  /\ MaxEvents \in Nat /\ Event \subseteq Nat
  /\ \A e \in Event : e >= 1
  /\ Pointer = Event \union {0}
BY TimerAssumption DEF Event, Pointer, NULL

LEMMA InitInv == Init => Inv
<1> SUFFICES ASSUME Init PROVE Inv
  OBVIOUS
<1>1. TypeOK
  <2>1. NULL \in Pointer /\ 0 \in 0 .. MaxEvents /\ "null" \in CallbackKind
    BY Constants DEF NULL, CallbackKind
  <2>2. /\ period \in [Event -> 0 .. Word - 1] /\ elapsed \in [Event -> 0 .. Word - 1]
        /\ callback \in [Event -> CallbackKind] /\ since \in [Event -> 0 .. Word]
        /\ next \in [Event -> Pointer]
    BY <2>1, Constants DEF Init
  <2> QED BY <2>1, <2>2 DEF Init, TypeOK
<1>2. Created = {} /\ Linked = 0 /\ ~InTick
  BY DEF Init, Created, Linked, InTick
<1>3. ChainInv /\ LastTwoListed /\ CursorInv /\ ElapsedInv
  BY <1>2 DEF Init, ChainInv, LastTwoListed, CursorInv, ElapsedInv, InCallback, NULL
<1> QED BY <1>1, <1>3 DEF Inv

(* The step that creates an event.                                         *)
LEMMA AddTimerEventInv == Inv /\ AddTimerEvent => Inv'
<1> SUFFICES ASSUME Inv, AddTimerEvent PROVE Inv'
  OBVIOUS
<1> USE TimerAssumption DEF Inv, Event, Pointer, NULL
<1>1. PICK time \in Periods, function \in Callbacks \ {"null"} :
           CreateEvent(time, function)
  BY DEF AddTimerEvent
<1>2. /\ count \in 0 .. MaxEvents - 1 /\ count' = count + 1
      /\ count' \in Event /\ count' \notin Created
      /\ pc' = "append" /\ caller' = pc /\ pc \in {"out", "callback"}
      /\ UNCHANGED <<events, queue, intr, seen>>
  BY <1>1 DEF AddTimerEvent, CreateEvent, TypeOK, Created
<1>3. \A e \in Created : /\ e \in Event /\ e # count'
                         /\ period'[e] = period[e] /\ elapsed'[e] = elapsed[e]
                         /\ callback'[e] = callback[e] /\ next'[e] = next[e]
                         /\ since'[e] = since[e]
  BY <1>1, <1>2 DEF AddTimerEvent, CreateEvent, TypeOK, Created
<1>4. /\ elapsed'[count'] = 0 /\ next'[count'] = NULL /\ since'[count'] = 0
  BY <1>1, <1>2 DEF AddTimerEvent, CreateEvent, TypeOK
<1>5. TypeOK'
  <2>1. /\ period' = [period EXCEPT ![count'] = time]
        /\ elapsed' = [elapsed EXCEPT ![count'] = 0]
        /\ callback' = [callback EXCEPT ![count'] = function]
        /\ next' = [next EXCEPT ![count'] = NULL]
        /\ since' = [since EXCEPT ![count'] = 0]
    BY <1>1, <1>2 DEF AddTimerEvent, CreateEvent
  <2>2. time \in 0 .. Word - 1 /\ function \in CallbackKind
    OBVIOUS
  <2>3. /\ period' \in [Event -> 0 .. Word - 1] /\ elapsed' \in [Event -> 0 .. Word - 1]
        /\ callback' \in [Event -> CallbackKind] /\ since' \in [Event -> 0 .. Word]
        /\ next' \in [Event -> Pointer]
    BY <1>2, <2>1, <2>2, Constants DEF TypeOK
  <2>4. count' \in 0 .. MaxEvents
    BY <1>2, Constants
  <2>5. events' \in Pointer /\ queue' \in Pointer /\ intr' \in BOOLEAN /\ seen' \in SUBSET Event
    BY <1>2 DEF TypeOK
  <2>6. pc' \in {"out", "append", "visit", "callback"} /\ caller' \in {"out", "callback"}
    BY <1>2
  <2> QED BY <2>3, <2>4, <2>5, <2>6 DEF TypeOK
<1>6. Linked' = Linked /\ Linked = count /\ Created' = Created \union {count'}
  BY <1>2 DEF Linked, Created, TypeOK
<1>7. ChainInv'
  BY <1>2, <1>3, <1>4, <1>6 DEF ChainInv, Created
<1>8. LastTwoListed'
  BY <1>2, <1>6 DEF LastTwoListed
<1>9. InTick' = InTick /\ InCallback' = InCallback
  BY <1>2 DEF InTick, InCallback
<1>10. CursorInv'
  BY <1>2, <1>6, <1>9 DEF CursorInv, TypeOK
<1>11. ElapsedInv'
  <2> SUFFICES ASSUME NEW e \in Created', (callback[e] = "returns")',
                      ~(InCallback /\ e = queue)'
               PROVE  (elapsed[e] <= since[e] + (IF InTick /\ e \notin seen THEN 0 ELSE TickTime))'
    BY DEF ElapsedInv
  <2>1. CASE e \in Created
    BY <2>1, <1>2, <1>3, <1>9 DEF ElapsedInv
  <2>2. CASE e = count'
    BY <2>2, <1>4
  <2> QED BY <2>1, <2>2, <1>6
<1> QED BY <1>5, <1>7, <1>8, <1>10, <1>11

(* The step that links it.                                                 *)
LEMMA AppendInv == Inv /\ (Advance \/ Append) => Inv'
<1> SUFFICES ASSUME Inv, Advance \/ Append PROVE Inv'
  OBVIOUS
<1> USE TimerAssumption DEF Inv, Event, Pointer, NULL
<1>0. /\ pc = "append" /\ count \in 1 .. MaxEvents /\ Linked = count - 1
      /\ UNCHANGED <<count, period, elapsed, callback, queue, caller, intr, since, seen>>
  BY DEF Advance, Append, CursorInv, TypeOK, Linked
<1>1. CASE Advance
  <2>1. events \in Created /\ next[events] = events + 1 /\ events < Linked
    BY <1>0, <1>1 DEF Advance, LastTwoListed, ChainInv, Created
  <2>2. events' = Linked /\ UNCHANGED <<pc, next>>
    BY <1>0, <1>1, <2>1 DEF Advance, LastTwoListed
  <2>3. TypeOK'
    BY <1>0, <2>1, <2>2, SMTT(60) DEF TypeOK
  <2>4. Linked' = Linked /\ Created' = Created /\ InTick' = InTick
        /\ InCallback' = InCallback
    BY <1>0, <2>2 DEF Linked, Created, InTick, InCallback
  <2>5. LastTwoListed'
    BY <1>0, <2>1, <2>2, <2>4 DEF LastTwoListed, TypeOK
  <2> QED BY <1>0, <2>2, <2>3, <2>4, <2>5 DEF ChainInv, CursorInv, ElapsedInv
<1>2. CASE Append
  <2>1. \/ events = NULL /\ events' = count /\ next' = next /\ count = 1
        \/ /\ events = Linked /\ Linked # 0 /\ events' = events
           /\ next' = [next EXCEPT ![events] = count]
    BY <1>0, <1>2 DEF Append, LastTwoListed, ChainInv, Created
  <2>2. pc' = caller /\ Linked' = count /\ Created' = Created
        /\ InTick' = InTick /\ InCallback' = InCallback
    BY <1>0, <1>2 DEF Append, TypeOK, Linked, Created, InTick, InCallback
  <2>3. TypeOK'
    BY <1>0, <2>1, <2>2 DEF TypeOK
  <2>4. ChainInv'
    <3> SUFFICES ASSUME NEW e \in Created
                 PROVE  next'[e] = IF e < count THEN e + 1 ELSE NULL
      BY <1>0, <2>2 DEF ChainInv
    <3>1. next[e] = (IF e < count - 1 THEN e + 1 ELSE NULL) /\ e \in Event
      BY <1>0 DEF ChainInv, Created
    <3>2. CASE e = events
      <4>1. events # NULL /\ events = Linked
        BY <2>1, <3>1, <3>2
      <4>2. e = count - 1 /\ e < count /\ e + 1 = count
        BY <1>0, <3>2, <4>1
      <4>3. next' = [next EXCEPT ![e] = count] /\ e \in DOMAIN next
        BY <2>1, <3>1, <3>2, <4>1 DEF TypeOK
      <4> QED BY <4>2, <4>3
    <3>3. CASE e # events
      <4>1. next'[e] = next[e]
        BY <2>1, <3>1, <3>3 DEF TypeOK
      <4>2. e = count - 1 => e = events
        BY <1>0, <2>1 DEF Created
      <4> QED BY <1>0, <3>1, <3>3, <4>1, <4>2 DEF Created
    <3> QED BY <3>2, <3>3
  <2>5. LastTwoListed'
    BY <1>0, <2>1, <2>2 DEF LastTwoListed
  <2>6. CursorInv'
    BY <1>0, <2>2 DEF CursorInv, TypeOK
  <2> QED BY <1>0, <2>2, <2>3, <2>4, <2>5, <2>6 DEF ElapsedInv
<1> QED BY <1>1, <1>2

-----------------------------------------------------------------------------
(* Ticks.                                                                  *)

(* Steps outside add_timer_event leave the chain alone.                    *)
LEMMA ChainUnchanged ==
  ASSUME Inv, UNCHANGED <<events, count, next>>, pc # "append", pc' # "append"
  PROVE  /\ ChainInv' /\ LastTwoListed'
         /\ Linked' = count /\ Linked = count /\ Created' = Created
BY DEF Inv, ChainInv, LastTwoListed, Linked, Created

LEMMA TickInv == Inv /\ Tick => Inv'
<1> SUFFICES ASSUME Inv, Tick PROVE Inv'
  OBVIOUS
<1> USE TimerAssumption DEF Inv, Event, Pointer, NULL
<1>1. ChainInv' /\ LastTwoListed' /\ Linked' = count /\ Created' = Created
  BY ChainUnchanged DEF Tick
<1>2. TypeOK'
  <2>1. \A e \in Event : Later(since[e]) \in 0 .. Word
    BY Constants DEF Later, TypeOK
  <2>2. since' \in [Event -> 0 .. Word]
    BY <2>1, Constants DEF Tick
  <2> QED BY <2>2 DEF Tick, TypeOK
<1>3. CursorInv'
  BY <1>1 DEF Tick, CursorInv, LastTwoListed, Linked, InTick, InCallback, TypeOK
<1>4. ElapsedInv'
  <2> SUFFICES ASSUME NEW e \in Created, callback[e] = "returns"
               PROVE  elapsed[e] <= since'[e]
    <3>1. InTick' /\ ~InCallback' /\ seen' = {} /\ UNCHANGED <<callback, elapsed>>
      BY DEF Tick, InTick, InCallback
    <3>2. \A e \in Created : since'[e] + 0 = since'[e]
      BY <1>2 DEF TypeOK, Created
    <3> QED BY <1>1, <3>1, <3>2 DEF ElapsedInv
  <2>1. elapsed[e] <= since[e] + TickTime /\ elapsed[e] < Word
    BY DEF ElapsedInv, Tick, InTick, InCallback, TypeOK, Created
  <2>2. since'[e] = Later(since[e]) /\ since[e] \in 0 .. Word
    BY DEF Tick, Created, TypeOK
  <2>3. elapsed[e] \in Nat
    BY DEF TypeOK, Created
  <2> QED BY <2>1, <2>2, <2>3, Constants DEF Later
<1> QED BY <1>1, <1>2, <1>3, <1>4

(* The successor of the cursor.                                            *)
LEMMA NextCursor ==
  ASSUME Inv, InTick, pc # "append", queue # NULL
  PROVE  /\ queue \in Created /\ queue \in Event
         /\ next[queue] \in Pointer
         /\ next[queue] # NULL => next[queue] = queue + 1 /\ next[queue] <= count
BY TimerAssumption
   DEF Inv, CursorInv, ChainInv, Linked, Created, TypeOK, Event, Pointer, NULL

LEMMA VisitInv == Inv /\ (Accumulate \/ Return) => Inv'
<1> SUFFICES ASSUME Inv, Accumulate \/ Return PROVE Inv'
  OBVIOUS
<1> USE TimerAssumption DEF Inv, Event, Pointer, NULL
<1>1. /\ pc \in {"visit", "callback"} /\ pc' = "visit" /\ InTick /\ InTick' /\ ~InCallback'
      /\ queue # NULL /\ queue' = next[queue]
      /\ seen' \in {seen, seen \union {queue}} /\ (Accumulate => seen' = seen \union {queue})
      /\ UNCHANGED <<events, count, period, callback, next, caller, intr, since>>
      /\ (Return => InCallback) /\ (Accumulate => ~InCallback)
  BY DEF Accumulate, Return, CursorInv, InTick, InCallback
<1>2. ChainInv' /\ LastTwoListed' /\ Linked' = count /\ Linked = count /\ Created' = Created
  BY <1>1, ChainUnchanged
<1>3. /\ queue \in Created /\ queue \in Event
      /\ next[queue] \in Pointer
      /\ next[queue] # NULL => next[queue] = queue + 1 /\ next[queue] <= count
  BY <1>1, NextCursor
<1>4. NewElapsed(queue) \in 0 .. Word - 1 /\ NewElapsed(queue) <= elapsed[queue] + TickTime
  <2>1. elapsed[queue] \in Nat /\ elapsed[queue] < Word
    BY <1>3 DEF TypeOK
  <2> QED BY <2>1, Constants DEF NewElapsed
<1>5. /\ elapsed' \in [Event -> 0 .. Word - 1]
      /\ \A e \in Event : e # queue => elapsed'[e] = elapsed[e]
      /\ Return => elapsed'[queue] = 0
      /\ Accumulate => elapsed'[queue] = NewElapsed(queue)
  <2>1. CASE Return
    BY <1>1, <1>3, <2>1, Constants DEF Return, TypeOK
  <2>2. CASE Accumulate
    BY <1>1, <1>3, <1>4, <2>2 DEF Accumulate, TypeOK
  <2> QED BY <2>1, <2>2, <1>1
<1>6. TypeOK'
  BY <1>1, <1>3, <1>5 DEF TypeOK
<1>7. \A e \in seen' : e <= queue /\ e <= count
  BY <1>1, <1>2, <1>3 DEF CursorInv, Created, TypeOK
<1>8. CursorInv'
  BY <1>1, <1>2, <1>3, <1>7, SMTT(60) DEF CursorInv, TypeOK
<1>9. ElapsedInv'
  <2> SUFFICES ASSUME NEW e \in Created, callback[e] = "returns"
               PROVE  elapsed'[e] <= since[e] + (IF e \notin seen' THEN 0 ELSE TickTime)
    BY <1>1, <1>2 DEF ElapsedInv
  <2>1. e \in Event /\ elapsed[e] \in Nat /\ since[e] \in Nat
    BY DEF Created, TypeOK
  <2>2. CASE e # queue
    BY <1>1, <1>5, <2>1, <2>2 DEF ElapsedInv
  <2>3. CASE e = queue /\ Return
    <3>1. elapsed'[e] = 0
      BY <1>5, <2>3
    <3> QED BY <2>1, <3>1, Constants
  <2>4. CASE e = queue /\ Accumulate
    <3>1. e \notin seen
      BY <1>1, <1>3, <2>4 DEF CursorInv, Created, TypeOK
    <3>2. elapsed[e] <= since[e]
      BY <1>1, <2>1, <2>4, <3>1 DEF ElapsedInv
    <3>4. e \in seen' /\ elapsed'[e] = NewElapsed(e)
      BY <1>1, <1>5, <2>4
    <3> QED BY <1>4, <2>1, <2>4, <3>2, <3>4, Constants
  <2> QED BY <2>2, <2>3, <2>4
<1> QED BY <1>2, <1>6, <1>8, <1>9

LEMMA CallInv == Inv /\ (Call \/ CallSwitch) => Inv'
<1> SUFFICES ASSUME Inv, Call \/ CallSwitch PROVE Inv'
  OBVIOUS
<1> USE TimerAssumption DEF Inv, Event, Pointer, NULL
<1>1. /\ pc = "visit" /\ pc' \in {"callback", "out"} /\ InTick /\ ~InCallback
      /\ queue # NULL /\ seen' = seen \union {queue}
      /\ since' = [since EXCEPT ![queue] = 0]
      /\ UNCHANGED <<events, count, period, elapsed, callback, next, caller>>
      /\ Call => pc' = "callback" /\ queue' = queue /\ intr' = intr
      /\ CallSwitch => pc' = "out" /\ queue' = NULL /\ callback[queue] = "switches"
                       /\ intr' \in BOOLEAN
  BY DEF Call, CallSwitch, InTick, InCallback
<1>2. ChainInv' /\ LastTwoListed' /\ Linked' = count /\ Linked = count /\ Created' = Created
  BY <1>1, ChainUnchanged
<1>3. queue \in Created /\ queue \in Event
  BY <1>1, NextCursor
<1>4. TypeOK'
  BY <1>1, <1>3 DEF TypeOK
<1>5. /\ InTick' = (pc' = "callback") /\ InCallback' = (pc' = "callback")
  BY <1>1 DEF InTick, InCallback
<1>6. \A e \in seen' : e <= queue /\ e <= count
  BY <1>1, <1>3 DEF CursorInv, Created, TypeOK
<1>7. CursorInv'
  BY <1>1, <1>2, <1>3, <1>5, <1>6 DEF CursorInv, Created
<1>8. ElapsedInv'
  <2> SUFFICES ASSUME NEW e \in Created, callback[e] = "returns",
                      ~(InCallback' /\ e = queue')
               PROVE  elapsed[e] <= since'[e] + (IF InTick' /\ e \notin seen' THEN 0 ELSE TickTime)
    BY <1>1, <1>2 DEF ElapsedInv
  <2>1. e # queue
    BY <1>1, <1>5
  <2>2. e \in Event /\ elapsed[e] \in Nat /\ since[e] \in Nat /\ since'[e] = since[e]
    BY <1>1, <2>1 DEF Created, TypeOK
  <2> QED BY <1>1, <2>1, <2>2 DEF ElapsedInv, TypeOK
<1> QED BY <1>2, <1>4, <1>7, <1>8

LEMMA NextInv == Inv /\ [Next]_vars => Inv'
<1> SUFFICES ASSUME Inv, [Next]_vars PROVE Inv'
  OBVIOUS
<1>1. CASE AddTimerEvent
  BY <1>1, AddTimerEventInv
<1>2. CASE Advance \/ Append
  BY <1>2, AppendInv
<1>3. CASE Tick
  BY <1>3, TickInv
<1>4. CASE Accumulate \/ Return
  BY <1>4, VisitInv
<1>5. CASE Call \/ CallSwitch
  BY <1>5, CallInv
<1>6. CASE Done
  <2>1. ChainInv' /\ LastTwoListed'
    BY <1>6, ChainUnchanged DEF Done
  <2>2. TypeOK'
    BY <1>6 DEF Done, Inv, TypeOK
  <2>3. ~InTick' /\ ~InCallback' /\ InTick /\ ~InCallback /\ pc' = "out"
        /\ UNCHANGED <<elapsed, since, callback, count, seen>>
    BY <1>6 DEF Done, InTick, InCallback
  <2>4. CursorInv'
    BY <2>3 DEF CursorInv
  <2>5. ElapsedInv'
    <3> SUFFICES ASSUME NEW e \in Created, callback[e] = "returns"
                 PROVE  elapsed[e] <= since[e] + TickTime
      BY <2>3 DEF ElapsedInv, Created
    <3>1. elapsed[e] \in Nat /\ since[e] \in Nat
      BY Constants DEF Created, Inv, TypeOK, Event
    <3>2. elapsed[e] <= since[e] + (IF e \notin seen THEN 0 ELSE TickTime)
      BY <2>3 DEF Inv, ElapsedInv
    <3> QED BY <3>1, <3>2, Constants
  <2> QED BY <2>1, <2>2, <2>4, <2>5 DEF Inv
<1>7. CASE AddNullCallback \/ SetInterrupts
  <2>1. /\ UNCHANGED <<events, count, period, elapsed, callback, next, pc, queue,
                       caller, since, seen>>
        /\ intr' \in BOOLEAN
    BY <1>7 DEF AddNullCallback, SetInterrupts, Inv, TypeOK
  <2> QED BY <2>1 DEF Inv, TypeOK, ChainInv, LastTwoListed, CursorInv, ElapsedInv,
                      Created, Linked, InTick, InCallback
<1>8. CASE UNCHANGED vars
  BY <1>8 DEF vars, Inv, TypeOK, ChainInv, LastTwoListed, CursorInv, ElapsedInv,
              Created, Linked, InTick, InCallback
<1> QED BY <1>1, <1>2, <1>3, <1>4, <1>5, <1>6, <1>7, <1>8 DEF Next

(* The inductive invariant holds in every reachable state.                 *)
THEOREM InvHolds == Spec => []Inv
BY InitInv, NextInv, PTL DEF Spec

(* The variables keep their types, elapsed_time its 32 bits.               *)
THEOREM TimerTypeCorrect == Spec => []TypeOK
<1>1. Inv => TypeOK
  BY DEF Inv
<1> QED BY <1>1, InvHolds, PTL

(* add_timer_event cuts no event off the chain.                            *)
THEOREM ChainIntact == Spec => []ChainInv
<1>1. Inv => ChainInv
  BY DEF Inv
<1> QED BY <1>1, InvHolds, PTL

(* The head of the list is the last event or the one before it.            *)
THEOREM HeadNearEnd == Spec => []LastTwoListed
<1>1. Inv => LastTwoListed
  BY DEF Inv
<1> QED BY <1>1, InvHolds, PTL

(* A callback that returns is not called before its period is over.        *)
THEOREM PeriodRespected == Spec => NeverEarly
<1>1. Inv /\ [Next]_vars =>
        [ \A e \in Event :
             Raised(e) /\ callback[e] = "returns" => since[e] + TickTime >= period[e]
        ]_vars
  <2> SUFFICES ASSUME Inv, Next, NEW e \in Event, Raised(e), callback[e] = "returns"
               PROVE  since[e] + TickTime >= period[e]
    OBVIOUS
  <2>1. Call /\ queue = e
    BY DEF Next, Raised, AddNullCallback, AddTimerEvent, Advance, Append, Tick,
           Accumulate, CallSwitch, Return, Done, SetInterrupts, NULL, Event
  <2>2. /\ e \in Created /\ e \notin seen /\ InTick /\ ~InCallback
        /\ elapsed[e] \in Nat /\ since[e] \in Nat
    <3>1. InTick /\ ~InCallback /\ queue # NULL /\ pc = "visit"
      BY <2>1 DEF Call, InTick, InCallback
    <3>2. e \in Created
      BY <2>1, <3>1, NextCursor
    <3>3. e \notin seen
      BY <2>1, <3>1, Constants DEF Inv, CursorInv
    <3> QED BY <3>1, <3>2, <3>3 DEF Inv, TypeOK
  <2>3. elapsed[e] <= since[e]
    BY <2>1, <2>2 DEF Inv, ElapsedInv
  <2>4. elapsed[e] + TickTime >= period[e]
    BY <2>1, <2>2, TimerAssumption DEF Call, Due, NewElapsed, Inv, TypeOK
  <2> QED BY <2>2, <2>3, <2>4, TimerAssumption DEF Inv, TypeOK
<1> QED BY <1>1, InvHolds, PTL DEF Spec, NeverEarly
=============================================================================
