------------------------------ MODULE Console ------------------------------
(***************************************************************************)
(* The console (src/kernel/console.c) and printk (src/kernel/printk.c):    *)
(* text in the VGA frame buffer, written character by character with       *)
(* interrupts disabled.  A cell is its character code; the attribute byte  *)
(* is left out.  The buffer reaches one screen past the visible one, which *)
(* is where the overruns of scrolling and clearing end.                    *)
(*                                                                         *)
(* kmemory_copy copies what it was asked for when copies = "exact"; with   *)
(* "actual" it is the one of this commit, which never comes back (see      *)
(* CopyStaysInside of Libk), and the machine is lost.                      *)
(***************************************************************************)
EXTENDS Integers, Sequences

CONSTANTS
  Columns, Rows, TabSize,   \* CONSOLE_DEFAULT_COLUMNS, _ROWS and _TAB_SIZE
  Codes,                    \* character codes that are written
  Texts,                    \* what a format makes of its arguments
  Failures,                 \* what kstring_vformat may answer more than the text has
                            \* characters: 1 for a NUL inside, -1 for an error
  Origins,                  \* origins that callers set: [x, y]
  Levels, Colours, Modes    \* log levels, colours and cursor modes of callers

C == INSTANCE KChar

ASSUME ConsoleAssumption ==
  /\ Columns \in Nat \ {0} /\ Rows \in Nat \ {0} /\ TabSize \in Nat \ {0}
  /\ Codes \subseteq 0 .. 127
  /\ Texts \subseteq Seq(Codes) /\ Failures \subseteq {-1, 1}
  /\ Origins \subseteq [x : 0 .. Columns - 1, y : 0 .. Rows - 1]
  /\ Levels \subseteq 0 .. 9
  /\ Colours \subseteq {"light_gray", "white", "red", "light_red", "other"}
  /\ Modes \subseteq {"disabled", "underline", "block"}

Cells == Columns * Rows
Blank == 32
Old == 0                      \* what was there before, or a byte of something else
Cell == {Blank, Old} \union (Codes \intersect C!PRINT)
Mode == {"disabled", "underline", "block"}
Colour == {"light_gray", "white", "red", "light_red", "other"}
Idle == [fn |-> "none"]

VARIABLES
  buffer,      \* the frame buffer, two screens of it
  cursor,      \* console.cursor: x, y, x_origin, y_origin and mode
  foreground,  \* console.screen.foreground
  shown,       \* where the VGA cursor is, -1: hidden
  interrupts,  \* the interrupt flag
  extent,      \* history: one past the last cell ever written
  call,        \* the call under way
  down,        \* why the machine stopped, or "no"
  debug,       \* a build without NDEBUG
  copies       \* "exact" or "actual"

screen == <<buffer, cursor, shown, extent, down>>
vars == <<buffer, cursor, foreground, shown, interrupts, extent, call, down, debug, copies>>

console_init ==
  /\ cursor = [x |-> 0, y |-> 0, x_origin |-> 0, y_origin |-> 0, mode |-> "underline"]
  /\ foreground = "light_gray"
Init ==
  /\ console_init
  /\ buffer = [i \in 0 .. 2 * Cells - 1 |-> Old]
  /\ shown = -1 /\ interrupts \in BOOLEAN /\ extent = 0
  /\ call = Idle /\ down = "no"
  /\ debug \in BOOLEAN /\ copies \in {"exact", "actual"}
---------------------------------------------------------------------------
(* The state of the screen as one value, for functions that call others.   *)
Screen == [buffer |-> buffer, cursor |-> cursor, shown |-> shown, extent |-> extent, down |-> down]
Becomes(s) ==
  /\ buffer' = s.buffer /\ cursor' = s.cursor /\ shown' = s.shown
  /\ extent' = s.extent /\ down' = s.down

Index(c) == c.y * Columns + c.x
ORIGIN(c) == c.y_origin * Columns + c.x_origin
Further(m, n) == IF m > n THEN m ELSE n

\* draw_cursor and hide_cursor.
console_update_cursor(s) ==
  [s EXCEPT !.shown = IF s.cursor.mode = "disabled" THEN -1 ELSE Index(s.cursor)]

\* kmemory_fill16 with BLANK.
Filled(s, first, n) ==
  [s EXCEPT !.buffer = [i \in DOMAIN @ |-> IF i \in first .. first + n - 1 THEN Blank ELSE @[i]],
            !.extent = Further(@, first + n)]

console_clear_line(s) ==
  LET c == s.cursor
      blank == Filled(s, (c.y - 1) * Columns + c.x_origin, Columns - c.x_origin)
  IN  console_update_cursor([blank EXCEPT !.cursor.x = c.x_origin])

\* The cells that a copy of n bytes from Columns cells further on changes: the
\* count of bytes has the origin and the columns taken off it in cells.
\* Mutant: the whole count is one of cells.
CopiedCells(c) == Cells - ORIGIN(c) - Columns
CopiedBytes(c) == 2 * Cells - ORIGIN(c) - Columns
Copied(s) ==
  LET c == s.cursor
      last == ORIGIN(c) + (CopiedBytes(c) + 1) \div 2
  IN  [s EXCEPT !.buffer = [i \in DOMAIN @ |-> IF i >= ORIGIN(c) /\ i < last THEN @[i + Columns] ELSE @[i]],
                !.extent = Further(@, last)]

console_scroll(s) ==
  LET cleared == console_clear_line([Copied(s) EXCEPT !.cursor.y = Rows])
  IN  IF copies = "actual" THEN [s EXCEPT !.down = "lost"]
      ELSE console_update_cursor([cleared EXCEPT !.cursor.y = Rows - 1])

\* Mutant: the origin is not taken off.
ClearedWhole(s) ==
  LET o == ORIGIN(s.cursor)
  IN  console_update_cursor(
        [Filled(s, o, 2 * Cells) EXCEPT
           !.cursor.x = s.cursor.x_origin, !.cursor.y = s.cursor.y_origin])
console_clear(s) ==
  LET o == ORIGIN(s.cursor)
  IN  console_update_cursor(
        [Filled(s, o, 2 * Cells - o) EXCEPT
           !.cursor.x = s.cursor.x_origin, !.cursor.y = s.cursor.y_origin])

\* The switch of console_write_char.
Typed(s, c) ==
  LET at == s.cursor
  IN  CASE c = 8  -> [s EXCEPT !.cursor.x = IF @ > 0 THEN @ - 1 ELSE @]
        [] c = 10 -> [s EXCEPT !.cursor.y = @ + 1, !.cursor.x = at.x_origin]
        [] c = 13 -> [s EXCEPT !.cursor.x = at.x_origin]
        [] c = 9  -> [s EXCEPT !.cursor.x = TabSize * ((@ + TabSize) \div TabSize)]
        [] c \in C!PRINT ->
             [s EXCEPT !.buffer[Index(at)] = c, !.cursor.x = @ + 1,
                       !.extent = Further(@, Index(at) + 1)]
        [] OTHER -> s

\* Mutant: the last column is one too far.
WrappedLate(s) ==
  IF s.cursor.x > Columns THEN [s EXCEPT !.cursor.x = s.cursor.x_origin, !.cursor.y = @ + 1] ELSE s
Wrapped(s) ==
  IF s.cursor.x >= Columns THEN [s EXCEPT !.cursor.x = s.cursor.x_origin, !.cursor.y = @ + 1] ELSE s
console_write_char(s, c) ==
  LET w == Wrapped(Typed(s, c))
  IN  IF w.cursor.y >= Rows THEN console_scroll(w) ELSE w
---------------------------------------------------------------------------
(* Operations of callers, each with interrupts disabled from its first     *)
(* statement to its last.                                                  *)
Running == down = "no"
Operation ==
  /\ Running /\ call = Idle
  /\ UNCHANGED <<foreground, interrupts, call, debug, copies>>

WriteChar == Operation /\ \E c \in Codes : Becomes(console_write_char(Screen, c))
Scroll == Operation /\ Becomes(console_scroll(Screen))
Clear == Operation /\ Becomes(console_clear(Screen))
console_set_cursor_mode ==
  Operation /\ \E m \in Modes : Becomes(console_update_cursor([Screen EXCEPT !.cursor.mode = m]))
console_set_cursor ==
  /\ Operation
  /\ \E x \in 0 .. Columns - 1, y \in 0 .. Rows - 1 :
       Becomes([Screen EXCEPT !.cursor.x = x, !.cursor.y = y])
console_set_origin ==
  /\ Operation
  /\ \E o \in Origins :
       Becomes([Screen EXCEPT !.cursor =
         [cursor EXCEPT !.x_origin = o.x, !.y_origin = o.y,
                        !.x = Further(@, o.x), !.y = Further(@, o.y)]])
console_set_foreground_color ==
  /\ Running /\ call = Idle
  /\ foreground' \in Colours
  /\ UNCHANGED <<screen, interrupts, call, debug, copies>>

\* console_write_line: the cursor is updated before the line is ended.
console_write_line ==
  /\ Running /\ call = Idle
  /\ \E t \in Texts :
       call' = [fn |-> "write_line", todo |-> t, before |-> interrupts]
  /\ interrupts' = FALSE
  /\ UNCHANGED <<screen, foreground, debug, copies>>
---------------------------------------------------------------------------
(* printk.  A format begins with its level or has none, which makes it 1.  *)
MINIMUM_LOG_LEVEL == IF debug THEN 0 ELSE 1
ColourOf(level) ==
  CASE level = 0 -> "light_gray" [] level = 1 -> "white" [] level = 8 -> "red" [] level = 9 -> "light_red"

printk ==
  /\ Running /\ call = Idle
  /\ \E level \in Levels :
       call' = [fn |-> "printk", level |-> level, before |-> interrupts, colour |-> foreground]
  /\ interrupts' = FALSE
  /\ UNCHANGED <<screen, foreground, debug, copies>>

\* vprintk returns early, after it has disabled interrupts itself: what it
\* found is what printk left, and printk restores what it found.
Suppressed ==
  /\ Running /\ call.fn = "printk" /\ call.level < MINIMUM_LOG_LEVEL
  /\ interrupts' = call.before
  /\ call' = Idle
  /\ UNCHANGED <<screen, foreground, debug, copies>>

set_level_formatting ==
  /\ Running /\ call.fn = "printk" /\ call.level >= MINIMUM_LOG_LEVEL
  /\ IF call.level \in {0, 1, 8, 9}
     THEN /\ foreground' = ColourOf(call.level)
          /\ \E t \in Texts :
               call' = [fn |-> "do_print", todo |-> t,
                        before |-> call.before, colour |-> call.colour]
          /\ UNCHANGED down
     ELSE /\ down' = "panic"
          /\ UNCHANGED <<foreground, call>>
  /\ UNCHANGED <<buffer, cursor, shown, extent, interrupts, debug, copies>>

\* A turn of the loop of console_write_string.
NextChar ==
  /\ Running /\ call.fn \in {"do_print", "write_line"} /\ call.todo # <<>>
  /\ Becomes(console_write_char(Screen, Head(call.todo)))
  /\ call' = [call EXCEPT !.todo = Tail(@)]
  /\ UNCHANGED <<foreground, interrupts, debug, copies>>

\* Mutant: the return restores what vprintk found.
ReturnInner ==
  /\ foreground' = call.colour
  /\ interrupts' = interrupts
  /\ call' = Idle
\* The ends of vprintk and printk.
Return ==
  /\ foreground' = call.colour
  /\ interrupts' = call.before
  /\ call' = Idle

\* count_1 is what kstring_vformat answered, count_2 what was written.
EndPrint ==
  /\ Running /\ call.fn = "do_print" /\ call.todo = <<>>
  /\ \E failure \in Failures \union {0} :
     IF debug /\ failure # 0
     THEN /\ Becomes([console_update_cursor(Screen) EXCEPT !.down = "panic"])
          /\ UNCHANGED <<foreground, interrupts, call>>
     ELSE Becomes(console_update_cursor(Screen)) /\ Return
  /\ UNCHANGED <<debug, copies>>

EndLine ==
  /\ Running /\ call.fn = "write_line" /\ call.todo = <<>>
  /\ Becomes(console_write_char(console_update_cursor(Screen), 10))
  /\ interrupts' = call.before
  /\ call' = Idle
  /\ UNCHANGED <<foreground, debug, copies>>
---------------------------------------------------------------------------
Next ==
  \/ WriteChar \/ Scroll \/ Clear
  \/ console_set_cursor_mode \/ console_set_cursor \/ console_set_origin
  \/ console_set_foreground_color \/ console_write_line
  \/ printk \/ Suppressed \/ set_level_formatting \/ NextChar \/ EndPrint \/ EndLine

Spec == Init /\ [][Next]_vars
---------------------------------------------------------------------------
(* Properties.                                                             *)

(* The console's state has its type: the cursor never leaves the screen,   *)
(* whatever is written and wherever the origin is (console.c:90-126).      *)
TypeOK ==
  /\ buffer \in [0 .. 2 * Cells - 1 -> Cell]
  /\ cursor \in [x : 0 .. Columns - 1, y : 0 .. Rows - 1,
                 x_origin : 0 .. Columns - 1, y_origin : 0 .. Rows - 1, mode : Mode]
     \/ down # "no"
  /\ foreground \in Colour /\ shown \in -1 .. Cells - 1
  /\ interrupts \in BOOLEAN /\ extent \in Nat
  /\ down \in {"no", "panic", "lost"}
  /\ debug \in BOOLEAN /\ copies \in {"exact", "actual"}

(* Scrolling and clearing confuse bytes with cells (console.c:152,179) and *)
(* write behind the screen, but never more than a second screen: all of it *)
(* stays in the VGA text window, which holds eight.                        *)
WritesInWindow == extent <= 2 * Cells

(* printk and console_write_line leave the interrupt flag and the colour   *)
(* as they were before the call, suppressed levels included                *)
(* (printk.c:82-107); and the VGA cursor is shown where the next character *)
(* goes after a printk that was not suppressed.                            *)
PrintkRestores ==
  [][ call # Idle /\ call' = Idle =>
        /\ interrupts' = call.before
        /\ call.fn \in {"printk", "do_print"} => foreground' = call.colour
        /\ call.fn = "do_print" => shown' \in {-1, Index(cursor')} ]_vars

T == INSTANCE Terminal WITH
       Printable <- Codes \intersect C!PRINT,
       rows <- [y \in 0 .. Rows - 1 |-> [x \in 0 .. Columns - 1 |-> buffer[y * Columns + x]]],
       line <- cursor.y, col <- cursor.x, top <- cursor.y_origin, left <- cursor.x_origin

(* With a memory copy that works and no margin to the left, the console is *)
(* the terminal: text goes where it should, scrolling moves whole rows,    *)
(* blanks the last and keeps what is above the origin, and the cells that  *)
(* the wrong byte count copies from behind the screen are never seen       *)
(* (console.c:147-176).                                                    *)
IsTerminal ==
  /\ T!Init
  /\ [][(down' # "lost" /\ cursor.x_origin = 0 /\ cursor'.x_origin = 0) => T!Next]_T!tvars
=============================================================================
