------------------------------ MODULE Terminal ------------------------------
(***************************************************************************)
(* What the console promises: a screen of rows of cells and a cursor that  *)
(* text is written at, where the screen scrolls by a row when the cursor   *)
(* leaves it, and the rows above the origin stay as they are.              *)
(***************************************************************************)
EXTENDS Integers

CONSTANTS Columns, Rows, TabSize,
  Printable,   \* the characters that are shown
  Blank, Cell

VARIABLES
  rows,        \* the screen, a row of cells for each line
  line, col,   \* the cursor
  top, left    \* the origin

tvars == <<rows, line, col, top, left>>

Row == [0 .. Columns - 1 -> Cell]

Init ==
  /\ rows \in [0 .. Rows - 1 -> Row]
  /\ line = 0 /\ col = 0 /\ top = 0 /\ left = 0

BlankRow == [x \in 0 .. Columns - 1 |-> Blank]

\* The rows from the origin on move up and the last is blank.
Scrolled(screen) ==
  [y \in DOMAIN screen |->
     CASE y < top                   -> screen[y]
       [] y >= top /\ y < Rows - 1  -> screen[y + 1]
       [] y = Rows - 1              -> BlankRow]

\* The cursor goes on to column x of row y.
Advance(screen, x, y) ==
  LET wraps == x >= Columns
      down == IF wraps THEN y + 1 ELSE y
  IN  /\ col' = IF wraps THEN left ELSE x
      /\ line' = IF down >= Rows THEN Rows - 1 ELSE down
      /\ rows' = IF down >= Rows THEN Scrolled(screen) ELSE screen
      /\ UNCHANGED <<top, left>>

Put(c) == Advance([rows EXCEPT ![line][col] = c], col + 1, line)
Newline == Advance(rows, left, line + 1)
Return == Advance(rows, left, line)
Backspace == Advance(rows, IF col > 0 THEN col - 1 ELSE 0, line)
Tab == Advance(rows, TabSize * ((col + TabSize) \div TabSize), line)

Scroll ==
  /\ rows' = Scrolled(rows)
  /\ line' = Rows - 1 /\ col' = left
  /\ UNCHANGED <<top, left>>

Clear ==
  /\ rows' = [y \in DOMAIN rows |-> IF y < top THEN rows[y] ELSE BlankRow]
  /\ line' = top /\ col' = left
  /\ UNCHANGED <<top, left>>

Move ==
  /\ line' \in 0 .. Rows - 1 /\ col' \in 0 .. Columns - 1
  /\ UNCHANGED <<rows, top, left>>

\* The cursor is never left above or to the left of a new origin.
Origin ==
  /\ top' \in 0 .. Rows - 1 /\ left' \in 0 .. Columns - 1
  /\ line' = IF line < top' THEN top' ELSE line
  /\ col' = IF col < left' THEN left' ELSE col
  /\ UNCHANGED rows

Next ==
  \/ \E c \in Printable : Put(c)
  \/ Newline \/ Return \/ Backspace \/ Tab
  \/ Scroll \/ Clear \/ Move \/ Origin

Spec == Init /\ [][Next]_tvars
=============================================================================
