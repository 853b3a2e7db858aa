---------------------------- MODULE ConsoleProofs ----------------------------
(***************************************************************************)
(* Proofs about Console, for screens of every size, every tab width and    *)
(* every set of characters and texts.  The functions of the console take a *)
(* screen to a screen; the lemmas say of each which screens it returns,    *)
(* and the theorems follow with one case for every action.  The refinement *)
(* of Terminal comes last.                                                 *)
(***************************************************************************)
EXTENDS Console, TLAPS

\* The cursors that a caller may see, and those in the middle of a function.
Cursors == [x : 0 .. Columns - 1, y : 0 .. Rows - 1,
            x_origin : 0 .. Columns - 1, y_origin : 0 .. Rows - 1, mode : Mode]
LooseCursors == [x : Nat, y : Nat,
                 x_origin : 0 .. Columns - 1, y_origin : 0 .. Rows - 1, mode : Mode]
WrappedCursors == [x : 0 .. Columns - 1, y : Nat,
                   x_origin : 0 .. Columns - 1, y_origin : 0 .. Rows - 1, mode : Mode]

Buffers == [0 .. 2 * Cells - 1 -> Cell]
Screens(cs) == [buffer : Buffers, cursor : cs, shown : -1 .. Cells - 1,
                extent : 0 .. 2 * Cells, down : {"no", "panic", "lost"}]

\* A screen after a step: sound, or the machine is down.
Landed(s) == s \in Screens(Cursors) \/ (s \in Screens(WrappedCursors) /\ s.down = "lost")

Calls ==
  {Idle}
  \union [fn : {"write_line"}, todo : Seq(Codes), before : BOOLEAN]
  \union [fn : {"printk"}, level : 0 .. 9, before : BOOLEAN, colour : Colour]
  \union [fn : {"do_print"}, todo : Seq(Codes), before : BOOLEAN, colour : Colour]

CallInv == call \in Calls /\ (call.fn = "printk" => foreground = call.colour)

IInv == TypeOK /\ WritesInWindow /\ CallInv
---------------------------------------------------------------------------
(* Products of natural numbers, for cells and offsets.                     *)
LEMMA ProductIsNat == ASSUME NEW m \in Nat, NEW n \in Nat PROVE m * n \in Nat
  OBVIOUS

(* A product grows with its first factor.                                  *)
LEMMA ProductGrows == ASSUME NEW m \in Nat, NEW n \in Nat, NEW k \in Nat, m <= n
                      PROVE m * k <= n * k
  OBVIOUS

(* One row more is Columns cells more.                                     *)
LEMMA NextRow == ASSUME NEW m \in Int, NEW k \in Int PROVE (m + 1) * k = m * k + k
  OBVIOUS

(* One row less is Columns cells less.                                     *)
LEMMA RowBefore == ASSUME NEW m \in Int, NEW k \in Int PROVE (m - 1) * k = m * k - k
  OBVIOUS

(* A screen has at least one row.                                          *)
LEMMA CellsPositive == Cells \in Nat /\ Cells >= Columns /\ Cells = Rows * Columns
<1>1. Columns \in Nat \ {0} /\ Rows \in Nat \ {0}
  BY ConsoleAssumption
<1>2. 1 * Columns <= Rows * Columns
  BY <1>1, ProductGrows
<1>3. QED
  BY <1>1, <1>2, ProductIsNat DEF Cells

(* The cells of row y are Columns cells of the screen.                     *)
LEMMA RowInScreen == ASSUME NEW y \in 0 .. Rows - 1
                     PROVE  y * Columns \in Nat /\ y * Columns + Columns <= Cells
<1>1. Columns \in Nat \ {0} /\ Rows \in Nat \ {0} /\ y \in Nat /\ y + 1 \in Nat
  BY ConsoleAssumption
<1>2. (y + 1) * Columns <= Rows * Columns
  BY <1>1, ProductGrows
<1>3. (y + 1) * Columns = y * Columns + Columns
  BY <1>1, NextRow
<1>4. QED
  BY <1>1, <1>2, <1>3, CellsPositive, ProductIsNat
---------------------------------------------------------------------------
(* The position of a cursor is a cell of the screen.                       *)
LEMMA CursorInScreen == ASSUME NEW c \in Cursors
                        PROVE  Index(c) \in 0 .. Cells - 1 /\ ORIGIN(c) \in 0 .. Cells - 1
<1>1. Columns \in Nat \ {0} /\ c.x \in 0 .. Columns - 1 /\ c.x_origin \in 0 .. Columns - 1
  BY ConsoleAssumption DEF Cursors
<1>2. c.y * Columns \in Nat /\ c.y * Columns + Columns <= Cells
  BY RowInScreen DEF Cursors
<1>3. c.y_origin * Columns \in Nat /\ c.y_origin * Columns + Columns <= Cells
  BY RowInScreen DEF Cursors
<1>4. QED
  BY <1>1, <1>2, <1>3, CellsPositive DEF Index, ORIGIN

(* The VGA cursor goes to a cell of the screen.                            *)
LEMMA UpdateType == ASSUME NEW s \in Screens(Cursors)
                    PROVE  console_update_cursor(s) \in Screens(Cursors)
<1>1. Index(s.cursor) \in 0 .. Cells - 1
  BY CursorInScreen DEF Screens
<1>2. -1 \in -1 .. Cells - 1
  BY CellsPositive
<1>3. QED
  BY <1>1, <1>2, CellsPositive DEF Screens, console_update_cursor

(* A screen from its parts, and a cursor from its parts.                   *)
Make(b, c, n, e, d) == [buffer |-> b, cursor |-> c, shown |-> n, extent |-> e, down |-> d]
Point(x, y, xo, yo, m) == [x |-> x, y |-> y, x_origin |-> xo, y_origin |-> yo, mode |-> m]

\* Where console_update_cursor puts the VGA cursor.
Place(c) == IF c.mode = "disabled" THEN -1 ELSE Index(c)

(* Every screen is made of its parts, and only of them.                    *)
LEMMA ScreenParts ==
  ASSUME NEW cs, NEW s \in Screens(cs)
  PROVE  /\ s = Make(s.buffer, s.cursor, s.shown, s.extent, s.down)
         /\ s.buffer \in Buffers /\ s.cursor \in cs /\ s.shown \in -1 .. Cells - 1
         /\ s.extent \in 0 .. 2 * Cells /\ s.down \in {"no", "panic", "lost"}
  BY DEF Screens, Make

(* What is made of the right parts is a screen.                            *)
LEMMA MakeType ==
  ASSUME NEW cs, NEW b \in Buffers, NEW c \in cs, NEW n \in -1 .. Cells - 1,
         NEW e \in 0 .. 2 * Cells, NEW d \in {"no", "panic", "lost"}
  PROVE  Make(b, c, n, e, d) \in Screens(cs)
  BY DEF Screens, Make

(* Stores into the parts of a screen and of its cursor.                    *)
LEMMA StoreX ==
  ASSUME NEW b, NEW n, NEW e, NEW d, NEW x, NEW y, NEW xo, NEW yo, NEW m, NEW v
  PROVE  [Make(b, Point(x, y, xo, yo, m), n, e, d) EXCEPT !.cursor.x = v]
           = Make(b, Point(v, y, xo, yo, m), n, e, d)
<1>1. [Point(x, y, xo, yo, m) EXCEPT !.x = v] = Point(v, y, xo, yo, m)
  BY DEF Point
<1>2. QED
  BY <1>1 DEF Make

(* A store into the row of the cursor.                                     *)
LEMMA StoreY ==
  ASSUME NEW b, NEW n, NEW e, NEW d, NEW x, NEW y, NEW xo, NEW yo, NEW m, NEW v
  PROVE  [Make(b, Point(x, y, xo, yo, m), n, e, d) EXCEPT !.cursor.y = v]
           = Make(b, Point(x, v, xo, yo, m), n, e, d)
<1>1. [Point(x, y, xo, yo, m) EXCEPT !.y = v] = Point(x, v, xo, yo, m)
  BY DEF Point
<1>2. QED
  BY <1>1 DEF Make

(* A store into the mode of the cursor.                                    *)
LEMMA StoreMode ==
  ASSUME NEW b, NEW n, NEW e, NEW d, NEW x, NEW y, NEW xo, NEW yo, NEW m, NEW v
  PROVE  [Make(b, Point(x, y, xo, yo, m), n, e, d) EXCEPT !.cursor.mode = v]
           = Make(b, Point(x, y, xo, yo, v), n, e, d)
<1>1. [Point(x, y, xo, yo, m) EXCEPT !.mode = v] = Point(x, y, xo, yo, v)
  BY DEF Point
<1>2. QED
  BY <1>1 DEF Make

(* Stores of the VGA cursor's place and of the reason to stop.             *)
LEMMA StoreOther ==
  ASSUME NEW b, NEW c, NEW n, NEW e, NEW d, NEW v
  PROVE  /\ [Make(b, c, n, e, d) EXCEPT !.shown = v] = Make(b, c, v, e, d)
         /\ [Make(b, c, n, e, d) EXCEPT !.down = v] = Make(b, c, n, e, v)
  BY DEF Make

---------------------------------------------------------------------------
(* The functions of the console, one after another.                        *)

\* The buffer after a fill of m cells, and after the copy of a scroll.
FillOf(b, first, m) == [i \in DOMAIN b |-> IF i \in first .. first + m - 1 THEN Blank ELSE b[i]]
MoveEnd(o) == o + (2 * Cells - o - Columns + 1) \div 2
MoveOf(b, o) == [i \in DOMAIN b |-> IF i >= o /\ i < MoveEnd(o) THEN b[i + Columns] ELSE b[i]]

(* A fill writes blanks.                                                   *)
LEMMA FillOfType == ASSUME NEW b \in Buffers, NEW first, NEW m PROVE FillOf(b, first, m) \in Buffers
  BY DEF Buffers, Cell, FillOf

(* A fill inside the two screens changes the buffer and the extent only.   *)
LEMMA FilledIsMade ==
  ASSUME NEW b \in Buffers, NEW c, NEW n, NEW e \in 0 .. 2 * Cells, NEW d,
         NEW first \in Nat, NEW m \in Int, first + m \in 0 .. 2 * Cells
  PROVE  \E w \in 0 .. 2 * Cells :
           Filled(Make(b, c, n, e, d), first, m) = Make(FillOf(b, first, m), c, n, w, d)
<1> DEFINE s == Make(b, c, n, e, d)
           v == FillOf(b, first, m)
           w == Further(e, first + m)
<1>1. s.buffer = b /\ s.extent = e
  BY DEF Make
<1>2. Filled(s, first, m) = [s EXCEPT !.buffer = v, !.extent = w]
  BY <1>1 DEF Filled, FillOf
<1>3. w \in 0 .. 2 * Cells
  BY DEF Further
<1> HIDE DEF v, w
<1>4. [s EXCEPT !.buffer = v, !.extent = w] = [[s EXCEPT !.buffer = v] EXCEPT !.extent = w]
  OBVIOUS
<1>5. /\ [s EXCEPT !.buffer = v] = Make(v, c, n, e, d)
      /\ [Make(v, c, n, e, d) EXCEPT !.extent = w] = Make(v, c, n, w, d)
  BY DEF Make
<1>6. Filled(s, first, m) = Make(v, c, n, w, d)
  BY <1>2, <1>4, <1>5, Zenon
<1>7. QED
  BY <1>3, <1>6 DEF v

(* A copy takes every cell from a cell of the two screens.                 *)
LEMMA CopiedIsMade ==
  ASSUME NEW s \in Screens(WrappedCursors)
  PROVE  /\ MoveOf(s.buffer, ORIGIN(s.cursor)) \in Buffers
         /\ \E w \in 0 .. 2 * Cells :
              Copied(s) = Make(MoveOf(s.buffer, ORIGIN(s.cursor)), s.cursor, s.shown, w, s.down)
<1> DEFINE o == ORIGIN(s.cursor)
           v == MoveOf(s.buffer, o)
           w == Further(s.extent, MoveEnd(o))
<1>1. Columns \in Nat \ {0} /\ Cells \in Nat /\ Columns <= Cells
  BY ConsoleAssumption, CellsPositive
<1>2. /\ s = Make(s.buffer, s.cursor, s.shown, s.extent, s.down)
      /\ s.buffer \in Buffers /\ s.extent \in 0 .. 2 * Cells
      /\ s.cursor.x_origin \in 0 .. Columns - 1 /\ s.cursor.y_origin \in 0 .. Rows - 1
  <2>1. s.cursor \in WrappedCursors
    BY ScreenParts
  <2>2. s.cursor.x_origin \in 0 .. Columns - 1 /\ s.cursor.y_origin \in 0 .. Rows - 1
    BY <2>1 DEF WrappedCursors
  <2>3. QED
    BY <2>2, ScreenParts
<1>3. Copied(s) = [s EXCEPT !.buffer = v, !.extent = w]
  BY DEF Copied, CopiedBytes, MoveOf, MoveEnd
<1>4. o \in 0 .. Cells - 1
  <2>1. s.cursor.y_origin * Columns \in Nat /\ s.cursor.y_origin * Columns + Columns <= Cells
    BY <1>2, RowInScreen
  <2>2. QED
    BY <1>1, <1>2, <2>1 DEF ORIGIN
<1> HIDE DEF o
<1>5. MoveEnd(o) \in Nat /\ MoveEnd(o) + Columns <= 2 * Cells /\ MoveEnd(o) <= 2 * Cells
  BY <1>1, <1>4 DEF MoveEnd
<1>6. v \in Buffers
  <2> SUFFICES ASSUME NEW i \in 0 .. 2 * Cells - 1, i >= o, i < MoveEnd(o)
               PROVE  s.buffer[i + Columns] \in Cell
    BY <1>2 DEF Buffers, MoveOf
  <2>1. i + Columns \in 0 .. 2 * Cells - 1
    BY <1>1, <1>4, <1>5
  <2>2. QED
    BY <2>1, <1>2 DEF Buffers
<1>7. w \in 0 .. 2 * Cells
  BY <1>1, <1>2, <1>5 DEF Further
<1> HIDE DEF v, w
<1> DEFINE t == Make(s.buffer, s.cursor, s.shown, s.extent, s.down)
<1>8. [t EXCEPT !.buffer = v, !.extent = w] = [[t EXCEPT !.buffer = v] EXCEPT !.extent = w]
  OBVIOUS
<1>9. /\ [t EXCEPT !.buffer = v] = Make(v, s.cursor, s.shown, s.extent, s.down)
      /\ [Make(v, s.cursor, s.shown, s.extent, s.down) EXCEPT !.extent = w]
           = Make(v, s.cursor, s.shown, w, s.down)
  BY DEF Make
<1>10. Copied(s) = Make(v, s.cursor, s.shown, w, s.down)
  BY <1>2, <1>3, <1>8, <1>9, Zenon
<1>11. QED
  BY <1>6, <1>7, <1>10 DEF v, o

(* Only the VGA cursor moves in console_update_cursor.                     *)
LEMMA UpdateIsMade ==
  ASSUME NEW b, NEW c, NEW n, NEW e, NEW d
  PROVE  console_update_cursor(Make(b, c, n, e, d)) = Make(b, c, Place(c), e, d)
<1>1. Make(b, c, n, e, d).cursor = c
  BY DEF Make
<1>2. console_update_cursor(Make(b, c, n, e, d)) = [Make(b, c, n, e, d) EXCEPT !.shown = Place(c)]
  BY <1>1 DEF console_update_cursor, Place
<1>3. QED
  BY <1>2, StoreOther

(* That is a cell of the screen.                                           *)
LEMMA PlaceType == ASSUME NEW c \in Cursors PROVE Place(c) \in -1 .. Cells - 1
  BY CursorInScreen, CellsPositive DEF Place

(* A cursor is made of its coordinates.                                    *)
LEMMA WrappedParts ==
  ASSUME NEW c \in WrappedCursors
  PROVE  /\ c = Point(c.x, c.y, c.x_origin, c.y_origin, c.mode)
         /\ c.x \in 0 .. Columns - 1 /\ c.y \in Nat
         /\ c.x_origin \in 0 .. Columns - 1 /\ c.y_origin \in 0 .. Rows - 1 /\ c.mode \in Mode
  BY DEF WrappedCursors, Point

(* A cursor inside the screen.                                             *)
LEMMA PointType ==
  ASSUME NEW x \in 0 .. Columns - 1, NEW y \in 0 .. Rows - 1,
         NEW xo \in 0 .. Columns - 1, NEW yo \in 0 .. Rows - 1, NEW m \in Mode
  PROVE  Point(x, y, xo, yo, m) \in Cursors
  BY DEF Point, Cursors

(* The line above the cursor is blanked, and the cursor goes to its start. *)
LEMMA ClearLineIsMade ==
  ASSUME NEW b \in Buffers, NEW n, NEW e \in 0 .. 2 * Cells, NEW d,
         NEW x, NEW xo \in 0 .. Columns - 1, NEW yo, NEW m
  PROVE  LET v == FillOf(b, (Rows - 1) * Columns + xo, Columns - xo) IN
         /\ v \in Buffers
         /\ \E w \in 0 .. 2 * Cells :
           console_clear_line(Make(b, Point(x, Rows, xo, yo, m), n, e, d))
             = Make(v, Point(xo, Rows, xo, yo, m), Place(Point(xo, Rows, xo, yo, m)), w, d)
<1> DEFINE p == Point(x, Rows, xo, yo, m)
           s == Make(b, p, n, e, d)
           first == (Rows - 1) * Columns + xo
           width == Columns - xo
           q == Point(xo, Rows, xo, yo, m)
           v == FillOf(b, first, width)
<1>1. /\ Columns \in Nat \ {0} /\ Rows \in Nat \ {0}
      /\ Cells \in Nat /\ Columns <= Cells /\ Cells = Rows * Columns
  BY ConsoleAssumption, CellsPositive
<1>2. first = Cells - Columns + xo
  BY <1>1, RowBefore
<1>3. first \in Nat /\ width \in Int /\ first + width \in 0 .. 2 * Cells
  BY <1>1, <1>2
<1>4. s.cursor = p /\ p.y = Rows /\ p.x_origin = xo
  BY DEF Make, Point
<1>5. console_clear_line(s) = console_update_cursor([Filled(s, first, width) EXCEPT !.cursor.x = xo])
  BY <1>4 DEF console_clear_line
<1> HIDE DEF p, first, width
<1>6. v \in Buffers
  BY FillOfType
<1> PICK w \in 0 .. 2 * Cells : Filled(s, first, width) = Make(v, p, n, w, d)
  BY <1>3, FilledIsMade
<1>7. [Make(v, p, n, w, d) EXCEPT !.cursor.x = xo] = Make(v, q, n, w, d)
  BY StoreX DEF p
<1> HIDE DEF q, v
<1>8. console_clear_line(s) = console_update_cursor(Make(v, q, n, w, d))
  BY <1>5, <1>6, <1>7, Zenon
<1>9. console_clear_line(s) = Make(v, q, Place(q), w, d)
  BY <1>8, UpdateIsMade
<1>10. QED
  BY <1>6, <1>9 DEF p, q, v, first, width

\* The buffer and the cursor after a scroll.
ScrollOf(b, c) ==
  FillOf(MoveOf(b, ORIGIN(c)), (Rows - 1) * Columns + c.x_origin, Columns - c.x_origin)
ScrollPoint(c) == Point(c.x_origin, Rows - 1, c.x_origin, c.y_origin, c.mode)

(* With a copy that works, a scroll ends with a cursor in the last row.    *)
LEMMA ScrollIsMade ==
  ASSUME NEW s \in Screens(WrappedCursors), copies # "actual"
  PROVE  /\ ScrollOf(s.buffer, s.cursor) \in Buffers
         /\ ScrollPoint(s.cursor) \in Cursors
         /\ \E w \in 0 .. 2 * Cells :
              console_scroll(s) = Make(ScrollOf(s.buffer, s.cursor), ScrollPoint(s.cursor),
                                       Place(ScrollPoint(s.cursor)), w, s.down)
<1> DEFINE c == s.cursor
           b == MoveOf(s.buffer, ORIGIN(c))
           v == FillOf(b, (Rows - 1) * Columns + c.x_origin, Columns - c.x_origin)
           last == Point(c.x, Rows, c.x_origin, c.y_origin, c.mode)
           ends == Point(c.x_origin, Rows, c.x_origin, c.y_origin, c.mode)
           end == Point(c.x_origin, Rows - 1, c.x_origin, c.y_origin, c.mode)
<1>1. s.cursor \in WrappedCursors
  BY ScreenParts
<1>2. /\ c = Point(c.x, c.y, c.x_origin, c.y_origin, c.mode)
      /\ c.x_origin \in 0 .. Columns - 1 /\ c.y_origin \in 0 .. Rows - 1 /\ c.mode \in Mode
  BY <1>1, WrappedParts
<1>3. b \in Buffers /\ \E e \in 0 .. 2 * Cells : Copied(s) = Make(b, c, s.shown, e, s.down)
  BY CopiedIsMade
<1> PICK e \in 0 .. 2 * Cells : Copied(s) = Make(b, c, s.shown, e, s.down)
  BY <1>3
<1> HIDE DEF b
<1>4. [Make(b, Point(c.x, c.y, c.x_origin, c.y_origin, c.mode), s.shown, e, s.down)
         EXCEPT !.cursor.y = Rows] = Make(b, last, s.shown, e, s.down)
  BY StoreY
<1>5. [Copied(s) EXCEPT !.cursor.y = Rows] = Make(b, last, s.shown, e, s.down)
  BY <1>2, <1>4, Zenon
<1>6. /\ v \in Buffers
      /\ \E w \in 0 .. 2 * Cells :
           console_clear_line(Make(b, last, s.shown, e, s.down)) = Make(v, ends, Place(ends), w, s.down)
  BY <1>2, <1>3, ClearLineIsMade
<1> HIDE DEF v
<1> PICK w \in 0 .. 2 * Cells :
      console_clear_line(Make(b, last, s.shown, e, s.down)) = Make(v, ends, Place(ends), w, s.down)
  BY <1>6
<1>7. [Make(v, ends, Place(ends), w, s.down) EXCEPT !.cursor.y = Rows - 1]
        = Make(v, end, Place(ends), w, s.down)
  BY StoreY
<1>8. console_scroll(s) = console_update_cursor([console_clear_line([Copied(s) EXCEPT !.cursor.y = Rows])
                                                   EXCEPT !.cursor.y = Rows - 1])
  BY DEF console_scroll
<1> HIDE DEF end, ends, last, c
<1>9. console_scroll(s) = console_update_cursor(Make(v, end, Place(ends), w, s.down))
  BY <1>5, <1>7, <1>8, Zenon
<1>10. console_scroll(s) = Make(v, end, Place(end), w, s.down)
  BY <1>9, UpdateIsMade
<1>11. end \in Cursors
  <2>1. Rows - 1 \in 0 .. Rows - 1
    BY ConsoleAssumption
  <2>2. QED
    BY <1>2, <2>1, PointType DEF end
<1>12. v = ScrollOf(s.buffer, s.cursor) /\ end = ScrollPoint(s.cursor)
  BY DEF v, b, c, end, ScrollOf, ScrollPoint
<1>13. QED
  BY <1>6, <1>10, <1>11, <1>12

(* With the copy of this commit the machine is lost in a scroll.           *)
LEMMA ScrollType == ASSUME NEW s \in Screens(WrappedCursors)
                    PROVE  Landed(console_scroll(s))
<1>1. /\ s = Make(s.buffer, s.cursor, s.shown, s.extent, s.down)
      /\ s.buffer \in Buffers /\ s.cursor \in WrappedCursors /\ s.shown \in -1 .. Cells - 1
      /\ s.extent \in 0 .. 2 * Cells /\ s.down \in {"no", "panic", "lost"}
  BY ScreenParts
<1>2. CASE copies = "actual"
  <2>1. [s EXCEPT !.down = "lost"] = Make(s.buffer, s.cursor, s.shown, s.extent, "lost")
    BY <1>1 DEF Make
  <2>2. Make(s.buffer, s.cursor, s.shown, s.extent, "lost") \in Screens(WrappedCursors)
    BY <1>1, MakeType
  <2>3. Make(s.buffer, s.cursor, s.shown, s.extent, "lost").down = "lost"
    BY DEF Make
  <2>4. console_scroll(s) = [s EXCEPT !.down = "lost"]
    BY <1>2 DEF console_scroll
  <2>5. QED
    BY <2>1, <2>2, <2>3, <2>4 DEF Landed
<1>3. CASE copies # "actual"
  <2>1. ScrollPoint(s.cursor) \in Cursors /\ ScrollOf(s.buffer, s.cursor) \in Buffers
    BY <1>3, ScrollIsMade
  <2>2. PICK w \in 0 .. 2 * Cells :
          console_scroll(s) = Make(ScrollOf(s.buffer, s.cursor), ScrollPoint(s.cursor),
                                   Place(ScrollPoint(s.cursor)), w, s.down)
    BY <1>3, ScrollIsMade
  <2>3. Place(ScrollPoint(s.cursor)) \in -1 .. Cells - 1
    BY <2>1, PlaceType
  <2>4. QED
    BY <1>1, <2>1, <2>2, <2>3, MakeType DEF Landed
<1>4. QED
  BY <1>2, <1>3

(* Clearing blanks to the end of the second screen and no further.         *)
LEMMA ClearIsMade ==
  ASSUME NEW s \in Screens(Cursors)
  PROVE  LET v == FillOf(s.buffer, ORIGIN(s.cursor), 2 * Cells - ORIGIN(s.cursor))
             q == Point(s.cursor.x_origin, s.cursor.y_origin,
                        s.cursor.x_origin, s.cursor.y_origin, s.cursor.mode)
         IN  /\ v \in Buffers /\ q \in Cursors
             /\ \E w \in 0 .. 2 * Cells : console_clear(s) = Make(v, q, Place(q), w, s.down)
<1> DEFINE c == s.cursor
           o == ORIGIN(c)
           width == 2 * Cells - o
           q == Point(c.x_origin, c.y_origin, c.x_origin, c.y_origin, c.mode)
<1>1. /\ s = Make(s.buffer, c, s.shown, s.extent, s.down)
      /\ s.buffer \in Buffers /\ c \in Cursors /\ s.shown \in -1 .. Cells - 1
      /\ s.extent \in 0 .. 2 * Cells /\ s.down \in {"no", "panic", "lost"}
  BY ScreenParts
<1>2. /\ c = Point(c.x, c.y, c.x_origin, c.y_origin, c.mode)
      /\ c.x_origin \in 0 .. Columns - 1 /\ c.y_origin \in 0 .. Rows - 1 /\ c.mode \in Mode
  BY <1>1 DEF Cursors, Point
<1>3. o \in Nat /\ width \in Int /\ o + width \in 0 .. 2 * Cells
  BY <1>1, CursorInScreen, CellsPositive
<1>4. console_clear(s) = console_update_cursor(
        [Filled(s, o, width) EXCEPT !.cursor.x = c.x_origin, !.cursor.y = c.y_origin])
  BY DEF console_clear
<1> HIDE DEF o, width
<1> DEFINE b == FillOf(s.buffer, o, width)
<1>5. b \in Buffers
  BY <1>1, FillOfType
<1> PICK e \in 0 .. 2 * Cells : Filled(s, o, width) = Make(b, c, s.shown, e, s.down)
  <2>1. s.buffer \in Buffers /\ s.extent \in 0 .. 2 * Cells
    BY <1>1
  <2>2. ASSUME NEW bb \in Buffers, NEW ee \in 0 .. 2 * Cells
        PROVE  \E e \in 0 .. 2 * Cells :
                 Filled(Make(bb, c, s.shown, ee, s.down), o, width)
                   = Make(FillOf(bb, o, width), c, s.shown, e, s.down)
    BY <1>3, FilledIsMade
  <2>3. \E e \in 0 .. 2 * Cells :
          Filled(Make(s.buffer, c, s.shown, s.extent, s.down), o, width) = Make(b, c, s.shown, e, s.down)
    BY <2>1, <2>2, Zenon
  <2>4. QED
    BY <1>1, <2>3, Zenon
<1> HIDE DEF b
<1> DEFINE t == Make(b, Point(c.x, c.y, c.x_origin, c.y_origin, c.mode), s.shown, e, s.down)
           u == Make(b, Point(c.x_origin, c.y, c.x_origin, c.y_origin, c.mode), s.shown, e, s.down)
<1>6. /\ [t EXCEPT !.cursor.x = c.x_origin, !.cursor.y = c.y_origin]
           = [[t EXCEPT !.cursor.x = c.x_origin] EXCEPT !.cursor.y = c.y_origin]
      /\ [t EXCEPT !.cursor.x = c.x_origin] = u
      /\ [u EXCEPT !.cursor.y = c.y_origin] = Make(b, q, s.shown, e, s.down)
  BY StoreX, StoreY
<1> HIDE DEF q
<1>7. console_clear(s) = console_update_cursor(Make(b, q, s.shown, e, s.down))
  BY <1>2, <1>4, <1>6, Zenon
<1>8. q \in Cursors
  BY <1>2, PointType DEF q
<1>9. console_clear(s) = Make(b, q, Place(q), e, s.down)
  BY <1>7, UpdateIsMade
<1>10. QED
  BY <1>5, <1>8, <1>9 DEF b, q, o, width

(* So the screen is sound afterwards.                                      *)
LEMMA ClearType == ASSUME NEW s \in Screens(Cursors)
                   PROVE  console_clear(s) \in Screens(Cursors)
<1>1. PICK v \in Buffers, q \in Cursors, w \in 0 .. 2 * Cells : console_clear(s) = Make(v, q, Place(q), w, s.down)
  BY ClearIsMade
<1>2. s.down \in {"no", "panic", "lost"}
  BY ScreenParts
<1>3. Place(q) \in -1 .. Cells - 1
  BY PlaceType
<1>4. QED
  BY <1>1, <1>2, <1>3, MakeType

\* What typing does to the buffer b and a cursor at column x of row y.
TypedTo(b, x, y, xo, ch, v, i, j) ==
  /\ ch = 8  => v = b /\ i = (IF x > 0 THEN x - 1 ELSE x) /\ j = y
  /\ ch = 10 => v = b /\ i = xo /\ j = y + 1
  /\ ch = 13 => v = b /\ i = xo /\ j = y
  /\ ch = 9  => v = b /\ i = TabSize * ((x + TabSize) \div TabSize) /\ j = y
  /\ ch \in C!PRINT => v = [b EXCEPT ![y * Columns + x] = ch] /\ i = x + 1 /\ j = y
  /\ ch \notin C!PRINT \union {8, 9, 10, 13} => v = b /\ i = x /\ j = y

(* Typing a character writes a cell of the screen at most, and moves the   *)
(* cursor on.                                                              *)
LEMMA TypedIsMade ==
  ASSUME NEW b \in Buffers, NEW n, NEW e \in 0 .. 2 * Cells, NEW d, NEW ch \in Codes \union {10},
         NEW x \in 0 .. Columns - 1, NEW y \in 0 .. Rows - 1,
         NEW xo \in 0 .. Columns - 1, NEW yo \in 0 .. Rows - 1, NEW m \in Mode
  PROVE  \E v \in Buffers, w \in 0 .. 2 * Cells, i \in Nat, j \in Nat :
           /\ Typed(Make(b, Point(x, y, xo, yo, m), n, e, d), ch) = Make(v, Point(i, j, xo, yo, m), n, w, d)
           /\ TypedTo(b, x, y, xo, ch, v, i, j)
<1> DEFINE at == Point(x, y, xo, yo, m)
           s == Make(b, at, n, e, d)
<1>1. /\ Columns \in Nat \ {0} /\ Rows \in Nat \ {0} /\ TabSize \in Nat \ {0} /\ ch \in Int
      /\ Cells \in Nat
  BY ConsoleAssumption, CellsPositive
<1>2. s.cursor = at /\ at.x = x /\ at.y = y /\ at.x_origin = xo
  BY DEF Make, Point
<1>3. x \in Nat /\ y \in Nat /\ xo \in Nat
  BY <1>1
<1>4. CASE ch = 8
  <2>1. Typed(s, ch) = [s EXCEPT !.cursor.x = IF x > 0 THEN x - 1 ELSE x]
    BY <1>2, <1>4 DEF Typed, C!PRINT
  <2>2. (IF x > 0 THEN x - 1 ELSE x) \in Nat
    BY <1>3
  <2>3. [s EXCEPT !.cursor.x = IF x > 0 THEN x - 1 ELSE x]
          = Make(b, Point(IF x > 0 THEN x - 1 ELSE x, y, xo, yo, m), n, e, d)
    BY StoreX
  <2>4. TypedTo(b, x, y, xo, ch, b, IF x > 0 THEN x - 1 ELSE x, y)
    BY <1>4 DEF TypedTo, C!PRINT
  <2>5. QED
    BY <1>3, <2>1, <2>2, <2>3, <2>4
<1>5. CASE ch = 10
  <2> DEFINE t == Make(b, Point(x, y + 1, xo, yo, m), n, e, d)
  <2>1. Typed(s, ch) = [s EXCEPT !.cursor.y = y + 1, !.cursor.x = xo]
    BY <1>2, <1>5 DEF Typed, C!PRINT
  <2>2. /\ [s EXCEPT !.cursor.y = y + 1, !.cursor.x = xo]
             = [[s EXCEPT !.cursor.y = y + 1] EXCEPT !.cursor.x = xo]
        /\ [s EXCEPT !.cursor.y = y + 1] = t
        /\ [t EXCEPT !.cursor.x = xo] = Make(b, Point(xo, y + 1, xo, yo, m), n, e, d)
    BY StoreX, StoreY
  <2>3. Typed(s, ch) = Make(b, Point(xo, y + 1, xo, yo, m), n, e, d)
    BY <2>1, <2>2, Zenon
  <2>4. y + 1 \in Nat
    BY <1>3
  <2>5. TypedTo(b, x, y, xo, ch, b, xo, y + 1)
    BY <1>5 DEF TypedTo, C!PRINT
  <2>6. QED
    BY <1>3, <2>3, <2>4, <2>5
<1>6. CASE ch = 13
  <2>1. Typed(s, ch) = [s EXCEPT !.cursor.x = xo]
    BY <1>2, <1>6 DEF Typed, C!PRINT
  <2>2. [s EXCEPT !.cursor.x = xo] = Make(b, Point(xo, y, xo, yo, m), n, e, d)
    BY StoreX
  <2>3. TypedTo(b, x, y, xo, ch, b, xo, y)
    BY <1>6 DEF TypedTo, C!PRINT
  <2>4. QED
    BY <1>3, <2>1, <2>2, <2>3
<1>7. CASE ch = 9
  <2> DEFINE stop == TabSize * ((x + TabSize) \div TabSize)
  <2>1. Typed(s, ch) = [s EXCEPT !.cursor.x = stop]
    BY <1>2, <1>7 DEF Typed, C!PRINT
  <2>2. stop \in Nat
    <3>1. (x + TabSize) \div TabSize \in Nat
      BY <1>1, <1>3
    <3>2. QED
      BY <1>1, <3>1, ProductIsNat
  <2>3. TypedTo(b, x, y, xo, ch, b, stop, y)
    BY <1>7 DEF TypedTo, C!PRINT
  <2> HIDE DEF stop
  <2>4. [s EXCEPT !.cursor.x = stop] = Make(b, Point(stop, y, xo, yo, m), n, e, d)
    BY StoreX
  <2>5. QED
    BY <1>3, <2>1, <2>2, <2>3, <2>4
<1>8. CASE ch \in C!PRINT /\ ch \notin {8, 9, 10, 13}
  <2> DEFINE v == [b EXCEPT ![Index(at)] = ch]
             w == Further(e, Index(at) + 1)
  <2>1. s.buffer = b /\ s.extent = e
    BY DEF Make
  <2>2. Typed(s, ch) = [s EXCEPT !.buffer[Index(at)] = ch, !.cursor.x = x + 1, !.extent = w]
    BY <1>2, <1>8, <2>1 DEF Typed
  <2>3. Index(at) \in 0 .. Cells - 1
    BY PointType, CursorInScreen
  <2>4. v \in Buffers /\ w \in 0 .. 2 * Cells
    BY <1>1, <1>8, <2>3 DEF Buffers, Cell, Further
  <2>5. [s EXCEPT !.buffer[Index(at)] = ch] = [s EXCEPT !.buffer = v]
    BY <2>1
  <2> HIDE DEF v, w
  <2>6. /\ [s EXCEPT !.buffer = v] = Make(v, at, n, e, d)
        /\ [Make(v, Point(x + 1, y, xo, yo, m), n, e, d) EXCEPT !.extent = w]
             = Make(v, Point(x + 1, y, xo, yo, m), n, w, d)
    BY DEF Make
  <2>7. [Make(v, at, n, e, d) EXCEPT !.cursor.x = x + 1] = Make(v, Point(x + 1, y, xo, yo, m), n, e, d)
    BY StoreX
  <2>8. [s EXCEPT !.buffer[Index(at)] = ch, !.cursor.x = x + 1, !.extent = w]
          = [[[s EXCEPT !.buffer[Index(at)] = ch] EXCEPT !.cursor.x = x + 1] EXCEPT !.extent = w]
    OBVIOUS
  <2>9. Typed(s, ch) = Make(v, Point(x + 1, y, xo, yo, m), n, w, d)
    BY <2>2, <2>5, <2>6, <2>7, <2>8, Zenon
  <2>10. x + 1 \in Nat
    BY <1>3
  <2>11. TypedTo(b, x, y, xo, ch, v, x + 1, y)
    BY <1>2, <1>8 DEF TypedTo, v, Index
  <2>12. QED
    BY <1>3, <2>4, <2>9, <2>10, <2>11
<1>9. CASE ch \notin C!PRINT /\ ch \notin {8, 9, 10, 13}
  <2>1. Typed(s, ch) = s
    BY <1>9 DEF Typed
  <2>2. TypedTo(b, x, y, xo, ch, b, x, y)
    BY <1>9 DEF TypedTo
  <2>3. QED
    BY <1>3, <2>1, <2>2
<1>10. QED
  BY <1>4, <1>5, <1>6, <1>7, <1>8, <1>9

(* Wrapping brings the cursor back between the columns.                    *)
LEMMA WrappedIsMade ==
  ASSUME NEW v \in Buffers, NEW n, NEW w \in 0 .. 2 * Cells, NEW d, NEW i \in Nat, NEW j \in Nat,
         NEW xo \in 0 .. Columns - 1, NEW yo \in 0 .. Rows - 1, NEW m \in Mode
  PROVE  \E x \in 0 .. Columns - 1, y \in Nat :
           /\ Wrapped(Make(v, Point(i, j, xo, yo, m), n, w, d)) = Make(v, Point(x, y, xo, yo, m), n, w, d)
           /\ x = (IF i >= Columns THEN xo ELSE i) /\ y = (IF i >= Columns THEN j + 1 ELSE j)
<1> DEFINE p == Point(i, j, xo, yo, m)
           s == Make(v, p, n, w, d)
<1>1. s.cursor = p /\ p.x = i /\ p.y = j /\ p.x_origin = xo
  BY DEF Make, Point
<1>2. Columns \in Nat
  BY ConsoleAssumption
<1>3. CASE i >= Columns
  <2> DEFINE t == Make(v, Point(xo, j, xo, yo, m), n, w, d)
  <2>1. Wrapped(s) = [s EXCEPT !.cursor.x = xo, !.cursor.y = j + 1]
    BY <1>1, <1>3 DEF Wrapped
  <2>2. /\ [s EXCEPT !.cursor.x = xo, !.cursor.y = j + 1]
             = [[s EXCEPT !.cursor.x = xo] EXCEPT !.cursor.y = j + 1]
        /\ [s EXCEPT !.cursor.x = xo] = t
        /\ [t EXCEPT !.cursor.y = j + 1] = Make(v, Point(xo, j + 1, xo, yo, m), n, w, d)
    BY StoreX, StoreY
  <2>3. Wrapped(s) = Make(v, Point(xo, j + 1, xo, yo, m), n, w, d)
    BY <2>1, <2>2, Zenon
  <2>4. j + 1 \in Nat
    OBVIOUS
  <2>5. QED
    BY <1>3, <2>3, <2>4
<1>4. CASE ~(i >= Columns)
  <2>1. Wrapped(s) = s
    BY <1>1, <1>4 DEF Wrapped
  <2>2. i \in 0 .. Columns - 1
    BY <1>2, <1>4
  <2>3. QED
    BY <1>4, <2>1, <2>2
<1>5. QED
  BY <1>3, <1>4

(* A character is typed, the line wrapped and the screen scrolled.         *)
LEMMA WriteCharIsMade ==
  ASSUME NEW s \in Screens(Cursors), NEW ch \in Codes \union {10}
  PROVE  \E v \in Buffers, w \in 0 .. 2 * Cells, i \in Nat, j \in Nat, x \in 0 .. Columns - 1, y \in Nat :
           LET c == s.cursor
               t == Make(v, Point(x, y, c.x_origin, c.y_origin, c.mode), s.shown, w, s.down)
           IN  /\ TypedTo(s.buffer, c.x, c.y, c.x_origin, ch, v, i, j)
               /\ x = (IF i >= Columns THEN c.x_origin ELSE i) /\ y = (IF i >= Columns THEN j + 1 ELSE j)
               /\ t \in Screens(WrappedCursors)
               /\ console_write_char(s, ch) = IF y >= Rows THEN console_scroll(t) ELSE t
<1> DEFINE c == s.cursor
<1>1. /\ s = Make(s.buffer, c, s.shown, s.extent, s.down)
      /\ s.buffer \in Buffers /\ c \in Cursors /\ s.shown \in -1 .. Cells - 1
      /\ s.extent \in 0 .. 2 * Cells /\ s.down \in {"no", "panic", "lost"}
  BY ScreenParts
<1>2. /\ c = Point(c.x, c.y, c.x_origin, c.y_origin, c.mode)
      /\ c.x \in 0 .. Columns - 1 /\ c.y \in 0 .. Rows - 1
      /\ c.x_origin \in 0 .. Columns - 1 /\ c.y_origin \in 0 .. Rows - 1 /\ c.mode \in Mode
  BY <1>1 DEF Cursors, Point
<1>3. s = Make(s.buffer, Point(c.x, c.y, c.x_origin, c.y_origin, c.mode), s.shown, s.extent, s.down)
  BY <1>1, <1>2, Zenon
<1>4. PICK v \in Buffers, w \in 0 .. 2 * Cells, i \in Nat, j \in Nat :
        /\ Typed(Make(s.buffer, Point(c.x, c.y, c.x_origin, c.y_origin, c.mode), s.shown, s.extent, s.down), ch)
             = Make(v, Point(i, j, c.x_origin, c.y_origin, c.mode), s.shown, w, s.down)
        /\ TypedTo(s.buffer, c.x, c.y, c.x_origin, ch, v, i, j)
  BY <1>1, <1>2, TypedIsMade
<1>5. PICK x \in 0 .. Columns - 1, y \in Nat :
        /\ Wrapped(Make(v, Point(i, j, c.x_origin, c.y_origin, c.mode), s.shown, w, s.down))
             = Make(v, Point(x, y, c.x_origin, c.y_origin, c.mode), s.shown, w, s.down)
        /\ x = (IF i >= Columns THEN c.x_origin ELSE i) /\ y = (IF i >= Columns THEN j + 1 ELSE j)
  BY <1>2, WrappedIsMade
<1> DEFINE p == Point(x, y, c.x_origin, c.y_origin, c.mode)
           t == Make(v, p, s.shown, w, s.down)
<1>6. Wrapped(Typed(s, ch)) = t
  BY <1>3, <1>4, <1>5, Zenon
<1>7. t.cursor = p /\ p.y = y
  BY DEF Make, Point
<1>8. console_write_char(s, ch) = IF y >= Rows THEN console_scroll(t) ELSE t
  BY <1>6, <1>7 DEF console_write_char
<1>9. p \in WrappedCursors
  BY <1>2 DEF Point, WrappedCursors
<1>10. t \in Screens(WrappedCursors)
  BY <1>1, <1>9, MakeType
<1>11. QED
  BY <1>4, <1>5, <1>8, <1>10

(* A character leaves the cursor on the screen, or the machine is lost.    *)
LEMMA WriteCharType == ASSUME NEW s \in Screens(Cursors), NEW ch \in Codes \union {10}
                       PROVE  Landed(console_write_char(s, ch))
<1>1. PICK v \in Buffers, w \in 0 .. 2 * Cells, x \in 0 .. Columns - 1, y \in Nat :
        LET c == s.cursor
            t == Make(v, Point(x, y, c.x_origin, c.y_origin, c.mode), s.shown, w, s.down)
        IN  /\ t \in Screens(WrappedCursors)
            /\ console_write_char(s, ch) = IF y >= Rows THEN console_scroll(t) ELSE t
  BY WriteCharIsMade
<1> DEFINE c == s.cursor
           p == Point(x, y, c.x_origin, c.y_origin, c.mode)
           t == Make(v, p, s.shown, w, s.down)
<1>2. CASE y >= Rows
  BY <1>1, <1>2, ScrollType
<1>3. CASE ~(y >= Rows)
  <2>1. y \in 0 .. Rows - 1
    BY <1>3, ConsoleAssumption
  <2>2. c \in Cursors /\ s.shown \in -1 .. Cells - 1 /\ s.down \in {"no", "panic", "lost"}
    BY ScreenParts
  <2>3. p \in Cursors
    BY <2>1, <2>2, PointType DEF Cursors
  <2>4. t \in Screens(Cursors)
    BY <2>2, <2>3, MakeType
  <2>5. QED
    BY <1>1, <1>3, <2>4 DEF Landed
<1>4. QED
  BY <1>2, <1>3
---------------------------------------------------------------------------
(* The screen of a state, and a state from a screen.                       *)

(* While the machine runs, the variables make a sound screen.              *)
LEMMA ScreenType == TypeOK /\ WritesInWindow /\ Running => Screen \in Screens(Cursors)
<1> SUFFICES ASSUME TypeOK, WritesInWindow, Running PROVE Screen \in Screens(Cursors)
  OBVIOUS
<1>1. /\ buffer \in Buffers /\ cursor \in Cursors /\ shown \in -1 .. Cells - 1
      /\ extent \in 0 .. 2 * Cells /\ down \in {"no", "panic", "lost"}
  BY CellsPositive DEF TypeOK, WritesInWindow, Running, Buffers, Cursors
<1>2. QED
  BY <1>1 DEF Screen, Screens

\* What an operation leaves of the variables of the screen.
ScreenInv ==
  /\ buffer \in [0 .. 2 * Cells - 1 -> Cell]
  /\ cursor \in Cursors \/ down # "no"
  /\ shown \in -1 .. Cells - 1 /\ extent \in Nat /\ extent <= 2 * Cells
  /\ down \in {"no", "panic", "lost"}

(* An operation that ends in a sound screen, or stops, keeps them right.   *)
LEMMA BecomesSound == ASSUME NEW s, Landed(s), Becomes(s) PROVE ScreenInv'
<1>1. \/ s \in Screens(Cursors)
      \/ s \in Screens(WrappedCursors) /\ s.down = "lost"
  BY DEF Landed
<1>2. /\ s.buffer \in Buffers /\ s.shown \in -1 .. Cells - 1
      /\ s.extent \in 0 .. 2 * Cells /\ s.down \in {"no", "panic", "lost"}
      /\ s.cursor \in Cursors \/ s.down = "lost"
  BY <1>1 DEF Screens
<1>3. s.extent \in Nat /\ s.extent <= 2 * Cells
  BY <1>2, CellsPositive
<1>4. QED
  BY <1>2, <1>3 DEF Becomes, ScreenInv, Buffers

\* The variables that belong to no screen.
RestInv ==
  /\ foreground \in Colour /\ interrupts \in BOOLEAN
  /\ debug \in BOOLEAN /\ copies \in {"exact", "actual"}

(* The invariant in two halves, the screen and the rest.                   *)
LEMMA InvParts == IInv <=> ScreenInv /\ RestInv /\ CallInv
  BY DEF IInv, TypeOK, WritesInWindow, ScreenInv, RestInv, Cursors

(* The same in the next state.                                             *)
LEMMA InvPartsNext == ScreenInv' /\ RestInv' /\ CallInv' => IInv'
  BY InvParts, PTL

(* A sound screen is one to land on.                                       *)
LEMMA SoundLands == ASSUME NEW s \in Screens(Cursors) PROVE Landed(s)
  BY DEF Landed

(* An operation of a caller keeps the invariant if its screen is sound.    *)
LEMMA OperationInv ==
  ASSUME IInv, Operation, NEW s, Landed(s), Becomes(s) PROVE IInv'
<1>1. ScreenInv'
  BY BecomesSound
<1>2. RestInv' /\ CallInv'
  BY DEF IInv, TypeOK, RestInv, CallInv, Operation
<1>3. QED
  BY <1>1, <1>2, InvPartsNext

(* A call that leaves the screen alone keeps the invariant if its record   *)
(* and the colour are right.                                               *)
LEMMA CallOnlyInv ==
  ASSUME IInv, UNCHANGED <<screen, debug, copies>>, foreground' \in Colour,
         interrupts' \in BOOLEAN, CallInv'
  PROVE  IInv'
<1>1. ScreenInv'
  BY DEF IInv, TypeOK, WritesInWindow, ScreenInv, screen, Cursors
<1>2. RestInv'
  BY DEF IInv, TypeOK, RestInv
<1>3. QED
  BY <1>1, <1>2, InvPartsNext

(* What the fields of a call under way hold.                               *)
LEMMA CallFields ==
  ASSUME CallInv
  PROVE  /\ call.fn \in {"none", "write_line", "printk", "do_print"}
         /\ call.fn = "write_line" =>
              /\ call = [fn |-> "write_line", todo |-> call.todo, before |-> call.before]
              /\ call.todo \in Seq(Codes) /\ call.before \in BOOLEAN
         /\ call.fn = "printk" =>
              /\ call.level \in 0 .. 9 /\ call.before \in BOOLEAN /\ call.colour \in Colour
              /\ foreground = call.colour
         /\ call.fn = "do_print" =>
              /\ call = [fn |-> "do_print", todo |-> call.todo, before |-> call.before, colour |-> call.colour]
              /\ call.todo \in Seq(Codes) /\ call.before \in BOOLEAN /\ call.colour \in Colour
         /\ call = Idle <=> call.fn = "none"
  BY DEF CallInv, Calls, Idle

(* The state after console_init.                                           *)
LEMMA InitInv == Init => IInv
<1> SUFFICES ASSUME Init PROVE IInv
  OBVIOUS
<1>1. Columns \in Nat \ {0} /\ Rows \in Nat \ {0} /\ Cells \in Nat
  BY ConsoleAssumption, CellsPositive
<1>2. 0 \in 0 .. Columns - 1 /\ 0 \in 0 .. Rows - 1 /\ -1 \in -1 .. Cells - 1
  BY <1>1
<1>3. cursor \in Cursors
  BY <1>2 DEF Init, console_init, Cursors, Mode
<1>4. ScreenInv
  BY <1>1, <1>2, <1>3 DEF Init, ScreenInv, Cell
<1>5. RestInv /\ CallInv
  BY DEF Init, console_init, RestInv, CallInv, Calls, Colour, Idle
<1>6. QED
  BY <1>4, <1>5, InvParts

(* Writing, scrolling, clearing and moving.                                *)
LEMMA OperationsInv ==
  ASSUME IInv, WriteChar \/ Scroll \/ Clear \/ console_set_cursor_mode \/ console_set_cursor
               \/ console_set_origin
  PROVE  IInv'
<1>1. Operation => Screen \in Screens(Cursors)
  BY ScreenType DEF IInv, Operation
<1>2. CASE WriteChar
  BY <1>1, <1>2, WriteCharType, OperationInv DEF WriteChar
<1>3. CASE Scroll
  <2>1. Screen \in Screens(WrappedCursors)
    BY <1>1, <1>3 DEF Scroll, Screens, Cursors, WrappedCursors
  <2>2. QED
    BY <1>3, <2>1, ScrollType, OperationInv DEF Scroll
<1>4. CASE Clear
  BY <1>1, <1>4, ClearType, SoundLands, OperationInv DEF Clear
<1>5. CASE console_set_cursor_mode
  <2> SUFFICES ASSUME Operation, NEW m \in Modes,
                      Becomes(console_update_cursor([Screen EXCEPT !.cursor.mode = m]))
               PROVE  IInv'
    BY <1>5 DEF console_set_cursor_mode
  <2> DEFINE s == [Screen EXCEPT !.cursor.mode = m]
  <2>1. Screen.cursor \in Cursors
    BY <1>1 DEF Screens
  <2>2. m \in Mode
    BY ConsoleAssumption DEF Mode
  <2>3. [Screen.cursor EXCEPT !.mode = m] \in Cursors
    BY <2>1, <2>2 DEF Cursors
  <2>4. s \in Screens(Cursors)
    BY <1>1, <2>3 DEF Screens
  <2> HIDE DEF s
  <2>5. console_update_cursor(s) \in Screens(Cursors)
    BY <2>4, UpdateType
  <2>6. QED
    BY <2>5, SoundLands, OperationInv DEF s
<1>6. CASE console_set_cursor
  <2> SUFFICES ASSUME Operation, NEW x \in 0 .. Columns - 1, NEW y \in 0 .. Rows - 1,
                      Becomes([Screen EXCEPT !.cursor.x = x, !.cursor.y = y])
               PROVE  IInv'
    BY <1>6 DEF console_set_cursor
  <2> DEFINE s == [Screen EXCEPT !.cursor.x = x, !.cursor.y = y]
  <2>1. Screen.cursor \in Cursors
    BY <1>1 DEF Screens
  <2>2. [[Screen.cursor EXCEPT !.x = x] EXCEPT !.y = y] \in Cursors
    BY <2>1 DEF Cursors
  <2>3. s \in Screens(Cursors)
    BY <1>1, <2>2 DEF Screens
  <2>4. QED
    BY <2>3, SoundLands, OperationInv
<1>7. CASE console_set_origin
  <2> SUFFICES ASSUME Operation, NEW o \in Origins,
                      Becomes([Screen EXCEPT !.cursor =
                        [cursor EXCEPT !.x_origin = o.x, !.y_origin = o.y,
                                       !.x = Further(@, o.x), !.y = Further(@, o.y)]])
               PROVE  IInv'
    BY <1>7 DEF console_set_origin
  <2> DEFINE c == [cursor EXCEPT !.x_origin = o.x, !.y_origin = o.y,
                                 !.x = Further(@, o.x), !.y = Further(@, o.y)]
             s == [Screen EXCEPT !.cursor = c]
  <2>1. cursor \in Cursors
    BY <1>1 DEF Screens, Screen
  <2>2. o.x \in 0 .. Columns - 1 /\ o.y \in 0 .. Rows - 1
    BY ConsoleAssumption
  <2>3. Further(cursor.x, o.x) \in 0 .. Columns - 1 /\ Further(cursor.y, o.y) \in 0 .. Rows - 1
    BY <2>1, <2>2 DEF Further, Cursors
  <2>4. c \in Cursors
    BY <2>1, <2>2, <2>3 DEF Cursors
  <2>5. s \in Screens(Cursors)
    BY <1>1, <2>4 DEF Screens
  <2>6. QED
    BY <2>5, SoundLands, OperationInv
<1>8. QED
  BY <1>2, <1>3, <1>4, <1>5, <1>6, <1>7

(* Beginning a call, and returning from one that printed nothing.          *)
LEMMA CallsInv ==
  ASSUME IInv, console_set_foreground_color \/ console_write_line \/ printk \/ Suppressed
  PROVE  IInv'
<1>1. CallInv /\ foreground \in Colour /\ interrupts \in BOOLEAN
  BY DEF IInv, TypeOK
<1>2. CASE console_set_foreground_color
  <2>1. CallInv' /\ foreground' \in Colour /\ interrupts' \in BOOLEAN
    BY <1>1, <1>2, ConsoleAssumption DEF console_set_foreground_color, CallInv, Idle, Colour
  <2>2. QED
    BY <1>2, <2>1, CallOnlyInv DEF console_set_foreground_color
<1>3. CASE console_write_line
  <2>1. PICK t \in Texts : call' = [fn |-> "write_line", todo |-> t, before |-> interrupts]
    BY <1>3 DEF console_write_line
  <2>2. t \in Seq(Codes)
    BY ConsoleAssumption
  <2>3. CallInv'
    BY <1>1, <2>1, <2>2 DEF CallInv, Calls
  <2>4. QED
    BY <1>1, <1>3, <2>3, CallOnlyInv DEF console_write_line
<1>4. CASE printk
  <2>1. PICK level \in Levels :
          call' = [fn |-> "printk", level |-> level, before |-> interrupts, colour |-> foreground]
    BY <1>4 DEF printk
  <2>2. level \in 0 .. 9
    BY ConsoleAssumption
  <2>3. CallInv'
    BY <1>1, <1>4, <2>1, <2>2 DEF CallInv, Calls, printk
  <2>4. QED
    BY <1>1, <1>4, <2>3, CallOnlyInv DEF printk
<1>5. CASE Suppressed
  <2>1. call.before \in BOOLEAN
    BY <1>1, <1>5, CallFields DEF Suppressed
  <2>2. CallInv'
    BY <1>5 DEF Suppressed, CallInv, Calls, Idle
  <2>3. QED
    BY <1>1, <1>5, <2>1, <2>2, CallOnlyInv DEF Suppressed
<1>6. QED
  BY <1>2, <1>3, <1>4, <1>5

(* An unknown level panics, a known one chooses the colour.                *)
LEMMA LevelInv == ASSUME IInv, set_level_formatting PROVE IInv'
<1>1. /\ ScreenInv /\ RestInv /\ CallInv /\ call.fn = "printk"
      /\ call.before \in BOOLEAN /\ call.colour \in Colour
  BY InvParts, CallFields DEF set_level_formatting
<1>2. CASE call.level \in {0, 1, 8, 9}
  <2>1. /\ foreground' = ColourOf(call.level) /\ UNCHANGED <<screen, interrupts, debug, copies>>
        /\ \E t \in Texts : call' = [fn |-> "do_print", todo |-> t,
                                     before |-> call.before, colour |-> call.colour]
    BY <1>2 DEF set_level_formatting, screen
  <2>2. foreground' \in Colour
    BY <1>2, <2>1 DEF ColourOf, Colour
  <2>3. CallInv'
    BY <1>1, <2>1, ConsoleAssumption DEF CallInv, Calls
  <2>4. interrupts' \in BOOLEAN
    BY <1>1, <2>1 DEF RestInv
  <2>5. QED
    BY <2>1, <2>2, <2>3, <2>4, CallOnlyInv
<1>3. CASE call.level \notin {0, 1, 8, 9}
  <2>1. /\ down' = "panic"
        /\ UNCHANGED <<buffer, cursor, shown, extent, foreground, call, interrupts, debug, copies>>
    BY <1>3 DEF set_level_formatting
  <2>2. ScreenInv' /\ RestInv' /\ CallInv'
    BY <1>1, <2>1 DEF ScreenInv, RestInv, CallInv
  <2>3. QED
    BY <2>2, InvPartsNext
<1>4. QED
  BY <1>2, <1>3

(* The loop of console_write_string.                                       *)
LEMMA NextCharInv == ASSUME IInv, NextChar PROVE IInv'
<1>1. /\ RestInv /\ CallInv /\ call.todo # <<>>
      /\ Becomes(console_write_char(Screen, Head(call.todo)))
      /\ call' = [call EXCEPT !.todo = Tail(@)]
      /\ UNCHANGED <<foreground, interrupts, debug, copies>>
  BY InvParts DEF NextChar
<1>2. call.todo \in Seq(Codes)
  BY <1>1, CallFields DEF NextChar
<1>3. Head(call.todo) \in Codes /\ Tail(call.todo) \in Seq(Codes)
  BY <1>1, <1>2
<1>4. Screen \in Screens(Cursors)
  BY ScreenType DEF IInv, NextChar
<1>5. ScreenInv'
  BY <1>1, <1>3, <1>4, WriteCharType, BecomesSound
<1>6. CASE call.fn = "write_line"
  <2>1. call = [fn |-> "write_line", todo |-> call.todo, before |-> call.before] /\ call.before \in BOOLEAN
    BY <1>1, <1>6, CallFields
  <2>2. call' = [fn |-> "write_line", todo |-> Tail(call.todo), before |-> call.before]
    BY <1>1, <2>1
  <2>3. CallInv'
    BY <1>3, <2>1, <2>2 DEF CallInv, Calls
  <2>4. QED
    BY <1>1, <1>5, <2>3, InvPartsNext DEF RestInv
<1>7. CASE call.fn = "do_print"
  <2>1. /\ call = [fn |-> "do_print", todo |-> call.todo, before |-> call.before, colour |-> call.colour]
        /\ call.before \in BOOLEAN /\ call.colour \in Colour
    BY <1>1, <1>7, CallFields
  <2>2. PICK r \in Seq(Codes), b \in BOOLEAN, k \in Colour :
          call = [fn |-> "do_print", todo |-> r, before |-> b, colour |-> k]
    BY <1>2, <2>1
  <2>3. call' = [fn |-> "do_print", todo |-> Tail(call.todo), before |-> b, colour |-> k]
    BY <1>1, <2>2
  <2>4. CallInv'
    BY <1>3, <2>2, <2>3 DEF CallInv, Calls
  <2>5. QED
    BY <1>1, <1>5, <2>4, InvPartsNext DEF RestInv
<1>8. QED
  BY <1>6, <1>7 DEF NextChar

(* The ends of printk and console_write_line.                              *)
LEMMA EndsInv == ASSUME IInv, EndPrint \/ EndLine PROVE IInv'
<1>1. ScreenInv /\ RestInv /\ CallInv
  BY InvParts
<1>2. CASE EndPrint
  <2>1. call.before \in BOOLEAN /\ call.colour \in Colour
    BY <1>1, <1>2, CallFields DEF EndPrint
  <2> DEFINE s == console_update_cursor(Screen)
  <2>2. s \in Screens(Cursors)
    BY <1>2, ScreenType, UpdateType DEF IInv, EndPrint
  <2> HIDE DEF s
  <2>3. CASE Becomes([s EXCEPT !.down = "panic"]) /\ UNCHANGED <<foreground, interrupts, call>>
    <3>1. [s EXCEPT !.down = "panic"] \in Screens(Cursors)
      BY <2>2 DEF Screens
    <3>2. ScreenInv'
      BY <2>3, <3>1, SoundLands, BecomesSound
    <3>3. RestInv' /\ CallInv'
      BY <1>1, <1>2, <2>3 DEF RestInv, CallInv, EndPrint
    <3>4. QED
      BY <3>2, <3>3, InvPartsNext
  <2>4. CASE Becomes(s) /\ Return
    <3>1. ScreenInv'
      BY <2>2, <2>4, SoundLands, BecomesSound
    <3>2. RestInv' /\ CallInv'
      BY <1>1, <1>2, <2>1, <2>4 DEF RestInv, CallInv, Calls, Return, EndPrint, Idle
    <3>3. QED
      BY <3>1, <3>2, InvPartsNext
  <2>5. QED
    BY <1>2, <2>3, <2>4 DEF EndPrint, s
<1>3. CASE EndLine
  <2>1. call.before \in BOOLEAN
    BY <1>1, <1>3, CallFields DEF EndLine
  <2>2. console_update_cursor(Screen) \in Screens(Cursors)
    BY <1>3, ScreenType, UpdateType DEF IInv, EndLine
  <2>3. Landed(console_write_char(console_update_cursor(Screen), 10)) => ScreenInv'
    BY <1>3, BecomesSound DEF EndLine
  <2>4. RestInv' /\ CallInv'
    BY <1>1, <1>3, <2>1 DEF RestInv, CallInv, Calls, EndLine, Idle
  <2>5. QED
    BY <2>2, <2>3, <2>4, InvPartsNext, WriteCharType
<1>4. QED
  BY <1>2, <1>3

(* Every step keeps the invariant.                                         *)
LEMMA StepInv == IInv /\ [Next]_vars => IInv'
<1> SUFFICES ASSUME IInv, [Next]_vars PROVE IInv'
  OBVIOUS
<1>1. CASE UNCHANGED vars
  BY <1>1 DEF IInv, TypeOK, WritesInWindow, CallInv, vars
<1>2. CASE Next
  BY <1>2, OperationsInv, CallsInv, LevelInv, NextCharInv, EndsInv DEF Next
<1>3. QED
  BY <1>1, <1>2

(* The invariant holds of the specification.                               *)
LEMMA InvHolds == Spec => []IInv
<1>1. QED
  BY InitInv, StepInv, PTL DEF Spec

(* The cursor never leaves the screen, whatever is written, for a screen   *)
(* of any size with its origin anywhere (console.c:90-126).                *)
THEOREM TypeCorrect == Spec => []TypeOK
<1>1. IInv => TypeOK
  BY DEF IInv
<1>2. QED
  BY <1>1, InvHolds, PTL

(* Scrolling and clearing never write more than one screen behind the      *)
(* visible one, although they take cells off a count of bytes              *)
(* (console.c:152,179).                                                    *)
THEOREM WindowKept == Spec => []WritesInWindow
<1>1. IInv => WritesInWindow
  BY DEF IInv
<1>2. QED
  BY <1>1, InvHolds, PTL
---------------------------------------------------------------------------
(* What a return from a call restores, as an action.                       *)
Restored ==
  call # Idle /\ call' = Idle =>
    /\ interrupts' = call.before
    /\ call.fn \in {"printk", "do_print"} => foreground' = call.colour
    /\ call.fn = "do_print" => shown' \in {-1, Index(cursor')}

(* No other step than the returns ends a call, and each of them restores.  *)
LEMMA StepRestores == IInv /\ [Next]_vars => [Restored]_vars
<1> SUFFICES ASSUME IInv, Next, call # Idle, call' = Idle
             PROVE  /\ interrupts' = call.before
                    /\ call.fn \in {"printk", "do_print"} => foreground' = call.colour
                    /\ call.fn = "do_print" => shown' \in {-1, Index(cursor')}
  BY DEF Restored
<1>1. CallInv
  BY DEF IInv
<1>2. ~Operation /\ ~console_set_foreground_color /\ ~console_write_line /\ ~printk
  BY DEF Operation, console_set_foreground_color, console_write_line, printk
<1>3. ~(WriteChar \/ Scroll \/ Clear \/ console_set_cursor_mode \/ console_set_cursor \/ console_set_origin)
  BY <1>2 DEF WriteChar, Scroll, Clear, console_set_cursor_mode, console_set_cursor, console_set_origin
<1>4. call'.fn = "none"
  BY DEF Idle
<1>5. ~set_level_formatting
  BY <1>4 DEF set_level_formatting
<1>6. ~NextChar
  <2> SUFFICES ASSUME NextChar PROVE FALSE
    OBVIOUS
  <2>1. call.fn \in {"do_print", "write_line"} /\ call' = [call EXCEPT !.todo = Tail(@)]
    BY DEF NextChar
  <2>2. call'.fn = call.fn
    <3>1. \E r, b, k : \/ call = [fn |-> "write_line", todo |-> r, before |-> b]
                       \/ call = [fn |-> "do_print", todo |-> r, before |-> b, colour |-> k]
      BY <1>1, <2>1, CallFields
    <3>2. QED
      BY <2>1, <3>1
  <2>3. QED
    BY <1>4, <2>1, <2>2
<1>7. CASE Suppressed
  BY <1>1, <1>7, CallFields DEF Suppressed
<1>8. CASE EndPrint
  <2>1. Return /\ Becomes(console_update_cursor(Screen))
    BY <1>8 DEF EndPrint
  <2>2. console_update_cursor(Screen).shown \in {-1, Index(console_update_cursor(Screen).cursor)}
    BY DEF console_update_cursor, Screen
  <2>3. QED
    BY <2>1, <2>2 DEF Return, Becomes
<1>9. CASE EndLine
  BY <1>9 DEF EndLine
<1>10. QED
  BY <1>2, <1>3, <1>5, <1>6, <1>7, <1>8, <1>9 DEF Next

(* printk and console_write_line give back the interrupt flag, and printk  *)
(* the colour and a cursor in the right place, on every path               *)
(* (printk.c:82-107).                                                      *)
THEOREM CallsRestore == Spec => PrintkRestores
<1>1. IInv /\ [Next]_vars => [Restored]_vars
  BY StepRestores
<1>2. Spec => [][Restored]_vars
  BY <1>1, InvHolds, PTL DEF Spec
<1>3. QED
  BY <1>2 DEF PrintkRestores, Restored

-----------------------------------------------------------------------------
(***************************************************************************)
(* With no margin on the left and a copy that works, the console is the    *)
(* terminal of Terminal: every step of Console is a step of Terminal or    *)
(* leaves it as it is, for screens of every size.                          *)
(***************************************************************************)
\* The rows of the screen in a frame buffer: the mapping of IsTerminal.
RowsOf(b) == [y \in 0 .. Rows - 1 |-> [x \in 0 .. Columns - 1 |-> b[y * Columns + x]]]
---------------------------------------------------------------------------
(* Cells and rows.                                                         *)

(* A row begins behind the rows above it.                                  *)
LEMMA RowsAscend == ASSUME NEW y \in 0 .. Rows - 1, NEW z \in 0 .. Rows - 1, y < z
                    PROVE  y * Columns + Columns <= z * Columns
<1>1. Columns \in Nat /\ y + 1 \in Nat /\ z \in Nat /\ y + 1 <= z /\ y \in Int
  BY ConsoleAssumption
<1>2. (y + 1) * Columns <= z * Columns
  BY <1>1, ProductGrows
<1>3. (y + 1) * Columns = y * Columns + Columns
  BY <1>1, NextRow
<1>4. QED
  BY <1>2, <1>3

(* Two cells are one if they are in one row and one column.                *)
LEMMA CellsDiffer ==
  ASSUME NEW y \in 0 .. Rows - 1, NEW x \in 0 .. Columns - 1,
         NEW z \in 0 .. Rows - 1, NEW u \in 0 .. Columns - 1
  PROVE  y * Columns + x = z * Columns + u <=> y = z /\ x = u
<1>1. Columns \in Nat \ {0} /\ y * Columns \in Nat /\ z * Columns \in Nat
  BY ConsoleAssumption, RowInScreen
<1>2. CASE y < z
  BY <1>1, <1>2, RowsAscend
<1>3. CASE z < y
  BY <1>1, <1>3, RowsAscend
<1>4. CASE y = z
  BY <1>1, <1>4
<1>5. y \in Int /\ z \in Int
  BY ConsoleAssumption
<1>6. QED
  BY <1>2, <1>3, <1>4, <1>5

(* A cell of the screen is a cell of the buffer.                           *)
LEMMA CellInBuffer ==
  ASSUME NEW y \in 0 .. Rows - 1, NEW x \in 0 .. Columns - 1
  PROVE  y * Columns + x \in 0 .. Cells - 1 /\ y * Columns + x \in 0 .. 2 * Cells - 1
  BY RowInScreen, CellsPositive, ConsoleAssumption

(* A store into the buffer is a store into a row.                          *)
LEMMA PutRows ==
  ASSUME NEW b \in Buffers, NEW y \in 0 .. Rows - 1, NEW x \in 0 .. Columns - 1, NEW ch
  PROVE  RowsOf([b EXCEPT ![y * Columns + x] = ch]) = [RowsOf(b) EXCEPT ![y][x] = ch]
<1> DEFINE v == [b EXCEPT ![y * Columns + x] = ch]
<1>1. ASSUME NEW z \in 0 .. Rows - 1, NEW u \in 0 .. Columns - 1
      PROVE  v[z * Columns + u] = IF z = y /\ u = x THEN ch ELSE b[z * Columns + u]
  BY CellsDiffer, CellInBuffer DEF Buffers
<1>2. RowsOf(v) = [z \in 0 .. Rows - 1 |-> [u \in 0 .. Columns - 1 |->
                     IF z = y /\ u = x THEN ch ELSE b[z * Columns + u]]]
  BY <1>1 DEF RowsOf
<1>3. [RowsOf(b) EXCEPT ![y][x] = ch]
        = [z \in 0 .. Rows - 1 |-> [u \in 0 .. Columns - 1 |->
             IF z = y /\ u = x THEN ch ELSE b[z * Columns + u]]]
  BY DEF RowsOf
<1>4. QED
  BY <1>2, <1>3

(* The copy and the blank line of a scroll, cell by cell: what comes from  *)
(* behind the screen is never in it.                                       *)
LEMMA ScrolledCell ==
  ASSUME NEW b \in Buffers, NEW c \in WrappedCursors, c.x_origin = 0,
         NEW y \in 0 .. Rows - 1, NEW x \in 0 .. Columns - 1
  PROVE  /\ y = Rows - 1 => ScrollOf(b, c)[y * Columns + x] = Blank
         /\ y < Rows - 1 /\ y < c.y_origin => ScrollOf(b, c)[y * Columns + x] = b[y * Columns + x]
         /\ y < Rows - 1 /\ y >= c.y_origin => ScrollOf(b, c)[y * Columns + x] = b[(y + 1) * Columns + x]
<1> DEFINE i == y * Columns + x
           o == c.y_origin * Columns
           first == (Rows - 1) * Columns
<1>1. /\ Columns \in Nat \ {0} /\ Rows \in Nat \ {0} /\ Cells \in Nat /\ Columns <= Cells
      /\ c.y_origin \in 0 .. Rows - 1 /\ y \in Nat /\ Rows - 1 \in 0 .. Rows - 1
  BY ConsoleAssumption, CellsPositive, WrappedParts
<1>2. i \in 0 .. Cells - 1 /\ i \in DOMAIN b /\ y * Columns \in Nat
  BY CellInBuffer, RowInScreen DEF Buffers
<1>3. first = Cells - Columns
  BY <1>1, CellsPositive, RowBefore
<1>4. o \in Nat /\ o + Columns <= Cells /\ ORIGIN(c) = o
  <2>1. c.y_origin * Columns \in Nat /\ c.y_origin * Columns + Columns <= Cells
    BY <1>1, RowInScreen
  <2>2. QED
    BY <2>1 DEF ORIGIN
<1>5. ScrollOf(b, c) = FillOf(MoveOf(b, o), first, Columns)
  <2>1. first + 0 = first /\ Columns - 0 = Columns
    BY <1>1, <1>3
  <2>2. QED
    BY <1>4, <2>1 DEF ScrollOf
<1>6. MoveEnd(o) \in Int /\ MoveEnd(o) >= Cells - Columns
  BY <1>1, <1>4 DEF MoveEnd
<1>7. ScrollOf(b, c)[i] = IF i \in first .. first + Columns - 1 THEN Blank ELSE MoveOf(b, o)[i]
  BY <1>2, <1>5 DEF FillOf, MoveOf
<1>8. MoveOf(b, o)[i] = IF i >= o /\ i < MoveEnd(o) THEN b[i + Columns] ELSE b[i]
  BY <1>2 DEF MoveOf
<1>9. CASE y = Rows - 1
  <2>1. i = first + x
    BY <1>9
  <2>2. i \in first .. first + Columns - 1
    BY <1>1, <1>3, <2>1
  <2>3. QED
    BY <1>1, <1>7, <1>9, <2>2
<1>10. CASE y < Rows - 1
  <2>1. y * Columns + Columns <= first
    BY <1>1, <1>10, RowsAscend
  <2>2. i < first
    BY <1>1, <1>2, <1>3, <2>1
  <2>3. ScrollOf(b, c)[i] = MoveOf(b, o)[i] /\ i < MoveEnd(o)
    BY <1>1, <1>2, <1>3, <1>6, <1>7, <2>2
  <2>4. CASE y < c.y_origin
    <3>1. y * Columns + Columns <= o
      BY <1>1, <2>4, RowsAscend
    <3>2. ~(i >= o)
      BY <1>1, <1>2, <1>4, <3>1
    <3>3. QED
      BY <1>1, <1>8, <1>10, <2>3, <2>4, <3>2
  <2>5. CASE y >= c.y_origin
    <3>1. o <= y * Columns
      BY <1>1, <2>5, ProductGrows
    <3>2. i >= o
      BY <1>1, <1>2, <1>4, <3>1
    <3>3. (y + 1) * Columns = y * Columns + Columns
      BY <1>1, NextRow
    <3>4. i + Columns = (y + 1) * Columns + x
      BY <1>1, <1>2, <3>3
    <3>5. QED
      BY <1>1, <1>8, <1>10, <2>3, <2>5, <3>2, <3>4
  <2>6. QED
    BY <1>1, <2>4, <2>5
<1>11. QED
  BY <1>1, <1>9, <1>10

(* Clearing blanks the rows from the origin on.                            *)
LEMMA ClearedCell ==
  ASSUME NEW b \in Buffers, NEW c \in Cursors, c.x_origin = 0,
         NEW y \in 0 .. Rows - 1, NEW x \in 0 .. Columns - 1
  PROVE  FillOf(b, ORIGIN(c), 2 * Cells - ORIGIN(c))[y * Columns + x]
           = IF y < c.y_origin THEN b[y * Columns + x] ELSE Blank
<1> DEFINE i == y * Columns + x
           o == c.y_origin * Columns
<1>1. /\ Columns \in Nat \ {0} /\ Cells \in Nat /\ c.y_origin \in 0 .. Rows - 1 /\ Rows \in Nat
      /\ y \in Nat
  BY ConsoleAssumption, CellsPositive DEF Cursors
<1>2. i \in 0 .. Cells - 1 /\ i \in DOMAIN b /\ y * Columns \in Nat
  BY CellInBuffer, RowInScreen DEF Buffers
<1>3. o \in Nat /\ ORIGIN(c) = o
  <2>1. c.y_origin * Columns \in Nat
    BY <1>1, RowInScreen
  <2>2. QED
    BY <2>1 DEF ORIGIN
<1>4. FillOf(b, o, 2 * Cells - o)[i] = IF i \in o .. o + (2 * Cells - o) - 1 THEN Blank ELSE b[i]
  BY <1>2 DEF FillOf
<1>5. CASE y < c.y_origin
  <2>1. y * Columns + Columns <= o
    BY <1>1, <1>5, RowsAscend
  <2>2. i \notin o .. o + (2 * Cells - o) - 1
    BY <1>1, <1>2, <1>3, <2>1
  <2>3. QED
    BY <1>3, <1>4, <1>5, <2>2
<1>6. CASE ~(y < c.y_origin)
  <2>1. o <= y * Columns
    BY <1>1, <1>6, ProductGrows
  <2>2. i \in o .. o + (2 * Cells - o) - 1
    BY <1>1, <1>2, <1>3, <2>1
  <2>3. QED
    BY <1>3, <1>4, <1>6, <2>2
<1>7. QED
  BY <1>5, <1>6
---------------------------------------------------------------------------
(* What the functions of the console do to the rows.                       *)

\* The rows from top on move up, and the last is blank.
NoText == [x \in 0 .. Columns - 1 |-> Blank]
RolledRow(r, top, y) ==
  IF y < top THEN r[y] ELSE IF y < Rows - 1 THEN r[y + 1] ELSE NoText
RolledUp(r, top) == [y \in 0 .. Rows - 1 |-> RolledRow(r, top, y)]

(* A scroll of the buffer rolls the rows up.                               *)
LEMMA ScrollRows ==
  ASSUME NEW b \in Buffers, NEW c \in WrappedCursors, c.x_origin = 0
  PROVE  RowsOf(ScrollOf(b, c)) = RolledUp(RowsOf(b), c.y_origin)
<1> DEFINE w == ScrollOf(b, c)
           top == c.y_origin
           r == RowsOf(b)
<1>1. top \in 0 .. Rows - 1 /\ Rows \in Nat \ {0}
  BY WrappedParts, ConsoleAssumption
<1>2. ASSUME NEW y \in 0 .. Rows - 1, NEW x \in 0 .. Columns - 1
      PROVE  /\ y = Rows - 1 => w[y * Columns + x] = Blank
             /\ y < top => w[y * Columns + x] = b[y * Columns + x]
             /\ y < Rows - 1 /\ y >= top => w[y * Columns + x] = b[(y + 1) * Columns + x]
  BY <1>1, ScrolledCell
<1>3. ASSUME NEW y \in 0 .. Rows - 1
      PROVE  r[y] = [x \in 0 .. Columns - 1 |-> b[y * Columns + x]]
  BY DEF RowsOf
<1> HIDE DEF w, top, r
<1>4. ASSUME NEW y \in 0 .. Rows - 1
      PROVE  [x \in 0 .. Columns - 1 |-> w[y * Columns + x]] = RolledRow(r, top, y)
  <2>1. CASE y < top
    <3>1. \A x \in 0 .. Columns - 1 : w[y * Columns + x] = b[y * Columns + x]
      BY <1>2, <2>1
    <3>2. RolledRow(r, top, y) = r[y]
      BY <2>1 DEF RolledRow
    <3>3. [x \in 0 .. Columns - 1 |-> w[y * Columns + x]]
            = [x \in 0 .. Columns - 1 |-> b[y * Columns + x]]
      BY <3>1
    <3>4. QED
      BY <1>3, <3>2, <3>3, Zenon
  <2>2. CASE y >= top /\ y < Rows - 1
    <3>1. y + 1 \in 0 .. Rows - 1 /\ ~(y < top)
      BY <1>1, <2>2
    <3>2. RolledRow(r, top, y) = r[y + 1]
      BY <2>2, <3>1 DEF RolledRow
    <3>3. \A x \in 0 .. Columns - 1 : w[y * Columns + x] = b[(y + 1) * Columns + x]
      BY <1>2, <2>2
    <3>4. [x \in 0 .. Columns - 1 |-> w[y * Columns + x]]
            = [x \in 0 .. Columns - 1 |-> b[(y + 1) * Columns + x]]
      BY <3>3
    <3>5. QED
      BY <1>3, <3>1, <3>2, <3>4, Zenon
  <2>3. CASE y = Rows - 1
    <3>1. \A x \in 0 .. Columns - 1 : w[y * Columns + x] = Blank
      BY <1>2, <2>3
    <3>2. ~(y < top) /\ ~(y < Rows - 1)
      BY <1>1, <2>3
    <3>3. RolledRow(r, top, y) = NoText
      BY <3>2 DEF RolledRow
    <3>4. QED
      BY <3>1, <3>3 DEF NoText
  <2>4. QED
    BY <1>1, <2>1, <2>2, <2>3
<1>5. RowsOf(w) = RolledUp(r, top)
  BY <1>4 DEF RowsOf, RolledUp
<1>6. QED
  BY <1>5 DEF w, r, top

(* Clearing leaves the rows above the origin and blanks the others.        *)
LEMMA ClearRows ==
  ASSUME NEW b \in Buffers, NEW c \in Cursors, c.x_origin = 0
  PROVE  RowsOf(FillOf(b, ORIGIN(c), 2 * Cells - ORIGIN(c)))
           = [y \in 0 .. Rows - 1 |-> IF y < c.y_origin THEN RowsOf(b)[y] ELSE NoText]
<1> DEFINE w == FillOf(b, ORIGIN(c), 2 * Cells - ORIGIN(c))
<1>1. \A y \in 0 .. Rows - 1, x \in 0 .. Columns - 1 :
        w[y * Columns + x] = IF y < c.y_origin THEN b[y * Columns + x] ELSE Blank
  BY ClearedCell
<1> HIDE DEF w
<1>2. \A y \in 0 .. Rows - 1 :
        [x \in 0 .. Columns - 1 |-> w[y * Columns + x]]
          = IF y < c.y_origin THEN RowsOf(b)[y] ELSE NoText
  <2> SUFFICES ASSUME NEW y \in 0 .. Rows - 1
               PROVE  [x \in 0 .. Columns - 1 |-> w[y * Columns + x]]
                        = IF y < c.y_origin THEN RowsOf(b)[y] ELSE NoText
    OBVIOUS
  <2>1. RowsOf(b)[y] = [x \in 0 .. Columns - 1 |-> b[y * Columns + x]]
    BY DEF RowsOf
  <2>2. CASE y < c.y_origin
    BY <1>1, <2>1, <2>2
  <2>3. CASE ~(y < c.y_origin)
    BY <1>1, <2>3 DEF NoText
  <2>4. QED
    BY <2>2, <2>3
<1>3. RowsOf(w) = [y \in 0 .. Rows - 1 |-> IF y < c.y_origin THEN RowsOf(b)[y] ELSE NoText]
  BY <1>2 DEF RowsOf
<1>4. QED
  BY <1>3 DEF w
---------------------------------------------------------------------------
(* Steps of the terminal.                                                  *)

\* The screen t shows the rows r with the cursor sent to column i of row j.
Lands(r, top, i, j, t) ==
  LET down_to == IF i >= Columns THEN j + 1 ELSE j IN
  /\ RowsOf(t.buffer) = (IF down_to >= Rows THEN RolledUp(r, top) ELSE r)
  /\ t.cursor.x = (IF i >= Columns THEN 0 ELSE i)
  /\ t.cursor.y = (IF down_to >= Rows THEN Rows - 1 ELSE down_to)
  /\ t.cursor.x_origin = 0 /\ t.cursor.y_origin = top

(* The terminal scrolls as the console does.                               *)
LEMMA ScrolledIsRolledUp ==
  ASSUME NEW r, DOMAIN r = 0 .. Rows - 1, cursor.y_origin \in 0 .. Rows - 1
  PROVE  T!Scrolled(r) = RolledUp(r, cursor.y_origin)
<1> DEFINE top == cursor.y_origin
           row(y) == CASE y < top                  -> r[y]
                       [] y >= top /\ y < Rows - 1 -> r[y + 1]
                       [] y = Rows - 1             -> NoText
<1>1. Rows \in Nat \ {0}
  BY ConsoleAssumption
<1>2. T!Scrolled(r) = [y \in 0 .. Rows - 1 |-> row(y)]
  BY DEF T!Scrolled, T!BlankRow, NoText
<1>3. ASSUME NEW y \in 0 .. Rows - 1 PROVE row(y) = RolledRow(r, top, y)
  <2>1. CASE y < top
    BY <1>1, <2>1 DEF RolledRow
  <2>2. CASE y >= top /\ y < Rows - 1
    BY <1>1, <2>2 DEF RolledRow
  <2>3. CASE y >= top /\ y = Rows - 1
    BY <1>1, <2>3 DEF RolledRow
  <2>4. QED
    BY <1>1, <2>1, <2>2, <2>3
<1> HIDE DEF row
<1>4. [y \in 0 .. Rows - 1 |-> row(y)] = [y \in 0 .. Rows - 1 |-> RolledRow(r, top, y)]
  BY <1>3
<1>5. QED
  BY <1>2, <1>4 DEF RolledUp

(* Where a character that is typed leaves the rows and the cursor.         *)
LEMMA WriteCharLands ==
  ASSUME NEW s \in Screens(Cursors), NEW ch \in Codes \union {10}, s.cursor.x_origin = 0,
         console_write_char(s, ch).down # "lost"
  PROVE  \E v \in Buffers, i \in Nat, j \in Nat :
           /\ TypedTo(s.buffer, s.cursor.x, s.cursor.y, 0, ch, v, i, j)
           /\ Lands(RowsOf(v), s.cursor.y_origin, i, j, console_write_char(s, ch))
<1> DEFINE c == s.cursor
           z == console_write_char(s, ch)
<1>1. /\ c.x \in 0 .. Columns - 1 /\ c.y \in 0 .. Rows - 1 /\ c.y_origin \in 0 .. Rows - 1
      /\ c.mode \in Mode /\ Columns \in Nat \ {0} /\ Rows \in Nat \ {0}
  <2>1. c \in Cursors
    BY ScreenParts
  <2>2. QED
    BY <2>1, ConsoleAssumption DEF Cursors
<1> PICK v \in Buffers, w \in 0 .. 2 * Cells, i \in Nat, j \in Nat, x \in 0 .. Columns - 1, y \in Nat :
      LET t == Make(v, Point(x, y, c.x_origin, c.y_origin, c.mode), s.shown, w, s.down)
      IN  /\ TypedTo(s.buffer, c.x, c.y, c.x_origin, ch, v, i, j)
          /\ x = (IF i >= Columns THEN c.x_origin ELSE i) /\ y = (IF i >= Columns THEN j + 1 ELSE j)
          /\ t \in Screens(WrappedCursors)
          /\ z = IF y >= Rows THEN console_scroll(t) ELSE t
  BY WriteCharIsMade
<1> DEFINE p == Point(x, y, c.x_origin, c.y_origin, c.mode)
           t == Make(v, p, s.shown, w, s.down)
<1>2. /\ TypedTo(s.buffer, c.x, c.y, 0, ch, v, i, j)
      /\ x = (IF i >= Columns THEN 0 ELSE i) /\ y = (IF i >= Columns THEN j + 1 ELSE j)
      /\ t \in Screens(WrappedCursors)
      /\ z = IF y >= Rows THEN console_scroll(t) ELSE t
  OBVIOUS
<1>3. t.buffer = v /\ t.cursor = p /\ p.x = x /\ p.y = y /\ p.x_origin = 0 /\ p.y_origin = c.y_origin
      /\ p.mode = c.mode
  BY DEF Make, Point
<1>4. CASE ~(y >= Rows)
  <2>1. z = t
    BY <1>2, <1>4
  <2>2. Lands(RowsOf(v), c.y_origin, i, j, z)
    BY <1>2, <1>3, <1>4, <2>1 DEF Lands
  <2>3. QED
    BY <1>2, <2>2
<1>5. CASE y >= Rows
  <2>1. z = console_scroll(t)
    BY <1>2, <1>5
  <2>2. copies # "actual"
    <3> SUFFICES ASSUME copies = "actual" PROVE FALSE
      OBVIOUS
    <3>1. console_scroll(t) = [t EXCEPT !.down = "lost"]
      BY DEF console_scroll
    <3>2. [t EXCEPT !.down = "lost"].down = "lost"
      BY DEF Make
    <3>3. QED
      BY <2>1, <3>1, <3>2
  <2>3. x = 0
    <3>1. CASE i >= Columns
      BY <1>2, <3>1
    <3>2. CASE ~(i >= Columns)
      <4>1. y = j
        BY <1>2, <3>2
      <4>2. j # c.y
        BY <1>1, <1>5, <4>1
      <4>3. ch = 10
        BY <1>2, <4>2 DEF TypedTo
      <4>4. QED
        BY <1>1, <1>2, <3>2, <4>3 DEF TypedTo
    <3>3. QED
      BY <3>1, <3>2
  <2> HIDE DEF t, p
  <2>4. \E e \in 0 .. 2 * Cells :
          console_scroll(t) = Make(ScrollOf(t.buffer, t.cursor), ScrollPoint(t.cursor),
                                   Place(ScrollPoint(t.cursor)), e, t.down)
    BY <1>2, <2>2, ScrollIsMade
  <2>5. /\ console_scroll(t).buffer = ScrollOf(v, p)
        /\ console_scroll(t).cursor = ScrollPoint(p)
    BY <1>3, <2>4 DEF Make
  <2>6. p \in WrappedCursors
    BY <1>2, <1>3, ScreenParts
  <2>7. RowsOf(z.buffer) = RolledUp(RowsOf(v), c.y_origin)
    BY <1>3, <2>1, <2>5, <2>6, ScrollRows
  <2>8. /\ z.cursor.x = 0 /\ z.cursor.y = Rows - 1
        /\ z.cursor.x_origin = 0 /\ z.cursor.y_origin = c.y_origin
    BY <1>3, <2>1, <2>5 DEF ScrollPoint, Point
  <2>9. Lands(RowsOf(v), c.y_origin, i, j, z)
    <3>1. 0 = (IF i >= Columns THEN 0 ELSE i)
      BY <1>2, <2>3
    <3>2. (IF i >= Columns THEN j + 1 ELSE j) >= Rows
      BY <1>2, <1>5
    <3>3. QED
      BY <2>7, <2>8, <3>1, <3>2 DEF Lands
  <2>10. QED
    BY <1>2, <2>9
<1>6. QED
  BY <1>4, <1>5

(* A character that is written is a step of the terminal, or nothing that  *)
(* it shows.                                                               *)
LEMMA WriteCharStep ==
  ASSUME NEW s \in Screens(Cursors), s.buffer = buffer, s.cursor = cursor, cursor.x_origin = 0,
         NEW ch \in Codes \union {10}, Becomes(console_write_char(s, ch)), down' # "lost"
  PROVE  T!Next \/ UNCHANGED T!tvars
<1> DEFINE z == console_write_char(s, ch)
<1>1. /\ cursor \in Cursors /\ buffer \in Buffers
      /\ Columns \in Nat \ {0} /\ Rows \in Nat \ {0} /\ TabSize \in Nat \ {0}
  BY ScreenParts, ConsoleAssumption
<1>2. cursor.x \in 0 .. Columns - 1 /\ cursor.y \in 0 .. Rows - 1 /\ cursor.y_origin \in 0 .. Rows - 1
  BY <1>1 DEF Cursors
<1>3. z.down # "lost"
  BY DEF Becomes
<1>4. \E v \in Buffers, i \in Nat, j \in Nat :
         /\ TypedTo(s.buffer, s.cursor.x, s.cursor.y, 0, ch, v, i, j)
         /\ Lands(RowsOf(v), s.cursor.y_origin, i, j, z)
  BY <1>3, WriteCharLands
<1> PICK v \in Buffers, i \in Nat, j \in Nat :
      /\ TypedTo(s.buffer, s.cursor.x, s.cursor.y, 0, ch, v, i, j)
      /\ Lands(RowsOf(v), s.cursor.y_origin, i, j, z)
  BY <1>4
<1>5. TypedTo(buffer, cursor.x, cursor.y, 0, ch, v, i, j) /\ Lands(RowsOf(v), cursor.y_origin, i, j, z)
  OBVIOUS
<1>6. DOMAIN RowsOf(v) = 0 .. Rows - 1
  BY DEF RowsOf
<1> HIDE DEF z
<1>7. /\ cursor'.x = (IF i >= Columns THEN cursor.x_origin ELSE i)
      /\ cursor'.y = (IF (IF i >= Columns THEN j + 1 ELSE j) >= Rows THEN Rows - 1
                      ELSE IF i >= Columns THEN j + 1 ELSE j)
      /\ RowsOf(buffer') = (IF (IF i >= Columns THEN j + 1 ELSE j) >= Rows THEN T!Scrolled(RowsOf(v)) ELSE RowsOf(v))
      /\ cursor'.x_origin = cursor.x_origin /\ cursor'.y_origin = cursor.y_origin
  <2>1. T!Scrolled(RowsOf(v)) = RolledUp(RowsOf(v), cursor.y_origin)
    BY <1>2, <1>6, ScrolledIsRolledUp
  <2>2. buffer' = z.buffer /\ cursor' = z.cursor
    BY DEF Becomes, z
  <2>3. QED
    BY <1>5, <2>1, <2>2 DEF Lands
<1>8. CASE ch = 8
  <2>1. v = buffer /\ i = (IF cursor.x > 0 THEN cursor.x - 1 ELSE 0) /\ j = cursor.y
    BY <1>2, <1>5, <1>8 DEF TypedTo
  <2>2. T!Scrolled(RowsOf(v)) = T!Scrolled(RowsOf(buffer))
    BY <2>1
  <2>3. T!Backspace
    BY <1>7, <2>1, <2>2 DEF T!Backspace, T!Advance, RowsOf
  <2>4. QED
    BY <2>3 DEF T!Next
<1>9. CASE ch = 10
  <2>1. v = buffer /\ i = cursor.x_origin /\ j = cursor.y + 1
    BY <1>5, <1>9 DEF TypedTo
  <2>2. T!Scrolled(RowsOf(v)) = T!Scrolled(RowsOf(buffer))
    BY <2>1
  <2>3. T!Newline
    BY <1>7, <2>1, <2>2 DEF T!Newline, T!Advance, RowsOf
  <2>4. QED
    BY <2>3 DEF T!Next
<1>10. CASE ch = 13
  <2>1. v = buffer /\ i = cursor.x_origin /\ j = cursor.y
    BY <1>5, <1>10 DEF TypedTo
  <2>2. T!Scrolled(RowsOf(v)) = T!Scrolled(RowsOf(buffer))
    BY <2>1
  <2>3. T!Return
    BY <1>7, <2>1, <2>2 DEF T!Return, T!Advance, RowsOf
  <2>4. QED
    BY <2>3 DEF T!Next
<1>11. CASE ch = 9
  <2>1. v = buffer /\ i = TabSize * ((cursor.x + TabSize) \div TabSize) /\ j = cursor.y
    BY <1>5, <1>11 DEF TypedTo
  <2>2. T!Scrolled(RowsOf(v)) = T!Scrolled(RowsOf(buffer))
    BY <2>1
  <2>3. T!Tab
    BY <1>7, <2>1, <2>2 DEF T!Tab, T!Advance, RowsOf
  <2>4. QED
    BY <2>3 DEF T!Next
<1>12. CASE ch \in C!PRINT
  <2>1. v = [buffer EXCEPT ![cursor.y * Columns + cursor.x] = ch] /\ i = cursor.x + 1 /\ j = cursor.y
    BY <1>5, <1>12 DEF TypedTo
  <2>2. RowsOf(v) = [RowsOf(buffer) EXCEPT ![cursor.y][cursor.x] = ch]
    <3>1. ASSUME NEW b \in Buffers, NEW y \in 0 .. Rows - 1, NEW x \in 0 .. Columns - 1,
                 b = buffer, y = cursor.y, x = cursor.x
          PROVE  RowsOf(v) = [RowsOf(buffer) EXCEPT ![cursor.y][cursor.x] = ch]
      <4>1. RowsOf([b EXCEPT ![y * Columns + x] = ch]) = [RowsOf(b) EXCEPT ![y][x] = ch]
        BY PutRows
      <4>2. v = [b EXCEPT ![y * Columns + x] = ch]
        BY <2>1, <3>1
      <4>3. QED
        BY <3>1, <4>1, <4>2
    <3>2. QED
      BY <1>1, <1>2, <3>1
  <2>3. ch \in Codes \intersect C!PRINT
    BY <1>12 DEF C!PRINT
  <2>4. T!Scrolled(RowsOf(v)) = T!Scrolled([RowsOf(buffer) EXCEPT ![cursor.y][cursor.x] = ch])
    BY <2>2
  <2>5. T!Put(ch)
    BY <1>7, <2>1, <2>2, <2>4 DEF T!Put, T!Advance, RowsOf
  <2>6. QED
    BY <2>3, <2>5 DEF T!Next
<1>13. CASE ch \notin C!PRINT \union {8, 9, 10, 13}
  <2>1. v = buffer /\ i = cursor.x /\ j = cursor.y
    BY <1>5, <1>13 DEF TypedTo
  <2>2. ~(i >= Columns) /\ ~(j >= Rows)
    BY <1>1, <1>2, <2>1
  <2>3. /\ RowsOf(z.buffer) = RowsOf(buffer) /\ z.cursor.x = cursor.x /\ z.cursor.y = cursor.y
        /\ z.cursor.x_origin = cursor.x_origin /\ z.cursor.y_origin = cursor.y_origin
    BY <1>5, <2>1, <2>2 DEF Lands
  <2>4. buffer' = z.buffer /\ cursor' = z.cursor
    BY DEF Becomes, z
  <2>5. QED
    BY <2>3, <2>4 DEF T!tvars, RowsOf
<1>14. QED
  BY <1>8, <1>9, <1>10, <1>11, <1>12, <1>13
---------------------------------------------------------------------------
(* The other operations.                                                   *)

(* While the machine runs, its screen and the parts of it.                 *)
LEMMA RunningScreen ==
  ASSUME IInv, Running
  PROVE  /\ Screen \in Screens(Cursors) /\ Screen.buffer = buffer /\ Screen.cursor = cursor
         /\ buffer \in Buffers /\ cursor \in Cursors /\ cursor.y_origin \in 0 .. Rows - 1
         /\ DOMAIN RowsOf(buffer) = 0 .. Rows - 1
<1>1. Screen \in Screens(Cursors)
  BY ScreenType DEF IInv
<1>2. Screen.buffer = buffer /\ Screen.cursor = cursor
  BY DEF Screen
<1>3. buffer \in Buffers /\ cursor \in Cursors
  BY <1>1, <1>2, ScreenParts
<1>4. cursor.y_origin \in 0 .. Rows - 1
  BY <1>3 DEF Cursors
<1>5. DOMAIN RowsOf(buffer) = 0 .. Rows - 1
  BY DEF RowsOf
<1>6. QED
  BY <1>1, <1>2, <1>3, <1>4, <1>5

(* A scroll that a caller asks for.                                        *)
LEMMA ScrollStep ==
  ASSUME IInv, Scroll, cursor.x_origin = 0, down' # "lost"
  PROVE  T!Scroll
<1>1. /\ Running /\ Becomes(console_scroll(Screen))
  BY DEF Scroll, Operation
<1>2. copies # "actual"
  <2> SUFFICES ASSUME copies = "actual" PROVE FALSE
    OBVIOUS
  <2>1. console_scroll(Screen).down = "lost"
    BY DEF console_scroll, Screen
  <2>2. QED
    BY <1>1, <2>1 DEF Becomes
<1>3. /\ Screen.buffer = buffer /\ Screen.cursor = cursor /\ buffer \in Buffers
      /\ cursor.y_origin \in 0 .. Rows - 1 /\ DOMAIN RowsOf(buffer) = 0 .. Rows - 1
  BY <1>1, RunningScreen
<1>4. Screen \in Screens(WrappedCursors) /\ cursor \in WrappedCursors
  <2>1. Screen \in Screens(Cursors) /\ cursor \in Cursors
    BY <1>1, RunningScreen
  <2>2. QED
    BY <2>1 DEF Screens, Cursors, WrappedCursors
<1>5. \E e \in 0 .. 2 * Cells :
        console_scroll(Screen) = Make(ScrollOf(Screen.buffer, Screen.cursor), ScrollPoint(Screen.cursor),
                                      Place(ScrollPoint(Screen.cursor)), e, Screen.down)
  BY <1>2, <1>4, ScrollIsMade
<1>6. buffer' = ScrollOf(buffer, cursor) /\ cursor' = ScrollPoint(cursor)
  BY <1>1, <1>3, <1>5 DEF Make, Becomes
<1>7. RowsOf(ScrollOf(buffer, cursor)) = RolledUp(RowsOf(buffer), cursor.y_origin)
  <2>1. ASSUME NEW b \in Buffers, NEW c \in WrappedCursors, c.x_origin = 0, b = buffer, c = cursor
        PROVE  RowsOf(ScrollOf(buffer, cursor)) = RolledUp(RowsOf(buffer), cursor.y_origin)
    <3>1. RowsOf(ScrollOf(b, c)) = RolledUp(RowsOf(b), c.y_origin)
      BY <2>1, ScrollRows
    <3>2. QED
      BY <2>1, <3>1
  <2>2. QED
    BY <1>3, <1>4, <2>1
<1>8. RowsOf(buffer') = T!Scrolled(RowsOf(buffer))
  <2>1. ASSUME NEW r, r = RowsOf(buffer)
        PROVE  T!Scrolled(RowsOf(buffer)) = RolledUp(RowsOf(buffer), cursor.y_origin)
    <3>1. T!Scrolled(r) = RolledUp(r, cursor.y_origin)
      BY <1>3, <2>1, ScrolledIsRolledUp
    <3>2. QED
      BY <2>1, <3>1
  <2>2. QED
    BY <1>6, <1>7, <2>1
<1>9. /\ cursor'.x = cursor.x_origin /\ cursor'.y = Rows - 1
      /\ cursor'.x_origin = cursor.x_origin /\ cursor'.y_origin = cursor.y_origin
  BY <1>6 DEF ScrollPoint, Point
<1>10. QED
  BY <1>8, <1>9 DEF T!Scroll, RowsOf

(* A clear that a caller asks for.                                         *)
LEMMA ClearStep ==
  ASSUME IInv, Clear, cursor.x_origin = 0
  PROVE  T!Clear
<1>1. /\ Running /\ Becomes(console_clear(Screen))
  BY DEF Clear, Operation
<1>2. /\ Screen \in Screens(Cursors) /\ Screen.buffer = buffer /\ Screen.cursor = cursor
      /\ buffer \in Buffers /\ cursor \in Cursors
  BY <1>1, RunningScreen
<1> DEFINE b == FillOf(buffer, ORIGIN(cursor), 2 * Cells - ORIGIN(cursor))
           q == Point(cursor.x_origin, cursor.y_origin, cursor.x_origin, cursor.y_origin, cursor.mode)
<1>3. \E w \in 0 .. 2 * Cells : console_clear(Screen) = Make(b, q, Place(q), w, Screen.down)
  BY <1>2, ClearIsMade
<1>4. buffer' = b /\ cursor' = q
  BY <1>1, <1>3 DEF Make, Becomes
<1>5. RowsOf(b) = [y \in 0 .. Rows - 1 |-> IF y < cursor.y_origin THEN RowsOf(buffer)[y] ELSE NoText]
  <2>1. ASSUME NEW v \in Buffers, NEW c \in Cursors, c.x_origin = 0, v = buffer, c = cursor
        PROVE  RowsOf(b) = [y \in 0 .. Rows - 1 |-> IF y < cursor.y_origin THEN RowsOf(buffer)[y] ELSE NoText]
    <3>1. RowsOf(FillOf(v, ORIGIN(c), 2 * Cells - ORIGIN(c)))
            = [y \in 0 .. Rows - 1 |-> IF y < c.y_origin THEN RowsOf(v)[y] ELSE NoText]
      BY <2>1, ClearRows
    <3>2. QED
      BY <2>1, <3>1
  <2>2. QED
    BY <1>2, <2>1
<1>6. RowsOf(buffer') = [y \in 0 .. Rows - 1 |-> IF y < cursor.y_origin THEN RowsOf(buffer)[y] ELSE NoText]
  BY <1>4, <1>5
<1>7. /\ cursor'.x = cursor.x_origin /\ cursor'.y = cursor.y_origin
      /\ cursor'.x_origin = cursor.x_origin /\ cursor'.y_origin = cursor.y_origin
  BY <1>4 DEF Point
<1>8. QED
  BY <1>6, <1>7 DEF T!Clear, T!BlankRow, RowsOf, NoText

(* A caller moves the cursor.                                              *)
LEMMA MoveStep ==
  ASSUME IInv, console_set_cursor
  PROVE  T!Move
<1> PICK x \in 0 .. Columns - 1, y \in 0 .. Rows - 1 : Becomes([Screen EXCEPT !.cursor.x = x, !.cursor.y = y])
  BY DEF console_set_cursor
<1>1. cursor \in Cursors
  BY RunningScreen DEF console_set_cursor, Operation
<1>2. buffer' = buffer /\ cursor' = [[cursor EXCEPT !.x = x] EXCEPT !.y = y]
  BY DEF Becomes, Screen
<1>3. /\ cursor'.x = x /\ cursor'.y = y
      /\ cursor'.x_origin = cursor.x_origin /\ cursor'.y_origin = cursor.y_origin
  BY <1>1, <1>2 DEF Cursors
<1>4. QED
  BY <1>2, <1>3 DEF T!Move

(* A caller sets the origin.                                               *)
LEMMA OriginStep ==
  ASSUME IInv, console_set_origin
  PROVE  T!Origin
<1> PICK o \in Origins :
      Becomes([Screen EXCEPT !.cursor =
        [cursor EXCEPT !.x_origin = o.x, !.y_origin = o.y,
                       !.x = Further(@, o.x), !.y = Further(@, o.y)]])
  BY DEF console_set_origin
<1>1. cursor \in Cursors
  BY RunningScreen DEF console_set_origin, Operation
<1>2. o.x \in 0 .. Columns - 1 /\ o.y \in 0 .. Rows - 1
  BY ConsoleAssumption
<1>3. /\ buffer' = buffer
      /\ cursor' = [cursor EXCEPT !.x_origin = o.x, !.y_origin = o.y,
                                  !.x = Further(cursor.x, o.x), !.y = Further(cursor.y, o.y)]
  BY DEF Becomes, Screen
<1>4. /\ cursor'.x = Further(cursor.x, o.x) /\ cursor'.y = Further(cursor.y, o.y)
      /\ cursor'.x_origin = o.x /\ cursor'.y_origin = o.y
  BY <1>1, <1>3 DEF Cursors
<1>5. cursor.x \in 0 .. Columns - 1 /\ cursor.y \in 0 .. Rows - 1 /\ Columns \in Nat /\ Rows \in Nat
  BY <1>1, ConsoleAssumption DEF Cursors
<1>6. /\ Further(cursor.x, o.x) = IF cursor.x < o.x THEN o.x ELSE cursor.x
      /\ Further(cursor.y, o.y) = IF cursor.y < o.y THEN o.y ELSE cursor.y
  BY <1>2, <1>5 DEF Further
<1>7. QED
  BY <1>2, <1>3, <1>4, <1>6 DEF T!Origin

(* What leaves the buffer and the cursor's place as they are.              *)
LEMMA NoStep ==
  ASSUME buffer' = buffer, cursor'.x = cursor.x, cursor'.y = cursor.y,
         cursor'.x_origin = cursor.x_origin, cursor'.y_origin = cursor.y_origin
  PROVE  UNCHANGED T!tvars
  BY DEF T!tvars

(* The calls that write nothing, and the VGA cursor, are not seen.         *)
LEMMA UnseenStep ==
  ASSUME IInv, console_set_cursor_mode \/ console_set_foreground_color \/ console_write_line
               \/ printk \/ Suppressed \/ set_level_formatting \/ EndPrint
  PROVE  UNCHANGED T!tvars
<1>1. CASE console_set_cursor_mode
  <2> PICK m \in Modes : Becomes(console_update_cursor([Screen EXCEPT !.cursor.mode = m]))
    BY <1>1 DEF console_set_cursor_mode
  <2>1. cursor \in Cursors
    BY <1>1, RunningScreen DEF console_set_cursor_mode, Operation
  <2>2. buffer' = buffer /\ cursor' = [cursor EXCEPT !.mode = m]
    BY DEF Becomes, console_update_cursor, Screen
  <2>3. QED
    BY <2>1, <2>2, NoStep DEF Cursors
<1>2. CASE EndPrint
  <2>1. buffer' = buffer /\ cursor' = cursor
    BY <1>2 DEF EndPrint, Becomes, console_update_cursor, Screen
  <2>2. QED
    BY <2>1, NoStep
<1>3. CASE console_set_foreground_color \/ console_write_line \/ printk \/ Suppressed \/ set_level_formatting
  <2>1. buffer' = buffer /\ cursor' = cursor
    BY <1>3 DEF console_set_foreground_color, console_write_line, printk, Suppressed,
                set_level_formatting, screen
  <2>2. QED
    BY <2>1, NoStep
<1>4. QED
  BY <1>1, <1>2, <1>3

(* Characters that are written by a caller, by printk and at the end of a  *)
(* line.                                                                   *)
LEMMA CharacterStep ==
  ASSUME IInv, WriteChar \/ NextChar \/ EndLine, cursor.x_origin = 0, down' # "lost"
  PROVE  T!Next \/ UNCHANGED T!tvars
<1>1. Running
  BY DEF WriteChar, Operation, NextChar, EndLine
<1>2. Screen \in Screens(Cursors) /\ Screen.buffer = buffer /\ Screen.cursor = cursor
  BY <1>1, RunningScreen
<1>3. CASE WriteChar
  <2> PICK ch \in Codes : Becomes(console_write_char(Screen, ch))
    BY <1>3 DEF WriteChar
  <2>1. ch \in Codes \union {10}
    OBVIOUS
  <2>2. QED
    BY <1>2, <2>1, WriteCharStep
<1>4. CASE NextChar
  <2> DEFINE ch == Head(call.todo)
  <2>1. Becomes(console_write_char(Screen, ch))
    BY <1>4 DEF NextChar
  <2>2. call.todo \in Seq(Codes) /\ call.todo # <<>>
    BY <1>4, CallFields DEF NextChar, IInv
  <2>3. ch \in Codes \union {10}
    BY <2>2
  <2> HIDE DEF ch
  <2>4. QED
    BY <1>2, <2>1, <2>3, WriteCharStep
<1>5. CASE EndLine
  <2> DEFINE s == console_update_cursor(Screen)
  <2>1. Becomes(console_write_char(s, 10))
    BY <1>5 DEF EndLine
  <2>2. s \in Screens(Cursors)
    BY <1>2, UpdateType
  <2>3. s.buffer = buffer /\ s.cursor = cursor
    BY DEF console_update_cursor, Screen
  <2>4. 10 \in Codes \union {10}
    OBVIOUS
  <2> HIDE DEF s
  <2>5. QED
    BY <2>1, <2>2, <2>3, <2>4, WriteCharStep
<1>6. QED
  BY <1>3, <1>4, <1>5

\* A step of the terminal while the copy works and there is no margin.
ShownStep == (down' # "lost" /\ cursor.x_origin = 0 /\ cursor'.x_origin = 0) => T!Next

(* Every step of the console is a step of the terminal, or is not seen.    *)
LEMMA StepShows == IInv /\ [Next]_vars => [ShownStep]_(T!tvars)
<1> SUFFICES ASSUME IInv, [Next]_vars, down' # "lost", cursor.x_origin = 0
             PROVE  T!Next \/ UNCHANGED T!tvars
  BY DEF ShownStep
<1>1. CASE UNCHANGED vars
  BY <1>1, NoStep DEF vars
<1>2. CASE WriteChar \/ NextChar \/ EndLine
  BY <1>2, CharacterStep
<1>3. CASE Scroll
  BY <1>3, ScrollStep DEF T!Next
<1>4. CASE Clear
  BY <1>4, ClearStep DEF T!Next
<1>5. CASE console_set_cursor
  BY <1>5, MoveStep DEF T!Next
<1>6. CASE console_set_origin
  BY <1>6, OriginStep DEF T!Next
<1>7. CASE console_set_cursor_mode \/ console_set_foreground_color \/ console_write_line
           \/ printk \/ Suppressed \/ set_level_formatting \/ EndPrint
  BY <1>7, UnseenStep
<1>8. QED
  BY <1>1, <1>2, <1>3, <1>4, <1>5, <1>6, <1>7 DEF Next

(* The console begins as a terminal does.                                  *)
LEMMA InitShows == Init => T!Init
<1> SUFFICES ASSUME Init PROVE T!Init
  OBVIOUS
<1>1. IInv /\ buffer \in Buffers
  BY InitInv DEF IInv, TypeOK, Buffers
<1>2. ASSUME NEW y \in 0 .. Rows - 1, NEW x \in 0 .. Columns - 1
      PROVE  buffer[y * Columns + x] \in Cell
  BY <1>1, CellInBuffer DEF Buffers
<1>3. RowsOf(buffer) \in [0 .. Rows - 1 -> [0 .. Columns - 1 -> Cell]]
  BY <1>2 DEF RowsOf
<1>4. cursor.y = 0 /\ cursor.x = 0 /\ cursor.y_origin = 0 /\ cursor.x_origin = 0
  BY DEF Init, console_init
<1>5. QED
  BY <1>3, <1>4 DEF T!Init, T!Row, RowsOf

(* With a copy that works and no margin on the left, the console is the    *)
(* terminal, for screens of every size and whatever is written: what the   *)
(* wrong count of bytes copies from behind the screen is never seen, and   *)
(* the rows above the origin stay (console.c:89-182).                      *)
THEOREM ConsoleIsTerminal == Spec => IsTerminal
<1>1. Init => T!Init
  BY InitShows
<1>2. IInv /\ [Next]_vars => [ShownStep]_(T!tvars)
  BY StepShows
<1>3. Spec => T!Init /\ [][ShownStep]_(T!tvars)
  BY <1>1, <1>2, InvHolds, PTL DEF Spec
<1>4. QED
  BY <1>3 DEF IsTerminal, ShownStep
=============================================================================
