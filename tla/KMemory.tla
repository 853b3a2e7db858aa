------------------------------- MODULE KMemory -------------------------------
(***************************************************************************)
(* The memory primitives of libk (kmemory.c, kmemory_copy.h,               *)
(* kmemory_fill.h).  size_t has SizeMax + 1 values, an int is four bytes,  *)
(* little endian, and a byte is a number below Base.                       *)
(***************************************************************************)
LOCAL INSTANCE Integers

CONSTANTS
  SizeMax,   \* greatest size_t: a stand-in for 2^32 - 1
  Base       \* values of a byte

ASSUME KMemoryAssumption ==
  /\ SizeMax \in Nat /\ SizeMax > 8 /\ SizeMax % 8 = 7
  /\ Base \in Nat /\ Base > 1

Decrement(n, k) == (n - k) % (SizeMax + 1)
---------------------------------------------------------------------------
(* kfill8: how many units of 8, 4 and 2 bytes are written after the bytes  *)
(* that align the pointer to 4, and what is left for the last loop.  The   *)
(* count of units takes the place of the count of bytes each time.         *)
Unaligned(addr, n) == IF (-addr) % 4 <= n THEN (-addr) % 4 ELSE n
UnitsOf(size, n) == IF n >= size THEN n \div size ELSE 0
\* Mutant: nothing takes the whole units off the count.
LeftOfUnits(size, n) == IF n >= size THEN n \div size ELSE n
LeftOf(size, n) == IF n >= size THEN (n \div size) % size ELSE n

Fill8Length(addr, n) ==
  LET a  == Unaligned(addr, n)
      n8 == n - a
      n4 == LeftOf(8, n8)
      n2 == LeftOf(4, n4)
      n1 == LeftOf(2, n2)
  IN  a + 8 * UnitsOf(8, n8) + 4 * UnitsOf(4, n4) + 2 * UnitsOf(2, n2) + n1

\* The 64-bit value is kept in a uint32_t, so that four of the eight bytes
\* are 0 whatever the value; the values are left out here.

\* kmemory_fill16, 32 and 64 write n elements: Console uses the first.
---------------------------------------------------------------------------
(* kmemory_copy, between addresses of at least 8.  A copy is the phase of   *)
(* its loops, the count n that is left, the number of bytes copied so far  *)
(* (at most a whole address space) and where it began, as an offset from   *)
(* the destination.  COPY takes one off n for whatever it copied, and the  *)
(* first loop's condition takes off another.                               *)
CopyStart(dst, src, n) ==
  [phase    |-> IF dst = src THEN "done" ELSE "align",
   backward |-> ~(dst < src \/ dst >= src + n),
   begin    |-> IF dst < src \/ dst >= src + n THEN 0 ELSE n + n,
   n        |-> n,
   copied   |-> 0]

Copied(c, bytes) == [c EXCEPT !.copied = IF @ + bytes > SizeMax THEN SizeMax + 1 ELSE @ + bytes]

CopyAlign(c) ==
  IF c.n = 0 THEN [c EXCEPT !.phase = "words4", !.n = SizeMax]
  ELSE [Copied(c, 1) EXCEPT !.n = Decrement(@, 2)]
CopyWords4(c) ==
  IF c.n > 4 THEN [Copied(c, 32) EXCEPT !.n = @ - 4] ELSE [c EXCEPT !.phase = "words"]
CopyWords(c) ==
  IF c.n > 0 THEN [Copied(c, 8) EXCEPT !.n = @ - 1] ELSE [c EXCEPT !.phase = "bytes"]
\* The last loop finds no byte left.
CopyBytes(c) == [c EXCEPT !.phase = "done"]

CopyStep(c) ==
  CASE c.phase = "align"  -> CopyAlign(c)
    [] c.phase = "words4" -> CopyWords4(c)
    [] c.phase = "words"  -> CopyWords(c)
    [] OTHER              -> CopyBytes(c)

\* Has the copy written nothing but the n bytes of its destination?
WroteInside(c, n) ==
  \/ c.copied = 0
  \/ IF c.backward THEN c.begin < n /\ c.copied <= c.begin + 1 ELSE c.copied <= n
---------------------------------------------------------------------------
(* kmemory_compare reads an int at every byte.                             *)
IntAt(a, i) == a[i] + Base * (a[i + 1] + Base * (a[i + 2] + Base * a[i + 3]))
IntValues == Base * Base * Base * Base
Signed(v) == IF v >= IntValues \div 2 THEN v - IntValues ELSE v
\* Mutant: a byte is compared twice instead of its successors.
DifferenceOfBytes(a, b, i) == a[2 * (i \div 2)] - b[2 * (i \div 2)]
Difference(a, b, i) == Signed((IntAt(a, i) - IntAt(b, i)) % IntValues)

Compare(a, b, n) ==
  LET differs == {i \in 0 .. n - 1 : Difference(a, b, i) # 0}
  IN  IF differs = {} THEN 0
      ELSE Difference(a, b, CHOOSE i \in differs : \A j \in differs : i <= j)
=============================================================================
