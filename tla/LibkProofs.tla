----------------------------- MODULE LibkProofs -----------------------------
(***************************************************************************)
(* Proofs about Libk: how far kmemory_fill8 strays from its region, what   *)
(* kmemory_compare tells apart, what the string functions leave, how far   *)
(* vformat runs over its buffer and that it takes the arguments that were  *)
(* passed, and that numbers are parsed back.                               *)
(***************************************************************************)
EXTENDS Libk, Induction, TLAPS

(* The count of bytes that align the pointer to four.                      *)
LEMMA UnalignedType ==
  ASSUME NEW addr \in Nat, NEW n \in Nat
  PROVE  Unaligned(addr, n) \in 0 .. 3 /\ Unaligned(addr, n) <= n
  BY DEF Unaligned

(* Whole words of eight bytes, and the count that takes the place of the   *)
(* bytes behind them: it is the bytes themselves below eight, and the      *)
(* number of words modulo eight otherwise.                                 *)
LEMMA Units8 ==
  ASSUME NEW n \in Nat
  PROVE  \E r \in 0 .. 7, l \in 0 .. 7 :
           /\ LeftOf(8, n) = l
           /\ 8 * UnitsOf(8, n) + r = n
           /\ n < 8 => l = r
  BY DEF LeftOf, UnitsOf

(* The bytes that the loops for four, two and one byte write for a count   *)
(* below eight.                                                            *)
Rest(l) == 4 * UnitsOf(4, l) + 2 * UnitsOf(2, LeftOf(4, l)) + LeftOf(2, LeftOf(4, l))

(* They are at most two short and one over.                                *)
LEMMA RestBounds ==
  ASSUME NEW l \in 0 .. 7
  PROVE  Rest(l) \in 0 .. 5 /\ Rest(l) \in l - 2 .. l + 1
<1>1. l \in {0, 1, 2, 3, 4, 5, 6, 7}
  OBVIOUS
<1>2. CASE l < 4
  <2>1. UnitsOf(4, l) = 0 /\ LeftOf(4, l) = l
    BY <1>2 DEF UnitsOf, LeftOf
  <2>2. CASE l < 2
    <3>1. UnitsOf(2, l) = 0 /\ LeftOf(2, l) = l
      BY <2>2 DEF UnitsOf, LeftOf
    <3>2. QED
      BY <2>1, <2>2, <3>1 DEF Rest
  <2>3. CASE l \in {2, 3}
    <3>1. UnitsOf(2, l) = 1 /\ LeftOf(2, l) = 1
      BY <2>3 DEF UnitsOf, LeftOf
    <3>2. QED
      BY <2>1, <2>3, <3>1 DEF Rest
  <2>4. QED
    BY <1>1, <1>2, <2>2, <2>3
<1>3. CASE l \in {4, 5, 6, 7}
  <2>1. UnitsOf(4, l) = 1 /\ LeftOf(4, l) = 1
    BY <1>3 DEF UnitsOf, LeftOf
  <2>2. UnitsOf(2, 1) = 0 /\ LeftOf(2, 1) = 1
    BY DEF UnitsOf, LeftOf
  <2>3. QED
    BY <1>3, <2>1, <2>2 DEF Rest
<1>4. QED
  BY <1>1, <1>2, <1>3

(* kmemory_fill8 writes at least n - 7 and at most n + 5 bytes, wherever   *)
(* the region begins and however long it is (kmemory_fill.h:39-79).        *)
THEOREM FillBounds ==
  ASSUME NEW addr \in Nat, NEW n \in Nat
  PROVE  Fill8Length(addr, n) \in n - 7 .. n + 5
<1> DEFINE a == Unaligned(addr, n)
           n8 == n - a
<1>1. a \in 0 .. 3 /\ n8 \in Nat /\ a + n8 = n
  BY UnalignedType
<1> HIDE DEF a, n8
<1>2. PICK r \in 0 .. 7, l \in 0 .. 7 :
        LeftOf(8, n8) = l /\ 8 * UnitsOf(8, n8) + r = n8 /\ (n8 < 8 => l = r)
  BY <1>1, Units8
<1>3. Fill8Length(addr, n) = a + 8 * UnitsOf(8, n8) + 4 * UnitsOf(4, l)
                               + 2 * UnitsOf(2, LeftOf(4, l)) + LeftOf(2, LeftOf(4, l))
  BY <1>2 DEF Fill8Length, a, n8
<1>4. UnitsOf(8, n8) \in Nat
  BY <1>1 DEF UnitsOf
<1>5. /\ UnitsOf(4, l) \in Nat /\ UnitsOf(2, LeftOf(4, l)) \in Nat /\ LeftOf(2, LeftOf(4, l)) \in Nat
  <2>1. UnitsOf(4, l) \in Nat /\ LeftOf(4, l) \in Nat
    BY DEF UnitsOf, LeftOf
  <2>2. QED
    BY <2>1 DEF UnitsOf, LeftOf
<1>6. Fill8Length(addr, n) = a + 8 * UnitsOf(8, n8) + Rest(l)
  BY <1>1, <1>3, <1>4, <1>5 DEF Rest
<1>7. Rest(l) \in 0 .. 5
  BY RestBounds
<1>8. QED
  BY <1>1, <1>2, <1>4, <1>6, <1>7
---------------------------------------------------------------------------
(* A byte in front of a word of M values makes a word of Base * M values,  *)
(* and no two pairs make the same.                                         *)
LEMMA Word ==
  ASSUME NEW M \in Nat, NEW x \in 0 .. Base - 1, NEW y \in 0 .. M - 1
  PROVE  /\ x + Base * y \in 0 .. Base * M - 1
         /\ \A u \in 0 .. Base - 1, v \in 0 .. M - 1 : x + Base * y = u + Base * v => x = u /\ y = v
<1>1. Base \in Nat /\ Base > 1 /\ x \in Nat /\ y \in Nat /\ x < Base /\ y + 1 <= M
  BY KMemoryAssumption
<1>2. ASSUME NEW j \in Nat, NEW k \in Nat, j <= k PROVE Base * j <= Base * k
  BY <1>1, <1>2
<1>3. Base * (y + 1) = Base * y + Base
  BY <1>1
<1>4. x + Base * y \in 0 .. Base * M - 1
  <2>1. Base * (y + 1) <= Base * M
    BY <1>1, <1>2
  <2>2. Base * y \in Nat /\ Base * M \in Nat
    BY <1>1
  <2>3. QED
    BY <1>1, <1>3, <2>1, <2>2
<1>5. ASSUME NEW u \in 0 .. Base - 1, NEW v \in 0 .. M - 1, x + Base * y = u + Base * v
      PROVE  x = u /\ y = v
  <2>1. Base * (v + 1) = Base * v + Base /\ Base * y \in Nat /\ Base * v \in Nat /\ v \in Nat
    BY <1>1
  <2>2. ~(y < v)
    <3>1. y < v => Base * (y + 1) <= Base * v
      BY <1>1, <1>2
    <3>2. QED
      BY <1>1, <1>3, <1>5, <2>1, <3>1
  <2>3. ~(v < y)
    <3>1. v < y => Base * (v + 1) <= Base * y
      BY <1>1, <1>2
    <3>2. QED
      BY <1>1, <1>3, <1>5, <2>1, <3>1
  <2>4. y = v
    BY <1>1, <2>1, <2>2, <2>3
  <2>5. QED
    BY <1>1, <1>5, <2>1, <2>4
<1>6. QED
  BY <1>4, <1>5

\* Bytes on which an int can be read at every place before n.
Bytes(n) == [0 .. n + 2 -> 0 .. Base - 1]

(* The int at a place is one of IntValues, and two ints are equal only if  *)
(* their bytes are.                                                        *)
LEMMA Ints4 ==
  ASSUME NEW n \in Nat, NEW a \in Bytes(n), NEW b \in Bytes(n), NEW i \in 0 .. n - 1
  PROVE  /\ IntAt(a, i) \in 0 .. IntValues - 1
         /\ IntAt(a, i) = IntAt(b, i) => a[i] = b[i]
<1> DEFINE W1 == Base
           W2 == Base * W1
           W3 == Base * W2
           tail1(c) == c[i + 3]
           tail2(c) == c[i + 2] + Base * tail1(c)
           tail3(c) == c[i + 1] + Base * tail2(c)
<1>1. Base \in Nat /\ W1 \in Nat /\ W2 \in Nat /\ W3 \in Nat
  BY KMemoryAssumption
<1>2. ASSUME NEW c \in Bytes(n)
      PROVE  /\ c[i] \in 0 .. Base - 1 /\ c[i + 1] \in 0 .. Base - 1
             /\ c[i + 2] \in 0 .. Base - 1 /\ c[i + 3] \in 0 .. Base - 1
  <2>1. i \in 0 .. n + 2 /\ i + 1 \in 0 .. n + 2 /\ i + 2 \in 0 .. n + 2 /\ i + 3 \in 0 .. n + 2
    OBVIOUS
  <2>2. QED
    BY <2>1 DEF Bytes
<1> HIDE DEF W1, W2, W3
<1>3. ASSUME NEW c \in Bytes(n)
      PROVE  tail1(c) \in 0 .. W1 - 1 /\ tail2(c) \in 0 .. W2 - 1 /\ tail3(c) \in 0 .. W3 - 1
  <2>1. tail1(c) \in 0 .. W1 - 1
    BY <1>2 DEF W1
  <2>2. tail2(c) \in 0 .. W2 - 1
    BY <1>1, <1>2, <2>1, Word DEF W2
  <2>3. tail3(c) \in 0 .. W3 - 1
    BY <1>1, <1>2, <2>2, Word DEF W3
  <2>4. QED
    BY <2>1, <2>2, <2>3
<1>4. ASSUME NEW c \in Bytes(n) PROVE IntAt(c, i) = c[i] + Base * tail3(c)
  BY DEF IntAt
<1>5. IntValues = Base * W3
  BY KMemoryAssumption DEF IntValues, W1, W2, W3
<1> HIDE DEF tail1, tail2, tail3
<1>6. a[i] + Base * tail3(a) \in 0 .. Base * W3 - 1
  BY <1>1, <1>2, <1>3, Word
<1>7. a[i] + Base * tail3(a) = b[i] + Base * tail3(b) => a[i] = b[i]
  BY <1>1, <1>2, <1>3, Word, SMTT(60)
<1>8. QED
  BY <1>4, <1>5, <1>6, <1>7

(* The difference of two ints is zero for equal ints only.                 *)
LEMMA DifferenceTells ==
  ASSUME NEW n \in Nat, NEW a \in Bytes(n), NEW b \in Bytes(n), NEW i \in 0 .. n - 1
  PROVE  /\ a[i] # b[i] => Difference(a, b, i) # 0
         /\ a = b => Difference(a, b, i) = 0
<1> DEFINE u == IntAt(a, i)
           v == IntAt(b, i)
<1>1. u \in 0 .. IntValues - 1 /\ v \in 0 .. IntValues - 1 /\ (u = v => a[i] = b[i])
  BY Ints4
<1>2. a = b => u = v
  OBVIOUS
<1>3. IntValues \in Nat
  BY KMemoryAssumption DEF IntValues
<1> DEFINE d == (u - v) % IntValues
<1>4. Difference(a, b, i) = Signed(d)
  BY DEF Difference
<1> HIDE DEF u, v
<1>5. d \in 0 .. IntValues - 1 /\ (d = 0 <=> u = v)
  <2>1. CASE u >= v
    <3>1. u - v \in 0 .. IntValues - 1
      BY <1>1, <1>3, <2>1
    <3>2. d = u - v
      BY <1>3, <3>1
    <3>3. QED
      BY <1>1, <1>3, <3>1, <3>2
  <2>2. CASE u < v
    <3>1. u - v + IntValues \in 1 .. IntValues - 1
      BY <1>1, <1>3, <2>2
    <3>2. d = u - v + IntValues
      BY <1>1, <1>3, <2>2, <3>1
    <3>3. QED
      BY <1>1, <1>3, <2>2, <3>1, <3>2
  <2>3. QED
    BY <1>1, <1>3, <2>1, <2>2
<1> HIDE DEF d
<1>6. Signed(d) = 0 <=> d = 0
  <2>1. IntValues > 0
    BY <1>3, <1>5
  <2>2. CASE d >= IntValues \div 2
    <3>1. Signed(d) = d - IntValues
      BY <2>2 DEF Signed
    <3>2. d < IntValues /\ d \in Int
      BY <1>3, <1>5
    <3>3. IntValues > 1
      <4>1. \A j, k \in Nat : j > 1 /\ k > 1 => j * k > 1
        OBVIOUS
      <4>2. Base \in Nat /\ Base > 1 /\ Base * Base \in Nat /\ Base * Base * Base \in Nat
        BY KMemoryAssumption
      <4>3. Base * Base > 1
        BY <4>1, <4>2
      <4>4. Base * Base * Base > 1
        BY <4>1, <4>2, <4>3
      <4>5. QED
        BY <4>1, <4>2, <4>4 DEF IntValues
    <3>4. d # 0
      BY <1>3, <2>2, <3>3
    <3>5. QED
      BY <1>3, <3>1, <3>2, <3>4
  <2>3. CASE ~(d >= IntValues \div 2)
    BY <2>3 DEF Signed
  <2>4. QED
    BY <2>2, <2>3
<1>7. QED
  BY <1>1, <1>2, <1>4, <1>5, <1>6

(* kmemory_compare tells regions that differ from each other, and finds    *)
(* equal regions equal, although it reads ints that overlap                *)
(* (kmemory.c:65-77).                                                    *)
THEOREM CompareTells ==
  ASSUME NEW n \in Nat, NEW a \in Bytes(n), NEW b \in Bytes(n)
  PROVE  /\ (\E i \in 0 .. n - 1 : a[i] # b[i]) => Compare(a, b, n) # 0
         /\ a = b => Compare(a, b, n) = 0
<1> DEFINE differs == {i \in 0 .. n - 1 : Difference(a, b, i) # 0}
<1>1. differs = {} => Compare(a, b, n) = 0
  BY DEF Compare
<1>2. differs # {} => Compare(a, b, n) # 0
  <2> SUFFICES ASSUME differs # {} PROVE Compare(a, b, n) # 0
    OBVIOUS
  <2> DEFINE first == CHOOSE i \in differs : \A j \in differs : i <= j
  <2>1. \E i \in differs : \A j \in differs : i <= j
    <3>1. differs \in SUBSET Nat
      OBVIOUS
    <3> HIDE DEF differs
    <3>2. QED
      BY <3>1, Least
  <2>2. first \in differs
    <3> HIDE DEF differs
    <3>1. QED
      BY <2>1
  <2>3. Compare(a, b, n) = Difference(a, b, first)
    BY DEF Compare
  <2> HIDE DEF first
  <2>4. QED
    BY <2>2, <2>3
<1>3. (\E i \in 0 .. n - 1 : a[i] # b[i]) => differs # {}
  BY DifferenceTells
<1>4. a = b => differs = {}
  BY DifferenceTells
<1>5. QED
  BY <1>1, <1>2, <1>3, <1>4
---------------------------------------------------------------------------
\* A buffer from offset 0 to R that a string ends in.
Ends(s, R) == DOMAIN s = 0 .. R /\ \E k \in 0 .. R : s[k] = 0

(* The least of a set of offsets.                                          *)
LEMMA MinIs ==
  ASSUME NEW T \in SUBSET Nat, T # {}
  PROVE  S!Min(T) \in T /\ \A k \in T : S!Min(T) <= k
<1>1. \E m \in T : \A k \in T : m <= k
  BY Least
<1>2. QED
  BY <1>1 DEF S!Min

(* A string is as long as its first zero is far.                           *)
LEMMA LengthIs ==
  ASSUME NEW R \in Nat, NEW s, Ends(s, R)
  PROVE  /\ S!Length(s) \in 0 .. R /\ s[S!Length(s)] = 0
         /\ \A k \in 0 .. S!Length(s) - 1 : s[k] # 0
<1> DEFINE T == {i \in DOMAIN s : s[i] = 0}
<1>1. T \in SUBSET Nat /\ T # {} /\ T \subseteq 0 .. R
  BY DEF Ends
<1>2. \A k \in T : s[k] = 0
  OBVIOUS
<1>3. \A k \in 0 .. R : s[k] = 0 => k \in T
  BY DEF Ends
<1>4. S!Length(s) = S!Min(T)
  BY DEF S!Length
<1> HIDE DEF T
<1>5. S!Length(s) \in T /\ \A k \in T : S!Length(s) <= k
  BY <1>1, <1>4, MinIs
<1>6. S!Length(s) \in 0 .. R
  BY <1>1, <1>5
<1>7. \A k \in 0 .. S!Length(s) - 1 : s[k] # 0
  <2> SUFFICES ASSUME NEW k \in 0 .. S!Length(s) - 1, s[k] = 0 PROVE FALSE
    OBVIOUS
  <2>1. k \in 0 .. R /\ ~(S!Length(s) <= k)
    BY <1>6
  <2>2. QED
    BY <1>3, <1>5, <2>1
<1>8. QED
  BY <1>2, <1>5, <1>6, <1>7

(* That is the only place with a zero and none before it.                  *)
LEMMA LengthUnique ==
  ASSUME NEW R \in Nat, NEW s, DOMAIN s = 0 .. R, NEW n \in 0 .. R, s[n] = 0,
         \A k \in 0 .. n - 1 : s[k] # 0
  PROVE  Ends(s, R) /\ S!Length(s) = n
<1>1. Ends(s, R)
  BY DEF Ends
<1>2. /\ S!Length(s) \in 0 .. R /\ s[S!Length(s)] = 0
      /\ \A k \in 0 .. S!Length(s) - 1 : s[k] # 0
  BY <1>1, LengthIs
<1>3. ~(S!Length(s) < n) /\ ~(n < S!Length(s))
  BY <1>2
<1>4. QED
  BY <1>1, <1>2, <1>3

\* What the strings of Libk are.
IsText(s) ==
  /\ Ends(s, Room) /\ S!Length(s) \in 0 .. MaxText
  /\ s = [i \in 0 .. Room |-> s[i]]
  /\ \A i \in 0 .. Room : s[i] \in Int

(* The strings that Libk calls its functions with are text, and their      *)
(* buffers have room for two.                                              *)
LEMMA StringsAreText ==
  ASSUME NEW s \in Strings
  PROVE  IsText(s)
<1>1. MaxText \in Nat /\ Room \in Nat /\ Room = 2 * MaxText + 2
  BY LibkAssumption DEF Room
<1>2. PICK T \in {[1 .. k -> Chars] : k \in 0 .. MaxText} :
         \E t \in T : s = [i \in 0 .. Room |-> IF i < Len(t) THEN t[i + 1] ELSE 0]
  BY Zenon DEF Strings
<1>3. PICK k \in 0 .. MaxText : T = [1 .. k -> Chars]
  OBVIOUS
<1>4. PICK t \in [1 .. k -> Chars] :
        s = [i \in 0 .. Room |-> IF i < Len(t) THEN t[i + 1] ELSE 0]
  BY <1>2, <1>3
<1>5. Len(t) = k
  BY <1>1, <1>4
<1>6. s = [i \in 0 .. Room |-> s[i]] /\ DOMAIN s = 0 .. Room
  BY <1>4
<1>7. k \in 0 .. Room /\ s[k] = 0
  BY <1>1, <1>4, <1>5
<1>8. Ends(s, Room)
  BY <1>6, <1>7 DEF Ends
<1>9. S!Length(s) \in 0 .. Room /\ \A j \in 0 .. S!Length(s) - 1 : s[j] # 0
  BY <1>1, <1>8, LengthIs
<1>10. S!Length(s) <= k
  BY <1>1, <1>7, <1>9
<1>11. S!Length(s) \in 0 .. MaxText
  BY <1>1, <1>9, <1>10
<1>12. ASSUME NEW i \in 0 .. Room PROVE s[i] \in Int
  <2>1. CASE i < k
    <3>1. i + 1 \in 1 .. k /\ s[i] = t[i + 1]
      BY <1>1, <1>4, <1>5, <2>1
    <3>2. t[i + 1] \in Chars
      BY <1>4, <3>1
    <3>3. QED
      BY <3>1, <3>2, LibkAssumption
  <2>2. CASE ~(i < k)
    BY <1>4, <1>5, <2>2
  <2>3. QED
    BY <2>1, <2>2
<1>13. QED
  BY <1>6, <1>8, <1>11, <1>12 DEF IsText

(* A text that is no longer than MaxText has room before the buffer ends.  *)
LEMMA TextFits ==
  ASSUME NEW s, IsText(s), NEW i \in Int, 0 <= i, i <= S!Length(s)
  PROVE  i \in 0 .. Room /\ s[i] \in Int /\ (i < S!Length(s) => s[i] # 0)
<1>1. MaxText \in Nat /\ Room \in Nat /\ Room = 2 * MaxText + 2
  BY LibkAssumption DEF Room
<1>2. S!Length(s) \in 0 .. MaxText /\ Ends(s, Room)
  BY DEF IsText
<1>3. i \in 0 .. Room
  BY <1>1, <1>2
<1>4. s[i] \in Int
  BY <1>3 DEF IsText
<1>5. \A k \in 0 .. S!Length(s) - 1 : s[k] # 0
  BY <1>1, <1>2, LengthIs
<1>6. i < S!Length(s) => i \in 0 .. S!Length(s) - 1
  BY <1>2
<1>7. QED
  BY <1>3, <1>4, <1>5, <1>6

(* A text's characters, one at a time.                                     *)
LEMMA TextIs ==
  ASSUME NEW s, NEW n \in Nat, S!Length(s) = n, \A i \in 0 .. n - 1 : s[i] \in Int
  PROVE  /\ S!Text(s) \in Seq(Int) /\ Len(S!Text(s)) = n
         /\ \A i \in 1 .. n : S!Text(s)[i] = s[i - 1]
<1>1. S!Text(s) = [i \in 1 .. n |-> s[i - 1]]
  BY DEF S!Text
<1>2. \A i \in 1 .. n : i - 1 \in 0 .. n - 1
  OBVIOUS
<1>3. S!Text(s) \in [1 .. n -> Int]
  BY <1>1, <1>2
<1>4. S!Text(s) \in Seq(Int) /\ Len(S!Text(s)) = n
  BY <1>3
<1>5. QED
  BY <1>1, <1>4

(* Copying at an offset with room for it: what is before is kept, the      *)
(* characters follow with a terminator, and what is behind is kept.        *)
LEMMA CopyAtIs ==
  ASSUME NEW R \in Nat, NEW dst, DOMAIN dst = 0 .. R, NEW at \in Nat, NEW src, NEW n \in Nat,
         IsText(src), NEW k \in Nat, k = S!CopyEnd(src, n), at + k <= R,
         \A i \in 0 .. at - 1 : dst[i] # 0
  PROVE  /\ DOMAIN S!CopyAt(dst, at, src, n) = 0 .. R
         /\ \A i \in 0 .. at - 1 : S!CopyAt(dst, at, src, n)[i] = dst[i]
         /\ \A i \in 0 .. k - 1 : S!CopyAt(dst, at, src, n)[at + i] = src[i]
         /\ \A i \in at + k + 1 .. R : S!CopyAt(dst, at, src, n)[i] = dst[i]
         /\ S!Length(S!CopyAt(dst, at, src, n)) = at + k
<1> DEFINE r == S!CopyAt(dst, at, src, n)
<1>1. k = S!AtMost(n, S!Length(src)) /\ k <= S!Length(src)
  BY DEF S!CopyEnd, S!AtMost, IsText
<1>2. r = [i \in 0 .. R |-> IF i \in at .. at + k - 1 THEN src[i - at]
                            ELSE IF i = at + k THEN 0 ELSE dst[i]]
  BY <1>1 DEF S!CopyAt
<1>3. \A i \in 0 .. at - 1 : r[i] = dst[i]
  BY <1>2
<1>4. ASSUME NEW i \in 0 .. k - 1 PROVE r[at + i] = src[i]
  <2>1. at + i \in 0 .. R /\ at + i \in at .. at + k - 1 /\ (at + i) - at = i
    OBVIOUS
  <2>2. QED
    BY <1>2, <2>1
<1>5. \A i \in at + k + 1 .. R : r[i] = dst[i]
  BY <1>2
<1>6. r[at + k] = 0
  BY <1>2
<1>7. \A i \in 0 .. k - 1 : src[i] # 0
  <2>1. Room \in Nat /\ S!Length(src) \in Nat
    BY LibkAssumption DEF Room, IsText
  <2>2. QED
    BY <1>1, <2>1, LengthIs DEF IsText
<1>8. ASSUME NEW i \in 0 .. at + k - 1 PROVE r[i] # 0
  <2>1. CASE i < at
    BY <1>3, <2>1
  <2>2. CASE ~(i < at)
    <3>1. i - at \in 0 .. k - 1 /\ at + (i - at) = i
      BY <2>2
    <3>2. QED
      BY <1>4, <1>7, <3>1
  <2>3. QED
    BY <2>1, <2>2
<1>9. DOMAIN r = 0 .. R
  BY <1>2
<1>10. S!Length(r) = at + k
  <2> HIDE DEF r
  <2>1. at + k \in 0 .. R
    OBVIOUS
  <2>2. QED
    BY <1>6, <1>8, <1>9, <2>1, LengthUnique
<1>11. QED
  BY <1>3, <1>4, <1>5, <1>9, <1>10

(* kstring_copy leaves a string of the characters it was asked for and     *)
(* changes nothing behind it (kstring.c:35-51), whatever was there.        *)
LEMMA CopyRight ==
  ASSUME NEW dst, DOMAIN dst = 0 .. Room, NEW src, IsText(src), NEW n \in Nat
  PROVE  /\ S!Text(S!Copy(dst, src, n)) = SubSeq(S!Text(src), 1, S!CopyEnd(src, n))
         /\ S!CopyEnd(src, n) <= n
         /\ \A i \in S!CopyEnd(src, n) + 1 .. Room : S!Copy(dst, src, n)[i] = dst[i]
<1> DEFINE k == S!CopyEnd(src, n)
           r == S!CopyAt(dst, 0, src, n)
<1>1. MaxText \in Nat /\ Room \in Nat /\ Room = 2 * MaxText + 2
  BY LibkAssumption DEF Room
<1>2. S!Length(src) \in 0 .. MaxText
  BY DEF IsText
<1>3. k \in Nat /\ k <= n /\ k <= S!Length(src)
  BY <1>2 DEF S!CopyEnd, S!AtMost
<1>4. S!Copy(dst, src, n) = r
  BY DEF S!Copy
<1> HIDE DEF k, r
<1>5. /\ \A i \in 0 .. k - 1 : r[0 + i] = src[i]
      /\ \A i \in 0 + k + 1 .. Room : r[i] = dst[i]
      /\ S!Length(r) = 0 + k
  BY <1>1, <1>2, <1>3, CopyAtIs, SMTT(60) DEF k, r
<1>6. ASSUME NEW i \in 0 .. k - 1 PROVE r[i] = src[i] /\ src[i] \in Int
  <2>1. i \in Int /\ 0 <= i /\ i <= S!Length(src) /\ 0 + i = i
    BY <1>2, <1>3
  <2>2. QED
    BY <1>5, <2>1, TextFits
<1>7. S!Length(r) = k
  BY <1>3, <1>5
<1>8. /\ S!Text(r) \in Seq(Int) /\ Len(S!Text(r)) = k
      /\ \A i \in 1 .. k : S!Text(r)[i] = r[i - 1]
  BY <1>3, <1>6, <1>7, TextIs
<1>9. /\ S!Text(src) \in Seq(Int) /\ Len(S!Text(src)) = S!Length(src)
      /\ \A i \in 1 .. S!Length(src) : S!Text(src)[i] = src[i - 1]
  <2>1. ASSUME NEW i \in 0 .. S!Length(src) - 1 PROVE src[i] \in Int
    BY <1>2, TextFits
  <2>2. QED
    BY <1>2, <2>1, TextIs
<1> DEFINE t == SubSeq(S!Text(src), 1, k)
<1>10. /\ t \in Seq(Int) /\ Len(t) = k
       /\ \A i \in 1 .. k : t[i] = S!Text(src)[i]
  BY <1>2, <1>3, <1>9
<1> HIDE DEF t
<1>11. \A i \in 1 .. k : S!Text(r)[i] = t[i]
  <2> SUFFICES ASSUME NEW i \in 1 .. k PROVE S!Text(r)[i] = t[i]
    OBVIOUS
  <2>1. i - 1 \in 0 .. k - 1 /\ i \in 1 .. S!Length(src)
    BY <1>2, <1>3
  <2>2. QED
    BY <1>6, <1>8, <1>9, <1>10, <2>1
<1>12. S!Text(r) = t
  BY <1>8, <1>10, <1>11, SeqEqual
<1>13. QED
  BY <1>3, <1>4, <1>5, <1>12 DEF t, k

(* kstring_concatenate appends those characters (kstring.c:53-66).         *)
LEMMA ConcatenateRight ==
  ASSUME NEW dst, IsText(dst), NEW src, IsText(src), NEW n \in Nat
  PROVE  S!Text(S!Concatenate(dst, src, n)) = S!Text(dst) \o SubSeq(S!Text(src), 1, S!CopyEnd(src, n))
<1> DEFINE k == S!CopyEnd(src, n)
           d == S!Length(dst)
           r == S!CopyAt(dst, d, src, n)
           m == d + k
<1>1. MaxText \in Nat /\ Room \in Nat /\ Room = 2 * MaxText + 2
  BY LibkAssumption DEF Room
<1>2. S!Length(src) \in 0 .. MaxText /\ d \in 0 .. MaxText /\ DOMAIN dst = 0 .. Room
  BY DEF IsText, Ends
<1>3. k \in Nat /\ k <= n /\ k <= S!Length(src)
  BY <1>2 DEF S!CopyEnd, S!AtMost
<1>4. S!Concatenate(dst, src, n) = r
  BY DEF S!Concatenate
<1>5. \A i \in 0 .. d - 1 : dst[i] # 0
  BY <1>1, LengthIs DEF IsText
<1>6. d = S!Length(dst) /\ k = S!CopyEnd(src, n) /\ r = S!CopyAt(dst, d, src, n) /\ m = d + k
  OBVIOUS
<1> HIDE DEF k, r, d, m
<1>7. m \in Nat
  BY <1>2, <1>3, <1>6
<1>8. /\ \A i \in 0 .. d - 1 : r[i] = dst[i]
      /\ \A i \in 0 .. k - 1 : r[d + i] = src[i]
      /\ S!Length(r) = d + k
  <2>1. d \in Nat /\ d + k <= Room
    BY <1>6, <1>1, <1>2, <1>3
  <2>2. \A i \in 0 .. d - 1 : dst[i] # 0
    BY <1>5
  <2>3. k = S!CopyEnd(src, n) /\ k \in Nat /\ Room \in Nat /\ DOMAIN dst = 0 .. Room
    BY <1>1, <1>2, <1>3, <1>6
  <2>4. /\ \A i \in 0 .. d - 1 : S!CopyAt(dst, d, src, n)[i] = dst[i]
        /\ \A i \in 0 .. k - 1 : S!CopyAt(dst, d, src, n)[d + i] = src[i]
        /\ S!Length(S!CopyAt(dst, d, src, n)) = d + k
    BY <2>1, <2>2, <2>3, CopyAtIs, SMTT(60)
  <2>5. QED
    BY <1>6, <2>4
<1>9. /\ \A i \in 0 .. k - 1 : src[i] \in Int
      /\ \A i \in 0 .. d - 1 : dst[i] \in Int
      /\ \A i \in 0 .. S!Length(src) - 1 : src[i] \in Int
  <2>1. ASSUME NEW i \in 0 .. S!Length(src) - 1 PROVE src[i] \in Int
    BY <1>2, TextFits
  <2>2. ASSUME NEW i \in 0 .. d - 1 PROVE dst[i] \in Int
    <3>1. i \in Int /\ 0 <= i /\ i <= S!Length(dst)
      BY <1>2, <1>6
    <3>2. QED
      BY <3>1, TextFits
  <2>3. \A i \in 0 .. k - 1 : i \in 0 .. S!Length(src) - 1
    BY <1>2, <1>3
  <2>4. QED
    BY <2>1, <2>2, <2>3
<1>10. ASSUME NEW i \in 0 .. d + k - 1 PROVE r[i] \in Int
  <2>1. CASE i < d
    BY <1>2, <1>3, <1>8, <1>9, <2>1
  <2>2. CASE ~(i < d)
    <3>1. i - d \in 0 .. k - 1 /\ d + (i - d) = i
      BY <1>2, <1>3, <2>2
    <3>2. QED
      BY <1>8, <1>9, <3>1
  <2>3. QED
    BY <2>1, <2>2
<1>11. /\ S!Text(r) \in Seq(Int) /\ Len(S!Text(r)) = m
      /\ \A i \in 1 .. m : S!Text(r)[i] = r[i - 1]
  <2>1. ASSUME NEW i \in 0 .. m - 1 PROVE r[i] \in Int
    <3>1. i \in 0 .. d + k - 1
      BY <1>2, <1>3, <1>6
    <3>2. QED
      BY <1>10, <3>1
  <2>2. S!Length(r) = m
    BY <1>8, <1>6
  <2>3. QED
    BY <1>7, <2>1, <2>2, TextIs
<1>12. /\ S!Text(src) \in Seq(Int) /\ Len(S!Text(src)) = S!Length(src)
       /\ \A i \in 1 .. S!Length(src) : S!Text(src)[i] = src[i - 1]
  BY <1>2, <1>9, TextIs
<1>13. /\ S!Text(dst) \in Seq(Int) /\ Len(S!Text(dst)) = d
       /\ \A i \in 1 .. d : S!Text(dst)[i] = dst[i - 1]
  <2>1. S!Length(dst) = d /\ d \in Nat
    BY <1>2, <1>6
  <2>2. QED
    BY <1>9, <2>1, TextIs
<1> DEFINE t == SubSeq(S!Text(src), 1, k)
           u == S!Text(dst) \o t
<1>14. /\ t \in Seq(Int) /\ Len(t) = k
       /\ \A i \in 1 .. k : t[i] = S!Text(src)[i]
  BY <1>2, <1>3, <1>12
<1> HIDE DEF t
<1>15. /\ u \in Seq(Int) /\ Len(u) = m
       /\ \A i \in 1 .. m : u[i] = IF i <= d THEN S!Text(dst)[i] ELSE t[i - d]
  <2>1. u \in Seq(Int) /\ Len(u) = d + k
    BY <1>13, <1>14, ConcatProperties
  <2>2. ASSUME NEW i \in 1 .. m PROVE u[i] = IF i <= d THEN S!Text(dst)[i] ELSE t[i - d]
    <3>1. i \in 1 .. Len(S!Text(dst)) + Len(t)
      BY <1>2, <1>3, <1>13, <1>14, <1>6
    <3>2. QED
      BY <1>13, <1>14, <3>1, ConcatProperties
  <2>3. QED
    BY <1>6, <2>1, <2>2
<1> HIDE DEF u
<1>16. ASSUME NEW i \in 1 .. m PROVE S!Text(r)[i] = u[i]
  <2>1. CASE i <= d
    <3>1. i - 1 \in 0 .. d - 1 /\ i \in 1 .. d
      BY <1>2, <1>6, <2>1
    <3>2. QED
      BY <1>8, <1>11, <1>13, <1>15, <2>1, <3>1
  <2>2. CASE ~(i <= d)
    <3>1. i - d \in 1 .. k /\ i - d \in 1 .. S!Length(src) /\ (i - d) - 1 \in 0 .. k - 1
      BY <1>2, <1>3, <1>6, <2>2
    <3>2. i - 1 = d + ((i - d) - 1)
      BY <1>2
    <3>3. r[i - 1] = src[(i - d) - 1]
      BY <1>8, <3>1, <3>2
    <3>4. t[i - d] = src[(i - d) - 1]
      BY <1>12, <1>14, <3>1
    <3>5. QED
      BY <1>11, <1>15, <2>2, <3>3, <3>4
  <2>3. QED
    BY <2>1, <2>2
<1>17. S!Text(r) = u
  BY <1>11, <1>15, <1>16, SeqEqual
<1>18. QED
  BY <1>4, <1>17, <1>6 DEF t, u

(* kstring_compare, which says how the first characters that differ        *)
(* differ, finds strings of one length equal only when they are            *)
(* (kstring.c:128-136).                                                    *)
LEMMA CompareRight ==
  ASSUME NEW a, IsText(a), NEW b, IsText(b), NEW n \in Nat,
         S!Length(a) = S!Length(b), S!Length(a) <= n
  PROVE  S!Compare(a, b, n) = 0 <=> S!Text(a) = S!Text(b)
<1> DEFINE l == S!Length(a)
           differ == {j \in 0 .. l - 1 : a[j] # b[j]}
           i == S!Least(differ)
<1>1. l \in Nat /\ S!Length(b) = l /\ l <= n
  BY DEF IsText
<1>2. S!AtMost(n, S!AtMost(S!Length(a), S!Length(b))) = l
  BY <1>1 DEF S!AtMost
<1>3. S!Compare(a, b, n) = IF i = S!NULL THEN 0 ELSE a[i] - b[i]
  BY <1>2 DEF S!Compare
<1>4. \A j \in 0 .. l - 1 : a[j] \in Int /\ b[j] \in Int
  <2> SUFFICES ASSUME NEW j \in 0 .. l - 1 PROVE a[j] \in Int /\ b[j] \in Int
    OBVIOUS
  <2>1. j \in Int /\ 0 <= j /\ j <= S!Length(a) /\ j <= S!Length(b)
    BY <1>1
  <2>2. QED
    BY <2>1, TextFits
<1>5. /\ S!Text(a) = [j \in 1 .. l |-> a[j - 1]]
      /\ S!Text(b) = [j \in 1 .. l |-> b[j - 1]]
  BY <1>1 DEF S!Text
<1>6. CASE differ = {}
  <2>1. i = S!NULL
    BY <1>6 DEF S!Least
  <2>2. \A j \in 0 .. l - 1 : a[j] = b[j]
    BY <1>6
  <2>3. \A j \in 1 .. l : a[j - 1] = b[j - 1]
    <3>1. \A j \in 1 .. l : j - 1 \in 0 .. l - 1
      BY <1>1
    <3>2. QED
      BY <2>2, <3>1
  <2>4. S!Text(a) = S!Text(b)
    BY <1>5, <2>3
  <2>5. QED
    BY <1>3, <2>1, <2>4
<1>7. CASE differ # {}
  <2>1. differ \in SUBSET Nat
    BY <1>1
  <2>2. i \in differ
    BY <1>7, <2>1, MinIs DEF S!Least
  <2>3. i \in 0 .. l - 1 /\ a[i] # b[i]
    BY <2>2
  <2> HIDE DEF i, differ
  <2>4. i # S!NULL /\ a[i] - b[i] # 0
    BY <1>1, <1>4, <2>3 DEF S!NULL
  <2>5. i + 1 \in 1 .. l /\ (i + 1) - 1 = i
    BY <1>1, <2>3
  <2>6. S!Text(a)[i + 1] = a[i] /\ S!Text(b)[i + 1] = b[i]
    BY <1>5, <2>5
  <2>7. QED
    BY <1>3, <2>3, <2>4, <2>6
<1>8. QED
  BY <1>6, <1>7

(* Changing the case of a character forgets nothing but its case, and      *)
(* makes no terminator.                                                    *)
LEMMA CaseOfCharacter ==
  ASSUME NEW c \in Int
  PROVE  /\ S!ToLowerCase(S!ToUpperCase(c)) = S!ToLowerCase(c)
         /\ S!ToUpperCase(S!ToLowerCase(c)) = S!ToUpperCase(c)
         /\ S!ToLowerCase(c) \in Int /\ S!ToUpperCase(c) \in Int
         /\ c # 0 => S!ToLowerCase(c) # 0 /\ S!ToUpperCase(c) # 0
<1>1. /\ c \in S!ALPHA <=> (65 <= c /\ c <= 90) \/ (97 <= c /\ c <= 122)
      /\ c \in S!UPPER <=> 65 <= c /\ c <= 90
      /\ c \in S!LOWER <=> 97 <= c /\ c <= 122
  BY DEF S!ALPHA, S!UPPER, S!LOWER
<1>2. CASE 65 <= c /\ c <= 90
  <2>1. S!ToLowerCase(c) = c + 32 /\ S!ToUpperCase(c) = c
    BY <1>1, <1>2 DEF S!ToLowerCase, S!ToUpperCase
  <2>2. S!ToUpperCase(c + 32) = c
    BY <1>2 DEF S!ToUpperCase, S!ALPHA, S!UPPER, S!LOWER
  <2>3. QED
    BY <1>2, <2>1, <2>2
<1>3. CASE 97 <= c /\ c <= 122
  <2>1. S!ToLowerCase(c) = c /\ S!ToUpperCase(c) = c - 32
    BY <1>1, <1>3 DEF S!ToLowerCase, S!ToUpperCase
  <2>2. S!ToLowerCase(c - 32) = c
    BY <1>3 DEF S!ToLowerCase, S!ALPHA, S!UPPER, S!LOWER
  <2>3. QED
    BY <1>3, <2>1, <2>2
<1>4. CASE ~(65 <= c /\ c <= 90) /\ ~(97 <= c /\ c <= 122)
  <2>1. S!ToLowerCase(c) = c /\ S!ToUpperCase(c) = c
    BY <1>1, <1>4 DEF S!ToLowerCase, S!ToUpperCase
  <2>2. QED
    BY <2>1
<1>5. QED
  BY <1>2, <1>3, <1>4

(* The conversions of whole strings undo each other, and a duplicate has   *)
(* the same characters (kstring.c:178-204).                                *)
LEMMA CaseRight ==
  ASSUME NEW a, IsText(a), NEW garbage
  PROVE  /\ S!LowerCase(S!UpperCase(a)) = S!LowerCase(a)
         /\ S!UpperCase(S!LowerCase(a)) = S!UpperCase(a)
         /\ S!Text(S!Duplicate(a, garbage)) = S!Text(a)
<1> DEFINE l == S!Length(a)
           lower == S!LowerCase(a)
           upper == S!UpperCase(a)
<1>1. Room \in Nat /\ l \in Nat /\ l <= Room /\ DOMAIN a = 0 .. Room
  BY LibkAssumption DEF Room, IsText, Ends
<1>2. /\ a[l] = 0
      /\ \A i \in 0 .. l - 1 : a[i] # 0 /\ a[i] \in Int
  <2>1. a[l] = 0 /\ \A i \in 0 .. l - 1 : a[i] # 0
    BY <1>1, LengthIs DEF IsText
  <2>2. ASSUME NEW i \in 0 .. l - 1 PROVE a[i] \in Int
    <3>1. i \in Int /\ 0 <= i /\ i <= S!Length(a)
      BY <1>1
    <3>2. QED
      BY <3>1, TextFits
  <2>3. QED
    BY <2>1, <2>2
<1>3. /\ lower = [i \in 0 .. Room |-> IF i < l THEN S!ToLowerCase(a[i]) ELSE a[i]]
      /\ upper = [i \in 0 .. Room |-> IF i < l THEN S!ToUpperCase(a[i]) ELSE a[i]]
  BY <1>1 DEF S!LowerCase, S!UpperCase
<1> HIDE DEF l, lower, upper
<1>4. S!Length(lower) = l
  <2>1. DOMAIN lower = 0 .. Room /\ l \in 0 .. Room /\ lower[l] = 0
    BY <1>1, <1>2, <1>3
  <2>2. ASSUME NEW i \in 0 .. l - 1 PROVE lower[i] # 0
    <3>1. lower[i] = S!ToLowerCase(a[i]) /\ a[i] # 0 /\ a[i] \in Int
      BY <1>1, <1>2, <1>3
    <3>2. QED
      BY <3>1, CaseOfCharacter
  <2>3. QED
    BY <1>1, <2>1, <2>2, LengthUnique
<1>5. S!Length(upper) = l
  <2>1. DOMAIN upper = 0 .. Room /\ l \in 0 .. Room /\ upper[l] = 0
    BY <1>1, <1>2, <1>3
  <2>2. ASSUME NEW i \in 0 .. l - 1 PROVE upper[i] # 0
    <3>1. upper[i] = S!ToUpperCase(a[i]) /\ a[i] # 0 /\ a[i] \in Int
      BY <1>1, <1>2, <1>3
    <3>2. QED
      BY <3>1, CaseOfCharacter
  <2>3. QED
    BY <1>1, <2>1, <2>2, LengthUnique
<1>6. S!LowerCase(upper) = lower
  <2>1. S!LowerCase(upper) = [i \in 0 .. Room |-> IF i < l THEN S!ToLowerCase(upper[i]) ELSE upper[i]]
    BY <1>3, <1>5 DEF S!LowerCase
  <2>2. ASSUME NEW i \in 0 .. Room
        PROVE  (IF i < l THEN S!ToLowerCase(upper[i]) ELSE upper[i])
                 = IF i < l THEN S!ToLowerCase(a[i]) ELSE a[i]
    <3>1. CASE i < l
      <4>1. i \in 0 .. l - 1 /\ upper[i] = S!ToUpperCase(a[i])
        BY <1>1, <1>3, <3>1
      <4>2. S!ToLowerCase(S!ToUpperCase(a[i])) = S!ToLowerCase(a[i])
        BY <1>2, <4>1, CaseOfCharacter
      <4>3. QED
        BY <3>1, <4>1, <4>2
    <3>2. CASE ~(i < l)
      BY <1>3, <3>2
    <3>3. QED
      BY <3>1, <3>2
  <2>3. QED
    BY <1>3, <2>1, <2>2
<1>7. S!UpperCase(lower) = upper
  <2>1. S!UpperCase(lower) = [i \in 0 .. Room |-> IF i < l THEN S!ToUpperCase(lower[i]) ELSE lower[i]]
    BY <1>3, <1>4 DEF S!UpperCase
  <2>2. ASSUME NEW i \in 0 .. Room
        PROVE  (IF i < l THEN S!ToUpperCase(lower[i]) ELSE lower[i])
                 = IF i < l THEN S!ToUpperCase(a[i]) ELSE a[i]
    <3>1. CASE i < l
      <4>1. i \in 0 .. l - 1 /\ lower[i] = S!ToLowerCase(a[i])
        BY <1>1, <1>3, <3>1
      <4>2. S!ToUpperCase(S!ToLowerCase(a[i])) = S!ToUpperCase(a[i])
        BY <1>2, <4>1, CaseOfCharacter
      <4>3. QED
        BY <3>1, <4>1, <4>2
    <3>2. CASE ~(i < l)
      BY <1>3, <3>2
    <3>3. QED
      BY <3>1, <3>2
  <2>3. QED
    BY <1>3, <2>1, <2>2
<1>8. S!Text(S!Duplicate(a, garbage)) = S!Text(a)
  <2> DEFINE dst == [i \in 0 .. l |-> garbage]
             r == S!CopyAt(dst, 0, a, l)
  <2>1. S!Duplicate(a, garbage) = r
    BY DEF S!Duplicate, S!Copy, l
  <2>2. l = S!CopyEnd(a, l)
    BY <1>1 DEF S!CopyEnd, S!AtMost, l
  <2>3. DOMAIN dst = 0 .. l /\ \A i \in 0 .. 0 - 1 : dst[i] # 0
    OBVIOUS
  <2> HIDE DEF dst
  <2>4. /\ \A i \in 0 .. l - 1 : S!CopyAt(dst, 0, a, l)[0 + i] = a[i]
        /\ S!Length(S!CopyAt(dst, 0, a, l)) = 0 + l
    BY <1>1, <2>2, <2>3, CopyAtIs
  <2>5. S!Length(r) = l /\ \A i \in 0 .. l - 1 : r[i] = a[i]
    BY <1>1, <2>4
  <2> HIDE DEF r
  <2>6. /\ S!Text(r) = [i \in 1 .. l |-> r[i - 1]]
        /\ S!Text(a) = [i \in 1 .. l |-> a[i - 1]]
    BY <2>5 DEF S!Text, l
  <2>7. \A i \in 1 .. l : r[i - 1] = a[i - 1]
    <3>1. \A i \in 1 .. l : i - 1 \in 0 .. l - 1
      BY <1>1
    <3>2. QED
      BY <2>5, <3>1
  <2>8. QED
    BY <2>1, <2>6, <2>7
<1>9. QED
  BY <1>6, <1>7, <1>8 DEF lower, upper

(* kstring_find_str is never past an occurrence behind the first place     *)
(* (kstring.c:164-176).                                                    *)
THEOREM FindStrSound ==
  ASSUME NEW a, IsText(a), NEW b, IsText(b), S!Length(b) > 0,
         NEW at \in 1 .. S!Length(a) - S!Length(b),
         \A k \in 0 .. S!Length(b) - 1 : a[at + k] = b[k]
  PROVE  S!FindStr(a, b) \in 1 .. at
<1> DEFINE la == S!Length(a)
           lb == S!Length(b)
           stops(k) == a[at + k] # b[k] \/ a[at + k + 1] = 0 \/ b[k + 1] = 0
           T == {k \in 0 .. lb - 1 : stops(k)}
           m == S!Min(T)
<1>1. la \in Nat /\ lb \in Nat /\ lb > 0 /\ Room \in Nat
  BY LibkAssumption DEF IsText, Room
<1>2. b[lb] = 0 /\ \A k \in 0 .. lb - 1 : b[k] # 0
  BY <1>1, LengthIs DEF IsText
<1>3. lb - 1 \in T
  BY <1>1, <1>2
<1>4. ASSUME NEW k \in T PROVE k >= lb - 1
  <2> SUFFICES ASSUME k < lb - 1 PROVE FALSE
    BY <1>1
  <2>1. k \in 0 .. lb - 1 /\ stops(k) /\ k + 1 \in 0 .. lb - 1 /\ at + (k + 1) = at + k + 1
    BY <1>1
  <2>2. a[at + k] = b[k] /\ a[at + (k + 1)] = b[k + 1] /\ b[k + 1] # 0
    BY <1>2, <2>1
  <2>3. QED
    BY <2>1, <2>2
<1>5. m = lb - 1
  <2>1. T \in SUBSET Nat /\ T # {}
    BY <1>1, <1>3
  <2> HIDE DEF T
  <2>2. m \in T /\ m <= lb - 1
    BY <1>3, <2>1, MinIs
  <2>3. m >= lb - 1 /\ m \in Nat
    BY <1>4, <2>1, <2>2
  <2> HIDE DEF m
  <2>4. QED
    BY <1>1, <2>2, <2>3
<1>6. S!Matches(a, b, at)
  <2>1. S!Matches(a, b, at) <=> b[m + 1] = 0
    BY DEF S!Matches
  <2>2. m + 1 = lb
    BY <1>1, <1>5
  <2>3. QED
    BY <1>2, <2>1, <2>2
<1> DEFINE P == {p \in 1 .. la : S!Matches(a, b, p)}
<1>7. at \in P
  BY <1>1, <1>6
<1>8. P \in SUBSET Nat /\ P # {} /\ P \subseteq 1 .. la
  BY <1>1, <1>7
<1>9. S!FindStr(a, b) = S!Min(P)
  BY <1>8 DEF S!FindStr, S!Least
<1> HIDE DEF P
<1>10. S!Min(P) \in P /\ S!Min(P) <= at
  BY <1>7, <1>8, MinIs
<1>11. S!FindStr(a, b) \in 1 .. la /\ S!FindStr(a, b) <= at
  BY <1>8, <1>9, <1>10
<1>12. QED
  BY <1>1, <1>11
---------------------------------------------------------------------------
(* The digits of a format, read from a place that has one, end at or       *)
(* before its terminator.                                                  *)
LEMMA DigitsEndIs ==
  ASSUME NEW fmt, Len(fmt) \in Nat, NEW i \in Nat \ {0}, i <= Len(fmt) + 1
  PROVE  /\ F!DigitsEnd(fmt, i) \in i .. Len(fmt) + 1
         /\ F!CharAt(fmt, F!DigitsEnd(fmt, i)) \notin F!Digit
         /\ \A k \in i .. F!DigitsEnd(fmt, i) - 1 : fmt[k] \in F!Digit
<1> DEFINE T == {j \in i .. Len(fmt) + 1 : F!CharAt(fmt, j) \notin F!Digit}
           Ends0(j) == F!CharAt(fmt, j) \notin F!Digit /\ \A k \in i .. j - 1 : fmt[k] \in F!Digit
<1>1. Len(fmt) + 1 \in T
  <2>1. ~(Len(fmt) + 1 <= Len(fmt)) /\ Len(fmt) + 1 \in i .. Len(fmt) + 1
    OBVIOUS
  <2>2. F!CharAt(fmt, Len(fmt) + 1) = ""
    BY <2>1, Zenon DEF F!CharAt
  <2>3. "" \notin F!Digit
    BY DEF F!Digit
  <2>4. F!CharAt(fmt, Len(fmt) + 1) \notin F!Digit
    BY <2>2, <2>3, Zenon
  <2>5. QED
    BY <2>1, <2>4
<1>2. PICK j \in T : \A k \in T : j <= k
  <2>1. T \in SUBSET Nat
    OBVIOUS
  <2> HIDE DEF T
  <2>2. QED
    BY <1>1, <2>1, Least
<1>3. ASSUME NEW k \in i .. j - 1 PROVE fmt[k] \in F!Digit
  <2>1. k \in i .. Len(fmt) + 1 /\ k <= Len(fmt) /\ ~(j <= k)
    OBVIOUS
  <2>2. F!CharAt(fmt, k) \in F!Digit
    BY <1>2, <2>1
  <2>3. QED
    BY <2>1, <2>2 DEF F!CharAt
<1>4. j \in i .. Len(fmt) + 1 /\ Ends0(j)
  BY <1>3
<1>5. F!DigitsEnd(fmt, i) = CHOOSE m \in i .. Len(fmt) + 1 : Ends0(m)
  BY DEF F!DigitsEnd
<1>6. F!DigitsEnd(fmt, i) \in i .. Len(fmt) + 1 /\ Ends0(F!DigitsEnd(fmt, i))
  <2> HIDE DEF Ends0
  <2>1. QED
    BY <1>4, <1>5
<1>7. QED
  BY <1>6

(* A digit has a value.                                                    *)
LEMMA ValueOfDigit ==
  ASSUME NEW c \in F!Digit
  PROVE  F!ValueOf(c) \in 0 .. 9
<1> DEFINE digits == <<"0", "1", "2", "3", "4", "5", "6", "7", "8", "9">>
<1>1. \E v \in 0 .. 9 : digits[v + 1] = c
  <2>1. /\ digits[0 + 1] = "0" /\ digits[1 + 1] = "1" /\ digits[2 + 1] = "2" /\ digits[3 + 1] = "3"
        /\ digits[4 + 1] = "4" /\ digits[5 + 1] = "5" /\ digits[6 + 1] = "6" /\ digits[7 + 1] = "7"
        /\ digits[8 + 1] = "8" /\ digits[9 + 1] = "9"
    OBVIOUS
  <2> HIDE DEF digits
  <2>2. QED
    BY <2>1 DEF F!Digit
<1>2. F!ValueOf(c) = CHOOSE v \in 0 .. 9 : digits[v + 1] = c
  BY DEF F!ValueOf
<1> HIDE DEF digits
<1>3. QED
  BY <1>1, <1>2

(* So has a run of digits.                                                 *)
LEMMA ExtractIntIs ==
  ASSUME NEW fmt, Len(fmt) \in Nat, NEW i \in Nat \ {0}, i <= Len(fmt) + 1
  PROVE  F!ExtractInt(fmt, i) \in Nat
<1> DEFINE e == F!DigitsEnd(fmt, i)
           one(k) == [v \in Nat |-> v * 10 + F!ValueOf(fmt[k - 1])]
           steps == [k \in i + 1 .. e |-> one(k)]
<1>1. e \in i .. Len(fmt) + 1 /\ \A k \in i .. e - 1 : fmt[k] \in F!Digit
  BY DigitsEndIs
<1> HIDE DEF e
<1>2. ASSUME NEW k \in i + 1 .. e PROVE one(k) \in [Nat -> Nat]
  <2>1. k - 1 \in i .. e - 1
    BY <1>1
  <2>2. F!ValueOf(fmt[k - 1]) \in Nat
    BY <1>1, <2>1, ValueOfDigit
  <2>3. QED
    BY <2>2
<1>3. MapsAt(steps, Nat, i, e)
  BY <1>2 DEF MapsAt
<1>4. ASSUME NEW k \in i + 1 .. e, NEW v \in Nat
      PROVE  steps[k][v] = v * 10 + F!ValueOf(fmt[k - 1])
  OBVIOUS
<1> HIDE DEF steps
<1>5. PICK g : Unfolds(g, Nat, steps, 0, i, e)
  <2>1. i \in Int /\ e \in Int /\ 0 \in Nat
    BY <1>1
  <2>2. QED
    BY <1>3, <2>1, Unfolding, Zenon
<1> DEFINE Is(h) == h = [j \in i .. e |-> IF j = i THEN 0 ELSE h[j - 1] * 10 + F!ValueOf(fmt[j - 1])]
<1>6. Is(g)
  <2>1. ASSUME NEW j \in i .. e
        PROVE  g[j] = IF j = i THEN 0 ELSE g[j - 1] * 10 + F!ValueOf(fmt[j - 1])
    <3>1. CASE j = i
      BY <1>5, <3>1 DEF Unfolds
    <3>2. CASE j # i
      <4>1. j \in i + 1 .. e /\ j - 1 \in i .. e
        BY <1>1, <3>2
      <4>2. g[j - 1] \in Nat /\ g[j] = steps[j][g[j - 1]]
        BY <1>5, <3>2, <4>1 DEF Unfolds
      <4>3. QED
        BY <1>4, <3>2, <4>1, <4>2
    <3>3. QED
      BY <3>1, <3>2
  <2>2. g = [j \in i .. e |-> g[j]]
    BY <1>5 DEF Unfolds
  <2>3. QED
    BY <2>1, <2>2
<1> DEFINE value == CHOOSE h : Is(h)
<1>7. Is(value)
  <2> HIDE DEF Is
  <2>1. QED
    BY <1>6
<1>8. F!ExtractInt(fmt, i) = value[e]
  BY DEF F!ExtractInt, e
<1> DEFINE T == {n \in Nat : i + n <= e => value[i + n] \in Nat}
<1>9. 0 \in T
  <2>1. i \in i .. e
    BY <1>1
  <2>2. value[i] = 0
    BY <1>7, <2>1
  <2>3. QED
    BY <2>2
<1>10. ASSUME NEW n \in Nat, n \in T PROVE n + 1 \in T
  <2> SUFFICES ASSUME i + (n + 1) <= e PROVE value[i + (n + 1)] \in Nat
    OBVIOUS
  <2>1. i + (n + 1) \in i .. e /\ i + (n + 1) # i /\ (i + (n + 1)) - 1 = i + n /\ i + n <= e
        /\ i + n \in i .. e - 1
    BY <1>1
  <2>2. value[i + (n + 1)] = value[i + n] * 10 + F!ValueOf(fmt[i + n])
    <3> HIDE DEF value
    <3>1. QED
      BY <1>7, <2>1
  <2>3. value[i + n] \in Nat
    BY <1>10, <2>1
  <2>4. F!ValueOf(fmt[i + n]) \in Nat
    BY <1>1, <2>1, ValueOfDigit
  <2> HIDE DEF value
  <2>5. QED
    BY <2>2, <2>3, <2>4
<1> HIDE DEF value
<1>11. Nat \subseteq T
  <2> HIDE DEF T
  <2>1. QED
    BY <1>9, <1>10, Induct
<1>12. e - i \in Nat /\ i + (e - i) = e /\ e <= e
  BY <1>1
<1>13. value[i + (e - i)] \in Nat
  BY <1>11, <1>12
<1>14. QED
  BY <1>8, <1>12, <1>13

\* An output that is over its end by no more than one argument, or by four.
Over(p, q, n) == p < q + n \/ p <= q + 4

(* Padding a string of n characters and copying it begins at most two past *)
(* the end, and so stays that near (kstring_format.c:77-109).              *)
LEMMA DoStringIs ==
  ASSUME NEW flags, flags.field_width \in Nat, NEW p \in Nat, NEW q \in Nat, p <= q + 2, NEW n \in Nat
  PROVE  F!DoString(flags, p, q, n) \in Nat /\ Over(F!DoString(flags, p, q, n), q, n)
<1> DEFINE padding == IF n < flags.field_width THEN flags.field_width - n ELSE 0
<1>1. padding \in Nat
  OBVIOUS
<1> HIDE DEF padding
<1>2. ASSUME NEW r \in Nat
      PROVE  /\ F!Padded(r, q, padding) \in Nat
             /\ r >= q => F!Padded(r, q, padding) = r
             /\ r < q => F!Padded(r, q, padding) <= q
  BY <1>1 DEF F!Padded
<1>3. ASSUME NEW r \in Nat, r <= q + 2
      PROVE  F!CopiedTo(r, q, n) \in Nat /\ Over(F!CopiedTo(r, q, n), q, n)
  <2>1. CASE r < q
    BY <2>1 DEF F!CopiedTo, Over
  <2>2. CASE ~(r < q) /\ n < r - q
    BY <1>3, <2>2 DEF F!CopiedTo, Over
  <2>3. CASE ~(r < q) /\ ~(n < r - q)
    BY <1>3, <2>3 DEF F!CopiedTo, Over
  <2>4. QED
    BY <2>1, <2>2, <2>3
<1>4. F!DoString(flags, p, q, n)
        = IF flags.left_pad THEN F!CopiedTo(F!Padded(p, q, padding), q, n)
                            ELSE F!Padded(F!CopiedTo(p, q, n), q, padding)
  BY DEF F!DoString, padding
<1>5. CASE flags.left_pad
  <2>1. F!Padded(p, q, padding) \in Nat /\ F!Padded(p, q, padding) <= q + 2
    BY <1>2
  <2>2. QED
    BY <1>3, <1>4, <1>5, <2>1
<1>6. CASE ~flags.left_pad
  <2> DEFINE c == F!CopiedTo(p, q, n)
  <2>1. c \in Nat /\ Over(c, q, n)
    BY <1>3
  <2> HIDE DEF c
  <2>2. F!Padded(c, q, padding) \in Nat /\ Over(F!Padded(c, q, padding), q, n)
    BY <1>2, <2>1 DEF Over
  <2>3. QED
    BY <1>4, <1>6, <2>2 DEF c
<1>7. QED
  BY <1>5, <1>6

\* What a format that is being read looks like.
Widths == {"int", "char", "short", "long", "longlong", "intmax", "size", "ptrdiff", "longdouble"}
FormatFlags ==
  [left_pad : BOOLEAN, signed_pos : BOOLEAN, prefix : BOOLEAN, type_width : Widths,
   field_width : Nat, precision : Nat]
Modes == {"text", "arg", "done", "error", "abort", "undefined"}
Formats ==
  [i : Nat \ {0}, p : Nat, words : Nat, mode : Modes, flags : FormatFlags]

\* While it is read, the output is not over its end; at last it is by one item.
Within(st, q, item) ==
  /\ st \in Formats
  /\ st.mode \in {"text", "arg"} => st.p <= q
  /\ Over(st.p, q, item)

(* The flags that a conversion begins with.                                *)
LEMMA DefaultsAreFlags == F!defaults \in FormatFlags
  BY DEF F!defaults, FormatFlags, Widths

(* An argument that ends near enough keeps the format so.                  *)
LEMMA EndArgKeeps ==
  ASSUME NEW st \in Formats, NEW q \in Nat, NEW item \in Nat, NEW p \in Nat, Over(p, q, item),
         NEW words \in Nat
  PROVE  Within(F!EndArg(st, q, p, words), q, item)
<1> DEFINE r == F!EndArg(st, q, p, words)
           mode == IF p > q THEN "error" ELSE "text"
<1>1. r = [st EXCEPT !.p = p, !.words = st.words + words, !.i = st.i + 1, !.mode = mode]
  BY DEF F!EndArg
<1>2. mode \in Modes /\ (mode = "text" => p <= q) /\ mode # "arg"
  BY DEF Modes
<1> HIDE DEF r, mode
<1>3. st.words + words \in Nat /\ st.i + 1 \in Nat \ {0}
  BY DEF Formats
<1>4. r \in Formats /\ r.p = p /\ r.mode = mode
  BY <1>1, <1>2, <1>3 DEF Formats
<1>5. QED
  BY <1>2, <1>4 DEF Within, r

(* A number with its sign and prefix does.                                 *)
LEMMA FormatNumberKeeps ==
  ASSUME NEW st \in Formats, NEW q \in Nat, st.p < q, NEW item \in Nat, NEW flags \in FormatFlags,
         NEW prefix \in 0 .. 2
  PROVE  Within(F!FormatNumber(st, q, flags, prefix, item), q, item)
<1> DEFINE p == st.p + (IF flags.signed_pos THEN 1 ELSE 0) + (IF flags.prefix THEN prefix ELSE 0)
<1>1. st.p \in Nat
  BY DEF Formats
<1>2. p \in Nat /\ p <= q + 2
  BY <1>1
<1>3. F!FormatNumber(st, q, flags, prefix, item)
        = IF flags.type_width = "longdouble" THEN [st EXCEPT !.mode = "abort"]
          ELSE F!EndArg(st, q, F!DoString(flags, p, q, item), F!WordsOf(flags.type_width))
  BY DEF F!FormatNumber
<1> HIDE DEF p
<1>4. CASE flags.type_width = "longdouble"
  <2>1. [st EXCEPT !.mode = "abort"] \in Formats
    BY DEF Formats, Modes
  <2>2. /\ [st EXCEPT !.mode = "abort"].mode = "abort"
        /\ [st EXCEPT !.mode = "abort"].p = st.p
    BY DEF Formats
  <2>3. Over(st.p, q, item)
    BY <1>1 DEF Over
  <2>4. QED
    BY <1>3, <1>4, <2>1, <2>2, <2>3 DEF Within
<1>5. CASE flags.type_width # "longdouble"
  <2>1. flags.field_width \in Nat
    BY DEF FormatFlags
  <2>2. F!DoString(flags, p, q, item) \in Nat /\ Over(F!DoString(flags, p, q, item), q, item)
    BY <1>2, <2>1, DoStringIs
  <2>3. F!WordsOf(flags.type_width) \in Nat
    BY DEF F!WordsOf
  <2>4. QED
    BY <1>3, <1>5, <2>2, <2>3, EndArgKeeps
<1>6. QED
  BY <1>4, <1>5

(* A string does, whatever of it the precision cuts off, and a pointer.    *)
LEMMA FormatStringKeeps ==
  ASSUME NEW st \in Formats, NEW q \in Nat, st.p < q, NEW item \in Nat
  PROVE  Within(F!FormatString(st, q, item), q, item)
<1> DEFINE cut == IF st.flags.precision > 0 /\ st.flags.precision < item THEN st.flags.precision ELSE item
           r == F!DoString(st.flags, st.p, q, cut)
<1>1. st.p \in Nat /\ st.flags.precision \in Nat /\ st.flags.field_width \in Nat
  BY DEF Formats, FormatFlags
<1>2. cut \in Nat /\ cut <= item
  BY <1>1
<1>3. F!FormatString(st, q, item) = F!EndArg(st, q, r, 1)
  BY DEF F!FormatString
<1> HIDE DEF cut
<1>4. r \in Nat /\ Over(r, q, cut)
  <2>1. st.p <= q + 2
    BY <1>1
  <2>2. QED
    BY <1>1, <1>2, <2>1, DoStringIs
<1> HIDE DEF r
<1>5. Over(r, q, item)
  BY <1>2, <1>4 DEF Over
<1>6. QED
  BY <1>3, <1>4, <1>5, EndArgKeeps

LEMMA FormatPointerKeeps ==
  ASSUME NEW st \in Formats, NEW q \in Nat, st.p < q, NEW item \in Nat
  PROVE  Within(F!FormatPointer(st, q, item), q, item)
<1> DEFINE flags == [F!defaults EXCEPT !.field_width = 8, !.prefix = st.flags.prefix, !.type_width = "long"]
<1>1. st.flags.prefix \in BOOLEAN
  BY DEF Formats, FormatFlags
<1>2. flags \in FormatFlags
  BY <1>1, DefaultsAreFlags DEF FormatFlags, Widths
<1>3. F!FormatPointer(st, q, item) = F!FormatNumber(st, q, flags, 2, item)
  BY DEF F!FormatPointer
<1> HIDE DEF flags
<1>4. QED
  BY <1>2, <1>3, FormatNumberKeeps

(* New flags and a new place keep it, for the output does not move.        *)
LEMMA SetFlagKeeps ==
  ASSUME NEW q \in Nat, NEW item \in Nat, NEW st, Within(st, q, item), st.mode = "arg",
         NEW flags \in FormatFlags, NEW i \in Nat \ {0}
  PROVE  /\ Within(F!SetFlag(st, flags, i), q, item)
         /\ Within([F!SetFlag(st, flags, i) EXCEPT !.words = @ + 1], q, item)
<1>1. st \in Formats /\ st.p <= q /\ Over(st.p, q, item)
  BY DEF Within
<1>2. F!SetFlag(st, flags, i) = [st EXCEPT !.flags = flags, !.i = i]
  BY DEF F!SetFlag
<1> DEFINE r == [st EXCEPT !.flags = flags, !.i = i]
<1>3. r \in Formats /\ r.p = st.p
  BY <1>1 DEF Formats
<1> HIDE DEF r
<1>4. [r EXCEPT !.words = r.words + 1] \in Formats /\ [r EXCEPT !.words = r.words + 1].p = st.p
  <2>1. r.words + 1 \in Nat
    BY <1>3 DEF Formats
  <2>2. QED
    BY <1>3, <2>1 DEF Formats
<1>5. QED
  BY <1>1, <1>2, <1>3, <1>4 DEF Within, r

(* A length modifier is one of the widths.                                 *)
LEMMA ModifierIs ==
  ASSUME NEW fmt, NEW i, fmt[i] \in {"j", "z", "t", "L", "q", "h", "l"}
  PROVE  F!Modifier(fmt, i) \in Widths
<1>1. CASE fmt[i] \in {"j", "z", "t"}
  BY <1>1, Zenon DEF F!Modifier, Widths
<1>2. CASE fmt[i] \in {"L", "q"}
  BY <1>2, Zenon DEF F!Modifier, Widths
<1>3. CASE fmt[i] = "h"
  BY <1>3, Zenon DEF F!Modifier, Widths
<1>4. CASE fmt[i] = "l"
  BY <1>4, Zenon DEF F!Modifier, Widths
<1>5. QED
  BY <1>1, <1>2, <1>3, <1>4

(* A character of the format that is not its end has a place in it.        *)
LEMMA CharIn ==
  ASSUME NEW fmt, Len(fmt) \in Nat, NEW i \in Nat, F!CharAt(fmt, i) # ""
  PROVE  i <= Len(fmt) /\ fmt[i] = F!CharAt(fmt, i)
<1>1. i <= Len(fmt)
  BY Zenon DEF F!CharAt
<1>2. QED
  BY <1>1, Zenon DEF F!CharAt

(* Every character of a conversion keeps the output near its end           *)
(* (kstring_format.c:236-343).                                             *)
LEMMA ConversionKeeps ==
  ASSUME NEW fmt, Len(fmt) \in Nat, NEW q \in Nat, NEW item \in Nat, NEW star \in Nat,
         NEW st, Within(st, q, item), st.mode = "arg", st.p < q, st.i <= Len(fmt),
         NEW c, fmt[st.i] = c, NEW next
  PROVE  Within(F!Conversion(st, fmt, q, item, star, c, next), q, item)
<1> DEFINE r == F!Conversion(st, fmt, q, item, star, c, next)
<1>1. /\ st \in Formats /\ st.p \in Nat /\ st.i \in Nat \ {0} /\ st.flags \in FormatFlags
      /\ st.p <= q /\ Over(st.p, q, item)
  BY DEF Within, Formats
<1>2. st.i + 1 \in Nat \ {0} /\ st.i + 2 \in Nat \ {0} /\ st.i <= Len(fmt) + 1 /\ st.i + 1 <= Len(fmt) + 1
  BY <1>1, SMTT(60)
<1> SUFFICES Within(r, q, item)
  OBVIOUS
<1> HIDE DEF r
<1>3. ASSUME NEW flags \in FormatFlags, NEW i \in Nat \ {0},
             r = F!SetFlag(st, flags, i) \/ r = [F!SetFlag(st, flags, i) EXCEPT !.words = @ + 1]
      PROVE  Within(r, q, item)
  <2>1. /\ Within(F!SetFlag(st, flags, i), q, item)
        /\ Within([F!SetFlag(st, flags, i) EXCEPT !.words = @ + 1], q, item)
    BY SetFlagKeeps
  <2>2. QED
    BY <1>3, <2>1, Zenon
<1>4. CASE c = "-"
  <2>1. r = F!SetFlag(st, [st.flags EXCEPT !.left_pad = FALSE], st.i + 1)
    BY <1>4, Zenon DEF F!Conversion, F!Digit, r
  <2>2. [st.flags EXCEPT !.left_pad = FALSE] \in FormatFlags
    BY <1>1 DEF FormatFlags
  <2>3. QED
    BY <1>2, <2>1, <2>2, <1>3
<1>5. CASE c \in {"+", " "}
  <2>1. r = F!SetFlag(st, [st.flags EXCEPT !.signed_pos = TRUE], st.i + 1)
    BY <1>5, Zenon DEF F!Conversion, F!Digit, r
  <2>2. [st.flags EXCEPT !.signed_pos = TRUE] \in FormatFlags
    BY <1>1 DEF FormatFlags
  <2>3. QED
    BY <1>2, <2>1, <2>2, <1>3
<1>6. CASE c = "#"
  <2>1. r = F!SetFlag(st, [st.flags EXCEPT !.prefix = TRUE], st.i + 1)
    BY <1>6, Zenon DEF F!Conversion, F!Digit, r
  <2>2. [st.flags EXCEPT !.prefix = TRUE] \in FormatFlags
    BY <1>1 DEF FormatFlags
  <2>3. QED
    BY <1>2, <2>1, <2>2, <1>3
<1>7. CASE c = "0"
  <2>1. r = F!SetFlag(st, st.flags, st.i + 1)
    BY <1>7, Zenon DEF F!Conversion, F!Digit, r
  <2>2. st.flags \in FormatFlags
    BY <1>1 DEF FormatFlags
  <2>3. QED
    BY <1>2, <2>1, <2>2, <1>3
<1>8. CASE c = "*"
  <2>1. r = [F!SetFlag(st, [st.flags EXCEPT !.field_width = star], st.i + 1) EXCEPT !.words = @ + 1]
    BY <1>8, Zenon DEF F!Conversion, F!Digit, r
  <2>2. [st.flags EXCEPT !.field_width = star] \in FormatFlags
    BY <1>1 DEF FormatFlags
  <2>3. QED
    BY <1>2, <2>1, <2>2, <1>3
<1>9. CASE c = "." /\ next \in F!Digit
  <2>1. r = F!SetFlag(st, [st.flags EXCEPT !.precision = F!ExtractInt(fmt, st.i + 1)], F!DigitsEnd(fmt, st.i + 1))
    BY <1>9, Zenon DEF F!Conversion, F!Digit, r
  <2>2. F!DigitsEnd(fmt, st.i + 1) \in st.i + 1 .. Len(fmt) + 1
    BY <1>1, <1>2, DigitsEndIs
  <2>3. F!ExtractInt(fmt, st.i + 1) \in Nat /\ F!DigitsEnd(fmt, st.i + 1) \in Nat \ {0}
    BY <1>1, <1>2, <2>2, ExtractIntIs, SMTT(60)
  <2>4. [st.flags EXCEPT !.precision = F!ExtractInt(fmt, st.i + 1)] \in FormatFlags
    BY <1>1, <2>3 DEF FormatFlags
  <2>5. QED
    BY <2>1, <2>3, <2>4, <1>3
<1>10. CASE c = "." /\ next = "*"
  <2>1. r = [F!SetFlag(st, [st.flags EXCEPT !.precision = star], st.i + 2) EXCEPT !.words = @ + 1]
    BY <1>10, Zenon DEF F!Conversion, F!Digit, r
  <2>2. [st.flags EXCEPT !.precision = star] \in FormatFlags
    BY <1>1 DEF FormatFlags
  <2>3. QED
    BY <1>2, <2>1, <2>2, <1>3
<1>11. CASE c = "." /\ next \notin F!Digit \union {"*"}
  <2>1. r = F!SetFlag(st, [st.flags EXCEPT !.precision = 0], st.i + 1)
    BY <1>11, Zenon DEF F!Conversion, F!Digit, r
  <2>2. [st.flags EXCEPT !.precision = 0] \in FormatFlags
    BY <1>1 DEF FormatFlags
  <2>3. QED
    BY <1>2, <2>1, <2>2, <1>3
<1>12. CASE c \in F!Digit \ {"0"}
  <2>1. r = F!SetFlag(st, [st.flags EXCEPT !.field_width = F!ExtractInt(fmt, st.i)], F!DigitsEnd(fmt, st.i))
    BY <1>12, Zenon DEF F!Conversion, F!Digit, r
  <2>2. F!DigitsEnd(fmt, st.i) \in st.i .. Len(fmt) + 1
    BY <1>1, <1>2, DigitsEndIs
  <2>3. F!ExtractInt(fmt, st.i) \in Nat /\ F!DigitsEnd(fmt, st.i) \in Nat \ {0}
    BY <1>1, <1>2, <2>2, ExtractIntIs, SMTT(60)
  <2>4. [st.flags EXCEPT !.field_width = F!ExtractInt(fmt, st.i)] \in FormatFlags
    BY <1>1, <2>3 DEF FormatFlags
  <2>5. QED
    BY <2>1, <2>3, <2>4, <1>3
<1>13. CASE c \in {"j", "z", "t", "L", "q", "h", "l"}
  <2>1. r = F!SetFlag(st, [st.flags EXCEPT !.type_width = F!Modifier(fmt, st.i)], st.i + 1)
    BY <1>13, Zenon DEF F!Conversion, F!Digit, r
  <2>2. F!Modifier(fmt, st.i) \in Widths
    BY <1>13, ModifierIs
  <2>3. [st.flags EXCEPT !.type_width = F!Modifier(fmt, st.i)] \in FormatFlags
    BY <1>1, <2>2 DEF FormatFlags
  <2>4. QED
    BY <1>2, <2>1, <2>3, <1>3
<1>14. CASE c \in {"d", "i", "u"}
  <2>1. r = F!FormatNumber(st, q, st.flags, 0, item)
    BY <1>14, Zenon DEF F!Conversion, F!Digit, r
  <2>2. 0 \in 0 .. 2
    OBVIOUS
  <2>3. QED
    BY <1>1, <2>1, <2>2, FormatNumberKeeps
<1>15. CASE c \in {"b", "o"}
  <2>1. r = F!FormatNumber(st, q, st.flags, 1, item)
    BY <1>15, Zenon DEF F!Conversion, F!Digit, r
  <2>2. 1 \in 0 .. 2
    OBVIOUS
  <2>3. QED
    BY <1>1, <2>1, <2>2, FormatNumberKeeps
<1>16. CASE c \in {"x", "X"}
  <2>1. r = F!FormatNumber(st, q, st.flags, 2, item)
    BY <1>16, Zenon DEF F!Conversion, F!Digit, r
  <2>2. 2 \in 0 .. 2
    OBVIOUS
  <2>3. QED
    BY <1>1, <2>1, <2>2, FormatNumberKeeps
<1>17. CASE c = "c"
  <2>1. r = F!EndArg(st, q, F!DoString(st.flags, st.p, q, 1), 1)
    BY <1>17, Zenon DEF F!Conversion, F!Digit, r
  <2>2. F!DoString(st.flags, st.p, q, 1) \in Nat /\ Over(F!DoString(st.flags, st.p, q, 1), q, 1)
    <3>1. st.flags.field_width \in Nat /\ st.p <= q + 2
      BY <1>1 DEF FormatFlags
    <3>2. QED
      BY <1>1, <3>1, DoStringIs
  <2>3. Over(F!DoString(st.flags, st.p, q, 1), q, item)
    BY <2>2 DEF Over
  <2>4. QED
    BY <1>1, <2>1, <2>2, <2>3, EndArgKeeps
<1>18. CASE c = "s"
  <2>1. r = F!FormatString(st, q, item)
    BY <1>18, Zenon DEF F!Conversion, F!Digit, r
  <2>2. QED
    BY <1>1, <2>1, FormatStringKeeps
<1>19. CASE c = "p"
  <2>1. r = F!FormatPointer(st, q, item)
    BY <1>19, Zenon DEF F!Conversion, F!Digit, r
  <2>2. QED
    BY <1>1, <2>1, FormatPointerKeeps
<1>20. CASE c = "n"
  <2>1. r = F!EndArg(st, q, st.p, 1)
    BY <1>20, Zenon DEF F!Conversion, F!Digit, r
  <2>2. QED
    BY <1>1, <2>1, EndArgKeeps
<1>21. CASE c \notin {"-", "+", " ", "#", "0", "*", ".", "j", "z", "t", "L", "q", "h", "l", "d", "i",
                    "u", "b", "o", "x", "X", "c", "s", "p", "n"} \union F!Digit
  <2>1. r = [st EXCEPT !.mode = "error"]
    BY <1>21, Zenon DEF F!Conversion, F!Digit, r
  <2>2. [st EXCEPT !.mode = "error"] \in Formats
    BY <1>1 DEF Formats, Modes
  <2>3. [st EXCEPT !.mode = "error"].p = st.p /\ [st EXCEPT !.mode = "error"].mode = "error"
    BY <1>1 DEF Formats
  <2>4. QED
    BY <1>1, <2>1, <2>2, <2>3 DEF Within
<1>22. QED
  BY <1>4, <1>5, <1>6, <1>7, <1>8, <1>9, <1>10, <1>11, <1>12, <1>13, <1>14, <1>15, <1>16, <1>17, <1>18, <1>19, <1>20,
     <1>21, Zenon DEF F!Digit

(* So does a turn of the loop that reads one.                              *)
LEMMA ArgStepKeeps ==
  ASSUME NEW fmt, Len(fmt) \in Nat, NEW q \in Nat, NEW item \in Nat, NEW star \in Nat,
         NEW st, Within(st, q, item), st.mode = "arg"
  PROVE  Within(F!ArgStep(st, fmt, q, item, star), q, item)
<1> DEFINE c == F!CharAt(fmt, st.i)
           next == F!CharAt(fmt, st.i + 1)
<1>1. /\ st \in Formats /\ st.p \in Nat /\ st.i \in Nat \ {0} /\ st.p <= q /\ Over(st.p, q, item)
  BY DEF Within, Formats
<1>2. F!ArgStep(st, fmt, q, item, star)
        = IF st.p >= q \/ c = "" THEN [st EXCEPT !.mode = "text", !.i = st.i + 1]
          ELSE F!Conversion(st, fmt, q, item, star, c, next)
  BY Zenon DEF F!ArgStep
<1>3. CASE st.p >= q \/ c = ""
  <2>1. F!ArgStep(st, fmt, q, item, star) = [st EXCEPT !.mode = "text", !.i = st.i + 1]
    BY <1>2, <1>3, Zenon
  <2>2. [st EXCEPT !.mode = "text", !.i = st.i + 1] \in Formats
    <3>1. st.i + 1 \in Nat \ {0}
      BY <1>1
    <3>2. QED
      BY <1>1, <3>1 DEF Formats, Modes
  <2>3. [st EXCEPT !.mode = "text", !.i = st.i + 1].p = st.p
    BY <1>1 DEF Formats
  <2>4. QED
    BY <1>1, <2>1, <2>2, <2>3 DEF Within
<1>4. CASE ~(st.p >= q) /\ c # ""
  <2>1. F!ArgStep(st, fmt, q, item, star) = F!Conversion(st, fmt, q, item, star, c, next)
    BY <1>2, <1>4, Zenon
  <2>2. st.i <= Len(fmt) /\ fmt[st.i] = c
    BY <1>1, <1>4, CharIn
  <2>3. st.p < q
    <3>1. ~(st.p >= q)
      BY <1>4, Zenon
    <3>2. QED
      BY <1>1, <3>1
  <2> HIDE DEF c, next
  <2>4. QED
    BY <2>1, <2>2, <2>3, ConversionKeeps
<1>5. QED
  BY <1>3, <1>4, Zenon

(* And so does a character of the text between conversions                 *)
(* (kstring_format.c:350-369).                                             *)
LEMMA TextStepKeeps ==
  ASSUME NEW fmt, Len(fmt) \in Nat, NEW q \in Nat, NEW item \in Nat, NEW st, Within(st, q, item),
         st.mode = "text"
  PROVE  Within(F!TextStep(st, fmt, q), q, item)
<1> DEFINE c == F!CharAt(fmt, st.i)
           begun == [st EXCEPT !.mode = "arg", !.i = st.i + 1, !.flags = F!defaults]
           copied == [st EXCEPT !.p = st.p + 1, !.i = st.i + 1]
<1>1. /\ st \in Formats /\ st.p \in Nat /\ st.i \in Nat \ {0} /\ st.p <= q /\ Over(st.p, q, item)
  BY DEF Within, Formats
<1>2. ASSUME NEW mode \in {"undefined", "done"} PROVE Within([st EXCEPT !.mode = mode], q, item)
  <2>1. [st EXCEPT !.mode = mode] \in Formats
    BY <1>1 DEF Formats, Modes
  <2>2. [st EXCEPT !.mode = mode].p = st.p /\ [st EXCEPT !.mode = mode].mode \notin {"text", "arg"}
    BY <1>1 DEF Formats
  <2>3. QED
    BY <1>1, <2>1, <2>2 DEF Within
<1>3. Within(begun, q, item)
  <2>1. st.i + 1 \in Nat \ {0} /\ "arg" \in Modes
    BY <1>1 DEF Modes
  <2>2. begun \in Formats /\ begun.p = st.p
    BY <1>1, <2>1, DefaultsAreFlags DEF Formats
  <2>3. QED
    BY <1>1, <2>2 DEF Within
<1>4. ASSUME st.p < q PROVE Within(copied, q, item)
  <2>1. st.p + 1 \in Nat /\ st.i + 1 \in Nat \ {0} /\ st.p + 1 <= q /\ Over(st.p + 1, q, item)
    BY <1>1, <1>4 DEF Over
  <2>2. copied \in Formats /\ copied.p = st.p + 1
    BY <1>1, <2>1 DEF Formats
  <2>3. QED
    BY <2>1, <2>2 DEF Within
<1>5. st.i <= Len(fmt) + 1 <=> ~(st.i > Len(fmt) + 1)
  BY <1>1
<1>6. st.p < q <=> ~(st.p >= q)
  BY <1>1
<1>7. CASE st.i > Len(fmt) + 1
  <2>1. ~(st.i <= Len(fmt))
    BY <1>1, <1>7
  <2>2. c = ""
    BY <2>1, Zenon DEF F!CharAt
  <2>3. F!TextStep(st, fmt, q) = [st EXCEPT !.mode = "undefined"]
    BY <1>5, <1>7, <2>2, Zenon DEF F!TextStep
  <2>4. QED
    BY <1>2, <2>3
<1>8. CASE ~(st.i > Len(fmt) + 1) /\ (st.p >= q \/ c = "")
  <2>1. F!TextStep(st, fmt, q) = [st EXCEPT !.mode = "done"]
    BY <1>5, <1>6, <1>8, Zenon DEF F!TextStep
  <2>2. QED
    BY <1>2, <2>1
<1>9. CASE ~(st.i > Len(fmt) + 1) /\ ~(st.p >= q \/ c = "")
  <2>1. F!TextStep(st, fmt, q) = begun \/ F!TextStep(st, fmt, q) = copied
    BY <1>5, <1>6, <1>9, Zenon DEF F!TextStep
  <2>2. st.p < q
    BY <1>6, <1>9, Zenon
  <2>3. QED
    BY <1>3, <1>4, <2>1, <2>2, Zenon
<1>10. QED
  BY <1>7, <1>8, <1>9, Zenon

\* A turn of the loop that is under way.
TurnOf(st, fmt, q, item, star) ==
  CASE st.mode = "text" -> F!TextStep(st, fmt, q)
    [] st.mode = "arg"  -> F!ArgStep(st, fmt, q, item, star)
    [] OTHER            -> st

IsRun(run, fmt, q, item, star) ==
  /\ run[0] = F!FormatStart
  /\ F!Vformat(fmt, q, item, star) = run[3 * Len(fmt) + 3]
  /\ \A k \in Nat : Within(run[k], q, item)
  /\ \A k \in Nat : run[k + 1] = TurnOf(run[k], fmt, q, item, star)

(* A call is a run, turn after turn, that keeps near the buffer.           *)
LEMMA VformatRuns ==
  ASSUME NEW fmt, Len(fmt) \in Nat, NEW q \in Nat \ {0}, NEW item \in Nat, NEW star \in Nat
  PROVE  \E run : IsRun(run, fmt, q, item, star)
<1> DEFINE W == {st \in Formats : Within(st, q, item)}
           Turn(st) == CASE st.mode = "text" -> F!TextStep(st, fmt, q)
                         [] st.mode = "arg"  -> F!ArgStep(st, fmt, q, item, star)
                         [] OTHER            -> st
           f == [st \in W |-> Turn(st)]
<1>1. ASSUME NEW st \in W PROVE Turn(st) \in W
  <2>1. Within(st, q, item)
    OBVIOUS
  <2>2. Within(Turn(st), q, item)
    <3>1. CASE st.mode = "text"
      <4>1. Turn(st) = F!TextStep(st, fmt, q)
        BY <3>1, Zenon
      <4> HIDE DEF Turn
      <4>2. QED
        BY <2>1, <3>1, <4>1, TextStepKeeps
    <3>2. CASE st.mode = "arg"
      <4>1. Turn(st) = F!ArgStep(st, fmt, q, item, star)
        BY <3>2, Zenon
      <4> HIDE DEF Turn
      <4>2. QED
        BY <2>1, <3>2, <4>1, ArgStepKeeps
    <3>3. CASE st.mode # "text" /\ st.mode # "arg"
      <4>1. Turn(st) = st
        BY <3>3, Zenon
      <4>2. QED
        BY <2>1, <4>1, Zenon
    <3>4. QED
      BY <3>1, <3>2, <3>3, Zenon
  <2> HIDE DEF Turn
  <2>3. QED
    BY <2>2 DEF Within
<1>2. F!FormatStart \in W
  <2>1. F!FormatStart \in Formats /\ F!FormatStart.p = 0
    BY DefaultsAreFlags DEF F!FormatStart, Formats, Modes
  <2>2. QED
    BY <2>1 DEF Within, Over
<1>3. Maps(f, W)
  <2> HIDE DEF W, Turn
  <2>1. QED
    BY <1>1 DEF Maps
<1>4. \A st \in W : f[st] = Turn(st)
  OBVIOUS
<1>5. PICK g : Repeats(g, W, f, F!FormatStart)
  <2> HIDE DEF W, f
  <2>1. QED
    BY <1>2, <1>3, Repeated, Zenon
<1> DEFINE Is(h) == h = [k \in Nat |-> IF k = 0 THEN F!FormatStart ELSE Turn(h[k - 1])]
<1> HIDE DEF f
<1>6. Is(g)
  <2> HIDE DEF Turn, W
  <2>1. ASSUME NEW k \in Nat, k # 0 PROVE g[k] = Turn(g[k - 1])
    <3>1. k - 1 \in Nat /\ (k - 1) + 1 = k
      BY <2>1
    <3>2. g[k - 1] \in W /\ g[(k - 1) + 1] = f[g[k - 1]]
      BY <1>5, <3>1 DEF Repeats
    <3>3. QED
      BY <1>4, <3>1, <3>2
  <2>2. g[0] = F!FormatStart /\ g = [k \in Nat |-> g[k]]
    BY <1>5 DEF Repeats
  <2>3. QED
    BY <2>1, <2>2
<1> DEFINE run == CHOOSE h : Is(h)
<1>7. Is(run)
  <2> HIDE DEF Is
  <2>1. QED
    BY <1>6
<1>8. F!Vformat(fmt, q, item, star) = run[3 * Len(fmt) + 3]
  BY DEF F!Vformat
<1> HIDE DEF run
<1>9. ASSUME NEW k \in Nat PROVE run[k] \in W
  <2> DEFINE T == {n \in Nat : run[n] \in W}
  <2> HIDE DEF W, Turn
  <2>1. 0 \in T
    BY <1>2, <1>7
  <2>2. ASSUME NEW n \in Nat, n \in T PROVE n + 1 \in T
    <3>1. n + 1 \in Nat /\ n + 1 # 0 /\ (n + 1) - 1 = n
      OBVIOUS
    <3>2. run[n + 1] = Turn(run[n])
      BY <1>7, <3>1
    <3>3. QED
      BY <1>1, <2>2, <3>2
  <2>3. Nat \subseteq T
    <3> HIDE DEF T
    <3>1. QED
      BY <2>1, <2>2, Induct
  <2>4. QED
    BY <2>3
<1>10. run[0] = F!FormatStart
  BY <1>7
<1>11. ASSUME NEW k \in Nat PROVE run[k + 1] = TurnOf(run[k], fmt, q, item, star)
  <2>1. k + 1 \in Nat /\ k + 1 # 0 /\ (k + 1) - 1 = k
    OBVIOUS
  <2>2. TurnOf(run[k], fmt, q, item, star) = Turn(run[k])
    BY Zenon DEF TurnOf
  <2> HIDE DEF Turn
  <2>3. run[k + 1] = Turn(run[k])
    BY <1>7, <2>1
  <2>4. QED
    BY <2>2, <2>3
<1>12. QED
  BY <1>8, <1>9, <1>10, <1>11 DEF IsRun

(* So the call ends near the end of the buffer.                            *)
LEMMA VformatKeeps ==
  ASSUME NEW fmt, Len(fmt) \in Nat, NEW q \in Nat \ {0}, NEW item \in Nat, NEW star \in Nat
  PROVE  Within(F!Vformat(fmt, q, item, star), q, item)
<1>1. PICK run : IsRun(run, fmt, q, item, star)
  BY VformatRuns
<1>2. 3 * Len(fmt) + 3 \in Nat
  OBVIOUS
<1>3. QED
  BY <1>1, <1>2 DEF IsRun

\* The beginnings of a format, part after part.
Beginnings(s, parts, k) ==
  /\ s[0] = <<>> /\ Format(parts) = s[k]
  /\ \A j \in 0 .. k : s[j] \in Seq(STRING)
  /\ \A j \in 1 .. k : s[j] = s[j - 1] \o parts[j].chars

(* The format of a call grows by the characters of part after part.        *)
LEMMA FormatGrows ==
  ASSUME NEW k \in Nat, NEW parts \in [1 .. k -> Directives]
  PROVE  \E s : Beginnings(s, parts, k)
<1> DEFINE one(j) == [s \in Seq(STRING) |-> s \o parts[j].chars]
           steps == [j \in 0 + 1 .. k |-> one(j)]
<1>1. Len(parts) = k
  OBVIOUS
<1>2. ASSUME NEW j \in 1 .. k PROVE parts[j].chars \in Seq(STRING)
  BY LibkAssumption
<1>3. MapsAt(steps, Seq(STRING), 0, k)
  <2>1. ASSUME NEW j \in 0 + 1 .. k PROVE one(j) \in [Seq(STRING) -> Seq(STRING)]
    BY <1>2
  <2>2. QED
    BY <2>1 DEF MapsAt
<1>4. ASSUME NEW j \in 1 .. k, NEW s \in Seq(STRING)
      PROVE  steps[j][s] = s \o parts[j].chars
  OBVIOUS
<1> HIDE DEF steps
<1>5. PICK g : Unfolds(g, Seq(STRING), steps, <<>>, 0, k)
  <2>1. 0 \in Int /\ k \in Int /\ <<>> \in Seq(STRING)
    OBVIOUS
  <2>2. QED
    BY <1>3, <2>1, Unfolding, Zenon
<1> DEFINE Is(h) == h = [j \in 0 .. Len(parts) |-> IF j = 0 THEN <<>> ELSE h[j - 1] \o parts[j].chars]
<1>6. Is(g)
  <2>1. ASSUME NEW j \in 0 .. k
        PROVE  g[j] = IF j = 0 THEN <<>> ELSE g[j - 1] \o parts[j].chars
    <3>1. CASE j = 0
      BY <1>5, <3>1 DEF Unfolds
    <3>2. CASE j # 0
      <4>1. j \in 1 .. k /\ j - 1 \in 0 .. k
        BY <3>2
      <4>2. g[j - 1] \in Seq(STRING) /\ g[j] = steps[j][g[j - 1]]
        BY <1>5, <3>2, <4>1 DEF Unfolds
      <4>3. QED
        BY <1>4, <3>2, <4>1, <4>2
    <3>3. QED
      BY <3>1, <3>2
  <2>2. g = [j \in 0 .. k |-> g[j]]
    BY <1>5 DEF Unfolds
  <2>3. QED
    BY <1>1, <2>1, <2>2
<1> DEFINE chars == CHOOSE h : Is(h)
<1>7. Is(chars)
  <2> HIDE DEF Is
  <2>1. QED
    BY <1>6
<1>8. Format(parts) = chars[k]
  BY <1>1 DEF Format
<1> HIDE DEF chars
<1> DEFINE T == {n \in Nat : n <= k => chars[n] \in Seq(STRING)}
<1>9. 0 \in T
  BY <1>1, <1>7
<1>10. ASSUME NEW n \in Nat, n \in T PROVE n + 1 \in T
  <2> SUFFICES ASSUME n + 1 <= k PROVE chars[n + 1] \in Seq(STRING)
    OBVIOUS
  <2>1. n + 1 \in 0 .. k /\ n + 1 # 0 /\ (n + 1) - 1 = n /\ n <= k /\ n + 1 \in 1 .. k
    OBVIOUS
  <2>2. chars[n + 1] = chars[n] \o parts[n + 1].chars
    BY <1>1, <1>7, <2>1
  <2>3. chars[n] \in Seq(STRING) /\ parts[n + 1].chars \in Seq(STRING)
    BY <1>2, <1>10, <2>1
  <2>4. QED
    BY <2>2, <2>3
<1>11. Nat \subseteq T
  <2> HIDE DEF T
  <2>1. QED
    BY <1>9, <1>10, Induct
<1>12. \A j \in 0 .. k : chars[j] \in Seq(STRING)
  BY <1>11
<1>13. ASSUME NEW j \in 1 .. k PROVE chars[j] = chars[j - 1] \o parts[j].chars
  <2>1. j \in 0 .. Len(parts) /\ j # 0
    BY <1>1
  <2>2. QED
    BY <1>7, <2>1
<1>14. chars[0] = <<>>
  BY <1>1, <1>7
<1>15. QED
  BY <1>8, <1>12, <1>13, <1>14 DEF Beginnings

(* The format of a call is a sequence.                                     *)
LEMMA FormatIsSequence ==
  ASSUME NEW k \in Nat, NEW parts \in [1 .. k -> Directives]
  PROVE  Format(parts) \in Seq(STRING)
<1>1. PICK s : Beginnings(s, parts, k)
  BY FormatGrows
<1>2. QED
  BY <1>1 DEF Beginnings

\* The words passed for the beginnings of a format.
PassedFor(w, parts, k) ==
  /\ w[0] = 0 /\ Passed(parts) = w[k]
  /\ \A j \in 0 .. k : w[j] \in Nat
  /\ \A j \in 1 .. k : w[j] = w[j - 1] + parts[j].words

(* The words that the caller passes grow with the parts.                   *)
LEMMA PassedGrows ==
  ASSUME NEW k \in Nat, NEW parts \in [1 .. k -> Directives]
  PROVE  \E w : PassedFor(w, parts, k)
<1> DEFINE one(j) == [s \in Nat |-> s + parts[j].words]
           steps == [j \in 0 + 1 .. k |-> one(j)]
<1>1. Len(parts) = k
  OBVIOUS
<1>2. ASSUME NEW j \in 1 .. k PROVE parts[j].words \in Nat
  BY LibkAssumption
<1>3. MapsAt(steps, Nat, 0, k)
  <2>1. ASSUME NEW j \in 0 + 1 .. k PROVE one(j) \in [Nat -> Nat]
    BY <1>2
  <2>2. QED
    BY <2>1 DEF MapsAt
<1>4. ASSUME NEW j \in 1 .. k, NEW s \in Nat
      PROVE  steps[j][s] = s + parts[j].words
  OBVIOUS
<1> HIDE DEF steps
<1>5. PICK g : Unfolds(g, Nat, steps, 0, 0, k)
  <2>1. 0 \in Int /\ k \in Int /\ 0 \in Nat
    OBVIOUS
  <2>2. QED
    BY <1>3, <2>1, Unfolding, Zenon
<1> DEFINE Is(h) == h = [j \in 0 .. Len(parts) |-> IF j = 0 THEN 0 ELSE h[j - 1] + parts[j].words]
<1>6. Is(g)
  <2>1. ASSUME NEW j \in 0 .. k
        PROVE  g[j] = IF j = 0 THEN 0 ELSE g[j - 1] + parts[j].words
    <3>1. CASE j = 0
      BY <1>5, <3>1 DEF Unfolds
    <3>2. CASE j # 0
      <4>1. j \in 1 .. k /\ j - 1 \in 0 .. k
        BY <3>2
      <4>2. g[j - 1] \in Nat /\ g[j] = steps[j][g[j - 1]]
        BY <1>5, <3>2, <4>1 DEF Unfolds
      <4>3. QED
        BY <1>4, <3>2, <4>1, <4>2
    <3>3. QED
      BY <3>1, <3>2
  <2>2. g = [j \in 0 .. k |-> g[j]]
    BY <1>5 DEF Unfolds
  <2>3. QED
    BY <1>1, <2>1, <2>2
<1> DEFINE words == CHOOSE h : Is(h)
<1>7. Is(words)
  <2> HIDE DEF Is
  <2>1. QED
    BY <1>6
<1>8. Passed(parts) = words[k]
  BY <1>1 DEF Passed
<1> HIDE DEF words
<1>9. words[0] = 0
  BY <1>1, <1>7
<1>10. ASSUME NEW j \in 1 .. k PROVE words[j] = words[j - 1] + parts[j].words
  <2>1. j \in 0 .. Len(parts) /\ j # 0
    BY <1>1
  <2>2. QED
    BY <1>7, <2>1
<1>11. \A j \in 0 .. k : words[j] \in Nat
  <2>1. \A j \in 0 + 1 .. k : words[j - 1] \in Nat => words[j] \in Nat
    BY <1>2, <1>10
  <2>2. 0 \in Int /\ k \in Int /\ words[0] \in Nat
    BY <1>9
  <2>3. QED
    BY <2>1, <2>2, EachStepKept
<1>12. QED
  BY <1>8, <1>9, <1>10, <1>11 DEF PassedFor

(* The stars of a conversion, counted up to a place.                       *)
LEMMA StarsAre ==
  ASSUME NEW chars, NEW n \in Nat
  PROVE  /\ Stars(chars, n) \in Nat
         /\ n < 2 => Stars(chars, n) = 0
         /\ n >= 2 => Stars(chars, n) = Stars(chars, n - 1) + IF chars[n] = "*" THEN 1 ELSE 0
         /\ \A m \in 0 .. n : Stars(chars, m) <= Stars(chars, n)
<1> DEFINE Places(m) == {k \in 2 .. m : chars[k] = "*"}
<1>1. ASSUME NEW m \in Int PROVE IsFiniteSet(Places(m)) /\ Cardinality(Places(m)) \in Nat
  <2>1. IsFiniteSet(2 .. m)
    BY FS_Interval
  <2>2. Places(m) \in SUBSET (2 .. m)
    OBVIOUS
  <2> HIDE DEF Places
  <2>3. IsFiniteSet(Places(m))
    BY <2>1, <2>2, FS_Subset
  <2>4. QED
    BY <2>3, FS_CardinalityType
<1>2. \A m : Stars(chars, m) = Cardinality(Places(m))
  BY DEF Stars
<1>3. n < 2 => Stars(chars, n) = 0
  <2>1. n < 2 => Places(n) = {}
    OBVIOUS
  <2> HIDE DEF Places
  <2>2. QED
    BY <1>2, <2>1, FS_EmptySet
<1>4. ASSUME n >= 2
      PROVE  Stars(chars, n) = Stars(chars, n - 1) + IF chars[n] = "*" THEN 1 ELSE 0
  <2>1. n \notin Places(n - 1) /\ n - 1 \in Int
    OBVIOUS
  <2>2. CASE chars[n] = "*"
    <3>1. Places(n) = Places(n - 1) \union {n}
      BY <1>4, <2>2
    <3> HIDE DEF Places
    <3>2. Cardinality(Places(n)) = Cardinality(Places(n - 1)) + 1
      BY <1>1, <2>1, <3>1, FS_AddElement
    <3>3. QED
      BY <1>2, <2>2, <3>2
  <2>3. CASE chars[n] # "*"
    <3>1. Places(n) = Places(n - 1)
      BY <1>4, <2>3
    <3> HIDE DEF Places
    <3>2. Cardinality(Places(n - 1)) \in Nat
      BY <1>1, <2>1
    <3>3. QED
      BY <1>2, <2>3, <3>1, <3>2
  <2>4. QED
    BY <2>2, <2>3
<1>5. ASSUME NEW m \in 0 .. n PROVE Stars(chars, m) <= Stars(chars, n)
  <2>1. Places(m) \in SUBSET Places(n)
    OBVIOUS
  <2> HIDE DEF Places
  <2>2. QED
    BY <1>1, <1>2, <2>1, FS_Subset
<1> HIDE DEF Places
<1>6. Stars(chars, n) \in Nat
  BY <1>1, <1>2
<1>7. QED
  BY <1>3, <1>4, <1>5, <1>6

(* Where there is none, the count stays.                                   *)
LEMMA StarsStay ==
  ASSUME NEW chars, NEW m \in Nat, NEW n \in Nat, m <= n, \A k \in m + 1 .. n : chars[k] # "*"
  PROVE  Stars(chars, n) = Stars(chars, m)
<1>1. {k \in 2 .. n : chars[k] = "*"} = {k \in 2 .. m : chars[k] = "*"}
  OBVIOUS
<1>2. QED
  BY <1>1 DEF Stars

(* And where there is no letter for two words, none is added.              *)
LEMMA WideStays ==
  ASSUME NEW chars, NEW m \in Nat, NEW n \in Nat, m <= n,
         \A k \in m + 1 .. n : chars[k] \notin {"j", "q"}
  PROVE  Wide(chars, n) <=> Wide(chars, m)
BY DEF Wide

\* The parts of a format in their places: part j begins behind o[j - 1], and its
\* arguments behind w[j - 1] words.
Laid(parts, k, o, w) ==
  /\ o[0] = 0 /\ o[k] = Len(Format(parts)) /\ w[0] = 0 /\ w[k] = Passed(parts)
  /\ \A j \in 0 .. k : o[j] \in Nat /\ w[j] \in Nat
  /\ \A j \in 1 .. k : o[j] = o[j - 1] + Len(parts[j].chars) /\ w[j] = w[j - 1] + parts[j].words
  /\ \A j \in 1 .. k : \A x \in 1 .. Len(parts[j].chars) :
       Format(parts)[o[j - 1] + x] = parts[j].chars[x]

(* A format is laid out part after part.                                   *)
LEMMA FormatLaid ==
  ASSUME NEW k \in Nat, NEW parts \in [1 .. k -> Directives]
  PROVE  \E o, w : Laid(parts, k, o, w)
<1> PICK s : Beginnings(s, parts, k)
  BY FormatGrows
<1> PICK w : PassedFor(w, parts, k)
  BY PassedGrows
<1>1. /\ s[0] = <<>> /\ Format(parts) = s[k]
      /\ \A j \in 0 .. k : s[j] \in Seq(STRING)
      /\ \A j \in 1 .. k : s[j] = s[j - 1] \o parts[j].chars
  BY DEF Beginnings
<1>2. /\ w[0] = 0 /\ Passed(parts) = w[k]
      /\ \A j \in 0 .. k : w[j] \in Nat
      /\ \A j \in 1 .. k : w[j] = w[j - 1] + parts[j].words
  BY DEF PassedFor
<1>3. ASSUME NEW j \in 1 .. k PROVE parts[j].chars \in Seq(STRING)
  BY LibkAssumption
<1> DEFINE o == [j \in 0 .. k |-> Len(s[j])]
<1>4. \A j \in 0 .. k : o[j] = Len(s[j]) /\ o[j] \in Nat
  BY <1>1
<1> HIDE DEF o
<1>5. ASSUME NEW j \in 1 .. k
      PROVE  /\ j \in 0 .. k /\ j - 1 \in 0 .. k
             /\ o[j] = o[j - 1] + Len(parts[j].chars)
             /\ \A x \in 1 .. o[j - 1] : s[j][x] = s[j - 1][x]
             /\ \A x \in 1 .. Len(parts[j].chars) : s[j][o[j - 1] + x] = parts[j].chars[x]
  <2>1. j \in 0 .. k /\ j - 1 \in 0 .. k
    OBVIOUS
  <2> DEFINE a == s[j - 1]
             b == parts[j].chars
  <2>2. a \in Seq(STRING) /\ b \in Seq(STRING)
    BY <1>1, <1>3, <2>1
  <2>3. s[j] = a \o b /\ o[j - 1] = Len(a) /\ o[j] = Len(s[j])
    BY <1>1, <1>4, <2>1
  <2> HIDE DEF a, b
  <2>4. /\ Len(a \o b) = Len(a) + Len(b) /\ Len(a) \in Nat /\ Len(b) \in Nat
        /\ \A x \in 1 .. Len(a) : (a \o b)[x] = a[x]
        /\ \A x \in 1 .. Len(b) : (a \o b)[Len(a) + x] = b[x]
    BY <2>2, ConcatProperties, LenProperties
  <2>5. QED
    BY <2>1, <2>3, <2>4 DEF a, b
<1>6. ASSUME NEW j \in 1 .. k, NEW x \in 1 .. Len(parts[j].chars)
      PROVE  s[k][o[j - 1] + x] = parts[j].chars[x]
  <2> DEFINE y == o[j - 1] + x
             h == [m \in j .. k |-> m]
             T == {m \in 0 .. k : y <= o[m] /\ s[m][y] = parts[j].chars[x]}
  <2>1. y \in Nat \ {0} /\ y <= o[j] /\ s[j][y] = parts[j].chars[x]
    <3>1. /\ o[j - 1] \in Nat /\ Len(parts[j].chars) \in Nat
          /\ o[j] = o[j - 1] + Len(parts[j].chars)
      BY <1>3, <1>4, <1>5, LenProperties
    <3>2. s[j][y] = parts[j].chars[x]
      BY <1>5
    <3>3. y \in Nat \ {0} /\ y <= o[j]
      BY <3>1
    <3>4. QED
      BY <3>2, <3>3
  <2> HIDE DEF y
  <2>2. h[j] \in T
    BY <2>1
  <2>3. ASSUME NEW m \in j + 1 .. k, h[m - 1] \in T PROVE h[m] \in T
    <3>1. m \in 1 .. k /\ m - 1 \in j .. k /\ m \in j .. k /\ m - 1 \in 0 .. k
      OBVIOUS
    <3>2. y <= o[m - 1] /\ s[m - 1][y] = parts[j].chars[x]
      BY <2>3, <3>1
    <3>3. s[m][y] = s[m - 1][y]
      BY <1>4, <1>5, <2>1, <3>1, <3>2
    <3>4. y <= o[m]
      <4>1. o[m] = o[m - 1] + Len(parts[m].chars) /\ Len(parts[m].chars) \in Nat /\ o[m - 1] \in Nat
        BY <1>3, <1>4, <1>5, <3>1, LenProperties
      <4>2. QED
        BY <2>1, <3>2, <4>1
    <3>5. QED
      BY <3>1, <3>2, <3>3, <3>4
  <2>4. h[k] \in T
    <3>1. j \in Int /\ k \in Int /\ k \in j .. k
      OBVIOUS
    <3> HIDE DEF h, T
    <3>2. \A m \in j .. k : h[m] \in T
      BY <2>2, <2>3, <3>1, EachStepKept
    <3>3. QED
      BY <3>1, <3>2
  <2>5. k \in j .. k
    OBVIOUS
  <2>6. QED
    BY <2>4, <2>5 DEF y
<1>7. o[0] = 0
  BY <1>1, <1>4
<1>8. o[k] = Len(Format(parts))
  BY <1>1, <1>4
<1>9. Laid(parts, k, o, w)
  BY <1>1, <1>2, <1>4, <1>5, <1>6, <1>7, <1>8 DEF Laid
<1>10. QED
  BY <1>9

(* Later parts lie behind earlier ones, and take no words back.            *)
LEMMA LaidRises ==
  ASSUME NEW k \in Nat, NEW parts \in [1 .. k -> Directives], NEW o, NEW w, Laid(parts, k, o, w),
         NEW i \in 0 .. k, NEW j \in i .. k
  PROVE  o[i] <= o[j] /\ w[i] <= w[j]
<1> DEFINE T == {m \in 0 .. k : o[i] <= o[m] /\ w[i] <= w[m]}
           h == [m \in i .. k |-> m]
<1>1. \A m \in 0 .. k : o[m] \in Nat /\ w[m] \in Nat
  BY DEF Laid
<1>2. h[i] \in T
  BY <1>1
<1>3. ASSUME NEW m \in i + 1 .. k, h[m - 1] \in T PROVE h[m] \in T
  <2>1. m \in 1 .. k /\ m - 1 \in 0 .. k /\ m \in 0 .. k /\ m - 1 \in i .. k /\ m \in i .. k
    OBVIOUS
  <2>2. parts[m].chars \in Seq(STRING) /\ parts[m].words \in Nat
    BY <2>1, LibkAssumption
  <2>3. Len(parts[m].chars) \in Nat
    BY <2>2, LenProperties
  <2>4. o[m] = o[m - 1] + Len(parts[m].chars) /\ w[m] = w[m - 1] + parts[m].words
    BY <2>1 DEF Laid
  <2>5. o[i] <= o[m - 1] /\ w[i] <= w[m - 1]
    BY <1>3, <2>1
  <2>6. o[i] <= o[m] /\ w[i] <= w[m]
    BY <1>1, <2>1, <2>2, <2>3, <2>4, <2>5, SMTT(60)
  <2>7. QED
    BY <2>1, <2>6
<1>4. h[j] \in T
  <2>1. i \in Int /\ k \in Int
    OBVIOUS
  <2> HIDE DEF h, T
  <2>2. \A m \in i .. k : h[m] \in T
    BY <1>2, <1>3, <2>1, EachStepKept
  <2>3. QED
    BY <2>2
<1>5. QED
  BY <1>4

\* The call stands before a part and has taken the words of the parts before it.
BeforePart(st, k, o, w) ==
  st.mode = "text" /\ \E j \in 0 .. k : st.i = o[j] + 1 /\ st.words = w[j]
\* Or within the conversion of part j, at place m of it: it has taken a word for
\* every * behind it, and knows of the letter for two words.
Doubled(width) == width \in {"longlong", "intmax"}
AtPlace(st, chars, o, w, j, m) ==
  /\ st.i = o[j - 1] + m
  /\ st.words = w[j - 1] + Stars(chars, m - 1)
  /\ Doubled(st.flags.type_width) <=> Wide(chars, m - 1)
InPart(st, parts, k, o, w, q) ==
  /\ st.mode = "arg" /\ st.p < q /\ st.flags.type_width # "longdouble"
  /\ \E j \in 1 .. k : \E m \in 2 .. Len(parts[j].chars) :
       PlainConversion(parts[j]) /\ AtPlace(st, parts[j].chars, o, w, j, m)
\* Or it has ended.
Taken(st, parts, k, w) ==
  /\ st.mode \in {"done", "error"} /\ st.words <= w[k]
  /\ st.mode = "done" /\ st.i > Len(Format(parts)) => st.words = w[k]
Taking(st, parts, k, o, w, q) ==
  BeforePart(st, k, o, w) \/ InPart(st, parts, k, o, w, q) \/ Taken(st, parts, k, w)

\* What stands under way has moved.
Moved(i, st) == st.mode \in {"text", "arg"} => st.i >= i + 1

(* A character of a part, found in the format.                             *)
LEMMA PartCharacter ==
  ASSUME NEW k \in Nat, NEW parts \in [1 .. k -> Directives], NEW o, NEW w, Laid(parts, k, o, w),
         NEW j \in 1 .. k, NEW x \in 1 .. Len(parts[j].chars)
  PROVE  /\ o[j - 1] \in Nat /\ w[j - 1] \in Nat /\ Len(parts[j].chars) \in Nat
         /\ o[j] = o[j - 1] + Len(parts[j].chars) /\ w[j] = w[j - 1] + parts[j].words
         /\ w[j] <= w[k] /\ Len(Format(parts)) \in Nat
         /\ o[j - 1] + x <= Len(Format(parts))
         /\ F!CharAt(Format(parts), o[j - 1] + x) = parts[j].chars[x]
<1>1. j - 1 \in 0 .. k /\ j \in 0 .. k /\ k \in 0 .. k /\ k \in j .. k
  OBVIOUS
<1>2. parts[j].chars \in Seq(STRING) /\ parts[j].words \in Nat
  BY LibkAssumption
<1>3. Len(parts[j].chars) \in Nat
  BY <1>2, LenProperties
<1>4. /\ o[j - 1] \in Nat /\ w[j - 1] \in Nat /\ o[k] \in Nat /\ o[k] = Len(Format(parts))
      /\ o[j] = o[j - 1] + Len(parts[j].chars) /\ w[j] = w[j - 1] + parts[j].words
      /\ Format(parts)[o[j - 1] + x] = parts[j].chars[x]
  BY <1>1 DEF Laid
<1>5. o[j] <= o[k] /\ w[j] <= w[k]
  BY <1>1, LaidRises
<1>6. o[j - 1] + x <= Len(Format(parts))
  BY <1>3, <1>4, <1>5
<1>7. F!CharAt(Format(parts), o[j - 1] + x) = Format(parts)[o[j - 1] + x]
  BY <1>6 DEF F!CharAt
<1>8. QED
  BY <1>3, <1>4, <1>5, <1>6, <1>7

(* The characters of a plain conversion.                                   *)
LEMMA PlainCharacters ==
  ASSUME NEW d, PlainConversion(d), Len(d.chars) \in Nat, NEW x \in 2 .. Len(d.chars)
  PROVE  /\ d.chars[x] \notin {"", "%", "L"}
         /\ x = Len(d.chars) => d.chars[x] \notin Between
         /\ x < Len(d.chars) => d.chars[x] \in Between
<1> DEFINE n == Len(d.chars)
<1>1. CASE x = n
  <2>1. d.chars[n] \in Conversions \/ d.chars[n] \notin Between \union Conversions \union {"", "%", "L"}
    BY DEF PlainConversion
  <2>2. \A c \in Conversions : c \notin Between /\ c \notin {"", "%", "L"}
    BY DEF Conversions, Whole, Between, Letters, F!Digit
  <2>3. d.chars[n] \notin Between /\ d.chars[n] \notin {"", "%", "L"}
    BY <2>1, <2>2
  <2>4. ~(x < n)
    BY <1>1
  <2> HIDE DEF n
  <2>5. QED
    BY <1>1, <2>3, <2>4 DEF n
<1>2. CASE x # n
  <2>1. x \in 2 .. n - 1 /\ x < n
    BY <1>2
  <2>2. d.chars[x] \in Between
    BY <2>1 DEF PlainConversion
  <2>3. \A c \in Between : c \notin {"", "%", "L"}
    BY DEF Between, Letters, F!Digit
  <2>4. QED
    BY <1>2, <2>1, <2>2, <2>3
<1>3. QED
  BY <1>1, <1>2

(* A character of the text, or the % of a conversion.                      *)
LEMMA TextTaken ==
  ASSUME NEW k \in Nat, NEW parts \in [1 .. k -> Directives], NEW o, NEW w, Laid(parts, k, o, w),
         Plain(parts), NEW q \in Nat, NEW st \in Formats, BeforePart(st, k, o, w)
  PROVE  /\ Taking(F!TextStep(st, Format(parts), q), parts, k, o, w, q)
         /\ Moved(st.i, F!TextStep(st, Format(parts), q))
<1> DEFINE fmt == Format(parts)
           c == F!CharAt(fmt, st.i)
           begun == [st EXCEPT !.mode = "arg", !.i = st.i + 1, !.flags = F!defaults]
           copied == [st EXCEPT !.p = st.p + 1, !.i = st.i + 1]
           ended == [st EXCEPT !.mode = "done"]
           r == F!TextStep(st, fmt, q)
<1> USE DEF BeforePart
<1>1. PICK j \in 0 .. k : st.i = o[j] + 1 /\ st.words = w[j]
  OBVIOUS
<1>2. st.p \in Nat /\ st.i \in Nat \ {0} /\ st.mode = "text"
  BY DEF Formats
<1>3. o[j] \in Nat /\ w[j] \in Nat /\ o[k] = Len(fmt) /\ o[k] \in Nat /\ w[k] \in Nat
  BY DEF Laid
<1>4. o[j] <= o[k] /\ w[j] <= w[k]
  <2>1. k \in j .. k
    OBVIOUS
  <2>2. QED
    BY <2>1, LaidRises
<1> HIDE DEF fmt
<1>5. st.i <= Len(fmt) + 1 /\ ~(st.i > Len(fmt) + 1)
  BY <1>1, <1>3, <1>4
<1>6. st.p < q <=> ~(st.p >= q)
  BY <1>2
<1>7. ended.mode = "done" /\ ended.i = st.i /\ ended.words = st.words
  BY DEF Formats
<1>8. CASE j = k
  <2>1. ~(st.i <= Len(fmt))
    BY <1>1, <1>3, <1>8
  <2>2. c = ""
    BY <2>1, Zenon DEF F!CharAt
  <2>3. r = ended
    BY <1>5, <2>2, Zenon DEF F!TextStep
  <2>4. Taken(ended, parts, k, w)
    BY <1>1, <1>3, <1>7, <1>8 DEF Taken
  <2> HIDE DEF r, ended
  <2>5. QED
    BY <1>7, <2>3, <2>4 DEF Taking, Moved, r, fmt
<1>9. CASE j # k
  <2> DEFINE d == parts[j + 1]
  <2>1. j + 1 \in 1 .. k /\ (j + 1) - 1 = j
    BY <1>9
  <2>2. PlainText(d) \/ PlainConversion(d)
    BY <2>1 DEF Plain
  <2>3. 1 \in 1 .. Len(d.chars) /\ Len(d.chars) \in Nat
    <3>1. d.chars \in Seq(STRING)
      BY <2>1, LibkAssumption
    <3>2. Len(d.chars) \in Nat
      BY <3>1, LenProperties
    <3> HIDE DEF d
    <3>3. Len(d.chars) >= 1
      <4>1. CASE PlainText(d)
        <5>1. Len(d.chars) = 1
          BY <4>1 DEF PlainText
        <5>2. QED
          BY <5>1
      <4>2. CASE PlainConversion(d)
        <5>1. Len(d.chars) >= 2
          BY <4>2 DEF PlainConversion
        <5>2. QED
          BY <3>2, <5>1
      <4>3. QED
        BY <2>2, <4>1, <4>2
    <3>4. QED
      BY <3>2, <3>3
  <2>4. \A x \in 1 .. Len(d.chars) : /\ o[j] + x <= Len(fmt) /\ F!CharAt(fmt, o[j] + x) = d.chars[x]
                                     /\ o[j + 1] = o[j] + Len(d.chars) /\ w[j + 1] = w[j] + d.words
    BY <2>1, PartCharacter DEF fmt
  <2> HIDE DEF d
  <2>5. c = d.chars[1] /\ st.i <= Len(fmt) /\ c # ""
    BY <1>1, <2>2, <2>3, <2>4 DEF PlainText, PlainConversion
  <2> HIDE DEF c
  <2>6. CASE st.p >= q
    <3>1. r = ended
      BY <1>5, <1>6, <2>6, Zenon DEF F!TextStep
    <3>2. Taken(ended, parts, k, w)
      <4>1. st.i \in Nat /\ Len(fmt) \in Nat /\ st.i <= Len(fmt)
        BY <1>2, <1>3, <2>5
      <4>2. ~(ended.i > Len(fmt)) /\ ended.words <= w[k] /\ ended.mode = "done"
        BY <1>1, <1>3, <1>4, <1>7, <4>1
      <4> HIDE DEF ended
      <4>3. QED
        BY <4>2 DEF Taken, fmt
    <3> HIDE DEF r, ended
    <3>3. QED
      BY <1>7, <3>1, <3>2 DEF Taking, Moved, r, fmt
  <2>7. CASE st.p < q /\ PlainText(d)
    <3>1. c # "%" /\ Len(d.chars) = 1 /\ d.words = 0
      BY <2>5, <2>7 DEF PlainText
    <3>2. r = copied
      BY <1>5, <1>6, <2>5, <2>7, <3>1, Zenon DEF F!TextStep, c
    <3>3. copied.mode = "text" /\ copied.i = st.i + 1 /\ copied.words = st.words
      BY <1>2 DEF Formats
    <3> HIDE DEF r, copied
    <3>4. BeforePart(copied, k, o, w)
      <4>1. o[j + 1] = o[j] + 1 /\ w[j + 1] = w[j] + 0 /\ j + 1 \in 0 .. k
        BY <2>1, <2>3, <2>4, <3>1
      <4>2. copied.i = o[j + 1] + 1 /\ copied.words = w[j + 1]
        BY <1>1, <1>3, <3>3, <4>1
      <4>3. QED
        BY <3>3, <4>1, <4>2
    <3>5. QED
      BY <1>2, <3>2, <3>3, <3>4 DEF Taking, Moved, r, fmt
  <2>8. CASE st.p < q /\ PlainConversion(d)
    <3>1. c = "%" /\ Len(d.chars) >= 2
      BY <2>5, <2>8 DEF PlainConversion
    <3>2. 2 \in 2 .. Len(d.chars) /\ 2 \in 1 .. Len(d.chars)
      BY <2>3, <3>1
    <3>3. d.chars[2] # "%"
      BY <2>3, <2>8, <3>2, PlainCharacters
    <3>4. F!CharAt(fmt, st.i + 1) # "%"
      <4>1. st.i + 1 = o[j] + 2
        BY <1>1, <1>3
      <4>2. QED
        BY <2>4, <3>2, <3>3, <4>1
    <3>5. r = begun
      BY <1>5, <1>6, <2>5, <2>8, <3>1, <3>4, Zenon DEF F!TextStep, c
    <3>6. /\ begun.mode = "arg" /\ begun.i = st.i + 1 /\ begun.words = st.words /\ begun.p = st.p
          /\ begun.flags.type_width = "int"
      BY <1>2 DEF Formats, F!defaults
    <3> HIDE DEF r, begun
    <3>7. AtPlace(begun, d.chars, o, w, j + 1, 2)
      <4>1. Stars(d.chars, 2 - 1) = 0
        <5>1. 1 \in Nat /\ 1 < 2 /\ 2 - 1 = 1
          OBVIOUS
        <5>2. QED
          BY <5>1, StarsAre
      <4>2. ~Wide(d.chars, 2 - 1)
        BY DEF Wide
      <4>3. begun.i = o[(j + 1) - 1] + 2 /\ begun.words = w[(j + 1) - 1] + 0
        BY <1>1, <1>3, <2>1, <3>6
      <4>4. ~Doubled(begun.flags.type_width)
        BY <3>6 DEF Doubled
      <4>5. QED
        BY <4>1, <4>2, <4>3, <4>4 DEF AtPlace
    <3>8. InPart(begun, parts, k, o, w, q)
      <4>1. begun.mode = "arg" /\ begun.p < q /\ begun.flags.type_width # "longdouble"
        BY <2>8, <3>6
      <4>2. PlainConversion(parts[j + 1]) /\ AtPlace(begun, parts[j + 1].chars, o, w, j + 1, 2)
        BY <2>8, <3>7 DEF d
      <4>3. 2 \in 2 .. Len(parts[j + 1].chars)
        BY <3>2 DEF d
      <4>4. QED
        BY <2>1, <4>1, <4>2, <4>3 DEF InPart
    <3>9. QED
      BY <1>2, <3>5, <3>6, <3>8 DEF Taking, Moved, r, fmt
  <2>9. QED
    BY <1>6, <2>2, <2>6, <2>7, <2>8
<1>10. QED
  BY <1>8, <1>9

\* The widths of a call that has met no L.
KnownFlags == {f \in FormatFlags : f.type_width # "longdouble"}

\* From place m to place t, with a word taken for a * between them.
Forward(r, st, flags, i, chars, m, t) ==
  \/ /\ r = F!SetFlag(st, flags, i)
     /\ Stars(chars, t - 1) = Stars(chars, m - 1)
  \/ /\ r = [F!SetFlag(st, flags, i) EXCEPT !.words = @ + 1]
     /\ Stars(chars, t - 1) = Stars(chars, m - 1) + 1

(* A step forward within a conversion, over characters that take a word or *)
(* none.                                                                   *)
LEMMA FlagTaken ==
  ASSUME NEW k \in Nat, NEW parts \in [1 .. k -> Directives], NEW o, NEW w, Laid(parts, k, o, w),
         NEW q \in Nat, NEW st \in Formats, st.mode = "arg", st.p < q,
         NEW j \in 1 .. k, PlainConversion(parts[j]),
         NEW m \in 2 .. Len(parts[j].chars), AtPlace(st, parts[j].chars, o, w, j, m),
         NEW flags \in KnownFlags, NEW t \in m + 1 .. Len(parts[j].chars),
         Doubled(flags.type_width) <=> Wide(parts[j].chars, t - 1),
         NEW i, i = o[j - 1] + t, NEW r, Forward(r, st, flags, i, parts[j].chars, m, t)
  PROVE  Taking(r, parts, k, o, w, q) /\ Moved(st.i, r)
<1> DEFINE chars == parts[j].chars
           moved == [st EXCEPT !.flags = flags, !.i = i]
<1>1. F!SetFlag(st, flags, i) = moved
  BY DEF F!SetFlag
<1>2. /\ moved.mode = "arg" /\ moved.p = st.p /\ moved.flags = flags /\ moved.i = i
      /\ moved.words = st.words
  BY DEF Formats
<1>3. o[j - 1] \in Nat /\ w[j - 1] \in Nat /\ Len(chars) \in Nat
  <2>1. j - 1 \in 0 .. k
    OBVIOUS
  <2>2. chars \in Seq(STRING)
    BY LibkAssumption
  <2>3. QED
    BY <2>1, <2>2, LenProperties DEF Laid
<1>4. Stars(chars, m - 1) \in Nat
  <2>1. m - 1 \in Nat
    BY <1>3
  <2>2. QED
    BY <2>1, StarsAre
<1>5. st.words = w[j - 1] + Stars(chars, m - 1) /\ st.i = o[j - 1] + m
  BY DEF AtPlace
<1>6. /\ r.mode = "arg" /\ r.p = st.p /\ r.flags = flags /\ r.i = i
      /\ r.words = w[j - 1] + Stars(chars, t - 1)
  <2>1. CASE r = moved /\ Stars(chars, t - 1) = Stars(chars, m - 1)
    <3> HIDE DEF moved, chars
    <3>1. QED
      BY <1>2, <1>5, <2>1
  <2>2. CASE /\ r = [moved EXCEPT !.words = moved.words + 1]
             /\ Stars(chars, t - 1) = Stars(chars, m - 1) + 1
    <3>1. moved \in Formats
      <4>1. i \in Nat \ {0}
        BY <1>3
      <4>2. QED
        BY <4>1 DEF Formats, KnownFlags
    <3> HIDE DEF moved, chars
    <3>2. /\ r.mode = moved.mode /\ r.p = moved.p /\ r.flags = moved.flags /\ r.i = moved.i
          /\ r.words = moved.words + 1
      <4> DEFINE more == moved.words + 1
                 s == [moved EXCEPT !.words = more]
      <4>1. r = s
        BY <2>2
      <4> HIDE DEF more
      <4>2. /\ s.mode = moved.mode /\ s.p = moved.p /\ s.flags = moved.flags /\ s.i = moved.i
            /\ s.words = more
        BY <3>1 DEF Formats
      <4> HIDE DEF s
      <4>3. QED
        BY <4>1, <4>2 DEF more
    <3>3. st.words + 1 = w[j - 1] + Stars(chars, t - 1)
      <4>1. Stars(chars, t - 1) = Stars(chars, m - 1) + 1
        BY <2>2
      <4> DEFINE a == w[j - 1]
                 b == Stars(chars, m - 1)
                 c == Stars(chars, t - 1)
                 x == st.words
      <4>2. a \in Nat /\ b \in Nat /\ c = b + 1 /\ x = a + b
        BY <1>3, <1>4, <1>5, <4>1, Zenon
      <4> HIDE DEF a, b, c, x
      <4>3. x + 1 = a + c
        BY <4>2
      <4>4. QED
        BY <4>3 DEF a, c, x
    <3>4. moved.words = st.words
      BY <1>2
    <3>5. QED
      BY <1>2, <3>2, <3>3, <3>4
  <2> HIDE DEF moved
  <2>3. QED
    BY <1>1, <2>1, <2>2 DEF Forward
<1>7. t \in 2 .. Len(chars) /\ t \in Int /\ m \in Int /\ t > m
  BY <1>3
<1>8. AtPlace(r, chars, o, w, j, t)
  BY <1>6 DEF AtPlace
<1>9. InPart(r, parts, k, o, w, q)
  BY <1>6, <1>7, <1>8 DEF InPart, KnownFlags
<1>10. r.i >= st.i + 1
  BY <1>3, <1>5, <1>6, <1>7
<1>11. QED
  BY <1>9, <1>10 DEF Taking, Moved

(* What ends a conversion takes the word, or the two, that its caller      *)
(* passed for the value.                                                   *)
LEMMA ArgumentTaken ==
  ASSUME NEW k \in Nat, NEW parts \in [1 .. k -> Directives], NEW o, NEW w, Laid(parts, k, o, w),
         NEW q \in Nat, NEW st \in Formats, NEW j \in 1 .. k,
         AtPlace(st, parts[j].chars, o, w, j, Len(parts[j].chars)),
         1 \in 1 .. Len(parts[j].chars), parts[j].chars[Len(parts[j].chars)] # "*",
         NEW p, NEW words \in Nat, parts[j].words = Stars(parts[j].chars, Len(parts[j].chars)) + words
  PROVE  Taking(F!EndArg(st, q, p, words), parts, k, o, w, q) /\ Moved(st.i, F!EndArg(st, q, p, words))
<1> DEFINE chars == parts[j].chars
           n == Len(chars)
           r == F!EndArg(st, q, p, words)
           mode == IF p > q THEN "error" ELSE "text"
<1>1. r = [st EXCEPT !.p = p, !.words = st.words + words, !.i = st.i + 1, !.mode = mode]
  BY DEF F!EndArg
<1>2. mode \in {"text", "error"}
  OBVIOUS
<1> HIDE DEF r, mode
<1>3. r.mode = mode /\ r.words = st.words + words /\ r.i = st.i + 1
  BY <1>1 DEF Formats
<1>4. /\ o[j - 1] \in Nat /\ w[j - 1] \in Nat /\ n \in Nat /\ w[j] <= w[k]
      /\ o[j] = o[j - 1] + n /\ w[j] = w[j - 1] + parts[j].words
  BY PartCharacter
<1>5. Stars(chars, n) = Stars(chars, n - 1) /\ Stars(chars, n) \in Nat
  <2>1. n - 1 \in Nat /\ n - 1 <= n /\ \A x \in (n - 1) + 1 .. n : chars[x] # "*"
    BY <1>4
  <2> HIDE DEF chars, n
  <2>2. QED
    BY <1>4, <2>1, StarsStay, StarsAre
<1>6. st.words = w[j - 1] + Stars(chars, n - 1) /\ st.i = o[j - 1] + n
  BY DEF AtPlace
<1>7. r.i = o[j] + 1 /\ r.words = w[j] /\ r.i >= st.i + 1
  <2> HIDE DEF chars, n
  <2>1. parts[j].words = Stars(chars, n) + words
    BY DEF chars, n
  <2>2. QED
    BY <1>3, <1>4, <1>5, <1>6, <2>1, SMTT(60)
<1>8. CASE mode = "text"
  <2>1. BeforePart(r, k, o, w)
    <3>1. j \in 0 .. k
      OBVIOUS
    <3>2. QED
      BY <1>3, <1>7, <1>8, <3>1 DEF BeforePart
  <2>2. QED
    BY <1>7, <2>1 DEF Taking, Moved, r
<1>9. CASE mode = "error"
  <2>1. Taken(r, parts, k, w)
    BY <1>3, <1>4, <1>7, <1>9 DEF Taken
  <2>2. QED
    BY <1>7, <2>1 DEF Taking, Moved, r
<1>10. QED
  BY <1>2, <1>8, <1>9

(* A modifier tells whether its letter means two words.                    *)
LEMMA ModifierTells ==
  ASSUME NEW fmt, NEW i, fmt[i] \in Letters, F!CharAt(fmt, i + 1) \notin {"h", "l"}
  PROVE  /\ F!Modifier(fmt, i) \in Widths \ {"longdouble"}
         /\ Doubled(F!Modifier(fmt, i)) <=> fmt[i] \in {"j", "q"}
<1>1. CASE fmt[i] = "j"
  <2>1. F!Modifier(fmt, i) = "intmax"
    BY <1>1, Zenon DEF F!Modifier
  <2>2. QED
    BY <1>1, <2>1 DEF Widths, Doubled
<1>2. CASE fmt[i] = "q"
  <2>1. F!Modifier(fmt, i) = "longlong"
    BY <1>2, Zenon DEF F!Modifier
  <2>2. QED
    BY <1>2, <2>1 DEF Widths, Doubled
<1>3. CASE fmt[i] = "z"
  <2>1. F!Modifier(fmt, i) = "size"
    BY <1>3, Zenon DEF F!Modifier
  <2>2. QED
    BY <1>3, <2>1 DEF Widths, Doubled
<1>4. CASE fmt[i] = "t"
  <2>1. F!Modifier(fmt, i) = "ptrdiff"
    BY <1>4, Zenon DEF F!Modifier
  <2>2. QED
    BY <1>4, <2>1 DEF Widths, Doubled
<1>5. CASE fmt[i] = "h"
  <2>1. F!Modifier(fmt, i) = "short"
    BY <1>5, Zenon DEF F!Modifier
  <2>2. QED
    BY <1>5, <2>1 DEF Widths, Doubled
<1>6. CASE fmt[i] = "l"
  <2>1. F!Modifier(fmt, i) = "long"
    BY <1>6, Zenon DEF F!Modifier
  <2>2. QED
    BY <1>6, <2>1 DEF Widths, Doubled
<1>7. QED
  BY <1>1, <1>2, <1>3, <1>4, <1>5, <1>6 DEF Letters

(* The end of a conversion.                                                *)
LEMMA EndTaken ==
  ASSUME NEW k \in Nat, NEW parts \in [1 .. k -> Directives], NEW o, NEW w, Laid(parts, k, o, w),
         NEW q \in Nat, NEW item \in Nat, NEW star \in Nat, NEW st \in Formats,
         st.flags.type_width # "longdouble", NEW j \in 1 .. k, PlainConversion(parts[j]),
         AtPlace(st, parts[j].chars, o, w, j, Len(parts[j].chars)), NEW fmt, NEW next,
         NEW c, c = parts[j].chars[Len(parts[j].chars)],
         NEW r, r = F!Conversion(st, fmt, q, item, star, c, next)
  PROVE  Taking(r, parts, k, o, w, q) /\ Moved(st.i, r)
<1> DEFINE d == parts[j]
           n == Len(d.chars)
<1>1. n \in Nat /\ n >= 2
  <2>1. d.chars \in Seq(STRING)
    BY LibkAssumption
  <2>2. QED
    BY <2>1, LenProperties DEF PlainConversion
<1>2. n \in 2 .. n /\ 1 \in 1 .. n
  BY <1>1
<1>3. c \notin Between /\ c \notin {"", "%", "L"}
  BY <1>1, <1>2, PlainCharacters
<1>4. /\ c # "*" /\ c \notin Letters /\ c \notin F!Digit
      /\ c \notin {"-", "+", " ", "#", "0", "*", "."}
  BY <1>3 DEF Between
<1>5. /\ Stars(d.chars, n) = Stars(d.chars, n - 1) /\ Stars(d.chars, n) \in Nat
      /\ Wide(d.chars, n) <=> Wide(d.chars, n - 1)
  <2>1. /\ n - 1 \in Nat /\ n - 1 <= n /\ \A x \in (n - 1) + 1 .. n : x = n
    BY <1>1
  <2>2. \A x \in (n - 1) + 1 .. n : d.chars[x] # "*" /\ d.chars[x] \notin {"j", "q"}
    BY <1>4, <2>1 DEF Letters
  <2> DEFINE before == n - 1
             chars == d.chars
  <2>3. /\ before \in Nat /\ n \in Nat /\ before <= n
        /\ \A x \in before + 1 .. n : chars[x] # "*"
        /\ \A x \in before + 1 .. n : chars[x] \notin {"j", "q"}
    BY <1>1, <2>1, <2>2
  <2> HIDE DEF d, n, before, chars
  <2>4. Stars(chars, n) = Stars(chars, before)
    BY <2>3, StarsStay
  <2>5. Wide(chars, n) <=> Wide(chars, before)
    BY <2>3, WideStays
  <2>6. Stars(chars, n) \in Nat
    BY <2>3, StarsAre
  <2>7. QED
    BY <2>4, <2>5, <2>6 DEF before, chars
<1>6. ASSUME NEW p, NEW words \in Nat, r = F!EndArg(st, q, p, words), d.words = Stars(d.chars, n) + words
      PROVE  Taking(r, parts, k, o, w, q) /\ Moved(st.i, r)
  <2>1. /\ 1 \in 1 .. Len(parts[j].chars) /\ parts[j].chars[Len(parts[j].chars)] # "*"
        /\ parts[j].words = Stars(parts[j].chars, Len(parts[j].chars)) + words
    BY <1>2, <1>4, <1>6
  <2>2. /\ Taking(F!EndArg(st, q, p, words), parts, k, o, w, q)
        /\ Moved(st.i, F!EndArg(st, q, p, words))
    BY <2>1, ArgumentTaken
  <2>3. QED
    BY <1>6, <2>2
<1>7. ASSUME c \in Conversions
      PROVE  d.words = Stars(d.chars, n) + IF c \in Whole /\ Wide(d.chars, n) THEN 2 ELSE 1
  BY <1>3, <1>7 DEF PlainConversion
<1>8. ASSUME NEW prefix, c \in Whole, r = F!FormatNumber(st, q, st.flags, prefix, item)
      PROVE  Taking(r, parts, k, o, w, q) /\ Moved(st.i, r)
  <2> DEFINE p == st.p + (IF st.flags.signed_pos THEN 1 ELSE 0) + (IF st.flags.prefix THEN prefix ELSE 0)
             words == F!WordsOf(st.flags.type_width)
  <2>1. r = F!EndArg(st, q, F!DoString(st.flags, p, q, item), words)
    BY <1>8, Zenon DEF F!FormatNumber
  <2>2. Doubled(st.flags.type_width) <=> Wide(d.chars, n)
    BY <1>5 DEF AtPlace
  <2>3. words = IF Wide(d.chars, n) THEN 2 ELSE 1
    BY <2>2, Zenon DEF F!WordsOf, Doubled
  <2>4. d.words = Stars(d.chars, n) + (IF Wide(d.chars, n) THEN 2 ELSE 1)
    BY <1>7, <1>8 DEF Conversions
  <2> HIDE DEF p, words, d
  <2>5. words \in Nat /\ d.words = Stars(d.chars, n) + words
    BY <2>3, <2>4
  <2>6. QED
    BY <1>6, <2>1, <2>5
<1>9. ASSUME NEW p, c \in Conversions, c \notin Whole, r = F!EndArg(st, q, p, 1)
      PROVE  Taking(r, parts, k, o, w, q) /\ Moved(st.i, r)
  <2>1. 1 \in Nat /\ d.words = Stars(d.chars, n) + 1
    BY <1>7, <1>9
  <2>2. QED
    BY <1>6, <1>9, <2>1
<1>10. CASE c \in {"d", "i", "u"}
  <2>1. r = F!FormatNumber(st, q, st.flags, 0, item)
    BY <1>10, Zenon DEF F!Conversion, F!Digit
  <2>2. c \in Whole
    BY <1>10 DEF Whole
  <2>3. QED
    BY <1>8, <2>1, <2>2
<1>11. CASE c \in {"b", "o"}
  <2>1. r = F!FormatNumber(st, q, st.flags, 1, item)
    BY <1>11, Zenon DEF F!Conversion, F!Digit
  <2>2. c \in Whole
    BY <1>11 DEF Whole
  <2>3. QED
    BY <1>8, <2>1, <2>2
<1>12. CASE c \in {"x", "X"}
  <2>1. r = F!FormatNumber(st, q, st.flags, 2, item)
    BY <1>12, Zenon DEF F!Conversion, F!Digit
  <2>2. c \in Whole
    BY <1>12 DEF Whole
  <2>3. QED
    BY <1>8, <2>1, <2>2
<1>13. CASE c = "c"
  <2>1. r = F!EndArg(st, q, F!DoString(st.flags, st.p, q, 1), 1)
    BY <1>13, Zenon DEF F!Conversion, F!Digit
  <2>2. c \in Conversions /\ c \notin Whole
    BY <1>13 DEF Conversions, Whole
  <2>3. QED
    BY <1>9, <2>1, <2>2
<1>14. CASE c = "s"
  <2> DEFINE cut == IF st.flags.precision > 0 /\ st.flags.precision < item THEN st.flags.precision ELSE item
  <2>1. r = F!FormatString(st, q, item)
    BY <1>14, Zenon DEF F!Conversion, F!Digit
  <2>2. F!FormatString(st, q, item) = F!EndArg(st, q, F!DoString(st.flags, st.p, q, cut), 1)
    BY DEF F!FormatString
  <2>3. c \in Conversions /\ c \notin Whole
    BY <1>14 DEF Conversions, Whole
  <2> HIDE DEF cut
  <2>4. QED
    BY <1>9, <2>1, <2>2, <2>3
<1>15. CASE c = "p"
  <2> DEFINE flags == [F!defaults EXCEPT !.field_width = 8, !.prefix = st.flags.prefix, !.type_width = "long"]
             p == st.p + (IF flags.signed_pos THEN 1 ELSE 0) + (IF flags.prefix THEN 2 ELSE 0)
  <2>1. r = F!FormatPointer(st, q, item)
    BY <1>15, Zenon DEF F!Conversion, F!Digit
  <2>2. flags.type_width = "long"
    BY DEF F!defaults
  <2>3. F!FormatPointer(st, q, item) = F!FormatNumber(st, q, flags, 2, item)
    BY DEF F!FormatPointer
  <2> HIDE DEF flags
  <2>4. flags.type_width # "longdouble" /\ F!WordsOf(flags.type_width) = 1
    BY <2>2 DEF F!WordsOf
  <2>5. F!FormatNumber(st, q, flags, 2, item) = F!EndArg(st, q, F!DoString(flags, p, q, item), F!WordsOf(flags.type_width))
    BY <2>4, Zenon DEF F!FormatNumber
  <2>6. c \in Conversions /\ c \notin Whole
    BY <1>15 DEF Conversions, Whole
  <2> HIDE DEF p
  <2>7. QED
    BY <1>9, <2>1, <2>3, <2>4, <2>5, <2>6
<1>16. CASE c = "n"
  <2>1. r = F!EndArg(st, q, st.p, 1)
    BY <1>16, Zenon DEF F!Conversion, F!Digit
  <2>2. c \in Conversions /\ c \notin Whole
    BY <1>16 DEF Conversions, Whole
  <2>3. QED
    BY <1>9, <2>1, <2>2
<1>17. CASE c \notin Conversions
  <2>1. c \notin {"d", "i", "u", "b", "o", "x", "X", "c", "s", "p", "n"}
    BY <1>17 DEF Conversions, Whole
  <2>2. c \notin {"-", "+", " ", "#", "0", "*", ".", "j", "z", "t", "L", "q", "h", "l", "d", "i",
                  "u", "b", "o", "x", "X", "c", "s", "p", "n"} \union F!Digit
    BY <1>3, <1>4, <2>1 DEF Letters
  <2>3. r = [st EXCEPT !.mode = "error"]
    BY <2>2, Zenon DEF F!Conversion, F!Digit
  <2>4. r.mode = "error" /\ r.words = st.words
    BY <2>3 DEF Formats
  <2>5. d.words >= Stars(d.chars, n) /\ d.words \in Nat
    BY <1>17, LibkAssumption DEF PlainConversion
  <2>6. /\ w[j - 1] \in Nat /\ w[j] = w[j - 1] + d.words /\ w[j] <= w[k] /\ w[k] \in Nat
    <3>1. k \in 0 .. k
      OBVIOUS
    <3>2. QED
      BY <1>2, <3>1, PartCharacter, ZenonT(60) DEF Laid
  <2>7. st.words = w[j - 1] + Stars(d.chars, n - 1)
    BY DEF AtPlace
  <2> HIDE DEF d
  <2>8. st.words <= w[k]
    BY <1>5, <2>5, <2>6, <2>7
  <2>9. QED
    BY <2>4, <2>8 DEF Taking, Taken, Moved
<1>18. QED
  BY <1>10, <1>11, <1>12, <1>13, <1>14, <1>15, <1>16, <1>17 DEF Conversions, Whole

(* Digits within a conversion end within it.                               *)
LEMMA DigitsWithin ==
  ASSUME NEW k \in Nat, NEW parts \in [1 .. k -> Directives], NEW o, NEW w, Laid(parts, k, o, w),
         NEW j \in 1 .. k, PlainConversion(parts[j]), NEW x \in 2 .. Len(parts[j].chars),
         parts[j].chars[x] \in F!Digit
  PROVE  \E t \in x + 1 .. Len(parts[j].chars) :
           /\ F!DigitsEnd(Format(parts), o[j - 1] + x) = o[j - 1] + t
           /\ \A y \in x .. t - 1 : parts[j].chars[y] \in F!Digit
<1> DEFINE fmt == Format(parts)
           chars == parts[j].chars
           n == Len(chars)
           b == o[j - 1]
           e == F!DigitsEnd(fmt, b + x)
<1>1. /\ b \in Nat /\ n \in Nat /\ Len(fmt) \in Nat /\ x \in Nat /\ x >= 2
      /\ b + x <= Len(fmt) /\ b + n <= Len(fmt)
  <2>1. x \in 1 .. n /\ n \in 1 .. n
    <3>1. chars \in Seq(STRING)
      BY LibkAssumption
    <3>2. n \in Nat
      BY <3>1, LenProperties
    <3>3. QED
      BY <3>2
  <2>2. QED
    BY <2>1, PartCharacter
<1>2. \A y \in 1 .. n : F!CharAt(fmt, b + y) = chars[y] /\ fmt[b + y] = chars[y]
  <2>1. ASSUME NEW y \in 1 .. Len(parts[j].chars)
        PROVE  F!CharAt(Format(parts), o[j - 1] + y) = parts[j].chars[y]
    BY PartCharacter, SMTT(60)
  <2>2. \A y \in 1 .. n : fmt[b + y] = chars[y]
    BY Zenon DEF Laid
  <2>3. QED
    BY <2>1, <2>2, Zenon
<1>3. chars[n] \notin F!Digit
  <2>1. n \in 2 .. n
    BY <1>1
  <2>2. QED
    BY <1>1, <2>1, PlainCharacters DEF Between
<1>4. /\ e \in b + x .. Len(fmt) + 1 /\ F!CharAt(fmt, e) \notin F!Digit
      /\ \A y \in b + x .. e - 1 : fmt[y] \in F!Digit
  <2>1. b + x \in Nat \ {0} /\ b + x <= Len(fmt) + 1
    BY <1>1
  <2> HIDE DEF fmt, b
  <2>2. QED
    BY <1>1, <2>1, DigitsEndIs
<1> DEFINE t == e - b
<1> HIDE DEF fmt, chars, n, b, e
<1>5. e \in Int /\ e = b + t /\ t \in Int /\ t >= x
  BY <1>1, <1>4 DEF t
<1> HIDE DEF t
<1>6. t <= n
  <2> SUFFICES ASSUME t > n PROVE FALSE
    BY <1>1, <1>5
  <2>1. n \in 1 .. n /\ b + n \in b + x .. e - 1
    BY <1>1, <1>5 DEF n, chars
  <2>2. QED
    BY <1>2, <1>3, <1>4, <2>1
<1>7. t # x
  <2> SUFFICES ASSUME t = x PROVE FALSE
    OBVIOUS
  <2>1. x \in 1 .. n
    BY <1>1 DEF n, chars
  <2>2. F!CharAt(fmt, e) = chars[x]
    BY <1>2, <1>5, <2>1
  <2>3. chars[x] \in F!Digit
    BY DEF chars
  <2>4. QED
    BY <1>4, <2>2, <2>3
<1>8. ASSUME NEW y \in x .. t - 1 PROVE chars[y] \in F!Digit
  <2>1. y \in 1 .. n /\ b + y \in b + x .. e - 1
    BY <1>1, <1>5, <1>6
  <2>2. QED
    BY <1>2, <1>4, <2>1
<1>9. t \in x + 1 .. n
  BY <1>1, <1>5, <1>6, <1>7
<1>10. QED
  BY <1>5, <1>8, <1>9 DEF fmt, chars, n, b, e

(* Steps on from a place, which is `m` characters after `a`.                *)
Behind(a, m, i) == i = a + m

LEMMA Shifted ==
  ASSUME NEW a \in Nat, NEW m \in Nat, NEW i, Behind(a, m, i)
  PROVE  Behind(a, m + 1, i + 1) /\ Behind(a, m + 2, i + 2)
BY DEF Behind

(* Places before one that has been reached from a place behind the `%`.     *)
LEMMA StepsBack ==
  ASSUME NEW n \in Nat, NEW m \in Nat, m >= 2, NEW t \in m + 1 .. n
  PROVE  /\ m - 1 \in Nat /\ t - 1 \in Nat /\ t - 2 \in Nat /\ t - 1 >= 2 /\ (t - 1) - 1 = t - 2
         /\ m - 1 <= t - 1 /\ m - 1 <= t - 2 /\ t - 2 <= t - 1
OBVIOUS

(* Two steps on from a place that is neither the last nor the last but one. *)
LEMMA TwoSteps ==
  ASSUME NEW n \in Nat, NEW m \in Nat, m < n, m + 1 # n
  PROVE  /\ m + 2 \in m + 1 .. n /\ (m + 2) - 1 = m + 1 /\ (m + 2) - 2 = m
         /\ \A x \in m .. (m + 2) - 2 : x = m
OBVIOUS

(* The inside of a conversion: flags, widths, precisions and modifiers.    *)
LEMMA InsideTaken ==
  ASSUME NEW k \in Nat, NEW parts \in [1 .. k -> Directives], NEW o, NEW w, Laid(parts, k, o, w),
         NEW q \in Nat, NEW item \in Nat, NEW star \in Nat, NEW st \in Formats,
         st.mode = "arg", st.p < q, st.flags.type_width # "longdouble",
         NEW j \in 1 .. k, PlainConversion(parts[j]),
         NEW m \in 2 .. Len(parts[j].chars) - 1, AtPlace(st, parts[j].chars, o, w, j, m),
         NEW fmt, fmt = Format(parts), NEW next, next = F!CharAt(fmt, st.i + 1),
         NEW c, c = parts[j].chars[m],
         NEW r, r = F!Conversion(st, fmt, q, item, star, c, next)
  PROVE  Taking(r, parts, k, o, w, q) /\ Moved(st.i, r)
<1> DEFINE d == parts[j]
           n == Len(d.chars)
<1>1. n \in Nat /\ m \in Nat /\ m >= 2 /\ m < n
  <2>1. d.chars \in Seq(STRING)
    BY LibkAssumption
  <2>2. n \in Nat
    BY <2>1, LenProperties
  <2>3. QED
    BY <2>2
<1>2. m \in 2 .. n /\ m \in 1 .. n /\ m + 1 \in 2 .. n /\ m + 1 \in 1 .. n /\ n \in 1 .. n
  BY <1>1
<1>3. /\ st.i = o[j - 1] + m /\ o[j - 1] \in Nat
      /\ st.i \in Nat \ {0} /\ Len(fmt) \in Nat
      /\ Doubled(st.flags.type_width) <=> Wide(d.chars, m - 1)
  <2>1. o[j - 1] \in Nat /\ Len(fmt) \in Nat
    BY <1>2, PartCharacter
  <2>2. st.i \in Nat \ {0}
    BY DEF Formats
  <2>3. QED
    BY <2>1, <2>2 DEF AtPlace
<1> DEFINE base == o[j - 1]
           here == st.i
<1> HIDE DEF base, here
<1>4. Behind(base, m + 1, here + 1) /\ Behind(base, m + 2, here + 2)
  <2>1. base \in Nat /\ Behind(base, m, here)
    BY <1>3, Zenon DEF base, here, Behind
  <2>2. QED
    BY <1>1, <2>1, Shifted, Zenon
<1>5. st.i + 1 = o[j - 1] + (m + 1) /\ st.i + 2 = o[j - 1] + (m + 2)
  BY <1>4, Zenon DEF base, here, Behind
<1>6. /\ \A x \in 1 .. n : o[j - 1] + x <= Len(fmt) /\ F!CharAt(fmt, o[j - 1] + x) = d.chars[x]
      /\ next = d.chars[m + 1] /\ F!CharAt(fmt, st.i) = c /\ fmt[st.i] = c
  <2>1. \A x \in 1 .. n : o[j - 1] + x <= Len(fmt) /\ F!CharAt(fmt, o[j - 1] + x) = d.chars[x]
    BY PartCharacter, SMTT(60)
  <2>2. st.i + 1 = o[j - 1] + (m + 1)
    BY <1>5
  <2>3. next = d.chars[m + 1]
    BY <1>2, <2>1, <2>2
  <2>4. F!CharAt(fmt, st.i) = c /\ st.i <= Len(fmt)
    BY <1>2, <1>3, <2>1
  <2>5. QED
    BY <2>1, <2>3, <2>4 DEF F!CharAt
<1>7. c \in Between
  <2>1. m \in 2 .. n - 1
    OBVIOUS
  <2>2. QED
    BY <2>1 DEF PlainConversion
<1>8. ASSUME NEW t \in m + 1 .. n, NEW flags \in FormatFlags, flags.type_width # "longdouble",
             Doubled(flags.type_width) <=> Wide(d.chars, t - 1), NEW i, i = o[j - 1] + t,
             Forward(r, st, flags, i, d.chars, m, t)
      PROVE  Taking(r, parts, k, o, w, q) /\ Moved(st.i, r)
  <2>1. flags \in KnownFlags
    BY <1>8 DEF KnownFlags
  <2>2. m \in 2 .. Len(parts[j].chars)
    BY <1>2
  <2>3. t \in m + 1 .. Len(parts[j].chars)
    OBVIOUS
  <2>4. /\ Doubled(flags.type_width) <=> Wide(parts[j].chars, t - 1)
        /\ Forward(r, st, flags, i, parts[j].chars, m, t)
    BY <1>8
  <2>5. QED
    BY <1>8, <2>1, <2>2, <2>3, <2>4, FlagTaken
<1>9. ASSUME NEW t \in m + 1 .. n, NEW flags \in FormatFlags,
             flags.type_width = st.flags.type_width, NEW i, i = o[j - 1] + t,
             r = F!SetFlag(st, flags, i), \A x \in m .. t - 1 : d.chars[x] \notin {"*", "j", "q"}
      PROVE  Taking(r, parts, k, o, w, q) /\ Moved(st.i, r)
  <2> DEFINE chars == d.chars
             a == m - 1
             b == t - 1
  <2>1. a \in Nat /\ b \in Nat /\ a <= b
    BY <1>1, StepsBack, Zenon
  <2>2. \A x \in a + 1 .. b : chars[x] # "*" /\ chars[x] \notin {"j", "q"}
    BY <1>1, <1>9
  <2> HIDE DEF chars, a, b, d
  <2>3. Stars(chars, b) = Stars(chars, a)
    BY <2>1, <2>2, StarsStay
  <2>4. Wide(chars, b) <=> Wide(chars, a)
    BY <2>1, <2>2, WideStays
  <2>5. Forward(r, st, flags, i, d.chars, m, t)
    BY <1>9, <2>3 DEF Forward, chars, a, b
  <2>6. Doubled(flags.type_width) <=> Wide(d.chars, t - 1)
    BY <1>3, <1>9, <2>4 DEF chars, a, b
  <2>7. flags.type_width # "longdouble"
    BY <1>9
  <2>8. QED
    BY <1>8, <1>9, <2>5, <2>6, <2>7
<1>10. /\ m + 1 \in m + 1 .. n /\ (m + 1) - 1 = m /\ \A x \in m .. (m + 1) - 1 : x = m
      /\ st.i + 1 = o[j - 1] + (m + 1)
  <2>1. m + 1 \in m + 1 .. n /\ (m + 1) - 1 = m /\ \A x \in m .. (m + 1) - 1 : x = m
    BY <1>1
  <2>2. QED
    BY <1>5, <2>1
<1>11. ASSUME NEW flags \in FormatFlags, flags.type_width = st.flags.type_width,
             r = F!SetFlag(st, flags, st.i + 1), c \notin {"*", "j", "q"}
      PROVE  Taking(r, parts, k, o, w, q) /\ Moved(st.i, r)
  <2>1. \A x \in m .. (m + 1) - 1 : d.chars[x] \notin {"*", "j", "q"}
    BY <1>10, <1>11
  <2> HIDE DEF n, d
  <2>2. QED
    BY <1>9, <1>10, <1>11, <2>1
<1>12. st.flags \in FormatFlags
  BY DEF Formats
<1>13. CASE c = "-"
  <2>1. r = F!SetFlag(st, [st.flags EXCEPT !.left_pad = FALSE], st.i + 1)
    BY <1>13, Zenon DEF F!Conversion, F!Digit
  <2>2. /\ [st.flags EXCEPT !.left_pad = FALSE] \in FormatFlags
        /\ [st.flags EXCEPT !.left_pad = FALSE].type_width = st.flags.type_width
    BY <1>12 DEF FormatFlags
  <2>3. QED
    BY <1>11, <1>13, <2>1, <2>2
<1>14. CASE c \in {"+", " "}
  <2>1. r = F!SetFlag(st, [st.flags EXCEPT !.signed_pos = TRUE], st.i + 1)
    BY <1>14, Zenon DEF F!Conversion, F!Digit
  <2>2. /\ [st.flags EXCEPT !.signed_pos = TRUE] \in FormatFlags
        /\ [st.flags EXCEPT !.signed_pos = TRUE].type_width = st.flags.type_width
    BY <1>12 DEF FormatFlags
  <2>3. QED
    BY <1>11, <1>14, <2>1, <2>2
<1>15. CASE c = "#"
  <2>1. r = F!SetFlag(st, [st.flags EXCEPT !.prefix = TRUE], st.i + 1)
    BY <1>15, Zenon DEF F!Conversion, F!Digit
  <2>2. /\ [st.flags EXCEPT !.prefix = TRUE] \in FormatFlags
        /\ [st.flags EXCEPT !.prefix = TRUE].type_width = st.flags.type_width
    BY <1>12 DEF FormatFlags
  <2>3. QED
    BY <1>11, <1>15, <2>1, <2>2
<1>16. CASE c = "0"
  <2>1. r = F!SetFlag(st, st.flags, st.i + 1)
    BY <1>16, Zenon DEF F!Conversion, F!Digit
  <2>2. QED
    BY <1>11, <1>12, <1>16, <2>1
<1>17. ASSUME NEW t \in m + 1 .. n, NEW flags \in FormatFlags, flags.type_width = st.flags.type_width,
              NEW i, i = o[j - 1] + t, r = [F!SetFlag(st, flags, i) EXCEPT !.words = @ + 1],
              d.chars[t - 1] = "*", \A x \in m .. t - 2 : d.chars[x] \notin {"*", "j", "q"}
       PROVE  Taking(r, parts, k, o, w, q) /\ Moved(st.i, r)
  <2> DEFINE chars == d.chars
             a == m - 1
             b == t - 2
             e == t - 1
  <2>1. a \in Nat /\ b \in Nat /\ a <= b /\ e \in Nat /\ e >= 2 /\ e - 1 = b /\ b <= e
    BY <1>1, StepsBack, Zenon
  <2>2. \A x \in a + 1 .. b : chars[x] # "*" /\ chars[x] \notin {"j", "q"}
    BY <1>1, <1>17
  <2>3. chars[e] = "*"
    BY <1>17
  <2> HIDE DEF chars, a, b, d, e
  <2>4. \A x \in b + 1 .. e : chars[x] \notin {"j", "q"}
    <3>1. \A x \in b + 1 .. e : x = e
      BY <2>1
    <3>2. "*" \notin {"j", "q"}
      OBVIOUS
    <3>3. QED
      BY <2>3, <3>1, <3>2, Zenon
  <2>5. Stars(chars, b) = Stars(chars, a)
    BY <2>1, <2>2, StarsStay
  <2>6. Stars(chars, e) = Stars(chars, b) + 1
    BY <2>1, <2>3, StarsAre
  <2>7. Wide(chars, b) <=> Wide(chars, a)
    BY <2>1, <2>2, WideStays
  <2>8. Wide(chars, e) <=> Wide(chars, b)
    BY <2>1, <2>4, WideStays
  <2>9. Forward(r, st, flags, i, d.chars, m, t)
    <3>1. Stars(d.chars, t - 1) = Stars(d.chars, m - 1) + 1
      BY <2>5, <2>6 DEF chars, a, e
    <3>2. QED
      BY <1>17, <3>1, Zenon DEF Forward
  <2>10. Doubled(flags.type_width) <=> Wide(d.chars, t - 1)
    BY <1>3, <1>17, <2>7, <2>8 DEF chars, a, e
  <2>11. flags.type_width # "longdouble"
    BY <1>17
  <2>12. QED
    BY <1>8, <1>17, <2>9, <2>10, <2>11
<1>18. CASE c = "*"
  <2> DEFINE flags == [st.flags EXCEPT !.field_width = star]
  <2>1. r = [F!SetFlag(st, flags, st.i + 1) EXCEPT !.words = @ + 1]
    BY <1>18, Zenon DEF F!Conversion, F!Digit
  <2>2. flags \in FormatFlags /\ flags.type_width = st.flags.type_width
    BY <1>12 DEF FormatFlags
  <2>3. /\ \A x \in m .. (m + 1) - 2 : d.chars[x] \notin {"*", "j", "q"}
        /\ d.chars[(m + 1) - 1] = "*"
    <3>1. \A x \in m .. (m + 1) - 2 : FALSE
      BY <1>1
    <3>2. QED
      BY <1>10, <1>18, <3>1
  <2> HIDE DEF flags, n, d
  <2>4. QED
    BY <1>10, <1>17, <2>1, <2>2, <2>3
<1>19. CASE c = "." /\ next \in F!Digit
  <2> DEFINE value == F!ExtractInt(fmt, st.i + 1)
             flags == [st.flags EXCEPT !.precision = value]
  <2>1. r = F!SetFlag(st, flags, F!DigitsEnd(fmt, st.i + 1))
    BY <1>19, Zenon DEF F!Conversion, F!Digit
  <2>2. value \in Nat
    <3>1. st.i + 1 \in Nat \ {0} /\ st.i + 1 <= Len(fmt) + 1
      <4>1. st.i <= Len(fmt)
        BY <1>2, <1>3, <1>6
      <4> DEFINE i == st.i
      <4>2. i \in Nat /\ i <= Len(fmt) /\ Len(fmt) \in Nat
        BY <1>3, <4>1
      <4> HIDE DEF i
      <4>3. i + 1 \in Nat \ {0} /\ i + 1 <= Len(fmt) + 1
        BY <4>2
      <4>4. QED
        BY <4>3 DEF i
    <3> HIDE DEF n, d
    <3>2. QED
      BY <1>3, <3>1, ExtractIntIs
  <2> HIDE DEF value
  <2>3. flags \in FormatFlags /\ flags.type_width = st.flags.type_width
    BY <1>12, <2>2 DEF FormatFlags
  <2>4. PICK t \in (m + 1) + 1 .. n :
          /\ F!DigitsEnd(fmt, o[j - 1] + (m + 1)) = o[j - 1] + t
          /\ \A y \in m + 1 .. t - 1 : d.chars[y] \in F!Digit
    <3>1. m + 1 \in 2 .. Len(parts[j].chars) /\ parts[j].chars[m + 1] \in F!Digit
      BY <1>2, <1>6, <1>19
    <3>2. QED
      BY <3>1, DigitsWithin, SMTT(60)
  <2>5. t \in m + 1 .. n
    BY <1>1
  <2>6. \A x \in m .. t - 1 : d.chars[x] \notin {"*", "j", "q"}
    <3>1. \A x \in m .. t - 1 : x = m \/ x \in m + 1 .. t - 1
      BY <1>1
    <3>2. \A y \in F!Digit : y \notin {"*", "j", "q"}
      BY DEF F!Digit
    <3>3. QED
      BY <1>19, <2>4, <3>1, <3>2
  <2>7. F!DigitsEnd(fmt, st.i + 1) = o[j - 1] + t
    BY <1>10, <2>4
  <2> HIDE DEF flags, n, d
  <2>8. QED
    BY <1>9, <2>1, <2>3, <2>5, <2>6, <2>7
<1>20. CASE c = "." /\ next = "*"
  <2> DEFINE flags == [st.flags EXCEPT !.precision = star]
  <2>1. r = [F!SetFlag(st, flags, st.i + 2) EXCEPT !.words = @ + 1]
    BY <1>20, Zenon DEF F!Conversion, F!Digit
  <2>2. flags \in FormatFlags /\ flags.type_width = st.flags.type_width
    BY <1>12 DEF FormatFlags
  <2>3. m + 1 # n
    <3>1. m + 1 = n => d.chars[m + 1] \notin Between
      BY <1>1, <1>2, PlainCharacters
    <3>2. "*" \in Between
      BY DEF Between
    <3>3. QED
      BY <1>6, <1>20, <3>1, <3>2
  <2>4. /\ m + 2 \in m + 1 .. n /\ (m + 2) - 1 = m + 1 /\ (m + 2) - 2 = m /\ st.i + 2 = o[j - 1] + (m + 2)
        /\ \A x \in m .. (m + 2) - 2 : x = m
    <3>1. /\ m + 2 \in m + 1 .. n /\ (m + 2) - 1 = m + 1 /\ (m + 2) - 2 = m
          /\ \A x \in m .. (m + 2) - 2 : x = m
      BY <1>1, <2>3, TwoSteps, Zenon
    <3>2. QED
      BY <1>5, <3>1
  <2>5. /\ \A x \in m .. (m + 2) - 2 : d.chars[x] \notin {"*", "j", "q"}
        /\ d.chars[(m + 2) - 1] = "*"
    BY <1>6, <1>20, <2>4
  <2> HIDE DEF flags, n, d
  <2>6. QED
    BY <1>17, <2>1, <2>2, <2>4, <2>5
<1>21. CASE c = "." /\ next \notin F!Digit \union {"*"}
  <2>1. r = F!SetFlag(st, [st.flags EXCEPT !.precision = 0], st.i + 1)
    BY <1>21, Zenon DEF F!Conversion, F!Digit
  <2>2. /\ [st.flags EXCEPT !.precision = 0] \in FormatFlags
        /\ [st.flags EXCEPT !.precision = 0].type_width = st.flags.type_width
    BY <1>12 DEF FormatFlags
  <2>3. QED
    BY <1>11, <1>21, <2>1, <2>2
<1>22. CASE c \in F!Digit \ {"0"}
  <2> DEFINE value == F!ExtractInt(fmt, st.i)
             flags == [st.flags EXCEPT !.field_width = value]
  <2>1. r = F!SetFlag(st, flags, F!DigitsEnd(fmt, st.i))
    BY <1>22, Zenon DEF F!Conversion, F!Digit
  <2>2. value \in Nat
    <3>1. st.i <= Len(fmt) + 1
      <4>1. st.i <= Len(fmt)
        BY <1>2, <1>3, <1>6
      <4> DEFINE i == st.i
      <4>2. i \in Nat /\ i <= Len(fmt) /\ Len(fmt) \in Nat
        BY <1>3, <4>1
      <4> HIDE DEF i
      <4>3. i <= Len(fmt) + 1
        BY <4>2
      <4>4. QED
        BY <4>3 DEF i
    <3> HIDE DEF n, d
    <3>2. QED
      BY <1>3, <3>1, ExtractIntIs
  <2> HIDE DEF value
  <2>3. flags \in FormatFlags /\ flags.type_width = st.flags.type_width
    BY <1>12, <2>2 DEF FormatFlags
  <2>4. PICK t \in m + 1 .. n :
          /\ F!DigitsEnd(fmt, o[j - 1] + m) = o[j - 1] + t
          /\ \A y \in m .. t - 1 : d.chars[y] \in F!Digit
    <3>1. m \in 2 .. Len(parts[j].chars) /\ parts[j].chars[m] \in F!Digit
      BY <1>2, <1>22
    <3>2. QED
      BY <3>1, DigitsWithin
  <2>5. \A x \in m .. t - 1 : d.chars[x] \notin {"*", "j", "q"}
    <3>1. \A y \in F!Digit : y \notin {"*", "j", "q"}
      BY DEF F!Digit
    <3>2. QED
      BY <2>4, <3>1
  <2>6. F!DigitsEnd(fmt, st.i) = o[j - 1] + t
    BY <1>3, <2>4
  <2> HIDE DEF flags, n, d
  <2>7. QED
    BY <1>9, <2>1, <2>3, <2>4, <2>5, <2>6
<1>23. CASE c \in Letters
  <2> DEFINE width == F!Modifier(fmt, st.i)
             flags == [st.flags EXCEPT !.type_width = width]
  <2>1. r = F!SetFlag(st, flags, st.i + 1)
    <3>1. c \in {"j", "z", "t", "L", "q", "h", "l"}
      BY <1>23 DEF Letters
    <3>2. QED
      BY <3>1, Zenon DEF F!Conversion, F!Digit
  <2>2. \A x \in 2 .. n - 1 : d.chars[x] \in Letters => x = m
    <3>1. m \in 2 .. n - 1
      OBVIOUS
    <3>2. QED
      BY <1>23, <3>1 DEF PlainConversion
  <2>3. next \notin {"h", "l"}
    <3>1. CASE m + 1 = n
      <4>1. d.chars[m + 1] \notin Between
        BY <1>1, <1>2, <3>1, PlainCharacters
      <4>2. QED
        BY <1>6, <4>1 DEF Between, Letters
    <3>2. CASE m + 1 # n
      <4>1. m + 1 \in 2 .. n - 1 /\ m + 1 # m
        BY <1>1, <3>2
      <4>2. d.chars[m + 1] \notin Letters
        BY <2>2, <4>1
      <4>3. QED
        BY <1>6, <4>2 DEF Letters
    <3>3. QED
      BY <3>1, <3>2
  <2>4. width \in Widths \ {"longdouble"} /\ (Doubled(width) <=> c \in {"j", "q"})
    BY <1>6, <1>23, <2>3, ModifierTells
  <2> HIDE DEF width
  <2>5. flags \in FormatFlags /\ flags.type_width = width
    BY <1>12, <2>4 DEF FormatFlags
  <2>6. Wide(d.chars, m) <=> c \in {"j", "q"}
    <3>1. \A x \in 2 .. m : x = m \/ (x \in 2 .. n - 1 /\ x # m)
      BY <1>1
    <3>2. \A x \in 2 .. m : d.chars[x] \in {"j", "q"} => x = m
      BY <2>2, <3>1 DEF Letters
    <3>3. m \in 2 .. m
      BY <1>1
    <3> HIDE DEF d, n
    <3>4. c = d.chars[m]
      BY DEF d
    <3>5. QED
      BY <3>2, <3>3, <3>4 DEF Wide
  <2>7. Forward(r, st, flags, st.i + 1, d.chars, m, m + 1)
    <3>1. c # "*"
      BY <1>23 DEF Letters
    <3> DEFINE a == m - 1
               chars == d.chars
    <3>2. a \in Nat /\ a <= m /\ \A x \in a + 1 .. m : x = m
      BY <1>1
    <3>3. \A x \in a + 1 .. m : chars[x] # "*"
      BY <3>1, <3>2
    <3> HIDE DEF a, chars, d, n, flags
    <3>4. Stars(chars, m) = Stars(chars, a)
      BY <1>1, <3>2, <3>3, StarsStay
    <3>5. QED
      BY <1>10, <2>1, <3>4 DEF Forward, a, chars
  <2> HIDE DEF flags, n, d
  <2>8. flags.type_width # "longdouble" /\ (Doubled(flags.type_width) <=> Wide(d.chars, (m + 1) - 1))
    BY <1>10, <2>4, <2>5, <2>6
  <2>9. QED
    BY <1>8, <1>10, <2>5, <2>7, <2>8
<1>24. QED
  <2>1. \/ c \in {"-", "+", " ", "#", "0", "*"} \/ c = "." \/ c \in F!Digit \/ c \in Letters
    BY <1>7 DEF Between
  <2>2. QED
    BY <1>13, <1>14, <1>15, <1>16, <1>18, <1>19, <1>20, <1>21, <1>22, <1>23, <2>1

(* A turn within a conversion.                                             *)
LEMMA ArgTaken ==
  ASSUME NEW k \in Nat, NEW parts \in [1 .. k -> Directives], NEW o, NEW w, Laid(parts, k, o, w),
         NEW q \in Nat, NEW item \in Nat, NEW star \in Nat, NEW st \in Formats,
         InPart(st, parts, k, o, w, q)
  PROVE  /\ Taking(F!ArgStep(st, Format(parts), q, item, star), parts, k, o, w, q)
         /\ Moved(st.i, F!ArgStep(st, Format(parts), q, item, star))
<1>1. PICK j \in 1 .. k : \E m \in 2 .. Len(parts[j].chars) :
        PlainConversion(parts[j]) /\ AtPlace(st, parts[j].chars, o, w, j, m)
  BY DEF InPart
<1>2. PICK m \in 2 .. Len(parts[j].chars) :
        PlainConversion(parts[j]) /\ AtPlace(st, parts[j].chars, o, w, j, m)
  BY <1>1
<1>3. st.mode = "arg" /\ st.p < q /\ st.flags.type_width # "longdouble" /\ st.p \in Nat
  BY DEF InPart, Formats
<1> DEFINE fmt == Format(parts)
           next == F!CharAt(fmt, st.i + 1)
           c == parts[j].chars[m]
           n == Len(parts[j].chars)
           r == F!Conversion(st, fmt, q, item, star, c, next)
<1>4. n \in Nat /\ m \in 1 .. n
  <2>1. parts[j].chars \in Seq(STRING)
    BY LibkAssumption
  <2>2. QED
    BY <2>1, LenProperties
<1>5. F!CharAt(fmt, st.i) = c
  <2>1. st.i = o[j - 1] + m
    BY <1>2 DEF AtPlace
  <2>2. QED
    BY <1>4, <2>1, PartCharacter
<1>6. c # ""
  BY <1>2, <1>4, PlainCharacters
<1>7. F!ArgStep(st, fmt, q, item, star) = r
  <2>1. ~(st.p >= q)
    BY <1>3
  <2> HIDE DEF c, fmt
  <2>2. QED
    BY <1>5, <1>6, <2>1, Zenon DEF F!ArgStep
<1>8. CASE m = n
  <2>1. AtPlace(st, parts[j].chars, o, w, j, Len(parts[j].chars)) /\ c = parts[j].chars[Len(parts[j].chars)]
    BY <1>2, <1>8
  <2>2. PlainConversion(parts[j]) /\ st.flags.type_width # "longdouble"
    BY <1>2, <1>3
  <2> HIDE DEF fmt, next, c
  <2>3. Taking(r, parts, k, o, w, q) /\ Moved(st.i, r)
    <3> HIDE DEF r
    <3>1. r = F!Conversion(st, fmt, q, item, star, c, next)
      BY DEF r
    <3>2. QED
      BY <2>1, <2>2, <3>1, EndTaken
  <2>4. QED
    BY <1>7, <2>3 DEF fmt
<1>9. CASE m # n
  <2>1. m \in 2 .. Len(parts[j].chars) - 1
    BY <1>4, <1>9
  <2>2. PlainConversion(parts[j]) /\ AtPlace(st, parts[j].chars, o, w, j, m)
    BY <1>2
  <2>3. c = parts[j].chars[m] /\ fmt = Format(parts) /\ next = F!CharAt(fmt, st.i + 1)
    OBVIOUS
  <2>4. Taking(r, parts, k, o, w, q) /\ Moved(st.i, r)
    <3> HIDE DEF fmt, next, c, n, r
    <3>1. r = F!Conversion(st, fmt, q, item, star, c, next)
      BY DEF r
    <3>2. QED
      BY <1>3, <2>1, <2>2, <2>3, <3>1, InsideTaken, ZenonT(60)
  <2> HIDE DEF r
  <2>5. QED
    BY <1>7, <2>4
<1>10. QED
  BY <1>8, <1>9

(* A call under way has not passed the end of the format.                  *)
LEMMA TakingWithin ==
  ASSUME NEW k \in Nat, NEW parts \in [1 .. k -> Directives], NEW o, NEW w, Laid(parts, k, o, w),
         NEW q, NEW st, Taking(st, parts, k, o, w, q)
  PROVE  Taken(st, parts, k, w) \/ (st.mode \in {"text", "arg"} /\ st.i <= Len(Format(parts)) + 1)
<1>1. CASE BeforePart(st, k, o, w)
  <2>1. PICK j \in 0 .. k : st.i = o[j] + 1
    BY <1>1 DEF BeforePart
  <2>2. k \in 0 .. k /\ k \in j .. k
    OBVIOUS
  <2>3. o[j] \in Nat /\ o[k] \in Nat /\ o[k] = Len(Format(parts))
    BY <2>2 DEF Laid
  <2>4. o[j] <= o[k]
    BY <2>2, LaidRises
  <2>5. QED
    BY <1>1, <2>1, <2>3, <2>4 DEF BeforePart
<1>2. CASE InPart(st, parts, k, o, w, q)
  <2>1. PICK j \in 1 .. k : \E m \in 2 .. Len(parts[j].chars) : st.i = o[j - 1] + m
    BY <1>2 DEF InPart, AtPlace
  <2>2. PICK m \in 2 .. Len(parts[j].chars) : st.i = o[j - 1] + m
    BY <2>1
  <2>3. m \in 1 .. Len(parts[j].chars)
    <3>1. parts[j].chars \in Seq(STRING)
      BY LibkAssumption
    <3>2. QED
      BY <3>1, LenProperties
  <2>4. o[j - 1] + m <= Len(Format(parts)) /\ o[j - 1] \in Nat /\ Len(Format(parts)) \in Nat
    BY <2>3, PartCharacter
  <2>5. st.mode = "arg"
    BY <1>2 DEF InPart
  <2>6. QED
    BY <2>2, <2>4, <2>5
<1>3. QED
  BY <1>1, <1>2 DEF Taking

(* A call of a plain format takes what was passed (kstring_format.c:350).  *)
LEMMA VformatTakes ==
  ASSUME NEW k \in Nat, NEW parts \in [1 .. k -> Directives], Plain(parts),
         NEW q \in Nat \ {0}, NEW item \in Nat, NEW star \in Nat
  PROVE  LET st == F!Vformat(Format(parts), q, item, star)
         IN  /\ st.mode \in {"done", "error"} /\ st.words <= Passed(parts)
             /\ st.mode = "done" /\ st.i > Len(Format(parts)) => st.words = Passed(parts)
<1> DEFINE fmt == Format(parts)
           st == F!Vformat(fmt, q, item, star)
<1> PICK o, w : Laid(parts, k, o, w)
  BY FormatLaid
<1>1. Len(fmt) \in Nat /\ w[k] = Passed(parts) /\ o[0] = 0 /\ w[0] = 0
  <2>1. k \in 0 .. k
    OBVIOUS
  <2>2. QED
    BY <2>1 DEF Laid
<1> HIDE DEF fmt
<1>2. PICK run : IsRun(run, fmt, q, item, star)
  BY <1>1, VformatRuns
<1>3. /\ run[0] = F!FormatStart /\ st = run[3 * Len(fmt) + 3]
      /\ \A n \in Nat : run[n] \in Formats
      /\ \A n \in Nat : run[n + 1] = TurnOf(run[n], fmt, q, item, star)
  BY <1>2 DEF IsRun, Within
<1> HIDE DEF st
<1> DEFINE Good(n) == Taking(run[n], parts, k, o, w, q) /\ (run[n].mode \in {"text", "arg"} => run[n].i >= n + 1)
           T == {n \in Nat : Good(n)}
<1>4. 0 \in T
  <2>1. run[0].mode = "text" /\ run[0].i = 1 /\ run[0].words = 0
    BY <1>3 DEF F!FormatStart
  <2>2. BeforePart(run[0], k, o, w)
    <3>1. 0 \in 0 .. k
      OBVIOUS
    <3>2. QED
      BY <1>1, <2>1, <3>1 DEF BeforePart
  <2>3. QED
    BY <2>1, <2>2 DEF Taking
<1>5. ASSUME NEW n \in Nat, n \in T PROVE n + 1 \in T
  <2> DEFINE s == run[n]
             t == run[n + 1]
  <2>1. s \in Formats /\ t = TurnOf(s, fmt, q, item, star)
    BY <1>3
  <2>2. Taking(s, parts, k, o, w, q) /\ (s.mode \in {"text", "arg"} => s.i >= n + 1)
    BY <1>5
  <2>3. ASSUME Taking(t, parts, k, o, w, q), Moved(s.i, t), s.mode \in {"text", "arg"}
        PROVE  n + 1 \in T
    <3>1. s.i \in Nat
      BY <2>1 DEF Formats
    <3>2. s.i >= n + 1 /\ (t.mode \in {"text", "arg"} => t.i >= s.i + 1)
      BY <2>2, <2>3 DEF Moved
    <3>3. t.mode \in {"text", "arg"} => t.i >= (n + 1) + 1
      <4>1. t \in Formats
        BY <1>3
      <4>2. t.i \in Nat
        BY <4>1 DEF Formats
      <4> DEFINE a == s.i
                 b == t.i
      <4>3. a \in Nat /\ b \in Nat /\ a >= n + 1 /\ (t.mode \in {"text", "arg"} => b >= a + 1)
        BY <3>1, <3>2, <4>2
      <4> HIDE DEF a, b
      <4>4. t.mode \in {"text", "arg"} => b >= (n + 1) + 1
        BY <4>3
      <4>5. QED
        BY <4>4 DEF b
    <3>4. QED
      BY <2>3, <3>3
  <2> HIDE DEF T
  <2>4. CASE BeforePart(s, k, o, w)
    <3>1. s.mode = "text"
      BY <2>4 DEF BeforePart
    <3>2. t = F!TextStep(s, fmt, q)
      BY <2>1, <3>1 DEF TurnOf
    <3> HIDE DEF s, t
    <3>3. Taking(t, parts, k, o, w, q) /\ Moved(s.i, t)
      BY <2>1, <2>4, <3>2, TextTaken DEF fmt
    <3>4. QED
      BY <2>3, <3>1, <3>3
  <2>5. CASE InPart(s, parts, k, o, w, q)
    <3>1. s.mode = "arg"
      BY <2>5 DEF InPart
    <3>2. t = F!ArgStep(s, fmt, q, item, star)
      BY <2>1, <3>1 DEF TurnOf
    <3> HIDE DEF s, t
    <3>3. Taking(t, parts, k, o, w, q) /\ Moved(s.i, t)
      BY <2>1, <2>5, <3>2, ArgTaken DEF fmt
    <3>4. QED
      BY <2>3, <3>1, <3>3
  <2>6. CASE Taken(s, parts, k, w)
    <3>1. s.mode \in {"done", "error"}
      BY <2>6 DEF Taken
    <3>2. t = s
      BY <2>1, <3>1 DEF TurnOf
    <3>3. Good(n + 1)
      BY <2>2, <3>1, <3>2
    <3>4. QED
      BY <3>3 DEF T
  <2>7. QED
    BY <2>2, <2>4, <2>5, <2>6 DEF Taking
<1>6. Nat \subseteq T
  <2> HIDE DEF T
  <2>1. QED
    BY <1>4, <1>5, Induct
<1>7. 3 * Len(fmt) + 3 \in Nat
  BY <1>1
<1>8. Taking(st, parts, k, o, w, q) /\ (st.mode \in {"text", "arg"} => st.i >= (3 * Len(fmt) + 3) + 1)
  BY <1>3, <1>6, <1>7
<1>9. Taken(st, parts, k, w)
  <2>1. st.mode \in {"text", "arg"} => ~(st.i <= Len(fmt) + 1)
    <3>1. st \in Formats
      BY <1>3, <1>7
    <3>2. st.i \in Nat
      BY <3>1 DEF Formats
    <3> DEFINE a == st.i
               l == Len(fmt)
    <3>3. a \in Nat /\ l \in Nat /\ (st.mode \in {"text", "arg"} => a >= (3 * l + 3) + 1)
      BY <1>1, <1>8, <3>2
    <3> HIDE DEF a, l
    <3>4. st.mode \in {"text", "arg"} => ~(a <= l + 1)
      BY <3>3
    <3>5. QED
      BY <3>4 DEF a, l
  <2>2. QED
    BY <1>8, <2>1, TakingWithin DEF fmt
<1>10. QED
  BY <1>1, <1>9 DEF Taken, st, fmt
---------------------------------------------------------------------------
(* While a copy is under way, the call is the record of a copy.            *)
CopyCall ==
  call.fn = "copy" =>
    \E same, n, c : call = [fn |-> "copy", same |-> same, n |-> n, copy |-> c]

Results ==
  /\ FillExtent /\ CompareDetects /\ StringsRight /\ FindStrMissesNothing /\ ArgumentsTaken
  /\ OverrunByOneItem

Inv == Results /\ CopyCall

\* The functions that the results speak of.
Spoken == {"fill8", "compare", "copy_string", "concatenate", "compare_string", "find_str", "case",
           "format"}

(* A call of another function leaves nothing to show.                      *)
LEMMA OtherResults ==
  ASSUME call'.fn \notin Spoken
  PROVE  Results'
  BY DEF Spoken, Results, FillExtent, CompareDetects, StringsRight, FindStrMissesNothing,
         OverrunByOneItem, ArgumentsTaken

(* What is begun is no copy unless it says so.                             *)
LEMMA NoCopy ==
  ASSUME call'.fn \in Spoken
  PROVE  CopyCall'
  BY DEF Spoken, CopyCall

(* A fill stays close to its region.                                       *)
LEMMA FillInv ==
  ASSUME NEW addr \in 0 .. 3, NEW n \in 0 .. MaxFill, kmemory_fill8(addr, n)
  PROVE  Inv'
<1>1. addr \in Nat /\ n \in Nat
  BY LibkAssumption
<1>2. call' = [fn |-> "fill8", addr |-> addr, n |-> n, length |-> Fill8Length(addr, n)]
  BY DEF kmemory_fill8, Start
<1>3. call'.fn = "fill8" /\ call'.length = Fill8Length(addr, n) /\ call'.n = n
  BY <1>2
<1>4. Results'
  BY <1>1, <1>3, FillBounds DEF Results, FillExtent, CompareDetects, StringsRight, FindStrMissesNothing,
                           OverrunByOneItem, ArgumentsTaken
<1>5. QED
  BY <1>3, <1>4, NoCopy DEF Inv, Spoken

(* A comparison of regions tells them apart.                               *)
LEMMA CompareInv ==
  ASSUME NEW n \in 1 .. MaxCompare, NEW a \in Ints(n + 2), NEW b \in Ints(n + 2),
         kmemory_compare(a, b, n)
  PROVE  Inv'
<1>1. n \in Nat /\ a \in Bytes(n) /\ b \in Bytes(n)
  BY LibkAssumption DEF Ints, Bytes
<1>2. call' = [fn |-> "compare", a |-> a, b |-> b, n |-> n, result |-> Compare(a, b, n)]
  BY DEF kmemory_compare, Start
<1>3. /\ call'.fn = "compare" /\ call'.a = a /\ call'.b = b /\ call'.n = n
      /\ call'.result = Compare(a, b, n)
  BY <1>2
<1>4. CompareDetects'
  BY <1>1, <1>3, CompareTells DEF CompareDetects
<1>5. (FillExtent /\ StringsRight /\ FindStrMissesNothing /\ OverrunByOneItem /\ ArgumentsTaken)'
  BY <1>3 DEF FillExtent, StringsRight, FindStrMissesNothing, OverrunByOneItem, ArgumentsTaken
<1>6. QED
  BY <1>3, <1>4, <1>5, NoCopy DEF Inv, Results, Spoken

(* A copy of a string is that string, up to the count.                     *)
LEMMA CopyStringInv ==
  ASSUME NEW a \in Strings, NEW b \in Strings, NEW n \in 0 .. MaxText,
         kstring_copy(Dirty(a, 1), b, n)
  PROVE  Inv'
<1> DEFINE d == Dirty(a, 1)
<1>1. n \in Nat /\ IsText(b) /\ IsText(a)
  BY LibkAssumption, StringsAreText
<1>2. DOMAIN d = 0 .. Room
  BY <1>1 DEF Dirty, IsText, Ends
<1> HIDE DEF d
<1>3. call' = [fn |-> "copy_string", dst |-> d, src |-> b, n |-> n,
               result |-> S!Copy(d, b, n), end |-> S!CopyEnd(b, n)]
  BY DEF kstring_copy, Start, d
<1>4. /\ call'.fn = "copy_string" /\ call'.dst = d /\ call'.src = b /\ call'.n = n
      /\ call'.result = S!Copy(d, b, n) /\ call'.end = S!CopyEnd(b, n)
  BY <1>3
<1>5. StringsRight'
  <2>1. /\ S!Text(S!Copy(d, b, n)) = SubSeq(S!Text(b), 1, S!CopyEnd(b, n))
        /\ S!CopyEnd(b, n) <= n
        /\ \A i \in S!CopyEnd(b, n) + 1 .. Room : S!Copy(d, b, n)[i] = d[i]
    BY <1>1, <1>2, CopyRight
  <2>2. /\ S!Text(call'.result) = SubSeq(S!Text(call'.src), 1, call'.end)
        /\ call'.end <= call'.n
        /\ \A i \in call'.end + 1 .. Room : call'.result[i] = call'.dst[i]
    BY <1>4, <2>1, Zenon
  <2>3. QED
    BY <1>4, <2>2, Zenon DEF StringsRight
<1>6. (FillExtent /\ CompareDetects /\ FindStrMissesNothing /\ OverrunByOneItem /\ ArgumentsTaken)'
  BY <1>4 DEF FillExtent, CompareDetects, FindStrMissesNothing, OverrunByOneItem, ArgumentsTaken
<1>7. QED
  BY <1>4, <1>5, <1>6, NoCopy DEF Inv, Results, Spoken

(* A concatenation is one string after the other.                          *)
LEMMA ConcatenateInv ==
  ASSUME NEW a \in Strings, NEW b \in Strings, NEW n \in 0 .. MaxText,
         kstring_concatenate(a, b, n)
  PROVE  Inv'
<1>1. n \in Nat /\ IsText(b) /\ IsText(a)
  BY LibkAssumption, StringsAreText
<1>2. call' = [fn |-> "concatenate", dst |-> a, src |-> b, n |-> n, result |-> S!Concatenate(a, b, n)]
  BY DEF kstring_concatenate, Start
<1>3. /\ call'.fn = "concatenate" /\ call'.dst = a /\ call'.src = b /\ call'.n = n
      /\ call'.result = S!Concatenate(a, b, n)
  BY <1>2
<1>4. StringsRight'
  <2>1. S!Text(S!Concatenate(a, b, n)) = S!Text(a) \o SubSeq(S!Text(b), 1, S!CopyEnd(b, n))
    BY <1>1, ConcatenateRight
  <2>2. S!Text(call'.result) = S!Text(call'.dst) \o SubSeq(S!Text(call'.src), 1, S!CopyEnd(call'.src, call'.n))
    BY <1>3, <2>1, Zenon
  <2>3. QED
    BY <1>3, <2>2, Zenon DEF StringsRight
<1>5. (FillExtent /\ CompareDetects /\ FindStrMissesNothing /\ OverrunByOneItem /\ ArgumentsTaken)'
  BY <1>3 DEF FillExtent, CompareDetects, FindStrMissesNothing, OverrunByOneItem, ArgumentsTaken
<1>6. QED
  BY <1>3, <1>4, <1>5, NoCopy DEF Inv, Results, Spoken

(* A comparison of strings finds equal ones equal.                         *)
LEMMA CompareStringInv ==
  ASSUME NEW a \in Strings, NEW b \in Strings, NEW n \in 0 .. MaxText,
         kstring_compare(a, b, n)
  PROVE  Inv'
<1>1. n \in Nat /\ IsText(b) /\ IsText(a)
  BY LibkAssumption, StringsAreText
<1>2. call' = [fn |-> "compare_string", a |-> a, b |-> b, n |-> n, result |-> S!Compare(a, b, n)]
  BY DEF kstring_compare, Start
<1>3. /\ call'.fn = "compare_string" /\ call'.a = a /\ call'.b = b /\ call'.n = n
      /\ call'.result = S!Compare(a, b, n)
  BY <1>2
<1>4. StringsRight'
  BY <1>1, <1>3, CompareRight DEF StringsRight
<1>5. (FillExtent /\ CompareDetects /\ FindStrMissesNothing /\ OverrunByOneItem /\ ArgumentsTaken)'
  BY <1>3 DEF FillExtent, CompareDetects, FindStrMissesNothing, OverrunByOneItem, ArgumentsTaken
<1>6. QED
  BY <1>3, <1>4, <1>5, NoCopy DEF Inv, Results, Spoken

(* A search misses no occurrence but the first place.                      *)
LEMMA FindInv ==
  ASSUME NEW a \in Strings, NEW b \in Strings, S!Length(b) > 0, kstring_find_str(a, b)
  PROVE  Inv'
<1>1. IsText(b) /\ IsText(a)
  BY StringsAreText
<1>2. call' = [fn |-> "find_str", a |-> a, b |-> b, result |-> S!FindStr(a, b)]
  BY DEF kstring_find_str, Start
<1>3. call'.fn = "find_str" /\ call'.a = a /\ call'.b = b /\ call'.result = S!FindStr(a, b)
  BY <1>2
<1>4. FindStrMissesNothing'
  BY <1>1, <1>3, FindStrSound DEF FindStrMissesNothing
<1>5. (FillExtent /\ CompareDetects /\ StringsRight /\ OverrunByOneItem /\ ArgumentsTaken)'
  BY <1>3 DEF FillExtent, CompareDetects, StringsRight, OverrunByOneItem, ArgumentsTaken
<1>6. QED
  BY <1>3, <1>4, <1>5, NoCopy DEF Inv, Results, Spoken

(* Case comes back, and a duplicate is the same.                           *)
LEMMA CaseInv ==
  ASSUME NEW a \in Strings, kstring_case(a)
  PROVE  Inv'
<1>1. IsText(a)
  BY StringsAreText
<1>2. call' = [fn |-> "case", a |-> a, lower |-> S!LowerCase(a), upper |-> S!UpperCase(a),
               duplicate |-> S!Duplicate(a, 255)]
  BY DEF kstring_case, Start
<1>3. /\ call'.fn = "case" /\ call'.a = a /\ call'.lower = S!LowerCase(a)
      /\ call'.upper = S!UpperCase(a) /\ call'.duplicate = S!Duplicate(a, 255)
  BY <1>2
<1>4. StringsRight'
  BY <1>1, <1>3, CaseRight DEF StringsRight
<1>5. (FillExtent /\ CompareDetects /\ FindStrMissesNothing /\ OverrunByOneItem /\ ArgumentsTaken)'
  BY <1>3 DEF FillExtent, CompareDetects, FindStrMissesNothing, OverrunByOneItem, ArgumentsTaken
<1>6. QED
  BY <1>3, <1>4, <1>5, NoCopy DEF Inv, Results, Spoken

(* A format ends near the end of its buffer.                               *)
LEMMA FormatInv ==
  ASSUME NEW k \in 1 .. MaxParts, NEW parts \in [1 .. k -> Directives], NEW size \in 1 .. MaxOut,
         NEW item \in Items, NEW star \in Items, kstring_vformat(parts, size, item, star)
  PROVE  Inv'
<1> DEFINE fmt == Format(parts)
           result == F!Vformat(fmt, size, item, star)
<1>1. k \in Nat /\ size \in Nat \ {0} /\ item \in Nat /\ star \in Nat
  BY LibkAssumption
<1>2. Len(fmt) \in Nat
  <2>1. fmt \in Seq(STRING)
    BY <1>1, FormatIsSequence
  <2> HIDE DEF fmt
  <2>2. QED
    BY <2>1
<1>3. call' = [fn |-> "format", parts |-> parts, size |-> size, item |-> item, result |-> result]
  BY DEF kstring_vformat, Start
<1> HIDE DEF fmt
<1>4. Within(result, size, item)
  BY <1>1, <1>2, VformatKeeps
<1>5. Plain(parts) =>
        /\ result.mode \in {"done", "error"} /\ result.words <= Passed(parts)
        /\ result.mode = "done" /\ result.i > Len(fmt) => result.words = Passed(parts)
  BY <1>1, VformatTakes DEF fmt
<1> HIDE DEF result
<1>6. /\ call'.fn = "format" /\ call'.parts = parts /\ call'.size = size /\ call'.item = item
      /\ call'.result = result
  BY <1>3
<1>7. OverrunByOneItem'
  BY <1>4, <1>6 DEF OverrunByOneItem, Within, Over
<1>8. ArgumentsTaken'
  BY <1>5, <1>6 DEF ArgumentsTaken, fmt
<1>9. (FillExtent /\ CompareDetects /\ StringsRight /\ FindStrMissesNothing)'
  BY <1>6 DEF FillExtent, CompareDetects, StringsRight, FindStrMissesNothing
<1>10. QED
  BY <1>6, <1>7, <1>8, <1>9, NoCopy DEF Inv, Results, Spoken

(* Every call of Libk keeps the invariant.                                 *)
LEMMA CallsInv == Calls => Inv'
<1> SUFFICES ASSUME Calls PROVE Inv'
  OBVIOUS
<1>1. ASSUME NEW dst, NEW src, NEW n, kmemory_copy(dst, src, n) PROVE Inv'
  <2>1. call' = [fn |-> "copy", same |-> dst = src, n |-> n, copy |-> CopyStart(dst, src, n)]
    BY <1>1 DEF kmemory_copy, Start
  <2>2. call'.fn = "copy"
    BY <2>1
  <2>3. CopyCall'
    BY <2>1, Zenon DEF CopyCall
  <2>4. QED
    BY <2>2, <2>3, OtherResults DEF Inv, Spoken
<1>2. ASSUME NEW c, Start(c), c.fn \notin Spoken \union {"copy"} PROVE Inv'
  <2>1. call'.fn \notin Spoken /\ call'.fn # "copy"
    BY <1>2 DEF Start
  <2>2. CopyCall'
    BY <2>1 DEF CopyCall
  <2>3. QED
    BY <2>1, <2>2, OtherResults DEF Inv
<1>3. ASSUME NEW n, NEW v, NEW base, NEW upper, kstring_format_intmax(n, v, base, upper) PROVE Inv'
  BY <1>2, <1>3 DEF kstring_format_intmax, Spoken
<1>4. QED
  BY <1>1, <1>3, FillInv, CompareInv, CopyStringInv, ConcatenateInv, CompareStringInv,
     FindInv, CaseInv, FormatInv, Zenon DEF Calls

(* A number that is formatted, or a turn of a copy, says nothing of them.  *)
LEMMA StepInv == Inv /\ [Next]_vars => Inv'
<1> SUFFICES ASSUME Inv, [Next]_vars PROVE Inv'
  OBVIOUS
<1>1. CASE UNCHANGED vars
  <2>1. call' = call
    BY <1>1 DEF vars
  <2>2. ArgumentsTaken'
    BY <2>1, Zenon DEF Inv, Results, ArgumentsTaken
  <2>3. (FillExtent /\ CompareDetects /\ StringsRight /\ FindStrMissesNothing /\ OverrunByOneItem /\ CopyCall)'
    BY <2>1, ZenonT(60) DEF Inv, Results, FillExtent, CompareDetects, StringsRight, FindStrMissesNothing,
           OverrunByOneItem, CopyCall
  <2>4. QED
    BY <2>2, <2>3 DEF Inv, Results
<1>2. CASE ContinueCopy
  <2>1. PICK same, n, c : call = [fn |-> "copy", same |-> same, n |-> n, copy |-> c]
    BY <1>2 DEF Inv, CopyCall, ContinueCopy
  <2> DEFINE d == CopyStep(call.copy)
  <2>2. call' = [call EXCEPT !.copy = d]
    BY <1>2 DEF ContinueCopy
  <2> HIDE DEF d
  <2>3. call' = [fn |-> "copy", same |-> same, n |-> n, copy |-> d]
    BY <2>1, <2>2
  <2>4. CopyCall'
    BY <2>3, Zenon DEF CopyCall
  <2>5. call'.fn = "copy"
    BY <2>3
  <2>6. QED
    BY <2>4, <2>5, OtherResults DEF Inv, Spoken
<1>3. ASSUME NEW v, NEW base, NEW upper, format_number(v, base, upper) PROVE Inv'
  <2>1. call'.fn = "number"
    BY <1>3 DEF format_number
  <2>2. CopyCall'
    BY <2>1 DEF CopyCall
  <2>3. QED
    BY <2>1, <2>2, OtherResults DEF Inv, Spoken
<1>4. QED
  BY <1>1, <1>2, <1>3, CallsInv DEF Next

(* What holds of every call that is made.                                  *)
THEOREM ResultsHold == Spec => []Inv
<1>1. Init => Inv
  BY DEF Init, Inv, Results, FillExtent, CompareDetects, StringsRight, FindStrMissesNothing,
         OverrunByOneItem, ArgumentsTaken, CopyCall
<1>2. QED
  BY <1>1, StepInv, PTL DEF Spec

(* A fill of any length stays within 7 bytes of what was asked for at one  *)
(* end and 5 at the other (kmemory_fill.h:60-72).                          *)
THEOREM FillKept == Spec => []FillExtent
<1>1. Inv => FillExtent
  BY DEF Inv, Results
<1>2. QED
  BY <1>1, ResultsHold, PTL

(* kmemory_compare tells regions of every length and contents from each    *)
(* other, for bytes of any number of values (kmemory.c:65-77).             *)
THEOREM ComparesDetect == Spec => []CompareDetects
<1>1. Inv => CompareDetects
  BY DEF Inv, Results
<1>2. QED
  BY <1>1, ResultsHold, PTL

(* Copies, concatenations, comparisons, duplicates and case conversions of *)
(* strings of every length are right (kstring.c:122-147, 178-204).         *)
THEOREM StringsAlwaysRight == Spec => []StringsRight
<1>1. Inv => StringsRight
  BY DEF Inv, Results
<1>2. QED
  BY <1>1, ResultsHold, PTL

(* A search in a string of every length answers no place behind an         *)
(* occurrence that is not at the first (kstring.c:164-176).                *)
THEOREM SearchMissesNothing == Spec => []FindStrMissesNothing
<1>1. Inv => FindStrMissesNothing
  BY DEF Inv, Results
<1>2. QED
  BY <1>1, ResultsHold, PTL

(* A format of any directives, for a buffer of any size, ends at most all  *)
(* but one character of an argument, or four, behind the end of the buffer *)
(* (kstring_format.c:77-109, 350-369).                                     *)
THEOREM OverrunBounded == Spec => []OverrunByOneItem
<1>1. Inv => OverrunByOneItem
  BY DEF Inv, Results
<1>2. QED
  BY <1>1, ResultsHold, PTL

(* vformat takes the words that its caller passed, for formats of any      *)
(* number of plain conversions with flags, widths, precisions and length   *)
(* modifiers in any order (kstring_format.c:227-369).                      *)
THEOREM ArgumentsAreTaken == Spec => []ArgumentsTaken
<1>1. Inv => ArgumentsTaken
  BY DEF Inv, Results
<1>2. QED
  BY <1>1, ResultsHold, PTL
---------------------------------------------------------------------------
(* Taking the last digit off a number.                                     *)
LEMMA Quotient ==
  ASSUME NEW v \in Nat, NEW b \in Nat, b > 1
  PROVE  /\ v \div b \in Nat /\ v % b \in 0 .. b - 1
         /\ v = (v \div b) * b + (v % b)
         /\ v # 0 => v \div b < v
         /\ v < b => v \div b = 0 /\ v % b = v
<1>1. v \div b \in Nat /\ v % b \in 0 .. b - 1 /\ v = (v \div b) * b + (v % b)
  <2>1. \E q \in Nat, r \in 0 .. b - 1 : v = b * q + r /\ v \div b = q /\ v % b = r
    OBVIOUS
  <2>2. PICK q \in Nat, r \in 0 .. b - 1 : v = b * q + r /\ v \div b = q /\ v % b = r
    BY <2>1, Zenon
  <2>3. b * q = q * b
    OBVIOUS
  <2>4. v = q * b + r
    BY <2>2, <2>3
  <2>5. v = (v \div b) * b + (v % b)
    BY <2>2, <2>4
  <2>6. v \div b \in Nat
    BY <2>2, Zenon
  <2>7. v % b \in 0 .. b - 1
    BY <2>2, Zenon
  <2>8. QED
    BY <2>5, <2>6, <2>7, Zenon
<1>2. ASSUME NEW q \in Nat, NEW r \in Nat, v = q * b + r, v # 0 PROVE q < v
  <2>1. q = 0 \/ q * b >= q * 2
    OBVIOUS
  <2>2. q * b \in Nat /\ (q = 0 => q * b = 0)
    OBVIOUS
  <2>3. QED
    BY <1>2, <2>1, <2>2
<1>3. v < b => v \div b = 0
  OBVIOUS
<1>4. v < b => v % b = v
  OBVIOUS
<1>5. v \div b \in Nat /\ v % b \in Nat
  BY <1>1
<1>6. v # 0 => v \div b < v
  BY <1>1, <1>2, <1>5
<1>7. QED
  BY <1>1, <1>3, <1>4, <1>6

(* The digits of a number, the last one first, are what its definition     *)
(* says (kstring.c:49-57).                                                 *)
LEMMA DigitsIs ==
  ASSUME NEW b \in Nat, b > 1, NEW v \in Nat
  PROVE  /\ v < b => S!DigitsOf(v, b) = <<v>>
         /\ ~(v < b) => S!DigitsOf(v, b) = <<v % b>> \o S!DigitsOf(v \div b, b)
         /\ S!DigitsOf(v, b) \in Seq(Nat)
<1> DEFINE Z == {u \in Nat : u < b}
           x == [u \in Nat |-> <<u>>]
           f == [u \in Nat |-> [s \in Seq(Nat) |-> <<u % b>> \o s]]
           d == [u \in Nat |-> u \div b]
           Is(g) == g = [u \in Nat |-> IF u < b THEN <<u>> ELSE <<u % b>> \o g[u \div b]]
<1>1. ASSUME NEW u \in Nat PROVE u \div b \in Nat /\ u % b \in Nat /\ (u # 0 => u \div b < u)
  BY Quotient
<1>2. x \in [Nat -> Seq(Nat)]
  OBVIOUS
<1>3. MapsEach(f, Seq(Nat))
  <2>1. ASSUME NEW u \in Nat, NEW s \in Seq(Nat) PROVE <<u % b>> \o s \in Seq(Nat)
    BY <1>1
  <2>2. QED
    BY <2>1 DEF MapsEach
<1>4. Falls(d, Z)
  <2>1. d \in [Nat -> Nat]
    BY <1>1
  <2>2. ASSUME NEW u \in Nat PROVE u \in Z \/ d[u] < u
    BY <1>1
  <2>3. QED
    BY <2>1, <2>2 DEF Falls
<1>5. ASSUME NEW g, Descends(g, Seq(Nat), Z, x, f, d) PROVE Is(g)
  <2>1. ASSUME NEW u \in Nat
        PROVE  g[u] = IF u < b THEN <<u>> ELSE <<u % b>> \o g[u \div b]
    <3>1. g[u] = IF u \in Z THEN x[u] ELSE f[u][g[d[u]]]
      BY <1>5 DEF Descends, Falling
    <3>2. d[u] = u \div b /\ x[u] = <<u>> /\ u \div b \in Nat /\ (u \in Z <=> u < b)
      BY <1>1
    <3>3. g[u \div b] \in Seq(Nat)
      BY <1>5, <3>2 DEF Descends
    <3>4. f[u][g[u \div b]] = <<u % b>> \o g[u \div b]
      BY <3>3
    <3> HIDE DEF Z, x, f, d
    <3>5. QED
      BY <3>1, <3>2, <3>4
  <2>2. g = [u \in Nat |-> g[u]]
    BY <1>5 DEF Descends
  <2>3. QED
    BY <2>1, <2>2
<1>6. \E g : Descends(g, Seq(Nat), Z, x, f, d)
  <2> HIDE DEF Z, x, f, d
  <2>1. QED
    BY <1>2, <1>3, <1>4, Descent, Zenon
<1>7. \E g : Is(g)
  <2> HIDE DEF Is, Z, x, f, d
  <2>1. QED
    BY <1>5, <1>6
<1> DEFINE digits == CHOOSE g : Is(g)
<1>8. Is(digits)
  <2> HIDE DEF Is
  <2>1. QED
    BY <1>7
<1>9. \A u : S!DigitsOf(u, b) = digits[u]
  BY DEF S!DigitsOf
<1> HIDE DEF digits
<1>10. ASSUME NEW u \in Nat
       PROVE  digits[u] = IF u < b THEN <<u>> ELSE <<u % b>> \o digits[u \div b]
  BY <1>8
<1> DEFINE T == {n \in Nat : \A u \in 0 .. n : digits[u] \in Seq(Nat)}
<1>11. ASSUME NEW n \in Nat, \A u \in Nat : u < n => digits[u] \in Seq(Nat)
       PROVE  digits[n] \in Seq(Nat)
  <2>1. CASE n < b
    <3>1. digits[n] = <<n>>
      BY <1>10, <2>1
    <3>2. QED
      BY <3>1
  <2>2. CASE ~(n < b)
    <3>1. n # 0
      BY <2>2
    <3>2. n \div b \in Nat /\ n \div b < n /\ n % b \in Nat
      BY <1>1, <3>1
    <3>3. digits[n \div b] \in Seq(Nat)
      BY <1>11, <3>2
    <3>4. <<n % b>> \o digits[n \div b] \in Seq(Nat)
      BY <3>2, <3>3
    <3>5. QED
      BY <1>10, <2>2, <3>4
  <2>3. QED
    BY <2>1, <2>2
<1>12. 0 \in T
  BY <1>11
<1>13. ASSUME NEW n \in Nat, n \in T PROVE n + 1 \in T
  <2>1. digits[n + 1] \in Seq(Nat)
    BY <1>11, <1>13
  <2>2. QED
    BY <1>13, <2>1
<1>14. Nat \subseteq T
  <2> HIDE DEF T
  <2>1. QED
    BY <1>12, <1>13, Induct
<1>15. digits[v] \in Seq(Nat)
  BY <1>14
<1>16. QED
  BY <1>9, <1>10, <1>15

\* w holds the number v without its last digit, without its last two, and so
\* on; ds are the digits that are taken off.
Places(ds, w, v, b) ==
  /\ Len(ds) \in Nat \ {0} /\ w \in [0 .. Len(ds) -> Nat] /\ w[0] = v /\ w[Len(ds)] = 0
  /\ \A i \in 0 .. Len(ds) - 1 : ds[i + 1] \in 0 .. b - 1 /\ w[i] = w[i + 1] * b + ds[i + 1]

(* The digits of a number make it up.                                      *)
LEMMA DigitsMakeUp ==
  ASSUME NEW b \in Nat, b > 1, NEW v \in Nat
  PROVE  \E w : Places(S!DigitsOf(v, b), w, v, b)
<1> DEFINE Made(u) == \E w : Places(S!DigitsOf(u, b), w, u, b)
           T == {n \in Nat : \A u \in 0 .. n : Made(u)}
<1>1. ASSUME NEW n \in Nat, \A u \in Nat : u < n => Made(u) PROVE Made(n)
  <2> DEFINE ds == S!DigitsOf(n, b)
  <2>1. CASE n < b
    <3> DEFINE w == [i \in 0 .. 1 |-> IF i = 0 THEN n ELSE 0]
    <3>1. ds = <<n>>
      BY <2>1, DigitsIs
    <3> HIDE DEF ds
    <3>2. Len(ds) = 1 /\ ds[1] = n
      BY <3>1
    <3>3. w \in [0 .. 1 -> Nat] /\ w[0] = n /\ w[1] = 0
      OBVIOUS
    <3> HIDE DEF w
    <3>4. w[0] = w[1] * b + ds[1]
      BY <3>2, <3>3
    <3>5. ds[1] \in 0 .. b - 1
      BY <2>1, <3>2
    <3>6. \A i \in 0 .. Len(ds) - 1 : i = 0
      BY <3>2
    <3>7. Places(ds, w, n, b)
      BY <3>2, <3>3, <3>4, <3>5, <3>6 DEF Places
    <3>8. QED
      BY <3>7 DEF ds
  <2>2. CASE ~(n < b)
    <3> DEFINE q == n \div b
               r == n % b
               es == S!DigitsOf(q, b)
    <3>1. n # 0
      BY <2>2
    <3>2. q \in Nat /\ r \in 0 .. b - 1 /\ n = q * b + r /\ q < n
      BY <3>1, Quotient
    <3>3. ds = <<r>> \o es /\ es \in Seq(Nat)
      BY <2>2, <3>2, DigitsIs
    <3>4. PICK x : Places(es, x, q, b)
      BY <1>1, <3>2
    <3> HIDE DEF ds, q, r, es
    <3> DEFINE k == Len(es)
               w == [i \in 0 .. k + 1 |-> IF i = 0 THEN n ELSE x[i - 1]]
    <3>5. k \in Nat \ {0} /\ Len(ds) = k + 1 /\ ds[1] = r /\ \A i \in 1 .. k : ds[i + 1] = es[i]
      BY <3>2, <3>3, <3>4 DEF Places
    <3>6. /\ x \in [0 .. k -> Nat] /\ x[0] = q /\ x[k] = 0
          /\ \A i \in 0 .. k - 1 : es[i + 1] \in 0 .. b - 1 /\ x[i] = x[i + 1] * b + es[i + 1]
      BY <3>4 DEF Places
    <3> HIDE DEF k
    <3>7. w \in [0 .. k + 1 -> Nat] /\ w[0] = n /\ \A i \in 0 .. k : w[i + 1] = x[i]
      <4>1. ASSUME NEW i \in 0 .. k + 1 PROVE w[i] \in Nat
        <5>1. i # 0 => i - 1 \in 0 .. k
          BY <3>5
        <5>2. QED
          BY <3>6, <5>1
      <4>2. ASSUME NEW i \in 0 .. k PROVE w[i + 1] = x[i]
        <5>1. i + 1 \in 0 .. k + 1 /\ i + 1 # 0 /\ (i + 1) - 1 = i
          BY <3>5
        <5>2. QED
          BY <5>1
      <4>3. 0 \in 0 .. k + 1
        BY <3>5
      <4>4. QED
        BY <4>1, <4>2, <4>3
    <3> HIDE DEF w
    <3>8. w[k + 1] = 0
      BY <3>5, <3>6, <3>7
    <3>9. ASSUME NEW i \in 0 .. k PROVE ds[i + 1] \in 0 .. b - 1 /\ w[i] = w[i + 1] * b + ds[i + 1]
      <4>1. CASE i = 0
        <5>1. w[i + 1] = q /\ ds[i + 1] = r
          BY <3>5, <3>6, <3>7, <4>1
        <5>2. QED
          BY <3>2, <3>7, <4>1, <5>1
      <4>2. CASE i # 0
        <5>1. i \in 1 .. k /\ i - 1 \in 0 .. k - 1 /\ (i - 1) + 1 = i
          BY <3>5, <4>2
        <5>2. es[i] \in 0 .. b - 1 /\ x[i - 1] = x[i] * b + es[i]
          BY <3>6, <5>1
        <5>3. w[i + 1] = x[i] /\ ds[i + 1] = es[i]
          BY <3>5, <3>7, <5>1
        <5>4. w[i] = x[i - 1]
          BY <3>5, <3>7, <5>1
        <5>5. QED
          BY <5>2, <5>3, <5>4
      <4>3. QED
        BY <4>1, <4>2
    <3>10. Len(ds) - 1 = k /\ Len(ds) \in Nat \ {0}
      BY <3>5
    <3>11. Places(ds, w, n, b)
      BY <3>5, <3>7, <3>8, <3>9, <3>10 DEF Places
    <3>12. QED
      BY <3>11 DEF ds
  <2>3. QED
    BY <2>1, <2>2
<1> HIDE DEF Made
<1>2. 0 \in T
  BY <1>1
<1>3. ASSUME NEW n \in Nat, n \in T PROVE n + 1 \in T
  <2>1. Made(n + 1)
    BY <1>1, <1>3
  <2>2. QED
    BY <1>3, <2>1
<1>4. Nat \subseteq T
  <2> HIDE DEF T
  <2>1. QED
    BY <1>2, <1>3, Induct
<1>5. Made(v)
  BY <1>4
<1>6. QED
  BY <1>5 DEF Made

\* What number[] adds for a character (kstring_parse_intmax).
Digit(c) == IF S!ToUpperCase(c) \in S!DIGIT THEN S!ToUpperCase(c) - 48 ELSE S!ToUpperCase(c) - 65 + 10

(* A digit of a base up to 36 is written as a character that is no         *)
(* terminator and no sign, and is read as itself (kstring.c:20-28, 94-113). *)
LEMMA DigitCharIs ==
  ASSUME NEW d \in 0 .. 35, NEW upper \in BOOLEAN
  PROVE  LET c == S!DigitChar(d, upper)
         IN  c # 0 /\ c # 45 /\ S!ToUpperCase(c) \in S!ALNUM /\ Digit(c) = d
<1> DEFINE c == S!DigitChar(d, upper)
<1>1. CASE d < 10
  <2>1. c = 48 + d
    BY <1>1 DEF S!DigitChar
  <2>2. c \in 48 .. 57
    BY <1>1, <2>1
  <2>3. S!ToUpperCase(c) = c
    BY <2>2 DEF S!ToUpperCase, S!ALPHA, S!UPPER, S!LOWER
  <2> HIDE DEF c
  <2>4. QED
    BY <2>1, <2>2, <2>3 DEF Digit, S!DIGIT, S!ALNUM, c
<1>2. CASE ~(d < 10)
  <2>1. c = (IF upper THEN 65 ELSE 97) + d - 10
    BY <1>2 DEF S!DigitChar
  <2>2. c = 65 + d - 10 \/ c = 97 + d - 10
    BY <2>1
  <2> HIDE DEF c
  <2>3. S!ToUpperCase(c) = 65 + d - 10
    BY <1>2, <2>2 DEF S!ToUpperCase, S!ALPHA, S!UPPER, S!LOWER
  <2>4. S!ToUpperCase(c) \in S!UPPER /\ S!ToUpperCase(c) \notin S!DIGIT
    BY <1>2, <2>3 DEF S!UPPER, S!DIGIT
  <2>5. QED
    BY <1>2, <2>2, <2>3, <2>4 DEF Digit, S!ALNUM, S!ALPHA, c
<1>3. QED
  BY <1>1, <1>2

\* s holds, from its first-th place on, the digits ds of which the last was
\* taken off first, and ends behind them.
Written(s, R, first, ds, upper) ==
  /\ DOMAIN s = 0 .. R /\ first + Len(ds) \in 0 .. R /\ s[first + Len(ds)] = 0
  /\ \A j \in 0 .. Len(ds) - 1 : s[first + j] = S!DigitChar(ds[Len(ds) - j], upper)

\* s holds the digits of v, and a sign before them if first is 1.
Reads(s, R, v, b, upper, first) ==
  /\ R \in Nat /\ b \in 2 .. 36 /\ v \in Nat /\ upper \in BOOLEAN /\ first \in {0, 1}
  /\ Written(s, R, first, S!DigitsOf(v, b), upper) /\ (first = 1 => s[0] = 45)

(* The digits of a number are parsed to that number, and to its negative   *)
(* behind a sign (kstring.c:80-118).                                       *)
LEMMA ParsesBack ==
  ASSUME NEW s, NEW R, NEW v, NEW b, NEW upper, NEW first, Reads(s, R, v, b, upper, first)
  PROVE  (first = 1 => S!ParseInt(s, b) = -v) /\ (first = 0 => S!ParseInt(s, b) = v)
<1>1. /\ R \in Nat /\ b \in 2 .. 36 /\ v \in Nat /\ upper \in BOOLEAN /\ first \in {0, 1}
      /\ Written(s, R, first, S!DigitsOf(v, b), upper) /\ (first = 1 => s[0] = 45)
  BY DEF Reads
<1> USE <1>1
<1> DEFINE ds == S!DigitsOf(v, b)
           n == Len(ds)
           e == first + n
<1>2. b \in Nat /\ b > 1 /\ first \in Nat /\ first \in Int
  OBVIOUS
<1>3. PICK w : Places(ds, w, v, b)
  BY <1>2, DigitsMakeUp
<1> HIDE DEF ds
<1>4. /\ n \in Nat \ {0} /\ w \in [0 .. n -> Nat] /\ w[0] = v /\ w[n] = 0
      /\ \A i \in 0 .. n - 1 : ds[i + 1] \in 0 .. b - 1 /\ w[i] = w[i + 1] * b + ds[i + 1]
  BY <1>3 DEF Places
<1>5. /\ DOMAIN s = 0 .. R /\ e \in 0 .. R /\ s[e] = 0
      /\ \A j \in 0 .. n - 1 : s[first + j] = S!DigitChar(ds[n - j], upper)
  BY DEF Written, ds
<1> HIDE DEF n
<1>6. ASSUME NEW j \in 0 .. n - 1
      PROVE  /\ s[first + j] # 0 /\ s[first + j] # 45 /\ S!ToUpperCase(s[first + j]) \in S!ALNUM
             /\ Digit(s[first + j]) = ds[n - j] /\ ds[n - j] \in 0 .. b - 1
             /\ w[(n - j) - 1] = w[n - j] * b + ds[n - j]
  <2>1. (n - j) - 1 \in 0 .. n - 1 /\ ((n - j) - 1) + 1 = n - j
    BY <1>4
  <2>2. ds[n - j] \in 0 .. b - 1 /\ w[(n - j) - 1] = w[n - j] * b + ds[n - j]
    BY <1>4, <2>1
  <2>3. ds[n - j] \in 0 .. 35
    BY <2>2
  <2>4. s[first + j] = S!DigitChar(ds[n - j], upper)
    BY <1>5
  <2>5. QED
    BY <2>2, <2>3, <2>4, DigitCharIs
<1>7. ASSUME NEW i \in first .. e - 1
      PROVE  i - first \in 0 .. n - 1 /\ first + (i - first) = i
  BY <1>2, <1>4
<1>8. s[0] = 45 <=> first = 1
  <2>1. CASE first = 1
    BY <2>1
  <2>2. CASE first = 0
    <3>1. 0 \in 0 .. n - 1
      BY <1>4
    <3>2. s[first + 0] # 45
      BY <1>6, <3>1
    <3>3. QED
      BY <2>2, <3>2
  <2>3. QED
    BY <2>1, <2>2
<1>9. S!Length(s) = e
  <2>1. ASSUME NEW k \in 0 .. e - 1 PROVE s[k] # 0
    <3>1. k \in first .. e - 1 \/ (first = 1 /\ k = 0)
      BY <1>5
    <3>2. CASE k \in first .. e - 1
      BY <1>6, <1>7, <3>2
    <3>3. CASE first = 1 /\ k = 0
      BY <1>8, <3>3
    <3>4. QED
      BY <3>1, <3>2, <3>3
  <2> HIDE DEF e
  <2>2. QED
    BY <1>5, <2>1, LengthUnique
<1>10. \A i \in first .. e - 1 : S!ToUpperCase(s[i]) \in S!ALNUM
  BY <1>6, <1>7
<1> DEFINE Is(h, f, l) ==
             h = [i \in f .. l |-> IF i = f THEN 0 ELSE h[i - 1] * b + Digit(s[i - 1])]
           Number(f, l) == CHOOSE h : Is(h, f, l)
<1>11. S!ParseInt(s, b) = IF first = 1 THEN -(Number(first, e)[e]) ELSE Number(first, e)[e]
  <2> DEFINE f == IF s[0] = 45 THEN 1 ELSE 0
             l == S!Length(s)
             x == Number(f, l)[l]
  <2>1. S!ParseInt(s, b) =
          IF b < 2 \/ \E i \in f .. l - 1 : S!ToUpperCase(s[i]) \notin S!ALNUM THEN 0
          ELSE IF s[0] = 45 THEN -x ELSE x
    BY DEF S!ParseInt, Digit
  <2>2. f = first /\ l = e
    BY <1>8, <1>9
  <2>3. ~(b < 2)
    OBVIOUS
  <2> HIDE DEF Number, f, l, e
  <2>4. QED
    BY <1>8, <1>10, <2>1, <2>2, <2>3
<1> DEFINE number == Number(first, e)
           one(k) == [x \in Nat |-> x * b + Digit(s[k - 1])]
           steps == [k \in first + 1 .. e |-> one(k)]
<1> HIDE DEF e
<1>12. e \in Nat /\ e = first + n
  BY <1>5 DEF e
<1>13. ASSUME NEW k \in first + 1 .. e PROVE Digit(s[k - 1]) \in Nat
  <2>1. k - 1 \in first .. e - 1
    BY <1>2, <1>12
  <2>2. (k - 1) - first \in 0 .. n - 1 /\ first + ((k - 1) - first) = k - 1
    BY <1>7, <2>1
  <2>3. Digit(s[k - 1]) = ds[n - ((k - 1) - first)] /\ ds[n - ((k - 1) - first)] \in 0 .. b - 1
    BY <1>6, <2>2
  <2>4. QED
    BY <1>2, <2>3
<1>14. MapsAt(steps, Nat, first, e)
  <2>1. ASSUME NEW k \in first + 1 .. e PROVE one(k) \in [Nat -> Nat]
    BY <1>2, <1>13
  <2>2. QED
    BY <2>1 DEF MapsAt
<1>15. ASSUME NEW k \in first + 1 .. e, NEW x \in Nat PROVE steps[k][x] = x * b + Digit(s[k - 1])
  OBVIOUS
<1> HIDE DEF steps
<1>16. PICK g : Unfolds(g, Nat, steps, 0, first, e)
  <2>1. first \in Int /\ e \in Int /\ 0 \in Nat
    BY <1>12
  <2>2. QED
    BY <1>14, <2>1, Unfolding, Zenon
<1>17. Is(g, first, e)
  <2>1. ASSUME NEW i \in first .. e
        PROVE  g[i] = IF i = first THEN 0 ELSE g[i - 1] * b + Digit(s[i - 1])
    <3>1. CASE i = first
      BY <1>16, <3>1 DEF Unfolds
    <3>2. CASE i # first
      <4>1. i \in first + 1 .. e /\ i - 1 \in first .. e
        BY <1>12, <3>2
      <4>2. g[i - 1] \in Nat /\ g[i] = steps[i][g[i - 1]]
        BY <1>16, <3>2, <4>1 DEF Unfolds
      <4>3. QED
        BY <1>15, <3>2, <4>1, <4>2
    <3>3. QED
      BY <3>1, <3>2
  <2>2. g = [i \in first .. e |-> g[i]]
    BY <1>16 DEF Unfolds
  <2>3. QED
    BY <2>1, <2>2
<1>18. Is(number, first, e)
  <2>1. \E h : Is(h, first, e)
    BY <1>17
  <2> HIDE DEF Is
  <2>2. QED
    BY <2>1
<1> HIDE DEF number
<1>19. ASSUME NEW i \in first .. e
       PROVE  number[i] = IF i = first THEN 0 ELSE number[i - 1] * b + Digit(s[i - 1])
  BY <1>18
<1> DEFINE T == {j \in Nat : j <= n => number[first + j] = w[n - j]}
<1>20. 0 \in T
  <2>1. first \in first .. e /\ first + 0 = first /\ n - 0 = n
    BY <1>4, <1>12
  <2>2. number[first] = 0
    BY <1>19, <2>1
  <2>3. QED
    BY <1>4, <2>1, <2>2
<1>21. ASSUME NEW j \in Nat, j \in T PROVE j + 1 \in T
  <2> SUFFICES ASSUME j + 1 <= n PROVE number[first + (j + 1)] = w[n - (j + 1)]
    OBVIOUS
  <2>1. /\ first + (j + 1) \in first .. e /\ first + (j + 1) # first
        /\ (first + (j + 1)) - 1 = first + j /\ j \in 0 .. n - 1 /\ n - (j + 1) = (n - j) - 1
    BY <1>2, <1>4, <1>12
  <2>2. number[first + (j + 1)] = number[first + j] * b + Digit(s[first + j])
    BY <1>19, <2>1
  <2>3. number[first + j] = w[n - j]
    <3>1. j <= n
      BY <1>4
    <3> HIDE DEF number
    <3>2. QED
      BY <1>21, <3>1
  <2>4. Digit(s[first + j]) = ds[n - j] /\ w[(n - j) - 1] = w[n - j] * b + ds[n - j]
    BY <1>6, <2>1
  <2>5. QED
    BY <2>1, <2>2, <2>3, <2>4
<1>22. Nat \subseteq T
  <2> HIDE DEF T
  <2>1. QED
    BY <1>20, <1>21, Induct
<1>23. number[e] = v
  <2>1. n \in T /\ n - n = 0 /\ first + n = e /\ n <= n
    BY <1>4, <1>12, <1>22
  <2>2. QED
    BY <1>4, <2>1
<1>24. QED
  BY <1>11, <1>23 DEF number

(* The greatest of a set of offsets.                                       *)
LEMMA MaxIs ==
  ASSUME NEW T \in SUBSET Int, NEW m \in T, \A k \in T : k <= m
  PROVE  S!Max(T) = m
<1>1. S!Max(T) \in T /\ \A k \in T : S!Max(T) >= k
  <2>1. \E x \in T : \A y \in T : x >= y
    OBVIOUS
  <2>2. QED
    BY <2>1 DEF S!Max
<1>2. S!Max(T) >= m /\ S!Max(T) <= m /\ S!Max(T) \in Int /\ m \in Int
  BY <1>1
<1>3. QED
  BY <1>2

\* A buffer from offset 0 to R.
Buffer(buf, R) == DOMAIN buf = 0 .. R

\* What becomes of a buffer into which the digits ds are written.
Formatted(after, buf, R, n, ds, upper) ==
  /\ Len(ds) \in 1 .. n /\ Buffer(after, R)
  /\ \A i \in Len(ds) + 1 .. R : after[i] = buf[i]
  /\ buf[Len(ds)] = 0 =>
       /\ after[Len(ds)] = 0
       /\ \A j \in 0 .. Len(ds) - 1 : after[j] = S!DigitChar(ds[Len(ds) - j], upper)

(* Formatting a number that fits into a buffer leaves what is behind its   *)
(* digits, and writes them in their order if a terminator is there         *)
(* (kstring.c:40-78).                                                      *)
LEMMA FormatUintIs ==
  ASSUME NEW R \in Nat, NEW buf, Buffer(buf, R), NEW n \in Nat, NEW v \in Nat, NEW b \in 2 .. 36,
         NEW upper \in BOOLEAN, Len(S!DigitsOf(v, b)) <= n, n <= R
  PROVE  /\ S!DigitCount(n, v, b) = Len(S!DigitsOf(v, b))
         /\ Formatted(S!FormatUint(buf, n, v, b, upper), buf, R, n, S!DigitsOf(v, b), upper)
<1> DEFINE ds == S!DigitsOf(v, b)
           k == Len(ds)
           filled == [i \in DOMAIN buf |-> IF i < k THEN S!DigitChar(ds[i + 1], upper) ELSE buf[i]]
           q == S!Max({0} \union {i \in 1 .. k : filled[i] # 0})
           after == S!FormatUint(buf, n, v, b, upper)
<1>1. PICK w : Places(ds, w, v, b)
  BY DigitsMakeUp
<1>2. k \in Nat \ {0} /\ k <= n
  BY <1>1 DEF Places
<1>3. \A i \in 0 .. k - 1 : ds[i + 1] \in 0 .. 35
  <2> SUFFICES ASSUME NEW i \in 0 .. k - 1 PROVE ds[i + 1] \in 0 .. 35
    OBVIOUS
  <2>1. ds[i + 1] \in 0 .. b - 1
    BY <1>1 DEF Places
  <2>2. \A d \in 0 .. b - 1 : d \in 0 .. 35
    OBVIOUS
  <2> HIDE DEF ds
  <2>3. QED
    BY <2>1, <2>2, Zenon
<1>4. S!DigitCount(n, v, b) = k
  <2>1. ~(b < 2)
    OBVIOUS
  <2> HIDE DEF k
  <2>2. (IF n > 1 THEN S!AtMost(n, k) ELSE 1) = k
    BY <1>2 DEF S!AtMost
  <2>3. S!DigitCount(n, v, b) = IF n > 1 THEN S!AtMost(n, k) ELSE 1
    BY <2>1 DEF S!DigitCount, k, ds
  <2>4. QED
    BY <2>2, <2>3
<1>5. after = [i \in DOMAIN filled |-> IF i <= q THEN filled[q - i] ELSE filled[i]]
  <2>1. ~(b < 2)
    OBVIOUS
  <2>2. after = S!Reverse(filled, k)
    <3> HIDE DEF k
    <3>1. QED
      BY <1>4, <2>1 DEF S!FormatUint, k, ds
  <2> HIDE DEF filled, after
  <2>3. QED
    BY <2>2 DEF S!Reverse
<1> HIDE DEF ds, k, after
<1>6. DOMAIN filled = 0 .. R /\ \A i \in 0 .. R : filled[i] = IF i < k THEN S!DigitChar(ds[i + 1], upper) ELSE buf[i]
  BY DEF Buffer
<1> HIDE DEF filled
<1>7. q \in 0 .. k
  <2> DEFINE T == {0} \union {i \in 1 .. k : filled[i] # 0}
  <2>1. T \in SUBSET (0 .. k) /\ 0 \in T
    BY <1>2
  <2>2. S!Max(T) \in T
    <3>1. \E m \in T : \A y \in T : m >= y
      <4> DEFINE U == {k - y : y \in T}
      <4>1. U \in SUBSET Nat /\ U # {}
        BY <1>2, <2>1
      <4>2. PICK u \in U : \A y \in U : u <= y
        <5> HIDE DEF U
        <5>1. QED
          BY <4>1, Least
      <4>3. PICK m \in T : u = k - m
        OBVIOUS
      <4>4. ASSUME NEW y \in T PROVE m >= y
        <5>1. k - y \in U
          OBVIOUS
        <5>2. k - m <= k - y
          BY <4>2, <4>3, <5>1
        <5> HIDE DEF T
        <5>3. y \in 0 .. k /\ m \in 0 .. k
          BY <2>1
        <5>4. QED
          BY <1>2, <5>2, <5>3
      <4>5. QED
        BY <4>4
    <3> HIDE DEF T
    <3>2. QED
      BY <3>1 DEF S!Max
  <2>3. q = S!Max(T)
    OBVIOUS
  <2> HIDE DEF T, q
  <2>4. QED
    BY <2>1, <2>2, <2>3
<1>8. ASSUME buf[k] = 0 PROVE q = k - 1
  <2> DEFINE T == {0} \union {i \in 1 .. k : filled[i] # 0}
  <2>1. filled[k] = 0
    BY <1>2, <1>6, <1>8
  <2>2. ASSUME k > 1 PROVE filled[k - 1] # 0
    <3>1. k - 1 \in 0 .. R /\ k - 1 < k /\ (k - 1) + 1 = k
      BY <1>2
    <3>2. filled[k - 1] = S!DigitChar(ds[(k - 1) + 1], upper)
      BY <1>6, <3>1
    <3>3. ds[(k - 1) + 1] \in 0 .. 35
      <4>1. k - 1 \in 0 .. k - 1
        BY <1>2
      <4>2. QED
        BY <1>3, <4>1
    <3>4. S!DigitChar(ds[(k - 1) + 1], upper) # 0
      BY <3>3, DigitCharIs
    <3>5. QED
      BY <3>2, <3>4
  <2>3. k - 1 \in T
    <3>1. CASE k = 1
      BY <3>1
    <3>2. CASE k > 1
      BY <1>2, <2>2, <3>2
    <3>3. QED
      BY <1>2, <3>1, <3>2
  <2>4. T \in SUBSET Int /\ \A y \in T : y <= k - 1
    BY <1>2, <2>1
  <2>5. q = S!Max(T)
    OBVIOUS
  <2> HIDE DEF T, q
  <2>6. QED
    BY <2>3, <2>4, <2>5, MaxIs
<1> HIDE DEF q
<1>9. DOMAIN after = 0 .. R /\ \A i \in 0 .. R : after[i] = IF i <= q THEN filled[q - i] ELSE filled[i]
  BY <1>5, <1>6
<1>10. \A i \in k + 1 .. R : after[i] = buf[i]
  <2> SUFFICES ASSUME NEW i \in k + 1 .. R PROVE after[i] = buf[i]
    OBVIOUS
  <2>1. i \in 0 .. R /\ ~(i <= q) /\ ~(i < k)
    BY <1>2, <1>7
  <2>2. QED
    BY <1>6, <1>9, <2>1
<1>11. ASSUME buf[k] = 0
       PROVE  after[k] = 0 /\ \A j \in 0 .. k - 1 : after[j] = S!DigitChar(ds[k - j], upper)
  <2>1. q = k - 1
    BY <1>8, <1>11
  <2>2. after[k] = 0
    <3>1. k \in 0 .. R /\ ~(k <= q) /\ ~(k < k)
      BY <1>2, <2>1
    <3>2. QED
      BY <1>6, <1>9, <1>11, <3>1
  <2>3. ASSUME NEW j \in 0 .. k - 1 PROVE after[j] = S!DigitChar(ds[k - j], upper)
    <3>1. j \in 0 .. R /\ j <= q /\ q - j \in 0 .. R /\ q - j < k /\ (q - j) + 1 = k - j
      BY <1>2, <2>1
    <3>2. after[j] = filled[q - j]
      BY <1>9, <3>1
    <3>3. filled[q - j] = S!DigitChar(ds[(q - j) + 1], upper)
      BY <1>6, <3>1
    <3>4. QED
      BY <3>1, <3>2, <3>3
  <2>4. QED
    BY <2>2, <2>3
<1>12. QED
  <2>1. k \in 1 .. n
    BY <1>2
  <2>2. Formatted(after, buf, R, n, ds, upper)
    BY <1>9, <1>10, <1>11, <2>1 DEF Buffer, k, Formatted
  <2>3. QED
    BY <1>4, <2>2 DEF after, k, ds

\* A number fits into a buffer, and a terminator is where its digits end.
Fits(buf, R, n, v, b, upper) ==
  /\ R \in Nat /\ Buffer(buf, R) /\ n \in Nat /\ v \in Nat /\ b \in 2 .. 36 /\ upper \in BOOLEAN
  /\ Len(S!DigitsOf(v, b)) <= n /\ n <= R /\ buf[Len(S!DigitsOf(v, b))] = 0

(* What the digits of a number, formatted where terminators are, make up.  *)
LEMMA FormatUintWrites ==
  ASSUME NEW buf, NEW R, NEW n, NEW v, NEW b, NEW upper, Fits(buf, R, n, v, b, upper)
  PROVE  Written(S!FormatUint(buf, n, v, b, upper), R, 0, S!DigitsOf(v, b), upper)
<1> DEFINE ds == S!DigitsOf(v, b)
           k == Len(ds)
           after == S!FormatUint(buf, n, v, b, upper)
<1>1. Formatted(after, buf, R, n, ds, upper) /\ buf[k] = 0
  BY FormatUintIs, Zenon DEF Fits
<1> HIDE DEF ds, after
<1>2. /\ k \in 1 .. n /\ Buffer(after, R) /\ after[k] = 0
      /\ \A j \in 0 .. k - 1 : after[j] = S!DigitChar(ds[k - j], upper)
  BY <1>1 DEF Formatted
<1>3. k \in 1 .. R /\ 0 + k = k
  <2>1. n \in Nat /\ R \in Nat /\ n <= R
    BY DEF Fits
  <2>2. QED
    BY <1>2, <2>1
<1>4. \A j \in 0 .. k - 1 : 0 + j = j
  OBVIOUS
<1>5. Written(after, R, 0, ds, upper)
  BY <1>2, <1>3, <1>4 DEF Written, Buffer
<1>6. QED
  BY <1>5 DEF ds, after

(* A number that fits into a buffer together with its sign is formatted as *)
(* what is parsed to it (kstring.c:28-38).                                 *)
LEMMA FormatIntParsesBack ==
  ASSUME NEW n \in Nat \ {0}, NEW v \in Nat, NEW b \in 2 .. 36, NEW upper \in BOOLEAN,
         Len(S!DigitsOf(v, b)) < n, NEW value \in {v, -v}
  PROVE  S!ParseInt(S!FormatInt([i \in 0 .. n |-> 0], n, value, b, upper), b) = value
<1> DEFINE ds == S!DigitsOf(v, b)
           k == Len(ds)
           blank == [i \in 0 .. n |-> 0]
           result == S!FormatInt(blank, n, value, b, upper)
<1>1. k \in Nat \ {0} /\ k < n
  <2>1. PICK w : Places(ds, w, v, b)
    BY DigitsMakeUp
  <2>2. QED
    BY <2>1 DEF Places
<1>2. CASE value >= 0
  <2>1. value = v
    BY <1>2
  <2>2. result = S!FormatUint(blank, n, v, b, upper)
    <3> HIDE DEF blank
    <3>1. QED
      BY <1>2, <2>1 DEF S!FormatInt
  <2>3. Buffer(blank, n) /\ k <= n /\ n <= n /\ n \in Nat /\ blank[k] = 0
    BY <1>1 DEF Buffer
  <2> HIDE DEF blank
  <2>4. Fits(blank, n, n, v, b, upper)
    BY <2>3 DEF Fits
  <2>5. Written(S!FormatUint(blank, n, v, b, upper), n, 0, ds, upper)
    BY <2>4, FormatUintWrites, Zenon
  <2> HIDE DEF result
  <2>6. Reads(result, n, v, b, upper, 0)
    BY <2>2, <2>3, <2>5 DEF Reads
  <2>7. S!ParseInt(result, b) = v
    BY <2>6, ParsesBack
  <2>8. QED
    BY <2>1, <2>7 DEF result, blank
<1>3. CASE ~(value >= 0)
  <2>1. value = -v /\ -value = v
    BY <1>3
  <2> DEFINE rest == [i \in 0 .. S!Max(DOMAIN blank) - 1 |-> blank[i + 1]]
             digits == S!FormatUint(rest, n - 1, -value, b, upper)
  <2>2. result = [i \in DOMAIN blank |-> IF i = 0 THEN 45 ELSE digits[i - 1]]
    <3> HIDE DEF blank
    <3>1. QED
      BY <1>3 DEF S!FormatInt
  <2>3. S!Max(DOMAIN blank) = n
    <3>1. DOMAIN blank = 0 .. n
      OBVIOUS
    <3>2. S!Max(0 .. n) = n
      <4>1. (0 .. n) \in SUBSET Int /\ n \in 0 .. n /\ \A i \in 0 .. n : i <= n
        OBVIOUS
      <4>2. QED
        BY <4>1, MaxIs
    <3>3. QED
      BY <3>1, <3>2
  <2>4. Buffer(rest, n - 1) /\ \A i \in 0 .. n - 1 : rest[i] = 0
    <3>1. \A i \in 0 .. n - 1 : i + 1 \in 0 .. n /\ blank[i + 1] = 0
      OBVIOUS
    <3> HIDE DEF blank
    <3>2. QED
      BY <2>3, <3>1 DEF Buffer
  <2>5. n - 1 \in Nat /\ k <= n - 1 /\ n - 1 <= n - 1 /\ rest[k] = 0
    BY <1>1, <2>4
  <2>6. DOMAIN blank = 0 .. n
    OBVIOUS
  <2> HIDE DEF rest, blank
  <2>7. Fits(rest, n - 1, n - 1, v, b, upper)
    BY <2>4, <2>5 DEF Fits
  <2>8. Written(S!FormatUint(rest, n - 1, v, b, upper), n - 1, 0, ds, upper)
    BY <2>7, FormatUintWrites, Zenon
  <2>9. Written(digits, n - 1, 0, ds, upper)
    BY <2>1, <2>8
  <2> HIDE DEF digits, ds, result
  <2>10. /\ k \in 0 .. n - 1 /\ digits[k] = 0
        /\ \A j \in 0 .. k - 1 : digits[j] = S!DigitChar(ds[k - j], upper)
    <3>1. 0 + k = k /\ \A j \in 0 .. k - 1 : 0 + j = j
      BY <1>1
    <3>2. QED
      BY <2>9, <3>1 DEF Written
  <2>11. DOMAIN result = 0 .. n /\ result[0] = 45 /\ \A j \in 0 .. n - 1 : result[1 + j] = digits[j]
    <3>1. \A j \in 0 .. n - 1 : 1 + j \in 0 .. n /\ 1 + j # 0 /\ (1 + j) - 1 = j
      OBVIOUS
    <3>2. 0 \in 0 .. n
      OBVIOUS
    <3>3. QED
      BY <2>2, <2>6, <3>1, <3>2
  <2>12. 1 + k \in 0 .. n /\ \A j \in 0 .. k : j \in 0 .. n - 1
    BY <2>10
  <2>13. \A j \in 0 .. k - 1 : result[1 + j] = S!DigitChar(ds[k - j], upper)
    <3>1. \A j \in 0 .. k - 1 : j \in 0 .. n - 1
      BY <2>10
    <3>2. QED
      BY <2>10, <2>11, <3>1
  <2>14. result[1 + k] = 0
    BY <2>10, <2>11
  <2>15. Written(result, n, 1, ds, upper)
    BY <2>11, <2>12, <2>13, <2>14 DEF Written
  <2>16. Reads(result, n, v, b, upper, 1)
    BY <2>11, <2>15 DEF Reads, ds
  <2>17. S!ParseInt(result, b) = -v
    BY <2>16, ParsesBack
  <2>18. QED
    BY <2>1, <2>17 DEF result, blank
<1>4. QED
  BY <1>2, <1>3
---------------------------------------------------------------------------
(* Behind the longest number so far, the static buffer of format_number    *)
(* holds terminators.                                                      *)
Untouched ==
  /\ longest \in 0 .. NumberMax /\ Buffer(buffer, NumberMax)
  /\ \A i \in longest .. NumberMax : buffer[i] = 0

NumbersInv == Untouched /\ NumbersParseBack

(* A number that is formatted into the static buffer leaves it so, and is  *)
(* right if no longer one was formatted before (kstring_format.c:168-172). *)
LEMMA NumberKept ==
  ASSUME NumbersInv, NEW v \in Numbers, NEW base \in Bases, NEW upper \in BOOLEAN,
         format_number(v, base, upper)
  PROVE  NumbersInv'
<1> DEFINE ds == S!DigitsOf(v, base)
           k == Len(ds)
           after == S!FormatUint(buffer, NumberMax, v, base, upper)
           printed == [i \in 0 .. k |-> IF i < k THEN after[i] ELSE 0]
<1>1. /\ v \in Nat /\ base \in 2 .. 36 /\ k <= NumberMax /\ NumberMax \in Nat /\ NumberMax <= NumberMax
  <2>1. k < NumberMax /\ base \in 2 .. 36 /\ v \in Nat /\ NumberMax \in Nat
    BY LibkAssumption, NumbersFit
  <2>2. k \in Nat
    <3>1. base \in Nat /\ base > 1
      BY <2>1
    <3>2. ds \in Seq(Nat)
      BY <2>1, <3>1, DigitsIs
    <3> HIDE DEF ds
    <3>3. QED
      BY <3>2
  <2> HIDE DEF k
  <2>3. QED
    BY <2>1, <2>2
<1>2. Buffer(buffer, NumberMax) /\ longest \in 0 .. NumberMax /\ \A i \in longest .. NumberMax : buffer[i] = 0
  BY DEF NumbersInv, Untouched
<1>3. S!DigitCount(NumberMax, v, base) = k /\ Formatted(after, buffer, NumberMax, NumberMax, ds, upper)
  BY <1>1, <1>2, FormatUintIs, Zenon
<1>4. /\ S!DigitCount(NumberMax, v, base) = k /\ k \in 1 .. NumberMax
      /\ Buffer(after, NumberMax) /\ \A i \in k + 1 .. NumberMax : after[i] = buffer[i]
      /\ buffer[k] = 0 =>
           after[k] = 0 /\ \A j \in 0 .. k - 1 : after[j] = S!DigitChar(ds[k - j], upper)
  <2> HIDE DEF ds, after
  <2>1. QED
    BY <1>3 DEF Formatted
<1>5. /\ call' = [fn |-> "number", value |-> v, base |-> base, printed |-> printed]
      /\ buffer' = after /\ longest' = IF k > longest THEN k ELSE longest
  BY <1>4 DEF format_number
<1> HIDE DEF ds, after
<1> HIDE DEF k
<1>6. Untouched'
  <2>1. longest' \in 0 .. NumberMax /\ longest' >= k /\ longest' >= longest
    BY <1>1, <1>2, <1>4, <1>5
  <2>2. ASSUME NEW i \in longest' .. NumberMax PROVE after[i] = 0
    <3>1. CASE i = k
      <4>1. i \in longest .. NumberMax
        BY <1>2, <2>1
      <4>2. QED
        BY <1>2, <1>4, <3>1, <4>1
    <3>2. CASE i # k
      <4>1. i \in k + 1 .. NumberMax /\ i \in longest .. NumberMax
        BY <1>2, <1>4, <2>1, <3>2
      <4>2. QED
        BY <1>2, <1>4, <4>1
    <3>3. QED
      BY <3>1, <3>2
  <2>3. QED
    BY <1>4, <1>5, <2>1, <2>2 DEF Untouched, Buffer
<1>7. ASSUME S!Length(printed) = longest' PROVE S!ParseInt(printed, base) = v
  <2>1. DOMAIN printed = 0 .. k /\ printed[k] = 0 /\ \A i \in 0 .. k - 1 : printed[i] = after[i]
    BY <1>4
  <2> HIDE DEF printed
  <2>2. Ends(printed, k) /\ k \in Nat
    BY <1>4, <2>1 DEF Ends
  <2>3. S!Length(printed) \in 0 .. k
    BY <2>2, LengthIs
  <2>4. longest <= k
    BY <1>2, <1>4, <1>5, <1>7, <2>3
  <2>5. buffer[k] = 0
    <3>1. k \in longest .. NumberMax
      BY <1>2, <1>4, <2>4
    <3>2. QED
      BY <1>2, <3>1
  <2>6. \A j \in 0 .. k - 1 : printed[0 + j] = S!DigitChar(ds[k - j], upper)
    <3>1. \A j \in 0 .. k - 1 : 0 + j = j
      OBVIOUS
    <3>2. QED
      BY <1>4, <2>1, <2>5, <3>1
  <2>7. 0 + k \in 0 .. k /\ 0 + k = k
    BY <2>2
  <2>8. Written(printed, k, 0, ds, upper)
    BY <2>1, <2>6, <2>7 DEF Written, k
  <2>9. Reads(printed, k, v, base, upper, 0)
    <3>1. 0 \in {0, 1} /\ (0 = 1 => printed[0] = 45)
      OBVIOUS
    <3>2. Written(printed, k, 0, S!DigitsOf(v, base), upper)
      BY <2>8 DEF ds
    <3>3. QED
      BY <1>1, <2>2, <3>1, <3>2 DEF Reads
  <2>10. S!ParseInt(printed, base) = v
    BY <2>9, ParsesBack
  <2>11. QED
    BY <2>10
<1> HIDE DEF printed
<1>8. call'.fn = "number" /\ call'.value = v /\ call'.base = base /\ call'.printed = printed
  BY <1>5
<1>9. NumbersParseBack'
  BY <1>7, <1>8 DEF NumbersParseBack
<1>10. QED
  BY <1>6, <1>9 DEF NumbersInv

(* So does every other call, and what is formatted with a sign is right.   *)
LEMMA SignedKept ==
  ASSUME NumbersInv, NEW v \in Numbers, NEW base \in Bases, NEW upper \in BOOLEAN, NEW value \in {v, -v},
         kstring_format_intmax(NumberMax, value, base, upper)
  PROVE  NumbersInv'
<1> DEFINE result == S!FormatInt([i \in 0 .. NumberMax |-> 0], NumberMax, value, base, upper)
<1>1. v \in Nat /\ NumberMax \in Nat \ {0} /\ base \in 2 .. 36 /\ Len(S!DigitsOf(v, base)) < NumberMax
  BY LibkAssumption, NumbersFit
<1>2. S!ParseInt(result, base) = value
  BY <1>1, FormatIntParsesBack, ZenonT(60)
<1>3. /\ call' = [fn |-> "format_intmax", n |-> NumberMax, value |-> value, base |-> base,
                  result |-> result]
      /\ UNCHANGED <<buffer, longest>>
  BY DEF kstring_format_intmax, Start
<1> HIDE DEF result
<1>4. call'.fn = "format_intmax" /\ call'.result = result /\ call'.base = base /\ call'.value = value
  BY <1>3
<1>5. NumbersParseBack'
  BY <1>2, <1>4 DEF NumbersParseBack
<1>6. Untouched'
  BY <1>3 DEF NumbersInv, Untouched, Buffer
<1>7. QED
  BY <1>5, <1>6 DEF NumbersInv

(* Every step keeps the static buffer and the right numbers.               *)
LEMMA NumbersStep == NumbersInv /\ Inv /\ [Next]_vars => NumbersInv'
<1> SUFFICES ASSUME NumbersInv, Inv, [Next]_vars PROVE NumbersInv'
  OBVIOUS
<1>1. ASSUME UNCHANGED <<buffer, longest>>, call'.fn \notin {"format_intmax", "number"}
      PROVE  NumbersInv'
  BY <1>1 DEF NumbersInv, Untouched, Buffer, NumbersParseBack
<1>2. ASSUME NEW c, Start(c), c.fn \notin {"format_intmax", "number"} PROVE NumbersInv'
  BY <1>1, <1>2 DEF Start
<1>3. CASE UNCHANGED vars
  BY <1>3 DEF vars, NumbersInv, Untouched, Buffer, NumbersParseBack
<1>4. CASE ContinueCopy
  <2>1. PICK same, n, c : call = [fn |-> "copy", same |-> same, n |-> n, copy |-> c]
    BY <1>4 DEF Inv, CopyCall, ContinueCopy
  <2> DEFINE d == CopyStep(call.copy)
  <2>2. call' = [call EXCEPT !.copy = d]
    BY <1>4 DEF ContinueCopy
  <2> HIDE DEF d
  <2>3. call'.fn = "copy"
    BY <2>1, <2>2
  <2>4. UNCHANGED <<buffer, longest>>
    BY <1>4 DEF ContinueCopy
  <2>5. QED
    BY <1>1, <2>3, <2>4
<1>5. CASE Calls
  <2>1. ASSUME NEW addr, NEW n, kmemory_fill8(addr, n) PROVE NumbersInv'
    BY <1>2, <2>1 DEF kmemory_fill8
  <2>2. ASSUME NEW dst, NEW src, NEW n, kmemory_copy(dst, src, n) PROVE NumbersInv'
    BY <1>2, <2>2 DEF kmemory_copy
  <2>3. ASSUME NEW n, NEW a, NEW b, kmemory_compare(a, b, n) PROVE NumbersInv'
    BY <1>2, <2>3 DEF kmemory_compare
  <2>4. ASSUME NEW dst, NEW src, NEW n, kstring_copy(dst, src, n) PROVE NumbersInv'
    BY <1>2, <2>4 DEF kstring_copy
  <2>5. ASSUME NEW dst, NEW src, NEW n, kstring_concatenate(dst, src, n) PROVE NumbersInv'
    BY <1>2, <2>5 DEF kstring_concatenate
  <2>6. ASSUME NEW a, NEW b, NEW n, kstring_compare(a, b, n) PROVE NumbersInv'
    BY <1>2, <2>6 DEF kstring_compare
  <2>7. ASSUME NEW a, NEW b, kstring_find_str(a, b) PROVE NumbersInv'
    BY <1>2, <2>7 DEF kstring_find_str
  <2>8. ASSUME NEW a, kstring_case(a) PROVE NumbersInv'
    BY <1>2, <2>8 DEF kstring_case
  <2>9. ASSUME NEW parts, NEW size, NEW item, NEW star, kstring_vformat(parts, size, item, star)
        PROVE  NumbersInv'
    BY <1>2, <2>9 DEF kstring_vformat
  <2>10. ASSUME NEW v \in Numbers, NEW base \in Bases, NEW upper \in BOOLEAN,
                \/ kstring_format_intmax(NumberMax, v, base, upper)
                \/ kstring_format_intmax(NumberMax, -v, base, upper)
         PROVE  NumbersInv'
    BY <2>10, SignedKept
  <2>11. QED
    BY <1>5, <2>1, <2>2, <2>3, <2>4, <2>5, <2>6, <2>7, <2>8, <2>9, <2>10, Zenon DEF Calls
<1>6. ASSUME NEW v \in Numbers, NEW base \in Bases, format_number(v, base, TRUE) PROVE NumbersInv'
  <2>1. ASSUME NEW upper \in BOOLEAN, format_number(v, base, upper) PROVE NumbersInv'
    BY <2>1, NumberKept
  <2>2. QED
    BY <1>6, <2>1, Zenon
<1>7. QED
  BY <1>3, <1>4, <1>5, <1>6 DEF Next

(* Numbers of every base up to 36 that fit into their buffer are parsed    *)
(* back to themselves, except that format_number may append digits of a    *)
(* longer number that it formatted before (kstring.c:28-118,               *)
(* kstring_format.c:168-172).                                              *)
THEOREM NumbersAreKept == Spec => []NumbersParseBack
<1>1. Init => NumbersInv
  <2> SUFFICES ASSUME Init PROVE NumbersInv
    OBVIOUS
  <2>1. NumberMax \in Nat
    BY LibkAssumption
  <2>2. buffer = [i \in 0 .. NumberMax |-> 0] /\ longest = 0 /\ call.fn = "none"
    BY DEF Init
  <2>3. QED
    BY <2>1, <2>2 DEF NumbersInv, Untouched, Buffer, NumbersParseBack
<1>2. NumbersInv => NumbersParseBack
  BY DEF NumbersInv
<1>3. QED
  BY <1>1, <1>2, NumbersStep, ResultsHold, PTL DEF Spec
=============================================================================
