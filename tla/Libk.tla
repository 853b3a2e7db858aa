-------------------------------- MODULE Libk --------------------------------
(***************************************************************************)
(* Calls of the primitives of libk: memory (KMemory), strings (KString)    *)
(* and formatting (KFormat).  A behaviour is one call with inputs from     *)
(* small sets, except that a copy takes a step per turn of its loops and   *)
(* that numbers are formatted one after another, as format_number keeps    *)
(* its digits in a static buffer.                                          *)
(***************************************************************************)
EXTENDS Integers, Sequences, FiniteSets, KMemory

CONSTANTS
  MaxFill,      \* bound: bytes filled
  MaxCompare,   \* bound: bytes compared
  Chars,        \* character codes that strings are made of
  MaxText,      \* bound: length of a string
  Numbers,      \* numbers formatted
  Bases,        \* numeric bases
  NumberMax,    \* size of the static buffer of format_number
  Directives,   \* parts of formats: [chars, words], words being what callers pass
  MaxParts,     \* bound: parts of a format
  MaxOut,       \* bound: size of an output buffer
  Items         \* lengths of what an argument adds to the output

ASSUME LibkAssumption ==
  /\ MaxFill \in Nat /\ MaxCompare \in Nat /\ MaxText \in Nat /\ Numbers \subseteq Nat
  /\ Chars \subseteq Int /\ NumberMax \in Nat \ {0} /\ MaxParts \in Nat
  /\ MaxOut \in Nat \ {0} /\ Items \subseteq Nat
  /\ \A d \in Directives : d.chars \in Seq(STRING) /\ d.words \in Nat

S == INSTANCE KString
F == INSTANCE KFormat
C == INSTANCE KChar

\* A number fits into a buffer together with a sign, and digits are letters at most.
ASSUME NumbersFit ==
  /\ Bases \subseteq 2 .. 36
  /\ \A v \in Numbers, base \in Bases : Len(S!DigitsOf(v, base)) < NumberMax

VARIABLES
  call,      \* the function called, its inputs and its outcome
  buffer,    \* the static buffer of format_number
  longest    \* the most digits formatted so far

vars == <<call, buffer, longest>>

Init ==
  /\ call = [fn |-> "none"]
  /\ buffer = [i \in 0 .. NumberMax |-> 0]
  /\ longest = 0

\* The strings of at most MaxText characters, in buffers of twice that size.
Room == 2 * MaxText + 2
Strings ==
  {[i \in 0 .. Room |-> IF i < Len(t) THEN t[i + 1] ELSE 0] :
     t \in UNION {[1 .. k -> Chars] : k \in 0 .. MaxText}}
\* A string behind whose terminator anything may stand.
Dirty(s, c) == [i \in DOMAIN s |-> IF i > S!Length(s) THEN c ELSE s[i]]

Start(c) ==
  /\ call' = c
  /\ UNCHANGED <<buffer, longest>>

kmemory_fill8(addr, n) ==
  Start([fn |-> "fill8", addr |-> addr, n |-> n, length |-> Fill8Length(addr, n)])

kmemory_copy(dst, src, n) ==
  Start([fn |-> "copy", same |-> dst = src, n |-> n, copy |-> CopyStart(dst, src, n)])
ContinueCopy ==
  /\ call.fn = "copy" /\ call.copy.phase # "done"
  /\ call' = [call EXCEPT !.copy = CopyStep(@)]
  /\ UNCHANGED <<buffer, longest>>

kmemory_compare(a, b, n) ==
  Start([fn |-> "compare", a |-> a, b |-> b, n |-> n, result |-> Compare(a, b, n)])

kstring_copy(dst, src, n) ==
  Start([fn |-> "copy_string", dst |-> dst, src |-> src, n |-> n,
         result |-> S!Copy(dst, src, n), end |-> S!CopyEnd(src, n)])
kstring_concatenate(dst, src, n) ==
  Start([fn |-> "concatenate", dst |-> dst, src |-> src, n |-> n, result |-> S!Concatenate(dst, src, n)])
kstring_compare(a, b, n) ==
  Start([fn |-> "compare_string", a |-> a, b |-> b, n |-> n, result |-> S!Compare(a, b, n)])
kstring_find_str(a, b) ==
  Start([fn |-> "find_str", a |-> a, b |-> b, result |-> S!FindStr(a, b)])
kstring_case(a) ==
  Start([fn |-> "case", a |-> a, lower |-> S!LowerCase(a), upper |-> S!UpperCase(a),
         duplicate |-> S!Duplicate(a, 255)])
kstring_format_intmax(n, value, base, upper) ==
  LET blank == [i \in 0 .. NumberMax |-> 0]
  IN  Start([fn |-> "format_intmax", n |-> n, value |-> value, base |-> base,
             result |-> S!FormatInt(blank, n, value, base, upper)])

\* format_number: the digits go into the static buffer.
format_number(value, base, upper) ==
  LET after == S!FormatUint(buffer, NumberMax, value, base, upper)
      n == S!DigitCount(NumberMax, value, base)
  IN  /\ call' = [fn |-> "number", value |-> value, base |-> base,
                  printed |-> [i \in 0 .. n |-> IF i < n THEN after[i] ELSE 0]]
      /\ buffer' = after
      /\ longest' = IF n > longest THEN n ELSE longest

\* The format made of some parts, and the words its caller passes for it.
Format(parts) ==
  LET chars[k \in 0 .. Len(parts)] == IF k = 0 THEN <<>> ELSE chars[k - 1] \o parts[k].chars
  IN  chars[Len(parts)]
Passed(parts) ==
  LET words[k \in 0 .. Len(parts)] == IF k = 0 THEN 0 ELSE words[k - 1] + parts[k].words
  IN  words[Len(parts)]

kstring_vformat(parts, size, item, star) ==
  Start([fn |-> "format", parts |-> parts, size |-> size, item |-> item,
         result |-> F!Vformat(Format(parts), size, item, star)])

Ints(k) == [0 .. k -> 0 .. Base - 1]

Calls ==
  \/ \E addr \in 0 .. 3, n \in 0 .. MaxFill : kmemory_fill8(addr, n)
  \/ \E dst \in {8, 16, 24}, src \in {8, 16, 24}, n \in 0 .. SizeMax : kmemory_copy(dst, src, n)
  \/ \E n \in 1 .. MaxCompare : \E a \in Ints(n + 2), b \in Ints(n + 2) : kmemory_compare(a, b, n)
  \/ \E a \in Strings, b \in Strings, n \in 0 .. MaxText :
       \/ kstring_copy(Dirty(a, 1), b, n)
       \/ kstring_concatenate(a, b, n)
       \/ kstring_compare(a, b, n)
  \/ \E a \in Strings, b \in Strings : S!Length(b) > 0 /\ kstring_find_str(a, b)
  \/ \E a \in Strings : kstring_case(a)
  \/ \E v \in Numbers, base \in Bases, upper \in BOOLEAN :
       \/ kstring_format_intmax(NumberMax, v, base, upper)
       \/ kstring_format_intmax(NumberMax, -v, base, upper)
  \/ \E k \in 1 .. MaxParts : \E parts \in [1 .. k -> Directives] :
       \E size \in 1 .. MaxOut, item \in Items, star \in Items : kstring_vformat(parts, size, item, star)

Next ==
  \/ call.fn = "none" /\ Calls
  \/ ContinueCopy
  \/ call.fn \in {"none", "number"} /\ \E v \in Numbers, base \in Bases : format_number(v, base, TRUE)

Spec == Init /\ [][Next]_vars
---------------------------------------------------------------------------
(* Properties.                                                             *)

(* kmemory_fill8 computes what is left from the count of words instead of  *)
(* bytes (kmemory_fill.h:60-72), yet it stays close to the buffer: it      *)
(* never stops more than 7 bytes short of the n bytes it was asked for nor *)
(* runs more than 5 bytes past them.                                       *)
FillExtent ==
  call.fn = "fill8" => call.length \in call.n - 7 .. call.n + 5

(* kmemory_copy writes its n bytes and nothing else (libk/kmemory.h:30).   *)
CopyStaysInside ==
  call.fn = "copy" => WroteInside(call.copy, call.n)

(* kmemory_compare, which reads ints that overlap and run 3 bytes past the *)
(* regions, still tells regions that differ from each other, and finds     *)
(* equal regions equal when what follows them is equal too.                *)
CompareDetects ==
  call.fn = "compare" =>
    /\ (\E i \in 0 .. call.n - 1 : call.a[i] # call.b[i]) => call.result # 0
    /\ call.a = call.b => call.result = 0

(* A number that was formatted is parsed back to itself in every base,     *)
(* negative ones included; for format_number, whose static buffer keeps    *)
(* the digits of earlier numbers, this holds of a number that has at least *)
(* as many digits as every number before it.                               *)
NumbersParseBack ==
  /\ call.fn = "format_intmax" => S!ParseInt(call.result, call.base) = call.value
  /\ (call.fn = "number" /\ S!Length(call.printed) = longest) =>
       S!ParseInt(call.printed, call.base) = call.value

(* Every number is formatted as itself (libk/kstring.h:40).                *)
NumbersRight ==
  call.fn = "number" => S!ParseInt(call.printed, call.base) = call.value

(* The functions that write strings leave a terminated string that is what *)
(* they promise, and change nothing behind its terminator, whatever was    *)
(* there; a comparison of two whole strings of one length is 0 for equal   *)
(* strings only; and case conversion forgets nothing but case.             *)
StringsRight ==
  /\ call.fn = "copy_string" =>
       /\ S!Text(call.result) = SubSeq(S!Text(call.src), 1, call.end)
       /\ call.end <= call.n
       /\ \A i \in call.end + 1 .. Room : call.result[i] = call.dst[i]
  /\ call.fn = "concatenate" =>
       S!Text(call.result) = S!Text(call.dst) \o SubSeq(S!Text(call.src), 1, S!CopyEnd(call.src, call.n))
  /\ (call.fn = "compare_string" /\ S!Length(call.a) = S!Length(call.b) /\ S!Length(call.a) <= call.n) =>
       (call.result = 0 <=> S!Text(call.a) = S!Text(call.b))
  /\ call.fn = "case" =>
       /\ S!LowerCase(call.upper) = call.lower /\ S!UpperCase(call.lower) = call.upper
       /\ S!Text(call.duplicate) = S!Text(call.a)

(* kstring_find_str does not look at the first place and takes a mismatch  *)
(* of the last character for a match, but it misses no other occurrence:   *)
(* its answer is never behind one.                                         *)
FindStrMissesNothing ==
  call.fn = "find_str" =>
    \A at \in 1 .. S!Length(call.a) - S!Length(call.b) :
      (\A k \in 0 .. S!Length(call.b) - 1 : call.a[at + k] = call.b[k])
        => call.result \in 1 .. at

\* What callers mean by a format: an ordinary character takes no argument; a
\* conversion takes a word for every * and a word, or two, for its value.
Letters == {"j", "z", "t", "q", "h", "l"}
Between == {"-", "+", " ", "#", "0", "*", "."} \union F!Digit \union Letters
Whole == {"d", "i", "u", "b", "o", "x", "X"}
Conversions == Whole \union {"c", "s", "p", "n"}
Stars(chars, n) == Cardinality({k \in 2 .. n : chars[k] = "*"})
Wide(chars, n) == \E k \in 2 .. n : chars[k] \in {"j", "q"}

PlainText(d) == Len(d.chars) = 1 /\ d.chars[1] \notin {"", "%"} /\ d.words = 0
\* At most one length modifier, and at its end a conversion or what is none.
PlainConversion(d) ==
  LET n == Len(d.chars)
      end == d.chars[n]
  IN  /\ n >= 2 /\ d.chars[1] = "%"
      /\ \A k \in 2 .. n - 1 : d.chars[k] \in Between
      /\ \A k, m \in 2 .. n - 1 : d.chars[k] \in Letters /\ d.chars[m] \in Letters => k = m
      /\ \/ /\ end \in Conversions
            /\ d.words = Stars(d.chars, n) + IF end \in Whole /\ Wide(d.chars, n) THEN 2 ELSE 1
         \/ /\ end \notin Between \union Conversions \union {"", "%", "L"}
            /\ d.words >= Stars(d.chars, n)
Plain(parts) == \A k \in DOMAIN parts : PlainText(parts[k]) \/ PlainConversion(parts[k])

(* For formats without doubled length modifiers and without %%, vformat    *)
(* takes from the stack exactly the words its caller passed, unless the    *)
(* output is full, and never more; it never runs over the format's end.    *)
ArgumentsTaken ==
  (call.fn = "format" /\ Plain(call.parts)) =>
    LET r == call.result
    IN  /\ r.mode \in {"done", "error"}
        /\ r.words <= Passed(call.parts)
        /\ (r.mode = "done" /\ r.i > Len(Format(call.parts))) => r.words = Passed(call.parts)

(* vformat may write behind the end of the buffer, but never more than all *)
(* characters but one of a single argument, or than a sign and a prefix    *)
(* and two digits: no loop goes on at the end (kstring_format.c:96).       *)
OverrunByOneItem ==
  call.fn = "format" =>
    call.result.p < call.size + call.item \/ call.result.p <= call.size + 4
=============================================================================
