------------------------------- MODULE KString -------------------------------
(***************************************************************************)
(* The string functions of libk (kstring.c).  A buffer is a function from  *)
(* its offsets, which begin at 0, to character codes; a string ends at its *)
(* first 0; a pointer into a buffer is an offset, and NULL is -1.          *)
(***************************************************************************)
EXTENDS Integers, Sequences, FiniteSetsExt, KChar

NULL == -1
Least(S) == IF S = {} THEN NULL ELSE Min(S)
AtMost(m, n) == IF m < n THEN m ELSE n

Length(s) == Min({i \in DOMAIN s : s[i] = 0})
Text(s) == [i \in 1 .. Length(s) |-> s[i - 1]]

\* kstring_copy writes at most n characters, and then a terminator.
CopyAt(dst, at, src, n) ==
  LET k == AtMost(n, Length(src))
  IN  [i \in DOMAIN dst |-> IF i \in at .. at + k - 1 THEN src[i - at]
                            ELSE IF i = at + k THEN 0 ELSE dst[i]]
Copy(dst, src, n) == CopyAt(dst, 0, src, n)
CopyEnd(src, n) == AtMost(n, Length(src))
Concatenate(dst, src, n) == CopyAt(dst, Length(dst), src, n)

\* kstring_compare stops at the end of either string.
\* Mutant: it stops at the first character that differs, and says nothing.
CompareNothing(a, b, n) == 0
Compare(a, b, n) ==
  LET common == AtMost(n, AtMost(Length(a), Length(b)))
      i == Least({j \in 0 .. common - 1 : a[j] # b[j]})
  IN  IF i = NULL THEN 0 ELSE a[i] - b[i]

\* kstring_reverse looks for the last character at or before offset n.
\* Mutant: it takes the last character for granted.
ReverseFrom(buf, n) ==
  [i \in DOMAIN buf |-> IF i <= n THEN buf[n - i] ELSE buf[i]]
Reverse(buf, n) ==
  LET q == Max({0} \union {i \in 1 .. n : buf[i] # 0})
  IN  [i \in DOMAIN buf |-> IF i <= q THEN buf[q - i] ELSE buf[i]]

DigitsOf(value, base) ==
  LET digits[v \in Nat] == IF v < base THEN <<v>> ELSE <<v % base>> \o digits[v \div base]
  IN  digits[value]

DigitChar(d, upper) == IF d < 10 THEN 48 + d ELSE (IF upper THEN 65 ELSE 97) + d - 10

\* kstring_format_uintmax: the buffer and the number of characters.
DigitCount(n, value, base) ==
  IF base < 2 THEN 0 ELSE LET k == Len(DigitsOf(value, base)) IN IF n > 1 THEN AtMost(n, k) ELSE 1
FormatUint(buf, n, value, base, upper) ==
  LET ds == DigitsOf(value, base)
      k  == DigitCount(n, value, base)
  IN  IF base < 2 THEN buf
      ELSE Reverse([i \in DOMAIN buf |-> IF i < k THEN DigitChar(ds[i + 1], upper) ELSE buf[i]], k)

\* kstring_format_intmax writes the sign and formats behind it.
FormatInt(buf, n, value, base, upper) ==
  LET rest == [i \in 0 .. Max(DOMAIN buf) - 1 |-> buf[i + 1]]
      digits == FormatUint(rest, n - 1, -value, base, upper)
  IN  IF value >= 0 THEN FormatUint(buf, n, value, base, upper)
      ELSE [i \in DOMAIN buf |-> IF i = 0 THEN 45 ELSE digits[i - 1]]

\* kstring_parse_intmax.
ParseInt(s, base) ==
  LET neg == s[0] = 45
      first == IF neg THEN 1 ELSE 0
      c(i) == ToUpperCase(s[i])
      digit(i) == IF c(i) \in DIGIT THEN c(i) - 48 ELSE c(i) - 65 + 10
      number[i \in first .. Length(s)] == IF i = first THEN 0 ELSE number[i - 1] * base + digit(i - 1)
      n == number[Length(s)]
  IN  IF base < 2 \/ \E i \in first .. Length(s) - 1 : c(i) \notin ALNUM THEN 0
      ELSE IF neg THEN -n ELSE n

\* kstring_find_str looks at the places from the second character on; a
\* mismatch at the last character of src is not told from a match.
Matches(dst, src, at) ==
  LET stops(k) == dst[at + k] # src[k] \/ dst[at + k + 1] = 0 \/ src[k + 1] = 0
      m == Min({k \in 0 .. Length(src) - 1 : stops(k)})
  IN  src[m + 1] = 0
\* Mutant: the place of the last characters is left out.
FindStrShort(dst, src) == Least({at \in 1 .. Length(dst) - Length(src) - 1 : Matches(dst, src, at)})
FindStr(dst, src) == Least({at \in 1 .. Length(dst) : Matches(dst, src, at)})

LowerCase(s) == [i \in DOMAIN s |-> IF i < Length(s) THEN ToLowerCase(s[i]) ELSE s[i]]
UpperCase(s) == [i \in DOMAIN s |-> IF i < Length(s) THEN ToUpperCase(s[i]) ELSE s[i]]

\* kstring_duplicate, into memory that holds anything.
Duplicate(s, garbage) ==
  Copy([i \in 0 .. Length(s) |-> garbage], s, Length(s))
=============================================================================
