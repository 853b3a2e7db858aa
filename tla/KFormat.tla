------------------------------- MODULE KFormat -------------------------------
(***************************************************************************)
(* kstring_vformat (kstring_format.c) as a machine that reads a format one *)
(* character at a time.  A format is a sequence of one-character strings;  *)
(* of the output only its length is kept.  Arguments are counted in the    *)
(* 4-byte words of the i686 calling convention.  What a number or a string *)
(* argument adds to the output is the same length `item' for the whole     *)
(* call, an argument of a `*' is `star'.                                   *)
(***************************************************************************)
EXTENDS Integers, Sequences

Digit == {"0", "1", "2", "3", "4", "5", "6", "7", "8", "9"}
ValueOf(c) == CHOOSE v \in 0 .. 9 : <<"0", "1", "2", "3", "4", "5", "6", "7", "8", "9">>[v + 1] = c

\* struct format_flags, as far as it decides about lengths and arguments.
defaults ==
  [left_pad |-> TRUE, signed_pos |-> FALSE, prefix |-> FALSE, type_width |-> "int",
   field_width |-> 0, precision |-> 0]

\* i: the place in the format; p: the place in the output; words: arguments
\* taken; mode: "text", "arg", or how the call ended.
FormatStart ==
  [i |-> 1, p |-> 0, words |-> 0, mode |-> "text", flags |-> defaults]

CharAt(fmt, i) == IF i <= Len(fmt) THEN fmt[i] ELSE ""

\* extract_int: the place behind the digits at i, and their value.
DigitsEnd(fmt, i) ==
  CHOOSE j \in i .. Len(fmt) + 1 :
    CharAt(fmt, j) \notin Digit /\ \A k \in i .. j - 1 : fmt[k] \in Digit
ExtractInt(fmt, i) ==
  LET value[j \in i .. DigitsEnd(fmt, i)] == IF j = i THEN 0 ELSE value[j - 1] * 10 + ValueOf(fmt[j - 1])
  IN  value[DigitsEnd(fmt, i)]

\* The words that va_arg takes for an integer.
WordsOf(width) == IF width \in {"longlong", "intmax"} THEN 2 ELSE 1

\* do_string: n characters and the padding of the field.  The padding looks at
\* the end q of the buffer; the characters are as many as p lies behind it, and
\* all of them when it lies before it, as the difference is unsigned.
Padded(p, q, padding) == IF p >= q THEN p ELSE IF p + padding < q THEN p + padding ELSE q
CopiedTo(p, q, n) == IF p < q \/ n < p - q THEN p + n ELSE p + (p - q)
\* Mutant: the padding does not look either.
PaddedBlindly(flags, p, q, n) ==
  p + n + IF n < flags.field_width THEN flags.field_width - n ELSE 0
DoString(flags, p, q, n) ==
  LET padding == IF n < flags.field_width THEN flags.field_width - n ELSE 0
  IN  IF flags.left_pad THEN CopiedTo(Padded(p, q, padding), q, n)
      ELSE Padded(CopiedTo(p, q, n), q, padding)

\* The argument ends at p with the given words; a pointer past the end of
\* the buffer is reported as an error (q - p is negative).
EndArg(st, q, p, words) ==
  [st EXCEPT !.p = p, !.words = @ + words, !.i = @ + 1, !.mode = IF p > q THEN "error" ELSE "text"]

\* format_number, for a value that is not negative.
FormatNumber(st, q, flags, prefix, n) ==
  LET p == st.p + (IF flags.signed_pos THEN 1 ELSE 0) + (IF flags.prefix THEN prefix ELSE 0)
  IN  IF flags.type_width = "longdouble" THEN [st EXCEPT !.mode = "abort"]
      ELSE EndArg(st, q, DoString(flags, p, q, n), WordsOf(flags.type_width))

FormatString(st, q, n) ==
  LET cut == IF st.flags.precision > 0 /\ st.flags.precision < n THEN st.flags.precision ELSE n
  IN  EndArg(st, q, DoString(st.flags, st.p, q, cut), 1)

FormatPointer(st, q, n) ==
  LET flags == [defaults EXCEPT !.field_width = 8, !.prefix = st.flags.prefix, !.type_width = "long"]
  IN  FormatNumber(st, q, flags, 2, n)

SetFlag(st, flags, next) == [st EXCEPT !.flags = flags, !.i = next]

\* A length modifier: a doubled one is overruled by its second letter.
\* Mutant: a letter always means the longest type.
ModifierLong(fmt, i) == CASE fmt[i] = "h" -> "short" [] fmt[i] = "t" -> "ptrdiff" [] OTHER -> "longlong"
Modifier(fmt, i) ==
  CASE fmt[i] = "j" -> "intmax"
    [] fmt[i] = "z" -> "size"
    [] fmt[i] = "t" -> "ptrdiff"
    [] fmt[i] = "L" -> "longdouble"
    [] fmt[i] = "q" -> "longlong"
    [] fmt[i] = "h" -> IF CharAt(fmt, i + 1) = "h" THEN "char" ELSE "short"
    [] fmt[i] = "l" -> IF CharAt(fmt, i + 1) = "l" THEN "longlong" ELSE "long"

\* What format_arg makes of a character c, the next one being `next'.
Conversion(st, fmt, q, item, star, c, next) ==
  CASE c = "-"         -> SetFlag(st, [st.flags EXCEPT !.left_pad = FALSE], st.i + 1)
    [] c \in {"+", " "} -> SetFlag(st, [st.flags EXCEPT !.signed_pos = TRUE], st.i + 1)
    [] c = "#"         -> SetFlag(st, [st.flags EXCEPT !.prefix = TRUE], st.i + 1)
    [] c = "0"         -> SetFlag(st, st.flags, st.i + 1)
    [] c = "*"         -> [SetFlag(st, [st.flags EXCEPT !.field_width = star], st.i + 1) EXCEPT !.words = @ + 1]
    [] c = "." /\ next \in Digit ->
         SetFlag(st, [st.flags EXCEPT !.precision = ExtractInt(fmt, st.i + 1)], DigitsEnd(fmt, st.i + 1))
    [] c = "." /\ next = "*" ->
         [SetFlag(st, [st.flags EXCEPT !.precision = star], st.i + 2) EXCEPT !.words = @ + 1]
    [] c = "." /\ next \notin Digit \union {"*"} ->
         SetFlag(st, [st.flags EXCEPT !.precision = 0], st.i + 1)
    [] c \in Digit \ {"0"} ->
         SetFlag(st, [st.flags EXCEPT !.field_width = ExtractInt(fmt, st.i)], DigitsEnd(fmt, st.i))
    [] c \in {"j", "z", "t", "L", "q", "h", "l"} ->
         SetFlag(st, [st.flags EXCEPT !.type_width = Modifier(fmt, st.i)], st.i + 1)
    [] c \in {"d", "i", "u"} -> FormatNumber(st, q, st.flags, 0, item)
    [] c \in {"b", "o"} -> FormatNumber(st, q, st.flags, 1, item)
    [] c \in {"x", "X"} -> FormatNumber(st, q, st.flags, 2, item)
    [] c = "c"          -> EndArg(st, q, DoString(st.flags, st.p, q, 1), 1)
    [] c = "s"          -> FormatString(st, q, item)
    [] c = "p"          -> FormatPointer(st, q, item)
    [] c = "n"          -> EndArg(st, q, st.p, 1)
    [] OTHER            -> [st EXCEPT !.mode = "error"]

\* One turn of the loop of format_arg.
ArgStep(st, fmt, q, item, star) ==
  IF st.p >= q \/ CharAt(fmt, st.i) = "" THEN [st EXCEPT !.mode = "text", !.i = @ + 1]
  ELSE Conversion(st, fmt, q, item, star, CharAt(fmt, st.i), CharAt(fmt, st.i + 1))

\* One turn of the loop of kstring_vformat.  A format that ends inside a
\* conversion makes it step over the terminator.
TextStep(st, fmt, q) ==
  LET c == CharAt(fmt, st.i)
  IN  CASE st.i > Len(fmt) + 1      -> [st EXCEPT !.mode = "undefined"]
        [] st.i <= Len(fmt) + 1 /\ (st.p >= q \/ c = "") -> [st EXCEPT !.mode = "done"]
        [] st.p < q /\ c = "%" /\ CharAt(fmt, st.i + 1) # "%" ->
             [st EXCEPT !.mode = "arg", !.i = @ + 1, !.flags = defaults]
        [] OTHER                    -> [st EXCEPT !.p = @ + 1, !.i = @ + 1]

Vformat(fmt, q, item, star) ==
  LET run[k \in Nat] ==
        IF k = 0 THEN FormatStart
        ELSE LET st == run[k - 1]
             IN  CASE st.mode = "text" -> TextStep(st, fmt, q)
                   [] st.mode = "arg"  -> ArgStep(st, fmt, q, item, star)
                   [] OTHER            -> st
  IN  run[3 * Len(fmt) + 3]
=============================================================================
