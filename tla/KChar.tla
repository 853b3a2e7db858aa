-------------------------------- MODULE KChar --------------------------------
(***************************************************************************)
(* The character classes of libk (kchar.c): the columns of kchar_table,    *)
(* which has a row for each of the codes 0..127 and for no other.          *)
(***************************************************************************)
LOCAL INSTANCE Integers

TableRows == 0 .. 127
UPPER    == 65 .. 90
LOWER    == 97 .. 122
DIGIT    == 48 .. 57
ALPHA    == UPPER \union LOWER
ALNUM    == ALPHA \union DIGIT
XDIGIT   == DIGIT \union (65 .. 70) \union (97 .. 102)
PUNCT    == (33 .. 47) \union (58 .. 64) \union (91 .. 96) \union (123 .. 126)
GRAPH    == 33 .. 126
PRINT    == 32 .. 126
SPACE    == (9 .. 14) \union {32}
CNTRL    == (0 .. 31) \union {127}
BLANK    == {}

ToLowerCase(c) == IF c \notin ALPHA \/ c \in LOWER THEN c ELSE c - 65 + 97
ToUpperCase(c) == IF c \notin ALPHA \/ c \in UPPER THEN c ELSE c - 97 + 65
=============================================================================
