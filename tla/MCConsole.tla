----------------------------- MODULE MCConsole -----------------------------
(* An instance of Console for TLC.                                         *)
EXTENDS Console

SomeCodes == {97, 10, 9, 8, 7}
Error == {-1}
SomeTexts == {<<97, 10>>}
SomeOrigins == {[x |-> 0, y |-> 0], [x |-> 0, y |-> 2], [x |-> 1, y |-> 1]}
=============================================================================
