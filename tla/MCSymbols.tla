----------------------------- MODULE MCSymbols -----------------------------
(* An instance of Symbols for TLC.                                         *)
EXTENDS Symbols

\* "1 A", "2 AB", "3 _1", "A B", and a lower-case digit; then lines without a
\* name, without an address, with a bad name, too long, and cut off.
SomeLines == {
  <<49, 32, 65, 10>>, <<50, 32, 65, 66, 10>>, <<51, 32, 95, 49, 10>>, <<97, 32, 66, 10>>,
  <<10>>, <<51, 32, 32, 66, 10>>, <<51, 32, 49, 10>>, <<49, 49, 49, 32, 65, 10>>, <<51, 32, 66>>}
SomeNames == {<<65>>, <<65, 66>>, <<95>>, <<66>>, <<49>>}
=============================================================================
