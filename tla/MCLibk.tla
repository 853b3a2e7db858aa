------------------------------- MODULE MCLibk -------------------------------
(* Instances of Libk for TLC.                                              *)
EXTENDS Libk

D(chars, words) == [chars |-> chars, words |-> words]
AllDirectives == {
  D(<<"a">>, 0),
  D(<<"%", "d">>, 1),
  D(<<"%", "+", "5", "i">>, 1),
  D(<<"%", "-", "1", "0", "s">>, 1),
  D(<<"%", ".", "2", "s">>, 1),
  D(<<"%", "*", "u">>, 2),
  D(<<"%", ".", "*", "s">>, 2),
  D(<<"%", ".", "c">>, 1),
  D(<<"%", "#", "0", "8", "l", "X">>, 1),
  D(<<"%", "#", "b">>, 1),
  D(<<"%", "#", "p">>, 1),
  D(<<"%", "h", "o">>, 1),
  D(<<"%", "j", "d">>, 2),
  D(<<"%", "q", "x">>, 2),
  D(<<"%", "z", "u">>, 1),
  D(<<"%", "*", ".", "*", "q", "X">>, 4),
  D(<<"%", "t", "d">>, 1),
  D(<<"%", "n">>, 1),
  D(<<"%", "y">>, 0),
  D(<<"%", "h", "h", "u">>, 1),
  D(<<"%", "l", "l", "X">>, 2),
  D(<<"%", "L", "d">>, 3),
  D(<<"%", "%">>, 0),
  D(<<"%">>, 0)}
TwoCases == {65, 97, 98}
=============================================================================
