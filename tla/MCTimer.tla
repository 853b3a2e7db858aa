------------------------------- MODULE MCTimer -------------------------------
(* Instances of Timer for TLC.                                             *)
EXTENDS Timer

(* A period that is over at once, one of several ticks and the longest.    *)
SomePeriods == {0, 25, Word - 1}
=============================================================================
