------------------------------- MODULE MCKList -------------------------------
(* An instance of KList for TLC.                                           *)
EXTENDS KList
=============================================================================
