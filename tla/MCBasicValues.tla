---------------------------- MODULE MCBasicValues ----------------------------
(* An instance of BasicValues for TLC: bytes of one bit, so that all the   *)
(* integers of eight bytes can be tried.                                   *)
EXTENDS BasicValues

AllIntegers == -128 .. 127
SomeHalves == -300 .. 600
=============================================================================
