----------------------------- MODULE MCPointers -----------------------------
(* Five addresses and five lengths, none of them the 0xFF of the probe. *)
EXTENDS Pointers

SomeAddresses == 1 .. 5

SomeLengths == 0 .. 4
=============================================================================
