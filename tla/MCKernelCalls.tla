--------------------------- MODULE MCKernelCalls ---------------------------
(* Two threads, two errors, two descriptors; page sizes that are none, no  *)
(* power of two, and one.                                                  *)
EXTENDS KernelCalls

PowersOfTwo[i \in 0 .. Bits] == IF i = 0 THEN 1 ELSE 2 * PowersOfTwo[i - 1]
=============================================================================
