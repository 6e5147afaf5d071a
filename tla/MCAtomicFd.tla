----------------------------- MODULE MCAtomicFd -----------------------------
(* AtomicFd shared by two threads, with two numbers above those of stdio. *)
EXTENDS AtomicFd

CONSTANTS t1, t2, k1, k2, k3

TwoThreads == {t1, t2}
ThreeTokens == {k1, k2, k3}
=============================================================================
