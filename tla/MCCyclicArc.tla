----------------------------- MODULE MCCyclicArc -----------------------------
(* CyclicArc with two other owners and every strategy. *)
EXTENDS CyclicArc, TLC

CONSTANTS t1, t2

TwoThreads == {t1, t2}

ThreadsAlike == Permutations(TwoThreads)
=============================================================================
