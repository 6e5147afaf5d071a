---------------------------- MODULE AtomicOption ----------------------------
(***************************************************************************)
(* What an AtomicFd is said to be equivalent to: a shared, atomic          *)
(* Option<OwnedFd>.  The descriptors are resources with an identity, held  *)
(* by at most one owner, and there are no numbers to reuse.                *)
(***************************************************************************)
CONSTANTS
  Threads,    (* The threads of the process.                       *)
  Resources,  (* The identities a descriptor can have.             *)
  Nothing     (* The None of an Option.                            *)

VARIABLES
  slot,  (* The shared option.                                     *)
  held   (* The option each thread holds.                          *)

vars == <<slot, held>>

Init == slot = Nothing /\ held = [t \in Threads |-> Nothing]

Unowned == {r \in Resources : r # slot /\ \A t \in Threads : r # held[t]}

Acquire(t) ==
  /\ held[t] = Nothing
  /\ \E r \in Unowned : held' = [held EXCEPT ![t] = r]
  /\ UNCHANGED slot

Discard(t) ==
  /\ held' = [held EXCEPT ![t] = Nothing]
  /\ UNCHANGED slot

Exchange(t) ==
  /\ slot' = held[t]
  /\ held' = [held EXCEPT ![t] = slot]

Clear ==
  /\ slot' = Nothing
  /\ UNCHANGED held

Next ==
  \/ \E t \in Threads : Acquire(t) \/ Discard(t) \/ Exchange(t)
  \/ Clear

Spec == Init /\ [][Next]_vars
=============================================================================
