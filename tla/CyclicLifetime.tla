--------------------------- MODULE CyclicLifetime ---------------------------
(***************************************************************************)
(* What a fallible constructor of a cyclic value promises, with no counts, *)
(* no Weak and no unwinding: either there is a value and the caller has an *)
(* Arc of it, or there never is one and nobody ever has an Arc; the value  *)
(* is dropped once, after the last Arc, and the memory freed once, after   *)
(* the value.                                                              *)
(***************************************************************************)
CONSTANTS
  Owners,  (* Who may come to hold an Arc.  *)
  Caller   (* Who calls the constructor.    *)

VARIABLES
  outcome,  (* "none" yet, "ok", "err" or "panicked".  *)
  value,    (* "uninit", "init" or "dropped".          *)
  memory,   (* "none", "allocated" or "freed".         *)
  arcs      (* The owners of an Arc.                   *)

vars == <<outcome, value, memory, arcs>>

Init ==
  /\ outcome = "none"
  /\ value = "uninit"
  /\ memory = "none"
  /\ arcs = {}

Allocate ==
  /\ memory = "none"
  /\ memory' = "allocated"
  /\ UNCHANGED <<outcome, value, arcs>>

(* The value is there at once for everybody who can reach it. *)
Succeed ==
  /\ outcome = "none" /\ memory = "allocated"
  /\ outcome' = "ok" /\ value' = "init" /\ arcs' = {Caller}
  /\ UNCHANGED memory

(* The memory may outlive a failure, while somebody could still ask for an *)
(* Arc of it, in vain.                                                     *)
Fail ==
  /\ outcome = "none" /\ memory # "none"
  /\ outcome' \in {"err", "panicked"}
  /\ memory' \in {memory, "freed"}
  /\ UNCHANGED <<value, arcs>>

(* An Arc is only ever made while there is another. *)
Share ==
  /\ arcs # {}
  /\ \E t \in Owners \ arcs : arcs' = arcs \cup {t}
  /\ UNCHANGED <<outcome, value, memory>>

Leave ==
  /\ \E t \in arcs : arcs' = arcs \ {t}
  /\ UNCHANGED <<outcome, value, memory>>

DropValue ==
  /\ value = "init" /\ arcs = {}
  /\ value' = "dropped"
  /\ UNCHANGED <<outcome, memory, arcs>>

Free ==
  /\ memory = "allocated" /\ value # "init" /\ arcs = {}
  /\ memory' = "freed"
  /\ UNCHANGED <<outcome, value, arcs>>

Next == Allocate \/ Succeed \/ Fail \/ Share \/ Leave \/ DropValue \/ Free

Spec == Init /\ [][Next]_vars
=============================================================================
