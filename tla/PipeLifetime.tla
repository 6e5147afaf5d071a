---------------------------- MODULE PipeLifetime ----------------------------
(***************************************************************************)
(* What a gulf PipeWire channel promises about the pipe it is built on,    *)
(* with no reference count and no atomics: handles come and go, the write  *)
(* end stays open for as long as some Sender can still be used, and the    *)
(* read end for as long as the Receiver can.                               *)
(***************************************************************************)
CONSTANTS
  Senders,   (* The identities a Sender handle can have.   *)
  First,     (* The Sender returned by channel().          *)
  WriteEnd,  (* The descriptor the Senders write to.       *)
  ReadEnd    (* The descriptor the Receiver reads from.    *)

VARIABLES
  senders,    (* The Senders a caller can still use.              *)
  receiving,  (* Whether the caller can still use the Receiver.   *)
  open        (* The ends of the pipe that the process has open.  *)

vars == <<senders, receiving, open>>

Init ==
  /\ senders = {First}
  /\ receiving = TRUE
  /\ open = {WriteEnd, ReadEnd}

(* Only a usable Sender can be cloned. *)
CloneSender ==
  /\ senders # {}
  /\ \E c \in Senders \ senders : senders' = senders \cup {c}
  /\ UNCHANGED <<receiving, open>>

DropSender ==
  /\ \E h \in senders : senders' = senders \ {h}
  /\ UNCHANGED <<receiving, open>>

DropReceiver ==
  /\ receiving
  /\ receiving' = FALSE
  /\ UNCHANGED <<senders, open>>

CloseWriteEnd ==
  /\ senders = {}
  /\ open' = open \ {WriteEnd}
  /\ UNCHANGED <<senders, receiving>>

CloseReadEnd ==
  /\ ~receiving
  /\ open' = open \ {ReadEnd}
  /\ UNCHANGED <<senders, receiving>>

Next ==
  \/ CloneSender
  \/ DropSender
  \/ DropReceiver
  \/ CloseWriteEnd
  \/ CloseReadEnd

Spec == Init /\ [][Next]_vars
=============================================================================
