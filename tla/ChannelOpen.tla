---------------------------- MODULE ChannelOpen ----------------------------
(***************************************************************************)
(* channel() (crates/capture-linux/src/pw/channel.rs) up to the two        *)
(* OwnedFd it hands to the Channel: pipe2 fills an array of two            *)
(* descriptors, the function then looks at them.  The pattern that         *)
(* declares the array also binds its two elements, by copy, before pipe2   *)
(* runs.  Calls follow one another, in a process with room for Limit       *)
(* descriptors.                                                            *)
(***************************************************************************)
EXTENDS Integers, FiniteSets

CONSTANT Limit  (* RLIMIT_NOFILE; a bound of the model. *)

Fd == 0 .. Limit - 1
None == -1

VARIABLES
  pc,        (* "call", "pipe2", "match" or "done".                     *)
  fds,       (* The array pipe2 writes: the read end, the write end.    *)
  receiver,  (* The first binding of the pattern.                       *)
  sender,    (* The second binding.                                     *)
  open,      (* The descriptors the process has open.                   *)
  owned,     (* Those some OwnedFd of a returned channel would close.   *)
  result     (* Of the last call: "none", "os_error", "EBADF" or "ok".  *)

vars == <<pc, fds, receiver, sender, open, owned, result>>

Init ==
  /\ pc = "call"
  /\ fds = <<None, None>> /\ receiver = None /\ sender = None
  /\ open = {} /\ owned = {}
  /\ result = "none"

(* let mut fds @ [receiver, sender] = [-1; 2] *)
Bind ==
  /\ pc = "call"
  /\ fds' = <<None, None>>
  /\ receiver' = fds'[1]
  /\ sender' = fds'[2]
  /\ pc' = "pipe2"
  /\ UNCHANGED <<open, owned, result>>

(* pipe2 opens two descriptors and writes them to the array, or fails. *)
Pipe2Ok ==
  /\ pc = "pipe2"
  /\ \E r, w \in Fd \ open :
       /\ r < w
       /\ fds' = <<r, w>>
       /\ open' = open \cup {r, w}
  /\ pc' = "match"
  /\ UNCHANGED <<receiver, sender, owned, result>>

Pipe2Fails ==
  /\ pc = "pipe2"
  /\ Cardinality(Fd \ open) < 2
  /\ result' = "os_error"
  /\ pc' = "done"
  /\ UNCHANGED <<fds, receiver, sender, open, owned>>

(* match [sender, receiver] *)
MatchNone ==
  /\ pc = "match"
  /\ None \in {sender, receiver}
  /\ result' = "EBADF"
  /\ pc' = "done"
  /\ UNCHANGED <<fds, receiver, sender, open, owned>>

MatchSome ==
  /\ pc = "match"
  /\ None \notin {sender, receiver}
  /\ owned' = owned \cup {sender, receiver}
  /\ result' = "ok"
  /\ pc' = "done"
  /\ UNCHANGED <<fds, receiver, sender, open>>

CallAgain ==
  /\ pc = "done"
  /\ pc' = "call"
  /\ UNCHANGED <<fds, receiver, sender, open, owned, result>>

Next == Bind \/ Pipe2Ok \/ Pipe2Fails \/ MatchNone \/ MatchSome \/ CallAgain

Spec == Init /\ [][Next]_vars

-----------------------------------------------------------------------------
(* The arm that answers EBADF is there "Just in case libc is fucked"        *)
(* (channel.rs): it is taken only when pipe2 wrote no descriptor.           *)
BadDescriptorsOnlyFromLibc ==
  result = "EBADF" /\ pc = "done" => None \in {fds[1], fds[2]}
=============================================================================
