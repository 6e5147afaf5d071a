---------------------------- MODULE KernelCalls ----------------------------
(***************************************************************************)
(* Threads that ask for the page size and work on DMA buffers.  The two    *)
(* meet in the errno of each thread, which one call leaves to the next.    *)
(***************************************************************************)
EXTENDS PageSize, DmaBuf

vars == <<errnoVars, pageVars, dmaVars>>

Init == ErrnoInit /\ PageInit /\ DmaInit

Next ==
  \/ \E t \in Threads : PageStep(t) /\ UNCHANGED dmaVars
  \/ DmaStep /\ UNCHANGED pageVars

Spec == Init /\ [][Next]_vars

-----------------------------------------------------------------------------
Steps == {"idle", "sysconf", "negative", "convert", "store", "exported", "failed"}

AllErrors == OsErrors \cup {NoError, InvalidData, EBADF}

TypeOK ==
  /\ at \in [Threads -> Steps]
  /\ errno \in [Threads -> OsErrors]
  /\ failed \in [Threads -> AllErrors]
  /\ error \in [Threads -> AllErrors]
  /\ PageTypeOK
  /\ DmaTypeOK

(* Every call answers what happened in it: Ok if nothing went wrong, and   *)
(* otherwise the error of this very call, whatever failed before it, or in *)
(* another thread since.                                                   *)
AnswersAreOwn ==
  \A t \in Threads : at[t] = "idle" => error[t] = failed[t]

(* What makes it so: errno keeps the error until its thread has read it.   *)
ErrnoKept ==
  \A t \in Threads :
    /\ at[t] \in {"negative", "failed"} => failed[t] = errno[t]
    /\ at[t] = "exported" => failed[t] = (IF payload[t] = NoFile THEN EBADF ELSE NoError)
    /\ at[t] = "store" => failed[t] = NoError /\ system \in Aligns

(* The inductive invariant. *)
Inv ==
  /\ TypeOK
  /\ AnswersAreOwn
  /\ ErrnoKept
  /\ PageSizeAgreed
  /\ FilesOwnedOnce
=============================================================================
