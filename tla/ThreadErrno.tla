---------------------------- MODULE ThreadErrno ----------------------------
(***************************************************************************)
(* Threads that call into libc, each with an errno of its own              *)
(* (crates/platform-linux/src/errno.rs).  A call that fails leaves its     *)
(* error there; the caller looks for it in a step of its own.              *)
(***************************************************************************)
EXTENDS Naturals

CONSTANTS
  Threads,   (* The threads that make calls.                                *)
  OsErrors,  (* The values of errno.                                        *)
  NoError    (* Of a call that answered Ok.                                 *)

ASSUME ErrorsAssumption == NoError \notin OsErrors

VARIABLES
  at,      (* Where in a call each thread is, or "idle".                    *)
  errno,   (* The Errno in each thread's Errno::location().                 *)
  failed,  (* History: what went wrong in each thread's last call.          *)
  error    (* The error that call answered.                                 *)

errnoVars == <<at, errno, failed, error>>

ErrnoInit ==
  /\ at = [t \in Threads |-> "idle"]
  /\ errno \in [Threads -> OsErrors]
  /\ failed = [t \in Threads |-> NoError]
  /\ error = [t \in Threads |-> NoError]

(* What Last must not be: the errno of a thread that did not call. *)
LastElsewhere(t) == errno[CHOOSE u \in Threads : u # t]

(* Errno::last, and io::Error::last_os_error: nothing clears errno. *)
Last(t) == errno[t]

(* A call into libc fails. *)
Fails(t, e) ==
  /\ errno' = [errno EXCEPT ![t] = e]
  /\ failed' = [failed EXCEPT ![t] = e]

Succeeds(t) ==
  /\ failed' = [failed EXCEPT ![t] = NoError]
  /\ UNCHANGED errno

(* A function of gulf answers. *)
Return(t, e) ==
  /\ at' = [at EXCEPT ![t] = "idle"]
  /\ error' = [error EXCEPT ![t] = e]

Goto(t, step) ==
  /\ at' = [at EXCEPT ![t] = step]
  /\ UNCHANGED error
=============================================================================
