------------------------------- MODULE Errno -------------------------------
(***************************************************************************)
(* Showing an error number (crates/platform-linux/src/errno.rs): libc      *)
(* writes its message into a buffer on the stack, and where that is not    *)
(* UTF-8 it is copied into a second one, with a replacement character for  *)
(* every malformed part.                                                   *)
(***************************************************************************)
EXTENDS Naturals, Sequences, SequencesExt

CONSTANTS
  Size,      (* Bytes in each of the two buffers; 512 in the code.          *)
  Letters,   (* The bytes of a message that are UTF-8.                      *)
  Messages   (* The messages of error numbers, "bad" for a malformed part.  *)

ASSUME ErrnoAssumption ==
  /\ Size \in Nat \ {0}
  /\ Letters \cap {"bad", "nul", "uninit", "sub"} = {}
  /\ Messages \subseteq Seq(Letters \cup {"bad"})

VARIABLES
  pc,       (* Where format_message is.                                     *)
  message,  (* The message of the number.                                   *)
  said,     (* What strerror_r said of this call, "none" before.            *)
  errno,    (* The cell of Errno::location, of this thread.                 *)
  buffer,   (* The buffer of write_message.                                 *)
  rest,     (* What the chunks still have.                                  *)
  scratch,  (* The scratch buffer.                                          *)
  index,    (* How much of it is written.                                   *)
  result,   (* What format_message answers: "Ok" or an error.               *)
  shown     (* What format was called with.                                 *)

vars == <<pc, message, said, errno, buffer, rest, scratch, index, result, shown>>

Errors == {"ERANGE", "EINVAL", "EBADF"}
Bytes == Letters \cup {"bad", "nul", "uninit", "sub"}
Uninit == [i \in 1 .. Size |-> "uninit"]
Replacement == <<"sub", "sub", "sub">>   (* U+FFFD takes three bytes. *)

Init ==
  /\ pc = "idle"
  /\ message = <<>> /\ rest = <<>> /\ shown = <<>>
  /\ said = "none" /\ errno = "EBADF" /\ result = "none"
  /\ buffer = Uninit /\ scratch = Uninit
  /\ index = 0

-----------------------------------------------------------------------------
(* Another call of this thread into libc fails. *)
OtherCall ==
  /\ pc = "idle"
  /\ errno' \in Errors
  /\ UNCHANGED <<pc, message, said, buffer, rest, scratch, index, result, shown>>

(* Display and Debug, with_buffer: two arrays, none of their bytes written. *)
Call ==
  /\ pc = "idle"
  /\ pc' = "fill"
  /\ message' \in Messages
  /\ UNCHANGED <<said, errno, buffer, rest, scratch, index, result, shown>>

(* What Fill must not do: write the terminator alone. *)
FillFirst ==
  /\ pc = "fill"
  /\ buffer' = [buffer EXCEPT ![1] = "nul"]
  /\ pc' = "strerror"
  /\ UNCHANGED <<message, said, errno, rest, scratch, index, result, shown>>

(* write_message, before strerror_r *)
Fill ==
  /\ pc = "fill"
  /\ buffer' = [i \in 1 .. Size |-> "nul"]
  /\ pc' = "strerror"
  /\ UNCHANGED <<message, said, errno, rest, scratch, index, result, shown>>

(* strerror_r writes as much as fits, and a terminator. *)
Written ==
  [i \in 1 .. Size |-> IF i <= Len(message) /\ i < Size THEN message[i]
                       ELSE IF i <= Len(message) + 1 THEN "nul"
                       ELSE buffer[i]]

StrerrorOk ==
  /\ pc = "strerror" /\ Len(message) < Size
  /\ buffer' = Written
  /\ said' = "Ok"
  /\ pc' = "chunks"
  /\ UNCHANGED <<message, errno, rest, scratch, index, result, shown>>

(* The message does not fit, or the number is unknown.  Most versions      *)
(* return the error; older ones return -1, and the error in errno.         *)
StrerrorSays(e, returned) ==
  /\ pc = "strerror"
  /\ e = IF Len(message) < Size THEN "EINVAL" ELSE "ERANGE"
  /\ buffer' = Written
  /\ said' = e
  /\ errno' = IF returned THEN errno ELSE e

(* What StrerrorFails must not do: take every error from errno. *)
StrerrorFailsByErrno ==
  \E e \in Errors, returned \in BOOLEAN :
    /\ StrerrorSays(e, returned)
    /\ result' = errno'
    /\ pc' = "done"
    /\ UNCHANGED <<message, rest, scratch, index, shown>>

(* write_message, after strerror_r: Errno::last() where that returned -1. *)
StrerrorFails ==
  \E e \in Errors, returned \in BOOLEAN :
    /\ StrerrorSays(e, returned)
    /\ result' = IF returned THEN e ELSE errno'
    /\ pc' = "done"
    /\ UNCHANGED <<message, rest, scratch, index, shown>>

-----------------------------------------------------------------------------
(* CStr::count_bytes *)
CountBytes == CHOOSE n \in 0 .. Size : n + 1 \in {i \in 1 .. Size : buffer[i] = "nul"}
                                      /\ \A i \in 1 .. n : buffer[i] # "nul"

Answer(string) ==
  /\ shown' = string
  /\ result' = "Ok"
  /\ pc' = "done"

(* The first chunk: all of a message that is UTF-8 is shown in place. *)
Chunks ==
  /\ pc = "chunks"
  /\ LET bytes == SubSeq(buffer, 1, CountBytes) IN
       IF "bad" \notin {bytes[i] : i \in 1 .. Len(bytes)}
       THEN Answer(bytes) /\ UNCHANGED rest
       ELSE pc' = "valid" /\ rest' = bytes /\ UNCHANGED <<result, shown>>
  /\ UNCHANGED <<message, said, errno, buffer, scratch, index>>

(* How many bytes of a chunk are valid: those before its malformed part. *)
IsValid(n) ==
  /\ \A i \in 1 .. n : rest[i] # "bad"
  /\ n < Len(rest) => rest[n + 1] = "bad"

(* scratch.get_mut(index..index + n)?.write_copy_of_slice(bytes) *)
Write(bytes) ==
  /\ scratch' = [i \in 1 .. Size |->
                   IF i \in (index + 1) .. (index + Len(bytes)) THEN bytes[i - index]
                   ELSE scratch[i]]
  /\ index' = index + Len(bytes)

(* The ? operator, for a slice that is out of bounds. *)
OutOfRange ==
  /\ result' = "ERANGE"
  /\ pc' = "done"
  /\ UNCHANGED <<scratch, index, rest>>

(* What is valid in the chunk is copied; its malformed part comes next. *)
WriteValid ==
  /\ pc = "valid"
  /\ \E n \in 0 .. Len(rest) :
       /\ IsValid(n)
       /\ IF index + n > Size THEN OutOfRange
          ELSE /\ Write(SubSeq(rest, 1, n))
               /\ rest' = SubSeq(rest, n + 1, Len(rest))
               /\ pc' = IF n = Len(rest) THEN "finish" ELSE "substitute"
               /\ UNCHANGED result
  /\ UNCHANGED <<message, said, errno, buffer, shown>>

(* What Substitute must not do: look for room for one byte. *)
SubstituteOne ==
  /\ pc = "substitute"
  /\ IF index + 1 > Size THEN OutOfRange
     ELSE /\ Write(Replacement)
          /\ rest' = Tail(rest)
          /\ pc' = IF Tail(rest) = <<>> THEN "finish" ELSE "valid"
          /\ UNCHANGED result
  /\ UNCHANGED <<message, said, errno, buffer, shown>>

(* A replacement for the malformed part, and on to the next chunk. *)
Substitute ==
  /\ pc = "substitute"
  /\ IF index + Len(Replacement) > Size THEN OutOfRange
     ELSE /\ Write(Replacement)
          /\ rest' = Tail(rest)
          /\ pc' = IF Tail(rest) = <<>> THEN "finish" ELSE "valid"
          /\ UNCHANGED result
  /\ UNCHANGED <<message, said, errno, buffer, shown>>

(* assume_init_ref and from_utf8_unchecked of what is written. *)
Finish ==
  /\ pc = "finish"
  /\ Answer(SubSeq(scratch, 1, index))
  /\ UNCHANGED <<message, said, errno, buffer, rest, scratch, index>>

(* The caller has its answer, and the two arrays are gone. *)
Return ==
  /\ pc = "done"
  /\ pc' = "idle"
  /\ message' = <<>> /\ rest' = <<>> /\ shown' = <<>>
  /\ said' = "none" /\ result' = "none"
  /\ buffer' = Uninit /\ scratch' = Uninit
  /\ index' = 0
  /\ UNCHANGED errno

Next ==
  \/ OtherCall \/ Call \/ Return
  \/ Fill \/ StrerrorOk \/ StrerrorFails
  \/ Chunks \/ WriteValid \/ Substitute \/ Finish

Spec == Init /\ [][Next]_vars

-----------------------------------------------------------------------------
(* In particular index, and so every write, stays within the buffer. *)
TypeOK ==
  /\ pc \in {"idle", "fill", "strerror", "chunks", "valid", "substitute", "finish",
             "done"}
  /\ message \in Messages \cup {<<>>}
  /\ rest \in Seq(Bytes) /\ shown \in Seq(Bytes)
  /\ errno \in Errors
  /\ said \in Errors \cup {"none", "Ok"} /\ result \in Errors \cup {"none", "Ok"}
  /\ buffer \in [1 .. Size -> Bytes] /\ scratch \in [1 .. Size -> Bytes]
  /\ index \in 0 .. Size

(* Every byte that is taken for written was (assume_init_mut of the buffer *)
(* and of the message in it, assume_init_ref of the scratch buffer), and   *)
(* what is taken for UTF-8 has no malformed part.                          *)
OnlyInitialised ==
  /\ pc \notin {"idle", "fill"} => \A i \in 1 .. Size : buffer[i] # "uninit"
  /\ \A i \in 1 .. index : scratch[i] \in Letters \cup {"sub"}

(* The message with a replacement for every malformed part. *)
Lossy(string) ==
  FlattenSeq([i \in 1 .. Len(string) |->
                IF string[i] = "bad" THEN Replacement ELSE <<string[i]>>])

(* What format_message promises: the whole message is shown, made UTF-8;   *)
(* the error is the one that strerror_r reported in this call, whatever    *)
(* errno held before, or ERANGE, exactly where the text does not fit.      *)
WholeOrError ==
  /\ result = "Ok" => said = "Ok" /\ shown = Lossy(message)
  /\ result \in Errors =>
       \/ said = result
       \/ said = "Ok" /\ result = "ERANGE" /\ Len(Lossy(message)) > Size
=============================================================================
