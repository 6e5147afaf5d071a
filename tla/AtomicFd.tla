------------------------------ MODULE AtomicFd ------------------------------
(***************************************************************************)
(* AtomicFd (crates/platform-linux/src/atomic_fd.rs): one word that holds  *)
(* the bits of an Option<OwnedFd>, -1 for None, shared by threads that     *)
(* swap descriptors in and out of it, look at it, and drop what they got.  *)
(* The kernel's table gives a number that was closed to the next           *)
(* descriptor, so a number says nothing of what it stands for: each        *)
(* opening of a number gets a token of its own.                            *)
(***************************************************************************)
EXTENDS Integers

CONSTANTS
  Threads,  (* The threads that share the AtomicFd.                         *)
  Tokens,   (* Identities of openings; one is reused only once it is closed *)
            (* and nobody remembers it.                                     *)
  NoToken,  (* Of a number that is not open.                                *)
  Limit     (* RLIMIT_NOFILE: the numbers are those below it.               *)

Numbers == 0 .. Limit - 1
None == -1
Bits == Numbers \cup {None}

(* Mutant: F_DUPFD_CLOEXEC is given 0. *)
FirstOfAll == 0

(* F_DUPFD_CLOEXEC is given 3 as the least number it may return. *)
FirstAboveStdio == 3

ASSUME AtomicFdAssumption ==
  /\ NoToken \notin Tokens
  /\ Limit \in Nat

VARIABLES
  table,   (* The kernel's table: the token of each number.               *)
  alive,   (* Whether there is an AtomicFd now.                           *)
  fd,      (* Its bits; None when there is none.                          *)
  owned,   (* The Option<OwnedFd> each thread holds, as bits.             *)
  loaded,  (* The bits each thread borrowed from the AtomicFd.            *)
  lent,    (* The token those bits stood for when they were loaded.       *)
  dups     (* The tokens made by AtomicFd::try_from(BorrowedFd).          *)

vars == <<table, alive, fd, owned, loaded, lent, dups>>

Init ==
  /\ table = [n \in Numbers |-> NoToken]
  /\ alive = FALSE
  /\ fd = None
  /\ owned = [t \in Threads |-> None]
  /\ loaded = [t \in Threads |-> None]
  /\ lent = [t \in Threads |-> NoToken]
  /\ dups = {}

-----------------------------------------------------------------------------
TokenOf(bits) == IF bits = None THEN NoToken ELSE table[bits]

Free == {n \in Numbers : table[n] = NoToken}

Unused ==
  {k \in Tokens : /\ \A n \in Numbers : table[n] # k
                  /\ \A t \in Threads : lent[t] # k}

(* The kernel gives out the least free number that is at least min. *)
Opens(min, n, k) ==
  /\ n \in Free
  /\ n >= min
  /\ \A m \in Free : m >= min => n <= m
  /\ k \in Unused
  /\ table' = [table EXCEPT ![n] = k]

Closed(bits) ==
  IF bits = None THEN table ELSE [table EXCEPT ![bits] = NoToken]

(* The contract of load_borrowed: bits are not closed while a borrow of    *)
(* them lasts.  What a thread may not close, it keeps.                     *)
Lent(bits) == bits # None /\ \E t \in Threads : loaded[t] = bits

(* A thread gets an OwnedFd from elsewhere: open(), pipe2(), ... *)
Open(t) ==
  /\ owned[t] = None
  /\ \E n \in Numbers, k \in Tokens :
       /\ Opens(0, n, k)
       /\ owned' = [owned EXCEPT ![t] = n]
  /\ UNCHANGED <<alive, fd, loaded, lent, dups>>

(* drop(Option<OwnedFd>) by the thread that holds it. *)
Close(t) ==
  /\ owned[t] # None
  /\ ~Lent(owned[t])
  /\ table' = Closed(owned[t])
  /\ owned' = [owned EXCEPT ![t] = None]
  /\ dups' = dups \ {TokenOf(owned[t])}
  /\ UNCHANGED <<alive, fd, loaded, lent>>

(* Mutant: the new bits are stored and the old ones forgotten. *)
SwapByStore(t) ==
  /\ alive
  /\ fd' = owned[t]
  /\ owned' = [owned EXCEPT ![t] = None]
  /\ UNCHANGED <<table, alive, loaded, lent, dups>>

(* Mutant: swap closes what it replaces. *)
SwapCloses(t) ==
  /\ alive
  /\ table' = Closed(fd)
  /\ fd' = owned[t]
  /\ owned' = [owned EXCEPT ![t] = None]
  /\ dups' = dups \ {TokenOf(fd)}
  /\ UNCHANGED <<alive, loaded, lent>>

(* AtomicFd::swap: the bits are exchanged, in one atomic operation. *)
Swap(t) ==
  /\ alive
  /\ fd' = owned[t]
  /\ owned' = [owned EXCEPT ![t] = fd]
  /\ UNCHANGED <<table, alive, loaded, lent, dups>>

(* AtomicFd::load_borrowed. *)
Load(t) ==
  /\ alive
  /\ loaded[t] = None
  /\ loaded' = [loaded EXCEPT ![t] = fd]
  /\ lent' = [lent EXCEPT ![t] = TokenOf(fd)]
  /\ UNCHANGED <<table, alive, fd, owned, dups>>

EndBorrow(t) ==
  /\ loaded[t] # None
  /\ loaded' = [loaded EXCEPT ![t] = None]
  /\ lent' = [lent EXCEPT ![t] = NoToken]
  /\ UNCHANGED <<table, alive, fd, owned, dups>>

(* AtomicFd::try_from(BorrowedFd), then into_inner(): a duplicate of what  *)
(* the thread borrows.  It fails, and changes nothing, when no number      *)
(* above those of stdio is free.                                           *)
Duplicate(t) ==
  /\ loaded[t] # None
  /\ owned[t] = None
  /\ \E n \in Numbers, k \in Tokens :
       /\ Opens(FirstAboveStdio, n, k)
       /\ owned' = [owned EXCEPT ![t] = n]
       /\ dups' = dups \cup {k}
  /\ UNCHANGED <<alive, fd, loaded, lent>>

(* Mutant: new() copies the bits of a descriptor it does not consume. *)
NewCopies(t) ==
  /\ ~alive
  /\ alive' = TRUE
  /\ fd' = owned[t]
  /\ UNCHANGED <<table, owned, loaded, lent, dups>>

(* AtomicFd::new, and From<OwnedFd>, From<Option<OwnedFd>>, from_raw_fd. *)
New(t) ==
  /\ ~alive
  /\ alive' = TRUE
  /\ fd' = owned[t]
  /\ owned' = [owned EXCEPT ![t] = None]
  /\ UNCHANGED <<table, loaded, lent, dups>>

(* AtomicFd::into_inner, and into_raw_fd: the AtomicFd is consumed. *)
IntoInner(t) ==
  /\ alive
  /\ owned[t] = None
  /\ alive' = FALSE
  /\ owned' = [owned EXCEPT ![t] = fd]
  /\ fd' = None
  /\ UNCHANGED <<table, loaded, lent, dups>>

(* AtomicFd::drop, that closes what get_mut().take() finds. *)
Drop ==
  /\ alive
  /\ ~Lent(fd)
  /\ alive' = FALSE
  /\ table' = Closed(fd)
  /\ fd' = None
  /\ dups' = dups \ {TokenOf(fd)}
  /\ UNCHANGED <<owned, loaded, lent>>

Next ==
  \/ \E t \in Threads : Open(t) \/ Close(t) \/ Swap(t)
  \/ \E t \in Threads : Load(t) \/ EndBorrow(t) \/ Duplicate(t)
  \/ \E t \in Threads : New(t) \/ IntoInner(t)
  \/ Drop

Spec == Init /\ [][Next]_vars

-----------------------------------------------------------------------------
(* Shapes of the state. *)
TypeOK ==
  /\ table \in [Numbers -> Tokens \cup {NoToken}]
  /\ alive \in BOOLEAN
  /\ fd \in IF alive THEN Bits ELSE {None}
  /\ owned \in [Threads -> Bits]
  /\ loaded \in [Threads -> Bits]
  /\ lent \in [Threads -> Tokens \cup {NoToken}]
  /\ dups \subseteq Tokens

(* Two owners never hold the same number: nothing is closed twice. *)
OwnedOnce ==
  /\ \A t \in Threads : owned[t] # None => owned[t] # fd
  /\ \A t, u \in Threads : owned[t] = owned[u] /\ owned[t] # None => t = u

(* The numbers that are open are exactly those somebody will close. *)
OwnedIffOpen ==
  \A n \in Numbers :
    table[n] # NoToken <=> n = fd \/ \E t \in Threads : owned[t] = n

(* Two numbers never have the same token. *)
TokensDistinct ==
  \A m, n \in Numbers : table[m] = table[n] /\ table[m] # NoToken => m = n

(* What a thread borrowed still is what it was when it was loaded, however *)
(* the bits were swapped about since and whatever numbers were reused.     *)
BorrowsValid ==
  \A t \in Threads :
    /\ TokenOf(loaded[t]) = lent[t]
    /\ loaded[t] # None => lent[t] # NoToken

(* A duplicate never takes a number of stdio, even when it is free. *)
Stdio == {0, 1, 2}

DupsAboveStdio ==
  \A k \in dups : \E n \in Numbers \ Stdio : table[n] = k

(* The inductive invariant. *)
Inv ==
  /\ TypeOK
  /\ OwnedOnce
  /\ OwnedIffOpen
  /\ TokensDistinct
  /\ BorrowsValid
  /\ DupsAboveStdio

(* An AtomicFd is "equivalent" to an atomic Option<OwnedFd>. *)
Option == INSTANCE AtomicOption
            WITH Resources <- Tokens, Nothing <- NoToken,
                 slot <- TokenOf(fd),
                 held <- [t \in Threads |-> TokenOf(owned[t])]

ImplementsOption == Option!Spec
=============================================================================
