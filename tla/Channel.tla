------------------------------ MODULE Channel ------------------------------
(***************************************************************************)
(* The life of the pipe behind a PipeWire channel                          *)
(* (crates/capture-linux/src/pw/channel.rs): Sender and Receiver handles   *)
(* share an Arc<Channel>, whose two AtomicFd slots own the ends of the     *)
(* pipe.  A Sender that finds itself the last one, by the reference count  *)
(* and the receiver slot, closes the write end early so that the Receiver  *)
(* sees a hang-up.  Whatever is left is closed when the Arc is freed.      *)
(*                                                                         *)
(* A step is one atomic operation: a load, a swap, a change of the         *)
(* reference count, a close.                                               *)
(***************************************************************************)
EXTENDS Naturals, FiniteSets

CONSTANTS
  Senders,     (* Identities of Sender handles; a dropped one is reused.    *)
  First,       (* The Sender that channel() returns.                        *)
  Rx,          (* The Receiver: there is one, it cannot be cloned.          *)
  SenderFd,    (* The descriptor of the write end.                          *)
  ReceiverFd,  (* The descriptor of the read end.                           *)
  NoFd         (* An empty slot: None, the bits -1.                         *)

Procs == Senders \cup {Rx}
Fds == {SenderFd, ReceiverFd}

ASSUME ChannelAssumption ==
  /\ IsFiniteSet(Senders)
  /\ First \in Senders
  /\ Rx \notin Senders
  /\ SenderFd # ReceiverFd
  /\ NoFd \notin Fds

VARIABLES
  pc,        (* What each handle is doing, see Phases.                      *)
  strong,    (* The strong count of the Arc.                                *)
  sender,    (* Channel::sender, an AtomicFd.                               *)
  receiver,  (* Channel::receiver, an AtomicFd.                             *)
  hand,      (* The descriptor a handle has swapped out and not yet closed. *)
  open,      (* The ends of the pipe the kernel has open.                   *)
  aware,     (* The handles that have seen the receiver slot empty.         *)
  counts,    (* The counts each live Sender may still read: the ones the    *)
             (* Arc has had since its own last change of it.                *)
  misled,    (* History: did a Sender::drop go by an old receiver slot?     *)
  miscounted,(* History: did an old count lead a Sender::drop to an arm the *)
             (* latest one would not have?                                  *)
  overlapped (* History: were two Sender::drop ever in progress at once?    *)

vars == <<pc, strong, sender, receiver, hand, open, aware, counts, misled,
          miscounted, overlapped>>

(***************************************************************************)
(* A handle is absent, or live (usable by its owner), or in its drop:      *)
(*   check         read two references, about to look for a receiver       *)
(*   swap          about to take the write end out of its slot             *)
(*   close         about to close the descriptor it took                   *)
(*   release       about to give up its reference                          *)
(*   freeSender    gave up the last reference: dropping Channel::sender    *)
(*   freeReceiver  and then Channel::receiver                              *)
(* or it ran into an unreachable_unchecked!().                             *)
(***************************************************************************)
Referring == {"live", "check", "swap", "close", "release", "undefined"}
Freeing == {"freeSender", "freeReceiver"}
Phases == Referring \cup Freeing \cup {"absent"}

(* What the two handles that channel() returns start from. *)
Init ==
  /\ pc = [p \in Procs |-> IF p \in {First, Rx} THEN "live" ELSE "absent"]
  /\ strong = 2
  /\ sender = SenderFd
  /\ receiver = ReceiverFd
  /\ hand = [p \in Procs |-> NoFd]
  /\ open = Fds
  /\ aware = {}
  /\ counts = [h \in Senders |-> IF h = First THEN {2} ELSE {}]
  /\ misled = FALSE
  /\ miscounted = FALSE
  /\ overlapped = FALSE

(* Mutant: is_none() for is_some(). *)
HasNoReceiver(h) == {receiver = NoFd}

(* What has_receiver() may return to h.  Nothing orders the load after the *)
(* Receiver's swap (the strong_count before it is Relaxed), so it may see  *)
(* the slot as it was, unless the handle has seen it empty.                *)
HasReceiver(h) ==
  IF receiver = NoFd /\ h \notin aware
  THEN BOOLEAN
  ELSE {receiver # NoFd}

(* The counts each live Sender may read once the count has become `latest`. *)
CountsWith(latest) ==
  [g \in Senders |-> IF pc[g] = "live" THEN counts[g] \cup {latest} ELSE {}]

-----------------------------------------------------------------------------
(* Sender::clone.  The clone knows what the handle it comes from knows. *)
Clone(h, c) ==
  /\ pc[h] = "live"
  /\ pc[c] = "absent"
  /\ pc' = [pc EXCEPT ![c] = "live"]
  /\ strong' = strong + 1
  /\ aware' = IF h \in aware THEN aware \cup {c} ELSE aware \ {c}
  /\ counts' = [CountsWith(strong + 1) EXCEPT ![h] = {strong + 1}, ![c] = {strong + 1}]
  /\ UNCHANGED <<sender, receiver, hand, open, misled, miscounted, overlapped>>

(* The owner of h asks has_receiver(). *)
AskReceiver(h) ==
  /\ pc[h] = "live"
  /\ \E answer \in HasReceiver(h) :
       aware' = IF answer THEN aware ELSE aware \cup {h}
  /\ UNCHANGED <<pc, strong, sender, receiver, hand, open,
                 counts, misled, miscounted, overlapped>>

(* AsFd: the slot of a live handle is assumed not to be empty. *)
AsFd(p, slot) ==
  /\ pc[p] = "live"
  /\ pc' = [pc EXCEPT ![p] = IF slot = NoFd THEN "undefined" ELSE "live"]
  /\ UNCHANGED <<strong, sender, receiver, hand, open, aware,
                 counts, misled, miscounted, overlapped>>

SenderAsFd(h) == AsFd(h, sender)
ReceiverAsFd == AsFd(Rx, receiver)

-----------------------------------------------------------------------------
(* Mutant: the arm for two references taken for three as well. *)
DropBranchOffByOne(count) ==
  CASE count = 0 -> "undefined"
    [] count = 1 -> "swap"
    [] count \in {2, 3} -> "check"
    [] OTHER -> "release"

(* Mutant: the arm for two references without its guard. *)
DropBranchUnguarded(count) ==
  CASE count = 0 -> "undefined"
    [] count \in {1, 2} -> "swap"
    [] OTHER -> "release"

(* Mutant: no arm for two references. *)
DropBranchOnlyLast(count) ==
  CASE count = 0 -> "undefined"
    [] count = 1 -> "swap"
    [] OTHER -> "release"

(* Sender::drop: the match on what Arc::strong_count returned. *)
DropBranch(count) ==
  CASE count = 0 -> "undefined"
    [] count = 1 -> "swap"
    [] count = 2 -> "check"
    [] OTHER -> "release"

Dropping(p) == pc[p] \notin {"absent", "live"}

(* Arc::strong_count is a Relaxed load: any count h may still read. *)
DropSender(h) ==
  /\ pc[h] = "live"
  /\ \E count \in counts[h] :
       /\ pc' = [pc EXCEPT ![h] = DropBranch(count)]
       /\ miscounted' = (miscounted \/ DropBranch(count) # DropBranch(strong))
  /\ counts' = [counts EXCEPT ![h] = {}]
  /\ overlapped' = (overlapped \/ \E g \in Senders : Dropping(g))
  /\ UNCHANGED <<strong, sender, receiver, hand, open, aware, misled>>

(* The guard `if self.has_receiver()` of the arm for two references. *)
CheckReceiver(h) ==
  /\ pc[h] = "check"
  /\ \E answer \in HasReceiver(h) :
       /\ pc' = [pc EXCEPT ![h] = IF answer THEN "swap" ELSE "release"]
       /\ misled' = (misled \/ answer # (receiver # NoFd))
  /\ UNCHANGED <<strong, sender, receiver, hand, open, aware,
                 counts, miscounted, overlapped>>

(* Mutant: the descriptor is read out of its slot, which keeps it. *)
SwapSenderByLoad(h) ==
  /\ pc[h] = "swap"
  /\ pc' = [pc EXCEPT ![h] = "close"]
  /\ hand' = [hand EXCEPT ![h] = sender]
  /\ UNCHANGED <<strong, sender, receiver, open, aware,
                 counts, misled, miscounted, overlapped>>

SwapSender(h) ==
  /\ pc[h] = "swap"
  /\ pc' = [pc EXCEPT ![h] = "close"]
  /\ hand' = [hand EXCEPT ![h] = sender]
  /\ sender' = NoFd
  /\ UNCHANGED <<strong, receiver, open, aware,
                 counts, misled, miscounted, overlapped>>

(* Receiver::drop. *)
DropReceiver ==
  /\ pc[Rx] = "live"
  /\ pc' = [pc EXCEPT ![Rx] = "close"]
  /\ hand' = [hand EXCEPT ![Rx] = receiver]
  /\ receiver' = NoFd
  /\ UNCHANGED <<strong, sender, open, aware,
                 counts, misled, miscounted, overlapped>>

(* drop(Option<OwnedFd>) of what the swap returned. *)
CloseHand(p) ==
  /\ pc[p] = "close"
  /\ pc' = [pc EXCEPT ![p] = "release"]
  /\ open' = open \ {hand[p]}
  /\ hand' = [hand EXCEPT ![p] = NoFd]
  /\ UNCHANGED <<strong, sender, receiver, aware,
                 counts, misled, miscounted, overlapped>>

(* Mutant: the Channel is freed with one reference left. *)
ReleaseTooEarly(p) ==
  /\ pc[p] = "release"
  /\ strong' = strong - 1
  /\ pc' = [pc EXCEPT ![p] = IF strong = 2 THEN "freeSender" ELSE "absent"]
  /\ counts' = CountsWith(strong - 1)
  /\ UNCHANGED <<sender, receiver, hand, open, aware, misled, miscounted, overlapped>>

(* The Arc field is dropped after Drop::drop returns. *)
Release(p) ==
  /\ pc[p] = "release"
  /\ strong' = strong - 1
  /\ pc' = [pc EXCEPT ![p] = IF strong = 1 THEN "freeSender" ELSE "absent"]
  /\ counts' = CountsWith(strong - 1)
  /\ UNCHANGED <<sender, receiver, hand, open, aware, misled, miscounted, overlapped>>

(* Mutant: into_raw_fd() for the drop of Channel::sender. *)
FreeSenderLeaks(p) ==
  /\ pc[p] = "freeSender"
  /\ pc' = [pc EXCEPT ![p] = "freeReceiver"]
  /\ sender' = NoFd
  /\ UNCHANGED <<strong, receiver, hand, open, aware,
                 counts, misled, miscounted, overlapped>>

(* AtomicFd::drop of each field of the Channel, in declaration order. *)
FreeSender(p) ==
  /\ pc[p] = "freeSender"
  /\ pc' = [pc EXCEPT ![p] = "freeReceiver"]
  /\ open' = open \ {sender}
  /\ sender' = NoFd
  /\ UNCHANGED <<strong, receiver, hand, aware,
                 counts, misled, miscounted, overlapped>>

FreeReceiver(p) ==
  /\ pc[p] = "freeReceiver"
  /\ pc' = [pc EXCEPT ![p] = "absent"]
  /\ open' = open \ {receiver}
  /\ receiver' = NoFd
  /\ UNCHANGED <<strong, sender, hand, aware,
                 counts, misled, miscounted, overlapped>>

(* Every handle is gone. *)
Terminated ==
  /\ \A p \in Procs : pc[p] \in {"absent", "undefined"}
  /\ UNCHANGED vars

-----------------------------------------------------------------------------
(* The rest of a drop once it has begun: nothing in it waits. *)
Progress(p) ==
  \/ p \in Senders /\ CheckReceiver(p)
  \/ p \in Senders /\ SwapSender(p)
  \/ CloseHand(p)
  \/ Release(p)
  \/ FreeSender(p)
  \/ FreeReceiver(p)

Next ==
  \/ \E h, c \in Senders : Clone(h, c)
  \/ \E h \in Senders : AskReceiver(h) \/ SenderAsFd(h) \/ DropSender(h)
  \/ ReceiverAsFd
  \/ DropReceiver
  \/ \E p \in Procs : Progress(p)
  \/ Terminated

Spec == Init /\ [][Next]_vars

(* A thread that is dropping a handle keeps running. *)
Fairness == \A p \in Procs : WF_vars(Progress(p))

FairSpec == Spec /\ Fairness

-----------------------------------------------------------------------------
LiveSenders == {h \in Senders : pc[h] = "live"}

(* Shapes of the state. *)
TypeOK ==
  /\ pc \in [Procs -> Phases]
  /\ strong \in Nat
  /\ sender \in {SenderFd, NoFd}
  /\ receiver \in {ReceiverFd, NoFd}
  /\ hand \in [Procs -> Fds \cup {NoFd}]
  /\ open \subseteq Fds
  /\ aware \subseteq Senders
  /\ counts \in [Senders -> SUBSET Nat]
  /\ misled \in BOOLEAN
  /\ miscounted \in BOOLEAN
  /\ overlapped \in BOOLEAN

(* The handles that hold a reference on the Arc. *)
Referrers == {p \in Procs : pc[p] \in Referring}

(* The count is exact, so no reference outlives the Channel and the last   *)
(* one frees it: what every arm of Sender::drop reasons from.              *)
CountExact == strong = Cardinality(Referrers)

(* h is the only Sender that holds a reference. *)
Alone(h) == Referrers \cap Senders = {h}

(* What a Sender may conclude from any count it can still read, latest or   *)
(* old: it is counted itself; from one, that it is the last handle; from    *)
(* two, that there is no other Sender, or no Receiver.                      *)
CountsTell ==
  \A h \in LiveSenders :
    /\ strong \in counts[h]
    /\ 0 \notin counts[h]
    /\ 1 \in counts[h] => Referrers = {h}
    /\ 2 \in counts[h] => Alone(h) \/ Rx \notin Referrers

(* The Channel is freed once, by one handle, when no reference is left. *)
FreedOnce ==
  \A p \in Procs : pc[p] \in Freeing =>
    /\ Referrers = {}
    /\ \A q \in Procs : pc[q] \in Freeing => q = p

(* The receiver slot is emptied by the Receiver's drop and by nothing else. *)
ReceiverSlotTells ==
  /\ pc[Rx] \notin {"check", "swap", "undefined"}
  /\ receiver = ReceiverFd <=> pc[Rx] = "live"

(* Each end of the pipe is in its slot, or in the hand of one handle about *)
(* to close it, or closed.                                                 *)
WriteEndPlaced ==
  /\ \A h \in Senders :
       /\ hand[h] # NoFd => hand[h] = SenderFd /\ pc[h] = "close"
       /\ hand[h] = SenderFd => sender = NoFd /\ SenderFd \in open
       /\ \A g \in Senders : hand[h] = SenderFd /\ hand[g] = SenderFd => g = h
  /\ sender = SenderFd => SenderFd \in open
  /\ SenderFd \in open => sender = SenderFd \/ \E h \in Senders : hand[h] = SenderFd

ReadEndPlaced ==
  /\ hand[Rx] # NoFd => hand[Rx] = ReceiverFd /\ pc[Rx] = "close"
  /\ hand[Rx] = ReceiverFd => receiver = NoFd /\ ReceiverFd \in open
  /\ receiver = ReceiverFd => ReceiverFd \in open
  /\ ReceiverFd \in open => receiver = ReceiverFd \/ hand[Rx] = ReceiverFd

(* The inductive invariant, however old the counts and slots that are read. *)
Inv ==
  /\ TypeOK
  /\ CountExact
  /\ CountsTell
  /\ FreedOnce
  /\ ReceiverSlotTells
  /\ WriteEndPlaced
  /\ ReadEndPlaced

(* A Sender that read two references is the only Sender, or there is no    *)
(* Receiver for its second look to find.                                   *)
CheckJustified ==
  \A h \in Senders : pc[h] = "check" => Alone(h) \/ Rx \notin Referrers

(* A Sender takes the write end only when no other Sender is left. *)
TakerAlone == \A h \in Senders : pc[h] = "swap" => Alone(h)

(* An empty sender slot means that no Sender will look into it again. *)
EmptyMeansDone ==
  sender = NoFd =>
    \A h \in Senders : pc[h] \notin {"live", "check", "swap"}

(* No unreachable_unchecked!() of as_fd or Sender::drop is reached, whatever *)
(* the interleaving of clones, drops and the Receiver's drop: what the       *)
(* comment in Sender::drop concludes.                                        *)
NoUndefined == \A p \in Procs : pc[p] # "undefined"

(* What holds of the last Sender until a drop goes by an old value of the  *)
(* receiver slot.                                                          *)
LastTakes ==
  /\ CheckJustified
  /\ TakerAlone
  /\ EmptyMeansDone
  /\ NoUndefined

(* The inductive invariant: until a drop is misled, a Sender takes the     *)
(* write end only as the last one, and no unreachable_unchecked!() is      *)
(* reached.                                                                *)
LatestInv == Inv /\ (~misled => LastTakes)

-----------------------------------------------------------------------------
(* A handle that can still be used finds its descriptor in its slot, and    *)
(* open: "While a writer exists, this must not be modified" (channel.rs).   *)
(* The Receiver's holds whatever the loads return; a Sender's until a drop  *)
(* is misled.                                                               *)
LiveHandlesKeepTheirEnd ==
  /\ pc[Rx] = "live" => receiver = ReceiverFd /\ ReceiverFd \in open
  /\ LiveSenders # {} /\ ~misled => sender = SenderFd /\ SenderFd \in open

(* Who would close fd: a slot that holds it, a handle that took it. *)
SlotsWith(fd) ==
  {slot \in {"sender", "receiver"} :
     fd = IF slot = "sender" THEN sender ELSE receiver}

HandsWith(fd) == {p \in Procs : hand[p] = fd}

(* A descriptor is closed exactly once: an open one has one owner, and one *)
(* that is closed has none that would close it again.                      *)
SoleOwner ==
  \A fd \in Fds :
    Cardinality(SlotsWith(fd)) + Cardinality(HandsWith(fd)) =
      IF fd \in open THEN 1 ELSE 0

(* The reference count and the slots implement the lifetime of the pipe:   *)
(* an end is closed only after every handle that may use it was dropped,   *)
(* up to the first drop that is misled.                                    *)
Pipe == INSTANCE PipeLifetime
          WITH senders <- LiveSenders, receiving <- (pc[Rx] = "live"),
               WriteEnd <- SenderFd, ReadEnd <- ReceiverFd

ImplementsPipe == Pipe!Init /\ [][Pipe!Next \/ misled']_(Pipe!vars)

(* Once every handle is dropped, both ends are closed. *)
Teardown == (\A p \in Procs : pc[p] # "live") ~> (open = {})

(* A Receiver outlives the Senders only with the write end closed: what   *)
(* the comments on Channel::sender and in Sender::drop say.               *)
SenderClearedForReceiver ==
  (\A h \in Senders : pc[h] = "absent") /\ pc[Rx] = "live"
    => sender = NoFd /\ SenderFd \notin open

(* It is so as long as no two Sender::drop have overlapped and none has     *)
(* gone by an old count into another arm: then the last Sender finds the    *)
(* Receiver and takes the write end, also where the receiver slot it reads, *)
(* or a count that leads to the same arm, is old.  Owners that order their  *)
(* drops (on one thread, through a channel or a join) meet both conditions. *)
SerialDropsClear == ~overlapped /\ ~miscounted => SenderClearedForReceiver

(* What makes it so: the last Sender is still on its way to the write end. *)
LastOnItsWay ==
  ~overlapped /\ ~miscounted /\ pc[Rx] = "live" /\ LiveSenders = {} =>
    sender = NoFd \/ \E h \in Senders : pc[h] \in {"check", "swap"}

UndefinedFoundNone ==
  \A h \in Senders : pc[h] = "undefined" => sender = NoFd

SerialInv == LastOnItsWay /\ UndefinedFoundNone

(* When the last Sender goes, the Receiver gets its hang-up, unless two     *)
(* drops overlapped or one went by an old count into another arm.           *)
HangupDelivered ==
  (LiveSenders = {}) ~> (SenderFd \notin open \/ overlapped \/ miscounted)
=============================================================================
