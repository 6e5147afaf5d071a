--------------------------- MODULE ChannelProofs ---------------------------
(***************************************************************************)
(* What Channel guarantees for every finite set of Sender handles.         *)
(***************************************************************************)
EXTENDS Channel, FiniteSetTheorems, TLAPS

-----------------------------------------------------------------------------
(* A count of one or of two tells who the counted handles are. *)
LEMMA OneLeft ==
  ASSUME NEW S, IsFiniteSet(S), Cardinality(S) = 1, NEW x \in S
  PROVE  S = {x}
BY FS_Singleton

LEMMA TwoLeft ==
  ASSUME NEW S, IsFiniteSet(S), Cardinality(S) = 2,
         NEW x \in S, NEW y \in S, x # y
  PROVE  S = {x, y}
<1>1. IsFiniteSet(S \ {x}) /\ Cardinality(S \ {x}) = 1
  BY FS_RemoveElement
<1>2. S \ {x} = {y}
  BY <1>1, OneLeft
<1> QED
  BY <1>2

(* The handles that hold a reference are finitely many. *)
LEMMA ReferrersFinite ==
  /\ IsFiniteSet(Procs)
  /\ IsFiniteSet(Referrers)
  /\ Cardinality(Referrers) \in Nat
  /\ \A p \in Referrers : Cardinality(Referrers) # 0
<1>1. IsFiniteSet(Procs)
  BY ChannelAssumption, FS_AddElement DEF Procs
<1>2. IsFiniteSet(Referrers)
  BY <1>1, FS_Subset DEF Referrers
<1> QED
  BY <1>1, <1>2, FS_CardinalityType, FS_EmptySet

(* Where Sender::drop goes, for each count. *)
LEMMA Branches ==
  \A count :
    /\ DropBranch(count) \in {"undefined", "swap", "check", "release"}
    /\ DropBranch(count) = "undefined" <=> count = 0
    /\ DropBranch(count) = "swap" <=> count = 1
    /\ DropBranch(count) = "check" <=> count = 2
<1> TAKE count
<1> QED
  BY DEF DropBranch

-----------------------------------------------------------------------------
(* The types of the variables are kept by every action. *)
LEMMA TypeInit == Init => TypeOK
<1> SUFFICES ASSUME Init PROVE TypeOK
  OBVIOUS
<1>1. misled \in BOOLEAN /\ miscounted \in BOOLEAN /\ overlapped \in BOOLEAN
  BY DEF Init
<1> QED
  BY <1>1, ChannelAssumption DEF Init, TypeOK, Phases, Referring, Procs, Fds

LEMMA TypeStep == Inv /\ [Next]_vars => TypeOK'
<1> SUFFICES ASSUME Inv, [Next]_vars PROVE TypeOK'
  OBVIOUS
<1> USE DEF Inv, TypeOK, Phases, Referring, Freeing
<1>1. ASSUME NEW h \in Senders, NEW c \in Senders, Clone(h, c) PROVE TypeOK'
  <2>1. strong' = strong + 1 /\ strong + 1 \in Nat
    BY <1>1 DEF Clone
  <2>2. CountsWith(strong + 1) \in [Senders -> SUBSET Nat]
    BY <2>1 DEF CountsWith
  <2>3. counts' \in [Senders -> SUBSET Nat]
    BY <1>1, <2>1, <2>2 DEF Clone
  <2> QED
    BY <1>1, <2>1, <2>3 DEF Clone, Procs
<1>2. ASSUME NEW h \in Senders, AskReceiver(h) PROVE TypeOK'
  BY <1>2 DEF AskReceiver
<1>3. ASSUME NEW p \in Procs, NEW slot, AsFd(p, slot) PROVE TypeOK'
  BY <1>3 DEF AsFd
<1>4. ASSUME NEW h \in Senders, DropSender(h) PROVE TypeOK'
  BY <1>4, Branches DEF DropSender
<1>5. CASE DropReceiver
  BY <1>5 DEF DropReceiver, Fds
<1>6. ASSUME NEW h \in Senders, CheckReceiver(h) PROVE TypeOK'
  BY <1>6 DEF CheckReceiver
<1>7. ASSUME NEW h \in Senders, SwapSender(h) PROVE TypeOK'
  BY <1>7 DEF SwapSender, Fds
<1>8. ASSUME NEW p \in Procs, CloseHand(p) PROVE TypeOK'
  BY <1>8 DEF CloseHand
<1>9. ASSUME NEW p \in Procs, Release(p) PROVE TypeOK'
  <2>1. p \in Referrers
    BY <1>9 DEF Release, Referrers
  <2>2. strong # 0
    BY <2>1, ReferrersFinite DEF CountExact
  <2> QED
    BY <1>9, <2>2 DEF Release, CountsWith
<1>10. ASSUME NEW p \in Procs, FreeSender(p) PROVE TypeOK'
  BY <1>10 DEF FreeSender
<1>11. ASSUME NEW p \in Procs, FreeReceiver(p) PROVE TypeOK'
  BY <1>11 DEF FreeReceiver
<1>12. CASE UNCHANGED vars
  BY <1>12 DEF vars
<1> QED
  BY <1>1, <1>2, <1>3, <1>4, <1>5, <1>6, <1>7, <1>8, <1>9, <1>10, <1>11, <1>12
  DEF Next, Progress, Terminated, SenderAsFd, ReceiverAsFd, Procs

-----------------------------------------------------------------------------
(***************************************************************************)
(* Only Clone adds a handle to the referrers and only Release takes one    *)
(* away, each with the count.                                              *)
(***************************************************************************)
LEMMA ReferrersInit == Init => CountExact
<1> SUFFICES ASSUME Init PROVE CountExact
  OBVIOUS
<1>1. Referrers = {First} \cup {Rx}
  BY ChannelAssumption DEF Init, Referrers, Referring, Procs
<1>2. IsFiniteSet({First}) /\ Cardinality({First}) = 1
  BY FS_Singleton
<1>3. Cardinality({First} \cup {Rx}) = Cardinality({First}) + 1
  BY <1>2, ChannelAssumption, FS_AddElement
<1> QED
  BY <1>1, <1>2, <1>3 DEF Init, CountExact

LEMMA ReferrersStep ==
  ASSUME Inv, [Next]_vars
  PROVE  \/ \E h, c \in Senders :
               Clone(h, c) /\ c \notin Referrers /\ Referrers' = Referrers \cup {c}
         \/ \E p \in Referrers : Release(p) /\ Referrers' = Referrers \ {p}
         \/ Referrers' = Referrers /\ strong' = strong
<1> USE DEF Inv, TypeOK, Referrers, Referring
<1>1. ASSUME NEW h \in Senders, NEW c \in Senders, Clone(h, c)
      PROVE  c \notin Referrers /\ Referrers' = Referrers \cup {c}
  BY <1>1 DEF Clone, Procs
<1>2. ASSUME NEW p \in Procs, Release(p)
      PROVE  p \in Referrers /\ Referrers' = Referrers \ {p}
  BY <1>2 DEF Release
<1>3. ASSUME NEW h \in Senders, AskReceiver(h)
      PROVE  Referrers' = Referrers /\ strong' = strong
  BY <1>3 DEF AskReceiver
<1>4. ASSUME NEW p \in Procs, NEW slot, AsFd(p, slot)
      PROVE  Referrers' = Referrers /\ strong' = strong
  BY <1>4 DEF AsFd
<1>5. ASSUME NEW h \in Senders, DropSender(h)
      PROVE  Referrers' = Referrers /\ strong' = strong
  BY <1>5, Branches DEF DropSender
<1>6. CASE DropReceiver
  BY <1>6 DEF DropReceiver
<1>7. ASSUME NEW h \in Senders, CheckReceiver(h)
      PROVE  Referrers' = Referrers /\ strong' = strong
  BY <1>7 DEF CheckReceiver
<1>8. ASSUME NEW h \in Senders, SwapSender(h)
      PROVE  Referrers' = Referrers /\ strong' = strong
  BY <1>8 DEF SwapSender
<1>9. ASSUME NEW p \in Procs, CloseHand(p)
      PROVE  Referrers' = Referrers /\ strong' = strong
  BY <1>9 DEF CloseHand
<1>10. ASSUME NEW p \in Procs, FreeSender(p) \/ FreeReceiver(p)
      PROVE  Referrers' = Referrers /\ strong' = strong
  BY <1>10 DEF FreeSender, FreeReceiver
<1>11. CASE UNCHANGED vars
  BY <1>11 DEF vars
<1> QED
  BY <1>1, <1>2, <1>3, <1>4, <1>5, <1>6, <1>7, <1>8, <1>9, <1>10, <1>11
  DEF Next, Progress, Terminated, SenderAsFd, ReceiverAsFd, Procs

LEMMA CountStep ==
  ASSUME Inv, [Next]_vars
  PROVE  CountExact'
<1> USE DEF Inv, CountExact
<1>1. CASE \E h, c \in Senders :
             Clone(h, c) /\ c \notin Referrers /\ Referrers' = Referrers \cup {c}
  <2>1. PICK c : c \notin Referrers /\ Referrers' = Referrers \cup {c}
    BY <1>1
  <2>2. strong' = strong + 1
    BY <1>1 DEF Clone
  <2> QED
    BY <2>1, <2>2, ReferrersFinite, FS_AddElement
<1>2. CASE \E p \in Referrers : Release(p) /\ Referrers' = Referrers \ {p}
  <2>1. PICK p \in Referrers : Referrers' = Referrers \ {p}
    BY <1>2
  <2>2. strong' = strong - 1
    BY <1>2 DEF Release
  <2> QED
    BY <2>1, <2>2, ReferrersFinite, FS_RemoveElement
<1>3. CASE Referrers' = Referrers /\ strong' = strong
  BY <1>3
<1> QED
  BY <1>1, <1>2, <1>3, ReferrersStep

(***************************************************************************)
(* What an old count tells stays true.  Alone, a Sender can only be joined *)
(* by its own clone, after which both read the count anew; a Receiver that *)
(* is gone does not come back; and another's clone counts three at least,  *)
(* to the Sender that does not know of it.                                 *)
(***************************************************************************)
LEMMA CountsInit == Init => CountsTell
<1> SUFFICES ASSUME Init PROVE CountsTell
  OBVIOUS
<1>1. LiveSenders = {First}
  BY ChannelAssumption DEF Init, LiveSenders, Procs
<1>2. Alone(First)
  BY ChannelAssumption DEF Init, Alone, Referrers, Referring, Procs
<1> QED
  BY <1>1, <1>2, ChannelAssumption DEF Init, CountsTell

(* The newest count tells it at once. *)
LEMMA NewestTells ==
  ASSUME Inv, NEW h \in Senders, h \in Referrers
  PROVE  /\ strong # 0
         /\ strong = 1 => Referrers = {h}
         /\ strong = 2 => Alone(h) \/ Rx \notin Referrers
<1>1. strong = Cardinality(Referrers) /\ strong # 0
  BY ReferrersFinite DEF Inv, CountExact, Referrers
<1>2. CASE strong = 1
  <2>1. Referrers = {h}
    BY <1>1, <1>2, ReferrersFinite, OneLeft
  <2> QED
    BY <1>2, <2>1
<1>3. CASE strong = 2 /\ Rx \in Referrers
  <2>1. Referrers = {h, Rx}
    BY <1>1, <1>3, ReferrersFinite, TwoLeft, ChannelAssumption
  <2> QED
    BY <1>3, <2>1, ChannelAssumption DEF Alone
<1> QED
  BY <1>1, <1>2, <1>3

LEMMA CountsStep ==
  ASSUME Inv, [Next]_vars, CountExact'
  PROVE  CountsTell'
<1> USE ChannelAssumption DEF Inv, TypeOK, Procs
<1>1. ASSUME NEW g \in Senders, NEW c \in Senders, Clone(g, c) PROVE CountsTell'
  <2>1. /\ g \in LiveSenders /\ c \notin Referrers /\ g # c
        /\ Referrers' = Referrers \cup {c}
        /\ LiveSenders' = LiveSenders \cup {c}
    BY <1>1 DEF Clone, Referrers, Referring, LiveSenders
  <2>2. g \in Referrers
    BY <1>1 DEF Clone, Referrers, Referring
  <2>3. strong # 0 /\ (strong = 1 => Referrers = {g})
    BY <2>2, NewestTells
  <2>4. ASSUME NEW h \in LiveSenders', h \in {g, c}
        PROVE  /\ strong' \in counts'[h]
               /\ 0 \notin counts'[h] /\ 1 \notin counts'[h]
               /\ 2 \in counts'[h] => Rx \notin Referrers'
    <3>1. counts'[h] = {strong + 1} /\ strong' = strong + 1
      BY <1>1, <2>1, <2>4 DEF Clone, CountsWith
    <3> QED
      BY <2>1, <2>3, <3>1
  <2>5. ASSUME NEW h \in LiveSenders', h \notin {g, c}
        PROVE  /\ strong' \in counts'[h]
               /\ 0 \notin counts'[h] /\ 1 \notin counts'[h]
               /\ 2 \in counts'[h] => Rx \notin Referrers'
    <3>1. h \in LiveSenders /\ h \in Referrers
      BY <2>1, <2>5 DEF LiveSenders, Referrers, Referring
    <3>2. counts'[h] = counts[h] \cup {strong + 1} /\ strong' = strong + 1
      BY <1>1, <2>5, <3>1 DEF Clone, CountsWith, LiveSenders
    <3>3. ~Alone(h) /\ Referrers # {h}
      BY <2>2, <2>5 DEF Alone
    <3>4. strong # 1
      BY <2>3, <2>5, <3>1
    <3> QED
      BY <2>1, <2>3, <3>1, <3>2, <3>3, <3>4 DEF CountsTell
  <2> QED
    BY <2>4, <2>5 DEF CountsTell
<1>2. ASSUME NEW p \in Procs, Release(p) PROVE CountsTell'
  <2>1. /\ p \in Referrers /\ p \notin LiveSenders
        /\ Referrers' = Referrers \ {p} /\ LiveSenders' = LiveSenders
    BY <1>2 DEF Release, Referrers, Referring, LiveSenders
  <2> SUFFICES ASSUME NEW h \in LiveSenders
               PROVE  /\ strong' \in counts'[h]
                      /\ 0 \notin counts'[h]
                      /\ 1 \in counts'[h] => Referrers' = {h}
                      /\ 2 \in counts'[h] => Alone(h)' \/ Rx \notin Referrers'
    BY <2>1 DEF CountsTell
  <2>2. h \in Referrers /\ h \in Referrers' /\ h # p /\ h \in Senders
    BY <2>1 DEF LiveSenders, Referrers, Referring
  <2>3. counts'[h] = counts[h] \cup {strong - 1} /\ strong' = strong - 1
    BY <1>2 DEF Release, CountsWith, LiveSenders
  <2>4. /\ strong' # 0
        /\ strong' = 1 => Referrers' = {h}
        /\ strong' = 2 => Alone(h)' \/ Rx \notin Referrers'
    <3>1. IsFiniteSet(Referrers') /\ strong' = Cardinality(Referrers')
      BY <2>1, ReferrersFinite, FS_Subset DEF CountExact
    <3>2. strong' # 0
      BY <2>2, <3>1, FS_EmptySet
    <3>3. CASE strong' = 1
      <4>1. Referrers' = {h}
        BY <2>2, <3>1, <3>3, OneLeft
      <4> QED
        BY <3>3, <4>1
    <3>4. CASE strong' = 2 /\ Rx \in Referrers'
      <4>1. Referrers' = {h, Rx}
        BY <2>2, <3>1, <3>4, TwoLeft
      <4>2. Referrers' \cap Senders = {h}
        BY <2>2, <4>1
      <4>3. Alone(h)'
        BY <4>2 DEF Alone
      <4> QED
        BY <3>4, <4>3
    <3> QED
      BY <3>2, <3>3, <3>4
  <2>5. Alone(h) => Alone(h)'
    BY <2>1, <2>2 DEF Alone
  <2>6. Referrers # {h}
    BY <2>1, <2>2
  <2> QED
    BY <2>1, <2>3, <2>4, <2>5, <2>6 DEF CountsTell
<1>3. ASSUME NEW h \in Senders, DropSender(h) PROVE CountsTell'
  <2>1. LiveSenders' = LiveSenders \ {h} /\ Referrers' = Referrers
    BY <1>3, Branches DEF DropSender, LiveSenders, Referrers, Referring
  <2>2. \A g \in LiveSenders' : counts'[g] = counts[g]
    BY <1>3, <2>1 DEF DropSender, LiveSenders
  <2>3. strong' = strong
    BY <1>3 DEF DropSender
  <2> QED
    BY <2>1, <2>2, <2>3 DEF CountsTell, Alone
<1>4. ASSUME UNCHANGED <<strong, counts>>, Referrers' = Referrers,
             LiveSenders' \subseteq LiveSenders
      PROVE  CountsTell'
  BY <1>4 DEF CountsTell, Alone
<1>5. ASSUME NEW p \in Procs, NEW slot, AsFd(p, slot) PROVE CountsTell'
  BY <1>4, <1>5 DEF AsFd, LiveSenders, Referrers, Referring
<1>6. ASSUME NEW h \in Senders, AskReceiver(h) \/ CheckReceiver(h) \/ SwapSender(h)
      PROVE  CountsTell'
  BY <1>4, <1>6
  DEF AskReceiver, CheckReceiver, SwapSender, LiveSenders, Referrers, Referring
<1>7. CASE DropReceiver
  BY <1>4, <1>7 DEF DropReceiver, LiveSenders, Referrers, Referring
<1>8. ASSUME NEW p \in Procs, CloseHand(p) \/ FreeSender(p) \/ FreeReceiver(p)
      PROVE  CountsTell'
  BY <1>4, <1>8
  DEF CloseHand, FreeSender, FreeReceiver, LiveSenders, Referrers, Referring
<1>9. CASE UNCHANGED vars
  BY <1>4, <1>9 DEF vars, LiveSenders, Referrers
<1> QED
  BY <1>1, <1>2, <1>3, <1>5, <1>6, <1>7, <1>8, <1>9
  DEF Next, Progress, Terminated, SenderAsFd, ReceiverAsFd

-----------------------------------------------------------------------------
(***************************************************************************)
(* The other parts of Inv.  Releasing the last reference is the one way to *)
(* start freeing, and nothing refers to the Channel from then on.          *)
(***************************************************************************)
LEMMA FreedStep ==
  ASSUME Inv, [Next]_vars
  PROVE  FreedOnce'
<1> USE DEF Inv, TypeOK, FreedOnce, Freeing
<1>1. CASE \E h, c \in Senders :
             Clone(h, c) /\ c \notin Referrers /\ Referrers' = Referrers \cup {c}
  BY <1>1 DEF Clone, Procs, Referrers, Referring
<1>2. CASE \E p \in Referrers : Release(p) /\ Referrers' = Referrers \ {p}
  <2>1. PICK p \in Referrers : Release(p) /\ Referrers' = Referrers \ {p}
    BY <1>2
  <2>2. \A q \in Procs : pc[q] \notin Freeing
    BY <2>1
  <2>3. \A q \in Procs : pc'[q] \in Freeing => q = p /\ strong = 1
    BY <2>1, <2>2 DEF Release, Referrers
  <2>4. strong = 1 => Referrers = {p}
    BY <2>1, ReferrersFinite, OneLeft DEF CountExact
  <2> QED
    BY <2>1, <2>3, <2>4
<1>3. CASE Referrers' = Referrers /\ strong' = strong
  <2>1. \A q \in Procs : pc'[q] \in Freeing => pc[q] \in Freeing
    <3>1. \A p \in Procs : ~Release(p)
      BY <1>3 DEF Release
    <3>2. \A p \in Procs : \A slot :
            AsFd(p, slot) => \A q \in Procs : pc'[q] \in Freeing => pc[q] \in Freeing
      BY DEF AsFd
    <3>3. \A h \in Senders : DropSender(h) => \A q \in Procs : pc'[q] \in Freeing => pc[q] \in Freeing
      BY Branches DEF DropSender
    <3> QED
      BY <1>3, <3>1, <3>2, <3>3
      DEF Next, Progress, Terminated, SenderAsFd, ReceiverAsFd, Procs, vars, Clone,
          AskReceiver, DropReceiver, CheckReceiver, SwapSender, CloseHand,
          FreeSender, FreeReceiver
  <2> QED
    BY <1>3, <2>1
<1> QED
  BY <1>1, <1>2, <1>3, ReferrersStep

LEMMA ReceiverSlotStep ==
  ASSUME Inv, [Next]_vars
  PROVE  ReceiverSlotTells'
<1> USE ChannelAssumption
    DEF Inv, TypeOK, ReceiverSlotTells, Procs, Fds
<1>1. ASSUME NEW h \in Senders, NEW c \in Senders, Clone(h, c)
      PROVE  ReceiverSlotTells'
  BY <1>1 DEF Clone
<1>2. ASSUME NEW h \in Senders, AskReceiver(h) PROVE ReceiverSlotTells'
  BY <1>2 DEF AskReceiver
<1>3. ASSUME NEW h \in Senders, SenderAsFd(h) PROVE ReceiverSlotTells'
  BY <1>3 DEF SenderAsFd, AsFd
<1>4. CASE ReceiverAsFd
  BY <1>4 DEF ReceiverAsFd, AsFd
<1>5. ASSUME NEW h \in Senders, DropSender(h) PROVE ReceiverSlotTells'
  BY <1>5 DEF DropSender
<1>6. CASE DropReceiver
  BY <1>6 DEF DropReceiver
<1>7. ASSUME NEW h \in Senders, CheckReceiver(h) PROVE ReceiverSlotTells'
  BY <1>7 DEF CheckReceiver
<1>8. ASSUME NEW h \in Senders, SwapSender(h) PROVE ReceiverSlotTells'
  BY <1>8 DEF SwapSender
<1>9. ASSUME NEW p \in Procs, CloseHand(p) PROVE ReceiverSlotTells'
  BY <1>9 DEF CloseHand
<1>10. ASSUME NEW p \in Procs, Release(p) PROVE ReceiverSlotTells'
  BY <1>10 DEF Release
<1>11. ASSUME NEW p \in Procs, FreeSender(p) PROVE ReceiverSlotTells'
  BY <1>11 DEF FreeSender
<1>12. ASSUME NEW p \in Procs, FreeReceiver(p) PROVE ReceiverSlotTells'
  BY <1>12 DEF FreeReceiver, FreedOnce, Freeing, Referrers, Referring
<1>13. CASE UNCHANGED vars
  BY <1>13 DEF vars
<1> QED
  BY <1>1, <1>2, <1>3, <1>4, <1>5, <1>6, <1>7, <1>8, <1>9, <1>10, <1>11, <1>12, <1>13
  DEF Next, Progress, Terminated

LEMMA WriteEndStep ==
  ASSUME Inv, [Next]_vars
  PROVE  WriteEndPlaced'
<1> USE ChannelAssumption
    DEF Inv, TypeOK, WriteEndPlaced, Procs, Fds
<1>1. ASSUME NEW h \in Senders, NEW c \in Senders, Clone(h, c)
      PROVE  WriteEndPlaced'
  BY <1>1 DEF Clone
<1>2. ASSUME NEW h \in Senders, AskReceiver(h) PROVE WriteEndPlaced'
  BY <1>2 DEF AskReceiver
<1>3. ASSUME NEW p \in Procs, NEW slot, AsFd(p, slot) PROVE WriteEndPlaced'
  BY <1>3 DEF AsFd
<1>4. ASSUME NEW h \in Senders, DropSender(h) PROVE WriteEndPlaced'
  BY <1>4 DEF DropSender
<1>5. CASE DropReceiver
  BY <1>5 DEF DropReceiver
<1>6. ASSUME NEW h \in Senders, CheckReceiver(h) PROVE WriteEndPlaced'
  BY <1>6 DEF CheckReceiver
<1>7. ASSUME NEW h \in Senders, SwapSender(h) PROVE WriteEndPlaced'
  BY <1>7 DEF SwapSender
<1>8. ASSUME NEW p \in Procs, CloseHand(p) PROVE WriteEndPlaced'
  BY <1>8 DEF CloseHand, ReadEndPlaced
<1>9. ASSUME NEW p \in Procs, Release(p) PROVE WriteEndPlaced'
  BY <1>9 DEF Release
<1>10. ASSUME NEW p \in Procs, FreeSender(p) PROVE WriteEndPlaced'
  BY <1>10 DEF FreeSender
<1>11. ASSUME NEW p \in Procs, FreeReceiver(p) PROVE WriteEndPlaced'
  BY <1>11 DEF FreeReceiver
<1>12. CASE UNCHANGED vars
  BY <1>12 DEF vars
<1> QED
  BY <1>1, <1>2, <1>3, <1>4, <1>5, <1>6, <1>7, <1>8, <1>9, <1>10, <1>11, <1>12
  DEF Next, Progress, Terminated, SenderAsFd, ReceiverAsFd

LEMMA ReadEndStep ==
  ASSUME Inv, [Next]_vars
  PROVE  ReadEndPlaced'
<1> USE ChannelAssumption
    DEF Inv, TypeOK, ReadEndPlaced, Procs, Fds
<1>1. ASSUME NEW h \in Senders, NEW c \in Senders, Clone(h, c)
      PROVE  ReadEndPlaced'
  BY <1>1 DEF Clone
<1>2. ASSUME NEW h \in Senders, AskReceiver(h) PROVE ReadEndPlaced'
  BY <1>2 DEF AskReceiver
<1>3. ASSUME NEW p \in Procs, NEW slot, AsFd(p, slot) PROVE ReadEndPlaced'
  BY <1>3 DEF AsFd
<1>4. ASSUME NEW h \in Senders, DropSender(h) PROVE ReadEndPlaced'
  BY <1>4 DEF DropSender
<1>5. CASE DropReceiver
  BY <1>5 DEF DropReceiver
<1>6. ASSUME NEW h \in Senders, CheckReceiver(h) PROVE ReadEndPlaced'
  BY <1>6 DEF CheckReceiver
<1>7. ASSUME NEW h \in Senders, SwapSender(h) PROVE ReadEndPlaced'
  BY <1>7 DEF SwapSender
<1>8. ASSUME NEW p \in Procs, CloseHand(p) PROVE ReadEndPlaced'
  BY <1>8 DEF CloseHand, WriteEndPlaced
<1>9. ASSUME NEW p \in Procs, Release(p) PROVE ReadEndPlaced'
  BY <1>9 DEF Release
<1>10. ASSUME NEW p \in Procs, FreeSender(p) PROVE ReadEndPlaced'
  BY <1>10 DEF FreeSender
<1>11. ASSUME NEW p \in Procs, FreeReceiver(p) PROVE ReadEndPlaced'
  BY <1>11 DEF FreeReceiver
<1>12. CASE UNCHANGED vars
  BY <1>12 DEF vars
<1> QED
  BY <1>1, <1>2, <1>3, <1>4, <1>5, <1>6, <1>7, <1>8, <1>9, <1>10, <1>11, <1>12
  DEF Next, Progress, Terminated, SenderAsFd, ReceiverAsFd

(***************************************************************************)
(* However old the counts and slots that are read, the count is exact, the *)
(* Channel is freed once and every descriptor has its place; and a count,  *)
(* old or not, tells a Sender what the arms of its drop conclude.          *)
(***************************************************************************)
THEOREM InvHolds == Spec => []Inv
<1>1. Init => Inv
  <2> SUFFICES ASSUME Init PROVE Inv
    OBVIOUS
  <2>1. FreedOnce /\ ReceiverSlotTells /\ WriteEndPlaced /\ ReadEndPlaced
    BY ChannelAssumption
    DEF Init, FreedOnce, ReceiverSlotTells, WriteEndPlaced, ReadEndPlaced,
        Freeing, Fds, Procs
  <2> QED
    BY <2>1, TypeInit, ReferrersInit, CountsInit DEF Inv
<1>2. Inv /\ [Next]_vars => Inv'
  BY TypeStep, CountStep, CountsStep, FreedStep, ReceiverSlotStep, WriteEndStep, ReadEndStep
  DEF Inv
<1> QED
  BY <1>1, <1>2, PTL DEF Spec

(***************************************************************************)
(* Neither descriptor is closed twice or leaked by a drop, under any       *)
(* interleaving and any staleness of what is loaded.                       *)
(***************************************************************************)
THEOREM OneOwner == Spec => []SoleOwner
<1>1. Inv => SoleOwner
  <2> SUFFICES ASSUME Inv, NEW fd \in Fds
               PROVE  Cardinality(SlotsWith(fd)) + Cardinality(HandsWith(fd)) =
                        IF fd \in open THEN 1 ELSE 0
    BY DEF SoleOwner
  <2>1. /\ Cardinality({}) = 0
        /\ \A x : Cardinality({x}) = 1
    BY FS_EmptySet, FS_Singleton
  <2>2. CASE fd \notin open
    <3>1. SlotsWith(fd) = {} /\ HandsWith(fd) = {}
      BY ChannelAssumption, <2>2
        DEF SlotsWith, HandsWith, Inv, TypeOK, WriteEndPlaced, ReadEndPlaced, Procs, Fds
    <3> QED
      BY <2>1, <2>2, <3>1
  <2>3. CASE fd \in open /\ HandsWith(fd) = {}
    <3>1. \E slot : SlotsWith(fd) = {slot}
      <4>1. CASE fd = SenderFd
        <5>1. SlotsWith(fd) = {"sender"}
          BY ChannelAssumption, <2>3, <4>1
        DEF SlotsWith, HandsWith, Inv, TypeOK, WriteEndPlaced, ReadEndPlaced, Procs, Fds
        <5> QED
          BY <5>1
      <4>2. CASE fd = ReceiverFd
        <5>1. SlotsWith(fd) = {"receiver"}
          BY ChannelAssumption, <2>3, <4>2
        DEF SlotsWith, HandsWith, Inv, TypeOK, WriteEndPlaced, ReadEndPlaced, Procs, Fds
        <5> QED
          BY <5>1
      <4> QED
        BY <4>1, <4>2 DEF Fds
    <3>2. Cardinality(SlotsWith(fd)) = 1 /\ Cardinality(HandsWith(fd)) = 0
      BY <2>1, <2>3, <3>1
    <3> QED
      BY <2>3, <3>2
  <2>4. CASE fd \in open /\ HandsWith(fd) # {}
    <3>1. PICK p \in Procs : hand[p] = fd
      BY <2>4 DEF HandsWith
    <3>2. SlotsWith(fd) = {}
      BY ChannelAssumption, <3>1
        DEF SlotsWith, HandsWith, Inv, TypeOK, WriteEndPlaced, ReadEndPlaced, Procs, Fds
    <3>3. HandsWith(fd) = {p}
      BY ChannelAssumption, <3>1
        DEF SlotsWith, HandsWith, Inv, TypeOK, WriteEndPlaced, ReadEndPlaced, Procs, Fds
    <3> QED
      BY <2>1, <2>4, <3>2, <3>3
  <2> QED
    BY <2>2, <2>3, <2>4
<1> QED
  BY <1>1, InvHolds, PTL

-----------------------------------------------------------------------------
(***************************************************************************)
(* Until a drop is misled.  A Sender that counts one reference, or two and *)
(* a receiver, is alone, however old the count; only a live Sender could   *)
(* end that by being cloned, and there is none left.                       *)
(***************************************************************************)
LEMMA DropSeesOthers ==
  ASSUME Inv, NEW h \in Senders, DropSender(h)
  PROVE  /\ pc'[h] = "swap" => Alone(h)
         /\ pc'[h] = "check" => Alone(h) \/ Rx \notin Referrers
         /\ pc'[h] # "undefined"
<1>1. h \in LiveSenders
  BY DEF DropSender, LiveSenders
<1>2. PICK count \in counts[h] : pc'[h] = DropBranch(count)
  BY DEF DropSender, Inv, TypeOK, Procs
<1>3. /\ count # 0
      /\ count = 1 => Referrers = {h}
      /\ count = 2 => Alone(h) \/ Rx \notin Referrers
  BY <1>1 DEF Inv, CountsTell
<1>4. Referrers = {h} => Alone(h)
  BY DEF Alone
<1> QED
  BY <1>2, <1>3, <1>4, Branches

LEMMA MisledForGood ==
  ASSUME [Next]_vars, ~misled'
  PROVE  ~misled
BY DEF Next, Progress, Terminated, vars, Clone, AskReceiver, SenderAsFd,
       ReceiverAsFd, AsFd, DropSender, DropReceiver, CheckReceiver, SwapSender,
       CloseHand, Release, FreeSender, FreeReceiver

LEMMA LatestStep ==
  ASSUME LatestInv, [Next]_vars, ~misled'
  PROVE  LastTakes'
<1> DEFINE Goal == LastTakes
<1> SUFFICES Goal'
  OBVIOUS
<1>0. ~misled
  BY MisledForGood
<1> USE <1>0, ChannelAssumption
    DEF LatestInv, LastTakes, CheckJustified, TakerAlone, EmptyMeansDone, NoUndefined, Alone,
        Inv, TypeOK, Procs
<1>1. ASSUME NEW h \in Senders, NEW c \in Senders, Clone(h, c) PROVE Goal'
  BY <1>1 DEF Clone, Referrers, Referring
<1>2. ASSUME NEW h \in Senders, AskReceiver(h) PROVE Goal'
  BY <1>2 DEF AskReceiver, Referrers, Referring
<1>3. ASSUME NEW h \in Senders, SenderAsFd(h) PROVE Goal'
  BY <1>3 DEF SenderAsFd, AsFd, Referrers, Referring
<1>4. CASE ReceiverAsFd
  BY <1>4 DEF ReceiverAsFd, AsFd, Referrers, Referring, ReceiverSlotTells, Fds
<1>5. ASSUME NEW h \in Senders, DropSender(h) PROVE Goal'
  <2>1. /\ pc'[h] = "swap" => Alone(h)
        /\ pc'[h] = "check" => Alone(h) \/ Rx \notin Referrers
        /\ pc'[h] # "undefined"
    BY <1>5, DropSeesOthers
  <2>2. /\ pc[h] = "live" /\ sender' = sender
        /\ \A p \in Procs \ {h} : pc'[p] = pc[p]
    BY <1>5 DEF DropSender
  <2>3. Referrers' = Referrers
    BY <1>5, Branches DEF DropSender, Referrers, Referring
  <2> QED
    BY <2>1, <2>2, <2>3
<1>6. CASE DropReceiver
  BY <1>6 DEF DropReceiver, Referrers, Referring
<1>7. ASSUME NEW h \in Senders, CheckReceiver(h) PROVE Goal'
  BY <1>7 DEF CheckReceiver, HasReceiver, ReceiverSlotTells, Referrers, Referring
<1>8. ASSUME NEW h \in Senders, SwapSender(h) PROVE Goal'
  BY <1>8 DEF SwapSender, Referrers, Referring
<1>9. ASSUME NEW p \in Procs, CloseHand(p) PROVE Goal'
  BY <1>9 DEF CloseHand, Referrers, Referring
<1>10. ASSUME NEW p \in Procs, Release(p) PROVE Goal'
  BY <1>10 DEF Release, Referrers, Referring
<1>11. ASSUME NEW p \in Procs, FreeSender(p) PROVE Goal'
  BY <1>11 DEF FreeSender, FreedOnce, Freeing, Referrers, Referring
<1>12. ASSUME NEW p \in Procs, FreeReceiver(p) PROVE Goal'
  BY <1>12 DEF FreeReceiver, Referrers, Referring
<1>13. CASE UNCHANGED vars
  BY <1>13 DEF vars, Referrers, Referring
<1> QED
  BY <1>1, <1>2, <1>3, <1>4, <1>5, <1>6, <1>7, <1>8, <1>9, <1>10, <1>11, <1>12, <1>13
  DEF Next, Progress, Terminated

THEOREM LatestHolds == Spec => []LatestInv
<1>1. Init => LastTakes
  BY ChannelAssumption
  DEF Init, LastTakes, CheckJustified, TakerAlone, EmptyMeansDone, NoUndefined,
      Fds, Procs
<1>2. LatestInv /\ [Next]_vars => (~misled' => LastTakes')
  BY LatestStep
<1>3. Inv /\ (~misled => LastTakes) <=> LatestInv
  BY DEF LatestInv
<1> QED
  BY <1>1, <1>2, <1>3, InvHolds, PTL DEF Spec

(***************************************************************************)
(* The Receiver finds its descriptor in its slot, and open, whatever the   *)
(* loads return; and so does a Sender until a drop is misled.              *)
(***************************************************************************)
THEOREM EndsKept == Spec => []LiveHandlesKeepTheirEnd
<1>1. LatestInv => LiveHandlesKeepTheirEnd
  BY ChannelAssumption
  DEF LatestInv, LastTakes, Inv, TypeOK, EmptyMeansDone, WriteEndPlaced,
      ReadEndPlaced, ReceiverSlotTells, LiveHandlesKeepTheirEnd, LiveSenders
<1> QED
  BY <1>1, LatestHolds, PTL

-----------------------------------------------------------------------------
(* An old value of the receiver slot is only there to be read once the      *)
(* Receiver has begun its drop, and a Receiver does not come back.          *)
MisledAfterReceiver == misled => pc[Rx] # "live"

(* MisledAfterReceiver is kept by every step. *)
LEMMA MisledStep ==
  ASSUME Inv, MisledAfterReceiver, [Next]_vars
  PROVE  MisledAfterReceiver'
<1> USE ChannelAssumption DEF MisledAfterReceiver, Inv, TypeOK, Procs
<1>1. ASSUME NEW h \in Senders, CheckReceiver(h) PROVE MisledAfterReceiver'
  <2>1. pc'[Rx] = pc[Rx]
    BY <1>1 DEF CheckReceiver
  <2>2. pc[Rx] = "live" => receiver # NoFd
    BY DEF ReceiverSlotTells, Fds
  <2>3. pc[Rx] = "live" => misled' = misled
    BY <1>1, <2>2 DEF CheckReceiver, HasReceiver
  <2> QED
    BY <2>1, <2>3
<1>2. ASSUME misled' = misled, pc[Rx] # "live" => pc'[Rx] # "live"
      PROVE  MisledAfterReceiver'
  BY <1>2
<1>3. ASSUME NEW h \in Senders, NEW c \in Senders, Clone(h, c) PROVE MisledAfterReceiver'
  BY <1>2, <1>3 DEF Clone
<1>4. ASSUME NEW p \in Procs, NEW slot, AsFd(p, slot) PROVE MisledAfterReceiver'
  BY <1>2, <1>4 DEF AsFd
<1>5. ASSUME NEW h \in Senders, AskReceiver(h) \/ DropSender(h) \/ SwapSender(h)
      PROVE  MisledAfterReceiver'
  BY <1>2, <1>5 DEF AskReceiver, DropSender, SwapSender
<1>6. CASE DropReceiver
  BY <1>2, <1>6 DEF DropReceiver
<1>7. ASSUME NEW p \in Procs, CloseHand(p) \/ Release(p) \/ FreeSender(p) \/ FreeReceiver(p)
      PROVE  MisledAfterReceiver'
  BY <1>2, <1>7 DEF CloseHand, Release, FreeSender, FreeReceiver
<1>8. CASE UNCHANGED vars
  BY <1>2, <1>8 DEF vars
<1> QED
  BY <1>1, <1>3, <1>4, <1>5, <1>6, <1>7, <1>8
  DEF Next, Progress, Terminated, SenderAsFd, ReceiverAsFd

(* While the Receiver can be used, so can every Sender: none finds its slot *)
(* empty or its descriptor closed.                                          *)
ReceiverProtects ==
  pc[Rx] = "live" =>
    /\ NoUndefined
    /\ LiveSenders # {} => sender = SenderFd /\ SenderFd \in open

(***************************************************************************)
(* No unreachable_unchecked!() is reached while the Receiver lives,        *)
(* however late the loads are: what channel_stale_as_fd shows takes a      *)
(* Receiver that has begun its drop.                                       *)
(***************************************************************************)
THEOREM ProtectedByReceiver == Spec => []ReceiverProtects
<1>1. Init => MisledAfterReceiver
  BY DEF Init, MisledAfterReceiver
<1>2. Inv /\ MisledAfterReceiver /\ [Next]_vars => MisledAfterReceiver'
  BY MisledStep
<1>3. LatestInv /\ LiveHandlesKeepTheirEnd /\ MisledAfterReceiver => ReceiverProtects
  BY DEF LatestInv, LastTakes, LiveHandlesKeepTheirEnd, MisledAfterReceiver, ReceiverProtects
<1> QED
  BY <1>1, <1>2, <1>3, InvHolds, LatestHolds, EndsKept, PTL DEF Spec

-----------------------------------------------------------------------------
(***************************************************************************)
(* Drops that neither overlap nor go by an old count into another arm.     *)
(* The last live Sender that starts its drop finds no other Sender, absent *)
(* or dropping, so two references are left, its own and the Receiver's,    *)
(* and it takes their arm; and while the Receiver lives its slot is full.  *)
(***************************************************************************)
LEMMA LastDropLooks ==
  ASSUME Inv, NEW h \in Senders, DropSender(h), ~overlapped', ~miscounted',
         pc[Rx] = "live", LiveSenders' = {}
  PROVE  pc'[h] = "check"
<1>1. ~Dropping(h) /\ pc[h] = "live"
  BY DEF DropSender, Dropping
<1>2. \A g \in Senders : g # h => pc[g] = "absent"
  BY DEF DropSender, Dropping, LiveSenders, Inv, TypeOK, Procs
<1>3. Referrers = {h} \cup {Rx}
  BY <1>1, <1>2 DEF Referrers, Referring, Procs
<1>4. Cardinality({h} \cup {Rx}) = 2
  <2>1. IsFiniteSet({h}) /\ Cardinality({h}) = 1 /\ Rx \notin {h}
    BY ChannelAssumption, FS_Singleton
  <2> QED
    BY <2>1, FS_AddElement
<1>5. strong = 2
  BY <1>3, <1>4 DEF Inv, CountExact
<1>6. PICK count \in counts[h] :
        /\ pc'[h] = DropBranch(count)
        /\ miscounted' = (miscounted \/ DropBranch(count) # DropBranch(strong))
  BY DEF DropSender, Inv, TypeOK, Procs
<1>7. DropBranch(count) = DropBranch(strong)
  BY <1>6
<1> QED
  BY <1>5, <1>6, <1>7, Branches

LEMMA SerialStep ==
  ASSUME Inv, SerialInv, [Next]_vars
  PROVE  SerialInv'
<1> USE ChannelAssumption
    DEF SerialInv, LastOnItsWay, UndefinedFoundNone, LiveSenders, Inv, TypeOK,
        Procs, Fds
<1>1. ASSUME NEW h \in Senders, NEW c \in Senders, Clone(h, c) PROVE SerialInv'
  BY <1>1 DEF Clone
<1>2. ASSUME NEW h \in Senders, AskReceiver(h) PROVE SerialInv'
  BY <1>2 DEF AskReceiver
<1>3. ASSUME NEW h \in Senders, SenderAsFd(h) PROVE SerialInv'
  BY <1>3 DEF SenderAsFd, AsFd
<1>4. CASE ReceiverAsFd
  BY <1>4 DEF ReceiverAsFd, AsFd, ReceiverSlotTells
<1>5. ASSUME NEW h \in Senders, DropSender(h) PROVE SerialInv'
  <2>1. pc'[h] # "undefined"
    BY <1>5, DropSeesOthers
  <2> QED
    BY <1>5, <2>1, LastDropLooks DEF DropSender
<1>6. CASE DropReceiver
  BY <1>6 DEF DropReceiver
<1>7. ASSUME NEW h \in Senders, CheckReceiver(h) PROVE SerialInv'
  BY <1>7 DEF CheckReceiver, HasReceiver, ReceiverSlotTells
<1>8. ASSUME NEW h \in Senders, SwapSender(h) PROVE SerialInv'
  BY <1>8 DEF SwapSender
<1>9. ASSUME NEW p \in Procs, CloseHand(p) PROVE SerialInv'
  BY <1>9 DEF CloseHand
<1>10. ASSUME NEW p \in Procs, Release(p) PROVE SerialInv'
  BY <1>10 DEF Release
<1>11. ASSUME NEW p \in Procs, FreeSender(p) PROVE SerialInv'
  BY <1>11 DEF FreeSender
<1>12. ASSUME NEW p \in Procs, FreeReceiver(p) PROVE SerialInv'
  BY <1>12 DEF FreeReceiver
<1>13. CASE UNCHANGED vars
  BY <1>13 DEF vars
<1> QED
  BY <1>1, <1>2, <1>3, <1>4, <1>5, <1>6, <1>7, <1>8, <1>9, <1>10, <1>11, <1>12, <1>13
  DEF Next, Progress, Terminated

(***************************************************************************)
(* As long as no two Sender::drop have overlapped, and none has gone by an *)
(* old count into another arm than the latest one leads to, a Receiver     *)
(* that outlives the Senders finds the sender slot empty and the write end *)
(* closed.  Either exception does miss the hang-up.                        *)
(***************************************************************************)
THEOREM SerialDrops == Spec => []SerialDropsClear
<1>1. Init => SerialInv
  BY ChannelAssumption
  DEF Init, SerialInv, LastOnItsWay, UndefinedFoundNone, LiveSenders, Procs
<1>2. Inv /\ SerialInv /\ [Next]_vars => SerialInv'
  BY SerialStep
<1>3. Inv /\ SerialInv => SerialDropsClear
  BY ChannelAssumption
  DEF SerialInv, LastOnItsWay, LiveSenders, SerialDropsClear,
      SenderClearedForReceiver, Inv, TypeOK, WriteEndPlaced, Procs, Fds
<1> QED
  BY <1>1, <1>2, <1>3, InvHolds, PTL DEF Spec

-----------------------------------------------------------------------------
(***************************************************************************)
(* The counted, atomically swapped slots implement the lifetime of a pipe: *)
(* each end stays open until every handle that may use it was dropped, or  *)
(* a drop is misled.                                                       *)
(***************************************************************************)
LEMMA PipeStep ==
  ASSUME LatestInv, LatestInv', [Next]_vars, ~misled'
  PROVE  [Pipe!Next]_(Pipe!vars)
<1>0. LastTakes
  BY MisledForGood DEF LatestInv
<1> USE <1>0 DEF LatestInv, LastTakes, Inv, TypeOK, LiveSenders, Pipe!vars
<1>1. ASSUME NEW h \in Senders, NEW c \in Senders, Clone(h, c)
      PROVE  Pipe!CloneSender
  <2>1. LiveSenders # {} /\ c \in Senders \ LiveSenders
    BY <1>1 DEF Clone
  <2>2. LiveSenders' = LiveSenders \cup {c}
    BY <1>1 DEF Clone, Procs
  <2> QED
    BY <1>1, <2>1, <2>2, ChannelAssumption DEF Clone, Pipe!CloneSender, Procs
<1>2. ASSUME NEW h \in Senders, AskReceiver(h) PROVE UNCHANGED Pipe!vars
  BY <1>2 DEF AskReceiver
<1>3. ASSUME NEW p \in Procs, NEW slot, AsFd(p, slot) PROVE UNCHANGED Pipe!vars
  <2>1. pc' = pc
    BY <1>3 DEF AsFd, NoUndefined
  <2> QED
    BY <1>3, <2>1 DEF AsFd
<1>4. ASSUME NEW h \in Senders, DropSender(h) PROVE Pipe!DropSender
  <2>1. h \in LiveSenders
    BY <1>4 DEF DropSender
  <2>2. LiveSenders' = LiveSenders \ {h}
    BY <1>4, Branches DEF DropSender, Procs
  <2> QED
    BY <1>4, <2>1, <2>2, ChannelAssumption DEF DropSender, Pipe!DropSender, Procs
<1>5. CASE DropReceiver
  BY <1>5, ChannelAssumption DEF DropReceiver, Pipe!Next, Pipe!DropReceiver, Procs
<1>6. ASSUME NEW h \in Senders, CheckReceiver(h) \/ SwapSender(h)
      PROVE  UNCHANGED Pipe!vars
  BY <1>6, ChannelAssumption DEF CheckReceiver, SwapSender, Procs
<1>7. ASSUME NEW p \in Procs, CloseHand(p) PROVE [Pipe!Next]_(Pipe!vars)
  <2>1. LiveSenders' = LiveSenders /\ (pc[Rx] = "live")' = (pc[Rx] = "live")
    BY <1>7 DEF CloseHand, Procs
  <2>2. CASE hand[p] = SenderFd
    <3>1. sender = NoFd
      BY <2>2, ChannelAssumption DEF WriteEndPlaced, ReadEndPlaced, Procs, Fds
    <3> QED
      BY <1>7, <2>1, <2>2, <3>1
      DEF CloseHand, EmptyMeansDone, Pipe!Next, Pipe!CloseWriteEnd
  <2>3. CASE hand[p] = ReceiverFd
    <3>1. receiver # ReceiverFd
      BY <2>3, ChannelAssumption DEF WriteEndPlaced, ReadEndPlaced, Procs, Fds
    <3> QED
      BY <1>7, <2>1, <2>3, <3>1
      DEF CloseHand, ReceiverSlotTells, Pipe!Next, Pipe!CloseReadEnd
  <2>4. CASE hand[p] = NoFd
    <3>1. open' = open
      BY <1>7, <2>4, ChannelAssumption DEF CloseHand
    <3> QED
      BY <2>1, <3>1
  <2> QED
    BY <2>2, <2>3, <2>4 DEF Fds
<1>8. ASSUME NEW p \in Procs, Release(p) PROVE UNCHANGED Pipe!vars
  BY <1>8, ChannelAssumption DEF Release, Procs
<1>9. ASSUME NEW p \in Procs, FreeSender(p) \/ FreeReceiver(p)
      PROVE  [Pipe!Next]_(Pipe!vars)
  <2>1. LiveSenders = {} /\ LiveSenders' = {}
    BY <1>9 DEF FreeSender, FreeReceiver, FreedOnce, Freeing, Referrers, Referring, Procs
  <2>2. pc[Rx] # "live" /\ pc'[Rx] # "live"
    BY <1>9 DEF FreeSender, FreeReceiver, FreedOnce, Freeing, Referrers, Referring, Procs
  <2>3. receiver = NoFd
    BY <2>2 DEF ReceiverSlotTells
  <2>4. open' = open \ {sender} \/ open' = open \ {receiver}
    BY <1>9 DEF FreeSender, FreeReceiver
  <2>5. open' = open \/ open' = open \ {SenderFd}
    <3>1. sender \in {SenderFd, NoFd} /\ NoFd \notin open
      BY ChannelAssumption
    <3> QED
      BY <2>3, <2>4, <3>1
  <2> QED
    BY <2>1, <2>2, <2>5 DEF Pipe!Next, Pipe!CloseWriteEnd
<1>10. CASE UNCHANGED vars
  BY <1>10 DEF vars
<1> QED
  BY <1>1, <1>2, <1>3, <1>4, <1>5, <1>6, <1>7, <1>8, <1>9, <1>10
  DEF Next, Progress, Terminated, SenderAsFd, ReceiverAsFd, Pipe!Next, Procs

THEOREM PipeImplemented == Spec => ImplementsPipe
<1>1. Init => Pipe!Init
  BY ChannelAssumption DEF Init, Pipe!Init, LiveSenders, Procs, Fds
<1>2. LatestInv /\ LatestInv' /\ [Next]_vars
        => [Pipe!Next \/ misled']_(Pipe!vars)
  BY PipeStep
<1> QED
  BY <1>1, <1>2, LatestHolds, PTL DEF Spec, ImplementsPipe

-----------------------------------------------------------------------------
(* The Channel is not freed before somebody set out to free it: a slot that *)
(* is still full has a handle that refers to it, or that is about to empty  *)
(* it.                                                                      *)
SlotsTended ==
  /\ sender # NoFd => Referrers # {} \/ \E p \in Procs : pc[p] = "freeSender"
  /\ receiver # NoFd => Referrers # {} \/ \E p \in Procs : pc[p] \in Freeing

(* SlotsTended is kept: the last reference is released into freeSender.     *)
LEMMA TendedStep ==
  ASSUME Inv, SlotsTended, [Next]_vars
  PROVE  SlotsTended'
<1> USE DEF Inv, TypeOK, SlotsTended, Freeing
<1>1. CASE \E h, c \in Senders :
             Clone(h, c) /\ c \notin Referrers /\ Referrers' = Referrers \cup {c}
  BY <1>1
<1>2. CASE \E p \in Referrers : Release(p) /\ Referrers' = Referrers \ {p}
  <2>1. PICK p \in Referrers : Release(p) /\ Referrers' = Referrers \ {p}
    BY <1>2
  <2>2. p \in Procs
    BY DEF Referrers
  <2>3. CASE strong = 1
    BY <2>1, <2>2, <2>3 DEF Release
  <2>4. CASE strong # 1
    <3>0. Cardinality(Referrers \ {p}) = Cardinality(Referrers) - 1
      BY ReferrersFinite, FS_RemoveElement
    <3>1. Cardinality(Referrers \ {p}) # 0
      BY <2>4, <3>0, ReferrersFinite DEF CountExact
    <3>2. Referrers' # {}
      BY <2>1, <3>1, FS_EmptySet
    <3> QED
      BY <3>2
  <2> QED
    BY <2>3, <2>4
<1>3. CASE Referrers' = Referrers /\ strong' = strong
  <2>1. CASE Referrers # {}
    BY <1>3, <2>1
  <2>2. CASE Referrers = {}
    <3>1. \A p \in Procs : pc[p] \in Freeing \cup {"absent"}
      BY <2>2 DEF Referrers, Phases
    <3>2. \/ \E p \in Procs : FreeSender(p) \/ FreeReceiver(p)
          \/ UNCHANGED <<pc, sender, receiver>>
      BY <3>1
      DEF Next, Progress, Terminated, SenderAsFd, ReceiverAsFd, AsFd, Procs, vars,
          Clone, AskReceiver, DropSender, DropReceiver, CheckReceiver, SwapSender,
          CloseHand, Release
    <3>3. ASSUME NEW p \in Procs, FreeSender(p) PROVE SlotsTended'
      BY <3>3 DEF FreeSender
    <3>4. ASSUME NEW p \in Procs, FreeReceiver(p) PROVE SlotsTended'
      <4>1. \A q \in Procs : pc[q] # "freeSender"
        BY <3>4 DEF FreeReceiver, FreedOnce
      <4>2. sender = NoFd /\ sender' = NoFd /\ receiver' = NoFd
        BY <2>2, <3>4, <4>1 DEF FreeReceiver
      <4> QED
        BY <4>2
    <3> QED
      BY <1>3, <3>2, <3>3, <3>4
  <2> QED
    BY <2>1, <2>2
<1> QED
  BY <1>1, <1>2, <1>3, ReferrersStep

(* Once every handle is gone, both ends are closed: the safety half of      *)
(* Teardown, which also says that the handles get there.                    *)
NoneLeaked == (\A p \in Procs : pc[p] = "absent") => open = {}

(* NoneLeaked holds whatever the loads return.                              *)
THEOREM NothingStaysOpen == Spec => []NoneLeaked
<1>1. Init => SlotsTended
  <2> SUFFICES ASSUME Init PROVE Referrers # {}
    BY DEF SlotsTended
  <2>1. Rx \in Referrers
    BY DEF Init, Referrers, Referring, Procs
  <2> QED
    BY <2>1
<1>2. Inv /\ SlotsTended /\ [Next]_vars => SlotsTended'
  BY TendedStep
<1>3. Inv /\ SlotsTended => NoneLeaked
  <2> SUFFICES ASSUME Inv, SlotsTended, \A p \in Procs : pc[p] = "absent"
               PROVE  open = {}
    BY DEF NoneLeaked
  <2>1. Referrers = {} /\ \A p \in Procs : pc[p] \notin Freeing /\ pc[p] # "close"
    BY DEF Referrers, Referring, Freeing
  <2>2. sender = NoFd /\ receiver = NoFd
    BY <2>1 DEF SlotsTended, Freeing
  <2>3. \A p \in Procs : hand[p] = NoFd
    BY <2>1 DEF Inv, WriteEndPlaced, ReadEndPlaced, Procs
  <2> QED
    BY <2>2, <2>3, ChannelAssumption
    DEF Inv, TypeOK, WriteEndPlaced, ReadEndPlaced, Procs, Fds
<1> QED
  BY <1>1, <1>2, <1>3, InvHolds, PTL DEF Spec

-----------------------------------------------------------------------------
(* What the Channel does to either slot and to the descriptors in the       *)
(* handles' hands is what threads may do to an AtomicOption, and so to an   *)
(* AtomicFd, which implements one.                                          *)
SenderSlot == INSTANCE AtomicOption
                WITH Threads <- Procs, Resources <- Fds, Nothing <- NoFd,
                     slot <- sender, held <- hand

ReceiverSlot == INSTANCE AtomicOption
                  WITH Threads <- Procs, Resources <- Fds, Nothing <- NoFd,
                       slot <- receiver, held <- hand

SlotsAreOptions ==
  /\ [][SenderSlot!Next]_(SenderSlot!vars)
  /\ [][ReceiverSlot!Next]_(ReceiverSlot!vars)

(* Each step is one on each slot, or leaves it alone. *)
LEMMA SlotStep ==
  ASSUME Inv, [Next]_vars
  PROVE  /\ [SenderSlot!Next]_(SenderSlot!vars)
         /\ [ReceiverSlot!Next]_(ReceiverSlot!vars)
<1> DEFINE Goal == /\ [SenderSlot!Next]_(SenderSlot!vars)
                   /\ [ReceiverSlot!Next]_(ReceiverSlot!vars)
<1> USE ChannelAssumption DEF Inv, TypeOK, Procs, Fds, SenderSlot!vars, ReceiverSlot!vars
<1>1. ASSUME UNCHANGED <<sender, receiver, hand>> PROVE Goal
  BY <1>1
<1>2. ASSUME NEW h \in Senders, SwapSender(h) PROVE Goal
  <2>1. hand[h] = NoFd
    BY <1>2 DEF SwapSender, WriteEndPlaced
  <2>2. SenderSlot!Exchange(h)
    BY <1>2, <2>1 DEF SwapSender, SenderSlot!Exchange
  <2>3. ReceiverSlot!Acquire(h) \/ hand' = hand
    <3>1. CASE sender = NoFd
      BY <1>2, <2>1, <3>1 DEF SwapSender
    <3>2. CASE sender = SenderFd
      <4>1. SenderFd \in ReceiverSlot!Unowned
        BY <3>2 DEF ReceiverSlot!Unowned, WriteEndPlaced, ReadEndPlaced
      <4> QED
        BY <1>2, <2>1, <3>2, <4>1 DEF SwapSender, ReceiverSlot!Acquire
    <3> QED
      BY <3>1, <3>2
  <2> QED
    BY <1>2, <2>2, <2>3 DEF SwapSender, SenderSlot!Next, ReceiverSlot!Next
<1>3. CASE DropReceiver
  <2>1. hand[Rx] = NoFd
    BY <1>3 DEF DropReceiver, ReadEndPlaced
  <2>2. ReceiverSlot!Exchange(Rx)
    BY <1>3, <2>1 DEF DropReceiver, ReceiverSlot!Exchange
  <2>3. receiver = ReceiverFd
    BY <1>3 DEF DropReceiver, ReceiverSlotTells
  <2>4. ReceiverFd \in SenderSlot!Unowned
    BY <2>3 DEF SenderSlot!Unowned, WriteEndPlaced, ReadEndPlaced
  <2>5. SenderSlot!Acquire(Rx)
    BY <1>3, <2>1, <2>3, <2>4 DEF DropReceiver, SenderSlot!Acquire
  <2> QED
    BY <2>2, <2>5 DEF SenderSlot!Next, ReceiverSlot!Next
<1>4. ASSUME NEW p \in Procs, CloseHand(p) PROVE Goal
  <2>1. SenderSlot!Discard(p) /\ ReceiverSlot!Discard(p)
    BY <1>4 DEF CloseHand, SenderSlot!Discard, ReceiverSlot!Discard
  <2> QED
    BY <2>1 DEF SenderSlot!Next, ReceiverSlot!Next
<1>5. ASSUME NEW p \in Procs, FreeSender(p) PROVE Goal
  <2>1. SenderSlot!Clear /\ UNCHANGED <<receiver, hand>>
    BY <1>5 DEF FreeSender, SenderSlot!Clear
  <2> QED
    BY <2>1 DEF SenderSlot!Next
<1>6. ASSUME NEW p \in Procs, FreeReceiver(p) PROVE Goal
  <2>1. ReceiverSlot!Clear /\ UNCHANGED <<sender, hand>>
    BY <1>6 DEF FreeReceiver, ReceiverSlot!Clear
  <2> QED
    BY <2>1 DEF ReceiverSlot!Next
<1>7. \/ \E h \in Senders : SwapSender(h)
      \/ DropReceiver
      \/ \E p \in Procs : CloseHand(p) \/ FreeSender(p) \/ FreeReceiver(p)
      \/ UNCHANGED <<sender, receiver, hand>>
  BY DEF Next, Progress, Terminated, SenderAsFd, ReceiverAsFd, AsFd, vars, Clone,
         AskReceiver, DropSender, CheckReceiver, Release
<1> HIDE DEF Inv, TypeOK, Procs, Fds, SenderSlot!vars, ReceiverSlot!vars
<1> QED
  BY <1>1, <1>2, <1>3, <1>4, <1>5, <1>6, <1>7

(***************************************************************************)
(* Neither slot is ever used but by the operations of an atomic option: a  *)
(* descriptor is in it or was taken out whole, by one handle.              *)
(***************************************************************************)
THEOREM SlotsImplemented == Spec => SlotsAreOptions
<1>1. Inv /\ [Next]_vars => /\ [SenderSlot!Next]_(SenderSlot!vars)
                           /\ [ReceiverSlot!Next]_(ReceiverSlot!vars)
  BY SlotStep
<1> QED
  BY <1>1, InvHolds, PTL DEF Spec, SlotsAreOptions
=============================================================================
