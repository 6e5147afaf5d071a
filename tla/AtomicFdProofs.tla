--------------------------- MODULE AtomicFdProofs ---------------------------
(***************************************************************************)
(* What AtomicFd guarantees for every set of threads and every size of the *)
(* kernel's table.                                                         *)
(***************************************************************************)
EXTENDS AtomicFd, TLAPS

-----------------------------------------------------------------------------
(* The types of the variables are kept by every action. *)
LEMMA TypeOKStep ==
  ASSUME Inv, [Next]_vars
  PROVE  TypeOK'
<1> USE AtomicFdAssumption DEF Inv, TypeOK, Numbers, Bits, None
<1>1. ASSUME NEW t \in Threads, Open(t) PROVE TypeOK'
  BY <1>1 DEF Open, Opens, Unused, Free
<1>2. ASSUME NEW t \in Threads, Close(t) PROVE TypeOK'
  BY <1>2 DEF Close, Closed, Lent
<1>3. ASSUME NEW t \in Threads, Swap(t) PROVE TypeOK'
  BY <1>3 DEF Swap
<1>4. ASSUME NEW t \in Threads, Load(t) PROVE TypeOK'
  BY <1>4 DEF Load, TokenOf
<1>5. ASSUME NEW t \in Threads, EndBorrow(t) PROVE TypeOK'
  BY <1>5 DEF EndBorrow
<1>6. ASSUME NEW t \in Threads, Duplicate(t) PROVE TypeOK'
  BY <1>6 DEF Duplicate, Opens, Unused, Free, FirstAboveStdio
<1>7. ASSUME NEW t \in Threads, New(t) PROVE TypeOK'
  BY <1>7 DEF New
<1>8. ASSUME NEW t \in Threads, IntoInner(t) PROVE TypeOK'
  BY <1>8 DEF IntoInner
<1>9. CASE Drop
  BY <1>9 DEF Drop, Closed, Lent
<1>10. CASE UNCHANGED vars
  BY <1>10 DEF vars
<1> QED
  BY <1>1, <1>2, <1>3, <1>4, <1>5, <1>6, <1>7, <1>8, <1>9, <1>10 DEF Next

(* A number changes hands but is never held twice. *)
LEMMA OwnedOnceStep ==
  ASSUME Inv, [Next]_vars
  PROVE  OwnedOnce'
<1> USE AtomicFdAssumption DEF Inv, TypeOK, OwnedOnce, OwnedIffOpen, Numbers, Bits, None
<1>1. ASSUME NEW t \in Threads, Open(t) PROVE OwnedOnce'
  BY <1>1 DEF Open, Opens, Unused, Free
<1>2. ASSUME NEW t \in Threads, Close(t) PROVE OwnedOnce'
  BY <1>2 DEF Close, Closed, Lent
<1>3. ASSUME NEW t \in Threads, Swap(t) PROVE OwnedOnce'
  BY <1>3 DEF Swap
<1>4. ASSUME NEW t \in Threads, Load(t) PROVE OwnedOnce'
  BY <1>4 DEF Load
<1>5. ASSUME NEW t \in Threads, EndBorrow(t) PROVE OwnedOnce'
  BY <1>5 DEF EndBorrow
<1>6. ASSUME NEW t \in Threads, Duplicate(t) PROVE OwnedOnce'
  BY <1>6 DEF Duplicate, Opens, Unused, Free, FirstAboveStdio
<1>7. ASSUME NEW t \in Threads, New(t) PROVE OwnedOnce'
  BY <1>7 DEF New
<1>8. ASSUME NEW t \in Threads, IntoInner(t) PROVE OwnedOnce'
  BY <1>8 DEF IntoInner
<1>9. CASE Drop
  BY <1>9 DEF Drop, Closed, Lent
<1>10. CASE UNCHANGED vars
  BY <1>10 DEF vars
<1> QED
  BY <1>1, <1>2, <1>3, <1>4, <1>5, <1>6, <1>7, <1>8, <1>9, <1>10 DEF Next

(* What is opened is owned at once, what is closed was owned. *)
LEMMA OwnedIffOpenStep ==
  ASSUME Inv, [Next]_vars
  PROVE  OwnedIffOpen'
<1> USE AtomicFdAssumption DEF Inv, TypeOK, OwnedOnce, OwnedIffOpen, Numbers, Bits, None
<1>1. ASSUME NEW t \in Threads, Open(t) PROVE OwnedIffOpen'
  BY <1>1 DEF Open, Opens, Unused, Free
<1>2. ASSUME NEW t \in Threads, Close(t) PROVE OwnedIffOpen'
  BY <1>2 DEF Close, Closed, Lent
<1>3. ASSUME NEW t \in Threads, Swap(t) PROVE OwnedIffOpen'
  BY <1>3 DEF Swap
<1>4. ASSUME NEW t \in Threads, Load(t) PROVE OwnedIffOpen'
  BY <1>4 DEF Load
<1>5. ASSUME NEW t \in Threads, EndBorrow(t) PROVE OwnedIffOpen'
  BY <1>5 DEF EndBorrow
<1>6. ASSUME NEW t \in Threads, Duplicate(t) PROVE OwnedIffOpen'
  BY <1>6 DEF Duplicate, Opens, Unused, Free, FirstAboveStdio
<1>7. ASSUME NEW t \in Threads, New(t) PROVE OwnedIffOpen'
  BY <1>7 DEF New
<1>8. ASSUME NEW t \in Threads, IntoInner(t) PROVE OwnedIffOpen'
  BY <1>8 DEF IntoInner
<1>9. CASE Drop
  BY <1>9 DEF Drop, Closed, Lent
<1>10. CASE UNCHANGED vars
  BY <1>10 DEF vars
<1> QED
  BY <1>1, <1>2, <1>3, <1>4, <1>5, <1>6, <1>7, <1>8, <1>9, <1>10 DEF Next

(* A number is opened under a token that no other number has. *)
LEMMA TokensDistinctStep ==
  ASSUME Inv, [Next]_vars
  PROVE  TokensDistinct'
<1> USE AtomicFdAssumption DEF Inv, TypeOK, TokensDistinct, Numbers, Bits, None
<1>1. ASSUME NEW t \in Threads, Open(t) PROVE TokensDistinct'
  BY <1>1 DEF Open, Opens, Unused, Free
<1>2. ASSUME NEW t \in Threads, Close(t) PROVE TokensDistinct'
  BY <1>2 DEF Close, Closed, Lent
<1>3. ASSUME NEW t \in Threads, Swap(t) PROVE TokensDistinct'
  BY <1>3 DEF Swap
<1>4. ASSUME NEW t \in Threads, Load(t) PROVE TokensDistinct'
  BY <1>4 DEF Load
<1>5. ASSUME NEW t \in Threads, EndBorrow(t) PROVE TokensDistinct'
  BY <1>5 DEF EndBorrow
<1>6. ASSUME NEW t \in Threads, Duplicate(t) PROVE TokensDistinct'
  BY <1>6 DEF Duplicate, Opens, Unused, Free, FirstAboveStdio
<1>7. ASSUME NEW t \in Threads, New(t) PROVE TokensDistinct'
  BY <1>7 DEF New
<1>8. ASSUME NEW t \in Threads, IntoInner(t) PROVE TokensDistinct'
  BY <1>8 DEF IntoInner
<1>9. CASE Drop
  BY <1>9 DEF Drop, Closed, Lent
<1>10. CASE UNCHANGED vars
  BY <1>10 DEF vars
<1> QED
  BY <1>1, <1>2, <1>3, <1>4, <1>5, <1>6, <1>7, <1>8, <1>9, <1>10 DEF Next

(* A borrowed number is not closed, so it is not opened anew either. *)
LEMMA BorrowsValidStep ==
  ASSUME Inv, [Next]_vars
  PROVE  BorrowsValid'
<1> USE AtomicFdAssumption DEF Inv, TypeOK, BorrowsValid, OwnedIffOpen, TokenOf, Numbers, Bits, None
<1>1. ASSUME NEW t \in Threads, Open(t) PROVE BorrowsValid'
  BY <1>1 DEF Open, Opens, Unused, Free
<1>2. ASSUME NEW t \in Threads, Close(t) PROVE BorrowsValid'
  BY <1>2 DEF Close, Closed, Lent
<1>3. ASSUME NEW t \in Threads, Swap(t) PROVE BorrowsValid'
  BY <1>3 DEF Swap
<1>4. ASSUME NEW t \in Threads, Load(t) PROVE BorrowsValid'
  BY <1>4 DEF Load
<1>5. ASSUME NEW t \in Threads, EndBorrow(t) PROVE BorrowsValid'
  BY <1>5 DEF EndBorrow
<1>6. ASSUME NEW t \in Threads, Duplicate(t) PROVE BorrowsValid'
  BY <1>6 DEF Duplicate, Opens, Unused, Free, FirstAboveStdio
<1>7. ASSUME NEW t \in Threads, New(t) PROVE BorrowsValid'
  BY <1>7 DEF New
<1>8. ASSUME NEW t \in Threads, IntoInner(t) PROVE BorrowsValid'
  BY <1>8 DEF IntoInner
<1>9. CASE Drop
  BY <1>9 DEF Drop, Closed, Lent
<1>10. CASE UNCHANGED vars
  BY <1>10 DEF vars
<1> QED
  BY <1>1, <1>2, <1>3, <1>4, <1>5, <1>6, <1>7, <1>8, <1>9, <1>10 DEF Next

(* A duplicate is opened at 3 or above, and keeps its number. *)
LEMMA DupsAboveStdioStep ==
  ASSUME Inv, [Next]_vars
  PROVE  DupsAboveStdio'
<1> USE AtomicFdAssumption DEF Inv, TypeOK, DupsAboveStdio, Stdio, TokenOf, TokensDistinct, Numbers, Bits, None
<1>1. ASSUME NEW t \in Threads, Open(t) PROVE DupsAboveStdio'
  BY <1>1 DEF Open, Opens, Unused, Free
<1>2. ASSUME NEW t \in Threads, Close(t) PROVE DupsAboveStdio'
  BY <1>2 DEF Close, Closed, Lent
<1>3. ASSUME NEW t \in Threads, Swap(t) PROVE DupsAboveStdio'
  BY <1>3 DEF Swap
<1>4. ASSUME NEW t \in Threads, Load(t) PROVE DupsAboveStdio'
  BY <1>4 DEF Load
<1>5. ASSUME NEW t \in Threads, EndBorrow(t) PROVE DupsAboveStdio'
  BY <1>5 DEF EndBorrow
<1>6. ASSUME NEW t \in Threads, Duplicate(t) PROVE DupsAboveStdio'
  BY <1>6 DEF Duplicate, Opens, Unused, Free, FirstAboveStdio
<1>7. ASSUME NEW t \in Threads, New(t) PROVE DupsAboveStdio'
  BY <1>7 DEF New
<1>8. ASSUME NEW t \in Threads, IntoInner(t) PROVE DupsAboveStdio'
  BY <1>8 DEF IntoInner
<1>9. CASE Drop
  BY <1>9 DEF Drop, Closed, Lent
<1>10. CASE UNCHANGED vars
  BY <1>10 DEF vars
<1> QED
  BY <1>1, <1>2, <1>3, <1>4, <1>5, <1>6, <1>7, <1>8, <1>9, <1>10 DEF Next


(***************************************************************************)
(* Every open number has one owner and every owner an open number; a       *)
(* borrow taken under the contract of load_borrowed stays what it was; a   *)
(* duplicate stays off the numbers of stdio.                               *)
(***************************************************************************)
THEOREM InvHolds == Spec => []Inv
<1>1. Init => Inv
  <2> SUFFICES ASSUME Init PROVE Inv
    OBVIOUS
  <2>1. TypeOK
    BY DEF Init, TypeOK, Bits
  <2>2. OwnedOnce /\ BorrowsValid /\ DupsAboveStdio
    BY DEF Init, OwnedOnce, BorrowsValid, DupsAboveStdio, TokenOf
  <2>3. OwnedIffOpen /\ TokensDistinct
    BY AtomicFdAssumption DEF Init, OwnedIffOpen, TokensDistinct, Numbers, None
  <2> QED
    BY <2>1, <2>2, <2>3 DEF Inv
<1>2. Inv /\ [Next]_vars => Inv'
  BY TypeOKStep, OwnedOnceStep, OwnedIffOpenStep, TokensDistinctStep,
     BorrowsValidStep, DupsAboveStdioStep DEF Inv
<1> QED
  BY <1>1, <1>2, PTL DEF Spec

(* A borrowed descriptor is not confused with a later one of its number. *)
THEOREM BorrowsStayValid == Spec => []BorrowsValid
BY InvHolds, PTL DEF Inv

(* No duplicate made by try_from(BorrowedFd) takes a number of stdio. *)
THEOREM StdioIsSpared == Spec => []DupsAboveStdio
BY InvHolds, PTL DEF Inv

-----------------------------------------------------------------------------
(***************************************************************************)
(* The doc of AtomicFd: it is equivalent to an atomic Option<OwnedFd>.     *)
(***************************************************************************)
LEMMA OptionStep ==
  ASSUME Inv, Inv', [Next]_vars
  PROVE  [Option!Next]_(Option!vars)
<1> DEFINE Slot == TokenOf(fd)
           Held == [t \in Threads |-> TokenOf(owned[t])]
<1> USE AtomicFdAssumption DEF Inv, TypeOK, TokenOf, Numbers, Bits, None
<1>1. ASSUME NEW t \in Threads, NEW min, NEW n \in Numbers, NEW k \in Tokens,
             Opens(min, n, k), owned[t] = None, owned' = [owned EXCEPT ![t] = n],
             fd' = fd
      PROVE  Option!Acquire(t)
  <2>1. Held[t] = NoToken
    BY <1>1
  <2>2. n # fd /\ \A u \in Threads : owned[u] # n
    BY <1>1 DEF Opens, Free, OwnedIffOpen
  <2>3. Slot' = Slot
    BY <1>1, <2>2 DEF Opens
  <2>4. Held' = [Held EXCEPT ![t] = k]
    BY <1>1, <2>2 DEF Opens
  <2>5. k # Slot /\ \A u \in Threads : k # Held[u]
    BY <1>1 DEF Opens, Unused
  <2> QED
    BY <2>1, <2>3, <2>4, <2>5 DEF Option!Acquire, Option!Unowned
<1>2. ASSUME NEW t \in Threads, Open(t) \/ Duplicate(t) PROVE Option!Acquire(t)
  BY <1>1, <1>2 DEF Open, Duplicate
<1>3. ASSUME NEW t \in Threads, Close(t) PROVE Option!Discard(t)
  <2>1. Slot' = Slot
    BY <1>3 DEF Close, Closed, OwnedOnce
  <2>2. Held' = [Held EXCEPT ![t] = NoToken]
    BY <1>3 DEF Close, Closed, OwnedOnce
  <2> QED
    BY <2>1, <2>2 DEF Option!Discard
<1>4. ASSUME NEW t \in Threads, Swap(t) \/ New(t) \/ IntoInner(t)
      PROVE  Option!Exchange(t)
  <2>1. Slot' = Held[t]
    BY <1>4 DEF Swap, New, IntoInner
  <2>2. Held' = [Held EXCEPT ![t] = Slot]
    BY <1>4 DEF Swap, New, IntoInner
  <2> QED
    BY <2>1, <2>2 DEF Option!Exchange
<1>5. ASSUME NEW t \in Threads, Load(t) \/ EndBorrow(t)
      PROVE  UNCHANGED Option!vars
  BY <1>5 DEF Load, EndBorrow, Option!vars
<1>6. CASE Drop
  <2>1. Slot' = NoToken
    BY <1>6 DEF Drop
  <2>2. Held' = Held
    BY <1>6 DEF Drop, Closed, OwnedOnce
  <2> QED
    BY <2>1, <2>2 DEF Option!Next, Option!Clear
<1>7. CASE UNCHANGED vars
  BY <1>7 DEF vars, Option!vars
<1> QED
  BY <1>2, <1>3, <1>4, <1>5, <1>6, <1>7 DEF Next, Option!Next

THEOREM OptionImplemented == Spec => ImplementsOption
<1>1. Init => Option!Init
  BY DEF Init, Option!Init, TokenOf, None
<1>2. Inv /\ Inv' /\ [Next]_vars => [Option!Next]_(Option!vars)
  BY OptionStep
<1> QED
  BY <1>1, <1>2, InvHolds, PTL DEF Spec, ImplementsOption, Option!Spec
=============================================================================
