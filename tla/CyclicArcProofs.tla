-------------------------- MODULE CyclicArcProofs --------------------------
(***************************************************************************)
(* What the fallible cyclic constructors guarantee for every finite set of *)
(* threads.                                                                *)
(***************************************************************************)
EXTENDS CyclicArc, FiniteSetTheorems, TLAPS

-----------------------------------------------------------------------------
(* The holders are finitely many, and one more or less changes their number *)
(* by one.                                                                  *)
LEMMA SetSizes ==
  ASSUME NEW S \in SUBSET Owners
  PROVE  /\ Cardinality(S) \in Nat
         /\ Cardinality(S) = 0 <=> S = {}
         /\ \A t \in Owners :
              /\ t \notin S => Cardinality(S \cup {t}) = Cardinality(S) + 1
              /\ t \in S => Cardinality(S \ {t}) = Cardinality(S) - 1
<1>1. IsFiniteSet(Owners)
  BY CyclicArcAssumption, FS_AddElement DEF Owners
<1>2. IsFiniteSet(S)
  BY <1>1, FS_Subset
<1> QED
  BY <1>2, FS_CardinalityType, FS_EmptySet, FS_AddElement, FS_RemoveElement

LEMMA Sizes ==
  ASSUME TypeOK
  PROVE  /\ Cardinality(arcs) \in Nat
         /\ Cardinality(weaks) \in Nat
         /\ Cardinality(arcs) = 0 <=> arcs = {}
         /\ Cardinality(weaks) = 0 <=> weaks = {}
         /\ \A t \in Owners :
              /\ t \notin arcs => Cardinality(arcs \cup {t}) = Cardinality(arcs) + 1
              /\ t \in arcs => Cardinality(arcs \ {t}) = Cardinality(arcs) - 1
              /\ t \notin weaks => Cardinality(weaks \cup {t}) = Cardinality(weaks) + 1
              /\ t \in weaks => Cardinality(weaks \ {t}) = Cardinality(weaks) - 1
BY SetSizes DEF TypeOK

(* A reference that is held is counted. *)
LEMMA HeldCounts ==
  ASSUME Inv
  PROVE  /\ \A t \in arcs : strong > 0 /\ pc = "ok"
         /\ \A t \in weaks : weak > 0
         /\ strong > 0 => weak > 0
         /\ inner => weak > 0
         /\ strong = 1 => \A t \in arcs : arcs \ {t} = {}
<1>1. TypeOK /\ CountsExact /\ ArcsHaveAValue
  BY DEF Inv
<1>2. CallStrong \in Nat /\ CallWeak \in Nat
  BY DEF CallStrong, CallWeak, One
<1>3. ASSUME NEW t \in arcs PROVE strong > 0 /\ (strong = 1 => arcs \ {t} = {})
  <2>1. Cardinality(arcs) \in Nat /\ Cardinality(arcs) # 0
    BY <1>1, Sizes
  <2>2. t \in Owners /\ Cardinality(arcs \ {t}) = Cardinality(arcs) - 1
    BY <1>1, Sizes DEF TypeOK
  <2>3. arcs \ {t} \in SUBSET Owners
    BY <1>1 DEF TypeOK
  <2>4. Cardinality(arcs \ {t}) = 0 => arcs \ {t} = {}
    BY <2>3, SetSizes
  <2> QED
    BY <1>1, <1>2, <2>1, <2>2, <2>4 DEF CountsExact
<1>4. ASSUME NEW t \in weaks PROVE weak > 0
  <2>1. Cardinality(weaks) \in Nat /\ Cardinality(weaks) # 0
    BY <1>1, Sizes
  <2> QED
    BY <1>1, <1>2, <2>1 DEF CountsExact, One
<1>5. strong > 0 \/ inner => weak > 0
  BY <1>1, <1>2, Sizes DEF CountsExact, One
<1> QED
  BY <1>1, <1>3, <1>4, <1>5 DEF ArcsHaveAValue

-----------------------------------------------------------------------------
(* Types: no count goes below zero. *)
LEMMA TypeStep ==
  ASSUME Inv, [Next]_vars
  PROVE  TypeOK'
<1> USE DEF Inv, TypeOK, CountsExact, CallStrong, CallWeak, One, Running, Over, Owners
<1>1. CASE Begin
  BY <1>1, Sizes DEF Begin, counts, held
<1>2. CASE InitOk
  BY <1>2, Sizes DEF InitOk, counts, held
<1>3. CASE InitErr
  BY <1>3, Sizes DEF InitErr, counts, held
<1>4. CASE InitPanics
  BY <1>4, Sizes DEF InitPanics, counts, held
<1>5. ASSUME NEW t \in Threads, HandOut(t) PROVE TypeOK'
  BY <1>5, Sizes DEF HandOut, counts, held
<1>6. CASE DropTemp
  BY <1>6, Sizes DEF DropTemp, GiveUpWeak, counts, held
<1>7. CASE WriteValue
  BY <1>7, Sizes DEF WriteValue, counts, held
<1>8. CASE WriteUninit
  BY <1>8, Sizes DEF WriteUninit, counts, held
<1>9. CASE CheckAlone
  BY <1>9, Sizes DEF CheckAlone, counts, held
<1>10. CASE DropUninit
  BY <1>10, Sizes DEF DropUninit, counts, held
<1>11. CASE DropShared
  BY <1>11, Sizes DEF DropShared, GiveUpWeak, counts, held
<1>12. CASE UnwindWeak
  BY <1>12, Sizes DEF UnwindWeak, GiveUpWeak, counts, held
<1>13. CASE Catch
  BY <1>13, Sizes DEF Catch, counts, held, IsInitError
<1>14. ASSUME NEW t \in Owners, Upgrade(t) PROVE TypeOK'
  BY <1>14, Sizes DEF Upgrade, counts, held, OthersRun, MayUpgrade
<1>15. ASSUME NEW t \in Owners, Read(t) PROVE TypeOK'
  BY <1>15, Sizes DEF Read, counts, held
<1>16. ASSUME NEW t \in Owners, Downgrade(t) PROVE TypeOK'
  BY <1>16, Sizes DEF Downgrade, counts, held
<1>17. ASSUME NEW t \in Owners, DropWeak(t) PROVE TypeOK'
  BY <1>17, Sizes, HeldCounts DEF DropWeak, GiveUpWeak, counts, held
<1>18. ASSUME NEW t \in Owners, DropArc(t) PROVE TypeOK'
  BY <1>18, Sizes, HeldCounts DEF DropArc, counts, held
<1>19. CASE DropValue
  <2>1. weak' \in Nat /\ memory' \in {"none", "allocated", "freed"} /\ strong' = strong
    BY <1>19, HeldCounts DEF DropValue, GiveUpWeak, counts
  <2> QED
    BY <1>19, <2>1 DEF DropValue
<1>20. CASE DropLastWeak
  BY <1>20, Sizes DEF DropLastWeak, GiveUpWeak, counts, held
<1>21. CASE UNCHANGED vars
  BY <1>21 DEF vars, counts, held
<1> QED
  BY <1>1, <1>2, <1>3, <1>4, <1>5, <1>6, <1>7, <1>8, <1>9, <1>10, <1>11, <1>12, <1>13, <1>14, <1>15, <1>16, <1>17, <1>18, <1>19, <1>20, <1>21
  DEF Next, Call, Others, Terminated

(* Every reference made or given up is counted, once. *)
LEMMA CountsStep ==
  ASSUME Inv, [Next]_vars
  PROVE  CountsExact'
<1> USE CyclicArcAssumption DEF Inv, TypeOK, CountsExact, CallStrong, CallWeak, One, ArcsHaveAValue, CallShape, Owners
<1>1. CASE Begin
  BY <1>1, Sizes DEF Begin, counts, held
<1>2. CASE InitOk
  BY <1>2, Sizes DEF InitOk, counts, held
<1>3. CASE InitErr
  BY <1>3, Sizes DEF InitErr, counts, held
<1>4. CASE InitPanics
  BY <1>4, Sizes DEF InitPanics, counts, held
<1>5. ASSUME NEW t \in Threads, HandOut(t) PROVE CountsExact'
  <2>1. weaks' = weaks \cup {t} /\ t \notin weaks /\ t \in Owners
    BY <1>5 DEF HandOut
  <2>2. Cardinality(weaks') = Cardinality(weaks) + 1
    BY <2>1, Sizes
  <2> QED
    BY <1>5, <2>2, Sizes DEF HandOut
<1>6. CASE DropTemp
  <2>1. weaks' = weaks /\ arcs' = arcs /\ inner' = inner /\ finishing' = finishing
    BY <1>6 DEF DropTemp, held
  <2>2. strong' = strong /\ weak' = weak - 1
    BY <1>6 DEF DropTemp, GiveUpWeak
  <2>3. CallStrong' = CallStrong /\ CallWeak' = CallWeak - 1
    BY <1>6 DEF DropTemp
  <2> QED
    BY <2>1, <2>2, <2>3, Sizes DEF CountsExact
<1>7. CASE WriteValue
  <2>1. arcs' = {Caller} /\ strong = 0 /\ finishing = "no"
    BY <1>7, Sizes DEF WriteValue
  <2>2. Cardinality(arcs') = 1
    BY <2>1, FS_Singleton
  <2> QED
    BY <1>7, <2>1, <2>2, Sizes DEF WriteValue
<1>8. CASE WriteUninit
  BY <1>8, Sizes DEF WriteUninit, counts, held
<1>9. CASE CheckAlone
  BY <1>9, Sizes DEF CheckAlone, counts, held
<1>10. CASE DropUninit
  BY <1>10, Sizes DEF DropUninit, counts, held
<1>11. CASE DropShared
  BY <1>11, Sizes DEF DropShared, GiveUpWeak, counts, held
<1>12. CASE UnwindWeak
  BY <1>12, Sizes DEF UnwindWeak, GiveUpWeak, counts, held
<1>13. CASE Catch
  BY <1>13, Sizes DEF Catch, counts, held, IsInitError
<1>14. ASSUME NEW t \in Owners, Upgrade(t) PROVE CountsExact'
  <2>1. Cardinality(arcs') = Cardinality(arcs) + 1
    BY <1>14, Sizes DEF Upgrade
  <2> QED
    BY <1>14, <2>1, Sizes DEF Upgrade
<1>15. ASSUME NEW t \in Owners, Read(t) PROVE CountsExact'
  BY <1>15, Sizes DEF Read, counts, held
<1>16. ASSUME NEW t \in Owners, Downgrade(t) PROVE CountsExact'
  <2>1. Cardinality(weaks') = Cardinality(weaks) + 1
    BY <1>16, Sizes DEF Downgrade
  <2> QED
    BY <1>16, <2>1, Sizes DEF Downgrade
<1>17. ASSUME NEW t \in Owners, DropWeak(t) PROVE CountsExact'
  <2>1. Cardinality(weaks') = Cardinality(weaks) - 1
    BY <1>17, Sizes DEF DropWeak
  <2> QED
    BY <1>17, <2>1, Sizes DEF DropWeak, GiveUpWeak
<1>18. ASSUME NEW t \in Owners, DropArc(t) PROVE CountsExact'
  <2>1. Cardinality(arcs') = Cardinality(arcs) - 1
    BY <1>18, Sizes DEF DropArc
  <2>2. strong \in Nat /\ strong > 0 /\ strong' = strong - 1
    BY <1>18, HeldCounts DEF DropArc
  <2>3. strong > 0 \/ finishing # "no"
    BY <2>2
  <2>4. strong' > 0 \/ finishing' # "no"
    BY <1>18, <2>2 DEF DropArc
  <2>5. weak' = weak /\ weaks' = weaks /\ inner' = inner /\ pc' = pc
    BY <1>18 DEF DropArc
  <2> QED
    BY <2>1, <2>2, <2>3, <2>4, <2>5, Sizes DEF CountsExact
<1>19. CASE DropValue
  BY <1>19, Sizes DEF DropValue, GiveUpWeak, counts, held
<1>20. CASE DropLastWeak
  BY <1>20, Sizes DEF DropLastWeak, GiveUpWeak, counts, held
<1>21. CASE UNCHANGED vars
  BY <1>21 DEF vars, counts, held
<1> QED
  BY <1>1, <1>2, <1>3, <1>4, <1>5, <1>6, <1>7, <1>8, <1>9, <1>10, <1>11, <1>12, <1>13, <1>14, <1>15, <1>16, <1>17, <1>18, <1>19, <1>20, <1>21
  DEF Next, Call, Others, Terminated

(* The memory goes with the last weak count. *)
LEMMA FreedStep ==
  ASSUME Inv, [Next]_vars
  PROVE  FreedIffUnreferenced'
<1> USE DEF Inv, TypeOK, FreedIffUnreferenced, CountsExact, CallStrong, CallWeak, One, ArcsHaveAValue
<1>1. CASE Begin
  BY <1>1, Sizes DEF Begin, counts, held
<1>2. CASE InitOk
  BY <1>2, Sizes DEF InitOk, counts, held
<1>3. CASE InitErr
  BY <1>3, Sizes DEF InitErr, counts, held
<1>4. CASE InitPanics
  BY <1>4, Sizes DEF InitPanics, counts, held
<1>5. ASSUME NEW t \in Threads, HandOut(t) PROVE FreedIffUnreferenced'
  BY <1>5, Sizes DEF HandOut, counts, held
<1>6. CASE DropTemp
  BY <1>6, Sizes DEF DropTemp, GiveUpWeak, counts, held
<1>7. CASE WriteValue
  BY <1>7, Sizes DEF WriteValue, counts, held
<1>8. CASE WriteUninit
  BY <1>8, Sizes DEF WriteUninit, counts, held
<1>9. CASE CheckAlone
  BY <1>9, Sizes DEF CheckAlone, counts, held
<1>10. CASE DropUninit
  BY <1>10, Sizes DEF DropUninit, counts, held
<1>11. CASE DropShared
  BY <1>11, Sizes DEF DropShared, GiveUpWeak, counts, held
<1>12. CASE UnwindWeak
  BY <1>12, Sizes DEF UnwindWeak, GiveUpWeak, counts, held
<1>13. CASE Catch
  BY <1>13, Sizes DEF Catch, counts, held, IsInitError
<1>14. ASSUME NEW t \in Owners, Upgrade(t) PROVE FreedIffUnreferenced'
  BY <1>14, Sizes DEF Upgrade, counts, held, OthersRun, MayUpgrade
<1>15. ASSUME NEW t \in Owners, Read(t) PROVE FreedIffUnreferenced'
  BY <1>15, Sizes DEF Read, counts, held
<1>16. ASSUME NEW t \in Owners, Downgrade(t) PROVE FreedIffUnreferenced'
  BY <1>16, Sizes, HeldCounts DEF Downgrade, counts, held
<1>17. ASSUME NEW t \in Owners, DropWeak(t) PROVE FreedIffUnreferenced'
  <2>1. weak > 0 /\ weak \in Nat /\ pc # "call"
    BY <1>17, HeldCounts DEF DropWeak, CallShape
  <2> QED
    BY <1>17, <2>1 DEF DropWeak, GiveUpWeak, FreedIffUnreferenced
<1>18. ASSUME NEW t \in Owners, DropArc(t) PROVE FreedIffUnreferenced'
  BY <1>18, Sizes DEF DropArc, counts, held
<1>19. CASE DropValue
  BY <1>19, Sizes DEF DropValue, GiveUpWeak, counts, held
<1>20. CASE DropLastWeak
  BY <1>20, Sizes DEF DropLastWeak, GiveUpWeak, counts, held
<1>21. CASE UNCHANGED vars
  BY <1>21 DEF vars, counts, held
<1> QED
  BY <1>1, <1>2, <1>3, <1>4, <1>5, <1>6, <1>7, <1>8, <1>9, <1>10, <1>11, <1>12, <1>13, <1>14, <1>15, <1>16, <1>17, <1>18, <1>19, <1>20, <1>21
  DEF Next, Call, Others, Terminated

(* No Arc<T> is made of an unwritten value. *)
LEMMA ArcsStep ==
  ASSUME Inv, [Next]_vars
  PROVE  ArcsHaveAValue'
<1> USE DEF Inv, TypeOK, CountsExact, CallStrong, One, ArcsHaveAValue, CallShape, Over
<1>1. CASE Begin
  BY <1>1, Sizes DEF Begin, counts, held
<1>2. CASE InitOk
  BY <1>2, Sizes DEF InitOk, counts, held
<1>3. CASE InitErr
  BY <1>3, Sizes DEF InitErr, counts, held
<1>4. CASE InitPanics
  BY <1>4, Sizes DEF InitPanics, counts, held
<1>5. ASSUME NEW t \in Threads, HandOut(t) PROVE ArcsHaveAValue'
  BY <1>5, Sizes DEF HandOut, counts, held
<1>6. CASE DropTemp
  BY <1>6, Sizes DEF DropTemp, GiveUpWeak, counts, held
<1>7. CASE WriteValue
  BY <1>7, Sizes DEF WriteValue, counts, held
<1>8. CASE WriteUninit
  BY <1>8, Sizes DEF WriteUninit, counts, held
<1>9. CASE CheckAlone
  BY <1>9, Sizes DEF CheckAlone, counts, held
<1>10. CASE DropUninit
  BY <1>10, Sizes DEF DropUninit, counts, held
<1>11. CASE DropShared
  BY <1>11, Sizes DEF DropShared, GiveUpWeak, counts, held
<1>12. CASE UnwindWeak
  BY <1>12, Sizes DEF UnwindWeak, GiveUpWeak, counts, held
<1>13. CASE Catch
  BY <1>13, Sizes DEF Catch, counts, held, IsInitError
<1>14. ASSUME NEW t \in Owners, Upgrade(t) PROVE ArcsHaveAValue'
  BY <1>14, Sizes DEF Upgrade, counts, held, OthersRun, MayUpgrade
<1>15. ASSUME NEW t \in Owners, Read(t) PROVE ArcsHaveAValue'
  BY <1>15, Sizes DEF Read, counts, held
<1>16. ASSUME NEW t \in Owners, Downgrade(t) PROVE ArcsHaveAValue'
  BY <1>16, Sizes DEF Downgrade, counts, held
<1>17. ASSUME NEW t \in Owners, DropWeak(t) PROVE ArcsHaveAValue'
  BY <1>17, Sizes DEF DropWeak, GiveUpWeak, counts, held
<1>18. ASSUME NEW t \in Owners, DropArc(t) PROVE ArcsHaveAValue'
  BY <1>18, Sizes, HeldCounts DEF DropArc, counts, held
<1>19. CASE DropValue
  BY <1>19, Sizes DEF DropValue, GiveUpWeak, counts, held
<1>20. CASE DropLastWeak
  BY <1>20, Sizes DEF DropLastWeak, GiveUpWeak, counts, held
<1>21. CASE UNCHANGED vars
  BY <1>21 DEF vars, counts, held
<1> QED
  BY <1>1, <1>2, <1>3, <1>4, <1>5, <1>6, <1>7, <1>8, <1>9, <1>10, <1>11, <1>12, <1>13, <1>14, <1>15, <1>16, <1>17, <1>18, <1>19, <1>20, <1>21
  DEF Next, Call, Others, Terminated

(* The error is there when it is taken. *)
LEMMA ShapeStep ==
  ASSUME Inv, [Next]_vars
  PROVE  CallShape' /\ ~undefined' /\ pc' # "aborted"
<1> USE DEF Inv, TypeOK, CountsExact, CallStrong, CallWeak, One, ArcsHaveAValue, CallShape, FreedIffUnreferenced, Over
<1>1. CASE Begin
  BY <1>1, Sizes DEF Begin, counts, held
<1>2. CASE InitOk
  BY <1>2, Sizes DEF InitOk, counts, held
<1>3. CASE InitErr
  BY <1>3, Sizes DEF InitErr, counts, held
<1>4. CASE InitPanics
  BY <1>4, Sizes DEF InitPanics, counts, held
<1>5. ASSUME NEW t \in Threads, HandOut(t) PROVE CallShape' /\ ~undefined' /\ pc' # "aborted"
  BY <1>5, Sizes DEF HandOut, counts, held
<1>6. CASE DropTemp
  BY <1>6, Sizes DEF DropTemp, GiveUpWeak, counts, held
<1>7. CASE WriteValue
  BY <1>7, Sizes DEF WriteValue, counts, held
<1>8. CASE WriteUninit
  BY <1>8, Sizes DEF WriteUninit, counts, held
<1>9. CASE CheckAlone
  BY <1>9, Sizes DEF CheckAlone, counts, held
<1>10. CASE DropUninit
  BY <1>10, Sizes DEF DropUninit, counts, held
<1>11. CASE DropShared
  BY <1>11, Sizes DEF DropShared, GiveUpWeak, counts, held
<1>12. CASE UnwindWeak
  BY <1>12, Sizes DEF UnwindWeak, GiveUpWeak, counts, held
<1>13. CASE Catch
  BY <1>13, Sizes DEF Catch, counts, held, IsInitError
<1>14. ASSUME NEW t \in Owners, Upgrade(t) PROVE CallShape' /\ ~undefined' /\ pc' # "aborted"
  BY <1>14, Sizes DEF Upgrade, counts, held, OthersRun, MayUpgrade
<1>15. ASSUME NEW t \in Owners, Read(t) PROVE CallShape' /\ ~undefined' /\ pc' # "aborted"
  BY <1>15, Sizes, HeldCounts DEF Read, counts, held
<1>16. ASSUME NEW t \in Owners, Downgrade(t) PROVE CallShape' /\ ~undefined' /\ pc' # "aborted"
  BY <1>16, Sizes DEF Downgrade, counts, held
<1>17. ASSUME NEW t \in Owners, DropWeak(t) PROVE CallShape' /\ ~undefined' /\ pc' # "aborted"
  BY <1>17, Sizes DEF DropWeak, GiveUpWeak, counts, held
<1>18. ASSUME NEW t \in Owners, DropArc(t) PROVE CallShape' /\ ~undefined' /\ pc' # "aborted"
  BY <1>18, Sizes DEF DropArc, counts, held
<1>19. CASE DropValue
  BY <1>19, Sizes DEF DropValue, GiveUpWeak, counts, held
<1>20. CASE DropLastWeak
  BY <1>20, Sizes DEF DropLastWeak, GiveUpWeak, counts, held
<1>21. CASE UNCHANGED vars
  BY <1>21 DEF vars, counts, held
<1> QED
  BY <1>1, <1>2, <1>3, <1>4, <1>5, <1>6, <1>7, <1>8, <1>9, <1>10, <1>11, <1>12, <1>13, <1>14, <1>15, <1>16, <1>17, <1>18, <1>19, <1>20, <1>21
  DEF Next, Call, Others, Terminated

(***************************************************************************)
(* The counts are exact, the memory is freed with its last reference, and  *)
(* every Arc<T> has its value, under every strategy and interleaving.      *)
(***************************************************************************)
THEOREM InvHolds == Spec => []Inv
<1>1. Init => Inv
  <2> SUFFICES ASSUME Init PROVE Inv
    OBVIOUS
  <2>1. Cardinality(arcs) = 0 /\ Cardinality(weaks) = 0
    BY FS_EmptySet DEF Init
  <2>2. TypeOK /\ CallShape /\ ArcsHaveAValue /\ FreedIffUnreferenced
    BY DEF Init, TypeOK, Running, CallShape, ArcsHaveAValue, FreedIffUnreferenced
  <2>3. CountsExact
    BY <2>1 DEF Init, CountsExact, CallStrong, CallWeak, One
  <2> QED
    BY <2>2, <2>3 DEF Init, Inv
<1>2. Inv /\ [Next]_vars => Inv'
  BY TypeStep, CountsStep, FreedStep, ArcsStep, ShapeStep DEF Inv
<1> QED
  BY <1>1, <1>2, PTL DEF Spec

(***************************************************************************)
(* Nobody reads or drops a T that was not written, and no error is taken   *)
(* that init did not return: for unchecked(), as long as its contract is   *)
(* kept.                                                                   *)
(***************************************************************************)
THEOREM NeverUndefined == Spec => []NoUndefined
BY InvHolds, PTL DEF Inv, NoUndefined

(* With the contract of unchecked() kept, its check never aborts. *)
THEOREM NoAbort == Spec => []NeverAborts
BY InvHolds, PTL DEF Inv, NeverAborts

(* The last reference is given up when the value is dropped and no Arc<T>   *)
(* is left.                                                                 *)
Emptied == memory = "freed" => value # "init" /\ arcs = {}

(* Emptied holds, whichever reference is the last.                          *)
LEMMA FreedLast == Inv => Emptied
<1> SUFFICES ASSUME Inv, memory = "freed" PROVE value # "init" /\ arcs = {}
  BY DEF Emptied
<1>1. weak = 0
  BY DEF Inv, FreedIffUnreferenced
<1>2. CallWeak \in Nat /\ One(inner) \in Nat
  BY DEF CallWeak, One
<1>3. weak \in Nat /\ (strong > 0 \/ finishing # "no" => weak > 0)
  BY <1>2, Sizes DEF Inv, TypeOK, CountsExact, One
<1>4. value = "init" => strong > 0 \/ finishing = "value"
  BY DEF Inv, CallShape
<1>5. ASSUME NEW t \in arcs PROVE strong > 0
  BY HeldCounts
<1> QED
  BY <1>1, <1>3, <1>4, <1>5

(* Who still does something with the allocation, does it before it is freed. *)
LEMMA UsedMeansAllocated ==
  ASSUME Inv, weak > 0
  PROVE  memory = "allocated"
<1>1. pc # "call"
  <2>1. SUFFICES ASSUME pc = "call" PROVE FALSE
    OBVIOUS
  <2>2. arcs = {} /\ weaks = {} /\ finishing = "no" /\ ~inner
    BY <2>1 DEF Inv, ArcsHaveAValue, CallShape, TypeOK
  <2> QED
    BY <2>1, <2>2, Sizes DEF Inv, TypeOK, CountsExact, CallStrong, CallWeak, One
<1> QED
  BY <1>1 DEF Inv, TypeOK, FreedIffUnreferenced

(* Nothing is left behind: a value that was written is dropped before its   *)
(* memory is freed; once the call is over and nobody holds a reference, or  *)
(* is dropping the last, the memory was freed.                              *)
NothingLeaked ==
  /\ memory = "freed" => value # "init"
  /\ pc \in Over /\ weaks = {} /\ arcs = {} /\ finishing = "no" => memory = "freed"

(* NothingLeaked holds under every strategy, whether init succeeds, fails   *)
(* or panics.                                                               *)
THEOREM NoLeak == Spec => []NothingLeaked
<1>1. Inv /\ Emptied => NothingLeaked
  <2> SUFFICES ASSUME Inv, pc \in Over, weaks = {}, arcs = {}, finishing = "no"
               PROVE  memory = "freed"
    BY DEF Emptied, NothingLeaked
  <2>1. strong = 0
    BY Sizes DEF Inv, TypeOK, CountsExact, CallStrong, One, Over
  <2>2. value # "init"
    BY <2>1 DEF Inv, CallShape
  <2>3. ~inner
    BY <2>2 DEF Inv, TypeOK, CallShape, Over
  <2>4. weak = 0
    BY <2>1, <2>3, Sizes DEF Inv, TypeOK, CountsExact, CallWeak, One, Over
  <2> QED
    BY <2>4 DEF Inv, FreedIffUnreferenced, Over
<1> QED
  BY <1>1, FreedLast, InvHolds, PTL

(* ErrorsDelivered: the call returns an error exactly when init did, and    *)
(* loses one only where the strategy makes a panic of it (_catch_unwind,    *)
(* _unchecked, rc::try_new_cyclic).                                         *)
THEOREM ErrorsReachCaller == Spec => []ErrorsDelivered
<1>1. Inv => ErrorsDelivered
  BY DEF Inv, TypeOK, CallShape, ErrorsDelivered, Running, Over
<1>2. QED BY <1>1, InvHolds, PTL

-----------------------------------------------------------------------------
(* What the abstract constructor makes of each step. *)
LEMMA LifetimeStep ==
  ASSUME Inv, Inv', Emptied', [Next]_vars
  PROVE  [Lifetime!Next]_(Lifetime!vars)
<1> DEFINE Goal == [Lifetime!Next]_(Lifetime!vars)
<1> USE DEF Lifetime!vars, Lifetime!Next
<1>1. CASE Begin
  <2>1. Lifetime!Allocate
    BY <1>1 DEF Begin, held, Lifetime!Allocate, Inv, FreedIffUnreferenced, Over
  <2> QED
    BY <2>1
<1>2. CASE InitOk \/ InitErr \/ InitPanics \/ (\E t \in Threads : HandOut(t))
  BY <1>2 DEF InitOk, InitErr, InitPanics, HandOut, counts, held, Over
<1>3. CASE DropTemp
  <2>1. pc \in {"okTemp", "errTemp", "unwindTemp"} /\ pc' \notin Over
    BY <1>3 DEF DropTemp, Over
  <2>2. weak # 1
    BY <2>1, Sizes DEF Inv, TypeOK, CountsExact, CallWeak, One
  <2>3. UNCHANGED <<memory, value, arcs>>
    BY <1>3, <2>2 DEF DropTemp, GiveUpWeak, held
  <2> QED
    BY <2>1, <2>3 DEF Over
<1>4. CASE WriteValue
  <2>1. weak > 0 /\ arcs = {}
    BY <1>4, Sizes DEF WriteValue, Inv, TypeOK, CountsExact, CallWeak, One, ArcsHaveAValue
  <2>2. memory = "allocated"
    BY <2>1, UsedMeansAllocated
  <2>3. Lifetime!Succeed
    BY <1>4, <2>1, <2>2 DEF WriteValue, Lifetime!Succeed, Over
  <2> QED
    BY <2>3
<1>5. CASE WriteUninit \/ CheckAlone
  <2>1. pc' # "aborted"
    BY DEF Inv
  <2> QED
    BY <1>5, <2>1 DEF WriteUninit, CheckAlone, counts, held, Over
<1>6. CASE DropUninit
  <2>1. arcs = {}
    BY <1>6 DEF DropUninit, Inv, ArcsHaveAValue
  <2>2. strong = 1
    BY <1>6, <2>1, Sizes DEF DropUninit, Inv, CountsExact, CallStrong, One
  <2> QED
    BY <1>6, <2>2 DEF DropUninit, held, Over
<1>7. CASE DropShared
  <2>1. memory # "none"
    BY <1>7 DEF DropShared, Inv, FreedIffUnreferenced
  <2>2. Lifetime!Fail
    BY <1>7, <2>1 DEF DropShared, GiveUpWeak, held, Lifetime!Fail, Over
  <2> QED
    BY <2>2
<1>8. CASE UnwindWeak
  <2>1. memory # "none" /\ arcs = {} /\ value # "init"
    BY <1>8 DEF UnwindWeak, Inv, FreedIffUnreferenced, ArcsHaveAValue, CallShape
  <2>2. memory' \in {memory, "freed"} /\ UNCHANGED <<value, arcs>>
    BY <1>8 DEF UnwindWeak, GiveUpWeak, held
  <2>3. CASE pc' = "catch"
    <3>1. memory = "allocated" \/ memory' = memory
      BY <2>1, <2>2 DEF Inv, TypeOK
    <3>2. Lifetime!Free \/ UNCHANGED Lifetime!vars
      BY <1>8, <2>1, <2>2, <2>3, <3>1 DEF UnwindWeak, Lifetime!Free, Over
    <3> QED
      BY <3>2
  <2>4. CASE pc' = "panicked"
    <3>1. Lifetime!Fail
      BY <1>8, <2>1, <2>2, <2>4 DEF UnwindWeak, Lifetime!Fail, Over
    <3> QED
      BY <3>1
  <2> QED
    BY <1>8, <2>3, <2>4 DEF UnwindWeak
<1>9. CASE Catch
  <2>1. memory # "none"
    BY <1>9 DEF Catch, Inv, FreedIffUnreferenced
  <2>2. Lifetime!Fail
    BY <1>9, <2>1 DEF Catch, counts, held, Lifetime!Fail, Over
  <2> QED
    BY <2>2
<1>10. ASSUME NEW t \in Owners, Upgrade(t) PROVE Goal
  <2>1. CallStrong = 0
    BY <1>10 DEF Upgrade, OthersRun, MayUpgrade, CallStrong, One, Inv, CallShape, Over
  <2>2. arcs # {}
    BY <1>10, <2>1, Sizes DEF Upgrade, Inv, CountsExact
  <2>3. Lifetime!Share
    BY <1>10, <2>2 DEF Upgrade, Lifetime!Share
  <2> QED
    BY <2>3
<1>11. ASSUME NEW t \in Owners, Read(t) \/ Downgrade(t) PROVE Goal
  BY <1>11 DEF Read, Downgrade, counts, held
<1>12. ASSUME NEW t \in Owners, DropWeak(t) PROVE Goal
  <2>1. weak > 0
    BY <1>12, HeldCounts DEF DropWeak
  <2>2. memory = "allocated"
    BY <2>1, UsedMeansAllocated
  <2>3. memory' \in {memory, "freed"} /\ UNCHANGED <<pc, value, arcs>>
    BY <1>12 DEF DropWeak, GiveUpWeak
  <2>4. memory' = "freed" => Lifetime!Free
    BY <2>2, <2>3 DEF Lifetime!Free, Emptied
  <2> QED
    BY <2>3, <2>4
<1>13. ASSUME NEW t \in Owners, DropArc(t) PROVE Goal
  <2>1. Lifetime!Leave
    BY <1>13 DEF DropArc, Lifetime!Leave
  <2> QED
    BY <2>1
<1>14. CASE DropValue
  <2>1. memory' = memory
    <3>1. finishing = "value"
      BY <1>14 DEF DropValue
    <3>2. CASE inner
      <4>1. weak # 1
        BY <3>1, <3>2, Sizes DEF Inv, TypeOK, CountsExact, CallWeak, One
      <4> QED
        BY <1>14, <3>2, <4>1 DEF DropValue, GiveUpWeak
    <3> QED
      BY <1>14, <3>2 DEF DropValue, counts
  <2>2. value = "init" /\ arcs = {}
    BY <1>14 DEF DropValue, Inv, ArcsHaveAValue
  <2>3. Lifetime!DropValue
    BY <1>14, <2>1, <2>2 DEF DropValue, Lifetime!DropValue
  <2> QED
    BY <2>3
<1>15. CASE DropLastWeak
  <2>1. weak > 0
    BY <1>15, Sizes DEF DropLastWeak, Inv, TypeOK, CountsExact, CallWeak, One
  <2>2. memory = "allocated"
    BY <2>1, UsedMeansAllocated
  <2>3. memory' \in {memory, "freed"} /\ UNCHANGED <<pc, value, arcs>>
    BY <1>15 DEF DropLastWeak, GiveUpWeak
  <2>4. memory' = "freed" => Lifetime!Free
    BY <2>2, <2>3 DEF Lifetime!Free, Emptied
  <2> QED
    BY <2>3, <2>4
<1>16. CASE UNCHANGED vars
  BY <1>16 DEF vars, counts, held
<1> QED
  BY <1>1, <1>2, <1>3, <1>4, <1>5, <1>6, <1>7, <1>8, <1>9, <1>10, <1>11, <1>12,
     <1>13, <1>14, <1>15, <1>16
  DEF Next, Call, Others, Terminated

(***************************************************************************)
(* ImplementsLifetime: every constructor, under every strategy and whatever *)
(* the others do with their Weaks, is the abstract one, which knows of no   *)
(* count: no Arc<T> without a value, one drop of it, then one free.         *)
(***************************************************************************)
THEOREM LifetimeImplemented == Spec => ImplementsLifetime
<1>1. Init => Lifetime!Init
  BY DEF Init, Lifetime!Init, Over
<1>2. Inv /\ Inv' /\ Emptied' /\ [Next]_vars => [Lifetime!Next]_(Lifetime!vars)
  BY LifetimeStep
<1> QED
  BY <1>1, <1>2, InvHolds, FreedLast, PTL DEF Spec, ImplementsLifetime, Lifetime!Spec
=============================================================================
