---------------------------- MODULE AlignProofs ----------------------------
(***************************************************************************)
(* What holds of alignments, masks and powers of two for words of every    *)
(* width.                                                                  *)
(***************************************************************************)
EXTENDS Align, WellFoundedInduction, TLAPS

(* Every set of naturals but the empty one has a least element, which      *)
(* stands in for induction here: a least counterexample is refuted.        *)
LEMMA LeastElement ==
  ASSUME NEW S, S \subseteq Nat, S # {}
  PROVE  \E m \in S : \A k \in S : m <= k
<1>1. PICK m \in S : \A k \in S : ~ (<<k, m>> \in OpToRel(<, Nat))
  <2>1. IsWellFoundedOn(OpToRel(<, Nat), Nat)
    BY NatLessThanWellFounded
  <2> QED
    BY <2>1, WFMin
<1>2. \A k \in S : ~ (k < m)
  BY <1>1, Zenon DEF OpToRel
<1> QED
  BY <1>2

(* A power of two divides the larger ones. *)
LEMMA PowDivides ==
  ASSUME NEW i \in 0 .. Bits, NEW j \in i .. Bits
  PROVE  \E k \in Nat \ {0} : Pow[j] = k * Pow[i]
<1> DEFINE Bad == {n \in i .. Bits : ~ \E k \in Nat \ {0} : Pow[n] = k * Pow[i]}
<1>1. SUFFICES Bad = {}
  BY DEF Bad
<1>2. SUFFICES ASSUME Bad # {} PROVE FALSE
  OBVIOUS
<1>3. Bad \subseteq Nat
  BY PowAssumption
<1> HIDE DEF Bad
<1>4. PICK m \in Bad : \A k \in Bad : m <= k
  BY <1>2, <1>3, LeastElement
<1>5. m \in i .. Bits /\ ~ \E k \in Nat \ {0} : Pow[m] = k * Pow[i]
  BY <1>4 DEF Bad
<1>6. Bits \in Nat /\ Pow[i] \in Nat
  BY PowAssumption
<1>7. m # i
  <2>1. Pow[i] = 1 * Pow[i]
    BY <1>6
  <2> QED
    BY <1>5, <2>1
<1>8. m - 1 \in i .. Bits /\ m - 1 \notin Bad
  BY <1>4, <1>5, <1>6, <1>7
<1>9. PICK k \in Nat \ {0} : Pow[m - 1] = k * Pow[i]
  BY <1>8 DEF Bad
<1>10. Pow[m] = 2 * Pow[m - 1]
  BY <1>5, <1>7, PowAssumption
<1>11. Pow[m] = (2 * k) * Pow[i]
  BY <1>6, <1>9, <1>10
<1> QED
  BY <1>5, <1>11

LEMMA PowPositive == \A i \in 0 .. Bits : Pow[i] \in Nat \ {0}
<1> SUFFICES ASSUME NEW i \in 0 .. Bits PROVE Pow[i] \in Nat \ {0}
  OBVIOUS
<1>1. PICK k \in Nat \ {0} : Pow[i] = k * Pow[0]
  BY PowDivides, PowAssumption
<1> QED
  BY <1>1, PowAssumption

(* The words hold every alignment at least twice. *)
LEMMA AlignDivides ==
  ASSUME NEW a \in Aligns
  PROVE  /\ a \in Nat \ {0}
         /\ \E k \in Nat \ {0} : Pow[Bits - 1] = k * a
         /\ \E k \in Nat \ {0, 1} : Modulus = k * a
<1>1. PICK i \in 0 .. (Bits - 1) : a = Pow[i]
  BY DEF Aligns
<1>2. Bits \in Nat \ {0} /\ i \in 0 .. Bits /\ Bits - 1 \in i .. Bits
  BY <1>1, PowAssumption
<1>3. a \in Nat \ {0}
  BY <1>1, <1>2, PowPositive
<1>4. PICK k \in Nat \ {0} : Pow[Bits - 1] = k * a
  BY <1>1, <1>2, PowDivides
<1>5. Modulus = 2 * Pow[Bits - 1]
  BY <1>2, PowAssumption DEF Modulus
<1>6. Modulus = (2 * k) * a
  BY <1>3, <1>4, <1>5
<1> QED
  BY <1>3, <1>4, <1>6

LEMMA AlignBounds ==
  ASSUME NEW a \in Aligns
  PROVE  a \in 1 .. (Modulus - 1) /\ Modulus \in Nat
<1>1. PICK k \in Nat \ {0, 1} : Modulus = k * a
  BY AlignDivides
<1>2. a \in Nat \ {0}
  BY AlignDivides
<1>3. k * a >= 2 * a
  BY <1>2
<1> QED
  BY <1>1, <1>2, <1>3

(* A mask is the modulus less its alignment. *)
LEMMA MaskIs ==
  ASSUME NEW a \in Aligns
  PROVE  /\ MaskFromAlign(a) = Modulus - a
         /\ MaskFromAlign(a) \in Words \ {0}
         /\ MaskAlign(MaskFromAlign(a)) = a
  BY AlignBounds DEF MaskFromAlign, MaskAlign, Not, Words

(* The two conversions are inverse to each other. *)
LEMMA Inverse ==
  /\ \A a \in Aligns : MaskFromAlign(a) \in Masks /\ MaskAlign(MaskFromAlign(a)) = a
  /\ \A m \in Masks : MaskAlign(m) \in Aligns /\ MaskFromAlign(MaskAlign(m)) = m
  BY MaskIs DEF Masks

(* A word but zero has fewer trailing zeros than bits, and as many as tell *)
(* the largest power of two that divides it.                               *)
LEMMA LowestBit ==
  ASSUME NEW x \in Words \ {0}
  PROVE  /\ TrailingZeros(x) \in 0 .. (Bits - 1)
         /\ x % Pow[TrailingZeros(x)] = 0
         /\ x % Pow[TrailingZeros(x) + 1] # 0
<1>1. Bits \in Nat \ {0} /\ Modulus \in Nat \ {0} /\ x \in Nat \ {0} /\ x < Modulus
  BY PowPositive, PowAssumption DEF Modulus, Words
<1>2. x % Modulus = x
  BY <1>1
<1> DEFINE S == {i \in 0 .. Bits : x % Pow[i] # 0}
<1>3. Bits \in S
  BY <1>1, <1>2 DEF Modulus
<1>4. S \subseteq Nat
  OBVIOUS
<1>5. PICK m \in S : \A k \in S : m <= k
  <2> HIDE DEF S
  <2> QED
    BY <1>3, <1>4, LeastElement
<1>6. m \in 0 .. Bits /\ x % Pow[m] # 0
  BY <1>5
<1>7. x % Pow[0] = 0
  BY <1>1, PowAssumption
<1>8. m - 1 \in 0 .. (Bits - 1) /\ m - 1 \notin S
  BY <1>1, <1>5, <1>6, <1>7
<1>9. x % Pow[m - 1] = 0 /\ x % Pow[(m - 1) + 1] # 0
  BY <1>1, <1>6, <1>8
<1>10. \E i \in 0 .. Bits : x % Pow[i] = 0 /\ (i = Bits \/ x % Pow[i + 1] # 0)
  BY <1>1, <1>8, <1>9
<1>11. /\ TrailingZeros(x) \in 0 .. Bits
       /\ x % Pow[TrailingZeros(x)] = 0
       /\ TrailingZeros(x) = Bits \/ x % Pow[TrailingZeros(x) + 1] # 0
  BY <1>10 DEF TrailingZeros
<1>12. TrailingZeros(x) # Bits
  BY <1>3, <1>11
<1> QED
  BY <1>1, <1>11, <1>12

-----------------------------------------------------------------------------
LEMMA DivisionOf ==
  ASSUME NEW x \in Nat, NEW a \in Nat \ {0}
  PROVE  /\ x % a \in 0 .. (a - 1)
         /\ \E q \in Nat : x = q * a + (x % a)
<1>1. x = a * (x \div a) + (x % a) /\ x % a \in 0 .. (a - 1) /\ x \div a \in Int
  OBVIOUS
<1>2. x \div a \in Nat
  BY <1>1
<1>3. x = (x \div a) * a + (x % a)
  BY <1>1
<1> QED
  BY <1>1, <1>2, <1>3

LEMMA MultipleOf == \A q \in Nat, a \in Nat \ {0} : (q * a) % a = 0
  OBVIOUS

LEMMA MultiplesApart ==
  ASSUME NEW p \in Nat, NEW q \in Nat, NEW a \in Nat \ {0}, p * a < q * a
  PROVE  p * a <= q * a - a
<1>1. p < q
  OBVIOUS
<1>2. (p + 1) * a <= q * a
  BY <1>1
<1> QED
  BY <1>2

(* A multiple of an alignment that is not below x, and the next one down   *)
(* is: no other rounds x up.                                               *)
LEMMA RoundedUpOnce ==
  ASSUME NEW a \in Nat \ {0}, NEW x \in Nat, NEW q \in Nat,
         x <= q * a, q * a < x + a
  PROVE  \A n \in Nat : IsRoundedUp(x, a, n) <=> n = q * a
<1>1. (q * a) % a = 0
  BY MultipleOf
<1>2. ASSUME NEW k \in x .. (q * a - 1) PROVE k % a # 0
  <2>1. SUFFICES ASSUME k % a = 0 PROVE FALSE
    OBVIOUS
  <2>2. k \in Nat
    OBVIOUS
  <2>3. PICK p \in Nat : k = p * a + (k % a)
    BY <2>2, DivisionOf
  <2>4. k = p * a
    BY <2>1, <2>3
  <2>5. p * a <= q * a - a
    BY <2>4, MultiplesApart
  <2> QED
    BY <2>2, <2>4, <2>5
<1>3. IsRoundedUp(x, a, q * a)
  BY <1>1, <1>2 DEF IsRoundedUp
<1>4. ASSUME NEW n \in Nat, IsRoundedUp(x, a, n), n # q * a PROVE FALSE
  <2>1. CASE n < q * a
    <3>1. q * a \in Nat /\ n % a = 0 /\ x <= n
      BY <1>4 DEF IsRoundedUp
    <3>2. n \in x .. (q * a - 1)
      BY <2>1, <3>1
    <3> QED
      BY <1>2, <3>1, <3>2
  <2>2. CASE n > q * a
    BY <1>1, <1>4, <2>2 DEF IsRoundedUp
  <2> QED
    BY <1>4, <2>1, <2>2
<1> QED
  BY <1>3, <1>4

LEMMA MaskedByIs ==
  ASSUME NEW a \in Aligns, NEW x \in Nat
  PROVE  MaskedBy(x, MaskFromAlign(a)) = x - (x % a)
<1>1. Modulus - (Modulus - a) = a
  BY AlignBounds
<1> QED
  BY <1>1, MaskIs DEF MaskedBy

(* round_up_size answers the least multiple of the alignment that is not   *)
(* below the size, and None for zero and for what does not fit a usize,    *)
(* which is what is above the largest multiple that does.                  *)
LEMMA RoundUpSizeIs ==
  ASSUME NEW a \in Aligns, NEW s \in Words
  PROVE  /\ RoundUpSize(a, s) =
              IF s = 0 THEN {} ELSE {n \in Words : IsRoundedUp(s, a, n)}
         /\ s # 0 /\ s <= Modulus - a => RoundUpSize(a, s) # {}
<1> DEFINE t == (s + (a - 1)) % Modulus
<1>1. a \in Nat \ {0} /\ a < Modulus /\ Modulus \in Nat
  BY AlignBounds
<1>2. s \in Nat /\ s < Modulus /\ t \in Nat
  BY <1>1 DEF Words
<1>3. RoundUpSize(a, s) = {t - (t % a)} \ {0}
  BY <1>2, MaskedByIs DEF RoundUpSize
<1>4. CASE s = 0
  <2>1. t = a - 1
    BY <1>1, <1>4
  <2>2. t % a = t
    BY <1>1, <2>1
  <2>3. RoundUpSize(a, s) = {}
    BY <1>2, <1>3, <2>2
  <2> QED
    BY <1>4, <2>3
<1>5. CASE s > Modulus - a
  <2>1. t = s + (a - 1) - Modulus /\ t < a
    <3>1. s + (a - 1) \in Modulus .. (2 * Modulus - 1)
      BY <1>1, <1>2, <1>5
    <3> QED
      BY <1>1, <1>2, <3>1
  <2>2. t % a = t
    BY <1>1, <1>2, <2>1
  <2>3. PICK k \in Nat \ {0, 1} : Modulus = k * a
    BY AlignDivides
  <2>4. \A n \in Nat : IsRoundedUp(s, a, n) => n = Modulus
    BY <1>1, <1>2, <1>5, <2>3, RoundedUpOnce
  <2>5. RoundUpSize(a, s) = {}
    BY <1>2, <1>3, <2>2
  <2>6. {n \in Words : IsRoundedUp(s, a, n)} = {}
    BY <1>1, <2>4 DEF Words
  <2> QED
    BY <1>1, <1>2, <1>5, <2>5, <2>6
<1>6. CASE s # 0 /\ s <= Modulus - a
  <2>1. t = s + (a - 1)
    BY <1>1, <1>2, <1>6
  <2>2. t % a \in 0 .. (a - 1)
    BY <1>1, <1>2, DivisionOf
  <2>3. PICK q \in Nat : t = q * a + (t % a)
    BY <1>1, <1>2, DivisionOf
  <2> HIDE DEF t
  <2>4. q * a = t - (t % a)
    BY <1>1, <1>2, <2>2, <2>3
  <2>5. s <= q * a /\ q * a < s + a /\ q * a <= t
    BY <1>1, <1>2, <2>1, <2>2, <2>4
  <2>6. \A n \in Nat : IsRoundedUp(s, a, n) <=> n = q * a
    BY <1>1, <1>2, <2>5, RoundedUpOnce
  <2>7. q * a \in Words \ {0}
    BY <1>1, <1>2, <1>6, <2>1, <2>5 DEF Words
  <2>8. RoundUpSize(a, s) = {q * a}
    BY <1>3, <2>4, <2>7
  <2>9. {n \in Words : IsRoundedUp(s, a, n)} = {q * a}
    BY <1>1, <2>6, <2>7 DEF Words
  <2> QED
    BY <1>6, <2>8, <2>9
<1> QED
  BY <1>1, <1>2, <1>4, <1>5, <1>6

(* A size within max_size, but for 0, is rounded up, to one within it. *)
LEMMA RoundUpSizeFits ==
  ASSUME NEW a \in Aligns, NEW s \in Words, s <= MaxSize(a)
  PROVE  /\ s # 0 => RoundUpSize(a, s) # {}
         /\ \A n \in RoundUpSize(a, s) : n <= MaxSize(a)
<1>0. s # 0 => RoundUpSize(a, s) # {}
  <2>1. a \in Nat /\ s \in Nat /\ Pow[Bits - 1] \in Nat /\ Modulus = 2 * Pow[Bits - 1]
    BY AlignBounds, PowAssumption DEF Words, Modulus
  <2>2. s <= Modulus - a
    BY <2>1 DEF MaxSize
  <2> QED
    BY <2>2, RoundUpSizeIs
<1> SUFFICES ASSUME NEW n \in RoundUpSize(a, s) PROVE n <= MaxSize(a)
  BY <1>0
<1>1. a \in Nat \ {0} /\ s \in Nat
  BY AlignBounds DEF Words
<1>2. n \in Nat /\ IsRoundedUp(s, a, n)
  BY RoundUpSizeIs DEF Words
<1>3. PICK k \in Nat \ {0} : Pow[Bits - 1] = k * a
  BY AlignDivides
<1>4. k - 1 \in Nat /\ MaxSize(a) = (k - 1) * a
  BY <1>1, <1>3 DEF MaxSize
<1>5. MaxSize(a) \in Nat /\ MaxSize(a) % a = 0
  BY <1>1, <1>4, MultipleOf
<1>6. ~ (MaxSize(a) < n)
  BY <1>1, <1>2, <1>5 DEF IsRoundedUp
<1> QED
  BY <1>2, <1>5, <1>6

-----------------------------------------------------------------------------
LEMMA Picks ==
  \A a, b, c : /\ MinOf(a, b) \in {a, b} /\ MaxOf(a, b) \in {a, b}
               /\ ClampTo(a, b, c) \subseteq {a, b, c}
  BY DEF MinOf, MaxOf, ClampTo

(* Mask::new answers only masks of alignments. *)
LEMMA MaskNewIs ==
  ASSUME NEW x \in Words
  PROVE  MaskNew(x) \subseteq Masks
<1> SUFFICES ASSUME x # 0, x + Trailing(x) = Modulus - 1 PROVE x \in Masks
  BY DEF MaskNew
<1> DEFINE a == Pow[TrailingZeros(x)]
<1>1. a \in Aligns
  BY LowestBit DEF Aligns
<1>2. x = Modulus - a
  BY <1>1, AlignBounds DEF Trailing, Words
<1> QED
  BY <1>1, <1>2, MaskIs DEF Masks

(* Whatever the caller does, an Align is a power of two and a Mask the     *)
(* mask of one: no new_unchecked or transmute breaks its contract.         *)
THEOREM TypeHolds == Spec => []TypeOK
<1>1. Init => TypeOK
  <2>1. Pow[0] \in Aligns /\ Pow[Bits - 1] \in Aligns
    BY PowAssumption DEF Aligns
  <2>2. 0 \in Words
    BY <2>1, AlignBounds DEF Words
  <2> QED
    BY <2>1, <2>2, WidestAssumption DEF Init, TypeOK, Masks, Exponents
<1>2. TypeOK /\ [Next]_vars => TypeOK'
  <2> SUFFICES ASSUME TypeOK, [Next]_vars PROVE TypeOK'
    OBVIOUS
  <2>1. CASE Read
    BY <2>1 DEF Read, TypeOK
  <2>2. CASE MakeAlign
    <3>1. AlignNew(word) \subseteq Aligns
      BY DEF AlignNew, IsPowerOfTwo
    <3>2. AlignFromAddr(word) \subseteq Aligns
      BY LowestBit DEF TypeOK, AlignFromAddr, Aligns
    <3> QED
      BY <2>2, <3>1, <3>2 DEF MakeAlign, TypeOK
  <2>3. CASE MakeMask
    BY <2>3, MaskNewIs DEF MakeMask, TypeOK
  <2>4. CASE ToMask \/ ToAlign
    BY <2>4, Inverse DEF ToMask, ToAlign, TypeOK
  <2>5. CASE PickAlign
    <3>1. PICK other \in Aligns : align' \in {align, MaskAlign(mask), other}
      BY <2>5, Picks DEF PickAlign
    <3>2. MaskAlign(mask) \in Aligns
      BY Inverse DEF TypeOK
    <3> QED
      BY <2>5, <3>1, <3>2 DEF PickAlign, TypeOK
  <2>6. CASE PickMask
    BY <2>6, Inverse, Picks DEF PickMask, TypeOK
  <2>7. CASE RoundUp
    BY <2>7, RoundUpSizeIs DEF RoundUp, TypeOK
  <2>8. CASE MakePower
    BY <2>8 DEF MakePower, FromExponent, TypeOK
  <2>9. CASE ScalePower
    BY <2>9 DEF ScalePower, CheckedMul, CheckedDiv, FromExponent, TypeOK
  <2>10. CASE UNCHANGED vars
    BY <2>10 DEF vars, TypeOK
  <2> QED
    BY <2>1, <2>2, <2>3, <2>4, <2>5, <2>6, <2>7, <2>8, <2>9, <2>10 DEF Next
<1> QED
  BY <1>1, <1>2, PTL DEF Spec

(* Align::mask and Mask::align are inverse to each other, and turn the     *)
(* order of the one into the reverse order of the other (Mask::min).       *)
THEOREM MirrorHolds == Spec => []MasksMirrorAligns
<1>1. TypeOK => RoundTrip
  BY Inverse DEF TypeOK, RoundTrip
<1>2. TypeOK => OrderReversed
  <2> SUFFICES ASSUME TypeOK PROVE OrderReversed
    OBVIOUS
  <2> DEFINE b == MaskAlign(mask)
  <2>1. align \in Aligns /\ b \in Aligns /\ mask = MaskFromAlign(b)
    BY Inverse DEF TypeOK
  <2>2. mask = Modulus - b /\ MaskFromAlign(align) = Modulus - align
    BY <2>1, MaskIs
  <2>3. align \in Int /\ b \in Int /\ Modulus \in Int
    BY <2>1, AlignBounds
  <2> HIDE DEF b
  <2>4. CASE b < align
    BY <2>1, <2>2, <2>3, <2>4 DEF OrderReversed, MinOf, MaxOf, b
  <2>5. CASE ~ (b < align)
    BY <2>1, <2>2, <2>3, <2>5 DEF OrderReversed, MinOf, MaxOf, b
  <2> QED
    BY <2>4, <2>5
<1> QED
  BY <1>1, <1>2, TypeHolds, PTL DEF MasksMirrorAligns

(* round_up_size answers the least multiple of the alignment that is not   *)
(* below the size, None where that overflows, and None for size 0; for     *)
(* words of every width.                                                   *)
THEOREM RoundUpHolds == Spec => []RoundUpIsLeast
<1>1. TypeOK => RoundUpIsLeast
  BY RoundUpSizeIs DEF TypeOK, RoundUpIsLeast
<1> QED
  BY <1>1, TypeHolds, PTL

(* A size that a Layout may have, but for 0, can be rounded up, and a       *)
(* Layout still may have the result.                                        *)
THEOREM FitsHolds == Spec => []RoundedUpFits
<1>1. TypeOK => RoundedUpFits
  BY RoundUpSizeFits DEF TypeOK, RoundedUpFits
<1> QED
  BY <1>1, TypeHolds, PTL

(* What divides a divisor of x divides x. *)
LEMMA DividesThrough ==
  ASSUME NEW x \in Nat, NEW d \in Nat \ {0}, NEW k \in Nat \ {0}, x % (k * d) = 0
  PROVE  x % d = 0
<1> DEFINE m == k * d
<1>1. m \in Nat \ {0} /\ x % m = 0
  OBVIOUS
<1>2. PICK q \in Nat : x = q * m
  <2> HIDE DEF m
  <2>1. PICK q \in Nat : x = q * m + (x % m)
    BY <1>1, DivisionOf
  <2>2. q * m \in Nat
    BY <1>1
  <2> QED
    BY <1>1, <2>1, <2>2
<1>3. x = (q * k) * d /\ q * k \in Nat
  BY <1>2
<1> QED
  BY <1>3, MultipleOf

(* Align::from_addr answers the largest alignment that an address has, for *)
(* words of every width, and None for zero alone.                          *)
THEOREM AddrHolds == Spec => []AddrAligned
<1>1. ASSUME NEW x \in Words \ {0}
      PROVE  LET a == Pow[TrailingZeros(x)]
             IN  /\ a \in Aligns /\ x % a = 0
                 /\ \A b \in Aligns : x % b = 0 => b <= a
  <2> DEFINE z == TrailingZeros(x)
  <2>1. z \in 0 .. (Bits - 1) /\ x % Pow[z] = 0 /\ x % Pow[z + 1] # 0
    BY LowestBit
  <2>2. Bits \in Nat \ {0} /\ x \in Nat
    BY PowAssumption, PowPositive DEF Words, Modulus
  <2>3. ASSUME NEW b \in Aligns, x % b = 0
        PROVE  b <= Pow[z]
    <3>1. PICK j \in 0 .. (Bits - 1) : b = Pow[j]
      BY DEF Aligns
    <3> HIDE DEF z
    <3>2. CASE j <= z
      <4>1. j \in 0 .. Bits /\ z \in j .. Bits
        BY <2>1, <2>2, <3>1, <3>2
      <4>2. PICK k \in Nat \ {0} : Pow[z] = k * Pow[j]
        BY <4>1, PowDivides
      <4>3. Pow[j] \in Nat \ {0}
        BY <4>1, PowPositive
      <4>4. k * Pow[j] >= Pow[j]
        BY <4>2, <4>3
      <4> QED
        BY <3>1, <4>2, <4>4
    <3>3. CASE ~ (j <= z)
      <4>1. z + 1 \in 0 .. Bits /\ j \in (z + 1) .. Bits
        BY <2>1, <2>2, <3>1, <3>3
      <4>2. PICK k \in Nat \ {0} : Pow[j] = k * Pow[z + 1]
        BY <4>1, PowDivides
      <4>3. Pow[z + 1] \in Nat \ {0}
        BY <4>1, PowPositive
      <4>4. x % Pow[z + 1] = 0
        BY <2>2, <2>3, <3>1, <4>2, <4>3, DividesThrough
      <4> QED
        BY <2>1, <4>4
    <3> QED
      BY <3>2, <3>3
  <2> QED
    BY <2>1, <2>3 DEF Aligns
<1>2. TypeOK => AddrAligned
  <2> SUFFICES ASSUME TypeOK PROVE AddrAligned
    OBVIOUS
  <2>1. CASE word = 0
    BY <2>1 DEF AddrAligned, AlignFromAddr
  <2>2. CASE word # 0
    <3> DEFINE a == Pow[TrailingZeros(word)]
               Largest == {b \in Aligns : /\ word # 0
                                          /\ word % b = 0
                                          /\ \A c \in Aligns : word % c = 0 => c <= b}
    <3>1. a \in Aligns /\ word % a = 0 /\ \A b \in Aligns : word % b = 0 => b <= a
      BY <1>1, <2>2 DEF TypeOK
    <3> HIDE DEF a
    <3>2. a \in Largest
      BY <2>2, <3>1
    <3>3. \A b \in Largest : b = a
      <4> SUFFICES ASSUME NEW b \in Largest PROVE b = a
        OBVIOUS
      <4>1. b <= a /\ a <= b /\ b \in Nat /\ a \in Nat
        BY <3>1, AlignDivides
      <4> QED
        BY <4>1
    <3>4. AlignFromAddr(word) = {a}
      BY <2>2 DEF AlignFromAddr, a
    <3> QED
      BY <3>2, <3>3, <3>4 DEF AddrAligned
  <2> QED
    BY <2>1, <2>2
<1> QED
  BY <1>2, TypeHolds, PTL

-----------------------------------------------------------------------------
(***************************************************************************)
(* Exponents stand for the values: the values are positive, grow with the  *)
(* exponent, and the sum of two exponents is that of the product.          *)
(***************************************************************************)
LEMMA ValueDoubles ==
  ASSUME NEW e \in Exponents, e # 0
  PROVE  /\ e - 1 \in Exponents
         /\ Value[e - 1] \in Nat
         /\ Value[e] = 2 * Value[e - 1]
BY WidestAssumption, ValueAssumption DEF Exponents

LEMMA ValuePositive == \A e \in Exponents : Value[e] \in Nat \ {0}
<1> DEFINE Bad == {e \in Exponents : Value[e] \notin Nat \ {0}}
<1> SUFFICES ASSUME Bad # {} PROVE FALSE
  OBVIOUS
<1>1. Bad \subseteq Nat
  BY WidestAssumption DEF Exponents
<1> HIDE DEF Bad
<1>2. PICK m \in Bad : \A e \in Bad : m <= e
  BY <1>1, LeastElement
<1>3. m \in Exponents /\ m \in Nat /\ Value[m] \notin Nat \ {0}
  BY <1>1, <1>2 DEF Bad
<1>4. m # 0
  BY <1>3, ValueAssumption
<1>5. m - 1 \in Exponents /\ Value[m] = 2 * Value[m - 1]
  BY <1>3, <1>4, ValueDoubles
<1>6. m - 1 \notin Bad
  BY <1>2, <1>3
<1>7. Value[m - 1] \in Nat \ {0}
  BY <1>5, <1>6 DEF Bad
<1> QED
  BY <1>3, <1>5, <1>7

LEMMA ValueOfSum ==
  ASSUME NEW p \in Exponents, NEW q \in Exponents, p + q \in Exponents
  PROVE  Value[p + q] = Value[p] * Value[q]
<1> DEFINE Bad == {e \in Exponents : /\ p + e \in Exponents
                                     /\ Value[p + e] # Value[p] * Value[e]}
<1> SUFFICES ASSUME Bad # {} PROVE FALSE
  OBVIOUS
<1>0. p \in Nat /\ Value[p] \in Nat
  BY ValuePositive, WidestAssumption DEF Exponents
<1>1. Bad \subseteq Nat
  BY WidestAssumption DEF Exponents
<1> HIDE DEF Bad
<1>2. PICK m \in Bad : \A e \in Bad : m <= e
  BY <1>1, LeastElement
<1>3. /\ m \in Exponents /\ p + m \in Exponents /\ m \in Nat
      /\ Value[p + m] # Value[p] * Value[m]
  BY <1>1, <1>2 DEF Bad
<1>4. m # 0
  BY <1>0, <1>3, ValueAssumption
<1>5. m - 1 \in Exponents /\ Value[m - 1] \in Nat /\ Value[m] = 2 * Value[m - 1]
  BY <1>3, <1>4, ValueDoubles
<1>6. p + (m - 1) \in Exponents /\ Value[p + m] = 2 * Value[p + (m - 1)]
  <2>1. (p + m) - 1 = p + (m - 1) /\ p + m # 0
    BY <1>0, <1>3, <1>4
  <2> QED
    BY <1>3, <2>1, ValueDoubles
<1>7. m - 1 \notin Bad
  BY <1>2, <1>3
<1>8. Value[p + (m - 1)] = Value[p] * Value[m - 1]
  BY <1>5, <1>6, <1>7 DEF Bad
<1>9. 2 * (Value[p] * Value[m - 1]) = Value[p] * (2 * Value[m - 1])
  BY <1>0, <1>5
<1> QED
  BY <1>3, <1>5, <1>6, <1>8, <1>9

LEMMA ValueGrows ==
  ASSUME NEW p \in Exponents, NEW q \in Exponents, p < q
  PROVE  Value[p] < Value[q]
<1> DEFINE d == q - p
<1>1. /\ d \in Exponents /\ d # 0 /\ d - 1 \in Exponents
      /\ p + d = q
  BY WidestAssumption DEF Exponents
<1>2. Value[q] = Value[p] * Value[d]
  BY <1>1, ValueOfSum
<1>3. Value[d] = 2 * Value[d - 1] /\ Value[d - 1] \in Nat \ {0}
  BY <1>1, ValueDoubles, ValuePositive
<1>4. Value[p] \in Nat \ {0}
  BY ValuePositive
<1> HIDE DEF d
<1>5. \A v, w \in Nat \ {0} : v < v * (2 * w)
  OBVIOUS
<1> QED
  BY <1>2, <1>3, <1>4, <1>5

(* The sum of two exponents, and no other exponent, has the value of their *)
(* product; where the sum is too large, the product is above all values.   *)
LEMMA ValueTells ==
  ASSUME NEW p \in Exponents, NEW q \in Exponents, NEW e \in Exponents
  PROVE  Value[e] = Value[p] * Value[q] <=> e = p + q
<1>1. p \in Nat /\ q \in Nat /\ e \in Nat /\ Widest \in Nat
  BY WidestAssumption DEF Exponents
<1>2. CASE p + q \in Exponents
  <2>1. Value[p + q] = Value[p] * Value[q]
    BY <1>2, ValueOfSum
  <2>2. e < p + q => Value[e] < Value[p + q]
    BY <1>2, ValueGrows
  <2>3. p + q < e => Value[p + q] < Value[e]
    BY <1>2, ValueGrows
  <2>4. Value[e] \in Nat /\ Value[p + q] \in Nat
    BY <1>2, ValuePositive
  <2> QED
    BY <1>1, <2>1, <2>2, <2>3, <2>4
<1>3. CASE p + q \notin Exponents
  <2> DEFINE top == Widest - 1
             d == top - p
  <2>1. /\ d \in Exponents /\ top \in Exponents /\ d < q /\ p + d = top
        /\ e < top \/ e = top
    BY <1>1, <1>3 DEF Exponents
  <2>2. Value[top] = Value[p] * Value[d]
    BY <2>1, ValueOfSum
  <2>3. Value[d] < Value[q] /\ Value[e] <= Value[top]
    BY <2>1, ValueGrows, ValuePositive
  <2>4. \A v \in Nat \ {0} : \A x, y \in Nat : x < y => v * x < v * y
    OBVIOUS
  <2>5. Value[p] * Value[d] < Value[p] * Value[q]
    BY <2>1, <2>3, <2>4, ValuePositive
  <2> HIDE DEF d, top
  <2>6. Value[p] * Value[q] \in Nat /\ Value[top] \in Nat /\ Value[e] \in Nat
    BY <2>1, ValuePositive
  <2>7. Value[e] # Value[p] * Value[q]
    BY <2>2, <2>3, <2>5, <2>6
  <2> QED
    BY <1>3, <2>7
<1> QED
  BY <1>2, <1>3

(* Products and quotients are those of the values, None is for what does   *)
(* not fit, and no sum of exponents leaves its byte: for every width.      *)
THEOREM PowersHold == Spec => []PowersExact
<1>1. TypeOK => PowersExact
  <2> SUFFICES ASSUME TypeOK, NEW other \in Exponents
               PROVE  /\ StrictAdd(power, other) # {}
                      /\ CheckedMul(power, other) =
                           {e \in Exponents : Value[e] = Value[power] * Value[other]}
                      /\ CheckedDiv(power, other) =
                           {e \in Exponents : Value[e] * Value[other] = Value[power]}
    BY DEF PowersExact
  <2>1. power \in Exponents
    BY DEF TypeOK
  <2>2. power + other \in Bytes
    BY <2>1, WidestAssumption DEF Exponents, Bytes
  <2>3. StrictAdd(power, other) = {power + other}
    BY <2>2 DEF StrictAdd
  <2>4. CheckedMul(power, other) = {e \in Exponents : e = power + other}
    BY <2>3 DEF CheckedMul, FromExponent
  <2>5. CheckedDiv(power, other) = {e \in Exponents : power = e + other}
    <3>1. \A e \in Exponents : power = e + other <=> e = power - other
      BY <2>1, WidestAssumption DEF Exponents
    <3>2. \A e \in Exponents : e \in Bytes
      BY WidestAssumption DEF Exponents, Bytes
    <3> QED
      BY <3>1, <3>2 DEF CheckedDiv, CheckedSub, FromExponent
  <2>6. \A e \in Exponents : Value[e] * Value[other] = Value[power] <=> power = e + other
    <3> SUFFICES ASSUME NEW e \in Exponents
                 PROVE  Value[e] * Value[other] = Value[power] <=> power = e + other
      OBVIOUS
    <3> QED
      BY <2>1, ValueTells
  <2>7. \A e \in Exponents : Value[e] = Value[power] * Value[other] <=> e = power + other
    BY <2>1, ValueTells
  <2> QED
    BY <2>3, <2>4, <2>5, <2>6, <2>7
<1> QED
  BY <1>1, TypeHolds, PTL
-----------------------------------------------------------------------------
(***************************************************************************)
(* The bits of a word are told by its quotients.  Above the lowest bit of  *)
(* an alignment a what is less than a does not show, and below that bit    *)
(* the multiples of a do not.                                              *)
(***************************************************************************)
LEMMA BitIs ==
  ASSUME NEW i \in 0 .. (Bits - 1), NEW q \in Nat, NEW r \in 0 .. (Pow[i] - 1),
         NEW x, x = q * Pow[i] + r
  PROVE  Bit(x, i) = q % 2
<1> DEFINE p == Pow[i]
<1>1. p \in Nat \ {0}
  BY PowPositive, PowAssumption
<1>2. x = q * p + r /\ r \in 0 .. (p - 1)
  OBVIOUS
<1> HIDE DEF p
<1>3. x \div p = q
  BY <1>1, <1>2
<1> QED
  BY <1>3 DEF Bit, p

LEMMA BitValue ==
  ASSUME NEW i \in 0 .. (Bits - 1), NEW x \in Nat
  PROVE  Bit(x, i) \in {0, 1}
<1>1. Pow[i] \in Nat \ {0}
  BY PowPositive, PowAssumption
<1>2. PICK q \in Nat : x = q * Pow[i] + (x % Pow[i])
  BY <1>1, DivisionOf
<1>3. Bit(x, i) = q % 2
  BY <1>1, <1>2, DivisionOf, BitIs
<1> QED
  BY <1>3

LEMMA ZeroBits == \A i \in 0 .. (Bits - 1) : Bit(0, i) = 0
<1> SUFFICES ASSUME NEW i \in 0 .. (Bits - 1) PROVE Bit(0, i) = 0
  OBVIOUS
<1>1. Pow[i] \in Nat \ {0}
  BY PowPositive, PowAssumption
<1>2. 0 \in 0 .. (Pow[i] - 1) /\ 0 = 0 * Pow[i] + 0
  BY <1>1
<1>3. Bit(0, i) = 0 % 2
  BY <1>2, BitIs
<1> QED
  BY <1>3

(* Two powers of which one is the larger: it is an even multiple. *)
LEMMA PowIsEven ==
  ASSUME NEW i \in 0 .. (Bits - 1), NEW t \in (i + 1) .. Bits
  PROVE  \E m \in Nat \ {0} : Pow[t] = (2 * m) * Pow[i]
<1>1. Bits \in Nat /\ i + 1 \in 0 .. Bits /\ i \in 0 .. Bits
  BY PowAssumption
<1>2. PICK m \in Nat \ {0} : Pow[t] = m * Pow[i + 1]
  BY <1>1, PowDivides
<1>3. Pow[i + 1] = 2 * Pow[i] /\ Pow[i] \in Nat
  BY <1>1, PowAssumption
<1>4. Pow[t] = (2 * m) * Pow[i]
  BY <1>2, <1>3
<1> QED
  BY <1>4

LEMMA LowBits ==
  ASSUME NEW t \in 0 .. Bits, NEW i \in 0 .. (Bits - 1), i < t,
         NEW q \in Nat, NEW r \in Nat
  PROVE  Bit(q * Pow[t] + r, i) = Bit(r, i)
<1>1. t \in (i + 1) .. Bits
  BY PowAssumption
<1>2. PICK m \in Nat \ {0} : Pow[t] = (2 * m) * Pow[i]
  BY <1>1, PowIsEven
<1>3. Pow[i] \in Nat \ {0}
  BY PowPositive, PowAssumption
<1>4. PICK v \in Nat : r = v * Pow[i] + (r % Pow[i])
  BY <1>3, DivisionOf
<1>5. r % Pow[i] \in 0 .. (Pow[i] - 1)
  BY <1>3, DivisionOf
<1> DEFINE u == 2 * (q * m) + v
<1>6. u \in Nat /\ u % 2 = v % 2
  <2>1. q * m \in Nat
    OBVIOUS
  <2>2. \A w \in Nat : 2 * w + v \in Nat /\ (2 * w + v) % 2 = v % 2
    OBVIOUS
  <2> QED
    BY <2>1, <2>2
<1>7. q * Pow[t] + r = u * Pow[i] + (r % Pow[i])
  <2>1. q * ((2 * m) * Pow[i]) = (2 * (q * m)) * Pow[i]
    BY <1>3
  <2>2. u * Pow[i] = (2 * (q * m)) * Pow[i] + v * Pow[i]
    BY <1>3
  <2> HIDE DEF u
  <2> QED
    BY <1>2, <1>3, <1>4, <1>5, <2>1, <2>2
<1> HIDE DEF u
<1>8. Bit(q * Pow[t] + r, i) = u % 2
  BY <1>5, <1>6, <1>7, BitIs
<1>9. Bit(r, i) = v % 2
  BY <1>4, <1>5, BitIs
<1> QED
  BY <1>6, <1>8, <1>9

LEMMA HighBits ==
  ASSUME NEW t \in 0 .. Bits, NEW i \in 0 .. (Bits - 1), t <= i,
         NEW q \in Nat, NEW r \in 0 .. (Pow[t] - 1)
  PROVE  Bit(q * Pow[t] + r, i) = Bit(q * Pow[t], i)
<1> DEFINE a == Pow[t]
           p == Pow[i]
<1>0. i \in 0 .. Bits
  BY PowAssumption
<1>1. a \in Nat \ {0} /\ p \in Nat \ {0}
  BY <1>0, PowPositive
<1>2. PICK k \in Nat \ {0} : p = k * a
  <2>1. i \in t .. Bits
    BY PowAssumption
  <2> QED
    BY <2>1, PowDivides
<1>3. PICK u \in Nat : q * a = u * p + ((q * a) % p)
  <2>1. q * a \in Nat
    BY <1>1
  <2> HIDE DEF a, p
  <2> QED
    BY <1>1, <2>1, DivisionOf
<1> DEFINE s == (q * a) % p
<1>4. s \in 0 .. (p - 1)
  <2>1. q * a \in Nat
    BY <1>1
  <2> HIDE DEF a, p
  <2> QED
    BY <1>1, <2>1, DivisionOf
<1>5. s + r \in 0 .. (p - 1)
  <2>0. r \in 0 .. (a - 1) /\ q * a = u * p + s
    BY <1>3
  <2> HIDE DEF a, p, s
  <2>1. u * p = (u * k) * a /\ u * k \in Nat /\ (u * k + k) * a = (u * k) * a + k * a
    BY <1>1, <1>2
  <2>2. u * k + k \in Nat
    BY <2>1
  <2>3. q * a < (u * k + k) * a
    BY <1>1, <1>2, <1>4, <2>0, <2>1
  <2>4. q * a <= (u * k + k) * a - a
    BY <1>1, <2>2, <2>3, MultiplesApart
  <2> QED
    BY <1>1, <1>2, <1>4, <2>0, <2>1, <2>4
<1>6. q * a + r = u * p + (s + r)
  <2>1. q * a = u * p + s
    BY <1>3
  <2> HIDE DEF s, a, p
  <2>2. u * p \in Nat /\ s \in Nat
    BY <1>1, <1>4
  <2> QED
    BY <2>1, <2>2
<1>7. Bit(q * a + r, i) = u % 2
  BY <1>5, <1>6, BitIs
<1>8. Bit(q * a, i) = u % 2
  BY <1>3, <1>4, BitIs
<1> QED
  BY <1>7, <1>8

(* The mask of an alignment has the bits from its own upwards. *)
LEMMA MaskBits ==
  ASSUME NEW t \in 0 .. (Bits - 1), NEW i \in 0 .. (Bits - 1)
  PROVE  Bit(Modulus - Pow[t], i) = IF i < t THEN 0 ELSE 1
<1> DEFINE a == Pow[t]
           p == Pow[i]
<1>0. Bits \in Nat /\ t \in 0 .. Bits /\ i \in 0 .. Bits
  BY PowAssumption
<1>1. a \in Nat \ {0} /\ p \in Nat \ {0}
  BY <1>0, PowPositive
<1>2. CASE i < t
  <2>1. PICK k \in Nat \ {0} : Pow[Bits] = k * Pow[t]
    BY <1>0, PowDivides
  <2>2. Modulus - a = (k - 1) * a + 0 /\ k - 1 \in Nat
    BY <1>1, <2>1 DEF Modulus
  <2>3. Bit((k - 1) * a + 0, i) = Bit(0, i)
    BY <1>0, <1>2, <2>2, LowBits
  <2>4. Bit(0, i) = 0
    BY ZeroBits
  <2> QED
    BY <1>2, <2>2, <2>3, <2>4
<1>3. CASE ~ (i < t)
  <2>1. PICK m \in Nat \ {0} : Pow[Bits] = (2 * m) * Pow[i]
    <3>1. Bits \in (i + 1) .. Bits
      BY <1>0
    <3> QED
      BY <3>1, PowIsEven
  <2>2. PICK k \in Nat \ {0} : Pow[i] = k * Pow[t]
    <3>1. i \in t .. Bits
      BY <1>0, <1>3
    <3> QED
      BY <1>0, <3>1, PowDivides
  <2>3. p - a \in 0 .. (p - 1)
    <3>1. k * a >= a
      BY <1>1
    <3> QED
      BY <1>1, <2>2, <3>1
  <2>4. Modulus - a = (2 * m - 1) * p + (p - a)
    BY <1>1, <2>1 DEF Modulus
  <2>5. 2 * m - 1 \in Nat /\ (2 * m - 1) % 2 = 1
    OBVIOUS
  <2>6. Bit(Modulus - a, i) = (2 * m - 1) % 2
    BY <2>3, <2>4, <2>5, BitIs
  <2> QED
    BY <1>3, <2>5, <2>6
<1> QED
  BY <1>2, <1>3

(* & with a mask keeps the bits of the mask. *)
LEMMA MaskedBits ==
  ASSUME NEW x \in Words, NEW m \in Masks, NEW i \in 0 .. (Bits - 1)
  PROVE  Bit(MaskedBy(x, m), i) = Bit(x, i) * Bit(m, i)
<1>1. PICK t \in 0 .. (Bits - 1) : m = MaskFromAlign(Pow[t]) /\ Pow[t] \in Aligns
  BY DEF Masks, Aligns
<1> DEFINE a == Pow[t]
           r == x % a
<1>2. x \in Nat /\ t \in 0 .. Bits /\ a \in Nat \ {0}
  BY <1>1, AlignBounds, PowAssumption DEF Words
<1>3. r \in 0 .. (a - 1) /\ r \in Nat
  <2> HIDE DEF a
  <2>1. x % a \in 0 .. (a - 1)
    BY <1>2, DivisionOf
  <2> QED
    BY <1>2, <2>1
<1>4. PICK q \in Nat : x = q * a + r
  <2> HIDE DEF a
  <2> QED
    BY <1>2, DivisionOf
<1> HIDE DEF r
<1>5. MaskedBy(x, m) = x - r
  BY <1>1, <1>2, MaskedByIs DEF r
<1>6. q * a \in Nat /\ MaskedBy(x, m) = q * a /\ q * a = q * a + 0
  <2> HIDE DEF a
  <2> QED
    BY <1>2, <1>3, <1>4, <1>5
<1>7. Bit(m, i) = IF i < t THEN 0 ELSE 1
  BY <1>1, MaskIs, MaskBits
<1>8. Bit(x, i) \in {0, 1}
  BY <1>2, BitValue
<1>9. CASE i < t
  <2>1. Bit(q * a + 0, i) = Bit(0, i) /\ Bit(0 * a + 0, i) = Bit(0, i)
    BY <1>2, <1>9, LowBits
  <2>2. Bit(0, i) = 0
    BY ZeroBits
  <2> HIDE DEF a
  <2> QED
    BY <1>6, <1>7, <1>8, <1>9, <2>1, <2>2
<1>10. CASE ~ (i < t)
  <2>1. Bit(q * a + r, i) = Bit(q * a, i)
    BY <1>2, <1>3, <1>10, HighBits
  <2> HIDE DEF a
  <2> QED
    BY <1>4, <1>6, <1>7, <1>8, <1>10, <2>1
<1> QED
  BY <1>9, <1>10

(* The sum of a word and its trailing zeros is their exclusive or. *)
LEMMA TrailingBits ==
  ASSUME NEW x \in Words \ {0}, NEW i \in 0 .. (Bits - 1)
  PROVE  Bit(x + Trailing(x), i) = (Bit(x, i) + Bit(Trailing(x), i)) % 2
<1> DEFINE t == TrailingZeros(x)
           a == Pow[t]
<1>1. t \in 0 .. (Bits - 1) /\ t \in 0 .. Bits /\ x % a = 0
  BY LowestBit, PowAssumption
<1>2. a \in Nat \ {0} /\ x \in Nat
  BY <1>1, PowPositive, AlignBounds DEF Words, Aligns
<1> HIDE DEF t
<1>3. PICK q \in Nat : x = q * a
  <2> HIDE DEF a
  <2>1. PICK q \in Nat : x = q * a + (x % a)
    BY <1>2, DivisionOf
  <2>2. q * a \in Nat
    BY <1>2
  <2> QED
    BY <1>1, <2>1, <2>2
<1>4. Trailing(x) = a - 1 /\ a - 1 \in 0 .. (a - 1) /\ a - 1 \in Nat
  BY <1>2 DEF Trailing, t
<1>5. Bit(x, i) \in {0, 1} /\ Bit(a - 1, i) \in {0, 1}
  BY <1>2, <1>4, BitValue
<1>6. Bit(0, i) = 0
  BY ZeroBits
<1>7. q * a = q * a + 0 /\ 0 * a = 0 /\ 0 * a + (a - 1) = a - 1
  <2> HIDE DEF a
  <2> QED
    BY <1>2
<1>8. CASE i < t
  <2>1. Bit(q * a + (a - 1), i) = Bit(a - 1, i)
    BY <1>1, <1>4, <1>8, LowBits
  <2>2. Bit(q * a + 0, i) = Bit(0, i)
    BY <1>1, <1>8, LowBits
  <2> HIDE DEF a
  <2> QED
    BY <1>3, <1>4, <1>5, <1>6, <1>7, <2>1, <2>2
<1>9. CASE ~ (i < t)
  <2>1. Bit(q * a + (a - 1), i) = Bit(q * a, i)
    BY <1>1, <1>4, <1>9, HighBits
  <2>2. Bit(0 * a + (a - 1), i) = Bit(0 * a, i)
    BY <1>1, <1>4, <1>9, HighBits
  <2> HIDE DEF a
  <2> QED
    BY <1>3, <1>4, <1>5, <1>6, <1>7, <2>1, <2>2
<1> QED
  BY <1>8, <1>9

(* A word has as many leading ones as the most that it has. *)
LEMMA LeadingOnesAre ==
  ASSUME NEW x \in Words
  PROVE  LET n == LeadingOnes(x)
         IN  /\ n \in 0 .. Bits
             /\ \A i \in (Bits - n) .. (Bits - 1) : Bit(x, i) = 1
             /\ n = Bits \/ Bit(x, Bits - n - 1) = 0
<1> DEFINE S == {n \in 0 .. Bits : n = Bits \/ Bit(x, Bits - n - 1) = 0}
<1>1. Bits \in Nat \ {0} /\ x \in Nat
  BY PowAssumption DEF Words
<1>2. Bits \in S /\ S \subseteq Nat
  BY <1>1
<1>3. PICK m \in S : \A n \in S : m <= n
  <2> HIDE DEF S
  <2> QED
    BY <1>2, LeastElement
<1>4. m \in 0 .. Bits /\ (m = Bits \/ Bit(x, Bits - m - 1) = 0)
  BY <1>3
<1>5. ASSUME NEW i \in (Bits - m) .. (Bits - 1) PROVE Bit(x, i) = 1
  <2> DEFINE n == Bits - i - 1
  <2>1. n \in 0 .. Bits /\ n < m /\ n # Bits /\ Bits - n - 1 = i /\ i \in 0 .. (Bits - 1)
    BY <1>1, <1>4
  <2>2. n \notin S
    BY <1>3, <2>1
  <2>3. Bit(x, i) # 0
    BY <2>1, <2>2
  <2> QED
    BY <1>1, <2>1, <2>3, BitValue
<1>6. \E n \in 0 .. Bits : /\ \A i \in (Bits - n) .. (Bits - 1) : Bit(x, i) = 1
                           /\ n = Bits \/ Bit(x, Bits - n - 1) = 0
  BY <1>4, <1>5
<1> QED
  BY <1>6 DEF LeadingOnes

(* A word with all bits from t upwards is within Pow[t] of the modulus: it *)
(* is, bit by bit, within Pow[j] for every j down to t.                    *)
LEMMA AllOnesAbove ==
  ASSUME NEW x \in Words, NEW t \in 0 .. Bits,
         \A i \in t .. (Bits - 1) : Bit(x, i) = 1
  PROVE  Modulus - Pow[t] <= x
<1> DEFINE Bad == {d \in 0 .. (Bits - t) : ~ (Modulus - Pow[Bits - d] <= x)}
<1>1. Bits \in Nat \ {0} /\ Modulus \in Nat /\ x \in Nat /\ x < Modulus
  BY PowPositive, PowAssumption DEF Words, Modulus
<1>2. Bits - (Bits - t) = t /\ Bits - t \in 0 .. (Bits - t)
  BY <1>1
<1>3. SUFFICES ASSUME Bad # {} PROVE FALSE
  BY <1>2
<1>4. Bad \subseteq Nat
  OBVIOUS
<1> HIDE DEF Bad
<1>5. PICK d \in Bad : \A n \in Bad : d <= n
  BY <1>3, <1>4, LeastElement
<1>6. d \in 0 .. (Bits - t) /\ ~ (Modulus - Pow[Bits - d] <= x)
  BY <1>5 DEF Bad
<1>7. d # 0
  BY <1>1, <1>6 DEF Modulus
<1> DEFINE j == Bits - d
           p == Pow[j]
<1>8. /\ d - 1 \in 0 .. (Bits - t) /\ ~ (d <= d - 1) /\ Bits - (d - 1) = j + 1
      /\ j \in t .. (Bits - 1) /\ j \in 0 .. (Bits - 1) /\ j + 1 \in 1 .. Bits
      /\ j \in 0 .. Bits /\ Bits \in (j + 1) .. Bits /\ (j + 1) - 1 = j
  BY <1>1, <1>6, <1>7
<1>9. Modulus - Pow[j + 1] <= x
  <2>1. d - 1 \notin Bad
    BY <1>5, <1>8
  <2> QED
    BY <1>8, <2>1 DEF Bad
<1>10. p \in Nat \ {0} /\ Pow[j + 1] = 2 * p
  BY <1>8, PowPositive, PowAssumption
<1>11. PICK m \in Nat \ {0} : Pow[Bits] = (2 * m) * Pow[j]
  BY <1>8, PowIsEven
<1>12. Bit(x, j) = 1
  BY <1>8
<1> HIDE DEF j
<1>13. PICK q \in Nat : x = q * p + (x % p)
  <2> HIDE DEF p
  <2> QED
    BY <1>1, <1>10, DivisionOf
<1>14. x % p \in 0 .. (p - 1)
  <2> HIDE DEF p
  <2> QED
    BY <1>1, <1>10, DivisionOf
<1>15. q % 2 = 1
  <2> DEFINE r == x % p
  <2>0. x = q * Pow[j] + r /\ r \in 0 .. (Pow[j] - 1) /\ j \in 0 .. (Bits - 1)
    BY <1>8, <1>13, <1>14
  <2> HIDE DEF r
  <2>1. Bit(x, j) = q % 2
    BY <2>0, BitIs
  <2> QED
    BY <1>12, <2>1
<1> DEFINE r == x % p
<1>16. x = q * p + r /\ r \in 0 .. (p - 1) /\ Modulus = (2 * m) * p
  BY <1>11, <1>13, <1>14 DEF Modulus
<1>17. ~ (Modulus - p <= x)
  BY <1>6 DEF j
<1> HIDE DEF p, r
<1>18. q < 2 * m
  BY <1>1, <1>10, <1>16
<1>19. ~ (q + 1 >= 2 * m)
  <2>1. SUFFICES ASSUME q + 1 >= 2 * m PROVE FALSE
    OBVIOUS
  <2>2. q = 2 * m - 1
    BY <1>18, <2>1
  <2>3. (2 * m - 1) * p = (2 * m) * p - p
    BY <1>10
  <2> QED
    BY <1>10, <1>16, <1>17, <2>2, <2>3
<1>20. q >= 2 * m - 2
  <2>1. SUFFICES ASSUME q + 1 <= 2 * m - 2 PROVE FALSE
    OBVIOUS
  <2>2. (q + 1) * p <= (2 * m - 2) * p
    BY <1>10, <2>1
  <2>3. (q + 1) * p = q * p + p /\ (2 * m - 2) * p = (2 * m) * p - 2 * p
    BY <1>10
  <2> QED
    BY <1>9, <1>10, <1>16, <2>2, <2>3
<1>21. q = 2 * (m - 1)
  BY <1>19, <1>20
<1> QED
  BY <1>15, <1>21

(* Mask::new takes the words without a hole, and of these all but zero. *)
LEMMA MaskNewHasNoHole ==
  ASSUME NEW x \in Words \ {0}
  PROVE  x + Trailing(x) = Modulus - 1 <=> ~ HasHole(x)
<1> DEFINE t == TrailingZeros(x)
           n == LeadingOnes(x)
           a == Pow[t]
<1>1. t \in 0 .. (Bits - 1) /\ t \in 0 .. Bits /\ x % a = 0
  BY LowestBit, PowAssumption
<1>2. a \in Aligns
  BY <1>1 DEF Aligns
<1>3. /\ a \in Nat \ {0} /\ Modulus \in Nat /\ Bits \in Nat \ {0}
      /\ x \in Nat /\ x < Modulus
  BY <1>2, AlignBounds, PowAssumption DEF Words
<1>4. /\ n \in 0 .. Bits
      /\ \A i \in (Bits - n) .. (Bits - 1) : Bit(x, i) = 1
      /\ n = Bits \/ Bit(x, Bits - n - 1) = 0
  BY LeadingOnesAre
<1>5. Trailing(x) = a - 1 /\ (HasHole(x) <=> n + t # Bits)
  BY DEF Trailing, HasHole
<1> HIDE DEF t, n
<1>6. x + Trailing(x) = Modulus - 1 <=> x = Modulus - a
  BY <1>3, <1>5
<1>7. ASSUME x = Modulus - a PROVE n + t = Bits
  <2>1. \A i \in 0 .. (Bits - 1) : Bit(x, i) = IF i < t THEN 0 ELSE 1
    BY <1>1, <1>7, MaskBits
  <2>2. CASE n + t < Bits
    <3>1. Bits - n - 1 \in 0 .. (Bits - 1) /\ ~ (Bits - n - 1 < t) /\ n # Bits
      BY <1>1, <1>3, <1>4, <2>2
    <3>2. Bit(x, Bits - n - 1) = 1
      BY <2>1, <3>1
    <3> QED
      BY <1>4, <3>1, <3>2
  <2>3. CASE Bits < n + t
    <3>1. Bits - n \in 0 .. (Bits - 1) /\ Bits - n < t
      BY <1>1, <1>3, <1>4, <2>3
    <3>2. Bits - n \in (Bits - n) .. (Bits - 1)
      BY <1>3, <1>4, <3>1
    <3>3. Bit(x, Bits - n) = 0
      BY <2>1, <3>1
    <3> QED
      BY <1>4, <3>2, <3>3
  <2> QED
    BY <1>1, <1>3, <1>4, <2>2, <2>3
<1>8. ASSUME n + t = Bits PROVE x = Modulus - a
  <2>1. Bits - n = t
    BY <1>1, <1>3, <1>4, <1>8
  <2>2. Modulus - a <= x
    BY <1>1, <1>4, <2>1, AllOnesAbove
  <2>3. PICK k \in Nat \ {0, 1} : Modulus = k * a
    BY <1>2, AlignDivides
  <2> HIDE DEF a
  <2>4. PICK q \in Nat : x = q * a + (x % a)
    BY <1>3, DivisionOf
  <2>5. q * a \in Nat
    BY <1>3
  <2>6. x = q * a
    BY <1>1, <2>4, <2>5
  <2>7. q * a <= k * a - a
    BY <1>3, <2>3, <2>6, MultiplesApart
  <2> QED
    BY <1>3, <2>2, <2>3, <2>6, <2>7
<1> QED
  BY <1>5, <1>6, <1>7, <1>8

(* What align.rs and mask.rs write with & , ^ and leading_ones is what the *)
(* arithmetic of the other theorems says, for words of every width.        *)
THEOREM BitsHold == Spec => []BitsAgree
<1>1. TypeOK => BitsAgree
  <2> SUFFICES ASSUME TypeOK PROVE BitsAgree
    OBVIOUS
  <2>1. word \in Words /\ mask \in Masks
    BY DEF TypeOK
  <2>2. \A i \in 0 .. (Bits - 1) :
          Bit(MaskedBy(word, mask), i) = Bit(word, i) * Bit(mask, i)
    BY <2>1, MaskedBits
  <2>3. \A i \in 0 .. (Bits - 1) : word # 0 =>
          Bit(word + Trailing(word), i) = (Bit(word, i) + Bit(Trailing(word), i)) % 2
    BY <2>1, TrailingBits
  <2>4. word # 0 => (word + Trailing(word) = Modulus - 1 <=> ~ HasHole(word))
    BY <2>1, MaskNewHasNoHole
  <2>5. MaskNew(word) = {x \in {word} \ {0} : ~ HasHole(x)}
    BY <2>4 DEF MaskNew
  <2> QED
    BY <2>2, <2>3, <2>5 DEF BitsAgree
<1> QED
  BY <1>1, TypeHolds, PTL
=============================================================================
