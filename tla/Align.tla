------------------------------- MODULE Align -------------------------------
(***************************************************************************)
(* A caller that holds an Align, a Mask, a usize and a PowerOfTwo, and     *)
(* makes each from the others by the operations of align.rs, mask.rs and   *)
(* pow2.rs.  Most of these end in new_unchecked or transmute, which are    *)
(* sound only while every value held is a power of two, or its mask.       *)
(***************************************************************************)
EXTENDS MemLayout, PowerOfTwo

VARIABLES
  align,  (* An Align. *)
  mask,   (* A Mask.   *)
  word,   (* A usize.  *)
  power   (* A PowerOfTwo, by its exponent. *)

vars == <<align, mask, word, power>>

(* Align::default, Mask::MIN, PowerOfTwo::default *)
Init ==
  /\ align = Pow[0]
  /\ mask = MaskFromAlign(Pow[Bits - 1])
  /\ word = 0
  /\ power = 0

(* The caller reads some usize: a size, an address, the bits of a mask. *)
Read ==
  /\ word' \in Words
  /\ UNCHANGED <<align, mask, power>>

(* Align::new, Align::from_addr *)
MakeAlign ==
  /\ align' \in AlignNew(word) \cup AlignFromAddr(word)
  /\ UNCHANGED <<mask, word, power>>

(* Mask::new *)
MakeMask ==
  /\ mask' \in MaskNew(word)
  /\ UNCHANGED <<align, word, power>>

(* Align::mask *)
ToMask ==
  /\ mask' = MaskFromAlign(align)
  /\ UNCHANGED <<align, word, power>>

(* Mask::align *)
ToAlign ==
  /\ align' = MaskAlign(mask)
  /\ UNCHANGED <<mask, word, power>>

(* Align::min, max and clamp; Mask::min, max and clamp. *)
PickAlign ==
  /\ \E other \in Aligns :
       align' \in {MinOf(align, MaskAlign(mask)), MaxOf(align, MaskAlign(mask))}
                    \cup ClampTo(align, MaskAlign(mask), other)
  /\ UNCHANGED <<mask, word, power>>

PickMask ==
  /\ \E other \in Masks :
       mask' \in {MinOf(mask, MaskFromAlign(align)), MaxOf(mask, MaskFromAlign(align))}
                   \cup ClampTo(mask, MaskFromAlign(align), other)
  /\ UNCHANGED <<align, word, power>>

(* Align::round_up_size *)
RoundUp ==
  /\ word' \in RoundUpSize(align, word)
  /\ UNCHANGED <<align, mask, power>>

(* PowerOfTwo::from_exponent, of any byte. *)
MakePower ==
  /\ \E byte \in Bytes : power' \in FromExponent(byte)
  /\ UNCHANGED <<align, mask, word>>

(* PowerOfTwo::checked_mul, checked_div *)
ScalePower ==
  /\ \E other \in Exponents : power' \in CheckedMul(power, other) \cup CheckedDiv(power, other)
  /\ UNCHANGED <<align, mask, word>>

Next ==
  \/ Read
  \/ MakeAlign \/ MakeMask
  \/ ToMask \/ ToAlign
  \/ PickAlign \/ PickMask
  \/ RoundUp
  \/ MakePower \/ ScalePower

Spec == Init /\ [][Next]_vars

-----------------------------------------------------------------------------
(* Whatever the caller does, an Align is a power of two, a Mask the mask   *)
(* of one and an exponent one that has a name: what every new_unchecked    *)
(* and transmute relies on.                                                *)
TypeOK ==
  /\ align \in Aligns /\ mask \in Masks /\ word \in Words
  /\ power \in Exponents

(* An Align and its Mask stand for each other (Align::mask, Mask::align).  *)
RoundTrip ==
  /\ MaskAlign(MaskFromAlign(align)) = align
  /\ MaskFromAlign(MaskAlign(mask)) = mask

(* The smaller of two masks is that of the larger alignment.               *)
OrderReversed ==
  MinOf(mask, MaskFromAlign(align)) = MaskFromAlign(MaxOf(align, MaskAlign(mask)))

(* Masks are alignments in another form and, though ordered against them   *)
(* (Mask::min, Align::max), may be compared and converted in any order.    *)
MasksMirrorAligns == RoundTrip /\ OrderReversed

(* The bits of the words say the same as their arithmetic: & with a mask   *)
(* (round_up_size), ^ with the trailing zeros (Mask::new), and Mask::new   *)
(* takes the words without a hole, but for zero (has_hole).                *)
BitsAgree ==
  /\ \A i \in 0 .. (Bits - 1) :
       /\ Bit(MaskedBy(word, mask), i) = Bit(word, i) * Bit(mask, i)
       /\ word # 0 =>
            Bit(word + Trailing(word), i) = (Bit(word, i) + Bit(Trailing(word), i)) % 2
  /\ MaskNew(word) = {x \in {word} \ {0} : ~HasHole(x)}

(* An address has the largest alignment that divides it (from_addr).       *)
AddrAligned ==
  AlignFromAddr(word) =
    {a \in Aligns : /\ word # 0
                    /\ word % a = 0
                    /\ \A b \in Aligns : word % b = 0 => b <= a}

(* The least multiple of a that is not below x. *)
IsRoundedUp(x, a, n) ==
  /\ n % a = 0
  /\ x <= n
  /\ \A k \in x .. (n - 1) : k % a # 0

(* round_up_size answers the least multiple that is not below the size, and *)
(* None where that overflows a usize: the wrapping sum never answers a      *)
(* wrong size.  The exception is size 0, whose least multiple is 0 without  *)
(* any overflow, and which is None all the same, as a NonZero cannot be 0.  *)
RoundUpIsLeast ==
  RoundUpSize(align, word) =
    IF word = 0 THEN {} ELSE {n \in Words : IsRoundedUp(word, align, n)}

(* A size that a Layout may have (max_size), but for 0, can be rounded up to *)
(* its alignment, and the result still is such a size.                       *)
RoundedUpFits ==
  word <= MaxSize(align) =>
    /\ word # 0 => RoundUpSize(align, word) # {}
    /\ \A n \in RoundUpSize(align, word) : n <= MaxSize(align)

(* A product or a quotient of two powers (checked_mul, checked_div) is     *)
(* that of their values, and None exactly where this is no power that fits *)
(* a u128; the sum of the exponents never leaves its byte, so nothing      *)
(* panics.                                                                 *)
PowersExact ==
  \A other \in Exponents :
    /\ StrictAdd(power, other) # {}
    /\ CheckedMul(power, other) =
         {e \in Exponents : Value[e] = Value[power] * Value[other]}
    /\ CheckedDiv(power, other) =
         {e \in Exponents : Value[e] * Value[other] = Value[power]}
=============================================================================
