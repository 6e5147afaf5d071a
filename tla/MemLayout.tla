----------------------------- MODULE MemLayout -----------------------------
(***************************************************************************)
(* Alignments and address masks (crates/core/src/mem: align.rs, mask.rs,   *)
(* layout_private.rs) over words of Bits bits.  An Option<T> is a set of   *)
(* at most one T.                                                          *)
(***************************************************************************)
EXTENDS Integers

CONSTANTS
  Bits,  (* usize::BITS                                                     *)
  Pow    (* The powers of two up to 2^Bits.                                 *)

ASSUME PowAssumption ==
  /\ Bits \in Nat \ {0}
  /\ Pow \in [0 .. Bits -> Nat]
  /\ Pow[0] = 1
  /\ \A i \in 1 .. Bits : Pow[i] = 2 * Pow[i - 1]

Modulus == Pow[Bits]
Words == 0 .. (Modulus - 1)

(* AlignRepr *)
Aligns == {Pow[i] : i \in 0 .. (Bits - 1)}

(* Of core: usize::is_power_of_two, the operator !, and trailing_zeros,    *)
(* which is Bits for zero.                                                 *)
IsPowerOfTwo(x) == x \in Aligns

Not(x) == (Modulus - 1) - x

TrailingZeros(x) ==
  CHOOSE i \in 0 .. Bits :
    /\ x % Pow[i] = 0
    /\ i = Bits \/ x % Pow[i + 1] # 0

Bit(x, i) == (x \div Pow[i]) % 2

LeadingOnes(x) ==
  CHOOSE n \in 0 .. Bits :
    /\ \A i \in (Bits - n) .. (Bits - 1) : Bit(x, i) = 1
    /\ n = Bits \/ Bit(x, Bits - n - 1) = 0

-----------------------------------------------------------------------------
(* Align::new, Align::from_nonzero *)
AlignNew(x) == {y \in {x} : IsPowerOfTwo(y)}

(* What AlignFromAddr must not be: one that counts the bits of zero too. *)
AlignFromAddrNull(x) == {Pow[TrailingZeros(x) % Bits]}

(* Align::from_addr: 1 << trailing_zeros, which is unwrapped. *)
AlignFromAddr(x) == {Pow[TrailingZeros(y)] : y \in {x} \ {0}}

(* What MaskFromAlign must not be: one that leaves the align's own bit out. *)
MaskFromAlignNot(align) == Not(align)

(* Mask::from_align, Align::mask *)
MaskFromAlign(align) == Not(align - 1)

(* MaskRepr *)
Masks == {MaskFromAlign(align) : align \in Aligns}

(* Mask::align, Align::from_mask *)
MaskAlign(mask) == Not(mask) + 1

(* The mask of the trailing zeros, in Mask::from_nonzero. *)
Trailing(x) == Pow[TrailingZeros(x)] - 1

(* What MaskNew must not be: one that takes a zero in the top bit for good. *)
MaskNewUnfilled(x) ==
  {y \in {x} \ {0} : \E i \in {Bits - 1, Bits} : y + Trailing(y) = Pow[i] - 1}

(* Mask::new, Mask::from_nonzero.  The two masks that are XORed have no    *)
(* bit in common, so the result is their sum.                              *)
MaskNew(x) == {y \in {x} \ {0} : y + Trailing(y) = Modulus - 1}

(* has_hole *)
HasHole(x) == LeadingOnes(x) + TrailingZeros(x) # Bits

-----------------------------------------------------------------------------
(* compare, min, max, clamp *)
MinOf(a, b) == IF b < a THEN b ELSE a

(* What MaxOf must not be: its operands compared the wrong way around. *)
MaxOfSwapped(a, b) == IF a < b THEN a ELSE b

MaxOf(a, b) == IF b < a THEN a ELSE b

ClampTo(x, low, high) ==
  IF low > high THEN {}
  ELSE IF x < low THEN {low} ELSE IF x > high THEN {high} ELSE {x}

(* x & mask, where mask has no hole: what is below its lowest bit goes. *)
MaskedBy(x, mask) == x - (x % (Modulus - mask))

(* What RoundUpSize must not be: one that adds the whole align. *)
RoundUpSizeFully(align, size) ==
  {MaskedBy((size + align) % Modulus, MaskFromAlign(align))} \ {0}

(* Align::round_up_size *)
RoundUpSize(align, size) ==
  {MaskedBy((size + (align - 1)) % Modulus, MaskFromAlign(align))} \ {0}

(* What MaxSize must not be: isize::MAX, for every align. *)
MaxSizeOfAll(align) == Pow[Bits - 1] - 1

(* Align::max_size *)
MaxSize(align) == Pow[Bits - 1] - align
=============================================================================
