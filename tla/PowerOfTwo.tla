----------------------------- MODULE PowerOfTwo -----------------------------
(***************************************************************************)
(* Powers of two that fit a u128 (crates/core/src/num/pow2.rs), kept as    *)
(* their exponents, in a byte.  An Option<T> is a set of at most one T, and *)
(* so is a result that may be a panic instead.                             *)
(***************************************************************************)
EXTENDS Integers

CONSTANTS
  Widest,    (* u128::BITS                                                  *)
  ByteSize,  (* How many values a u8 has: 2 * Widest.                       *)
  Value      (* The powers themselves, by their exponents.                  *)

ASSUME WidestAssumption ==
  /\ Widest \in Nat \ {0}
  /\ ByteSize = 2 * Widest

Exponents == 0 .. (Widest - 1)
Bytes == 0 .. (ByteSize - 1)

ASSUME ValueAssumption ==
  /\ Value \in [Exponents -> Nat]
  /\ Value[0] = 1
  /\ \A e \in 1 .. (Widest - 1) : Value[e] = 2 * Value[e - 1]

(* Of core: u8::strict_add, which panics where the sum is no u8, and       *)
(* u8::checked_sub.                                                        *)
StrictAdd(a, b) == {a + b} \cap Bytes

CheckedSub(a, b) == {a - b} \cap Bytes

-----------------------------------------------------------------------------
(* PowerOfTwo::from_exponent *)
FromExponent(byte) == {byte} \cap Exponents

(* What CheckedMul must not be: one that lets the sum wrap in seven bits. *)
CheckedMulWraps(p, q) == FromExponent((p + q) % Widest)

(* PowerOfTwo::checked_mul *)
CheckedMul(p, q) == UNION {FromExponent(e) : e \in StrictAdd(p, q)}

(* PowerOfTwo::checked_div *)
CheckedDiv(p, q) == UNION {FromExponent(e) : e \in CheckedSub(p, q)}
=============================================================================
