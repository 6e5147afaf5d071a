--------------------------- MODULE PointersProofs ---------------------------
(***************************************************************************)
(* What holds wherever the compiler stores the address, whether or not     *)
(* CStr is thin, and for all addresses and lengths.                        *)
(***************************************************************************)
EXTENDS Pointers, TLAPS

(* The probe of new_inner finds out how pointers are laid out. *)
LEMMA ProbeTells ==
  SliceLayout = IF LengthLast THEN AddressFirst ELSE AddressLast
  BY PointersAssumption DEF SliceLayout, Native

(* The layout of a pointee has a place for metadata when it has a length,  *)
(* and only then (Pointee::LAYOUT).                                        *)
LEMMA OnlyWhenThin ==
  ASSUME NEW k \in Kinds
  PROVE  LayoutOf(k) = AddressOnly <=> ~HasLength(k)
<1>1. SliceLayout # AddressOnly
  BY ProbeTells DEF AddressFirst, AddressLast, AddressOnly
<1>2. k \in {"Sized", "CStr"} \/ HasLength(k)
  BY DEF Kinds, HasLength, Metadata
<1>3. k = "Sized" => ~HasLength(k)
  BY DEF HasLength, Metadata
<1> QED
  BY <1>1, <1>2, <1>3 DEF LayoutOf

(* What the compiler has takes as many words as the pointee does. *)
LEMMA NativeSize ==
  ASSUME NEW k \in Kinds, NEW a, NEW n
  PROVE  Len(Native(a, LengthOf(k, n))) = IF HasLength(k) THEN 2 ELSE 1
<1>1. CASE ~HasLength(k)
  BY <1>1 DEF Native, LengthOf
<1>2. CASE HasLength(k)
  <2>1. LengthOf(k, n) = <<n>>
    BY <1>2 DEF LengthOf
  <2>2. Native(a, <<n>>) = IF LengthLast THEN <<a, n>> ELSE <<n, a>>
    BY DEF Native
  <2> QED
    BY <1>2, <2>1, <2>2
<1> QED
  BY <1>1, <1>2

(* compose writes what the compiler would have. *)
LEMMA ComposeIsNative ==
  ASSUME NEW k \in Kinds, NEW a, NEW n
  PROVE  Compose(k, a, LengthOf(k, n)) = Native(a, LengthOf(k, n))
<1>1. CASE ~HasLength(k)
  BY <1>1, OnlyWhenThin DEF Compose, Native, LengthOf
<1>2. CASE HasLength(k)
  <2>1. LayoutOf(k) = SliceLayout
    BY <1>2 DEF LayoutOf, HasLength, Metadata
  <2>2. LayoutOf(k) # AddressOnly
    BY <1>2, OnlyWhenThin
  <2>3. LayoutOf(k).address = (IF LengthLast THEN 1 ELSE 2)
    BY <2>1, ProbeTells DEF AddressFirst, AddressLast
  <2>4. LengthOf(k, n) = <<n>>
    BY <1>2 DEF LengthOf
  <2>5. Compose(k, a, <<n>>)
          = [i \in 1 .. 2 |-> IF i = LayoutOf(k).address THEN a ELSE n]
    BY <2>2 DEF Compose
  <2>6. CASE LengthLast
    <3>1. Native(a, <<n>>) = <<a, n>>
      BY <2>6 DEF Native
    <3>2. [i \in 1 .. 2 |-> IF i = LayoutOf(k).address THEN a ELSE n] = <<a, n>>
      BY <2>3, <2>6
    <3> QED
      BY <2>4, <2>5, <3>1, <3>2
  <2>7. CASE ~LengthLast
    <3>1. Native(a, <<n>>) = <<n, a>>
      BY <2>7 DEF Native
    <3>2. [i \in 1 .. 2 |-> IF i = LayoutOf(k).address THEN a ELSE n] = <<n, a>>
      BY <2>3, <2>7
    <3> QED
      BY <2>4, <2>5, <3>1, <3>2
  <2> QED
    BY <2>6, <2>7
<1> QED
  BY <1>1, <1>2

(* decompose finds the parts of what the compiler has. *)
LEMMA DecomposeNative ==
  ASSUME NEW k \in Kinds, NEW a, NEW n
  PROVE  /\ AddressIn(k, Native(a, LengthOf(k, n))) = a
         /\ MetadataIn(k, Native(a, LengthOf(k, n))) = LengthOf(k, n)
<1>1. CASE ~HasLength(k)
  BY <1>1, OnlyWhenThin DEF AddressIn, MetadataIn, AddressOnly, Native, LengthOf
<1>2. CASE HasLength(k)
  <2>1. LayoutOf(k) = IF LengthLast THEN AddressFirst ELSE AddressLast
    BY <1>2, ProbeTells DEF LayoutOf, HasLength, Metadata
  <2>2. LengthOf(k, n) = <<n>>
    BY <1>2 DEF LengthOf
  <2> QED
    BY <1>2, <2>1, <2>2 DEF AddressIn, MetadataIn, AddressFirst, AddressLast,
                              AddressOnly, Native
<1> QED
  BY <1>1, <1>2

-----------------------------------------------------------------------------
(* TypeOK and NativeImage are inductive together: the words of a pointer   *)
(* are the compiler's before a cast, so decompose finds its parts.         *)
THEOREM InvHolds == Spec => []Inv
<1> USE DEF Inv
<1>1. Init => Inv
  BY NativeSize DEF Init, TypeOK, NativeImage
<1>2. Inv /\ [Next]_vars => Inv'
  <2> SUFFICES ASSUME Inv, [Next]_vars PROVE Inv'
    OBVIOUS
  <2>1. CASE ComposePointer
    <3>1. kind' \in Kinds /\ image' = Native(address', LengthOf(kind', length'))
      BY <2>1, ComposeIsNative DEF ComposePointer
    <3> QED
      BY <2>1, <3>1, NativeSize DEF ComposePointer, TypeOK, NativeImage
  <2>2. ASSUME NEW to \in Kinds, Cast(to) PROVE Inv'
    <3>1. CASE CastPanics(kind, to)
      BY <2>2, <3>1 DEF Cast, TypeOK, NativeImage
    <3>2. CASE ~CastPanics(kind, to)
      <4>1. /\ AddressIn(kind, image) = address
            /\ MetadataIn(kind, image) = LengthOf(kind, length)
        BY DecomposeNative DEF TypeOK, NativeImage
      <4>2. CastMetadata(to, LengthOf(kind, length)) = LengthOf(to, length)
        BY <3>2 DEF CastPanics, CastMetadata, LengthOf
      <4>3. image' = Native(address, LengthOf(to, length))
        BY <2>2, <3>2, <4>1, <4>2, ComposeIsNative DEF Cast
      <4>4. kind' = to /\ UNCHANGED <<address, length, panicked>>
        BY <2>2, <3>2 DEF Cast
      <4> QED
        BY <4>3, <4>4, NativeSize DEF TypeOK, NativeImage
    <3> QED
      BY <3>1, <3>2
  <2>3. CASE UNCHANGED vars
    BY <2>3 DEF vars, TypeOK, NativeImage
  <2> QED
    BY <2>1, <2>2, <2>3 DEF Next
<1> QED
  BY <1>1, <1>2, PTL DEF Spec

(* A pointer has as many words as its pointee takes. *)
THEOREM TypeHolds == Spec => []TypeOK
  BY InvHolds, PTL DEF Inv

(* Every chain of compose and cast yields the pointer that the compiler    *)
(* would have made of the address and the length.                          *)
THEOREM ImageHolds == Spec => []NativeImage
  BY InvHolds, PTL DEF Inv

(* While CStr is wide, no cast that type-checks panics (cast_metadata). *)
THEOREM CastsSucceed ==
  ASSUME ~CStrIsThin
  PROVE  Spec => []NeverPanics
<1>1. Init => NeverPanics
  BY DEF Init, NeverPanics
<1>2. Inv /\ NeverPanics /\ [Next]_vars => NeverPanics'
  <2> SUFFICES ASSUME Inv, NeverPanics, [Next]_vars PROVE NeverPanics'
    OBVIOUS
  <2>1. ASSUME NEW to \in Kinds, Cast(to) PROVE ~CastPanics(kind, to)
    BY <2>1 DEF Cast, MayCast, CastPanics, HasLength, Metadata
  <2>2. ASSUME NEW to \in Kinds, Cast(to) PROVE NeverPanics'
    BY <2>1, <2>2 DEF Cast, NeverPanics
  <2> QED
    BY <2>2 DEF Next, ComposePointer, NeverPanics, vars
<1> QED
  BY <1>1, <1>2, InvHolds, PTL DEF Spec
=============================================================================
