------------------------------ MODULE Pointers ------------------------------
(***************************************************************************)
(* Pointers taken apart and put together as raw words (crates/core/src/ptr *)
(* layout.rs, metadata.rs, components.rs, pointer.rs).  Rust leaves open   *)
(* where a wide pointer has its address, so layout.rs finds it out from a  *)
(* pointer it makes; and it allows for a CStr that one day is thin.        *)
(***************************************************************************)
EXTENDS Naturals, Sequences

CONSTANTS
  LengthLast,    (* Does the compiler store the address before the length?  *)
  CStrIsThin,    (* Are pointers to CStr of one word?                       *)
  Addresses,     (* Addresses that are pointed to.                          *)
  Lengths        (* Lengths that wide pointers may have.                    *)

ASSUME PointersAssumption ==
  /\ LengthLast \in BOOLEAN
  /\ CStrIsThin \in BOOLEAN
  /\ Addresses \subseteq Nat
  /\ Lengths \subseteq Nat

Kinds == {"Sized", "slice", "str", "CStr", "OsStr", "Path"}

(* Pointee::Metadata *)
Metadata(kind) ==
  IF kind = "Sized" THEN "()" ELSE IF kind = "CStr" THEN "CStrMetadata" ELSE "usize"

(* size_of::<P::Metadata>(), in words; CStrMetadata is a Select. *)
HasLength(kind) ==
  Metadata(kind) = "usize" \/ (Metadata(kind) = "CStrMetadata" /\ ~CStrIsThin)

(* A pointer as the compiler has it: its words, for an address and for the *)
(* metadata, which is a sequence of no length or of one.                   *)
Native(address, metadata) ==
  IF metadata = <<>> THEN <<address>>
  ELSE IF LengthLast THEN <<address, metadata[1]>>
  ELSE <<metadata[1], address>>

-----------------------------------------------------------------------------
(* Which word of a pointer is its address and which, if any, its metadata:  *)
(* what compose, decompose and the offsets of the three types go by.       *)
AddressFirst == [address |-> 1, metadata |-> 2]
AddressLast == [address |-> 2, metadata |-> 1]
AddressOnly == [address |-> 1, metadata |-> 0]

(* What SliceLayout must not be: the two arms of its match swapped. *)
SliceLayoutSwapped ==
  IF Native(255, <<0>>) = <<255, 0>> THEN AddressLast ELSE AddressFirst

(* PointerLayout::<[T]>::new_inner: a slice of length 0 at 0xFF tells. *)
SliceLayout ==
  IF Native(255, <<0>>) = <<255, 0>> THEN AddressFirst ELSE AddressLast

(* Pointee::LAYOUT.  CStrMetadata::new(0).get() is None for a thin CStr;   *)
(* str, OsStr and Path take the layout of [u8].                            *)
LayoutOf(kind) ==
  IF kind = "Sized" \/ (kind = "CStr" /\ ~HasLength(kind)) THEN AddressOnly
  ELSE SliceLayout

(* PointerLayout::compose: AddressOnly writes no metadata. *)
Compose(kind, address, metadata) ==
  IF LayoutOf(kind) = AddressOnly THEN <<address>>
  ELSE [i \in 1 .. 2 |-> IF i = LayoutOf(kind).address THEN address ELSE metadata[1]]

(* PointerLayout::decompose *)
AddressIn(kind, image) == image[LayoutOf(kind).address]

MetadataIn(kind, image) ==
  IF LayoutOf(kind) = AddressOnly THEN <<>> ELSE <<image[LayoutOf(kind).metadata]>>

(* What MayCast must not be: one with CastMetadata<usize> for (). *)
MayCastUnit(from, to) == TRUE

(* <from as CastMetadata<to>>: what there are implementations of. *)
MayCast(from, to) ==
  \/ Metadata(to) = Metadata(from)
  \/ Metadata(to) = "()"
  \/ {Metadata(from), Metadata(to)} \subseteq {"usize", "CStrMetadata"}

(* cast_metadata: transmute_copy, which panics when to is the larger. *)
CastPanics(from, to) == HasLength(to) /\ ~HasLength(from)

CastMetadata(to, metadata) == IF HasLength(to) THEN metadata ELSE <<>>

-----------------------------------------------------------------------------
VARIABLES
  kind,      (* The pointee of the pointer that is held.                    *)
  image,     (* The words of the pointer.                                   *)
  address,   (* The address it was made with.                               *)
  length,    (* The length it was made with.                                *)
  panicked   (* Did a cast panic?                                           *)

vars == <<kind, image, address, length, panicked>>

LengthOf(k, n) == IF HasLength(k) THEN <<n>> ELSE <<>>

Init ==
  /\ kind \in Kinds /\ address \in Addresses /\ length \in Lengths
  /\ image = Native(address, LengthOf(kind, length))
  /\ panicked = FALSE

(* pointer::compose, from an address and metadata that the caller has. *)
ComposePointer ==
  /\ ~panicked
  /\ kind' \in Kinds /\ address' \in Addresses /\ length' \in Lengths
  /\ image' = Compose(kind', address', LengthOf(kind', length'))
  /\ UNCHANGED panicked

(* pointer::cast: decompose, cast_metadata, compose. *)
Cast(to) ==
  /\ ~panicked /\ MayCast(kind, to)
  /\ IF CastPanics(kind, to)
     THEN panicked' = TRUE /\ UNCHANGED <<kind, image>>
     ELSE /\ kind' = to
          /\ image' = Compose(to, AddressIn(kind, image),
                              CastMetadata(to, MetadataIn(kind, image)))
          /\ UNCHANGED panicked
  /\ UNCHANGED <<address, length>>

Next == ComposePointer \/ \E to \in Kinds : Cast(to)

Spec == Init /\ [][Next]_vars

-----------------------------------------------------------------------------
(* A pointer has as many words as its pointee takes (Components): no field *)
(* of the union is read that the pointer did not fill.                     *)
TypeOK ==
  /\ kind \in Kinds /\ address \in Addresses /\ length \in Lengths
  /\ Len(image) = (IF HasLength(kind) THEN 2 ELSE 1)
  /\ panicked \in BOOLEAN

(* Through every chain of casts the words are those that the compiler      *)
(* would have for the address and the length (compose, decompose, cast):   *)
(* dereferencing the pointer reaches what it was made for, and no more.    *)
NativeImage == image = Native(address, LengthOf(kind, length))

(* The inductive invariant. *)
Inv == TypeOK /\ NativeImage

(* While CStr is wide, no cast that type-checks panics (cast_metadata).    *)
NeverPanics == ~panicked
=============================================================================
