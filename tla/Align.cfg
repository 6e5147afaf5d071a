SPECIFICATION Spec
CONSTANTS
  Bits = 5
  Pow <- PowersOfTwo
  Widest = 6
  ByteSize = 12
  Value <- ValuesOfPowers
INVARIANTS
  TypeOK MasksMirrorAligns BitsAgree AddrAligned RoundUpIsLeast RoundedUpFits
  PowersExact
