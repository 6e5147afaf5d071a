SPECIFICATION Spec
CONSTANTS
  LengthLast = TRUE
  CStrIsThin = FALSE
  Addresses <- SomeAddresses
  Lengths <- SomeLengths
INVARIANTS Inv NeverPanics
