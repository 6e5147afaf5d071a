SPECIFICATION Spec
CONSTANTS
  t1 = t1
  t2 = t2
  k1 = k1
  k2 = k2
  k3 = k3
  Threads <- TwoThreads
  Tokens <- ThreeTokens
  NoToken = none
  Limit = 5
INVARIANTS
  Inv
  BorrowsValid
  DupsAboveStdio
PROPERTY ImplementsOption
