SPECIFICATION Spec
CONSTANTS
  t1 = t1
  t2 = t2
  Threads <- TwoThreads
  Caller = caller
  Strategies <- AllStrategies
SYMMETRY ThreadsAlike
INVARIANTS
  Inv
  NoUndefined
  NeverAborts
  ErrorsDelivered
PROPERTIES
  ImplementsLifetime
