SPECIFICATION Spec
CONSTANTS
  Size = 6
  Letters <- TwoLetters
  Messages <- ShortMessages
INVARIANTS TypeOK OnlyInitialised WholeOrError
