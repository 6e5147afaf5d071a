SPECIFICATION Spec
CONSTANTS
  Calls = {c1, c2}
  Offers <- SomeOffers
INVARIANTS Inv RefusedIfNoneServes CursorAsWished NeverShownUnasked
PROPERTY Answered
