SPECIFICATION Spec
CONSTANTS
  old = old
  new = new
  Names <- MCNames
  NoPath = NoPath
  Whole = 2
  MaxAttempts = 3
  MaxLost = 2
INVARIANTS TypeOK CompletedHasItsFile LeftoversBound SecondChance
PROPERTIES NeverShort
CHECK_DEADLOCK FALSE
