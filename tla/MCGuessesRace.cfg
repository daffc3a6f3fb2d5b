CONSTANTS
  Guessers = {g1, g2, g3}
  BfMax = 2
  MaxLost = 0
  Rotators = {}
  ApiKeys = {k1}
  FirstKey = k1
  NoKey = none
SPECIFICATION AuthSpec
INVARIANTS
  GuessesWithinMax
CHECK_DEADLOCK FALSE
