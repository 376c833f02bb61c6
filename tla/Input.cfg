SPECIFICATION Spec
CONSTANTS
  RingSize = 3
  Keys = {87}
  Moves = {1, 250}
  MaxLost = 1
  MaxEarly = 1
INVARIANTS TypeOK Recovered AppliedOnce
PROPERTIES InStepKept DecodesRecent AcksPassed
