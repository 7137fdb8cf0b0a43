CONSTANTS
  MaxLen = 5
  Sizes <- MCSizes
  MaxGap = 6
SPECIFICATION Spec
INVARIANTS NeverOverfills FillsTheMost
