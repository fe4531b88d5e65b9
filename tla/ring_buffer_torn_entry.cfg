SPECIFICATION Spec
CONSTANTS
  w1 = w1
  w2 = w2
  Words = {w1, w2}
  Capacity = 2
  MaxTicks = 5
  MaxRestarts = 0
SYMMETRY Symmetry
INVARIANTS
  WholeTicks
