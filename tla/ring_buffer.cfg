SPECIFICATION FairSpec
CONSTANTS
  w1 = w1
  w2 = w2
  Words = {w1, w2}
  Capacity = 3
  MaxTicks = 8
  MaxRestarts = 1
INVARIANTS
  TypeOK
  BetweenPushes
PROPERTIES
  KeepsPromise
  Drained
