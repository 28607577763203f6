CONSTANTS
  L1Count = 4
  L2Count = 4
  LargeSpan = 2
  LargeStep = 2
  MaxN = 2
  MemWords = 12
  Bases <- MCBases
  Starts <- OneStart
  NewDescs <- SomeDescs
  MaxWrites = 2
  MaxFails = 1
SPECIFICATION Spec
INVARIANT LargePageEvery64k
