CONSTANTS
  L1Count = 4
  L2Count = 4
  LargeSpan = 2
  LargeStep = 2
  MaxN = 2
  MemWords = 12
  Bases <- MCBases
  Starts <- MCStarts
  NewDescs <- SomeDescs
  MaxWrites = 2
  MaxFails = 1
SPECIFICATION FairSpec
INVARIANTS
  TypeOK
  HeapIsFrames
  ListingMatchesTranslation
  LinesExplained
PROPERTIES
  ListsInOrder
  Termination
