CONSTANTS
  Entries = 2
  Pages = 3
  Span = 5
  Frames <- MCFrames
  AllOnes = 7
  Starts <- MCStarts
  Garbage <- MCGarbage
  NewEntries <- SomeEntries
  MaxWrites = 2
  MaxFails = 1
SPECIFICATION FairSpec
INVARIANTS
  TypeOK
  ListingMatchesTranslation
  LinesExplained
PROPERTIES
  ListsInOrder
  Termination
