CONSTANTS
  PageUnits = 2
  LargeUnits = 4
  ArmSpace = 16
  LowHalf = 8
  FullSpace = 32
  ArmListings <- MCArmListings
  Ia32eListings <- MCIa32eListings
  WindowSizes <- MCWindows
  Ranges <- MCRanges
SPECIFICATION Spec
INVARIANTS
  TypeOK
  RightsOfOnePage
  MappedIsShown
  FailsAtTheEnd
