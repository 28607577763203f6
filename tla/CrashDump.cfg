CONSTANTS
  Space = 32
  PageUnits = 4
  BareUnits = 1
  HeaderPages = 2
  Blocks <- MCBlocks
  Requests <- MCRequests
  Truncations <- Cut
  Header = Header
  Uninit = Uninit
SPECIFICATION Spec
INVARIANTS
  TypeOK
  TableMatchesFile
  UnfilledOnlyAtEnd
  DumpedMemoryIsServed
