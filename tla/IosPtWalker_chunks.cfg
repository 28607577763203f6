CONSTANTS
  AddrSpace = 8
  MemSize = 2
  Maps <- MCMaps
  PageWords = 4
  L1Words = 16
  L2Count = 2
  MemWords = 12
  Bases <- MCBases
  KernelBase = 3
  Starts <- MCStarts
  NewDescs <- MCNewDescs
  MaxWrites = 1
  MaxFails = 1
SPECIFICATION Spec
INVARIANT
  ReadsTotalSize
