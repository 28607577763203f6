CONSTANTS
  AddrSpace = 16
  MemSize = 2
  Maps <- MCMaps
  KernelBase = 4
  Table <- MCTable
  Memory <- MCMemory
  Holes <- MCHoles
  Versions <- TwoVersions
  Requests <- MCRequests
  MaxCalls = 3
  MaxWrites = 1
  MaxFails = 2
SPECIFICATION Spec
INVARIANT AnswerIsCurrent
