CONSTANTS
  Clients <- TwoClients
  Blocks <- TwoBlocks
  Requests <- TwoRequests
  Tasks <- ThreeTasks
  FirstTasks <- FirstTwo
  Words = 4
  MaxCalls = 2
  MaxFails = 1
  MaxEvents = 2
SPECIFICATION FairSpec
INVARIANTS
  TypeOK
  BlocksOwned
  ViewIsOwnDump
  TasksPrinted
PROPERTY
  CommandsEnd
