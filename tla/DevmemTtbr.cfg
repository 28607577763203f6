CONSTANTS
  Tasks <- FourTasks
  InitTask = 99
  KThreads <- MCKThreads
  FirstTasks <- TwoFirst
  PgdUnits = 1
  CommUnits = 2
  InitSize = 5
  LimitSize = 20
  Slacks <- SomeSlack
SPECIFICATION FairSpec
INVARIANTS
  TypeOK
  FitsThenListed
  RcuOpenOnlyByFaults
  SteadyTasksPrinted
  NothingPrintedTwice
PROPERTY
  Termination
