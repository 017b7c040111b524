SPECIFICATION FairSpec
CONSTANTS
  cMaxThreads = 2
  CreateFails = TRUE
  MaxBatch = 3
  MaxTasks = 3
INVARIANTS CountsMatch TasksOnce SignalComes
PROPERTIES JoinWaits TasksRun CallsReturn
