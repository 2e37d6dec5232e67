\* kernel_main's two tasks; boot ends before the first time slice.
CONSTANTS
  NTasks = 2
  Returning <- NoTasks
  Boot = Boot
  Null = Null
  Wild = Wild
  SliceTicks = 2
  MaxBootTicks = 1
  MaxHeight = 3
  MaxSections = 2
SPECIFICATION FairSpec
INVARIANTS
  TypeOK
  NobodyIsLost
  CurrentTaskExecutes
PROPERTY EveryTaskRuns
