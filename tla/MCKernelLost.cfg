\* As many ticks as a time slice has come before start_multitasking's jump.
CONSTANTS
  NTasks = 2
  Returning <- NoTasks
  Boot = Boot
  Null = Null
  Wild = Wild
  SliceTicks = 2
  MaxBootTicks = 2
  MaxHeight = 3
  MaxSections = 2
SPECIFICATION Spec
INVARIANT NobodyIsLost
