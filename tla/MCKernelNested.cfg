\* A section inside a section, and a timer interrupt (README, findings).
CONSTANTS
  NTasks = 2
  Returning <- NoTasks
  Boot = Boot
  Null = Null
  Wild = Wild
  SliceTicks = 2
  MaxBootTicks = 1
  MaxHeight = 3
  MaxSections = 2
SPECIFICATION Spec
INVARIANT SectionsAreNotInterrupted
