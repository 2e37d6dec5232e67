\* Boot takes longer than two time slices; tasks may return.
\* The machine may stop: a context can be lost (README, findings).
CONSTANTS
  NTasks = 3
  Returning <- AllTasks
  Boot = Boot
  Null = Null
  Wild = Wild
  SliceTicks = 1
  MaxBootTicks = 4
  MaxHeight = 3
  MaxSections = 2
SPECIFICATION Spec
INVARIANTS
  InServiceMatches
  KeyboardNotReentered
  AwayKeyMasksAll
  FlagMasksInterrupts
PROPERTY EoiEndsOwnInterrupt
CHECK_DEADLOCK FALSE
