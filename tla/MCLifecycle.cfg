SPECIFICATION LifecycleSpec
CONSTANTS
  old = old
  new = new
  r1 = r1
  Writers = {old, new}
  Schemas <- MCSchemas
  Restores = {r1}
  MaxWrites = 2
  None = None
INVARIANTS OpenIsSound OldCopyKept
PROPERTIES CommittedStays
CHECK_DEADLOCK FALSE
