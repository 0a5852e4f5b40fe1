SPECIFICATION Spec
CONSTANTS
  MaxPids = 2
  MaxThreads = 2
  MaxLeft = 1
  MaxEvents = 1
  Capacity = 1
  Faults = {}
  StaleDeletable = TRUE
INVARIANTS WrappedFlagIsAccessible
