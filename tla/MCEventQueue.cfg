SPECIFICATION Spec
CONSTANTS
  total_cpus = 2
  Handlers = {h, k}
  MaxDelay = 2
  MaxPending = 4
  MaxCycle = 2
INVARIANTS TypeOK DescriptorsOnce Sorted
PROPERTIES ImplementsCycleLoop
CHECK_DEADLOCK FALSE
