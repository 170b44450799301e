SPECIFICATION Spec
CONSTANTS
  total_cpus = 2
  Blocks = {"a", "b", "c"}
  Owner <- Home
  Dwords = 2
  missq_ifq_size = 4
  wtbkq_ifq_size = 2
  memq_ifq_size = 1
  lsq_ifq_size = 2
  router_ifq_size = 8
  dcache_assoc = 1
  icache_assoc = 1
  dl2_assoc = 2
  L2_delay = 1
  Programs <- Conflicts
INVARIANTS TypeOK SWMR DirectoryCovers AssertionsHold QueueCounts MatchesWait WritesOwned
PROPERTY NoMoreContains
