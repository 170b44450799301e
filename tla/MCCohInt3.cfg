SPECIFICATION Spec
CONSTANTS
  total_cpus = 2
  Blocks = {"a"}
  Owner <- Home
  Dwords = 1
  missq_ifq_size = 4
  wtbkq_ifq_size = 3
  memq_ifq_size = 1
  lsq_ifq_size = 2
  router_ifq_size = 8
  dcache_assoc = 1
  icache_assoc = 1
  dl2_assoc = 1
  L2_delay = 1
  Programs <- Racing
INVARIANT NoInt3
