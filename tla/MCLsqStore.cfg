SPECIFICATION Spec
CONSTANTS
  A = A
  B = B
  NoAddr = NoAddr
  lsq_ifq_size = 3
  map_width = 1
  refill_cycles = 0
  Bytes <- TwoBytes
  Accesses <- Narrow
  Taking <- Nothing
INVARIANTS NoMissedStore RingAgrees
