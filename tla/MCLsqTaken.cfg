SPECIFICATION Spec
CONSTANTS
  A = A
  B = B
  NoAddr = NoAddr
  lsq_ifq_size = 2
  map_width = 1
  refill_cycles = 4
  Bytes <- TwoBytes
  Accesses <- OneOfEach
  Taking <- Everything
INVARIANTS TypeOK NoMissedStore RingAgrees WritesOwned
