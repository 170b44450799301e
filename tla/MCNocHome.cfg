SPECIFICATION Spec
CONSTANTS
  mesh_width = 2
  mesh_height = 1
  router_ifq_size = 1
  missq_ifq_size = 4
  wtbkq_ifq_size = 3
  Msgs <- PairMsgs
  Flows <- PairFlows
  Missing <- PairMissing
INVARIANTS TypeOK HomeCredit HomeHasRoom NoOverflow
PROPERTIES LastEntryForIntervention
