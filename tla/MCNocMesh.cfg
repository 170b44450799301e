SPECIFICATION FairSpec
CONSTANTS
  mesh_width = 2
  mesh_height = 2
  router_ifq_size = 2
  missq_ifq_size = 4
  wtbkq_ifq_size = 3
  Msgs <- MeshMsgs
  Flows <- MeshFlows
  Missing = {}
INVARIANTS GrantSound NoUTurn LinkCredit
PROPERTIES ImplementsChannels NoStarvation
