SPECIFICATION FairSpec
CONSTANTS
  Descs = {d1, d2, d3}
  Regs = {"r"}
  CanRun <- TwoUnits
  Units = {"alu1","alu2"}
  Instructions <- Mix
  oplat <- Latency
  MaxLevel = 2
  commit_width = 2
  sim_has_bypass = FALSE
INVARIANTS TypeOK OperandsExact ReadyExact EventsExact NoOrphans DividersReturned
PROPERTY Progress
