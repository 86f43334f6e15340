CONSTANTS
  Clients = {c1, c2, c3}
  MaxConnects = 3
  MaxSignals = 1
  MaxHalves = 2
  MaxNesting = 3
SPECIFICATION Spec
INVARIANTS StateTruthful SignalsShared Unmixed NothingVanishes
SYMMETRY Symmetry
CHECK_DEADLOCK FALSE
