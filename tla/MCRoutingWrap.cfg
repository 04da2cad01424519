CONSTANTS
  a = a
  b = b
  c = c
  Node <- MCNode
  Link <- MCLink
  Toward <- MCToward
  Lookup = {}
  MAX_ROUTES = 3
  ROUTING_COST_INFINITY = 4
  MAX_NEIGHBOURS = 3
  NO_UPDATE_COUNT_LIMIT = 1
  DISCONNECTION_TICKS = 2
  MaxBusy = 0
  MaxFaults = 1
SPECIFICATION Spec
INVARIANTS CostAtLeastHops
CHECK_DEADLOCK FALSE
