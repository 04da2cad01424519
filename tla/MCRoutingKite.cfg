CONSTANTS
  b = b
  c = c
  d = d
  e = e
  Node <- MCNode
  Link <- MCLink
  Lookup = {}
  MAX_ROUTES = 4
  ROUTING_COST_INFINITY = 4
  MAX_NEIGHBOURS = 4
  NO_UPDATE_COUNT_LIMIT = 1
  DISCONNECTION_TICKS = 2
  MaxBusy = 0
  MaxFaults = 0
SPECIFICATION Spec
INVARIANTS NeighbourHasRoute
CHECK_DEADLOCK FALSE
