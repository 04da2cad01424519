CONSTANTS
  b = b
  c = c
  d = d
  Node <- MCNode
  Link <- MCLink
  Lookup = {}
  MAX_ROUTES = 4
  ROUTING_COST_INFINITY = 4
  MAX_NEIGHBOURS = 3
  NO_UPDATE_COUNT_LIMIT = 1
  DISCONNECTION_TICKS = 2
  MaxBusy = 0
  MaxFaults = 0
SPECIFICATION FairSpec
PROPERTIES Converges
CHECK_DEADLOCK FALSE
