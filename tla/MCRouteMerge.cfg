CONSTANTS
  b = b
  c = c
  d = d
  Node <- MCNode
  Neighbour <- MCNeighbour
  MaxAnnounced = 2
  MAX_ROUTES = 4
  ROUTING_COST_INFINITY = 4
SPECIFICATION Spec
INVARIANTS TypeOK MergeFollowsRule MergeIsIdempotent
CHECK_DEADLOCK FALSE
