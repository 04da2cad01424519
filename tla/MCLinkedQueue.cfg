CONSTANTS
  p1 = p1
  p2 = p2
  p3 = p3
  p4 = p4
  x = x
  y = y
  Null = Null
  Address <- MCAddress
  Data <- MCData
  MAX_QUEUE_SIZE = 3
SPECIFICATION Spec
INVARIANTS TypeOK NoLeak
PROPERTIES IsFifo
