CONSTANTS
  near = near
  far = far
  Neighbour <- MCNeighbour
  Remote <- MCRemote
  Fd = {1, 2, 3}
  Stray <- MCStray
  MAX_QUEUE_SIZE = 1
  MaxMessages = 1
SPECIFICATION Spec
INVARIANTS EveryResponseFindsPacket
CHECK_DEADLOCK FALSE
VIEW MCView
