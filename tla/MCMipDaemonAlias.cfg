CONSTANTS
  near = near
  far = far
  Neighbour <- MCNeighbour
  Remote <- MCRemote
  Fd = {1, 2, 3}
  Stray <- MCStray
  MAX_QUEUE_SIZE = 2
  MaxMessages = 1
SPECIFICATION Spec
INVARIANTS QueuedPacketKept
CHECK_DEADLOCK FALSE
