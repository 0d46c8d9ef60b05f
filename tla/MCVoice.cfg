SPECIFICATION Spec
CONSTANTS
  Player = {1, 2}
  MaxConns = 2
  MaxObjects = 2
CHECK_DEADLOCK FALSE
PROPERTY PeersClosed
