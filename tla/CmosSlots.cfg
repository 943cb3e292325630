SPECIFICATION FairSpec
CONSTANTS
  NumSlots = 2
  Nodes = {hmi}
  MaxConns = 2
  LineLen = 2
  RxCap = 3
  LineCap = 2
  MaxStream = 2
PROPERTY SlotsReconnect
