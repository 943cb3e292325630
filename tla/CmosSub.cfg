SPECIFICATION FairSpec
CONSTANTS
  NumSlots = 2
  Nodes = {hmi}
  MaxConns = 2
  LineLen = 2
  RxCap = 3
  LineCap = 1
  MaxStream = 2
INVARIANTS OneConnPerSlot RecvNeverBlocks HandlersGetLines
PROPERTIES DeafSubscriberRecovers LostSlotRecovers
