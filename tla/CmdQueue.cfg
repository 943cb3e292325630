SPECIFICATION Spec
CONSTANTS
  p1 = p1
  p2 = p2
  a = a
  b = b
  empty = empty
  long = long
  NoCmd = NoCmd
  Producers = {p1, p2}
  Cmd <- MCCmd
  CmdCount <- MCCmdCount
  MaxWriteRegisters = 123
  Capacity = 3
INVARIANTS RingConsistent
PROPERTIES ImplementsFifo
