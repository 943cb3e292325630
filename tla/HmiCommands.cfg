SPECIFICATION Spec
CONSTANTS
  Handlers <- MCHandlers
  Register <- MCRegister
  Table <- MCCommandTable
  Keys <- MCKeys
  Inputs = {5}
  Readings = {0}
  Capacity = 2
  Threshold = 2
INVARIANTS HandlersAccepted
