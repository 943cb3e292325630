SPECIFICATION Spec
CONSTANTS
  Requests <- MCWrites
  TimeoutTicks = 1
  MaxBacklog = 8
INVARIANTS EchoVerified
