SPECIFICATION Spec
CONSTANTS
  Requests <- MCRequests
  TimeoutTicks = 1
  MaxBacklog = 0
INVARIANTS ExceptionReported
