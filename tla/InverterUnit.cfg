SPECIFICATION FairSpec
CONSTANTS
  Cmd = {"c"}
  Capacity = 2
  NumSegs = 2
  Threshold = 3
  SleepTicks = 2
INVARIANTS PortDiscipline OnlineMeansOpen ShutdownBound QueueLockAlive
PROPERTIES DropIsDeserved StopReturns DeadDeviceReported LiveDeviceReported CommandsServed
