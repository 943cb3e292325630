SPECIFICATION Alarms
CONSTANTS
  Registry <- MCRegistry
  Configs <- MCConfigs
  MaxCtxs = 2
  Table <- MCTable
  Mapped = {1, 2}
  Values = {0, 3}
  Delay = 2
  MaxRows = 3
  MaxTime = 2
  MaxFaults = 2
INVARIANTS AlarmsAlternate RowsBounded OldestGoes
PROPERTIES ChangeIsNews AlarmsCatchUp
