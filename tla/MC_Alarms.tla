------------------------------- MODULE MC_Alarms -------------------------------
(* The alarm monitor and the alarm database.  Three units of which two find  *)
(* a place in the bridge; a table with every kind of entry, two of them on   *)
(* one register and one that is not mapped.  The shipped table is compared   *)
(* with the shipped map.                                                     *)
(*                                                                           *)
(* Monitor and database share no variable and are explored side by side, not *)
(* interleaved: one of them stays where it began.                            *)
EXTENDS AlarmMonitor, AlarmLog

MCRegistry == <<1, 2, 3>>
MCConfigs == {{1, 2, 3}, {2}, {}}
MCTable == <<[addr |-> 1, cond |-> "CHANGE",  lo |-> 0, hi |-> 0],
             [addr |-> 2, cond |-> "RANGE",   lo |-> 1, hi |-> 65535],
             [addr |-> 2, cond |-> "BITMASK", lo |-> 0, hi |-> 2],
             [addr |-> 9, cond |-> "CHANGE",  lo |-> 0, hi |-> 0]>>

\* The shipped alarm table and the device addresses of the shipped map.
InverterAlarms ==
  <<[addr |-> 1,  cond |-> "CHANGE", lo |-> 0,   hi |-> 0],
    [addr |-> 2,  cond |-> "CHANGE", lo |-> 0,   hi |-> 0],
    [addr |-> 16, cond |-> "RANGE",  lo |-> 130, hi |-> 220],
    [addr |-> 21, cond |-> "RANGE",  lo |-> 0,   hi |-> 100],
    [addr |-> 66, cond |-> "RANGE",  lo |-> 20,  hi |-> 65535],
    [addr |-> 67, cond |-> "RANGE",  lo |-> 0,   hi |-> 700],
    [addr |-> 80, cond |-> "RANGE",  lo |-> 0,   hi |-> 800]>>
InverterAddresses ==
  {8192, 8193, 8194, 8448, 8449, 8450, 8451, 8452, 8453, 8460, 8714}

\* inverter_alarm.c:13 says that the register of an entry must exist in
\* inverter_map.c.  None of them does: the engine skips every entry of the
\* shipped table in every pass.
ASSUME ShippedAlarmsUnreadable ==
  \A e \in DOMAIN InverterAlarms : InverterAlarms[e].addr \notin InverterAddresses

AlarmsInit == Init /\ LogInit

MonitorRuns == LogInit /\ Next /\ UNCHANGED logVars

\* No unit is configured, and main() has not begun to register any.
DatabaseRuns ==
  /\ known = {} /\ main = "register" /\ row = 1
  /\ LogNext
  /\ UNCHANGED vars

Alarms ==
  /\ AlarmsInit /\ [][MonitorRuns \/ DatabaseRuns]_<<vars, logVars>>
  /\ WF_vars(Monitor) /\ WF_vars(Join)
=============================================================================
