------------------------------- MODULE AlarmLog -------------------------------
(***************************************************************************)
(* The alarm database: inverter_alarm_manager_handle_event() with          *)
(* log_init() and write_log(), and inverter_alarm_manager_close(), through *)
(* failing statements, restarts of the daemon and a clock that may be set  *)
(* back (by an administrator, or by the end of summer time: timestamps are *)
(* local times in seconds).                                                *)
(*                                                                         *)
(* A row is its id and its timestamp.  Every statement commits by itself.  *)
(***************************************************************************)
EXTENDS Integers, FiniteSetsExt, Functions

CONSTANTS
  MaxRows,     \* LOG_MAX_ROWS
  MaxTime,     \* bound of the clock
  MaxFaults    \* bound on failing COUNT statements

ASSUME LogAssumption ==
  MaxRows \in Nat \ {0} /\ MaxTime \in Nat /\ MaxFaults \in Nat

VARIABLES
  pc,          \* "down", "idle", "init", "count", "write" or "closed"
  db,          \* g_db # NULL
  failed,      \* g_db_open_failed
  ts,          \* timestamp of the event being written
  full,        \* what write_log() believes: count >= LOG_MAX_ROWS
  rows,        \* the table: timestamp of each id
  clock,       \* local time
  setBack,     \* history: the clock was ever set back
  faults,      \* history: COUNT statements that failed
  lost         \* history: the latest timestamp overwritten, or -1

logVars == <<pc, db, failed, ts, full, rows, clock, setBack, faults, lost>>
logHistory == <<setBack, faults, lost>>

Ids == DOMAIN rows

\* A new id of INTEGER PRIMARY KEY.
NewId == IF Ids = {} THEN 1 ELSE Max(Ids) + 1

\* Mutant: ORDER BY id.
OldestById == Min(Ids)

\* ORDER BY timestamp ASC, id ASC LIMIT 1.
Oldest == Min({i \in Ids : \A j \in Ids : rows[i] <= rows[j]})
-----------------------------------------------------------------------------
LogInit ==
  /\ pc = "down"
  /\ db = FALSE /\ failed = FALSE
  /\ ts = 0 /\ full = FALSE
  /\ rows = <<>>
  /\ clock = 0
  /\ setBack = FALSE /\ faults = 0 /\ lost = -1

\* The daemon is started, with its static variables at zero.
Boot ==
  /\ pc = "down"
  /\ pc' = "idle"
  /\ db' = FALSE /\ failed' = FALSE
  /\ UNCHANGED <<ts, full, rows, clock, logHistory>>

\* The alarm bridge forwards an event.
HandleEvent ==
  /\ pc = "idle"
  /\ pc' = "init"
  /\ UNCHANGED <<db, failed, ts, full, rows, clock, logHistory>>

\* The database is open, or is opened now and has its table.
InitOk ==
  /\ pc = "init"
  /\ db \/ ~failed
  /\ db' = TRUE
  /\ ts' = clock
  /\ pc' = "count"
  /\ UNCHANGED <<failed, full, rows, clock, logHistory>>

\* sqlite3_open() or CREATE TABLE fails, or did so before in this process, which
\* does not try again: the event is dropped.
InitFails ==
  /\ pc = "init"
  /\ ~db
  /\ failed' = TRUE
  /\ pc' = "idle"
  /\ UNCHANGED <<db, ts, full, rows, clock, logHistory>>

\* Mutant: the limit is one row too high.
CountOneMore ==
  /\ pc = "count"
  /\ full' = (Cardinality(Ids) > MaxRows)
  /\ pc' = "write"
  /\ UNCHANGED <<db, failed, ts, rows, clock, logHistory>>

Count ==
  /\ pc = "count"
  /\ full' = (Cardinality(Ids) >= MaxRows)
  /\ pc' = "write"
  /\ UNCHANGED <<db, failed, ts, rows, clock, logHistory>>

\* SELECT COUNT fails: count stays 0.
CountFails ==
  /\ pc = "count"
  /\ faults < MaxFaults
  /\ full' = FALSE
  /\ faults' = faults + 1
  /\ pc' = "write"
  /\ UNCHANGED <<db, failed, ts, rows, clock, setBack, lost>>

Insert ==
  /\ pc = "write" /\ ~full
  /\ rows' = [i \in Ids \cup {NewId} |-> IF i = NewId THEN ts ELSE rows[i]]
  /\ pc' = "idle"
  /\ UNCHANGED <<db, failed, ts, full, clock, logHistory>>

Update ==
  /\ pc = "write" /\ full
  /\ lost' = IF rows[Oldest] > lost THEN rows[Oldest] ELSE lost
  /\ rows' = [rows EXCEPT ![Oldest] = ts]
  /\ pc' = "idle"
  /\ UNCHANGED <<db, failed, ts, full, clock, setBack, faults>>

\* The statement cannot be prepared, or fails: the event is dropped.
WriteFails ==
  /\ pc = "write"
  /\ pc' = "idle"
  /\ UNCHANGED <<db, failed, ts, full, rows, clock, logHistory>>

\* inverter_alarm_manager_close(), with which main() ends.
Close ==
  /\ pc = "idle"
  /\ db' = FALSE
  /\ pc' = "closed"
  /\ UNCHANGED <<failed, ts, full, rows, clock, logHistory>>

\* The process ends, by itself or at any other point.
Down ==
  /\ pc # "down"
  /\ pc' = "down"
  /\ UNCHANGED <<db, failed, ts, full, rows, clock, logHistory>>

Tick ==
  /\ clock < MaxTime
  /\ clock' = clock + 1
  /\ UNCHANGED <<pc, db, failed, ts, full, rows, logHistory>>

SetBack ==
  /\ clock > 0
  /\ \E t \in 0 .. clock - 1 : clock' = t
  /\ setBack' = TRUE
  /\ UNCHANGED <<pc, db, failed, ts, full, rows, faults, lost>>

LogNext == \/ Boot \/ HandleEvent \/ InitOk \/ InitFails \/ Count \/ CountFails
        \/ Insert \/ Update \/ WriteFails \/ Close \/ Down \/ Tick \/ SetBack

LogSpec == LogInit /\ [][LogNext]_logVars
-----------------------------------------------------------------------------
\* Ids are 1, 2, ... without gaps: rows are added and overwritten, never
\* deleted (write_log); the other variables have their types.
LogTypeOK ==
  /\ pc \in {"down", "idle", "init", "count", "write", "closed"}
  /\ db \in BOOLEAN /\ failed \in BOOLEAN /\ full \in BOOLEAN
  /\ setBack \in BOOLEAN
  /\ clock \in 0 .. MaxTime /\ ts \in 0 .. MaxTime
  /\ faults \in 0 .. MaxFaults /\ lost \in -1 .. MaxTime
  /\ Ids = 1 .. Cardinality(Ids)
  /\ \A i \in Ids : rows[i] \in 0 .. MaxTime

\* The table outgrows LOG_MAX_ROWS by no more than the COUNT statements that
\* failed (write_log), over any number of restarts.
RowsBounded == Cardinality(Ids) <= MaxRows + faults

\* As long as the clock was never set back, no event that was overwritten is
\* newer than one that was kept, although ids are reused and many events share
\* a second (write_log).
OldestGoes == ~setBack => \A i \in Ids : lost <= rows[i]
=============================================================================
