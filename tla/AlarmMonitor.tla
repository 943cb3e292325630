----------------------------- MODULE AlarmMonitor -----------------------------
(***************************************************************************)
(* The alarm monitor: inverter_alarm_register_all() and main() around      *)
(* alarm_bridge_start() and alarm_bridge_stop(), the monitor thread, and   *)
(* alarm_engine_run(), which judges one register after the other while the *)
(* poll threads go on storing into the pool.                               *)
(*                                                                         *)
(* Time is counted in sleeps of ALARM_BRIDGE_POLL_MS.  Values are 16-bit   *)
(* numbers.  The history variables are what the alarm manager was told.    *)
(***************************************************************************)
EXTENDS Integers, Sequences, Functions

CONSTANTS
  Registry,    \* uids of alarm_registry, in its order
  Configs,     \* possible sets of uids with a profile and a configuration
  MaxCtxs,     \* ALARM_BRIDGE_MAX_CTXS
  Table,       \* inverter_alarm_table: sequence of [addr, cond, lo, hi]
  Mapped,      \* device addresses in the profiles' mapping table
  Values,      \* values a register may take
  Delay        \* ALARM_BRIDGE_STARTUP_DELAY_MS / ALARM_BRIDGE_POLL_MS

Word == 0 .. 65535

ASSUME AlarmAssumption ==
  /\ Len(Registry) \in Nat /\ DOMAIN Registry = 1 .. Len(Registry)
  /\ Len(Table) \in Nat \ {0} /\ DOMAIN Table = 1 .. Len(Table)
  /\ \A i, j \in DOMAIN Registry : Registry[i] = Registry[j] => i = j
  /\ \A i \in DOMAIN Table : /\ Table[i].cond \in {"BITMASK", "RANGE", "CHANGE"}
                             /\ Table[i].lo \in Word
                             /\ Table[i].hi \in Word
  /\ Values \subseteq Word
  /\ 0 \in Values
  /\ MaxCtxs \in Nat
  /\ Delay \in Nat

VARIABLES
  known,       \* uids with a profile and a configuration; never changes
  main,        \* "register", "start", "wait", "join" or "done"
  row,         \* next row of alarm_registry
  ctxs,        \* g_ctxs: the uids of the registered contexts
  running,     \* g_running of alarm_bridge.c
  thread,      \* "none", "top", "pass", "sleep" or "exited"
  waited,      \* now_ms - start_ms, up to Delay
  warming,
  c, n,        \* context and entry of the loops
  active,      \* is_active of each unit and entry
  prev,        \* prev_value of each unit and entry
  pool,        \* the mapped registers of each unit
  fresh,       \* history: the unit's last scan read all of its registers
  open,        \* history: triggers minus clears forwarded, of sticky entries
  told         \* history: [count, value] of the CHANGE events, count modulo 2

mainVars == <<main, row, ctxs>>
states == <<active, prev>>
devices == <<pool, fresh>>
history == <<open, told>>
vars == <<known, mainVars, running, thread, waited, warming, c, n, states, devices,
          history>>

Units == Range(Registry)
Entries == DOMAIN Table
Registered == Range(ctxs)
Sticky(e) == Table[e].cond # "CHANGE"
-----------------------------------------------------------------------------
Bit(v, b) == (v \div 2 ^ b) % 2

\* All bits of the mask (hi_limit) are set.
EvalBitmask(entry, v) ==
  \A b \in 0 .. 15 : Bit(entry.hi, b) = 1 => Bit(v, b) = 1

EvalRange(entry, v) == v < entry.lo \/ v > entry.hi

Triggered(entry, v) ==
  \/ entry.cond = "BITMASK" /\ EvalBitmask(entry, v)
  \/ entry.cond = "RANGE" /\ EvalRange(entry, v)
-----------------------------------------------------------------------------
\* The state arrays are static and zeroed, and so is the pool; no unit has
\* been scanned.
Init ==
  /\ known \in Configs
  /\ main = "register" /\ row = 1 /\ ctxs = <<>>
  /\ running = FALSE
  /\ thread = "none"
  /\ waited = 0 /\ warming = TRUE
  /\ c = 1 /\ n = 1
  /\ active = [u \in Units |-> [e \in Entries |-> FALSE]]
  /\ prev = [u \in Units |-> [e \in Entries |-> 0]]
  /\ pool = [u \in Units |-> [a \in Mapped |-> 0]]
  /\ fresh = [u \in Units |-> FALSE]
  /\ open = [u \in Units |-> [e \in Entries |-> 0]]
  /\ told = [u \in Units |-> [e \in Entries |-> [count |-> 0, value |-> 0]]]

\* inverter_alarm_register_all(): a row whose unit has a profile and a
\* configuration is registered ...
Register ==
  /\ main = "register" /\ row <= Len(Registry)
  /\ Registry[row] \in known
  /\ ~running /\ Len(ctxs) < MaxCtxs
  /\ ctxs' = Append(ctxs, Registry[row])
  /\ row' = row + 1
  /\ UNCHANGED <<known, main, running, thread, waited, warming, c, n, states,
                 devices, history>>

\* ... any other row, and a row for which the bridge has no place, is skipped.
SkipRow ==
  /\ main = "register" /\ row <= Len(Registry)
  /\ Registry[row] \notin known \/ running \/ Len(ctxs) >= MaxCtxs
  /\ row' = row + 1
  /\ UNCHANGED <<known, main, ctxs, running, thread, waited, warming, c, n,
                 states, devices, history>>

RegisterDone ==
  /\ main = "register" /\ row > Len(Registry)
  /\ main' = "start"
  /\ UNCHANGED <<known, row, ctxs, running, thread, waited, warming, c, n,
                 states, devices, history>>

StartOk ==
  /\ main = "start"
  /\ running' = TRUE
  /\ thread' = "top"
  /\ main' = "wait"
  /\ UNCHANGED <<known, row, ctxs, waited, warming, c, n, states, devices, history>>

\* pthread_create() fails; main() logs that and goes on.
StartFails ==
  /\ main = "start"
  /\ running' = FALSE
  /\ main' = "wait"
  /\ UNCHANGED <<known, row, ctxs, thread, waited, warming, c, n, states, devices,
                 history>>

\* A signal ends the wait and main() calls alarm_bridge_stop().
Stop ==
  /\ main = "wait"
  /\ main' = IF running THEN "join" ELSE "done"
  /\ running' = FALSE
  /\ UNCHANGED <<known, row, ctxs, thread, waited, warming, c, n, states, devices,
                 history>>

Join ==
  /\ main = "join"
  /\ thread = "exited"
  /\ main' = "done"
  /\ UNCHANGED <<known, row, ctxs, running, thread, waited, warming, c, n,
                 states, devices, history>>
-----------------------------------------------------------------------------
Leave ==
  /\ thread = "top" /\ ~running
  /\ thread' = "exited"
  /\ UNCHANGED <<known, mainVars, running, waited, warming, c, n, states, devices,
                 history>>

WarmUp ==
  /\ thread = "top" /\ running
  /\ warming /\ waited < Delay
  /\ thread' = "sleep"
  /\ UNCHANGED <<known, mainVars, running, waited, warming, c, n, states, devices,
                 history>>

BeginPass ==
  /\ thread = "top" /\ running
  /\ ~warming \/ waited >= Delay
  /\ warming' = FALSE
  /\ thread' = "pass"
  /\ c' = 1 /\ n' = 1
  /\ UNCHANGED <<known, mainVars, running, waited, states, devices, history>>

EndPass ==
  /\ thread = "pass" /\ c > Len(ctxs)
  /\ thread' = "sleep"
  /\ UNCHANGED <<known, mainVars, running, waited, warming, c, n, states, devices,
                 history>>

\* usleep() lasts at least as long as asked for.
Wake ==
  /\ thread = "sleep"
  /\ thread' = "top"
  /\ \E late \in {0, 1} :
       waited' = IF waited + 1 + late < Delay THEN waited + 1 + late ELSE Delay
  /\ UNCHANGED <<known, mainVars, running, warming, c, n, states, devices, history>>

\* The entry being evaluated, its unit and its register.
Unit == ctxs[c]
Entry == Table[n]
Value == pool[Unit][Entry.addr]
Evaluating == thread = "pass" /\ c <= Len(ctxs)

\* The loops of alarm_engine_run() and of the monitor thread.
Advance ==
  /\ n' = IF n < Len(Table) THEN n + 1 ELSE 1
  /\ c' = IF n < Len(Table) THEN c ELSE c + 1

\* read_fn fails: the entry's state is left alone.
Unavailable ==
  /\ Evaluating
  /\ Entry.addr \notin Mapped
  /\ Advance
  /\ UNCHANGED <<known, mainVars, running, thread, waited, warming, states, devices,
                 history>>

\* Mutant: the sticky flag does not suppress further triggers.
TriggerRepeated ==
  /\ Evaluating
  /\ Entry.addr \in Mapped /\ Sticky(n)
  /\ Triggered(Entry, Value)
  /\ active' = [active EXCEPT ![Unit][n] = TRUE]
  /\ open' = [open EXCEPT ![Unit][n] = @ + 1]
  /\ Advance
  /\ UNCHANGED <<known, mainVars, running, thread, waited, warming, prev, devices,
                 told>>

\* apply_sticky() with an event, forwarded to the alarm manager.
Trigger ==
  /\ Evaluating
  /\ Entry.addr \in Mapped /\ Sticky(n)
  /\ Triggered(Entry, Value) /\ ~active[Unit][n]
  /\ active' = [active EXCEPT ![Unit][n] = TRUE]
  /\ open' = [open EXCEPT ![Unit][n] = @ + 1]
  /\ Advance
  /\ UNCHANGED <<known, mainVars, running, thread, waited, warming, prev, devices,
                 told>>

\* Mutant: the flag is reset but no CLEAR is forwarded.
ClearSilent ==
  /\ Evaluating
  /\ Entry.addr \in Mapped /\ Sticky(n)
  /\ ~Triggered(Entry, Value) /\ active[Unit][n]
  /\ Advance
  /\ UNCHANGED <<known, mainVars, running, thread, waited, warming, states, devices,
                 history>>

Clear ==
  /\ Evaluating
  /\ Entry.addr \in Mapped /\ Sticky(n)
  /\ ~Triggered(Entry, Value) /\ active[Unit][n]
  /\ active' = [active EXCEPT ![Unit][n] = FALSE]
  /\ open' = [open EXCEPT ![Unit][n] = @ - 1]
  /\ Advance
  /\ UNCHANGED <<known, mainVars, running, thread, waited, warming, prev, devices,
                 told>>

\* apply_sticky() without an event.
Unmoved ==
  /\ Evaluating
  /\ Entry.addr \in Mapped /\ Sticky(n)
  /\ Triggered(Entry, Value) = active[Unit][n]
  /\ Advance
  /\ UNCHANGED <<known, mainVars, running, thread, waited, warming, states, devices,
                 history>>

Tell == told' = [told EXCEPT ![Unit][n] =
                   [count |-> 1 - @.count, value |-> Value]]

\* Mutant: prev_value keeps its first value.
ChangeForgotten ==
  /\ Evaluating
  /\ Entry.addr \in Mapped /\ ~Sticky(n)
  /\ IF Value # prev[Unit][n] THEN Tell ELSE UNCHANGED told
  /\ Advance
  /\ UNCHANGED <<known, mainVars, running, thread, waited, warming, states, devices,
                 open>>

\* ALARM_COND_CHANGE: prev_value follows, an event if it differed.
Change ==
  /\ Evaluating
  /\ Entry.addr \in Mapped /\ ~Sticky(n)
  /\ prev' = [prev EXCEPT ![Unit][n] = Value]
  /\ IF Value # prev[Unit][n] THEN Tell ELSE UNCHANGED told
  /\ Advance
  /\ UNCHANGED <<known, mainVars, running, thread, waited, warming, active, devices,
                 open>>

\* A poll thread stores a register.  Units without a context are never read
\* by the monitor, so their registers are left alone.
PoolStore ==
  /\ \E u \in Registered, a \in Mapped, v \in Values :
       /\ v # pool[u][a]
       /\ pool' = [pool EXCEPT ![u][a] = v]
  /\ UNCHANGED <<known, mainVars, running, thread, waited, warming, c, n, states,
                 fresh, history>>

\* The scan of a unit ends with all of its requests answered ...
ScanDone ==
  /\ \E u \in Registered : ~fresh[u] /\ fresh' = [fresh EXCEPT ![u] = TRUE]
  /\ UNCHANGED <<known, mainVars, running, thread, waited, warming, c, n, states,
                 pool, history>>

\* ... or one of them fails: the pool keeps the values it has.
PollFails ==
  /\ \E u \in Registered : fresh[u] /\ fresh' = [fresh EXCEPT ![u] = FALSE]
  /\ UNCHANGED <<known, mainVars, running, thread, waited, warming, c, n, states,
                 pool, history>>
-----------------------------------------------------------------------------
Evaluate == Unavailable \/ Trigger \/ Clear \/ Unmoved \/ Change
Monitor == Leave \/ WarmUp \/ BeginPass \/ Evaluate \/ EndPass \/ Wake
Main == \/ Register \/ SkipRow \/ RegisterDone
        \/ StartOk \/ StartFails \/ Stop \/ Join

\* The daemon may be over while a poll thread has nothing to store.
Finished == main = "done" /\ thread \in {"none", "exited"} /\ UNCHANGED vars

Poll == PoolStore \/ ScanDone \/ PollFails

Next == Main \/ Monitor \/ Poll \/ Finished

Spec == Init /\ [][Next]_vars

\* A thread that can run is run.  Only the signal is not owed to anyone.
FairSpec == Spec /\ WF_vars(Monitor) /\ WF_vars(Join)
-----------------------------------------------------------------------------
\* The loop variables stay within the table and one past the contexts
\* (alarm_engine.c:72, alarm_bridge.c:85); the others have their types.
TypeOK ==
  /\ known \in Configs
  /\ main \in {"register", "start", "wait", "join", "done"}
  /\ row \in 1 .. Len(Registry) + 1
  /\ Len(ctxs) <= MaxCtxs /\ Registered \subseteq known
  /\ running \in BOOLEAN /\ warming \in BOOLEAN
  /\ thread \in {"none", "top", "pass", "sleep", "exited"}
  /\ waited \in 0 .. Delay
  /\ c \in 1 .. Len(ctxs) + 1 /\ n \in Entries
  /\ active \in [Units -> [Entries -> BOOLEAN]]
  /\ prev \in [Units -> [Entries -> Word]]
  /\ pool \in [Units -> [Mapped -> Values]]
  /\ fresh \in [Units -> BOOLEAN]
  /\ open \in [Units -> [Entries -> Int]]
  /\ told \in [Units -> [Entries -> [count : {0, 1}, value : Word]]]

\* Triggers and clears of a sticky entry alternate, beginning with a trigger,
\* and is_active says which one was forwarded last (apply_sticky).
AlarmsAlternate ==
  \A u \in Units, e \in Entries :
    Sticky(e) => open[u][e] = IF active[u][e] THEN 1 ELSE 0

\* Two events of a CHANGE entry in a row never carry the same value, although
\* the register may have changed back and forth between two passes
\* (alarm_engine_run, ALARM_COND_CHANGE).
ChangeIsNews ==
  [][\A u \in Units, e \in Entries :
       told'[u][e].count # told[u][e].count
         => told'[u][e].value # told[u][e].value]_vars

\* What the alarm manager has been told of an entry agrees with its register.
Agrees(u, e) ==
  LET v == pool[u][Table[e].addr]
  IN  IF Sticky(e) THEN open[u][e] = 1 <=> Triggered(Table[e], v)
                   ELSE told[u][e].value = v

\* While the monitor runs and a unit is scanned without failures, what the
\* alarm manager was told of an entry catches up with its register again and
\* again: a lasting excursion is reported and a lasting return to normal too,
\* of every unit and every entry of the table.
AlarmsCatchUp ==
  \A u \in Units, e \in Entries :
    Table[e].addr \in Mapped =>
      []<>(~running \/ u \notin Registered \/ ~fresh[u] \/ Agrees(u, e))
=============================================================================
