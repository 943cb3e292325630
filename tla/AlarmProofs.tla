------------------------------ MODULE AlarmProofs ------------------------------
(***************************************************************************)
(* What the operator may conclude from the alarm log: the events that the  *)
(* monitor forwards, for every alarm table and any number of units, and    *)
(* the rows of the database, for every limit, over any number of restarts. *)
(* The two parts share no variable.                                        *)
(***************************************************************************)
EXTENDS AlarmMonitor, AlarmLog, FiniteSetTheorems, TLAPS

(***************************************************************************)
(* The monitor.  prev_value is what the last CHANGE event said, is_active  *)
(* which of trigger and clear came last.                                   *)
(***************************************************************************)
MonitorInv ==
  /\ TypeOK
  /\ ctxs \in Seq(Units)
  /\ AlarmsAlternate
  /\ \A u \in Units, e \in Entries : ~Sticky(e) => told[u][e].value = prev[u][e]

\* What is used of the assumptions on the constants.
LEMMA MonitorConstants ==
  /\ Len(Registry) \in Nat /\ \A i \in 1 .. Len(Registry) : Registry[i] \in Units
  /\ Len(Table) \in Nat \ {0} /\ Entries = 1 .. Len(Table)
  /\ Values \subseteq Word /\ 0 \in Values /\ 0 \in Word
  /\ MaxCtxs \in Nat /\ Delay \in Nat
BY AlarmAssumption DEF Entries, Units, Range

LEMMA MonitorInit == Init => MonitorInv
<1> SUFFICES ASSUME Init PROVE MonitorInv
  OBVIOUS
<1> USE MonitorConstants DEF Init
<1>1. TypeOK
  <2>1. Registered = {}
    BY DEF Registered, Range
  <2>2. /\ active \in [Units -> [Entries -> BOOLEAN]]
        /\ prev \in [Units -> [Entries -> Word]]
        /\ pool \in [Units -> [Mapped -> Values]]
        /\ fresh \in [Units -> BOOLEAN]
        /\ open \in [Units -> [Entries -> Int]]
        /\ told \in [Units -> [Entries -> [count : {0, 1}, value : Word]]]
    OBVIOUS
  <2>3. running \in BOOLEAN /\ warming \in BOOLEAN /\ known \in Configs
    OBVIOUS
  <2>4. /\ main \in {"register", "start", "wait", "join", "done"}
        /\ thread \in {"none", "top", "pass", "sleep", "exited"}
    OBVIOUS
  <2>5. /\ row \in 1 .. Len(Registry) + 1 /\ Len(ctxs) <= MaxCtxs
        /\ waited \in 0 .. Delay /\ c \in 1 .. Len(ctxs) + 1 /\ n \in Entries
    OBVIOUS
  <2>6. QED
    BY <2>1, <2>2, <2>3, <2>4, <2>5, Zenon DEF TypeOK
<1>2. AlarmsAlternate
  BY DEF AlarmsAlternate
<1>3. QED
  BY <1>1, <1>2 DEF MonitorInv

\* The entry under evaluation belongs to a registered unit.
LEMMA UnitInRange ==
  ASSUME MonitorInv, Evaluating
  PROVE  Unit \in Units /\ n \in Entries /\ (Entry.addr \in Mapped => Value \in Word)
<1>1. c \in 1 .. Len(ctxs)
  BY DEF MonitorInv, TypeOK, Evaluating
<1>2. Unit \in Units
  BY <1>1 DEF MonitorInv, Unit
<1>3. QED
  BY <1>2, MonitorConstants DEF MonitorInv, TypeOK, Value

\* The loops stay within their bounds.
LEMMA AdvanceInRange ==
  ASSUME MonitorInv, Evaluating, Advance, ctxs' = ctxs
  PROVE  c' \in 1 .. Len(ctxs) + 1 /\ n' \in Entries
<1>1. c \in 1 .. Len(ctxs) /\ Len(ctxs) \in Nat
  BY DEF MonitorInv, TypeOK, Evaluating
<1>2. QED
  BY <1>1, MonitorConstants DEF Advance, MonitorInv, TypeOK
LEMMA MonitorStep == MonitorInv /\ [Next]_vars => MonitorInv'
<1> SUFFICES ASSUME MonitorInv, [Next]_vars PROVE MonitorInv'
  OBVIOUS
<1> USE MonitorConstants DEF mainVars, states, devices, history
<1>1. CASE Register
  <2>1. /\ row \in 1 .. Len(Registry) /\ Registry[row] \in Units
        /\ ctxs' = Append(ctxs, Registry[row]) /\ row' = row + 1
        /\ Registry[row] \in known /\ Len(ctxs) < MaxCtxs
    BY <1>1 DEF Register, MonitorInv, TypeOK
  <2>2. ctxs' \in Seq(Units) /\ Len(ctxs') = Len(ctxs) + 1
    BY <2>1 DEF MonitorInv
  <2>3. Registered' \subseteq known
    <3>1. \A i \in 1 .. Len(ctxs') : ctxs'[i] \in Registered \cup {Registry[row]}
      BY <2>1, <2>2 DEF Registered, Range, MonitorInv
    <3>2. QED
      BY <2>1, <2>2, <3>1 DEF Registered, Range, MonitorInv, TypeOK
  <2>4. /\ row' \in 1 .. Len(Registry) + 1 /\ Len(ctxs') <= MaxCtxs
        /\ c \in 1 .. Len(ctxs') + 1
    BY <2>1, <2>2 DEF MonitorInv, TypeOK
  <2>5. UNCHANGED <<known, main, running, thread, waited, warming, c, n, states, devices, history>>
    BY <1>1 DEF Register
  <2>6. QED
    BY <2>2, <2>3, <2>4, <2>5 DEF MonitorInv, TypeOK, AlarmsAlternate
<1>2. CASE \/ SkipRow \/ RegisterDone \/ StartOk \/ StartFails \/ Stop \/ Join \/ Leave
           \/ WarmUp \/ BeginPass \/ EndPass \/ Wake \/ UNCHANGED vars
  <2>1. UNCHANGED <<known, ctxs, states, devices, history>>
    BY <1>2 DEF SkipRow, RegisterDone, StartOk, StartFails, Stop, Join, Leave, WarmUp,
                BeginPass, EndPass, Wake, vars
  <2>2. Registered' = Registered
    BY <2>1 DEF Registered
  <2>3. /\ main' \in {"register", "start", "wait", "join", "done"}
        /\ thread' \in {"none", "top", "pass", "sleep", "exited"}
    BY <1>2 DEF SkipRow, RegisterDone, StartOk, StartFails, Stop, Join, Leave, WarmUp,
                BeginPass, EndPass, Wake, vars, MonitorInv, TypeOK
  <2>4. running' \in BOOLEAN /\ warming' \in BOOLEAN
    BY <1>2 DEF SkipRow, RegisterDone, StartOk, StartFails, Stop, Join, Leave, WarmUp,
                BeginPass, EndPass, Wake, vars, MonitorInv, TypeOK
  <2>5. row' \in 1 .. Len(Registry) + 1 /\ waited' \in 0 .. Delay
    BY <1>2, SMTT(30) DEF SkipRow, RegisterDone, StartOk, StartFails, Stop, Join, Leave, WarmUp,
                BeginPass, EndPass, Wake, vars, MonitorInv, TypeOK
  <2>6. c' \in 1 .. Len(ctxs) + 1 /\ n' \in Entries
    BY <1>2 DEF SkipRow, RegisterDone, StartOk, StartFails, Stop, Join, Leave, WarmUp,
                BeginPass, EndPass, Wake, vars, MonitorInv, TypeOK
  <2>7. QED
    BY <2>1, <2>2, <2>3, <2>4, <2>5, <2>6 DEF MonitorInv, TypeOK, AlarmsAlternate
<1>3. CASE PoolStore
  <2>1. UNCHANGED <<known, mainVars, running, thread, waited, warming, c, n, states, fresh, history>>
    BY <1>3 DEF PoolStore
  <2>2. pool' \in [Units -> [Mapped -> Values]]
    <3>1. PICK u \in Registered, a \in Mapped, v \in Values :
            pool' = [pool EXCEPT ![u][a] = v]
      BY <1>3 DEF PoolStore
    <3>2. pool \in [Units -> [Mapped -> Values]] /\ u \in Units
      BY DEF MonitorInv, TypeOK, Registered, Range
    <3>3. QED
      BY <3>1, <3>2
  <2>3. QED
    BY <2>1, <2>2 DEF MonitorInv, TypeOK, AlarmsAlternate, Registered
<1>4. CASE Evaluate
  <2>1. /\ Evaluating /\ Advance
        /\ UNCHANGED <<known, mainVars, running, thread, waited, warming, devices>>
    BY <1>4 DEF Evaluate, Unavailable, Trigger, Clear, Unmoved, Change
  <2>2. Unit \in Units /\ n \in Entries /\ (Entry.addr \in Mapped => Value \in Word)
    BY <2>1, UnitInRange
  <2>3. c' \in 1 .. Len(ctxs) + 1 /\ n' \in Entries /\ Registered' = Registered
    BY <2>1, AdvanceInRange DEF Registered
  <2>4. SUFFICES /\ active' \in [Units -> [Entries -> BOOLEAN]]
                 /\ prev' \in [Units -> [Entries -> Word]]
                 /\ open' \in [Units -> [Entries -> Int]]
                 /\ told' \in [Units -> [Entries -> [count : {0, 1}, value : Word]]]
                 /\ \A u \in Units, e \in Entries :
                      Sticky(e) => open'[u][e] = IF active'[u][e] THEN 1 ELSE 0
                 /\ \A u \in Units, e \in Entries :
                      ~Sticky(e) => told'[u][e].value = prev'[u][e]
    BY <2>1, <2>3 DEF MonitorInv, TypeOK, AlarmsAlternate
  <2> USE DEF MonitorInv, TypeOK, AlarmsAlternate
  <2>5. CASE Unavailable \/ Unmoved
    BY <2>5, SMTT(30) DEF Unavailable, Unmoved
  <2>6. CASE Trigger
    BY <2>2, <2>6 DEF Trigger
  <2>7. CASE Clear
    BY <2>2, <2>7, SMTT(30) DEF Clear
  <2>8. CASE Change
    <3>1. /\ Value \in Word /\ ~Sticky(n)
          /\ prev' = [prev EXCEPT ![Unit][n] = Value]
          /\ UNCHANGED <<active, open>>
      BY <2>2, <2>8 DEF Change
    <3>2. prev' \in [Units -> [Entries -> Word]] /\ prev'[Unit][n] = Value
      BY <2>2, <3>1
    <3>3. \A u \in Units, e \in Entries : u # Unit \/ e # n => prev'[u][e] = prev[u][e]
      BY <2>2, <3>1
    <3>4. CASE Value = prev[Unit][n]
      <4>1. told' = told
        BY <2>8, <3>4 DEF Change
      <4>2. QED
        BY <3>1, <3>2, <3>3, <3>4, <4>1, SMTT(30)
    <3>5. CASE Value # prev[Unit][n]
      <4> DEFINE event == [count |-> 1 - told[Unit][n].count, value |-> Value]
      <4>1. told' = [told EXCEPT ![Unit][n] = event]
        BY <2>8, <3>5 DEF Change, Tell
      <4>2. event \in [count : {0, 1}, value : Word] /\ event.value = Value
        <5>1. told[Unit][n] \in [count : {0, 1}, value : Word]
          BY <2>2
        <5>2. 1 - told[Unit][n].count \in {0, 1}
          BY <5>1
        <5>3. QED
          BY <3>1, <5>2
      <4> HIDE DEF event
      <4>3. told' \in [Units -> [Entries -> [count : {0, 1}, value : Word]]]
        BY <4>1, <4>2
      <4>4. \A u \in Units, e \in Entries :
              told'[u][e] = IF u = Unit /\ e = n THEN event ELSE told[u][e]
        BY <2>2, <4>1
      <4>5. QED
        BY <3>1, <3>2, <3>3, <4>2, <4>3, <4>4
    <3>6. QED
      BY <3>4, <3>5
  <2>9. QED
    BY <1>4, <2>5, <2>6, <2>7, <2>8 DEF Evaluate
<1>5. CASE ScanDone \/ PollFails
  <2>1. UNCHANGED <<known, mainVars, running, thread, waited, warming, c, n, states, pool, history>>
    BY <1>5 DEF ScanDone, PollFails
  <2>2. fresh' \in [Units -> BOOLEAN]
    BY <1>5 DEF ScanDone, PollFails, MonitorInv, TypeOK
  <2>3. QED
    BY <2>1, <2>2 DEF MonitorInv, TypeOK, AlarmsAlternate, Registered
<1>6. QED
  BY <1>1, <1>2, <1>3, <1>4, <1>5 DEF Next, Main, Monitor, Poll, Finished

LEMMA MonitorInductive == Spec => []MonitorInv
BY MonitorInit, MonitorStep, PTL DEF Spec

\* The loops of the monitor stay within the table and the registered contexts
\* and no more contexts are registered than there is room for
\* (alarm_engine_run(), alarm_bridge_register()).
THEOREM MonitorTypes == Spec => []TypeOK
<1>1. MonitorInv => TypeOK
  BY DEF MonitorInv
<1>2. QED
  BY MonitorInductive, <1>1, PTL

\* Triggers and clears of an alarm alternate, whatever the register does
\* between and during two passes (apply_sticky()).
THEOREM AlarmsAreSticky == Spec => []AlarmsAlternate
<1>1. MonitorInv => AlarmsAlternate
  BY DEF MonitorInv
<1>2. QED
  BY MonitorInductive, <1>1, PTL

\* A CHANGE event says something else than the one before it
\* (alarm_engine_run(), ALARM_COND_CHANGE).
THEOREM ChangesAreNews == Spec => ChangeIsNews
<1> DEFINE News == \A u \in Units, e \in Entries :
                     told'[u][e].count # told[u][e].count
                       => told'[u][e].value # told[u][e].value
<1>1. MonitorInv /\ [Next]_vars => [News]_vars
  <2> SUFFICES ASSUME MonitorInv, [Next]_vars,
                      NEW u \in Units, NEW e \in Entries,
                      told'[u][e].count # told[u][e].count
               PROVE  told'[u][e].value # told[u][e].value
    OBVIOUS
  <2> USE DEF mainVars, states, devices, history
  <2>1. CASE Change
    <3>1. Unit \in Units /\ n \in Entries
      BY <2>1, UnitInRange DEF Change
    <3>2. Value # prev[Unit][n]
      BY <2>1 DEF Change
    <3>3. told' = [told EXCEPT ![Unit][n] =
                     [count |-> 1 - told[Unit][n].count, value |-> Value]]
      BY <2>1, <3>2 DEF Change, Tell
    <3>4. u = Unit /\ e = n /\ told'[u][e].value = Value
      BY <3>1, <3>3 DEF MonitorInv, TypeOK
    <3>5. told[u][e].value = prev[u][e]
      BY <2>1, <3>4 DEF MonitorInv, Change
    <3>6. QED
      BY <3>2, <3>4, <3>5
  <2>2. CASE told' = told
    BY <2>2
  <2>3. QED
    BY <2>1, <2>2 DEF Next, Main, Monitor, Evaluate, Finished, vars, Register, SkipRow,
         RegisterDone, StartOk, StartFails, Stop, Join, Leave, WarmUp, BeginPass,
         EndPass, Wake, Unavailable, Trigger, Clear, Unmoved, Poll,
         PoolStore, ScanDone, PollFails
<1>2. QED
  BY MonitorInductive, <1>1, PTL DEF Spec, ChangeIsNews
-----------------------------------------------------------------------------
(***************************************************************************)
(* The database.  Ids have no gaps, so that a new one is one more than     *)
(* there are rows.  A failed COUNT pays in advance for the row it lets     *)
(* through.  As long as the clock was not set back, the event being        *)
(* written is no older than any row, and no row older than the newest      *)
(* event that was overwritten.                                             *)
(***************************************************************************)
LogInv ==
  /\ LogTypeOK
  /\ Cardinality(Ids) \in Nat
  /\ rows = [i \in Ids |-> rows[i]]
  /\ RowsBounded
  /\ pc = "write" => IF full THEN Ids # {} ELSE Cardinality(Ids) < MaxRows + faults
  /\ ~setBack => /\ lost <= clock
                 /\ \A i \in Ids : lost <= rows[i] /\ rows[i] <= clock
  /\ ~setBack /\ pc \in {"count", "write"} =>
       lost <= ts /\ ts <= clock /\ \A i \in Ids : rows[i] <= ts

\* The naturals are well-founded, and so a set of them has a least element.
LEMMA LessThan ==
  \E R : IsWellFoundedOn(R, Nat) /\ \A x, y \in Nat : x < y => <<x, y>> \in R
<1>1. IsWellFoundedOn(OpToRel(<, Nat), Nat)
  BY NatLessThanWellFounded
<1>2. \A x, y \in Nat : x < y => <<x, y>> \in OpToRel(<, Nat)
  BY DEF OpToRel
<1>3. QED
  BY <1>1, <1>2, Zenon

LEMMA LeastNat ==
  ASSUME NEW T \in SUBSET Nat, T # {}
  PROVE  \E x \in T : \A y \in T : x <= y
<1>1. PICK R : IsWellFoundedOn(R, Nat) /\ \A x, y \in Nat : x < y => <<x, y>> \in R
  BY LessThan
<1>2. IsWellFoundedOn(R, Nat) /\ T \subseteq Nat
  BY <1>1
<1>3. PICK x \in T : \A y \in T : ~(<<y, x>> \in R)
  BY <1>2, WFMin, Zenon
<1>4. ASSUME NEW y \in T PROVE x <= y
  <2>1. x \in Nat /\ y \in Nat /\ ~(y < x)
    BY <1>1, <1>3, Zenon
  <2>2. QED
    BY <2>1
<1>5. QED
  BY <1>4

LEMMA IdCount ==
  ASSUME NEW m \in Nat
  PROVE  Cardinality(1 .. m) = m
BY FS_Interval

\* The new id follows the last one.
LEMMA NewIdIs ==
  ASSUME NEW m \in Nat, Ids = 1 .. m
  PROVE  NewId = m + 1
<1>1. CASE m = 0
  BY <1>1 DEF NewId
<1>2. CASE m # 0
  <2>1. m \in Ids /\ \A y \in Ids : m >= y
    BY <1>2
  <2>2. \A x \in Ids : (\A y \in Ids : x >= y) => x = m
    BY <1>2
  <2>3. Max(Ids) = m
    BY <2>1, <2>2 DEF Max
  <2>4. QED
    BY <2>1, <2>3 DEF NewId
<1>3. QED
  BY <1>1, <1>2

\* The row that ORDER BY timestamp ASC, id ASC LIMIT 1 finds.
LEMMA OldestIs ==
  ASSUME NEW m \in Nat, Ids = 1 .. m, Ids # {}, \A i \in Ids : rows[i] \in Nat
  PROVE  Oldest \in Ids /\ \A j \in Ids : rows[Oldest] <= rows[j]
<1> DEFINE V == {rows[i] : i \in Ids}
           A == {i \in Ids : \A j \in Ids : rows[i] <= rows[j]}
<1>1. PICK v \in V : \A w \in V : v <= w
  <2>1. V \in SUBSET Nat /\ V # {}
    OBVIOUS
  <2> HIDE DEF V
  <2>2. QED
    BY <2>1, LeastNat
<1>2. A \in SUBSET Nat /\ A # {}
  <2>1. PICK i \in Ids : v = rows[i]
    BY <1>1
  <2>2. \A j \in Ids : rows[i] <= rows[j]
    BY <1>1, <2>1
  <2>3. QED
    BY <2>1, <2>2
<1>3. PICK i \in A : \A j \in A : i <= j
  <2> HIDE DEF A
  <2>1. QED
    BY <1>2, LeastNat
<1>4. Min(A) \in A
  <2> HIDE DEF A
  <2>1. QED
    BY <1>3 DEF Min
<1>5. Oldest = Min(A)
  BY DEF Oldest
<1>6. QED
  BY <1>4, <1>5

LEMMA LogInitInv == LogInit => LogInv
<1> SUFFICES ASSUME LogInit PROVE LogInv
  OBVIOUS
<1> USE LogAssumption DEF LogInit
<1>1. Ids = 1 .. 0 /\ Cardinality(Ids) = 0
  <2>1. Ids = 1 .. 0
    BY DEF Ids
  <2>2. QED
    BY <2>1, IdCount
<1>2. LogTypeOK
  <2>1. db \in BOOLEAN /\ failed \in BOOLEAN /\ full \in BOOLEAN /\ setBack \in BOOLEAN
    OBVIOUS
  <2>2. /\ clock \in 0 .. MaxTime /\ ts \in 0 .. MaxTime
        /\ faults \in 0 .. MaxFaults /\ lost \in -1 .. MaxTime
    OBVIOUS
  <2>3. pc \in {"down", "idle", "init", "count", "write", "closed"}
    OBVIOUS
  <2>4. Ids = 1 .. Cardinality(Ids) /\ \A i \in Ids : rows[i] \in 0 .. MaxTime
    BY <1>1
  <2>5. QED
    BY <2>1, <2>2, <2>3, <2>4 DEF LogTypeOK
<1>3. RowsBounded
  BY <1>1 DEF RowsBounded
<1>4. QED
  BY <1>1, <1>2, <1>3 DEF LogInv, Ids
LEMMA LogStep == LogInv /\ [LogNext]_logVars => LogInv'
<1> SUFFICES ASSUME LogInv, [LogNext]_logVars PROVE LogInv'
  OBVIOUS
<1> USE LogAssumption DEF logHistory
<1> DEFINE m == Cardinality(Ids)
<1>1. /\ m \in Nat /\ Ids = 1 .. m /\ rows = [i \in Ids |-> rows[i]]
      /\ \A i \in Ids : rows[i] \in 0 .. MaxTime
      /\ clock \in 0 .. MaxTime /\ ts \in 0 .. MaxTime
      /\ faults \in 0 .. MaxFaults /\ lost \in -1 .. MaxTime
  BY DEF LogInv, LogTypeOK
<1> HIDE DEF m
<1>2. CASE Boot \/ HandleEvent \/ InitFails \/ WriteFails \/ Close \/ Down \/ UNCHANGED logVars
  <2>1. /\ UNCHANGED <<ts, full, rows, clock, setBack, faults, lost>>
        /\ pc' = pc \/ pc' \in {"down", "idle", "init", "closed"}
        /\ db' \in {db, FALSE} /\ failed' \in {failed, TRUE, FALSE}
    BY <1>2 DEF Boot, HandleEvent, InitFails, WriteFails, Close, Down, logVars
  <2>2. Ids' = Ids
    BY <2>1 DEF Ids
  <2>3. LogTypeOK'
    BY <2>1, <2>2 DEF LogInv, LogTypeOK
  <2>4. QED
    BY <2>1, <2>2, <2>3 DEF LogInv, RowsBounded
<1>3. CASE InitOk
  <2>1. /\ UNCHANGED <<failed, full, rows, clock, setBack, faults, lost>>
        /\ pc' = "count" /\ db' = TRUE /\ ts' = clock
    BY <1>3 DEF InitOk
  <2>2. Ids' = Ids
    BY <2>1 DEF Ids
  <2>3. LogTypeOK'
    BY <2>1, <2>2 DEF LogInv, LogTypeOK
  <2>4. QED
    BY <1>1, <2>1, <2>2, <2>3 DEF LogInv, RowsBounded
<1>4. CASE Count
  <2>1. /\ UNCHANGED <<db, failed, ts, rows, clock, setBack, faults, lost>>
        /\ pc = "count" /\ pc' = "write" /\ full' = (m >= MaxRows)
    BY <1>4 DEF Count, m
  <2>2. Ids' = Ids
    BY <2>1 DEF Ids
  <2>3. LogTypeOK'
    BY <2>1, <2>2 DEF LogInv, LogTypeOK
  <2>4. IF full' THEN Ids # {} ELSE m < MaxRows + faults
    <3>1. CASE m >= MaxRows
      <4>1. 1 \in Ids
        BY <1>1, <3>1
      <4>2. QED
        BY <2>1, <3>1, <4>1
    <3>2. CASE ~(m >= MaxRows)
      <4>1. m < MaxRows + faults
        BY <1>1, <3>2
      <4>2. QED
        BY <2>1, <3>2, <4>1
    <3>3. QED
      BY <3>1, <3>2
  <2>5. QED
    BY <2>1, <2>2, <2>3, <2>4 DEF LogInv, RowsBounded, m
<1>5. CASE CountFails
  <2>1. /\ UNCHANGED <<db, failed, ts, rows, clock, setBack, lost>>
        /\ pc = "count" /\ pc' = "write" /\ full' = FALSE
        /\ faults' = faults + 1 /\ faults < MaxFaults
    BY <1>5 DEF CountFails
  <2>2. Ids' = Ids
    BY <2>1 DEF Ids
  <2>3. LogTypeOK'
    <3>1. faults' \in 0 .. MaxFaults
      BY <1>1, <2>1
    <3>2. full' \in BOOLEAN
      BY <2>1
    <3>3. QED
      BY <2>1, <2>2, <3>1, <3>2 DEF LogInv, LogTypeOK
  <2>4. m < MaxRows + faults' /\ m <= MaxRows + faults'
    BY <1>1, <2>1 DEF LogInv, RowsBounded, m
  <2>5. QED
    BY <2>1, <2>2, <2>3, <2>4 DEF LogInv, RowsBounded, m
<1>6. CASE Insert
  <2>1. /\ UNCHANGED <<db, failed, ts, full, clock, setBack, faults, lost>>
        /\ pc = "write" /\ ~full /\ pc' = "idle"
        /\ rows' = [i \in Ids \cup {m + 1} |-> IF i = m + 1 THEN ts ELSE rows[i]]
    BY <1>1, <1>6, NewIdIs DEF Insert
  <2>2. Ids' = 1 .. m + 1 /\ Ids \cup {m + 1} = 1 .. m + 1
    BY <1>1, <2>1 DEF Ids
  <2>3. Cardinality(Ids') = m + 1
    <3>1. m + 1 \in Nat
      BY <1>1
    <3>2. QED
      BY <2>2, <3>1, IdCount
  <2>4. \A i \in Ids' : rows'[i] = ts \/ (i \in Ids /\ rows'[i] = rows[i])
    BY <2>1, <2>2
  <2>5. m < MaxRows + faults
    BY <2>1 DEF LogInv, m
  <2>6. LogTypeOK'
    BY <1>1, <2>1, <2>2, <2>3, <2>4 DEF LogInv, LogTypeOK
  <2>7. rows' = [i \in Ids' |-> rows'[i]]
    BY <2>1, <2>2
  <2>8. RowsBounded' /\ Cardinality(Ids') \in Nat
    BY <1>1, <2>1, <2>3, <2>5 DEF RowsBounded
  <2>9. ~setBack' => /\ lost' <= clock'
                     /\ \A i \in Ids' : lost' <= rows'[i] /\ rows'[i] <= clock'
    BY <2>1, <2>4 DEF LogInv
  <2>10. QED
    BY <2>1, <2>6, <2>7, <2>8, <2>9 DEF LogInv
<1>7. CASE Update
  <2> DEFINE o == Oldest
  <2>1. /\ UNCHANGED <<db, failed, ts, full, clock, setBack, faults>>
        /\ pc = "write" /\ full /\ pc' = "idle"
        /\ rows' = [rows EXCEPT ![o] = ts]
        /\ lost' = IF rows[o] > lost THEN rows[o] ELSE lost
    BY <1>7 DEF Update
  <2>2. o \in Ids /\ \A j \in Ids : rows[o] <= rows[j]
    <3>1. Ids # {} /\ \A i \in Ids : rows[i] \in Nat
      BY <1>1, <2>1 DEF LogInv
    <3>2. QED
      BY <1>1, <3>1, OldestIs
  <2> HIDE DEF o
  <2>3. /\ Ids' = Ids /\ rows' = [i \in Ids |-> rows'[i]]
        /\ \A i \in Ids : rows'[i] = IF i = o THEN ts ELSE rows[i]
    BY <1>1, <2>1, <2>2 DEF Ids
  <2>4. lost' \in -1 .. MaxTime
    BY <1>1, <2>1, <2>2
  <2>5. LogTypeOK'
    BY <1>1, <2>1, <2>3, <2>4 DEF LogInv, LogTypeOK
  <2>6. RowsBounded' /\ Cardinality(Ids') \in Nat
    BY <2>1, <2>3 DEF LogInv, RowsBounded
  <2>7. ASSUME ~setBack
        PROVE  /\ lost' <= clock
               /\ \A i \in Ids : lost' <= rows'[i] /\ rows'[i] <= clock
    <3>1. /\ lost <= ts /\ ts <= clock /\ lost <= clock
          /\ \A i \in Ids : lost <= rows[i] /\ rows[i] <= clock /\ rows[i] <= ts
      BY <2>1, <2>7 DEF LogInv
    <3>2. lost' \in {rows[o], lost}
      BY <2>1
    <3>3. lost' <= ts /\ lost' <= clock /\ \A i \in Ids : lost' <= rows[i]
      BY <2>2, <3>1, <3>2
    <3>4. QED
      BY <2>3, <3>1, <3>3
  <2>8. QED
    BY <2>1, <2>3, <2>5, <2>6, <2>7 DEF LogInv
<1>8. CASE Tick
  <2>1. /\ UNCHANGED <<pc, db, failed, ts, full, rows, setBack, faults, lost>>
        /\ clock' = clock + 1 /\ clock < MaxTime
    BY <1>8 DEF Tick
  <2>2. Ids' = Ids
    BY <2>1 DEF Ids
  <2>3. LogTypeOK'
    BY <1>1, <2>1, <2>2 DEF LogInv, LogTypeOK
  <2>4. \A x \in Int : x <= clock => x <= clock'
    BY <1>1, <2>1
  <2>5. QED
    BY <1>1, <2>1, <2>2, <2>3, <2>4 DEF LogInv, RowsBounded
<1>9. CASE SetBack
  <2>1. /\ UNCHANGED <<pc, db, failed, ts, full, rows, faults, lost>>
        /\ clock' \in 0 .. clock - 1 /\ setBack' = TRUE
    BY <1>9 DEF SetBack
  <2>2. Ids' = Ids
    BY <2>1 DEF Ids
  <2>3. clock' \in 0 .. MaxTime
    BY <1>1, <2>1
  <2>4. LogTypeOK'
    BY <2>1, <2>2, <2>3 DEF LogInv, LogTypeOK
  <2>5. QED
    BY <2>1, <2>2, <2>4 DEF LogInv, RowsBounded
<1>10. QED
  BY <1>2, <1>3, <1>4, <1>5, <1>6, <1>7, <1>8, <1>9 DEF LogNext

LEMMA LogInductive == LogSpec => []LogInv
BY LogInitInv, LogStep, PTL DEF LogSpec

\* The ids of the table are always 1 .. n: an id that write_log() picks for a
\* new row is free, and the row it overwrites exists.
THEOREM LogTypes == LogSpec => []LogTypeOK
<1>1. LogInv => LogTypeOK
  BY DEF LogInv
<1>2. QED
  BY LogInductive, <1>1, PTL

\* The table has at most LOG_MAX_ROWS rows and one more for each COUNT that
\* failed, over any number of restarts and lost events (write_log()).
THEOREM LogIsBounded == LogSpec => []RowsBounded
<1>1. LogInv => RowsBounded
  BY DEF LogInv
<1>2. QED
  BY LogInductive, <1>1, PTL

\* Unless the clock is set back, the events that were overwritten are the
\* oldest ones (write_log()).
THEOREM NewestAreKept == LogSpec => []OldestGoes
<1>1. LogInv => OldestGoes
  BY DEF LogInv, OldestGoes
<1>2. QED
  BY LogInductive, <1>1, PTL
=============================================================================
