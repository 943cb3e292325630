----------------------------- MODULE InverterUnit -----------------------------
(***************************************************************************)
(* One Inverter unit of inverter_module.c: the poll thread with its        *)
(* init / process / error callbacks, the serial client context it owns,    *)
(* its write-command queue, and the main thread that stops it.             *)
(*                                                                         *)
(* The queue is the FIFO that BoundedFifo specifies and CmdQueue           *)
(* implements.  A transaction on the bus (probe, write, segment read) is   *)
(* one step with two outcomes; the environment decides which are possible. *)
(* What a segment is comes from RegisterMap, what a transaction does on    *)
(* the wire from RtuTransaction.                                           *)
(***************************************************************************)
EXTENDS Naturals, Sequences

CONSTANTS
  Cmd,          \* write commands
  Capacity,     \* INVERTER_CMD_QUEUE_CAPACITY
  NumSegs,      \* FC03 requests of one scan; 0 when the table is empty
  Threshold,    \* INVERTER_COMM_FAIL_THRESHOLD
  SleepTicks    \* INVERTER_RECONNECT_DELAY_MS / INVERTER_SHUTDOWN_CHECK_INTERVAL_MS

ASSUME UnitAssumption ==
  /\ Capacity \in Nat \ {0}
  /\ NumSegs \in Nat
  /\ Threshold \in Nat \ {0}
  /\ SleepTicks \in Nat

VARIABLES
  pc,           \* where the poll thread is
  running,      \* unit->running
  connState,    \* cfg->connection_state
  fd,           \* rtu_ctx.fd: "open" or "closed"
  mutex,        \* rtu_ctx.lock: "zeroed" (memset), "live" or "destroyed"
  commFail,     \* unit->comm_fail_count
  seg,          \* the segment of the scan that is read next
  ticks,        \* elapsed_ms of interruptible_sleep_ms, in check intervals
  fifo,         \* unit->cmd_queue
  qlock,        \* cmd_queue.lock: "live" or "destroyed"
  bridge,       \* the CMOS subscriber thread runs and may push commands
  main,         \* progress of stop_inverter_modules()
  port,         \* environment: the serial device node can be opened
  link,         \* environment: what transactions with the slave come to
  recent,       \* history: results of the reads since the last (re)connect
  afterStop     \* history: bus transactions since running was cleared

threadVars == <<pc, connState, fd, mutex, commFail, seg, ticks>>
mainVars == <<running, qlock, bridge, main>>
envVars == <<port, link>>
vars == <<threadVars, fifo, mainVars, envVars, recent, afterStop>>

Outcome == [up |-> {TRUE}, flaky |-> {TRUE, FALSE}, down |-> {FALSE}]

\* start_inverter_modules(): the unit is set up, its thread created; the
\* bridge may fail to start, which is only logged.
Init ==
  /\ pc = "loop"
  /\ running = TRUE
  /\ connState = "disconnected"
  /\ fd = "closed"
  /\ mutex = "zeroed"
  /\ commFail = 0
  /\ seg = 1
  /\ ticks = 0
  /\ fifo = << >>
  /\ qlock = "live"
  /\ bridge \in BOOLEAN
  /\ main = "run"
  /\ port \in BOOLEAN
  /\ link \in DOMAIN Outcome
  /\ recent = << >>
  /\ afterStop = 0
-----------------------------------------------------------------------------
\* One bus transaction, for the shutdown bound.
CountTransaction == afterStop' = IF running THEN afterStop ELSE afterStop + 1

\* The last Threshold results are kept.
Record(ok) ==
  recent' = IF Len(recent) < Threshold THEN Append(recent, ok) ELSE Append(Tail(recent), ok)

\* mb_rtu_client_disconnect().  Locking a destroyed mutex is undefined; with
\* the C library in use it fails and the rest of the function finds fd closed.
Disconnect ==
  /\ fd' = "closed"
  /\ mutex' = "destroyed"

\* while (unit->running) of inverter_rtu_thread.
OuterLoop ==
  /\ pc = "loop"
  /\ pc' = IF running THEN "connect" ELSE "final"
  /\ UNCHANGED <<connState, fd, mutex, commFail, seg, ticks, fifo, mainVars, envVars, recent, afterStop>>

\* Mutant: a failed open ends the thread.
ConnectFailGivesUp ==
  /\ pc = "connect"
  /\ ~port
  /\ fd' = "closed"
  /\ mutex' = "destroyed"
  /\ pc' = "final"
  /\ UNCHANGED <<connState, commFail, seg, ticks, fifo, mainVars, envVars, recent, afterStop>>

\* mb_rtu_client_connect() fails: open() or configure_serial_port().
ConnectFail ==
  /\ pc = "connect"
  /\ ~port
  /\ fd' = "closed"
  /\ mutex' = "destroyed"
  /\ pc' = "sleep"
  /\ ticks' = 0
  /\ UNCHANGED <<connState, commFail, seg, fifo, mainVars, envVars, recent, afterStop>>

\* The context is zeroed, its mutex initialised and the port opened.
ConnectOk ==
  /\ pc = "connect"
  /\ port
  /\ fd' = "open"
  /\ mutex' = "live"
  /\ pc' = IF NumSegs > 0 THEN "probe" ELSE "online"
  /\ UNCHANGED <<connState, commFail, seg, ticks, fifo, mainVars, envVars, recent, afterStop>>

\* Mutant: the failed probe leaves the port open.
ProbeFailLeaksPort ==
  /\ pc = "probe"
  /\ FALSE \in Outcome[link]
  /\ CountTransaction
  /\ pc' = "sleep"
  /\ ticks' = 0
  /\ UNCHANGED <<connState, fd, mutex, commFail, seg, fifo, mainVars, envVars, recent>>

\* The port opens but the device does not answer the FC03 probe.
ProbeFail ==
  /\ pc = "probe"
  /\ FALSE \in Outcome[link]
  /\ CountTransaction
  /\ Disconnect
  /\ pc' = "sleep"
  /\ ticks' = 0
  /\ UNCHANGED <<connState, commFail, seg, fifo, mainVars, envVars, recent>>

ProbeOk ==
  /\ pc = "probe"
  /\ TRUE \in Outcome[link]
  /\ CountTransaction
  /\ pc' = "online"
  /\ UNCHANGED <<connState, fd, mutex, commFail, seg, ticks, fifo, mainVars, envVars, recent>>

\* End of inverter_rtu_init_callback().
Online ==
  /\ pc = "online"
  /\ commFail' = 0
  /\ connState' = "connected"
  /\ recent' = << >>
  /\ pc' = "inner"
  /\ UNCHANGED <<fd, mutex, seg, ticks, fifo, mainVars, envVars, afterStop>>

\* Mutant: without running only the body of the loop is skipped.
InnerLoopForever ==
  /\ pc = "inner"
  /\ pc' = IF running THEN "drain" ELSE "inner"
  /\ UNCHANGED <<connState, fd, mutex, commFail, seg, ticks, fifo, mainVars, envVars, recent, afterStop>>

\* while (unit->running) around process_callback; leaving it re-tests running.
InnerLoop ==
  /\ pc = "inner"
  /\ pc' = IF running THEN "drain" ELSE "loop"
  /\ UNCHANGED <<connState, fd, mutex, commFail, seg, ticks, fifo, mainVars, envVars, recent, afterStop>>

DrainPop ==
  /\ pc = "drain"
  /\ fifo # << >>
  /\ fifo' = Tail(fifo)
  /\ pc' = "write"
  /\ UNCHANGED <<connState, fd, mutex, commFail, seg, ticks, mainVars, envVars, recent, afterStop>>

\* write_registers_to_device(): its result is logged and nothing else.
Write ==
  /\ pc = "write"
  /\ CountTransaction
  /\ pc' = "drain"
  /\ UNCHANGED <<connState, fd, mutex, commFail, seg, ticks, fifo, mainVars, envVars, recent>>

\* Mutant: the drain may end with commands left.
DrainAbandoned ==
  /\ pc = "drain"
  /\ pc' = IF NumSegs = 0 THEN "inner" ELSE "scan"
  /\ seg' = 1
  /\ UNCHANGED <<connState, fd, mutex, commFail, ticks, fifo, mainVars, envVars, recent, afterStop>>

DrainEmpty ==
  /\ pc = "drain"
  /\ fifo = << >>
  /\ pc' = IF NumSegs = 0 THEN "inner" ELSE "scan"
  /\ seg' = 1
  /\ UNCHANGED <<connState, fd, mutex, commFail, ticks, fifo, mainVars, envVars, recent, afterStop>>

\* The next segment, or the end of the scan and the poll interval.
NextSegment ==
  /\ pc' = IF seg < NumSegs THEN "scan" ELSE "inner"
  /\ seg' = IF seg < NumSegs THEN seg + 1 ELSE 1

\* Mutant: a good read does not reset comm_fail_count.
ReadOkKeepsCount ==
  /\ pc = "scan"
  /\ TRUE \in Outcome[link]
  /\ CountTransaction
  /\ Record(TRUE)
  /\ NextSegment
  /\ UNCHANGED <<connState, fd, mutex, commFail, ticks, fifo, mainVars, envVars>>

ReadOk ==
  /\ pc = "scan"
  /\ TRUE \in Outcome[link]
  /\ CountTransaction
  /\ Record(TRUE)
  /\ commFail' = 0
  /\ NextSegment
  /\ UNCHANGED <<connState, fd, mutex, ticks, fifo, mainVars, envVars>>

\* Mutant: the threshold ends the scan but not the process loop.
ReadFailNeverDrops ==
  /\ pc = "scan"
  /\ FALSE \in Outcome[link]
  /\ CountTransaction
  /\ Record(FALSE)
  /\ commFail' = IF commFail + 1 < Threshold THEN commFail + 1 ELSE 0
  /\ NextSegment
  /\ UNCHANGED <<connState, fd, mutex, ticks, fifo, mainVars, envVars>>

\* Below the threshold the scan goes on with the next segment.
ReadFail ==
  /\ pc = "scan"
  /\ FALSE \in Outcome[link]
  /\ CountTransaction
  /\ Record(FALSE)
  /\ commFail' = commFail + 1
  /\ IF commFail' < Threshold
     THEN NextSegment
     ELSE pc' = "error" /\ UNCHANGED seg
  /\ UNCHANGED <<connState, fd, mutex, ticks, fifo, mainVars, envVars>>

\* inverter_rtu_error_callback(cfg, CONNECTION_DISCONNECTED): the port is
\* closed first; comm_fail_count belongs to this thread alone.
Error ==
  /\ pc = "error"
  /\ Disconnect
  /\ commFail' = 0
  /\ pc' = "offline"
  /\ UNCHANGED <<connState, seg, ticks, fifo, mainVars, envVars, recent, afterStop>>

\* Mutant: connection_state is not updated.
OfflineKeepsState ==
  /\ pc = "offline"
  /\ pc' = "sleep"
  /\ ticks' = 0
  /\ UNCHANGED <<connState, fd, mutex, commFail, seg, fifo, mainVars, envVars, recent, afterStop>>

\* Only then is connection_state written; the publisher reads it at any time,
\* without a lock.
Offline ==
  /\ pc = "offline"
  /\ connState' = "disconnected"
  /\ pc' = "sleep"
  /\ ticks' = 0
  /\ UNCHANGED <<fd, mutex, commFail, seg, fifo, mainVars, envVars, recent, afterStop>>

SleepTick ==
  /\ pc = "sleep"
  /\ ticks < SleepTicks
  /\ running
  /\ ticks' = ticks + 1
  /\ UNCHANGED <<pc, connState, fd, mutex, commFail, seg, fifo, mainVars, envVars, recent, afterStop>>

SleepDone ==
  /\ pc = "sleep"
  /\ ticks >= SleepTicks \/ ~running
  /\ pc' = "loop"
  /\ UNCHANGED <<connState, fd, mutex, commFail, seg, ticks, fifo, mainVars, envVars, recent, afterStop>>

\* The disconnect at the end of inverter_rtu_thread.
Final ==
  /\ pc = "final"
  /\ Disconnect
  /\ pc' = "done"
  /\ UNCHANGED <<connState, commFail, seg, ticks, fifo, mainVars, envVars, recent, afterStop>>
-----------------------------------------------------------------------------
\* inverter_cmd_push() from the CMOS subscriber thread, when it is accepted.
Push(c) ==
  /\ bridge
  /\ Len(fifo) < Capacity
  /\ fifo' = Append(fifo, c)
  /\ UNCHANGED <<threadVars, mainVars, envVars, recent, afterStop>>

\* Mutant: stop_inverter_modules leaves the bridge running.
BridgeStopSkipped ==
  /\ main = "run"
  /\ main' = "bridgeStopped"
  /\ UNCHANGED <<threadVars, fifo, running, qlock, bridge, envVars, recent, afterStop>>

\* stop_inverter_modules(): the bridge threads are joined first.
BridgeStop ==
  /\ main = "run"
  /\ bridge' = FALSE
  /\ main' = "bridgeStopped"
  /\ UNCHANGED <<threadVars, fifo, running, qlock, envVars, recent, afterStop>>

SignalStop ==
  /\ main = "bridgeStopped"
  /\ running' = FALSE
  /\ main' = "joining"
  /\ UNCHANGED <<threadVars, fifo, qlock, bridge, envVars, recent, afterStop>>

\* Mutant: the queue is destroyed without joining the thread.
JoinSkipped ==
  /\ main = "joining"
  /\ qlock' = "destroyed"
  /\ main' = "stopped"
  /\ UNCHANGED <<threadVars, fifo, running, bridge, envVars, recent, afterStop>>

\* pthread_join(), queue_destroy().
Join ==
  /\ main = "joining"
  /\ pc = "done"
  /\ qlock' = "destroyed"
  /\ main' = "stopped"
  /\ UNCHANGED <<threadVars, fifo, running, bridge, envVars, recent, afterStop>>
-----------------------------------------------------------------------------
\* The device node appears or disappears; the slave answers always, sometimes
\* or not at all.
PortChanges ==
  /\ port' = ~port
  /\ UNCHANGED <<threadVars, fifo, mainVars, link, recent, afterStop>>

LinkChanges ==
  /\ \E l \in DOMAIN Outcome \ {link} : link' = l
  /\ UNCHANGED <<threadVars, fifo, mainVars, port, recent, afterStop>>
-----------------------------------------------------------------------------
PollThread ==
  \/ OuterLoop \/ ConnectFail \/ ConnectOk \/ ProbeFail \/ ProbeOk \/ Online
  \/ InnerLoop \/ DrainPop \/ Write \/ DrainEmpty \/ ReadOk \/ ReadFail
  \/ Error \/ Offline \/ SleepTick \/ SleepDone \/ Final

Stop == SignalStop \/ Join

Environment == PortChanges \/ LinkChanges

Next ==
  \/ PollThread
  \/ \E c \in Cmd : Push(c)
  \/ BridgeStop
  \/ Stop
  \/ Environment

Spec == Init /\ [][Next]_vars

\* The scheduler runs a thread that can take a step, and main once it has
\* begun to stop; nothing forces commands, the stop or the environment.
FairSpec == Spec /\ WF_vars(PollThread) /\ WF_vars(Stop)
-----------------------------------------------------------------------------
\* Every variable stays in its range; comm_fail_count never passes the
\* threshold (inverter_rtu_process_callback).
TypeOK ==
  /\ pc \in {"loop", "connect", "probe", "online", "inner", "drain", "write",
             "scan", "error", "offline", "sleep", "final", "done"}
  /\ running \in BOOLEAN
  /\ connState \in {"connected", "disconnected"}
  /\ fd \in {"open", "closed"}
  /\ mutex \in {"zeroed", "live", "destroyed"}
  /\ commFail \in 0 .. Threshold
  /\ seg \in Nat \ {0}
  /\ ticks \in 0 .. SleepTicks
  /\ fifo \in Seq(Cmd) /\ Len(fifo) <= Capacity
  /\ qlock \in {"live", "destroyed"}
  /\ bridge \in BOOLEAN
  /\ main \in {"run", "bridgeStopped", "joining", "stopped"}
  /\ port \in BOOLEAN
  /\ link \in DOMAIN Outcome
  /\ recent \in Seq(BOOLEAN)
  /\ afterStop \in Nat

\* The serial port is opened only when no descriptor is open (connect zeroes
\* the context and would lose it), and the bus is used and the error callback
\* entered only with the port open and its mutex initialised.
PortDiscipline ==
  /\ pc = "connect" => fd = "closed"
  /\ pc \in {"probe", "online", "inner", "drain", "write", "scan", "error"} =>
       fd = "open" /\ mutex = "live"

\* connection_state says connected with the serial port closed only in two
\* places: between the disconnect of the error callback and the assignment
\* two lines below it, and after the thread has ended.  A publication can
\* fall into the first window, which closes before the reconnect delay
\* begins: through the sleep, the reopening and the probe the HMI is never
\* shown a device online that the thread has given up.
OnlineMeansOpen ==
  /\ connState = "connected" /\ fd = "closed" => pc \in {"offline", "done"}
  /\ pc \in {"sleep", "connect", "probe", "online"} => connState = "disconnected"

\* The device is declared disconnected only after Threshold consecutive
\* failed reads since the last good one or the last connect, across scans
\* and segments.
DropIsDeserved ==
  [][connState = "connected" /\ connState' = "disconnected" =>
       Len(recent) = Threshold /\ \A i \in 1 .. Threshold : ~recent[i]]_vars

\* Once running is cleared the poll thread finishes within one drain of the
\* queue, the write in hand and one scan: the number of bus transactions, each
\* of them up to a response timeout long, that the join can wait for.
ShutdownBound == afterStop <= Capacity + 1 + NumSegs

\* The queue mutex is destroyed only when neither the poll thread nor the
\* bridge can take it again.
QueueLockAlive == qlock = "destroyed" => pc = "done" /\ ~bridge

\* stop_inverter_modules() returns: the poll thread comes out of every wait
\* and every loop after running is cleared, whatever the device does.
StopReturns == main = "joining" ~> main = "stopped"

\* A device that stops answering for good is reported disconnected for good,
\* unless commands arrive forever or the program stops.
DeadDeviceReported ==
  <>[](link = "down") =>
    \/ <>[](connState = "disconnected" \/ ~running)
    \/ []<><<\E c \in Cmd : Push(c)>>_vars

\* A device that answers for good is reported connected for good, however
\* long it was away, unless the program stops.
LiveDeviceReported ==
  <>[](link = "up" /\ port) => <>[](connState = "connected" \/ ~running)

\* While the device answers, queued commands keep being executed: no command
\* waits in the queue for ever.
CommandsServed ==
  <>[](link = "up" /\ port) => []<>(fifo = << >> \/ pc = "write" \/ ~running)
=============================================================================
