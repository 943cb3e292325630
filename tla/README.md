# A TLA+ model of loop_charger_inverter

`loop_charger_inverter` is a Linux daemon that polls inverters over Modbus RTU,
keeps their registers in a shared pool, publishes them to an HMI over the CMOS
message bus, executes the HMI's write commands and logs alarms to SQLite. These
modules model its own logic, check it with TLC on small instances and prove every
safety property with TLAPS for every value of the constants. Paths below are
those of the repository.

## The system

| Part | State | Operations | Talks to |
|---|---|---|---|
| Write-command queue (`src/inverter_module.c` 62-157) | ring `entries`, `head`, `tail`, `count`, mutex | `queue_push` (bridge thread), `queue_pop` (poll thread) | bridge, poll thread |
| Inverter unit (`src/inverter_module.c`) | `running`, `comm_fail_count`, `connection_state`, RTU context | thread loop; init, process, error callbacks; start, stop | RTU client, pool, queue |
| Modbus RTU client (`lib/modbus`) | descriptor, mutex | connect, disconnect, probe, FC03, FC06, FC16 | serial line |
| Register map and pool (`lib/device_map`, `devices/inverter`) | `internal_pool` under a rwlock; constant tables | segmentation, binary search, pool writes and reads | poll thread, publisher, alarms |
| Inverter CMOS bridge (`src/inverter_cmos_bridge.c`) | two threads, `g_bridge_running` | command handlers, `on_write`, periodic publication | CMOS, queue, pool |
| CMOS library (`lib/cmos`) | slots, connections, master socket; client list | lookup, reconnect, dispatch; accept, publish | TCP peers |
| Alarm engine and bridge (`lib/alarm`, `src/inverter_alarm.c`) | sticky flags, previous values | evaluation pass, start, stop | pool, alarm database |
| Alarm database (`src/inverter_alarm_manager.c`) | SQLite table of at most 10 000 rows, failure latch | open, write, close | alarm engine |
| Daemon (`src/main.c`, `src/config_loader.c`) | `g_running`, configuration | start, wait for a signal, stop | everything |

Threads: main; one poll thread per unit; the CMOS subscriber (which runs the
command handlers); the publisher; the alarm monitor. They share the command
queues (mutex), the pool (rwlock, one register at a time), `connection_state` and
the run flags (no lock).

What is hard: the interleaving of bridge and poll thread on the queue; a device
or port that disappears at any point of connect, probe, drain or scan, and comes
back; a stop that finds the poll thread anywhere; responses that are split,
damaged, foreign, or late; tables for which the segmentation or the search is off
by one; commands and publications that outlive a connection; a message bus whose
master and peers restart independently; parts that fail to start and are stopped
all the same. The `hazards` list
of `PROJECT.json` has each of them with its line and the properties that cover
it, or the reason why none does.

What makes each part correct:

- queue: every accepted command is handed over once and in order, refusals have a
  reason;
- unit: the port is opened only when closed and used only when open,
  `connection_state` means what it says, a device is dropped only for the
  threshold's reason, a dead one is reported and a live one regained, and the
  stop is bounded and returns;
- RTU client: a success is the answer to this request, and every transaction ends;
- register map: each register's value lands in its own slot, the scan covers the
  table;
- bridge: only writable registers are written, commands are not overtaken, what
  the HMI is told converges to the truth;
- alarms: triggers and clears alternate, changes are changes, what the manager was
  told catches up with the registers;
- alarm database: the table is bounded and gives up its oldest events first;
- CMOS subscriber: one connection per publisher and slot, handlers that are given
  lines from their beginning and nothing of another line, a thread that no silent publisher freezes, connections that come
  back;
- CMOS publisher: every subscriber gets each line once, also when others drop out;
- daemon: nothing is torn down under its users whichever part failed to start, and
  a noticed signal ends the process.

## Modules

- `BoundedFifo` – what the queue promises: the abstract specification.
- `CmdQueue` (+ `MC_CmdQueue`) – the ring buffer under its mutex. Critical sections
  are split at taking the lock, touching the entry, and moving an index and
  unlocking, so that a missing lock shows. `ImplementsFifo` is the refinement
  mapping to `BoundedFifo`: the queue changes in the step that moves an index.
- `InverterUnit` – one unit: `inverter_rtu_thread` with its callbacks, the RTU
  context it opens and closes, its queue (taken as the FIFO that `CmdQueue`
  implements), and `stop_inverter_modules`. A bus transaction is one step with
  two outcomes; `port` and `link` are the environment and change at any time.
  The error callback closes the port (`Error`) before it writes `connection_state`
  (`Offline`), and the publisher reads that without a lock: the two are steps of
  their own.
  `recent` and `afterStop` are history: the last results of reads, and the bus
  transactions since `running` was cleared.
- `RtuTransaction` (+ `MC_RtuTransaction`) – `do_transaction`, `read_exact`,
  `wait_for_data` and the checks of the request functions, against a slave that is
  silent, answers, raises an exception, garbles or answers for another unit, over
  a line that delivers in pieces, late, or not at all. A byte is its frame and
  its position; a CRC check is "a whole, undamaged frame".
- `RtuFrame` – the request frames and the CRC16 computation, byte by byte. It has no
  state: `MC_RtuTransaction` extends it and states as assumptions, which TLC
  evaluates, that the computation is the remainder of the polynomial division
  (`CrcIsRemainder`) and that it tells a damaged or cut frame from a whole one
  (`DamageIsSeen`), the abstraction `RtuTransaction` makes.
- `RegisterMap` (+ `MC_RegisterMap`) – the scan: segmentation, one FC03 per
  segment, binary search and pool write per register. The failure that reaches the
  threshold gives the scan up where it is (`ReadDrops`) and the next connection
  starts another (`Reconnect`); fewer failures go on (`ReadFails`). A value is the pair of its
  register and a version, so a misplaced one is visible.
- `HmiBridge` (+ `MC_HmiBridge`) – composes the three threads an operator depends
  on: subscriber with handlers and `on_write`, an outline of the poll thread (one
  row per request), and the publisher, which reads state and value separately.
- `AlarmMonitor` (+ `MC_Alarms`) – registration, start and stop as `main()`
  calls them, the monitor thread with its startup delay, and `alarm_engine_run`, one
  entry per step because the poll threads store registers between any two reads.
  `open` and `told` are history: what the alarm manager was told of an entry; `fresh`
  is too: whether the last scan of a unit read all of its registers.
- `AlarmLog` – `log_init`, `write_log` and close, statement by statement, with crashes
  and restarts between any two of them. A row is its id and its timestamp; SQLite's
  choice of ids is external. Its specification is called `LogSpec`, so that one module
  of proofs can extend it together with `AlarmMonitor`.
- `CmosSub` (+ `MC_CmosSub`) – the subscriber thread: `cmos_sub_create`, `cmos_sub_add`
  and the `epoll` loop with its retry timer, the master socket, the table of
  connections and the receive buffers. A line arrives in pieces, so a read may end
  anywhere in it. `handed` is history: what the last read gave to the handlers, each
  line cut to what `line[512]` takes (`Lines`). Master and publishers are the environment: they crash, come back,
  register late, answer after the timeout. The loop over the publishers the master
  lists is written in closed form (`AddPubs`): the ones that are up and not yet
  connected take the first free entries, in any order. The filters of `handle_line` are
  evaluated for the four subscriptions of the bridge (`RoutedOnce`: a command
  reaches exactly one handler).
- `CmosPub` – the publisher: the steps of `cmos_pub_init` with their failures, the
  subscriber list, `cmos_publish` one `send` at a time, close. It has no run of its
  own; `Daemon` extends it with the thread that calls it.
- `Daemon` (+ `MC_Daemon`) – composes the life cycle: `main()`, `start_inverter_modules`,
  `inverter_cmos_bridge_start`, the alarm bridge, the signal and the stops in their
  order, with each thread creation failing or not. The publisher is `CmosPub`; the
  poll threads, the subscriber and the monitor are outlines of `InverterUnit`,
  `CmosSub` and `AlarmMonitor` that keep what the shutdown depends on: run flags,
  queue mutexes, cancellation points, the database. Cancelling or joining a thread
  that was never created is undefined in C; the model takes either a crash or an
  error return.
- `CmdQueueProofs`, `InverterUnitProofs`, `RtuTransactionProofs`, `RegisterMapProofs`,
  `HmiBridgeProofs`, `CmosSubProofs`, `DaemonProofs` – theorems about the module they
  are named after; `AlarmProofs` – about `AlarmMonitor` and `AlarmLog`.

Operators named in `mutants` of `PROJECT.json` are deliberate deviations from the
definition that follows them; no specification uses them.

## Runs

| Run | Instance | Shows |
|---|---|---|
| `cmd_queue` | 2 producers, 3 entries, 2 valid and 2 invalid commands | `RingConsistent`, the refinement `ImplementsFifo` |
| `inverter_unit` | queue of 2, 2 segments, threshold 3, sleep of 2 ticks | `PortDiscipline`, `OnlineMeansOpen`, `ShutdownBound`, `QueueLockAlive`, `DropIsDeserved`; liveness `StopReturns`, `DeadDeviceReported`, `LiveDeviceReported`, `CommandsServed` |
| `rtu_transaction` | a request each of FC03, FC06, FC16, timeout of 1 tick | `OkMeansWellFormed`, `AnswerIsMine`, `TransactionTime`, `TransactionEnds`; CRC16 and frames of `RtuFrame` |
| `register_map` | all sorted tables of 1-4 rows over 6 addresses, chunks 1-3, and the real table, threshold 3 | `RequestSound`, `SearchKeepsTarget`, `PoolMirrorsDevice`, `ScanCovers`, `ScanEnds` |
| `hmi_bridge` | 2 handlers, queue of 2, unlimited commands, 1 published register | `TypeOK`, `WritableOnly`, `LastCommandWins`, `PublishedConverges`, `DeadIsPublished` |
| `alarms` | monitor: 3 registry rows, 2 contexts, 4 entries of every kind on 2 registers and an unmapped one, delay of 2 sleeps; database: 3 rows, clock 0-2, 2 failing counts | `AlarmsAlternate`, `ChangeIsNews`, `AlarmsCatchUp`; `RowsBounded`, `OldestGoes` |
| `cmos_sub` | 2 slots, 1 publisher, table of 2, lines of 2 pieces of which `line[]` takes 1, buffer of 3 | `OneConnPerSlot`, `RecvNeverBlocks`, `HandlersGetLines`, `DeafSubscriberRecovers`, `LostSlotRecovers` |
| `daemon` | 2 subscribers, configurations of 0, 2 and 3 entries with at most 2 units, one without profile | `ResourceLifetimes`, `CrashNeedsFailedBridge`, `EveryoneGetsEach`, `ShutdownCompletes` |
| `cmos_slots` | as `cmos_sub`, `line[]` takes whole lines | violated: `SlotsReconnect` |
| `hmi_commands` | all handlers | violated: `HandlersAccepted` |
| `rtu_exception` | as `rtu_transaction` | violated: `ExceptionReported` |
| `rtu_late_answer` | two single writes, late answers allowed | violated: `EchoVerified` |

Why the bounds are enough. Three ring entries and unbounded traffic wrap the ring
arbitrarily often with partial fillings. Threshold 3 with 2 segments makes a drop
span two scans; a queue of 2 can be refilled during a drain. The tables have
every pattern of gaps, full chunks and searches of depth up to 3; the real table
adds the actual row count. A threshold of 3 (the code has 5) is reached within one scan
of such a table, and over two. The HMI's commands are not counted, so that they can keep a
queue of 2 full for ever. Transaction numbers are taken
modulo 2: with nothing on its way, a foreign byte can only be a leftover of the
previous transaction in the port. Of the alarm registers' two values each is an
excursion for one sticky entry and normal for the other; two contexts make the
loop over them real, and a third finds no place. Three rows go round a full table
any number of times; three instants let rows share a second or not.
In `cmos_sub` the one publisher is the HMI of the installation, and two of the four
slots are enough because all of them name its topic: one can be lost while the
other receives. Lines of 2 pieces let a read end in
the middle of a line, a buffer of 3 holds a whole line and a part of one, and a line is
longer than what `line[]` takes of it. In `alarms` the monitor and the database share no
variable, so they are explored side by side rather than interleaved (`Alarms`).
In `daemon` two units make the join loop
and the limit of units happen. The refusals at `CM_MAX_SUB_CLIENT` subscribers and
at a full connection table are translated, but two subscribers and one publisher
do not reach them; the installation has a handful of peers for limits of 512.

Late answers. Modbus RTU has no transaction number, so a response that is still on
its way when the next request is written can be taken for that request's. The
history variable `quiet` records whether anything was on its way: `AnswerIsMine`
is stated for the transactions for which nothing was, `OkMeansWellFormed`,
`TransactionTime` and `TransactionEnds` for all. In `rtu_transaction` a slave with
a backlog does not hear the next request (`MaxBacklog = 0`); in `rtu_late_answer`
it does. `TransactionTime` is the bound the code really has: `read_exact` starts a
new timeout for each piece, so a transaction may take `resp_len` timeouts. What its
comment says instead (`modbus_rtu_client.c:198`, an overall timeout) does not hold.

Fairness. A thread that can run is run: weak fairness of the poll thread, of the
publisher, of the alarm monitor, of main once it has begun to stop, and of time in a blocked `select()`. `CmosSub`
has weak fairness of its thread and of the two-second clock, and none of the master
or the publishers. `Daemon` has it for each thread, and strong fairness for the
subscriber taking a queue's mutex: the poll thread sleeps between two drains, so
the mutex is free again and again; and for its cancellation, since it passes a
cancellation point (`epoll_wait()`, `recv()`) when the lines of its buffer are handled.
Nothing forces commands, stops, failures or changes of the environment.
`DeadDeviceReported` excludes an endless stream of commands, because the drain
loop then never reaches the scan that would count failures. In `HmiBridge` the same
exception is `DrainForever`: commands keep coming and the poll thread stays in drain and
write for good. Without it `PublishedConverges` and `DeadIsPublished` are violated.
`CommandsServed` and
`LiveDeviceReported` ask for a device that stays. The reconnections ask for a master
and a publisher that stay (`Stable`), `LostSlotRecovers` also for a master socket that
holds. `ShutdownCompletes` asks that no subscriber leave its buffers full for ever,
and is about signals that main notices. Deadlock is checked in every run.

## What the violations say

- `hmi_commands` – three of the four HMI handlers own a *pool* address
  (`int_operation_cmd_reg` = 0xB000 ...) while `on_write` looks up *device*
  addresses (0x2000 ...). Their commands are always rejected. `main_pump` uses
  `dev_operation_cmd_reg` = 0x2001 and works.
- `rtu_late_answer` – a late FC06 echo acknowledges a write to another register,
  since only the function code of the echo is compared.
- `cmos_slots` – a lookup that fails, for instance because the master answers after
  the receive timeout, closes the master socket. While another slot still has a
  connection the retry pass only repeats lookups, and nothing opens the socket
  again: the slot stays deaf. The passing run shows what does hold: with the socket
  open every slot comes back, and so does a subscriber that lost all of them.
- `rtu_exception` – an exception response (5 bytes) never fills the buffer that the
  client waits for (7 bytes at least), so the positive return value that
  `modbus_rtu_client.h` promises is never produced for it and the slave's refusal counts
  as a timeout. `ExceptionsAreTimeouts` proves that this is so for every request.

What else the runs established about the code:

- `OnlineMeansOpen`: `connection_state` outlives the port from the disconnect of the
  error callback to its assignment below it, and after the end of the thread, and
  nowhere else.
- `TransactionTime`: each piece of a response restarts the timeout, so that the overall
  timeout of `modbus_rtu_client.c:198` is overrun by any response in pieces.
- `HandlersGetLines` is what holds of long lines. The comments choose the sizes of the
  receive buffer (2048, `cmos_sub.c:13`) and of the publisher's line (1024,
  `cmos_pub.c:143`) so that no message is truncated; the event loop then cuts each line
  to 511 bytes (`cmos_sub.c:481`) and its end is lost without a trace.
- `AlarmsCatchUp` is stated for units that are scanned (`fresh`). The comments at
  `alarm_engine.h:198` and `alarm_bridge.h:26` ask for more, namely that only values of a
  successful poll are judged. The monitor asks for no poll: after the delay it judges the
  zeros of a unit that was never reached, and during a failure the last values, so it can
  report what no device said.
- `ScanCovers`: only the failure that reaches the threshold ends a scan early.
- `ShippedAlarmsUnreadable` (an assumption of `MC_Alarms`): the alarm table
  watches 0x0001 ... 0x0050, of which the mapping table (0x2000 ... 0x220A) has none.
  Each entry is skipped in each pass and no alarm is ever raised.
- `CrashNeedsFailedBridge`: when the bridge fails to start the daemon goes on, and
  its shutdown cancels and joins threads that were never created; that is the only
  way to a crash.
- A signal between the test of `g_running` and `pause()` (`main.c:147`) is noticed only
  at the next signal, and a subscriber that stops reading holds `send()` and with it
  the shutdown: both are what `ShutdownCompletes` has to exclude.
- Subscriber and publisher do not retry if the master is down when they start, and
  the publisher does not register again after the master was restarted. `cmos.h`
  describes a cache of states replayed to new subscribers; `cmos_pub.c` has none.

`OldestGoes` is stated for a clock that was never set back. Timestamps are local
times, so at the end of summer time, for instance, a full table overwrites its newest
event with each write until the hour has passed.

## Proofs

TLAPS proves every invariant and every safety action property of the passing runs,
for every value of the constants that satisfies the assumptions named in the modules.
Each proof has one inductive invariant `IInv`, the conjunction of named parts, a
lemma per action or group of actions, and a short theorem per property.

- `CmdQueueProofs`: `TypeCorrect`, `RingCorrect`, `QueueRefinesFifo`. The inductive
  invariant adds to the types who owns the mutex at which program counter, that
  the slot just written is the one at `tail`, and that the copy in the poll
  thread's hands is the entry at `head`; without mutual exclusion neither index
  update is safe. Refinement: initial states map to initial states, each step to
  a step of `BoundedFifo` or to a stutter. Modular arithmetic is confined to a few
  lemmas about `NextSlot`.
- `InverterUnitProofs`: `TypeCorrect`, `PortIsDisciplined`, `OnlineIsOpen`,
  `ShutdownIsBounded`, `QueueLockOutlivesThreads`, `DropsAreDeserved`, from one
  invariant: `PortInv` ties port and mutex to the program counter, `StopInv` the
  order of the stop, `BudgetInv` counts the transactions still possible from each
  program counter once `running` is cleared (`ShutdownBound` alone is not
  inductive), `StreakInv` relates `comm_fail_count` to the trailing failures in
  `recent`.
- `RtuTransactionProofs`: `SuccessIsWellFormed`, `AnswersAreMine`,
  `TransactionsAreBounded`, `ExceptionsAreTimeouts`. `TimeInv`: each byte collected has
  paid for at most one timeout, and the `select()` in progress for its own. `OriginInv`:
  on a line that was quiet, what was collected, what waits in the port and what is on
  the wire are bytes of the slave's one answer and together no more than it has; the
  properties speak of the end only, so this has to hold from the flush on. An exception frame of 5 bytes
  is shorter than `RespLen` of any request, whatever its quantity. `VerdictInv` says
  what each result was concluded from.
- `RegisterMapProofs`: `TypeCorrect`, `RequestsAreSound`, `SearchIsCorrect`,
  `PoolIsMirror`, `ScansCover`, for every threshold, every sorted table without repeated pool addresses
  (what `inverter_map.c` promises of its tables) and every chunk. `SegmentInv`: rows
  `segStart` to `i - 1` are one run of addresses; `SearchInv`: the wanted row is within
  the bounds of the search; `StoredInv`: of the response being stored, the first `k`
  registers are in the pool and the others still hold what they held; `AskedInv`: the rows asked for are
  those before the segment.
- `HmiBridgeProofs`: `TypeCorrect`, `WritesAreAllowed`, `LastCommandIsFinal`. The latter
  is about an empty queue and needs `CommandInv`: wherever the last accepted command
  for a register is (in the queue behind all others for it, in hand, or done), `last` allows
  its value, and a register without waiting commands already holds an allowed one. The
  proof uses that the mapping table is sorted, so that two rows are never one register.
- `AlarmProofs`: `MonitorTypes`, `AlarmsAreSticky` and the action property
  `ChangesAreNews`, for every alarm table and number of units; the invariant adds that
  `prev_value` is what the last CHANGE event said. `LogTypes`, `LogIsBounded`,
  `NewestAreKept`, for every limit. A failed COUNT is on record before its row is
  inserted, so the bound has to pay in advance; and the event being written is no older
  than any row, as long as the clock was not set back.
- `CmosSubProofs`: `ConnectionsAreUnique`, `EventsAreReadable`, `BuffersStayInStep`,
  `HandlersSeeLines`, for any number of slots and publishers, any line length that fits
  the buffer, any size of `line[]`, and also for a
  table that fills up, which the runs do not reach. `TableInv` is
  an invariant of the table as a value, so that one lemma each for opening, closing,
  hanging up and receiving serves all steps that do so: buffer, socket and peer of a
  connection continue each other, a closed entry has an empty buffer (the next user of
  the entry inherits it), and a buffer holds less than a line. That each newline of a
  buffer ends a line that began a whole line before it (`LinesAre`) follows from this with a
  little modular arithmetic. Events stay readable because
  only the thread itself reads, and a retry opens entries that no event names.
- `DaemonProofs`: `LifetimesAreNested`, `StartedBridgeStops`, `LinesReachEveryone`, for every
  configuration and any number of units and subscribers. `StageInv` says for each stage
  of `main()` which threads and resources exist, through both ways the bridge can fail
  to start, and that a bridge that came up has both of its threads, neither of them
  joined; `UnitInv` that the units are joined in order and a mutex is destroyed only
  behind the join, with the subscriber gone; `PublishInv` that a client has one
  connection at most (waiting or in the list) and which of the list were served, without
  which removing an entry from the list that is being walked is not safe.

Only model-checked: all liveness, since fairness and `ENABLED` are beyond the prover
(`StopReturns`, `DeadDeviceReported`, `LiveDeviceReported`, `CommandsServed`,
`TransactionEnds`, `ScanEnds`, `PublishedConverges`, `DeadIsPublished`, `AlarmsCatchUp`,
`DeafSubscriberRecovers`, `LostSlotRecovers`, `ShutdownCompletes`); and what is evaluated
rather than explored: the CRC16 and the frames of `RtuFrame` (what a fold computes for
every input needs induction over data), `RoutedOnce`, and the shipped tables.

## Not modelled

Termios settings, JSON parsing and the field-by-field copy of the configuration,
logging, message texts, vendored headers, the CMOS master (a separate program).
`inverter_msg_callback`, `on_read`, `check_register_access_range` and
`pool_write_by_device_addr` have no caller in the daemon; the alarm bridge's heartbeat
has no reader. The alarms' registers are taken apart from the scan that fills them:
they change at any time, and `fresh` says whether the last scan succeeded. Several units are
independent of each other except for the bus and the bridge, and the shipped
configuration has one; `Daemon` has several for the order of the stop only. Using
the RTU context's mutex after it was destroyed (a stop during a retry sleep) is
undefined; the model takes what the C library does, an error and no change.

About 15 000 of the repository's 20 000 lines of C are the vendored `sqlite3.h` and
`sqlite3ext.h`, declarations of a library of which the code uses a few functions
(modelled from that use, as external). Of the daemon's own code the definitions
cover well over half of the lines of the `.c` files; the rest are comments,
includes, logging, and what this section lists.

## Plan

1. Done: queue and its abstract FIFO; unit; transaction and frames; register map;
   bridge; alarm monitor; alarm database; CMOS subscriber and publisher; daemon.
2. Done: proofs of every safety property of the runs, and of the refinement.
3. Left: further safety properties of the composed modules, proved where they are
   checked: that a published value was once read from its register (`HmiBridge`), that no
   command is queued after the bridge was stopped (`Daemon`).
