------------------------------- MODULE HmiBridge -------------------------------
(***************************************************************************)
(* The operator's view of the daemon (inverter_cmos_bridge.c): commands of *)
(* the HMI travel through a handler, on_write() and the command queue to a *)
(* register of the device; registers travel through the scan and the pool  *)
(* to the publisher.  Three threads take part: the CMOS subscriber, the    *)
(* poll thread and the publisher.                                          *)
(*                                                                         *)
(* The poll thread is an outline of InverterUnit and RegisterMap: it reads *)
(* one row per request, and a connection begins with any request that the  *)
(* device answers.                                                         *)
(***************************************************************************)
EXTENDS Naturals, Sequences

CONSTANTS
  Handlers,     \* the on_xxx_cmd handlers subscribed to
  Register,     \* the address each of them owns
  Table,        \* mapping table: a sequence of [dev, pool, access]
  Keys,         \* the sequence of pool addresses that are published
  Inputs,       \* numbers the HMI sends
  Readings,     \* values the read-only registers of the device take
  Capacity,     \* INVERTER_CMD_QUEUE_CAPACITY
  Threshold     \* INVERTER_COMM_FAIL_THRESHOLD

WordSize == 65536
Word == 0 .. WordSize - 1
Rows == 1 .. Len(Table)
ReadOnly == {Table[r].dev : r \in {q \in Rows : Table[q].access = "RO"}}
Devs == {Table[r].dev : r \in Rows}
Pools == {Table[r].pool : r \in Rows}

ASSUME BridgeAssumption ==
  /\ Len(Table) \in Nat \ {0} /\ Len(Keys) \in Nat \ {0}
  /\ Register \in [Handlers -> Word]
  /\ \A r \in Rows : Table[r].access \in {"RO", "RW", "WO"}
  /\ \A q, r \in Rows : q < r => Table[q].dev < Table[r].dev
  /\ \A q, r \in Rows : Table[q].pool = Table[r].pool => q = r
  /\ \A n \in 1 .. Len(Keys) : Keys[n] \in Pools
  /\ Inputs \subseteq Nat
  /\ Readings \subseteq Word
  /\ Capacity \in Nat \ {0}
  /\ Threshold \in Nat \ {0}

VARIABLES
  fifo,        \* the unit's command queue: [dev, val]
  pc,          \* poll thread: "off", "drain", "write", "read" or "store"
  cur,         \* the command in hand
  row,         \* the row being read
  buf,         \* the value just read
  fails,       \* comm_fail_count
  conn,        \* connection_state
  pool,        \* internal_pool
  pubPc,       \* publisher: "state" or "value"
  pubKey,      \* index of the key being published
  pubState,    \* the state string taken for it
  out,         \* what was last published for each key
  holding,     \* environment: the registers of the device
  link,        \* environment: the device answers
  rejected,    \* history: handlers whose command on_write() found invalid
  last         \* history: what a register must hold once its commands are done

pollVars == <<pc, cur, row, buf, fails, conn>>
pubVars == <<pubPc, pubKey, pubState, out>>
vars == <<fifo, pollVars, pool, pubVars, holding, link, rejected, last>>

NoCmd == [dev |-> 0, val |-> 0]

\* Mutant: the number is not truncated.
ToRegisterWide(number) == number

\* (uint16_t)strtoul(value, NULL, 0)
ToRegister(number) == number % WordSize

Init ==
  /\ fifo = << >>
  /\ pc = "off"
  /\ cur = NoCmd
  /\ row = 1
  /\ buf = 0
  /\ fails = 0
  /\ conn = "disconnected"
  /\ pool = [a \in Pools |-> 0]
  /\ pubPc = "state"
  /\ pubKey = 1
  /\ pubState = "Disconnect"
  /\ out = [n \in 1 .. Len(Keys) |-> <<"none", 0>>]
  /\ holding = [d \in Devs |-> 0]
  /\ link \in BOOLEAN
  /\ rejected = {}
  /\ last = [d \in Devs |-> {0}]
-----------------------------------------------------------------------------
\* on_write()'s validation: the address is a mapped device address and not RO.
Writable(addr) == \E r \in Rows : Table[r].dev = addr /\ Table[r].access # "RO"

\* Mutant: the check of the mapping table is left out.
HandleUnchecked(h, number) ==
  LET cmd == [dev |-> Register[h], val |-> ToRegister(number)]
  IN  /\ fifo' = IF Len(fifo) < Capacity THEN Append(fifo, cmd) ELSE fifo
      /\ UNCHANGED <<pollVars, pool, pubVars, holding, link, rejected, last>>

\* Mutant: the command is put before the ones that wait.
HandleJumpsQueue(h, number) ==
  LET cmd == [dev |-> Register[h], val |-> ToRegister(number)]
      push == Writable(cmd.dev) /\ Len(fifo) < Capacity
  IN  /\ fifo' = IF push THEN <<cmd>> \o fifo ELSE fifo
      /\ last' = IF push THEN [last EXCEPT ![cmd.dev] = {cmd.val}] ELSE last
      /\ rejected' = IF Writable(cmd.dev) THEN rejected ELSE rejected \cup {h}
      /\ UNCHANGED <<pollVars, pool, pubVars, holding, link>>

\* A message reaches handler h: validation, then inverter_cmd_push(), which
\* refuses when the queue is full.  A refused command leaves only a log line.
Handle(h, number) ==
  LET cmd == [dev |-> Register[h], val |-> ToRegister(number)]
      push == Writable(cmd.dev) /\ Len(fifo) < Capacity
  IN  /\ fifo' = IF push THEN Append(fifo, cmd) ELSE fifo
      /\ last' = IF push THEN [last EXCEPT ![cmd.dev] = {cmd.val}] ELSE last
      /\ rejected' = IF Writable(cmd.dev) THEN rejected ELSE rejected \cup {h}
      /\ UNCHANGED <<pollVars, pool, pubVars, holding, link>>
-----------------------------------------------------------------------------
\* Port opened and probe answered.
Connect ==
  /\ pc = "off"
  /\ link
  /\ pc' = "drain"
  /\ conn' = "connected"
  /\ fails' = 0
  /\ UNCHANGED <<fifo, cur, row, buf, pool, pubVars, holding, link, rejected, last>>

Pop ==
  /\ pc = "drain"
  /\ fifo # << >>
  /\ cur' = Head(fifo)
  /\ fifo' = Tail(fifo)
  /\ pc' = "write"
  /\ UNCHANGED <<row, buf, fails, conn, pool, pubVars, holding, link, rejected, last>>

\* One register: FC06, acknowledged.
WriteOk ==
  /\ pc = "write"
  /\ link
  /\ holding' = [holding EXCEPT ![cur.dev] = cur.val]
  /\ pc' = "drain"
  /\ UNCHANGED <<fifo, cur, row, buf, fails, conn, pool, pubVars, link, rejected, last>>

\* No acknowledgement: the device has executed the write or has not, and the
\* command is not repeated.
WriteFail ==
  /\ pc = "write"
  /\ ~link
  /\ holding' \in {holding, [holding EXCEPT ![cur.dev] = cur.val]}
  /\ last' = [last EXCEPT ![cur.dev] =
                IF \E n \in 1 .. Len(fifo) : fifo[n].dev = cur.dev
                THEN @ ELSE @ \cup {holding[cur.dev]}]
  /\ pc' = "drain"
  /\ UNCHANGED <<fifo, cur, row, buf, fails, conn, pool, pubVars, link, rejected>>

DrainEmpty ==
  /\ pc = "drain"
  /\ fifo = << >>
  /\ pc' = "read"
  /\ row' = 1
  /\ UNCHANGED <<fifo, cur, buf, fails, conn, pool, pubVars, holding, link, rejected, last>>

NextRow ==
  /\ pc' = IF row < Len(Table) THEN "read" ELSE "drain"
  /\ row' = IF row < Len(Table) THEN row + 1 ELSE 1

ReadOk ==
  /\ pc = "read"
  /\ link
  /\ buf' = holding[Table[row].dev]
  /\ fails' = 0
  /\ pc' = "store"
  /\ UNCHANGED <<fifo, cur, row, conn, pool, pubVars, holding, link, rejected, last>>

\* Mutant: every value goes to the slot of the first row.
StoreMisplaced ==
  /\ pc = "store"
  /\ pool' = [pool EXCEPT ![Table[1].pool] = buf]
  /\ NextRow
  /\ UNCHANGED <<fifo, cur, buf, fails, conn, pubVars, holding, link, rejected, last>>

Store ==
  /\ pc = "store"
  /\ pool' = [pool EXCEPT ![Table[row].pool] = buf]
  /\ NextRow
  /\ UNCHANGED <<fifo, cur, buf, fails, conn, pubVars, holding, link, rejected, last>>

\* At the threshold the error callback runs and the thread leaves the bus.
ReadFail ==
  /\ pc = "read"
  /\ ~link
  /\ \/ /\ fails + 1 < Threshold
        /\ fails' = fails + 1
        /\ NextRow
        /\ UNCHANGED conn
     \/ /\ fails + 1 >= Threshold
        /\ fails' = 0
        /\ conn' = "disconnected"
        /\ pc' = "off"
        /\ UNCHANGED row
  /\ UNCHANGED <<fifo, cur, buf, pool, pubVars, holding, link, rejected, last>>
-----------------------------------------------------------------------------
\* Mutant: the state is taken once, for all publications.
PubStateOnce ==
  /\ pubPc = "state"
  /\ pubState' = IF out[pubKey][1] = "none" /\ conn = "connected" THEN "Alive" ELSE pubState
  /\ pubPc' = "value"
  /\ UNCHANGED <<fifo, pollVars, pool, pubKey, out, holding, link, rejected, last>>

\* publish_pool_register(): the state first, without a lock ...
PubState ==
  /\ pubPc = "state"
  /\ pubState' = IF conn = "connected" THEN "Alive" ELSE "Disconnect"
  /\ pubPc' = "value"
  /\ UNCHANGED <<fifo, pollVars, pool, pubKey, out, holding, link, rejected, last>>

\* ... then the value, under the read lock, and cmos_publish().
PubValue ==
  /\ pubPc = "value"
  /\ out' = [out EXCEPT ![pubKey] = <<pubState, pool[Keys[pubKey]]>>]
  /\ pubKey' = IF pubKey < Len(Keys) THEN pubKey + 1 ELSE 1
  /\ pubPc' = "state"
  /\ UNCHANGED <<fifo, pollVars, pool, pubState, holding, link, rejected, last>>
-----------------------------------------------------------------------------
LinkChanges ==
  /\ link' = ~link
  /\ UNCHANGED <<fifo, pollVars, pool, pubVars, holding, rejected, last>>

\* A measured quantity changes.
DeviceChanges ==
  /\ \E d \in ReadOnly, v \in Readings :
       /\ v # holding[d]
       /\ holding' = [holding EXCEPT ![d] = v]
  /\ UNCHANGED <<fifo, pollVars, pool, pubVars, link, rejected, last>>
-----------------------------------------------------------------------------
PollThread == Connect \/ Pop \/ WriteOk \/ WriteFail \/ DrainEmpty \/ ReadOk \/ Store \/ ReadFail
Publisher == PubState \/ PubValue

Next ==
  \/ \E h \in Handlers, number \in Inputs : Handle(h, number)
  \/ PollThread
  \/ Publisher
  \/ LinkChanges
  \/ DeviceChanges

Spec == Init /\ [][Next]_vars

\* Both threads keep running; nothing forces the HMI or the device.
FairSpec == Spec /\ WF_vars(PollThread) /\ WF_vars(Publisher)
-----------------------------------------------------------------------------
\* Every variable stays in its range; register values are 16-bit words.
TypeOK ==
  /\ \A n \in 1 .. Len(fifo) : fifo[n].dev \in Nat /\ fifo[n].val \in Word
  /\ Len(fifo) <= Capacity
  /\ pc \in {"off", "drain", "write", "read", "store"}
  /\ row \in Rows
  /\ buf \in Word
  /\ fails \in 0 .. Threshold - 1
  /\ conn \in {"connected", "disconnected"}
  /\ pool \in [Pools -> Word]
  /\ pubKey \in 1 .. Len(Keys)
  /\ holding \in [Devs -> Word]

\* Only registers that the mapping table knows and does not mark ACCESS_RO are
\* queued or written, whatever the handlers ask for.
WritableOnly ==
  /\ \A n \in 1 .. Len(fifo) : Writable(fifo[n].dev)
  /\ pc = "write" => Writable(cur.dev)

\* When no command is waiting or in hand, a writable register holds the value
\* of the last command that was accepted for it, or, when the write of that
\* command failed, possibly what it held before: commands are neither
\* overtaken nor repeated, across disconnections.
LastCommandWins ==
  fifo = << >> /\ pc # "write" =>
    \A d \in Devs \ ReadOnly : holding[d] \in last[d]

\* The HMI's commands are accepted in an endless stream, and so fast that the
\* poll thread never finds the queue empty: it drains and writes for ever and
\* reads nothing (the while of phase 1 in inverter_rtu_process_callback).
DrainForever ==
  /\ []<><<\E h \in Handlers, number \in Inputs : Handle(h, number)>>_vars
  /\ <>[](pc \in {"drain", "write"})

\* If the device answers for good and a published register keeps its value,
\* the value published for it is in the end that value, with state Alive,
\* whatever the HMI sends: only an endless drain can keep it out.
PublishedConverges ==
  \A n \in 1 .. Len(Keys), r \in Rows : Keys[n] = Table[r].pool =>
    \A v \in Readings :
      <>[](link /\ holding[Table[r].dev] = v) =>
        <>[](out[n] = <<"Alive", v>>) \/ DrainForever

\* If the device never answers again, every publication says so in the end,
\* unless the drain never ends: failed writes do not count as failures, and
\* the scan that would count them is not reached.
DeadIsPublished ==
  <>[]~link =>
    <>[](\A n \in 1 .. Len(Keys) : out[n][1] = "Disconnect") \/ DrainForever

\* Every HMI command is enqueued by its handler when there is room: the
\* handler "owns the register address for that command".
HandlersAccepted == rejected = {}
=============================================================================
