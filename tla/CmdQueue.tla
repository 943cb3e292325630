------------------------------- MODULE CmdQueue -------------------------------
(***************************************************************************)
(* The per-unit command queue of inverter_module.c: a ring buffer of       *)
(* INVERTER_CMD_QUEUE_CAPACITY entries under one mutex.  Producers are the *)
(* threads that call inverter_cmd_push(); the consumer is the unit's poll  *)
(* thread, which pops in the drain loop of inverter_rtu_process_callback().*)
(*                                                                         *)
(* Each critical section is split at the points where another thread could *)
(* interfere if the mutex did not exclude it: taking the lock, touching    *)
(* the entry, and moving the indices and releasing the lock.               *)
(***************************************************************************)
EXTENDS Naturals, Sequences

CONSTANTS
  Producers,              \* threads that may call inverter_cmd_push()
  Cmd,                    \* write commands (address, values, count, mode)
  CmdCount,               \* the number of registers of each command
  MaxWriteRegisters,      \* MODBUS_MAX_WRITE_REGISTERS
  Capacity,               \* INVERTER_CMD_QUEUE_CAPACITY
  NoCmd                   \* contents of an unused entry, of an unset variable

ASSUME CapacityAssumption == Capacity \in Nat \ {0}
ASSUME CmdAssumption == /\ CmdCount \in [Cmd -> Nat]
                        /\ MaxWriteRegisters \in Nat
                        /\ NoCmd \notin Cmd
ASSUME ThreadAssumption == Producers \cap {"free", "consumer"} = {}

VARIABLES
  entries,    \* q->entries
  head,       \* q->head
  tail,       \* q->tail
  count,      \* q->count
  owner,      \* the producer that holds q->lock, "consumer", or "free"
  ppc,        \* where each producer is in queue_push()
  request,    \* the command each producer is pushing
  ret,        \* the value each producer's last call returned
  cpc,        \* where the poll thread is in queue_pop() and the drain loop
  out         \* the poll thread's local copy *out of the popped entry

qvars == <<entries, head, tail, count>>
vars == <<entries, head, tail, count, owner, ppc, request, ret, cpc, out>>

Slots == 0 .. Capacity - 1
ValidCmd == {c \in Cmd : CmdCount[c] # 0 /\ CmdCount[c] <= MaxWriteRegisters}

\* q->head and q->tail move by one slot, modulo the capacity.
NextSlot(i) == (i + 1) % Capacity
-----------------------------------------------------------------------------
\* queue_init(): memset(q, 0, sizeof *q) and an unlocked mutex.
Init ==
  /\ entries = [i \in Slots |-> NoCmd]
  /\ head = 0
  /\ tail = 0
  /\ count = 0
  /\ owner = "free"
  /\ ppc = [p \in Producers |-> "idle"]
  /\ request = [p \in Producers |-> NoCmd]
  /\ ret = [p \in Producers |-> "none"]
  /\ cpc = "pop"
  /\ out = NoCmd

\* A producer enters queue_push() with a command.
PushCall(p, c) ==
  /\ ppc[p] = "idle"
  /\ ppc' = [ppc EXCEPT ![p] = "check"]
  /\ request' = [request EXCEPT ![p] = c]
  /\ ret' = [ret EXCEPT ![p] = "none"]
  /\ UNCHANGED <<qvars, owner, cpc, out>>

PushReturn(p, r) ==
  /\ ppc' = [ppc EXCEPT ![p] = "idle"]
  /\ request' = [request EXCEPT ![p] = NoCmd]
  /\ ret' = [ret EXCEPT ![p] = r]

\* count == 0 || count > MODBUS_MAX_WRITE_REGISTERS: refused before the lock.
PushBadCount(p) ==
  /\ ppc[p] = "check"
  /\ request[p] \notin ValidCmd
  /\ PushReturn(p, "refused")
  /\ UNCHANGED <<qvars, owner, cpc, out>>

\* Mutant: pthread_mutex_lock() left out.
PushLockUnprotected(p) ==
  /\ ppc[p] = "check"
  /\ request[p] \in ValidCmd
  /\ owner' = p
  /\ ppc' = [ppc EXCEPT ![p] = "locked"]
  /\ UNCHANGED <<qvars, request, ret, cpc, out>>

PushLock(p) ==
  /\ ppc[p] = "check"
  /\ request[p] \in ValidCmd
  /\ owner = "free"
  /\ owner' = p
  /\ ppc' = [ppc EXCEPT ![p] = "locked"]
  /\ UNCHANGED <<qvars, request, ret, cpc, out>>

PushFull(p) ==
  /\ ppc[p] = "locked"
  /\ count >= Capacity
  /\ owner' = "free"
  /\ PushReturn(p, "refused")
  /\ UNCHANGED <<qvars, cpc, out>>

\* The fields of entries[tail] and the memcpy of the values.
PushStore(p) ==
  /\ ppc[p] = "locked"
  /\ count < Capacity
  /\ entries' = [entries EXCEPT ![tail] = request[p]]
  /\ ppc' = [ppc EXCEPT ![p] = "stored"]
  /\ UNCHANGED <<head, tail, count, owner, request, ret, cpc, out>>

PushAdvance(p) ==
  /\ ppc[p] = "stored"
  /\ tail' = NextSlot(tail)
  /\ count' = count + 1
  /\ owner' = "free"
  /\ PushReturn(p, "ok")
  /\ UNCHANGED <<entries, head, cpc, out>>
-----------------------------------------------------------------------------
\* The poll thread enters queue_pop() from the condition of the drain loop.
PopLock ==
  /\ cpc = "pop"
  /\ owner = "free"
  /\ owner' = "consumer"
  /\ cpc' = "locked"
  /\ UNCHANGED <<qvars, ppc, request, ret, out>>

\* An empty queue ends the drain; the thread comes back after its read scan.
PopEmpty ==
  /\ cpc = "locked"
  /\ count = 0
  /\ owner' = "free"
  /\ cpc' = "pop"
  /\ UNCHANGED <<qvars, ppc, request, ret, out>>

PopCopy ==
  /\ cpc = "locked"
  /\ count # 0
  /\ out' = entries[head]
  /\ cpc' = "copied"
  /\ UNCHANGED <<qvars, owner, ppc, request, ret>>

\* Mutant: the head is not moved.
PopAdvanceHeadStays ==
  /\ cpc = "copied"
  /\ count' = count - 1
  /\ owner' = "free"
  /\ cpc' = "execute"
  /\ UNCHANGED <<entries, head, tail, ppc, request, ret, out>>

PopAdvance ==
  /\ cpc = "copied"
  /\ head' = NextSlot(head)
  /\ count' = count - 1
  /\ owner' = "free"
  /\ cpc' = "execute"
  /\ UNCHANGED <<entries, tail, ppc, request, ret, out>>

\* write_registers_to_device(): whatever its result, the loop pops again.
Execute ==
  /\ cpc = "execute"
  /\ cpc' = "pop"
  /\ UNCHANGED <<qvars, owner, ppc, request, ret, out>>
-----------------------------------------------------------------------------
Producer(p) ==
  \/ \E c \in Cmd : PushCall(p, c)
  \/ PushBadCount(p)
  \/ PushLock(p)
  \/ PushFull(p)
  \/ PushStore(p)
  \/ PushAdvance(p)

Consumer == PopLock \/ PopEmpty \/ PopCopy \/ PopAdvance \/ Execute

Next == (\E p \in Producers : Producer(p)) \/ Consumer

Spec == Init /\ [][Next]_vars
-----------------------------------------------------------------------------
\* Every variable of the queue and of its users stays in its range; in
\* particular head and tail never leave the entries array and count never
\* exceeds its capacity (inverter_module.c, queue_push and queue_pop).
TypeOK ==
  /\ entries \in [Slots -> Cmd \cup {NoCmd}]
  /\ head \in Slots
  /\ tail \in Slots
  /\ count \in 0 .. Capacity
  /\ owner \in Producers \cup {"free", "consumer"}
  /\ ppc \in [Producers -> {"idle", "check", "locked", "stored"}]
  /\ request \in [Producers -> Cmd \cup {NoCmd}]
  /\ ret \in [Producers -> {"none", "ok", "refused"}]
  /\ cpc \in {"pop", "locked", "copied", "execute"}
  /\ out \in Cmd \cup {NoCmd}

\* The slot that holds the k-th oldest command, counting from 0.
LiveSlot(k) == (head + k) % Capacity

\* head, tail and count always describe the same window of the ring, even
\* between the steps of a critical section, and every entry of that window
\* is a command a producer stored: queue_pop never hands the poll thread an
\* entry that was not written, whatever the number of wrap-arounds.
RingConsistent ==
  /\ tail = LiveSlot(count)
  /\ \A k \in 0 .. count - 1 : entries[LiveSlot(k)] \in ValidCmd

\* The ring buffer implements the bounded FIFO queue its users rely on.  The
\* queue changes in the step that moves an index; the poll thread has been
\* handed a command from its return from queue_pop to the end of the write.
Fifo ==
  INSTANCE BoundedFifo WITH
    fifo <- [k \in 1 .. count |-> entries[LiveSlot(k - 1)]],
    handed <- IF cpc = "execute" THEN out ELSE NoCmd

\* Commands are handed to the poll thread exactly once and in the order in
\* which inverter_cmd_push accepted them; a push is refused only for a bad
\* register count or a full queue.
ImplementsFifo == Fifo!Spec
=============================================================================
