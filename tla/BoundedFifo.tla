----------------------------- MODULE BoundedFifo -----------------------------
(***************************************************************************)
(* What the per-unit write-command queue promises to its two users: the    *)
(* CMOS bridge, which calls inverter_cmd_push(), and the poll thread, which *)
(* drains the queue at the start of inverter_rtu_process_callback().        *)
(*                                                                         *)
(* A call either is refused (return -1) or appends exactly one command     *)
(* (return 0); it is refused only if the command's register count is out   *)
(* of range or the queue holds Capacity commands.  The poll thread is      *)
(* handed each accepted command once, in the order of acceptance.          *)
(***************************************************************************)
EXTENDS Naturals, Sequences

CONSTANTS
  Producers,      \* threads that may call inverter_cmd_push()
  Cmd,            \* write commands
  ValidCmd,       \* those whose register count is 1..MODBUS_MAX_WRITE_REGISTERS
  Capacity,       \* INVERTER_CMD_QUEUE_CAPACITY
  NoCmd           \* "no command in the poll thread's hands"

VARIABLES
  fifo,           \* accepted commands that have not been handed over
  handed,         \* the command the poll thread is executing, or NoCmd
  request,        \* the command a producer is pushing, or NoCmd
  ret             \* what a producer's last call returned ("none" during a call)

vars == <<fifo, handed, request, ret>>

Init ==
  /\ fifo = << >>
  /\ handed = NoCmd
  /\ request = [p \in Producers |-> NoCmd]
  /\ ret = [p \in Producers |-> "none"]

Call(p, c) ==
  /\ request[p] = NoCmd
  /\ request' = [request EXCEPT ![p] = c]
  /\ ret' = [ret EXCEPT ![p] = "none"]
  /\ UNCHANGED <<fifo, handed>>

Return(p, r) ==
  /\ request[p] # NoCmd
  /\ request' = [request EXCEPT ![p] = NoCmd]
  /\ ret' = [ret EXCEPT ![p] = r]
  /\ UNCHANGED handed

Accept(p) ==
  /\ request[p] \in ValidCmd
  /\ Len(fifo) < Capacity
  /\ fifo' = Append(fifo, request[p])
  /\ Return(p, "ok")

Refuse(p) ==
  /\ request[p] \notin ValidCmd \/ Len(fifo) >= Capacity
  /\ Return(p, "refused")
  /\ UNCHANGED fifo

HandOver ==
  /\ handed = NoCmd
  /\ fifo # << >>
  /\ handed' = Head(fifo)
  /\ fifo' = Tail(fifo)
  /\ UNCHANGED <<request, ret>>

Executed ==
  /\ handed # NoCmd
  /\ handed' = NoCmd
  /\ UNCHANGED <<fifo, request, ret>>

Next ==
  \/ \E p \in Producers, c \in Cmd : Call(p, c)
  \/ \E p \in Producers : Accept(p) \/ Refuse(p)
  \/ HandOver
  \/ Executed

Spec == Init /\ [][Next]_vars
=============================================================================
