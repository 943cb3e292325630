---------------------------- MODULE RtuTransaction ----------------------------
(***************************************************************************)
(* The request/response transaction of modbus_rtu_client.c: the client     *)
(* flushes its input, writes a request, collects exactly as many bytes as  *)
(* a normal response has and judges them.  The serial line and the slave   *)
(* are the environment: the slave may stay silent, answer, raise an        *)
(* exception or garble its frame, and the bytes of a frame arrive in any   *)
(* pieces and at any time, after the client has given up included.         *)
(*                                                                         *)
(* A byte is its frame and its position in it; a CRC is what tells a whole,*)
(* undamaged frame from any other run of bytes.                            *)
(***************************************************************************)
EXTENDS Naturals, Sequences

CONSTANTS
  Requests,         \* [fc, addr, qty]: the requests the poll thread makes
  TimeoutTicks,     \* response_timeout_ms
  MaxBacklog        \* bytes the slave may have under way when it takes a request

ASSUME RtuAssumption ==
  /\ Requests \subseteq [fc : {3, 6, 16}, addr : Nat, qty : 1 .. 125]
  /\ TimeoutTicks \in Nat \ {0}
  /\ MaxBacklog \in Nat

VARIABLES
  pc,         \* "idle", "reading" (in read_exact) or "done"
  req,        \* the request of the current transaction
  txn,        \* its number, modulo 2, to tell the frames of requests apart
  got,        \* resp[]: the bytes collected so far
  result,     \* what the last transaction returned
  timer,      \* time in the current select()
  elapsed,    \* time since the request was written
  rx,         \* bytes in the input queue of the serial port
  wire,       \* bytes of responses that have not reached the port
  answer,     \* how the slave answered the current request
  quiet       \* history: no byte was under way when the request was written

clientVars == <<pc, req, txn, got, result, timer, elapsed>>
vars == <<clientVars, rx, wire, answer, quiet>>

NoReq == [fc |-> 0, addr |-> 0, qty |-> 0]

\* resp_len: 5 + 2 * qty for FC03, 8 for FC06 and FC16.
RespLen(r) == IF r.fc = 3 THEN 5 + 2 * r.qty ELSE 8

\* Slave behaviour (external): an exception response has 5 bytes.
Answers == {"silent", "normal", "exception", "corrupt", "alien"}
FrameLen(f) == IF f.kind = "exception" THEN 5 ELSE RespLen(f.req)
Frame(a, r, n) == [kind |-> a, req |-> r, txn |-> n]
Bytes(f) == IF f.kind = "silent" THEN << >>
            ELSE [i \in 1 .. FrameLen(f) |-> <<f, i>>]

\* Mutant: the CRC is not verified.
CrcUnchecked(bytes) == TRUE

\* verify_response_crc() on what was collected: a whole frame, not damaged.
CrcOk(bytes) ==
  LET f == bytes[1][1]
  IN  /\ f.kind # "corrupt"
      /\ Len(bytes) = FrameLen(f)
      /\ \A i \in 1 .. Len(bytes) : bytes[i] = <<f, i>>

\* What each request function asks of a frame: the function code, and for a
\* read the byte count.  Neither the register nor the value is compared.
ReadAccepts(f, r) == f.req.fc = 3 /\ f.req.qty = r.qty
WriteSingleAccepts(f) == f.req.fc = 6
WriteMultipleAccepts(f) == f.req.fc = 16

Accepts(f, r) ==
  \/ r.fc = 3 /\ ReadAccepts(f, r)
  \/ r.fc = 6 /\ WriteSingleAccepts(f)
  \/ r.fc = 16 /\ WriteMultipleAccepts(f)

\* The CRC, then the unit, then the exception flag, then the caller's checks.
Verdict(bytes, r) ==
  LET f == bytes[1][1]
  IN  IF ~CrcOk(bytes) THEN "crc"
      ELSE IF f.kind = "alien" THEN "frame"
      ELSE IF f.kind = "exception" THEN "exception"
      ELSE IF ~Accepts(f, r) THEN "frame"
      ELSE "ok"

\* The frame a transaction is judged on.
Judged == got[1][1]
-----------------------------------------------------------------------------
Init ==
  /\ pc = "idle"
  /\ req = NoReq
  /\ txn = 0
  /\ got = << >>
  /\ result = "none"
  /\ timer = 0
  /\ elapsed = 0
  /\ rx = << >>
  /\ wire = << >>
  /\ answer = "silent"
  /\ quiet = TRUE

\* The slave takes the request; a slave with a backlog does not hear it.
SlaveTakes(r) ==
  \E a \in Answers :
    /\ Len(wire) > MaxBacklog => a = "silent"
    /\ answer' = a
    /\ quiet' = (wire = << >>)
    /\ wire' = wire \o Bytes(Frame(a, r, txn'))

\* Mutant: tcflush() left out.
SendUnflushed(r) ==
  /\ pc = "idle"
  /\ pc' = "reading"
  /\ req' = r
  /\ txn' = (txn + 1) % 2
  /\ got' = << >>
  /\ result' = "none"
  /\ timer' = 0
  /\ elapsed' = 0
  /\ SlaveTakes(r)
  /\ UNCHANGED rx

\* tcflush(TCIFLUSH), then write() of the whole request.
Send(r) ==
  /\ pc = "idle"
  /\ pc' = "reading"
  /\ req' = r
  /\ txn' = (txn + 1) % 2
  /\ got' = << >>
  /\ result' = "none"
  /\ timer' = 0
  /\ elapsed' = 0
  /\ rx' = << >>
  /\ SlaveTakes(r)

\* write() is short or fails.
SendFails(r) ==
  /\ pc = "idle"
  /\ pc' = "done"
  /\ req' = r
  /\ got' = << >>
  /\ result' = "transport"
  /\ timer' = 0
  /\ elapsed' = 0
  /\ rx' = << >>
  /\ UNCHANGED <<txn, wire, answer, quiet>>

\* select() says the port is readable; read() takes what is there, up to
\* what is missing.
Read ==
  /\ pc = "reading"
  /\ rx # << >>
  /\ Len(got) < RespLen(req)
  /\ LET missing == RespLen(req) - Len(got)
         n == IF Len(rx) < missing THEN Len(rx) ELSE missing
     IN  /\ got' = got \o SubSeq(rx, 1, n)
         /\ rx' = SubSeq(rx, n + 1, Len(rx))
  /\ timer' = 0
  /\ UNCHANGED <<pc, req, txn, result, elapsed, wire, answer, quiet>>

\* select() or read() fails.
ReadFails ==
  /\ pc = "reading"
  /\ Len(got) < RespLen(req)
  /\ result' = "transport"
  /\ pc' = "done"
  /\ UNCHANGED <<req, txn, got, timer, elapsed, rx, wire, answer, quiet>>

\* Mutant: the wait is not ended by the timeout.
TimeoutIgnored ==
  /\ FALSE
  /\ UNCHANGED vars

\* Nothing arrived for a whole timeout; the bytes collected so far are lost.
Timeout ==
  /\ pc = "reading"
  /\ Len(got) < RespLen(req)
  /\ rx = << >>
  /\ timer = TimeoutTicks
  /\ result' = "timeout"
  /\ pc' = "done"
  /\ UNCHANGED <<req, txn, got, timer, elapsed, rx, wire, answer, quiet>>

\* A response is judged once resp_len bytes are there.
Judge ==
  /\ pc = "reading"
  /\ Len(got) = RespLen(req)
  /\ result' = Verdict(got, req)
  /\ pc' = "done"
  /\ UNCHANGED <<req, txn, got, timer, elapsed, rx, wire, answer, quiet>>

\* The caller takes the result and comes back with its next request.
Return ==
  /\ pc = "done"
  /\ pc' = "idle"
  /\ UNCHANGED <<req, txn, got, result, timer, elapsed, rx, wire, answer, quiet>>

\* Mutant: the wait lasts one tick too long.
TickOneMore ==
  /\ pc = "reading"
  /\ Len(got) < RespLen(req)
  /\ rx = << >>
  /\ timer <= TimeoutTicks
  /\ timer' = timer + 1
  /\ elapsed' = elapsed + 1
  /\ UNCHANGED <<pc, req, txn, got, result, rx, wire, answer, quiet>>

\* Time passes in a blocked select().
Tick ==
  /\ pc = "reading"
  /\ Len(got) < RespLen(req)
  /\ rx = << >>
  /\ timer < TimeoutTicks
  /\ timer' = timer + 1
  /\ elapsed' = elapsed + 1
  /\ UNCHANGED <<pc, req, txn, got, result, rx, wire, answer, quiet>>
-----------------------------------------------------------------------------
Arrive ==
  \E n \in 1 .. Len(wire) :
    /\ rx' = rx \o SubSeq(wire, 1, n)
    /\ wire' = SubSeq(wire, n + 1, Len(wire))
    /\ UNCHANGED <<clientVars, answer, quiet>>

\* What is under way is lost, the middle of a frame included.
LineDrops ==
  /\ wire # << >>
  /\ wire' = << >>
  /\ UNCHANGED <<clientVars, rx, answer, quiet>>
-----------------------------------------------------------------------------
Client == Read \/ Timeout \/ Judge \/ Return

Next ==
  \/ \E r \in Requests : Send(r) \/ SendFails(r)
  \/ Client
  \/ ReadFails
  \/ Tick
  \/ Arrive
  \/ LineDrops

Spec == Init /\ [][Next]_vars

\* A blocked select() returns when its time is up; a runnable thread runs.
\* The port need never fail.
FairSpec == Spec /\ WF_vars(Client) /\ WF_vars(Tick)
-----------------------------------------------------------------------------
\* Every variable stays in its range, the response buffer never receives more
\* than resp_len bytes (read_exact).
TypeOK ==
  /\ pc \in {"idle", "reading", "done"}
  /\ req \in Requests \cup {NoReq}
  /\ txn \in 0 .. 1
  /\ pc = "reading" => Len(got) <= RespLen(req)
  /\ result \in {"none", "ok", "exception", "transport", "timeout", "frame", "crc"}
  /\ timer \in 0 .. TimeoutTicks
  /\ answer \in Answers

\* A transaction succeeds only on a whole, undamaged, normal frame of the
\* request's function and length, whatever arrives in whatever pieces.
OkMeansWellFormed ==
  pc = "done" /\ result = "ok" =>
    /\ Judged.kind = "normal"
    /\ Judged.req.fc = req.fc
    /\ req.fc = 3 => Judged.req.qty = req.qty
    /\ Len(got) = RespLen(req)

\* If nothing was on its way when the request was written, a transaction
\* succeeds only on the slave's answer to this very request: no register is
\* given the value of another one, no write is taken for acknowledged by the
\* echo of another, whatever was left in the port by earlier transactions.
AnswerIsMine ==
  pc = "done" /\ result = "ok" /\ quiet => Judged.txn = txn /\ answer = "normal"

\* The bound that read_exact really keeps: it starts a new timeout for every
\* piece that arrives, although its comment calls the timeout "overall".
TransactionTime == pc # "idle" => elapsed <= TimeoutTicks * RespLen(req)

\* Every transaction ends.
TransactionEnds == pc = "reading" ~> pc = "done"

\* A request function returns "a positive Modbus exception code" when the
\* slave refused the request: if the whole exception frame, undamaged and
\* alone, is in resp[] and the port did not fail, the exception is what the
\* transaction returns (do_transaction).
ExceptionReported ==
  pc = "done" /\ got = Bytes(Frame("exception", req, txn)) =>
    result \in {"exception", "transport"}

\* What the code does instead: an exception frame is shorter than any response
\* that is waited for, so that on a quiet line every refusal costs the whole
\* timeout and is then reported as silence.
ExceptionsTimeOut ==
  pc = "done" /\ answer = "exception" /\ quiet => result \in {"timeout", "transport"}

\* "Verify FC06 echo": a single write succeeds only on the echo of its own
\* register (mb_rtu_client_write_single_register).
EchoVerified ==
  pc = "done" /\ result = "ok" /\ req.fc = 6 => Judged.req.addr = req.addr
=============================================================================
