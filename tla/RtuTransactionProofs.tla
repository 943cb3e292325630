------------------------- MODULE RtuTransactionProofs -------------------------
(***************************************************************************)
(* What a transaction of the RTU client may rely on, for every set of      *)
(* requests, every timeout and every behaviour of the slave and the line.  *)
(***************************************************************************)
EXTENDS RtuTransaction, SequenceTheorems, TLAPS

\* The frames a slave may send, and runs of bytes of some of them.
Frames == [kind : Answers \ {"silent"}, req : Requests, txn : 0 .. 1]
BytesOf(F) == F \X Nat

\* The frame with which the slave answers the current request.
Mine == Frame(answer, req, txn)
AnswerLen == IF answer = "silent" THEN 0 ELSE FrameLen(Mine)

(***************************************************************************)
(* The inductive invariant has four parts.                                 *)
(***************************************************************************)

Types ==
  /\ TypeOK
  /\ got \in Seq(BytesOf(Frames))
  /\ rx \in Seq(BytesOf(Frames))
  /\ wire \in Seq(BytesOf(Frames))
  /\ elapsed \in Nat
  /\ quiet \in BOOLEAN
  /\ pc # "idle" => req \in Requests

\* Each byte that was collected has paid for at most one timeout.
TimeInv ==
  /\ pc = "reading" => /\ elapsed <= TimeoutTicks * Len(got) + timer
                       /\ Len(got) = RespLen(req) => timer = 0
  /\ pc = "done" => elapsed <= TimeoutTicks * RespLen(req)

\* Where the bytes come from when none was under way: the slave's answer to
\* this request, of which there are no more than it sent.
OriginInv ==
  /\ pc # "idle" /\ quiet => got \in Seq(BytesOf({Mine}))
  /\ pc = "reading" /\ quiet =>
       /\ rx \in Seq(BytesOf({Mine}))
       /\ wire \in Seq(BytesOf({Mine}))
       /\ Len(got) + Len(rx) + Len(wire) <= AnswerLen

\* What a result says of the bytes it was given on.
VerdictInv ==
  pc = "done" =>
    /\ \/ result \in {"transport", "timeout"}
       \/ Len(got) = RespLen(req) /\ result = Verdict(got, req)
    /\ answer = "exception" /\ quiet => result \in {"timeout", "transport"}

IInv == Types /\ TimeInv /\ OriginInv /\ VerdictInv
-----------------------------------------------------------------------------
\* A response has at least seven bytes, an exception response five.
LEMMA ResponseLength ==
  ASSUME NEW r \in Requests
  PROVE  RespLen(r) \in Nat /\ RespLen(r) >= 7
BY RtuAssumption DEF RespLen

\* The two parts of a sequence that is cut.
LEMMA CutProperties ==
  ASSUME NEW S, NEW q \in Seq(S), NEW n \in 0 .. Len(q)
  PROVE  /\ SubSeq(q, 1, n) \in Seq(S) /\ Len(SubSeq(q, 1, n)) = n
         /\ SubSeq(q, n + 1, Len(q)) \in Seq(S)
         /\ Len(SubSeq(q, n + 1, Len(q))) = Len(q) - n
<1>1. Len(q) \in Nat /\ n \in Int /\ n <= Len(q) /\ 0 <= n  BY LenProperties
<1>2. \A j \in 1 .. Len(q) : q[j] \in S  BY ElementOfSeq
<1>3. \A j \in 1 .. n : q[j] \in S  BY <1>1, <1>2
<1>4. \A j \in n + 1 .. Len(q) : q[j] \in S  BY <1>1, <1>2
<1>5. SubSeq(q, 1, n) \in Seq(S) /\ Len(SubSeq(q, 1, n)) = IF 1 <= n THEN n - 1 + 1 ELSE 0
  BY <1>1, <1>3, SubSeqProperties
<1>6. /\ SubSeq(q, n + 1, Len(q)) \in Seq(S)
      /\ Len(SubSeq(q, n + 1, Len(q))) = IF n + 1 <= Len(q) THEN Len(q) - (n + 1) + 1 ELSE 0
  BY <1>1, <1>4, SubSeqProperties
<1>. QED  BY <1>1, <1>5, <1>6

\* What the slave sends: the bytes of one frame.
LEMMA AnswerBytes ==
  ASSUME NEW a \in Answers, NEW r \in Requests, NEW n \in 0 .. 1
  PROVE  LET f == Frame(a, r, n)
         IN  /\ Bytes(f) \in Seq(BytesOf({f}))
             /\ Bytes(f) \in Seq(BytesOf(Frames))
             /\ Len(Bytes(f)) = IF a = "silent" THEN 0 ELSE FrameLen(f)
<1>. DEFINE f == Frame(a, r, n)
<1>1. f.kind = a /\ f.req = r  BY DEF Frame
<1>2. CASE a = "silent"
  <2>1. Bytes(f) = << >>  BY <1>1, <1>2 DEF Bytes
  <2>. QED  BY <1>2, <2>1, EmptySeq
<1>3. CASE a # "silent"
  <2>1. f \in Frames  BY <1>3 DEF Frames, Frame
  <2>2. FrameLen(f) \in Nat  BY <1>1, ResponseLength DEF FrameLen
  <2>3. Bytes(f) = [j \in 1 .. FrameLen(f) |-> <<f, j>>]  BY <1>1, <1>3 DEF Bytes
  <2>4. \A j \in 1 .. FrameLen(f) : <<f, j>> \in BytesOf({f}) /\ <<f, j>> \in BytesOf(Frames)
    BY <2>1 DEF BytesOf
  <2>. HIDE DEF f
  <2>5. Bytes(f) \in Seq(BytesOf({f})) /\ Bytes(f) \in Seq(BytesOf(Frames))
    <3>1. /\ Bytes(f) \in [1 .. FrameLen(f) -> BytesOf({f})]
          /\ Bytes(f) \in [1 .. FrameLen(f) -> BytesOf(Frames)]
      BY <2>3, <2>4
    <3>. QED  BY <2>2, <3>1, SeqDef
  <2>6. Len(Bytes(f)) = FrameLen(f)  BY <2>2, <2>3
  <2>. QED  BY <1>3, <2>5, <2>6 DEF f
<1>. QED  BY <1>2, <1>3

\* n + 1 pieces may take one timeout more than n pieces.
LEMMA OneMoreTimeout ==
  ASSUME NEW m \in Nat, NEW n \in Nat, m < n
  PROVE  TimeoutTicks * m + TimeoutTicks <= TimeoutTicks * n
<1>1. PICK d \in Nat : n = m + 1 + d
  <2>1. n - m - 1 \in Nat /\ n = m + 1 + (n - m - 1)  OBVIOUS
  <2>. QED  BY <2>1
<1>2. TimeoutTicks * (m + 1 + d) = TimeoutTicks * m + TimeoutTicks + TimeoutTicks * d
  BY RtuAssumption
<1>3. TimeoutTicks * d \in Nat  BY RtuAssumption
<1>4. TimeoutTicks * m \in Nat /\ TimeoutTicks \in Nat  BY RtuAssumption
<1>. QED  BY <1>1, <1>2, <1>3, <1>4
-----------------------------------------------------------------------------
LEMMA InitIInv == Init => IInv
<1>. SUFFICES ASSUME Init PROVE IInv  OBVIOUS
<1>. USE DEF Init
<1>1. Types  BY RtuAssumption, EmptySeq DEF Types, TypeOK, Answers
<1>2. TimeInv /\ OriginInv /\ VerdictInv  BY DEF TimeInv, OriginInv, VerdictInv
<1>. QED  BY <1>1, <1>2 DEF IInv

\* A new transaction begins.
LEMMA SendStep ==
  ASSUME IInv, NEW r \in Requests, Send(r)
  PROVE  IInv'
<1>. USE DEF IInv, Send
<1>1. PICK a \in Answers : /\ answer' = a
                          /\ quiet' = (wire = << >>)
                          /\ wire' = wire \o Bytes(Frame(a, r, txn'))
  BY DEF SlaveTakes
<1>2. txn' \in 0 .. 1  BY DEF Types, TypeOK
<1>. DEFINE f == Frame(a, r, txn')
<1>3. /\ Bytes(f) \in Seq(BytesOf({f}))
      /\ Bytes(f) \in Seq(BytesOf(Frames))
      /\ Len(Bytes(f)) = IF a = "silent" THEN 0 ELSE FrameLen(f)
  BY <1>2, AnswerBytes
<1>4. Mine' = f /\ AnswerLen' = Len(Bytes(f))
  BY <1>1, <1>3 DEF Mine, AnswerLen
<1>. HIDE DEF f
<1>5. wire' = wire \o Bytes(f)  BY <1>1 DEF f
<1>6. << >> \in Seq(BytesOf(Frames)) /\ << >> \in Seq(BytesOf({f})) /\ Len(<< >>) = 0
  BY EmptySeq
<1>7. wire' \in Seq(BytesOf(Frames))  BY <1>3, <1>5, ConcatProperties DEF Types
<1>8. quiet' => wire' = Bytes(f)  BY <1>1, <1>3, <1>5, ConcatEmptySeq
<1>9. RespLen(r) \in Nat /\ RespLen(r) >= 7  BY ResponseLength
<1>10. Types'
  BY <1>1, <1>2, <1>6, <1>7, <1>9, RtuAssumption DEF Types, TypeOK
<1>11. TimeInv'  BY <1>6, RtuAssumption DEF TimeInv
<1>12. OriginInv'
  <2>1. Len(Bytes(f)) \in Nat  BY <1>3, LenProperties
  <2>. QED  BY <1>3, <1>4, <1>6, <1>8, <2>1 DEF OriginInv
<1>13. VerdictInv'  BY DEF VerdictInv
<1>. QED  BY <1>10, <1>11, <1>12, <1>13

LEMMA SendFailsStep ==
  ASSUME IInv, NEW r \in Requests, SendFails(r)
  PROVE  IInv'
<1>. USE DEF IInv, SendFails
<1>1. RespLen(r) \in Nat /\ RespLen(r) >= 7  BY ResponseLength
<1>2. Types'  BY EmptySeq, RtuAssumption DEF Types, TypeOK
<1>3. TimeInv'
  <2>1. TimeoutTicks * RespLen(r) \in Nat  BY <1>1, RtuAssumption
  <2>. QED  BY <2>1 DEF TimeInv
<1>4. OriginInv'  BY EmptySeq DEF OriginInv
<1>5. VerdictInv'  BY DEF VerdictInv, Types
<1>. QED  BY <1>2, <1>3, <1>4, <1>5

\* Bytes move from the port to the response buffer.
LEMMA ReadStep ==
  ASSUME IInv, Read
  PROVE  IInv'
<1>. DEFINE missing == RespLen(req) - Len(got)
            n == IF Len(rx) < missing THEN Len(rx) ELSE missing
<1>1. /\ req \in Requests /\ RespLen(req) \in Nat
      /\ Len(got) \in Nat /\ Len(rx) \in Nat \ {0}
      /\ Len(got) < RespLen(req)
  <2>1. pc = "reading" /\ rx # << >> /\ Len(got) < RespLen(req)  BY DEF Read
  <2>. QED  BY <2>1, ResponseLength, LenProperties, EmptySeq DEF IInv, Types
<1>2. n \in 0 .. Len(rx) /\ n >= 1 /\ Len(got) + n <= RespLen(req)  BY <1>1
<1>3. /\ pc = "reading" /\ timer' = 0
      /\ UNCHANGED <<pc, req, txn, result, elapsed, wire, answer, quiet>>
      /\ got' = got \o SubSeq(rx, 1, n)
      /\ rx' = SubSeq(rx, n + 1, Len(rx))
  BY DEF Read
<1>. HIDE DEF n
<1>4. ASSUME NEW S, got \in Seq(S), rx \in Seq(S)
      PROVE  /\ got' \in Seq(S) /\ rx' \in Seq(S)
             /\ Len(got') = Len(got) + n /\ Len(rx') = Len(rx) - n
  <2>1. /\ SubSeq(rx, 1, n) \in Seq(S) /\ Len(SubSeq(rx, 1, n)) = n
        /\ rx' \in Seq(S) /\ Len(rx') = Len(rx) - n
    BY <1>2, <1>3, <1>4, CutProperties
  <2>2. got \o SubSeq(rx, 1, n) \in Seq(S) /\ Len(got \o SubSeq(rx, 1, n)) = Len(got) + n
    BY <1>4, <2>1, ConcatProperties
  <2>. QED  BY <1>3, <2>1, <2>2
<1>5. Len(got') = Len(got) + n /\ Len(rx') = Len(rx) - n  BY <1>4 DEF IInv, Types
<1>6. Types'
  <2>1. got' \in Seq(BytesOf(Frames)) /\ rx' \in Seq(BytesOf(Frames))  BY <1>4 DEF IInv, Types
  <2>2. TypeOK'  BY <1>1, <1>2, <1>3, <1>5, RtuAssumption DEF IInv, Types, TypeOK
  <2>. QED  BY <1>3, <2>1, <2>2 DEF IInv, Types
<1>7. TimeInv'
  <2>1. Len(got') \in Nat /\ Len(got) < Len(got')  BY <1>1, <1>2, <1>5
  <2>2. TimeoutTicks * Len(got) + TimeoutTicks <= TimeoutTicks * Len(got')
    BY <1>1, <2>1, OneMoreTimeout
  <2>3. /\ elapsed <= TimeoutTicks * Len(got) + timer
        /\ timer <= TimeoutTicks /\ timer \in Nat /\ elapsed \in Nat
    BY <1>3, RtuAssumption DEF IInv, TimeInv, Types, TypeOK
  <2>4. TimeoutTicks * Len(got) \in Nat /\ TimeoutTicks * Len(got') \in Nat
    BY <1>1, <2>1, RtuAssumption
  <2>5. elapsed <= TimeoutTicks * Len(got')  BY <2>2, <2>3, <2>4, RtuAssumption
  <2>6. elapsed' = elapsed /\ timer' = 0  BY <1>3
  <2>7. elapsed' <= TimeoutTicks * Len(got') + timer'  BY <2>4, <2>5, <2>6
  <2>. QED  BY <1>3, <2>7 DEF TimeInv
<1>8. OriginInv'
  <2>1. Mine' = Mine /\ AnswerLen' = AnswerLen  BY <1>3 DEF Mine, AnswerLen
  <2>2. Len(got') + Len(rx') = Len(got) + Len(rx)  BY <1>1, <1>2, <1>5
  <2>3. quiet \in BOOLEAN  BY DEF IInv, Types
  <2>4. quiet => got' \in Seq(BytesOf({Mine})) /\ rx' \in Seq(BytesOf({Mine}))
    BY <1>3, <1>4 DEF IInv, OriginInv
  <2>. QED  BY <1>3, <2>1, <2>2, <2>3, <2>4 DEF IInv, OriginInv
<1>9. VerdictInv'  BY <1>3 DEF VerdictInv
<1>. QED  BY <1>6, <1>7, <1>8, <1>9 DEF IInv

\* The transaction ends before the response is complete.
LEMMA GiveUpStep ==
  ASSUME IInv, ReadFails \/ Timeout
  PROVE  IInv'
<1>. USE DEF IInv, ReadFails, Timeout
<1>1. /\ req \in Requests /\ RespLen(req) \in Nat
      /\ Len(got) \in Nat /\ Len(got) < RespLen(req)
  BY ResponseLength, LenProperties DEF Types
<1>2. Types'  BY DEF Types, TypeOK
<1>3. TimeInv'
  <2>1. TimeoutTicks * Len(got) + TimeoutTicks <= TimeoutTicks * RespLen(req)
    BY <1>1, OneMoreTimeout
  <2>2. elapsed <= TimeoutTicks * Len(got) + timer /\ timer <= TimeoutTicks /\ timer \in Nat
    BY RtuAssumption DEF TimeInv, Types, TypeOK
  <2>3. TimeoutTicks * Len(got) \in Nat /\ TimeoutTicks * RespLen(req) \in Nat /\ elapsed \in Nat
    BY <1>1, RtuAssumption DEF Types
  <2>4. elapsed <= TimeoutTicks * RespLen(req)  BY <2>1, <2>2, <2>3, RtuAssumption
  <2>. QED  BY <2>4 DEF TimeInv
<1>4. OriginInv'
  <2>1. Mine' = Mine  BY DEF Mine
  <2>. QED  BY <2>1 DEF OriginInv, Types
<1>5. VerdictInv'  BY DEF VerdictInv, Types
<1>. QED  BY <1>2, <1>3, <1>4, <1>5

\* The response is complete.  On a quiet line it is no exception response,
\* which would have been too short.
LEMMA JudgeStep ==
  ASSUME IInv, Judge
  PROVE  IInv'
<1>. USE DEF IInv, Judge
<1>1. /\ req \in Requests /\ RespLen(req) \in Nat /\ RespLen(req) >= 7
      /\ Len(got) = RespLen(req)
      /\ Len(rx) \in Nat /\ Len(wire) \in Nat
  BY ResponseLength, LenProperties DEF Types
<1>2. result' \in {"ok", "exception", "frame", "crc"}  BY DEF Verdict
<1>3. Types'  BY <1>2 DEF Types, TypeOK
<1>4. TimeInv'
  <2>1. TimeoutTicks * RespLen(req) \in Nat  BY <1>1, RtuAssumption
  <2>. QED  BY <1>1, <2>1 DEF TimeInv, Types
<1>5. OriginInv'  BY DEF OriginInv, Mine
<1>6. ~(answer = "exception" /\ quiet)
  <2>. SUFFICES ASSUME answer = "exception", quiet PROVE FALSE  OBVIOUS
  <2>1. AnswerLen = 5  BY DEF AnswerLen, Mine, Frame, FrameLen
  <2>2. Len(got) + Len(rx) + Len(wire) <= 5  BY <2>1 DEF OriginInv
  <2>. QED  BY <1>1, <2>2
<1>7. VerdictInv'  BY <1>1, <1>6 DEF VerdictInv
<1>. QED  BY <1>3, <1>4, <1>5, <1>7

LEMMA ReturnStep ==
  ASSUME IInv, Return
  PROVE  IInv'
BY DEF IInv, Return, Types, TypeOK, TimeInv, OriginInv, VerdictInv

LEMMA TickStep ==
  ASSUME IInv, Tick
  PROVE  IInv'
<1>. USE DEF IInv, Tick
<1>1. req \in Requests /\ Len(got) \in Nat  BY LenProperties DEF Types
<1>2. Types'  BY RtuAssumption DEF Types, TypeOK
<1>3. TimeInv'
  <2>1. TimeoutTicks * Len(got) \in Nat  BY <1>1, RtuAssumption
  <2>2. elapsed \in Nat /\ timer \in Nat  BY DEF Types, TypeOK
  <2>. QED  BY <2>1, <2>2 DEF TimeInv
<1>4. OriginInv'  BY DEF OriginInv, Mine, AnswerLen
<1>5. VerdictInv'  BY DEF VerdictInv
<1>. QED  BY <1>2, <1>3, <1>4, <1>5

\* Bytes move from the line to the port, or are lost.
LEMMA LineStep ==
  ASSUME IInv, Arrive \/ LineDrops
  PROVE  IInv'
<1>. USE DEF IInv
<1>1. /\ UNCHANGED <<clientVars, answer, quiet>>
      /\ \A S : rx \in Seq(S) /\ wire \in Seq(S) => rx' \in Seq(S) /\ wire' \in Seq(S)
      /\ Len(rx') + Len(wire') <= Len(rx) + Len(wire)
      /\ Len(rx') \in Nat /\ Len(wire') \in Nat
  <2>0. Len(rx) \in Nat /\ Len(wire) \in Nat  BY LenProperties DEF Types
  <2>1. CASE Arrive
    <3>1. PICK n \in 1 .. Len(wire) :
             /\ rx' = rx \o SubSeq(wire, 1, n)
             /\ wire' = SubSeq(wire, n + 1, Len(wire))
             /\ UNCHANGED <<clientVars, answer, quiet>>
      BY <2>1 DEF Arrive
    <3>2. n \in 0 .. Len(wire)  BY <2>0
    <3>3. ASSUME NEW S, rx \in Seq(S), wire \in Seq(S)
          PROVE  /\ rx' \in Seq(S) /\ wire' \in Seq(S)
                 /\ Len(rx') = Len(rx) + n /\ Len(wire') = Len(wire) - n
      BY <3>1, <3>2, <3>3, CutProperties, ConcatProperties
    <3>4. Len(rx') = Len(rx) + n /\ Len(wire') = Len(wire) - n  BY <3>3 DEF Types
    <3>5. \A S : rx \in Seq(S) /\ wire \in Seq(S) => rx' \in Seq(S) /\ wire' \in Seq(S)
      BY <3>3
    <3>6. /\ Len(rx') + Len(wire') <= Len(rx) + Len(wire)
          /\ Len(rx') \in Nat /\ Len(wire') \in Nat
      BY <2>0, <3>4
    <3>. QED  BY <3>1, <3>5, <3>6
  <2>2. CASE LineDrops  BY <2>0, <2>2, EmptySeq DEF LineDrops
  <2>. QED  BY <2>1, <2>2
<1>. USE <1>1 DEF clientVars
<1>2. Types'  BY DEF Types, TypeOK
<1>3. TimeInv'  BY DEF TimeInv
<1>4. OriginInv'
  <2>1. Mine' = Mine /\ AnswerLen' = AnswerLen  BY DEF Mine, AnswerLen
  <2>2. Len(got) \in Nat /\ Len(rx) \in Nat /\ Len(wire) \in Nat  BY LenProperties DEF Types
  <2>3. pc = "reading" /\ quiet => AnswerLen \in Int
    BY ResponseLength DEF AnswerLen, Mine, Frame, FrameLen, Types
  <2>. QED  BY <2>1, <2>2, <2>3 DEF OriginInv
<1>5. VerdictInv'  BY DEF VerdictInv
<1>. QED  BY <1>2, <1>3, <1>4, <1>5

LEMMA NextIInv == IInv /\ [Next]_vars => IInv'
<1>1. IInv /\ UNCHANGED vars => IInv'
  BY DEF IInv, vars, clientVars, Types, TypeOK, TimeInv, OriginInv, VerdictInv, Mine,
         AnswerLen
<1>. QED  BY <1>1, SendStep, SendFailsStep, ReadStep, GiveUpStep, JudgeStep, ReturnStep,
             TickStep, LineStep DEF Next, Client

LEMMA Invariant == Spec => []IInv
BY InitIInv, NextIInv, PTL DEF Spec
-----------------------------------------------------------------------------
\* A transaction succeeds only on a whole, undamaged, normal frame of the
\* request's function and length (the checks after read_exact()).
THEOREM SuccessIsWellFormed == Spec => []OkMeansWellFormed
<1>1. IInv => OkMeansWellFormed
  <2>. SUFFICES ASSUME IInv, pc = "done", result = "ok" PROVE OkMeansWellFormed
    BY DEF OkMeansWellFormed
  <2>1. /\ req \in Requests /\ Len(got) = RespLen(req) /\ Verdict(got, req) = "ok"
        /\ RespLen(req) \in Nat /\ RespLen(req) >= 7
    BY ResponseLength DEF IInv, Types, VerdictInv
  <2>2. got[1] \in BytesOf(Frames)
    <3>1. 1 \in 1 .. Len(got)  BY <2>1
    <3>. QED  BY <3>1, ElementOfSeq DEF IInv, Types
  <2>3. Judged \in Frames  BY <2>2 DEF BytesOf, Judged
  <2>4. /\ CrcOk(got) /\ Judged.kind # "alien" /\ Judged.kind # "exception"
        /\ Accepts(Judged, req)
    BY <2>1 DEF Verdict, Judged
  <2>5. Judged.kind # "corrupt"  BY <2>4 DEF CrcOk, Judged
  <2>6. Judged.kind = "normal"  BY <2>3, <2>4, <2>5 DEF Frames, Answers
  <2>7. Judged.req.fc = req.fc /\ (req.fc = 3 => Judged.req.qty = req.qty)
    BY <2>4 DEF Accepts, ReadAccepts, WriteSingleAccepts, WriteMultipleAccepts
  <2>. QED  BY <2>1, <2>6, <2>7 DEF OkMeansWellFormed
<1>. QED  BY <1>1, Invariant, PTL

\* If nothing was on its way when the request was written, a transaction
\* succeeds only on the slave's answer to this request: tcflush() is enough to
\* get rid of whatever earlier transactions left in the port.
THEOREM AnswersAreMine == Spec => []AnswerIsMine
<1>1. IInv /\ OkMeansWellFormed => AnswerIsMine
  <2>. SUFFICES ASSUME IInv, OkMeansWellFormed, pc = "done", result = "ok", quiet
                PROVE  Judged.txn = txn /\ answer = "normal"
    BY DEF AnswerIsMine
  <2>1. Judged.kind = "normal" /\ 1 \in 1 .. Len(got)
    BY ResponseLength DEF OkMeansWellFormed, IInv, Types
  <2>2. got \in Seq(BytesOf({Mine}))  BY DEF IInv, OriginInv
  <2>3. got[1] \in BytesOf({Mine})  BY <2>1, <2>2, ElementOfSeq
  <2>4. Judged = Mine  BY <2>3 DEF BytesOf, Judged
  <2>. QED  BY <2>1, <2>4 DEF Mine, Frame
<1>. QED  BY <1>1, Invariant, SuccessIsWellFormed, PTL

\* A transaction takes at most one timeout per byte of the response, which is
\* what read_exact() really grants, and no more.
THEOREM TransactionsAreBounded == Spec => []TransactionTime
<1>1. IInv => TransactionTime
  <2>. SUFFICES ASSUME IInv, pc = "reading" PROVE elapsed <= TimeoutTicks * RespLen(req)
    BY DEF IInv, Types, TypeOK, TimeInv, TransactionTime
  <2>1. /\ req \in Requests /\ RespLen(req) \in Nat /\ Len(got) \in Nat
        /\ Len(got) <= RespLen(req)
        /\ elapsed \in Nat /\ timer \in Nat /\ timer <= TimeoutTicks
        /\ elapsed <= TimeoutTicks * Len(got) + timer
        /\ Len(got) = RespLen(req) => timer = 0
    BY ResponseLength, LenProperties, RtuAssumption DEF IInv, Types, TypeOK, TimeInv
  <2>2. /\ TimeoutTicks * Len(got) \in Nat /\ TimeoutTicks * RespLen(req) \in Nat
        /\ TimeoutTicks \in Nat
    BY <2>1, RtuAssumption
  <2>3. CASE Len(got) = RespLen(req)  BY <2>1, <2>2, <2>3
  <2>4. CASE Len(got) < RespLen(req)
    <3>1. TimeoutTicks * Len(got) + TimeoutTicks <= TimeoutTicks * RespLen(req)
      BY <2>1, <2>4, OneMoreTimeout
    <3>. QED  BY <2>1, <2>2, <3>1
  <2>. QED  BY <2>1, <2>3, <2>4
<1>. QED  BY <1>1, Invariant, PTL

\* On a quiet line an exception response is never reported as one: it is too
\* short for the buffer that do_transaction() waits for.
THEOREM ExceptionsAreTimeouts == Spec => []ExceptionsTimeOut
<1>1. IInv => ExceptionsTimeOut  BY DEF IInv, VerdictInv, ExceptionsTimeOut
<1>. QED  BY <1>1, Invariant, PTL
=============================================================================
