---------------------------- MODULE HmiBridgeProofs ----------------------------
(***************************************************************************)
(* What becomes of the operator's commands, for every mapping table, set   *)
(* of handlers, queue capacity and threshold, whatever the HMI sends and   *)
(* however often the device stops answering.                               *)
(***************************************************************************)
EXTENDS HmiBridge, SequenceTheorems, TLAPS

Cmd == [dev : Word, val : Word]

(***************************************************************************)
(* The inductive invariant has three parts.                                *)
(***************************************************************************)

Types ==
  /\ fifo \in Seq(Cmd) /\ Len(fifo) <= Capacity
  /\ pc \in {"off", "drain", "write", "read", "store"}
  /\ cur \in Cmd
  /\ row \in Rows
  /\ buf \in Word
  /\ fails \in 0 .. Threshold - 1
  /\ conn \in {"connected", "disconnected"}
  /\ pool \in [Pools -> Word]
  /\ pubKey \in 1 .. Len(Keys)
  /\ holding \in [Devs -> Word]
  /\ last \in [Devs -> SUBSET Word]

\* A command for register d is waiting.
Waiting(d) == \E n \in 1 .. Len(fifo) : fifo[n].dev = d

\* The last of the commands for a register is one of the values it must end
\* with, wherever that command is: in the queue, in hand, or done.
CommandInv ==
  /\ \A n \in 1 .. Len(fifo) :
       (\A m \in 1 .. Len(fifo) : m > n => fifo[m].dev # fifo[n].dev)
         => fifo[n].val \in last[fifo[n].dev]
  /\ pc = "write" /\ ~Waiting(cur.dev) => cur.val \in last[cur.dev]
  /\ \A d \in Devs \ ReadOnly :
       ~Waiting(d) /\ ~(pc = "write" /\ cur.dev = d) => holding[d] \in last[d]

IInv == Types /\ WritableOnly /\ CommandInv
-----------------------------------------------------------------------------
LEMMA SizeOfWord == WordSize \in Nat \ {0}
BY DEF WordSize

\* Handlers truncate to 16 bits.
LEMMA RegisterIsWord ==
  ASSUME NEW number \in Nat
  PROVE  ToRegister(number) \in Word
BY SizeOfWord DEF ToRegister, Word

\* What is used of the assumptions on the constants.
LEMMA Constants ==
  /\ Len(Table) \in Nat \ {0} /\ Len(Keys) \in Nat \ {0}
  /\ Inputs \subseteq Nat
  /\ Register \in [Handlers -> Word] /\ Readings \subseteq Word /\ 0 \in Word
  /\ Capacity \in Nat \ {0} /\ Threshold \in Nat \ {0}
<1>1. 0 \in Word
  BY SizeOfWord DEF Word
<1>2. QED
  BY <1>1, BridgeAssumption

LEMMA WritableIsDev ==
  ASSUME NEW a, Writable(a)
  PROVE  a \in Devs
BY DEF Writable, Devs

LEMMA InitIInv == Init => IInv
<1> SUFFICES ASSUME Init PROVE IInv
  OBVIOUS
<1> USE Constants DEF Init
<1>1. Types
  BY DEF Types, Cmd, NoCmd, Rows
<1>2. WritableOnly
  BY DEF WritableOnly
<1>3. CommandInv
  BY DEF CommandInv
<1>4. QED
  BY <1>1, <1>2, <1>3 DEF IInv

LEMMA TypesStep == IInv /\ [Next]_vars => Types'
<1> SUFFICES ASSUME IInv, [Next]_vars PROVE Types'
  OBVIOUS
<1> USE Constants DEF IInv, Types, pollVars, pubVars
<1>1. ASSUME NEW h \in Handlers, NEW number \in Inputs, Handle(h, number)
      PROVE  Types'
  <2> DEFINE cmd == [dev |-> Register[h], val |-> ToRegister(number)]
  <2>1. cmd \in Cmd
    BY RegisterIsWord DEF Cmd
  <2>2. Writable(cmd.dev) => cmd.dev \in Devs
    BY WritableIsDev
  <2>3. /\ fifo' \in {fifo, Append(fifo, cmd)}
        /\ fifo' # fifo => Len(fifo) < Capacity /\ Writable(cmd.dev)
        /\ last' \in {last, [last EXCEPT ![cmd.dev] = {cmd.val}]}
    BY <1>1 DEF Handle
  <2>4. UNCHANGED <<pollVars, pool, pubKey, holding>>
    BY <1>1 DEF Handle
  <2>5. cmd.val \in Word
    BY <2>1 DEF Cmd
  <2> HIDE DEF cmd
  <2>6. fifo' \in Seq(Cmd) /\ Len(fifo') <= Capacity
    BY <2>1, <2>3, SMTT(30)
  <2>7. last' \in [Devs -> SUBSET Word]
    BY <2>3, <2>5
  <2>8. QED
    BY <2>4, <2>6, <2>7
<1>2. CASE Connect
  BY <1>2 DEF Connect
<1>3. CASE Pop
  BY <1>3 DEF Pop
<1>4. CASE WriteOk
  BY <1>4 DEF WriteOk, Cmd
<1>5. CASE WriteFail
  <2>1. cur.val \in Word /\ cur.dev \in Devs /\ holding[cur.dev] \in Word
    BY <1>5, WritableIsDev DEF WriteFail, WritableOnly, Cmd
  <2>2. holding' \in [Devs -> Word]
    BY <1>5, <2>1 DEF WriteFail
  <2>3. last' \in [Devs -> SUBSET Word]
    BY <1>5, <2>1 DEF WriteFail
  <2>4. QED
    BY <1>5, <2>2, <2>3 DEF WriteFail
<1>6. CASE DrainEmpty
  BY <1>6 DEF DrainEmpty, Rows
<1>7. CASE ReadOk
  BY <1>7 DEF ReadOk, Devs
<1>8. CASE Store
  <2>1. pool' \in [Pools -> Word]
    BY <1>8 DEF Store
  <2>2. row' \in Rows /\ pc' \in {"read", "drain"}
    BY <1>8 DEF Store, NextRow, Rows
  <2>3. QED
    BY <1>8, <2>1, <2>2 DEF Store
<1>9. CASE ReadFail
  BY <1>9 DEF ReadFail, NextRow, Rows
<1>10. CASE PubState
  BY <1>10 DEF PubState
<1>11. CASE PubValue
  BY <1>11 DEF PubValue
<1>12. CASE LinkChanges
  BY <1>12 DEF LinkChanges
<1>13. CASE DeviceChanges
  BY <1>13 DEF DeviceChanges
<1>14. CASE UNCHANGED vars
  BY <1>14 DEF vars
<1>15. QED
  BY <1>1, <1>2, <1>3, <1>4, <1>5, <1>6, <1>7, <1>8, <1>9, <1>10, <1>11, <1>12,
     <1>13, <1>14 DEF Next, PollThread, Publisher

\* Only on_write() adds to the queue, and it checks the mapping table first.
LEMMA WritableStep == IInv /\ [Next]_vars => WritableOnly'
<1> SUFFICES ASSUME IInv, [Next]_vars PROVE WritableOnly'
  OBVIOUS
<1> USE Constants DEF IInv, Types, WritableOnly, pollVars
<1>1. ASSUME NEW h \in Handlers, NEW number \in Inputs, Handle(h, number)
      PROVE  WritableOnly'
  <2> DEFINE cmd == [dev |-> Register[h], val |-> ToRegister(number)]
  <2>1. cmd \in Cmd
    BY RegisterIsWord DEF Cmd
  <2>2. /\ fifo' = fifo \/ (fifo' = Append(fifo, cmd) /\ Writable(cmd.dev))
        /\ pc' = pc /\ cur' = cur
    BY <1>1 DEF Handle
  <2> HIDE DEF cmd
  <2>3. CASE fifo' = fifo
    BY <2>2, <2>3
  <2>4. CASE fifo' = Append(fifo, cmd) /\ Writable(cmd.dev)
    <3>1. /\ Len(fifo') = Len(fifo) + 1 /\ fifo'[Len(fifo) + 1] = cmd
          /\ \A n \in 1 .. Len(fifo) : fifo'[n] = fifo[n]
      BY <2>1, <2>4
    <3>2. \A n \in 1 .. Len(fifo') : Writable(fifo'[n].dev)
      BY <2>4, <3>1
    <3>3. QED
      BY <2>2, <3>2
  <2>5. QED
    BY <2>2, <2>3, <2>4
<1>2. CASE Pop
  <2>1. /\ Len(fifo) > 0 /\ cur' = fifo[1] /\ fifo' = Tail(fifo) /\ pc' = "write"
    BY <1>2 DEF Pop
  <2>2. Len(fifo') = Len(fifo) - 1 /\ \A n \in 1 .. Len(fifo) - 1 : fifo'[n] = fifo[n + 1]
    BY <2>1
  <2>3. \A n \in 1 .. Len(fifo') : n + 1 \in 1 .. Len(fifo) /\ fifo'[n] = fifo[n + 1]
    BY <2>2
  <2>4. \A n \in 1 .. Len(fifo) : Writable(fifo[n].dev)
    BY DEF WritableOnly
  <2>5. \A n \in 1 .. Len(fifo') : Writable(fifo'[n].dev)
    BY <2>3, <2>4
  <2>6. QED
    BY <2>1, <2>4, <2>5
<1>3. CASE \/ Connect \/ WriteOk \/ WriteFail \/ DrainEmpty \/ ReadOk \/ Store \/ ReadFail
           \/ PubState \/ PubValue \/ LinkChanges \/ DeviceChanges \/ UNCHANGED vars
  <2>1. fifo' = fifo /\ cur' = cur /\ (pc' = "write" => pc = "write")
    BY <1>3 DEF Connect, WriteOk, WriteFail, DrainEmpty, ReadOk, Store, ReadFail, NextRow,
                PubState, PubValue, LinkChanges, DeviceChanges, vars
  <2>2. QED
    BY <2>1
<1>4. QED
  BY <1>1, <1>2, <1>3 DEF Next, PollThread, Publisher

\* Nothing happens to the commands or to a writable register.
LEMMA CommandsKept ==
  ASSUME CommandInv, fifo' = fifo, cur' = cur, last' = last,
         pc = "write" <=> pc' = "write",
         \A d \in Devs \ ReadOnly : holding'[d] = holding[d]
  PROVE  CommandInv'
BY DEF CommandInv, Waiting

\* No step loses track of the last command of a register.
LEMMA CommandStep == IInv /\ [Next]_vars => CommandInv'
<1> SUFFICES ASSUME IInv, [Next]_vars PROVE CommandInv'
  OBVIOUS
<1> USE Constants DEF IInv, Types, pollVars
<1>1. ASSUME NEW h \in Handlers, NEW number \in Inputs, Handle(h, number)
      PROVE  CommandInv'
  <2> DEFINE cmd == [dev |-> Register[h], val |-> ToRegister(number)]
  <2>1. cmd \in Cmd
    BY RegisterIsWord DEF Cmd
  <2>2. /\ \/ fifo' = fifo /\ last' = last
           \/ /\ fifo' = Append(fifo, cmd) /\ Writable(cmd.dev)
              /\ last' = [last EXCEPT ![cmd.dev] = {cmd.val}]
        /\ pc' = pc /\ cur' = cur /\ holding' = holding
    BY <1>1 DEF Handle
  <2> HIDE DEF cmd
  <2>3. CASE fifo' = fifo /\ last' = last
    BY <2>2, <2>3, CommandsKept
  <2>4. CASE /\ fifo' = Append(fifo, cmd) /\ Writable(cmd.dev)
             /\ last' = [last EXCEPT ![cmd.dev] = {cmd.val}]
    <3>1. /\ Len(fifo') = Len(fifo) + 1 /\ fifo'[Len(fifo) + 1] = cmd
          /\ \A n \in 1 .. Len(fifo) : fifo'[n] = fifo[n]
          /\ Len(fifo) \in Nat
      BY <2>1, <2>4
    <3>2. /\ last'[cmd.dev] = {cmd.val}
          /\ \A d : d # cmd.dev => last'[d] = last[d]
      BY <2>4, WritableIsDev
    <3>3. \A d : Waiting(d)' <=> Waiting(d) \/ d = cmd.dev
      BY <3>1 DEF Waiting
    <3>4. ASSUME NEW n \in 1 .. Len(fifo'),
                 \A m \in 1 .. Len(fifo') : m > n => fifo'[m].dev # fifo'[n].dev
          PROVE  fifo'[n].val \in last'[fifo'[n].dev]
      <4>1. CASE n = Len(fifo) + 1
        BY <3>1, <3>2, <4>1
      <4>2. CASE n \in 1 .. Len(fifo)
        <5>1. fifo[n].dev # cmd.dev
          BY <3>1, <3>4, <4>2
        <5>2. \A m \in 1 .. Len(fifo) : m > n => fifo[m].dev # fifo[n].dev
          BY <3>1, <3>4, <4>2
        <5>3. QED
          BY <3>1, <3>2, <4>2, <5>1, <5>2, SMTT(30) DEF CommandInv
      <4>3. QED
        BY <3>1, <4>1, <4>2
    <3>5. pc' = "write" /\ ~Waiting(cur.dev)' => cur'.val \in last'[cur'.dev]
      BY <2>2, <3>2, <3>3 DEF CommandInv
    <3>6. \A d \in Devs \ ReadOnly :
            ~Waiting(d)' /\ ~(pc' = "write" /\ cur'.dev = d) => holding'[d] \in last'[d]
      BY <2>2, <3>2, <3>3 DEF CommandInv
    <3>7. QED
      BY <2>2, <3>4, <3>5, <3>6 DEF CommandInv, Waiting
  <2>5. QED
    BY <2>2, <2>3, <2>4
<1>2. CASE Pop
  <2>1. /\ Len(fifo) > 0 /\ cur' = fifo[1] /\ fifo' = Tail(fifo) /\ pc' = "write"
        /\ pc # "write" /\ last' = last /\ holding' = holding
    BY <1>2 DEF Pop
  <2>2. /\ Len(fifo') = Len(fifo) - 1 /\ Len(fifo) \in Nat
        /\ \A n \in 1 .. Len(fifo) - 1 : fifo'[n] = fifo[n + 1]
    BY <2>1
  <2>3. \A d : Waiting(d) <=> Waiting(d)' \/ d = cur'.dev
    <3>1. ASSUME NEW d, NEW n \in 1 .. Len(fifo), fifo[n].dev = d
          PROVE  Waiting(d)' \/ d = cur'.dev
      <4>1. CASE n = 1
        BY <2>1, <3>1, <4>1
      <4>2. CASE n # 1
        <5>1. n - 1 \in 1 .. Len(fifo') /\ (n - 1) + 1 = n
          BY <2>2, <4>2
        <5>2. QED
          BY <2>2, <3>1, <5>1 DEF Waiting
      <4>3. QED
        BY <4>1, <4>2
    <3>2. ASSUME NEW d, NEW n \in 1 .. Len(fifo'), fifo'[n].dev = d
          PROVE  Waiting(d)
      <4>1. n + 1 \in 1 .. Len(fifo) /\ fifo[n + 1].dev = d
        BY <2>2, <3>2
      <4>2. QED
        BY <4>1 DEF Waiting
    <3>3. Waiting(cur'.dev)
      BY <2>1, <2>2 DEF Waiting
    <3>4. QED
      BY <3>1, <3>2, <3>3 DEF Waiting
  <2>4. ASSUME NEW n \in 1 .. Len(fifo'),
               \A m \in 1 .. Len(fifo') : m > n => fifo'[m].dev # fifo'[n].dev
        PROVE  fifo'[n].val \in last'[fifo'[n].dev]
    <3>1. n + 1 \in 1 .. Len(fifo) /\ fifo'[n] = fifo[n + 1]
      BY <2>2
    <3>2. ASSUME NEW m \in 1 .. Len(fifo), m > n + 1
          PROVE  fifo[m].dev # fifo[n + 1].dev
      <4>1. m - 1 \in 1 .. Len(fifo') /\ m - 1 > n /\ (m - 1) + 1 = m
        BY <2>2, <3>2
      <4>2. QED
        BY <2>2, <2>4, <3>1, <4>1
    <3>3. QED
      BY <2>1, <3>1, <3>2 DEF CommandInv
  <2>5. ~Waiting(cur.dev)' => cur'.val \in last'[cur'.dev]
    <3>1. ASSUME ~Waiting(cur.dev)', NEW m \in 1 .. Len(fifo), m > 1
          PROVE  fifo[m].dev # fifo[1].dev
      <4>1. m - 1 \in 1 .. Len(fifo') /\ (m - 1) + 1 = m
        BY <2>2, <3>1
      <4>2. QED
        BY <2>1, <2>2, <3>1, <4>1 DEF Waiting
    <3>2. 1 \in 1 .. Len(fifo)
      BY <2>1, <2>2
    <3>3. QED
      BY <2>1, <3>1, <3>2 DEF CommandInv
  <2>6. \A d \in Devs \ ReadOnly :
          ~Waiting(d)' /\ ~(pc' = "write" /\ cur'.dev = d) => holding'[d] \in last'[d]
    BY <2>1, <2>3 DEF CommandInv
  <2>7. QED
    BY <2>4, <2>5, <2>6 DEF CommandInv, Waiting
<1>3. CASE WriteOk
  <2>1. /\ pc = "write" /\ pc' = "drain" /\ fifo' = fifo /\ cur' = cur /\ last' = last
        /\ cur.dev \in Devs /\ holding' = [holding EXCEPT ![cur.dev] = cur.val]
    BY <1>3, WritableIsDev DEF WriteOk, WritableOnly
  <2>2. \A d : Waiting(d)' <=> Waiting(d)
    BY <2>1 DEF Waiting
  <2>3. \A d \in Devs \ ReadOnly : ~Waiting(d) => holding'[d] \in last'[d]
    BY <2>1 DEF CommandInv
  <2>4. QED
    BY <2>1, <2>2, <2>3 DEF CommandInv, Waiting
<1>4. CASE WriteFail
  <2>1. /\ pc = "write" /\ pc' = "drain" /\ fifo' = fifo /\ cur' = cur
        /\ cur.dev \in Devs
        /\ holding' \in {holding, [holding EXCEPT ![cur.dev] = cur.val]}
        /\ last' = [last EXCEPT ![cur.dev] =
                      IF Waiting(cur.dev) THEN last[cur.dev]
                      ELSE last[cur.dev] \cup {holding[cur.dev]}]
    BY <1>4, WritableIsDev DEF WriteFail, WritableOnly, Waiting
  <2>2. \A d : Waiting(d)' <=> Waiting(d)
    BY <2>1 DEF Waiting
  <2>3. \A d \in Devs : last[d] \subseteq last'[d]
    BY <2>1
  <2>4. \A d \in Devs \ ReadOnly : ~Waiting(d) => holding'[d] \in last'[d]
    <3>1. ASSUME ~Waiting(cur.dev) PROVE holding'[cur.dev] \in last'[cur.dev]
      BY <2>1, <3>1 DEF CommandInv
    <3>2. ASSUME NEW d \in Devs \ ReadOnly, ~Waiting(d), d # cur.dev
          PROVE  holding'[d] \in last'[d]
      BY <2>1, <3>2 DEF CommandInv
    <3>3. QED
      BY <3>1, <3>2
  <2>5. \A n \in 1 .. Len(fifo) : fifo[n].dev \in Devs
    BY WritableIsDev DEF WritableOnly
  <2>6. QED
    BY <2>1, <2>2, <2>3, <2>4, <2>5 DEF CommandInv, Waiting
<1>5. CASE \/ Connect \/ DrainEmpty \/ ReadOk \/ Store \/ ReadFail
           \/ PubState \/ PubValue \/ LinkChanges \/ UNCHANGED vars
  <2>1. /\ fifo' = fifo /\ cur' = cur /\ last' = last /\ holding' = holding
        /\ pc = "write" <=> pc' = "write"
    BY <1>5 DEF Connect, DrainEmpty, ReadOk, Store, ReadFail, NextRow,
                PubState, PubValue, LinkChanges, vars
  <2>2. QED
    BY <2>1, CommandsKept
<1>6. CASE DeviceChanges
  <2>1. /\ fifo' = fifo /\ cur' = cur /\ last' = last /\ pc' = pc
        /\ \E d \in ReadOnly, v \in Readings : holding' = [holding EXCEPT ![d] = v]
    BY <1>6 DEF DeviceChanges
  <2>2. \A d \in Devs \ ReadOnly : holding'[d] = holding[d]
    BY <2>1
  <2>3. QED
    BY <2>1, <2>2, CommandsKept
<1>7. QED
  BY <1>1, <1>2, <1>3, <1>4, <1>5, <1>6 DEF Next, PollThread, Publisher
-----------------------------------------------------------------------------
LEMMA Inductive == Spec => []IInv
<1>1. IInv /\ [Next]_vars => IInv'
  <2> SUFFICES ASSUME IInv, [Next]_vars PROVE IInv'
    OBVIOUS
  <2>1. Types' /\ WritableOnly' /\ CommandInv'
    BY TypesStep, WritableStep, CommandStep
  <2>2. QED
    BY <2>1 DEF IInv
<1>2. QED
  BY InitIInv, <1>1, PTL DEF Spec

\* Queue, scan position, failure count and register values stay in range: the
\* capacity and the threshold are never exceeded and registers are words.
THEOREM TypeCorrect == Spec => []TypeOK
<1>1. IInv => TypeOK
  <2> SUFFICES ASSUME IInv PROVE TypeOK
    OBVIOUS
  <2>1. Types
    BY DEF IInv
  <2>2. \A n \in 1 .. Len(fifo) : fifo[n].dev \in Word /\ fifo[n].val \in Word
    <3>1. \A n \in 1 .. Len(fifo) : fifo[n] \in Cmd
      BY <2>1, ElementOfSeq DEF Types
    <3>2. QED
      BY <3>1 DEF Cmd
  <2>3. \A w \in Word : w \in Nat
    BY SizeOfWord DEF Word
  <2>4. QED
    BY <2>1, <2>2, <2>3 DEF Types, TypeOK
<1>2. QED
  BY Inductive, <1>1, PTL

\* Nothing but a mapped register that is not ACCESS_RO is queued or written,
\* whatever the handlers and the HMI ask for (on_write()).
THEOREM WritesAreAllowed == Spec => []WritableOnly
<1>1. IInv => WritableOnly
  BY DEF IInv
<1>2. QED
  BY Inductive, <1>1, PTL

\* Once its commands are done a register holds what the last accepted one
\* asked for, or what it held if that write failed: across any number of
\* disconnections no command is overtaken, repeated or resurrected
\* (inverter_cmd_push(), inverter_rtu_thread()).
THEOREM LastCommandIsFinal == Spec => []LastCommandWins
<1>1. IInv => LastCommandWins
  <2> SUFFICES ASSUME IInv, fifo = << >>, pc # "write", NEW d \in Devs \ ReadOnly
               PROVE  holding[d] \in last[d]
    BY DEF LastCommandWins
  <2>1. ~Waiting(d)
    BY DEF Waiting
  <2>2. QED
    BY <2>1 DEF IInv, CommandInv
<1>2. QED
  BY Inductive, <1>1, PTL
=============================================================================
