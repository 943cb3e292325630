-------------------------- MODULE InverterUnitProofs --------------------------
(***************************************************************************)
(* Safety of the poll thread for every queue capacity, number of segments, *)
(* failure threshold and reconnect delay, and every behaviour of the       *)
(* device, the serial port and the HMI.                                    *)
(***************************************************************************)
EXTENDS InverterUnit, SequenceTheorems, TLAPS

(***************************************************************************)
(* The inductive invariant has four parts.                                 *)
(***************************************************************************)

\* Control state against the serial context and connection_state.  A thread
\* that is still running comes back to the top of the outer loop only with
\* the port closed.
PortInv ==
  /\ PortDiscipline
  /\ pc \in {"connect", "offline", "sleep"} => fd = "closed"
  /\ pc = "loop" /\ running => fd = "closed" /\ connState = "disconnected"
  /\ OnlineMeansOpen

\* Progress of stop_inverter_modules() against what it has stopped.
StopInv ==
  /\ running <=> main \in {"run", "bridgeStopped"}
  /\ main # "run" => ~bridge
  /\ qlock = "destroyed" => main = "stopped"
  /\ main = "stopped" => pc = "done"
  /\ pc \in {"final", "done"} => ~running

\* The bus transactions the poll thread can still make once running is clear.
Pending ==
  CASE pc \in {"connect", "probe"} -> 1
    [] pc = "drain" -> Len(fifo) + NumSegs
    [] pc = "write" -> 1 + Len(fifo) + NumSegs
    [] pc = "scan" -> (NumSegs + 1) - seg
    [] OTHER -> 0

BudgetInv ==
  /\ pc = "scan" => seg <= NumSegs
  /\ running => afterStop = 0
  /\ ~running => afterStop + Pending <= Capacity + 1 + NumSegs

\* comm_fail_count against the reads it counts.
StreakInv ==
  /\ commFail <= Len(recent)
  /\ Len(recent) <= Threshold
  /\ \A i \in 1 .. Len(recent) : i > Len(recent) - commFail => recent[i] = FALSE
  /\ pc = "error" <=> commFail = Threshold
  /\ pc = "offline" => Len(recent) = Threshold /\ \A i \in 1 .. Threshold : recent[i] = FALSE

IInv == TypeOK /\ PortInv /\ StopInv /\ BudgetInv /\ StreakInv
-----------------------------------------------------------------------------
LEMMA InitIInv == Init => IInv
<1>. SUFFICES ASSUME Init PROVE IInv  OBVIOUS
<1>. USE UnitAssumption DEF Init
<1>1. TypeOK  BY DEF TypeOK
<1>2. PortInv  BY DEF PortInv, PortDiscipline, OnlineMeansOpen
<1>3. StopInv  BY DEF StopInv
<1>4. BudgetInv  BY DEF BudgetInv
<1>5. StreakInv  BY DEF StreakInv
<1>. QED  BY <1>1, <1>2, <1>3, <1>4, <1>5 DEF IInv

\* A read is recorded without exceeding the Threshold most recent results.
LEMMA RecordType ==
  ASSUME NEW ok \in BOOLEAN, recent \in Seq(BOOLEAN), Len(recent) <= Threshold, Record(ok)
  PROVE  /\ recent' \in Seq(BOOLEAN)
         /\ Len(recent') = IF Len(recent) < Threshold THEN Len(recent) + 1 ELSE Threshold
         /\ recent'[Len(recent')] = ok
         /\ \A i \in 1 .. Len(recent') - 1 :
              recent'[i] = recent[IF Len(recent) < Threshold THEN i ELSE i + 1]
<1>. USE UnitAssumption
<1>1. CASE Len(recent) < Threshold
  <2>1. recent' = Append(recent, ok)  BY <1>1 DEF Record
  <2>. QED  BY <1>1, <2>1, AppendProperties
<1>2. CASE Len(recent) = Threshold
  <2>1. recent' = Append(Tail(recent), ok)  BY <1>2 DEF Record
  <2>2. recent # << >>  BY <1>2
  <2>3. /\ Tail(recent) \in Seq(BOOLEAN)
        /\ Len(Tail(recent)) = Threshold - 1
        /\ \A i \in 1 .. Threshold - 1 : Tail(recent)[i] = recent[i + 1]
    BY <1>2, <2>2, HeadTailProperties
  <2>4. /\ recent' \in Seq(BOOLEAN)
        /\ Len(recent') = (Threshold - 1) + 1
        /\ recent'[(Threshold - 1) + 1] = ok
        /\ \A i \in 1 .. Threshold - 1 : recent'[i] = Tail(recent)[i]
    BY <2>1, <2>3, AppendProperties
  <2>. QED  BY <1>2, <2>3, <2>4
<1>. QED  BY <1>1, <1>2

LEMMA NextTypeOK == IInv /\ [Next]_vars => TypeOK'
<1>. SUFFICES ASSUME IInv, [Next]_vars PROVE TypeOK'  OBVIOUS
<1>ty. TypeOK /\ StreakInv  BY DEF IInv
<1>. USE UnitAssumption, <1>ty DEF TypeOK, mainVars, envVars, threadVars
<1>1. CASE OuterLoop  BY <1>1 DEF OuterLoop
<1>2. CASE ConnectFail  BY <1>2 DEF ConnectFail
<1>3. CASE ConnectOk  BY <1>3 DEF ConnectOk
<1>4. CASE ProbeFail  BY <1>4 DEF ProbeFail, Disconnect, CountTransaction
<1>5. CASE ProbeOk  BY <1>5 DEF ProbeOk, CountTransaction
<1>6. CASE Online  BY <1>6 DEF Online
<1>7. CASE InnerLoop  BY <1>7 DEF InnerLoop
<1>8. CASE DrainPop
  <2>1. Tail(fifo) \in Seq(Cmd) /\ Len(Tail(fifo)) = Len(fifo) - 1
    BY <1>8, HeadTailProperties DEF DrainPop
  <2>. QED  BY <1>8, <2>1 DEF DrainPop
<1>9. CASE Write  BY <1>9 DEF Write, CountTransaction
<1>10. CASE DrainEmpty  BY <1>10 DEF DrainEmpty
<1>11. CASE ReadOk
  <2>1. recent' \in Seq(BOOLEAN)  BY <1>11, RecordType DEF ReadOk, StreakInv
  <2>. QED  BY <1>11, <2>1 DEF ReadOk, CountTransaction, NextSegment
<1>12. CASE ReadFail
  <2>1. recent' \in Seq(BOOLEAN)  BY <1>12, RecordType DEF ReadFail, StreakInv
  <2>2. commFail' \in 0 .. Threshold
    BY <1>12 DEF ReadFail, StreakInv
  <2>. QED  BY <1>12, <2>1, <2>2 DEF ReadFail, CountTransaction, NextSegment
<1>13. CASE Error  BY <1>13 DEF Error, Disconnect
<1>24. CASE Offline  BY <1>24 DEF Offline
<1>14. CASE SleepTick  BY <1>14 DEF SleepTick
<1>15. CASE SleepDone  BY <1>15 DEF SleepDone
<1>16. CASE Final  BY <1>16 DEF Final, Disconnect
<1>17. ASSUME NEW c \in Cmd, Push(c) PROVE TypeOK'
  <2>1. Append(fifo, c) \in Seq(Cmd) /\ Len(Append(fifo, c)) = Len(fifo) + 1
    BY AppendProperties
  <2>. QED  BY <1>17, <2>1 DEF Push
<1>18. CASE BridgeStop  BY <1>18 DEF BridgeStop
<1>19. CASE SignalStop  BY <1>19 DEF SignalStop
<1>20. CASE Join  BY <1>20 DEF Join
<1>21. CASE PortChanges  BY <1>21 DEF PortChanges
<1>22. CASE LinkChanges  BY <1>22 DEF LinkChanges
<1>23. CASE UNCHANGED vars  BY <1>23 DEF vars
<1>. QED
  BY <1>1, <1>2, <1>3, <1>4, <1>5, <1>6, <1>7, <1>8, <1>9, <1>10, <1>11, <1>12,
     <1>13, <1>14, <1>15, <1>16, <1>17, <1>18, <1>19, <1>20, <1>21, <1>22, <1>23, <1>24
     DEF Next, PollThread, Stop, Environment

LEMMA NextPortInv == IInv /\ [Next]_vars => PortInv'
<1>. SUFFICES ASSUME IInv, [Next]_vars PROVE PortInv'  OBVIOUS
<1>ty. TypeOK /\ PortInv  BY DEF IInv
<1>. USE <1>ty DEF TypeOK, PortInv, PortDiscipline, OnlineMeansOpen, mainVars, envVars, threadVars
<1>1. CASE OuterLoop  BY <1>1 DEF OuterLoop
<1>2. CASE ConnectFail  BY <1>2 DEF ConnectFail
<1>3. CASE ConnectOk  BY <1>3 DEF ConnectOk
<1>4. CASE ProbeFail  BY <1>4 DEF ProbeFail, Disconnect
<1>5. CASE ProbeOk  BY <1>5 DEF ProbeOk
<1>6. CASE Online  BY <1>6 DEF Online
<1>7. CASE InnerLoop  BY <1>7 DEF InnerLoop
<1>8. CASE DrainPop  BY <1>8 DEF DrainPop
<1>9. CASE Write  BY <1>9 DEF Write
<1>10. CASE DrainEmpty  BY <1>10 DEF DrainEmpty
<1>11. CASE ReadOk  BY <1>11 DEF ReadOk, NextSegment
<1>12. CASE ReadFail  BY <1>12 DEF ReadFail, NextSegment
<1>13. CASE Error  BY <1>13 DEF Error, Disconnect
<1>24. CASE Offline  BY <1>24 DEF Offline
<1>14. CASE SleepTick  BY <1>14 DEF SleepTick
<1>15. CASE SleepDone  BY <1>15 DEF SleepDone
<1>16. CASE Final  BY <1>16 DEF Final, Disconnect
<1>17. ASSUME NEW c \in Cmd, Push(c) PROVE PortInv'  BY <1>17 DEF Push
<1>18. CASE BridgeStop  BY <1>18 DEF BridgeStop
<1>19. CASE SignalStop  BY <1>19 DEF SignalStop
<1>20. CASE Join  BY <1>20 DEF Join
<1>21. CASE PortChanges  BY <1>21 DEF PortChanges
<1>22. CASE LinkChanges  BY <1>22 DEF LinkChanges
<1>23. CASE UNCHANGED vars  BY <1>23 DEF vars
<1>. QED
  BY <1>1, <1>2, <1>3, <1>4, <1>5, <1>6, <1>7, <1>8, <1>9, <1>10, <1>11, <1>12,
     <1>13, <1>14, <1>15, <1>16, <1>17, <1>18, <1>19, <1>20, <1>21, <1>22, <1>23, <1>24
     DEF Next, PollThread, Stop, Environment

LEMMA NextStopInv == IInv /\ [Next]_vars => StopInv'
<1>. SUFFICES ASSUME IInv, [Next]_vars PROVE StopInv'  OBVIOUS
<1>ty. TypeOK /\ StopInv  BY DEF IInv
<1>. USE <1>ty DEF TypeOK, StopInv, mainVars, envVars, threadVars
<1>1. CASE OuterLoop  BY <1>1 DEF OuterLoop
<1>2. CASE ConnectFail  BY <1>2 DEF ConnectFail
<1>3. CASE ConnectOk  BY <1>3 DEF ConnectOk
<1>4. CASE ProbeFail  BY <1>4 DEF ProbeFail, Disconnect
<1>5. CASE ProbeOk  BY <1>5 DEF ProbeOk
<1>6. CASE Online  BY <1>6 DEF Online
<1>7. CASE InnerLoop  BY <1>7 DEF InnerLoop
<1>8. CASE DrainPop  BY <1>8 DEF DrainPop
<1>9. CASE Write  BY <1>9 DEF Write
<1>10. CASE DrainEmpty  BY <1>10 DEF DrainEmpty
<1>11. CASE ReadOk  BY <1>11 DEF ReadOk, NextSegment
<1>12. CASE ReadFail  BY <1>12 DEF ReadFail, NextSegment
<1>13. CASE Error  BY <1>13 DEF Error, Disconnect
<1>24. CASE Offline  BY <1>24 DEF Offline
<1>14. CASE SleepTick  BY <1>14 DEF SleepTick
<1>15. CASE SleepDone  BY <1>15 DEF SleepDone
<1>16. CASE Final  BY <1>16 DEF Final, Disconnect
<1>17. ASSUME NEW c \in Cmd, Push(c) PROVE StopInv'  BY <1>17 DEF Push
<1>18. CASE BridgeStop  BY <1>18 DEF BridgeStop
<1>19. CASE SignalStop  BY <1>19 DEF SignalStop
<1>20. CASE Join  BY <1>20 DEF Join
<1>21. CASE PortChanges  BY <1>21 DEF PortChanges
<1>22. CASE LinkChanges  BY <1>22 DEF LinkChanges
<1>23. CASE UNCHANGED vars  BY <1>23 DEF vars
<1>. QED
  BY <1>1, <1>2, <1>3, <1>4, <1>5, <1>6, <1>7, <1>8, <1>9, <1>10, <1>11, <1>12,
     <1>13, <1>14, <1>15, <1>16, <1>17, <1>18, <1>19, <1>20, <1>21, <1>22, <1>23, <1>24
     DEF Next, PollThread, Stop, Environment

LEMMA NextBudgetInv == IInv /\ [Next]_vars => BudgetInv'
<1>. SUFFICES ASSUME IInv, [Next]_vars PROVE BudgetInv'  OBVIOUS
<1>ty. TypeOK /\ StopInv /\ BudgetInv  BY DEF IInv
<1>. USE UnitAssumption, <1>ty DEF TypeOK, StopInv, BudgetInv, Pending, mainVars, envVars, threadVars
<1>1. CASE OuterLoop  BY <1>1 DEF OuterLoop
<1>2. CASE ConnectFail  BY <1>2 DEF ConnectFail
<1>3. CASE ConnectOk  BY <1>3 DEF ConnectOk
<1>4. CASE ProbeFail  BY <1>4 DEF ProbeFail, Disconnect, CountTransaction
<1>5. CASE ProbeOk  BY <1>5 DEF ProbeOk, CountTransaction
<1>6. CASE Online  BY <1>6 DEF Online
<1>7. CASE InnerLoop  BY <1>7 DEF InnerLoop
<1>8. CASE DrainPop
  <2>1. Len(fifo') = Len(fifo) - 1  BY <1>8, HeadTailProperties DEF DrainPop
  <2>. QED  BY <1>8, <2>1 DEF DrainPop
<1>9. CASE Write  BY <1>9 DEF Write, CountTransaction
<1>10. CASE DrainEmpty  BY <1>10 DEF DrainEmpty
<1>11. CASE ReadOk  BY <1>11, SMTT(30) DEF ReadOk, NextSegment, CountTransaction
<1>12. CASE ReadFail
  <2>1. /\ pc = "scan"
        /\ afterStop' = IF running THEN afterStop ELSE afterStop + 1
        /\ UNCHANGED <<running, fifo>>
    BY <1>12 DEF ReadFail, CountTransaction
  <2>2. CASE pc' = "error"  BY <2>1, <2>2
  <2>3. CASE NextSegment  BY <2>1, <2>3, SMTT(30) DEF NextSegment
  <2>. QED  BY <1>12, <2>2, <2>3 DEF ReadFail
<1>13. CASE Error  BY <1>13 DEF Error, Disconnect
<1>24. CASE Offline  BY <1>24 DEF Offline
<1>14. CASE SleepTick  BY <1>14 DEF SleepTick
<1>15. CASE SleepDone  BY <1>15 DEF SleepDone
<1>16. CASE Final  BY <1>16 DEF Final, Disconnect
<1>17. ASSUME NEW c \in Cmd, Push(c) PROVE BudgetInv'
  <2>1. running /\ running'  BY <1>17 DEF Push
  <2>. QED  BY <1>17, <2>1 DEF Push
<1>18. CASE BridgeStop  BY <1>18 DEF BridgeStop
<1>19. CASE SignalStop  BY <1>19 DEF SignalStop
<1>20. CASE Join  BY <1>20 DEF Join
<1>21. CASE PortChanges  BY <1>21 DEF PortChanges
<1>22. CASE LinkChanges  BY <1>22 DEF LinkChanges
<1>23. CASE UNCHANGED vars  BY <1>23 DEF vars
<1>. QED
  BY <1>1, <1>2, <1>3, <1>4, <1>5, <1>6, <1>7, <1>8, <1>9, <1>10, <1>11, <1>12,
     <1>13, <1>14, <1>15, <1>16, <1>17, <1>18, <1>19, <1>20, <1>21, <1>22, <1>23, <1>24
     DEF Next, PollThread, Stop, Environment

LEMMA NextStreakInv == IInv /\ [Next]_vars => StreakInv'
<1>. SUFFICES ASSUME IInv, [Next]_vars PROVE StreakInv'  OBVIOUS
<1>ty. TypeOK /\ StreakInv  BY DEF IInv
<1>. USE UnitAssumption, <1>ty DEF TypeOK, StreakInv, mainVars, envVars, threadVars
<1>1. CASE OuterLoop  BY <1>1 DEF OuterLoop
<1>2. CASE ConnectFail  BY <1>2 DEF ConnectFail
<1>3. CASE ConnectOk  BY <1>3 DEF ConnectOk
<1>4. CASE ProbeFail  BY <1>4 DEF ProbeFail, Disconnect
<1>5. CASE ProbeOk  BY <1>5 DEF ProbeOk
<1>6. CASE Online  BY <1>6 DEF Online
<1>7. CASE InnerLoop  BY <1>7 DEF InnerLoop
<1>8. CASE DrainPop  BY <1>8 DEF DrainPop
<1>9. CASE Write  BY <1>9 DEF Write
<1>10. CASE DrainEmpty  BY <1>10 DEF DrainEmpty
<1>11. CASE ReadOk
  <2>0. /\ recent' \in Seq(BOOLEAN)
        /\ Len(recent') = IF Len(recent) < Threshold THEN Len(recent) + 1 ELSE Threshold
    BY <1>11, RecordType DEF ReadOk
  <2>1. Len(recent') \in Nat /\ Len(recent') <= Threshold
    BY <2>0
  <2>. QED  BY <1>11, <2>1 DEF ReadOk, NextSegment
<1>12. CASE ReadFail
  <2>1. /\ Len(recent') = IF Len(recent) < Threshold THEN Len(recent) + 1 ELSE Threshold
        /\ recent'[Len(recent')] = FALSE
        /\ \A i \in 1 .. Len(recent') - 1 :
             recent'[i] = recent[IF Len(recent) < Threshold THEN i ELSE i + 1]
    BY <1>12, RecordType DEF ReadFail
  <2>2. commFail' = commFail + 1 /\ commFail < Threshold
    BY <1>12 DEF ReadFail
  <2>3. commFail' <= Len(recent') /\ Len(recent') <= Threshold
    BY <2>1, <2>2
  <2>4. ASSUME NEW i \in 1 .. Len(recent'), i > Len(recent') - commFail'
        PROVE recent'[i] = FALSE
    <3>1. CASE i = Len(recent')  BY <2>1, <3>1
    <3>2. CASE i # Len(recent') /\ Len(recent) < Threshold
      <4>1. i \in 1 .. Len(recent) /\ i > Len(recent) - commFail  BY <2>1, <2>2, <2>4, <3>2
      <4>2. recent'[i] = recent[i]  BY <2>1, <3>2, <4>1
      <4>. QED  BY <4>1, <4>2
    <3>3. CASE i # Len(recent') /\ Len(recent) = Threshold
      <4>1. i + 1 \in 1 .. Len(recent) /\ i + 1 > Len(recent) - commFail
        BY <2>1, <2>2, <2>4, <3>3
      <4>2. recent'[i] = recent[i + 1]  BY <2>1, <3>3, <4>1
      <4>. QED  BY <4>1, <4>2
    <3>4. Len(recent) < Threshold \/ Len(recent) = Threshold  OBVIOUS
    <3>. QED  BY <3>1, <3>2, <3>3, <3>4, Zenon
  <2>5. pc' = "error" <=> commFail' = Threshold
    BY <1>12, <2>2 DEF ReadFail, NextSegment
  <2>6. pc' # "offline"  BY <1>12 DEF ReadFail, NextSegment
  <2>. QED  BY <2>3, <2>4, <2>5, <2>6
<1>13. CASE Error  BY <1>13 DEF Error, Disconnect
<1>24. CASE Offline  BY <1>24 DEF Offline
<1>14. CASE SleepTick  BY <1>14 DEF SleepTick
<1>15. CASE SleepDone  BY <1>15 DEF SleepDone
<1>16. CASE Final  BY <1>16 DEF Final, Disconnect
<1>17. ASSUME NEW c \in Cmd, Push(c) PROVE StreakInv'  BY <1>17 DEF Push
<1>18. CASE BridgeStop  BY <1>18 DEF BridgeStop
<1>19. CASE SignalStop  BY <1>19 DEF SignalStop
<1>20. CASE Join  BY <1>20 DEF Join
<1>21. CASE PortChanges  BY <1>21 DEF PortChanges
<1>22. CASE LinkChanges  BY <1>22 DEF LinkChanges
<1>23. CASE UNCHANGED vars  BY <1>23 DEF vars
<1>. QED
  BY <1>1, <1>2, <1>3, <1>4, <1>5, <1>6, <1>7, <1>8, <1>9, <1>10, <1>11, <1>12,
     <1>13, <1>14, <1>15, <1>16, <1>17, <1>18, <1>19, <1>20, <1>21, <1>22, <1>23, <1>24
     DEF Next, PollThread, Stop, Environment

LEMMA NextIInv == IInv /\ [Next]_vars => IInv'
  BY NextTypeOK, NextPortInv, NextStopInv, NextBudgetInv, NextStreakInv DEF IInv

\* The invariant holds in every reachable state.
LEMMA Invariance == Spec => []IInv
<1>1. Init => IInv  BY InitIInv
<1>2. IInv /\ [Next]_vars => IInv'  BY NextIInv
<1>. QED  BY <1>1, <1>2, PTL DEF Spec
-----------------------------------------------------------------------------
\* Type correctness; comm_fail_count never passes the threshold.
THEOREM TypeCorrect == Spec => []TypeOK
<1>1. IInv => TypeOK  BY DEF IInv
<1>. QED  BY <1>1, Invariance, PTL

\* No descriptor is lost by a reconnect, and the bus is used only with the
\* port open and its mutex initialised.
THEOREM PortIsDisciplined == Spec => []PortDiscipline
<1>1. IInv => PortDiscipline  BY DEF IInv, PortInv
<1>. QED  BY <1>1, Invariance, PTL

\* A device is shown online with the port closed only between two statements
\* of the error callback and after the end of the thread.
THEOREM OnlineIsOpen == Spec => []OnlineMeansOpen
<1>1. IInv => OnlineMeansOpen  BY DEF IInv, PortInv
<1>. QED  BY <1>1, Invariance, PTL

\* After running is cleared at most Capacity + 1 + NumSegs transactions
\* separate main from the return of pthread_join.
THEOREM ShutdownIsBounded == Spec => []ShutdownBound
<1>1. IInv => ShutdownBound
  <2>. SUFFICES ASSUME IInv PROVE ShutdownBound  OBVIOUS
  <2>. USE UnitAssumption DEF IInv, TypeOK, BudgetInv, ShutdownBound
  <2>1. CASE running  BY <2>1
  <2>2. CASE ~running
    <3>1. Pending \in Nat
      <4>1. CASE pc = "scan"
        <5>1. Pending = (NumSegs + 1) - seg  BY <4>1 DEF Pending
        <5>. QED  BY <4>1, <5>1
      <4>2. CASE pc = "drain"  BY <4>2 DEF Pending
      <4>3. CASE pc = "write"  BY <4>3 DEF Pending
      <4>4. CASE pc \notin {"scan", "drain", "write"}  BY <4>4 DEF Pending
      <4>. QED  BY <4>1, <4>2, <4>3, <4>4
    <3>. QED  BY <2>2, <3>1
  <2>. QED  BY <2>1, <2>2
<1>. QED  BY <1>1, Invariance, PTL

\* The queue mutex outlives every thread that locks it.
THEOREM QueueLockOutlivesThreads == Spec => []QueueLockAlive
<1>1. IInv => QueueLockAlive  BY DEF IInv, TypeOK, StopInv, QueueLockAlive
<1>. QED  BY <1>1, Invariance, PTL

\* A device is declared disconnected only after Threshold consecutive failed
\* reads.
THEOREM DropsAreDeserved == Spec => DropIsDeserved
<1>1. IInv /\ [Next]_vars =>
        [connState = "connected" /\ connState' = "disconnected" =>
           Len(recent) = Threshold /\ \A i \in 1 .. Threshold : ~recent[i]]_vars
  <2>. SUFFICES ASSUME IInv, [Next]_vars, connState = "connected", connState' = "disconnected"
                PROVE Len(recent) = Threshold /\ \A i \in 1 .. Threshold : ~recent[i]
    OBVIOUS
  <2>1. Offline
    BY DEF Next, PollThread, Stop, Environment, vars, threadVars, OuterLoop, ConnectFail,
       ConnectOk, ProbeFail, ProbeOk, Online, InnerLoop, DrainPop, Write, DrainEmpty, ReadOk,
       ReadFail, Error, Disconnect, SleepTick, SleepDone, Final, Push, BridgeStop, SignalStop, Join, PortChanges,
       LinkChanges
  <2>. QED  BY <2>1, UnitAssumption DEF Offline, IInv, TypeOK, StreakInv
<1>. QED  BY <1>1, Invariance, PTL DEF Spec, DropIsDeserved
=============================================================================
