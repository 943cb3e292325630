----------------------------- MODULE DaemonProofs -----------------------------
(***************************************************************************)
(* What the life of the daemon may rely on, for every configuration, any   *)
(* number of units and subscribers, every part that fails to start and     *)
(* every moment of a signal.                                               *)
(***************************************************************************)
EXTENDS Daemon, SequenceTheorems, TLAPS

Starting == {"config", "exited", "units", "pubthread"}
Running == {"test", "entering", "paused", "stop"}
UnitsStop == {"units_stop", "units_join", "closedb", "done"}
BridgeStop == {"bridge", "joinsub", "joinpub"} \cup UnitsStop
Stages == Starting \cup Running \cup BridgeStop
            \cup {"subthread", "undo", "alarm", "joinalarm", "crashed"}

UnitRecord == [th : {"top", "lock", "pop", "ended"}, running : BOOLEAN,
               lock : {"free", "poll", "sub", "destroyed"}]

(***************************************************************************)
(* The inductive invariant has four parts.                                 *)
(***************************************************************************)

Types ==
  /\ main \in Stages
  /\ k \in Nat \ {0}
  /\ bridgeUp \in BOOLEAN /\ aRunning \in BOOLEAN /\ db \in BOOLEAN
  /\ units \in Seq(UnitRecord)
  /\ pub \in {"none", "poll", "turn", "send", "ended", "joined"}
  /\ sub \in [th : {"none", "create", "spin", "lock", "push", "ended"}, unit : Nat]
  /\ alarm \in {"none", "pass", "event", "ended"}

\* Which threads and resources there can be at each stage of main().
StageInv ==
  /\ main \in Starting => pub = "none"
  /\ main \in Starting \cup {"subthread", "undo"} => sub.th = "none"
  /\ main \in Starting \cup {"subthread", "undo", "alarm"} => ~aRunning /\ alarm = "none"
  /\ main = "pubthread" => fds = Fds
  /\ pub \notin Gone => fds = Fds
  /\ bridgeUp => sub.th # "none" /\ pub \notin {"none", "joined"}
  /\ main \in {"subthread", "undo"} => pub \notin {"none", "joined"}
  /\ main = "crashed" => ~bridgeUp
  /\ main \in Running /\ ~aRunning => alarm = "none"
  /\ main \in BridgeStop => alarm \in Gone
  /\ main \in UnitsStop \cup {"joinpub"} => sub.th \in Gone
  /\ main \in UnitsStop => pub \in Gone /\ fds = {} /\ subs = <<>>
  /\ main = "done" => ~db

\* Units are joined in their order, each before its lock is destroyed.
UnitInv ==
  /\ \A u \in DOMAIN units :
       units[u].lock = "destroyed" =>
         units[u].th = "ended" /\ main \in {"units_join", "closedb", "done"}
  /\ main = "units_join" => \A u \in DOMAIN units : u < k => units[u].th = "ended"
  /\ main \in {"closedb", "done"} => \A u \in DOMAIN units : units[u].th = "ended"

\* A client has one connection at most, in the backlog or in the list, and the
\* copies of a line are counted from zero.
PublishInv ==
  /\ subs \in Seq(Clients)
  /\ at \in Nat \ {0}
  /\ got \in [Clients -> Nat]
  /\ backlog \subseteq Clients
  /\ peer \in [Clients -> {"away", "reading", "full", "gone"}]
  /\ \A i, j \in DOMAIN subs : subs[i] = subs[j] => i = j
  /\ \A j \in DOMAIN subs : subs[j] \notin backlog /\ peer[subs[j]] # "away"
  /\ \A c \in backlog : peer[c] # "away"
  /\ pub # "send" => at = 1 /\ \A c \in Clients : got[c] = 0
  /\ EveryoneGetsEach

IInv == Types /\ StageInv /\ UnitInv /\ PublishInv
-----------------------------------------------------------------------------
\* What is left of a list when one of its elements is removed (cmos_publish()).
LEMMA Removed ==
  ASSUME NEW S, NEW q \in Seq(S), NEW i \in 1 .. Len(q)
  PROVE  /\ RemoveAt(q, i) \in Seq(S)
         /\ DOMAIN RemoveAt(q, i) = 1 .. Len(q) - 1
         /\ \A j \in 1 .. Len(q) - 1 :
              RemoveAt(q, i)[j] = IF j < i THEN q[j] ELSE q[j + 1]
<1> DEFINE a == SubSeq(q, 1, i - 1)
           b == SubSeq(q, i + 1, Len(q))
<1>1. /\ a \in Seq(S) /\ Len(a) = i - 1
      /\ \A j \in 1 .. i - 1 : a[j] = q[j]
  OBVIOUS
<1>2. /\ b \in Seq(S) /\ Len(b) = Len(q) - i
      /\ \A j \in 1 .. Len(q) - i : b[j] = q[j + i]
  OBVIOUS
<1>3. RemoveAt(q, i) = a \o b
  BY DEF RemoveAt
<1> HIDE DEF a, b
<1>4. /\ a \o b \in Seq(S)
      /\ Len(a \o b) = Len(q) - 1
      /\ \A j \in 1 .. Len(q) - 1 :
           (a \o b)[j] = IF j <= Len(a) THEN a[j] ELSE b[j - Len(a)]
  <2>1. Len(a) + Len(b) = Len(q) - 1
    BY <1>1, <1>2
  <2>2. a \in Seq(S) /\ b \in Seq(S)
    BY <1>1, <1>2
  <2>3. /\ a \o b \in Seq(S)
        /\ Len(a \o b) = Len(a) + Len(b)
        /\ \A j \in 1 .. Len(a) + Len(b) :
             (a \o b)[j] = IF j <= Len(a) THEN a[j] ELSE b[j - Len(a)]
    BY <2>2, ConcatProperties, Zenon
  <2>4. QED
    BY <2>1, <2>3
<1>5. ASSUME NEW j \in 1 .. Len(q) - 1
      PROVE  (a \o b)[j] = IF j < i THEN q[j] ELSE q[j + 1]
  <2>1. CASE j < i
    BY <2>1, <1>1, <1>4
  <2>2. CASE j >= i
    <3>1. j - (i - 1) \in 1 .. Len(q) - i /\ (j - (i - 1)) + i = j + 1
      BY <2>2
    <3>2. b[j - (i - 1)] = q[j + 1]
      BY <3>1, <1>2
    <3>3. QED
      BY <2>2, <3>2, <1>1, <1>4
  <2>3. j < i \/ j >= i
    OBVIOUS
  <2>4. QED
    BY <2>1, <2>2, <2>3
<1>6. QED
  BY <1>3, <1>4, <1>5

LEMMA InitIInv == Init => IInv
<1> SUFFICES ASSUME Init PROVE IInv
  OBVIOUS
<1> USE DEF Init, PubInitial, Idle
<1>1. Types
  <2>1. units \in Seq(UnitRecord)
    OBVIOUS
  <2>2. sub \in [th : {"none", "create", "spin", "lock", "push", "ended"}, unit : Nat]
    OBVIOUS
  <2>3. bridgeUp \in BOOLEAN /\ aRunning \in BOOLEAN /\ db \in BOOLEAN
    OBVIOUS
  <2>4. main \in Stages /\ k \in Nat \ {0}
    BY DEF Stages, Starting
  <2>5. /\ pub \in {"none", "poll", "turn", "send", "ended", "joined"}
        /\ alarm \in {"none", "pass", "event", "ended"}
    OBVIOUS
  <2>6. QED
    BY <2>1, <2>2, <2>3, <2>4, <2>5, Zenon DEF Types
<1>2. StageInv
  BY DEF StageInv, Starting, Running, BridgeStop, UnitsStop, Gone
<1>3. UnitInv
  BY DEF UnitInv
<1>4. PublishInv
  BY DEF PublishInv, EveryoneGetsEach
<1>5. QED
  BY <1>1, <1>2, <1>3, <1>4 DEF IInv

\* A list of units whose entries were replaced by entries of their type.
LEMMA UnitsUpdated ==
  ASSUME units \in Seq(UnitRecord), NEW q,
         q = [u \in DOMAIN units |-> q[u]],
         \A u \in DOMAIN units : q[u] \in UnitRecord
  PROVE  q \in Seq(UnitRecord)
<1>1. DOMAIN units = 1 .. Len(units) /\ Len(units) \in Nat
  OBVIOUS
<1>2. q \in [1 .. Len(units) -> UnitRecord]
  BY <1>1
<1>3. QED
  BY <1>1, <1>2, SeqDef

\* Every step keeps the types.
LEMMA TypesStep == IInv /\ [Next]_vars => Types'
<1> SUFFICES ASSUME IInv, [Next]_vars PROVE Types'
  OBVIOUS
<1> USE DEF IInv, Types, Stages, Starting, Running, UnitsStop, BridgeStop,
            Idle, Goto, mainVars, flags, pubVars
<1>1. CASE Configure
  BY <1>1 DEF Configure
<1>2. CASE StartUnit
  <2>1. [th |-> "top", running |-> TRUE, lock |-> "free"] \in UnitRecord
    BY DEF UnitRecord
  <2>2. units' \in Seq(UnitRecord)
    BY <1>2, <2>1 DEF StartUnit
  <2>3. QED
    BY <1>2, <2>2 DEF StartUnit
<1>3. CASE StartPub
  BY <1>3 DEF StartPub
<1>4. CASE StartPubThread
  BY <1>4 DEF StartPubThread
<1>5. CASE StartSubThread
  <2>1. bridgeUp' \in BOOLEAN
    BY <1>5 DEF StartSubThread
  <2>2. sub' \in [th : {"none", "create", "spin", "lock", "push", "ended"}, unit : Nat]
    BY <1>5 DEF StartSubThread
  <2>3. QED
    BY <1>5, <2>1, <2>2 DEF StartSubThread
<1>6. CASE UndoPub
  BY <1>6 DEF UndoPub
<1>7. CASE StartAlarm
  BY <1>7 DEF StartAlarm
<1>8. CASE Wait
  BY <1>8 DEF Wait
<1>9. CASE StopAlarm
  BY <1>9, ZenonT(30) DEF StopAlarm
<1>10. CASE StopBridge
  BY <1>10 DEF StopBridge
<1>11. CASE JoinSub
  BY <1>11 DEF JoinSub
<1>12. CASE JoinPub
  BY <1>12 DEF JoinPub
<1>13. CASE StopUnits
  <2>1. \A u \in DOMAIN units : units[u] \in UnitRecord
    OBVIOUS
  <2>2. units' = [u \in DOMAIN units |-> units'[u]]
    BY <1>13 DEF StopUnits
  <2>3. \A u \in DOMAIN units : units'[u] \in UnitRecord
    BY <1>13, <2>1 DEF StopUnits, UnitRecord
  <2>4. units' \in Seq(UnitRecord)
    BY <2>2, <2>3, UnitsUpdated
  <2>5. QED
    BY <1>13, <2>4 DEF StopUnits
<1>14. CASE JoinUnit
  <2>1. \A u \in DOMAIN units : units[u] \in UnitRecord
    OBVIOUS
  <2>2. units' = [u \in DOMAIN units |-> units'[u]]
    BY <1>14 DEF JoinUnit
  <2>3. \A u \in DOMAIN units : units'[u] \in UnitRecord
    <3> SUFFICES ASSUME NEW u \in DOMAIN units PROVE units'[u] \in UnitRecord
      OBVIOUS
    <3>1. units[u] \in UnitRecord
      BY <2>1
    <3>2. units'[u] \in {units[u], [units[u] EXCEPT !.lock = "destroyed"]}
      BY <1>14, ZenonT(30) DEF JoinUnit
    <3> HIDE DEF IInv, Types
    <3>3. [units[u] EXCEPT !.lock = "destroyed"] \in UnitRecord
      BY <3>1 DEF UnitRecord
    <3>4. QED
      BY <3>1, <3>2, <3>3
  <2>4. units' \in Seq(UnitRecord)
    BY <2>2, <2>3, UnitsUpdated
  <2>5. QED
    BY <1>14, <2>4 DEF JoinUnit
<1>15. CASE CloseDb
  BY <1>15 DEF CloseDb
<1>16. CASE Signal
  BY <1>16 DEF Signal
<1>17. CASE SubSpins
  BY <1>17 DEF SubSpins
<1>18. CASE SubLocks
  <2>1. \A u \in DOMAIN units : units[u] \in UnitRecord
    OBVIOUS
  <2>2. units' = [u \in DOMAIN units |-> units'[u]]
    BY <1>18 DEF SubLocks
  <2>3. \A u \in DOMAIN units : units'[u] \in UnitRecord
    BY <1>18, <2>1 DEF SubLocks, UnitRecord
  <2>4. units' \in Seq(UnitRecord)
    BY <2>2, <2>3, UnitsUpdated
  <2>5. QED
    BY <1>18, <2>4 DEF SubLocks
<1>19. CASE SubUnlocks
  <2>1. \A u \in DOMAIN units : units[u] \in UnitRecord
    OBVIOUS
  <2>2. units' = [u \in DOMAIN units |-> units'[u]]
    BY <1>19 DEF SubUnlocks
  <2>3. \A u \in DOMAIN units : units'[u] \in UnitRecord
    BY <1>19, <2>1 DEF SubUnlocks, UnitRecord
  <2>4. units' \in Seq(UnitRecord)
    BY <2>2, <2>3, UnitsUpdated
  <2>5. QED
    BY <1>19, <2>4 DEF SubUnlocks
<1>20. CASE SubCancelled
  BY <1>20 DEF SubCancelled
<1>21. CASE PubThread
  BY <1>21 DEF PubThread
<1>22. CASE AlarmThread
  <2>1. db' \in BOOLEAN
    BY <1>22 DEF AlarmThread
  <2>2. QED
    BY <1>22, <2>1, ZenonT(30) DEF AlarmThread
<1>23. CASE Environment
  BY <1>23 DEF Environment
<1>24. CASE \E u \in DOMAIN units : UnitThread(u)
  <2>1. \A u \in DOMAIN units : units[u] \in UnitRecord
    OBVIOUS
  <2>2. units' = [u \in DOMAIN units |-> units'[u]]
    BY <1>24 DEF UnitThread
  <2>3. \A u \in DOMAIN units : units'[u] \in UnitRecord
    BY <1>24, <2>1, SMTT(30) DEF UnitThread, UnitRecord
  <2>4. units' \in Seq(UnitRecord)
    BY <2>2, <2>3, UnitsUpdated
  <2>5. QED
    BY <1>24, <2>4 DEF UnitThread
<1>25. CASE UNCHANGED vars
  BY <1>25 DEF vars
<1>26. QED
  BY <1>1, <1>2, <1>3, <1>4, <1>5, <1>6, <1>7, <1>8, <1>9, <1>10, <1>11,
     <1>12, <1>13, <1>14, <1>15, <1>16, <1>17, <1>18, <1>19, <1>20, <1>21,
     <1>22, <1>23, <1>24, <1>25 DEF Next, Main, Subscriber, Terminated

\* No stage of main() is reached with a thread or a resource it must not have.
LEMMA StageStep == IInv /\ [Next]_vars => StageInv'
<1> SUFFICES ASSUME IInv, [Next]_vars PROVE StageInv'
  OBVIOUS
<1> USE DEF IInv, Types, StageInv, Stages, Starting, Running, UnitsStop,
            BridgeStop, Gone, Dead, Alive, Idle, Goto, mainVars, flags,
            pubVars
<1>1. CASE Configure
  BY <1>1 DEF Configure
<1>2. CASE StartUnit
  BY <1>2 DEF StartUnit
<1>3. CASE StartPub
  BY <1>3 DEF StartPub, InitOk, InitFails
<1>4. CASE StartPubThread
  BY <1>4 DEF StartPubThread, Close
<1>5. CASE StartSubThread
  BY <1>5 DEF StartSubThread
<1>6. CASE UndoPub
  BY <1>6 DEF UndoPub, Close
<1>7. CASE StartAlarm
  BY <1>7 DEF StartAlarm
<1>8. CASE Wait
  BY <1>8 DEF Wait
<1>9. CASE StopAlarm
  BY <1>9 DEF StopAlarm
<1>10. CASE StopBridge
  BY <1>10 DEF StopBridge
<1>11. CASE JoinSub
  BY <1>11 DEF JoinSub
<1>12. CASE JoinPub
  BY <1>12 DEF JoinPub, Close
<1>13. CASE StopUnits
  BY <1>13 DEF StopUnits
<1>14. CASE JoinUnit
  BY <1>14 DEF JoinUnit
<1>15. CASE CloseDb
  BY <1>15 DEF CloseDb
<1>16. CASE Signal
  BY <1>16 DEF Signal
<1>17. CASE SubSpins
  BY <1>17 DEF SubSpins
<1>18. CASE SubLocks
  BY <1>18 DEF SubLocks
<1>19. CASE SubUnlocks
  BY <1>19 DEF SubUnlocks
<1>20. CASE SubCancelled
  BY <1>20 DEF SubCancelled
<1>21. CASE PubThread
  BY <1>21 DEF PubThread, Poll, SendOk, SendFails, PublishEnds
<1>22. CASE AlarmThread
  BY <1>22 DEF AlarmThread
<1>23. CASE Environment
  BY <1>23 DEF Environment, Peers, PeerConnects, PeerReads, PeerLeaves
<1>24. CASE \E u \in DOMAIN units : UnitThread(u)
  BY <1>24 DEF UnitThread
<1>25. CASE UNCHANGED vars
  BY <1>25 DEF vars
<1>26. QED
  BY <1>1, <1>2, <1>3, <1>4, <1>5, <1>6, <1>7, <1>8, <1>9, <1>10, <1>11,
     <1>12, <1>13, <1>14, <1>15, <1>16, <1>17, <1>18, <1>19, <1>20, <1>21,
     <1>22, <1>23, <1>24, <1>25 DEF Next, Main, Subscriber, Terminated

\* No unit is left unjoined, and no lock is destroyed under a thread.
LEMMA UnitStep == IInv /\ [Next]_vars => UnitInv'
<1> SUFFICES ASSUME IInv, [Next]_vars PROVE UnitInv'
  OBVIOUS
<1> USE DEF IInv, Types, UnitInv, StageInv, Starting, Running, UnitsStop,
            BridgeStop, Gone, Dead, Alive, Goto, mainVars, flags, pubVars
<1>1. CASE Configure
  BY <1>1 DEF Configure
<1>2. CASE StartUnit
  BY <1>2 DEF StartUnit
<1>3. CASE StartPub
  BY <1>3 DEF StartPub
<1>4. CASE StartPubThread
  BY <1>4 DEF StartPubThread
<1>5. CASE StartSubThread
  BY <1>5 DEF StartSubThread
<1>6. CASE UndoPub
  BY <1>6 DEF UndoPub
<1>7. CASE StartAlarm
  BY <1>7 DEF StartAlarm
<1>8. CASE Wait
  BY <1>8 DEF Wait
<1>9. CASE StopAlarm
  BY <1>9 DEF StopAlarm
<1>10. CASE StopBridge
  BY <1>10 DEF StopBridge
<1>11. CASE JoinSub
  BY <1>11 DEF JoinSub
<1>12. CASE JoinPub
  BY <1>12 DEF JoinPub
<1>13. CASE StopUnits
  <2>1. \A u \in DOMAIN units : units[u] \in UnitRecord
    OBVIOUS
  <2>2. /\ DOMAIN units' = DOMAIN units
        /\ \A u \in DOMAIN units :
             units'[u].lock = units[u].lock /\ units'[u].th = units[u].th
    BY <1>13, <2>1 DEF StopUnits, UnitRecord
  <2>3. main = "units_stop" /\ main' = "units_join" /\ k' = 1
    BY <1>13 DEF StopUnits
  <2>4. \A u \in DOMAIN units : ~(u < 1)
    OBVIOUS
  <2>5. QED
    BY <2>2, <2>3, <2>4
<1>14. CASE JoinUnit
  <2>1. \A u \in DOMAIN units : units[u] \in UnitRecord /\ u \in Nat
    OBVIOUS
  <2>2. CASE k <= Len(units)
    <3>1. /\ DOMAIN units' = DOMAIN units
          /\ \A u \in DOMAIN units :
               /\ units'[u].th = units[u].th
               /\ units'[u].lock = IF u = k THEN "destroyed" ELSE units[u].lock
      BY <1>14, <2>1, <2>2 DEF JoinUnit, UnitRecord
    <3>2. /\ main = "units_join" /\ main' = main /\ k' = k + 1
          /\ units[k].th = "ended" /\ sub.th \in Gone
      BY <1>14, <2>2 DEF JoinUnit
    <3>3. QED
      BY <2>1, <3>1, <3>2
  <2>3. CASE k > Len(units)
    BY <1>14, <2>1, <2>3 DEF JoinUnit
  <2>4. QED
    BY <1>14, <2>2, <2>3 DEF JoinUnit
<1>15. CASE CloseDb
  BY <1>15 DEF CloseDb
<1>16. CASE Signal
  BY <1>16 DEF Signal
<1>17. CASE SubSpins
  BY <1>17 DEF SubSpins
<1>18. CASE SubLocks
  BY <1>18 DEF SubLocks
<1>19. CASE SubUnlocks
  BY <1>19 DEF SubUnlocks
<1>20. CASE SubCancelled
  BY <1>20 DEF SubCancelled
<1>21. CASE PubThread
  BY <1>21 DEF PubThread
<1>22. CASE AlarmThread
  BY <1>22 DEF AlarmThread
<1>23. CASE Environment
  BY <1>23 DEF Environment
<1>24. CASE \E u \in DOMAIN units : UnitThread(u)
  <2> PICK u \in DOMAIN units : UnitThread(u)
    BY <1>24
  <2>1. \A v \in DOMAIN units : units[v] \in UnitRecord
    OBVIOUS
  <2>2. /\ DOMAIN units' = DOMAIN units
        /\ \A v \in DOMAIN units : v # u => units'[v] = units[v]
        /\ units[u].th # "ended"
        /\ units'[u].lock \in {units[u].lock, "free", "poll"}
        /\ main' = main /\ main \notin Dead /\ k' = k /\ sub' = sub
    BY <2>1 DEF UnitThread, UnitRecord
  <2>3. units[u].lock # "destroyed"
    BY <2>2
  <2>4. main # "closedb" /\ ~(main = "units_join" /\ u < k)
    BY <2>2
  <2>5. QED
    BY <2>2, <2>3, <2>4
<1>25. CASE UNCHANGED vars
  BY <1>25 DEF vars
<1>26. QED
  BY <1>1, <1>2, <1>3, <1>4, <1>5, <1>6, <1>7, <1>8, <1>9, <1>10, <1>11,
     <1>12, <1>13, <1>14, <1>15, <1>16, <1>17, <1>18, <1>19, <1>20, <1>21,
     <1>22, <1>23, <1>24, <1>25 DEF Next, Main, Subscriber, Terminated

\* A step that leaves the publisher alone.
LEMMA PublishKept ==
  ASSUME PublishInv, pubVars' = pubVars, pub' = "send" <=> pub = "send"
  PROVE  PublishInv'
BY DEF PublishInv, EveryoneGetsEach, pubVars

\* A step that empties the list while nothing is being sent.
LEMMA ListEmptied ==
  ASSUME PublishInv, pub # "send", pub' # "send",
         InitOk \/ InitFails \/ Close
  PROVE  PublishInv'
<1> USE DEF PublishInv, EveryoneGetsEach
<1>1. CASE InitOk \/ InitFails
  <2>1. subs' = <<>> /\ UNCHANGED <<at, got, backlog, peer>>
    BY <1>1 DEF InitOk, InitFails
  <2>2. QED
    BY <2>1
<1>2. CASE Close
  BY <1>2 DEF Close
<1>3. QED
  BY <1>1, <1>2

\* Every subscriber keeps its place and its count.
LEMMA PublishStep == IInv /\ [Next]_vars => PublishInv'
<1> SUFFICES ASSUME IInv, [Next]_vars PROVE PublishInv'
  OBVIOUS
<1> USE DEF IInv, Goto, mainVars, flags, pubVars
<1>1. CASE Configure
  BY <1>1, PublishKept DEF Configure
<1>2. CASE StartUnit
  BY <1>2, PublishKept DEF StartUnit
<1>3. CASE StartPub
  BY <1>3, ListEmptied, PublishKept DEF StartPub, StageInv, Starting, Gone
<1>4. CASE StartPubThread
  BY <1>4, ListEmptied, PublishKept DEF StartPubThread, StageInv, Starting
<1>5. CASE StartSubThread
  BY <1>5, PublishKept DEF StartSubThread
<1>6. CASE UndoPub
  BY <1>6, ListEmptied, PublishKept DEF UndoPub, StageInv, Starting, Gone
<1>7. CASE StartAlarm
  BY <1>7, PublishKept DEF StartAlarm
<1>8. CASE Wait
  BY <1>8, PublishKept DEF Wait
<1>9. CASE StopAlarm
  BY <1>9, PublishKept DEF StopAlarm
<1>10. CASE StopBridge
  BY <1>10, PublishKept DEF StopBridge
<1>11. CASE JoinSub
  BY <1>11, PublishKept DEF JoinSub
<1>12. CASE JoinPub
  BY <1>12, ListEmptied, PublishKept DEF JoinPub, StageInv, Starting, Gone
<1>13. CASE StopUnits
  BY <1>13, PublishKept DEF StopUnits
<1>14. CASE JoinUnit
  BY <1>14, PublishKept DEF JoinUnit
<1>15. CASE CloseDb
  BY <1>15, PublishKept DEF CloseDb
<1>16. CASE Signal
  BY <1>16, PublishKept DEF Signal
<1>17. CASE SubSpins
  BY <1>17, PublishKept DEF SubSpins
<1>18. CASE SubLocks
  BY <1>18, PublishKept DEF SubLocks
<1>19. CASE SubUnlocks
  BY <1>19, PublishKept DEF SubUnlocks
<1>20. CASE SubCancelled
  BY <1>20, PublishKept DEF SubCancelled
<1>21. CASE PubThread
  <2> USE DEF PublishInv, EveryoneGetsEach
  <2>1. CASE pub # "send" /\ pub' # "send" /\ Poll
    <3>1. CASE UNCHANGED pubVars
      BY <2>1, <3>1, PublishKept
    <3>2. ASSUME NEW c \in backlog, backlog' = backlog \ {c},
                 subs' = Append(subs, c), UNCHANGED <<peer, at, got>>
          PROVE  PublishInv'
      <4>1. /\ subs' \in Seq(Clients) /\ DOMAIN subs' = 1 .. Len(subs) + 1
            /\ subs'[Len(subs) + 1] = c /\ DOMAIN subs = 1 .. Len(subs)
            /\ \A j \in DOMAIN subs : subs'[j] = subs[j]
        BY <3>2
      <4>2. \A j \in DOMAIN subs' : j \in DOMAIN subs \/ j = Len(subs) + 1
        BY <4>1
      <4>3. \A i, j \in DOMAIN subs' : subs'[i] = subs'[j] => i = j
        BY <3>2, <4>1, <4>2
      <4>4. \A j \in DOMAIN subs' : subs'[j] \notin backlog' /\ peer'[subs'[j]] # "away"
        BY <3>2, <4>1, <4>2
      <4>5. QED
        BY <2>1, <3>2, <4>1, <4>3, <4>4
    <3>3. ASSUME NEW c \in backlog, backlog' = backlog \ {c},
                 peer' = [peer EXCEPT ![c] = "away"], UNCHANGED <<subs, at, got>>
          PROVE  PublishInv'
      BY <2>1, <3>3
    <3>4. QED
      BY <2>1, <3>1, <3>2, <3>3 DEF Poll
  <2>2. CASE pub = "turn" /\ pub' = "send" /\ UNCHANGED pubVars
    BY <2>2
  <2>3. CASE pub # "send" /\ pub' # "send" /\ UNCHANGED pubVars
    BY <2>3, PublishKept
  <2>4. CASE pub = "send" /\ pub' = "send" /\ SendOk
    BY <2>4, SMTT(30) DEF SendOk
  <2>5. CASE pub = "send" /\ pub' = "send" /\ SendFails
    <3>1. at \in 1 .. Len(subs)
      BY <2>5 DEF SendFails
    <3>2. /\ subs' \in Seq(Clients)
          /\ DOMAIN subs' = 1 .. Len(subs) - 1
          /\ \A j \in 1 .. Len(subs) - 1 :
               subs'[j] = IF j < at THEN subs[j] ELSE subs[j + 1]
      BY <2>5, <3>1, Removed, SMTT(30) DEF SendFails
    <3>3. subs[at] \in Clients /\ at' = at /\ UNCHANGED <<got, backlog>>
          /\ peer' = [peer EXCEPT ![subs[at]] = "away"]
      BY <2>5, <3>1 DEF SendFails
    <3> DEFINE from(j) == IF j < at THEN j ELSE j + 1
    <3>4. \A j \in 1 .. Len(subs) - 1 :
            from(j) \in 1 .. Len(subs) /\ from(j) # at /\ (from(j) < at <=> j < at)
      BY <3>1
    <3>5. \A j \in DOMAIN subs' :
            /\ from(j) \in DOMAIN subs /\ from(j) # at
            /\ subs'[j] = subs[from(j)]
            /\ from(j) < at <=> j < at
      <4>1. ASSUME NEW j \in DOMAIN subs'
            PROVE  subs'[j] = subs[from(j)]
        BY <3>1, <3>2
      <4>2. DOMAIN subs = 1 .. Len(subs)
        OBVIOUS
      <4> HIDE DEF from
      <4>3. QED
        BY <3>2, <3>4, <4>1, <4>2
    <3>6. \A i, j \in DOMAIN subs' : from(i) = from(j) => i = j
      <4>1. ASSUME NEW i \in Nat, NEW j \in Nat, from(i) = from(j) PROVE i = j
        <5>1. at \in Nat
          OBVIOUS
        <5> HIDE DEF PublishInv
        <5>2. QED
          BY <4>1, <5>1
      <4>2. \A j \in DOMAIN subs' : j \in Nat
        BY <3>1, <3>2
      <4> HIDE DEF from
      <4>3. QED
        BY <4>1, <4>2
    <3> HIDE DEF from
    <3>7. \A j \in DOMAIN subs' : subs'[j] # subs[at]
      BY <3>1, <3>5
    <3>8. \A i, j \in DOMAIN subs' : subs'[i] = subs'[j] => i = j
      BY <3>5, <3>6
    <3>9. \A j \in DOMAIN subs' : subs'[j] \notin backlog' /\ peer'[subs'[j]] # "away"
      BY <3>2, <3>3, <3>5, <3>7
    <3>10. \A c \in backlog' : peer'[c] # "away"
      BY <3>1, <3>3
    <3>11. \A j \in DOMAIN subs' : got'[subs'[j]] = IF j < at THEN 1 ELSE 0
      BY <2>5, <3>2, <3>3, <3>5, SMTT(30)
    <3>12. QED
      BY <2>5, <3>2, <3>3, <3>8, <3>9, <3>10, <3>11
  <2>6. CASE pub = "send" /\ pub' = "turn" /\ PublishEnds
    BY <2>6 DEF PublishEnds
  <2>7. QED
    BY <1>21, <2>1, <2>2, <2>3, <2>4, <2>5, <2>6 DEF PubThread
<1>22. CASE AlarmThread
  BY <1>22, PublishKept DEF AlarmThread
<1>23. CASE Environment
  <2> PICK c \in Clients : PeerConnects(c) \/ PeerReads(c) \/ PeerLeaves(c)
    BY <1>23 DEF Environment, Peers
  <2>1. pub' = pub
    BY <1>23 DEF Environment
  <2>2. CASE PeerConnects(c)
    BY <2>1, <2>2 DEF PeerConnects, PublishInv, EveryoneGetsEach
  <2>3. CASE PeerReads(c)
    BY <2>1, <2>3 DEF PeerReads, PublishInv, EveryoneGetsEach
  <2>4. CASE PeerLeaves(c)
    BY <2>1, <2>4 DEF PeerLeaves, PublishInv, EveryoneGetsEach
  <2>5. QED
    BY <2>2, <2>3, <2>4
<1>24. CASE \E u \in DOMAIN units : UnitThread(u)
  BY <1>24, PublishKept DEF UnitThread
<1>25. CASE UNCHANGED vars
  BY <1>25, PublishKept DEF vars
<1>26. QED
  BY <1>1, <1>2, <1>3, <1>4, <1>5, <1>6, <1>7, <1>8, <1>9, <1>10, <1>11,
     <1>12, <1>13, <1>14, <1>15, <1>16, <1>17, <1>18, <1>19, <1>20, <1>21,
     <1>22, <1>23, <1>24, <1>25 DEF Next, Main, Subscriber, Terminated
-----------------------------------------------------------------------------
LEMMA Inductive == Spec => []IInv
<1>1. IInv /\ [Next]_vars => IInv'
  <2> SUFFICES ASSUME IInv, [Next]_vars PROVE IInv'
    OBVIOUS
  <2>1. Types' /\ StageInv' /\ UnitInv' /\ PublishInv'
    BY TypesStep, StageStep, UnitStep, PublishStep
  <2>2. QED
    BY <2>1 DEF IInv
<1>2. QED
  BY InitIInv, <1>1, PTL DEF Spec

\* Whichever part failed to start and whenever the signal came, nothing is
\* closed or destroyed under a thread that uses it, and main() returns only
\* when every thread is joined, every descriptor and the database closed
\* (main(), inverter_cmos_bridge_stop(), stop_inverter_modules()).
THEOREM LifetimesAreNested == Spec => []ResourceLifetimes
<1>1. IInv => ResourceLifetimes
  <2> SUFFICES ASSUME IInv PROVE ResourceLifetimes
    OBVIOUS
  <2> USE DEF IInv, StageInv, UnitsStop, BridgeStop
  <2>1. pub \notin Gone => fds = Fds
    OBVIOUS
  <2>2. \A u \in DOMAIN units :
          units[u].lock = "destroyed" => units[u].th = "ended" /\ sub.th \in Gone
    BY DEF UnitInv
  <2>3. main = "done" => /\ {pub, sub.th, alarm} \subseteq Gone
                         /\ \A u \in DOMAIN units : units[u].th = "ended"
                         /\ fds = {} /\ subs = <<>> /\ ~db
    BY DEF UnitInv
  <2>4. QED
    BY <2>1, <2>2, <2>3 DEF ResourceLifetimes
<1>2. QED
  BY Inductive, <1>1, PTL

\* A shutdown that follows a successful start of the bridge cancels and joins
\* existing threads only (inverter_cmos_bridge_stop()).
THEOREM StartedBridgeStops == Spec => []CrashNeedsFailedBridge
<1>1. IInv => CrashNeedsFailedBridge
  BY DEF IInv, StageInv, CrashNeedsFailedBridge
<1>2. QED
  BY Inductive, <1>1, PTL

\* A line goes to every subscriber of the list exactly once, however many of
\* them fail and are dropped on the way (cmos_publish()).
THEOREM LinesReachEveryone == Spec => []EveryoneGetsEach
<1>1. IInv => EveryoneGetsEach
  BY DEF IInv, PublishInv
<1>2. QED
  BY Inductive, <1>1, PTL
=============================================================================
