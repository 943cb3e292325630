---------------------------- MODULE CmdQueueProofs ----------------------------
(***************************************************************************)
(* The ring buffer of inverter_module.c is a bounded FIFO queue, for every *)
(* capacity, every set of producers and every set of commands.             *)
(***************************************************************************)
EXTENDS CmdQueue, SequenceTheorems, TLAPS

\* Ring arithmetic: the slot k places after h, without the remainder.
LEMMA SlotArithmetic ==
  ASSUME NEW h \in Slots, NEW k \in 0 .. Capacity
  PROVE  (h + k) % Capacity =
           IF h + k < Capacity THEN h + k ELSE h + k - Capacity
<1>1. CASE h + k < Capacity
  <2>. DEFINE x == h + k
  <2>1. x \in Nat /\ x < Capacity
    BY <1>1, CapacityAssumption DEF Slots
  <2>. HIDE DEF x
  <2>2. x % Capacity = x
    BY <2>1, CapacityAssumption
  <2>. QED  BY <1>1, <2>2 DEF x
<1>2. CASE h + k >= Capacity
  <2>. DEFINE x == h + k
  <2>1. x \in Nat /\ Capacity <= x /\ x < 2 * Capacity
    BY <1>2, CapacityAssumption DEF Slots
  <2>. HIDE DEF x
  <2>2. x % Capacity = x - Capacity
    BY <2>1, CapacityAssumption, Z3
  <2>. QED  BY <1>2, <2>2, CapacityAssumption DEF x, Slots
<1>. QED  BY <1>1, <1>2, CapacityAssumption DEF Slots

\* queue_push and queue_pop keep their index inside the entries array.
LEMMA NextSlotInRange ==
  ASSUME NEW h \in Slots
  PROVE  /\ NextSlot(h) \in Slots
         /\ NextSlot(h) = IF h + 1 < Capacity THEN h + 1 ELSE 0
<1>1. 1 \in 0 .. Capacity  BY CapacityAssumption
<1>2. (h + 1) % Capacity = IF h + 1 < Capacity THEN h + 1 ELSE h + 1 - Capacity
  BY <1>1, SlotArithmetic
<1>. QED  BY <1>2, CapacityAssumption DEF Slots, NextSlot
-----------------------------------------------------------------------------
(***************************************************************************)
(* RingConsistent is not inductive by itself: an index moves in a later    *)
(* step than the entry it uncovers is written or read, so that the         *)
(* invariant must say what a thread inside its critical section may count  *)
(* on, and that it is alone there.                                         *)
(***************************************************************************)
ProducerInv(p) ==
  /\ ppc[p] \in {"locked", "stored"} => owner = p /\ request[p] \in ValidCmd
  /\ ppc[p] = "idle" <=> request[p] = NoCmd
  /\ ppc[p] = "stored" => count < Capacity /\ entries[tail] = request[p]

ConsumerInv ==
  /\ cpc \in {"locked", "copied"} => owner = "consumer"
  /\ cpc = "copied" => count # 0 /\ out = entries[head]
  /\ cpc = "execute" => out \in Cmd

IInv == TypeOK /\ RingConsistent /\ ConsumerInv /\ \A p \in Producers : ProducerInv(p)

LEMMA InitIInv == Init => IInv
<1>. SUFFICES ASSUME Init PROVE IInv  OBVIOUS
<1>. USE CapacityAssumption, CmdAssumption DEF Init
<1>1. TypeOK  BY DEF TypeOK, Slots
<1>2. RingConsistent
  <2>1. 0 \in Slots /\ 0 \in 0 .. Capacity  BY DEF Slots
  <2>2. (0 + 0) % Capacity = 0  BY <2>1, SlotArithmetic
  <2>. QED  BY <2>2 DEF RingConsistent, LiveSlot
<1>3. ConsumerInv  BY DEF ConsumerInv
<1>4. \A p \in Producers : ProducerInv(p)  BY DEF ProducerInv
<1>. QED  BY <1>1, <1>2, <1>3, <1>4 DEF IInv

LEMMA NextIInv == IInv /\ [Next]_vars => IInv'
<1>. SUFFICES ASSUME IInv, [Next]_vars PROVE IInv'  OBVIOUS
<1>. USE CapacityAssumption, CmdAssumption, ThreadAssumption
<1>ty. TypeOK /\ RingConsistent /\ ConsumerInv /\ \A p \in Producers : ProducerInv(p)
  BY DEF IInv
<1>1. ASSUME NEW p \in Producers, NEW c \in Cmd, PushCall(p, c) PROVE IInv'
  <2>. USE <1>ty, <1>1 DEF PushCall, qvars
  <2>1. TypeOK'  BY DEF TypeOK
  <2>2. RingConsistent'  BY DEF RingConsistent, LiveSlot
  <2>3. ConsumerInv'  BY DEF ConsumerInv
  <2>4. \A r \in Producers : ProducerInv(r)'  BY DEF ProducerInv, TypeOK
  <2>. QED  BY <2>1, <2>2, <2>3, <2>4 DEF IInv
<1>2. ASSUME NEW p \in Producers, PushBadCount(p) PROVE IInv'
  <2>. USE <1>ty, <1>2 DEF PushBadCount, PushReturn, qvars
  <2>1. TypeOK'  BY DEF TypeOK
  <2>2. RingConsistent'  BY DEF RingConsistent, LiveSlot
  <2>3. ConsumerInv'  BY DEF ConsumerInv
  <2>4. \A r \in Producers : ProducerInv(r)'  BY DEF ProducerInv, TypeOK
  <2>. QED  BY <2>1, <2>2, <2>3, <2>4 DEF IInv
<1>3. ASSUME NEW p \in Producers, PushLock(p) PROVE IInv'
  <2>. USE <1>ty, <1>3 DEF PushLock, qvars
  <2>1. TypeOK'  BY DEF TypeOK
  <2>2. RingConsistent'  BY DEF RingConsistent, LiveSlot
  <2>3. ConsumerInv'  BY DEF ConsumerInv
  <2>4. \A r \in Producers : ProducerInv(r)'  BY DEF ProducerInv, TypeOK
  <2>. QED  BY <2>1, <2>2, <2>3, <2>4 DEF IInv
<1>4. ASSUME NEW p \in Producers, PushFull(p) PROVE IInv'
  <2>. USE <1>ty, <1>4 DEF PushFull, PushReturn, qvars
  <2>1. TypeOK'  BY DEF TypeOK
  <2>2. RingConsistent'  BY DEF RingConsistent, LiveSlot
  <2>3. ConsumerInv'  BY DEF ConsumerInv, ProducerInv
  <2>4. \A r \in Producers : ProducerInv(r)'  BY DEF ProducerInv, TypeOK
  <2>. QED  BY <2>1, <2>2, <2>3, <2>4 DEF IInv
<1>5. ASSUME NEW p \in Producers, PushStore(p) PROVE IInv'
  <2>. USE <1>ty, <1>5 DEF PushStore
  <2>1. TypeOK'  BY DEF TypeOK
  <2>2. RingConsistent'
    <3>1. ASSUME NEW k \in 0 .. count - 1 PROVE LiveSlot(k) # tail /\ LiveSlot(k) \in Slots
      <4>1. k \in 0 .. Capacity /\ count \in 0 .. Capacity /\ head \in Slots /\ k < count
        BY DEF TypeOK
      <4>2. LiveSlot(k) = IF head + k < Capacity THEN head + k ELSE head + k - Capacity
        BY <4>1, SlotArithmetic DEF LiveSlot
      <4>3. tail = IF head + count < Capacity THEN head + count ELSE head + count - Capacity
        BY <4>1, SlotArithmetic DEF LiveSlot, RingConsistent
      <4>4. count < Capacity  OBVIOUS
      <4>. QED  BY <4>1, <4>2, <4>3, <4>4 DEF Slots
    <3>. QED  BY <3>1 DEF RingConsistent, LiveSlot, TypeOK
  <2>3. ConsumerInv'  BY DEF ConsumerInv, ProducerInv
  <2>4. \A r \in Producers : ProducerInv(r)'  BY DEF ProducerInv, TypeOK
  <2>. QED  BY <2>1, <2>2, <2>3, <2>4 DEF IInv
<1>6. ASSUME NEW p \in Producers, PushAdvance(p) PROVE IInv'
  <2>. USE <1>ty, <1>6 DEF PushAdvance, PushReturn
  <2>0. count < Capacity /\ entries[tail] = request[p] /\ request[p] \in ValidCmd /\ owner = p
    BY DEF ProducerInv
  <2>1. TypeOK'  BY <2>0, NextSlotInRange DEF TypeOK
  <2>2. RingConsistent'
    <3>1. tail' = LiveSlot(count)'
      <4>1. count \in 0 .. Capacity /\ count + 1 \in 0 .. Capacity /\ head \in Slots /\ tail \in Slots
        BY <2>0 DEF TypeOK
      <4>2. tail = IF head + count < Capacity THEN head + count ELSE head + count - Capacity
        BY <4>1, SlotArithmetic DEF LiveSlot, RingConsistent
      <4>3. (head + (count + 1)) % Capacity =
              IF head + (count + 1) < Capacity THEN head + (count + 1) ELSE head + (count + 1) - Capacity
        BY <4>1, SlotArithmetic
      <4>4. NextSlot(tail) = IF tail + 1 < Capacity THEN tail + 1 ELSE 0
        BY <4>1, NextSlotInRange
      <4>5. NextSlot(tail) = (head + (count + 1)) % Capacity
        BY <4>1, <4>2, <4>3, <4>4, <2>0 DEF Slots
      <4>. QED  BY <4>5 DEF LiveSlot
    <3>2. ASSUME NEW k \in 0 .. count' - 1 PROVE entries'[LiveSlot(k)'] \in ValidCmd
      <4>1. LiveSlot(k)' = LiveSlot(k)  BY DEF LiveSlot
      <4>2. CASE k = count  BY <4>1, <4>2, <2>0 DEF RingConsistent
      <4>3. CASE k # count
        <5>1. k \in 0 .. count - 1  BY <4>3 DEF TypeOK
        <5>. QED  BY <4>1, <5>1 DEF RingConsistent
      <4>. QED  BY <4>2, <4>3
    <3>. QED  BY <3>1, <3>2 DEF RingConsistent
  <2>3. ConsumerInv'  BY <2>0 DEF ConsumerInv, TypeOK
  <2>4. \A r \in Producers : ProducerInv(r)'  BY <2>0 DEF ProducerInv, TypeOK, ValidCmd
  <2>. QED  BY <2>1, <2>2, <2>3, <2>4 DEF IInv
<1>7. CASE PopLock
  <2>. USE <1>ty, <1>7 DEF PopLock, qvars
  <2>1. TypeOK'  BY DEF TypeOK
  <2>2. RingConsistent'  BY DEF RingConsistent, LiveSlot
  <2>3. ConsumerInv'  BY DEF ConsumerInv
  <2>4. \A r \in Producers : ProducerInv(r)'  BY DEF ProducerInv, TypeOK
  <2>. QED  BY <2>1, <2>2, <2>3, <2>4 DEF IInv
<1>8. CASE PopEmpty
  <2>. USE <1>ty, <1>8 DEF PopEmpty, qvars
  <2>1. TypeOK'  BY DEF TypeOK
  <2>2. RingConsistent'  BY DEF RingConsistent, LiveSlot
  <2>3. ConsumerInv'  BY DEF ConsumerInv
  <2>4. \A r \in Producers : ProducerInv(r)'  BY DEF ProducerInv, ConsumerInv, TypeOK
  <2>. QED  BY <2>1, <2>2, <2>3, <2>4 DEF IInv
<1>9. CASE PopCopy
  <2>. USE <1>ty, <1>9 DEF PopCopy, qvars
  <2>1. TypeOK'  BY DEF TypeOK
  <2>2. RingConsistent'  BY DEF RingConsistent, LiveSlot
  <2>3. ConsumerInv'  BY DEF ConsumerInv
  <2>4. \A r \in Producers : ProducerInv(r)'  BY DEF ProducerInv, TypeOK
  <2>. QED  BY <2>1, <2>2, <2>3, <2>4 DEF IInv
<1>10. CASE PopAdvance
  <2>. USE <1>ty, <1>10 DEF PopAdvance
  <2>0. count # 0 /\ out = entries[head] /\ owner = "consumer"
    BY DEF ConsumerInv
  <2>1. TypeOK'  BY <2>0, NextSlotInRange DEF TypeOK
  <2>5. ASSUME NEW k \in 0 .. count - 1 PROVE (head' + k) % Capacity = (head + (k + 1)) % Capacity
    <3>1. k \in 0 .. Capacity /\ k + 1 \in 0 .. Capacity /\ head \in Slots /\ head' \in Slots
      BY <2>0, <2>1 DEF TypeOK
    <3>2. (head' + k) % Capacity =
            IF head' + k < Capacity THEN head' + k ELSE head' + k - Capacity
      BY <3>1, SlotArithmetic
    <3>3. (head + (k + 1)) % Capacity =
            IF head + (k + 1) < Capacity THEN head + (k + 1) ELSE head + (k + 1) - Capacity
      BY <3>1, SlotArithmetic
    <3>4. head' = IF head + 1 < Capacity THEN head + 1 ELSE 0
      BY <3>1, NextSlotInRange
    <3>. QED  BY <3>1, <3>2, <3>3, <3>4 DEF Slots
  <2>2. RingConsistent'
    <3>1. tail' = LiveSlot(count)'
      <4>1. count \in Nat /\ count - 1 \in 0 .. count - 1  BY <2>0 DEF TypeOK
      <4>2. (head' + (count - 1)) % Capacity = (head + ((count - 1) + 1)) % Capacity
        BY <4>1, <2>5
      <4>3. (count - 1) + 1 = count  BY <4>1
      <4>. QED  BY <4>2, <4>3 DEF LiveSlot, RingConsistent
    <3>2. ASSUME NEW k \in 0 .. count' - 1 PROVE entries'[LiveSlot(k)'] \in ValidCmd
      <4>1. k \in 0 .. count - 1 /\ k + 1 \in 0 .. count - 1  BY <2>0 DEF TypeOK
      <4>2. LiveSlot(k)' = LiveSlot(k + 1)  BY <4>1, <2>5 DEF LiveSlot
      <4>. QED  BY <4>1, <4>2 DEF RingConsistent
    <3>. QED  BY <3>1, <3>2 DEF RingConsistent
  <2>3. ConsumerInv'
    <3>1. 0 \in 0 .. count - 1  BY <2>0 DEF TypeOK
    <3>2. LiveSlot(0) = head
      <4>1. head \in Slots /\ 0 \in 0 .. Capacity  BY DEF TypeOK
      <4>2. (head + 0) % Capacity =
              IF head + 0 < Capacity THEN head + 0 ELSE head + 0 - Capacity
        BY <4>1, SlotArithmetic
      <4>. QED  BY <4>1, <4>2 DEF LiveSlot, Slots
    <3>3. entries[head] \in Cmd  BY <3>1, <3>2 DEF RingConsistent, ValidCmd
    <3>. QED  BY <2>0, <3>3 DEF ConsumerInv
  <2>4. \A r \in Producers : ProducerInv(r)'  BY <2>0 DEF ProducerInv, TypeOK
  <2>. QED  BY <2>1, <2>2, <2>3, <2>4 DEF IInv
<1>11. CASE Execute
  <2>. USE <1>ty, <1>11 DEF Execute, qvars
  <2>1. TypeOK'  BY DEF TypeOK
  <2>2. RingConsistent'  BY DEF RingConsistent, LiveSlot
  <2>3. ConsumerInv'  BY DEF ConsumerInv
  <2>4. \A r \in Producers : ProducerInv(r)'  BY DEF ProducerInv, TypeOK
  <2>. QED  BY <2>1, <2>2, <2>3, <2>4 DEF IInv
<1>12. CASE UNCHANGED vars
  BY <1>ty, <1>12
     DEF vars, IInv, TypeOK, RingConsistent, LiveSlot, ConsumerInv, ProducerInv
<1>. QED
  BY <1>1, <1>2, <1>3, <1>4, <1>5, <1>6, <1>7, <1>8, <1>9, <1>10, <1>11, <1>12
     DEF Next, Producer, Consumer

\* The variables of the queue and its users never leave their ranges: no
\* index leaves the entries array and count never exceeds the capacity.
THEOREM TypeCorrect == Spec => []TypeOK
<1>1. Init => IInv  BY InitIInv
<1>2. IInv /\ [Next]_vars => IInv'  BY NextIInv
<1>3. IInv => TypeOK  BY DEF IInv
<1>. QED  BY <1>1, <1>2, <1>3, PTL DEF Spec

\* head, tail and count always describe one window of the ring, and every
\* entry of that window was stored by a producer.
THEOREM RingCorrect == Spec => []RingConsistent
<1>1. Init => IInv  BY InitIInv
<1>2. IInv /\ [Next]_vars => IInv'  BY NextIInv
<1>3. IInv => RingConsistent  BY DEF IInv
<1>. QED  BY <1>1, <1>2, <1>3, PTL DEF Spec
-----------------------------------------------------------------------------
\* The commands of the window, oldest first: the queue of the abstraction.
Window == [k \in 1 .. count |-> entries[LiveSlot(k - 1)]]

\* A window that grows by one entry at its end is an Append.
LEMMA AppendExtends ==
  ASSUME NEW S, NEW n \in Nat, NEW f \in [1 .. n -> S], NEW e \in S,
         NEW g \in [1 .. n + 1 -> S],
         \A k \in 1 .. n : g[k] = f[k], g[n + 1] = e
  PROVE  g = Append(f, e)
<1>1. f \in Seq(S) /\ Len(f) = n  OBVIOUS
<1>2. g \in Seq(S) /\ Len(g) = n + 1  OBVIOUS
<1>3. Append(f, e) \in Seq(S) /\ Len(Append(f, e)) = n + 1
  BY <1>1, AppendProperties
<1>4. \A k \in 1 .. n + 1 : Append(f, e)[k] = g[k]
  BY <1>1, AppendProperties
<1>. QED  BY <1>2, <1>3, <1>4, SeqEqual

\* A window that loses its first entry is a Tail.
LEMMA TailDrops ==
  ASSUME NEW S, NEW n \in Nat, NEW f \in [1 .. n + 1 -> S],
         NEW g \in [1 .. n -> S],
         \A k \in 1 .. n : g[k] = f[k + 1]
  PROVE  f # << >> /\ Head(f) = f[1] /\ g = Tail(f)
<1>1. f \in Seq(S) /\ Len(f) = n + 1  OBVIOUS
<1>2. f # << >>  BY <1>1
<1>3. g \in Seq(S) /\ Len(g) = n  OBVIOUS
<1>4. /\ Head(f) = f[1]
      /\ Tail(f) \in Seq(S)
      /\ Len(Tail(f)) = n
      /\ \A k \in 1 .. n : Tail(f)[k] = f[k + 1]
  BY <1>1, <1>2, HeadTailProperties
<1>. QED  BY <1>2, <1>3, <1>4, SeqEqual

\* The window is a sequence of commands of length count.
LEMMA WindowIsSeq ==
  IInv => Window \in [1 .. count -> Cmd] /\ Len(Window) = count
<1>. SUFFICES ASSUME IInv PROVE Window \in [1 .. count -> Cmd] /\ Len(Window) = count
  OBVIOUS
<1>1. count \in Nat  BY CapacityAssumption DEF IInv, TypeOK
<1>2. ASSUME NEW k \in 1 .. count PROVE entries[LiveSlot(k - 1)] \in Cmd
  <2>1. k - 1 \in 0 .. count - 1  BY <1>1
  <2>. QED  BY <2>1 DEF IInv, RingConsistent, ValidCmd
<1>3. Window \in [1 .. count -> Cmd]  BY <1>2 DEF Window
<1>. QED  BY <1>1, <1>3 DEF Window

LEMMA InitRefines == Init => Fifo!Init
<1>. SUFFICES ASSUME Init PROVE Fifo!Init  OBVIOUS
<1>1. Window = << >>  BY DEF Init, Window
<1>. QED  BY <1>1 DEF Init, Fifo!Init, Window

\* Every step of a thread is a step of the abstract queue or leaves it alone.
LEMMA StepRefines == IInv /\ IInv' /\ [Next]_vars => [Fifo!Next]_(Fifo!vars)
<1>. SUFFICES ASSUME IInv, IInv', [Next]_vars PROVE [Fifo!Next]_(Fifo!vars)  OBVIOUS
<1>. USE CapacityAssumption, CmdAssumption
<1>ty. TypeOK /\ RingConsistent /\ ConsumerInv /\ \A p \in Producers : ProducerInv(p)
  BY DEF IInv
<1>w. /\ Window \in [1 .. count -> Cmd] /\ Len(Window) = count
      /\ Window' \in [1 .. count' -> Cmd] /\ Len(Window') = count'
      /\ count \in Nat /\ count' \in Nat
  <2>1. Window \in [1 .. count -> Cmd] /\ Len(Window) = count
    BY WindowIsSeq
  <2>2. (Window \in [1 .. count -> Cmd] /\ Len(Window) = count)'
    BY WindowIsSeq, PTL
  <2>. QED  BY <2>1, <2>2 DEF IInv, TypeOK
<1>q. ASSUME UNCHANGED qvars PROVE UNCHANGED Window
  BY <1>q DEF qvars, Window, LiveSlot
<1>1. ASSUME NEW p \in Producers, NEW c \in Cmd, PushCall(p, c) PROVE Fifo!Call(p, c)
  <2>1. request[p] = NoCmd  BY <1>ty, <1>1 DEF PushCall, ProducerInv
  <2>2. UNCHANGED Window  BY <1>1, <1>q DEF PushCall
  <2>. QED  BY <1>1, <2>1, <2>2 DEF PushCall, Fifo!Call, Window
<1>2. ASSUME NEW p \in Producers, PushBadCount(p) PROVE Fifo!Refuse(p)
  <2>1. request[p] # NoCmd  BY <1>ty, <1>2 DEF PushBadCount, ProducerInv
  <2>2. UNCHANGED Window  BY <1>2, <1>q DEF PushBadCount
  <2>. QED  BY <1>2, <2>1, <2>2 DEF PushBadCount, PushReturn, Fifo!Refuse, Fifo!Return, Window
<1>3. ASSUME NEW p \in Producers, PushLock(p) PROVE UNCHANGED Fifo!vars
  <2>1. UNCHANGED Window  BY <1>3, <1>q DEF PushLock
  <2>. QED  BY <1>3, <2>1 DEF PushLock, Fifo!vars, Window
<1>4. ASSUME NEW p \in Producers, PushFull(p) PROVE Fifo!Refuse(p)
  <2>1. request[p] # NoCmd  BY <1>ty, <1>4 DEF PushFull, ProducerInv
  <2>2. UNCHANGED Window  BY <1>4, <1>q DEF PushFull
  <2>3. Len(Window) >= Capacity  BY <1>w, <1>4 DEF PushFull
  <2>. QED  BY <1>4, <2>1, <2>2, <2>3 DEF PushFull, PushReturn, Fifo!Refuse, Fifo!Return, Window
<1>5. ASSUME NEW p \in Producers, PushStore(p) PROVE UNCHANGED Fifo!vars
  <2>1. ASSUME NEW k \in 1 .. count PROVE LiveSlot(k - 1) # tail
    <3>1. /\ k - 1 \in 0 .. Capacity /\ count \in 0 .. Capacity /\ head \in Slots
          /\ k - 1 < count /\ k \in Nat /\ count < Capacity
      BY <1>ty, <1>5 DEF TypeOK, PushStore
    <3>2. LiveSlot(k - 1) = IF head + (k - 1) < Capacity THEN head + (k - 1)
                                                       ELSE head + (k - 1) - Capacity
      BY <3>1, SlotArithmetic DEF LiveSlot
    <3>3. tail = IF head + count < Capacity THEN head + count ELSE head + count - Capacity
      BY <3>1, <1>ty, SlotArithmetic DEF LiveSlot, RingConsistent
    <3>. QED  BY <3>1, <3>2, <3>3 DEF Slots
  <2>2. UNCHANGED <<head, tail, count, owner, request, ret, cpc, out>>
    BY <1>5 DEF PushStore
  <2>3. ASSUME NEW k \in 1 .. count PROVE entries'[LiveSlot(k - 1)'] = entries[LiveSlot(k - 1)]
    BY <1>ty, <1>5, <2>1, <2>2 DEF PushStore, TypeOK, LiveSlot
  <2>4. UNCHANGED Window  BY <2>2, <2>3 DEF Window
  <2>. QED  BY <2>2, <2>4 DEF Fifo!vars, Window
<1>6. ASSUME NEW p \in Producers, PushAdvance(p) PROVE Fifo!Accept(p)
  <2>1. count < Capacity /\ entries[tail] = request[p] /\ request[p] \in ValidCmd
    BY <1>ty, <1>6 DEF PushAdvance, ProducerInv
  <2>2. /\ request[p] # NoCmd /\ request[p] \in Cmd
    BY <2>1 DEF ValidCmd
  <2>3. /\ count' = count + 1 /\ UNCHANGED <<entries, head, cpc, out>>
    BY <1>6 DEF PushAdvance
  <2>4. \A k \in 1 .. count : Window'[k] = Window[k]
    BY <2>3, <1>w DEF Window, LiveSlot
  <2>5. Window'[count + 1] = request[p]
    <3>1. count + 1 \in 1 .. count'  BY <2>3, <1>w
    <3>2. Window'[count + 1] = entries[(head + ((count + 1) - 1)) % Capacity]
      BY <2>3, <3>1 DEF Window, LiveSlot
    <3>3. (count + 1) - 1 = count  BY <1>w
    <3>. QED  BY <3>2, <3>3, <2>1, <1>ty DEF RingConsistent, LiveSlot
  <2>6. Window' = Append(Window, request[p])
    <3>1. Window' \in [1 .. count + 1 -> Cmd]  BY <1>w, <2>3
    <3>. HIDE DEF Window
    <3>. QED  BY <1>w, <2>2, <2>4, <2>5, <3>1, AppendExtends
  <2>7. Len(Window) < Capacity  BY <1>w, <2>1
  <2>. QED
    BY <1>6, <2>1, <2>2, <2>6, <2>7 DEF PushAdvance, PushReturn, Fifo!Accept, Fifo!Return, Window
<1>7. CASE PopLock
  <2>1. UNCHANGED Window  BY <1>7, <1>q DEF PopLock
  <2>. QED  BY <1>7, <2>1 DEF PopLock, Fifo!vars, Window
<1>8. CASE PopEmpty
  <2>1. UNCHANGED Window  BY <1>8, <1>q DEF PopEmpty
  <2>. QED  BY <1>8, <2>1 DEF PopEmpty, Fifo!vars, Window
<1>9. CASE PopCopy
  <2>1. UNCHANGED Window  BY <1>9, <1>q DEF PopCopy
  <2>. QED  BY <1>9, <2>1 DEF PopCopy, Fifo!vars, Window
<1>10. ASSUME PopAdvance PROVE Fifo!HandOver
  <2>1. count # 0 /\ out = entries[head]  BY <1>ty, <1>10 DEF PopAdvance, ConsumerInv
  <2>2. UNCHANGED <<entries, out>> /\ head' = NextSlot(head)
    BY <1>10 DEF PopAdvance
  <2>3. head \in Slots /\ count \in 0 .. Capacity  BY <1>ty DEF TypeOK
  <2>n. PICK n \in Nat : count' = n /\ count = n + 1
    <3>1. count - 1 \in Nat /\ count = (count - 1) + 1  BY <1>w, <2>1
    <3>. QED  BY <1>10, <3>1 DEF PopAdvance
  <2>4. ASSUME NEW k \in 1 .. n PROVE Window'[k] = Window[k + 1]
    <3>1. k - 1 \in 0 .. Capacity /\ k \in 0 .. Capacity /\ k + 1 \in 1 .. count /\ (k + 1) - 1 = k
      BY <2>n, <2>3
    <3>2. head' \in Slots /\ head' = IF head + 1 < Capacity THEN head + 1 ELSE 0
      BY <2>2, <2>3, NextSlotInRange
    <3>3. (head' + (k - 1)) % Capacity =
            IF head' + (k - 1) < Capacity THEN head' + (k - 1) ELSE head' + (k - 1) - Capacity
      BY <3>1, <3>2, SlotArithmetic
    <3>4. (head + k) % Capacity = IF head + k < Capacity THEN head + k ELSE head + k - Capacity
      BY <3>1, <2>3, SlotArithmetic
    <3>5. (head' + (k - 1)) % Capacity = (head + k) % Capacity
      BY <3>1, <3>2, <3>3, <3>4, <2>3 DEF Slots
    <3>6. Window'[k] = entries[(head' + (k - 1)) % Capacity]
      BY <2>2, <2>n DEF Window, LiveSlot
    <3>7. Window[k + 1] = entries[(head + k) % Capacity]
      BY <3>1 DEF Window, LiveSlot
    <3>. QED  BY <3>5, <3>6, <3>7
  <2>5. Window # << >> /\ Head(Window) = Window[1] /\ Window' = Tail(Window)
    <3>1. Window \in [1 .. n + 1 -> Cmd] /\ Window' \in [1 .. n -> Cmd]  BY <1>w, <2>n
    <3>. HIDE DEF Window
    <3>. QED  BY <2>4, <3>1, TailDrops
  <2>6. Window[1] = out
    <3>1. 1 \in 1 .. count /\ 1 - 1 = 0 /\ 0 \in 0 .. Capacity  BY <1>w, <2>1
    <3>2. (head + 0) % Capacity =
            IF head + 0 < Capacity THEN head + 0 ELSE head + 0 - Capacity
      BY <3>1, <2>3, SlotArithmetic
    <3>3. (head + 0) % Capacity = head  BY <3>2, <2>3 DEF Slots
    <3>. QED  BY <3>1, <3>3, <2>1 DEF Window, LiveSlot
  <2>. QED  BY <1>10, <2>5, <2>6 DEF PopAdvance, Fifo!HandOver, Window
<1>11. ASSUME Execute PROVE Fifo!Executed
  <2>1. out # NoCmd  BY <1>ty, <1>11 DEF Execute, ConsumerInv
  <2>2. UNCHANGED Window  BY <1>11, <1>q DEF Execute
  <2>. QED  BY <1>11, <2>1, <2>2 DEF Execute, Fifo!Executed, Window
<1>12. CASE UNCHANGED vars
  <2>1. UNCHANGED Window  BY <1>12, <1>q DEF vars, qvars
  <2>. QED  BY <1>12, <2>1 DEF vars, Fifo!vars, Window
<1>. QED
  BY <1>1, <1>2, <1>3, <1>4, <1>5, <1>6, <1>7, <1>8, <1>9, <1>10, <1>11, <1>12
     DEF Next, Producer, Consumer, Fifo!Next

\* The ring buffer implements the bounded FIFO queue: every accepted command
\* is handed to the poll thread once and in order, and a push is refused only
\* for a bad register count or a full queue.
THEOREM QueueRefinesFifo == Spec => ImplementsFifo
<1>1. Init => IInv /\ Fifo!Init  BY InitIInv, InitRefines
<1>2. IInv /\ [Next]_vars => IInv'  BY NextIInv
<1>3. IInv /\ IInv' /\ [Next]_vars => [Fifo!Next]_(Fifo!vars)  BY StepRefines
<1>. QED  BY <1>1, <1>2, <1>3, PTL DEF Spec, ImplementsFifo, Fifo!Spec
=============================================================================
