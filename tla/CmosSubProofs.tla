----------------------------- MODULE CmosSubProofs -----------------------------
(***************************************************************************)
(* What the handlers of the HMI's commands may rely on, for every number   *)
(* of publishers, slots and connections, every length of a line that fits  *)
(* the buffer, and whatever master, publishers and network do.             *)
(***************************************************************************)
EXTENDS CmosSub, SequenceTheorems, TLAPS

Connection ==
  [active : BOOLEAN, slot : Nat, node : Nodes \cup {Closed.node}, up : BOOLEAN,
   stream : Seq(Nat), rx : Seq(Nat), next : Nat]

\* The piece at a place of an endless stream of lines, counted from 0.
Piece(place) == (place % LineLen) + 1

\* The pieces of q are the ones that follow the first d of the stream.
InStep(q, d) == \A k \in 1 .. Len(q) : q[k] = Piece(d + (k - 1))

\* Buffer and socket continue each other and the peer continues the socket;
\* the next user of an entry finds an empty buffer.
ConnInv(c) ==
  /\ ~c.active => c.rx = <<>>
  /\ c.active => InStep(c.rx, 0) /\ InStep(c.stream, Len(c.rx))
  /\ c.active /\ c.up => c.next = Piece(Len(c.rx) + Len(c.stream))
  /\ Len(c.rx) < LineLen

Unique(table) ==
  \A i, j \in Active(table) :
    table[i].slot = table[j].slot /\ table[i].node = table[j].node => i = j

TableInv(table) ==
  /\ table \in [Index -> Connection]
  /\ Unique(table)
  /\ \A i \in Index : ConnInv(table[i])

(***************************************************************************)
(* The inductive invariant.  Lookups happen between epoll_wait() and the   *)
(* events it returned, so the events must be readable from there on.       *)
(***************************************************************************)
IInv ==
  /\ s \in Nat
  /\ regd \subseteq Nodes
  /\ ready \subseteq Index
  /\ TableInv(conns)
  /\ pc \in {"retry", "events"} => \A i \in ready : Readable(conns[i])
  /\ HandlersGetLines
-----------------------------------------------------------------------------
\* Quotient and remainder, and that no other pair is one.
LEMMA ModRange ==
  ASSUME NEW L \in Nat \ {0}, NEW x \in Nat
  PROVE  x % L \in 0 .. L - 1 /\ x \div L \in Nat /\ x = L * (x \div L) + (x % L)
BY SMT

LEMMA ModUnique ==
  ASSUME NEW L \in Nat \ {0}, NEW x \in Nat, NEW q \in Int, NEW r \in 0 .. L - 1,
         x = L * q + r
  PROVE  x % L = r
BY SMT

LEMMA Distributes ==
  ASSUME NEW L \in Int, NEW p \in Int, NEW q \in Int
  PROVE  L * (p + q) = L * p + L * q
BY SMT

\* Adding a multiple of L.
LEMMA ModAdd ==
  ASSUME NEW L \in Nat \ {0}, NEW m \in Nat, NEW j \in Nat, m % L = 0
  PROVE  (m + j) % L = j % L
<1> DEFINE a == m \div L
           b == j \div L
           r == j % L
<1>1. a \in Nat /\ m = L * a + 0 /\ b \in Nat /\ j = L * b + r /\ r \in 0 .. L - 1
  BY ModRange
<1> HIDE DEF a, b, r
<1>2. L * (a + b) = L * a + L * b /\ L * a \in Int /\ L * b \in Int
  BY <1>1, Distributes
<1>3. m + j = L * (a + b) + r
  BY <1>1, <1>2
<1>4. (m + j) % L = r
  BY <1>1, <1>3, ModUnique
<1>5. QED
  BY <1>4 DEF r

LEMMA ModSelf ==
  ASSUME NEW L \in Nat \ {0}
  PROVE  L % L = 0
<1>1. L = L * 1 + 0
  OBVIOUS
<1>2. QED
  BY <1>1, ModUnique

LEMMA ModSmall ==
  ASSUME NEW L \in Nat \ {0}, NEW r \in 0 .. L - 1
  PROVE  r % L = r
<1>1. r = L * 0 + r
  OBVIOUS
<1>2. QED
  BY <1>1, ModUnique

\* Counting on.
LEMMA ModSucc ==
  ASSUME NEW L \in Nat \ {0}, NEW x \in Nat
  PROVE  /\ ((x % L) + 1) % L = (x + 1) % L
         /\ (x % L) + 1 = L => (x + 1) % L = 0
<1> DEFINE q == x \div L
           r == x % L
<1>1. q \in Nat /\ r \in 0 .. L - 1 /\ x = L * q + r
  BY ModRange
<1> HIDE DEF q, r
<1>2. CASE r + 1 < L
  <2>1. r + 1 \in 0 .. L - 1 /\ x + 1 = L * q + (r + 1)
    BY <1>1, <1>2
  <2>2. (x + 1) % L = r + 1
    BY <1>1, <2>1, ModUnique
  <2>3. (r + 1) % L = r + 1
    BY <2>1, ModSmall
  <2>4. QED
    BY <1>2, <2>1, <2>2, <2>3 DEF r
<1>3. CASE r + 1 = L
  <2>1. x + 1 = L * (q + 1) + 0
    BY <1>1, <1>3, Distributes
  <2>2. (x + 1) % L = 0
    BY <1>1, <2>1, ModUnique
  <2>3. (r + 1) % L = 0
    BY <1>3, ModSelf
  <2>4. QED
    BY <2>2, <2>3 DEF r
<1>4. QED
  BY <1>1, <1>2, <1>3

\* The piece that ends a line, and the one that follows it.
LEMMA LineEnds ==
  ASSUME NEW k \in Nat \ {0}
  PROVE  Piece(k - 1) = LineLen <=> k % LineLen = 0
<1> DEFINE y == k - 1
<1>1. y \in Nat /\ y + 1 = k /\ LineLen \in Nat \ {0}
  BY SubAssumption
<1> HIDE DEF y
<1>2. y % LineLen \in 0 .. LineLen - 1
  BY <1>1, ModRange
<1>3. /\ ((y % LineLen) + 1) % LineLen = k % LineLen
      /\ (y % LineLen) + 1 = LineLen => k % LineLen = 0
  BY <1>1, ModSucc
<1>4. ASSUME (y % LineLen) + 1 < LineLen PROVE k % LineLen # 0
  <2>1. (y % LineLen) + 1 \in 0 .. LineLen - 1
    BY <1>2, <1>4, <1>1
  <2>2. ((y % LineLen) + 1) % LineLen = (y % LineLen) + 1
    BY <1>1, <2>1, ModSmall
  <2>3. QED
    BY <1>2, <1>3, <2>2
<1>5. Piece(k - 1) = (y % LineLen) + 1
  BY DEF Piece, y
<1>6. QED
  BY <1>1, <1>2, <1>3, <1>4, <1>5

\* In a buffer that begins where a line begins.
LEMMA NewlinesAre ==
  ASSUME NEW buf \in Seq(Nat), InStep(buf, 0), NEW k \in 1 .. Len(buf)
  PROVE  k \in Newlines(buf) <=> k % LineLen = 0
<1>1. buf[k] = Piece(0 + (k - 1)) /\ 0 + (k - 1) = k - 1
  BY DEF InStep
<1>2. QED
  BY <1>1, LineEnds DEF Newlines

LEMMA MinIs ==
  ASSUME NEW x \in Nat, NEW y \in Nat
  PROVE  Min({x, y}) = IF x <= y THEN x ELSE y
<1> DEFINE w == IF x <= y THEN x ELSE y
<1>1. w \in {x, y} /\ \A z \in {x, y} : w <= z
  OBVIOUS
<1>2. \A v \in {x, y} : (\A z \in {x, y} : v <= z) => v = w
  OBVIOUS
<1> HIDE DEF w
<1>3. Min({x, y}) = w
  BY <1>1, <1>2 DEF Min
<1>4. QED
  BY <1>3 DEF w

\* What stays in the buffer: the pieces after the last complete line, fewer
\* than a line has, so that the buffer is never emptied for being full.
LEMMA RemainderIs ==
  ASSUME NEW buf \in Seq(Nat), InStep(buf, 0)
  PROVE  /\ Remainder(buf) \in Seq(Nat)
         /\ Len(Remainder(buf)) = Len(buf) % LineLen
         /\ InStep(Remainder(buf), 0)
<1> DEFINE N == Len(buf)
           r == N % LineLen
           m == N - r
           ends == Newlines(buf)
           rest == SubSeq(buf, m + 1, N)
<1>1. LineLen \in Nat \ {0} /\ RxCap \in Nat /\ RxCap >= LineLen /\ N \in Nat
  BY SubAssumption
<1>2. r \in 0 .. LineLen - 1 /\ m \in Nat /\ m <= N /\ m % LineLen = 0
  <2> DEFINE q == N \div LineLen
  <2>1. r \in 0 .. LineLen - 1 /\ q \in Nat /\ N = LineLen * q + r
    BY <1>1, ModRange
  <2> HIDE DEF q, r, N
  <2>2. LineLen * q \in Nat /\ m = LineLen * q + 0
    BY <1>1, <2>1
  <2>3. m % LineLen = 0
    BY <1>1, <2>1, <2>2, ModUnique
  <2>4. QED
    BY <1>1, <2>1, <2>2, <2>3
<1>3. /\ ends \subseteq 1 .. N
      /\ \A k \in 1 .. N : k \in ends <=> k % LineLen = 0
  BY NewlinesAre DEF Newlines
<1> HIDE DEF r, m, N
<1>4. ASSUME NEW k \in ends
      PROVE  k \in Nat /\ k >= 1 /\ k <= m
  <2>1. k \in 1 .. N
    BY <1>3
  <2>2. k % LineLen = 0
    BY <1>3, <2>1
  <2>3. ASSUME k > m PROVE FALSE
    <3>1. k - m \in 0 .. LineLen - 1 /\ k - m \in Nat /\ m + (k - m) = k /\ k - m # 0
      BY <1>1, <1>2, <2>1, <2>3 DEF m
    <3>2. (m + (k - m)) % LineLen = (k - m) % LineLen
      BY <1>1, <1>2, <3>1, ModAdd
    <3>3. (k - m) % LineLen = k - m
      BY <1>1, <3>1, ModSmall
    <3>4. QED
      BY <2>2, <3>1, <3>2, <3>3
  <2>4. QED
    BY <1>1, <1>2, <2>1, <2>3
<1>5. CASE ends = {}
  <2>1. m = 0
    <3>1. m > 0 => m \in 1 .. N
      BY <1>1, <1>2
    <3>2. QED
      BY <1>2, <1>3, <1>5, <3>1
  <2>2. rest = buf /\ Len(buf) < RxCap
    BY <1>1, <1>2, <2>1 DEF N, m
  <2>3. Remainder(buf) = rest
    BY <1>1, <1>5, <2>2 DEF Remainder, N
  <2>4. N = r
    BY <1>1, <1>2, <2>1 DEF m
  <2>5. Len(buf) = Len(buf) % LineLen
    BY <2>4 DEF N, r
  <2>6. QED
    BY <2>2, <2>3, <2>5
<1>6. CASE ends # {}
  <2>1. m \in 1 .. N
    BY <1>1, <1>2, <1>4, <1>6
  <2>2. m \in ends
    BY <1>2, <1>3, <2>1
  <2> HIDE DEF ends
  <2>3. Max(ends) = m
    <3>1. \A x \in ends : m >= x
      BY <1>2, <1>4
    <3>2. \A x \in ends : (\A y \in ends : x >= y) => x = m
      BY <1>2, <1>4, <2>2
    <3>3. QED
      BY <2>2, <3>1, <3>2 DEF Max
  <2>4. /\ rest \in Seq(Nat) /\ Len(rest) = N - m
        /\ \A k \in 1 .. N - m : rest[k] = buf[m + k]
    BY <1>1, <1>2, <2>1 DEF N
  <2>5. N - m = r /\ Len(rest) \in Nat /\ Len(rest) < RxCap
    BY <1>1, <1>2, <2>4 DEF m
  <2>6. Remainder(buf) = rest
    <3>1. Remainder(buf) = LET rr == IF ends = {} THEN buf ELSE SubSeq(buf, Max(ends) + 1, N)
                           IN  IF Len(rr) >= RxCap THEN <<>> ELSE rr
      BY DEF Remainder, ends, N
    <3> HIDE DEF rest
    <3>2. SubSeq(buf, Max(ends) + 1, N) = rest
      BY <2>3 DEF rest
    <3>3. ~(Len(rest) >= RxCap)
      BY <1>1, <1>2, <2>5
    <3>4. QED
      BY <1>6, <3>1, <3>2, <3>3
  <2>7. ASSUME NEW k \in 1 .. Len(rest) PROVE rest[k] = Piece(0 + (k - 1))
    <3>1. k \in 1 .. N - m /\ m + k \in 1 .. N /\ k - 1 \in Nat
          /\ 0 + ((m + k) - 1) = m + (k - 1) /\ 0 + (k - 1) = k - 1
      BY <1>1, <1>2, <2>4
    <3>2. rest[k] = buf[m + k]
      BY <2>4, <3>1
    <3>3. buf[m + k] = Piece(0 + ((m + k) - 1))
      BY <3>1 DEF InStep, N
    <3>4. Piece(m + (k - 1)) = Piece(k - 1)
      BY <1>1, <1>2, <3>1, ModAdd DEF Piece
    <3>5. QED
      BY <3>1, <3>2, <3>3, <3>4
  <2>8. QED
    BY <2>4, <2>5, <2>6, <2>7 DEF InStep, r, N
<1>7. QED
  BY <1>5, <1>6

\* Each newline ends a line that begins LineLen pieces before; line[512] takes
\* it from there.
LEMMA LinesAre ==
  ASSUME NEW buf \in Seq(Nat), InStep(buf, 0), NEW e \in Newlines(buf)
  PROVE  /\ Len(Lines(buf)[e]) = Min({LineLen, LineCap})
         /\ \A j \in 1 .. Len(Lines(buf)[e]) : Lines(buf)[e][j] = j
<1> DEFINE N == Len(buf)
           p == e - LineLen
           before == {0} \cup {j \in Newlines(buf) : j < e}
           m == Min({LineLen, LineCap})
           line == SubSeq(buf, p + 1, p + m)
<1>1. LineLen \in Nat \ {0} /\ LineCap \in Nat /\ N \in Nat
  BY SubAssumption
<1>2. e \in 1 .. N /\ e % LineLen = 0
  BY NewlinesAre DEF Newlines
<1>3. p \in Nat /\ e = LineLen + p /\ p % LineLen = 0
  <2>1. ASSUME e < LineLen PROVE FALSE
    <3>1. e \in 0 .. LineLen - 1
      BY <1>1, <1>2, <2>1
    <3>2. e % LineLen = e
      BY <1>1, <3>1, ModSmall
    <3>3. QED
      BY <1>2, <3>2
  <2>2. p \in Nat /\ e = LineLen + p
    BY <1>1, <1>2, <2>1
  <2>3. (LineLen + p) % LineLen = p % LineLen
    BY <1>1, <2>2, ModSelf, ModAdd
  <2>4. QED
    BY <1>2, <2>2, <2>3
<1> HIDE DEF p, N
<1>4. ASSUME NEW j \in Newlines(buf), j < e PROVE j \in Nat /\ j <= p
  <2>1. j \in 1 .. N /\ j % LineLen = 0
    BY NewlinesAre DEF Newlines, N
  <2>2. ASSUME j > p PROVE FALSE
    <3>1. j - p \in 0 .. LineLen - 1 /\ j - p \in Nat /\ p + (j - p) = j /\ j - p # 0
      BY <1>1, <1>3, <1>4, <2>1, <2>2
    <3>2. (p + (j - p)) % LineLen = (j - p) % LineLen
      BY <1>1, <1>3, <3>1, ModAdd
    <3>3. (j - p) % LineLen = j - p
      BY <1>1, <3>1, ModSmall
    <3>4. QED
      BY <2>1, <3>1, <3>2, <3>3
  <2>3. QED
    BY <1>1, <1>3, <2>1, <2>2
<1>5. p \in before
  <2>1. CASE p = 0
    BY <2>1
  <2>2. CASE p # 0
    <3>1. p \in 1 .. Len(buf) /\ p < e
      BY <1>1, <1>2, <1>3, <2>2 DEF N
    <3>2. QED
      BY <1>3, <3>1, NewlinesAre
  <2>3. QED
    BY <2>1, <2>2
<1>6. \A x \in before : x \in Nat /\ x <= p
  BY <1>3, <1>4
<1> HIDE DEF before
<1>7. Max(before) = p
  <2>1. \A x \in before : p >= x
    BY <1>3, <1>6
  <2>2. \A x \in before : (\A y \in before : x >= y) => x = p
    BY <1>3, <1>5, <1>6
  <2>3. QED
    BY <1>5, <2>1, <2>2 DEF Max
<1>8. m \in 0 .. LineLen /\ Min({e, (p + 1) + LineCap - 1}) = p + m
  <2> DEFINE y == (p + 1) + LineCap - 1
  <2>1. e \in Nat /\ y \in Nat /\ y = p + LineCap /\ LineLen \in Nat
    BY <1>1, <1>2, <1>3
  <2> HIDE DEF y
  <2>2. Min({e, y}) = IF e <= y THEN e ELSE y
    BY <2>1, MinIs
  <2>3. m = IF LineLen <= LineCap THEN LineLen ELSE LineCap
    BY <1>1, <2>1, MinIs
  <2> HIDE DEF m
  <2>4. m \in 0 .. LineLen /\ Min({e, y}) = p + m
    BY <1>1, <1>3, <2>1, <2>2, <2>3
  <2>5. QED
    BY <2>4 DEF y
<1>9. Lines(buf)[e] = line
  <2>1. Lines(buf)[e] = LET start == Max(before) + 1
                        IN  SubSeq(buf, start, Min({e, start + LineCap - 1}))
    BY DEF Lines, before
  <2> HIDE DEF m
  <2>2. QED
    BY <1>7, <1>8, <2>1
<1> HIDE DEF m
<1>10. p + m <= N /\ p + m \in Nat /\ m \in Nat
  BY <1>1, <1>2, <1>3, <1>8
<1>11. Len(line) = m /\ \A j \in 1 .. m : line[j] = buf[p + j]
  BY <1>3, <1>10 DEF N
<1> HIDE DEF line
<1>12. ASSUME NEW j \in 1 .. m PROVE line[j] = j
  <2>1. /\ p + j \in 1 .. N /\ j - 1 \in Nat /\ j - 1 \in 0 .. LineLen - 1
        /\ 0 + ((p + j) - 1) = p + (j - 1) /\ j = (j - 1) + 1
    BY <1>1, <1>3, <1>8, <1>10
  <2>2. buf[p + j] = Piece(0 + ((p + j) - 1))
    BY <2>1 DEF InStep, N
  <2>3. (p + (j - 1)) % LineLen = (j - 1) % LineLen
    BY <1>1, <1>3, <2>1, ModAdd
  <2>4. (j - 1) % LineLen = j - 1
    BY <1>1, <2>1, ModSmall
  <2>5. QED
    BY <1>11, <2>1, <2>2, <2>3, <2>4 DEF Piece
<1>13. QED
  BY <1>9, <1>11, <1>12 DEF m
-----------------------------------------------------------------------------
LEMMA EmptyInStep ==
  ASSUME NEW d
  PROVE  InStep(<<>>, d)
BY DEF InStep

\* A new connection begins with the first piece of a line.
LEMMA OpenedInv ==
  ASSUME NEW c \in Connection, ConnInv(c), ~c.active,
         NEW slot \in Nat, NEW n \in Nodes
  PROVE  /\ Opened(c, slot, n) \in Connection
         /\ ConnInv(Opened(c, slot, n))
<1> DEFINE o == Opened(c, slot, n)
<1>1. /\ o \in Connection /\ o.active /\ o.up
      /\ o.rx = <<>> /\ o.stream = <<>> /\ o.next = 1
  BY DEF Opened, Connection, ConnInv
<1> HIDE DEF o
<1>2. Piece(0) = 1
  <2>1. LineLen \in Nat \ {0} /\ 0 \in 0 .. LineLen - 1
    BY SubAssumption
  <2>2. QED
    BY <2>1, ModSmall DEF Piece
<1>3. ConnInv(o)
  BY <1>1, <1>2, EmptyInStep, SubAssumption DEF ConnInv
<1>4. QED
  BY <1>1, <1>3 DEF o

\* Connections are only added, and to publishers that have none for the slot.
LEMMA AddPubsKeeps ==
  ASSUME NEW t, TableInv(t), NEW nodes \in SUBSET Nodes, NEW slot \in Nat,
         NEW u \in AddPubs(nodes, slot, t)
  PROVE  TableInv(u) /\ \A i \in Active(t) : u[i] = t[i]
<1> DEFINE new == {n \in nodes \cap pubUp : FindConn(t, n, slot) = {}}
           free == Index \ Active(t)
           taken == {i \in free : Cardinality({j \in free : j < i}) < Cardinality(new)}
<1>1. PICK by \in Injection(taken, new) :
        u = [i \in Index |-> IF i \in taken THEN Opened(t[i], slot, by[i]) ELSE t[i]]
  BY DEF AddPubs
<1>2. /\ taken \subseteq Index /\ \A i \in taken : ~t[i].active
      /\ \A i \in taken : by[i] \in Nodes /\ FindConn(t, by[i], slot) = {}
      /\ \A i, j \in taken : by[i] = by[j] => i = j
  BY <1>1 DEF Injection, IsInjective, Active
<1> HIDE DEF new, free, taken
<1>3. \A i \in taken : /\ Opened(t[i], slot, by[i]) \in Connection
                       /\ ConnInv(Opened(t[i], slot, by[i]))
  BY <1>2, OpenedInv DEF TableInv
<1>4. \A i \in taken : /\ Opened(t[i], slot, by[i]).slot = slot
                       /\ Opened(t[i], slot, by[i]).node = by[i]
  BY <1>2 DEF Opened, TableInv, Connection
<1>5. u \in [Index -> Connection] /\ \A i \in Index : ConnInv(u[i])
  BY <1>1, <1>3 DEF TableInv
<1>6. ASSUME NEW i \in Active(u), NEW j \in Active(u),
             u[i].slot = u[j].slot, u[i].node = u[j].node
      PROVE  i = j
  <2>1. CASE i \in taken /\ j \in taken
    BY <1>1, <1>2, <1>4, <1>6, <2>1
  <2>2. CASE i \in taken /\ j \notin taken
    <3>1. j \in FindConn(t, by[i], slot)
      BY <1>1, <1>2, <1>4, <1>6, <2>2 DEF FindConn, Active
    <3>2. QED
      BY <1>2, <2>2, <3>1
  <2>3. CASE i \notin taken /\ j \in taken
    <3>1. i \in FindConn(t, by[j], slot)
      BY <1>1, <1>2, <1>4, <1>6, <2>3 DEF FindConn, Active
    <3>2. QED
      BY <1>2, <2>3, <3>1
  <2>4. CASE i \notin taken /\ j \notin taken
    BY <1>1, <1>6, <2>4 DEF TableInv, Unique, Active
  <2>5. QED
    BY <2>1, <2>2, <2>3, <2>4
<1>7. \A i \in Active(t) : u[i] = t[i]
  BY <1>1, <1>2 DEF Active
<1>8. QED
  BY <1>5, <1>6, <1>7 DEF TableInv, Unique

\* A lookup, complete or cut short, leaves the connections that exist alone.
LEMMA LookupKeeps ==
  ASSUME TableInv(conns), regd \subseteq Nodes, NEW slot \in Nat, Lookup(slot)
  PROVE  TableInv(conns') /\ \A i \in Active(conns) : conns'[i] = conns[i]
<1>1. CASE \E once \in AddPubs(regd, slot, conns), again \in SUBSET regd :
             conns' \in AddPubs(again, slot, once)
  <2> PICK once \in AddPubs(regd, slot, conns), again \in SUBSET regd :
        conns' \in AddPubs(again, slot, once)
    BY <1>1
  <2>1. TableInv(once) /\ \A i \in Active(conns) : once[i] = conns[i]
    BY AddPubsKeeps
  <2>2. again \in SUBSET Nodes
    OBVIOUS
  <2>3. TableInv(conns') /\ \A i \in Active(once) : conns'[i] = once[i]
    BY <2>1, <2>2, AddPubsKeeps
  <2>4. QED
    BY <2>1, <2>3 DEF Active
<1>2. CASE \E part \in SUBSET regd : conns' \in AddPubs(part, slot, conns)
  <2> PICK part \in SUBSET regd : conns' \in AddPubs(part, slot, conns)
    BY <1>2
  <2>1. part \in SUBSET Nodes
    OBVIOUS
  <2>2. QED
    BY <2>1, AddPubsKeeps
<1>3. CASE conns' = conns
  BY <1>3
<1>4. QED
  BY <1>1, <1>2, <1>3 DEF Lookup

\* A connection that hangs up stays in its entry, readable.
LEMMA HangUpKeeps ==
  ASSUME TableInv(conns), NEW gone, NEW lost \in BOOLEAN, HangUp(gone, lost)
  PROVE  /\ TableInv(conns')
         /\ \A i \in Index : Readable(conns[i]) => Readable(conns'[i])
<1>1. \A i \in Index : /\ conns[i] \in Connection /\ ConnInv(conns[i])
                       /\ conns'[i] = IF i \notin gone THEN conns[i]
                                      ELSE [conns[i] EXCEPT !.up = FALSE,
                                              !.stream = IF lost THEN <<>> ELSE @]
  BY DEF TableInv, HangUp
<1>2. \A i \in Index :
        /\ conns'[i] \in Connection
        /\ conns'[i].active = conns[i].active /\ conns'[i].rx = conns[i].rx
        /\ conns'[i].slot = conns[i].slot /\ conns'[i].node = conns[i].node
        /\ conns'[i].stream \in {conns[i].stream, <<>>}
        /\ i \in gone => ~conns'[i].up
        /\ i \notin gone => conns'[i] = conns[i]
  <2> SUFFICES ASSUME NEW i \in Index, i \in gone
               PROVE  /\ conns'[i] \in Connection
                      /\ conns'[i].active = conns[i].active /\ conns'[i].rx = conns[i].rx
                      /\ conns'[i].slot = conns[i].slot /\ conns'[i].node = conns[i].node
                      /\ conns'[i].stream \in {conns[i].stream, <<>>}
                      /\ ~conns'[i].up
    BY <1>1
  <2>1. CASE lost
    <3>1. conns'[i] = [conns[i] EXCEPT !.up = FALSE, !.stream = <<>>]
      BY <1>1, <2>1
    <3>2. <<>> \in Seq(Nat)
      OBVIOUS
    <3>3. QED
      BY <1>1, <3>1, <3>2 DEF Connection
  <2>2. CASE ~lost
    <3>1. conns'[i] = [conns[i] EXCEPT !.up = FALSE]
      BY <1>1, <2>2, ZenonT(30) DEF Connection
    <3>2. QED
      BY <1>1, <3>1 DEF Connection
  <2>3. QED
    BY <2>1, <2>2
<1>3. \A i \in Index : ConnInv(conns'[i])
  <2>1. ASSUME NEW i \in Index, i \in gone PROVE ConnInv(conns'[i])
    BY <1>1, <1>2, <2>1, EmptyInStep DEF ConnInv
  <2>2. QED
    BY <1>1, <1>2, <2>1
<1>4. conns' \in [Index -> Connection]
  BY <1>2 DEF HangUp
<1>5. Active(conns') = Active(conns)
  BY <1>2 DEF Active
<1>6. Unique(conns')
  BY <1>2, <1>5 DEF TableInv, Unique, Active
<1>7. QED
  BY <1>1, <1>2, <1>3, <1>4, <1>6 DEF TableInv, Readable

\* One entry is replaced: it keeps its slot and its publisher, or is closed.
LEMMA EntryReplaced ==
  ASSUME TableInv(conns), NEW i \in Index, NEW c \in Connection, ConnInv(c),
         c.active => /\ conns[i].active
                     /\ c.slot = conns[i].slot /\ c.node = conns[i].node
  PROVE  TableInv([conns EXCEPT ![i] = c])
<1> DEFINE t == [conns EXCEPT ![i] = c]
<1>1. /\ t \in [Index -> Connection] /\ t[i] = c
      /\ \A j \in Index : j # i => t[j] = conns[j]
  BY DEF TableInv
<1> HIDE DEF t
<1>2. \A j \in Index : ConnInv(t[j])
  BY <1>1 DEF TableInv
<1>3. \A j \in Active(t) : /\ j \in Active(conns)
                           /\ t[j].slot = conns[j].slot /\ t[j].node = conns[j].node
  BY <1>1 DEF Active
<1>4. Unique(t)
  BY <1>3 DEF TableInv, Unique
<1>5. TableInv(t)
  BY <1>1, <1>2, <1>4 DEF TableInv
<1>6. QED
  BY <1>5 DEF t

LEMMA ClosedInv == Closed \in Connection /\ ConnInv(Closed) /\ ~Closed.active
<1>1. <<>> \in Seq(Nat)
  OBVIOUS
<1>2. Closed \in Connection /\ ~Closed.active /\ Closed.rx = <<>>
  BY <1>1 DEF Closed, Connection
<1>3. QED
  BY <1>2, SubAssumption DEF ConnInv

\* Two positions that are a whole number of lines apart carry the same piece.
LEMMA SamePiece ==
  ASSUME NEW x \in Nat, NEW j \in Nat
  PROVE  Piece(x + j) = Piece((x % LineLen) + j)
<1> DEFINE r == x % LineLen
           q == x \div LineLen
           m == LineLen * q
<1>1. LineLen \in Nat \ {0}
  BY SubAssumption
<1>2. r \in 0 .. LineLen - 1 /\ q \in Nat /\ x = m + r
  BY <1>1, ModRange
<1> HIDE DEF r, q
<1>3. m \in Nat /\ m = LineLen * q + 0
  BY <1>1, <1>2
<1>4. m % LineLen = 0
  BY <1>1, <1>2, <1>3, ModUnique
<1> HIDE DEF m
<1>5. x + j = m + (r + j) /\ r + j \in Nat
  BY <1>1, <1>2, <1>3
<1>6. (m + (r + j)) % LineLen = (r + j) % LineLen
  BY <1>1, <1>3, <1>4, <1>5, ModAdd
<1>7. QED
  BY <1>5, <1>6 DEF Piece, r

\* The publisher sends the next piece.
LEMMA SentInv ==
  ASSUME NEW c \in Connection, ConnInv(c), c.active, c.up
  PROVE  LET d == [c EXCEPT !.stream = Append(c.stream, c.next),
                            !.next = (c.next % LineLen) + 1]
         IN  d \in Connection /\ ConnInv(d)
<1> DEFINE d == [c EXCEPT !.stream = Append(c.stream, c.next),
                          !.next = (c.next % LineLen) + 1]
           a == Len(c.rx)
           b == Len(c.stream)
<1>1. /\ LineLen \in Nat \ {0} /\ a \in Nat /\ b \in Nat
      /\ c.stream \in Seq(Nat) /\ c.next \in Nat /\ c.rx \in Seq(Nat)
  BY SubAssumption DEF Connection
<1>2. c.next % LineLen \in 0 .. LineLen - 1
  BY <1>1, ModRange
<1>3. /\ Append(c.stream, c.next) \in Seq(Nat)
      /\ Len(Append(c.stream, c.next)) = b + 1
      /\ \A j \in 1 .. b : Append(c.stream, c.next)[j] = c.stream[j]
      /\ Append(c.stream, c.next)[b + 1] = c.next
  BY <1>1
<1>4. (c.next % LineLen) + 1 \in Nat
  BY <1>1, <1>2
<1>5. /\ d \in Connection /\ d.active /\ d.rx = c.rx
      /\ d.stream = Append(c.stream, c.next) /\ d.next = (c.next % LineLen) + 1
  BY <1>3, <1>4 DEF Connection
<1>6. c.next = Piece(a + b) /\ InStep(c.rx, 0) /\ InStep(c.stream, a) /\ a < LineLen
  BY DEF ConnInv
<1> HIDE DEF d, a, b
<1>7. InStep(d.stream, a)
  <2>1. ASSUME NEW j \in 1 .. b + 1
        PROVE  Append(c.stream, c.next)[j] = Piece(a + (j - 1))
    <3>1. CASE j \in 1 .. b
      BY <1>3, <1>6, <3>1 DEF InStep, b
    <3>2. CASE j = b + 1
      <4>1. j - 1 = b
        BY <1>1, <3>2
      <4>2. QED
        BY <1>3, <1>6, <3>2, <4>1
    <3>3. j \in 1 .. b \/ j = b + 1
      BY <1>1
    <3>4. QED
      BY <3>1, <3>2, <3>3
  <2>2. QED
    BY <1>3, <1>5, <2>1 DEF InStep
<1>8. d.next = Piece(a + (b + 1))
  <2> DEFINE x == a + b
  <2>1. x \in Nat /\ a + (b + 1) = x + 1
    BY <1>1
  <2> HIDE DEF x
  <2>2. ((x % LineLen) + 1) % LineLen = (x + 1) % LineLen
    BY <1>1, <2>1, ModSucc
  <2>3. c.next = (x % LineLen) + 1
    BY <1>6 DEF Piece, x
  <2>4. QED
    BY <1>5, <2>1, <2>2, <2>3 DEF Piece
<1>9. ConnInv(d)
  BY <1>3, <1>5, <1>6, <1>7, <1>8 DEF ConnInv, a
<1>10. QED
  BY <1>5, <1>9 DEF d

\* How many pieces recv() takes.
LEMMA TakenIs ==
  ASSUME NEW c \in Connection, ConnInv(c)
  PROVE  Min({Len(c.stream), RxCap - Len(c.rx)}) \in 0 .. Len(c.stream)
<1> DEFINE x == Len(c.stream)
           y == RxCap - Len(c.rx)
<1>1. x \in Nat /\ y \in Nat
  BY SubAssumption, SMTT(30) DEF Connection, ConnInv
<1> HIDE DEF x, y
<1>2. Min({x, y}) = IF x <= y THEN x ELSE y
  BY <1>1, MinIs
<1>3. Min({x, y}) \in 0 .. x
  BY <1>1, <1>2
<1>4. QED
  BY <1>3 DEF x, y

\* recv() appends them to the buffer.
LEMMA BufferInStep ==
  ASSUME NEW c \in Connection, ConnInv(c), c.active, NEW n \in 1 .. Len(c.stream)
  PROVE  LET buf == c.rx \o SubSeq(c.stream, 1, n)
         IN  buf \in Seq(Nat) /\ Len(buf) = Len(c.rx) + n /\ InStep(buf, 0)
<1> DEFINE taken == SubSeq(c.stream, 1, n)
           buf == c.rx \o taken
           a == Len(c.rx)
           b == Len(c.stream)
<1>1. /\ a \in Nat /\ b \in Nat /\ n \in Nat /\ n <= b
      /\ c.stream \in Seq(Nat) /\ c.rx \in Seq(Nat)
  BY DEF Connection
<1>2. InStep(c.rx, 0) /\ InStep(c.stream, a)
  BY DEF ConnInv
<1>3. /\ taken \in Seq(Nat) /\ Len(taken) = n
      /\ \A j \in 1 .. n : taken[j] = c.stream[j]
  BY <1>1
<1> HIDE DEF taken
<1>4. /\ buf \in Seq(Nat) /\ Len(buf) = a + n
      /\ \A j \in 1 .. a + n : buf[j] = IF j <= a THEN c.rx[j] ELSE taken[j - a]
  <2>1. c.rx \in Seq(Nat) /\ taken \in Seq(Nat)
    BY <1>1, <1>3
  <2>2. /\ buf \in Seq(Nat) /\ Len(buf) = Len(c.rx) + Len(taken)
        /\ \A j \in 1 .. Len(c.rx) + Len(taken) :
             buf[j] = IF j <= Len(c.rx) THEN c.rx[j] ELSE taken[j - Len(c.rx)]
    BY <2>1, ConcatProperties, Zenon
  <2>3. QED
    BY <1>3, <2>2
<1> HIDE DEF buf
<1>5. InStep(buf, 0)
  <2>1. ASSUME NEW j \in 1 .. a + n PROVE buf[j] = Piece(0 + (j - 1))
    <3>1. CASE j <= a
      BY <1>1, <1>2, <1>4, <3>1 DEF InStep
    <3>2. CASE j > a
      <4>1. j - a \in 1 .. n /\ j - a \in 1 .. b /\ a + ((j - a) - 1) = 0 + (j - 1)
        BY <1>1, <3>2
      <4>2. buf[j] = taken[j - a]
        BY <1>1, <1>4, <3>2
      <4>3. c.stream[j - a] = Piece(a + ((j - a) - 1))
        BY <1>2, <4>1 DEF InStep
      <4>4. QED
        BY <1>3, <4>1, <4>2, <4>3
    <3>3. QED
      BY <1>1, <3>1, <3>2
  <2>2. QED
    BY <1>4, <2>1 DEF InStep
<1>6. QED
  BY <1>4, <1>5 DEF buf, taken

\* recv() takes n pieces and the complete lines are handled.
LEMMA DeliveredInv ==
  ASSUME NEW c \in Connection, ConnInv(c), c.active, NEW n \in 1 .. Len(c.stream)
  PROVE  LET d == [c EXCEPT !.rx = Remainder(c.rx \o SubSeq(c.stream, 1, n)),
                            !.stream = SubSeq(c.stream, n + 1, Len(c.stream))]
         IN  d \in Connection /\ ConnInv(d)
<1> DEFINE taken == SubSeq(c.stream, 1, n)
           buf == c.rx \o taken
           left == SubSeq(c.stream, n + 1, Len(c.stream))
           d == [c EXCEPT !.rx = Remainder(buf), !.stream = left]
           a == Len(c.rx)
           b == Len(c.stream)
           r == (a + n) % LineLen
<1>1. /\ LineLen \in Nat \ {0} /\ a \in Nat /\ b \in Nat /\ n \in Nat /\ n <= b
      /\ c.stream \in Seq(Nat) /\ c.rx \in Seq(Nat)
  BY SubAssumption DEF Connection
<1>2. /\ InStep(c.rx, 0) /\ InStep(c.stream, a)
      /\ c.up => c.next = Piece(a + b)
  BY DEF ConnInv
<1>4. /\ left \in Seq(Nat) /\ Len(left) = b - n
      /\ \A j \in 1 .. b - n : left[j] = c.stream[n + j]
  BY <1>1
<1> HIDE DEF taken, left
<1>5. buf \in Seq(Nat) /\ Len(buf) = a + n /\ InStep(buf, 0)
  BY BufferInStep DEF taken
<1> HIDE DEF buf
<1>7. /\ Remainder(buf) \in Seq(Nat) /\ Len(Remainder(buf)) = r
      /\ InStep(Remainder(buf), 0)
  BY <1>5, RemainderIs
<1>8. a + n \in Nat /\ r \in 0 .. LineLen - 1
  <2>1. a + n \in Nat
    BY <1>1
  <2>2. QED
    BY <1>1, <2>1, ModRange
<1>9. /\ d \in Connection /\ d.active /\ d.rx = Remainder(buf) /\ d.stream = left
      /\ d.up = c.up /\ d.next = c.next
  BY <1>4, <1>7 DEF Connection
<1> HIDE DEF d, a, b, r
<1>10. ASSUME NEW j \in Nat PROVE Piece((a + n) + j) = Piece(r + j)
  BY <1>8, SamePiece DEF r
<1>11. InStep(left, r)
  <2>1. ASSUME NEW j \in 1 .. b - n PROVE left[j] = Piece(r + (j - 1))
    <3>1. n + j \in 1 .. b /\ j - 1 \in Nat /\ a + ((n + j) - 1) = (a + n) + (j - 1)
      BY <1>1
    <3>2. c.stream[n + j] = Piece(a + ((n + j) - 1))
      BY <1>2, <3>1 DEF InStep, b
    <3>3. QED
      BY <1>4, <1>10, <3>1, <3>2
  <2>2. QED
    BY <1>4, <2>1 DEF InStep
<1>12. Piece(a + b) = Piece(r + (b - n))
  <2>1. b - n \in Nat /\ a + b = (a + n) + (b - n)
    BY <1>1
  <2>2. QED
    BY <1>10, <2>1
<1>13. ConnInv(d)
  <2>1. InStep(d.rx, 0) /\ InStep(d.stream, Len(d.rx))
    BY <1>7, <1>9, <1>11
  <2>2. d.up => d.next = Piece(Len(d.rx) + Len(d.stream))
    BY <1>2, <1>4, <1>7, <1>9, <1>12
  <2>3. Len(d.rx) < LineLen
    BY <1>1, <1>7, <1>8, <1>9
  <2>4. QED
    BY <1>9, <2>1, <2>2, <2>3 DEF ConnInv
<1>14. QED
  BY <1>9, <1>13 DEF d, buf, taken, left
-----------------------------------------------------------------------------
LEMMA InitIInv == Init => IInv
<1> SUFFICES ASSUME Init PROVE IInv
  OBVIOUS
<1>1. /\ s = 1 /\ ready = {} /\ pc = "create" /\ regd \subseteq Nodes
      /\ conns = [i \in Index |-> Closed] /\ handed = <<>>
  BY DEF Init
<1>2. TableInv(conns)
  BY <1>1, ClosedInv DEF TableInv, Unique, Active
<1>3. HandlersGetLines
  BY <1>1 DEF HandlersGetLines
<1>4. QED
  BY <1>1, <1>2, <1>3 DEF IInv

\* Connections that stay and events that stay readable.
LEMMA EventsKept ==
  ASSUME IInv, \A i \in Active(conns) : conns'[i] = conns[i],
         NEW i \in ready, Readable(conns[i])
  PROVE  Readable(conns'[i])
BY DEF IInv, Active, Readable

\* Only a recv() gives lines to the handlers.
LEMMA HandedStep == IInv /\ [Next]_vars => HandlersGetLines'
<1> SUFFICES ASSUME IInv, [Next]_vars PROVE HandlersGetLines'
  OBVIOUS
<1> USE DEF env
<1>1. CASE handed' = handed
  BY <1>1 DEF IInv, HandlersGetLines
<1>2. CASE handed' = <<>>
  BY <1>2 DEF HandlersGetLines
<1>3. CASE \E i \in Index : Receive(i)
  <2> PICK i \in Index : Receive(i)
    BY <1>3
  <2> DEFINE c == conns[i]
             n == Min({Len(c.stream), RxCap - Len(c.rx)})
             buf == c.rx \o SubSeq(c.stream, 1, n)
  <2>1. c \in Connection /\ ConnInv(c)
    BY DEF IInv, TableInv
  <2>2. n \in 0 .. Len(c.stream) /\ Len(c.stream) \in Nat
    BY <2>1, TakenIs DEF Connection
  <2>3. handed' = IF c.active /\ n > 0 THEN Lines(buf) ELSE <<>>
    BY DEF Receive
  <2>4. CASE c.active /\ n > 0
    <3> HIDE DEF n, c
    <3>1. n \in 1 .. Len(c.stream)
      BY <2>2, <2>4
    <3>2. buf \in Seq(Nat) /\ InStep(buf, 0)
      BY <2>1, <2>4, <3>1, BufferInStep
    <3> HIDE DEF buf
    <3>3. handed' = Lines(buf) /\ DOMAIN Lines(buf) = Newlines(buf)
      BY <2>3, <2>4 DEF Lines
    <3>4. \A e \in Newlines(buf) :
            /\ Len(Lines(buf)[e]) = Min({LineLen, LineCap})
            /\ \A j \in 1 .. Len(Lines(buf)[e]) : Lines(buf)[e][j] = j
      BY <3>2, LinesAre
    <3>5. QED
      BY <3>3, <3>4 DEF HandlersGetLines
  <2>5. CASE ~(c.active /\ n > 0)
    BY <1>2, <2>3, <2>5
  <2>6. QED
    BY <2>4, <2>5
<1>4. handed' \in {handed, <<>>} \/ \E i \in Index : Receive(i)
  BY DEF Next, Thread, Environment, vars, Create, Add, Top, LookupAll, Sleep,
       Epoll, Retry, EventsDone, Cancel, Tick, PeerSends, ConnBreaks,
       PubStops, PubStarts, MasterStops, MasterAnswers
<1>5. QED
  BY <1>1, <1>2, <1>3, <1>4

\* Each step of the thread, and each event of the environment, keeps the
\* invariant.
LEMMA NextIInv == IInv /\ [Next]_vars => IInv'
<1> SUFFICES ASSUME IInv, [Next]_vars PROVE IInv'
  OBVIOUS
<1> USE DEF env
<1>1. s' \in Nat
  <2>1. s \in Nat /\ NumSlots \in Nat
    BY SubAssumption DEF IInv
  <2>2. s' \in {s, 1, s + 1}
    BY DEF Next, Thread, Environment, vars, Create, Add, Top, LookupAll, Sleep,
         Epoll, Retry, Receive, EventsDone, Cancel, Tick, PeerSends, ConnBreaks,
         PubStops, PubStarts, MasterStops, MasterAnswers, ReconnectAll
  <2>3. QED
    BY <2>1, <2>2
<1>2. regd' \subseteq Nodes
  <2>1. regd \subseteq Nodes
    BY DEF IInv
  <2>2. QED
    BY <2>1 DEF Next, Thread, Environment, vars, Create, Add, Top, LookupAll, Sleep,
         Epoll, Retry, Receive, EventsDone, Cancel, Tick, PeerSends, ConnBreaks,
         PubStops, PubStarts, MasterStops, MasterAnswers
<1> SUFFICES /\ ready' \subseteq Index
             /\ TableInv(conns')
             /\ pc' \in {"retry", "events"} => \A i \in ready' : Readable(conns'[i])
  BY <1>1, <1>2, HandedStep DEF IInv
<1>3. CASE Create \/ Top \/ Sleep \/ EventsDone \/ Tick \/ MasterStops
            \/ MasterAnswers("up") \/ MasterAnswers("slow")
            \/ (\E n \in Nodes : PubStarts(n)) \/ UNCHANGED vars
  <2>1. /\ conns' = conns /\ ready' = ready
        /\ pc' \in {"retry", "events"} => pc' = pc
    BY <1>3 DEF Create, Top, Sleep, ReconnectAll, EventsDone, Tick, MasterStops,
                MasterAnswers, PubStarts, vars
  <2>2. QED
    BY <2>1 DEF IInv
<1>4. CASE Add
  <2>1. TableInv(conns') /\ ready' = ready /\ pc' \in {"add", "top"}
    BY <1>4, LookupKeeps DEF IInv, Add
  <2>2. QED
    BY <2>1 DEF IInv
<1>5. CASE LookupAll
  <2>1. TableInv(conns') /\ ready' = ready /\ pc' \in {"all", "top", "sleep", "epoll"}
    BY <1>5, LookupKeeps DEF IInv, LookupAll
  <2>2. QED
    BY <2>1 DEF IInv
<1>6. CASE Epoll
  <2>1. conns' = conns /\ ready' = {i \in Index : Readable(conns[i])}
    BY <1>6 DEF Epoll
  <2>2. QED
    BY <2>1 DEF IInv
<1>7. CASE Retry
  <2>1. ready' = ready /\ pc = "retry"
    BY <1>7 DEF Retry
  <2>2. TableInv(conns') /\ \A i \in Active(conns) : conns'[i] = conns[i]
    BY <1>7, LookupKeeps DEF IInv, Retry
  <2>3. \A i \in ready : Readable(conns'[i])
    BY <2>1, <2>2, EventsKept DEF IInv
  <2>4. QED
    BY <2>1, <2>2, <2>3 DEF IInv
<1>8. CASE \E i \in Index : Receive(i)
  <2> PICK i \in Index : Receive(i)
    BY <1>8
  <2> DEFINE c == conns[i]
             n == Min({Len(c.stream), RxCap - Len(c.rx)})
             d == [c EXCEPT !.rx = Remainder(c.rx \o SubSeq(c.stream, 1, n)),
                            !.stream = SubSeq(c.stream, n + 1, Len(c.stream))]
  <2>1. /\ pc = "events" /\ pc' = pc /\ ready' = ready \ {i}
        /\ c \in Connection /\ ConnInv(c)
    BY DEF Receive, IInv, TableInv
  <2>2. n \in 0 .. Len(c.stream)
    BY <2>1, TakenIs
  <2>3. TableInv(conns') /\ \A j \in Index : j # i => conns'[j] = conns[j]
    <3>1. CASE ~c.active
      BY <3>1 DEF Receive, IInv
    <3>2. CASE c.active /\ n = 0
      <4>1. conns' = [conns EXCEPT ![i] = Closed]
        BY <3>2 DEF Receive, CloseConn
      <4>2. TableInv([conns EXCEPT ![i] = Closed])
        BY ClosedInv, EntryReplaced DEF IInv
      <4>3. QED
        BY <4>1, <4>2 DEF IInv, TableInv
    <3>3. CASE c.active /\ n # 0
      <4>1. conns' = [conns EXCEPT ![i] = d]
        BY <3>3 DEF Receive
      <4>2. n \in 1 .. Len(c.stream)
        BY <2>1, <2>2, <3>3 DEF Connection
      <4>3. d \in Connection /\ ConnInv(d)
        BY <2>1, <3>3, <4>2, DeliveredInv
      <4>4. d.active = c.active /\ d.slot = c.slot /\ d.node = c.node
        BY <2>1 DEF Connection
      <4> HIDE DEF d
      <4>5. TableInv([conns EXCEPT ![i] = d])
        BY <3>3, <4>3, <4>4, EntryReplaced DEF IInv
      <4>6. QED
        BY <4>1, <4>5 DEF IInv, TableInv
    <3>4. QED
      BY <3>1, <3>2, <3>3
  <2>4. QED
    BY <2>1, <2>3 DEF IInv
<1>9. CASE Cancel
  <2>1. ready' = {} /\ pc' = "ended" /\ conns' = [i \in Index |-> Closed]
    BY <1>9 DEF Cancel, CloseConn
  <2>2. TableInv(conns')
    BY <2>1, ClosedInv DEF TableInv, Unique, Active
  <2>3. QED
    BY <2>1, <2>2
<1>10. CASE \E i \in Index : PeerSends(i)
  <2> PICK i \in Index : PeerSends(i)
    BY <1>10
  <2> DEFINE c == conns[i]
             d == [c EXCEPT !.stream = Append(c.stream, c.next),
                            !.next = (c.next % LineLen) + 1]
  <2>1. /\ c \in Connection /\ ConnInv(c) /\ c.active /\ c.up
        /\ pc' = pc /\ ready' = ready
    BY DEF PeerSends, IInv, TableInv
  <2>2. conns' = [conns EXCEPT ![i] = d]
    BY DEF PeerSends
  <2>3. d \in Connection /\ ConnInv(d)
    BY <2>1, SentInv
  <2>4. d.active = c.active /\ d.slot = c.slot /\ d.node = c.node /\ d.stream # <<>>
    <3>1. c.stream \in Seq(Nat) /\ c.next \in Nat
      BY <2>1 DEF Connection
    <3>2. Append(c.stream, c.next) # <<>>
      BY <3>1, AppendProperties, ZenonT(30)
    <3>3. QED
      BY <2>1, <3>2 DEF Connection
  <2> HIDE DEF d
  <2>5. TableInv(conns')
    BY <2>1, <2>2, <2>3, <2>4, EntryReplaced DEF IInv
  <2>6. \A j \in Index : Readable(conns[j]) => Readable(conns'[j])
    BY <2>1, <2>2, <2>4 DEF IInv, TableInv, Readable
  <2>7. QED
    BY <2>1, <2>5, <2>6 DEF IInv
<1>11. CASE (\E i \in Index : ConnBreaks(i)) \/ (\E n \in Nodes : PubStops(n))
  <2>1. pc' = pc /\ ready' = ready /\ \E gone : \E lost \in BOOLEAN : HangUp(gone, lost)
    BY <1>11 DEF ConnBreaks, PubStops
  <2>2. /\ TableInv(conns')
        /\ \A i \in Index : Readable(conns[i]) => Readable(conns'[i])
    BY <2>1, HangUpKeeps DEF IInv
  <2>3. QED
    BY <2>1, <2>2 DEF IInv
<1>12. QED
  BY <1>3, <1>4, <1>5, <1>6, <1>7, <1>8, <1>9, <1>10, <1>11 DEF Next, Thread, Environment

LEMMA Inductive == Spec => []IInv
BY InitIInv, NextIInv, PTL DEF Spec

\* No publisher is connected twice to a slot, in whatever order the lookups,
\* failures and repeated lists of the master come (ctx_add_pub()).
THEOREM ConnectionsAreUnique == Spec => []OneConnPerSlot
<1>1. IInv => OneConnPerSlot
  BY DEF IInv, TableInv, Unique, OneConnPerSlot
<1>2. QED
  BY Inductive, <1>1, PTL

\* No recv() of the event loop waits for a publisher that has nothing to say,
\* although lookups may open connections between epoll_wait() and the events
\* it returned (cmos_sub_spin_ctx()).
THEOREM EventsAreReadable == Spec => []RecvNeverBlocks
<1>1. IInv => RecvNeverBlocks
  BY DEF IInv, RecvNeverBlocks
<1>2. QED
  BY Inductive, <1>1, PTL

\* Whatever recv() cuts out of the stream, and whoever used the entry before,
\* buffer and socket hold the lines that were sent (cmos_sub_spin_ctx()).
THEOREM BuffersStayInStep == Spec => []LinesInStep
<1>1. IInv => LinesInStep
  <2> SUFFICES ASSUME IInv, NEW i \in Active(conns),
                      NEW k \in 1 .. Len(conns[i].rx \o conns[i].stream)
               PROVE  (conns[i].rx \o conns[i].stream)[k] = ((k - 1) % LineLen) + 1
    BY DEF LinesInStep
  <2> DEFINE a == Len(conns[i].rx)
             b == Len(conns[i].stream)
             all == conns[i].rx \o conns[i].stream
  <2>1. /\ conns[i].rx \in Seq(Nat) /\ conns[i].stream \in Seq(Nat)
        /\ InStep(conns[i].rx, 0) /\ InStep(conns[i].stream, a)
    BY DEF IInv, TableInv, Active, Connection, ConnInv
  <2>2. /\ Len(all) = a + b
        /\ \A j \in 1 .. a + b :
             all[j] = IF j <= a THEN conns[i].rx[j] ELSE conns[i].stream[j - a]
    BY <2>1, ConcatProperties, Zenon
  <2>3. a \in Nat /\ b \in Nat /\ k \in 1 .. a + b
    <3>1. k \in 1 .. a + b
      BY <2>2
    <3>2. a \in Nat /\ b \in Nat
      BY <2>1, LenProperties
    <3>3. QED
      BY <3>1, <3>2
  <2> HIDE DEF a, b, all
  <2>4. CASE k <= a
    <3>1. k \in 1 .. a /\ 0 + (k - 1) = k - 1
      BY <2>3, <2>4
    <3>2. conns[i].rx[k] = Piece(0 + (k - 1))
      BY <2>1, <3>1 DEF InStep, a, b
    <3>3. QED
      BY <2>2, <2>3, <2>4, <3>1, <3>2 DEF Piece, all
  <2>5. CASE k > a
    <3>1. k - a \in 1 .. b /\ a + ((k - a) - 1) = k - 1 /\ ~(k <= a)
      BY <2>3, <2>5
    <3>2. conns[i].stream[k - a] = Piece(a + ((k - a) - 1))
      BY <2>1, <3>1 DEF InStep, a, b
    <3>3. QED
      BY <2>2, <2>3, <3>1, <3>2 DEF Piece, all
  <2>6. k <= a \/ k > a
    BY <2>3
  <2>7. QED
    BY <2>4, <2>5, <2>6
<1>2. QED
  BY Inductive, <1>1, PTL

\* Each handler is given lines that were sent, whole or, if line[512] is too
\* short for one, its beginning (cmos_sub_spin_ctx()).
THEOREM HandlersSeeLines == Spec => []HandlersGetLines
<1>1. IInv => HandlersGetLines
  BY DEF IInv
<1>2. QED
  BY Inductive, <1>1, PTL
=============================================================================
