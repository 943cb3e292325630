-------------------------------- MODULE CmosSub --------------------------------
(***************************************************************************)
(* The subscriber of the CMOS library (cmos_sub.c) as the bridge uses it:  *)
(* one thread creates a context, adds the subscriptions, all of them to    *)
(* BRIDGE_SUB_HMI_TOPIC, and spins until pthread_cancel().  The context    *)
(* keeps one socket to the master and one connection per pair of publisher *)
(* and subscription slot.                                                  *)
(*                                                                         *)
(* The master and the publishers are the environment.  They crash and come *)
(* back, the master may answer too late, a connection may break.  A        *)
(* message line arrives in LineLen pieces, the last of which carries the   *)
(* newline.  A lookup is one step: nobody else uses the context.           *)
(***************************************************************************)
EXTENDS Naturals, Sequences, FiniteSets, FiniteSetsExt

CONSTANTS
  NumSlots,    \* calls of cmos_sub_add()
  Nodes,       \* publishers of the topic
  MaxConns,    \* CM_MAX_PUB_CONN
  LineLen,     \* pieces of a message line
  RxCap,       \* CM_RX_BUF - 1, in pieces
  LineCap,     \* sizeof(line) - 1 of the event loop, in pieces
  MaxStream    \* bound on the pieces waiting in a socket

ASSUME SubAssumption ==
  /\ NumSlots \in Nat \ {0}
  /\ IsFiniteSet(Nodes)
  /\ MaxConns \in Nat
  /\ LineLen \in Nat \ {0}
  /\ RxCap \in Nat /\ RxCap >= LineLen
  /\ LineCap \in Nat
  /\ MaxStream \in Nat \ {0}

\* For the liveness properties: the other slots cannot fill the table.
ASSUME RoomAssumption == MaxConns > (NumSlots - 1) * Cardinality(Nodes)

Slots == 1 .. NumSlots
Index == 1 .. MaxConns

VARIABLES
  pc,      \* where the thread is
  s,       \* slot of the loop it is in
  round,   \* which of the two ctx_reconnect_all_pubs() of the loop runs
  due,     \* two seconds have passed since last_reconnect
  ready,   \* events of epoll_wait() not yet handled
  msock,   \* master_sock: "none", "open", or "stale" when its peer is gone
  conns,   \* pub_conns
  handed,  \* history: lines given to ctx_handle_line() after the last recv()
           \* of the event loop, until the loop is done
  master,  \* environment: "up", "slow" (answers after the timeout) or "down"
  pubUp,   \* environment: publishers that listen
  regd     \* environment: publishers the master knows

vars == <<pc, s, round, due, ready, msock, conns, handed, master, pubUp, regd>>
env == <<master, pubUp, regd>>

-----------------------------------------------------------------------------
(* Connections.                                                            *)

\* An inactive entry; rx is the receive buffer, which closing clears.
Closed == [active |-> FALSE, slot |-> 0, node |-> CHOOSE n \in Nodes : TRUE,
           up |-> FALSE, stream |-> <<>>, rx |-> <<>>, next |-> 1]

\* ctx_close_conn()
CloseConn(c) == Closed

\* The active entry; up, stream and next belong to the peer: whether it is
\* there, what it sent, and the piece of the line it sends next.
Opened(c, slot, node) ==
  [c EXCEPT !.active = TRUE, !.slot = slot, !.node = node,
            !.up = TRUE, !.stream = <<>>, !.next = 1]

Active(table) == {i \in Index : table[i].active}

\* Mutant: the search sees no connection at all.
FindConnNever(table, node, slot) == {}

\* ctx_find_conn()
FindConn(table, node, slot) ==
  {i \in Active(table) : table[i].slot = slot /\ table[i].node = node}

\* ctx_add_pub() for a set of publishers in the order of the master's list:
\* each that can be reached and has no connection yet takes the first free
\* entry, as long as there is one.
AddPubs(nodes, slot, table) ==
  LET new == {n \in nodes \cap pubUp : FindConn(table, n, slot) = {}}
      free == Index \ Active(table)
      taken == {i \in free : Cardinality({j \in free : j < i}) < Cardinality(new)}
  IN  {[i \in Index |-> IF i \in taken THEN Opened(table[i], slot, by[i]) ELSE table[i]] :
         by \in Injection(taken, new)}

Connected(slot) == \E i \in Active(conns) : conns[i].slot = slot
AllConnected == \A slot \in Slots : Connected(slot)
Deaf == Active(conns) = {}

-----------------------------------------------------------------------------
(* The master socket.                                                      *)

\* ctx_reconnect_master(), and the connection made by cmos_sub_create().
Dial == IF master = "down" THEN "none" ELSE "open"

\* ctx_lookup_slot(): the master lists its publishers, some of them once more
\* if it kept an earlier registration, and ends the list; or the lookup fails,
\* after part of the list at most, and closes the socket.
Lookup(slot) ==
  \/ /\ msock = "open"
     /\ master = "up"
     /\ \E once \in AddPubs(regd, slot, conns), again \in SUBSET regd :
          conns' \in AddPubs(again, slot, once)
     /\ UNCHANGED msock
  \/ /\ msock = "open"
     /\ master = "slow"
     /\ \E part \in SUBSET regd : conns' \in AddPubs(part, slot, conns)
     /\ msock' = "none"
  \/ /\ msock # "open"
     /\ msock' = "none"
     /\ UNCHANGED conns

-----------------------------------------------------------------------------
(* The thread.                                                             *)

\* cmos_sub_create(): without the master the thread ends.
Create ==
  /\ pc = "create"
  /\ msock' = Dial
  /\ pc' = IF Dial = "open" THEN "add" ELSE "ended"
  /\ UNCHANGED <<s, round, due, ready, conns, handed, env>>

\* cmos_sub_add()
Add ==
  /\ pc = "add"
  /\ Lookup(s)
  /\ s' = IF s < NumSlots THEN s + 1 ELSE 1
  /\ pc' = IF s < NumSlots THEN "add" ELSE "top"
  /\ UNCHANGED <<round, due, ready, handed, env>>

\* Entering ctx_reconnect_all_pubs() for the k-th time in this turn.
ReconnectAll(k) ==
  LET sock == IF msock = "none" THEN Dial ELSE msock
  IN  /\ msock' = sock
      /\ round' = k
      /\ s' = 1
      /\ pc' = IF sock # "none" THEN "all" ELSE IF k = 1 THEN "sleep" ELSE "top"

\* Mutant: the loop waits for events although nobody can send any.
TopWaits ==
  /\ pc = "top"
  /\ pc' = "epoll"
  /\ UNCHANGED <<s, round, msock, due, ready, conns, handed, env>>

\* Head of the loop of cmos_sub_spin_ctx()
Top ==
  /\ pc = "top"
  /\ \/ Deaf /\ ReconnectAll(1)
     \/ ~Deaf /\ pc' = "epoll" /\ UNCHANGED <<s, round, msock>>
  /\ UNCHANGED <<due, ready, conns, handed, env>>

\* One slot of ctx_reconnect_all_pubs()
LookupAll ==
  /\ pc = "all"
  /\ Lookup(s)
  /\ s' = IF s < NumSlots THEN s + 1 ELSE 1
  /\ pc' = IF s < NumSlots THEN "all"
           ELSE IF round = 2 THEN "top"
           ELSE IF Active(conns') = {} THEN "sleep" ELSE "epoll"
  /\ UNCHANGED <<round, due, ready, handed, env>>

\* sleep(2), then the second ctx_reconnect_all_pubs()
Sleep ==
  /\ pc = "sleep"
  /\ due' = TRUE
  /\ ReconnectAll(2)
  /\ UNCHANGED <<ready, conns, handed, env>>

Readable(c) == c.active /\ (c.stream # <<>> \/ ~c.up)

\* Mutant: the missing slots are looked up only when nothing was received.
EpollRetryIfIdle ==
  LET events == {i \in Index : Readable(conns[i])}
  IN  /\ pc = "epoll"
      /\ ready' = events
      /\ pc' = IF events = {} THEN "retry" ELSE "events"
      /\ s' = 1
      /\ due' = FALSE
      /\ UNCHANGED <<round, msock, conns, handed, env>>

\* epoll_wait(): the events at hand, or none after two seconds; then the test
\* of last_reconnect.
Epoll ==
  LET events == {i \in Index : Readable(conns[i])}
  IN  /\ pc = "epoll"
      /\ ready' = events
      /\ pc' = IF due \/ events = {} THEN "retry" ELSE "events"
      /\ s' = 1
      /\ due' = FALSE
      /\ UNCHANGED <<round, msock, conns, handed, env>>

\* One slot of the retry pass
Retry ==
  /\ pc = "retry"
  /\ \/ Connected(s) /\ UNCHANGED <<msock, conns>>
     \/ ~Connected(s) /\ Lookup(s)
  /\ s' = IF s < NumSlots THEN s + 1 ELSE 1
  /\ pc' = IF s < NumSlots THEN "retry" ELSE "events"
  /\ UNCHANGED <<round, due, ready, handed, env>>

\* ctx_handle_line(): what the callback of a slot with filter f is given of a
\* message m, "" being a field that is absent: nothing, the value, or all of it.
HandleLine(f, m) ==
  IF \E k \in {"state", "type", "key"} : f[k] # "" /\ m[k] # f[k] THEN "nothing"
  ELSE IF f.key # "" THEN m.value ELSE "message"

\* Where the lines of the buffer end.
Newlines(buf) == {k \in 1 .. Len(buf) : buf[k] = LineLen}

\* The lines of the buffer by the place of their newline, each copied to
\* line[512], which holds LineCap pieces of it.
Lines(buf) ==
  [k \in Newlines(buf) |->
     LET start == Max({0} \cup {j \in Newlines(buf) : j < k}) + 1
     IN  SubSeq(buf, start, Min({k, start + LineCap - 1}))]

\* Mutant: the newline itself is taken for the start of the next line.
RemainderKeepsNewline(buf) ==
  LET ends == Newlines(buf)
      rest == IF ends = {} THEN buf ELSE SubSeq(buf, Max(ends), Len(buf))
  IN  IF Len(rest) >= RxCap THEN <<>> ELSE rest

\* What stays in the buffer once its complete lines are handled; a full buffer
\* without a newline is emptied.
Remainder(buf) ==
  LET ends == Newlines(buf)
      rest == IF ends = {} THEN buf ELSE SubSeq(buf, Max(ends) + 1, Len(buf))
  IN  IF Len(rest) >= RxCap THEN <<>> ELSE rest

\* Mutant: the connection is read again without another event.
ReceiveAgain(i) ==
  LET c == conns[i]
      n == Min({Len(c.stream), RxCap - Len(c.rx)})
      buf == c.rx \o SubSeq(c.stream, 1, n)
  IN  /\ pc = "events"
      /\ i \in ready
      /\ n > 0
      /\ handed' = Lines(buf)
      /\ conns' = [conns EXCEPT ![i].rx = Remainder(buf),
                                ![i].stream = SubSeq(c.stream, n + 1, Len(c.stream))]
      /\ UNCHANGED <<pc, s, round, due, ready, msock, env>>

\* recv() of one ready connection: the end of the stream closes it, else what
\* fits is appended to the buffer and the complete lines go to the handlers.
Receive(i) ==
  LET c == conns[i]
      n == Min({Len(c.stream), RxCap - Len(c.rx)})
      buf == c.rx \o SubSeq(c.stream, 1, n)
  IN  /\ pc = "events"
      /\ i \in ready
      /\ ready' = ready \ {i}
      /\ handed' = IF c.active /\ n > 0 THEN Lines(buf) ELSE <<>>
      /\ conns' = IF ~c.active THEN conns
                  ELSE IF n = 0 THEN [conns EXCEPT ![i] = CloseConn(c)]
                  ELSE [conns EXCEPT
                          ![i].rx = Remainder(buf),
                          ![i].stream = SubSeq(c.stream, n + 1, Len(c.stream))]
      /\ UNCHANGED <<pc, s, round, due, msock, env>>

EventsDone ==
  /\ pc = "events"
  /\ ready = {}
  /\ pc' = "top"
  /\ handed' = <<>>
  /\ UNCHANGED <<s, round, due, ready, msock, conns, env>>

\* pthread_cancel() at a cancellation point; cleanup_sub_ctx() runs
\* cmos_sub_destroy().
Cancel ==
  /\ pc # "ended"
  /\ pc' = "ended"
  /\ conns' = [i \in Index |-> CloseConn(conns[i])]
  /\ ready' = {}
  /\ msock' = "none"
  /\ UNCHANGED <<s, round, due, handed, env>>

Thread ==
  \/ Create \/ Add \/ Top \/ LookupAll \/ Sleep \/ Epoll \/ Retry
  \/ \E i \in Index : Receive(i)
  \/ EventsDone

-----------------------------------------------------------------------------
(* The environment.                                                        *)

\* Two seconds since last_reconnect are over.
Tick ==
  /\ ~due
  /\ due' = TRUE
  /\ UNCHANGED <<pc, s, round, ready, msock, conns, handed, env>>

\* The next piece of a line arrives.
PeerSends(i) ==
  /\ conns[i].active /\ conns[i].up
  /\ Len(conns[i].stream) < MaxStream
  /\ conns' = [conns EXCEPT ![i].stream = Append(@, conns[i].next),
                            ![i].next = (@ % LineLen) + 1]
  /\ UNCHANGED <<pc, s, round, due, ready, msock, handed, env>>

\* Hang up the connections of a set, which may lose what is in flight.
HangUp(gone, lost) ==
  conns' = [i \in Index |-> IF i \notin gone THEN conns[i]
                            ELSE [conns[i] EXCEPT !.up = FALSE,
                                   !.stream = IF lost THEN <<>> ELSE @]]

ConnBreaks(i) ==
  /\ conns[i].active /\ conns[i].up
  /\ \E lost \in BOOLEAN : HangUp({i}, lost)
  /\ UNCHANGED <<pc, s, round, due, ready, msock, handed, env>>

\* A publisher ends; the master may notice.
PubStops(n) ==
  /\ n \in pubUp
  /\ pubUp' = pubUp \ {n}
  /\ regd' \in {regd, regd \ {n}}
  /\ \E lost \in BOOLEAN :
       HangUp({i \in Active(conns) : conns[i].node = n}, lost)
  /\ UNCHANGED <<pc, s, round, due, ready, msock, handed, master>>

\* A publisher starts and registers; without the master it does not start.
PubStarts(n) ==
  /\ n \notin pubUp
  /\ master # "down"
  /\ pubUp' = pubUp \cup {n}
  /\ regd' = regd \cup {n}
  /\ UNCHANGED <<pc, s, round, due, ready, msock, conns, handed, master>>

\* A restarted master knows nobody: publishers register only when they start.
MasterStops ==
  /\ master # "down"
  /\ master' = "down"
  /\ regd' = {}
  /\ msock' = IF msock = "open" THEN "stale" ELSE msock
  /\ UNCHANGED <<pc, s, round, due, ready, conns, handed, pubUp>>

MasterAnswers(how) ==
  /\ master # how
  /\ master' = how
  /\ UNCHANGED <<pc, s, round, due, ready, msock, conns, handed, pubUp, regd>>

Environment ==
  \/ Tick
  \/ \E i \in Index : PeerSends(i) \/ ConnBreaks(i)
  \/ \E n \in Nodes : PubStops(n) \/ PubStarts(n)
  \/ MasterStops
  \/ MasterAnswers("up")
  \/ MasterAnswers("slow")

-----------------------------------------------------------------------------
Init ==
  /\ pc = "create"
  /\ s = 1
  /\ round = 1
  /\ due = TRUE
  /\ ready = {}
  /\ msock = "none"
  /\ conns = [i \in Index |-> Closed]
  /\ handed = <<>>
  /\ master \in {"up", "slow", "down"}
  /\ pubUp \in SUBSET Nodes
  /\ regd \in SUBSET (IF master = "down" THEN {} ELSE pubUp)

Next == Thread \/ Cancel \/ Environment

Spec == Init /\ [][Next]_vars

\* The thread is scheduled and time passes; nothing is assumed of the others.
FairSpec == Spec /\ WF_vars(Thread) /\ WF_vars(Tick)

-----------------------------------------------------------------------------
(* Properties.                                                             *)

\* A publisher is connected at most once per slot, so that no command of the
\* HMI is handled twice (ctx_add_pub(), ctx_find_conn()).
OneConnPerSlot ==
  \A i, j \in Active(conns) :
    conns[i].slot = conns[j].slot /\ conns[i].node = conns[j].node => i = j

\* The retry pass between epoll_wait() and the events it returned never makes
\* one of them stale: the recv() of an event, which has no timeout, finds data
\* or the end of the stream, so one silent publisher cannot freeze the others.
RecvNeverBlocks ==
  pc = "events" => \A i \in ready : Readable(conns[i])

\* Buffer and socket of a connection together are the lines of this very
\* connection from a line's first piece on, whatever the reads cut out and
\* whoever used the entry before.
LinesInStep ==
  \A i \in Active(conns) :
    LET all == conns[i].rx \o conns[i].stream
    IN  \A k \in 1 .. Len(all) : all[k] = ((k - 1) % LineLen) + 1

\* What ctx_handle_line() gets begins where a line begins, holds nothing of another
\* line, and is the whole line or, of a longer one, what line[512] takes.
HandlersGetLines ==
  \A k \in DOMAIN handed :
    /\ Len(handed[k]) = Min({LineLen, LineCap})
    /\ \A j \in 1 .. Len(handed[k]) : handed[k][j] = j

\* Master and publishers are there and know each other.
Stable ==
  pc # "ended" /\ master = "up" /\ Nodes # {} /\ pubUp = Nodes /\ regd = Nodes

\* A subscriber that lost every connection gets all of its slots back, even
\* when the master was restarted meanwhile and its socket is stale.
DeafSubscriberRecovers ==
  []([]Stable /\ Deaf => <>AllConnected)

\* While the master socket holds, a slot without connection is connected again
\* even if other slots receive data all the time (the last_reconnect timer).
LostSlotRecovers ==
  <>[](Stable /\ msock = "open") => \A slot \in Slots : []<>Connected(slot)

\* What the comments in cmos_sub_add() and cmos_sub_spin_ctx() say: a slot
\* whose lookup failed is connected by the periodic retry.
SlotsReconnect ==
  <>[]Stable => \A slot \in Slots : []<>Connected(slot)

=============================================================================
