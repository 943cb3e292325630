-------------------------------- MODULE CmosPub --------------------------------
(***************************************************************************)
(* The publisher of the CMOS library (cmos_pub.c): its descriptors, the    *)
(* list of accepted subscribers, and the loop of cmos_publish() that sends *)
(* one line to each of them and drops the ones that fail.  send() blocks   *)
(* while the buffers of a subscriber that does not read are full.          *)
(* Daemon.tla runs it: the actions are the parts of its calls.             *)
(***************************************************************************)
EXTENDS Naturals, Sequences, SequencesExt

CONSTANTS
  Clients,     \* processes that may subscribe, each with one connection
  MaxSubs      \* CM_MAX_SUB_CLIENT

ASSUME PubAssumption == MaxSubs \in Nat

VARIABLES
  fds,         \* which of master_sock, listen_sock and pub_epfd are open
  subs,        \* sub_socks[0 .. sub_count - 1]: whose sockets they are
  at,          \* index of the loop of cmos_publish()
  got,         \* history: copies of the current line handed to each client
  backlog,     \* environment: connections not yet accepted
  peer         \* environment: "away", "reading", "full" or "gone"

pubVars == <<fds, subs, at, got, backlog, peer>>

Fds == {"master", "listen", "epoll"}

PubInitial ==
  /\ fds = {}
  /\ subs = <<>>
  /\ at = 1
  /\ got = [c \in Clients |-> 0]
  /\ backlog = {}
  /\ peer = [c \in Clients |-> "away"]

\* cmos_pub_init() that returns 0
InitOk ==
  /\ fds' = Fds
  /\ subs' = <<>>
  /\ UNCHANGED <<at, got, backlog, peer>>

\* cmos_pub_init() that returns -1: what it opened before the failure, without
\* the master, at the NODE line, bind() or the REGISTER_PUB line, stays open.
InitFails ==
  /\ fds' \in {{}, {"master"}, {"master", "listen"}, Fds}
  /\ subs' = <<>>
  /\ UNCHANGED <<at, got, backlog, peer>>

\* cmos_pub_poll(): accept one connection, and close it if there is no room.
Poll ==
  \/ /\ backlog = {}
     /\ UNCHANGED pubVars
  \/ \E c \in backlog :
       /\ backlog' = backlog \ {c}
       /\ \/ /\ Len(subs) < MaxSubs
             /\ subs' = Append(subs, c)
             /\ UNCHANGED peer
          \/ /\ Len(subs) >= MaxSubs
             /\ peer' = [peer EXCEPT ![c] = "away"]
             /\ UNCHANGED subs
       /\ UNCHANGED <<fds, at, got>>

\* send() takes the line; it may fill the buffers.  It is not noticed at once
\* that the peer closed its end.
SendOk ==
  /\ at <= Len(subs)
  /\ LET c == subs[at]
     IN  /\ peer[c] # "full"
         /\ got' = [got EXCEPT ![c] = @ + 1]
         /\ \/ UNCHANGED peer
            \/ peer[c] = "reading" /\ peer' = [peer EXCEPT ![c] = "full"]
  /\ at' = at + 1
  /\ UNCHANGED <<fds, subs, backlog>>

\* Mutant: the index advances past the subscriber that moved up.
SendFailsSkips ==
  /\ at <= Len(subs)
  /\ peer[subs[at]] = "gone"
  /\ peer' = [peer EXCEPT ![subs[at]] = "away"]
  /\ subs' = RemoveAt(subs, at)
  /\ at' = at + 1
  /\ UNCHANGED <<fds, got, backlog>>

\* send() fails: the subscriber is closed and the others move up.
SendFails ==
  /\ at <= Len(subs)
  /\ peer[subs[at]] = "gone"
  /\ peer' = [peer EXCEPT ![subs[at]] = "away"]
  /\ subs' = RemoveAt(subs, at)
  /\ UNCHANGED <<fds, at, got, backlog>>

\* cmos_publish() returns.
PublishEnds ==
  /\ at > Len(subs)
  /\ at' = 1
  /\ got' = [c \in Clients |-> 0]
  /\ UNCHANGED <<fds, subs, backlog, peer>>

\* cmos_pub_close()
Close ==
  /\ fds' = {}
  /\ subs' = <<>>
  /\ backlog' = {}
  /\ peer' = [c \in Clients |-> "away"]
  /\ UNCHANGED <<at, got>>

-----------------------------------------------------------------------------
(* The subscribers.                                                        *)

PeerConnects(c) ==
  /\ "listen" \in fds
  /\ peer[c] = "away"
  /\ peer' = [peer EXCEPT ![c] = "reading"]
  /\ backlog' = backlog \cup {c}
  /\ UNCHANGED <<fds, subs, at, got>>

PeerReads(c) ==
  /\ peer[c] = "full"
  /\ peer' = [peer EXCEPT ![c] = "reading"]
  /\ UNCHANGED <<fds, subs, at, got, backlog>>

PeerLeaves(c) ==
  /\ peer[c] \in {"reading", "full"}
  /\ peer' = [peer EXCEPT ![c] = "gone"]
  /\ UNCHANGED <<fds, subs, at, got, backlog>>

Peers == \E c \in Clients : PeerConnects(c) \/ PeerReads(c) \/ PeerLeaves(c)
=============================================================================
