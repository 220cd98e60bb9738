------------------------------- MODULE Sockets -------------------------------
(***************************************************************************)
(* The operating system as src/server.c and src/subscriber.c use it: the   *)
(* TCP connections of the subscribers, the server's descriptors, its UDP   *)
(* socket and its console.  Nothing here is code of the repository; the    *)
(* outcomes of send and recv on a connection whose other end has closed    *)
(* are those of Linux over the loopback interface (the reset with which a  *)
(* closed end answers data arrives before the next send).                  *)
(***************************************************************************)
EXTENDS Protocol

CONSTANTS
    Conns,    \* subscriber processes, each with its one TCP connection
    MaxFd,    \* highest descriptor the process may open
    None      \* no connection, or no topic

StdinFd == 0
TcpFd   == 3
UdpFd   == 4
Fds     == 5 .. MaxFd        \* descriptors that accept can return
AllFds  == 0 .. MaxFd

ASSUME SocketsAssumption ==
    /\ MaxFd \in Nat /\ MaxFd >= UdpFd
    /\ None \notin Conns
    /\ None \notin Topics

VARIABLES
    peer,       \* the subscriber's end of each connection
    inq,        \* messages sent to the server and not yet read by it
    inbox,      \* frames sent to the subscriber and not yet read by it
    backlog,    \* connections completed and not yet accepted
    connOf,     \* the connection behind each descriptor of the server
    pub,        \* topics of the datagrams, in the order they arrived
    handled,    \* how many datagrams the server has received
    console     \* what waits on the server's standard input

netVars == <<peer, inq, inbox, backlog, connOf, pub, handled, console>>

(* "new" not started; "connected" its ID not yet sent; "open" ID sent;     *)
(* "fin" closed, everything it got was read; "rst" killed with frames      *)
(* unread, which resets the connection; "dead" both directions are over;   *)
(* "gone" nothing left of it.                                              *)
PeerState == {"new", "connected", "open", "fin", "rst", "dead", "gone"}
Alive(c)  == peer[c] \in {"connected", "open"}
Closed(c) == peer[c] \in {"fin", "rst", "dead"}

SocketsTypeOK ==
    /\ peer    \in [Conns -> PeerState]
    /\ inq     \in [Conns -> Seq(Message)]
    /\ inbox   \in [Conns -> Seq(Frame)]
    /\ backlog \in Seq(Conns)
    /\ connOf  \in [Fds -> Conns \cup {None}]
    /\ pub     \in Seq(Topics)
    /\ handled \in 0 .. Len(pub)
    /\ console \in {"quiet", "exit", "other"}

SocketsInit ==
    /\ peer    = [c \in Conns |-> "new"]
    /\ inq     = [c \in Conns |-> <<>>]
    /\ inbox   = [c \in Conns |-> <<>>]
    /\ backlog = <<>>
    /\ connOf  = [fd \in Fds |-> None]
    /\ pub     = <<>>
    /\ handled = 0
    /\ console = "quiet"

Waiting(c)  == \E i \in DOMAIN backlog : backlog[i] = c
Accepted(c) == \E fd \in Fds : connOf[fd] = c
OpenFds     == {fd \in Fds : connOf[fd] # None}

(* select reports a descriptor whose next read would not block.            *)
Readable(fd) ==
    \/ fd = StdinFd /\ console # "quiet"
    \/ fd = TcpFd /\ backlog # <<>>
    \/ fd = UdpFd /\ handled < Len(pub)
    \/ /\ fd \in OpenFds
       /\ \/ inq[connOf[fd]] # <<>>
          \/ Closed(connOf[fd])

(* accept takes the lowest descriptor that is not open.                    *)
LowestFree(fd) ==
    /\ fd \in Fds \ OpenFds
    /\ \A g \in Fds \ OpenFds : fd <= g

(* Sending k frames on the connection c: a closed end answers the first    *)
(* with a reset, and a send on a reset connection raises SIGPIPE.          *)
RaisesSigpipe(c, k) ==
    \/ peer[c] = "dead" /\ k >= 1
    \/ peer[c] \in {"fin", "rst"} /\ k >= 2
AfterSends(c, k) ==
    IF k >= 1 /\ peer[c] \in {"fin", "rst"} THEN "dead" ELSE peer[c]

(* close() on the descriptor fd: what was unread is thrown away.           *)
CloseFd(fd) ==
    LET c == connOf[fd]
    IN  /\ connOf' = [connOf EXCEPT ![fd] = None]
        /\ inq'    = [inq EXCEPT ![c] = <<>>]
        /\ peer'   = [peer EXCEPT ![c] = IF Closed(c) THEN "gone" ELSE @]

(* recv() on fd returns whatever has arrived, k messages of it at once.    *)
Received(c, k) ==
    /\ k \in 1 .. Len(inq[c])
    /\ inq' = [inq EXCEPT ![c] = SubSeq(@, k + 1, Len(@))]
=============================================================================
