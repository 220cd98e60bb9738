------------------------------- MODULE Server -------------------------------
(***************************************************************************)
(* The server: the loop of src/server.c and the handlers of                *)
(* src/utils/lib/action.c.  One thread runs them, so a handler is one      *)
(* action; what happens outside goes on between them.  A pass of the loop  *)
(* is a Select, which fixes the set of ready descriptors, and then one     *)
(* handler for each of them in ascending order.  What the handlers do to   *)
(* the record of one client is in Records.tla.                             *)
(*                                                                         *)
(* An operator marked "broken:" is what its successor would be with a      *)
(* plausible bug in it; nothing refers to it but the test that a property  *)
(* notices the bug.                                                        *)
(***************************************************************************)
EXTENDS Sockets, Records

VARIABLES
    status,       \* "up", or how the process ended
    fdIN,         \* descriptors the loop watches
    fdClients,    \* highest descriptor it has ever watched
    ready,        \* descriptors of this pass that are not served yet
    receiveID,    \* the next message, from whomever, is read as an ID
    clients,      \* a record for each ID ever seen, in order of arrival
    temp          \* the datagram every stored frame points to (0: none)

serverVars == <<status, fdIN, fdClients, ready, receiveID, clients, temp>>

(* "died" is DIE, "exited" and "failed" are command_exit, "fault" is the   *)
(* invalid memory access of del_pos.                                       *)
Status == {"up", "exited", "failed", "died", "sigpipe", "fault"}

(* inWaiting lists the datagrams stored for the client.  Each cell of the  *)
(* queue in fact holds the address of the same variable, so what a cell    *)
(* gives back is temp and not the datagram listed here.                    *)
Interest == [topic : Topics, sf : BOOLEAN]
Client   == [ID : StoredId, sock : Fds \cup {NoSock},
             interests : Seq(Interest), inWaiting : Seq(Nat)]

ServerTypeOK ==
    /\ status  \in Status
    /\ fdIN    \subseteq AllFds
    /\ fdClients \in AllFds
    /\ ready   \subseteq AllFds
    /\ receiveID \in BOOLEAN
    /\ clients \in Seq(Client)
    /\ temp    \in 0 .. handled

ServerInit ==
    /\ status    = "up"
    /\ fdIN      = {StdinFd, TcpFd, UdpFd}
    /\ fdClients = UdpFd
    /\ ready     = {}
    /\ receiveID = FALSE
    /\ clients   = <<>>
    /\ temp      = 0

(* The first argument of select() is fdClients + 1.                        *)
\* broken: select(fdClients, ...)
UpToBelowHighest == {fd \in fdIN : fd < fdClients}
UpToHighest == {fd \in fdIN : fd <= fdClients}

Select ==
    /\ status = "up" /\ ready = {}
    /\ ready' = {fd \in UpToHighest : Readable(fd)}
    /\ ready' # {}
    /\ UNCHANGED <<status, fdIN, fdClients, receiveID, clients, temp, netVars>>

(* The loop serves fd now, and goes on to the next ready descriptor ...    *)
Serving(fd) ==
    /\ status = "up" /\ fd \in ready
    /\ \A other \in ready : fd <= other
Served(fd) == ready' = ready \ {fd}

(* ... unless the process ends here.                                       *)
Ends(how) ==
    /\ status' = how
    /\ UNCHANGED <<fdIN, fdClients, ready, receiveID, clients, temp>>

(* The new descriptor is watched from the next pass on.                    *)
\* broken: the new descriptor goes into the set being served.
WatchInThisPass(fd) ==
    /\ fdIN'      = fdIN \cup {fd}
    /\ fdClients' = IF fd > fdClients THEN fd ELSE fdClients
    /\ ready'     = (ready \ {TcpFd}) \cup {fd}
\* broken: the highest descriptor is not raised.
WatchBelowHighest(fd) ==
    /\ fdIN' = fdIN \cup {fd}
    /\ UNCHANGED fdClients
    /\ Served(TcpFd)
Watch(fd) ==
    /\ fdIN'      = fdIN \cup {fd}
    /\ fdClients' = IF fd > fdClients THEN fd ELSE fdClients
    /\ Served(TcpFd)

(* receiveID is set before accept() is called.                             *)
AcceptNewConnection ==
    /\ Serving(TcpFd)
    /\ UNCHANGED <<peer, inq, inbox, pub, handled, console>>
    /\ \/ \E fd \in Fds :
            /\ LowestFree(fd)
            /\ receiveID' = TRUE
            /\ connOf'    = [connOf EXCEPT ![fd] = Head(backlog)]
            /\ backlog'   = Tail(backlog)
            /\ Watch(fd)
            /\ UNCHANGED <<status, clients, temp>>
       \/ /\ OpenFds = Fds
          /\ Ends("died")
          /\ UNCHANGED <<backlog, connOf>>

Reaches(r, c) == Online(r) /\ connOf[r.sock] = c
(* How often c is sent a frame on topic when the first m clients are done. *)
Copies(c, topic, m) ==
    Cardinality(UNION {{i} \X Wanted(clients[i], topic) :
                          i \in {i \in 1 .. m : Reaches(clients[i], c)}})
(* Each matching subscription of each client sends the frame, or stores it *)
(* when the client is offline.  The process ends at the client whose       *)
(* connection raises SIGPIPE, if there is one: the frames sent before have *)
(* left.                                                                   *)
ReceiveUdpMessage ==
    /\ Serving(UdpFd)
    /\ handled' = handled + 1
    /\ LET n     == handled + 1
           topic == pub[n]
           Breaks(m) == \E c \in Conns : RaisesSigpipe(c, Copies(c, topic, m))
           Live(c, m) == IF Alive(c)
                         THEN Times(Copies(c, topic, m), [n |-> n, meant |-> n])
                         ELSE <<>>
           Forward(m) == inbox' = [c \in Conns |-> inbox[c] \o Live(c, m)]
       IN  \/ \E m \in DOMAIN clients :
                /\ Breaks(m) /\ ~ Breaks(m - 1)
                /\ Forward(m - 1)
                /\ Ends("sigpipe")
                /\ UNCHANGED peer
           \/ /\ ~ Breaks(Len(clients))
              /\ Forward(Len(clients))
              /\ peer' = [c \in Conns |-> AfterSends(c, Copies(c, topic, Len(clients)))]
              /\ clients' = [i \in DOMAIN clients |-> Keep(clients[i], topic, n)]
              /\ temp' = IF \E i \in DOMAIN clients :
                               ~ Online(clients[i]) /\ Stored(clients[i], topic) # {}
                         THEN n ELSE temp
              /\ Served(UdpFd)
              /\ UNCHANGED <<status, fdIN, fdClients, receiveID>>
    /\ UNCHANGED <<inq, backlog, connOf, pub, console>>

CommandExit ==
    /\ Serving(StdinFd)
    /\ console' = "quiet"
    /\ Ends(IF console = "exit" THEN "exited" ELSE "failed")
    /\ UNCHANGED <<peer, inq, inbox, backlog, connOf, pub, handled>>

(* recvfrom() fails with the pending reset of the connection.              *)
ReceiveFails ==
    /\ \E fd \in OpenFds :
         /\ Serving(fd)
         /\ inq[connOf[fd]] = <<>> /\ peer[connOf[fd]] = "rst"
    /\ Ends("died")
    /\ UNCHANGED netVars

\* broken: FD_CLR is forgotten.
DropWatched(fd) == CloseFd(fd) /\ UNCHANGED fdIN
Drop(fd) == CloseFd(fd) /\ fdIN' = fdIN \ {fd}

(* recvfrom() returns 0.  A descriptor no client record holds stays open.  *)
DisconnectClient ==
    \E fd \in OpenFds :
      /\ Serving(fd)
      /\ inq[connOf[fd]] = <<>> /\ peer[connOf[fd]] \in {"fin", "dead"}
      /\ clients' = [i \in DOMAIN clients |->
                       IF clients[i].sock = fd
                       THEN Offline(clients[i]) ELSE clients[i]]
      /\ IF \E i \in DOMAIN clients : clients[i].sock = fd
         THEN Drop(fd)
         ELSE UNCHANGED <<connOf, inq, peer, fdIN>>
      /\ Served(fd)
      /\ UNCHANGED <<status, fdClients, receiveID, temp,
                     inbox, backlog, pub, handled, console>>

(* A message is read: recvfrom() takes k of those that have arrived, and   *)
(* only the first of them is looked at.                                    *)
Reads(fd) ==
    /\ fd \in OpenFds
    /\ Serving(fd)
    /\ inq[connOf[fd]] # <<>>
First(fd) == Head(inq[connOf[fd]])
DropsRead(fd) == \E k \in 1 .. Len(inq[connOf[fd]]) : Received(connOf[fd], k)

\* broken: only clients that are away are looked up.
NamedAndAway(i, id) == clients[i].ID = id /\ ~ Online(clients[i])
Named(i, id) == clients[i].ID = id
FirstNamed(i, id) ==
    /\ i \in DOMAIN clients /\ Named(i, id)
    /\ \A j \in 1 .. i - 1 : ~ Named(j, id)

(* Each cell of the queue of a client who is back sends what it points to. *)
\* broken: the newest comes first; the last cell is skipped.
DrainReversed(q) ==
    [j \in DOMAIN q |-> [n |-> temp, meant |-> q[Len(q) + 1 - j]]]
DrainButLast(q)  == [j \in 1 .. Len(q) - 1 |-> [n |-> temp, meant |-> q[j]]]
Drain(q) == [j \in DOMAIN q |-> [n |-> temp, meant |-> q[j]]]

(* handle_id_client: the ID of a client that is connected is refused ...   *)
RefuseClient(fd) ==
    /\ Reads(fd) /\ receiveID
    /\ \E i \in DOMAIN clients : FirstNamed(i, Text(First(fd))) /\ Online(clients[i])
    /\ Drop(fd)
    /\ receiveID' = FALSE
    /\ Served(fd)
    /\ UNCHANGED <<status, fdClients, clients, temp,
                   inbox, backlog, pub, handled, console>>

(* ... that of one who is away comes back, and is sent what was stored ... *)
ReconnectClient(fd) ==
    /\ Reads(fd) /\ receiveID
    /\ DropsRead(fd)
    /\ \E i \in DOMAIN clients :
         LET c == connOf[fd]
             q == clients[i].inWaiting
         IN  /\ FirstNamed(i, Text(First(fd))) /\ ~ Online(clients[i])
             /\ \/ /\ RaisesSigpipe(c, Len(q))
                   /\ Ends("sigpipe")
                   /\ UNCHANGED <<inbox, peer>>
                \/ /\ ~ RaisesSigpipe(c, Len(q))
                   /\ peer' = [peer EXCEPT ![c] = AfterSends(c, Len(q))]
                   /\ inbox' = [inbox EXCEPT ![c] =
                        IF Alive(c) THEN @ \o Drain(q) ELSE @]
                   /\ clients' = [clients EXCEPT ![i] = Back(@, fd)]
                   /\ receiveID' = FALSE
                   /\ Served(fd)
                   /\ UNCHANGED <<status, fdIN, fdClients, temp>>
    /\ UNCHANGED <<backlog, connOf, pub, handled, console>>

(* ... and any other one makes a new client.                               *)
NewClient(fd) ==
    /\ Reads(fd) /\ receiveID
    /\ DropsRead(fd)
    /\ \A i \in DOMAIN clients : ~ Named(i, Text(First(fd)))
    /\ \E id \in StoredAs(First(fd)) :
         clients' = Append(clients, [ID |-> id, sock |-> fd,
                                     interests |-> <<>>, inWaiting |-> <<>>])
    /\ receiveID' = FALSE
    /\ Served(fd)
    /\ UNCHANGED <<status, fdIN, fdClients, temp,
                   peer, inbox, backlog, connOf, pub, handled, console>>

(* handle_request: every client record that holds this descriptor gets the *)
(* subscription.                                                           *)
HandleSubscribe(fd) ==
    /\ Reads(fd) /\ ~ receiveID /\ First(fd).kind = "s"
    /\ DropsRead(fd)
    /\ clients' = [i \in DOMAIN clients |->
         IF clients[i].sock = fd THEN Subscribed(clients[i], First(fd))
         ELSE clients[i]]
    /\ Served(fd)
    /\ UNCHANGED <<status, fdIN, fdClients, receiveID, temp,
                   peer, inbox, backlog, connOf, pub, handled, console>>

(* The topic handed to unsubscribe was never assigned: it may be any text. *)
(* The slots that del_pos copies through are null as long as the client    *)
(* never had two subscriptions more than it has now: the process ends by a *)
(* fault.                                                                  *)
HandleUnsubscribe(fd) ==
    /\ Reads(fd) /\ ~ receiveID /\ First(fd).kind = "u"
    /\ DropsRead(fd)
    /\ \E topic \in Topics \cup {None} :
         LET mine == {i \in DOMAIN clients : clients[i].sock = fd}
         IN  \/ /\ \E i \in mine : Faults(clients[i], topic)
                /\ Ends("fault")
             \/ /\ \A i \in mine : ~ Faults(clients[i], topic)
                /\ clients' = [i \in DOMAIN clients |->
                     IF i \in mine THEN DropLast(clients[i], topic) ELSE clients[i]]
                /\ Served(fd)
                /\ UNCHANGED <<status, fdIN, fdClients, receiveID, temp>>
    /\ UNCHANGED <<peer, inbox, backlog, connOf, pub, handled, console>>

(* An ID that arrives when none is awaited is an invalid request.          *)
InvalidRequest(fd) ==
    /\ Reads(fd) /\ ~ receiveID /\ First(fd).kind = "id"
    /\ DropsRead(fd)
    /\ Served(fd)
    /\ UNCHANGED <<status, fdIN, fdClients, receiveID, clients, temp,
                   peer, inbox, backlog, connOf, pub, handled, console>>

HandleMessage ==
    \E fd \in OpenFds :
       \/ RefuseClient(fd)
       \/ ReconnectClient(fd)
       \/ NewClient(fd)
       \/ HandleSubscribe(fd)
       \/ HandleUnsubscribe(fd)
       \/ InvalidRequest(fd)

ServerNext ==
    \/ Select
    \/ AcceptNewConnection
    \/ ReceiveUdpMessage
    \/ CommandExit
    \/ ReceiveFails
    \/ DisconnectClient
    \/ HandleMessage
=============================================================================
