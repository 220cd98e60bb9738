------------------------------- MODULE Broker -------------------------------
(***************************************************************************)
(* The whole system: the server of Server.tla in the hands of the          *)
(* subscribers, publishers and operator of Peers.tla, and what it          *)
(* promises.                                                               *)
(***************************************************************************)
EXTENDS Peers

vars == <<netVars, serverVars, peerVars>>

Init == SocketsInit /\ ServerInit /\ PeersInit
ServerStep == ServerNext /\ UNCHANGED peerVars
Next == ServerStep \/ PeersNext
Spec == Init /\ [][Next]_vars

(* select() returns when a descriptor is ready and no handler waits for    *)
(* another party, so the server goes on as long as it can; a subscriber    *)
(* displays what it has received and ends when its connection is closed.   *)
(* Nobody is bound to connect, to ask, to publish or to type.              *)
FairSpec ==
    /\ Spec
    /\ WF_vars(ServerStep)
    /\ \A c \in Conns : WF_vars(Display(c)) /\ WF_vars(Hangup(c))

(***************************************************************************)
(* Safety, whatever the subscribers do.                                    *)
(***************************************************************************)

(* The state of each part has its type, and the counters their bounds.     *)
TypeOK == SocketsTypeOK /\ ServerTypeOK /\ PeersTypeOK

(* The descriptors the loop of server.c watches besides its own three are  *)
(* exactly those accept() opened and no handler closed, none lies above    *)
(* the highest one given to select(), and no connection has two.           *)
WatchedAreOpen ==
    /\ fdIN = {StdinFd, TcpFd, UdpFd} \cup OpenFds
    /\ ready \subseteq fdIN
    /\ \A fd \in fdIN : fd <= fdClients
    /\ \A f, g \in OpenFds : connOf[f] = connOf[g] => f = g
    /\ \A c \in Conns : Waiting(c) => ~ Accepted(c)

(* A descriptor that select() reported still has something to read when    *)
(* the loop of server.c reaches it, whatever the handlers before it in the *)
(* same pass closed or accepted: no handler ever blocks the server.        *)
NeverBlocks == status = "up" => \A fd \in ready : Readable(fd)

(* Nothing stays stored for a client that is connected: the drain in       *)
(* handle_id_client empties the queue, and receive_udp_message fills it    *)
(* only while sock is -1.                                                  *)
StoredOnlyOffline ==
    \A i \in DOMAIN clients : Online(clients[i]) => clients[i].inWaiting = <<>>

(* What is stored is stored in the order of arrival, and the one variable  *)
(* all the stored frames point to holds the newest of them: there is       *)
(* something to read through every pointer in a queue.                     *)
StoredInOrder ==
    \A i \in DOMAIN clients :
       LET q == clients[i].inWaiting
       IN  /\ \A j \in DOMAIN q : 1 <= q[j] /\ q[j] <= temp
           /\ \A j, k \in DOMAIN q : j <= k => q[j] <= q[k]

(* handle_id_client never makes a second record for a name it can find: a  *)
(* client's subscriptions and stored frames are in one place.              *)
UniqueIds ==
    \A i, j \in DOMAIN clients :
       clients[i].ID = clients[j].ID /\ clients[i].ID # CutId => i = j

(* A client record outlives the connection: no handler drops it, renames   *)
(* it, or touches its subscriptions while the client is away; a new        *)
(* connection or a lost one leaves the subscriptions as they are.          *)
SubscriptionsKept ==
    [][\A i \in DOMAIN clients :
         /\ i \in DOMAIN clients'
         /\ clients'[i].ID = clients[i].ID
         /\ clients'[i].sock # clients[i].sock \/ ~ Online(clients[i])
               => clients'[i].interests = clients[i].interests]_vars

(* A stored frame leaves the queue only when the client is back, with all  *)
(* the others stored for it, in their order, on its new connection.        *)
DrainedOnReturn ==
    [][\A i \in DOMAIN clients :
         LET old == clients[i].inWaiting
             new == clients'[i].inWaiting
             c   == connOf[clients'[i].sock]
             got == SubSeq(inbox'[c], Len(inbox[c]) + 1, Len(inbox'[c]))
         IN  \/ Len(new) >= Len(old) /\ SubSeq(new, 1, Len(old)) = old
             \/ /\ new = <<>> /\ ~ Online(clients[i]) /\ Online(clients'[i])
                /\ ~ Alive(c) \/ [j \in DOMAIN got |-> got[j].meant] = old]_vars

(***************************************************************************)
(* Safety when the subscribers act one at a time.                          *)
(***************************************************************************)

Has(c, r) == Reaches(r, c) /\ r.ID = Text(IdMessage(Name[c]))

(* A record that is online stands for one subscriber: the one behind its   *)
(* descriptor, which has this name, and no other record has the same       *)
(* connection.  disconnect_client, subscribe and the drain find the client *)
(* by the descriptor alone.                                                *)
SessionsMatch ==
    \A i \in DOMAIN clients :
       Online(clients[i]) =>
          /\ \E c \in Conns : Has(c, clients[i])
          /\ \A j \in DOMAIN clients : clients[j].sock = clients[i].sock => i = j

(* accept_new_connection registers a client (README.md:144): whenever the  *)
(* server has nothing left to do, each subscriber that has sent its ID and *)
(* whose connection stands has its record.                                 *)
Settled == status = "up" /\ ready = {} /\ \A fd \in fdIN : ~ Readable(fd)
Registered ==
    Settled => \A c \in Conns :
       peer[c] = "open" /\ Held(c) => \E i \in DOMAIN clients : Has(c, clients[i])

(* A subscriber is sent, as they arrive or when it is back, only datagrams *)
(* on topics that it, or an earlier process of its name, subscribed to     *)
(* (README.md:28).  What a stored frame holds instead is DeliversStored.   *)
RoutedByTopic ==
    \A c \in Conns : \A i \in DOMAIN inbox[c] :
       pub[inbox[c][i].meant] \in asked[Name[c]]

(* A subscriber is sent its datagrams in the order they arrived: what was  *)
(* stored for it comes before what arrives after its return.               *)
DeliveredInOrder ==
    \A c \in Conns : \A i, j \in DOMAIN inbox[c] :
       i <= j => inbox[c][i].meant <= inbox[c][j].meant

(* -1 in place of a process says that there is none.                       *)
ASSUME ProcessAssumption == NoSock \notin Conns

(* As long as the subscribers act one at a time, what server.c and         *)
(* action.c make of descriptors, passes and one flag is the service of     *)
(* PubSub.tla: sessions belong to processes, begin and end with them, and  *)
(* each is sent what its own ID asked for; and the process ends for the    *)
(* reasons named there and no other.  A session takes one descriptor, and  *)
(* nothing else does for long.                                             *)
Account(id) ==
    LET own  == {i \in DOMAIN clients : clients[i].ID = Text(IdMessage(id))}
        r    == clients[CHOOSE i \in own : TRUE]
    IN  IF own = {} THEN [sock |-> NoSock, interests |-> <<>>, inWaiting |-> <<>>]
        ELSE [sock |-> IF Online(r) THEN connOf[r.sock] ELSE NoSock,
              interests |-> r.interests, inWaiting |-> r.inWaiting]
P == INSTANCE PubSub WITH
       present   <- {c \in Conns : Alive(c)},
       account   <- [id \in IDs |-> Account(id)],
       mailbox   <- [c \in Conns |-> [i \in DOMAIN inbox[c] |-> inbox[c][i].meant]],
       published <- pub,
       line      <- console,
       up        <- status = "up",
       Room      <- MaxFd - UdpFd
ImplementsPubSub == P!Spec

(***************************************************************************)
(* Liveness, whatever the subscribers do.                                  *)
(***************************************************************************)

(* A datagram is handled, unless the process ends first: descriptors that  *)
(* stay readable for ever do not starve the others.                        *)
DatagramsHandled ==
    \A n \in 1 .. MaxPubs : Len(pub) >= n ~> handled >= n \/ status # "up"

(* A connection is accepted, and what is sent on it is read.               *)
ConnectionsServed ==
    \A c \in Conns :
       (Waiting(c) \/ inq[c] # <<>>)
          ~> ((~ Waiting(c) /\ inq[c] = <<>>) \/ status # "up")

(* When the server stops, every subscriber that runs ends too              *)
(* (test.py:601-620 waits for it).                                         *)
AllLeave == status # "up" ~> \A c \in Conns : ~ Alive(c)

(***************************************************************************)
(* What the documentation says and the code does not do.                   *)
(***************************************************************************)

(* README.md:39: "Upon reconnection, the stored messages are delivered to  *)
(* the client to ensure no data loss".                                     *)
DeliversStored ==
    \A c \in Conns : \A i \in DOMAIN inbox[c] : inbox[c][i].n = inbox[c][i].meant

(* README.md:122: "unsubscribe <topic> - Client unsubscribes from a        *)
(* topic".  Once the request is read the topic is off the client's list,   *)
(* and nothing else is.                                                    *)
UnsubscribesTopic ==
    [][\A fd \in OpenFds :
         LET c == connOf[fd]
             Other(s) == s.topic # First(fd).name
         IN  Reads(fd) /\ First(fd).kind = "u" /\ Len(inq'[c]) < Len(inq[c]) /\ status' = "up"
               => \A i \in DOMAIN clients : clients[i].sock = fd =>
                     clients'[i].interests = SelectSeq(clients[i].interests, Other)]_vars

(* README.md:38: "When a TCP client disconnects, the server stores         *)
(* messages for its subscribed topics" (and test.py:298-311 waits for it   *)
(* to report the client as disconnected): no frame sent to a client that   *)
(* has left ends it.                                                       *)
SurvivesClients == status # "sigpipe"

(* test.py:381-388 subscribes to many topics one after the other, and      *)
(* expects data on all of them (test.py:401-412): of the requests that one *)
(* recvfrom() takes, each that subscribes is done.                         *)
SubscribesToAll ==
    [][\A fd \in OpenFds :
         LET c == connOf[fd]
             taken == SubSeq(inq[c], 1, Len(inq[c]) - Len(inq'[c]))
         IN  Serving(fd) /\ ~ receiveID =>
               \A r \in DOMAIN clients, i \in DOMAIN taken :
                 clients[r].sock = fd /\ taken[i].kind = "s" =>
                   \E j \in DOMAIN clients'[r].interests :
                      clients'[r].interests[j].topic = taken[i].name]_vars
=============================================================================
