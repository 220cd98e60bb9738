---------------------------- MODULE PacedProofs ----------------------------
(***************************************************************************)
(* Proofs about Broker when the subscribers act one at a time, as test.py  *)
(* drives them.  At any moment the server has something to do for one of   *)
(* them at most: it lets that one in, reads its requests, sees it leave or *)
(* has refused it.  All the others are idle, and it is this that makes the *)
(* one flag receiveID enough, and the descriptor enough to find a client.  *)
(***************************************************************************)
EXTENDS BrokerProofs

(* The pace of test.py, and IDs that leave room for their NUL.             *)
Tested == Paced /\ FullIds = {}

(***************************************************************************)
(* The inductive invariant: what each subscriber may be doing.             *)
(***************************************************************************)
HasRecord(c) == \E i \in DOMAIN clients : Has(c, clients[i])

Idle(c) ==
    /\ inq[c] = <<>>
    /\ \/ peer[c] \in {"new", "gone"} /\ ~ Waiting(c) /\ ~ Accepted(c)
       \/ peer[c] = "open" /\ Accepted(c) /\ HasRecord(c)

(* From connect() until the server has read the ID.                        *)
Entering(c) ==
    /\ ~ HasRecord(c) /\ inbox[c] = <<>>
    /\ \/ peer[c] = "connected" /\ inq[c] = <<>>
       \/ peer[c] = "open" /\ inq[c] = <<IdMessage(Name[c])>>
    /\ \/ Waiting(c) /\ ~ receiveID
       \/ Accepted(c) /\ receiveID

(* From a request until the server has read the last of those sent.        *)
AskedBefore(c, m) == m \in Request /\ (m.kind = "s" => m.name \in asked[Name[c]])
Asking(c) ==
    /\ peer[c] = "open" /\ Accepted(c) /\ HasRecord(c)
    /\ inq[c] # <<>>
    /\ \A i \in DOMAIN inq[c] : AskedBefore(c, inq[c][i])

(* From the end of the process until the server has seen it.               *)
Leaving(c) == Closed(c) /\ Accepted(c) /\ HasRecord(c) /\ inq[c] = <<>>

(* From the refusal of the ID until the process ends.                      *)
Refused(c) == peer[c] = "open" /\ ~ Waiting(c) /\ ~ Accepted(c) /\ inq[c] = <<>>

Busy(c) ==
    \/ Entering(c)
    \/ ~ receiveID /\ (Asking(c) \/ Leaving(c) \/ Refused(c))
OthersIdle(c) == \A d \in Conns \ {c} : Idle(d)
Turns ==
    \/ ~ receiveID /\ \A c \in Conns : Idle(c)
    \/ \E c \in Conns : Busy(c) /\ OthersIdle(c)

(* Nothing is sent to a process that has not started.                      *)
Fresh == \A c \in Conns : peer[c] = "new" => inbox[c] = <<>>

TInv == SessionsMatch /\ Fresh /\ (status = "up" => Turns)

(***************************************************************************)
(* Descriptors, connections and records.                                   *)
(***************************************************************************)

(* The record that holds a descriptor is that of the one behind it.        *)
LEMMA RecordOfFd ==
    ASSUME IInv, SessionsMatch, NEW fd \in OpenFds
    PROVE  /\ connOf[fd] \in Conns /\ Accepted(connOf[fd]) /\ ~ Waiting(connOf[fd])
           /\ \A i \in DOMAIN clients :
                clients[i].sock = fd <=> Has(connOf[fd], clients[i])
<1>1. connOf[fd] \in Conns /\ Accepted(connOf[fd])
  BY DEF IInv, TypeOK, SocketsTypeOK, OpenFds, Accepted
<1>2. ~ Waiting(connOf[fd])
  BY <1>1 DEF IInv, WatchedAreOpen
<1>3. ASSUME NEW i \in DOMAIN clients, clients[i].sock = fd
      PROVE  Has(connOf[fd], clients[i])
  <2>1. Online(clients[i])
    BY <1>3 DEF Online, OpenFds, Fds, NoSock
  <2>2. PICK c \in Conns : Has(c, clients[i])
    BY <2>1 DEF SessionsMatch
  <2> QED BY <1>3, <2>2 DEF Has, Reaches
<1>4. ASSUME NEW i \in DOMAIN clients, Has(connOf[fd], clients[i])
      PROVE  clients[i].sock = fd
  <2>1. clients[i].sock \in Fds /\ connOf[clients[i].sock] = connOf[fd]
    <3>1. clients[i] \in Client
      BY DEF IInv, TypeOK, ServerTypeOK
    <3> QED BY <1>4, <3>1 DEF Has, Reaches, Online, Client
  <2>2. clients[i].sock \in OpenFds
    BY <2>1 DEF OpenFds
  <2> QED BY <2>1, <2>2 DEF IInv, WatchedAreOpen
<1> QED BY <1>1, <1>2, <1>3, <1>4

(* A record that is online holds an open descriptor.                       *)
LEMMA OnlineOpen ==
    ASSUME TypeOK, SessionsMatch, NEW i \in DOMAIN clients, Online(clients[i])
    PROVE  clients[i].sock \in OpenFds
<1>1. clients[i].sock \in Fds
  <2>1. clients[i] \in Client
    BY DEF TypeOK, ServerTypeOK
  <2> QED BY <2>1 DEF Client, Online
<1>2. PICK c \in Conns : Has(c, clients[i])
  BY DEF SessionsMatch
<1> QED BY <1>1, <1>2, SocketsAssumption DEF Has, Reaches, OpenFds

(* Whoever a record reaches has it.                                        *)
LEMMA ReachesHas ==
    ASSUME SessionsMatch, NEW i \in DOMAIN clients, NEW c, Reaches(clients[i], c)
    PROVE  Has(c, clients[i])
BY DEF SessionsMatch, Has, Reaches

(* Steps that leave IDs, sockets and connections as they are.              *)
SameSessions ==
    /\ DOMAIN clients' = DOMAIN clients
    /\ \A i \in DOMAIN clients :
         clients'[i].ID = clients[i].ID /\ clients'[i].sock = clients[i].sock
    /\ connOf' = connOf

LEMMA SameSessionsKeep ==
    ASSUME SessionsMatch, SameSessions
    PROVE  SessionsMatch' /\ \A c \in Conns : HasRecord(c)' <=> HasRecord(c)
BY DEF SameSessions, SessionsMatch, HasRecord, Has, Reaches, Online

(***************************************************************************)
(* Who is idle, and who is not.                                            *)
(***************************************************************************)
LEMMA StaysIdle ==
    ASSUME NEW c \in Conns, Idle(c),
           peer'[c] = peer[c], inq'[c] = inq[c],
           Waiting(c)' => Waiting(c), Accepted(c)' <=> Accepted(c),
           HasRecord(c) => HasRecord(c)'
    PROVE  Idle(c)'
BY DEF Idle

(* Nothing that matters to anybody's turn.                                 *)
LEMMA TurnsKept ==
    ASSUME Turns, receiveID' = receiveID, inq' = inq,
           \A c \in Conns :
              /\ peer'[c] = peer[c] \/ (Closed(c) /\ Closed(c)')
              /\ Waiting(c)' <=> Waiting(c)
              /\ Accepted(c)' <=> Accepted(c)
              /\ HasRecord(c)' <=> HasRecord(c)
              /\ inbox[c] = <<>> /\ ~ HasRecord(c) => inbox'[c] = <<>>
              /\ asked'[Name[c]] = asked[Name[c]]
    PROVE  Turns'
<1>1. ASSUME NEW c \in Conns, Idle(c) PROVE Idle(c)'
  <2>1. peer'[c] = peer[c]
    BY <1>1 DEF Idle, Closed
  <2> QED BY <1>1, <2>1 DEF Idle
<1>2. ASSUME NEW c \in Conns, Busy(c) PROVE Busy(c)'
  <2>1. CASE Entering(c)
    BY <2>1 DEF Busy, Entering, Closed
  <2>2. CASE Asking(c) /\ ~ receiveID
    BY <2>2 DEF Busy, Asking, AskedBefore, Closed
  <2>3. CASE Leaving(c) /\ ~ receiveID
    BY <2>3 DEF Busy, Leaving, Closed
  <2>4. CASE Refused(c) /\ ~ receiveID
    BY <2>4 DEF Busy, Refused, Closed
  <2> QED BY <1>2, <2>1, <2>2, <2>3, <2>4 DEF Busy
<1>3. CASE ~ receiveID /\ \A c \in Conns : Idle(c)
  BY <1>1, <1>3 DEF Turns
<1>4. CASE \E c \in Conns : Busy(c) /\ OthersIdle(c)
  BY <1>1, <1>2, <1>4 DEF Turns, OthersIdle
<1> QED BY <1>3, <1>4 DEF Turns

(* One whose connection has not been accepted is entering.                 *)
LEMMA WaitingEnters ==
    ASSUME IInv, Turns, NEW c \in Conns, Waiting(c)
    PROVE  Entering(c) /\ ~ receiveID /\ OthersIdle(c)
<1>1. ~ Accepted(c)
  BY DEF IInv, WatchedAreOpen
<1>2. ~ Idle(c)
  BY <1>1 DEF Idle
<1>3. Busy(c) /\ OthersIdle(c)
  BY <1>2 DEF Turns, OthersIdle
<1> QED BY <1>1, <1>3 DEF Busy, Entering, Asking, Leaving, Refused

(* A message that is there is the ID that is awaited, or a request.        *)
LEMMA WhoIsRead ==
    ASSUME IInv, SessionsMatch, Turns, NEW fd, Reads(fd)
    PROVE  LET c == connOf[fd]
           IN  /\ OthersIdle(c)
               /\ peer[c] = "open"
               /\ receiveID =>
                    /\ Entering(c) /\ First(fd) = IdMessage(Name[c])
                    /\ inq[c] = <<First(fd)>>
               /\ ~ receiveID =>
                    /\ Asking(c) /\ First(fd) \in Request
                    /\ First(fd).kind = "s" => First(fd).name \in asked[Name[c]]
<1> DEFINE c == connOf[fd]
<1>1. /\ fd \in OpenFds /\ c \in Conns /\ Accepted(c) /\ ~ Waiting(c)
      /\ inq[c] # <<>>
  BY RecordOfFd DEF Reads
<1>2. ~ Idle(c)
  BY <1>1 DEF Idle
<1>3. Busy(c) /\ OthersIdle(c)
  BY <1>1, <1>2 DEF Turns, OthersIdle
<1>4. CASE Entering(c)
  <2>1. receiveID /\ peer[c] = "open" /\ inq[c] = <<IdMessage(Name[c])>>
    BY <1>1, <1>4 DEF Entering
  <2>2. First(fd) = IdMessage(Name[c])
    BY <2>1 DEF First
  <2> QED BY <1>3, <1>4, <2>1, <2>2
<1>5. CASE Asking(c) /\ ~ receiveID
  <2>1. First(fd) = inq[c][1] /\ 1 \in DOMAIN inq[c]
    BY <1>1 DEF First, IInv, TypeOK, SocketsTypeOK
  <2>2. AskedBefore(c, First(fd))
    BY <1>5, <2>1 DEF Asking
  <2> QED BY <1>3, <1>5, <2>2 DEF Asking, AskedBefore
<1> QED BY <1>1, <1>3, <1>4, <1>5 DEF Busy, Leaving, Refused

(* It is read, and nothing is left.                                        *)
LEMMA ReadLeavesNothing ==
    ASSUME IInv, NEW fd \in OpenFds, DropsRead(fd), NEW m, inq[connOf[fd]] = <<m>>
    PROVE  inq' = [inq EXCEPT ![connOf[fd]] = <<>>]
<1>1. PICK k \in 1 .. Len(inq[connOf[fd]]) :
        inq' = [inq EXCEPT ![connOf[fd]] = SubSeq(@, k + 1, Len(@))]
  BY DEF DropsRead, Received
<1>2. k = 1
  <2>1. Len(inq[connOf[fd]]) = 1
    OBVIOUS
  <2> QED BY <1>1, <2>1
<1> DEFINE q == inq[connOf[fd]]
<1>3. SubSeq(q, k + 1, Len(q)) = <<>>
  <2>1. k + 1 = 2 /\ Len(q) = 1
    BY <1>2
  <2>2. SubSeq(<<m>>, 2, 1) = <<>>
    OBVIOUS
  <2> QED BY <2>1, <2>2
<1>4. inq' = [inq EXCEPT ![connOf[fd]] = SubSeq(q, k + 1, Len(q))]
  BY <1>1
<1> HIDE DEF q
<1> QED BY <1>3, <1>4

(***************************************************************************)
(* The server's steps.                                                     *)
(***************************************************************************)
TKept == SessionsMatch' /\ (status' = "up" => Turns')

(* Steps that leave everything alone that turns depend on.                 *)
LEMMA NothingTurns ==
    ASSUME SessionsMatch, Turns, SameSessions, UNCHANGED <<peer, inq, inbox, backlog, receiveID, asked>>
    PROVE  TKept
<1>1. SessionsMatch' /\ \A c \in Conns : HasRecord(c)' <=> HasRecord(c)
  BY SameSessionsKeep
<1>2. \A c \in Conns : (Waiting(c)' <=> Waiting(c)) /\ (Accepted(c)' <=> Accepted(c))
  BY DEF Waiting, Accepted, SameSessions
<1>3. Turns'
  BY <1>1, <1>2, TurnsKept
<1> QED BY <1>1, <1>3 DEF TKept

(* Steps with which the server ends.                                       *)
LEMMA EndTurns ==
    ASSUME SessionsMatch, UNCHANGED <<clients, connOf>>, status' # "up"
    PROVE  TKept
BY SameSessionsKeep DEF SameSessions, TKept

LEMMA AcceptTurns ==
    ASSUME IInv, SessionsMatch, Turns, AcceptNewConnection, UNCHANGED peerVars
    PROVE  TKept
<1>1. CASE Ends("died") /\ UNCHANGED connOf
  BY <1>1, EndTurns DEF Ends
<1>2. CASE \E fd \in Fds :
             /\ LowestFree(fd) /\ receiveID'
             /\ connOf'  = [connOf EXCEPT ![fd] = Head(backlog)]
             /\ backlog' = Tail(backlog)
             /\ UNCHANGED <<peer, inq, inbox, clients>>
  <2>1. backlog # <<>> /\ backlog \in Seq(Conns)
    BY ServedOffers DEF AcceptNewConnection, IInv, TypeOK, SocketsTypeOK
  <2>2. PICK h \in Conns : h = Head(backlog) /\ Waiting(h)
    BY <2>1 DEF Waiting
  <2>3. PICK fd \in Fds :
             /\ LowestFree(fd) /\ receiveID'
             /\ connOf'  = [connOf EXCEPT ![fd] = h]
             /\ backlog' = Tail(backlog)
             /\ UNCHANGED <<peer, inq, inbox, clients>>
    BY <1>2, <2>2
  <2>4. Entering(h) /\ ~ receiveID /\ OthersIdle(h)
    BY <2>2, WaitingEnters
  <2>5. /\ fd \notin OpenFds /\ connOf[fd] = None
        /\ connOf'[fd] = h
        /\ \A f \in Fds \ {fd} : connOf'[f] = connOf[f]
    BY <2>3 DEF LowestFree, OpenFds, IInv, TypeOK, SocketsTypeOK
  <2>6. \A i \in DOMAIN clients :
           Online(clients[i]) => clients[i].sock \in Fds \ {fd}
    BY <2>5, OnlineOpen DEF IInv, OpenFds
  <2>7. \A i \in DOMAIN clients : \A c \in Conns : Has(c, clients[i])' <=> Has(c, clients[i])
    BY <2>3, <2>5, <2>6 DEF Has, Reaches
  <2>8. SessionsMatch'
    BY <2>3, <2>7 DEF SessionsMatch, Online
  <2>9. \A c \in Conns : HasRecord(c)' <=> HasRecord(c)
    BY <2>3, <2>7 DEF HasRecord
  <2>10. Accepted(h)'
    BY <2>5 DEF Accepted
  <2>11. \A c \in Conns \ {h} : Accepted(c)' <=> Accepted(c)
    BY <2>5, SocketsAssumption DEF Accepted
  <2>12. \A c \in Conns : Waiting(c)' => Waiting(c)
    <3>1. \A j \in DOMAIN Tail(backlog) :
             Tail(backlog)[j] = backlog[j + 1] /\ j + 1 \in DOMAIN backlog
      BY <2>1
    <3> QED BY <2>3, <3>1 DEF Waiting
  <2>13. Entering(h)'
    BY <2>3, <2>2, <2>4, <2>9, <2>10 DEF Entering
  <2>14. OthersIdle(h)'
    BY <2>3, <2>4, <2>9, <2>11, <2>12, StaysIdle DEF OthersIdle
  <2> QED BY <2>2, <2>8, <2>13, <2>14 DEF TKept, Turns, Busy
<1> QED BY <1>1, <1>2 DEF AcceptNewConnection

(* A datagram goes to nobody without a record.                             *)
LEMMA NoCopies ==
    ASSUME SessionsMatch, TypeOK, NEW c \in Conns, ~ HasRecord(c), NEW topic,
           NEW m \in 0 .. Len(clients)
    PROVE  Copies(c, topic, m) = 0
<1>1. 1 .. m \subseteq DOMAIN clients
  BY DEF TypeOK, ServerTypeOK
<1>2. {i \in 1 .. m : Reaches(clients[i], c)} = {}
  BY <1>1, ReachesHas DEF HasRecord
<1>3. UNION {{i} \X Wanted(clients[i], topic) : i \in {i \in 1 .. m : Reaches(clients[i], c)}} = {}
  BY <1>2
<1> QED BY <1>3, FS_EmptySet DEF Copies

(* Every client record keeps its ID and socket when a datagram arrives.    *)
LEMMA UdpTurns ==
    ASSUME IInv, SessionsMatch, Turns, ReceiveUdpMessage, UNCHANGED peerVars
    PROVE  TKept
<1> DEFINE n == handled + 1
           topic == pub[n]
           k(c) == Copies(c, topic, Len(clients))
           Live(c) == IF Alive(c) THEN Times(k(c), [n |-> n, meant |-> n]) ELSE <<>>
<1>1. CASE Ends("sigpipe") /\ UNCHANGED <<connOf, peer>>
  BY <1>1, EndTurns DEF Ends
<1>2. CASE /\ inbox' = [c \in Conns |-> inbox[c] \o Live(c)]
           /\ peer' = [c \in Conns |-> AfterSends(c, k(c))]
           /\ clients' = [i \in DOMAIN clients |-> Keep(clients[i], topic, n)]
           /\ UNCHANGED <<receiveID, inq, backlog, connOf>>
  <2>1. Len(clients) \in Nat /\ Len(clients) \in 0 .. Len(clients)
        /\ \A i \in DOMAIN clients : clients[i] \in Client
    BY DEF IInv, TypeOK, ServerTypeOK
  <2>2. SameSessions
    BY <1>2, <2>1, RecordFields DEF SameSessions
  <2>3. SessionsMatch' /\ \A c \in Conns : HasRecord(c)' <=> HasRecord(c)
    BY <2>2, SameSessionsKeep
  <2>4. \A c \in Conns : peer'[c] = peer[c] \/ (Closed(c) /\ Closed(c)')
    BY <1>2 DEF AfterSends, Closed
  <2>5. ASSUME NEW c \in Conns, inbox[c] = <<>>, ~ HasRecord(c)
        PROVE  inbox'[c] = <<>>
    <3>1. k(c) = 0
      BY <2>1, <2>5, NoCopies DEF IInv
    <3>2. Live(c) = <<>>
      BY <3>1 DEF Times
    <3>3. inbox'[c] = <<>> \o <<>>
      BY <1>2, <2>5, <3>2
    <3> QED BY <3>3
  <2>6. \A c \in Conns : (Waiting(c)' <=> Waiting(c)) /\ (Accepted(c)' <=> Accepted(c))
    BY <1>2 DEF Waiting, Accepted
  <2>7. Turns'
    BY <1>2, <2>3, <2>4, <2>5, <2>6, TurnsKept DEF peerVars
  <2> QED BY <2>3, <2>7 DEF TKept
<1> QED BY <1>1, <1>2 DEF ReceiveUdpMessage

(* Closing the descriptor of c.                                            *)
LEMMA Dropped ==
    ASSUME IInv, NEW fd \in OpenFds, NEW c, c = connOf[fd], Drop(fd), UNCHANGED backlog
    PROVE  /\ ~ Accepted(c)' /\ ~ Waiting(c)'
           /\ inq'[c] = <<>> /\ peer'[c] = IF Closed(c) THEN "gone" ELSE peer[c]
           /\ \A d \in Conns \ {c} :
                /\ peer'[d] = peer[d] /\ inq'[d] = inq[d]
                /\ Waiting(d)' <=> Waiting(d)
                /\ Accepted(d)' <=> Accepted(d)
           /\ \A f \in Fds \ {fd} : connOf'[f] = connOf[f]
<1>1. c \in Conns /\ Accepted(c) /\ ~ Waiting(c) /\ fd \in Fds /\ c # None
  BY DEF IInv, TypeOK, SocketsTypeOK, OpenFds, Accepted, WatchedAreOpen
<1>2. \A d \in Conns : Waiting(d)' <=> Waiting(d)
  BY DEF Waiting
<1>3. connOf'[fd] = None /\ \A f \in Fds \ {fd} : connOf'[f] = connOf[f]
  BY <1>1 DEF Drop, CloseFd, IInv, TypeOK, SocketsTypeOK
<1>4. \A f \in Fds \ {fd} : connOf[f] # c
  BY <1>1 DEF IInv, WatchedAreOpen, OpenFds
<1>5. ~ Accepted(c)' /\ \A d \in Conns \ {c} : Accepted(d)' <=> Accepted(d)
  BY <1>1, <1>3, <1>4, SocketsAssumption DEF Accepted
<1>6. /\ inq'[c] = <<>> /\ peer'[c] = IF Closed(c) THEN "gone" ELSE peer[c]
      /\ \A d \in Conns \ {c} : peer'[d] = peer[d] /\ inq'[d] = inq[d]
  BY <1>1 DEF Drop, CloseFd, IInv, TypeOK, SocketsTypeOK
<1> QED BY <1>1, <1>2, <1>3, <1>5, <1>6

(* A step for c, who is then busy with something else, or idle again.      *)
LEMMA OneTurns ==
    ASSUME NEW c \in Conns, OthersIdle(c),
           \A d \in Conns \ {c} :
              /\ peer'[d] = peer[d] /\ inq'[d] = inq[d]
              /\ Waiting(d)' => Waiting(d)
              /\ Accepted(d)' <=> Accepted(d)
              /\ HasRecord(d) => HasRecord(d)',
           Busy(c)' \/ (Idle(c)' /\ ~ receiveID')
    PROVE  Turns'
<1>1. OthersIdle(c)'
  BY StaysIdle DEF OthersIdle
<1>2. CASE Busy(c)'
  BY <1>1, <1>2 DEF Turns
<1>3. CASE Idle(c)' /\ ~ receiveID'
  BY <1>1, <1>3 DEF Turns, OthersIdle
<1> QED BY <1>2, <1>3

LEMMA DisconnectTurns ==
    ASSUME IInv, SessionsMatch, Turns, DisconnectClient, UNCHANGED peerVars
    PROVE  TKept
<1>1. PICK fd \in OpenFds : DisconnectClient!(fd)
  BY DEF DisconnectClient
<1>2. PICK c \in Conns : c = connOf[fd]
  BY RecordOfFd
<1>3. Accepted(c) /\ ~ Waiting(c) /\ inq[c] = <<>> /\ peer[c] \in {"fin", "dead"}
  BY <1>1, <1>2, RecordOfFd
<1>4. OthersIdle(c) /\ Leaving(c) /\ ~ receiveID
  <2>1. ~ Idle(c)
    BY <1>3 DEF Idle
  <2>2. Busy(c) /\ OthersIdle(c)
    BY <2>1 DEF Turns, OthersIdle
  <2> QED BY <1>3, <2>2 DEF Busy, Entering, Asking, Leaving, Refused
<1>5. \E i \in DOMAIN clients : clients[i].sock = fd
  BY <1>2, <1>4, RecordOfFd DEF Leaving, HasRecord
<1>6. Drop(fd) /\ UNCHANGED <<backlog, receiveID>>
  BY <1>1, <1>5
<1>7. /\ ~ Accepted(c)' /\ ~ Waiting(c)' /\ inq'[c] = <<>> /\ peer'[c] = "gone"
      /\ \A d \in Conns \ {c} :
           /\ peer'[d] = peer[d] /\ inq'[d] = inq[d]
           /\ Waiting(d)' <=> Waiting(d)
           /\ Accepted(d)' <=> Accepted(d)
      /\ \A f \in Fds \ {fd} : connOf'[f] = connOf[f]
  BY <1>2, <1>3, <1>6, Dropped DEF Closed
<1>8. /\ DOMAIN clients' = DOMAIN clients
      /\ \A i \in DOMAIN clients :
           /\ clients'[i].ID = clients[i].ID
           /\ clients[i].sock = fd => ~ Online(clients'[i])
           /\ clients[i].sock # fd => clients'[i] = clients[i]
  <2>1. \A i \in DOMAIN clients : clients[i] \in Client
    BY DEF IInv, TypeOK, ServerTypeOK
  <2> QED BY <1>1, <2>1, RecordFields
<1>9. \A i \in DOMAIN clients :
         Online(clients'[i]) =>
            /\ Online(clients[i]) /\ clients'[i].sock = clients[i].sock
            /\ connOf'[clients[i].sock] = connOf[clients[i].sock]
  BY <1>7, <1>8, OnlineOpen DEF IInv, Online, OpenFds
<1>10. SessionsMatch'
  BY <1>8, <1>9 DEF SessionsMatch, Has, Reaches, Online
<1>11. ASSUME NEW d \in Conns \ {c}, HasRecord(d) PROVE HasRecord(d)'
  <2>1. PICK i \in DOMAIN clients : Has(d, clients[i])
    BY <1>11 DEF HasRecord
  <2>2. clients[i].sock # fd
    BY <1>2, <2>1 DEF Has, Reaches
  <2>3. Online(clients'[i]) /\ clients'[i] = clients[i]
    BY <1>8, <2>1, <2>2 DEF Has, Reaches
  <2>4. Has(d, clients[i])'
    BY <1>9, <2>1, <2>3 DEF Has, Reaches
  <2> QED BY <1>8, <2>4 DEF HasRecord
<1>12. Idle(c)' /\ ~ receiveID'
  BY <1>4, <1>6, <1>7 DEF Idle
<1>13. Turns'
  BY <1>4, <1>7, <1>11, <1>12, OneTurns
<1> QED BY <1>10, <1>13 DEF TKept

LEMMA RefuseTurns ==
    ASSUME IInv, SessionsMatch, Turns, NEW fd, RefuseClient(fd), UNCHANGED peerVars
    PROVE  TKept
<1>1. /\ Reads(fd) /\ fd \in OpenFds /\ receiveID /\ Drop(fd) /\ ~ receiveID'
      /\ UNCHANGED <<backlog, clients>>
  BY DEF RefuseClient, Reads
<1>2. PICK c \in Conns : c = connOf[fd]
  BY <1>1, RecordOfFd
<1>3. OthersIdle(c) /\ Entering(c) /\ peer[c] = "open"
  BY <1>1, <1>2, WhoIsRead
<1>4. /\ ~ Accepted(c)' /\ ~ Waiting(c)' /\ inq'[c] = <<>> /\ peer'[c] = "open"
      /\ \A d \in Conns \ {c} :
           /\ peer'[d] = peer[d] /\ inq'[d] = inq[d]
           /\ Waiting(d)' <=> Waiting(d)
           /\ Accepted(d)' <=> Accepted(d)
      /\ \A f \in Fds \ {fd} : connOf'[f] = connOf[f]
  BY <1>1, <1>2, <1>3, Dropped DEF Closed
<1>5. \A i \in DOMAIN clients : clients[i].sock # fd
  BY <1>1, <1>2, <1>3, RecordOfFd DEF Entering, HasRecord
<1>6. \A i \in DOMAIN clients :
         Online(clients[i]) => connOf'[clients[i].sock] = connOf[clients[i].sock]
  BY <1>4, <1>5, OnlineOpen DEF IInv, OpenFds
<1>7. \A i \in DOMAIN clients : \A d \in Conns : Has(d, clients[i])' <=> Has(d, clients[i])
  BY <1>1, <1>6 DEF Has, Reaches
<1>8. SessionsMatch'
  BY <1>1, <1>7 DEF SessionsMatch, Online
<1>9. \A d \in Conns : HasRecord(d)' <=> HasRecord(d)
  BY <1>1, <1>7 DEF HasRecord
<1>10. Busy(c)'
  BY <1>1, <1>4 DEF Busy, Refused
<1>11. Turns'
  BY <1>3, <1>4, <1>9, <1>10, OneTurns
<1> QED BY <1>8, <1>11 DEF TKept

(* After its ID is read c has a record, or has one again.                  *)
LEMMA Registers ==
    ASSUME IInv, SessionsMatch, Turns, NEW fd, Reads(fd), receiveID, DropsRead(fd),
           ~ receiveID', UNCHANGED <<backlog, connOf, asked>>,
           \A c \in Conns : peer[c] \notin {"fin", "rst"} => peer'[c] = peer[c],
           NEW j,
           DOMAIN clients' = DOMAIN clients \cup {j},
           \A i \in DOMAIN clients \ {j} : clients'[i] = clients[i],
           j \in DOMAIN clients => ~ Online(clients[j]),
           clients'[j].ID = Text(First(fd)), clients'[j].sock = fd
    PROVE  SessionsMatch' /\ Turns'
<1>1. PICK c \in Conns : c = connOf[fd]
  BY RecordOfFd DEF Reads
<1>2. /\ OthersIdle(c) /\ Entering(c) /\ peer[c] = "open" /\ inq[c] = <<First(fd)>>
      /\ First(fd) = IdMessage(Name[c]) /\ fd \in OpenFds
  BY <1>1, WhoIsRead DEF Reads
<1>3. \A i \in DOMAIN clients : clients[i].sock # fd
  BY <1>1, <1>2, RecordOfFd DEF Entering, HasRecord
<1>4. Has(c, clients[j])'
  <2>1. Online(clients'[j])
    BY <1>2 DEF Online, OpenFds, Fds, NoSock
  <2> QED BY <1>1, <1>2, <2>1 DEF Has, Reaches
<1>5. \A i \in DOMAIN clients \ {j} : \A d \in Conns : Has(d, clients[i])' <=> Has(d, clients[i])
  BY DEF Has, Reaches
<1>6. SessionsMatch'
  <2> SUFFICES ASSUME NEW i \in DOMAIN clients', Online(clients'[i])
               PROVE  /\ \E d \in Conns : Has(d, clients[i])'
                      /\ \A m \in DOMAIN clients' : clients'[m].sock = clients'[i].sock => i = m
    BY DEF SessionsMatch
  <2>1. CASE i = j
    BY <1>3, <1>4, <2>1
  <2>2. CASE i # j
    <3>1. i \in DOMAIN clients /\ clients'[i] = clients[i]
      BY <2>2
    <3> QED BY <1>3, <1>5, <2>2, <3>1 DEF SessionsMatch
  <2> QED BY <2>1, <2>2
<1>7. ASSUME NEW d \in Conns, HasRecord(d) PROVE HasRecord(d)'
  <2>1. PICK i \in DOMAIN clients : Has(d, clients[i])
    BY <1>7 DEF HasRecord
  <2>2. i # j
    BY <2>1 DEF Has, Reaches
  <2> QED BY <1>5, <2>1, <2>2 DEF HasRecord
<1>8. inq' = [inq EXCEPT ![c] = <<>>]
  BY <1>1, <1>2, ReadLeavesNothing
<1>9. \A d \in Conns : (Waiting(d)' <=> Waiting(d)) /\ (Accepted(d)' <=> Accepted(d))
  BY DEF Waiting, Accepted
<1>10. \A d \in Conns \ {c} : peer'[d] = peer[d] /\ inq'[d] = inq[d]
  BY <1>2, <1>8 DEF OthersIdle, Idle
<1>11. peer'[c] = "open" /\ inq'[c] = <<>> /\ Accepted(c)'
  <2>1. Accepted(c)
    BY <1>1, <1>2, RecordOfFd
  <2>2. inq'[c] = <<>>
    BY <1>8 DEF IInv, TypeOK, SocketsTypeOK
  <2> QED BY <1>2, <1>9, <2>1, <2>2
<1>12. HasRecord(c)'
  BY <1>4 DEF HasRecord
<1>13. Idle(c)' /\ ~ receiveID'
  BY <1>11, <1>12 DEF Idle
<1>14. Turns'
  BY <1>2, <1>7, <1>9, <1>10, <1>13, OneTurns
<1> QED BY <1>6, <1>14

LEMMA ReconnectTurns ==
    ASSUME IInv, SessionsMatch, Turns, NEW fd, ReconnectClient(fd), UNCHANGED peerVars
    PROVE  TKept
<1>1. Reads(fd) /\ receiveID /\ DropsRead(fd) /\ UNCHANGED <<backlog, connOf, asked>>
  BY DEF ReconnectClient, peerVars
<1>2. PICK j \in DOMAIN clients :
        LET c == connOf[fd]
            q == clients[j].inWaiting
        IN  /\ FirstNamed(j, Text(First(fd))) /\ ~ Online(clients[j])
            /\ \/ Ends("sigpipe")
               \/ /\ peer' = [peer EXCEPT ![c] = AfterSends(c, Len(q))]
                  /\ clients' = [clients EXCEPT ![j] = Back(@, fd)]
                  /\ receiveID' = FALSE
                  /\ UNCHANGED status
  BY DEF ReconnectClient
<1>3. CASE Ends("sigpipe")
  BY <1>1, <1>3, EndTurns DEF Ends
<1>4. CASE ~ Ends("sigpipe")
  <2>1. \A c \in Conns : peer[c] \notin {"fin", "rst"} => peer'[c] = peer[c]
    BY <1>2, <1>4 DEF AfterSends, IInv, TypeOK, SocketsTypeOK
  <2>2. clients[j] \in Client /\ clients \in Seq(Client)
    BY DEF IInv, TypeOK, ServerTypeOK
  <2>3. /\ DOMAIN clients' = DOMAIN clients
        /\ \A i \in DOMAIN clients \ {j} : clients'[i] = clients[i]
        /\ clients'[j] = Back(clients[j], fd)
    BY <1>2, <1>4, <2>2
  <2>4. clients'[j].ID = Text(First(fd)) /\ clients'[j].sock = fd
    BY <1>2, <2>2, <2>3, RecordFields DEF FirstNamed, Named
  <2>5. ~ receiveID'
    BY <1>2, <1>4
  <2> QED BY <1>1, <1>2, <2>1, <2>3, <2>4, <2>5, Registers DEF TKept
<1> QED BY <1>3, <1>4

(* An ID that leaves room for its NUL is kept as it is.                    *)
LEMMA NewClientTurns ==
    ASSUME FullIds = {}, IInv, SessionsMatch, Turns, NEW fd, NewClient(fd), UNCHANGED peerVars
    PROVE  TKept
<1>1. /\ Reads(fd) /\ receiveID /\ DropsRead(fd) /\ ~ receiveID'
      /\ UNCHANGED <<backlog, connOf, asked, peer>>
  BY DEF NewClient, peerVars
<1>2. First(fd) = IdMessage(Name[connOf[fd]])
  BY <1>1, WhoIsRead
<1>3. StoredAs(First(fd)) = {Text(First(fd))}
  BY <1>2 DEF StoredAs, IdMessage
<1>4. clients \in Seq(Client)
  BY DEF IInv, TypeOK, ServerTypeOK
<1> DEFINE r == [ID |-> Text(First(fd)), sock |-> fd, interests |-> <<>>, inWaiting |-> <<>>]
<1>5. clients' = Append(clients, r)
  BY <1>3 DEF NewClient
<1>6. /\ DOMAIN clients' = DOMAIN clients \cup {Len(clients) + 1}
      /\ Len(clients) + 1 \notin DOMAIN clients
      /\ \A i \in DOMAIN clients : clients'[i] = clients[i]
      /\ clients'[Len(clients) + 1] = r
  <2> HIDE DEF r
  <2> QED BY <1>4, <1>5
<1> QED BY <1>1, <1>6, Registers DEF TKept

(* A request is read.                                                      *)
LEMMA RequestTurns ==
    ASSUME IInv, SessionsMatch, Turns, NEW fd, Reads(fd), ~ receiveID, DropsRead(fd),
           SameSessions, UNCHANGED <<receiveID, peer, backlog, asked>>
    PROVE  TKept
<1>1. PICK c \in Conns : c = connOf[fd]
  BY RecordOfFd DEF Reads
<1>2. OthersIdle(c) /\ Asking(c) /\ fd \in OpenFds
  BY <1>1, WhoIsRead DEF Reads
<1>3. PICK k \in 1 .. Len(inq[c]) :
        inq' = [inq EXCEPT ![c] = SubSeq(@, k + 1, Len(@))]
  BY <1>1 DEF DropsRead, Received
<1>4. SessionsMatch' /\ \A d \in Conns : HasRecord(d)' <=> HasRecord(d)
  BY SameSessionsKeep
<1>5. \A d \in Conns : (Waiting(d)' <=> Waiting(d)) /\ (Accepted(d)' <=> Accepted(d))
  BY DEF Waiting, Accepted, SameSessions
<1>6. /\ inq'[c] = SubSeq(inq[c], k + 1, Len(inq[c]))
      /\ \A d \in Conns \ {c} : inq'[d] = inq[d]
  BY <1>3 DEF IInv, TypeOK, SocketsTypeOK
<1>7. \A i \in DOMAIN inq'[c] : i + k \in DOMAIN inq[c] /\ inq'[c][i] = inq[c][i + k]
  BY <1>6 DEF IInv, TypeOK, SocketsTypeOK
<1>8. CASE inq'[c] = <<>>
  <2>1. Idle(c)' /\ ~ receiveID'
    BY <1>2, <1>4, <1>5, <1>8 DEF Idle, Asking
  <2>2. Turns'
    BY <1>2, <1>4, <1>5, <1>6, <2>1, OneTurns
  <2> QED BY <1>4, <2>2 DEF TKept
<1>9. CASE inq'[c] # <<>>
  <2>1. (\A i \in DOMAIN inq[c] : AskedBefore(c, inq[c][i]))'
    BY <1>2, <1>7 DEF Asking, AskedBefore
  <2>2. Asking(c)' /\ ~ receiveID'
    BY <1>2, <1>4, <1>5, <1>9, <2>1 DEF Asking
  <2>3. Turns'
    BY <1>2, <1>4, <1>5, <1>6, <2>2, OneTurns DEF Busy
  <2> QED BY <1>4, <2>3 DEF TKept
<1> QED BY <1>8, <1>9

LEMMA MessageTurns ==
    ASSUME FullIds = {}, IInv, SessionsMatch, Turns, HandleMessage, UNCHANGED peerVars
    PROVE  TKept
<1> PICK fd \in OpenFds :
       \/ RefuseClient(fd) \/ ReconnectClient(fd) \/ NewClient(fd)
       \/ HandleSubscribe(fd) \/ HandleUnsubscribe(fd) \/ InvalidRequest(fd)
  BY DEF HandleMessage
<1>0. \A i \in DOMAIN clients : clients[i] \in Client
  BY DEF IInv, TypeOK, ServerTypeOK
<1>1. CASE RefuseClient(fd) \/ ReconnectClient(fd) \/ NewClient(fd)
  BY <1>1, RefuseTurns, ReconnectTurns, NewClientTurns
<1>2. CASE HandleSubscribe(fd)
  <2>1. SameSessions
    BY <1>0, <1>2, RecordFields DEF HandleSubscribe, SameSessions
  <2> QED BY <1>2, <2>1, RequestTurns DEF HandleSubscribe, peerVars
<1>3. CASE HandleUnsubscribe(fd)
  <2>1. CASE Ends("fault")
    BY <1>3, <2>1, EndTurns DEF Ends, HandleUnsubscribe
  <2>2. CASE ~ Ends("fault")
    <3>1. SameSessions /\ UNCHANGED receiveID
      BY <1>0, <1>3, <2>2, RecordFields DEF HandleUnsubscribe, SameSessions
    <3> QED BY <1>3, <3>1, RequestTurns DEF HandleUnsubscribe, peerVars
  <2> QED BY <2>1, <2>2
<1>4. CASE InvalidRequest(fd)
  <2>1. SameSessions
    BY <1>4 DEF InvalidRequest, SameSessions
  <2> QED BY <1>4, <2>1, RequestTurns DEF InvalidRequest, peerVars
<1> QED BY <1>1, <1>2, <1>3, <1>4

(* Frames go to those who run.                                             *)
LEMMA FreshStep ==
    ASSUME TypeOK, Fresh, Next
    PROVE  Fresh'
<1>1. \A c \in Conns : peer'[c] = "new" => peer[c] = "new"
  <2>1. CASE ReceiveUdpMessage
    BY <2>1 DEF ReceiveUdpMessage, AfterSends, Ends
  <2>2. CASE \E fd \in OpenFds : ReconnectClient(fd)
    <3>1. PICK fd \in OpenFds : ReconnectClient(fd)
      BY <2>2
    <3>2. peer' = peer \/ \E k : peer' = [peer EXCEPT ![connOf[fd]] = AfterSends(connOf[fd], k)]
      BY <3>1 DEF ReconnectClient
    <3> QED BY <3>2 DEF AfterSends, TypeOK, SocketsTypeOK
  <2>3. CASE PeersNext
    BY <2>3
    DEF PeersNext, Connect, SendId, SendRequest, Display, Exit, Kill, Hangup, Leaves,
        Publish, OperatorTypes, TypeOK, SocketsTypeOK
  <2>4. CASE ServerNext /\ ~ ReceiveUdpMessage /\ ~ \E fd \in OpenFds : ReconnectClient(fd)
    BY <2>4
    DEF ServerNext, Select, AcceptNewConnection, CommandExit, ReceiveFails,
        DisconnectClient, HandleMessage, RefuseClient, NewClient, HandleSubscribe,
        HandleUnsubscribe, InvalidRequest, netVars, Drop, CloseFd, TypeOK, SocketsTypeOK
  <2> QED BY <2>1, <2>2, <2>3, <2>4 DEF Next, ServerStep
<1>2. ASSUME NEW c \in Conns, peer[c] = "new", inbox[c] = <<>>
      PROVE  inbox'[c] = <<>>
  <2>1. ~ Alive(c)
    BY <1>2 DEF Alive
  <2>2. CASE ReceiveUdpMessage
    <3> DEFINE n == handled + 1
               Live(d, m) == IF Alive(d)
                             THEN Times(Copies(d, pub[n], m), [n |-> n, meant |-> n])
                             ELSE <<>>
    <3>1. PICK m \in Nat : inbox' = [d \in Conns |-> inbox[d] \o Live(d, m)]
      <4>1. \A m \in DOMAIN clients : m - 1 \in Nat
        BY DEF TypeOK, ServerTypeOK
      <4>2. Len(clients) \in Nat
        BY DEF TypeOK, ServerTypeOK
      <4> QED BY <2>2, <4>1, <4>2 DEF ReceiveUdpMessage
    <3>2. Live(c, m) = <<>>
      BY <2>1
    <3>3. inbox'[c] = inbox[c] \o Live(c, m)
      BY <3>1
    <3>4. inbox'[c] = <<>> \o <<>>
      BY <1>2, <3>2, <3>3
    <3> QED BY <3>4
  <2>3. CASE ~ ReceiveUdpMessage
    BY <1>2, <2>1, <2>3
    DEF Next, ServerStep, ServerNext, Select, AcceptNewConnection, CommandExit,
        ReceiveFails, DisconnectClient, HandleMessage, RefuseClient, ReconnectClient,
        NewClient, HandleSubscribe, HandleUnsubscribe, InvalidRequest, netVars, Ends,
        TypeOK, SocketsTypeOK, PeersNext, Connect, SendId, SendRequest, Display, Exit, Kill,
        Hangup, Leaves, Publish, OperatorTypes
  <2> QED BY <2>2, <2>3
<1> QED BY <1>1, <1>2 DEF Fresh

LEMMA ServerTurns ==
    ASSUME FullIds = {}, IInv, TInv, ServerStep
    PROVE  TInv'
<1>0. Fresh'
  BY FreshStep DEF IInv, TInv, Next
<1>1. status = "up"
  BY DEF ServerStep, ServerNext, Select, AcceptNewConnection, ReceiveUdpMessage,
     CommandExit, ReceiveFails, DisconnectClient, HandleMessage, RefuseClient,
     ReconnectClient, NewClient, HandleSubscribe, HandleUnsubscribe, InvalidRequest,
     Serving, Reads
<1>2. SessionsMatch /\ Turns
  BY <1>1 DEF TInv
<1>3. UNCHANGED peerVars
  BY DEF ServerStep
<1>4. CASE Select
  BY <1>0, <1>2, <1>3, <1>4, NothingTurns
  DEF Select, netVars, SameSessions, TKept, TInv, peerVars
<1>5. CASE CommandExit
  BY <1>0, <1>2, <1>5, EndTurns DEF CommandExit, Ends, TKept, TInv
<1>6. CASE ReceiveFails
  BY <1>0, <1>2, <1>6, EndTurns DEF ReceiveFails, Ends, netVars, TKept, TInv
<1>7. CASE AcceptNewConnection \/ ReceiveUdpMessage \/ DisconnectClient \/ HandleMessage
  BY <1>0, <1>2, <1>3, <1>7, AcceptTurns, UdpTurns, DisconnectTurns, MessageTurns
  DEF TKept, TInv
<1> QED BY <1>4, <1>5, <1>6, <1>7 DEF ServerStep, ServerNext

(***************************************************************************)
(* The subscribers' steps.                                                 *)
(***************************************************************************)

(* When the server has nothing to do for anybody, all are idle.            *)
LEMMA CalmIdle ==
    ASSUME Turns, Calm, status = "up"
    PROVE  ~ receiveID /\ \A c \in Conns : Idle(c)
<1>1. ASSUME NEW c \in Conns, Busy(c) PROVE FALSE
  <2>1. /\ ~ receiveID /\ ~ Waiting(c)
        /\ inq[c] = <<>> /\ ~ Closed(c) /\ ~ Orphan(c)
    BY DEF Calm, AtRest, Waiting
  <2> QED BY <1>1, <2>1 DEF Busy, Entering, Asking, Leaving, Refused, Orphan, Alive, Held
<1> QED BY <1>1 DEF Turns, Calm

LEMMA PeersTurn ==
    ASSUME Paced, IInv, TInv, PeersNext
    PROVE  TInv'
<1>1. /\ SessionsMatch /\ UNCHANGED <<clients, connOf, status, receiveID>>
      /\ Fresh'
  <2>1. SessionsMatch /\ UNCHANGED <<clients, connOf, status, receiveID>>
    BY DEF TInv, PeersNext, Connect, SendId, SendRequest, Display, Exit, Kill, Hangup, Leaves,
       Publish, OperatorTypes, serverVars
  <2> QED BY <2>1, FreshStep DEF IInv, TInv, Next
<1>2. SessionsMatch' /\ \A c \in Conns : HasRecord(c)' <=> HasRecord(c)
  BY <1>1, SameSessionsKeep DEF SameSessions
<1>3. SUFFICES ASSUME status = "up" PROVE Turns'
  BY <1>1, <1>2 DEF TInv
<1>4. Turns
  BY <1>3 DEF TInv
<1>5. \A c \in Conns : Accepted(c)' <=> Accepted(c)
  BY <1>1 DEF Accepted
<1>6. Calm => ~ receiveID /\ \A c \in Conns : Idle(c)
  BY <1>3, <1>4, CalmIdle
<1>7. ASSUME NEW c \in Conns, Connect(c) PROVE Turns'
  <2>1. backlog' = Append(backlog, c) /\ backlog \in Seq(Conns)
    BY <1>7 DEF Connect, IInv, TypeOK, SocketsTypeOK
  <2>2. Waiting(c)' /\ \A d \in Conns \ {c} : Waiting(d)' => Waiting(d)
    BY <2>1 DEF Waiting
  <2>3. Idle(c) /\ OthersIdle(c) /\ ~ receiveID
    BY <1>6, <1>7 DEF Connect, Turn, OthersIdle
  <2>4. peer[c] = "new" /\ peer'[c] = "connected" /\ inq' = inq /\ inbox' = inbox
        /\ \A d \in Conns \ {c} : peer'[d] = peer[d]
    BY <1>7 DEF Connect, IInv, TypeOK, SocketsTypeOK
  <2>5. ~ HasRecord(c)
    <3>1. ~ Accepted(c)
      BY <2>3, <2>4 DEF Idle
    <3>2. \A i \in DOMAIN clients : Online(clients[i]) => clients[i].sock \in Fds
      BY <1>1, OnlineOpen DEF IInv, OpenFds
    <3> QED BY <3>1, <3>2 DEF HasRecord, Has, Reaches, Accepted
  <2>6. inbox[c] = <<>>
    BY <2>4 DEF TInv, Fresh
  <2>7. Entering(c)'
    BY <1>1, <1>2, <2>2, <2>3, <2>4, <2>5, <2>6 DEF Entering, Idle
  <2> QED BY <1>2, <1>5, <2>2, <2>3, <2>4, <2>7, OneTurns DEF Busy
<1>8. (\A c \in Conns : ~ Connect(c)) => backlog' = backlog
  BY DEF PeersNext, SendId, SendRequest, Display, Exit, Kill, Hangup, Leaves, Publish,
     OperatorTypes
<1>9. backlog' = backlog => \A c \in Conns : Waiting(c)' <=> Waiting(c)
  BY DEF Waiting
<1>10. ASSUME NEW c \in Conns, SendId(c) PROVE Turns'
  <2>1. /\ peer[c] = "connected" /\ peer'[c] = "open" /\ inbox' = inbox
        /\ inq' = [inq EXCEPT ![c] = Append(@, IdMessage(Name[c]))]
        /\ \A d \in Conns \ {c} : peer'[d] = peer[d] /\ inq'[d] = inq[d]
        /\ backlog' = backlog
    BY <1>10 DEF SendId, IInv, TypeOK, SocketsTypeOK
  <2>2. ~ Idle(c)
    BY <2>1 DEF Idle
  <2>3. Entering(c) /\ OthersIdle(c)
    BY <1>4, <2>1, <2>2 DEF Turns, OthersIdle, Busy, Asking, Leaving, Refused, Closed
  <2>4. inq'[c] = <<IdMessage(Name[c])>>
    <3>1. inq[c] = <<>>
      BY <2>1, <2>3 DEF Entering
    <3>2. Append(<<>>, IdMessage(Name[c])) = <<IdMessage(Name[c])>>
      OBVIOUS
    <3> QED BY <2>1, <3>1, <3>2 DEF IInv, TypeOK, SocketsTypeOK
  <2>5. Entering(c)'
    BY <1>1, <1>2, <1>5, <1>9, <2>1, <2>3, <2>4 DEF Entering
  <2> QED BY <1>2, <1>5, <1>9, <2>1, <2>3, <2>5, OneTurns DEF Busy
<1>11. ASSUME NEW c \in Conns, SendRequest(c) PROVE Turns'
  <2>1. PICK m \in Request :
          /\ inq' = [inq EXCEPT ![c] = Append(@, m)]
          /\ asked' = IF m.kind = "s" THEN [asked EXCEPT ![Name[c]] = @ \cup {m.name}]
                      ELSE asked
    BY <1>11 DEF SendRequest
  <2>2. peer[c] = "open" /\ peer' = peer /\ backlog' = backlog
    BY <1>11 DEF SendRequest
  <2>3. /\ ~ receiveID /\ Accepted(c)
        /\ \A d \in Conns : ~ Waiting(d)
        /\ \A d \in Conns \ {c} : inq[d] = <<>> /\ ~ Closed(d) /\ ~ Orphan(d)
    BY <1>11 DEF SendRequest, AskingTurn, AtRest, Waiting, Held
  <2>4. \A d \in Conns \ {c} : ~ Busy(d)
    BY <1>3, <2>3 DEF Busy, Entering, Asking, Leaving, Refused, Orphan, Alive, Held
  <2>5. OthersIdle(c) /\ (Idle(c) \/ Busy(c))
    BY <1>4, <2>4 DEF Turns, OthersIdle
  <2>6. Idle(c) \/ Asking(c)
    BY <2>2, <2>3, <2>5 DEF Busy, Entering, Leaving, Refused, Closed
  <2>7. /\ inq'[c] = Append(inq[c], m) /\ inq[c] \in Seq(Message)
        /\ \A d \in Conns \ {c} : inq'[d] = inq[d]
    BY <2>1 DEF IInv, TypeOK, SocketsTypeOK
  <2>8. AskedBefore(c, m)' /\ \A e \in Message : AskedBefore(c, e) => AskedBefore(c, e)'
    BY <2>1, PeersAssumption DEF AskedBefore, IInv, TypeOK, PeersTypeOK
  <2>9. (\A i \in DOMAIN inq[c] : AskedBefore(c, inq[c][i]))'
    <3> SUFFICES ASSUME NEW i \in DOMAIN inq'[c]
                 PROVE  AskedBefore(c, inq[c][i])'
      OBVIOUS
    <3>1. inq'[c][i] = m \/ (i \in DOMAIN inq[c] /\ inq'[c][i] = inq[c][i])
      BY <2>7
    <3>2. \A e \in DOMAIN inq[c] : inq[c][e] \in Message /\ AskedBefore(c, inq[c][e])
      BY <2>6, <2>7 DEF Idle, Asking
    <3> QED BY <2>8, <3>1, <3>2 DEF AskedBefore
  <2>10. Asking(c)'
    <3>1. HasRecord(c) /\ inq'[c] # <<>>
      BY <2>2, <2>6, <2>7 DEF Idle, Asking
    <3> QED BY <1>2, <1>5, <2>2, <2>3, <2>9, <3>1 DEF Asking
  <2> QED BY <1>1, <1>2, <1>5, <1>9, <2>2, <2>3, <2>5, <2>7, <2>10, OneTurns DEF Busy
<1>12. ASSUME NEW c \in Conns, Display(c) PROVE Turns'
  <2>1. \A d \in Conns : inbox[d] = <<>> => inbox'[d] = <<>>
    BY <1>12 DEF Display, IInv, TypeOK, SocketsTypeOK
  <2>2. UNCHANGED <<peer, inq, backlog, asked>>
    BY <1>12 DEF Display, peerVars
  <2> QED BY <1>1, <1>2, <1>4, <1>5, <1>9, <2>1, <2>2, TurnsKept
<1>13. ASSUME NEW c \in Conns, Exit(c) \/ Kill(c) PROVE Turns'
  <2>1. /\ peer'[c] \in {"fin", "rst", "dead"} /\ Alive(c) /\ inq' = inq /\ backlog' = backlog
        /\ \A d \in Conns \ {c} : peer'[d] = peer[d]
    BY <1>13 DEF Exit, Kill, Leaves, Alive, IInv, TypeOK, SocketsTypeOK
  <2>2. Idle(c) /\ OthersIdle(c) /\ ~ receiveID
    BY <1>6, <1>13 DEF Exit, Kill, Turn, OthersIdle
  <2>3. Leaving(c)'
    BY <1>2, <1>5, <2>1, <2>2 DEF Leaving, Idle, Closed, Alive
  <2> QED BY <1>1, <1>2, <1>5, <1>9, <2>1, <2>2, <2>3, OneTurns DEF Busy
<1>14. ASSUME NEW c \in Conns, Hangup(c) PROVE Turns'
  <2>1. /\ peer'[c] = "gone" /\ Alive(c) /\ inq' = inq /\ backlog' = backlog
        /\ \A d \in Conns \ {c} : peer'[d] = peer[d]
        /\ ~ Waiting(c) /\ ~ Accepted(c)
    BY <1>3, <1>14 DEF Hangup, Orphan, Held, Leaves, IInv, TypeOK, SocketsTypeOK
  <2>2. ~ Idle(c)
    BY <2>1 DEF Idle, Alive
  <2>3. Refused(c) /\ OthersIdle(c) /\ ~ receiveID
    BY <1>4, <2>1, <2>2 DEF Turns, OthersIdle, Busy, Entering, Asking, Leaving
  <2>4. Idle(c)'
    BY <1>5, <1>9, <2>1, <2>3 DEF Idle, Refused
  <2> QED BY <1>1, <1>2, <1>5, <1>9, <2>1, <2>3, <2>4, OneTurns
<1>15. CASE Publish \/ OperatorTypes
  BY <1>1, <1>2, <1>4, <1>5, <1>9, <1>15, TurnsKept DEF Publish, OperatorTypes, peerVars
<1> QED BY <1>7, <1>10, <1>11, <1>12, <1>13, <1>14, <1>15 DEF PeersNext

(***************************************************************************)
(* The theorems.                                                           *)
(***************************************************************************)
LEMMA TInvInit == Init => TInv
<1> SUFFICES ASSUME Init PROVE TInv
  OBVIOUS
<1> USE DEF Init, SocketsInit, ServerInit, PeersInit
<1>1. DOMAIN clients = {}
  OBVIOUS
<1>2. \A c \in Conns : Idle(c)
  BY SocketsAssumption DEF Idle, Waiting, Accepted
<1> QED BY <1>1, <1>2 DEF TInv, SessionsMatch, Fresh, Turns

LEMMA TInvStep ==
    ASSUME Tested, IInv, TInv, [Next]_vars
    PROVE  TInv'
<1>1. CASE UNCHANGED vars
  <2>1. SameSessions /\ UNCHANGED <<peer, inq, inbox, backlog, receiveID, asked, status>>
    BY <1>1 DEF vars, netVars, serverVars, peerVars, SameSessions
  <2>2. Fresh'
    BY <2>1 DEF TInv, Fresh
  <2>3. SessionsMatch'
    BY <2>1, SameSessionsKeep DEF TInv
  <2>4. status = "up" => Turns'
    BY <2>1, NothingTurns DEF TInv, TKept
  <2> QED BY <2>1, <2>2, <2>3, <2>4 DEF TInv
<1> QED BY <1>1, ServerTurns, PeersTurn DEF Next, Tested

(* The inductive invariant, from which the next theorems follow.           *)
THEOREM PacedInductive == ASSUME Tested PROVE Spec => []TInv
<1>1. Init => TInv
  BY TInvInit
<1>2. IInv /\ TInv /\ [Next]_vars => TInv'
  BY TInvStep
<1> QED BY <1>1, <1>2, Inductive, PTL DEF Spec

(* A record that is online stands for the one subscriber behind its        *)
(* descriptor: disconnect_client, subscribe and the drain, which compare   *)
(* descriptors, find the right client.                                     *)
THEOREM SessionsAreRight == ASSUME Tested PROVE Spec => []SessionsMatch
<1>1. TInv => SessionsMatch
  BY DEF TInv
<1> QED BY <1>1, PacedInductive, PTL

(* Whenever the server has nothing left to do, each subscriber that has    *)
(* sent its ID is registered, or was refused.                              *)
THEOREM EveryoneRegistered == ASSUME Tested PROVE Spec => []Registered
<1>1. ASSUME IInv, TInv PROVE Registered
  <2> SUFFICES ASSUME Settled, NEW c \in Conns, peer[c] = "open", Held(c)
               PROVE  HasRecord(c)
    BY DEF Registered, HasRecord
  <2>1. Turns
    BY <1>1 DEF TInv, Settled
  <2>2. backlog = <<>>
    BY <1>1 DEF Settled, IInv, WatchedAreOpen, Readable
  <2>3. Accepted(c)
    BY <2>2 DEF Held, Waiting
  <2>4. inq[c] = <<>>
    BY <1>1, <2>3, SocketsAssumption
       DEF Accepted, Settled, IInv, WatchedAreOpen, Readable, OpenFds
  <2>5. Idle(c) \/ Busy(c)
    BY <2>1 DEF Turns, OthersIdle
  <2> QED BY <2>3, <2>4, <2>5 DEF Idle, Busy, Entering, Asking, Leaving, Refused, Closed
<1> QED BY <1>1, Inductive, PacedInductive, PTL
=============================================================================
