---------------------------- MODULE BrokerProofs ----------------------------
(***************************************************************************)
(* Proofs about Broker for every value of its constants.  None of the      *)
(* safety invariants of Broker is inductive by itself: the types need that *)
(* a handler finds something to read (Head(backlog), pub[handled + 1]),    *)
(* that needs that the descriptors watched are the open ones, each with a  *)
(* connection of its own, and this in turn that a connection enters the    *)
(* backlog once.  IInv puts them together.                                 *)
(***************************************************************************)
EXTENDS Broker, FiniteSetTheorems, SequenceTheorems, TLAPS

ConnectedOnce ==
    /\ \A i, j \in DOMAIN backlog : backlog[i] = backlog[j] => i = j
    /\ \A c \in Conns : peer[c] = "new" => ~ Waiting(c) /\ ~ Accepted(c)

IInv == TypeOK /\ WatchedAreOpen /\ NeverBlocks /\ ConnectedOnce

(***************************************************************************)
(* What the operators of the model return.                                 *)
(***************************************************************************)

(* Times(k, x) is a sequence of k times x.                                 *)
LEMMA TimesType ==
    ASSUME NEW S, NEW k \in Nat, NEW x \in S
    PROVE  /\ Times(k, x) \in Seq(S)
           /\ Len(Times(k, x)) = k
           /\ \A i \in 1 .. k : Times(k, x)[i] = x
BY DEF Times

(* The subscriptions a datagram matches are finitely many.                 *)
LEMMA WantedFinite ==
    ASSUME NEW r \in Client, NEW topic
    PROVE  /\ IsFiniteSet(Wanted(r, topic))
           /\ Cardinality(Stored(r, topic)) \in Nat
           /\ Stored(r, topic) # {} => Cardinality(Stored(r, topic)) # 0
<1>1. IsFiniteSet(1 .. Len(r.interests))
  <2>1. Len(r.interests) \in Nat
    BY DEF Client
  <2> QED BY <2>1, FS_Interval
<1>2. DOMAIN r.interests = 1 .. Len(r.interests)
  BY DEF Client
<1>3. IsFiniteSet(Wanted(r, topic))
  BY <1>1, <1>2, FS_Subset DEF Wanted
<1>4. IsFiniteSet(Stored(r, topic))
  BY <1>3, FS_Subset DEF Stored
<1> QED BY <1>3, <1>4, FS_CardinalityType, FS_EmptySet

(* How many copies of a frame a connection is sent is a number.            *)
LEMMA CopiesType ==
    ASSUME ServerTypeOK, NEW c, NEW topic, NEW m \in 0 .. Len(clients)
    PROVE  Copies(c, topic, m) \in Nat
<1> DEFINE I == {i \in 1 .. m : Reaches(clients[i], c)}
           S == {{i} \X Wanted(clients[i], topic) : i \in I}
<1>1. IsFiniteSet(I)
  <2>1. IsFiniteSet(1 .. m)
    BY FS_Interval DEF ServerTypeOK
  <2> QED BY <2>1, FS_Subset
<1>2. IsFiniteSet(S)
  <2> DEFINE f == [i \in I |-> {i} \X Wanted(clients[i], topic)]
  <2>1. f \in Surjection(I, S)
    BY DEF Surjection
  <2> QED BY <1>1, <2>1, FS_Surjection DEF ExistsSurjection
<1>3. \A s \in S : IsFiniteSet(s)
  <2> SUFFICES ASSUME NEW i \in I
               PROVE  IsFiniteSet({i} \X Wanted(clients[i], topic))
    OBVIOUS
  <2>1. clients[i] \in Client
    BY DEF ServerTypeOK
  <2>2. IsFiniteSet(Wanted(clients[i], topic))
    BY <2>1, WantedFinite
  <2> QED BY <2>2, FS_Singleton, FS_Product
<1>4. IsFiniteSet(UNION S)
  BY <1>2, <1>3, FS_UNION
<1> QED BY <1>4, FS_CardinalityType DEF Copies

(* A handler finds what its descriptor was reported for.                   *)
LEMMA ServedOffers ==
    ASSUME NeverBlocks
    PROVE  /\ Serving(TcpFd) => backlog # <<>>
           /\ Serving(UdpFd) => handled < Len(pub)
           /\ \A fd \in Fds : Serving(fd) => fd \in OpenFds
BY DEF Serving, NeverBlocks, Readable, TcpFd, StdinFd, UdpFd, OpenFds, Fds

(* What handlers share: a message taken off a queue, a descriptor closed.  *)
LEMMA ReceivedType ==
    ASSUME SocketsTypeOK, NEW fd \in OpenFds, DropsRead(fd)
    PROVE  inq' \in [Conns -> Seq(Message)]
<1>1. connOf[fd] \in Conns
  BY DEF SocketsTypeOK, OpenFds
<1>2. PICK k \in 1 .. Len(inq[connOf[fd]]) : Received(connOf[fd], k)
  BY DEF DropsRead
<1>3. inq[connOf[fd]] \in Seq(Message)
  BY <1>1 DEF SocketsTypeOK
<1>4. SubSeq(inq[connOf[fd]], k + 1, Len(inq[connOf[fd]])) \in Seq(Message)
  <2>1. k \in Nat /\ Len(inq[connOf[fd]]) \in Nat /\ k >= 1
    BY <1>3
  <2>2. \A i \in k + 1 .. Len(inq[connOf[fd]]) : inq[connOf[fd]][i] \in Message
    BY <1>3, <2>1
  <2> QED BY <2>1, <2>2, SubSeqProperties
<1> QED BY <1>1, <1>2, <1>4 DEF Received, SocketsTypeOK

LEMMA CloseFdType ==
    ASSUME SocketsTypeOK, NEW fd \in OpenFds, CloseFd(fd)
    PROVE  /\ peer' \in [Conns -> PeerState]
           /\ inq' \in [Conns -> Seq(Message)]
           /\ connOf' \in [Fds -> Conns \cup {None}]
BY DEF SocketsTypeOK, OpenFds, CloseFd, PeerState

LEMMA FirstType ==
    ASSUME SocketsTypeOK, NEW fd, Reads(fd)
    PROVE  First(fd) \in Message
<1>1. inq[connOf[fd]] \in Seq(Message) /\ inq[connOf[fd]] # <<>>
  BY DEF SocketsTypeOK, OpenFds, Reads
<1> QED BY <1>1, HeadTailProperties DEF First

(* The handlers that change only client records keep the records' types.   *)
LEMMA RecordTypes ==
    ASSUME ServerTypeOK, NEW r \in Client
    PROVE  /\ Offline(r) \in Client
           /\ \A fd \in Fds : Back(r, fd) \in Client
           /\ \A m \in Message : m.kind = "s" => Subscribed(r, m) \in Client
           /\ \A topic : DropLast(r, topic) \in Client
           /\ \A topic : \A n \in Nat : Keep(r, topic, n) \in Client
<1> USE DEF Client
<1>1. Offline(r) \in Client
  BY DEF Offline
<1>2. ASSUME NEW fd \in Fds PROVE Back(r, fd) \in Client
  <2>1. <<>> \in Seq(Nat)
    OBVIOUS
  <2> QED BY <2>1 DEF Back
<1>3. ASSUME NEW m \in Message, m.kind = "s" PROVE Subscribed(r, m) \in Client
  <2>1. [topic |-> m.name, sf |-> m.sf] \in Interest
    BY <1>3 DEF Message, Request, Interest
  <2>2. <<[topic |-> m.name, sf |-> m.sf]>> \o r.interests \in Seq(Interest)
    BY <2>1
  <2> QED BY <2>2 DEF Subscribed
<1>4. ASSUME NEW topic PROVE DropLast(r, topic) \in Client
  <2>1. CASE Wanted(r, topic) = {}
    BY <2>1 DEF DropLast
  <2>2. CASE Wanted(r, topic) # {}
    <3> DEFINE q == r.interests
    <3>1. q \in Seq(Interest) /\ Len(q) \in Nat
      OBVIOUS
    <3>2. \A i \in 1 .. Len(q) - 1 : q[i] \in Interest
      BY <3>1
    <3>3. SubSeq(q, 1, Len(q) - 1) \in Seq(Interest)
      BY <3>1, <3>2, SubSeqProperties
    <3> QED BY <2>2, <3>3 DEF DropLast
  <2> QED BY <2>1, <2>2
<1>5. ASSUME NEW topic, NEW n \in Nat PROVE Keep(r, topic, n) \in Client
  <2>1. Times(Cardinality(Stored(r, topic)), n) \in Seq(Nat)
    BY WantedFinite, TimesType
  <2>2. r.inWaiting \o Times(Cardinality(Stored(r, topic)), n) \in Seq(Nat)
    BY <2>1
  <2> QED BY <2>2 DEF Keep
<1> QED BY <1>1, <1>2, <1>3, <1>4, <1>5

(***************************************************************************)
(* Types.                                                                  *)
(***************************************************************************)

LEMMA TypeInit == Init => TypeOK
<1> SUFFICES ASSUME Init PROVE TypeOK
  OBVIOUS
<1> USE DEF Init, SocketsInit, ServerInit, PeersInit
<1>1. SocketsTypeOK
  <2>1. <<>> \in Seq(Message) /\ <<>> \in Seq(Frame) /\ <<>> \in Seq(Conns)
        /\ <<>> \in Seq(Topics) /\ Len(<<>>) = 0
    OBVIOUS
  <2> QED BY <2>1 DEF SocketsTypeOK, PeerState
<1>2. ServerTypeOK
  <2>1. <<>> \in Seq(Client)
    OBVIOUS
  <2>2. {StdinFd, TcpFd, UdpFd} \subseteq AllFds /\ UdpFd \in AllFds
    BY SocketsAssumption DEF AllFds, StdinFd, TcpFd, UdpFd
  <2>3. 0 \in 0 .. 0
    OBVIOUS
  <2> QED BY <2>1, <2>2, <2>3 DEF ServerTypeOK, Status
<1>3. PeersTypeOK
  <2>1. Len(<<>>) = 0
    OBVIOUS
  <2> QED BY <2>1, PeersAssumption DEF PeersTypeOK
<1> QED BY <1>1, <1>2, <1>3 DEF TypeOK

(* An action of the server other than the reception of a datagram.         *)
LEMMA SelectType ==
    ASSUME TypeOK, Select, UNCHANGED peerVars
    PROVE  TypeOK'
BY DEF TypeOK, SocketsTypeOK, ServerTypeOK, PeersTypeOK, Select, netVars, peerVars,
       UpToHighest

LEMMA AcceptType ==
    ASSUME TypeOK, NeverBlocks, AcceptNewConnection, UNCHANGED peerVars
    PROVE  TypeOK'
<1>1. backlog # <<>>
  BY ServedOffers DEF AcceptNewConnection
<1>2. Head(backlog) \in Conns /\ Tail(backlog) \in Seq(Conns)
  BY <1>1, HeadTailProperties DEF TypeOK, SocketsTypeOK
<1>3. Fds \subseteq AllFds
  BY SocketsAssumption DEF Fds, AllFds
<1> QED BY <1>2, <1>3 DEF TypeOK, SocketsTypeOK, ServerTypeOK, PeersTypeOK, peerVars,
       AcceptNewConnection, Watch, Served, Ends, Status, LowestFree

LEMMA CommandExitType ==
    ASSUME TypeOK, CommandExit, UNCHANGED peerVars
    PROVE  TypeOK'
BY DEF TypeOK, SocketsTypeOK, ServerTypeOK, PeersTypeOK, CommandExit, peerVars, Ends,
       Status

LEMMA ReceiveFailsType ==
    ASSUME TypeOK, ReceiveFails, UNCHANGED peerVars
    PROVE  TypeOK'
BY DEF TypeOK, SocketsTypeOK, ServerTypeOK, PeersTypeOK, ReceiveFails, peerVars, Ends,
       Status, netVars

LEMMA DisconnectType ==
    ASSUME TypeOK, DisconnectClient, UNCHANGED peerVars
    PROVE  TypeOK'
<1>1. PICK fd \in OpenFds : DisconnectClient!(fd)
  BY DEF DisconnectClient
<1>2. clients' \in Seq(Client)
  <2>1. \A i \in DOMAIN clients : clients[i] \in Client /\ Offline(clients[i]) \in Client
    BY RecordTypes DEF TypeOK, ServerTypeOK
  <2> QED BY <1>1, <2>1 DEF TypeOK, ServerTypeOK
<1>3. /\ peer' \in [Conns -> PeerState]
      /\ inq' \in [Conns -> Seq(Message)]
      /\ connOf' \in [Fds -> Conns \cup {None}]
      /\ fdIN' \subseteq AllFds
  BY <1>1, CloseFdType DEF Drop, TypeOK, SocketsTypeOK, ServerTypeOK
<1> QED BY <1>1, <1>2, <1>3
        DEF TypeOK, SocketsTypeOK, ServerTypeOK, PeersTypeOK, peerVars, Served

LEMMA UdpType ==
    ASSUME TypeOK, NeverBlocks, ReceiveUdpMessage, UNCHANGED peerVars
    PROVE  TypeOK'
<1> DEFINE n == handled + 1
           topic == pub[n]
           Live(c, m) == IF Alive(c)
                         THEN Times(Copies(c, topic, m), [n |-> n, meant |-> n])
                         ELSE <<>>
<1>1. handled < Len(pub)
  BY ServedOffers DEF ReceiveUdpMessage
<1>2. n \in Nat /\ handled' = n /\ n \in 0 .. Len(pub)
  BY <1>1 DEF ReceiveUdpMessage, TypeOK, SocketsTypeOK
<1>3. ASSUME NEW m \in 0 .. Len(clients),
             inbox' = [c \in Conns |-> inbox[c] \o Live(c, m)]
      PROVE  inbox' \in [Conns -> Seq(Frame)]
  <2>1. ASSUME NEW c \in Conns PROVE inbox[c] \o Live(c, m) \in Seq(Frame)
    <3>1. Copies(c, topic, m) \in Nat
      BY CopiesType DEF TypeOK
    <3>2. [n |-> n, meant |-> n] \in Frame
      BY <1>2 DEF Frame
    <3>3. Times(Copies(c, topic, m), [n |-> n, meant |-> n]) \in Seq(Frame)
      BY <3>1, <3>2, TimesType
    <3>4. Live(c, m) \in Seq(Frame)
      BY <3>3
    <3>5. inbox[c] \in Seq(Frame)
      BY DEF TypeOK, SocketsTypeOK
    <3> QED BY <3>4, <3>5, ConcatProperties
  <2> QED BY <1>3, <2>1
<1>4. Len(clients) \in Nat /\ DOMAIN clients = 1 .. Len(clients)
  BY DEF TypeOK, ServerTypeOK
<1>5. CASE \E m \in DOMAIN clients :
              /\ inbox' = [c \in Conns |-> inbox[c] \o Live(c, m - 1)]
              /\ Ends("sigpipe")
              /\ UNCHANGED peer
  <2>1. PICK m \in DOMAIN clients :
              inbox' = [c \in Conns |-> inbox[c] \o Live(c, m - 1)]
    BY <1>5
  <2>2. m - 1 \in 0 .. Len(clients)
    BY <1>4, <2>1
  <2>3. inbox' \in [Conns -> Seq(Frame)]
    BY <1>3, <2>1, <2>2
  <2> QED BY <1>2, <1>5, <2>3, SMTT(30)
          DEF TypeOK, SocketsTypeOK, ServerTypeOK, PeersTypeOK, ReceiveUdpMessage,
              peerVars, Ends, Status
<1>6. CASE /\ inbox' = [c \in Conns |-> inbox[c] \o Live(c, Len(clients))]
           /\ peer' = [c \in Conns |-> AfterSends(c, Copies(c, topic, Len(clients)))]
           /\ clients' = [i \in DOMAIN clients |-> Keep(clients[i], topic, n)]
           /\ temp' \in {n, temp}
           /\ Served(UdpFd)
           /\ UNCHANGED <<status, fdIN, fdClients, receiveID>>
  <2>1. inbox' \in [Conns -> Seq(Frame)]
    <3>1. Len(clients) \in 0 .. Len(clients)
      BY <1>4
    <3> HIDE DEF Live
    <3> QED BY <1>3, <1>6, <3>1
  <2>2. peer' \in [Conns -> PeerState]
    BY <1>6 DEF AfterSends, TypeOK, SocketsTypeOK, PeerState
  <2>3. clients' \in Seq(Client)
    <3> HIDE DEF n, topic
    <3>1. ASSUME NEW i \in DOMAIN clients PROVE Keep(clients[i], topic, n) \in Client
      <4>1. clients[i] \in Client
        BY DEF TypeOK, ServerTypeOK
      <4> QED BY <1>2, <4>1, RecordTypes DEF TypeOK
    <3> QED BY <1>4, <1>6, <3>1
  <2>4. temp' \in 0 .. handled'
    BY <1>2, <1>6 DEF TypeOK, ServerTypeOK, SocketsTypeOK
  <2> QED BY <1>2, <1>6, <2>1, <2>2, <2>3, <2>4
          DEF TypeOK, SocketsTypeOK, ServerTypeOK, PeersTypeOK, ReceiveUdpMessage,
              peerVars, Served
<1> QED BY <1>5, <1>6 DEF ReceiveUdpMessage

LEMMA HandleMessageType ==
    ASSUME TypeOK, HandleMessage, UNCHANGED peerVars
    PROVE  TypeOK'
<1> PICK fd \in OpenFds :
       \/ RefuseClient(fd) \/ ReconnectClient(fd) \/ NewClient(fd)
       \/ HandleSubscribe(fd) \/ HandleUnsubscribe(fd) \/ InvalidRequest(fd)
  BY DEF HandleMessage
<1> USE DEF TypeOK, peerVars
<1>0. /\ fd \in Fds /\ connOf[fd] \in Conns
      /\ Len(clients) \in Nat /\ DOMAIN clients = 1 .. Len(clients)
      /\ \A i \in DOMAIN clients : clients[i] \in Client
  BY DEF OpenFds, SocketsTypeOK, ServerTypeOK
<1>1. CASE RefuseClient(fd)
  <2>1. /\ peer' \in [Conns -> PeerState]
        /\ inq' \in [Conns -> Seq(Message)]
        /\ connOf' \in [Fds -> Conns \cup {None}]
    BY <1>1, CloseFdType DEF RefuseClient, Drop
  <2> QED BY <1>1, <2>1
          DEF SocketsTypeOK, ServerTypeOK, PeersTypeOK, RefuseClient, Drop, Served
<1>2. CASE ReconnectClient(fd)
  <2> DEFINE c == connOf[fd]
  <2>1. inq' \in [Conns -> Seq(Message)]
    BY <1>2, ReceivedType DEF ReconnectClient
  <2>2. PICK i \in DOMAIN clients :
          LET q == clients[i].inWaiting
          IN  \/ /\ Ends("sigpipe")
                 /\ UNCHANGED <<inbox, peer>>
              \/ /\ peer' = [peer EXCEPT ![c] = AfterSends(c, Len(q))]
                 /\ inbox' = [inbox EXCEPT ![c] =
                      IF Alive(c) THEN @ \o Drain(q) ELSE @]
                 /\ clients' = [clients EXCEPT ![i] = Back(@, fd)]
                 /\ receiveID' = FALSE
                 /\ Served(fd)
                 /\ UNCHANGED <<status, fdIN, fdClients, temp>>
    BY <1>2 DEF ReconnectClient
  <2> DEFINE q == clients[i].inWaiting
  <2>3. q \in Seq(Nat)
    BY <1>0 DEF Client
  <2>4. Drain(q) \in Seq(Frame)
    <3>1. temp \in Nat
      BY DEF SocketsTypeOK, ServerTypeOK
    <3>2. \A j \in DOMAIN q : [n |-> temp, meant |-> q[j]] \in Frame
      BY <2>3, <3>1 DEF Frame
    <3>3. Len(q) \in Nat /\ DOMAIN q = 1 .. Len(q)
      BY <2>3
    <3>4. Drain(q) = [j \in 1 .. Len(q) |-> [n |-> temp, meant |-> q[j]]]
      BY <3>3 DEF Drain
    <3> HIDE DEF q
    <3> QED BY <3>2, <3>3, <3>4
  <2>5. inbox[c] \o Drain(q) \in Seq(Frame)
    BY <1>0, <2>4, ConcatProperties DEF SocketsTypeOK
  <2>6. inbox' \in [Conns -> Seq(Frame)]
    BY <1>0, <2>2, <2>5 DEF SocketsTypeOK
  <2>7. peer' \in [Conns -> PeerState]
    BY <1>0, <2>2 DEF SocketsTypeOK, AfterSends, PeerState
  <2>8. clients' \in Seq(Client)
    <3>1. Back(clients[i], fd) \in Client
      BY <1>0, RecordTypes
    <3>2. [clients EXCEPT ![i] = Back(@, fd)] \in Seq(Client)
      BY <1>0, <3>1 DEF ServerTypeOK
    <3> QED BY <2>2, <3>2 DEF ServerTypeOK, Ends
  <2> QED BY <1>2, <2>1, <2>2, <2>6, <2>7, <2>8
          DEF SocketsTypeOK, ServerTypeOK, PeersTypeOK, ReconnectClient, Served, Ends, Status
<1>3. CASE NewClient(fd)
  <2>1. inq' \in [Conns -> Seq(Message)]
    BY <1>3, ReceivedType DEF NewClient
  <2>2. First(fd) \in Message
    BY <1>3, FirstType DEF NewClient
  <2>3. StoredAs(First(fd)) \subseteq StoredId
    BY <2>2 DEF StoredAs, StoredId
  <2>4. \A id \in StoredId :
          [ID |-> id, sock |-> fd, interests |-> <<>>, inWaiting |-> <<>>] \in Client
    <3>1. <<>> \in Seq(Nat) /\ <<>> \in Seq(Interest)
      OBVIOUS
    <3> QED BY <1>0, <3>1 DEF Client
  <2>5. clients' \in Seq(Client)
    BY <1>3, <2>3, <2>4 DEF NewClient, ServerTypeOK
  <2> QED BY <1>3, <2>1, <2>5
          DEF SocketsTypeOK, ServerTypeOK, PeersTypeOK, NewClient, Served
<1>4. CASE HandleSubscribe(fd)
  <2>1. inq' \in [Conns -> Seq(Message)]
    BY <1>4, ReceivedType DEF HandleSubscribe
  <2>2. First(fd) \in Message /\ First(fd).kind = "s"
    BY <1>4, FirstType DEF HandleSubscribe
  <2>3. \A i \in DOMAIN clients : Subscribed(clients[i], First(fd)) \in Client
    BY <1>0, <2>2, RecordTypes
  <2>4. clients' \in Seq(Client)
    BY <1>0, <1>4, <2>3 DEF HandleSubscribe
  <2> QED BY <1>4, <2>1, <2>4
          DEF SocketsTypeOK, ServerTypeOK, PeersTypeOK, HandleSubscribe, Served
<1>5. CASE HandleUnsubscribe(fd)
  <2>1. inq' \in [Conns -> Seq(Message)]
    BY <1>5, ReceivedType DEF HandleUnsubscribe
  <2>2. PICK topic \in Topics \cup {None} :
          \/ Ends("fault")
          \/ /\ clients' = [i \in DOMAIN clients |->
                  IF i \in {j \in DOMAIN clients : clients[j].sock = fd}
                  THEN DropLast(clients[i], topic) ELSE clients[i]]
             /\ Served(fd)
             /\ UNCHANGED <<status, fdIN, fdClients, receiveID, temp>>
    BY <1>5 DEF HandleUnsubscribe
  <2>3. \A i \in DOMAIN clients : DropLast(clients[i], topic) \in Client
    BY <1>0, RecordTypes
  <2>4. clients' \in Seq(Client)
    BY <1>0, <2>2, <2>3 DEF Ends, ServerTypeOK
  <2> QED BY <1>5, <2>1, <2>2, <2>4
          DEF SocketsTypeOK, ServerTypeOK, PeersTypeOK, HandleUnsubscribe, Served, Ends, Status
<1>6. CASE InvalidRequest(fd)
  <2>1. inq' \in [Conns -> Seq(Message)]
    BY <1>6, ReceivedType DEF InvalidRequest
  <2> QED BY <1>6, <2>1
          DEF SocketsTypeOK, ServerTypeOK, PeersTypeOK, InvalidRequest, Served
<1> QED BY <1>1, <1>2, <1>3, <1>4, <1>5, <1>6

LEMMA PeersType ==
    ASSUME TypeOK, PeersNext
    PROVE  TypeOK'
<1> USE DEF TypeOK, SocketsTypeOK, PeersTypeOK
<1>1. ASSUME UNCHANGED serverVars, handled' = handled
      PROVE  ServerTypeOK'
  BY <1>1 DEF ServerTypeOK, serverVars
<1>2. ASSUME NEW c \in Conns, NEW m \in Message
      PROVE  [inq EXCEPT ![c] = Append(@, m)] \in [Conns -> Seq(Message)]
  <2>1. inq[c] \in Seq(Message)
    OBVIOUS
  <2>2. Append(inq[c], m) \in Seq(Message)
    BY <2>1
  <2> QED BY <2>2
<1>3. ASSUME NEW c \in Conns, NEW state \in PeerState, Leaves(c, state)
      PROVE  TypeOK'
  <2>1. <<>> \in Seq(Frame)
    OBVIOUS
  <2> QED BY <1>1, <1>3, <2>1 DEF Leaves, peerVars
<1>4. ASSUME NEW c \in Conns, Connect(c) PROVE TypeOK'
  BY <1>1, <1>4 DEF Connect, PeerState, peerVars
<1>5. ASSUME NEW c \in Conns, SendId(c) PROVE TypeOK'
  <2>1. IdMessage(Name[c]) \in Message
    BY PeersAssumption DEF IdMessage, Message
  <2> QED BY <1>1, <1>2, <1>5, <2>1 DEF SendId, PeerState, peerVars
<1>6. ASSUME NEW c \in Conns, SendRequest(c) PROVE TypeOK'
  <2>1. PICK m \in Request :
          /\ inq' = [inq EXCEPT ![c] = Append(@, m)]
          /\ asked' = IF m.kind = "s" THEN [asked EXCEPT ![Name[c]] = @ \cup {m.name}]
                      ELSE asked
    BY <1>6 DEF SendRequest
  <2>2. m \in Message /\ m.name \in Topics
    BY DEF Message, Request
  <2>3. inq' \in [Conns -> Seq(Message)]
    BY <1>2, <2>1, <2>2
  <2>4. asked' \in [IDs -> SUBSET Topics]
    BY <2>1, <2>2, PeersAssumption
  <2>5. requests' \in 0 .. MaxReqs
    BY <1>6, PeersAssumption DEF SendRequest
  <2> QED BY <1>1, <1>6, <2>3, <2>4, <2>5 DEF SendRequest
<1>7. ASSUME NEW c \in Conns, Display(c) PROVE TypeOK'
  <2>1. Tail(inbox[c]) \in Seq(Frame)
    BY <1>7, HeadTailProperties DEF Display
  <2> QED BY <1>1, <1>7, <2>1 DEF Display, peerVars
<1>8. ASSUME NEW c \in Conns, Exit(c) \/ Kill(c) \/ Hangup(c) PROVE TypeOK'
  BY <1>3, <1>8 DEF Exit, Kill, Hangup, PeerState
<1>9. ASSUME Publish PROVE TypeOK'
  <2>1. PICK topic \in Topics : pub' = Append(pub, topic)
    BY <1>9 DEF Publish
  <2>2. pub' \in Seq(Topics) /\ Len(pub') = Len(pub) + 1
    BY <2>1
  <2>3. Len(pub') <= MaxPubs
    BY <1>9, <2>2, PeersAssumption DEF Publish
  <2>4. handled' \in 0 .. Len(pub')
    BY <1>9, <2>2 DEF Publish
  <2> QED BY <1>1, <1>9, <2>2, <2>3, <2>4 DEF Publish, peerVars
<1>10. ASSUME OperatorTypes PROVE TypeOK'
  BY <1>1, <1>10, PeersAssumption DEF OperatorTypes, peerVars
<1> QED BY <1>4, <1>5, <1>6, <1>7, <1>8, <1>9, <1>10 DEF PeersNext

LEMMA TypeStep ==
    ASSUME TypeOK, NeverBlocks, [Next]_vars
    PROVE  TypeOK'
<1>1. CASE ServerStep
  BY <1>1, SelectType, AcceptType, UdpType, CommandExitType, ReceiveFailsType,
     DisconnectType, HandleMessageType DEF ServerStep, ServerNext
<1>2. CASE PeersNext
  BY <1>2, PeersType
<1>3. CASE UNCHANGED vars
  BY <1>3 DEF vars, netVars, serverVars, peerVars, TypeOK, SocketsTypeOK, ServerTypeOK,
     PeersTypeOK
<1> QED BY <1>1, <1>2, <1>3 DEF Next

(***************************************************************************)
(* The descriptors and the connections behind them.                        *)
(***************************************************************************)

LEMMA IInvInit == Init => IInv
<1> SUFFICES ASSUME Init PROVE IInv
  OBVIOUS
<1>1. TypeOK
  BY TypeInit
<1> USE DEF Init, SocketsInit, ServerInit, PeersInit
<1>2. OpenFds = {} /\ \A c \in Conns : ~ Waiting(c) /\ ~ Accepted(c)
  <2>1. DOMAIN <<>> = {}
    OBVIOUS
  <2>2. \A fd \in Fds : connOf[fd] = None
    OBVIOUS
  <2> QED BY <2>1, <2>2, SocketsAssumption DEF OpenFds, Waiting, Accepted
<1>3. WatchedAreOpen
  BY <1>2 DEF WatchedAreOpen, StdinFd, TcpFd, UdpFd
<1>4. NeverBlocks
  BY DEF NeverBlocks
<1>5. ConnectedOnce
  BY <1>2 DEF ConnectedOnce
<1> QED BY <1>1, <1>3, <1>4, <1>5 DEF IInv

(* Most steps leave the descriptors and the backlog alone.                 *)
Standing == UNCHANGED <<fdIN, fdClients, connOf, backlog>>

LEMMA StandingKeepsWatched ==
    ASSUME WatchedAreOpen, Standing, ready' \subseteq fdIN
    PROVE  WatchedAreOpen'
BY DEF WatchedAreOpen, Standing, OpenFds, Waiting, Accepted

(* A handler that closes a descriptor stops watching it.                   *)
LEMMA DropKeepsWatched ==
    ASSUME TypeOK, WatchedAreOpen, NEW fd \in OpenFds, Drop(fd), Served(fd),
           UNCHANGED <<fdClients, backlog>>
    PROVE  WatchedAreOpen'
<1>1. OpenFds' = OpenFds \ {fd}
  BY DEF Drop, CloseFd, OpenFds, TypeOK, SocketsTypeOK
<1>2. fd \notin {StdinFd, TcpFd, UdpFd}
  BY DEF OpenFds, Fds, StdinFd, TcpFd, UdpFd
<1>3. fdIN' = {StdinFd, TcpFd, UdpFd} \cup OpenFds'
  BY <1>1, <1>2 DEF WatchedAreOpen, Drop
<1>4. \A f \in OpenFds' : connOf'[f] = connOf[f] /\ f \in OpenFds
  BY <1>1 DEF Drop, CloseFd, OpenFds, TypeOK, SocketsTypeOK
<1>5. \A c \in Conns : Accepted(c)' => Accepted(c)
  BY <1>1, <1>4, SocketsAssumption DEF Accepted, OpenFds
<1>6. \A c \in Conns : Waiting(c)' => Waiting(c)
  BY DEF Waiting
<1>7. ready' \subseteq fdIN'
  BY DEF Served, Drop, WatchedAreOpen
<1>8. \A f \in fdIN' : f <= fdClients'
  BY DEF Drop, WatchedAreOpen
<1>9. \A f, g \in OpenFds' : connOf'[f] = connOf'[g] => f = g
  BY <1>4 DEF WatchedAreOpen
<1> QED BY <1>3, <1>5, <1>6, <1>7, <1>8, <1>9 DEF WatchedAreOpen

(* A new descriptor is watched, and its connection leaves the backlog.     *)
LEMMA AcceptKeepsWatched ==
    ASSUME TypeOK, WatchedAreOpen, NeverBlocks, ConnectedOnce, AcceptNewConnection
    PROVE  WatchedAreOpen' /\ ConnectedOnce'
<1>1. backlog # <<>> /\ backlog \in Seq(Conns)
  BY ServedOffers DEF AcceptNewConnection, TypeOK, SocketsTypeOK
<1> DEFINE h == Head(backlog)
<1>2. /\ h \in Conns /\ Waiting(h) /\ ~ Accepted(h)
      /\ \A j \in DOMAIN Tail(backlog) :
            Tail(backlog)[j] = backlog[j + 1] /\ j + 1 \in DOMAIN backlog
      /\ 1 \in DOMAIN backlog /\ h = backlog[1]
  <2>1. 1 \in DOMAIN backlog /\ h = backlog[1] /\ h \in Conns
    BY <1>1
  <2>2. \A j \in DOMAIN Tail(backlog) :
            Tail(backlog)[j] = backlog[j + 1] /\ j + 1 \in DOMAIN backlog
    BY <1>1
  <2> QED BY <2>1, <2>2 DEF Waiting, WatchedAreOpen
<1>3. CASE Ends("died") /\ UNCHANGED <<backlog, connOf, peer>>
  <2>1. WatchedAreOpen'
    BY <1>3, StandingKeepsWatched DEF Ends, Standing, WatchedAreOpen
  <2>2. ConnectedOnce'
    BY <1>3 DEF ConnectedOnce, Waiting, Accepted
  <2> QED BY <2>1, <2>2
<1>4. CASE \E fd \in Fds :
             /\ LowestFree(fd) /\ Watch(fd)
             /\ connOf'  = [connOf EXCEPT ![fd] = h]
             /\ backlog' = Tail(backlog)
             /\ UNCHANGED peer
  <2>1. PICK fd \in Fds :
             /\ LowestFree(fd) /\ Watch(fd)
             /\ connOf'  = [connOf EXCEPT ![fd] = h]
             /\ backlog' = Tail(backlog)
             /\ UNCHANGED peer
    BY <1>4
  <2>2. fd \notin OpenFds /\ connOf[fd] = None /\ h # None
    BY <1>2, <2>1, SocketsAssumption DEF LowestFree, OpenFds
  <2>3. OpenFds' = OpenFds \cup {fd}
    BY <2>1, <2>2 DEF OpenFds, TypeOK, SocketsTypeOK
  <2>4. /\ connOf'[fd] = h
        /\ \A f \in OpenFds : f # fd /\ connOf'[f] = connOf[f] /\ connOf[f] # h
    BY <1>2, <2>1, <2>2 DEF OpenFds, TypeOK, SocketsTypeOK, Accepted
  <2>5. \A c \in Conns : Waiting(c)' => Waiting(c) /\ c # h
    BY <1>2, <2>1 DEF Waiting, ConnectedOnce
  <2>6. \A c \in Conns : Accepted(c)' => Accepted(c) \/ c = h
    BY <2>3, <2>4, SocketsAssumption DEF Accepted, OpenFds
  <2>7. fdIN' = {StdinFd, TcpFd, UdpFd} \cup OpenFds'
    BY <2>1, <2>3 DEF Watch, WatchedAreOpen
  <2>8. ready' \subseteq fdIN'
    BY <2>1 DEF Watch, Served, WatchedAreOpen
  <2>9. \A f \in fdIN' : f <= fdClients'
    <3>1. fdIN \subseteq Int /\ fdClients \in Int /\ fd \in Int
      BY SocketsAssumption DEF TypeOK, ServerTypeOK, AllFds, Fds
    <3> QED BY <2>1, <3>1 DEF Watch, WatchedAreOpen
  <2>10. \A f, g \in OpenFds' : connOf'[f] = connOf'[g] => f = g
    BY <2>3, <2>4 DEF WatchedAreOpen
  <2>11. \A c \in Conns : Waiting(c)' => ~ Accepted(c)'
    BY <2>5, <2>6 DEF WatchedAreOpen
  <2>12. WatchedAreOpen'
    BY <2>7, <2>8, <2>9, <2>10, <2>11 DEF WatchedAreOpen
  <2>13. \A i, j \in DOMAIN backlog' : backlog'[i] = backlog'[j] => i = j
    <3>1. ASSUME NEW i \in DOMAIN Tail(backlog), NEW j \in DOMAIN Tail(backlog),
                 Tail(backlog)[i] = Tail(backlog)[j]
          PROVE  i = j
      <4>1. i \in Nat /\ j \in Nat
        BY <1>1
      <4> QED BY <1>2, <3>1, <4>1 DEF ConnectedOnce
    <3> QED BY <2>1, <3>1
  <2>14. ConnectedOnce'
    BY <1>2, <2>1, <2>5, <2>6, <2>13 DEF ConnectedOnce
  <2> QED BY <2>12, <2>14
<1> QED BY <1>3, <1>4 DEF AcceptNewConnection

(* Steps after which the descriptors stand, handler by handler.            *)
LEMMA ServerKeepsWatched ==
    ASSUME TypeOK, WatchedAreOpen, NeverBlocks, ConnectedOnce, ServerStep
    PROVE  WatchedAreOpen'
<1>1. ASSUME Select PROVE WatchedAreOpen'
  BY <1>1, StandingKeepsWatched DEF Select, Standing, netVars, UpToHighest
<1>2. ASSUME AcceptNewConnection PROVE WatchedAreOpen'
  BY <1>2, AcceptKeepsWatched
<1>3. ASSUME ReceiveUdpMessage PROVE WatchedAreOpen'
  BY <1>3, StandingKeepsWatched DEF ReceiveUdpMessage, Standing, Ends, Served, WatchedAreOpen
<1>4. ASSUME CommandExit PROVE WatchedAreOpen'
  BY <1>4, StandingKeepsWatched DEF CommandExit, Standing, Ends, WatchedAreOpen
<1>5. ASSUME ReceiveFails PROVE WatchedAreOpen'
  BY <1>5, StandingKeepsWatched DEF ReceiveFails, Standing, Ends, netVars, WatchedAreOpen
<1>6. ASSUME DisconnectClient PROVE WatchedAreOpen'
  <2>1. PICK fd \in OpenFds :
          /\ \/ Drop(fd)
             \/ UNCHANGED <<connOf, inq, peer, fdIN>>
          /\ Served(fd)
          /\ UNCHANGED <<fdClients, backlog>>
    BY <1>6 DEF DisconnectClient
  <2> QED BY <2>1, DropKeepsWatched, StandingKeepsWatched
          DEF Standing, Served, WatchedAreOpen
<1>7. ASSUME HandleMessage PROVE WatchedAreOpen'
  <2> PICK fd \in OpenFds :
         \/ RefuseClient(fd) \/ ReconnectClient(fd) \/ NewClient(fd)
         \/ HandleSubscribe(fd) \/ HandleUnsubscribe(fd) \/ InvalidRequest(fd)
    BY <1>7 DEF HandleMessage
  <2>1. CASE RefuseClient(fd)
    BY <2>1, DropKeepsWatched DEF RefuseClient
  <2>2. CASE ~ RefuseClient(fd)
    <3>1. Standing /\ ready' \subseteq ready
      BY <2>2 DEF ReconnectClient, NewClient, HandleSubscribe, HandleUnsubscribe,
         InvalidRequest, Standing, Served, Ends
    <3> QED BY <3>1, StandingKeepsWatched DEF WatchedAreOpen
  <2> QED BY <2>1, <2>2
<1> QED BY <1>1, <1>2, <1>3, <1>4, <1>5, <1>6, <1>7 DEF ServerStep, ServerNext

LEMMA PeersKeepWatched ==
    ASSUME TypeOK, WatchedAreOpen, ConnectedOnce, PeersNext
    PROVE  WatchedAreOpen'
<1>1. ASSUME NEW c \in Conns, Connect(c) PROVE WatchedAreOpen'
  <2>1. backlog' = Append(backlog, c) /\ backlog \in Seq(Conns)
    BY <1>1 DEF Connect, TypeOK, SocketsTypeOK
  <2>2. ASSUME NEW d \in Conns, Waiting(d)' PROVE Waiting(d) \/ d = c
    BY <2>1, <2>2 DEF Waiting
  <2>3. ~ Accepted(c)
    BY <1>1 DEF Connect, ConnectedOnce
  <2>4. OpenFds' = OpenFds /\ \A d \in Conns : Accepted(d)' = Accepted(d)
    BY <1>1 DEF Connect, OpenFds, Accepted
  <2> QED BY <1>1, <2>2, <2>3, <2>4 DEF Connect, serverVars, WatchedAreOpen
<1>2. CASE \A c \in Conns : ~ Connect(c)
  <2>1. Standing /\ ready' = ready
    BY <1>2 DEF PeersNext, SendId, SendRequest, Display, Exit, Kill, Hangup, Leaves,
       Publish, OperatorTypes, serverVars, Standing
  <2> QED BY <2>1, StandingKeepsWatched DEF WatchedAreOpen
<1> QED BY <1>1, <1>2

(* A connection enters the backlog once, before anything else is known of  *)
(* it.                                                                     *)
LEMMA ServerKeepsConnectedOnce ==
    ASSUME TypeOK, WatchedAreOpen, NeverBlocks, ConnectedOnce, ServerStep
    PROVE  ConnectedOnce'
<1>1. CASE AcceptNewConnection
  BY <1>1, AcceptKeepsWatched
<1>2. CASE ~ AcceptNewConnection
  <2>1. backlog' = backlog
    BY <1>2 DEF ServerStep, ServerNext, Select, ReceiveUdpMessage, CommandExit, ReceiveFails,
       DisconnectClient, HandleMessage, RefuseClient, ReconnectClient, NewClient,
       HandleSubscribe, HandleUnsubscribe, InvalidRequest, netVars
  <2>2. \A c \in Conns : peer'[c] = "new" => peer[c] = "new"
    BY <1>2 DEF ServerStep, ServerNext, Select, ReceiveUdpMessage, CommandExit, ReceiveFails,
       DisconnectClient, HandleMessage, RefuseClient, ReconnectClient, NewClient,
       HandleSubscribe, HandleUnsubscribe, InvalidRequest, netVars, Drop, CloseFd,
       AfterSends, TypeOK, SocketsTypeOK
  <2>3. \A fd \in Fds : connOf'[fd] \in {connOf[fd], None}
    BY <1>2 DEF ServerStep, ServerNext, Select, ReceiveUdpMessage, CommandExit, ReceiveFails,
       DisconnectClient, HandleMessage, RefuseClient, ReconnectClient, NewClient,
       HandleSubscribe, HandleUnsubscribe, InvalidRequest, netVars, Drop, CloseFd,
       TypeOK, SocketsTypeOK
  <2> QED BY <2>1, <2>2, <2>3, SocketsAssumption DEF ConnectedOnce, Waiting, Accepted
<1> QED BY <1>1, <1>2

LEMMA PeersKeepConnectedOnce ==
    ASSUME TypeOK, WatchedAreOpen, ConnectedOnce, PeersNext
    PROVE  ConnectedOnce'
<1>1. ASSUME NEW c \in Conns, Connect(c) PROVE ConnectedOnce'
  <2>1. backlog' = Append(backlog, c) /\ backlog \in Seq(Conns)
    BY <1>1 DEF Connect, TypeOK, SocketsTypeOK
  <2>2. \A i \in DOMAIN backlog : backlog[i] # c
    BY <1>1 DEF Connect, ConnectedOnce, Waiting
  <2>3. \A i, j \in DOMAIN backlog' : backlog'[i] = backlog'[j] => i = j
    BY <2>1, <2>2 DEF ConnectedOnce
  <2>4. ASSUME NEW d \in Conns, peer'[d] = "new" PROVE ~ Waiting(d)' /\ ~ Accepted(d)'
    <3>1. d # c /\ peer[d] = "new"
      BY <1>1, <2>4 DEF Connect, TypeOK, SocketsTypeOK
    <3>2. ~ Waiting(d) /\ ~ Accepted(d)
      BY <3>1 DEF ConnectedOnce
    <3> QED BY <1>1, <2>1, <3>1, <3>2 DEF Connect, Waiting, Accepted
  <2> QED BY <2>3, <2>4 DEF ConnectedOnce
<1>2. CASE \A c \in Conns : ~ Connect(c)
  <2>1. backlog' = backlog /\ connOf' = connOf
    BY <1>2 DEF PeersNext, SendId, SendRequest, Display, Exit, Kill, Hangup, Leaves,
       Publish, OperatorTypes
  <2>2. \A c \in Conns : peer'[c] = "new" => peer[c] = "new"
    BY <1>2 DEF PeersNext, SendId, SendRequest, Display, Exit, Kill, Hangup, Leaves,
       Publish, OperatorTypes, TypeOK, SocketsTypeOK
  <2> QED BY <2>1, <2>2 DEF ConnectedOnce, Waiting, Accepted
<1> QED BY <1>1, <1>2

(***************************************************************************)
(* No handler blocks.                                                      *)
(***************************************************************************)

(* What makes a descriptor readable, and what takes that away.             *)
StillThere(fd) ==
    /\ fd = StdinFd => console' = console
    /\ fd = TcpFd   => (backlog # <<>> => backlog' # <<>>)
    /\ fd = UdpFd   => (handled < Len(pub) => handled' < Len(pub'))
    /\ fd \in OpenFds =>
         /\ connOf'[fd] = connOf[fd]
         /\ inq[connOf[fd]] # <<>> => inq'[connOf[fd]] # <<>>
         /\ Closed(connOf[fd]) => peer'[connOf[fd]] \in {"fin", "rst", "dead"}

LEMMA StaysReadable ==
    ASSUME NEW fd, Readable(fd), StillThere(fd)
    PROVE  Readable(fd)'
<1>1. CASE fd \in OpenFds
  <2>1. fd \in OpenFds'
    BY <1>1 DEF StillThere, OpenFds
  <2>2. fd \notin {StdinFd, TcpFd, UdpFd}
    BY <1>1 DEF OpenFds, Fds, StdinFd, TcpFd, UdpFd
  <2> QED BY <1>1, <2>1, <2>2 DEF StillThere, Readable, Closed
<1>2. CASE fd \notin OpenFds
  BY <1>2 DEF StillThere, Readable
<1> QED BY <1>1, <1>2

(* The server's own steps: each takes away only what it was reported for.  *)
LEMMA ServerStillThere ==
    ASSUME TypeOK, WatchedAreOpen, NeverBlocks, ServerNext, status = "up", status' = "up",
           NEW fd \in ready', fd \in ready
    PROVE  StillThere(fd)
<1>1. CASE Select
  BY <1>1 DEF Select, netVars, StillThere, Closed
<1>2. CASE AcceptNewConnection
  <2>1. fd # TcpFd
    BY <1>2 DEF AcceptNewConnection, Watch, Served, Ends, Status
  <2>2. fd \in OpenFds => connOf'[fd] = connOf[fd]
    BY <1>2 DEF AcceptNewConnection, LowestFree, Ends, TypeOK, SocketsTypeOK, OpenFds
  <2> QED BY <1>2, <2>1, <2>2 DEF AcceptNewConnection, StillThere, Closed
<1>3. CASE ReceiveUdpMessage
  <2>1. fd # UdpFd
    BY <1>3 DEF ReceiveUdpMessage, Served, Ends
  <2>2. \A c \in Conns : Closed(c) => peer'[c] \in {"fin", "rst", "dead"}
    BY <1>3 DEF ReceiveUdpMessage, AfterSends, Closed
  <2>3. fd \in OpenFds => connOf[fd] \in Conns
    BY DEF OpenFds, TypeOK, SocketsTypeOK
  <2> QED BY <1>3, <2>1, <2>2, <2>3 DEF ReceiveUdpMessage, StillThere
<1>4. CASE CommandExit \/ ReceiveFails
  BY <1>4 DEF CommandExit, ReceiveFails, Ends
<1>5. ASSUME NEW x \in OpenFds, x # fd,
             \A c \in Conns \ {connOf[x]} : inq'[c] = inq[c] /\ peer'[c] = peer[c],
             \A f \in OpenFds \ {x} : connOf'[f] = connOf[f],
             UNCHANGED <<backlog, pub, handled, console>>
      PROVE  StillThere(fd)
  <2>1. fd \in OpenFds => connOf[fd] \in Conns \ {connOf[x]}
    BY <1>5 DEF WatchedAreOpen, OpenFds, TypeOK, SocketsTypeOK
  <2> QED BY <1>5, <2>1 DEF StillThere, Closed
<1>6. ASSUME NEW x \in OpenFds, CloseFd(x)
      PROVE  /\ \A c \in Conns \ {connOf[x]} : inq'[c] = inq[c] /\ peer'[c] = peer[c]
             /\ \A f \in OpenFds \ {x} : connOf'[f] = connOf[f]
  BY <1>6 DEF CloseFd, OpenFds, TypeOK, SocketsTypeOK
<1>7. CASE DisconnectClient
  <2>1. PICK x \in OpenFds :
          /\ \/ Drop(x)
             \/ UNCHANGED <<connOf, inq, peer, fdIN>>
          /\ Served(x)
          /\ UNCHANGED <<backlog, pub, handled, console>>
    BY <1>7 DEF DisconnectClient
  <2>2. x # fd
    BY <2>1 DEF Served
  <2> QED BY <1>5, <1>6, <2>1, <2>2 DEF Drop
<1>8. CASE HandleMessage
  <2> PICK x \in OpenFds :
         \/ RefuseClient(x) \/ ReconnectClient(x) \/ NewClient(x)
         \/ HandleSubscribe(x) \/ HandleUnsubscribe(x) \/ InvalidRequest(x)
    BY <1>8 DEF HandleMessage
  <2>1. x # fd
    BY DEF RefuseClient, ReconnectClient, NewClient, HandleSubscribe, HandleUnsubscribe,
       InvalidRequest, Served, Ends
  <2>2. UNCHANGED <<backlog, pub, handled, console>>
    BY DEF RefuseClient, ReconnectClient, NewClient, HandleSubscribe, HandleUnsubscribe,
       InvalidRequest
  <2>3. CASE RefuseClient(x)
    BY <1>5, <1>6, <2>1, <2>2, <2>3 DEF RefuseClient, Drop
  <2>4. CASE ~ RefuseClient(x)
    <3>1. connOf' = connOf
      BY <2>4 DEF ReconnectClient, NewClient, HandleSubscribe, HandleUnsubscribe,
         InvalidRequest
    <3>2. \A c \in Conns \ {connOf[x]} : peer'[c] = peer[c]
      BY <2>4 DEF ReconnectClient, NewClient, HandleSubscribe, HandleUnsubscribe,
         InvalidRequest, TypeOK, SocketsTypeOK
    <3>3. DropsRead(x)
      BY <2>4 DEF ReconnectClient, NewClient, HandleSubscribe, HandleUnsubscribe,
         InvalidRequest
    <3>4. \A c \in Conns \ {connOf[x]} : inq'[c] = inq[c]
      BY <3>3 DEF DropsRead, Received, TypeOK, SocketsTypeOK
    <3> QED BY <1>5, <2>1, <2>2, <3>1, <3>2, <3>4
  <2> QED BY <2>3, <2>4
<1> QED BY <1>1, <1>2, <1>3, <1>4, <1>7, <1>8 DEF ServerNext

(* The others only add to what there is to read, and none of them ends     *)
(* twice.                                                                  *)
LEMMA PeersStillThere ==
    ASSUME TypeOK, PeersNext, status = "up", NEW fd \in AllFds, Readable(fd)
    PROVE  StillThere(fd)
<1>0. fd \in OpenFds => connOf[fd] \in Conns /\ Accepted(connOf[fd])
  BY DEF OpenFds, Accepted, TypeOK, SocketsTypeOK
<1>1. \A c \in Conns : inq[c] # <<>> => inq'[c] # <<>>
  <2>1. ASSUME NEW c \in Conns, NEW m, inq' = [inq EXCEPT ![c] = Append(@, m)]
        PROVE  \A d \in Conns : inq[d] # <<>> => inq'[d] # <<>>
    <3>1. inq[c] \in Seq(Message)
      BY DEF TypeOK, SocketsTypeOK
    <3>2. Append(inq[c], m) # <<>>
      BY <3>1
    <3> QED BY <2>1, <3>2 DEF TypeOK, SocketsTypeOK
  <2> QED BY <2>1 DEF PeersNext, Connect, SendId, SendRequest, Display, Exit, Kill,
          Hangup, Leaves, Publish, OperatorTypes
<1>2. \A c \in Conns : Closed(c) => peer'[c] = peer[c]
  BY DEF PeersNext, Connect, SendId, SendRequest, Display, Exit, Kill, Hangup, Leaves,
     Publish, OperatorTypes, Closed, Orphan, Alive, TypeOK, SocketsTypeOK
<1>3. connOf' = connOf /\ handled' = handled
  BY DEF PeersNext, Connect, SendId, SendRequest, Display, Exit, Kill, Hangup, Leaves,
     Publish, OperatorTypes
<1>4. backlog # <<>> => backlog' # <<>>
  <2>1. ASSUME NEW c \in Conns, backlog' = Append(backlog, c)
        PROVE  backlog' # <<>>
    <3>1. backlog \in Seq(Conns)
      BY DEF TypeOK, SocketsTypeOK
    <3> QED BY <2>1, <3>1
  <2> QED BY <2>1 DEF PeersNext, Connect, SendId, SendRequest, Display, Exit, Kill,
          Hangup, Leaves, Publish, OperatorTypes
<1>5. handled < Len(pub) => handled < Len(pub')
  <2>1. ASSUME NEW topic, pub' = Append(pub, topic)
        PROVE  Len(pub') = Len(pub) + 1 /\ Len(pub) \in Nat /\ handled \in Nat
    BY <2>1 DEF TypeOK, SocketsTypeOK
  <2> QED BY <2>1 DEF PeersNext, Connect, SendId, SendRequest, Display, Exit, Kill,
          Hangup, Leaves, Publish, OperatorTypes
<1>6. fd = StdinFd => console' = console
  BY DEF PeersNext, Connect, SendId, SendRequest, Display, Exit, Kill, Hangup, Leaves,
     Publish, OperatorTypes, Readable, StdinFd, TcpFd, UdpFd, OpenFds, Fds
<1> QED BY <1>0, <1>1, <1>2, <1>3, <1>4, <1>5, <1>6 DEF StillThere, Closed

LEMMA NeverBlocksStep ==
    ASSUME TypeOK, WatchedAreOpen, NeverBlocks, [Next]_vars
    PROVE  NeverBlocks'
<1> SUFFICES ASSUME status' = "up", NEW fd \in ready' PROVE Readable(fd)'
  BY DEF NeverBlocks
<1>1. CASE ServerStep
  <2>0. status = "up"
    BY <1>1 DEF ServerStep, ServerNext, Select, AcceptNewConnection, ReceiveUdpMessage,
       CommandExit, ReceiveFails, DisconnectClient, HandleMessage, RefuseClient,
       ReconnectClient, NewClient, HandleSubscribe, HandleUnsubscribe, InvalidRequest,
       Serving, Reads
  <2>1. CASE Select
    <3>1. Readable(fd)
      BY <2>1 DEF Select
    <3> QED BY <2>1, <3>1, StaysReadable DEF Select, netVars, StillThere, Closed
  <2>2. CASE AcceptNewConnection
    <3>1. fd \in ready
      BY <2>2 DEF AcceptNewConnection, Watch, Served, Ends
    <3> QED BY <1>1, <2>0, <3>1, ServerStillThere, StaysReadable
            DEF NeverBlocks, ServerStep
  <2>3. CASE ~ Select /\ ~ AcceptNewConnection
    <3>1. fd \in ready
      BY <1>1, <2>3 DEF ServerStep, ServerNext, ReceiveUdpMessage, CommandExit,
         ReceiveFails, DisconnectClient, HandleMessage, RefuseClient, ReconnectClient,
         NewClient, HandleSubscribe, HandleUnsubscribe, InvalidRequest, Served, Ends
    <3> QED BY <1>1, <2>0, <3>1, ServerStillThere, StaysReadable
            DEF NeverBlocks, ServerStep
  <2> QED BY <2>1, <2>2, <2>3
<1>2. CASE PeersNext
  <2>1. status = "up" /\ fd \in ready /\ fd \in AllFds
    BY <1>2 DEF PeersNext, Connect, SendId, SendRequest, Display, Exit, Kill, Hangup,
       Leaves, Publish, OperatorTypes, serverVars, TypeOK, ServerTypeOK
  <2> QED BY <1>2, <2>1, PeersStillThere, StaysReadable DEF NeverBlocks
<1>3. CASE UNCHANGED vars
  <2>1. Readable(fd)
    BY <1>3 DEF NeverBlocks, vars, serverVars
  <2> QED BY <1>3, <2>1, StaysReadable DEF vars, netVars, StillThere, Closed
<1> QED BY <1>1, <1>2, <1>3 DEF Next

LEMMA IInvStep == IInv /\ [Next]_vars => IInv'
<1> SUFFICES ASSUME IInv, [Next]_vars PROVE IInv'
  OBVIOUS
<1> USE DEF IInv
<1>1. TypeOK'
  BY TypeStep
<1>2. NeverBlocks'
  BY NeverBlocksStep
<1>3. WatchedAreOpen' /\ ConnectedOnce'
  <2>1. CASE ServerStep
    BY <2>1, ServerKeepsWatched, ServerKeepsConnectedOnce
  <2>2. CASE PeersNext
    BY <2>2, PeersKeepWatched, PeersKeepConnectedOnce
  <2>3. CASE UNCHANGED vars
    BY <2>3 DEF vars, netVars, serverVars, WatchedAreOpen, ConnectedOnce, OpenFds,
       Waiting, Accepted
  <2> QED BY <2>1, <2>2, <2>3 DEF Next
<1> QED BY <1>1, <1>2, <1>3

(* The inductive invariant, from which the next three theorems follow.     *)
THEOREM Inductive == Spec => []IInv
<1>1. Init => IInv
  BY IInvInit
<1>2. IInv /\ [Next]_vars => IInv'
  BY IInvStep
<1> QED BY <1>1, <1>2, PTL DEF Spec

(* The system is type correct.                                             *)
THEOREM TypeCorrect == Spec => []TypeOK
<1>1. IInv => TypeOK
  BY DEF IInv
<1> QED BY <1>1, Inductive, PTL

(* The loop of server.c watches its own three descriptors and exactly      *)
(* those accept() opened and no handler closed, however many connections   *)
(* come and go.                                                            *)
THEOREM DescriptorsWatched == Spec => []WatchedAreOpen
<1>1. IInv => WatchedAreOpen
  BY DEF IInv
<1> QED BY <1>1, Inductive, PTL

(* No recvfrom(), accept() or fgets() of the loop blocks: whatever the     *)
(* handlers earlier in a pass did, a descriptor reported by select() has   *)
(* something to read when its turn comes.                                  *)
THEOREM ServerNeverBlocks == Spec => []NeverBlocks
<1>1. IInv => NeverBlocks
  BY DEF IInv
<1> QED BY <1>1, Inductive, PTL

(***************************************************************************)
(* The records of the clients.                                             *)
(***************************************************************************)

(* What each of the server's changes does to a record.                     *)
LEMMA RecordFields ==
    ASSUME NEW r \in Client
    PROVE  /\ /\ Offline(r).ID = r.ID /\ ~ Online(Offline(r))
              /\ Offline(r).interests = r.interests
              /\ Offline(r).inWaiting = r.inWaiting
           /\ \A fd : /\ Back(r, fd).ID = r.ID /\ Back(r, fd).sock = fd
                      /\ Back(r, fd).interests = r.interests
                      /\ Back(r, fd).inWaiting = <<>>
           /\ \A m : /\ Subscribed(r, m).ID = r.ID
                     /\ Subscribed(r, m).sock = r.sock
                     /\ Subscribed(r, m).inWaiting = r.inWaiting
           /\ \A topic : /\ DropLast(r, topic).ID = r.ID
                         /\ DropLast(r, topic).sock = r.sock
                         /\ DropLast(r, topic).inWaiting = r.inWaiting
           /\ \A topic, n : /\ Keep(r, topic, n).ID = r.ID
                            /\ Keep(r, topic, n).sock = r.sock
                            /\ Keep(r, topic, n).interests = r.interests
                            /\ Online(r) => Keep(r, topic, n) = r
BY DEF Client, Offline, Online, Back, Subscribed, DropLast, Keep

(* How one record changes in a step other than the reception of a          *)
(* datagram, and how records are added.                                    *)
Touched(r, s) ==
    \/ s = r
    \/ s = Offline(r)
    \/ ~ Online(r) /\ \E fd \in Fds : s = Back(r, fd)
    \/ Online(r) /\ \E m : s = Subscribed(r, m)
    \/ Online(r) /\ \E topic : s = DropLast(r, topic)

Added ==
    \E m \in Message : \E id \in StoredAs(m) : \E fd \in Fds :
       /\ \A i \in DOMAIN clients : ~ Named(i, Text(m))
       /\ clients' = Append(clients,
            [ID |-> id, sock |-> fd, interests |-> <<>>, inWaiting |-> <<>>])

(* A datagram is stored, or finds nobody to store it for.                  *)
Deposited ==
    \E topic :
       /\ clients' = [i \in DOMAIN clients |-> Keep(clients[i], topic, handled + 1)]
       /\ temp' = IF \E i \in DOMAIN clients :
                        ~ Online(clients[i]) /\ Stored(clients[i], topic) # {}
                  THEN handled + 1 ELSE temp

LEMMA RecordsChange ==
    ASSUME TypeOK, [Next]_vars
    PROVE  \/ Deposited
           \/ Added /\ temp' = temp
           \/ /\ DOMAIN clients' = DOMAIN clients
              /\ \A i \in DOMAIN clients : Touched(clients[i], clients'[i])
              /\ temp' = temp
<1>0. /\ Len(clients) \in Nat /\ DOMAIN clients = 1 .. Len(clients)
      /\ clients \in Seq(Client)
      /\ \A i \in DOMAIN clients : clients[i] \in Client
  BY DEF TypeOK, ServerTypeOK
<1>1. CASE UNCHANGED <<clients, temp>>
  BY <1>1 DEF Touched
<1>2. CASE Select \/ AcceptNewConnection \/ CommandExit \/ ReceiveFails
  BY <1>1, <1>2 DEF Select, AcceptNewConnection, CommandExit, ReceiveFails, Ends
<1>3. CASE ReceiveUdpMessage
  BY <1>1, <1>3 DEF ReceiveUdpMessage, Ends, Deposited
<1>4. CASE DisconnectClient
  <2>1. PICK fd \in OpenFds :
          /\ clients' = [i \in DOMAIN clients |->
               IF clients[i].sock = fd THEN Offline(clients[i]) ELSE clients[i]]
          /\ temp' = temp
    BY <1>4 DEF DisconnectClient
  <2> QED BY <2>1 DEF Touched
<1>5. CASE HandleMessage
  <2> PICK fd \in OpenFds :
         \/ RefuseClient(fd) \/ ReconnectClient(fd) \/ NewClient(fd)
         \/ HandleSubscribe(fd) \/ HandleUnsubscribe(fd) \/ InvalidRequest(fd)
    BY <1>5 DEF HandleMessage
  <2>0. fd \in Fds /\ \A r : r.sock = fd => Online(r)
    BY DEF OpenFds, Fds, NoSock, Online
  <2>1. CASE RefuseClient(fd) \/ InvalidRequest(fd)
    BY <1>1, <2>1 DEF RefuseClient, InvalidRequest
  <2>2. CASE ReconnectClient(fd)
    <3>1. CASE Ends("sigpipe")
      BY <1>1, <3>1 DEF Ends
    <3>2. CASE ~ Ends("sigpipe")
      <4>1. PICK j \in DOMAIN clients :
               /\ ~ Online(clients[j])
               /\ clients' = [clients EXCEPT ![j] = Back(@, fd)]
               /\ temp' = temp
        BY <2>2, <3>2 DEF ReconnectClient, FirstNamed
      <4>2. ASSUME NEW i \in DOMAIN clients PROVE Touched(clients[i], clients'[i])
        BY <1>0, <2>0, <4>1 DEF Touched
      <4> QED BY <1>0, <4>1, <4>2
    <3> QED BY <3>1, <3>2
  <2>3. CASE NewClient(fd)
    <3>1. First(fd) \in Message
      BY <2>3, FirstType DEF NewClient, TypeOK
    <3> QED BY <2>0, <2>3, <3>1 DEF NewClient, Added
  <2>4. CASE HandleSubscribe(fd)
    BY <2>0, <2>4 DEF HandleSubscribe, Touched
  <2>5. CASE HandleUnsubscribe(fd)
    <3>1. CASE Ends("fault")
      BY <1>1, <3>1 DEF Ends
    <3>2. CASE ~ Ends("fault")
      BY <2>0, <2>5, <3>2 DEF HandleUnsubscribe, Touched
    <3> QED BY <3>1, <3>2
  <2> QED BY <2>1, <2>2, <2>3, <2>4, <2>5
<1>6. CASE PeersNext
  BY <1>1, <1>6 DEF PeersNext, Connect, SendId, SendRequest, Display, Exit, Kill, Hangup,
     Leaves, Publish, OperatorTypes, serverVars
<1>7. CASE UNCHANGED vars
  BY <1>1, <1>7 DEF vars, serverVars
<1> QED BY <1>2, <1>3, <1>4, <1>5, <1>6, <1>7 DEF Next, ServerStep, ServerNext

LEMMA AddedRecord ==
    ASSUME TypeOK, Added
    PROVE  /\ DOMAIN clients' = DOMAIN clients \cup {Len(clients) + 1}
           /\ Len(clients) + 1 \notin DOMAIN clients
           /\ \A i \in DOMAIN clients : clients'[i] = clients[i]
           /\ clients'[Len(clients) + 1].inWaiting = <<>>
           /\ \A i \in DOMAIN clients :
                clients[i].ID = clients'[Len(clients) + 1].ID => clients[i].ID = CutId
<1>1. PICK m \in Message : \E id \in StoredAs(m) : \E fd \in Fds :
        /\ \A i \in DOMAIN clients : ~ Named(i, Text(m))
        /\ clients' = Append(clients,
             [ID |-> id, sock |-> fd, interests |-> <<>>, inWaiting |-> <<>>])
  BY DEF Added
<1>2. \A id \in StoredAs(m) : id = Text(m) \/ id = CutId
  BY DEF StoredAs
<1>3. clients \in Seq(Client) /\ Len(clients) \in Nat /\ DOMAIN clients = 1 .. Len(clients)
  BY DEF TypeOK, ServerTypeOK
<1> QED BY <1>1, <1>2, <1>3 DEF Named

LEMMA UniqueIdsStep ==
    ASSUME TypeOK, UniqueIds, [Next]_vars
    PROVE  UniqueIds'
<1>0. \A i \in DOMAIN clients : clients[i] \in Client
  BY DEF TypeOK, ServerTypeOK
<1>1. CASE Added
  BY <1>1, AddedRecord DEF UniqueIds
<1>2. CASE ~ Added
  <2>1. DOMAIN clients' = DOMAIN clients
    BY <1>2, RecordsChange DEF Deposited
  <2>2. \A i \in DOMAIN clients : clients'[i].ID = clients[i].ID
    BY <1>0, <1>2, RecordsChange, RecordFields DEF Deposited, Touched
  <2> QED BY <2>1, <2>2 DEF UniqueIds
<1> QED BY <1>1, <1>2

(* No name is ever given a second record by handle_id_client, so that a    *)
(* client's subscriptions and stored frames are in one place.              *)
THEOREM IdsAreUnique == Spec => []UniqueIds
<1>1. Init => UniqueIds
  BY DEF Init, ServerInit, UniqueIds
<1>2. TypeOK /\ UniqueIds /\ [Next]_vars => UniqueIds'
  BY UniqueIdsStep
<1> QED BY <1>1, <1>2, TypeCorrect, PTL DEF Spec

LEMMA StoredOnlyOfflineStep ==
    ASSUME TypeOK, StoredOnlyOffline, [Next]_vars
    PROVE  StoredOnlyOffline'
<1>0. \A i \in DOMAIN clients : clients[i] \in Client
  BY DEF TypeOK, ServerTypeOK
<1>1. CASE Added
  BY <1>1, AddedRecord DEF StoredOnlyOffline
<1>2. CASE ~ Added
  <2>1. DOMAIN clients' = DOMAIN clients
    BY <1>2, RecordsChange DEF Deposited
  <2>2. ASSUME NEW i \in DOMAIN clients, Online(clients'[i])
        PROVE  clients'[i].inWaiting = <<>>
    <3>1. CASE Deposited
      BY <1>0, <2>2, <3>1, RecordFields DEF Deposited, StoredOnlyOffline, Online
    <3>2. CASE Touched(clients[i], clients'[i])
      BY <1>0, <2>2, <3>2, RecordFields DEF Touched, StoredOnlyOffline, Online
    <3> QED BY <1>2, <3>1, <3>2, RecordsChange
  <2> QED BY <2>1, <2>2 DEF StoredOnlyOffline
<1> QED BY <1>1, <1>2

(* Nothing stays stored for a client that is connected.                    *)
THEOREM NothingStoredOnline == Spec => []StoredOnlyOffline
<1>1. Init => StoredOnlyOffline
  BY DEF Init, ServerInit, StoredOnlyOffline
<1>2. TypeOK /\ StoredOnlyOffline /\ [Next]_vars => StoredOnlyOffline'
  BY StoredOnlyOfflineStep
<1> QED BY <1>1, <1>2, TypeCorrect, PTL DEF Spec

LEMMA StoredInOrderStep ==
    ASSUME TypeOK, StoredInOrder, [Next]_vars
    PROVE  StoredInOrder'
<1> DEFINE Ordered(q, t) == /\ \A j \in DOMAIN q : 1 <= q[j] /\ q[j] <= t
                            /\ \A j, k \in DOMAIN q : j <= k => q[j] <= q[k]
           n == handled + 1
<1>0. /\ \A i \in DOMAIN clients : clients[i] \in Client
      /\ \A i \in DOMAIN clients : Ordered(clients[i].inWaiting, temp)
      /\ temp \in Nat /\ n \in Nat /\ temp < n
  BY DEF TypeOK, ServerTypeOK, SocketsTypeOK, StoredInOrder
<1>1. \A t : Ordered(<<>>, t)
  OBVIOUS
<1>2. SUFFICES \A i \in DOMAIN clients' : Ordered(clients'[i].inWaiting, temp')
  BY DEF StoredInOrder
<1>3. CASE Added /\ temp' = temp
  <2> HIDE DEF Ordered
  <2> QED BY <1>0, <1>1, <1>3, AddedRecord
<1>4. CASE Deposited
  <2>1. PICK topic :
          /\ clients' = [i \in DOMAIN clients |-> Keep(clients[i], topic, n)]
          /\ temp' = IF \E i \in DOMAIN clients :
                           ~ Online(clients[i]) /\ Stored(clients[i], topic) # {}
                     THEN n ELSE temp
    BY <1>4 DEF Deposited
  <2> SUFFICES ASSUME NEW i \in DOMAIN clients
               PROVE  Ordered(Keep(clients[i], topic, n).inWaiting, temp')
    BY <2>1
  <2> DEFINE r == clients[i]
             q == r.inWaiting
             k == Cardinality(Stored(r, topic))
  <2>2. q \in Seq(Nat) /\ k \in Nat
    BY <1>0, WantedFinite DEF Client
  <2>3. CASE Online(r) \/ Stored(r, topic) = {}
    <3>1. temp <= temp'
      BY <1>0, <2>1
    <3>2. Keep(r, topic, n).inWaiting = q
      <4>1. CASE Online(r)
        BY <4>1 DEF Keep
      <4>2. CASE ~ Online(r) /\ Stored(r, topic) = {}
        <5>1. k = 0
          BY <4>2, FS_EmptySet
        <5>2. Times(k, n) = <<>>
          BY <5>1 DEF Times
        <5>3. q \o <<>> = q
          BY <2>2
        <5>4. Keep(r, topic, n).inWaiting = q \o Times(k, n)
          BY <1>0, <4>2 DEF Keep, Client
        <5> QED BY <5>2, <5>3, <5>4
      <4> QED BY <2>3, <4>1, <4>2
    <3>3. temp' \in Nat /\ \A j \in DOMAIN q : q[j] \in Nat
      BY <1>0, <2>1, <2>2
    <3> QED BY <1>0, <3>1, <3>2, <3>3
  <2>4. CASE ~ Online(r) /\ Stored(r, topic) # {}
    <3>1. temp' = n
      BY <2>1, <2>4
    <3>2. Keep(r, topic, n).inWaiting = q \o Times(k, n)
      BY <1>0, <2>4 DEF Keep, Client
    <3>3. /\ Times(k, n) \in Seq(Nat) /\ Len(Times(k, n)) = k
          /\ \A j \in 1 .. k : Times(k, n)[j] = n
      BY <1>0, <2>2, TimesType
    <3>4. /\ DOMAIN (q \o Times(k, n)) = 1 .. Len(q) + k
          /\ \A j \in 1 .. Len(q) + k :
               (q \o Times(k, n))[j] = IF j <= Len(q) THEN q[j] ELSE n
      <4> DEFINE t == Times(k, n)
      <4>1. q \in Seq(Nat) /\ t \in Seq(Nat) /\ k \in Nat /\ Len(t) = k
        BY <2>2, <3>3
      <4>2. \A j \in 1 .. k : t[j] = n
        BY <3>3
      <4> HIDE DEF q, k, n, t
      <4>3. /\ Len(q \o t) = Len(q) + Len(t)
            /\ q \o t \in Seq(Nat)
            /\ \A j \in 1 .. Len(q) + Len(t) :
                 (q \o t)[j] = IF j <= Len(q) THEN q[j] ELSE t[j - Len(q)]
        BY <4>1, ConcatProperties
      <4>4. DOMAIN (q \o t) = 1 .. Len(q) + k
        BY <4>1, <4>3
      <4>5. ASSUME NEW j \in 1 .. Len(q) + k
            PROVE  (q \o t)[j] = IF j <= Len(q) THEN q[j] ELSE n
        <5>1. CASE j <= Len(q)
          BY <4>1, <4>3, <5>1
        <5>2. CASE ~ j <= Len(q)
          <6>1. j - Len(q) \in 1 .. k
            BY <4>1, <5>2
          <6>2. (q \o t)[j] = t[j - Len(q)]
            BY <4>1, <4>3, <5>2
          <6> QED BY <4>2, <5>2, <6>1, <6>2
        <5> QED BY <5>1, <5>2
      <4> QED BY <4>4, <4>5 DEF t
    <3>5. \A j \in 1 .. Len(q) : q[j] \in Nat /\ 1 <= q[j] /\ q[j] <= n
      BY <1>0, <2>2
    <3>6. Len(q) \in Nat /\ DOMAIN q = 1 .. Len(q)
      BY <2>2
    <3>7. \A j, l \in 1 .. Len(q) : j <= l => q[j] <= q[l]
      BY <1>0, <3>6
    <3> DEFINE s == q \o Times(k, n)
    <3>8. /\ DOMAIN s = 1 .. Len(q) + k
          /\ \A j \in 1 .. Len(q) + k : s[j] = IF j <= Len(q) THEN q[j] ELSE n
      BY <3>4
    <3> HIDE DEF s, q, k, n
    <3>9. Ordered(s, n)
      BY <1>0, <2>2, <3>5, <3>6, <3>7, <3>8
    <3> QED BY <3>1, <3>2, <3>9 DEF s
  <2> QED BY <2>3, <2>4
<1>5. CASE /\ DOMAIN clients' = DOMAIN clients
           /\ \A i \in DOMAIN clients : Touched(clients[i], clients'[i])
           /\ temp' = temp
  <2>1. \A i \in DOMAIN clients :
           clients'[i].inWaiting = clients[i].inWaiting \/ clients'[i].inWaiting = <<>>
    BY <1>0, <1>5, RecordFields DEF Touched
  <2> HIDE DEF Ordered
  <2> QED BY <1>0, <1>1, <1>5, <2>1
<1> QED BY <1>3, <1>4, <1>5, RecordsChange

(* What is stored is stored in the order of arrival, and there is a frame  *)
(* to read through every pointer in a queue.                               *)
THEOREM StoredByArrival == Spec => []StoredInOrder
<1>1. Init => StoredInOrder
  BY DEF Init, ServerInit, StoredInOrder
<1>2. TypeOK /\ StoredInOrder /\ [Next]_vars => StoredInOrder'
  BY StoredInOrderStep
<1> QED BY <1>1, <1>2, TypeCorrect, PTL DEF Spec

(* The subscriptions of a client outlive its connections.                  *)
THEOREM SubscriptionsOutliveConnections == Spec => SubscriptionsKept
<1> DEFINE KeptBy(i) ==
      /\ i \in DOMAIN clients'
      /\ clients'[i].ID = clients[i].ID
      /\ clients'[i].sock # clients[i].sock \/ ~ Online(clients[i])
            => clients'[i].interests = clients[i].interests
<1>1. ASSUME TypeOK, [Next]_vars
      PROVE  [\A i \in DOMAIN clients : KeptBy(i)]_vars
  <2>0. \A i \in DOMAIN clients : clients[i] \in Client
    BY <1>1 DEF TypeOK, ServerTypeOK
  <2>1. CASE Added
    BY <1>1, <2>1, AddedRecord
  <2>2. CASE ~ Added
    <3>1. CASE Deposited
      BY <2>0, <3>1, RecordFields DEF Deposited
    <3>2. CASE /\ DOMAIN clients' = DOMAIN clients
               /\ \A i \in DOMAIN clients : Touched(clients[i], clients'[i])
      BY <2>0, <3>2, RecordFields DEF Touched
    <3> QED BY <1>1, <2>2, <3>1, <3>2, RecordsChange
  <2> QED BY <2>1, <2>2
<1> QED BY <1>1, TypeCorrect, PTL DEF Spec, SubscriptionsKept
=============================================================================
