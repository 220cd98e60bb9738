---------------------------- MODULE DeliveryProofs ----------------------------
(***************************************************************************)
(* Proofs about what the subscribers of Broker are sent: what is stored    *)
(* for them, whatever they do; to whom frames go and in what order, when   *)
(* they act one at a time.                                                 *)
(***************************************************************************)
EXTENDS PacedProofs

(***************************************************************************)
(* Sequences of frames.                                                    *)
(***************************************************************************)

(* A concatenation can be taken apart.                                     *)
LEMMA ConcatParts ==
    ASSUME NEW S, NEW s \in Seq(S), NEW t \in Seq(S)
    PROVE  /\ Len(s \o t) >= Len(s)
           /\ SubSeq(s \o t, 1, Len(s)) = s
           /\ SubSeq(s \o t, Len(s) + 1, Len(s \o t)) = t
<1> DEFINE u == s \o t
           a == SubSeq(u, 1, Len(s))
           b == SubSeq(u, Len(s) + 1, Len(u))
<1>1. /\ u \in Seq(S) /\ Len(u) = Len(s) + Len(t)
      /\ \A i \in 1 .. Len(s) + Len(t) : u[i] = IF i <= Len(s) THEN s[i] ELSE t[i - Len(s)]
  BY ConcatProperties
<1>2. Len(s) \in Nat /\ Len(t) \in Nat /\ \A i \in 1 .. Len(u) : u[i] \in S
  BY <1>1
<1> HIDE DEF u
<1>3. /\ a \in Seq(S) /\ Len(a) = Len(s)
      /\ \A i \in 1 .. Len(s) : a[i] = u[i]
  <2>1. \A i \in 1 .. Len(s) : u[i] \in S
    BY <1>1, <1>2
  <2> QED BY <1>2, <2>1, SubSeqProperties
<1>4. /\ b \in Seq(S) /\ Len(b) = Len(t)
      /\ \A i \in 1 .. Len(t) : b[i] = u[Len(s) + i]
  <2>1. \A i \in Len(s) + 1 .. Len(u) : u[i] \in S
    BY <1>1, <1>2
  <2>2. /\ b \in Seq(S)
        /\ Len(b) = IF Len(s) + 1 <= Len(u) THEN Len(u) - (Len(s) + 1) + 1 ELSE 0
        /\ \A i \in 1 .. Len(u) - (Len(s) + 1) + 1 : b[i] = u[(Len(s) + 1) + i - 1]
    BY <1>1, <1>2, <2>1, SubSeqProperties
  <2> QED BY <1>1, <1>2, <2>2
<1> HIDE DEF a, b
<1>5. a = s
  BY <1>1, <1>2, <1>3, SeqEqual
<1>6. b = t
  <2>1. \A i \in 1 .. Len(t) : u[Len(s) + i] = t[i]
    <3> SUFFICES ASSUME NEW i \in 1 .. Len(t) PROVE u[Len(s) + i] = t[i]
      OBVIOUS
    <3>1. /\ Len(s) + i \in 1 .. Len(s) + Len(t) /\ ~ (Len(s) + i <= Len(s))
          /\ (Len(s) + i) - Len(s) = i
      BY <1>2
    <3> QED BY <1>1, <3>1
  <2> QED BY <1>4, <2>1, SeqEqual
<1> QED BY <1>1, <1>2, <1>5, <1>6 DEF a, b, u

(* The frames of s are of the datagrams in N, in the order of arrival.     *)
Delivery(s, N) ==
    /\ \A i \in DOMAIN s : s[i].meant \in N
    /\ \A i, j \in DOMAIN s : i <= j => s[i].meant <= s[j].meant

LEMMA DeliveryTail ==
    ASSUME NEW N, NEW s \in Seq(Frame), s # <<>>, Delivery(s, N)
    PROVE  Delivery(Tail(s), N)
<1>1. /\ Tail(s) \in Seq(Frame) /\ Len(Tail(s)) = Len(s) - 1
      /\ \A i \in 1 .. Len(Tail(s)) : Tail(s)[i] = s[i + 1]
  BY HeadTailProperties
<1>2. Len(s) \in Nat
  OBVIOUS
<1>3. \A i \in DOMAIN Tail(s) : i \in Nat /\ i + 1 \in DOMAIN s /\ Tail(s)[i] = s[i + 1]
  BY <1>1, <1>2
<1> QED BY <1>3 DEF Delivery

LEMMA DeliveryConcat ==
    ASSUME NEW N, NEW s \in Seq(Frame), NEW t \in Seq(Frame),
           Delivery(s, N), Delivery(t, N),
           \A i \in DOMAIN s : \A j \in DOMAIN t : s[i].meant <= t[j].meant
    PROVE  Delivery(s \o t, N)
<1> DEFINE u == s \o t
<1>1. /\ u \in Seq(Frame) /\ Len(u) = Len(s) + Len(t)
      /\ \A i \in 1 .. Len(s) + Len(t) :
            u[i] = IF i <= Len(s) THEN s[i] ELSE t[i - Len(s)]
  BY ConcatProperties
<1>2. Len(s) \in Nat /\ Len(t) \in Nat /\ DOMAIN s = 1 .. Len(s) /\ DOMAIN t = 1 .. Len(t)
  OBVIOUS
<1> HIDE DEF u
<1>3. DOMAIN u = 1 .. Len(s) + Len(t)
  BY <1>1, <1>2
<1>4. ASSUME NEW i \in DOMAIN u
      PROVE  \/ i \in DOMAIN s /\ u[i] = s[i]
             \/ i > Len(s) /\ i - Len(s) \in DOMAIN t /\ u[i] = t[i - Len(s)]
  BY <1>1, <1>2, <1>3
<1>5. ASSUME NEW i \in DOMAIN u, NEW j \in DOMAIN u, i <= j
      PROVE  u[i].meant <= u[j].meant
  <2>1. CASE i \in DOMAIN s /\ j \in DOMAIN s
    <3>1. u[i] = s[i] /\ u[j] = s[j]
      BY <1>2, <1>4, <2>1
    <3> QED BY <1>5, <2>1, <3>1 DEF Delivery
  <2>2. CASE i \in DOMAIN s /\ j \notin DOMAIN s
    <3>1. u[i] = s[i] /\ j - Len(s) \in DOMAIN t /\ u[j] = t[j - Len(s)]
      BY <1>2, <1>4, <2>2
    <3> QED BY <2>2, <3>1
  <2>3. CASE i \notin DOMAIN s
    <3>1. /\ i - Len(s) \in DOMAIN t /\ u[i] = t[i - Len(s)]
          /\ j - Len(s) \in DOMAIN t /\ u[j] = t[j - Len(s)]
          /\ i - Len(s) <= j - Len(s)
      BY <1>2, <1>3, <1>4, <1>5, <2>3
    <3> QED BY <3>1 DEF Delivery
  <2> QED BY <2>1, <2>2, <2>3
<1>6. \A i \in DOMAIN u : u[i].meant \in N
  BY <1>4 DEF Delivery
<1> QED BY <1>5, <1>6 DEF u, Delivery

(***************************************************************************)
(* What is stored leaves the queue at the client's return, all of it.      *)
(***************************************************************************)
LEMMA ComesBack ==
    ASSUME TypeOK, Next, NEW i \in DOMAIN clients,
           ~ Online(clients[i]), i \in DOMAIN clients', Online(clients'[i])
    PROVE  \E fd \in OpenFds : ReconnectClient(fd) /\ ~ Ends("sigpipe")
<1>0. \A j \in DOMAIN clients : clients[j] \in Client
  BY DEF TypeOK, ServerTypeOK
<1>1. clients' # clients
  OBVIOUS
<1>2. CASE ReceiveUdpMessage
  <2>1. CASE Ends("sigpipe")
    BY <1>1, <2>1 DEF Ends
  <2>2. CASE ~ Ends("sigpipe")
    <3>1. clients' = [j \in DOMAIN clients |->
                        Keep(clients[j], pub[handled + 1], handled + 1)]
      BY <1>2, <2>2 DEF ReceiveUdpMessage
    <3> QED BY <1>0, <3>1, RecordFields DEF Online
  <2> QED BY <2>1, <2>2
<1>3. CASE DisconnectClient
  BY <1>0, <1>3, RecordFields DEF DisconnectClient
<1>4. ASSUME NEW fd \in OpenFds, NewClient(fd) PROVE FALSE
  <2>1. clients \in Seq(Client) /\ Len(clients) \in Nat
    BY DEF TypeOK, ServerTypeOK
  <2>2. clients'[i] = clients[i]
    BY <1>4, <2>1 DEF NewClient
  <2> QED BY <2>2
<1>5. ASSUME NEW fd \in OpenFds, HandleSubscribe(fd) PROVE FALSE
  BY <1>0, <1>5, RecordFields DEF HandleSubscribe, Online
<1>6. ASSUME NEW fd \in OpenFds, HandleUnsubscribe(fd) PROVE FALSE
  BY <1>0, <1>1, <1>6, RecordFields DEF HandleUnsubscribe, Ends, Online
<1>7. ASSUME NEW fd \in OpenFds, ReconnectClient(fd) PROVE ~ Ends("sigpipe")
  BY <1>1 DEF Ends
<1> QED BY <1>1, <1>2, <1>3, <1>4, <1>5, <1>6, <1>7
        DEF Next, ServerStep, ServerNext, Select, AcceptNewConnection, CommandExit,
            ReceiveFails, HandleMessage, RefuseClient, InvalidRequest, Ends,
            PeersNext, Connect, SendId, SendRequest, Display, Exit, Kill, Hangup, Leaves,
            Publish, OperatorTypes, serverVars

LEMMA DrainType ==
    ASSUME TypeOK, NEW q \in Seq(Nat)
    PROVE  /\ Drain(q) \in Seq(Frame) /\ Len(Drain(q)) = Len(q)
           /\ \A j \in DOMAIN q : Drain(q)[j].meant = q[j]
<1>1. temp \in Nat
  BY DEF TypeOK, ServerTypeOK, SocketsTypeOK
<1>2. DOMAIN q = 1 .. Len(q) /\ Len(q) \in Nat
  OBVIOUS
<1>3. \A j \in 1 .. Len(q) : [n |-> temp, meant |-> q[j]] \in Frame
  BY <1>1 DEF Frame
<1>4. Drain(q) = [j \in 1 .. Len(q) |-> [n |-> temp, meant |-> q[j]]]
  BY <1>2 DEF Drain
<1>5. Drain(q) \in Seq(Frame) /\ Len(Drain(q)) = Len(q)
  BY <1>2, <1>3, <1>4
<1> QED BY <1>2, <1>4, <1>5

LEMMA DrainedStep ==
    ASSUME TypeOK, [Next]_vars, NEW i \in DOMAIN clients
    PROVE  LET old == clients[i].inWaiting
               new == clients'[i].inWaiting
               c   == connOf[clients'[i].sock]
               got == SubSeq(inbox'[c], Len(inbox[c]) + 1, Len(inbox'[c]))
           IN  \/ Len(new) >= Len(old) /\ SubSeq(new, 1, Len(old)) = old
               \/ /\ new = <<>> /\ ~ Online(clients[i]) /\ Online(clients'[i])
                  /\ ~ Alive(c) \/ [j \in DOMAIN got |-> got[j].meant] = old
<1>0. /\ \A j \in DOMAIN clients : clients[j] \in Client
      /\ clients[i].inWaiting \in Seq(Nat)
  <2>1. \A j \in DOMAIN clients : clients[j] \in Client
    BY DEF TypeOK, ServerTypeOK
  <2>2. clients[i].inWaiting \in Seq(Nat)
    BY <2>1 DEF Client
  <2> QED BY <2>1, <2>2
<1>1. ASSUME clients'[i].inWaiting = clients[i].inWaiting
      PROVE  /\ Len(clients'[i].inWaiting) >= Len(clients[i].inWaiting)
             /\ SubSeq(clients'[i].inWaiting, 1, Len(clients[i].inWaiting))
                  = clients[i].inWaiting
  <2>1. SubSeq(clients[i].inWaiting, 1, Len(clients[i].inWaiting)) = clients[i].inWaiting
    BY <1>0, SubSeqFull
  <2>2. Len(clients[i].inWaiting) \in Nat
    BY <1>0
  <2> QED BY <1>1, <2>1, <2>2
<1>2. CASE Added
  BY <1>1, <1>2, AddedRecord
<1>3. CASE Deposited
  <2>1. PICK topic :
          clients' = [j \in DOMAIN clients |-> Keep(clients[j], topic, handled + 1)]
    BY <1>3 DEF Deposited
  <2> DEFINE r == clients[i]
             t == Times(Cardinality(Stored(r, topic)), handled + 1)
  <2>2. CASE Online(r)
    BY <1>1, <2>1, <2>2 DEF Keep
  <2>3. CASE ~ Online(r)
    <3>1. clients'[i].inWaiting = r.inWaiting \o t
      BY <1>0, <2>1, <2>3 DEF Keep, Client
    <3>2. t \in Seq(Nat)
      <4>1. handled + 1 \in Nat
        BY DEF TypeOK, SocketsTypeOK
      <4> QED BY <1>0, <4>1, WantedFinite, TimesType
    <3>3. /\ Len(r.inWaiting \o t) >= Len(r.inWaiting)
          /\ SubSeq(r.inWaiting \o t, 1, Len(r.inWaiting)) = r.inWaiting
      <4>1. PICK old, new : old = r.inWaiting /\ new = t
        OBVIOUS
      <4>2. old \in Seq(Nat) /\ new \in Seq(Nat)
        BY <1>0, <3>2, <4>1
      <4>3. /\ Len(old \o new) >= Len(old)
            /\ SubSeq(old \o new, 1, Len(old)) = old
        BY <4>2, ConcatParts
      <4> QED BY <4>1, <4>3
    <3> HIDE DEF t
    <3> QED BY <3>1, <3>3
  <2> QED BY <2>2, <2>3
<1>4. CASE /\ Touched(clients[i], clients'[i])
           /\ i \in DOMAIN clients'
           /\ ~ (~ Online(clients[i]) /\ Online(clients'[i]))
  <2>1. \A fd \in Fds : Online(Back(clients[i], fd))
    BY <1>0, RecordFields DEF Online, Fds, NoSock
  <2>2. clients'[i].inWaiting = clients[i].inWaiting
    BY <1>0, <1>4, <2>1, RecordFields DEF Touched
  <2> QED BY <1>1, <2>2
<1>5. CASE /\ i \in DOMAIN clients' /\ ~ Online(clients[i]) /\ Online(clients'[i])
  <2>1. Next
    BY <1>5 DEF vars, serverVars
  <2>2. PICK fd \in OpenFds : ReconnectClient(fd) /\ ~ Ends("sigpipe")
    BY <1>5, <2>1, ComesBack
  <2>3. PICK b \in Conns : b = connOf[fd]
    BY DEF TypeOK, SocketsTypeOK, OpenFds
  <2>4. PICK k \in DOMAIN clients :
           /\ ~ Online(clients[k])
           /\ inbox' = [inbox EXCEPT ![b] =
                          IF Alive(b) THEN @ \o Drain(clients[k].inWaiting) ELSE @]
           /\ clients' = [clients EXCEPT ![k] = Back(@, fd)]
    BY <2>2, <2>3 DEF ReconnectClient, FirstNamed
  <2>5. i = k
    BY <1>5, <2>4
  <2> DEFINE old == clients[i].inWaiting
             got == SubSeq(inbox'[b], Len(inbox[b]) + 1, Len(inbox'[b]))
  <2>6. clients'[i].inWaiting = <<>> /\ clients'[i].sock = fd
    BY <1>0, <2>4, <2>5, RecordFields
  <2>7. ASSUME Alive(b) PROVE [j \in DOMAIN got |-> got[j].meant] = old
    <3>1. inbox[b] \in Seq(Frame)
      BY DEF TypeOK, SocketsTypeOK
    <3>2. /\ Drain(old) \in Seq(Frame) /\ Len(Drain(old)) = Len(old)
          /\ \A j \in DOMAIN old : Drain(old)[j].meant = old[j]
      BY <1>0, DrainType
    <3>3. inbox'[b] = inbox[b] \o Drain(old)
      BY <2>4, <2>5, <2>7 DEF TypeOK, SocketsTypeOK
    <3>4. got = Drain(old)
      <4>1. PICK s, t : s = inbox[b] /\ t = Drain(old)
        OBVIOUS
      <4>2. s \in Seq(Frame) /\ t \in Seq(Frame)
        BY <3>1, <3>2, <4>1
      <4>3. SubSeq(s \o t, Len(s) + 1, Len(s \o t)) = t
        BY <4>2, ConcatParts
      <4> QED BY <3>3, <4>1, <4>3
    <3>5. DOMAIN Drain(old) = DOMAIN old
      BY <1>0, <3>2
    <3> HIDE DEF got
    <3>6. [j \in DOMAIN got |-> got[j].meant] = [j \in DOMAIN old |-> old[j]]
      BY <3>2, <3>4, <3>5
    <3>7. [j \in DOMAIN old |-> old[j]] = old
      BY <1>0
    <3> QED BY <3>6, <3>7
  <2> QED BY <1>5, <2>3, <2>6, <2>7
<1> QED BY <1>2, <1>3, <1>4, <1>5, RecordsChange

(* A stored frame leaves the queue only when the client is back, with all  *)
(* the others stored for it, in their order, on its new connection.        *)
THEOREM StoredUntilReturn == Spec => DrainedOnReturn
<1> DEFINE Kept(i) ==
      LET old == clients[i].inWaiting
          new == clients'[i].inWaiting
          c   == connOf[clients'[i].sock]
          got == SubSeq(inbox'[c], Len(inbox[c]) + 1, Len(inbox'[c]))
      IN  \/ Len(new) >= Len(old) /\ SubSeq(new, 1, Len(old)) = old
          \/ /\ new = <<>> /\ ~ Online(clients[i]) /\ Online(clients'[i])
             /\ ~ Alive(c) \/ [j \in DOMAIN got |-> got[j].meant] = old
<1>1. TypeOK /\ [Next]_vars => [\A i \in DOMAIN clients : Kept(i)]_vars
  BY DrainedStep
<1> QED BY <1>1, TypeCorrect, PTL DEF Spec, DrainedOnReturn

(***************************************************************************)
(* Who is sent what, when the subscribers act one at a time.               *)
(***************************************************************************)

(* The datagrams so far that an ID had asked for.                          *)
DueTo(id) == {n \in 1 .. handled : pub[n] \in asked[id]}

(* A record holds topics from A only, and datagrams from N.                *)
Holds(r, A, N) ==
    /\ \A j \in DOMAIN r.interests : r.interests[j].topic \in A
    /\ \A j \in DOMAIN r.inWaiting : r.inWaiting[j] \in N

AskedFor ==
    \A i \in DOMAIN clients : \A id \in IDs :
       clients[i].ID = Text(IdMessage(id)) => Holds(clients[i], asked[id], DueTo(id))
DeliveredAsAsked == \A c \in Conns : Delivery(inbox[c], DueTo(Name[c]))

DInv == AskedFor /\ DeliveredAsAsked

LEMMA HoldsKept ==
    ASSUME NEW r \in Client, NEW A, NEW N, Holds(r, A, N)
    PROVE  /\ Holds(Offline(r), A, N)
           /\ \A fd : Holds(Back(r, fd), A, N)
           /\ \A topic : Holds(DropLast(r, topic), A, N)
           /\ \A m : m.name \in A => Holds(Subscribed(r, m), A, N)
           /\ \A topic, n : (topic \in A => n \in N) => Holds(Keep(r, topic, n), A, N)
<1>1. r.interests \in Seq(Interest) /\ r.inWaiting \in Seq(Nat)
  BY DEF Client
<1>2. Holds(Offline(r), A, N) /\ \A fd : Holds(Back(r, fd), A, N)
  BY RecordFields DEF Holds
<1>3. ASSUME NEW topic PROVE Holds(DropLast(r, topic), A, N)
  <2>1. CASE Wanted(r, topic) = {}
    BY <2>1 DEF DropLast
  <2>2. CASE Wanted(r, topic) # {}
    <3> DEFINE q == r.interests
               s == SubSeq(q, 1, Len(q) - 1)
    <3>1. Len(q) \in Nat /\ \A j \in 1 .. Len(q) - 1 : q[j] \in Interest
      BY <1>1
    <3>2. /\ s \in Seq(Interest)
          /\ Len(s) = IF 1 <= Len(q) - 1 THEN Len(q) - 1 ELSE 0
          /\ \A j \in 1 .. Len(q) - 1 : s[j] = q[j]
      BY <3>1, SubSeqProperties
    <3>3. DropLast(r, topic).interests = s
      BY <2>2 DEF DropLast, Client
    <3>4. DropLast(r, topic).inWaiting = r.inWaiting
      BY RecordFields
    <3> HIDE DEF s
    <3>5. \A j \in DOMAIN s : j \in DOMAIN q /\ s[j] = q[j]
      BY <1>1, <3>1, <3>2
    <3> QED BY <3>3, <3>4, <3>5 DEF Holds
  <2> QED BY <2>1, <2>2
<1>4. ASSUME NEW m, m.name \in A PROVE Holds(Subscribed(r, m), A, N)
  <2> DEFINE h == [topic |-> m.name, sf |-> m.sf]
  <2>1. Subscribed(r, m).interests = <<h>> \o r.interests
    BY DEF Subscribed, Client
  <2>2. \A j \in DOMAIN (<<h>> \o r.interests) :
           \/ (<<h>> \o r.interests)[j] = h
           \/ \E k \in DOMAIN r.interests : (<<h>> \o r.interests)[j] = r.interests[k]
    BY <1>1
  <2>3. Subscribed(r, m).inWaiting = r.inWaiting
    BY RecordFields
  <2>4. h.topic \in A
    BY <1>4
  <2> HIDE DEF h
  <2> QED BY <2>1, <2>2, <2>3, <2>4 DEF Holds
<1>5. ASSUME NEW topic, NEW n, topic \in A => n \in N
      PROVE  Holds(Keep(r, topic, n), A, N)
  <2> DEFINE k == Cardinality(Stored(r, topic))
  <2>1. CASE Online(r)
    BY <2>1 DEF Keep
  <2>2. CASE ~ Online(r) /\ Stored(r, topic) = {}
    <3>1. Times(k, n) = <<>>
      BY <2>2, FS_EmptySet DEF Times
    <3>2. Keep(r, topic, n).inWaiting = r.inWaiting \o Times(k, n)
      BY <2>2 DEF Keep, Client
    <3>3. Keep(r, topic, n).inWaiting = r.inWaiting
      BY <1>1, <3>1, <3>2
    <3> QED BY <3>3, RecordFields DEF Holds
  <2>3. CASE ~ Online(r) /\ Stored(r, topic) # {}
    <3>1. topic \in A
      BY <2>3 DEF Stored, Wanted, Holds
    <3>2. Times(k, n) \in Seq(N) /\ k \in Nat /\ \A j \in 1 .. k : Times(k, n)[j] = n
          /\ Len(Times(k, n)) = k
      BY <1>5, <3>1, WantedFinite, TimesType
    <3>3. r.inWaiting \in Seq(N)
      BY <1>1, SMTT(30) DEF Holds
    <3>4. r.inWaiting \o Times(k, n) \in Seq(N)
      BY <3>2, <3>3
    <3>5. Keep(r, topic, n).inWaiting = r.inWaiting \o Times(k, n)
      BY <2>3 DEF Keep, Client
    <3> HIDE DEF k
    <3>6. \A j \in DOMAIN Keep(r, topic, n).inWaiting : Keep(r, topic, n).inWaiting[j] \in N
      BY <3>4, <3>5
    <3> QED BY <3>6, RecordFields DEF Holds
  <2> QED BY <2>1, <2>2, <2>3
<1> QED BY <1>2, <1>3, <1>4, <1>5

(* Nothing that was due ceases to be.                                      *)
LEMMA DueGrows ==
    ASSUME TypeOK, Next
    PROVE  \A id \in IDs : asked[id] \subseteq asked'[id] /\ DueTo(id) \subseteq DueTo(id)'
<1>1. pub \in Seq(Topics) /\ handled \in 0 .. Len(pub)
  BY DEF TypeOK, SocketsTypeOK
<1>2. handled' = handled \/ handled' = handled + 1
  BY DEF Next, ServerStep, ServerNext, Select, AcceptNewConnection, ReceiveUdpMessage,
     CommandExit, ReceiveFails, DisconnectClient, HandleMessage, RefuseClient,
     ReconnectClient, NewClient, HandleSubscribe, HandleUnsubscribe, InvalidRequest,
     netVars, PeersNext, Connect, SendId, SendRequest, Display, Exit, Kill, Hangup,
     Leaves, Publish, OperatorTypes
<1>3. pub' = pub \/ \E topic \in Topics : pub' = Append(pub, topic)
  BY DEF Next, ServerStep, ServerNext, Select, AcceptNewConnection, ReceiveUdpMessage,
     CommandExit, ReceiveFails, DisconnectClient, HandleMessage, RefuseClient,
     ReconnectClient, NewClient, HandleSubscribe, HandleUnsubscribe, InvalidRequest,
     netVars, PeersNext, Connect, SendId, SendRequest, Display, Exit, Kill, Hangup,
     Leaves, Publish, OperatorTypes
<1>4. \A n \in 1 .. handled : n \in 1 .. handled' /\ pub'[n] = pub[n]
  BY <1>1, <1>2, <1>3
<1>5. ASSUME NEW id \in IDs PROVE asked[id] \subseteq asked'[id]
  <2>1. CASE asked' = asked
    BY <2>1
  <2>2. CASE \E c \in Conns : SendRequest(c)
    BY <2>2 DEF SendRequest, TypeOK, PeersTypeOK
  <2> QED BY <2>1, <2>2
       DEF Next, ServerStep, peerVars, PeersNext, Connect, SendId, Display, Exit, Kill,
           Hangup, Leaves, Publish, OperatorTypes
<1> QED BY <1>4, <1>5 DEF DueTo

(* What the record behind a name holds was asked for under that name.      *)
LEMMA AskedForStep ==
    ASSUME IInv, TInv, AskedFor, Next
    PROVE  AskedFor'
<1>0. /\ TypeOK /\ SessionsMatch
      /\ \A i \in DOMAIN clients : clients[i] \in Client
      /\ clients \in Seq(Client) /\ Len(clients) \in Nat
      /\ DOMAIN clients = 1 .. Len(clients)
  BY DEF IInv, TInv, TypeOK, ServerTypeOK
<1>1. \A id \in IDs : asked[id] \subseteq asked'[id] /\ DueTo(id) \subseteq DueTo(id)'
  BY <1>0, DueGrows
<1>2. ASSUME NEW i \in DOMAIN clients, NEW id \in IDs, clients[i].ID = Text(IdMessage(id))
      PROVE  Holds(clients[i], asked'[id], DueTo(id)')
  BY <1>1, <1>2 DEF AskedFor, Holds
<1> DEFINE Fine(i) == \A id \in IDs : clients'[i].ID = Text(IdMessage(id))
                          => Holds(clients'[i], asked'[id], DueTo(id)')
<1>3. ASSUME NEW i \in DOMAIN clients, clients'[i] = clients[i] PROVE Fine(i)
  BY <1>2, <1>3
<1>4. ASSUME NEW i \in DOMAIN clients,
             \/ clients'[i] = Offline(clients[i])
             \/ \E fd : clients'[i] = Back(clients[i], fd)
             \/ \E topic : clients'[i] = DropLast(clients[i], topic)
      PROVE  Fine(i)
  <2> SUFFICES ASSUME NEW id \in IDs, clients'[i].ID = Text(IdMessage(id))
               PROVE  Holds(clients'[i], asked'[id], DueTo(id)')
    OBVIOUS
  <2>1. clients[i].ID = Text(IdMessage(id))
    BY <1>0, <1>4, RecordFields
  <2>2. clients[i] \in Client /\ Holds(clients[i], asked'[id], DueTo(id)')
    BY <1>0, <1>2, <2>1
  <2> QED BY <1>4, <2>2, HoldsKept
<1>5. SUFFICES \A i \in DOMAIN clients' : Fine(i)
  BY DEF AskedFor
<1>6. CASE clients' = clients
  BY <1>3, <1>6
<1>7. CASE ReceiveUdpMessage /\ clients' # clients
  <2> DEFINE n == handled + 1
             topic == pub[n]
  <2>1. /\ clients' = [i \in DOMAIN clients |-> Keep(clients[i], topic, n)]
        /\ handled' = n /\ pub' = pub
    BY <1>7 DEF ReceiveUdpMessage, Ends
  <2> SUFFICES ASSUME NEW i \in DOMAIN clients, NEW id \in IDs,
                      clients'[i].ID = Text(IdMessage(id))
               PROVE  Holds(clients'[i], asked'[id], DueTo(id)')
    BY <2>1
  <2>2. clients'[i] = Keep(clients[i], topic, n)
    BY <2>1
  <2>3. clients[i].ID = Text(IdMessage(id))
    BY <1>0, <2>2, RecordFields
  <2>4. topic \in asked'[id] => n \in DueTo(id)'
    BY <1>0, <2>1 DEF DueTo, TypeOK, SocketsTypeOK
  <2>5. clients[i] \in Client /\ Holds(clients[i], asked'[id], DueTo(id)')
    BY <1>0, <1>2, <2>3
  <2> HIDE DEF n, topic
  <2> QED BY <2>2, <2>4, <2>5, HoldsKept
<1>8. CASE DisconnectClient
  <2>1. PICK fd : clients' = [i \in DOMAIN clients |->
                    IF clients[i].sock = fd THEN Offline(clients[i]) ELSE clients[i]]
    BY <1>8 DEF DisconnectClient
  <2> QED BY <1>3, <1>4, <2>1
<1>9. ASSUME NEW fd \in OpenFds, ReconnectClient(fd) PROVE \A i \in DOMAIN clients' : Fine(i)
  <2>1. clients' = clients
          \/ \E j \in DOMAIN clients : clients' = [clients EXCEPT ![j] = Back(@, fd)]
    BY <1>9 DEF ReconnectClient, FirstNamed, Ends
  <2> QED BY <1>3, <1>4, <2>1
<1>10. ASSUME NEW fd \in OpenFds, NewClient(fd) PROVE \A i \in DOMAIN clients' : Fine(i)
  <2>1. PICK r : /\ clients' = Append(clients, r)
                 /\ r.interests = <<>> /\ r.inWaiting = <<>>
    BY <1>10 DEF NewClient
  <2>2. \A i \in DOMAIN clients' :
           \/ i \in DOMAIN clients /\ clients'[i] = clients[i]
           \/ clients'[i] = r
    BY <1>0, <2>1
  <2>3. \A A, N : Holds(r, A, N)
    BY <2>1 DEF Holds
  <2> QED BY <1>3, <2>2, <2>3
<1>11. ASSUME NEW fd \in OpenFds, HandleSubscribe(fd) PROVE \A i \in DOMAIN clients' : Fine(i)
  <2>1. /\ Reads(fd) /\ ~ receiveID /\ First(fd).kind = "s"
        /\ clients' = [i \in DOMAIN clients |->
              IF clients[i].sock = fd THEN Subscribed(clients[i], First(fd)) ELSE clients[i]]
    BY <1>11 DEF HandleSubscribe
  <2>2. Turns
    BY <2>1 DEF TInv, Reads, Serving
  <2>3. First(fd).name \in asked[Name[connOf[fd]]]
    BY <1>0, <2>1, <2>2, WhoIsRead
  <2>4. PICK m : m = First(fd)
    OBVIOUS
  <2>5. PICK c \in Conns : c = connOf[fd]
    BY <1>0 DEF TypeOK, SocketsTypeOK, OpenFds
  <2>6. ASSUME NEW i \in DOMAIN clients, clients[i].sock = fd PROVE Fine(i)
    <3> SUFFICES ASSUME NEW id \in IDs, clients'[i].ID = Text(IdMessage(id))
                 PROVE  Holds(clients'[i], asked'[id], DueTo(id)')
      OBVIOUS
    <3>1. clients'[i] = Subscribed(clients[i], m)
      BY <2>1, <2>4, <2>6
    <3>2. clients[i].ID = Text(IdMessage(id))
      BY <1>0, <3>1, RecordFields
    <3>3. clients[i].ID = Text(IdMessage(Name[c]))
      BY <1>0, <2>5, <2>6, RecordOfFd DEF Has
    <3>4. id = Name[c]
      BY <3>2, <3>3 DEF Text, IdMessage
    <3>5. m.name \in asked'[id]
      BY <1>1, <2>3, <2>4, <2>5, <3>4
    <3>6. clients[i] \in Client /\ Holds(clients[i], asked'[id], DueTo(id)')
      BY <1>0, <1>2, <3>2
    <3> QED BY <3>1, <3>5, <3>6, HoldsKept
  <2>7. ASSUME NEW i \in DOMAIN clients, clients[i].sock # fd PROVE Fine(i)
    BY <1>3, <2>1, <2>7
  <2> HIDE DEF Fine
  <2> QED BY <2>1, <2>6, <2>7
<1>12. ASSUME NEW fd \in OpenFds, HandleUnsubscribe(fd) PROVE \A i \in DOMAIN clients' : Fine(i)
  <2>1. clients' = clients
          \/ \E topic : clients' = [i \in DOMAIN clients |->
                IF i \in {j \in DOMAIN clients : clients[j].sock = fd}
                THEN DropLast(clients[i], topic) ELSE clients[i]]
    BY <1>12 DEF HandleUnsubscribe, Ends
  <2> QED BY <1>3, <1>4, <2>1
<1> HIDE DEF Fine
<1> QED BY <1>6, <1>7, <1>8, <1>9, <1>10, <1>11, <1>12
        DEF Next, ServerStep, ServerNext, Select, AcceptNewConnection, CommandExit,
            ReceiveFails, HandleMessage, RefuseClient, InvalidRequest, Ends,
            PeersNext, Connect, SendId, SendRequest, Display, Exit, Kill, Hangup, Leaves,
            Publish, OperatorTypes, serverVars

(***************************************************************************)
(* What arrives in an inbox.                                               *)
(***************************************************************************)

(* The frame of a datagram is for those that asked for its topic.          *)
LEMMA CopiesAreDue ==
    ASSUME TypeOK, SessionsMatch, AskedFor, NEW c \in Conns, NEW topic,
           NEW m \in 0 .. Len(clients), Copies(c, topic, m) # 0
    PROVE  topic \in asked[Name[c]]
<1>1. 1 .. m \subseteq DOMAIN clients
  BY DEF TypeOK, ServerTypeOK
<1>2. \E i \in 1 .. m : Reaches(clients[i], c) /\ Wanted(clients[i], topic) # {}
  <2> SUFFICES ASSUME \A i \in 1 .. m : Reaches(clients[i], c) => Wanted(clients[i], topic) = {}
               PROVE  FALSE
    OBVIOUS
  <2>1. UNION {{i} \X Wanted(clients[i], topic) :
                 i \in {i \in 1 .. m : Reaches(clients[i], c)}} = {}
    OBVIOUS
  <2> QED BY <2>1, FS_EmptySet DEF Copies
<1>3. PICK i \in DOMAIN clients : Reaches(clients[i], c) /\ Wanted(clients[i], topic) # {}
  BY <1>1, <1>2
<1>4. clients[i].ID = Text(IdMessage(Name[c]))
  BY <1>3, ReachesHas DEF Has
<1>5. Name[c] \in IDs
  BY PeersAssumption
<1> QED BY <1>3, <1>4, <1>5 DEF AskedFor, Holds, Wanted

LEMMA UdpDelivers ==
    ASSUME IInv, TInv, DInv, ReceiveUdpMessage, Next, NEW c \in Conns
    PROVE  Delivery(inbox'[c], DueTo(Name[c])')
<1> DEFINE n == handled + 1
           topic == pub[n]
           Live(d, m) == IF Alive(d)
                         THEN Times(Copies(d, topic, m), [n |-> n, meant |-> n])
                         ELSE <<>>
<1>0. /\ TypeOK /\ SessionsMatch /\ AskedFor /\ Name[c] \in IDs
      /\ inbox[c] \in Seq(Frame)
      /\ n \in Nat /\ n >= 1
  BY PeersAssumption DEF IInv, TInv, DInv, TypeOK, SocketsTypeOK
<1>1. PICK m \in 0 .. Len(clients) : inbox' = [d \in Conns |-> inbox[d] \o Live(d, m)]
  <2>1. \A m \in DOMAIN clients : m - 1 \in 0 .. Len(clients)
    BY <1>0 DEF TypeOK, ServerTypeOK
  <2>2. Len(clients) \in 0 .. Len(clients)
    BY <1>0 DEF TypeOK, ServerTypeOK
  <2> QED BY <2>1, <2>2 DEF ReceiveUdpMessage
<1> DEFINE t == Live(c, m)
<1>2. inbox'[c] = inbox[c] \o t
  BY <1>1
<1>3. DueTo(Name[c]) \subseteq DueTo(Name[c])' /\ asked' = asked
  <2>1. asked' = asked
    BY DEF Next, ServerStep, peerVars, ReceiveUdpMessage, PeersNext, Connect, SendId,
       SendRequest, Display, Exit, Kill, Hangup, Leaves, Publish, OperatorTypes
  <2> QED BY <1>0, <2>1, DueGrows
<1>4. Delivery(inbox[c], DueTo(Name[c])')
  BY <1>3 DEF DInv, DeliveredAsAsked, Delivery
<1>5. /\ t \in Seq(Frame)
      /\ \A j \in DOMAIN t : t[j].meant = n
      /\ t # <<>> => topic \in asked[Name[c]]
  <2>1. CASE ~ Alive(c)
    BY <2>1
  <2>2. CASE Alive(c)
    <3> DEFINE k == Copies(c, topic, m)
               f == [n |-> n, meant |-> n]
    <3>1. k \in Nat
      BY <1>0, CopiesType DEF TypeOK
    <3>2. f \in Frame
      BY <1>0 DEF Frame
    <3>3. /\ Times(k, f) \in Seq(Frame) /\ Len(Times(k, f)) = k
          /\ \A j \in 1 .. k : Times(k, f)[j] = f
      BY <3>1, <3>2, TimesType
    <3>4. t = Times(k, f)
      BY <2>2
    <3>5. k # 0 => topic \in asked[Name[c]]
      BY <1>0, CopiesAreDue
    <3>6. f.meant = n
      OBVIOUS
    <3> HIDE DEF k, f, t
    <3> QED BY <3>1, <3>3, <3>4, <3>5, <3>6
  <2> QED BY <2>1, <2>2
<1>6. topic \in asked[Name[c]] => n \in DueTo(Name[c])'
  <2>1. handled' = n /\ pub' = pub
    BY DEF ReceiveUdpMessage
  <2> QED BY <1>0, <1>3, <2>1 DEF DueTo
<1>7. \A i \in DOMAIN inbox[c] : inbox[c][i].meant \in Nat /\ inbox[c][i].meant <= n
  BY <1>0 DEF DInv, DeliveredAsAsked, Delivery, DueTo, TypeOK, SocketsTypeOK
<1> HIDE DEF t
<1>8. Delivery(t, DueTo(Name[c])')
  <2> HIDE DEF n, topic
  <2>1. DOMAIN t # {} => t # <<>>
    OBVIOUS
  <2> QED BY <1>0, <1>5, <1>6, <2>1 DEF Delivery
<1>9. \A i \in DOMAIN inbox[c] : \A j \in DOMAIN t : inbox[c][i].meant <= t[j].meant
  BY <1>5, <1>7
<1> QED BY <1>0, <1>2, <1>4, <1>5, <1>8, <1>9, DeliveryConcat

(* One who is back is sent the stored frames before any other.             *)
LEMMA ReconnectDelivers ==
    ASSUME IInv, TInv, DInv, StoredInOrder, Next,
           NEW fd \in OpenFds, ReconnectClient(fd), NEW c \in Conns
    PROVE  Delivery(inbox'[c], DueTo(Name[c])')
<1>0. /\ TypeOK /\ SessionsMatch /\ AskedFor /\ Name[c] \in IDs
      /\ inbox \in [Conns -> Seq(Frame)]
  BY PeersAssumption DEF IInv, TInv, DInv, TypeOK, SocketsTypeOK
<1>1. DueTo(Name[c]) \subseteq DueTo(Name[c])'
  BY <1>0, DueGrows
<1>2. PICK b \in Conns : b = connOf[fd]
  BY <1>0 DEF TypeOK, SocketsTypeOK, OpenFds
<1>3. PICK i \in DOMAIN clients :
        /\ clients[i].ID = Text(First(fd))
        /\ \/ inbox' = inbox
           \/ inbox' = [inbox EXCEPT ![b] =
                          IF Alive(b) THEN @ \o Drain(clients[i].inWaiting) ELSE @]
  BY <1>2 DEF ReconnectClient, FirstNamed, Named
<1>4. CASE inbox'[c] = inbox[c]
  BY <1>1, <1>4 DEF DInv, DeliveredAsAsked, Delivery
<1>5. CASE inbox'[c] # inbox[c]
  <2> DEFINE q == clients[i].inWaiting
  <2>1. c = b /\ inbox'[c] = inbox[c] \o Drain(q)
    BY <1>0, <1>3, <1>5
  <2>2. Reads(fd) /\ receiveID /\ Turns
    BY DEF ReconnectClient, TInv, Reads, Serving
  <2>3. Entering(c) /\ First(fd) = IdMessage(Name[c])
    BY <1>0, <1>2, <2>1, <2>2, WhoIsRead
  <2>4. inbox[c] = <<>>
    BY <2>3 DEF Entering
  <2>5. clients[i] \in Client
    BY <1>0 DEF TypeOK, ServerTypeOK
  <2>6. q \in Seq(Nat) /\ \A j \in DOMAIN q : q[j] \in DueTo(Name[c])
    BY <1>0, <1>3, <2>3, <2>5 DEF AskedFor, Holds, Client
  <2>7. \A j, k \in DOMAIN q : j <= k => q[j] <= q[k]
    BY DEF StoredInOrder
  <2>8. /\ Drain(q) \in Seq(Frame) /\ DOMAIN Drain(q) = DOMAIN q
        /\ \A j \in DOMAIN q : Drain(q)[j].meant = q[j]
    <3>1. /\ Drain(q) \in Seq(Frame)
          /\ \A j \in DOMAIN q : Drain(q)[j].meant = q[j]
      BY <1>0, <2>6, DrainType
    <3>2. DOMAIN Drain(q) = DOMAIN q
      BY DEF Drain
    <3> QED BY <3>1, <3>2
  <2>9. inbox'[c] = Drain(q)
    BY <2>1, <2>4, <2>8
  <2> HIDE DEF q
  <2> QED BY <1>1, <2>6, <2>7, <2>8, <2>9 DEF Delivery
<1> QED BY <1>4, <1>5

LEMMA DeliveredStep ==
    ASSUME IInv, TInv, DInv, StoredInOrder, Next
    PROVE  DeliveredAsAsked'
<1> SUFFICES ASSUME NEW c \in Conns PROVE Delivery(inbox'[c], DueTo(Name[c])')
  BY DEF DeliveredAsAsked
<1>0. TypeOK /\ Name[c] \in IDs /\ inbox \in [Conns -> Seq(Frame)]
  BY PeersAssumption DEF IInv, TypeOK, SocketsTypeOK
<1>1. DueTo(Name[c]) \subseteq DueTo(Name[c])'
  BY <1>0, DueGrows
<1>2. Delivery(inbox[c], DueTo(Name[c])')
  BY <1>1 DEF DInv, DeliveredAsAsked, Delivery
<1>3. CASE ReceiveUdpMessage
  BY <1>3, UdpDelivers
<1>4. CASE \E fd \in OpenFds : ReconnectClient(fd)
  BY <1>4, ReconnectDelivers
<1>5. CASE inbox'[c] = inbox[c]
  BY <1>2, <1>5
<1>6. CASE inbox'[c] = <<>>
  BY <1>6 DEF Delivery
<1>7. CASE inbox[c] # <<>> /\ inbox'[c] = Tail(inbox[c])
  BY <1>0, <1>2, <1>7, DeliveryTail
<1>8. CASE PeersNext
  <2>1. \/ inbox' = inbox
        \/ \E d \in Conns :
             \/ inbox[d] # <<>> /\ inbox' = [inbox EXCEPT ![d] = Tail(@)]
             \/ inbox' = [inbox EXCEPT ![d] = <<>>]
    BY <1>8 DEF PeersNext, Connect, SendId, SendRequest, Display, Exit, Kill, Hangup,
       Leaves, Publish, OperatorTypes
  <2> QED BY <1>0, <1>5, <1>6, <1>7, <2>1
<1>9. CASE ServerStep /\ ~ ReceiveUdpMessage /\ ~ \E fd \in OpenFds : ReconnectClient(fd)
  <2>1. inbox' = inbox
    BY <1>9 DEF ServerStep, ServerNext, Select, AcceptNewConnection, CommandExit,
       ReceiveFails, DisconnectClient, HandleMessage, RefuseClient, NewClient,
       HandleSubscribe, HandleUnsubscribe, InvalidRequest, netVars
  <2> QED BY <1>5, <2>1
<1> QED BY <1>3, <1>4, <1>8, <1>9 DEF Next

LEMMA DInvStep ==
    ASSUME IInv, TInv, DInv, StoredInOrder, [Next]_vars
    PROVE  DInv'
<1>1. CASE UNCHANGED vars
  BY <1>1 DEF vars, netVars, serverVars, peerVars, DInv, AskedFor, DeliveredAsAsked, DueTo
<1>2. CASE Next
  BY <1>2, AskedForStep, DeliveredStep DEF DInv
<1> QED BY <1>1, <1>2

LEMMA DeliveriesInductive == ASSUME Tested PROVE Spec => []DInv
<1>1. Init => DInv
  BY DEF Init, SocketsInit, ServerInit, DInv, AskedFor, DeliveredAsAsked, Delivery
<1>2. IInv /\ TInv /\ StoredInOrder /\ DInv /\ [Next]_vars => DInv'
  BY DInvStep
<1> QED BY <1>1, <1>2, Inductive, PacedInductive, StoredByArrival, PTL DEF Spec

(* A subscriber is sent a datagram, as it arrives or when it is back, only *)
(* when somebody of its name subscribed to the topic: receive_udp_message  *)
(* compares the topics of the right record, and what handle_id_client      *)
(* sends was stored for this ID.                                           *)
THEOREM SentAsAsked == ASSUME Tested PROVE Spec => []RoutedByTopic
<1>1. DInv => RoutedByTopic
  BY DEF DInv, DeliveredAsAsked, Delivery, DueTo, RoutedByTopic
<1> QED BY <1>1, DeliveriesInductive, PTL

(* What was stored for a subscriber comes before what arrives after its    *)
(* return, and everything in the order of arrival.                         *)
THEOREM SentInOrder == ASSUME Tested PROVE Spec => []DeliveredInOrder
<1>1. DInv => DeliveredInOrder
  BY DEF DInv, DeliveredAsAsked, Delivery, DeliveredInOrder
<1> QED BY <1>1, DeliveriesInductive, PTL
=============================================================================
