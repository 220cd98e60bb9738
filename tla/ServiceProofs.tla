---------------------------- MODULE ServiceProofs ----------------------------
(***************************************************************************)
(* The proof that Broker implements PubSub when the subscribers act one at *)
(* a time.  Each step of Broker is a step of PubSub, or of no concern to   *)
(* its users.                                                              *)
(***************************************************************************)
EXTENDS DeliveryProofs

(***************************************************************************)
(* Accounts.                                                               *)
(***************************************************************************)

(* What an account shows of a record, and of none.                         *)
View(r, conns) == [sock |-> IF Online(r) THEN conns[r.sock] ELSE NoSock,
                   interests |-> r.interests, inWaiting |-> r.inWaiting]
Blank == [sock |-> NoSock, interests |-> <<>>, inWaiting |-> <<>>]

Own(records, id) == {i \in DOMAIN records : records[i].ID = Text(IdMessage(id))}
AccountIn(records, conns, id) ==
    IF Own(records, id) = {} THEN Blank
    ELSE View(records[CHOOSE i \in Own(records, id) : TRUE], conns)

LEMMA AccountIs ==
    ASSUME NEW id
    PROVE  /\ Account(id) = AccountIn(clients, connOf, id)
           /\ Account(id)' = AccountIn(clients', connOf', id)
BY DEF Account, AccountIn, Own, View, Blank

LEMMA OneOwner ==
    ASSUME UniqueIds, NEW id, NEW i \in Own(clients, id), NEW j \in Own(clients, id)
    PROVE  i = j
<1>1. clients[i].ID = Text(IdMessage(id)) /\ Text(IdMessage(id)) # CutId
  BY DEF Own, Text, IdMessage, CutId
<1> QED BY <1>1 DEF Own, UniqueIds

(* An account before and after a step that adds no record.                 *)
SameIds ==
    /\ DOMAIN clients' = DOMAIN clients
    /\ \A i \in DOMAIN clients : clients'[i].ID = clients[i].ID

LEMMA AccountsStand ==
    ASSUME UniqueIds, SameIds, NEW id
    PROVE  \/ Own(clients, id) = {} /\ Account(id) = Blank /\ Account(id)' = Blank
           \/ \E i \in Own(clients, id) :
                /\ Account(id) = View(clients[i], connOf)
                /\ Account(id)' = View(clients'[i], connOf')
<1>1. Own(clients', id) = Own(clients, id)
  BY DEF SameIds, Own
<1>2. CASE Own(clients, id) = {}
  BY <1>1, <1>2, AccountIs DEF AccountIn
<1>3. CASE Own(clients, id) # {}
  <2> DEFINE i == CHOOSE i \in Own(clients, id) : TRUE
  <2>1. i \in Own(clients, id)
    BY <1>3
  <2>2. /\ Account(id) = View(clients[i], connOf)
        /\ Account(id)' = View(clients'[i], connOf')
    BY <1>1, <1>3, AccountIs DEF AccountIn
  <2> QED BY <2>1, <2>2
<1> QED BY <1>2, <1>3

LEMMA SameAccounts ==
    ASSUME UniqueIds, SameIds,
           \A i \in DOMAIN clients : View(clients'[i], connOf') = View(clients[i], connOf)
    PROVE  \A id : Account(id)' = Account(id)
BY AccountsStand DEF Own

(* The account of a record's ID shows the record.                          *)
LEMMA OwnAccount ==
    ASSUME UniqueIds, NEW id, NEW i \in Own(clients, id)
    PROVE  Account(id) = View(clients[i], connOf)
<1> DEFINE j == CHOOSE j \in Own(clients, id) : TRUE
<1>1. j \in Own(clients, id)
  OBVIOUS
<1>2. j = i
  BY <1>1, OneOwner
<1>3. Account(id) = View(clients[j], connOf)
  BY AccountIs DEF AccountIn
<1> HIDE DEF j
<1> QED BY <1>2, <1>3

(* Whom an account names as its session.                                   *)
LEMMA SessionOf ==
    ASSUME TypeOK, UniqueIds, SessionsMatch, NEW c \in Conns
    PROVE  /\ \A i \in DOMAIN clients : Has(c, clients[i]) =>
                /\ Account(Name[c]) = View(clients[i], connOf)
                /\ Account(Name[c]).sock = c
           /\ Account(Name[c]).sock = c => HasRecord(c)
<1>1. ASSUME NEW i \in DOMAIN clients, Has(c, clients[i])
      PROVE  /\ Account(Name[c]) = View(clients[i], connOf)
             /\ Account(Name[c]).sock = c
  <2>1. i \in Own(clients, Name[c])
    BY <1>1 DEF Has, Own
  <2>2. Account(Name[c]) = View(clients[i], connOf)
    BY <2>1, OwnAccount
  <2> QED BY <1>1, <2>2 DEF Has, Reaches, View
<1>2. ASSUME Account(Name[c]).sock = c PROVE HasRecord(c)
  <2>1. PICK i \in Own(clients, Name[c]) : TRUE
    <3>1. Own(clients, Name[c]) # {}
      BY <1>2, AccountIs, ProcessAssumption DEF AccountIn, Blank
    <3> QED BY <3>1
  <2>2. Account(Name[c]) = View(clients[i], connOf)
    BY <2>1, OwnAccount
  <2>3. Online(clients[i]) /\ connOf[clients[i].sock] = c
    BY <1>2, <2>2, ProcessAssumption DEF View
  <2> QED BY <2>1, <2>3 DEF HasRecord, Has, Reaches, Own
<1> QED BY <1>1, <1>2

LEMMA ViewOnline ==
    ASSUME TypeOK, SessionsMatch, NEW i \in DOMAIN clients
    PROVE  Online(View(clients[i], connOf)) <=> Online(clients[i])
<1>1. ASSUME Online(clients[i]) PROVE connOf[clients[i].sock] # NoSock
  BY <1>1, ProcessAssumption DEF SessionsMatch, Has, Reaches
<1> QED BY <1>1 DEF View, Online

(***************************************************************************)
(* The mapping.                                                            *)
(***************************************************************************)
Present   == {c \in Conns : Alive(c)}
Meant(s)  == [i \in DOMAIN s |-> s[i].meant]

(* Of no concern to the users.                                             *)
LEMMA Stutters ==
    ASSUME Present' = Present, \A id \in IDs : Account(id)' = Account(id),
           \A c \in Conns : inbox'[c] = inbox[c],
           UNCHANGED <<pub, handled, asked, console>>, (status = "up")' = (status = "up")
    PROVE  UNCHANGED P!vars
<1>1. [id \in IDs |-> Account(id)]' = [id \in IDs |-> Account(id)]
  OBVIOUS
<1> QED BY <1>1 DEF P!vars, Present

(* The operators of PubSub on accounts are those of Server on records.     *)
LEMMA SameOperators ==
    /\ \A r : P!Online(r) <=> Online(r)
    /\ \A r : P!Offline(r) = Offline(r)
    /\ \A r, x : P!Back(r, x) = Back(r, x)
    /\ \A r, m : P!Subscribed(r, m) = Subscribed(r, m)
    /\ \A r, topic : P!Wanted(r, topic) = Wanted(r, topic)
    /\ \A r, topic : P!DropLast(r, topic) = DropLast(r, topic)
    /\ \A r, topic : P!Faults(r, topic) <=> Faults(r, topic)
    /\ \A r, topic, n : P!Keep(r, topic, n) = Keep(r, topic, n)
    /\ \A k, x : P!Times(k, x) = Times(k, x)
    /\ \A S : P!Cardinality(S) = Cardinality(S)
<1> USE DEF P!NoSock, NoSock
<1>1. \A r : P!Online(r) <=> Online(r)
  BY DEF P!Online, Online
<1>2. \A r, topic : P!Wanted(r, topic) = Wanted(r, topic)
  BY DEF P!Wanted, Wanted
<1>0. \A S : P!Cardinality(S) = Cardinality(S)
  BY DEF P!Cardinality, Cardinality
<1>3. \A r, topic : P!Stored(r, topic) = Stored(r, topic)
  BY <1>2 DEF P!Stored, Stored
<1>4. \A k, x : P!Times(k, x) = Times(k, x)
  BY DEF P!Times, Times
<1>5. ASSUME NEW r, NEW topic, NEW n PROVE P!Keep(r, topic, n) = Keep(r, topic, n)
  <2> DEFINE k == Cardinality(Stored(r, topic))
  <2>1. P!Keep(r, topic, n) = IF Online(r) THEN r
                              ELSE [r EXCEPT !.inWaiting = @ \o P!Times(k, n)]
    BY <1>0, <1>1, <1>3 DEF P!Keep
  <2>2. P!Times(k, n) = Times(k, n)
    BY <1>4
  <2>3. Keep(r, topic, n) = IF Online(r) THEN r
                            ELSE [r EXCEPT !.inWaiting = @ \o Times(k, n)]
    BY DEF Keep
  <2> QED BY <2>1, <2>2, <2>3
<1>6. \A r, topic : P!DropLast(r, topic) = DropLast(r, topic)
  BY <1>2 DEF P!DropLast, DropLast
<1>10. \A r, topic : P!Faults(r, topic) <=> Faults(r, topic)
  BY <1>2 DEF P!Faults, Faults
<1>7. \A r : P!Offline(r) = Offline(r)
  BY DEF P!Offline, Offline
<1>8. \A r, x : P!Back(r, x) = Back(r, x)
  BY DEF P!Back, Back
<1>9. \A r, m : P!Subscribed(r, m) = Subscribed(r, m)
  BY DEF P!Subscribed, Subscribed
<1> QED BY <1>0, <1>1, <1>2, <1>4, <1>5, <1>6, <1>7, <1>8, <1>9, <1>10

(* How an account changes.                                                 *)
LEMMA AccountFields ==
    ASSUME NEW s, NEW a, NEW q, NEW v, v = [sock |-> s, interests |-> a, inWaiting |-> q]
    PROVE  /\ \A x : Back(v, x) = [sock |-> x, interests |-> a, inWaiting |-> <<>>]
           /\ \A m : Subscribed(v, m) =
                [sock |-> s, interests |-> <<[topic |-> m.name, sf |-> m.sf]>> \o a,
                 inWaiting |-> q]
<1>1. ASSUME NEW x PROVE Back(v, x) = [sock |-> x, interests |-> a, inWaiting |-> <<>>]
  <2>1. PICK w : w = [v EXCEPT !.sock = x]
    OBVIOUS
  <2>2. w = [sock |-> x, interests |-> a, inWaiting |-> q]
    BY <2>1
  <2>3. PICK u : u = [w EXCEPT !.inWaiting = <<>>]
    OBVIOUS
  <2>4. u = [sock |-> x, interests |-> a, inWaiting |-> <<>>]
    BY <2>2, <2>3
  <2> QED BY <2>1, <2>3, <2>4 DEF Back
<1>2. ASSUME NEW m
      PROVE  Subscribed(v, m) =
               [sock |-> s, interests |-> <<[topic |-> m.name, sf |-> m.sf]>> \o a,
                inWaiting |-> q]
  <2> DEFINE h == <<[topic |-> m.name, sf |-> m.sf]>>
  <2>1. Subscribed(v, m) = [v EXCEPT !.interests = h \o v.interests]
    BY DEF Subscribed
  <2> HIDE DEF h
  <2>2. PICK w : w = h \o v.interests
    OBVIOUS
  <2>3. [v EXCEPT !.interests = w] = [sock |-> s, interests |-> w, inWaiting |-> q]
    OBVIOUS
  <2> QED BY <2>1, <2>2, <2>3 DEF h
<1> QED BY <1>1, <1>2

(* What is done to a record is done to its account.                        *)
LEMMA ViewOf ==
    ASSUME NEW r \in Client, NEW conns
    PROVE  /\ View(Offline(r), conns) = Offline(View(r, conns))
           /\ \A others : \A fd \in Fds : View(Back(r, fd), conns) = Back(View(r, others), conns[fd])
           /\ \A m : View(Subscribed(r, m), conns) = Subscribed(View(r, conns), m)
           /\ \A topic : /\ Wanted(View(r, conns), topic) = Wanted(r, topic)
                         /\ View(DropLast(r, topic), conns) = DropLast(View(r, conns), topic)
                         /\ Faults(View(r, conns), topic) <=> Faults(r, topic)
           /\ \A topic, n : (Online(View(r, conns)) <=> Online(r)) =>
                View(Keep(r, topic, n), conns) = Keep(View(r, conns), topic, n)
<1>1. View(Offline(r), conns) = Offline(View(r, conns))
  BY DEF View, Offline, Client, Online
<1>2. \A others : \A fd \in Fds : View(Back(r, fd), conns) = Back(View(r, others), conns[fd])
  <2> SUFFICES ASSUME NEW fd \in Fds, NEW others
               PROVE  View(Back(r, fd), conns) = Back(View(r, others), conns[fd])
    OBVIOUS
  <2>1. fd # NoSock
    BY DEF Fds, NoSock
  <2>2. Back(r, fd).sock = fd /\ Back(r, fd).interests = r.interests
        /\ Back(r, fd).inWaiting = <<>>
    BY RecordFields
  <2>3. View(Back(r, fd), conns) =
          [sock |-> conns[fd], interests |-> r.interests, inWaiting |-> <<>>]
    BY <2>1, <2>2 DEF View, Online
  <2>4. Back(View(r, others), conns[fd]) =
          [sock |-> conns[fd], interests |-> r.interests, inWaiting |-> <<>>]
    BY AccountFields DEF View
  <2> QED BY <2>3, <2>4
<1>3. \A m : View(Subscribed(r, m), conns) = Subscribed(View(r, conns), m)
  <2> SUFFICES ASSUME NEW m
               PROVE  View(Subscribed(r, m), conns) = Subscribed(View(r, conns), m)
    OBVIOUS
  <2> DEFINE q == <<[topic |-> m.name, sf |-> m.sf]>> \o r.interests
  <2>1. /\ Subscribed(r, m).sock = r.sock /\ Subscribed(r, m).inWaiting = r.inWaiting
        /\ Subscribed(r, m).interests = q
    BY DEF Subscribed, Client
  <2> DEFINE s == IF Online(r) THEN conns[r.sock] ELSE NoSock
  <2>2. Subscribed(View(r, conns), m) = [sock |-> s, interests |-> q, inWaiting |-> r.inWaiting]
    <3>1. View(r, conns) = [sock |-> s, interests |-> r.interests, inWaiting |-> r.inWaiting]
      BY DEF View
    <3>2. PICK v, a, w : v = View(r, conns) /\ a = r.interests /\ w = r.inWaiting
      OBVIOUS
    <3> HIDE DEF s
    <3>3. v = [sock |-> s, interests |-> a, inWaiting |-> w]
      BY <3>1, <3>2
    <3>4. Subscribed(v, m) = [sock |-> s, inWaiting |-> w,
                              interests |-> <<[topic |-> m.name, sf |-> m.sf]>> \o a]
      BY <3>3, AccountFields, SMTT(30)
    <3> QED BY <3>2, <3>4
  <2> HIDE DEF q
  <2> QED BY <2>1, <2>2 DEF View, Online
<1>4. \A topic : Wanted(View(r, conns), topic) = Wanted(r, topic)
  BY DEF View, Wanted
<1>5. \A topic : View(DropLast(r, topic), conns) = DropLast(View(r, conns), topic)
  BY <1>4 DEF View, DropLast, Client, Online
<1>6. \A topic : Faults(View(r, conns), topic) <=> Faults(r, topic)
  BY <1>4 DEF View, Faults
<1>7. \A topic : Stored(View(r, conns), topic) = Stored(r, topic)
  BY <1>4 DEF View, Stored
<1>8. ASSUME NEW topic, NEW n, Online(View(r, conns)) <=> Online(r)
      PROVE  View(Keep(r, topic, n), conns) = Keep(View(r, conns), topic, n)
  <2>1. CASE Online(r)
    BY <1>8, <2>1 DEF Keep
  <2>2. CASE ~ Online(r)
    BY <1>7, <1>8, <2>2 DEF Keep, View, Client, Online
  <2> QED BY <2>1, <2>2
<1> QED BY <1>1, <1>2, <1>3, <1>4, <1>5, <1>6, <1>8

(***************************************************************************)
(* Steps of no concern to the users.                                       *)
(***************************************************************************)
LEMMA Quiet ==
    ASSUME UniqueIds, SameSessions,
           UNCHANGED <<inbox, pub, handled, asked, console, status>>,
           \A i \in DOMAIN clients : clients'[i] = clients[i],
           \A c \in Conns : Alive(c)' <=> Alive(c)
    PROVE  UNCHANGED P!vars
<1>1. Present' = Present
  BY DEF Present
<1>2. \A id : Account(id)' = Account(id)
  BY SameAccounts DEF SameSessions, SameIds, View
<1> QED BY <1>1, <1>2, Stutters

(* A connection is accepted when there is a descriptor for it.             *)
LEMMA WhoIsAccepted ==
    ASSUME IInv, AcceptNewConnection
    PROVE  \E h \in Conns : h = Head(backlog) /\ Waiting(h)
<1>1. backlog # <<>> /\ backlog \in Seq(Conns)
  BY ServedOffers DEF AcceptNewConnection, IInv, TypeOK, SocketsTypeOK
<1> QED BY <1>1 DEF Waiting

LEMMA AcceptIsQuiet ==
    ASSUME IInv, UniqueIds, SessionsMatch, AcceptNewConnection, OpenFds # Fds,
           UNCHANGED peerVars
    PROVE  UNCHANGED P!vars
<1>0. TypeOK
  BY DEF IInv
<1>1. PICK h \in Conns : h = Head(backlog) /\ Waiting(h)
  BY WhoIsAccepted
<1>3. PICK fd \in Fds :
        /\ LowestFree(fd)
        /\ connOf' = [connOf EXCEPT ![fd] = h]
        /\ UNCHANGED <<peer, inbox, pub, handled, console, status, clients>>
  BY <1>1 DEF AcceptNewConnection
<1>4. \A i \in DOMAIN clients : View(clients'[i], connOf') = View(clients[i], connOf)
  <2>1. \A i \in DOMAIN clients : Online(clients[i]) => clients[i].sock \in Fds \ {fd}
    BY <1>0, <1>3, OnlineOpen DEF LowestFree, OpenFds
  <2>2. \A f \in Fds \ {fd} : connOf'[f] = connOf[f]
    BY <1>0, <1>3 DEF TypeOK, SocketsTypeOK
  <2> QED BY <1>3, <2>1, <2>2 DEF View
<1>5. \A id : Account(id)' = Account(id)
  BY <1>3, <1>4, SameAccounts DEF SameIds
<1> QED BY <1>3, <1>5, Stutters DEF Present, Alive, peerVars

(* Closing a descriptor that no record holds changes no account.           *)
LEMMA RefuseIsQuiet ==
    ASSUME IInv, UniqueIds, TInv, NEW fd \in OpenFds, RefuseClient(fd), UNCHANGED peerVars
    PROVE  UNCHANGED P!vars
<1>0. TypeOK /\ SessionsMatch /\ Turns
  BY DEF IInv, TInv, RefuseClient, Reads, Serving
<1>1. Reads(fd) /\ receiveID /\ CloseFd(fd)
      /\ UNCHANGED <<inbox, pub, handled, console, status, clients>>
  BY DEF RefuseClient, Drop
<1>2. PICK c \in Conns : c = connOf[fd]
  BY <1>0 DEF TypeOK, SocketsTypeOK, OpenFds
<1>3. Entering(c) /\ peer[c] = "open"
  BY <1>0, <1>1, <1>2, WhoIsRead
<1>4. \A i \in DOMAIN clients : clients[i].sock # fd
  BY <1>0, <1>2, <1>3, RecordOfFd DEF Entering, HasRecord
<1>5. \A i \in DOMAIN clients : View(clients'[i], connOf') = View(clients[i], connOf)
  <2>1. \A i \in DOMAIN clients : Online(clients[i]) => clients[i].sock \in Fds \ {fd}
    BY <1>0, <1>4, OnlineOpen DEF OpenFds
  <2>2. \A f \in Fds \ {fd} : connOf'[f] = connOf[f]
    BY <1>0, <1>1 DEF CloseFd, TypeOK, SocketsTypeOK
  <2> QED BY <1>1, <2>1, <2>2 DEF View
<1>6. \A id : Account(id)' = Account(id)
  BY <1>1, <1>5, SameAccounts DEF SameIds
<1>7. \A d \in Conns : Alive(d)' <=> Alive(d)
  BY <1>0, <1>1, <1>2, <1>3 DEF CloseFd, Alive, Closed, TypeOK, SocketsTypeOK
<1> QED BY <1>1, <1>6, <1>7, Stutters DEF Present, peerVars

(***************************************************************************)
(* Sessions.                                                               *)
(***************************************************************************)

(* One account changes.                                                    *)
LEMMA OneAccount ==
    ASSUME NEW x \in IDs, NEW v, Account(x)' = v,
           \A id \in IDs \ {x} : Account(id)' = Account(id)
    PROVE  [id \in IDs |-> Account(id)]' = [[id \in IDs |-> Account(id)] EXCEPT ![x] = v]
<1>1. PICK f : f = [id \in IDs |-> Account(id)]
  OBVIOUS
<1>2. PICK g : g = [id \in IDs |-> Account(id)']
  OBVIOUS
<1>3. g = [f EXCEPT ![x] = v]
  BY <1>1, <1>2
<1> QED BY <1>1, <1>2, <1>3

(* The records of the others are not concerned.                            *)
LEMMA OthersStand ==
    ASSUME UniqueIds, SameIds, NEW x, NEW i \in Own(clients, x),
           \A j \in DOMAIN clients \ {i} : View(clients'[j], connOf') = View(clients[j], connOf)
    PROVE  /\ Account(x) = View(clients[i], connOf)
           /\ Account(x)' = View(clients'[i], connOf')
           /\ \A id : id # x => Account(id)' = Account(id)
<1>1. /\ Account(x) = View(clients[i], connOf)
      /\ Account(x)' = View(clients'[i], connOf')
  BY AccountsStand, OneOwner
<1>2. ASSUME NEW id, id # x PROVE Account(id)' = Account(id)
  <2>1. i \notin Own(clients, id)
    BY <1>2 DEF Own, Text, IdMessage
  <2> QED BY <2>1, AccountsStand DEF Own
<1> QED BY <1>1, <1>2

LEMMA DisconnectParts ==
    ASSUME IInv, UniqueIds, TInv, DisconnectClient, UNCHANGED peerVars
    PROVE  \E id \in IDs : P!Part(id)
<1>1. PICK fd \in OpenFds :
        /\ Serving(fd)
        /\ inq[connOf[fd]] = <<>> /\ peer[connOf[fd]] \in {"fin", "dead"}
        /\ clients' = [i \in DOMAIN clients |->
                         IF clients[i].sock = fd THEN Offline(clients[i]) ELSE clients[i]]
        /\ (\E i \in DOMAIN clients : clients[i].sock = fd) => Drop(fd)
        /\ UNCHANGED <<status, inbox, pub, handled, console>>
  BY DEF DisconnectClient
<1>2. /\ TypeOK /\ SessionsMatch /\ Turns
      /\ \A i \in DOMAIN clients : clients[i] \in Client
  BY <1>1 DEF IInv, TInv, Serving, TypeOK, ServerTypeOK
<1>3. PICK c \in Conns : c = connOf[fd]
  BY <1>2 DEF TypeOK, SocketsTypeOK, OpenFds
<1>4. HasRecord(c) /\ Closed(c) /\ ~ Alive(c)
  <2>1. Closed(c) /\ ~ Alive(c)
    BY <1>1, <1>3 DEF Closed, Alive
  <2>2. ~ Idle(c)
    BY <2>1 DEF Idle, Closed
  <2>3. Busy(c)
    BY <1>2, <2>2 DEF Turns, OthersIdle
  <2> QED BY <2>1, <2>3 DEF Busy, Entering, Asking, Leaving, Refused, Closed
<1>5. PICK i \in DOMAIN clients : Has(c, clients[i])
  BY <1>4 DEF HasRecord
<1>6. clients[i].sock = fd
  BY <1>2, <1>3, <1>5, RecordOfFd
<1>7. \A j \in DOMAIN clients \ {i} : clients[j].sock # fd /\ clients'[j] = clients[j]
  BY <1>1, <1>2, <1>5, <1>6 DEF SessionsMatch, Has, Reaches
<1>8. CloseFd(fd)
  BY <1>1, <1>6 DEF Drop
<1>9. SameIds
  BY <1>1, <1>2, RecordFields DEF SameIds
<1>10. \A j \in DOMAIN clients \ {i} : View(clients'[j], connOf') = View(clients[j], connOf)
  <2>1. \A j \in DOMAIN clients \ {i} : Online(clients[j]) => clients[j].sock \in Fds \ {fd}
    BY <1>2, <1>7, OnlineOpen DEF OpenFds
  <2>2. \A f \in Fds \ {fd} : connOf'[f] = connOf[f]
    BY <1>2, <1>8 DEF CloseFd, TypeOK, SocketsTypeOK
  <2> QED BY <1>7, <2>1, <2>2 DEF View
<1> DEFINE x == Name[c]
<1>11. x \in IDs /\ i \in Own(clients, x)
  BY <1>5, PeersAssumption DEF Has, Own
<1> HIDE DEF x
<1>12. /\ Account(x) = View(clients[i], connOf)
       /\ Account(x)' = View(clients'[i], connOf')
       /\ \A id \in IDs \ {x} : Account(id)' = Account(id)
  BY <1>9, <1>10, <1>11, OthersStand
<1>13. Account(x)' = Offline(Account(x))
  <2>1. clients'[i] = Offline(clients[i])
    BY <1>1, <1>6
  <2>2. View(clients'[i], connOf') = View(clients'[i], connOf)
    BY <1>2, <2>1, RecordFields DEF View
  <2> QED BY <1>2, <1>12, <2>1, <2>2, ViewOf
<1>14. [id \in IDs |-> Account(id)]' =
         [[id \in IDs |-> Account(id)] EXCEPT ![x] = P!Offline(@)]
  <2>1. [id \in IDs |-> Account(id)]' =
          [[id \in IDs |-> Account(id)] EXCEPT ![x] = Offline(Account(x))]
    BY <1>11, <1>12, <1>13, OneAccount
  <2> QED BY <1>11, <2>1, SameOperators
<1>15. P!Parted(x)
  <2>1. Account(x).sock = c
    BY <1>2, <1>5, SessionOf DEF x
  <2>2. Online(Account(x))
    BY <2>1, ProcessAssumption DEF Online
  <2> QED BY <1>4, <1>11, <2>1, <2>2, SameOperators DEF P!Parted
<1>16. Present' = Present
  <2>1. \A d \in Conns : Alive(d)' <=> Alive(d)
    BY <1>2, <1>3, <1>4, <1>8 DEF CloseFd, Alive, Closed, TypeOK, SocketsTypeOK
  <2> QED BY <2>1 DEF Present
<1>17. UNCHANGED <<inbox, pub, handled, asked, console, status>>
  BY <1>1 DEF peerVars
<1> QED BY <1>11, <1>14, <1>15, <1>16, <1>17 DEF P!Part, P!userVars, Present

(* The process whose message is read, when it is an ID.                    *)
LEMMA WhoJoins ==
    ASSUME IInv, TInv, NEW fd \in OpenFds, Reads(fd), receiveID
    PROVE  \E c \in Conns : /\ c = connOf[fd] /\ c \in Present /\ peer[c] = "open"
                           /\ ~ HasRecord(c) /\ inbox[c] = <<>>
                           /\ First(fd) = IdMessage(Name[c])
<1>1. TypeOK /\ SessionsMatch /\ Turns
  BY DEF IInv, TInv, Reads, Serving
<1>2. PICK c \in Conns : c = connOf[fd]
  BY <1>1 DEF TypeOK, SocketsTypeOK, OpenFds
<1>3. Entering(c) /\ peer[c] = "open" /\ First(fd) = IdMessage(Name[c])
  BY <1>1, <1>2, WhoIsRead
<1> QED BY <1>2, <1>3 DEF Present, Alive, Entering

LEMMA ReconnectJoins ==
    ASSUME IInv, UniqueIds, TInv, NEW fd \in OpenFds, ReconnectClient(fd), UNCHANGED peerVars
    PROVE  status = "up" /\ \E c \in Present : P!Join(c)
<1>1. Reads(fd) /\ receiveID /\ status = "up"
  BY DEF ReconnectClient, Reads, Serving
<1>2. /\ TypeOK /\ SessionsMatch /\ inbox \in [Conns -> Seq(Frame)]
      /\ \A i \in DOMAIN clients : clients[i] \in Client
  BY DEF IInv, TInv, TypeOK, ServerTypeOK, SocketsTypeOK
<1>3. PICK c \in Conns : /\ c = connOf[fd] /\ c \in Present /\ peer[c] = "open"
                        /\ ~ HasRecord(c) /\ inbox[c] = <<>>
                        /\ First(fd) = IdMessage(Name[c])
  BY <1>1, WhoJoins
<1>4. PICK i \in DOMAIN clients :
        /\ FirstNamed(i, Text(First(fd))) /\ ~ Online(clients[i])
        /\ peer' = [peer EXCEPT ![c] = AfterSends(c, Len(clients[i].inWaiting))]
        /\ inbox' = [inbox EXCEPT ![c] =
                       IF Alive(c) THEN @ \o Drain(clients[i].inWaiting) ELSE @]
        /\ clients' = [clients EXCEPT ![i] = Back(@, fd)]
        /\ UNCHANGED <<status, connOf, pub, handled, console>>
  <2>1. \A k : ~ RaisesSigpipe(c, k)
    BY <1>3 DEF RaisesSigpipe
  <2> QED BY <1>3, <2>1 DEF ReconnectClient
<1> DEFINE x == Name[c]
           q == clients[i].inWaiting
<1>5. x \in IDs /\ i \in Own(clients, x)
  BY <1>3, <1>4, PeersAssumption DEF Own, FirstNamed, Named
<1> HIDE DEF x
<1>6. SameIds
  BY <1>2, <1>4, RecordFields DEF SameIds
<1>7. \A j \in DOMAIN clients \ {i} : View(clients'[j], connOf') = View(clients[j], connOf)
  BY <1>4
<1>8. /\ Account(x) = View(clients[i], connOf)
      /\ Account(x)' = View(clients'[i], connOf')
      /\ \A id \in IDs \ {x} : Account(id)' = Account(id)
  BY <1>5, <1>6, <1>7, OthersStand
<1>9. Account(x)' = Back(Account(x), c)
  <2>1. clients'[i] = Back(clients[i], fd) /\ connOf' = connOf /\ fd \in Fds
    BY <1>4 DEF OpenFds
  <2>2. View(Back(clients[i], fd), connOf) = Back(View(clients[i], connOf), connOf[fd])
    BY <1>2, <2>1, ViewOf
  <2> QED BY <1>3, <1>8, <2>1, <2>2
<1>10. [id \in IDs |-> Account(id)]' =
         [[id \in IDs |-> Account(id)] EXCEPT ![x] = P!Back(@, c)]
  <2>1. [id \in IDs |-> Account(id)]' =
          [[id \in IDs |-> Account(id)] EXCEPT ![x] = Back(Account(x), c)]
    BY <1>5, <1>8, <1>9, OneAccount
  <2> QED BY <1>5, <2>1, SameOperators
<1>11. Account(x).inWaiting = q /\ ~ Online(Account(x))
  BY <1>4, <1>8 DEF View, Online
<1>12. Meant(inbox'[c]) = Meant(inbox[c]) \o q /\ \A d \in Conns \ {c} : inbox'[d] = inbox[d]
  <2>1. clients[i] \in Client /\ q \in Seq(Nat)
    BY <1>2 DEF Client
  <2>2. inbox'[c] = <<>> \o Drain(q)
    BY <1>2, <1>3, <1>4 DEF Present
  <2>3. Drain(q) \in Seq(Frame) /\ Len(Drain(q)) = Len(q)
        /\ \A j \in DOMAIN q : Drain(q)[j].meant = q[j]
    BY <1>2, <2>1, DrainType
  <2>4. Meant(Drain(q)) = q
    BY <2>1, <2>3 DEF Meant
  <2>5. Meant(inbox[c]) = <<>>
    BY <1>3 DEF Meant
  <2>6. <<>> \o Drain(q) = Drain(q) /\ <<>> \o q = q
    BY <2>1, <2>3
  <2> QED BY <1>2, <1>4, <2>2, <2>4, <2>5, <2>6
<1>13. Present' = Present
  BY <1>2, <1>3, <1>4 DEF AfterSends, Present, Alive, TypeOK, SocketsTypeOK
<1>14. P!Join(c)
  <2>1. [d \in Conns |-> [j \in DOMAIN inbox[d] |-> inbox[d][j].meant]]' =
          [[d \in Conns |-> [j \in DOMAIN inbox[d] |-> inbox[d][j].meant]]
             EXCEPT ![c] = @ \o [id \in IDs |-> Account(id)][x].inWaiting]
    <3>1. PICK f, g : /\ f = [d \in Conns |-> Meant(inbox[d])]
                      /\ g = [d \in Conns |-> Meant(inbox'[d])]
      OBVIOUS
    <3>2. g = [f EXCEPT ![c] = f[c] \o Account(x).inWaiting]
      BY <1>11, <1>12, <3>1
    <3> QED BY <1>5, <3>1, <3>2 DEF Meant
  <2>2. UNCHANGED <<pub, handled, asked, console, status>>
    BY <1>4 DEF peerVars
  <2>3. ~ P!Online([id \in IDs |-> Account(id)][x])
    BY <1>5, <1>11, SameOperators
  <2> QED BY <1>10, <1>13, <2>1, <2>2, <2>3 DEF P!Join, x, Present
<1> QED BY <1>1, <1>3, <1>14

LEMMA NewClientJoins ==
    ASSUME FullIds = {}, IInv, TInv, NEW fd \in OpenFds, NewClient(fd), UNCHANGED peerVars
    PROVE  status = "up" /\ \E c \in Present : P!Join(c)
<1>1. Reads(fd) /\ receiveID /\ status = "up"
  BY DEF NewClient, Reads, Serving
<1>2. /\ TypeOK /\ inbox \in [Conns -> Seq(Frame)]
      /\ clients \in Seq(Client) /\ Len(clients) \in Nat
      /\ DOMAIN clients = 1 .. Len(clients)
  BY DEF IInv, TypeOK, ServerTypeOK, SocketsTypeOK
<1>3. PICK c \in Conns : /\ c = connOf[fd] /\ c \in Present /\ peer[c] = "open"
                        /\ ~ HasRecord(c) /\ inbox[c] = <<>>
                        /\ First(fd) = IdMessage(Name[c])
  BY <1>1, WhoJoins
<1> DEFINE x == Name[c]
           r == [ID |-> Text(IdMessage(x)), sock |-> fd, interests |-> <<>>, inWaiting |-> <<>>]
           last == Len(clients) + 1
<1>4. x \in IDs
  BY PeersAssumption
<1>5. /\ \A i \in DOMAIN clients : clients[i].ID # Text(IdMessage(x))
      /\ clients' = Append(clients, r)
      /\ UNCHANGED <<peer, inbox, connOf, pub, handled, console, status>>
  <2>1. StoredAs(First(fd)) = {Text(IdMessage(x))}
    BY <1>3 DEF StoredAs, IdMessage, Text
  <2> QED BY <1>3, <2>1 DEF NewClient, Named
<1> HIDE DEF x
<1>6. /\ r.ID = Text(IdMessage(x)) /\ r.sock = fd
      /\ r.interests = <<>> /\ r.inWaiting = <<>>
  OBVIOUS
<1> HIDE DEF r
<1>7. /\ DOMAIN clients' = DOMAIN clients \cup {last} /\ last \notin DOMAIN clients
      /\ clients'[last] = r /\ \A i \in DOMAIN clients : clients'[i] = clients[i]
  BY <1>2, <1>5
<1> HIDE DEF last
<1>8. Account(x) = Blank
  BY <1>5, AccountIs DEF AccountIn, Own
<1>9. Account(x)' = [sock |-> c, interests |-> <<>>, inWaiting |-> <<>>]
  <2>1. Own(clients', x) = {last}
    BY <1>5, <1>6, <1>7 DEF Own
  <2>2. Account(x)' = View(r, connOf')
    <3>1. (CHOOSE i \in Own(clients', x) : TRUE) = last
      BY <2>1
    <3> QED BY <1>7, <2>1, <3>1, AccountIs DEF AccountIn
  <2> QED BY <1>3, <1>5, <1>6, <2>2 DEF View, Online, OpenFds, Fds, NoSock
<1>10. \A id \in IDs \ {x} : Account(id)' = Account(id)
  <2> SUFFICES ASSUME NEW id \in IDs \ {x} PROVE Account(id)' = Account(id)
    OBVIOUS
  <2>1. Own(clients', id) = Own(clients, id)
    BY <1>6, <1>7 DEF Own, Text, IdMessage
  <2>2. \A i \in Own(clients, id) : clients'[i] = clients[i]
    BY <1>7 DEF Own
  <2>3. AccountIn(clients', connOf', id) = AccountIn(clients, connOf, id)
    <3>1. CASE Own(clients, id) = {}
      BY <2>1, <3>1 DEF AccountIn
    <3>2. CASE Own(clients, id) # {}
      <4>1. PICK i \in Own(clients, id) : i = CHOOSE j \in Own(clients, id) : TRUE
        BY <3>2
      <4>2. View(clients'[i], connOf') = View(clients[i], connOf)
        BY <1>5, <2>2
      <4> QED BY <2>1, <3>2, <4>1, <4>2 DEF AccountIn
    <3> QED BY <3>1, <3>2
  <2> QED BY <2>3, AccountIs
<1>11. [id \in IDs |-> Account(id)]' =
         [[id \in IDs |-> Account(id)] EXCEPT ![x] = P!Back(@, c)]
  <2>1. Back(Blank, c) = Account(x)'
    BY <1>9, AccountFields DEF Blank
  <2>2. [id \in IDs |-> Account(id)]' =
          [[id \in IDs |-> Account(id)] EXCEPT ![x] = Back(Account(x), c)]
    BY <1>4, <1>8, <1>10, <2>1, OneAccount
  <2> QED BY <1>4, <2>2, SameOperators
<1>12. P!Join(c)
  <2>1. [d \in Conns |-> [j \in DOMAIN inbox[d] |-> inbox[d][j].meant]]' =
          [[d \in Conns |-> [j \in DOMAIN inbox[d] |-> inbox[d][j].meant]]
             EXCEPT ![c] = @ \o [id \in IDs |-> Account(id)][x].inWaiting]
    <3>1. PICK f : f = [d \in Conns |-> Meant(inbox[d])]
      OBVIOUS
    <3>2. f[c] = <<>> /\ Account(x).inWaiting = <<>>
      BY <1>3, <1>8, <3>1 DEF Blank, Meant
    <3>3. f = [f EXCEPT ![c] = f[c] \o Account(x).inWaiting]
      <4>1. <<>> \o <<>> = <<>>
        OBVIOUS
      <4> QED BY <3>1, <3>2, <4>1
    <3> QED BY <1>4, <1>5, <3>1, <3>3 DEF Meant
  <2>2. UNCHANGED <<pub, handled, asked, console, status>> /\ Present' = Present
    BY <1>5 DEF peerVars, Present, Alive
  <2>3. ~ P!Online([id \in IDs |-> Account(id)][x])
    BY <1>4, <1>8, SameOperators DEF Blank, Online
  <2> QED BY <1>11, <2>1, <2>2, <2>3 DEF P!Join, x, Present
<1> QED BY <1>1, <1>3, <1>12

(***************************************************************************)
(* Requests.                                                               *)
(***************************************************************************)

(* The process whose request is read is in its session.                    *)
LEMMA WhoAsks ==
    ASSUME IInv, UniqueIds, TInv, NEW fd \in OpenFds, Reads(fd), ~ receiveID
    PROVE  \E c \in Conns : \E i \in DOMAIN clients :
              /\ c = connOf[fd] /\ c \in Present
              /\ Account(Name[c]).sock = c /\ i \in Own(clients, Name[c])
              /\ clients[i].sock = fd
              /\ \A j \in DOMAIN clients : clients[j].sock = fd => j = i
              /\ First(fd) \in Request
              /\ First(fd).kind = "s" => First(fd).name \in asked[Name[c]]
<1>1. TypeOK /\ SessionsMatch /\ Turns
  BY DEF IInv, TInv, Reads, Serving
<1>2. PICK c \in Conns : c = connOf[fd]
  BY <1>1 DEF TypeOK, SocketsTypeOK, OpenFds
<1>3. /\ Asking(c) /\ First(fd) \in Request
      /\ First(fd).kind = "s" => First(fd).name \in asked[Name[c]]
  BY <1>1, <1>2, WhoIsRead
<1>4. PICK i \in DOMAIN clients : Has(c, clients[i])
  BY <1>3 DEF Asking, HasRecord
<1>5. clients[i].sock = fd
  BY <1>1, <1>2, <1>4, RecordOfFd
<1>6. \A j \in DOMAIN clients : clients[j].sock = fd => j = i
  BY <1>1, <1>4, <1>5 DEF SessionsMatch, Has, Reaches
<1>7. i \in Own(clients, Name[c]) /\ Account(Name[c]).sock = c
  BY <1>1, <1>4, SessionOf DEF Has, Own
<1>8. c \in Present
  BY <1>3 DEF Asking, Present, Alive
<1> QED BY <1>2, <1>3, <1>5, <1>6, <1>7, <1>8

LEMMA SubscribeIsRequest ==
    ASSUME IInv, UniqueIds, TInv, NEW fd \in OpenFds, HandleSubscribe(fd), UNCHANGED peerVars
    PROVE  status = "up" /\ \E c \in Present : P!Request(c)
<1>1. Reads(fd) /\ ~ receiveID /\ status = "up" /\ First(fd).kind = "s"
  BY DEF HandleSubscribe, Reads, Serving
<1>2. \A i \in DOMAIN clients : clients[i] \in Client
  BY DEF IInv, TypeOK, ServerTypeOK
<1>3. PICK c \in Conns, i \in DOMAIN clients :
        /\ c \in Present
        /\ Account(Name[c]).sock = c /\ i \in Own(clients, Name[c])
        /\ clients[i].sock = fd
        /\ \A j \in DOMAIN clients : clients[j].sock = fd => j = i
        /\ First(fd) \in Request /\ First(fd).name \in asked[Name[c]]
  BY <1>1, WhoAsks
<1>4. PICK m : m = First(fd)
  OBVIOUS
<1>5. PICK x \in IDs : x = Name[c]
  BY PeersAssumption
<1>6. /\ DOMAIN clients' = DOMAIN clients
      /\ clients'[i] = Subscribed(clients[i], m)
      /\ \A j \in DOMAIN clients \ {i} : clients'[j] = clients[j]
      /\ UNCHANGED <<peer, inbox, connOf, pub, handled, console, status>>
  BY <1>3, <1>4 DEF HandleSubscribe
<1>7. SameIds
  BY <1>2, <1>6, RecordFields DEF SameIds
<1>8. /\ Account(x) = View(clients[i], connOf)
      /\ Account(x)' = View(clients'[i], connOf')
      /\ \A id \in IDs \ {x} : Account(id)' = Account(id)
  BY <1>3, <1>5, <1>6, <1>7, OthersStand
<1> DEFINE w == [name |-> m.name, sf |-> m.sf]
<1>9. w \in [name : asked[x], sf : BOOLEAN] /\ \A r : Subscribed(r, w) = Subscribed(r, m)
  <2>1. m.sf \in BOOLEAN
    BY <1>3, <1>4 DEF Request
  <2> QED BY <1>3, <1>4, <1>5, <2>1 DEF Subscribed
<1>10. Account(x)' = Subscribed(Account(x), w)
  BY <1>2, <1>6, <1>8, <1>9, ViewOf
<1> HIDE DEF w
<1>11. [id \in IDs |-> Account(id)]' =
         [[id \in IDs |-> Account(id)] EXCEPT ![x] = P!Subscribed(@, w)]
  <2>1. [id \in IDs |-> Account(id)]' =
          [[id \in IDs |-> Account(id)] EXCEPT ![x] = Subscribed(Account(x), w)]
    BY <1>5, <1>8, <1>10, OneAccount
  <2> QED BY <1>5, <2>1, SameOperators
<1>12. P!Subscribe(c)
  BY <1>5, <1>9, <1>11 DEF P!Subscribe
<1>13. UNCHANGED <<inbox, pub, handled, asked, console, status>> /\ Present' = Present
  BY <1>6 DEF peerVars, Present, Alive
<1>14. P!InSession(c)
  BY <1>3, <1>5 DEF P!InSession
<1>15. P!Request(c)
  BY <1>12, <1>13, <1>14 DEF P!Request, P!userVars, Present
<1> QED BY <1>1, <1>3, <1>15

(***************************************************************************)
(* Ends.                                                                   *)
(***************************************************************************)

(* What a step leaves alone with which the server ends.                    *)
LastStep == status' # "up" /\ UNCHANGED <<peer, clients, connOf, pub, asked>>

LEMMA LastStepShows ==
    ASSUME LastStep
    PROVE  /\ (status = "up")' = FALSE
           /\ Present' = Present
           /\ [id \in IDs |-> Account(id)]' = [id \in IDs |-> Account(id)]
           /\ UNCHANGED <<pub, asked>>
<1>1. \A id : Account(id)' = Account(id)
  BY AccountIs DEF LastStep
<1> QED BY <1>1 DEF LastStep, Present, Alive

LEMMA ReceiveFailsBreaks ==
    ASSUME IInv, UniqueIds, TInv, ReceiveFails, UNCHANGED peerVars
    PROVE  status = "up" /\ P!Breaks
<1>1. PICK fd \in OpenFds : Serving(fd) /\ peer[connOf[fd]] = "rst"
  BY DEF ReceiveFails
<1>2. TypeOK /\ SessionsMatch /\ Turns /\ status = "up"
  BY <1>1 DEF IInv, TInv, Serving
<1>3. PICK c \in Conns : c = connOf[fd]
  BY <1>2 DEF TypeOK, SocketsTypeOK, OpenFds
<1>4. HasRecord(c) /\ c \notin Present
  <2>1. ~ Idle(c)
    BY <1>1, <1>3 DEF Idle
  <2>2. Busy(c)
    BY <1>2, <2>1 DEF Turns, OthersIdle
  <2> QED BY <1>1, <1>3, <2>2 DEF Busy, Entering, Asking, Leaving, Refused, Present, Alive
<1>5. Account(Name[c]).sock = c /\ Name[c] \in IDs
  BY <1>2, <1>4, SessionOf, PeersAssumption DEF HasRecord
<1>6. P!Parted(Name[c])
  <2>1. Online(Account(Name[c]))
    BY <1>5, ProcessAssumption DEF Online
  <2> QED BY <1>4, <1>5, <2>1, SameOperators DEF P!Parted, Present
<1>7. LastStep /\ UNCHANGED <<handled, inbox, console>>
  BY DEF ReceiveFails, Ends, netVars, peerVars, LastStep
<1> QED BY <1>2, <1>5, <1>6, <1>7, LastStepShows DEF P!Breaks, Present

(* No descriptor is left for a process that connects: each one is that of  *)
(* a session.                                                              *)
LEMMA AllInSession ==
    ASSUME IInv, UniqueIds, TInv, status = "up", OpenFds = Fds,
           NEW h \in Conns, Waiting(h)
    PROVE  /\ h \in Present /\ Account(Name[h]).sock # h
           /\ Cardinality({c \in Present : Account(Name[c]).sock = c}) = MaxFd - UdpFd
<1> DEFINE S == {c \in Present : Account(Name[c]).sock = c}
<1>1. /\ TypeOK /\ SessionsMatch /\ Turns /\ ~ Accepted(h)
      /\ connOf \in [Fds -> Conns \cup {None}]
  BY DEF IInv, TInv, WatchedAreOpen, TypeOK, SocketsTypeOK
<1>2. Entering(h) /\ OthersIdle(h)
  BY <1>1, WaitingEnters
<1>3. h \in Present /\ Account(Name[h]).sock # h
  BY <1>1, <1>2, SessionOf DEF Entering, Present, Alive
<1>4. ASSUME NEW fd \in Fds PROVE connOf[fd] \in S
  <2>1. PICK c \in Conns : c = connOf[fd] /\ Accepted(c)
    BY <1>1 DEF OpenFds, Accepted
  <2>2. peer[c] = "open" /\ HasRecord(c)
    BY <1>1, <1>2, <2>1 DEF OthersIdle, Idle
  <2> QED BY <1>1, <2>1, <2>2, SessionOf DEF HasRecord, Present, Alive
<1>5. ASSUME NEW c \in S PROVE \E fd \in Fds : connOf[fd] = c
  <2>1. c \in Conns /\ HasRecord(c)
    BY <1>1, SessionOf DEF Present
  <2>2. PICK i \in DOMAIN clients : Has(c, clients[i])
    BY <2>1 DEF HasRecord
  <2>3. clients[i].sock \in OpenFds /\ connOf[clients[i].sock] = c
    BY <1>1, <2>2, OnlineOpen DEF Has, Reaches
  <2> QED BY <2>3 DEF OpenFds
<1>6. \A f, g \in Fds : connOf[f] = connOf[g] => f = g
  BY DEF IInv, WatchedAreOpen
<1> HIDE DEF S
<1>7. connOf \in Surjection(Fds, S) /\ connOf \in Injection(Fds, S)
  <2>1. connOf \in [Fds -> S]
    BY <1>1, <1>4
  <2> QED BY <1>5, <1>6, <2>1 DEF Surjection, Injection, IsInjective
<1>8. IsFiniteSet(Fds) /\ Cardinality(Fds) = MaxFd - UdpFd
  <2>1. 5 \in Int /\ MaxFd \in Int
    BY SocketsAssumption
  <2>2. /\ IsFiniteSet(5 .. MaxFd)
        /\ Cardinality(5 .. MaxFd) = IF 5 > MaxFd THEN 0 ELSE MaxFd - 5 + 1
    BY <2>1, FS_Interval
  <2> QED BY <2>2, SocketsAssumption DEF Fds, UdpFd
<1>9. Cardinality(S) = Cardinality(Fds)
  BY <1>7, <1>8, FS_Surjection
<1> QED BY <1>3, <1>8, <1>9 DEF S

LEMMA FullBreaks ==
    ASSUME IInv, UniqueIds, TInv, AcceptNewConnection, OpenFds = Fds, UNCHANGED peerVars
    PROVE  status = "up" /\ P!Breaks
<1>1. status = "up"
  BY DEF AcceptNewConnection, Serving
<1>2. PICK h \in Conns : Waiting(h)
  BY WhoIsAccepted
<1>3. LastStep /\ UNCHANGED <<handled, inbox, console>>
  BY DEF AcceptNewConnection, LowestFree, Ends, LastStep, peerVars
<1>4. \A c \in Conns : P!InSession(c) <=> Account(Name[c]).sock = c
  BY PeersAssumption DEF P!InSession
<1>5. \E c \in Present : ~ P!InSession(c)
  BY <1>1, <1>2, <1>4, AllInSession
<1>6. P!Cardinality({c \in Present : P!InSession(c)}) = MaxFd - UdpFd
  <2>1. {c \in Present : P!InSession(c)} = {c \in Present : Account(Name[c]).sock = c}
    BY <1>4 DEF Present
  <2>2. Cardinality({c \in Present : Account(Name[c]).sock = c}) = MaxFd - UdpFd
    BY <1>1, <1>2, AllInSession
  <2> QED BY <2>1, <2>2, SameOperators
<1> QED BY <1>1, <1>3, <1>5, <1>6, LastStepShows DEF P!Breaks, Present

(* The operator's line is read.                                            *)
LEMMA CommandObeys ==
    ASSUME IInv, CommandExit, UNCHANGED peerVars
    PROVE  status = "up" /\ P!Obey
<1>1. status = "up" /\ console # "quiet"
  <2>1. StdinFd \notin OpenFds /\ StdinFd # TcpFd /\ StdinFd # UdpFd
    BY DEF OpenFds, Fds, StdinFd, TcpFd, UdpFd
  <2> QED BY <2>1 DEF CommandExit, Serving, IInv, NeverBlocks, Readable
<1>2. LastStep /\ UNCHANGED <<handled, inbox>> /\ console' = "quiet"
  BY DEF CommandExit, Ends, LastStep, peerVars
<1> QED BY <1>1, <1>2, LastStepShows DEF P!Obey, Present

LEMMA UnsubscribeIsRequest ==
    ASSUME IInv, UniqueIds, TInv, NEW fd \in OpenFds, HandleUnsubscribe(fd), UNCHANGED peerVars
    PROVE  status = "up" /\ (P!Breaks \/ \E c \in Present : P!Request(c))
<1>1. Reads(fd) /\ ~ receiveID /\ status = "up"
  BY DEF HandleUnsubscribe, Reads, Serving
<1>2. \A i \in DOMAIN clients : clients[i] \in Client
  BY DEF IInv, TypeOK, ServerTypeOK
<1>3. PICK c \in Conns, i \in DOMAIN clients :
        /\ c \in Present
        /\ Account(Name[c]).sock = c /\ i \in Own(clients, Name[c])
        /\ clients[i].sock = fd
        /\ \A j \in DOMAIN clients : clients[j].sock = fd => j = i
  BY <1>1, WhoAsks
<1>4. PICK x \in IDs : x = Name[c]
  BY PeersAssumption
<1>5. PICK topic \in Topics \cup {None} :
        \/ Faults(clients[i], topic) /\ Ends("fault")
        \/ /\ ~ Faults(clients[i], topic)
           /\ DOMAIN clients' = DOMAIN clients
           /\ clients'[i] = DropLast(clients[i], topic)
           /\ \A j \in DOMAIN clients \ {i} : clients'[j] = clients[j]
           /\ UNCHANGED status
  BY <1>3 DEF HandleUnsubscribe
<1>6. UNCHANGED <<peer, inbox, connOf, pub, handled, asked, console>>
  BY DEF HandleUnsubscribe, peerVars
<1>7. P!InSession(c)
  BY <1>3, <1>4 DEF P!InSession
<1>8. Account(x) = View(clients[i], connOf)
  BY <1>3, <1>4, OwnAccount
<1>9. P!Faults(Account(x), topic) <=> Faults(clients[i], topic)
  BY <1>2, <1>8, ViewOf, SameOperators
<1>10. CASE Faults(clients[i], topic) /\ Ends("fault")
  <2>1. topic \in Topics
    <3>1. PICK j \in DOMAIN clients[i].interests : clients[i].interests[j].topic = topic
      BY <1>10 DEF Faults, Wanted
    <3>2. clients[i].interests \in Seq(Interest)
      BY <1>2 DEF Client
    <3>3. clients[i].interests[j] \in Interest
      BY <3>1, <3>2
    <3> QED BY <3>1, <3>3 DEF Interest
  <2>2. LastStep
    BY <1>6, <1>10 DEF LastStep, Ends
  <2>3. \E d \in Present, t \in Topics :
           P!InSession(d) /\ P!Faults([id \in IDs |-> Account(id)][Name[d]], t)
    BY <1>3, <1>4, <1>7, <1>9, <1>10, <2>1
  <2> QED BY <1>1, <1>6, <2>2, <2>3, LastStepShows DEF P!Breaks, Present
<1>11. CASE ~ (Faults(clients[i], topic) /\ Ends("fault"))
  <2>1. SameIds
    BY <1>2, <1>5, <1>11, RecordFields DEF SameIds
  <2>2. \A j \in DOMAIN clients \ {i} : View(clients'[j], connOf') = View(clients[j], connOf)
    BY <1>5, <1>6, <1>11
  <2>3. /\ Account(x)' = View(clients'[i], connOf')
        /\ \A id \in IDs \ {x} : Account(id)' = Account(id)
    BY <1>3, <1>4, <2>1, <2>2, OthersStand
  <2>4. Account(x)' = DropLast(Account(x), topic)
    BY <1>2, <1>5, <1>6, <1>8, <1>11, <2>3, ViewOf
  <2>5. [id \in IDs |-> Account(id)]' =
           [[id \in IDs |-> Account(id)] EXCEPT ![x] = P!DropLast(@, topic)]
    <3>1. [id \in IDs |-> Account(id)]' =
            [[id \in IDs |-> Account(id)] EXCEPT ![x] = DropLast(Account(x), topic)]
      BY <2>3, <2>4, OneAccount
    <3> QED BY <3>1, SameOperators
  <2>6. P!Unsubscribe(c)
    BY <1>4, <1>5, <1>9, <1>11, <2>5 DEF P!Unsubscribe
  <2>7. status' = status /\ Present' = Present
    BY <1>5, <1>6, <1>11 DEF Present, Alive
  <2>8. P!Request(c)
    BY <1>6, <1>7, <2>6, <2>7 DEF P!Request, P!userVars, Present
  <2> QED BY <1>1, <1>3, <2>8
<1> QED BY <1>10, <1>11

(***************************************************************************)
(* Datagrams.                                                              *)
(***************************************************************************)
LEMMA MeantType ==
    ASSUME NEW s \in Seq(Frame)
    PROVE  /\ Meant(s) \in Seq(Nat) /\ Len(Meant(s)) = Len(s)
           /\ \A i \in 1 .. Len(s) : Meant(s)[i] = s[i].meant
<1>1. DOMAIN s = 1 .. Len(s) /\ Len(s) \in Nat
  OBVIOUS
<1>2. Meant(s) = [i \in 1 .. Len(s) |-> s[i].meant]
  BY <1>1 DEF Meant
<1>3. ASSUME NEW i \in 1 .. Len(s) PROVE s[i].meant \in Nat
  <2>1. s[i] \in Frame
    BY <1>1
  <2> QED BY <2>1 DEF Frame
<1> QED BY <1>1, <1>2, <1>3

LEMMA MeantConcat ==
    ASSUME NEW s \in Seq(Frame), NEW t \in Seq(Frame)
    PROVE  Meant(s \o t) = Meant(s) \o Meant(t)
<1>1. /\ s \o t \in Seq(Frame) /\ Len(s \o t) = Len(s) + Len(t)
      /\ \A i \in 1 .. Len(s) + Len(t) :
            (s \o t)[i] = IF i <= Len(s) THEN s[i] ELSE t[i - Len(s)]
  BY ConcatProperties
<1>2. /\ Meant(s) \in Seq(Nat) /\ Len(Meant(s)) = Len(s)
      /\ \A i \in 1 .. Len(s) : Meant(s)[i] = s[i].meant
  BY MeantType
<1>3. /\ Meant(t) \in Seq(Nat) /\ Len(Meant(t)) = Len(t)
      /\ \A i \in 1 .. Len(t) : Meant(t)[i] = t[i].meant
  BY MeantType
<1>4. PICK u : u = s \o t
  OBVIOUS
<1>5. /\ Meant(u) \in Seq(Nat) /\ Len(Meant(u)) = Len(s) + Len(t)
      /\ \A i \in 1 .. Len(s) + Len(t) : Meant(u)[i] = u[i].meant
  BY <1>1, <1>4, MeantType
<1>6. /\ Meant(s) \o Meant(t) \in Seq(Nat) /\ Len(Meant(s) \o Meant(t)) = Len(s) + Len(t)
      /\ \A i \in 1 .. Len(s) + Len(t) : (Meant(s) \o Meant(t))[i] =
             IF i <= Len(s) THEN Meant(s)[i] ELSE Meant(t)[i - Len(s)]
  <2>1. PICK v, w : v = Meant(s) /\ w = Meant(t)
    OBVIOUS
  <2>2. v \in Seq(Nat) /\ w \in Seq(Nat)
    BY <1>2, <1>3, <2>1
  <2>3. /\ v \o w \in Seq(Nat) /\ Len(v \o w) = Len(v) + Len(w)
        /\ \A i \in 1 .. Len(v) + Len(w) :
              (v \o w)[i] = IF i <= Len(v) THEN v[i] ELSE w[i - Len(v)]
    BY <2>2, ConcatProperties
  <2>4. Len(v) = Len(s) /\ Len(w) = Len(t)
    BY <1>2, <1>3, <2>1
  <2> QED BY <2>1, <2>3, <2>4
<1>7. ASSUME NEW i \in 1 .. Len(s) + Len(t) PROVE Meant(u)[i] = (Meant(s) \o Meant(t))[i]
  <2>0. Len(s) \in Nat /\ Len(t) \in Nat
    OBVIOUS
  <2>1. CASE i <= Len(s)
    <3>1. i \in 1 .. Len(s)
      BY <2>0, <2>1
    <3> QED BY <1>1, <1>2, <1>4, <1>5, <1>6, <2>1, <3>1
  <2>2. CASE ~ i <= Len(s)
    <3>1. i - Len(s) \in 1 .. Len(t)
      BY <2>0, <2>2
    <3> QED BY <1>1, <1>3, <1>4, <1>5, <1>6, <2>2, <3>1
  <2> QED BY <2>1, <2>2
<1> QED BY <1>4, <1>5, <1>6, <1>7, SeqEqual

LEMMA MeantTimes ==
    ASSUME NEW k \in Nat, NEW f \in Frame
    PROVE  Meant(Times(k, f)) = Times(k, f.meant) /\ Times(k, f) \in Seq(Frame)
<1>1. DOMAIN Times(k, f) = 1 .. k /\ \A i \in 1 .. k : Times(k, f)[i] = f
  BY DEF Times
<1>2. Meant(Times(k, f)) = [i \in 1 .. k |-> f.meant]
  BY <1>1 DEF Meant
<1> QED BY <1>2, TimesType DEF Times

(* One record at most reaches a connection, and it makes the copies.       *)
LEMMA OneReaches ==
    ASSUME IInv, SessionsMatch, NEW c \in Conns,
           NEW i \in DOMAIN clients, Reaches(clients[i], c),
           NEW j \in DOMAIN clients, Reaches(clients[j], c)
    PROVE  j = i
<1>1. clients[i].sock \in OpenFds /\ clients[j].sock \in OpenFds
  BY OnlineOpen DEF IInv, Reaches
<1>2. clients[i].sock = clients[j].sock
  BY <1>1 DEF IInv, WatchedAreOpen, Reaches
<1> QED BY <1>2 DEF SessionsMatch, Reaches

LEMMA CopiesOfRecord ==
    ASSUME IInv, SessionsMatch, NEW c \in Conns, NEW topic, NEW m \in 0 .. Len(clients),
           NEW i \in DOMAIN clients, Reaches(clients[i], c)
    PROVE  Copies(c, topic, m) =
             IF i <= m THEN Cardinality(Wanted(clients[i], topic)) ELSE 0
<1>0. /\ clients \in Seq(Client) /\ Len(clients) \in Nat
      /\ DOMAIN clients = 1 .. Len(clients) /\ clients[i] \in Client
  BY DEF IInv, TypeOK, ServerTypeOK
<1>1. \A j \in DOMAIN clients : Reaches(clients[j], c) => j = i
  BY OneReaches
<1> DEFINE W == Wanted(clients[i], topic)
           I == {j \in 1 .. m : Reaches(clients[j], c)}
<1>2. I = IF i <= m THEN {i} ELSE {}
  BY <1>0, <1>1
<1>3. PICK U : U = UNION {{j} \X Wanted(clients[j], topic) : j \in I}
  OBVIOUS
<1>4. Copies(c, topic, m) = Cardinality(U)
  BY <1>3 DEF Copies
<1>5. CASE i <= m
  <2>1. U = {i} \X W
    BY <1>2, <1>3, <1>5
  <2>2. IsFiniteSet(W) /\ IsFiniteSet({i}) /\ Cardinality({i}) = 1
    BY <1>0, WantedFinite, FS_Singleton
  <2>3. Cardinality({i} \X W) = 1 * Cardinality(W) /\ Cardinality(W) \in Nat
    <3> HIDE DEF W
    <3> QED BY <2>2, FS_Product, FS_CardinalityType
  <2>4. Copies(c, topic, m) = Cardinality(W)
    <3> HIDE DEF W, I
    <3> QED BY <1>4, <2>1, <2>3
  <2> QED BY <1>5, <2>4
<1>6. CASE ~ i <= m
  <2>1. U = {}
    BY <1>2, <1>3, <1>6
  <2> QED BY <1>4, <1>6, <2>1, FS_EmptySet
<1> QED BY <1>5, <1>6

LEMMA NoTimes == \A x : Times(0, x) = <<>>
<1>1. ASSUME NEW x PROVE Times(0, x) = <<>>
  <2>1. Times(0, x) \in Seq({x}) /\ Len(Times(0, x)) = 0
    BY TimesType
  <2> QED BY <2>1
<1> QED BY <1>1

(* What the first m records forward is what those of C are sent.           *)
Forwarded(m) ==
    inbox' = [c \in Conns |-> inbox[c] \o
                IF Alive(c)
                THEN Times(Copies(c, pub[handled + 1], m),
                           [n |-> handled + 1, meant |-> handled + 1])
                ELSE <<>>]

LEMMA ForwardedIsSent ==
    ASSUME IInv, UniqueIds, SessionsMatch, NEW m \in 0 .. Len(clients), Forwarded(m),
           NEW C \in SUBSET Conns,
           \A c \in Conns : HasRecord(c) =>
              (c \in C <=> \E i \in 1 .. m : Reaches(clients[i], c))
    PROVE  P!Send(C)
<1> DEFINE topic == pub[handled + 1]
           f == [n |-> handled + 1, meant |-> handled + 1]
           In(c) == c \in C \cap Present /\ P!InSession(c)
           Sent(c) == IF In(c) THEN P!Times(P!Copies(c), handled + 1) ELSE <<>>
<1>1. /\ TypeOK /\ ServerTypeOK /\ inbox \in [Conns -> Seq(Frame)] /\ handled \in Nat
      /\ DOMAIN clients = 1 .. Len(clients) /\ Len(clients) \in Nat
      /\ \A i \in DOMAIN clients : clients[i] \in Client
  BY DEF IInv, TypeOK, ServerTypeOK, SocketsTypeOK
<1>2. f \in Frame
  BY <1>1 DEF Frame
<1> HIDE DEF Sent
<1>3. ASSUME NEW c \in Conns PROVE Meant(inbox'[c]) = Meant(inbox[c]) \o Sent(c)
  <2> DEFINE k == Copies(c, topic, m)
             live == IF Alive(c) THEN Times(k, f) ELSE <<>>
  <2>1. inbox'[c] = inbox[c] \o live
    BY DEF Forwarded
  <2>2. k \in Nat
    BY <1>1, CopiesType
  <2>3. P!InSession(c) => HasRecord(c)
    BY <1>1, SessionOf, PeersAssumption DEF P!InSession
  <2>4. Meant(inbox[c] \o <<>>) = Meant(inbox[c]) \o <<>>
    <3>1. Meant(<<>>) = <<>>
      BY DEF Meant
    <3>2. inbox[c] \in Seq(Frame) /\ <<>> \in Seq(Frame)
      BY <1>1
    <3> HIDE DEF live, k, f
    <3> QED BY <3>1, <3>2, MeantConcat
  <2>5. CASE ~ Alive(c)
    <3>1. Sent(c) = <<>> /\ live = <<>>
      BY <2>5 DEF Present, Sent
    <3> QED BY <2>1, <2>4, <3>1
  <2>6. CASE Alive(c) /\ ~ HasRecord(c)
    <3>1. k = 0
      BY <1>1, <2>6, NoCopies
    <3>2. Sent(c) = <<>> /\ live = <<>>
      BY <2>3, <2>6, <3>1, NoTimes DEF Sent
    <3> QED BY <2>1, <2>4, <3>2
  <2>7. CASE Alive(c) /\ HasRecord(c)
    <3>1. PICK i \in DOMAIN clients : Has(c, clients[i])
      BY <2>7 DEF HasRecord
    <3>2. Reaches(clients[i], c)
      BY <3>1 DEF Has
    <3>3. k = IF i <= m THEN Cardinality(Wanted(clients[i], topic)) ELSE 0
      BY <3>2, CopiesOfRecord
    <3>4. Account(Name[c]) = View(clients[i], connOf) /\ Account(Name[c]).sock = c
      BY <1>1, <3>1, SessionOf
    <3>5. P!InSession(c)
      BY <3>4, PeersAssumption DEF P!InSession
    <3>6. c \in C <=> i <= m
      <4>1. \A j \in 1 .. m : j \in DOMAIN clients
        BY <1>1
      <4>2. \A j \in 1 .. m : Reaches(clients[j], c) => j = i
        BY <3>2, <4>1, OneReaches
      <4>3. i <= m <=> i \in 1 .. m
        BY <1>1
      <4> QED BY <2>7, <3>2, <4>2, <4>3
    <3>7. P!Copies(c) = Cardinality(Wanted(clients[i], topic))
      <4>1. Wanted(Account(Name[c]), topic) = Wanted(clients[i], topic)
        BY <1>1, <3>4, ViewOf
      <4> QED BY <4>1, SameOperators, PeersAssumption DEF P!Copies
    <3>8. live = Times(k, f)
      BY <2>7
    <3>9. Sent(c) = Times(k, handled + 1)
      <4>1. CASE i <= m
        <5>1. In(c)
          BY <2>7, <3>5, <3>6, <4>1 DEF Present
        <5> QED BY <3>3, <3>7, <4>1, <5>1, SameOperators DEF Sent
      <4>2. CASE ~ i <= m
        BY <3>3, <3>6, <4>2, NoTimes DEF Sent
      <4> QED BY <4>1, <4>2
    <3>10. Meant(Times(k, f)) = Times(k, handled + 1) /\ Times(k, f) \in Seq(Frame)
      <4> HIDE DEF k
      <4> QED BY <1>2, <2>2, MeantTimes
    <3> HIDE DEF k, live, f
    <3> QED BY <1>1, <2>1, <3>8, <3>9, <3>10, MeantConcat
  <2> QED BY <2>5, <2>6, <2>7
<1>4. [c \in Conns |-> Meant(inbox[c])]' = [c \in Conns |-> Meant(inbox[c]) \o Sent(c)]
  BY <1>3
<1> QED BY <1>4 DEF P!Send, Sent, Present, Meant

(* Nothing is stored for an ID nobody has used.                            *)
LEMMA KeepBlank == \A topic, n : Keep(Blank, topic, n) = Blank
<1>1. ASSUME NEW topic, NEW n PROVE Keep(Blank, topic, n) = Blank
  <2>1. Stored(Blank, topic) = {}
    BY DEF Stored, Wanted, Blank
  <2>2. Times(Cardinality(Stored(Blank, topic)), n) = <<>>
    BY <2>1, NoTimes, FS_EmptySet
  <2>3. PICK q : q = <<>> \o <<>>
    OBVIOUS
  <2>4. q = <<>>
    BY <2>3
  <2>5. [Blank EXCEPT !.inWaiting = <<>>] = Blank
    BY DEF Blank
  <2>6. Keep(Blank, topic, n) = [Blank EXCEPT !.inWaiting = q]
    BY <2>2, <2>3 DEF Keep, Online, Blank
  <2> QED BY <2>4, <2>5, <2>6
<1> QED BY <1>1

(* A datagram is handled, and sent to all or, if that ends the server, to  *)
(* those before the one who ends it.                                       *)
DatagramKept ==
    /\ Forwarded(Len(clients))
    /\ peer' = [c \in Conns |-> AfterSends(c, Copies(c, pub[handled + 1], Len(clients)))]
    /\ clients' = [i \in DOMAIN clients |-> Keep(clients[i], pub[handled + 1], handled + 1)]
    /\ status' = status

LEMMA DatagramDelivers ==
    ASSUME IInv, UniqueIds, SessionsMatch, status = "up", handled < Len(pub), DatagramKept,
           handled' = handled + 1, UNCHANGED <<connOf, pub, asked, console>>
    PROVE  P!Deliver
<1> DEFINE topic == pub[handled + 1]
           n == handled + 1
<1>1. /\ TypeOK /\ DOMAIN clients = 1 .. Len(clients) /\ Len(clients) \in Nat
      /\ \A i \in DOMAIN clients : clients[i] \in Client
  BY DEF IInv, TypeOK, ServerTypeOK
<1>2. /\ DOMAIN clients' = DOMAIN clients
      /\ \A i \in DOMAIN clients : clients'[i] = Keep(clients[i], topic, n)
  BY DEF DatagramKept
<1>3. SameIds
  BY <1>1, <1>2, RecordFields DEF SameIds
<1>4. ASSUME NEW id PROVE Account(id)' = Keep(Account(id), topic, n)
  <2>1. CASE Account(id) = Blank /\ Account(id)' = Blank
    BY <2>1, KeepBlank
  <2>2. ASSUME NEW i \in Own(clients, id),
               Account(id) = View(clients[i], connOf),
               Account(id)' = View(clients'[i], connOf')
        PROVE  Account(id)' = Keep(Account(id), topic, n)
    <3>1. i \in DOMAIN clients
      BY DEF Own
    <3>2. View(Keep(clients[i], topic, n), connOf) = Keep(View(clients[i], connOf), topic, n)
      BY <1>1, <3>1, ViewOnline, ViewOf
    <3> QED BY <1>2, <2>2, <3>1, <3>2
  <2> QED BY <1>3, <2>1, <2>2, AccountsStand
<1>5. [id \in IDs |-> Account(id)]' =
        [id \in IDs |-> P!Keep([jd \in IDs |-> Account(jd)][id], topic, n)]
  <2>1. \A id \in IDs : P!Keep([jd \in IDs |-> Account(jd)][id], topic, n)
                          = Keep(Account(id), topic, n)
    BY SameOperators
  <2> QED BY <1>4, <2>1
<1>6. P!Send(Conns)
  <2>1. Len(clients) \in 0 .. Len(clients)
    BY <1>1
  <2>2. \A c \in Conns : HasRecord(c) =>
           (c \in Conns <=> \E i \in 1 .. Len(clients) : Reaches(clients[i], c))
    BY <1>1 DEF HasRecord, Has
  <2> QED BY <2>1, <2>2, ForwardedIsSent DEF DatagramKept
<1>7. Present' = Present
  <2>1. \A c \in Conns : Alive(c)' <=> Alive(c)
    BY DEF DatagramKept, AfterSends, Alive
  <2> QED BY <2>1 DEF Present
<1> QED BY <1>5, <1>6, <1>7 DEF P!Deliver, Present, DatagramKept

LEMMA DatagramBreaks ==
    ASSUME IInv, UniqueIds, SessionsMatch, handled < Len(pub), handled' = handled + 1,
           NEW m \in DOMAIN clients, NEW c \in Conns,
           RaisesSigpipe(c, Copies(c, pub[handled + 1], m)),
           Forwarded(m - 1), LastStep, UNCHANGED console
    PROVE  P!Breaks
<1>1. /\ TypeOK /\ ServerTypeOK
      /\ DOMAIN clients = 1 .. Len(clients) /\ Len(clients) \in Nat
  BY DEF IInv, TypeOK, ServerTypeOK
<1>2. m \in 0 .. Len(clients) /\ m - 1 \in 0 .. Len(clients)
  BY <1>1
<1>3. HasRecord(c) /\ ~ Alive(c)
  <2>1. Copies(c, pub[handled + 1], m) # 0 /\ ~ Alive(c)
    BY DEF RaisesSigpipe, Alive
  <2> QED BY <1>1, <1>2, <2>1, NoCopies
<1>4. Account(Name[c]).sock = c /\ Name[c] \in IDs
  BY <1>1, <1>3, SessionOf, PeersAssumption DEF HasRecord
<1>5. P!Parted(Name[c])
  <2>1. Online(Account(Name[c]))
    BY <1>4, ProcessAssumption DEF Online
  <2> QED BY <1>3, <1>4, <2>1, SameOperators DEF P!Parted
<1>6. \E C \in SUBSET Conns : P!Send(C)
  <2>1. PICK k \in 0 .. Len(clients) : k = m - 1
    BY <1>2
  <2>2. PICK C \in SUBSET Conns :
          C = {d \in Conns : \E i \in 1 .. k : Reaches(clients[i], d)}
    OBVIOUS
  <2>3. \A d \in Conns : d \in C <=> \E i \in 1 .. k : Reaches(clients[i], d)
    BY <2>2
  <2>4. P!Send(C)
    BY <2>1, <2>3, ForwardedIsSent
  <2> QED BY <2>4
<1> QED BY <1>4, <1>5, <1>6, LastStepShows DEF P!Breaks, Present

LEMMA DatagramHandled ==
    ASSUME IInv, UniqueIds, TInv, ReceiveUdpMessage, UNCHANGED peerVars
    PROVE  status = "up" /\ (P!Deliver \/ P!Breaks)
<1>1. /\ status = "up" /\ SessionsMatch /\ handled < Len(pub) /\ handled' = handled + 1
      /\ UNCHANGED <<connOf, pub, asked, console>>
  BY ServedOffers DEF ReceiveUdpMessage, IInv, TInv, Serving, peerVars
<1>2. CASE \E m \in DOMAIN clients :
             /\ \E c \in Conns : RaisesSigpipe(c, Copies(c, pub[handled + 1], m))
             /\ Forwarded(m - 1) /\ Ends("sigpipe") /\ UNCHANGED peer
  <2>1. PICK m \in DOMAIN clients, c \in Conns :
          /\ RaisesSigpipe(c, Copies(c, pub[handled + 1], m))
          /\ Forwarded(m - 1) /\ Ends("sigpipe") /\ UNCHANGED peer
    BY <1>2
  <2>2. LastStep
    BY <1>1, <2>1 DEF Ends, LastStep
  <2> QED BY <1>1, <2>1, <2>2, DatagramBreaks
<1>3. CASE DatagramKept
  BY <1>1, <1>3, DatagramDelivers
<1>4. \/ \E m \in DOMAIN clients :
            /\ \E c \in Conns : RaisesSigpipe(c, Copies(c, pub[handled + 1], m))
            /\ Forwarded(m - 1) /\ Ends("sigpipe") /\ UNCHANGED peer
      \/ DatagramKept
  BY DEF ReceiveUdpMessage, Forwarded, DatagramKept
<1> QED BY <1>1, <1>2, <1>3, <1>4

(***************************************************************************)
(* The steps of the server.                                                *)
(***************************************************************************)

LEMMA SelectIsQuiet ==
    ASSUME UniqueIds, Select \/ UNCHANGED vars, UNCHANGED peerVars
    PROVE  UNCHANGED P!vars
BY Quiet DEF Select, netVars, serverVars, peerVars, vars, SameSessions, Alive

LEMMA InvalidIsQuiet ==
    ASSUME UniqueIds, NEW fd, InvalidRequest(fd), UNCHANGED peerVars
    PROVE  UNCHANGED P!vars
BY Quiet DEF InvalidRequest, peerVars, SameSessions, Alive

LEMMA ServerImplements ==
    ASSUME FullIds = {}, IInv, UniqueIds, TInv, ServerStep
    PROVE  [P!Next]_(P!vars)
<1>1. UNCHANGED peerVars /\ ServerNext
  BY DEF ServerStep
<1>2. SessionsMatch
  BY DEF TInv
<1>3. CASE Select
  BY <1>1, <1>3, SelectIsQuiet
<1>4. CASE AcceptNewConnection
  BY <1>1, <1>2, <1>4, AcceptIsQuiet, FullBreaks DEF P!Next
<1>5. CASE ReceiveUdpMessage
  BY <1>1, <1>5, DatagramHandled DEF P!Next
<1>6. CASE CommandExit
  BY <1>1, <1>6, CommandObeys DEF P!Next
<1>7. CASE ReceiveFails
  BY <1>1, <1>7, ReceiveFailsBreaks DEF P!Next
<1>8. CASE DisconnectClient
  <2>1. status = "up"
    BY <1>8 DEF DisconnectClient, Serving
  <2> QED BY <1>1, <1>8, <2>1, DisconnectParts DEF P!Next
<1>9. CASE HandleMessage
  <2>1. PICK fd \in OpenFds :
          \/ RefuseClient(fd) \/ ReconnectClient(fd) \/ NewClient(fd)
          \/ HandleSubscribe(fd) \/ HandleUnsubscribe(fd) \/ InvalidRequest(fd)
    BY <1>9 DEF HandleMessage
  <2>2. CASE RefuseClient(fd)
    BY <1>1, <2>2, RefuseIsQuiet
  <2>3. CASE ReconnectClient(fd)
    BY <1>1, <2>3, ReconnectJoins DEF P!Next, Present
  <2>4. CASE NewClient(fd)
    BY <1>1, <2>4, NewClientJoins DEF P!Next, Present
  <2>5. CASE HandleSubscribe(fd)
    BY <1>1, <2>5, SubscribeIsRequest DEF P!Next, Present
  <2>6. CASE HandleUnsubscribe(fd)
    BY <1>1, <2>6, UnsubscribeIsRequest DEF P!Next, Present
  <2>7. CASE InvalidRequest(fd)
    BY <1>1, <2>7, InvalidIsQuiet
  <2> QED BY <2>1, <2>2, <2>3, <2>4, <2>5, <2>6, <2>7
<1> QED BY <1>1, <1>3, <1>4, <1>5, <1>6, <1>7, <1>8, <1>9 DEF ServerNext

(***************************************************************************)
(* The steps of the others.                                                *)
(***************************************************************************)
LEMMA MeantTail ==
    ASSUME NEW s \in Seq(Frame), s # <<>>
    PROVE  Meant(Tail(s)) = Tail(Meant(s)) /\ Meant(s) # <<>>
<1>1. /\ Tail(s) \in Seq(Frame) /\ Len(Tail(s)) = Len(s) - 1 /\ Len(s) \in Nat \ {0}
      /\ \A i \in 1 .. Len(s) - 1 : Tail(s)[i] = s[i + 1]
  OBVIOUS
<1>2. /\ Meant(s) \in Seq(Nat) /\ Len(Meant(s)) = Len(s)
      /\ \A i \in 1 .. Len(s) : Meant(s)[i] = s[i].meant
  BY MeantType
<1>3. Meant(s) # <<>>
  BY <1>1, <1>2
<1>4. PICK m : m = Meant(s)
  OBVIOUS
<1>5. /\ Tail(m) \in Seq(Nat) /\ Len(Tail(m)) = Len(s) - 1
      /\ \A i \in 1 .. Len(s) - 1 : Tail(m)[i] = m[i + 1]
  BY <1>1, <1>2, <1>3, <1>4
<1>6. PICK t \in Seq(Frame) : t = Tail(s)
  BY <1>1
<1>7. /\ Meant(t) \in Seq(Nat) /\ Len(Meant(t)) = Len(s) - 1
      /\ \A i \in 1 .. Len(s) - 1 : Meant(t)[i] = t[i].meant
  BY <1>1, <1>6, MeantType
<1>8. \A i \in 1 .. Len(s) - 1 : Meant(t)[i] = Tail(m)[i]
  BY <1>1, <1>2, <1>4, <1>5, <1>6, <1>7
<1>9. Meant(t) = Tail(m)
  BY <1>5, <1>7, <1>8, SeqEqual
<1> QED BY <1>3, <1>4, <1>6, <1>9

LEMMA PeersImplement ==
    ASSUME IInv, UniqueIds, PeersNext
    PROVE  [P!Next]_(P!vars)
<1>1. /\ peer \in [Conns -> PeerState] /\ inbox \in [Conns -> Seq(Frame)]
      /\ asked \in [IDs -> SUBSET Topics]
  BY DEF IInv, TypeOK, SocketsTypeOK, PeersTypeOK
<1>2. ASSUME UNCHANGED <<clients, connOf>>
      PROVE  /\ [id \in IDs |-> Account(id)]' = [id \in IDs |-> Account(id)]
             /\ \A id : Account(id)' = Account(id)
  <2>1. \A id : Account(id)' = Account(id)
    BY <1>2, AccountIs
  <2> QED BY <2>1
<1>3. ASSUME NEW c \in Conns, Connect(c) PROVE P!Next
  <2>1. /\ UNCHANGED <<clients, connOf, inbox, pub, handled, asked, console, status>> /\ status = "up"
        /\ c \notin Present /\ Present' = Present \cup {c}
    BY <1>1, <1>3 DEF Connect, serverVars, peerVars, Present, Alive
  <2>2. P!Start(c)
    BY <1>2, <2>1 DEF P!Start, P!serviceVars, Present
  <2> QED BY <2>1, <2>2 DEF P!Next, Present
<1>4. ASSUME NEW c \in Conns, SendId(c) PROVE UNCHANGED P!vars
  <2>1. \A d \in Conns : Alive(d)' <=> Alive(d)
    BY <1>1, <1>4 DEF SendId, Alive
  <2> QED BY <1>4, <2>1, Quiet DEF SendId, serverVars, peerVars, SameSessions
<1>5. ASSUME NEW c \in Conns, SendRequest(c) PROVE [P!Next]_(P!vars)
  <2>1. /\ UNCHANGED <<peer, clients, connOf, inbox, pub, handled, console, status>>
        /\ status = "up"
        /\ c \in Present /\ Present' = Present
    BY <1>5 DEF SendRequest, serverVars, Held, Present, Alive
  <2>2. PICK m \in Request :
          asked' = IF m.kind = "s" THEN [asked EXCEPT ![Name[c]] = @ \cup {m.name}] ELSE asked
    BY <1>5 DEF SendRequest
  <2>3. m.name \in Topics /\ Name[c] \in IDs
    BY PeersAssumption DEF Request
  <2>4. CASE m.kind = "s" /\ m.name \notin asked[Name[c]]
    <3>1. P!Ask(c, m.name)
      BY <1>2, <2>1, <2>2, <2>4 DEF P!Ask, P!serviceVars, Present
    <3> QED BY <2>1, <2>3, <3>1 DEF P!Next, Present
  <2>5. CASE ~ (m.kind = "s" /\ m.name \notin asked[Name[c]])
    <3>1. asked' = asked
      BY <1>1, <2>2, <2>3, <2>5
    <3> QED BY <1>2, <2>1, <3>1, Stutters
  <2> QED BY <2>4, <2>5
<1>6. ASSUME NEW c \in Conns, Display(c) PROVE P!Next
  <2>1. /\ UNCHANGED <<peer, clients, connOf, pub, handled, asked, console, status>>
        /\ c \in Present /\ Present' = Present
        /\ inbox[c] # <<>> /\ inbox' = [inbox EXCEPT ![c] = Tail(inbox[c])]
    BY <1>6 DEF Display, serverVars, peerVars, Present, Alive
  <2>2. PICK f, g : /\ f = [d \in Conns |-> Meant(inbox[d])]
                    /\ g = [d \in Conns |-> Meant(inbox'[d])]
    OBVIOUS
  <2>3. f[c] # <<>> /\ g = [f EXCEPT ![c] = Tail(f[c])]
    BY <1>1, <2>1, <2>2, MeantTail
  <2>4. P!Display(c)
    BY <1>2, <2>1, <2>2, <2>3 DEF P!Display, P!serviceVars, Present, Meant
  <2> QED BY <2>1, <2>4 DEF P!Next, Present
<1>7. ASSUME NEW c \in Conns, NEW state \in {"fin", "rst", "dead", "gone"},
             Alive(c), Leaves(c, state)
      PROVE  P!Next
  <2>1. /\ UNCHANGED <<clients, connOf, pub, handled, asked, console, status>>
        /\ c \in Present /\ Present' = Present \ {c}
        /\ inbox' = [inbox EXCEPT ![c] = <<>>]
    BY <1>1, <1>7 DEF Leaves, serverVars, peerVars, Present, Alive
  <2>2. PICK f, g : /\ f = [d \in Conns |-> Meant(inbox[d])]
                    /\ g = [d \in Conns |-> Meant(inbox'[d])]
    OBVIOUS
  <2>3. g = [f EXCEPT ![c] = <<>>]
    <3>1. Meant(<<>>) = <<>>
      BY DEF Meant
    <3> QED BY <1>1, <2>1, <2>2, <3>1
  <2>4. P!Stop(c)
    BY <1>2, <2>1, <2>2, <2>3 DEF P!Stop, P!serviceVars, Present, Meant
  <2> QED BY <2>1, <2>4 DEF P!Next, Present
<1>8. ASSUME NEW c \in Conns, Exit(c) \/ Kill(c) \/ Hangup(c) PROVE P!Next
  BY <1>7, <1>8 DEF Exit, Kill, Hangup, Orphan, Alive
<1>9. ASSUME Publish PROVE P!Next
  <2>1. /\ UNCHANGED <<peer, clients, connOf, inbox, handled, asked, console, status>> /\ status = "up"
        /\ Present' = Present
    BY <1>9 DEF Publish, serverVars, peerVars, Present, Alive
  <2>2. PICK topic \in Topics : pub' = Append(pub, topic)
    BY <1>9 DEF Publish
  <2>3. P!Publish(topic)
    BY <1>2, <2>1, <2>2 DEF P!Publish, P!serviceVars, Present
  <2> QED BY <2>1, <2>3 DEF P!Next
<1>10. ASSUME OperatorTypes PROVE P!Next
  <2>1. /\ UNCHANGED <<peer, clients, connOf, inbox, pub, handled, asked, status>>
        /\ status = "up" /\ Present' = Present
        /\ console = "quiet" /\ console' \in Lines
    BY <1>10 DEF OperatorTypes, serverVars, peerVars, Present, Alive
  <2>2. P!Type
    BY <1>2, <2>1 DEF P!Type, P!serviceVars, Present
  <2> QED BY <2>1, <2>2 DEF P!Next
<1> QED BY <1>3, <1>4, <1>5, <1>6, <1>8, <1>9, <1>10 DEF PeersNext

LEMMA InitImplements == Init => P!Init
<1> SUFFICES ASSUME Init PROVE P!Init
  OBVIOUS
<1>1. /\ clients = <<>> /\ pub = <<>> /\ handled = 0 /\ status = "up" /\ console = "quiet"
      /\ asked = [id \in IDs |-> {}] /\ inbox = [c \in Conns |-> <<>>]
      /\ peer = [c \in Conns |-> "new"]
  BY DEF Init, SocketsInit, ServerInit, PeersInit
<1>2. \A id : Account(id) = Blank
  BY <1>1, AccountIs DEF AccountIn, Own
<1>3. Present = {}
  BY <1>1 DEF Present, Alive
<1>4. [c \in Conns |-> Meant(inbox[c])] = [c \in Conns |-> <<>>]
  BY <1>1 DEF Meant
<1> QED BY <1>1, <1>2, <1>3, <1>4 DEF P!Init, Blank, Present, Meant, P!NoSock, NoSock

LEMMA StepImplements ==
    ASSUME Tested, IInv, UniqueIds, TInv, [Next]_vars
    PROVE  [P!Next]_(P!vars)
<1>1. CASE ServerStep
  BY <1>1, ServerImplements DEF Tested
<1>2. CASE PeersNext
  BY <1>2, PeersImplement
<1>3. CASE UNCHANGED vars
  <2>1. UNCHANGED peerVars
    BY <1>3 DEF vars
  <2> QED BY <1>3, <2>1, SelectIsQuiet
<1> QED BY <1>1, <1>2, <1>3 DEF Next

(* Handlers, descriptors, passes and one flag give each process a session  *)
(* of its own that begins and ends with it, and what its ID asked for: as  *)
(* long as the subscribers act one at a time, server.c and action.c are    *)
(* the service of PubSub.tla, until a process that has left is sent to, a  *)
(* subscription is removed from the middle, descriptors run out or the     *)
(* operator ends it.                                                       *)
THEOREM ServiceIsImplemented ==
    ASSUME Tested
    PROVE  Spec => ImplementsPubSub
<1>1. IInv /\ UniqueIds /\ TInv /\ [Next]_vars => [P!Next]_(P!vars)
  BY StepImplements
<1> QED BY <1>1, InitImplements, Inductive, IdsAreUnique, PacedInductive, PTL
        DEF Spec, ImplementsPubSub, P!Spec
=============================================================================
