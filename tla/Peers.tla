------------------------------- MODULE Peers -------------------------------
(***************************************************************************)
(* Everything the server waits for: the subscribers (src/subscriber.c and  *)
(* src/utils/lib/client.c, as far as they drive the connection), the UDP   *)
(* publishers and the operator at the server's console.                    *)
(***************************************************************************)
EXTENDS Server

CONSTANTS
    Name,       \* the ID each subscriber process is started with
    Paced,      \* TRUE: subscribers act one at a time, as test.py makes them
    Lines,      \* what the operator may type: "exit", or anything else
    MaxPubs,    \* bound: datagrams published
    MaxReqs     \* bound: requests sent, by all subscribers together

ASSUME PeersAssumption ==
    /\ Name \in [Conns -> IDs]
    /\ Paced \in BOOLEAN
    /\ Lines \subseteq {"exit", "other"}
    /\ MaxPubs \in Nat
    /\ MaxReqs \in Nat

(* Seven requests could leave slots behind a client's list that del_pos    *)
(* reads and that are no longer null (see HandleUnsubscribe, Server.tla).  *)
ASSUME RequestsAssumption == MaxReqs < 7

VARIABLES
    requests,   \* how many requests were sent
    asked       \* for each ID the topics its subscribers asked for, ever

peerVars == <<requests, asked>>

PeersTypeOK ==
    /\ Len(pub) <= MaxPubs
    /\ requests \in 0 .. MaxReqs
    /\ asked \in [IDs -> SUBSET Topics]

PeersInit ==
    /\ requests = 0
    /\ asked = [id \in IDs |-> {}]

(* The server's end of c exists.                                           *)
Held(c) == status = "up" /\ (Waiting(c) \/ Accepted(c))
Orphan(c)  == Alive(c) /\ ~ Held(c)

(* The server has nothing left to do for c.                                *)
AtRest(c) == inq[c] = <<>> /\ ~ Closed(c) /\ ~ Orphan(c)

(* test.py waits a second or more after it starts or stops a subscriber,   *)
(* and before it turns to another one, in which the server finishes what   *)
(* it has to do.  Requests of one subscriber follow each other as soon as  *)
(* that one has said "Subscribed" (test.py:381-388): the server need not   *)
(* have read the one before.                                               *)
Calm == ready = {} /\ backlog = <<>> /\ ~ receiveID /\ \A c \in Conns : AtRest(c)
Turn == Paced => Calm
AskingTurn(c) ==
    Paced => backlog = <<>> /\ ~ receiveID /\ \A d \in Conns \ {c} : AtRest(d)

Connect(c) ==
    /\ Turn
    /\ status = "up" /\ peer[c] = "new"
    /\ peer'    = [peer EXCEPT ![c] = "connected"]
    /\ backlog' = Append(backlog, c)
    /\ UNCHANGED <<inq, inbox, connOf, pub, handled, console, peerVars, serverVars>>

SendId(c) ==
    /\ peer[c] = "connected" /\ Held(c)
    /\ peer' = [peer EXCEPT ![c] = "open"]
    /\ inq'  = [inq EXCEPT ![c] = Append(@, IdMessage(Name[c]))]
    /\ UNCHANGED <<inbox, backlog, connOf, pub, handled, console, peerVars, serverVars>>

(* What a subscriber does on a line typed by its user.                     *)
SendRequest(c) ==
    /\ AskingTurn(c)
    /\ peer[c] = "open" /\ Held(c)
    /\ requests < MaxReqs
    /\ requests' = requests + 1
    /\ \E m \in Request :
         /\ inq' = [inq EXCEPT ![c] = Append(@, m)]
         /\ asked' = IF m.kind = "s" THEN [asked EXCEPT ![Name[c]] = @ \cup {m.name}]
                     ELSE asked
    /\ UNCHANGED <<peer, inbox, backlog, connOf, pub, handled, console, serverVars>>

(* A frame is displayed.                                                   *)
\* broken: what came before the server's end is not read any more.
DisplayWhileUp(c) ==
    /\ status = "up"
    /\ Alive(c) /\ inbox[c] # <<>>
    /\ inbox' = [inbox EXCEPT ![c] = Tail(@)]
    /\ UNCHANGED <<peer, inq, backlog, connOf, pub, handled, console,
                   peerVars, serverVars>>
Display(c) ==
    /\ Alive(c) /\ inbox[c] # <<>>
    /\ inbox' = [inbox EXCEPT ![c] = Tail(@)]
    /\ UNCHANGED <<peer, inq, backlog, connOf, pub, handled, console,
                   peerVars, serverVars>>

Leaves(c, state) ==
    /\ peer'  = [peer EXCEPT ![c] = state]
    /\ inbox' = [inbox EXCEPT ![c] = <<>>]
    /\ UNCHANGED <<inq, backlog, connOf, pub, handled, console, peerVars, serverVars>>

(* "exit" shuts the connection down and closes it; unread frames make the  *)
(* close a reset that follows the end of the stream.                       *)
Exit(c) ==
    /\ Turn
    /\ peer[c] = "open" /\ Held(c)
    /\ Leaves(c, IF inbox[c] = <<>> THEN "fin" ELSE "dead")

(* The process is killed, at any point after connect().                    *)
Kill(c) ==
    /\ Turn
    /\ Alive(c) /\ Held(c)
    /\ Leaves(c, IF inbox[c] = <<>> THEN "fin" ELSE "rst")

(* recv() returns 0 when the server has closed the connection: the process *)
(* ends, after it has displayed what it was sent.  However else such a     *)
(* process may end, the server would not see it.                           *)
Hangup(c) ==
    /\ Orphan(c) /\ inbox[c] = <<>>
    /\ Leaves(c, "gone")

(* A datagram arrives at the server's UDP socket.                          *)
Publish ==
    /\ status = "up" /\ Len(pub) < MaxPubs
    /\ \E topic \in Topics : pub' = Append(pub, topic)
    /\ UNCHANGED <<peer, inq, inbox, backlog, connOf, handled, console,
                   peerVars, serverVars>>

(* The operator types a line, or closes the server's standard input.       *)
OperatorTypes ==
    /\ status = "up" /\ console = "quiet"
    /\ console' \in Lines
    /\ UNCHANGED <<peer, inq, inbox, backlog, connOf, pub, handled,
                   peerVars, serverVars>>

PeersNext ==
    \/ \E c \in Conns :
         \/ Connect(c) \/ SendId(c) \/ SendRequest(c)
         \/ Display(c) \/ Exit(c) \/ Kill(c) \/ Hangup(c)
    \/ Publish
    \/ OperatorTypes
=============================================================================
