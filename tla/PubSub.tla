------------------------------- MODULE PubSub -------------------------------
(***************************************************************************)
(* What the system is to its users: an account for each ID, with its       *)
(* subscriptions and what is stored for it, and a mailbox for each         *)
(* subscriber process.  There are no descriptors, no passes of a loop and  *)
(* no IDs awaited: a session belongs to the process that began it, and of  *)
(* sessions there are as many at a time as there is room for.              *)
(*                                                                         *)
(* A mailbox lists the datagrams meant to be sent; an account's operations *)
(* are those of Records.tla, with the process in place of its socket.      *)
(***************************************************************************)
EXTENDS Records

CONSTANTS
    Conns, IDs, Topics,
    Name,       \* the ID of each process
    Lines,      \* what the operator may type
    Room,       \* how many sessions the service has room for
    None        \* no topic

VARIABLES
    present,    \* the processes that run and are connected
    account,
    mailbox,    \* what was sent to each process and is not displayed yet
    published,  \* topics of the datagrams
    handled,    \* how many of them have been handled
    asked,      \* for each ID the topics its processes asked for, ever
    line,       \* what the operator has typed
    up          \* the service has not ended

vars == <<present, account, mailbox, published, handled, asked, line, up>>
userVars == <<present, mailbox, published, asked, line>>
serviceVars == <<account, handled, up>>

Init ==
    /\ present   = {}
    /\ account   = [id \in IDs |-> [sock |-> NoSock, interests |-> <<>>, inWaiting |-> <<>>]]
    /\ mailbox   = [c \in Conns |-> <<>>]
    /\ published = <<>>
    /\ handled   = 0
    /\ asked     = [id \in IDs |-> {}]
    /\ line      = "quiet"
    /\ up        = TRUE

(***************************************************************************)
(* The users.                                                              *)
(***************************************************************************)
Start(c) ==
    /\ present' = present \cup {c}
    /\ UNCHANGED <<mailbox, published, asked, line, serviceVars>>

Display(c) ==
    /\ mailbox[c] # <<>>
    /\ mailbox' = [mailbox EXCEPT ![c] = Tail(@)]
    /\ UNCHANGED <<present, published, asked, line, serviceVars>>

Stop(c) ==
    /\ present' = present \ {c}
    /\ mailbox' = [mailbox EXCEPT ![c] = <<>>]
    /\ UNCHANGED <<published, asked, line, serviceVars>>

Ask(c, topic) ==
    /\ topic \notin asked[Name[c]]
    /\ asked' = [asked EXCEPT ![Name[c]] = @ \cup {topic}]
    /\ UNCHANGED <<present, mailbox, published, line, serviceVars>>

Publish(topic) ==
    /\ published' = Append(published, topic)
    /\ UNCHANGED <<present, mailbox, asked, line, serviceVars>>

Type ==
    /\ line = "quiet" /\ line' \in Lines
    /\ UNCHANGED <<present, mailbox, published, asked, serviceVars>>

(***************************************************************************)
(* The service.                                                            *)
(***************************************************************************)
InSession(c) == account[Name[c]].sock = c
Parted(id)   == Online(account[id]) /\ account[id].sock \notin present

(* A session begins for a process that is there and whose ID has none.     *)
Join(c) ==
    /\ ~ Online(account[Name[c]])
    /\ account' = [account EXCEPT ![Name[c]] = Back(@, c)]
    /\ mailbox' = [mailbox EXCEPT ![c] = @ \o account[Name[c]].inWaiting]
    /\ UNCHANGED <<present, published, handled, asked, line, up>>

(* It ends when the process has ended, and only then.                      *)
Part(id) ==
    /\ Parted(id)
    /\ account' = [account EXCEPT ![id] = Offline(@)]
    /\ UNCHANGED <<userVars, handled, up>>

(* A process in its session subscribes to what its ID asked for; what else *)
(* it sends costs it the last subscription, or none.                       *)
Subscribe(c) ==
    \E m \in [name : asked[Name[c]], sf : BOOLEAN] :
       account' = [account EXCEPT ![Name[c]] = Subscribed(@, m)]

Unsubscribe(c) ==
    \E topic \in Topics \cup {None} :
       /\ ~ Faults(account[Name[c]], topic)
       /\ account' = [account EXCEPT ![Name[c]] = DropLast(@, topic)]

Request(c) ==
    /\ InSession(c)
    /\ UNCHANGED <<userVars, handled, up>>
    /\ Subscribe(c) \/ Unsubscribe(c)

(* The next datagram, to those of C that it finds in their sessions.       *)
Copies(c) == Cardinality(Wanted(account[Name[c]], published[handled + 1]))
Send(C) ==
    mailbox' = [c \in Conns |->
      mailbox[c] \o IF c \in C \cap present /\ InSession(c)
                    THEN Times(Copies(c), handled + 1) ELSE <<>>]
Deliver ==
    /\ handled < Len(published)
    /\ handled' = handled + 1
    /\ account' = [id \in IDs |-> Keep(account[id], published[handled + 1], handled + 1)]
    /\ Send(Conns)
    /\ UNCHANGED <<present, published, asked, line, up>>

(* The service ends while it sends a datagram, or reads, when a process    *)
(* has ended in its session; when somebody in a session, who has two       *)
(* subscriptions or more, ends one; or when one more process comes and all *)
(* the room is taken by those in sessions.                                 *)
Breaks ==
    /\ up' = FALSE
    /\ \/ /\ \E id \in IDs : Parted(id)
          /\ handled < Len(published) /\ handled' = handled + 1
          /\ \E C \in SUBSET Conns : Send(C)
       \/ /\ \/ \E id \in IDs : Parted(id)
             \/ \E c \in present, topic \in Topics :
                  InSession(c) /\ Faults(account[Name[c]], topic)
             \/ /\ \E c \in present : ~ InSession(c)
                /\ Cardinality({c \in present : InSession(c)}) = Room
          /\ UNCHANGED <<handled, mailbox>>
    /\ UNCHANGED <<present, account, published, asked, line>>

(* It ends by any line that the operator has typed.                        *)
Obey ==
    /\ line # "quiet" /\ line' = "quiet"
    /\ up' = FALSE
    /\ UNCHANGED <<present, mailbox, published, asked, account, handled>>

Next ==
    \/ \E c \in present : Display(c) \/ Stop(c)
    \/ /\ up
       /\ \/ \E topic \in Topics : Publish(topic)
          \/ \E c \in Conns \ present : Start(c)
          \/ \E c \in present, topic \in Topics : Ask(c, topic)
          \/ \E c \in present : Join(c) \/ Request(c)
          \/ \E id \in IDs : Part(id)
          \/ Deliver \/ Breaks
          \/ Type \/ Obey

Spec == Init /\ [][Next]_vars
=============================================================================
