---------------------------- MODULE ClientMemory ----------------------------
(***************************************************************************)
(* One client's record as it lies in the server's memory: two arrays for   *)
(* its subscriptions, a queue for what is stored, and the loops of the     *)
(* handlers of src/utils/lib/action.c over them, one pass of a loop at a   *)
(* time.  Session.tla is what they amount to.                              *)
(*                                                                         *)
(* A cell's element stands for the datagram it was added for; that the     *)
(* code gives all cells the address of one variable is in Server.tla.      *)
(***************************************************************************)
EXTENDS Records, Buffer, WaitQueue

CONSTANTS
    Topics, Socks,
    None,               \* no topic, or text that is no topic
    TopicsCap, SfsCap,  \* capacities the two arrays start with
    MaxSubs,            \* bound: subscriptions at one time
    MaxWaiting,         \* bound: cells in the queue
    MaxPubs             \* bound: datagrams

(* Half of a capacity below two is nothing, and the block would not grow.  *)
ASSUME ClientMemoryAssumption ==
    /\ TopicsCap \in Nat /\ TopicsCap >= 2
    /\ SfsCap \in Nat /\ SfsCap >= 2
    /\ MaxSubs \in Nat
    /\ MaxWaiting \in Nat
    /\ MaxPubs \in Nat
    /\ NoSock \notin Socks
    /\ None \notin Topics
    /\ {Null, Junk} \cap (Topics \cup BOOLEAN) = {}

VARIABLES
    sock, topics, sfs,
    out,        \* datagrams sent on the connection the client has now
    handled,    \* how many datagrams have been handled
    at,         \* the handler that runs, or "idle"
    j,          \* its loop counter
    arg,        \* the topic it compares with
    before,     \* history: the record and out when it began
    status      \* "up", or what an access to memory has led to

memVars == <<sock, topics, sfs, out, handled, at, j, arg, before, status>>
vars == <<memVars, queueVars>>

(* The record that the memory stands for.                                  *)
Pairs(t, s) == [i \in 1 .. t.len |-> [topic |-> t.data[i - 1], sf |-> s.data[i - 1]]]
Subscriptions == Pairs(topics, sfs)
Stands == [sock |-> sock, interests |-> Subscriptions, inWaiting |-> Contents]

Nothing ==
    [rec |-> [sock |-> NoSock, interests |-> <<>>, inWaiting |-> <<>>], out |-> <<>>]

(* A new client: handle_id_client initialises all of it.                   *)
Init ==
    /\ sock \in Socks
    /\ topics  = init(TopicsCap)
    /\ sfs     = init(SfsCap)
    /\ queue_create
    /\ out     = <<>>
    /\ handled = 0
    /\ at      = "idle"
    /\ j       = 0
    /\ arg     = None
    /\ before  = Nothing
    /\ status  = "up"

(* A handler begins its loop, works at the j-th element, and returns.      *)
Begins(handler, topic) ==
    /\ at = "idle"
    /\ at'  = handler /\ arg' = topic /\ j' = 0
    /\ before' = [rec |-> Stands, out |-> out]
Works(handler) == at = handler /\ UNCHANGED <<at, arg, before>>
Returns == at' = "idle" /\ arg' = None /\ before' = Nothing /\ j' = 0
Topic == get_pos(topics, j)

\* broken: the flag goes to the end.
AddsApart(topic, sf) ==
    /\ topics' = add_pos(topics, topic, 0)
    /\ sfs'    = add_pos(sfs, sf, sfs.len)
Adds(topic, sf) ==
    /\ topics' = add_pos(topics, topic, 0)
    /\ sfs'    = add_pos(sfs, sf, 0)
Subscribe ==
    /\ at = "idle" /\ sock # NoSock
    /\ topics.len < MaxSubs
    /\ \E topic \in Topics, sf \in BOOLEAN : Adds(topic, sf)
    /\ UNCHANGED <<sock, out, handled, at, j, arg, before, status, queueVars>>

(* The text that unsubscribe compares with was never assigned.             *)
BeginUnsubscribe ==
    /\ sock # NoSock
    /\ \E topic \in Topics \cup {None} : Begins("unsubscribe", topic)
    /\ UNCHANGED <<sock, topics, sfs, out, handled, status, queueVars>>

(* A deletion that does not end well ends all claims.                      *)
Deletes ==
    \/ /\ AfterDel(topics, j) = "up" /\ AfterDel(sfs, j) = "up"
       /\ topics' = del_pos(topics, j)
       /\ sfs'    = del_pos(sfs, j)
       /\ UNCHANGED status
    \/ /\ status' \in {AfterDel(topics, j), AfterDel(sfs, j)} \ {"up"}
       /\ UNCHANGED <<topics, sfs>>

UnsubscribeAt ==
    /\ Works("unsubscribe") /\ j < topics.len
    /\ IF Topic = arg THEN Deletes ELSE UNCHANGED <<topics, sfs, status>>
    /\ j' = j + 1
    /\ UNCHANGED <<sock, out, handled, queueVars>>

UnsubscribeReturns ==
    /\ at = "unsubscribe" /\ j >= topics.len
    /\ Returns
    /\ UNCHANGED <<sock, topics, sfs, out, handled, status, queueVars>>

BeginDatagram ==
    /\ handled < MaxPubs /\ Len(chain) + topics.len <= MaxWaiting
    /\ \E topic \in Topics : Begins("datagram", topic)
    /\ UNCHANGED <<sock, topics, sfs, out, handled, status, queueVars>>

(* receive_udp_message at one subscription: send, store, or neither.       *)
\* broken: the counter goes on only past a subscription to another topic.
PastOthers(k, t) == IF t = arg THEN k ELSE k + 1
Past(k, t) == k + 1
DatagramAt ==
    /\ Works("datagram") /\ j < topics.len
    /\ LET n == handled + 1
       IN  \/ /\ Topic = arg /\ sock # NoSock
              /\ out' = Append(out, n)
              /\ UNCHANGED queueVars
           \/ /\ Topic = arg /\ sock = NoSock /\ get_pos(sfs, j)
              /\ queue_enq(n)
              /\ UNCHANGED out
           \/ /\ Topic # arg \/ (sock = NoSock /\ ~ get_pos(sfs, j))
              /\ UNCHANGED <<out, queueVars>>
    /\ j' = Past(j, Topic)
    /\ UNCHANGED <<sock, topics, sfs, handled, status>>

DatagramReturns ==
    /\ at = "datagram" /\ j >= topics.len
    /\ handled' = handled + 1
    /\ Returns
    /\ UNCHANGED <<sock, topics, sfs, out, status, queueVars>>

BeginReturn ==
    /\ sock = NoSock
    /\ sock' \in Socks
    /\ Begins("return", None)
    /\ UNCHANGED <<topics, sfs, out, handled, status, queueVars>>

Drains ==
    /\ Works("return") /\ ~ queue_empty
    /\ out' = Append(out, Front)
    /\ queue_deq
    /\ UNCHANGED <<sock, topics, sfs, handled, j, status>>

ReturnReturns ==
    /\ at = "return" /\ queue_empty
    /\ Returns
    /\ UNCHANGED <<sock, topics, sfs, out, handled, status, queueVars>>

Disconnect ==
    /\ at = "idle" /\ sock # NoSock
    /\ sock' = NoSock
    /\ out'  = <<>>
    /\ UNCHANGED <<topics, sfs, handled, at, j, arg, before, status, queueVars>>

Loop ==
    \/ UnsubscribeAt \/ UnsubscribeReturns
    \/ DatagramAt \/ DatagramReturns
    \/ Drains \/ ReturnReturns
Next ==
    /\ status = "up"
    /\ \/ Loop
       \/ Subscribe \/ Disconnect
       \/ BeginUnsubscribe \/ BeginDatagram \/ BeginReturn

Spec == Init /\ [][Next]_vars

(* A handler that has begun goes on: nothing it does waits for anybody.    *)
FairSpec == Spec /\ WF_vars(status = "up" /\ Loop)

(***************************************************************************)
(* Properties.                                                             *)
(***************************************************************************)

(* Each field and counter has its type.                                    *)
Handlers == {"idle", "unsubscribe", "datagram", "return"}
MemoryTypeOK ==
    /\ sock \in Socks \cup {NoSock}
    /\ out \in Seq(Nat)
    /\ handled \in 0 .. MaxPubs
    /\ at \in Handlers
    /\ j \in Nat
    /\ arg \in Topics \cup {None}
    /\ status \in {"up", "fault", "undefined"}
    /\ QueueTypeOK

(* add_pos, del_pos: a block has as many slots as the array thinks it has, *)
(* and room for its elements; every element is there, and those of the two *)
(* arrays that the handlers read at one index belong together.             *)
SlotsHold ==
    /\ Holds(topics, Topics) /\ Holds(sfs, BOOLEAN)
    /\ topics.len = sfs.len

(* The handlers implement the operators of Records.tla on the record that  *)
(* the memory stands for; while one runs, it is the record it began with.  *)
Running == at # "idle"
RecordThen == IF Running THEN before.rec ELSE Stands
OutThen    == IF Running THEN before.out ELSE out
S == INSTANCE Session WITH rec <- RecordThen, out <- OutThen, up <- status = "up"
ImplementsSession == S!Spec

(* A handler returns, unless the process is lost.                          *)
HandlersReturn == Running ~> ~ Running \/ status # "up"
=============================================================================
