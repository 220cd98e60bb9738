------------------------------- MODULE Records -------------------------------
(***************************************************************************)
(* What the handlers of src/utils/lib/action.c do to the record of one     *)
(* client: a record with the fields sock, interests (a sequence of topics  *)
(* with their store-and-forward flags) and inWaiting (the datagrams stored *)
(* for it).  Server.tla applies these operators to the records it keeps;   *)
(* ClientMemory.tla shows that the arrays and the queue of the code        *)
(* implement them.                                                         *)
(*                                                                         *)
(* An operator marked "broken:" is what its successor would be with a      *)
(* plausible bug in it; nothing refers to it but the test that a property  *)
(* notices the bug.                                                        *)
(***************************************************************************)
EXTENDS Integers, Sequences, FiniteSets

NoSock == -1
Online(r) == r.sock # NoSock

(* The positions of a topic among the subscriptions, and those of them for *)
(* which a frame is stored.                                                *)
\* broken: the topic is not compared.
AnyTopic(r, topic) == DOMAIN r.interests
Wanted(r, topic) == {j \in DOMAIN r.interests : r.interests[j].topic = topic}
Stored(r, topic) == {j \in Wanted(r, topic) : r.interests[j].sf}

Times(k, x) == [i \in 1 .. k |-> x]

(* receive_udp_message: datagram n is stored for a client who is away,     *)
(* once for each of its subscriptions that ask for it.                     *)
\* broken: queue_enq adds at the head.
KeepInFront(r, topic, n) ==
    IF Online(r) THEN r
    ELSE [r EXCEPT !.inWaiting = Times(Cardinality(Stored(r, topic)), n) \o @]
Keep(r, topic, n) ==
    IF Online(r) THEN r
    ELSE [r EXCEPT !.inWaiting = @ \o Times(Cardinality(Stored(r, topic)), n)]

(* disconnect_client.                                                      *)
\* broken: sock becomes 0; sock is not reset; the subscriptions are erased.
OfflineAsZero(r)    == [r EXCEPT !.sock = 0]
OfflineForgotten(r) == r
OfflineErased(r)    == [r EXCEPT !.sock = NoSock, !.interests = <<>>]
Offline(r)          == [r EXCEPT !.sock = NoSock]

(* handle_id_client: a client who is away comes back on fd.                *)
\* broken: the queue is not emptied; the new socket is not recorded.
BackUndrained(r, fd) == [r EXCEPT !.sock = fd]
BackNowhere(r, fd)   == [r EXCEPT !.inWaiting = <<>>]
Back(r, fd)          == [r EXCEPT !.sock = fd, !.inWaiting = <<>>]

(* subscribe: a subscription is put before the others.                     *)
Subscribed(r, m) ==
    [r EXCEPT !.interests = <<[topic |-> m.name, sf |-> m.sf]>> \o @]

(* unsubscribe: del_pos deletes the last subscription correctly.  To       *)
(* delete another one it copies through the slots behind the last element, *)
(* which hold nothing that may be read.                                    *)
DropLast(r, topic) ==
    IF Wanted(r, topic) = {} THEN r
    ELSE [r EXCEPT !.interests = SubSeq(@, 1, Len(@) - 1)]
Faults(r, topic) == \E j \in Wanted(r, topic) : j < Len(r.interests)
=============================================================================
