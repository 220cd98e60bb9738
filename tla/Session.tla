------------------------------- MODULE Session -------------------------------
(***************************************************************************)
(* One client's record as Server.tla has it: each handler changes it in    *)
(* one step, by the operators of Records.tla.  The record is made for a    *)
(* connected client; then the client leaves and returns, and datagrams are *)
(* sent to it or stored for it.                                            *)
(***************************************************************************)
EXTENDS Records

CONSTANTS
    Topics,     \* topics that are subscribed to and published on
    Socks       \* descriptors the client's connections may have

VARIABLES
    rec,        \* the record
    out,        \* datagrams sent on the connection the client has now
    handled,    \* how many datagrams have been handled
    up          \* FALSE once memory has been accessed that may not be

vars == <<rec, out, handled, up>>

Init ==
    /\ rec \in [sock : Socks, interests : {<<>>}, inWaiting : {<<>>}]
    /\ out     = <<>>
    /\ handled = 0
    /\ up      = TRUE

Subscribe ==
    /\ Online(rec)
    /\ \E m \in [name : Topics, sf : BOOLEAN] : rec' = Subscribed(rec, m)
    /\ UNCHANGED <<out, handled, up>>

Unsubscribe(topic) ==
    /\ Online(rec)
    /\ \/ Faults(rec, topic) /\ up' = FALSE /\ UNCHANGED rec
       \/ ~ Faults(rec, topic) /\ rec' = DropLast(rec, topic) /\ UNCHANGED up
    /\ UNCHANGED <<out, handled>>

Datagram(topic) ==
    LET n == handled + 1
    IN  /\ handled' = n
        /\ rec' = Keep(rec, topic, n)
        /\ out' = IF Online(rec) THEN out \o Times(Cardinality(Wanted(rec, topic)), n)
                  ELSE out
        /\ UNCHANGED up

Return(fd) ==
    /\ ~ Online(rec)
    /\ rec' = Back(rec, fd)
    /\ out' = rec.inWaiting
    /\ UNCHANGED <<handled, up>>

Leave ==
    /\ Online(rec)
    /\ rec' = Offline(rec)
    /\ out' = <<>>
    /\ UNCHANGED <<handled, up>>

Next ==
    /\ up
    /\ \/ Subscribe
       \/ \E topic \in Topics : Unsubscribe(topic) \/ Datagram(topic)
       \/ \E fd \in Socks : Return(fd)
       \/ Leave

Spec == Init /\ [][Next]_vars
=============================================================================
