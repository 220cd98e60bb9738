------------------------------ MODULE Protocol ------------------------------
(***************************************************************************)
(* What travels between subscribers, publishers and the server, cut down   *)
(* to what the server's decisions depend on (src/utils/include/message.h,  *)
(* src/utils/lib/client.c).  A request on the wire carries no length and   *)
(* no type: the server tells an ID from a request only by the moment it    *)
(* arrives, so an ID can be read as a request and a request as an ID.      *)
(***************************************************************************)
EXTENDS Integers, Sequences, FiniteSets

CONSTANTS
    IDs,          \* names given to subscribers on their command line
    Topics,       \* topics that are subscribed to and published on
    FullIds,      \* the IDs of exactly ID_LEN characters
    LongTopics    \* the topics whose request is longer than ID_LEN characters; no
                  \* request is exactly that long

ASSUME ProtocolAssumption ==
    /\ FullIds \subseteq IDs
    /\ LongTopics \subseteq Topics

(* The first message of a subscriber is its ID, the others are requests.   *)
(* No ID is taken to begin with 's' or 'u'.                                *)
IdMessage(id) == [kind |-> "id", name |-> id, sf |-> FALSE]

(* "s" subscribes to a topic, with or without store-and-forward; "u" is    *)
(* sent to unsubscribe from one.                                           *)
Request == [kind : {"s"}, name : Topics, sf : BOOLEAN]
             \cup [kind : {"u"}, name : Topics, sf : {FALSE}]
Message == [kind : {"id"}, name : IDs, sf : {FALSE}] \cup Request

(* The characters up to the first NUL, which is what strcmp looks at.      *)
Text(m) == [kind |-> m.kind, name |-> m.name]

(* handle_id_client copies ID_LEN bytes into a client's ID and adds no NUL.*)
(* A longer text is cut, and strcmp runs on into the bytes behind it: such *)
(* an ID equals no text that is ever received.  A text of exactly ID_LEN   *)
(* characters equals its own ID only if the byte behind it, which is never *)
(* written, happens to be NUL.                                             *)
CutId    == [kind |-> "cut", name |-> "cut"]
StoredId == {Text(m) : m \in Message} \cup {CutId}

StoredAs(m) ==
    IF m.kind = "id"
    THEN IF m.name \in FullIds THEN {Text(m), CutId} ELSE {Text(m)}
    ELSE IF m.name \in LongTopics THEN {CutId} ELSE {Text(m)}

(* Datagrams are numbered in the order the server's UDP socket gets them.  *)
(* A frame sent to a subscriber holds the text of datagram n; "meant" is   *)
(* the datagram the server set out to send with it.                        *)
Frame == [n : Nat, meant : Nat]
=============================================================================
