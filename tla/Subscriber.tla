----------------------------- MODULE Subscriber -----------------------------
(***************************************************************************)
(* One subscriber process (src/subscriber.c, src/utils/lib/client.c) from  *)
(* its first select() on: its console, its connection with a limited room  *)
(* for bytes either way, and the part of the server that serves it.        *)
(*                                                                         *)
(* A frame is L units, the smallest parts in which TCP may hand it over;   *)
(* the last one is the separator '\r', and the first holds a '\r' too when *)
(* the datagram's text, a number or the sender's port has that byte in it. *)
(***************************************************************************)
EXTENDS Integers, Sequences

CONSTANTS
    L,              \* units in a frame
    FramesRoom,     \* units on the way to the subscriber, at most
    RequestsRoom,   \* requests on the way to the server, at most
    Batch,          \* requests the server takes in one recvfrom
    MaxCopies,      \* subscriptions a datagram matches, at most
    Modes,          \* how frames may arrive, with what standard input may be
    MaxPubs,        \* bound: datagrams
    MaxLines        \* bound: lines typed

ASSUME SubscriberAssumption ==
    /\ L \in Nat /\ L >= 2
    /\ FramesRoom \in Nat /\ FramesRoom >= L
    /\ RequestsRoom \in Nat \ {0} /\ Batch \in Nat \ {0}
    /\ MaxCopies \in Nat
    /\ Modes \subseteq {"whole", "parts"} \X {"tty", "pipe"}
    /\ MaxPubs \in Nat /\ MaxLines \in Nat

VARIABLES
    segments, stdin,    \* how frames arrive, what standard input is
    (* the console *)
    typed,      \* how many lines were typed
    fetched,    \* how many of them stdio has read
    parsed,     \* how many of them fgets has taken out of it
    obeyed,     \* history: what each line obeyed was
    unfinished, \* where the beginning of a next line is: "no", "kernel", "stdio"
    eof,        \* the pipe is closed
    (* the connection *)
    wire, reqs, got,    \* units, requests on their way, requests the server has read
    (* the server *)
    srv,        \* "select", "send", "read" or "closed"
    begun,      \* how many frames have been begun
    rest,       \* what is not yet sent of the last of them
    copies,     \* how many more the datagram asks for
    inner,      \* its frames have a '\r' inside
    asks,       \* a request was there when the pass began
    pubs,       \* datagrams handled
    (* the subscriber *)
    pc,         \* "select", "fgets", "send", "recv" or "ended"
    ready,      \* what select() found ready besides the console
    recvBuffer, \* what it received last
    shown,      \* how many messages it has displayed
    display     \* the frame that the last of them is, or 0 if it is none

vars == <<segments, stdin, typed, fetched, parsed, obeyed, unfinished, eof, wire, reqs, got,
          srv, begun, rest, copies, inner, asks, pubs, pc, ready, recvBuffer, shown, display>>
consoleVars == <<typed, fetched, parsed, obeyed, unfinished, eof>>
serverVars  == <<srv, begun, rest, copies, inner, asks, pubs>>
screenVars  == <<shown, display>>

Unit(i, k, cr) == [frame |-> i, pos |-> k, cr |-> cr]
NoUnit == Unit(0, 0, FALSE)
FrameUnits(i, hasCR) == [k \in 1 .. L |-> Unit(i, k, k = L \/ (hasCR /\ k = 1))]
Empty == [k \in 1 .. L |-> NoUnit]

(* "subscribe" and "unsubscribe" with their arguments; "exit", and lines in *)
(* which a word is missing, which is a null pointer; any other line.       *)
Kinds == {"request", "ending", "other"}

Init ==
    /\ \E mode \in Modes : segments = mode[1] /\ stdin = mode[2]
    /\ typed = 0 /\ fetched = 0 /\ parsed = 0 /\ obeyed = <<>>
    /\ unfinished = "no" /\ eof = FALSE
    /\ wire = <<>> /\ reqs = <<>> /\ got = <<>>
    /\ srv = "select" /\ begun = 0 /\ rest = <<>> /\ copies = 0
    /\ inner = FALSE /\ asks = FALSE /\ pubs = 0
    /\ pc = "select" /\ ready = FALSE
    /\ recvBuffer = Empty /\ shown = 0 /\ display = 0

(***************************************************************************)
(* The user, or the program at the other end of the pipe.  A terminal      *)
(* hands over whole lines only.                                            *)
(***************************************************************************)
Types ==
    /\ ~ eof /\ typed < MaxLines
    /\ typed' = typed + 1
    /\ unfinished' = "no"
    /\ UNCHANGED <<segments, stdin, fetched, parsed, obeyed, eof, wire, reqs, got, serverVars,
                   pc, ready, recvBuffer, screenVars>>
TypesPart ==
    /\ stdin = "pipe" /\ ~ eof /\ unfinished = "no"
    /\ unfinished' = "kernel"
    /\ UNCHANGED <<segments, stdin, typed, fetched, parsed, obeyed, eof, wire, reqs, got,
                   serverVars, pc, ready, recvBuffer, screenVars>>
ClosesPipe ==
    /\ stdin = "pipe" /\ ~ eof /\ unfinished = "no"
    /\ eof' = TRUE
    /\ UNCHANGED <<segments, stdin, typed, fetched, parsed, obeyed, unfinished, wire, reqs, got,
                   serverVars, pc, ready, recvBuffer, screenVars>>

(***************************************************************************)
(* The server: a pass of its loop serves a datagram, if one is there, and  *)
(* then this subscriber, if it had sent something when the pass began.     *)
(***************************************************************************)
Pass ==
    /\ srv = "select" /\ pc # "ended"
    /\ \/ /\ pubs < MaxPubs
          /\ asks' = (reqs # <<>>)
          /\ pubs' = pubs + 1
          /\ srv' = "send"
          /\ copies' \in 1 .. MaxCopies /\ inner' \in BOOLEAN
       \/ /\ reqs # <<>>
          /\ srv' = "read"
          /\ UNCHANGED <<pubs, copies, inner, asks>>
    /\ UNCHANGED <<segments, stdin, consoleVars, wire, reqs, got, begun, rest,
                   pc, ready, recvBuffer, screenVars>>

(* send() puts the frame where there is room, and waits where there is not.*)
SendFrame ==
    /\ srv = "send" /\ rest = <<>> /\ copies > 0
    /\ begun'  = begun + 1
    /\ rest'   = FrameUnits(begun + 1, inner)
    /\ copies' = copies - 1
    /\ UNCHANGED <<segments, stdin, consoleVars, wire, reqs, got, srv, inner, asks, pubs,
                   pc, ready, recvBuffer, screenVars>>
Piece == IF segments = "whole" THEN L ELSE 1
PutPiece ==
    /\ srv = "send" /\ rest # <<>>
    /\ rest' = SubSeq(rest, Piece + 1, Len(rest))
    /\ \/ pc # "ended" /\ Len(wire) + Piece <= FramesRoom
          /\ wire' = wire \o SubSeq(rest, 1, Piece)
       \/ pc = "ended" /\ UNCHANGED wire
    /\ UNCHANGED <<segments, stdin, consoleVars, reqs, got, srv, begun, copies, inner, asks,
                   pubs, pc, ready, recvBuffer, screenVars>>
SendsDone ==
    /\ srv = "send" /\ rest = <<>> /\ copies = 0
    /\ srv' = IF asks THEN "read" ELSE "select"
    /\ inner' = FALSE /\ asks' = FALSE
    /\ UNCHANGED <<segments, stdin, consoleVars, wire, reqs, got, begun, rest, copies,
                   pubs, pc, ready, recvBuffer, screenVars>>
ReadsRequests ==
    /\ srv = "read"
    /\ LET k == IF Len(reqs) < Batch THEN Len(reqs) ELSE Batch
       IN  /\ got'  = got \o SubSeq(reqs, 1, k)
           /\ reqs' = SubSeq(reqs, k + 1, Len(reqs))
    /\ srv' = "select"
    /\ UNCHANGED <<segments, stdin, consoleVars, wire, begun, rest, copies, inner, asks, pubs,
                   pc, ready, recvBuffer, screenVars>>
ServerExits ==
    /\ srv = "select"
    /\ srv' = "closed"
    /\ UNCHANGED <<segments, stdin, consoleVars, wire, reqs, got, begun, rest, copies, inner,
                   asks, pubs, pc, ready, recvBuffer, screenVars>>

(***************************************************************************)
(* The subscriber.                                                         *)
(***************************************************************************)
ConsoleReady == fetched < typed \/ unfinished = "kernel" \/ eof
SocketReady  == wire # <<>> \/ srv = "closed"

(* After processInput the socket is looked at, if select() found it ready. *)
\* broken: it is looked at only when the console was not ready.
AfterConsoleAgain == "select"
AfterConsole == IF ready THEN "recv" ELSE "select"

SelectReturns ==
    /\ pc = "select" /\ (ConsoleReady \/ SocketReady)
    /\ ready' = SocketReady
    /\ pc' = IF ConsoleReady THEN "fgets" ELSE "recv"
    /\ UNCHANGED <<segments, stdin, consoleVars, wire, reqs, got, serverVars, recvBuffer,
                   screenVars>>

(* fgets returns the next line that stdio has, and only when it has none   *)
(* reads: from a terminal one line, from a pipe all there is.  It waits    *)
(* when that is not a whole line.                                          *)
\* broken: it reads every time.
FetchedAnyway == IF stdin = "tty" \/ parsed < fetched THEN fetched + 1 ELSE typed
Fetched ==
    IF parsed < fetched THEN fetched
    ELSE IF stdin = "tty" THEN fetched + 1 ELSE typed
\* broken: read(), of which strtok looks at the first line.
ParsedRead == Fetched
Parsed == parsed + 1

ProcessInput ==
    /\ pc = "fgets" /\ parsed < typed
    /\ fetched' = Fetched
    /\ parsed'  = Parsed
    /\ unfinished' = IF unfinished = "kernel" /\ fetched' > fetched THEN "stdio"
                     ELSE unfinished
    /\ \E line \in Kinds :
         /\ obeyed' = Append(obeyed, line)
         /\ pc' = CASE line = "request" -> "send"
                    [] line = "other"   -> AfterConsole
                    [] line = "ending"  -> "ended"
    /\ UNCHANGED <<segments, stdin, typed, eof, wire, reqs, got, serverVars,
                   ready, recvBuffer, screenVars>>

(* At the end of the file fgets leaves cmd as malloc returned it: there is *)
(* no word in it, which is a null pointer for strncmp, or some other text. *)
InputEnds ==
    /\ pc = "fgets" /\ parsed = typed /\ eof
    /\ pc' \in {"ended", AfterConsole}
    /\ UNCHANGED <<segments, stdin, consoleVars, wire, reqs, got, serverVars,
                   ready, recvBuffer, screenVars>>

(* send() of a request; a server that has closed answers it by a reset,    *)
(* and the next one ends the process by SIGPIPE.                           *)
SendsRequest ==
    /\ pc = "send"
    /\ \/ /\ srv # "closed" /\ Len(reqs) < RequestsRoom
          /\ reqs' = Append(reqs, parsed)
          /\ pc' = AfterConsole
       \/ /\ srv = "closed"
          /\ pc' \in {"ended", AfterConsole}
          /\ UNCHANGED reqs
    /\ UNCHANGED <<segments, stdin, consoleVars, wire, got, serverVars,
                   ready, recvBuffer, screenVars>>

(* recv() returns what is there, as far as there is room for it, always at *)
(* the start of recvBuffer.                                                *)
\* broken: room for a frame without its separator; room for two frames.
RecvLenShort == L - 1
RecvLenLong  == 2 * L
RecvLen      == L
Chunk == SubSeq(wire, 1, IF Len(wire) < RecvLen THEN Len(wire) ELSE RecvLen)
\* broken: the loop ends one byte too early.
SeparatorBeforeLast(c) == \E k \in 1 .. Len(c) - 1 : c[k].cr
Separator(c) == \E k \in 1 .. Len(c) : c[k].cr

Received == [k \in 1 .. L |-> IF k <= Len(Chunk) THEN Chunk[k] ELSE recvBuffer[k]]
FrameIn(b) == IF \A k \in 1 .. L : b[k].frame = b[1].frame /\ b[k].pos = k
              THEN b[1].frame ELSE 0

(* The buffer is cleared before it is used again.                          *)
Receive ==
    /\ pc = "recv" /\ wire # <<>>
    /\ wire' = SubSeq(wire, Len(Chunk) + 1, Len(wire))
    /\ \/ /\ Separator(Chunk)
          /\ shown'   = shown + 1
          /\ display' = FrameIn(Received)
          /\ recvBuffer' = Empty
          /\ pc' = "select"
       \/ /\ ~ Separator(Chunk)
          /\ recvBuffer' = Received
          /\ UNCHANGED <<pc, screenVars>>
    /\ UNCHANGED <<segments, stdin, consoleVars, reqs, got, serverVars, ready>>
ReceiveEnds ==
    /\ pc = "recv" /\ wire = <<>> /\ srv = "closed"
    /\ pc' = "ended"
    /\ UNCHANGED <<segments, stdin, consoleVars, wire, reqs, got, serverVars, ready,
                   recvBuffer, screenVars>>

User == Types \/ TypesPart \/ ClosesPipe
Serves == SendFrame \/ PutPiece \/ SendsDone \/ ReadsRequests
Process ==
    SelectReturns \/ ProcessInput \/ InputEnds \/ SendsRequest \/ Receive \/ ReceiveEnds
Next == User \/ Pass \/ Serves \/ ServerExits \/ Process

Spec == Init /\ [][Next]_vars

(* The subscriber goes on as long as nothing blocks it, and so does the    *)
(* server, which sees a request that is there.  Nobody is bound to type,   *)
(* to publish, or to stop the server.                                      *)
FairSpec ==
    /\ Spec
    /\ WF_vars(Process)
    /\ WF_vars(Serves)
    /\ WF_vars(reqs # <<>> /\ Pass)

(***************************************************************************)
(* Properties.                                                             *)
(***************************************************************************)
Units == [frame : Nat, pos : 0 .. L, cr : BOOLEAN]
Ended == pc = "ended"

(* Each buffer and counter has its type and stays within its bound.        *)
SubscriberTypeOK ==
    /\ <<segments, stdin>> \in Modes
    /\ typed \in 0 .. MaxLines
    /\ parsed \in 0 .. fetched /\ fetched \in 0 .. typed
    /\ obeyed \in Seq(Kinds)
    /\ unfinished \in {"no", "kernel", "stdio"} /\ eof \in BOOLEAN
    /\ wire \in Seq(Units) /\ Len(wire) <= FramesRoom
    /\ reqs \in Seq(1 .. MaxLines) /\ Len(reqs) <= RequestsRoom
    /\ got \in Seq(1 .. MaxLines)
    /\ srv \in {"select", "send", "read", "closed"}
    /\ begun \in Nat /\ rest \in Seq(Units) /\ copies \in 0 .. MaxCopies
    /\ inner \in BOOLEAN /\ asks \in BOOLEAN /\ pubs \in 0 .. MaxPubs
    /\ pc \in {"select", "fgets", "send", "recv", "ended"} /\ ready \in BOOLEAN
    /\ recvBuffer \in [1 .. L -> Units]
    /\ shown \in Nat /\ display \in Nat

(* The inner loop of subscriber.c, during which the console is not looked  *)
(* at, waits for nothing but the rest of a frame that the server is in the *)
(* middle of sending: it ends with the frame, however recv() cuts the      *)
(* stream and whatever '\r' the frames before held.                        *)
Attentive ==
    pc = "recv" /\ wire = <<>> /\ srv # "closed" =>
       srv = "send" /\ 0 < Len(rest) /\ Len(rest) < L

(* When frames arrive whole, the messages displayed are the frames sent,   *)
(* each as it was sent, once and in order.                                 *)
ShownAsSent ==
    segments = "whole" => display = shown

(* Every line that asks for something is sent to the server, once and in   *)
(* the order typed, as far as fgets has returned them: two layers of       *)
(* buffers, several lines in one read and a console that is looked at only *)
(* between frames lose none.                                               *)
OnWay == got \o reqs \o (IF pc = "send" THEN <<parsed>> ELSE <<>>)
NoLineLost ==
    ~ Ended /\ srv # "closed" =>
       /\ Len(obeyed) = parsed
       /\ {OnWay[i] : i \in DOMAIN OnWay} = {n \in 1 .. parsed : obeyed[n] = "request"}
       /\ \A i, j \in DOMAIN OnWay : i < j => OnWay[i] < OnWay[j]

(* The server, blocked in a send to the subscriber with all others waiting *)
(* for it, gets on, unless the subscriber waits for its user in the middle *)
(* of a line: the two never wait for each other.  This needs room for the  *)
(* frames of two datagrams, 2 * MaxCopies * L <= FramesRoom.               *)
SendsComplete == srv = "send" ~> srv # "send" \/ unfinished # "no"

(* A frame that arrives whole is displayed, unless the process ends or     *)
(* waits for its user in the middle of a line.                             *)
FramesShown ==
    \A n \in 1 .. MaxPubs * MaxCopies :
       segments = "whole" /\ begun >= n ~> shown >= n \/ Ended \/ unfinished # "no"

(* A line typed at a terminal is obeyed, whatever the server sends.  From  *)
(* a pipe, which stdio reads ahead of select() (client.c:54), it is when   *)
(* the pipe closes, and those that stdio holds are, with the first behind  *)
(* them, when anything more has been written.                              *)
ReadableFor(n) == stdin = "tty" \/ eof \/ (fetched < typed /\ n <= fetched + 1)
LinesObeyed ==
    \A n \in 1 .. MaxLines :
       typed >= n /\ ReadableFor(n) ~> parsed >= n \/ Ended

(* subscriber.c:114: "If '\r' was found it means that the message was full *)
(* received".                                                              *)
FullReceived ==
    shown > 0 => display # 0
=============================================================================
