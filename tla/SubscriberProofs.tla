-------------------------- MODULE SubscriberProofs --------------------------
(***************************************************************************)
(* What one subscriber never does wrong, for every length of a frame, all  *)
(* rooms on the connection and every way the bytes are cut: proofs about   *)
(* Subscriber.                                                             *)
(***************************************************************************)
EXTENDS Subscriber, SequenceTheorems, TLAPS

(***************************************************************************)
(* The inductive invariant.                                                *)
(***************************************************************************)

(* There is a line to send.                                                *)
Sending == pc = "send" => parsed >= 1

(* What is on the way to the subscriber ends where a frame ends, unless    *)
(* the server is in the middle of one.                                     *)
Cut ==
    /\ Len(rest) <= L
    /\ rest # <<>> => srv = "send" /\ rest[Len(rest)].cr
    /\ ~ Ended /\ wire # <<>> /\ Len(rest) \in {0, L} => wire[Len(wire)].cr

(* The socket that select() found ready still is when it is looked at.     *)
Announced ==
    pc \in {"fgets", "send"} /\ ready => wire # <<>> \/ srv = "closed"

(* Frames that arrive whole: those on the way are those begun and not yet  *)
(* displayed.                                                              *)
IsFrame(s, at, n) ==
    \A k \in 1 .. L : s[at + k].frame = n /\ s[at + k].pos = k /\ (k = L => s[at + k].cr)
Pending(j) ==
    /\ Len(wire) = j * L
    /\ \A i \in 0 .. j - 1 : IsFrame(wire, i * L, shown + 1 + i)
    /\ begun = shown + j + (IF rest = <<>> THEN 0 ELSE 1)
InFrames ==
    segments = "whole" =>
       /\ rest # <<>> => Len(rest) = L /\ IsFrame(rest, 0, begun)
       /\ ~ Ended => \E j \in Nat : Pending(j)

SInv ==
    /\ SubscriberTypeOK /\ Sending /\ Cut /\ Announced /\ InFrames
    /\ Attentive /\ ShownAsSent

(***************************************************************************)
(* Types.                                                                  *)
(***************************************************************************)
LEMMA ModeType ==
    ASSUME <<segments, stdin>> \in Modes
    PROVE  segments \in {"whole", "parts"} /\ stdin \in {"tty", "pipe"}
BY SubscriberAssumption

(* The parts of a sequence.                                                *)
LEMMA PartsOf ==
    ASSUME NEW S, NEW s \in Seq(S), NEW k \in 0 .. Len(s)
    PROVE  /\ SubSeq(s, 1, k) \in Seq(S) /\ Len(SubSeq(s, 1, k)) = k
           /\ \A i \in 1 .. k : SubSeq(s, 1, k)[i] = s[i]
           /\ SubSeq(s, k + 1, Len(s)) \in Seq(S)
           /\ Len(SubSeq(s, k + 1, Len(s))) = Len(s) - k
           /\ \A i \in 1 .. Len(s) - k : SubSeq(s, k + 1, Len(s))[i] = s[k + i]
<1>0. Len(s) \in Nat
  OBVIOUS
<1>1. /\ SubSeq(s, 1, k) \in Seq(S) /\ Len(SubSeq(s, 1, k)) = k
      /\ \A i \in 1 .. k : SubSeq(s, 1, k)[i] = s[i]
  BY <1>0
<1>2. /\ SubSeq(s, k + 1, Len(s)) \in Seq(S)
      /\ Len(SubSeq(s, k + 1, Len(s))) = Len(s) - k
      /\ \A i \in 1 .. Len(s) - k : SubSeq(s, k + 1, Len(s))[i] = s[k + i]
  BY <1>0
<1> QED BY <1>1, <1>2

(* The piece that is sent.                                                 *)
LEMMA PieceType ==
    ASSUME SubscriberTypeOK, InFrames, rest # <<>>
    PROVE  Piece \in 1 .. Len(rest)
<1>1. segments \in {"whole", "parts"}
  BY ModeType DEF SubscriberTypeOK
<1>2. Len(rest) \in Nat \ {0}
  BY DEF SubscriberTypeOK
<1> QED BY <1>1, <1>2, SubscriberAssumption DEF Piece, InFrames

LEMMA FrameType ==
    ASSUME NEW i \in Nat, NEW cr \in BOOLEAN
    PROVE  /\ FrameUnits(i, cr) \in Seq(Units) /\ Len(FrameUnits(i, cr)) = L
           /\ IsFrame(FrameUnits(i, cr), 0, i)
<1>1. \A k \in 1 .. L : /\ FrameUnits(i, cr)[k] \in Units
                        /\ FrameUnits(i, cr)[k].frame = i /\ FrameUnits(i, cr)[k].pos = k
                        /\ (k = L => FrameUnits(i, cr)[k].cr)
  <2> SUFFICES ASSUME NEW k \in 1 .. L
               PROVE  /\ FrameUnits(i, cr)[k] \in Units
                      /\ FrameUnits(i, cr)[k].frame = i /\ FrameUnits(i, cr)[k].pos = k
                      /\ (k = L => FrameUnits(i, cr)[k].cr)
    OBVIOUS
  <2>1. PICK b \in BOOLEAN : b <=> k = L \/ (cr /\ k = 1)
    OBVIOUS
  <2>2. FrameUnits(i, cr)[k] = [frame |-> i, pos |-> k, cr |-> k = L \/ (cr /\ k = 1)]
    BY DEF FrameUnits, Unit
  <2>3. FrameUnits(i, cr)[k] = [frame |-> i, pos |-> k, cr |-> b]
    BY <2>1, <2>2
  <2>4. k \in 0 .. L
    BY SubscriberAssumption
  <2> QED BY <2>1, <2>3, <2>4 DEF Units
<1>2. FrameUnits(i, cr) \in Seq(Units) /\ Len(FrameUnits(i, cr)) = L
  BY <1>1, SubscriberAssumption DEF FrameUnits
<1>3. \A k \in 1 .. L : 0 + k = k
  BY SubscriberAssumption
<1> QED BY <1>1, <1>2, <1>3 DEF IsFrame

(* What is received.                                                       *)
LEMMA ChunkType ==
    ASSUME SubscriberTypeOK
    PROVE  /\ Chunk \in Seq(Units) /\ Len(Chunk) \in 0 .. Len(wire)
           /\ Len(Chunk) = (IF Len(wire) < L THEN Len(wire) ELSE L)
           /\ \A k \in 1 .. Len(Chunk) : Chunk[k] = wire[k]
           /\ Received \in [1 .. L -> Units]
           /\ \A k \in 1 .. Len(Chunk) : Received[k] = wire[k]
<1> DEFINE n == IF Len(wire) < L THEN Len(wire) ELSE L
<1>1. wire \in Seq(Units) /\ Len(wire) \in Nat /\ L \in Nat /\ n \in 0 .. Len(wire) /\ n <= L
  BY SubscriberAssumption DEF SubscriberTypeOK
<1>2. Chunk = SubSeq(wire, 1, n)
  BY DEF Chunk, RecvLen
<1> HIDE DEF n
<1>3. /\ Chunk \in Seq(Units) /\ Len(Chunk) = n
      /\ \A k \in 1 .. n : Chunk[k] = wire[k]
  BY <1>1, <1>2, PartsOf
<1>4. \A k \in 1 .. n : Chunk[k] \in Units
  BY <1>3
<1>5. /\ Received \in [1 .. L -> Units]
      /\ \A k \in 1 .. n : Received[k] = wire[k]
  <2>1. \A k \in 1 .. L : recvBuffer[k] \in Units
    BY DEF SubscriberTypeOK
  <2> HIDE DEF Chunk
  <2>2. Received = [k \in 1 .. L |-> IF k <= n THEN Chunk[k] ELSE recvBuffer[k]]
    BY <1>3 DEF Received
  <2>3. \A k \in 1 .. L : (IF k <= n THEN Chunk[k] ELSE recvBuffer[k]) \in Units
    BY <1>1, <1>4, <2>1
  <2>4. \A k \in 1 .. n : k \in 1 .. L
    BY <1>1
  <2>5. Received \in [1 .. L -> Units]
    BY <2>2, <2>3
  <2>6. \A k \in 1 .. n : Received[k] = wire[k]
    BY <1>3, <2>2, <2>4
  <2> QED BY <2>5, <2>6
<1> QED BY <1>1, <1>3, <1>5 DEF n

LEMMA InitHolds == Init => SInv
<1> SUFFICES ASSUME Init PROVE SInv
  OBVIOUS
<1>1. <<segments, stdin>> \in Modes
  <2>1. PICK mode \in Modes : segments = mode[1] /\ stdin = mode[2]
    BY DEF Init
  <2>2. mode = <<mode[1], mode[2]>>
    BY SubscriberAssumption
  <2> QED BY <2>1, <2>2
<1>2. Empty \in [1 .. L -> Units]
  BY SubscriberAssumption DEF Empty, NoUnit, Unit, Units
<1>3. SubscriberTypeOK
  <2>1. /\ MaxLines \in Nat /\ MaxPubs \in Nat /\ MaxCopies \in Nat
        /\ FramesRoom \in Nat /\ RequestsRoom \in Nat
    BY SubscriberAssumption
  <2>2. wire \in Seq(Units) /\ rest \in Seq(Units) /\ Len(wire) = 0
    BY DEF Init
  <2>3. reqs \in Seq(1 .. MaxLines) /\ got \in Seq(1 .. MaxLines) /\ Len(reqs) = 0
        /\ obeyed \in Seq(Kinds)
    BY DEF Init
  <2>4. /\ typed \in 0 .. MaxLines /\ parsed \in 0 .. fetched /\ fetched \in 0 .. typed
        /\ copies \in 0 .. MaxCopies /\ pubs \in 0 .. MaxPubs
        /\ begun \in Nat /\ shown \in Nat /\ display \in Nat
    BY <2>1 DEF Init
  <2>5. /\ inner \in BOOLEAN /\ asks \in BOOLEAN /\ ready \in BOOLEAN /\ eof \in BOOLEAN
        /\ recvBuffer \in [1 .. L -> Units]
        /\ unfinished = "no" /\ srv = "select" /\ pc = "select"
    BY <1>2 DEF Init
  <2> QED BY <1>1, <2>1, <2>2, <2>3, <2>4, <2>5 DEF SubscriberTypeOK
<1>4. Sending /\ Cut /\ Announced /\ Attentive /\ ShownAsSent
  BY SubscriberAssumption DEF Init, Sending, Cut, Announced, Attentive, ShownAsSent
<1>5. Pending(0)
  <2>1. 0 * L = 0 /\ Len(wire) = 0 /\ 0 .. 0 - 1 = {}
    BY SubscriberAssumption DEF Init
  <2> QED BY <2>1 DEF Init, Pending
<1>6. InFrames
  BY <1>5 DEF Init, InFrames
<1> QED BY <1>3, <1>4, <1>6 DEF SInv

(***************************************************************************)
(* Types are kept.                                                         *)
(***************************************************************************)
LEMMA UserType ==
    ASSUME SubscriberTypeOK, User
    PROVE  SubscriberTypeOK'
<1> USE SubscriberAssumption DEF SubscriberTypeOK, serverVars, screenVars
<1>1. Types => SubscriberTypeOK'
  BY DEF Types
<1>2. TypesPart \/ ClosesPipe => SubscriberTypeOK'
  BY DEF TypesPart, ClosesPipe
<1> QED BY <1>1, <1>2 DEF User

LEMMA PassType ==
    ASSUME SubscriberTypeOK, Pass
    PROVE  SubscriberTypeOK'
<1> USE DEF consoleVars, screenVars
<1>1. asks' \in BOOLEAN /\ inner' \in BOOLEAN
  BY DEF Pass, SubscriberTypeOK
<1>2. pubs' \in 0 .. MaxPubs /\ copies' \in 0 .. MaxCopies
  <2>1. pubs \in Nat /\ pubs <= MaxPubs /\ copies \in 0 .. MaxCopies
        /\ MaxPubs \in Nat /\ MaxCopies \in Nat
    BY SubscriberAssumption DEF SubscriberTypeOK
  <2>2. \/ pubs < MaxPubs /\ pubs' = pubs + 1 /\ copies' \in 1 .. MaxCopies
        \/ pubs' = pubs /\ copies' = copies
    BY DEF Pass
  <2> QED BY <2>1, <2>2
<1> QED BY <1>1, <1>2 DEF Pass, SubscriberTypeOK

LEMMA ServesType ==
    ASSUME SInv, Serves \/ ServerExits
    PROVE  SubscriberTypeOK'
<1> USE DEF consoleVars, screenVars
<1>0. SubscriberTypeOK
  BY DEF SInv
<1>1. CASE SendFrame
  <2>1. rest' \in Seq(Units)
    BY <1>0, <1>1, FrameType DEF SendFrame, SubscriberTypeOK
  <2> QED BY <1>0, <1>1, <2>1, SubscriberAssumption DEF SendFrame, SubscriberTypeOK
<1>2. CASE PutPiece
  <2>1. rest # <<>> /\ rest \in Seq(Units) /\ wire \in Seq(Units)
    BY <1>0, <1>2 DEF PutPiece, SubscriberTypeOK
  <2>2. Piece \in 1 .. Len(rest) /\ Len(rest) \in Nat
    BY <1>0, <2>1, PieceType DEF SInv
  <2>3. PICK p \in 0 .. Len(rest) : p = Piece
    BY <2>2
  <2>4. /\ SubSeq(rest, 1, p) \in Seq(Units) /\ Len(SubSeq(rest, 1, p)) = p
        /\ SubSeq(rest, p + 1, Len(rest)) \in Seq(Units)
    BY <2>1, PartsOf
  <2>5. wire \o SubSeq(rest, 1, p) \in Seq(Units)
        /\ Len(wire \o SubSeq(rest, 1, p)) = Len(wire) + p
    BY <2>1, <2>4
  <2>6. rest' \in Seq(Units) /\ wire' \in Seq(Units) /\ Len(wire') <= FramesRoom
    BY <1>0, <1>2, <2>3, <2>4, <2>5 DEF PutPiece, SubscriberTypeOK
  <2> QED BY <1>0, <1>2, <2>6 DEF PutPiece, SubscriberTypeOK
<1>3. CASE SendsDone
  BY <1>0, <1>3 DEF SendsDone, SubscriberTypeOK
<1>4. CASE ReadsRequests
  <2>1. PICK k \in 0 .. Len(reqs) :
          /\ got' = got \o SubSeq(reqs, 1, k)
          /\ reqs' = SubSeq(reqs, k + 1, Len(reqs))
    <3> DEFINE k == IF Len(reqs) < Batch THEN Len(reqs) ELSE Batch
    <3>1. Len(reqs) \in Nat /\ Batch \in Nat
      BY <1>0, SubscriberAssumption DEF SubscriberTypeOK
    <3>2. k \in 0 .. Len(reqs)
      BY <3>1
    <3>3. got' = got \o SubSeq(reqs, 1, k) /\ reqs' = SubSeq(reqs, k + 1, Len(reqs))
      BY <1>4 DEF ReadsRequests
    <3> QED BY <3>2, <3>3
  <2>2. /\ got \in Seq(1 .. MaxLines) /\ reqs \in Seq(1 .. MaxLines) /\ Len(reqs) <= RequestsRoom
        /\ Len(reqs) \in Nat /\ RequestsRoom \in Nat
    BY <1>0, SubscriberAssumption DEF SubscriberTypeOK
  <2>3. /\ SubSeq(reqs, 1, k) \in Seq(1 .. MaxLines)
        /\ SubSeq(reqs, k + 1, Len(reqs)) \in Seq(1 .. MaxLines)
        /\ Len(SubSeq(reqs, k + 1, Len(reqs))) = Len(reqs) - k
    BY <2>2, PartsOf
  <2>4. got' \in Seq(1 .. MaxLines) /\ reqs' \in Seq(1 .. MaxLines) /\ Len(reqs') <= RequestsRoom
    BY <2>1, <2>2, <2>3
  <2> QED BY <1>0, <1>4, <2>4 DEF ReadsRequests, SubscriberTypeOK
<1>5. CASE ServerExits
  BY <1>0, <1>5 DEF ServerExits, SubscriberTypeOK
<1> QED BY <1>1, <1>2, <1>3, <1>4, <1>5 DEF Serves

LEMMA ProcessType ==
    ASSUME SubscriberTypeOK, Sending, Process
    PROVE  SubscriberTypeOK' /\ Sending'
<1> USE DEF consoleVars, serverVars, screenVars
<1>1. CASE SelectReturns
  BY <1>1 DEF SelectReturns, SubscriberTypeOK, Sending, SocketReady
<1>2. CASE ProcessInput
  <2>1. /\ typed \in Nat /\ MaxLines \in Nat /\ typed <= MaxLines
        /\ parsed \in 0 .. fetched /\ fetched \in 0 .. typed /\ parsed < typed
    BY <1>2, SubscriberAssumption DEF ProcessInput, SubscriberTypeOK
  <2>2. parsed' = parsed + 1 /\ fetched' \in 0 .. typed /\ parsed' \in 0 .. fetched'
    BY <1>2, <2>1 DEF ProcessInput, Parsed, Fetched
  <2>3. unfinished' \in {"no", "kernel", "stdio"}
    BY <1>2 DEF ProcessInput, SubscriberTypeOK
  <2>4. obeyed' \in Seq(Kinds) /\ pc' \in {"select", "send", "recv", "ended"}
    <3>1. PICK line \in Kinds :
            /\ obeyed' = Append(obeyed, line)
            /\ pc' = CASE line = "request" -> "send"
                       [] line = "other"   -> AfterConsole
                       [] line = "ending"  -> "ended"
      BY <1>2 DEF ProcessInput
    <3>2. pc' \in {"select", "send", "recv", "ended"}
      BY <3>1 DEF Kinds, AfterConsole
    <3>3. obeyed \in Seq(Kinds)
      BY DEF SubscriberTypeOK
    <3>4. Append(obeyed, line) \in Seq(Kinds)
      BY <3>3
    <3> QED BY <3>1, <3>2, <3>4
  <2>5. UNCHANGED <<segments, stdin, typed, eof, wire, reqs, got, srv, begun, rest, copies,
                    inner, asks, pubs, ready, recvBuffer, shown, display>>
    BY <1>2 DEF ProcessInput
  <2>6. Sending'
    BY <2>1, <2>2 DEF Sending
  <2> QED BY <2>1, <2>2, <2>3, <2>4, <2>5, <2>6 DEF SubscriberTypeOK
<1>3. CASE InputEnds
  BY <1>3 DEF InputEnds, SubscriberTypeOK, Sending, AfterConsole
<1>4. CASE SendsRequest
  <2>1. /\ parsed \in 1 .. MaxLines /\ reqs \in Seq(1 .. MaxLines) /\ Len(reqs) \in Nat
        /\ RequestsRoom \in Nat
    BY <1>4, SubscriberAssumption DEF SendsRequest, SubscriberTypeOK, Sending
  <2>2. reqs' \in Seq(1 .. MaxLines) /\ Len(reqs') <= RequestsRoom
    <3>1. CASE reqs' = reqs
      BY <2>1, <3>1 DEF SubscriberTypeOK
    <3>2. CASE reqs' = Append(reqs, parsed) /\ Len(reqs) < RequestsRoom
      BY <2>1, <3>2
    <3> QED BY <1>4, <3>1, <3>2 DEF SendsRequest
  <2>3. pc' \in {"select", "recv", "ended"}
    BY <1>4 DEF SendsRequest, AfterConsole
  <2> QED BY <1>4, <2>2, <2>3 DEF SendsRequest, SubscriberTypeOK, Sending
<1>5. CASE Receive
  <2>1. Len(Chunk) \in 0 .. Len(wire) /\ Received \in [1 .. L -> Units]
    BY ChunkType
  <2>2. wire' \in Seq(Units) /\ Len(wire') <= FramesRoom
    <3>1. PICK k \in 0 .. Len(wire) : k = Len(Chunk)
      BY <2>1
    <3>2. wire \in Seq(Units) /\ Len(wire) <= FramesRoom /\ Len(wire) \in Nat /\ FramesRoom \in Nat
      BY SubscriberAssumption DEF SubscriberTypeOK
    <3>3. /\ SubSeq(wire, k + 1, Len(wire)) \in Seq(Units)
          /\ Len(SubSeq(wire, k + 1, Len(wire))) = Len(wire) - k
      BY <3>2, PartsOf
    <3> QED BY <1>5, <3>1, <3>2, <3>3 DEF Receive
  <2>3. Empty \in [1 .. L -> Units]
    BY SubscriberAssumption DEF Empty, NoUnit, Unit, Units
  <2>4. FrameIn(Received) \in Nat
    <3>1. 1 \in 1 .. L
      BY SubscriberAssumption
    <3>2. Received[1] \in Units
      BY <2>1, <3>1
    <3> QED BY <3>2 DEF FrameIn, Units
  <2>5. recvBuffer' \in [1 .. L -> Units] /\ shown' \in Nat /\ display' \in Nat
        /\ pc' \in {"select", "recv"}
    BY <1>5, <2>1, <2>3, <2>4, SMTT(30) DEF Receive, SubscriberTypeOK
  <2> QED BY <1>5, <2>2, <2>5 DEF Receive, SubscriberTypeOK, Sending
<1>6. CASE ReceiveEnds
  BY <1>6 DEF ReceiveEnds, SubscriberTypeOK, Sending
<1> QED BY <1>1, <1>2, <1>3, <1>4, <1>5, <1>6 DEF Process

(***************************************************************************)
(* The stream.                                                             *)
(***************************************************************************)
Stream == Cut /\ Announced /\ InFrames /\ Attentive /\ ShownAsSent

(* A step that moves no unit.                                              *)
LEMMA FramesKept ==
    ASSUME Stream, UNCHANGED <<segments, wire, rest, begun, shown, display>>,
           Ended => Ended', rest # <<>> => srv' = "send"
    PROVE  Cut' /\ InFrames' /\ ShownAsSent'
<1>1. Cut'
  BY DEF Stream, Cut
<1>2. \A j : Pending(j)' <=> Pending(j)
  <2> SUFFICES ASSUME NEW j PROVE Pending(j)' <=> Pending(j)
    OBVIOUS
  <2>1. \A at, n : IsFrame(wire, at, n)' <=> IsFrame(wire, at, n)
    BY DEF IsFrame
  <2> QED BY <2>1 DEF Pending
<1>3. InFrames'
  BY <1>2 DEF Stream, InFrames, IsFrame
<1>4. ShownAsSent'
  BY DEF Stream, ShownAsSent
<1> QED BY <1>1, <1>3, <1>4

LEMMA QuietStream ==
    ASSUME Stream, User \/ UNCHANGED vars
    PROVE  Stream'
<1>1. UNCHANGED <<segments, wire, rest, begun, shown, display, srv, pc, ready>>
  BY DEF User, Types, TypesPart, ClosesPipe, vars, serverVars, screenVars
<1>2. Cut' /\ InFrames' /\ ShownAsSent'
  BY <1>1, FramesKept DEF Stream, Cut, Ended
<1>3. Announced' /\ Attentive'
  BY <1>1 DEF Stream, Announced, Attentive
<1> QED BY <1>2, <1>3 DEF Stream

(* The server begins a pass, ends one, or closes.                          *)
LEMMA ServerStream ==
    ASSUME SubscriberTypeOK, Stream, Pass \/ SendsDone \/ ReadsRequests \/ ServerExits
    PROVE  Stream'
<1>1. UNCHANGED <<segments, wire, rest, begun, shown, display, pc, ready>>
  BY DEF Pass, SendsDone, ReadsRequests, ServerExits, screenVars
<1>2. rest = <<>>
  BY DEF Pass, SendsDone, ReadsRequests, ServerExits, Stream, Cut
<1>3. Cut' /\ InFrames' /\ ShownAsSent'
  BY <1>1, <1>2, FramesKept DEF Ended
<1>4. srv # "closed" /\ (srv' = "closed" \/ srv' \in {"select", "send", "read"})
  BY DEF Pass, SendsDone, ReadsRequests, ServerExits
<1>5. Announced'
  BY <1>1, <1>4 DEF Stream, Announced
<1>6. Attentive'
  <2>1. Len(rest) = 0
    BY <1>2
  <2> QED BY <1>1, <1>4, <2>1 DEF Stream, Attentive
<1> QED BY <1>3, <1>5, <1>6 DEF Stream

LEMMA SendFrameStream ==
    ASSUME SubscriberTypeOK, Stream, SendFrame
    PROVE  Stream'
<1>1. /\ UNCHANGED <<segments, wire, shown, display, srv, pc, ready>>
      /\ srv = "send" /\ rest = <<>> /\ Len(rest) = 0 /\ L \in Nat \ {0} /\ L \in 1 .. L
      /\ begun \in Nat /\ begun' = begun + 1
  BY SubscriberAssumption DEF SendFrame, screenVars, SubscriberTypeOK
<1>2. /\ rest' \in Seq(Units) /\ Len(rest') = L /\ rest' # <<>>
      /\ IsFrame(rest', 0, begun')
  <2>1. PICK u : u = FrameUnits(begun + 1, inner)
    OBVIOUS
  <2>2. rest' = u
    BY <2>1 DEF SendFrame
  <2>3. u \in Seq(Units) /\ Len(u) = L /\ IsFrame(u, 0, begun + 1)
    BY <1>1, <2>1, FrameType DEF SubscriberTypeOK
  <2> QED BY <1>1, <2>2, <2>3
<1>3. rest'[Len(rest')].cr
  <2>1. rest'[0 + L].cr
    BY <1>1, <1>2 DEF IsFrame
  <2> QED BY <1>1, <1>2, <2>1
<1>4. Cut'
  BY <1>1, <1>2, <1>3 DEF Stream, Cut, Ended
<1>5. InFrames'
  <2> SUFFICES ASSUME segments = "whole", ~ Ended PROVE \E j \in Nat : Pending(j)'
    BY <1>1, <1>2 DEF InFrames, Ended
  <2>1. PICK j \in Nat : Pending(j)
    BY DEF Stream, InFrames
  <2>2. Pending(j)'
    <3>1. \A at, n : IsFrame(wire, at, n)' <=> IsFrame(wire, at, n)
      BY <1>1 DEF IsFrame
    <3>2. begun' = shown + j + 1
      BY <1>1, <2>1 DEF Pending, SubscriberTypeOK
    <3> QED BY <1>1, <1>2, <2>1, <3>1, <3>2 DEF Pending
  <2> QED BY <2>2
<1>6. ShownAsSent' /\ Announced'
  BY <1>1 DEF Stream, ShownAsSent, Announced
<1>7. Attentive'
  BY <1>1 DEF Stream, Attentive
<1> QED BY <1>4, <1>5, <1>6, <1>7 DEF Stream

(* Where the frames on the way begin.                                      *)
LEMMA Offsets ==
    ASSUME NEW i \in Nat, NEW j \in Nat
    PROVE  /\ j * L \in Nat /\ (j + 1) * L = j * L + L
           /\ i < j => i * L + L <= j * L
<1>1. L \in Nat
  BY SubscriberAssumption
<1>2. j * L \in Nat /\ (j + 1) * L = j * L + L
  BY <1>1
<1>3. ASSUME i < j PROVE i * L + L <= j * L
  <2>1. PICK d \in Nat : j = i + 1 + d
    <3>1. j - i - 1 \in Nat /\ j = i + 1 + (j - i - 1)
      BY <1>3
    <3> QED BY <3>1
  <2>2. j * L = i * L + L + d * L /\ d * L \in Nat /\ i * L \in Nat
    BY <1>1, <2>1
  <2> QED BY <1>1, <2>2
<1> QED BY <1>2, <1>3

LEMMA PutPieceStream ==
    ASSUME SubscriberTypeOK, Stream, PutPiece
    PROVE  Stream'
<1>1. /\ UNCHANGED <<segments, begun, shown, display, srv, pc, ready>>
      /\ srv = "send" /\ rest # <<>>
      /\ L \in Nat \ {0} /\ L \in 1 .. L
      /\ begun \in Nat /\ shown \in Nat
      /\ wire \in Seq(Units) /\ rest \in Seq(Units)
      /\ Len(wire) \in Nat /\ Len(rest) \in Nat /\ Len(rest) <= L
  BY SubscriberAssumption DEF PutPiece, screenVars, SubscriberTypeOK, Stream, Cut
<1>2. Piece \in 1 .. Len(rest) /\ (segments = "whole" => Piece = L /\ Len(rest) = L)
  BY <1>1, PieceType DEF Stream, Piece, InFrames
<1>3. PICK p \in 0 .. Len(rest) : p = Piece
  BY <1>2
<1>4. PICK u : u = SubSeq(rest, 1, p)
  OBVIOUS
<1>5. /\ u \in Seq(Units) /\ Len(u) = p /\ \A i \in 1 .. p : u[i] = rest[i]
      /\ rest' \in Seq(Units) /\ Len(rest') = Len(rest) - p
      /\ \A i \in 1 .. Len(rest) - p : rest'[i] = rest[p + i]
  <2>1. rest' = SubSeq(rest, p + 1, Len(rest))
    BY <1>3 DEF PutPiece
  <2> QED BY <1>1, <1>4, <2>1, PartsOf
<1>6. /\ Len(rest') < L
      /\ rest' # <<>> => rest'[Len(rest')].cr
  <2>1. Len(rest') < L
    BY <1>1, <1>2, <1>3, <1>5
  <2>2. ASSUME rest' # <<>> PROVE rest'[Len(rest')].cr
    <3>1. Len(rest') \in 1 .. Len(rest) - p /\ p + Len(rest') = Len(rest)
      BY <1>1, <1>3, <1>5, <2>2
    <3>2. rest'[Len(rest')] = rest[Len(rest)]
      BY <1>5, <3>1
    <3> QED BY <1>1, <3>2 DEF Stream, Cut
  <2> QED BY <2>1, <2>2
<1>7. CASE Ended /\ wire' = wire
  <2>1. Cut'
    BY <1>1, <1>6, <1>7 DEF Cut, Ended
  <2>2. InFrames'
    <3>1. segments = "whole" => rest' = <<>>
      BY <1>1, <1>2, <1>3, <1>5
    <3> QED BY <1>1, <1>7, <3>1 DEF InFrames, Ended
  <2>3. ShownAsSent' /\ Announced' /\ Attentive'
    BY <1>1, <1>7 DEF Stream, ShownAsSent, Announced, Attentive, Ended
  <2> QED BY <2>1, <2>2, <2>3 DEF Stream
<1>8. CASE ~ Ended /\ wire' = wire \o u
  <2>1. /\ wire' \in Seq(Units) /\ Len(wire') = Len(wire) + p
        /\ \A i \in 1 .. Len(wire) + p :
              wire'[i] = IF i <= Len(wire) THEN wire[i] ELSE u[i - Len(wire)]
    BY <1>1, <1>5, <1>8, ConcatProperties
  <2>2. wire' # <<>> /\ p >= 1
    BY <1>1, <1>2, <1>3, <2>1
  <2>3. Cut'
    <3> SUFFICES ASSUME Len(rest') = 0 PROVE wire'[Len(wire')].cr
      BY <1>1, <1>5, <1>6 DEF Cut
    <3>1. p = Len(rest) /\ Len(wire') \in 1 .. Len(wire) + p
          /\ ~ Len(wire') <= Len(wire) /\ Len(wire') - Len(wire) = p /\ p \in 1 .. p
      BY <1>1, <1>3, <1>5, <2>1, <2>2
    <3>2. wire'[Len(wire')] = rest[Len(rest)]
      BY <1>5, <2>1, <3>1
    <3> QED BY <1>1, <3>2 DEF Stream, Cut
  <2>4. InFrames'
    <3> SUFFICES ASSUME segments = "whole"
                 PROVE  rest' = <<>> /\ \E j \in Nat : Pending(j)'
      BY <1>1 DEF InFrames
    <3>1. p = L /\ Len(rest) = L /\ rest' = <<>>
      BY <1>1, <1>2, <1>3, <1>5
    <3>2. PICK j \in Nat : Pending(j)
      BY <1>8 DEF Stream, InFrames
    <3>3. Len(wire) = j * L /\ begun = shown + j + 1 /\ IsFrame(rest, 0, begun)
      BY <1>1, <3>2 DEF Pending, Stream, InFrames
    <3>4. Len(wire') = (j + 1) * L
      BY <1>1, <2>1, <3>1, <3>3, Offsets
    <3>5. ASSUME NEW i \in 0 .. j PROVE IsFrame(wire', i * L, shown + 1 + i)
      <4>0. i \in Nat
        OBVIOUS
      <4>1. i \in Nat /\ i * L \in Nat
        BY <4>0, Offsets
      <4>2. CASE i < j
        <5>1. i * L + L <= Len(wire)
          BY <3>3, <4>1, <4>2, Offsets
        <5>2. ASSUME NEW k \in 1 .. L PROVE wire'[i * L + k] = wire[i * L + k]
          <6>1. PICK x \in Nat : x = i * L
            BY <4>1
          <6>2. x + k \in 1 .. Len(wire) + p /\ x + k <= Len(wire)
            BY <1>1, <5>1, <6>1
          <6> QED BY <2>1, <6>1, <6>2
        <5>3. IsFrame(wire, i * L, shown + 1 + i)
          BY <3>2, <4>1, <4>2 DEF Pending
        <5> QED BY <5>2, <5>3 DEF IsFrame
      <4>3. CASE i = j
        <5>1. ASSUME NEW k \in 1 .. L PROVE wire'[j * L + k] = rest[0 + k]
          <6>1. PICK x \in Nat : x = j * L /\ Len(wire) = x
            BY <3>3, <4>1, <4>3
          <6>2. x + k \in 1 .. Len(wire) + p /\ ~ x + k <= Len(wire) /\ x + k - Len(wire) = k
                /\ k \in 1 .. p /\ 0 + k = k
            BY <1>1, <3>1, <6>1
          <6>3. wire'[x + k] = u[x + k - Len(wire)]
            BY <2>1, <6>2
          <6>4. wire'[x + k] = rest[k]
            BY <1>5, <6>2, <6>3
          <6> QED BY <6>1, <6>2, <6>4
        <5>2. begun = shown + 1 + j
          BY <1>1, <3>3
        <5> QED BY <3>3, <4>3, <5>1, <5>2 DEF IsFrame
      <4> QED BY <4>1, <4>2, <4>3
    <3>6. Pending(j + 1)'
      <4>1. j + 1 - 1 = j /\ begun = shown + (j + 1) + 0
        BY <1>1, <3>3
      <4>2. \A i \in 0 .. j : IsFrame(wire, i * L, shown + 1 + i)'
        BY <1>1, <3>5 DEF IsFrame
      <4> QED BY <1>1, <3>1, <3>4, <4>1, <4>2 DEF Pending
    <3> QED BY <3>1, <3>6
  <2>5. ShownAsSent' /\ Announced' /\ Attentive'
    BY <1>1, <2>2 DEF Stream, ShownAsSent, Announced, Attentive
  <2> QED BY <2>3, <2>4, <2>5 DEF Stream
<1> QED BY <1>3, <1>4, <1>7, <1>8 DEF PutPiece, Ended

LEMMA ReceiveStream ==
    ASSUME SubscriberTypeOK, Stream, Receive
    PROVE  Stream'
<1>1. /\ UNCHANGED <<segments, rest, begun, srv, ready>>
      /\ pc = "recv" /\ wire # <<>>
      /\ L \in Nat \ {0} /\ L \in 1 .. L
      /\ begun \in Nat /\ shown \in Nat
      /\ wire \in Seq(Units) /\ Len(wire) \in Nat \ {0} /\ Len(rest) \in Nat
  BY SubscriberAssumption DEF Receive, serverVars, SubscriberTypeOK
<1>2. PICK n \in 1 .. Len(wire) :
        /\ n = Len(Chunk) /\ n = (IF Len(wire) < L THEN Len(wire) ELSE L)
        /\ \A k \in 1 .. n : Chunk[k] = wire[k] /\ Received[k] = wire[k]
  <2>1. Len(Chunk) \in 1 .. Len(wire)
    BY <1>1, ChunkType
  <2> QED BY <2>1, ChunkType
<1>3. /\ wire' \in Seq(Units) /\ Len(wire') = Len(wire) - n
      /\ \A k \in 1 .. Len(wire) - n : wire'[k] = wire[n + k]
  <2>1. wire' = SubSeq(wire, n + 1, Len(wire))
    BY <1>2 DEF Receive
  <2>2. n \in 0 .. Len(wire)
    BY <1>1, <1>2
  <2> QED BY <1>1, <2>1, <2>2, PartsOf
<1>4. Cut'
  <2> SUFFICES ASSUME wire' # <<>>, Len(rest) \in {0, L} PROVE wire'[Len(wire')].cr
    BY <1>1 DEF Stream, Cut
  <2>1. Len(wire') \in 1 .. Len(wire) - n /\ n + Len(wire') = Len(wire)
    BY <1>1, <1>2, <1>3
  <2>2. wire'[Len(wire')] = wire[Len(wire)]
    BY <1>3, <2>1
  <2> QED BY <1>1, <2>2 DEF Stream, Cut, Ended
<1>5. pc' \in {"select", "recv"} /\ (pc' = "recv" => ~ Separator(Chunk))
  BY <1>1 DEF Receive
<1>6. Announced'
  BY <1>5 DEF Announced
<1>7. Attentive'
  <2> SUFFICES ASSUME pc' = "recv", wire' = <<>>, srv # "closed"
               PROVE  srv = "send" /\ 0 < Len(rest) /\ Len(rest) < L
    BY <1>1 DEF Attentive
  <2>1. n = Len(wire) /\ n \in 1 .. n
    BY <1>1, <1>2, <1>3
  <2>2. ~ wire[Len(wire)].cr
    BY <1>2, <1>5, <2>1 DEF Separator
  <2>3. Len(rest) \notin {0, L} /\ Len(rest) <= L
    BY <1>1, <2>2 DEF Stream, Cut, Ended
  <2> QED BY <1>1, <2>3 DEF Stream, Cut
<1>8. CASE segments = "whole"
  <2>1. PICK j \in Nat : Pending(j)
    BY <1>1, <1>8 DEF Stream, InFrames, Ended
  <2>2. Len(wire) = j * L /\ begun = shown + j + (IF rest = <<>> THEN 0 ELSE 1)
    BY <2>1 DEF Pending
  <2>3. j # 0 /\ L <= Len(wire) /\ n = L
    <3>1. 0 * L = 0 /\ 0 + L = L
      BY <1>1
    <3>2. j # 0
      BY <1>1, <2>2, <3>1
    <3>3. L <= j * L
      BY <1>1, <3>1, <3>2, Offsets
    <3> QED BY <1>1, <1>2, <2>2, <3>2, <3>3
  <2>4. \A k \in 1 .. L : wire[k].frame = shown + 1 /\ wire[k].pos = k /\ (k = L => wire[k].cr)
    <3>1. IsFrame(wire, 0 * L, shown + 1 + 0)
      BY <2>1, <2>3 DEF Pending
    <3>2. 0 * L = 0 /\ shown + 1 + 0 = shown + 1 /\ \A k \in 1 .. L : 0 + k = k
      BY <1>1
    <3> QED BY <3>1, <3>2 DEF IsFrame
  <2>5. Separator(Chunk)
    BY <1>1, <1>2, <2>3, <2>4 DEF Separator
  <2>6. FrameIn(Received) = shown + 1
    <3>1. 1 \in 1 .. L
      BY <1>1
    <3>2. \A k \in 1 .. L : Received[k].frame = shown + 1 /\ Received[k].pos = k
      BY <1>2, <2>3, <2>4
    <3> QED BY <3>1, <3>2 DEF FrameIn
  <2>7. shown' = shown + 1 /\ display' = shown'
    BY <2>5, <2>6 DEF Receive
  <2>8. PICK i0 \in Nat : j = i0 + 1
    <3>1. j - 1 \in Nat /\ j = j - 1 + 1
      BY <2>3
    <3> QED BY <3>1
  <2>9. Len(wire') = i0 * L
    BY <1>1, <1>3, <2>2, <2>3, <2>8, Offsets
  <2>10. ASSUME NEW i \in 0 .. i0 - 1 PROVE IsFrame(wire', i * L, shown' + 1 + i)
    <3>1. i \in Nat /\ i < i0 /\ i + 1 \in 0 .. j - 1
      BY <2>8
    <3>2. PICK x \in Nat : x = i * L /\ (i + 1) * L = x + L /\ x + L <= Len(wire')
      BY <2>9, <3>1, Offsets
    <3>3. IsFrame(wire, x + L, shown + 1 + (i + 1))
      BY <2>1, <3>1, <3>2 DEF Pending
    <3>4. ASSUME NEW k \in 1 .. L PROVE wire'[x + k] = wire[x + L + k]
      <4>1. x + k \in 1 .. Len(wire) - n /\ n + (x + k) = x + L + k
        <5>1. PICK w \in Nat : w = Len(wire) /\ x + L <= w - L
          BY <1>1, <1>3, <2>3, <3>2
        <5> QED BY <1>1, <2>3, <3>2, <5>1
      <4> QED BY <1>3, <4>1
    <3>5. shown' + 1 + i = shown + 1 + (i + 1)
      BY <1>1, <2>7, <3>1
    <3> QED BY <3>2, <3>3, <3>4, <3>5 DEF IsFrame
  <2>11. Pending(i0)'
    <3>1. begun = shown' + i0 + (IF rest = <<>> THEN 0 ELSE 1)
      BY <1>1, <2>2, <2>7, <2>8
    <3>2. \A i \in 0 .. i0 - 1 : IsFrame(wire, i * L, shown + 1 + i)'
      BY <2>10 DEF IsFrame
    <3> QED BY <1>1, <2>9, <3>1, <3>2 DEF Pending
  <2>12. InFrames'
    BY <1>1, <2>11 DEF Stream, InFrames, IsFrame
  <2>13. ShownAsSent'
    BY <2>7 DEF ShownAsSent
  <2> QED BY <1>4, <1>6, <1>7, <2>12, <2>13 DEF Stream
<1>9. CASE segments # "whole"
  BY <1>1, <1>4, <1>6, <1>7, <1>9 DEF Stream, InFrames, ShownAsSent
<1> QED BY <1>8, <1>9

(* The rest of what the subscriber does.                                   *)
LEMMA ProcessStream ==
    ASSUME SubscriberTypeOK, Stream, Process
    PROVE  Stream'
<1>1. CASE SelectReturns \/ ProcessInput \/ InputEnds \/ SendsRequest \/ ReceiveEnds
  <2>1. UNCHANGED <<segments, wire, rest, begun, shown, display, srv>> /\ ~ Ended
    BY <1>1 DEF SelectReturns, ProcessInput, InputEnds, SendsRequest, ReceiveEnds,
                serverVars, screenVars, Ended
  <2>2. Cut' /\ InFrames' /\ ShownAsSent'
    BY <2>1, FramesKept DEF Stream, Cut
  <2>3. pc' = "recv" \/ (pc' \in {"fgets", "send"} /\ ready') => wire # <<>> \/ srv = "closed"
    <3>1. CASE SelectReturns
      BY <3>1 DEF SelectReturns, SocketReady
    <3>2. CASE ProcessInput
      <4>1. pc' \in {"send", AfterConsole, "ended"} /\ ready' = ready /\ pc = "fgets"
        BY <3>2 DEF ProcessInput, Kinds
      <4> QED BY <4>1 DEF Stream, Announced, AfterConsole
    <3>3. CASE InputEnds \/ SendsRequest
      <4>1. pc' \in {"ended", AfterConsole} /\ ready' = ready /\ pc \in {"fgets", "send"}
        BY <3>3 DEF InputEnds, SendsRequest
      <4> QED BY <4>1 DEF Stream, Announced, AfterConsole
    <3>4. CASE ReceiveEnds
      BY <3>4 DEF ReceiveEnds
    <3> QED BY <1>1, <3>1, <3>2, <3>3, <3>4
  <2>4. Announced' /\ Attentive'
    BY <2>1, <2>3 DEF Announced, Attentive
  <2> QED BY <2>2, <2>4 DEF Stream
<1>2. CASE Receive
  BY <1>2, ReceiveStream
<1> QED BY <1>1, <1>2 DEF Process

LEMMA SInvStep == SInv /\ [Next]_vars => SInv'
<1> SUFFICES ASSUME SInv, [Next]_vars PROVE SInv'
  OBVIOUS
<1>1. SubscriberTypeOK /\ Sending /\ Stream
  BY DEF SInv, Stream
<1>2. CASE UNCHANGED vars
  <2>1. Stream'
    BY <1>1, <1>2, QuietStream
  <2>2. SubscriberTypeOK' /\ Sending'
    BY <1>1, <1>2 DEF vars, SubscriberTypeOK, Sending
  <2> QED BY <2>1, <2>2 DEF SInv, Stream
<1>3. CASE User
  <2>1. Stream'
    BY <1>1, <1>3, QuietStream
  <2>2. Sending'
    BY <1>1, <1>3 DEF User, Types, TypesPart, ClosesPipe, Sending
  <2> QED BY <1>1, <1>3, <2>1, <2>2, UserType DEF SInv, Stream
<1>4. CASE Pass
  <2>1. Sending'
    BY <1>1, <1>4 DEF Pass, Sending, consoleVars
  <2> QED BY <1>1, <1>4, <2>1, PassType, ServerStream DEF SInv, Stream
<1>5. CASE Serves \/ ServerExits
  <2>1. Sending'
    BY <1>1, <1>5 DEF Serves, SendFrame, PutPiece, SendsDone, ReadsRequests, ServerExits,
                      Sending, consoleVars
  <2>2. Stream'
    BY <1>1, <1>5, ServerStream, SendFrameStream, PutPieceStream DEF Serves
  <2> QED BY <1>5, <2>1, <2>2, ServesType DEF SInv, Stream
<1>6. CASE Process
  BY <1>1, <1>6, ProcessType, ProcessStream DEF SInv, Stream
<1> QED BY <1>2, <1>3, <1>4, <1>5, <1>6 DEF Next

THEOREM StreamInductive == Spec => []SInv
BY InitHolds, SInvStep, PTL DEF Spec

(* Each buffer and counter of the subscriber keeps its bound.              *)
THEOREM SubscriberTypes == Spec => []SubscriberTypeOK
<1>1. SInv => SubscriberTypeOK
  BY DEF SInv
<1> QED BY <1>1, StreamInductive, PTL

(* The inner loop of subscriber.c never waits for anything but the rest of *)
(* a frame the server is sending, wherever recv() cuts the stream and      *)
(* whatever '\r' the frames hold.                                          *)
THEOREM NeverDeaf == Spec => []Attentive
<1>1. SInv => Attentive
  BY DEF SInv
<1> QED BY <1>1, StreamInductive, PTL

(* Frames that arrive whole are displayed as sent, each once, in order.    *)
THEOREM WholeFramesShown == Spec => []ShownAsSent
<1>1. SInv => ShownAsSent
  BY DEF SInv
<1> QED BY <1>1, StreamInductive, PTL

(***************************************************************************)
(* The lines typed.                                                        *)
(***************************************************************************)
LEMMA MovesAlong ==
    ASSUME NEW S, NEW s \in Seq(S), NEW t \in Seq(S), NEW k \in 0 .. Len(t)
    PROVE  (s \o SubSeq(t, 1, k)) \o SubSeq(t, k + 1, Len(t)) = s \o t
<1>1. PICK a, b : a = SubSeq(t, 1, k) /\ b = SubSeq(t, k + 1, Len(t))
  OBVIOUS
<1>2. /\ a \in Seq(S) /\ Len(a) = k /\ \A i \in 1 .. k : a[i] = t[i]
      /\ b \in Seq(S) /\ Len(b) = Len(t) - k /\ \A i \in 1 .. Len(t) - k : b[i] = t[k + i]
  BY <1>1, PartsOf
<1>3. Len(s) \in Nat /\ Len(t) \in Nat
  OBVIOUS
<1>4. PICK u : u = s \o a
  OBVIOUS
<1>5. /\ u \in Seq(S) /\ Len(u) = Len(s) + k
      /\ \A i \in 1 .. Len(s) + k : u[i] = IF i <= Len(s) THEN s[i] ELSE a[i - Len(s)]
  <2>1. a \in Seq(S)
    BY <1>2
  <2>2. /\ s \o a \in Seq(S) /\ Len(s \o a) = Len(s) + Len(a)
        /\ \A i \in 1 .. Len(s) + Len(a) :
              (s \o a)[i] = IF i <= Len(s) THEN s[i] ELSE a[i - Len(s)]
    BY <2>1, ConcatProperties
  <2> QED BY <1>2, <1>4, <2>2
<1>6. /\ u \o b \in Seq(S) /\ Len(u \o b) = Len(s) + Len(t)
      /\ \A i \in 1 .. Len(s) + Len(t) :
            (u \o b)[i] = IF i <= Len(s) + k THEN u[i] ELSE b[i - (Len(s) + k)]
  <2>1. (Len(s) + k) + (Len(t) - k) = Len(s) + Len(t)
    BY <1>3
  <2>2. /\ u \o b \in Seq(S) /\ Len(u \o b) = Len(u) + Len(b)
        /\ \A i \in 1 .. Len(u) + Len(b) :
              (u \o b)[i] = IF i <= Len(u) THEN u[i] ELSE b[i - Len(u)]
    <3>1. u \in Seq(S) /\ b \in Seq(S)
      BY <1>2, <1>5
    <3> QED BY <3>1, ConcatProperties
  <2>3. Len(u) = Len(s) + k /\ Len(u) + Len(b) = Len(s) + Len(t)
    BY <1>2, <1>5, <2>1
  <2> QED BY <2>2, <2>3
<1>7. /\ s \o t \in Seq(S) /\ Len(s \o t) = Len(s) + Len(t)
      /\ \A i \in 1 .. Len(s) + Len(t) :
            (s \o t)[i] = IF i <= Len(s) THEN s[i] ELSE t[i - Len(s)]
  BY ConcatProperties
<1>8. ASSUME NEW i \in 1 .. Len(s) + Len(t) PROVE (u \o b)[i] = (s \o t)[i]
  <2>1. CASE i <= Len(s)
    BY <1>3, <1>5, <1>6, <1>7, <2>1
  <2>2. CASE ~ i <= Len(s) /\ i <= Len(s) + k
    <3>1. i - Len(s) \in 1 .. k /\ i \in 1 .. Len(s) + k
      BY <1>3, <2>2
    <3> QED BY <1>2, <1>5, <1>6, <1>7, <2>2, <3>1
  <2>3. CASE ~ i <= Len(s) + k
    <3>1. /\ i - (Len(s) + k) \in 1 .. Len(t) - k /\ k + (i - (Len(s) + k)) = i - Len(s)
          /\ ~ i <= Len(s)
      BY <1>3, <2>3
    <3> QED BY <1>2, <1>6, <1>7, <2>3, <3>1
  <2> QED BY <2>1, <2>2, <2>3
<1> QED BY <1>1, <1>4, <1>6, <1>7, <1>8, SeqEqual

LEMMA SendsAlong ==
    ASSUME NEW S, NEW s \in Seq(S), NEW t \in Seq(S), NEW x \in S
    PROVE  (s \o t) \o <<x>> = (s \o Append(t, x)) \o <<>>
<1>1. PICK a : a = Append(t, x)
  OBVIOUS
<1>2. /\ a \in Seq(S) /\ Len(a) = Len(t) + 1 /\ a[Len(t) + 1] = x
      /\ \A i \in 1 .. Len(t) : a[i] = t[i]
  BY <1>1
<1>3. SubSeq(a, 1, Len(t)) = t /\ SubSeq(a, Len(t) + 1, Len(a)) = <<x>>
  <2>1. Len(t) \in 0 .. Len(a) /\ Len(t) \in Nat /\ 1 \in 1 .. 1
    BY <1>2
  <2>2. PICK b, c : b = SubSeq(a, 1, Len(t)) /\ c = SubSeq(a, Len(t) + 1, Len(a))
    OBVIOUS
  <2>3. /\ b \in Seq(S) /\ Len(b) = Len(t) /\ \A i \in 1 .. Len(t) : b[i] = t[i]
        /\ c \in Seq(S) /\ Len(c) = 1 /\ c[1] = x
    BY <1>2, <2>1, <2>2, PartsOf
  <2>4. b = t
    BY <2>3, SeqEqual
  <2>5. c = <<x>>
    BY <2>3
  <2> QED BY <2>2, <2>4, <2>5
<1>4. (s \o t) \o <<x>> = s \o a
  <2>1. Len(t) \in 0 .. Len(a)
    BY <1>2
  <2>2. (s \o SubSeq(a, 1, Len(t))) \o SubSeq(a, Len(t) + 1, Len(a)) = s \o a
    BY <1>2, <2>1, MovesAlong
  <2> QED BY <1>3, <2>2
<1>5. s \o a \in Seq(S)
  BY <1>2, ConcatProperties
<1>6. (s \o a) \o <<>> = s \o a
  BY <1>5
<1> QED BY <1>1, <1>4, <1>6

(* What is on the way to the server does not change.                       *)
LEMMA LinesKept ==
    ASSUME NoLineLost, OnWay' = OnWay, UNCHANGED <<parsed, obeyed>>,
           Ended => Ended', srv = "closed" => srv' = "closed"
    PROVE  NoLineLost'
BY DEF NoLineLost

LEMMA InputLines ==
    ASSUME SubscriberTypeOK, NoLineLost, ProcessInput, ~ Ended', srv # "closed"
    PROVE  NoLineLost'
<1> DEFINE w == got \o reqs
           p == parsed + 1
           Asked(o, n) == {i \in 1 .. n : o[i] = "request"}
<1>1. /\ UNCHANGED <<got, reqs, srv>> /\ parsed' = p /\ pc = "fgets" /\ ~ Ended
      /\ parsed \in Nat /\ obeyed \in Seq(Kinds)
      /\ got \in Seq(1 .. MaxLines) /\ reqs \in Seq(1 .. MaxLines)
  BY SubscriberAssumption DEF ProcessInput, SubscriberTypeOK, serverVars, Parsed, Ended
<1>2. w \in Seq(1 .. MaxLines) /\ Len(w) \in Nat /\ DOMAIN w = 1 .. Len(w)
  BY <1>1, ConcatProperties
<1>3. PICK line \in {"request", "other"} :
        obeyed' = Append(obeyed, line) /\ (pc' = "send" <=> line = "request")
  <2>1. PICK line \in Kinds :
          /\ obeyed' = Append(obeyed, line)
          /\ pc' = CASE line = "request" -> "send"
                     [] line = "other"   -> AfterConsole
                     [] line = "ending"  -> "ended"
    BY DEF ProcessInput
  <2> QED BY <2>1 DEF Kinds, AfterConsole, Ended
<1> HIDE DEF w
<1>4. OnWay = w
  <2>1. OnWay = w \o <<>>
    BY <1>1 DEF OnWay, w
  <2> QED BY <1>2, <2>1
<1>5. /\ Len(obeyed) = parsed
      /\ {w[i] : i \in DOMAIN w} = Asked(obeyed, parsed)
      /\ \A i, j \in DOMAIN w : i < j => w[i] < w[j]
  BY <1>1, <1>4 DEF NoLineLost
<1>6. /\ Len(obeyed') = p /\ obeyed'[p] = line
      /\ \A i \in 1 .. parsed : obeyed'[i] = obeyed[i]
  BY <1>1, <1>3, <1>5
<1>7. CASE line = "other"
  <2>1. OnWay' = w
    <3>1. OnWay' = w \o <<>>
      BY <1>1, <1>3, <1>7 DEF OnWay, w
    <3> QED BY <1>2, <3>1
  <2>2. Asked(obeyed', p) = Asked(obeyed, parsed)
    BY <1>1, <1>6, <1>7
  <2> QED BY <1>1, <1>5, <1>6, <2>1, <2>2 DEF NoLineLost
<1>8. CASE line = "request"
  <2>1. PICK v : v = Append(w, p)
    OBVIOUS
  <2>2. OnWay' = v
    <3>1. OnWay' = w \o <<p>>
      BY <1>1, <1>3, <1>8 DEF OnWay, w
    <3> QED BY <1>2, <2>1, <3>1
  <2>3. /\ DOMAIN v = DOMAIN w \cup {Len(w) + 1} /\ v[Len(w) + 1] = p
        /\ \A i \in DOMAIN w : v[i] = w[i]
    BY <1>2, <2>1
  <2>4. Asked(obeyed', p) = Asked(obeyed, parsed) \cup {p}
    BY <1>1, <1>6, <1>8
  <2>5. {v[i] : i \in DOMAIN v} = {w[i] : i \in DOMAIN w} \cup {p}
    BY <2>3
  <2>6. \A i \in DOMAIN w : w[i] \in 1 .. parsed
    BY <1>5
  <2>7. \A i, j \in DOMAIN v : i < j => v[i] < v[j]
    <3> SUFFICES ASSUME NEW i \in DOMAIN v, NEW j \in DOMAIN v, i < j PROVE v[i] < v[j]
      OBVIOUS
    <3>1. i \in DOMAIN w
      BY <1>2, <2>3
    <3>2. CASE j \in DOMAIN w
      BY <1>5, <2>3, <3>1, <3>2
    <3>3. CASE j = Len(w) + 1
      BY <1>1, <2>3, <2>6, <3>1, <3>3
    <3> QED BY <2>3, <3>2, <3>3
  <2>8. {v[i] : i \in DOMAIN v} = Asked(obeyed', p)
    BY <1>5, <2>4, <2>5
  <2> QED BY <1>1, <1>6, <2>2, <2>7, <2>8 DEF NoLineLost
<1> QED BY <1>7, <1>8

LEMMA LinesStep ==
    ASSUME SInv, NoLineLost, [Next]_vars
    PROVE  NoLineLost'
<1>1. /\ SubscriberTypeOK /\ Sending /\ parsed \in Nat
      /\ got \in Seq(1 .. MaxLines) /\ reqs \in Seq(1 .. MaxLines)
  BY DEF SInv, SubscriberTypeOK
<1>2. CASE UNCHANGED vars
  BY <1>2, LinesKept DEF vars, OnWay, Ended
<1>3. CASE User \/ Pass \/ SendFrame \/ PutPiece \/ SendsDone \/ ServerExits
  <2>1. UNCHANGED <<got, reqs, parsed, obeyed, pc>> /\ (srv # "closed" \/ srv' = srv)
    BY <1>3 DEF User, Types, TypesPart, ClosesPipe, Pass, SendFrame, PutPiece, SendsDone,
                ServerExits, consoleVars, serverVars
  <2> QED BY <2>1, LinesKept DEF OnWay, Ended
<1>4. CASE SelectReturns \/ InputEnds \/ Receive \/ ReceiveEnds
  <2>1. UNCHANGED <<got, reqs, parsed, obeyed, srv>> /\ pc # "send" /\ pc' # "send" /\ ~ Ended
    BY <1>4 DEF SelectReturns, InputEnds, Receive, ReceiveEnds, AfterConsole, consoleVars,
                serverVars, Ended
  <2>2. OnWay' = OnWay
    BY <2>1 DEF OnWay
  <2> QED BY <2>1, <2>2, LinesKept
<1>5. CASE ReadsRequests
  <2>1. PICK k \in 0 .. Len(reqs) :
          got' = got \o SubSeq(reqs, 1, k) /\ reqs' = SubSeq(reqs, k + 1, Len(reqs))
    <3> DEFINE k == IF Len(reqs) < Batch THEN Len(reqs) ELSE Batch
    <3>1. k \in 0 .. Len(reqs)
      BY <1>1, SubscriberAssumption
    <3>2. got' = got \o SubSeq(reqs, 1, k) /\ reqs' = SubSeq(reqs, k + 1, Len(reqs))
      BY <1>5 DEF ReadsRequests
    <3> QED BY <3>1, <3>2
  <2>2. UNCHANGED <<parsed, obeyed, pc>> /\ srv # "closed"
    BY <1>5 DEF ReadsRequests, consoleVars
  <2>3. got' \o reqs' = got \o reqs
    BY <1>1, <2>1, MovesAlong
  <2>4. OnWay' = OnWay
    BY <2>2, <2>3 DEF OnWay
  <2> QED BY <2>2, <2>4, LinesKept DEF Ended
<1>6. CASE SendsRequest
  <2>1. UNCHANGED <<got, parsed, obeyed, srv>> /\ pc = "send" /\ pc' # "send" /\ ~ Ended
    BY <1>6 DEF SendsRequest, consoleVars, serverVars, AfterConsole, Ended
  <2>2. CASE reqs' = Append(reqs, parsed)
    <3>1. parsed \in 1 .. MaxLines
      BY <1>1, <2>1, SubscriberAssumption DEF SubscriberTypeOK, Sending
    <3>2. (got \o reqs) \o <<parsed>> = (got \o reqs') \o <<>>
      BY <1>1, <2>2, <3>1, SendsAlong
    <3>3. OnWay' = OnWay
      BY <2>1, <3>2 DEF OnWay
    <3> QED BY <2>1, <3>3, LinesKept
  <2>3. CASE srv = "closed"
    BY <2>1, <2>3 DEF NoLineLost
  <2> QED BY <1>6, <2>2, <2>3 DEF SendsRequest
<1>7. CASE ProcessInput
  <2>1. srv' = srv
    BY <1>7 DEF ProcessInput, serverVars
  <2>2. CASE ~ Ended' /\ srv # "closed"
    BY <1>1, <1>7, <2>2, InputLines
  <2>3. CASE Ended' \/ srv = "closed"
    BY <2>1, <2>3 DEF NoLineLost
  <2> QED BY <2>2, <2>3
<1> QED BY <1>2, <1>3, <1>4, <1>5, <1>6, <1>7 DEF Next, Serves, Process

(* Every line that asks for something reaches the server once, in the      *)
(* order typed: neither stdio's buffer, nor a full connection, nor several *)
(* requests in one recvfrom loses or doubles one.                          *)
THEOREM EveryLineSent == Spec => []NoLineLost
<1>1. Init => NoLineLost
  <2> SUFFICES ASSUME Init PROVE NoLineLost
    OBVIOUS
  <2>1. parsed = 0 /\ obeyed = <<>>
    BY DEF Init
  <2>2. OnWay = <<>> /\ 1 .. 0 = {}
    BY DEF Init, OnWay
  <2> QED BY <2>1, <2>2 DEF NoLineLost
<1> QED BY <1>1, LinesStep, StreamInductive, PTL DEF Spec
=============================================================================
