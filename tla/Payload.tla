------------------------------- MODULE Payload -------------------------------
(***************************************************************************)
(* The way of one message from a publisher to a subscriber's screen, byte  *)
(* by byte: the datagram, the frame that receive_udp_message makes of it,  *)
(* and the value that processMessage takes out of the frame.  Bytes are    *)
(* numbers; the fields of a frame are shorter than in the code.            *)
(***************************************************************************)
EXTENDS Integers, Sequences

CONSTANTS
    TopicLen, ContentLen, IpLen,    \* TOPIC_LEN, CONTENT_LEN, IP_CHAR_LEN
    Left,                           \* what is in the server's buffer from before
    Published                       \* sets of what publishers may mean to send

(* Bytes, those of a text, and 16 bits.                                    *)
Byte == 0 .. 255
Letter == 1 .. 255
Word == {n \in Nat : n < 65536}

(* A float and its exponent are the longest content but for a text.        *)
ASSUME PayloadAssumption ==
    /\ TopicLen \in Nat \ {0} /\ IpLen \in Nat \ {0}
    /\ ContentLen \in Nat /\ ContentLen >= 6
    /\ Left \in Byte

(* What a publisher may mean to send: the fields of every type, of which   *)
(* its type uses some.  Texts have no NUL in them, and an address comes    *)
(* from inet_ntoa, with room for its NUL.                                  *)
Message == [type : Byte, topic : Seq(Letter), ip : Seq(Letter), port : Word,
            sign : Byte, hi : Word, lo : Word, point : Byte, text : Seq(Letter)]
ASSUME PublishedAssumption ==
    \A kind \in Published : \A m \in kind :
       m \in Message /\ Len(m.topic) <= TopicLen /\ Len(m.ip) < IpLen

VARIABLES meant, buffer, frame, display
vars == <<meant, buffer, frame, display>>

Nothing == [type |-> -1]             \* nothing is displayed yet
ServerLen == TopicLen + 1 + ContentLen      \* BUFFER_SERVER_LEN

(***************************************************************************)
(* Bytes.                                                                  *)
(***************************************************************************)
Zeros(n) == [i \in 1 .. n |-> 0]
Padded(s, n) == s \o Zeros(n - Len(s))
Bytes(n) == <<n \div 256, n % 256>>         \* 16 bits, the higher byte first
Short(s, i) == s[i] * 256 + s[i + 1]

(* What printf("%s") shows of the bytes from an address on.                *)
Text(s) == SubSeq(s, 1, CHOOSE n \in 0 .. Len(s) :
              /\ \A i \in 1 .. n : s[i] # 0
              /\ n < Len(s) => s[n + 1] = 0)

(***************************************************************************)
(* Publishers: the layout of sample_payloads.json.                         *)
(***************************************************************************)
Content(m) ==
    CASE m.type = 0 -> <<m.sign>> \o Bytes(m.hi) \o Bytes(m.lo)
      [] m.type = 1 -> Bytes(m.lo)
      [] m.type = 2 -> <<m.sign>> \o Bytes(m.hi) \o Bytes(m.lo) \o <<m.point>>
      [] OTHER      -> m.text
Datagram(m) == Padded(m.topic, TopicLen) \o <<m.type>> \o Content(m)

(***************************************************************************)
(* The server.                                                             *)
(***************************************************************************)

(* The buffer is cleared; recvfrom drops what there is no room for.        *)
\* broken: recvfrom is given more room than there is; the buffer is not cleared.
ReceivedLong(d) == IF Len(d) > ServerLen THEN d ELSE Padded(d, ServerLen)
ReceivedOver(d) == [i \in 1 .. ServerLen |-> IF i <= Len(d) THEN d[i] ELSE buffer[i]]
Received(d) == [i \in 1 .. ServerLen |-> IF i <= Len(d) THEN d[i] ELSE 0]

\* broken: the port comes right behind the address's text.
format_buffer_tight(b, ip, port) ==
    Padded(b \o ip \o <<0>> \o Bytes(port), ServerLen + IpLen + 2) \o <<13>>
format_buffer(b, ip, port) == b \o Padded(ip, IpLen) \o Bytes(port) \o <<13>>

receive_udp_message ==
    /\ frame = <<>>
    /\ buffer' = Received(Datagram(meant))
    /\ frame'  = format_buffer(buffer', meant.ip, meant.port)
    /\ UNCHANGED <<meant, display>>

(***************************************************************************)
(* Floating point: a float is m / w, with 24 bits of m that count and w a  *)
(* power of two.                                                           *)
(***************************************************************************)
Rounded(a, b) ==
    LET q == a \div b
        r == 2 * (a % b)
    IN  IF r > b \/ (r = b /\ q % 2 = 1) THEN q + 1 ELSE q
Mantissa == 2 ^ 23 .. 2 ^ 24 - 1

(* The float nearest to a / b; the number is below 2^33.                   *)
Nearest(a, b) ==
    IF a = 0 THEN [m |-> 0, w |-> 1]
    ELSE IF a \div b < 2 ^ 24
    THEN LET t == CHOOSE t \in 0 .. 30 : (a * 2 ^ t) \div b \in Mantissa
         IN  [m |-> Rounded(a * 2 ^ t, b), w |-> 2 ^ t]
    ELSE LET t == CHOOSE t \in 0 .. 9 : a \div (b * 2 ^ t) \in Mantissa
         IN  [m |-> 2 ^ t * Rounded(a, b * 2 ^ t), w |-> 1]
Quotient(x, d) ==
    LET q == Nearest(x.m, d)
    IN  [m |-> q.m, w |-> x.w * q.w]

(* printf("%.nf"): the integer part, and n digits of the rest, rounded.    *)
Printed(x, n) ==
    LET start == [f |-> x.m % x.w, w |-> x.w, shown |-> 0]
        digits[k \in 0 .. n] ==
            IF k = 0 THEN start
            ELSE LET d == digits[k - 1]
                     h == d.w \div 2
                 IN  IF d.w = 1 THEN [d EXCEPT !.shown = 10 * @]
                     ELSE [f |-> (5 * d.f) % h, w |-> h,
                           shown |-> 10 * d.shown + (5 * d.f) \div h]
        last == digits[n]
        r    == 2 * last.f
        dec  == IF r > last.w \/ (r = last.w /\ last.shown % 2 = 1)
                THEN last.shown + 1 ELSE last.shown
    IN  <<x.m \div x.w + dec \div 10 ^ n, dec % 10 ^ n>>

(***************************************************************************)
(* The subscriber.  A position is counted from the first byte after TYPE.  *)
(***************************************************************************)
At(i) == TopicLen + 1 + i

(* ntohl into an int: sign and magnitude, the latter in two halves.        *)
AsInt(hi, lo) ==
    IF hi < 32768 THEN [neg |-> FALSE, hi |-> hi, lo |-> lo]
    ELSE IF lo = 0 THEN [neg |-> TRUE, hi |-> 65536 - hi, lo |-> 0]
    ELSE [neg |-> TRUE, hi |-> 65535 - hi, lo |-> 65536 - lo]

(* The product with -1; of the lowest int it is that int again.            *)
Negated(p) ==
    IF p.hi = 32768 \/ (p.hi = 0 /\ p.lo = 0) THEN p ELSE [p EXCEPT !.neg = ~ @]

\* broken: any sign but 0 negates.
processIntMessageAny(f) ==
    LET p == AsInt(Short(f, At(2)), Short(f, At(4)))
    IN  IF f[At(1)] # 0 THEN Negated(p) ELSE p
processIntMessage(f) ==
    LET p == AsInt(Short(f, At(2)), Short(f, At(4)))
    IN  IF f[At(1)] = 1 THEN Negated(p) ELSE p

\* broken: the division is one of integers.
processShortRealMessageWhole(f) == <<Short(f, At(1)) \div 100, 0>>
processShortRealMessage(f) ==
    Printed(Quotient([m |-> Short(f, At(1)), w |-> 1], 100), 2)

\* broken: the loop counts from 1.
convert_number_fewer(number, point) ==
    LET p[k \in 0 .. point] == IF k <= 1 THEN Nearest(number, 1) ELSE Quotient(p[k - 1], 10)
    IN  p[point]
convert_number(number, point) ==
    LET p[k \in 0 .. point] == IF k = 0 THEN Nearest(number, 1) ELSE Quotient(p[k - 1], 10)
    IN  p[point]
processFloatMessage(f) ==
    LET number == Short(f, At(2)) * 65536 + Short(f, At(4))
    IN  <<f[At(1)] = 1>> \o Printed(convert_number(number, f[At(6)]), 6)

processStringMessage(f) == Text(SubSeq(f, At(1), At(ContentLen)))

(* Everything that is displayed; "Invalid message." shows nothing else.    *)
processMessage(f) ==
    LET type == f[TopicLen + 1]
    IN  IF type > 3 THEN [type |-> type]
        ELSE [type  |-> type,
              topic |-> Text(SubSeq(f, 1, TopicLen)),
              ip    |-> Text(SubSeq(f, ServerLen + 1, ServerLen + IpLen)),
              port  |-> Short(f, ServerLen + IpLen + 1),
              value |-> CASE type = 0 -> processIntMessage(f)
                          [] type = 1 -> processShortRealMessage(f)
                          [] type = 2 -> processFloatMessage(f)
                          [] type = 3 -> processStringMessage(f)]
Shows ==
    /\ frame # <<>> /\ display = Nothing
    /\ display' = processMessage(frame)
    /\ UNCHANGED <<meant, buffer, frame>>

Init ==
    /\ \E kind \in Published : meant \in kind
    /\ buffer = [i \in 1 .. ServerLen |-> Left]
    /\ frame = <<>>
    /\ display = Nothing
Next == receive_udp_message \/ Shows
Spec == Init /\ [][Next]_vars

(***************************************************************************)
(* Properties.                                                             *)
(***************************************************************************)
Shown(type) == display # Nothing /\ meant.type = type

(* A frame is as long as the subscriber expects, with its separator last,  *)
(* and all of it are bytes.                                                *)
PayloadTypeOK ==
    /\ buffer \in [1 .. ServerLen -> Byte]
    /\ frame = <<>> \/ frame \in [1 .. ServerLen + IpLen + 3 -> Byte]
    /\ frame # <<>> => frame[Len(frame)] = 13

(* format_buffer and processMessage agree where topic, address and port    *)
(* are, whatever the lengths, a topic of full length without a NUL         *)
(* included.                                                               *)
FieldsShown ==
    display # Nothing /\ meant.type <= 3 =>
       /\ display.topic = meant.topic
       /\ display.ip = meant.ip /\ display.port = meant.port
       /\ display.type = meant.type

(* processStringMessage: a text ends where it ended for the publisher, or  *)
(* at CONTENT_LEN, and nothing of the message that was in the server's     *)
(* buffer before comes after it.                                           *)
TextShown ==
    Shown(3) => display.value = SubSeq(meant.text, 1,
                   IF Len(meant.text) < ContentLen THEN Len(meant.text) ELSE ContentLen)

(* processIntMessage: an integer that an int can hold is shown with its    *)
(* sign, the lowest one, whose negation overflows, included; zero has none.*)
FitsInt(m) == m.hi < 32768 \/ (m.hi = 32768 /\ m.lo = 0 /\ m.sign = 1)
IntShown ==
    Shown(0) /\ FitsInt(meant) =>
       display.value = [neg |-> meant.sign = 1 /\ (meant.hi # 0 \/ meant.lo # 0),
                        hi |-> meant.hi, lo |-> meant.lo]

(* processShortRealMessage: although a float cannot hold most hundredths,  *)
(* the two decimals shown are the two sent, for every one of the 65536.    *)
ShortRealShown ==
    Shown(1) => display.value = <<meant.lo \div 100, meant.lo % 100>>

(* processFloatMessage: each of the roundings, the first one of the number *)
(* and one more for each division by ten, loses at most half a unit in the *)
(* last place: a 2^24th part of the value.  Six decimals show all that was *)
(* meant if the point is moved by six places at most.                      *)
Digits(m) ==
    LET n == m.hi * 65536 + m.lo
    IN  <<n \div 10 ^ m.point, (n % 10 ^ m.point) * 10 ^ (6 - m.point)>>
FloatShown ==
    Shown(2) /\ meant.point <= 6 =>
       LET d == Digits(meant)
           miss == (display.value[2] - d[1]) * 10 ^ 6 + display.value[3] - d[2]
           most == ((d[1] + 1) * (meant.point + 1) * 6 + 50) \div 100
       IN  display.value[1] = (meant.sign = 1) /\ - most <= miss /\ miss <= most
=============================================================================
