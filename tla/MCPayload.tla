----------------------------- MODULE MCPayload -----------------------------
(* Constants of Payload for TLC.                                           *)
EXTENDS Payload

Blank == [type |-> 0, topic |-> <<97>>, ip |-> <<49, 46>>, port |-> 3338,
          sign |-> 0, hi |-> 0, lo |-> 0, point |-> 0, text |-> <<>>]

(* Bytes at the edges, in all four places.                                 *)
Edges == {0, 1, 127, 128, 255}
Halves == {256 * i + k : i, k \in Edges}
Ints == {[Blank EXCEPT !.hi = h, !.lo = l, !.sign = s] : h, l \in Halves, s \in 0 .. 2}

(* Every 16-bit number.                                                    *)
ShortReals == {[Blank EXCEPT !.type = 1, !.lo = l] : l \in 0 .. 65535}

(* Numbers from a hundredth to two thousand: all of few digits, and some   *)
(* that a float cannot hold.                                               *)
Numbers == 0 .. 1500 \cup
    {16777215, 16777217, 12344321, 99999999, 123456789, 1234567890, 1999999999, 2147483583}
Floats ==
    {[Blank EXCEPT !.type = 2, !.hi = x[1] \div 65536, !.lo = x[1] % 65536,
                   !.point = x[2], !.sign = x[3]] :
       x \in {x \in Numbers \X (0 .. 6) \X (0 .. 2) :
                x[1] = 0 \/ (x[1] <= 2000 /\ 100 * x[1] >= 10 ^ x[2])
                         \/ (x[1] > 2000 /\ x[1] \div 10 ^ x[2] < 2000)}}

(* Texts, topics and addresses of every length, and an unknown type.       *)
Texts ==
    {[Blank EXCEPT !.type = t, !.topic = [i \in 1 .. n |-> 98], !.ip = [i \in 1 .. a |-> 50],
                   !.port = p, !.text = [i \in 1 .. x |-> 13]] :
       t \in {3, 4}, n \in 1 .. TopicLen, a \in 1 .. IpLen - 1, p \in {13, 1024, 65535},
       x \in 0 .. ContentLen + 1}

Everything == {Ints, ShortReals, Floats, Texts}
=============================================================================
