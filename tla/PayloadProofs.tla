---------------------------- MODULE PayloadProofs ----------------------------
(***************************************************************************)
(* What is displayed is what was published, for fields of any length and   *)
(* messages of any contents: proofs about Payload.                         *)
(***************************************************************************)
EXTENDS Payload, SequenceTheorems, TLAPS

(***************************************************************************)
(* Bytes and fields.                                                       *)
(***************************************************************************)

(* 16 bits are two bytes, and are read as they were written.               *)
LEMMA TwoBytes ==
    ASSUME NEW n \in Word
    PROVE  /\ Bytes(n) \in Seq(Byte) /\ Len(Bytes(n)) = 2
           /\ Bytes(n)[1] * 256 + Bytes(n)[2] = n
<1>1. n \div 256 \in Byte /\ n % 256 \in Byte /\ (n \div 256) * 256 + (n % 256) = n
  BY DEF Byte, Word
<1> QED BY <1>1 DEF Bytes

(* A byte and two pairs of bytes, one after the other.                     *)
LEMMA FiveBytes ==
    ASSUME NEW S, NEW x \in S, NEW s \in Seq(S), NEW t \in Seq(S), Len(s) = 2, Len(t) = 2
    PROVE  /\ <<x>> \o s \o t \in Seq(S) /\ Len(<<x>> \o s \o t) = 5
           /\ (<<x>> \o s \o t)[1] = x
           /\ (<<x>> \o s \o t)[2] = s[1] /\ (<<x>> \o s \o t)[3] = s[2]
           /\ (<<x>> \o s \o t)[4] = t[1] /\ (<<x>> \o s \o t)[5] = t[2]
<1> DEFINE a == <<x>>
           u == a \o s
           v == u \o t
<1>1. a \in Seq(S) /\ Len(a) = 1 /\ a[1] = x
  OBVIOUS
<1> HIDE DEF a
<1>2. /\ u \in Seq(S) /\ Len(u) = Len(a) + Len(s)
      /\ \A i \in 1 .. Len(a) + Len(s) : u[i] = IF i <= Len(a) THEN a[i] ELSE s[i - Len(a)]
  BY <1>1, ConcatProperties
<1> HIDE DEF u
<1>3. Len(u) = 3 /\ u[1] = x /\ u[2] = s[1] /\ u[3] = s[2]
  <2>1. Len(u) = 3 /\ 1 \in 1 .. Len(a) + Len(s) /\ 2 \in 1 .. Len(a) + Len(s) /\ 3 \in 1 .. Len(a) + Len(s)
    BY <1>1, <1>2
  <2>2. u[1] = a[1]
    BY <1>1, <1>2, <2>1
  <2>3. u[2] = s[2 - 1] /\ u[3] = s[3 - 1]
    BY <1>1, <1>2, <2>1
  <2> QED BY <1>1, <2>1, <2>2, <2>3
<1>4. /\ v \in Seq(S) /\ Len(v) = Len(u) + Len(t)
      /\ \A i \in 1 .. Len(u) + Len(t) : v[i] = IF i <= Len(u) THEN u[i] ELSE t[i - Len(u)]
  <2>1. u \in Seq(S)
    BY <1>2
  <2> QED BY <2>1, ConcatProperties
<1> HIDE DEF v
<1>5. Len(v) = 5 /\ Len(u) + Len(t) = 5
  <2>1. Len(u) = 3 /\ Len(t) = 2 /\ Len(v) = Len(u) + Len(t)
    BY <1>3, <1>4
  <2> QED BY <2>1
<1>6. v[1] = u[1] /\ v[2] = u[2] /\ v[3] = u[3]
  BY <1>3, <1>4, <1>5
<1>7. v[4] = t[4 - 3] /\ v[5] = t[5 - 3]
  BY <1>3, <1>4, <1>5
<1> QED BY <1>3, <1>4, <1>5, <1>6, <1>7 DEF v, u, a

LEMMA ByteIs ==
    ASSUME NEW x \in Byte
    PROVE  x \in Nat
BY DEF Byte

LEMMA WordIs ==
    ASSUME NEW x \in Word
    PROVE  x \in Nat
BY DEF Word

LEMMA LetterIs ==
    ASSUME NEW x \in Letter
    PROVE  x \in Byte /\ x # 0
BY DEF Letter, Byte

(* A field that is filled up with NULs.                                    *)
LEMMA PaddedField ==
    ASSUME NEW s \in Seq(Byte), NEW n \in Nat, Len(s) <= n
    PROVE  /\ Padded(s, n) \in Seq(Byte) /\ Len(Padded(s, n)) = n
           /\ \A i \in 1 .. n : Padded(s, n)[i] = IF i <= Len(s) THEN s[i] ELSE 0
<1>1. n - Len(s) \in Nat /\ Len(s) \in Nat
  OBVIOUS
<1>2. /\ Zeros(n - Len(s)) \in Seq(Byte) /\ Len(Zeros(n - Len(s))) = n - Len(s)
      /\ \A i \in 1 .. n - Len(s) : Zeros(n - Len(s))[i] = 0
  BY <1>1 DEF Zeros, Byte
<1> DEFINE z == Zeros(n - Len(s))
<1> HIDE DEF z
<1>3. z \in Seq(Byte) /\ Len(z) = n - Len(s) /\ \A i \in 1 .. n - Len(s) : z[i] = 0
  BY <1>2 DEF z
<1>4. /\ s \o z \in Seq(Byte) /\ Len(s \o z) = n
      /\ \A i \in 1 .. n : (s \o z)[i] = IF i <= Len(s) THEN s[i] ELSE z[i - Len(s)]
  BY <1>1, <1>3, ConcatProperties
<1>5. \A i \in 1 .. n : ~ (i <= Len(s)) => z[i - Len(s)] = 0
  BY <1>1, <1>3
<1>6. Padded(s, n) = s \o z
  BY DEF Padded, z
<1> QED BY <1>4, <1>5, <1>6

(* What is shown of bytes in which the first NUL, if any, is at n + 1.     *)
LEMMA TextEnds ==
    ASSUME NEW s \in Seq(Byte), NEW n \in 0 .. Len(s),
           \A i \in 1 .. n : s[i] # 0,
           n < Len(s) => s[n + 1] = 0
    PROVE  Text(s) = SubSeq(s, 1, n)
<1> DEFINE E(k) == /\ \A i \in 1 .. k : s[i] # 0
                   /\ k < Len(s) => s[k + 1] = 0
           e == CHOOSE k \in 0 .. Len(s) : E(k)
<1>1. e \in 0 .. Len(s) /\ E(e)
  <2>1. E(n)
    OBVIOUS
  <2> QED BY <2>1
<1>2. Text(s) = SubSeq(s, 1, e)
  BY DEF Text
<1> HIDE DEF e
<1>3. e = n
  <2>0. Len(s) \in Nat
    OBVIOUS
  <2>1. ~ e < n
    <3> SUFFICES ASSUME e < n PROVE FALSE
      OBVIOUS
    <3>1. s[e + 1] = 0 /\ e + 1 \in 1 .. n
      BY <1>1, <2>0
    <3> QED BY <3>1
  <2>2. ~ n < e
    <3> SUFFICES ASSUME n < e PROVE FALSE
      OBVIOUS
    <3>1. s[n + 1] = 0 /\ n + 1 \in 1 .. e
      BY <1>1, <2>0
    <3> QED BY <1>1, <3>1
  <2> QED BY <1>1, <2>0, <2>1, <2>2
<1> QED BY <1>2, <1>3

(* A text in a field, with NULs behind it, or as long as the field.        *)
LEMMA FieldShown ==
    ASSUME NEW t \in Seq(Letter), NEW s \in Seq(Byte), Len(t) <= Len(s),
           \A i \in 1 .. Len(s) : s[i] = IF i <= Len(t) THEN t[i] ELSE 0
    PROVE  Text(s) = t
<1>0. \A i \in 1 .. Len(t) : t[i] \in Letter
  OBVIOUS
<1>1. Len(t) \in 0 .. Len(s) /\ Len(s) \in Nat /\ \A i \in 1 .. Len(t) : t[i] # 0
  BY <1>0, LetterIs
<1>2. Text(s) = SubSeq(s, 1, Len(t))
  <2>1. \A i \in 1 .. Len(t) : s[i] # 0
    BY <1>1
  <2>2. Len(t) < Len(s) => s[Len(t) + 1] = 0
    BY <1>1
  <2> QED BY <1>1, <2>1, <2>2, TextEnds
<1>3. /\ SubSeq(s, 1, Len(t)) \in Seq(Byte) /\ Len(SubSeq(s, 1, Len(t))) = Len(t)
      /\ \A i \in 1 .. Len(t) : SubSeq(s, 1, Len(t))[i] = s[i]
  BY <1>1
<1>4. \A i \in 1 .. Len(t) : SubSeq(s, 1, Len(t))[i] = t[i]
  BY <1>1, <1>3
<1>5. t \in Seq(Byte)
  BY <1>0 DEF Letter, Byte
<1> QED BY <1>2, <1>3, <1>4, <1>5, SeqEqual

(***************************************************************************)
(* The way of a message.                                                   *)
(***************************************************************************)
Meaning(m) == m \in Message /\ Len(m.topic) <= TopicLen /\ Len(m.ip) < IpLen

LEMMA Lengths ==
    /\ TopicLen \in Nat /\ TopicLen >= 1 /\ IpLen \in Nat /\ ContentLen \in Nat
    /\ ContentLen >= 6 /\ ServerLen = TopicLen + 1 + ContentLen /\ ServerLen \in Nat
BY PayloadAssumption DEF ServerLen

LEMMA LettersAreBytes ==
    ASSUME NEW t \in Seq(Letter)
    PROVE  t \in Seq(Byte)
<1>1. \A i \in 1 .. Len(t) : t[i] \in Letter
  OBVIOUS
<1> QED BY <1>1 DEF Letter, Byte

LEMMA MessageFields ==
    ASSUME NEW m, Meaning(m)
    PROVE  /\ m.type \in Byte /\ m.sign \in Byte /\ m.point \in Byte
           /\ m.hi \in Word /\ m.lo \in Word /\ m.port \in Word
           /\ m.topic \in Seq(Letter) /\ Len(m.topic) <= TopicLen
           /\ m.ip \in Seq(Letter) /\ Len(m.ip) < IpLen
           /\ m.text \in Seq(Letter)
BY DEF Meaning, Message

(* The contents of each type.                                              *)
LEMMA ContentIs ==
    ASSUME NEW m, Meaning(m)
    PROVE  /\ Content(m) \in Seq(Byte)
           /\ m.type = 0 =>
                /\ Len(Content(m)) = 5 /\ Content(m)[1] = m.sign
                /\ Content(m)[2] * 256 + Content(m)[3] = m.hi
                /\ Content(m)[4] * 256 + Content(m)[5] = m.lo
           /\ m.type = 1 =>
                /\ Len(Content(m)) = 2
                /\ Content(m)[1] * 256 + Content(m)[2] = m.lo
           /\ m.type = 2 =>
                /\ Len(Content(m)) = 6 /\ Content(m)[1] = m.sign
                /\ Content(m)[2] * 256 + Content(m)[3] = m.hi
                /\ Content(m)[4] * 256 + Content(m)[5] = m.lo
                /\ Content(m)[6] = m.point
           /\ m.type = 3 => Content(m) = m.text
<1>1. /\ Bytes(m.hi) \in Seq(Byte) /\ Len(Bytes(m.hi)) = 2
      /\ Bytes(m.hi)[1] * 256 + Bytes(m.hi)[2] = m.hi
  BY MessageFields, TwoBytes
<1>2. /\ Bytes(m.lo) \in Seq(Byte) /\ Len(Bytes(m.lo)) = 2
      /\ Bytes(m.lo)[1] * 256 + Bytes(m.lo)[2] = m.lo
  BY MessageFields, TwoBytes
<1>3. m.sign \in Byte /\ m.point \in Byte /\ m.text \in Seq(Byte)
  BY MessageFields, LettersAreBytes
<1> DEFINE i == <<m.sign>> \o Bytes(m.hi) \o Bytes(m.lo)
<1>4. /\ i \in Seq(Byte) /\ Len(i) = 5 /\ i[1] = m.sign
      /\ i[2] = Bytes(m.hi)[1] /\ i[3] = Bytes(m.hi)[2]
      /\ i[4] = Bytes(m.lo)[1] /\ i[5] = Bytes(m.lo)[2]
  BY <1>1, <1>2, <1>3, FiveBytes
<1>5. /\ m.type = 0 => Content(m) = i
      /\ m.type = 1 => Content(m) = Bytes(m.lo)
      /\ m.type = 2 => Content(m) = i \o <<m.point>>
      /\ m.type \notin {0, 1, 2} => Content(m) = m.text
  BY DEF Content
<1> HIDE DEF i
<1>6. CASE m.type = 0
  BY <1>1, <1>2, <1>4, <1>5, <1>6
<1>7. CASE m.type = 1
  BY <1>2, <1>5, <1>7
<1>8. CASE m.type = 2
  <2> DEFINE z == <<m.point>>
  <2>1. z \in Seq(Byte) /\ Len(z) = 1 /\ z[1] = m.point
    BY <1>3
  <2>2. i \in Seq(Byte)
    BY <1>4
  <2> HIDE DEF z
  <2>3. PICK c : c = i \o z
    OBVIOUS
  <2>4. /\ c \in Seq(Byte) /\ Len(c) = Len(i) + Len(z)
        /\ \A k \in 1 .. Len(i) + Len(z) : c[k] = IF k <= Len(i) THEN i[k] ELSE z[k - Len(i)]
    BY <2>1, <2>2, <2>3, ConcatProperties
  <2>5. Len(c) = 6 /\ Len(i) + Len(z) = 6
    BY <1>4, <2>1, <2>4
  <2>6. \A k \in 1 .. 5 : c[k] = i[k]
    BY <1>4, <2>4, <2>5
  <2>7. c[6] = z[6 - 5]
    BY <1>4, <2>4, <2>5
  <2>8. /\ c[1] = m.sign /\ c[6] = m.point
        /\ c[2] = Bytes(m.hi)[1] /\ c[3] = Bytes(m.hi)[2]
        /\ c[4] = Bytes(m.lo)[1] /\ c[5] = Bytes(m.lo)[2]
    BY <1>4, <2>1, <2>6, <2>7
  <2>9. Content(m) = c
    BY <1>5, <1>8, <2>3 DEF z
  <2>10. c[2] * 256 + c[3] = m.hi /\ c[4] * 256 + c[5] = m.lo
    BY <1>1, <1>2, <2>8
  <2>11. m.type # 0 /\ m.type # 1 /\ m.type # 3
    BY <1>8
  <2>12. c \in Seq(Byte) /\ Len(c) = 6 /\ c[1] = m.sign /\ c[6] = m.point
    BY <2>4, <2>5, <2>8
  <2> QED BY <2>9, <2>10, <2>11, <2>12
<1>9. CASE m.type \notin {0, 1, 2}
  BY <1>3, <1>5, <1>9
<1> QED BY <1>6, <1>7, <1>8, <1>9

(* Topic, type and contents of a datagram.                                 *)
LEMMA DatagramIs ==
    ASSUME NEW m, Meaning(m)
    PROVE  /\ Datagram(m) \in Seq(Byte)
           /\ Len(Datagram(m)) = TopicLen + 1 + Len(Content(m))
           /\ \A i \in 1 .. TopicLen :
                Datagram(m)[i] = IF i <= Len(m.topic) THEN m.topic[i] ELSE 0
           /\ Datagram(m)[TopicLen + 1] = m.type
           /\ \A k \in 1 .. Len(Content(m)) : Datagram(m)[At(k)] = Content(m)[k]
<1>1. m.topic \in Seq(Byte) /\ Len(m.topic) <= TopicLen /\ m.type \in Byte
  BY MessageFields, LettersAreBytes
<1> DEFINE t == Padded(m.topic, TopicLen)
           c == Content(m)
           u == t \o <<m.type>>
<1>2. /\ t \in Seq(Byte) /\ Len(t) = TopicLen
      /\ \A i \in 1 .. TopicLen : t[i] = IF i <= Len(m.topic) THEN m.topic[i] ELSE 0
  BY <1>1, Lengths, PaddedField
<1>3. c \in Seq(Byte) /\ Len(c) \in Nat
  BY ContentIs
<1>4. <<m.type>> \in Seq(Byte) /\ Len(<<m.type>>) = 1 /\ <<m.type>>[1] = m.type
  BY <1>1
<1>5. Datagram(m) = u \o c
  BY DEF Datagram
<1> HIDE DEF t, c
<1>6. /\ u \in Seq(Byte) /\ Len(u) = TopicLen + 1
      /\ \A i \in 1 .. TopicLen + 1 :
            u[i] = IF i <= TopicLen THEN t[i] ELSE <<m.type>>[i - TopicLen]
  BY <1>2, <1>4, ConcatProperties
<1>7. u[TopicLen + 1] = m.type
  BY <1>4, <1>6, Lengths
<1> HIDE DEF u
<1>8. /\ u \o c \in Seq(Byte) /\ Len(u \o c) = TopicLen + 1 + Len(c)
      /\ \A i \in 1 .. TopicLen + 1 + Len(c) :
            (u \o c)[i] = IF i <= TopicLen + 1 THEN u[i] ELSE c[i - (TopicLen + 1)]
  BY <1>3, <1>6, ConcatProperties
<1>9. \A i \in 1 .. TopicLen : (u \o c)[i] = t[i]
  BY <1>3, <1>6, <1>8, Lengths
<1>10. (u \o c)[TopicLen + 1] = m.type
  BY <1>3, <1>7, <1>8, Lengths
<1>11. \A k \in 1 .. Len(c) : (u \o c)[At(k)] = c[k]
  BY <1>3, <1>8, Lengths DEF At
<1> QED BY <1>2, <1>5, <1>8, <1>9, <1>10, <1>11 DEF c

(* What recvfrom puts in the cleared buffer.                               *)
LEMMA ReceivedIs ==
    ASSUME NEW d \in Seq(Byte)
    PROVE  /\ Received(d) \in Seq(Byte) /\ Len(Received(d)) = ServerLen
           /\ \A i \in 1 .. ServerLen : Received(d)[i] = IF i <= Len(d) THEN d[i] ELSE 0
<1>1. \A i \in 1 .. ServerLen : (IF i <= Len(d) THEN d[i] ELSE 0) \in Byte
  <2>1. Len(d) \in Nat /\ \A i \in 1 .. Len(d) : d[i] \in Byte
    OBVIOUS
  <2>2. 0 \in Byte
    BY DEF Byte
  <2> QED BY <2>1, <2>2, Lengths
<1> QED BY <1>1, Lengths DEF Received

(* The fields of a frame.                                                  *)
LEMMA FormatIs ==
    ASSUME NEW b \in Seq(Byte), Len(b) = ServerLen,
           NEW ip \in Seq(Byte), Len(ip) <= IpLen, NEW port \in Word
    PROVE  LET f == format_buffer(b, ip, port)
           IN  /\ f \in Seq(Byte) /\ Len(f) = ServerLen + IpLen + 3
               /\ \A i \in 1 .. ServerLen : f[i] = b[i]
               /\ \A i \in 1 .. IpLen :
                    f[ServerLen + i] = IF i <= Len(ip) THEN ip[i] ELSE 0
               /\ f[ServerLen + IpLen + 1] * 256 + f[ServerLen + IpLen + 2] = port
               /\ f[ServerLen + IpLen + 3] = 13
<1> DEFINE a == Padded(ip, IpLen)
           p == Bytes(port)
           z == <<13>>
           u == b \o a
           v == u \o p
           f == v \o z
<1>1. /\ a \in Seq(Byte) /\ Len(a) = IpLen
      /\ \A i \in 1 .. IpLen : a[i] = IF i <= Len(ip) THEN ip[i] ELSE 0
  BY Lengths, PaddedField
<1>2. p \in Seq(Byte) /\ Len(p) = 2 /\ p[1] * 256 + p[2] = port
  BY TwoBytes
<1>3. z \in Seq(Byte) /\ Len(z) = 1 /\ z[1] = 13
  BY DEF Byte
<1>4. format_buffer(b, ip, port) = f
  BY DEF format_buffer
<1> HIDE DEF a, p, z
<1>5. ServerLen \in Nat /\ IpLen \in Nat
  BY Lengths
<1>6. /\ u \in Seq(Byte) /\ Len(u) = ServerLen + IpLen
      /\ \A i \in 1 .. ServerLen + IpLen :
            u[i] = IF i <= ServerLen THEN b[i] ELSE a[i - ServerLen]
  <2>1. a \in Seq(Byte)
    BY <1>1
  <2>2. /\ u \in Seq(Byte) /\ Len(u) = Len(b) + Len(a)
        /\ \A i \in 1 .. Len(b) + Len(a) : u[i] = IF i <= Len(b) THEN b[i] ELSE a[i - Len(b)]
    BY <2>1, ConcatProperties
  <2> QED BY <1>1, <2>2
<1> HIDE DEF u
<1>7. /\ v \in Seq(Byte) /\ Len(v) = ServerLen + IpLen + 2
      /\ \A i \in 1 .. ServerLen + IpLen + 2 :
            v[i] = IF i <= ServerLen + IpLen THEN u[i] ELSE p[i - (ServerLen + IpLen)]
  <2>1. p \in Seq(Byte) /\ u \in Seq(Byte)
    BY <1>2, <1>6
  <2>2. /\ v \in Seq(Byte) /\ Len(v) = Len(u) + Len(p)
        /\ \A i \in 1 .. Len(u) + Len(p) : v[i] = IF i <= Len(u) THEN u[i] ELSE p[i - Len(u)]
    BY <2>1, ConcatProperties
  <2> QED BY <1>2, <1>6, <2>2
<1> HIDE DEF v
<1>8. /\ f \in Seq(Byte) /\ Len(f) = ServerLen + IpLen + 3
      /\ \A i \in 1 .. ServerLen + IpLen + 3 :
            f[i] = IF i <= ServerLen + IpLen + 2 THEN v[i] ELSE z[i - (ServerLen + IpLen + 2)]
  <2>1. z \in Seq(Byte) /\ v \in Seq(Byte)
    BY <1>3, <1>7
  <2>2. /\ f \in Seq(Byte) /\ Len(f) = Len(v) + Len(z)
        /\ \A i \in 1 .. Len(v) + Len(z) : f[i] = IF i <= Len(v) THEN v[i] ELSE z[i - Len(v)]
    BY <2>1, ConcatProperties
  <2>3. Len(v) + Len(z) = ServerLen + IpLen + 3
    BY <1>3, <1>5, <1>7
  <2> QED BY <1>7, <2>2, <2>3
<1> HIDE DEF f
<1>9. \A i \in 1 .. ServerLen : f[i] = b[i]
  BY <1>5, <1>6, <1>7, <1>8
<1>10. \A i \in 1 .. IpLen : f[ServerLen + i] = a[i]
  <2> SUFFICES ASSUME NEW i \in 1 .. IpLen PROVE f[ServerLen + i] = a[i]
    OBVIOUS
  <2> DEFINE k == ServerLen + i
  <2>1. /\ k \in 1 .. ServerLen + IpLen /\ ~ k <= ServerLen /\ k - ServerLen = i
        /\ k \in 1 .. ServerLen + IpLen + 2 /\ k <= ServerLen + IpLen
        /\ k \in 1 .. ServerLen + IpLen + 3 /\ k <= ServerLen + IpLen + 2
    BY <1>5
  <2> HIDE DEF k
  <2>2. f[k] = v[k] /\ v[k] = u[k] /\ u[k] = a[i]
    BY <1>6, <1>7, <1>8, <2>1
  <2> QED BY <2>2 DEF k
<1>11. ASSUME NEW j \in 1 .. 2
       PROVE  f[ServerLen + IpLen + j] = p[j]
  <2> DEFINE k == ServerLen + IpLen + j
  <2>1. /\ k \in 1 .. ServerLen + IpLen + 2 /\ ~ k <= ServerLen + IpLen
        /\ k - (ServerLen + IpLen) = j
        /\ k \in 1 .. ServerLen + IpLen + 3 /\ k <= ServerLen + IpLen + 2
    BY <1>5
  <2> HIDE DEF k
  <2>2. f[k] = v[k] /\ v[k] = p[j]
    BY <1>7, <1>8, <2>1
  <2> QED BY <2>2 DEF k
<1>12. f[ServerLen + IpLen + 1] = p[1] /\ f[ServerLen + IpLen + 2] = p[2]
  BY <1>11
<1>13. f[ServerLen + IpLen + 3] = 13
  <2> DEFINE k == ServerLen + IpLen + 3
  <2>1. /\ k \in 1 .. ServerLen + IpLen + 3 /\ ~ k <= ServerLen + IpLen + 2
        /\ k - (ServerLen + IpLen + 2) = 1
    BY <1>5
  <2> HIDE DEF k
  <2>2. f[k] = z[1]
    BY <1>8, <2>1
  <2> QED BY <1>3, <2>2 DEF k
<1>14. \A i \in 1 .. IpLen : f[ServerLen + i] = IF i <= Len(ip) THEN ip[i] ELSE 0
  BY <1>1, <1>10
<1>15. f[ServerLen + IpLen + 1] * 256 + f[ServerLen + IpLen + 2] = port
  BY <1>2, <1>12
<1> QED BY <1>4, <1>8, <1>9, <1>13, <1>14, <1>15

(* The frame made of a message.                                            *)
FrameOf(m) == format_buffer(Received(Datagram(m)), m.ip, m.port)

LEMMA FrameIs ==
    ASSUME NEW m, Meaning(m)
    PROVE  /\ FrameOf(m) \in Seq(Byte) /\ Len(FrameOf(m)) = ServerLen + IpLen + 3
           /\ \A i \in 1 .. TopicLen :
                FrameOf(m)[0 + i] = IF i <= Len(m.topic) THEN m.topic[i] ELSE 0
           /\ FrameOf(m)[TopicLen + 1] = m.type
           /\ \A k \in 1 .. ContentLen :
                FrameOf(m)[At(k)] = IF k <= Len(Content(m)) THEN Content(m)[k] ELSE 0
           /\ \A i \in 1 .. IpLen :
                FrameOf(m)[ServerLen + i] = IF i <= Len(m.ip) THEN m.ip[i] ELSE 0
           /\ Short(FrameOf(m), ServerLen + IpLen + 1) = m.port
           /\ FrameOf(m)[ServerLen + IpLen + 3] = 13
<1> DEFINE d == Datagram(m)
           b == Received(d)
           f == FrameOf(m)
           c == Content(m)
<1>1. /\ d \in Seq(Byte) /\ Len(d) = TopicLen + 1 + Len(c)
      /\ \A i \in 1 .. TopicLen : d[i] = IF i <= Len(m.topic) THEN m.topic[i] ELSE 0
      /\ d[TopicLen + 1] = m.type
      /\ \A k \in 1 .. Len(c) : d[At(k)] = c[k]
  BY DatagramIs
<1>2. c \in Seq(Byte) /\ Len(c) \in Nat
  BY ContentIs
<1> HIDE DEF d, c
<1>3. /\ b \in Seq(Byte) /\ Len(b) = ServerLen
      /\ \A i \in 1 .. ServerLen : b[i] = IF i <= Len(d) THEN d[i] ELSE 0
  BY <1>1, ReceivedIs
<1>4. /\ m.ip \in Seq(Byte) /\ Len(m.ip) <= IpLen /\ m.port \in Word
  <2>1. m.ip \in Seq(Letter) /\ Len(m.ip) < IpLen /\ m.port \in Word
    BY MessageFields
  <2>2. m.ip \in Seq(Byte)
    BY <2>1, LettersAreBytes
  <2> QED BY <2>1, <2>2, Lengths
<1>5. f = format_buffer(b, m.ip, m.port)
  BY DEF FrameOf, d
<1> HIDE DEF b, f
<1>6. /\ f \in Seq(Byte) /\ Len(f) = ServerLen + IpLen + 3
      /\ \A i \in 1 .. ServerLen : f[i] = b[i]
      /\ \A i \in 1 .. IpLen : f[ServerLen + i] = IF i <= Len(m.ip) THEN m.ip[i] ELSE 0
      /\ f[ServerLen + IpLen + 1] * 256 + f[ServerLen + IpLen + 2] = m.port
      /\ f[ServerLen + IpLen + 3] = 13
  <2>1. b \in Seq(Byte) /\ Len(b) = ServerLen
    BY <1>3
  <2> QED BY <1>4, <1>5, <2>1, FormatIs, SMTT(30)
<1>7. \A i \in 1 .. ServerLen : f[i] = IF i <= Len(d) THEN d[i] ELSE 0
  BY <1>3, <1>6
<1>8. \A i \in 1 .. TopicLen : f[0 + i] = IF i <= Len(m.topic) THEN m.topic[i] ELSE 0
  <2> SUFFICES ASSUME NEW i \in 1 .. TopicLen
               PROVE  f[0 + i] = IF i <= Len(m.topic) THEN m.topic[i] ELSE 0
    OBVIOUS
  <2>1. 0 + i = i /\ i \in 1 .. ServerLen /\ i <= Len(d)
    BY <1>1, <1>2, Lengths
  <2> QED BY <1>1, <1>7, <2>1
<1>9. f[TopicLen + 1] = m.type
  <2>1. TopicLen + 1 \in 1 .. ServerLen /\ TopicLen + 1 <= Len(d)
    BY <1>1, <1>2, Lengths
  <2> QED BY <1>1, <1>7, <2>1
<1>10. \A k \in 1 .. ContentLen : f[At(k)] = IF k <= Len(c) THEN c[k] ELSE 0
  <2> SUFFICES ASSUME NEW k \in 1 .. ContentLen
               PROVE  f[At(k)] = IF k <= Len(c) THEN c[k] ELSE 0
    OBVIOUS
  <2>1. At(k) \in 1 .. ServerLen /\ (At(k) <= Len(d) <=> k <= Len(c))
    BY <1>1, <1>2, Lengths DEF At
  <2>2. k <= Len(c) => d[At(k)] = c[k]
    BY <1>1, <1>2
  <2> QED BY <1>7, <2>1, <2>2
<1>11. Short(f, ServerLen + IpLen + 1) = m.port
  <2>1. (ServerLen + IpLen + 1) + 1 = ServerLen + IpLen + 2
    BY Lengths
  <2> QED BY <1>6, <2>1 DEF Short
<1> QED BY <1>6, <1>8, <1>9, <1>10, <1>11 DEF f, c

(***************************************************************************)
(* Numbers that are printed with some decimals, the last one rounded.      *)
(***************************************************************************)

(* The digits that are printed, one after the other.                       *)
Digit(d) ==
    IF d.w = 1 THEN [d EXCEPT !.shown = 10 * @]
    ELSE [f |-> (5 * d.f) % (d.w \div 2), w |-> d.w \div 2,
          shown |-> 10 * d.shown + (5 * d.f) \div (d.w \div 2)]
NoDigit(x) == [f |-> x.m % x.w, w |-> x.w, shown |-> 0]
Last(d) ==
    IF 2 * d.f > d.w \/ (2 * d.f = d.w /\ d.shown % 2 = 1)
    THEN d.shown + 1 ELSE d.shown

Ten(n) == 10 ^ n

LEMMA Tens ==
    /\ Ten(0) = 1 /\ Ten(1) = 10 * Ten(0) /\ Ten(2) = 10 * Ten(1) /\ Ten(3) = 10 * Ten(2)
    /\ Ten(4) = 10 * Ten(3) /\ Ten(5) = 10 * Ten(4) /\ Ten(6) = 10 * Ten(5)
BY SMT DEF Ten

(* Where a function gives all digits, printf's are those.                  *)
LEMMA DigitByDigit ==
    ASSUME NEW x, NEW n \in Nat, NEW S, NEW g \in [0 .. n -> S],
           g[0] = NoDigit(x), \A k \in 1 .. n : g[k] = Digit(g[k - 1])
    PROVE  \E d : /\ d[0] = NoDigit(x)
                  /\ \A k \in 1 .. n : d[k] = Digit(d[k - 1])
                  /\ Printed(x, n) = <<x.m \div x.w + Last(d[n]) \div Ten(n), Last(d[n]) % Ten(n)>>
<1> DEFINE Step(d, k) == IF k = 0 THEN NoDigit(x) ELSE Digit(d[k - 1])
           digits == CHOOSE d : d = [k \in 0 .. n |-> Step(d, k)]
<1>1. g = [k \in 0 .. n |-> Step(g, k)]
  <2>1. \A k \in 0 .. n : g[k] = Step(g, k)
    OBVIOUS
  <2>2. g = [k \in 0 .. n |-> g[k]]
    OBVIOUS
  <2> HIDE DEF Step
  <2> QED BY <2>1, <2>2
<1>2. digits = [k \in 0 .. n |-> Step(digits, k)]
  BY <1>1
<1>3. Printed(x, n) = <<x.m \div x.w + Last(digits[n]) \div Ten(n), Last(digits[n]) % Ten(n)>>
  BY DEF Printed, Last, Digit, NoDigit, Ten, digits
<1> HIDE DEF digits
<1>4. digits[0] = NoDigit(x) /\ \A k \in 1 .. n : digits[k] = Digit(digits[k - 1])
  BY <1>2
<1> QED BY <1>3, <1>4

LEMMA TwoDigits ==
    ASSUME NEW x
    PROVE  \E d : /\ d[0] = NoDigit(x)
                  /\ d[1] = Digit(d[0]) /\ d[2] = Digit(d[1])
                  /\ Printed(x, 2) = <<x.m \div x.w + Last(d[2]) \div 100, Last(d[2]) % 100>>
<1> DEFINE d0 == NoDigit(x)
           d1 == Digit(d0)
           d2 == Digit(d1)
<1> HIDE DEF d0, d1, d2
<1> DEFINE g == [k \in 0 .. 2 |-> IF k = 0 THEN d0 ELSE IF k = 1 THEN d1 ELSE d2]
<1>1. g \in [0 .. 2 -> {d0, d1, d2}] /\ g[0] = d0 /\ g[1] = d1 /\ g[2] = d2
  OBVIOUS
<1> HIDE DEF g
<1>2. g[0] = NoDigit(x) /\ g[1] = Digit(g[0]) /\ g[2] = Digit(g[1])
  BY <1>1 DEF d0, d1, d2
<1>3. \A k \in 1 .. 2 : g[k] = Digit(g[k - 1])
  <2>1. \A k \in 1 .. 2 : k = 1 \/ k = 2
    OBVIOUS
  <2> QED BY <1>2, <2>1
<1>4. PICK d : /\ d[0] = NoDigit(x)
               /\ \A k \in 1 .. 2 : d[k] = Digit(d[k - 1])
               /\ Printed(x, 2) = <<x.m \div x.w + Last(d[2]) \div Ten(2), Last(d[2]) % Ten(2)>>
  <2>1. 2 \in Nat
    OBVIOUS
  <2> QED BY <1>1, <1>2, <1>3, <2>1, DigitByDigit
<1>5. d[1] = Digit(d[0]) /\ d[2] = Digit(d[1]) /\ Ten(2) = 100
  BY <1>4 DEF Ten
<1> QED BY <1>4, <1>5

LEMMA SixDigits ==
    ASSUME NEW x
    PROVE  \E d : /\ d[0] = NoDigit(x)
                  /\ d[1] = Digit(d[0]) /\ d[2] = Digit(d[1]) /\ d[3] = Digit(d[2])
                  /\ d[4] = Digit(d[3]) /\ d[5] = Digit(d[4]) /\ d[6] = Digit(d[5])
                  /\ Printed(x, 6) = <<x.m \div x.w + Last(d[6]) \div Ten(6), Last(d[6]) % Ten(6)>>
<1> DEFINE d0 == NoDigit(x)
           d1 == Digit(d0)
           d2 == Digit(d1)
           d3 == Digit(d2)
           d4 == Digit(d3)
           d5 == Digit(d4)
           d6 == Digit(d5)
<1> HIDE DEF d0, d1, d2, d3, d4, d5, d6
<1> DEFINE g == [k \in 0 .. 6 |-> IF k = 0 THEN d0 ELSE IF k = 1 THEN d1 ELSE
                                  IF k = 2 THEN d2 ELSE IF k = 3 THEN d3 ELSE
                                  IF k = 4 THEN d4 ELSE IF k = 5 THEN d5 ELSE d6]
<1>1. /\ g \in [0 .. 6 -> {d0, d1, d2, d3, d4, d5, d6}]
      /\ g[0] = d0 /\ g[1] = d1 /\ g[2] = d2 /\ g[3] = d3 /\ g[4] = d4 /\ g[5] = d5 /\ g[6] = d6
  OBVIOUS
<1> HIDE DEF g
<1>2. /\ g[0] = NoDigit(x) /\ g[1] = Digit(g[0]) /\ g[2] = Digit(g[1]) /\ g[3] = Digit(g[2])
      /\ g[4] = Digit(g[3]) /\ g[5] = Digit(g[4]) /\ g[6] = Digit(g[5])
  BY <1>1 DEF d0, d1, d2, d3, d4, d5, d6
<1>3. \A k \in 1 .. 6 : g[k] = Digit(g[k - 1])
  <2>1. \A k \in 1 .. 6 : k = 1 \/ k = 2 \/ k = 3 \/ k = 4 \/ k = 5 \/ k = 6
    OBVIOUS
  <2> QED BY <1>2, <2>1
<1>4. PICK d : /\ d[0] = NoDigit(x)
               /\ \A k \in 1 .. 6 : d[k] = Digit(d[k - 1])
               /\ Printed(x, 6) = <<x.m \div x.w + Last(d[6]) \div Ten(6), Last(d[6]) % Ten(6)>>
  <2>1. 6 \in Nat
    OBVIOUS
  <2> QED BY <1>1, <1>2, <1>3, <2>1, DigitByDigit
<1>5. /\ d[1] = Digit(d[0]) /\ d[2] = Digit(d[1]) /\ d[3] = Digit(d[2])
      /\ d[4] = Digit(d[3]) /\ d[5] = Digit(d[4]) /\ d[6] = Digit(d[5])
  BY <1>4
<1> QED BY <1>4, <1>5

LEMMA Division ==
    ASSUME NEW a \in Nat, NEW b \in Nat \ {0}
    PROVE  a \div b \in Nat /\ a % b \in Nat /\ a % b < b /\ a = b * (a \div b) + (a % b)
OBVIOUS

(* What is printed so far and what is left make up the number: i is its    *)
(* integer part, t a power of ten.                                         *)
Stands(d, i, t, x) ==
    /\ d \in [f : Nat, w : Nat \ {0}, shown : Nat] /\ d.f < d.w
    /\ t * (x.m * d.w) = x.w * ((i * t + d.shown) * d.w + d.f)

(* A denominator that can be halved until p is 1, or until it is 1 itself. *)
Halves(w, p) == (w \in {1, 2, 4, 8, 16, 32} /\ w < p) \/ \E j \in Nat \ {0} : w = p * j

LEMMA HalvesOnce ==
    ASSUME NEW w, NEW p \in {1, 2, 4, 8, 16, 32}, Halves(w, 2 * p)
    PROVE  \/ w = 1 /\ Halves(1, p)
           \/ \E h \in Nat \ {0} : w = 2 * h /\ Halves(h, p)
<1>1. CASE w \in {1, 2, 4, 8, 16, 32} /\ w < 2 * p
  <2>1. \/ w = 1 /\ (1 < p \/ p = 1)
        \/ \E h \in {1, 2, 4, 8, 16} : w = 2 * h /\ h < p
    BY <1>1
  <2>2. p = 1 => 1 = p * 1 /\ 1 \in Nat \ {0}
    OBVIOUS
  <2> QED BY <2>1, <2>2 DEF Halves
<1>2. CASE \E j \in Nat \ {0} : w = (2 * p) * j
  <2>1. PICK j \in Nat \ {0} : w = (2 * p) * j
    BY <1>2
  <2>2. p * j \in Nat \ {0} /\ w = 2 * (p * j)
    BY <2>1
  <2> QED BY <2>2 DEF Halves
<1> QED BY <1>1, <1>2 DEF Halves

LEMMA FirstDigit ==
    ASSUME NEW x, x.m \in Nat, x.w \in Nat \ {0}
    PROVE  /\ x.m \div x.w \in Nat /\ NoDigit(x).w = x.w
           /\ Stands(NoDigit(x), x.m \div x.w, 1, x)
<1>1. PICK i \in Nat, f \in Nat : i = x.m \div x.w /\ f = x.m % x.w /\ f < x.w /\ x.m = x.w * i + f
  BY Division
<1>2. NoDigit(x) = [f |-> f, w |-> x.w, shown |-> 0]
  BY <1>1 DEF NoDigit
<1>3. 1 * (x.m * x.w) = x.w * ((i * 1 + 0) * x.w + f)
  <2>1. (i * 1 + 0) * x.w + f = x.m
    BY <1>1
  <2> QED BY <1>1, <2>1
<1>4. [f |-> f, w |-> x.w, shown |-> 0] \in [f : Nat, w : Nat \ {0}, shown : Nat]
  BY <1>1
<1>5. Stands([f |-> f, w |-> x.w, shown |-> 0], i, 1, x)
  BY <1>1, <1>3, <1>4 DEF Stands
<1>6. Stands(NoDigit(x), i, 1, x) /\ NoDigit(x).w = x.w
  BY <1>2, <1>5
<1>7. x.m \div x.w = i /\ i \in Nat
  BY <1>1
<1>8. Stands(NoDigit(x), x.m \div x.w, 1, x)
  BY <1>6, <1>7, Zenon
<1> QED BY <1>6, <1>7, <1>8

LEMMA OneDigit ==
    ASSUME NEW x, x.m \in Nat, x.w \in Nat \ {0}, NEW i \in Nat, NEW t \in Nat,
           NEW p \in {1, 2, 4, 8, 16, 32}, NEW d, Stands(d, i, t, x), Halves(d.w, 2 * p)
    PROVE  /\ Stands(Digit(d), i, 10 * t, x) /\ Halves(Digit(d).w, p)
           /\ d.w = Digit(d).w \/ d.w = 2 * Digit(d).w
<1> DEFINE a == (i * t + d.shown) * d.w + d.f
<1>0. /\ d.f \in Nat /\ d.w \in Nat \ {0} /\ d.shown \in Nat /\ d.f < d.w
      /\ t * (x.m * d.w) = x.w * a /\ a \in Nat
  BY DEF Stands
<1>1. CASE d.w = 1 /\ Halves(1, p)
  <2>1. Digit(d) = [d EXCEPT !.shown = 10 * @]
    BY <1>1 DEF Digit
  <2>2. d.f = 0
    BY <1>0, <1>1
  <2>3. Digit(d) = [f |-> 0, w |-> 1, shown |-> 10 * d.shown]
    BY <1>1, <2>1, <2>2 DEF Stands
  <2>4. (10 * t) * (x.m * 1) = x.w * ((i * (10 * t) + 10 * d.shown) * 1 + 0)
    <3> DEFINE n == i * t + d.shown
    <3>1. n \in Nat /\ i * (10 * t) + 10 * d.shown = 10 * n
      BY <1>0
    <3> HIDE DEF n
    <3>2. t * x.m = x.w * n
      BY <1>0, <1>1, <2>2, <3>1 DEF n
    <3>3. (10 * t) * (x.m * 1) = 10 * (t * x.m) /\ x.w * ((10 * n) * 1 + 0) = 10 * (x.w * n)
      BY <3>1
    <3> QED BY <3>1, <3>2, <3>3
  <2>5. 10 * d.shown \in Nat
    BY <1>0
  <2> QED BY <1>1, <2>3, <2>4, <2>5 DEF Stands
<1>2. CASE \E h \in Nat \ {0} : d.w = 2 * h /\ Halves(h, p)
  <2>1. PICK h \in Nat \ {0} : d.w = 2 * h /\ Halves(h, p)
    BY <1>2
  <2>2. d.w # 1 /\ d.w \div 2 = h
    BY <2>1
  <2>3. PICK q \in Nat, f \in Nat : /\ q = (5 * d.f) \div h /\ f = (5 * d.f) % h /\ f < h
                                    /\ 5 * d.f = h * q + f
    <3>1. PICK z \in Nat : z = 5 * d.f
      BY <1>0
    <3>2. z \div h \in Nat /\ z % h \in Nat /\ z % h < h /\ z = h * (z \div h) + (z % h)
      BY Division
    <3> QED BY <3>1, <3>2
  <2>4. Digit(d) = [f |-> f, w |-> h, shown |-> 10 * d.shown + q]
    <3>1. Digit(d) = [f |-> (5 * d.f) % (d.w \div 2), w |-> d.w \div 2,
                      shown |-> 10 * d.shown + (5 * d.f) \div (d.w \div 2)]
      BY <2>2 DEF Digit
    <3>2. d.w \div 2 = h /\ (5 * d.f) % h = f /\ (5 * d.f) \div h = q
      BY <2>2, <2>3
    <3> QED BY <3>1, <3>2, Zenon
  <2>5. (10 * t) * (x.m * h) = x.w * ((i * (10 * t) + (10 * d.shown + q)) * h + f)
    <3> DEFINE b == (i * (10 * t) + (10 * d.shown + q)) * h + f
               n == i * t + d.shown
    <3>1. n \in Nat
      BY <1>0
    <3>2. i * (10 * t) + (10 * d.shown + q) = 10 * n + q
      BY <1>0
    <3> HIDE DEF n
    <3>3. b = 5 * a
      <4>1. a = n * (2 * h) + d.f
        BY <2>1 DEF n
      <4>2. b = (10 * n + q) * h + f
        BY <3>2
      <4> HIDE DEF a, b
      <4>0. d.f \in Nat
        BY <1>0
      <4>3. (10 * n + q) * h = 10 * (n * h) + h * q /\ n * (2 * h) = 2 * (n * h) /\ n * h \in Nat
        BY <3>1
      <4>4. n * h \in Nat /\ b = 10 * (n * h) + h * q + f /\ a = 2 * (n * h) + d.f
        BY <3>1, <4>1, <4>2, <4>3
      <4>5. PICK y \in Nat, z \in Nat : y = n * h /\ z = h * q
        BY <4>4
      <4>6. b = 10 * y + z + f /\ a = 2 * y + d.f /\ 5 * d.f = z + f
        BY <2>3, <4>4, <4>5
      <4> QED BY <4>0, <4>6
    <3> HIDE DEF a, b
    <3>4. (10 * t) * (x.m * h) = 5 * (t * (x.m * d.w))
      BY <2>1
    <3>5. x.w * (5 * a) = 5 * (x.w * a)
      BY <1>0
    <3> QED BY <1>0, <3>3, <3>4, <3>5 DEF b
  <2>6. 10 * d.shown + q \in Nat
    BY <1>0
  <2>7. [f |-> f, w |-> h, shown |-> 10 * d.shown + q] \in [f : Nat, w : Nat \ {0}, shown : Nat]
    BY <2>6
  <2> QED BY <2>1, <2>3, <2>4, <2>5, <2>7 DEF Stands
<1> QED BY <1>0, <1>1, <1>2, HalvesOnce

LEMMA TimesKeeps ==
    ASSUME NEW a \in Int, NEW b \in Int, NEW k \in Nat, a <= b
    PROVE  k * a <= k * b
OBVIOUS

LEMMA TimesCancels ==
    ASSUME NEW a \in Int, NEW b \in Int, NEW k \in Nat \ {0}, k * a <= k * b
    PROVE  a <= b
<1> SUFFICES ASSUME b + 1 <= a PROVE FALSE
  OBVIOUS
<1>1. k * (b + 1) <= k * a
  BY TimesKeeps
<1>2. k * (b + 1) = k * b + k /\ k * b \in Int /\ k * a \in Int
  OBVIOUS
<1> QED BY <1>1, <1>2

(* Rounding the last digit loses at most a half of it.                     *)
LEMMA LastNear ==
    ASSUME NEW d \in [f : Nat, w : Nat \ {0}, shown : Nat], d.f < d.w, NEW n \in Nat
    PROVE  /\ Last(d) \in Nat
           /\ 2 * (d.w * (n + Last(d)) - ((n + d.shown) * d.w + d.f)) <= d.w
           /\ 2 * (((n + d.shown) * d.w + d.f) - d.w * (n + Last(d))) <= d.w
<1>1. PICK f \in Nat, w \in Nat \ {0}, s \in Nat : f = d.f /\ w = d.w /\ s = d.shown /\ f < w
  OBVIOUS
<1>2. /\ Last(d) = s \/ Last(d) = s + 1
      /\ Last(d) = s => 2 * f <= w
      /\ Last(d) = s + 1 => 2 * f >= w
  BY <1>1 DEF Last
<1>3. PICK y \in Nat : y = w * (n + s)
  BY <1>1
<1>4. (n + s) * w = y /\ w * (n + (s + 1)) = y + w
  BY <1>3
<1> QED BY <1>1, <1>2, <1>3, <1>4

(* Six decimals are the nearest six.                                       *)
LEMMA PrintedNear ==
    ASSUME NEW x, x.m \in Nat, x.w \in Nat \ {0}, Halves(x.w, 64)
    PROVE  \E a \in Nat, b \in Nat, c \in Nat :
              /\ Printed(x, 6) = <<a, b>> /\ c = Ten(6) * a + b
              /\ 2 * (c * x.w - Ten(6) * x.m) <= x.w
              /\ 2 * (Ten(6) * x.m - c * x.w) <= x.w
<1>1. PICK d : /\ d[0] = NoDigit(x)
               /\ d[1] = Digit(d[0]) /\ d[2] = Digit(d[1]) /\ d[3] = Digit(d[2])
               /\ d[4] = Digit(d[3]) /\ d[5] = Digit(d[4]) /\ d[6] = Digit(d[5])
               /\ Printed(x, 6) = <<x.m \div x.w + Last(d[6]) \div Ten(6), Last(d[6]) % Ten(6)>>
  BY SixDigits
<1>0. PICK t \in Nat \ {0} : t = Ten(6)
  BY Tens
<1>2. PICK i \in Nat : i = x.m \div x.w
  BY FirstDigit
<1>3. Stands(d[0], i, Ten(0), x) /\ Halves(d[0].w, 2 * 32)
  BY <1>1, <1>2, FirstDigit, Tens
<1>4. Stands(d[1], i, Ten(1), x) /\ Halves(d[1].w, 2 * 16)
  BY <1>1, <1>3, OneDigit, Tens
<1>5. Stands(d[2], i, Ten(2), x) /\ Halves(d[2].w, 2 * 8)
  BY <1>1, <1>4, OneDigit, Tens
<1>6. Stands(d[3], i, Ten(3), x) /\ Halves(d[3].w, 2 * 4)
  BY <1>1, <1>5, OneDigit, Tens
<1>7. Stands(d[4], i, Ten(4), x) /\ Halves(d[4].w, 2 * 2)
  BY <1>1, <1>6, OneDigit, Tens
<1>8. Stands(d[5], i, Ten(5), x) /\ Halves(d[5].w, 2 * 1)
  BY <1>1, <1>7, OneDigit, Tens
<1>9. Stands(d[6], i, Ten(6), x)
  BY <1>1, <1>8, OneDigit, Tens
<1> DEFINE z == d[6]
           n == i * t
           g == (n + z.shown) * z.w + z.f
<1>10. /\ z \in [f : Nat, w : Nat \ {0}, shown : Nat] /\ z.f < z.w
       /\ t * (x.m * z.w) = x.w * g
  BY <1>0, <1>9 DEF Stands
<1> HIDE DEF z
<1>11. g \in Nat /\ n \in Nat
  <2>1. z.f \in Nat /\ z.w \in Nat /\ z.shown \in Nat
    BY <1>10
  <2> QED BY <2>1
<1>12. /\ Last(z) \in Nat
       /\ 2 * (z.w * (n + Last(z)) - g) <= z.w /\ 2 * (g - z.w * (n + Last(z))) <= z.w
  BY <1>10, <1>11, LastNear
<1> HIDE DEF g, n
<1> DEFINE c == n + Last(z)
<1>13. PICK v \in Nat \ {0}, w \in Nat \ {0}, m \in Nat, q \in Nat :
          v = z.w /\ w = x.w /\ m = x.m /\ q = c
  <2>1. c \in Nat
    BY <1>11, <1>12
  <2>2. z.w \in Nat \ {0}
    BY <1>10
  <2> HIDE DEF c
  <2> QED BY <2>1, <2>2
<1>14. /\ t * (m * v) = w * g
       /\ 2 * (v * q - g) <= v /\ 2 * (g - v * q) <= v
  BY <1>10, <1>12, <1>13
<1>15. 2 * (q * w - t * m) <= w /\ 2 * (t * m - q * w) <= w
  <2>1. w * (2 * (v * q - g)) <= w * v /\ w * (2 * (g - v * q)) <= w * v
    BY <1>11, <1>14, TimesKeeps
  <2>2. /\ w * (2 * (v * q - g)) = v * (2 * (q * w - t * m))
        /\ w * (2 * (g - v * q)) = v * (2 * (t * m - q * w))
        /\ w * v = v * w
    <3>1. w * (v * q) = v * (q * w) /\ w * g = v * (t * m)
      BY <1>14
    <3>2. w * (2 * (v * q - g)) = 2 * (w * (v * q)) - 2 * (w * g)
      BY <1>11
    <3>3. w * (2 * (g - v * q)) = 2 * (w * g) - 2 * (w * (v * q))
      BY <1>11
    <3>4. /\ v * (2 * (q * w - t * m)) = 2 * (v * (q * w)) - 2 * (v * (t * m))
          /\ v * (2 * (t * m - q * w)) = 2 * (v * (t * m)) - 2 * (v * (q * w))
      OBVIOUS
    <3>5. w * v = v * w
      OBVIOUS
    <3> QED BY <3>1, <3>2, <3>3, <3>4, <3>5
  <2>3. v * (2 * (q * w - t * m)) <= v * w /\ v * (2 * (t * m - q * w)) <= v * w
    BY <2>1, <2>2
  <2>4. 2 * (q * w - t * m) \in Int /\ 2 * (t * m - q * w) \in Int
    OBVIOUS
  <2> QED BY <2>3, <2>4, TimesCancels
<1>16. PICK a \in Nat, b \in Nat :
          /\ a = i + Last(z) \div t /\ b = Last(z) % t
          /\ c = t * a + b
  <2>1. PICK l \in Nat : l = Last(z)
    BY <1>12
  <2>2. PICK e \in Nat, b \in Nat : e = l \div t /\ b = l % t /\ l = t * e + b
    BY Division
  <2>3. c = t * (i + e) + b
    <3>1. i * t + (t * e + b) = t * (i + e) + b
      OBVIOUS
    <3> QED BY <2>1, <2>2, <3>1 DEF n
  <2>4. i + e \in Nat
    OBVIOUS
  <2> QED BY <2>1, <2>2, <2>3, <2>4
<1> HIDE DEF c
<1>17. Printed(x, 6) = <<a, b>>
  BY <1>0, <1>1, <1>2, <1>16 DEF z
<1> QED BY <1>0, <1>13, <1>15, <1>16, <1>17

(***************************************************************************)
(* Floating point: the float nearest to a quotient.                        *)
(***************************************************************************)

(* Rounding to the nearest loses at most a half.                           *)
LEMMA RoundedNear ==
    ASSUME NEW a \in Nat, NEW b \in Nat \ {0}
    PROVE  /\ Rounded(a, b) \in Nat
           /\ 2 * (b * Rounded(a, b) - a) <= b /\ 2 * (a - b * Rounded(a, b)) <= b
<1> DEFINE q == a \div b
           r == a % b
<1>1. q \in Nat /\ r \in Nat /\ r < b /\ a = b * q + r
  OBVIOUS
<1>2. /\ Rounded(a, b) \in {q, q + 1}
      /\ Rounded(a, b) = q => 2 * r <= b
      /\ Rounded(a, b) = q + 1 => 2 * r >= b
  BY <1>1 DEF Rounded
<1> HIDE DEF q, r
<1>3. b * (q + 1) = b * q + b /\ b * q \in Nat
  BY <1>1
<1> QED BY <1>1, <1>2, <1>3

LEMMA RoundedSmall ==
    ASSUME NEW a \in Nat, NEW b \in Nat \ {0}, NEW u \in Nat, a < b * u
    PROVE  Rounded(a, b) <= u
<1>1. PICK q \in Nat, r \in Nat : q = a \div b /\ r = a % b /\ a = b * q + r
  BY Division
<1>2. q < u
  <2> SUFFICES ASSUME u <= q PROVE FALSE
    BY <1>1
  <2>1. b * u <= b * q /\ b * u \in Nat /\ b * q \in Nat
    BY TimesKeeps
  <2> QED BY <1>1, <2>1
<1>3. Rounded(a, b) = q \/ Rounded(a, b) = q + 1
  BY <1>1 DEF Rounded
<1> QED BY <1>1, <1>2, <1>3

LEMMA DivisionAtLeast ==
    ASSUME NEW a \in Nat, NEW b \in Nat \ {0}, NEW u \in Nat
    PROVE  u <= a \div b <=> b * u <= a
<1>1. PICK q \in Nat, r \in Nat : q = a \div b /\ r = a % b /\ r < b /\ a = b * q + r
  BY Division
<1>2. b * u \in Nat /\ b * q \in Nat
  OBVIOUS
<1>3. ASSUME u <= q PROVE b * u <= a
  <2>1. b * u <= b * q
    BY <1>3, TimesKeeps
  <2> QED BY <1>1, <1>2, <2>1
<1>4. ASSUME ~ u <= q PROVE ~ b * u <= a
  <2>1. b * (q + 1) <= b * u
    <3>1. q + 1 <= u /\ q + 1 \in Int
      BY <1>4
    <3> QED BY <3>1, TimesKeeps
  <2>2. b * (q + 1) = b * q + b
    OBVIOUS
  <2> QED BY <1>1, <1>2, <2>1, <2>2
<1> QED BY <1>1, <1>3, <1>4

(* Powers of two, and the least number of 24 bits.                         *)
Two(t) == 2 ^ t
Unit == 2 ^ 23

LEMMA UnitIs == Unit \in Nat /\ Unit >= 4000 /\ 2 ^ 24 = 2 * Unit
BY SMT DEF Unit

LEMMA MantissaIs ==
    ASSUME NEW q \in Nat
    PROVE  q \in Mantissa <=> (Unit <= q /\ ~ 2 * Unit <= q)
BY SMT DEF Mantissa, Unit

LEMMA Twos ==
    /\ Two(0) = 1 /\ Two(1) = 2 /\ Two(2) = 4 /\ Two(3) = 8 /\ Two(4) = 16
    /\ Two(5) = 32 /\ Two(6) = 64 /\ Two(7) = 128 /\ Two(8) = 256 /\ Two(9) = 512
    /\ Two(10) = 1024 /\ Two(11) = 2048 /\ Two(12) = 4096 /\ Two(13) = 8192
    /\ Two(14) = 16384 /\ Two(15) = 32768 /\ Two(16) = 65536 /\ Two(17) = 131072
    /\ Two(18) = 262144 /\ Two(19) = 524288 /\ Two(20) = 1048576
    /\ Two(21) = 2097152 /\ Two(22) = 4194304 /\ Two(23) = 8388608
    /\ Two(24) = 16777216 /\ Two(25) = 33554432 /\ Two(26) = 67108864
    /\ Two(27) = 134217728 /\ Two(28) = 268435456 /\ Two(29) = 536870912
    /\ Two(30) = 1073741824
BY SMT DEF Two

LEMMA TwoHalves ==
    ASSUME NEW t \in 0 .. 30
    PROVE  Two(t) \in Nat \ {0} /\ Halves(Two(t), 64)
<1>1. t < 6 => Two(t) \in {1, 2, 4, 8, 16, 32}
  BY Twos, SMT
<1>2. CASE 6 <= t
  <2>1. t = 6 \/ t = 7 \/ t = 8 \/ t = 9 \/ t = 10 \/ t = 11 \/ t = 12 \/ t = 13 \/ t = 14
        \/ t = 15 \/ t = 16 \/ t = 17 \/ t = 18 \/ t = 19 \/ t = 20 \/ t = 21 \/ t = 22
        \/ t = 23 \/ t = 24 \/ t = 25 \/ t = 26 \/ t = 27 \/ t = 28 \/ t = 29 \/ t = 30
    BY <1>2
  <2>2. Two(t) = 64 * Two(t - 6) /\ Two(t - 6) \in Nat \ {0}
    BY <2>1, Twos, SMTT(30)
  <2> QED BY <2>2 DEF Halves
<1> QED BY <1>1, <1>2 DEF Halves

LEMMA HalvesTimes ==
    ASSUME NEW a \in Nat, NEW b \in Nat \ {0}, Halves(a, 64), Halves(b, 64)
    PROVE  Halves(a * b, 64)
<1>1. CASE \E j \in Nat \ {0} : a = 64 * j
  <2>1. PICK j \in Nat \ {0} : a = 64 * j
    BY <1>1
  <2>2. a * b = 64 * (j * b) /\ j * b \in Nat \ {0}
    BY <2>1
  <2> QED BY <2>2 DEF Halves
<1>2. CASE a \in {1, 2, 4, 8, 16, 32} /\ \E j \in Nat \ {0} : b = 64 * j
  <2>1. PICK j \in Nat \ {0} : b = 64 * j
    BY <1>2
  <2>2. a * b = 64 * (a * j) /\ a * j \in Nat \ {0}
    BY <1>2, <2>1
  <2> QED BY <2>2 DEF Halves
<1>3. CASE a \in {1, 2, 4, 8, 16, 32} /\ b \in {1, 2, 4, 8, 16, 32}
  <2>1. \/ a * b \in {1, 2, 4, 8, 16, 32}
        \/ \E j \in {1, 2, 4, 8, 16} : a * b = 64 * j
    BY <1>3, SMT
  <2> QED BY <2>1 DEF Halves
<1> QED BY <1>1, <1>2, <1>3 DEF Halves

(* A power of two takes a quotient to 24 bits, from below or from above.   *)
LEMMA ScaledUp ==
    ASSUME NEW a \in Nat, a # 0, NEW b \in {1, 10, 100}, a < b * (2 * Unit)
    PROVE  \E t \in 0 .. 30 : b * Unit <= a * Two(t) /\ ~ b * (2 * Unit) <= a * Two(t)
BY SMTT(30) DEF Two, Unit

LEMMA ScaledDown ==
    ASSUME NEW a \in Nat, NEW b \in {1, 10, 100}, b * (2 * Unit) <= a, a <= 512 * Unit
    PROVE  \E t \in 0 .. 9 : (b * Two(t)) * Unit <= a /\ ~ (b * Two(t)) * (2 * Unit) <= a
BY SMTT(30) DEF Two, Unit

(* The float nearest to a quotient differs from it by at most half a unit  *)
(* in the last place.                                                      *)
Differ(q, a, b) ==
    /\ 2 * Unit * (b * q.m - a * q.w) <= a * q.w
    /\ 2 * Unit * (a * q.w - b * q.m) <= a * q.w

LEMMA HalfOfB ==
    ASSUME NEW a \in Nat, NEW r \in Nat, NEW b \in Nat, NEW u \in Nat, b * u <= a,
           2 * (b * r - a) <= b, 2 * (a - b * r) <= b
    PROVE  2 * u * (b * r - a) <= a /\ 2 * u * (a - b * r) <= a
<1>1. PICK p \in Int : p = b * r - a
  OBVIOUS
<1>2. u * (2 * p) <= u * b /\ u * (2 * (- p)) <= u * b
  <2>1. 2 * p <= b /\ 2 * (- p) <= b
    BY <1>1
  <2>2. 2 * p \in Int /\ 2 * (- p) \in Int /\ b \in Int
    BY <1>1
  <2> QED BY <2>1, <2>2, TimesKeeps
<1>3. u * (2 * p) = 2 * u * p /\ u * (2 * (- p)) = 2 * u * (- p) /\ u * b = b * u
  OBVIOUS
<1>4. a - b * r = - p
  BY <1>1
<1> QED BY <1>1, <1>2, <1>3, <1>4

LEMMA NearestBelow ==
    ASSUME NEW a \in Nat, a # 0, NEW b \in {1, 10, 100}, a < b * (2 * Unit)
    PROVE  \E t \in 0 .. 30 :
             /\ Nearest(a, b) = [m |-> Rounded(a * Two(t), b), w |-> Two(t)]
             /\ b * Unit <= a * Two(t) /\ Rounded(a * Two(t), b) \in Nat
             /\ Rounded(a * Two(t), b) <= 2 * Unit
             /\ Differ(Nearest(a, b), a, b)
<1> DEFINE Fits(t) == (a * Two(t)) \div b \in Mantissa
           t == CHOOSE t \in 0 .. 30 : Fits(t)
<1>0. b \in Nat \ {0} /\ Unit \in Nat /\ 2 * Unit \in Nat
  BY UnitIs
<1>1. ASSUME NEW s \in 0 .. 30
      PROVE  /\ a * Two(s) \in Nat
             /\ Fits(s) <=> (b * Unit <= a * Two(s) /\ ~ b * (2 * Unit) <= a * Two(s))
  <2>1. PICK n \in Nat : n = a * Two(s)
    BY TwoHalves
  <2>2. n \div b \in Nat
    BY <1>0, Division
  <2>3. n \div b \in Mantissa <=> (Unit <= n \div b /\ ~ 2 * Unit <= n \div b)
    BY <2>2, MantissaIs
  <2>4. n \div b \in Mantissa <=> (b * Unit <= n /\ ~ b * (2 * Unit) <= n)
    BY <1>0, <2>3, DivisionAtLeast
  <2> QED BY <2>1, <2>4
<1>2. ~ 2 ^ 24 <= a \div b /\ a \div b \in Nat
  BY <1>0, UnitIs, DivisionAtLeast, Division
<1>3. Nearest(a, b) = [m |-> Rounded(a * Two(t), b), w |-> Two(t)]
  <2>1. a \div b < 2 ^ 24
    BY <1>0, <1>2, UnitIs
  <2> QED BY <2>1 DEF Nearest, Two
<1> HIDE DEF Fits
<1>4. t \in 0 .. 30 /\ Fits(t)
  BY <1>1, ScaledUp
<1> HIDE DEF t
<1>5. PICK n \in Nat : n = a * Two(t)
  BY <1>1, <1>4
<1>6. b * Unit <= n /\ n < b * (2 * Unit)
  <2>1. b * Unit <= n /\ ~ b * (2 * Unit) <= n
    BY <1>1, <1>4, <1>5
  <2>2. b * (2 * Unit) \in Nat
    BY <1>0
  <2> QED BY <2>1, <2>2
<1>7. PICK r \in Nat : /\ r = Rounded(n, b) /\ r <= 2 * Unit
                       /\ 2 * (b * r - n) <= b /\ 2 * (n - b * r) <= b
  BY <1>0, <1>6, RoundedNear, RoundedSmall
<1>8. 2 * Unit * (b * r - n) <= n /\ 2 * Unit * (n - b * r) <= n
  BY <1>0, <1>6, <1>7, HalfOfB
<1> QED BY <1>3, <1>4, <1>5, <1>6, <1>7, <1>8 DEF Differ

LEMMA NearestAbove ==
    ASSUME NEW a \in Nat, NEW b \in {1, 10, 100}, b * (2 * Unit) <= a, a <= 512 * Unit
    PROVE  /\ Nearest(a, b).w = 1
           /\ Nearest(a, b).m \in Nat /\ Nearest(a, b).m <= 512 * Unit
           /\ Differ(Nearest(a, b), a, b)
<1> DEFINE Fits(t) == a \div (b * Two(t)) \in Mantissa
           t == CHOOSE t \in 0 .. 9 : Fits(t)
<1>0. b \in Nat \ {0} /\ Unit \in Nat \ {0} /\ 2 * Unit \in Nat /\ a # 0
  BY UnitIs
<1>1. ASSUME NEW s \in 0 .. 9
      PROVE  /\ b * Two(s) \in Nat \ {0}
             /\ Fits(s) <=> ((b * Two(s)) * Unit <= a /\ ~ (b * Two(s)) * (2 * Unit) <= a)
  <2>0. s \in 0 .. 30
    OBVIOUS
  <2>1. PICK n \in Nat \ {0} : n = b * Two(s)
    <3>1. Two(s) \in Nat \ {0}
      BY <2>0, TwoHalves
    <3> QED BY <1>0, <3>1
  <2>2. a \div n \in Nat
    BY Division
  <2>3. a \div n \in Mantissa <=> (Unit <= a \div n /\ ~ 2 * Unit <= a \div n)
    BY <2>2, MantissaIs
  <2>4. a \div n \in Mantissa <=> (n * Unit <= a /\ ~ n * (2 * Unit) <= a)
    BY <1>0, <2>3, DivisionAtLeast
  <2> QED BY <2>1, <2>4
<1>2. ~ a \div b < 2 ^ 24
  <2>1. 2 * Unit <= a \div b /\ a \div b \in Nat
    BY <1>0, DivisionAtLeast, Division
  <2> QED BY <1>0, <2>1, UnitIs
<1>3. Nearest(a, b) = [m |-> Two(t) * Rounded(a, b * Two(t)), w |-> 1]
  BY <1>0, <1>2 DEF Nearest, Two
<1> HIDE DEF Fits
<1>4. t \in 0 .. 9 /\ Fits(t)
  BY <1>1, ScaledDown
<1> HIDE DEF t
<1>5. PICK n \in Nat \ {0}, z \in Nat \ {0} : n = b * z /\ z = Two(t)
  <2>1. Two(t) \in Nat \ {0}
    <3>1. t \in 0 .. 30
      BY <1>4
    <3> QED BY <3>1, TwoHalves
  <2> QED BY <1>1, <1>4, <2>1
<1>6. n * Unit <= a /\ a < n * (2 * Unit)
  <2>1. n * Unit <= a /\ ~ n * (2 * Unit) <= a
    BY <1>1, <1>4, <1>5
  <2>2. n * (2 * Unit) \in Nat
    BY <1>0
  <2> QED BY <2>1, <2>2
<1>7. PICK r \in Nat : /\ r = Rounded(a, n) /\ r <= 2 * Unit
                       /\ 2 * (n * r - a) <= n /\ 2 * (a - n * r) <= n
  BY <1>0, <1>6, RoundedNear, RoundedSmall
<1>8. 2 * Unit * (n * r - a) <= a /\ 2 * Unit * (a - n * r) <= a
  BY <1>0, <1>6, <1>7, HalfOfB
<1>9. b * (z * r) = n * r
  BY <1>5, <1>0
<1>10. z * r <= 512 * Unit
  <2>1. CASE t = 9
    <3>1. z = 512
      BY <1>5, <2>1, Twos
    <3>2. b = 1 /\ n = 512
      BY <1>0, <1>5, <1>6, <3>1
    <3> QED BY <1>0, <1>7, <3>1, <3>2
  <2>2. CASE t # 9
    <3>1. z <= 256
      <4>1. t = 0 \/ t = 1 \/ t = 2 \/ t = 3 \/ t = 4 \/ t = 5 \/ t = 6 \/ t = 7 \/ t = 8
        BY <1>4, <2>2
      <4> QED BY <1>5, <4>1, Twos, SMT
    <3>2. z * r <= z * (2 * Unit)
      BY <1>0, <1>7, TimesKeeps
    <3>3. z * (2 * Unit) <= 512 * Unit
      <4>1. (2 * Unit) * z <= (2 * Unit) * 256
        BY <1>0, <3>1, TimesKeeps
      <4> QED BY <1>0, <4>1
    <3>4. z * r \in Nat /\ z * (2 * Unit) \in Nat
      BY <1>0
    <3> QED BY <1>0, <3>2, <3>3, <3>4
  <2> QED BY <2>1, <2>2
<1>11. /\ Nearest(a, b).m = z * r /\ Nearest(a, b).w = 1 /\ a * 1 = a
  BY <1>3, <1>5, <1>7
<1>12. z * r \in Nat
  OBVIOUS
<1> QED BY <1>8, <1>9, <1>10, <1>11, <1>12 DEF Differ

(***************************************************************************)
(* A number of hundredths, divided by 100 in a float and printed with two  *)
(* decimals.                                                               *)
(***************************************************************************)

(* A number that differs from v by less than the last place shown.         *)
LEMMA RoundedBack ==
    ASSUME NEW w \in Nat, w >= 1000, NEW v \in Nat, NEW k \in Nat, NEW f \in Nat, f < w,
           NEW z \in Nat, NEW y \in Nat, z = w * k + f, y = w * v, z - y <= 50, y - z <= 50
    PROVE  (k = v /\ 2 * f < w) \/ (k + 1 = v /\ 2 * f > w)
<1>1. PICK x \in Nat : x = w * k
  OBVIOUS
<1>2. CASE k > v
  <2>1. w * (v + 1) <= w * k /\ w * (v + 1) = w * v + w
    BY <1>2, TimesKeeps
  <2> QED BY <1>1, <2>1
<1>3. CASE k + 1 < v
  <2>1. w * (k + 2) <= w * v /\ w * (k + 2) = w * k + 2 * w
    BY <1>3, TimesKeeps
  <2> QED BY <1>1, <2>1
<1>4. CASE k = v
  <2>1. y = x
    BY <1>1, <1>4
  <2>2. f <= 50
    BY <1>1, <2>1
  <2> QED BY <1>4, <2>2
<1>5. CASE k + 1 = v
  <2>1. w * v = w * k + w
    BY <1>5
  <2> QED BY <1>1, <1>5, <2>1
<1> QED BY <1>2, <1>3, <1>4, <1>5

(* A quotient of v and 100 is printed as v: m and w make up the float.     *)
LEMMA QuotientShown ==
    ASSUME NEW m \in Nat, NEW w \in Nat, NEW j \in Nat, w = 4 * j, j >= 1000, NEW v \in Nat,
           NEW a \in Nat, a = v * w, 2 * (100 * m - a) <= 100, 2 * (a - 100 * m) <= 100
    PROVE  Printed([m |-> m, w |-> w], 2) = <<v \div 100, v % 100>>
<1>1. PICK x : x = [m |-> m, w |-> w]
  OBVIOUS
<1>2. x.m = m /\ x.w = w /\ x.m \in Nat /\ x.w \in Nat \ {0}
  BY <1>1
<1>3. PICK d : /\ d[0] = NoDigit(x)
               /\ d[1] = Digit(d[0]) /\ d[2] = Digit(d[1])
               /\ Printed(x, 2) = <<x.m \div x.w + Last(d[2]) \div 100, Last(d[2]) % 100>>
  BY TwoDigits
<1>4. PICK n \in Nat : n = x.m \div x.w
  BY <1>2, FirstDigit
<1>5. Stands(d[0], n, 1, x) /\ d[0].w = w /\ Halves(d[0].w, 2 * 2)
  <2>1. Stands(d[0], n, 1, x) /\ d[0].w = w
    BY <1>2, <1>3, <1>4, FirstDigit
  <2>2. j \in Nat \ {0} /\ w = (2 * 2) * j
    OBVIOUS
  <2> QED BY <2>1, <2>2 DEF Halves
<1>6. /\ Stands(d[1], n, 10 * 1, x) /\ Halves(d[1].w, 2 * 1)
      /\ d[0].w = d[1].w \/ d[0].w = 2 * d[1].w
  BY <1>2, <1>3, <1>5, OneDigit
<1>7. /\ Stands(d[2], n, 10 * (10 * 1), x)
      /\ d[1].w = d[2].w \/ d[1].w = 2 * d[2].w
  BY <1>2, <1>3, <1>6, OneDigit
<1>8. PICK f \in Nat, h \in Nat \ {0}, s \in Nat :
        f = d[2].f /\ h = d[2].w /\ s = d[2].shown /\ f < h
  BY <1>7 DEF Stands
<1>9. PICK g \in {1, 2, 4} : w = g * h
  BY <1>5, <1>6, <1>7, <1>8
<1>10. h >= 1000
  BY <1>9
<1>11. PICK k \in Nat, z \in Nat : k = 100 * n + s /\ z = h * k + f
  OBVIOUS
<1>12. 100 * m = g * z
  <2>1. (10 * (10 * 1)) * (m * h) = w * ((n * (10 * (10 * 1)) + s) * h + f)
    BY <1>2, <1>7, <1>8 DEF Stands
  <2>2. (n * (10 * (10 * 1)) + s) * h + f = z
    BY <1>11
  <2>3. h * (100 * m) = h * (g * z)
    <3>1. w * z = h * (g * z)
      BY <1>9
    <3>2. (10 * (10 * 1)) * (m * h) = h * (100 * m)
      OBVIOUS
    <3> QED BY <2>1, <2>2, <3>1, <3>2
  <2>4. 100 * m \in Int /\ g * z \in Int
    BY <1>9
  <2>5. 100 * m <= g * z /\ g * z <= 100 * m
    BY <2>3, <2>4, TimesCancels
  <2> QED BY <2>4, <2>5
<1>13. z - h * v <= 50 /\ h * v - z <= 50
  <2>1. PICK y \in Nat : y = h * v
    OBVIOUS
  <2>2. a = g * y
    BY <1>9, <2>1
  <2>3. 2 * (g * z - g * y) <= 100 /\ 2 * (g * y - g * z) <= 100
    BY <1>12, <2>2
  <2> QED BY <1>9, <2>1, <2>3
<1>14. (k = v /\ 2 * f < h) \/ (k + 1 = v /\ 2 * f > h)
  <2>1. PICK y \in Nat : y = h * v
    OBVIOUS
  <2>2. z - y <= 50 /\ y - z <= 50 /\ z = h * k + f /\ h \in Nat /\ f < h
    BY <1>8, <1>11, <1>13, <2>1
  <2> QED BY <1>10, <2>1, <2>2, RoundedBack
<1>15. (k = v /\ Last(d[2]) = s) \/ (k + 1 = v /\ Last(d[2]) = s + 1)
  <2>1. /\ 2 * f < h => ~ 2 * f > h /\ ~ 2 * f = h
        /\ d[2].f = f /\ d[2].w = h /\ d[2].shown = s
    BY <1>8
  <2>2. Last(d[2]) = IF 2 * f > h \/ (2 * f = h /\ s % 2 = 1) THEN s + 1 ELSE s
    BY <2>1 DEF Last
  <2> QED BY <1>14, <2>1, <2>2
<1>16. PICK c \in Nat : c = Last(d[2]) /\ v = 100 * n + c
  BY <1>11, <1>15
<1>17. n + c \div 100 = v \div 100 /\ c % 100 = v % 100
  <2>1. PICK q \in Nat, r \in Nat : q = c \div 100 /\ r = c % 100 /\ r < 100 /\ c = 100 * q + r
    BY Division
  <2>2. v = 100 * (n + q) + r
    BY <1>16, <2>1
  <2>3. v \div 100 = n + q /\ v % 100 = r
    BY <2>1, <2>2
  <2> QED BY <2>1, <2>3
<1> QED BY <1>1, <1>3, <1>4, <1>16, <1>17

LEMMA ZeroPrinted == Printed([m |-> 0, w |-> 1], 2) = <<0 \div 100, 0 % 100>>
<1>1. PICK x : x = [m |-> 0, w |-> 1]
  OBVIOUS
<1>2. PICK z : z = [f |-> 0, w |-> 1, shown |-> 0]
  OBVIOUS
<1>3. NoDigit(x) = z /\ Digit(z) = z /\ Last(z) = 0
  BY <1>1, <1>2 DEF NoDigit, Digit, Last
<1>4. PICK d : /\ d[0] = NoDigit(x)
               /\ d[1] = Digit(d[0]) /\ d[2] = Digit(d[1])
               /\ Printed(x, 2) = <<x.m \div x.w + Last(d[2]) \div 100, Last(d[2]) % 100>>
  BY TwoDigits
<1>5. Last(d[2]) = 0
  BY <1>3, <1>4
<1>6. x.m \div x.w + 0 \div 100 = 0 \div 100
  BY <1>1
<1> QED BY <1>1, <1>4, <1>5, <1>6

(* The denominators by which numbers of hundredths are divided.            *)
LEMMA LargeTwo ==
    ASSUME NEW t \in 0 .. 30, NEW v \in Nat, v < 65536, 100 * Unit <= v * Two(t)
    PROVE  \E j \in Nat : Two(t) = 4 * j /\ j >= 1000
<1>1. 14 <= t
  <2> SUFFICES ASSUME t < 14 PROVE FALSE
    OBVIOUS
  <2>1. \/ t = 0 \/ t = 1 \/ t = 2 \/ t = 3 \/ t = 4 \/ t = 5 \/ t = 6 \/ t = 7
        \/ t = 8 \/ t = 9 \/ t = 10 \/ t = 11 \/ t = 12 \/ t = 13
    OBVIOUS
  <2>2. PICK p \in Nat : p = Two(t) /\ p <= 8192
    BY <2>1, Twos, SMT
  <2>3. v * p <= 8192 * v
    BY <2>2, TimesKeeps
  <2> QED BY <2>2, <2>3, SMT DEF Unit
<1>2. \/ t = 14 \/ t = 15 \/ t = 16 \/ t = 17 \/ t = 18 \/ t = 19 \/ t = 20 \/ t = 21
      \/ t = 22 \/ t = 23 \/ t = 24 \/ t = 25 \/ t = 26 \/ t = 27 \/ t = 28 \/ t = 29
      \/ t = 30
  BY <1>1
<1>3. Two(t) = 4 * Two(t - 2) /\ Two(t - 2) \in Nat /\ Two(t - 2) >= 1000
  BY <1>2, Twos, SMTT(30)
<1> QED BY <1>3

(* Every number of hundredths of 16 bits is printed as it is.              *)
LEMMA HundredthsPrinted ==
    ASSUME NEW v \in Nat, v < 65536
    PROVE  Printed(Quotient([m |-> v, w |-> 1], 100), 2) = <<v \div 100, v % 100>>
<1>1. CASE v = 0
  <2>1. Quotient([m |-> v, w |-> 1], 100) = [m |-> 0, w |-> 1]
    BY <1>1 DEF Quotient, Nearest
  <2> QED BY <1>1, <2>1, ZeroPrinted
<1>2. CASE v # 0
  <2>1. PICK t \in 0 .. 30 :
          /\ Nearest(v, 100) = [m |-> Rounded(v * Two(t), 100), w |-> Two(t)]
          /\ 100 * Unit <= v * Two(t)
    <3>1. v < 100 * (2 * Unit)
      BY UnitIs
    <3> QED BY <1>2, <3>1, NearestBelow
  <2>2. PICK j \in Nat : Two(t) = 4 * j /\ j >= 1000
    BY <2>1, LargeTwo
  <2>3. PICK w \in Nat, a \in Nat : w = Two(t) /\ a = v * w
    BY <2>2
  <2>4. PICK m \in Nat : /\ m = Rounded(a, 100)
                         /\ 2 * (100 * m - a) <= 100 /\ 2 * (a - 100 * m) <= 100
    <3>1. 100 \in Nat \ {0}
      OBVIOUS
    <3> QED BY <3>1, RoundedNear
  <2>5. Quotient([m |-> v, w |-> 1], 100) = [m |-> m, w |-> w]
    <3>1. Nearest(v, 100) = [m |-> m, w |-> w] /\ 1 * w = w
      BY <2>1, <2>3, <2>4
    <3> QED BY <3>1 DEF Quotient
  <2>6. Printed([m |-> m, w |-> w], 2) = <<v \div 100, v % 100>>
    <3>1. w = 4 * j /\ a = v * w
      BY <2>2, <2>3
    <3> QED BY <2>2, <2>4, <3>1, QuotientShown
  <2> QED BY <2>5, <2>6
<1> QED BY <1>1, <1>2

(***************************************************************************)
(* A number that is divided by ten up to six times, and printed with six   *)
(* decimals.                                                               *)
(***************************************************************************)

LEMMA NearestIs ==
    ASSUME NEW a \in Nat, a <= 512 * Unit, NEW b \in {1, 10, 100}
    PROVE  /\ Nearest(a, b).m \in Nat /\ Nearest(a, b).m <= 512 * Unit
           /\ Nearest(a, b).w \in Nat \ {0} /\ Halves(Nearest(a, b).w, 64)
           /\ Differ(Nearest(a, b), a, b)
<1>0. b \in Nat /\ Unit \in Nat /\ Halves(1, 64)
  BY UnitIs DEF Halves
<1>1. CASE a = 0
  <2>1. Nearest(a, b) = [m |-> 0, w |-> 1]
    BY <1>1 DEF Nearest
  <2> QED BY <1>0, <1>1, <2>1 DEF Differ
<1>2. CASE a # 0 /\ a < b * (2 * Unit)
  <2>1. PICK t \in 0 .. 30 :
             /\ Nearest(a, b) = [m |-> Rounded(a * Two(t), b), w |-> Two(t)]
             /\ Rounded(a * Two(t), b) \in Nat
             /\ Rounded(a * Two(t), b) <= 2 * Unit
             /\ Differ(Nearest(a, b), a, b)
    BY <1>2, NearestBelow
  <2>2. Two(t) \in Nat \ {0} /\ Halves(Two(t), 64)
    BY TwoHalves
  <2> QED BY <1>0, <2>1, <2>2
<1>3. CASE b * (2 * Unit) <= a
  BY <1>0, <1>3, NearestAbove
<1> QED BY <1>0, <1>1, <1>2, <1>3

(* Errors of one part in 2^24 add up; 1001 of 1000 is room for what they   *)
(* make of each other.                                                     *)
LEMMA ErrorsAdd ==
    ASSUME NEW m \in Nat, NEW t \in Nat, NEW n \in Nat, NEW w \in Nat, NEW c \in Nat, c <= 6,
           NEW q \in Nat, NEW v \in Nat, NEW u \in Nat, u >= 4000,
           2000 * u * (t * m - n * w) <= 1001 * (c * (n * w)),
           2000 * u * (n * w - t * m) <= 1001 * (c * (n * w)),
           2 * u * (10 * q - m * v) <= m * v, 2 * u * (m * v - 10 * q) <= m * v
    PROVE  /\ 2000 * u * ((10 * t) * q - n * (w * v)) <= 1001 * ((c + 1) * (n * (w * v)))
           /\ 2000 * u * (n * (w * v) - (10 * t) * q) <= 1001 * ((c + 1) * (n * (w * v)))
<1>1. PICK a \in Nat, b \in Nat : a = t * m /\ b = n * w
  OBVIOUS
<1>2. PICK x \in Nat, y \in Nat, p \in Nat : x = v * a /\ y = v * b /\ p = (10 * t) * q
  BY <1>1
<1>3. y = n * (w * v) /\ x = t * (m * v) /\ p = t * (10 * q)
  BY <1>1, <1>2
<1>4. PICK e \in Int, f \in Int : e = u * (x - y) /\ f = u * (p - x)
  OBVIOUS
<1>5. PICK z \in Nat : z = c * y
  OBVIOUS
<1>6. 2000 * e <= 1001 * z /\ - 2000 * e <= 1001 * z
  <2>1. /\ v * (2000 * u * (a - b)) <= v * (1001 * (c * b))
        /\ v * (2000 * u * (b - a)) <= v * (1001 * (c * b))
    <3>1. /\ 2000 * u * (a - b) <= 1001 * (c * b) /\ 2000 * u * (b - a) <= 1001 * (c * b)
          /\ 2000 * u * (a - b) \in Int /\ 2000 * u * (b - a) \in Int /\ 1001 * (c * b) \in Int
      BY <1>1
    <3> QED BY <3>1, TimesKeeps
  <2>2. v * (2000 * u * (a - b)) = 2000 * (u * (v * a - v * b))
    OBVIOUS
  <2>3. v * (2000 * u * (b - a)) = - 2000 * (u * (v * a - v * b))
    OBVIOUS
  <2>4. v * (1001 * (c * b)) = 1001 * (c * (v * b))
    OBVIOUS
  <2> QED BY <1>2, <1>4, <1>5, <2>1, <2>2, <2>3, <2>4
<1>7. 2 * f <= x /\ - 2 * f <= x
  <2>1. PICK g \in Nat, h \in Nat : g = m * v /\ h = 10 * q
    OBVIOUS
  <2>2. t * (2 * u * (h - g)) <= t * g /\ t * (2 * u * (g - h)) <= t * g
    <3>1. /\ 2 * u * (h - g) <= g /\ 2 * u * (g - h) <= g
          /\ 2 * u * (h - g) \in Int /\ 2 * u * (g - h) \in Int
      BY <2>1
    <3> QED BY <3>1, TimesKeeps
  <2>3. t * (2 * u * (h - g)) = 2 * (u * (t * h - t * g))
    OBVIOUS
  <2>4. t * (2 * u * (g - h)) = - 2 * (u * (t * h - t * g))
    OBVIOUS
  <2> QED BY <1>3, <1>4, <2>1, <2>2, <2>3, <2>4
<1>8. z <= 6 * y
  BY <1>5, TimesKeeps
<1>9. 1000 * x <= 1001 * y
  <2>1. CASE x <= y
    BY <2>1
  <2>2. CASE y < x
    <3>1. PICK d \in Nat : d = x - y
      BY <2>2
    <3>2. 4000 * d <= e
      <4>1. d * 4000 <= d * u
        BY TimesKeeps
      <4> QED BY <1>4, <3>1, <4>1
    <3> QED BY <1>6, <1>8, <3>1, <3>2
  <2> QED BY <2>1, <2>2
<1>10. 2000 * u * (p - y) = 2000 * f + 2000 * e /\ 2000 * u * (y - p) = - 2000 * f - 2000 * e
  BY <1>4
<1>11. (c + 1) * y = z + y
  BY <1>5
<1>12. 2000 * u * (p - y) <= 1001 * ((c + 1) * y) /\ 2000 * u * (y - p) <= 1001 * ((c + 1) * y)
  BY <1>6, <1>7, <1>9, <1>10, <1>11
<1> QED BY <1>2, <1>3, <1>12

(* x is n / 10^k, but for k + 1 roundings.                                 *)
Near(x, n, k) ==
    /\ x.m \in Nat /\ x.m <= 512 * Unit /\ x.w \in Nat \ {0} /\ Halves(x.w, 64)
    /\ 2000 * Unit * (Ten(k) * x.m - n * x.w) <= 1001 * ((k + 1) * (n * x.w))
    /\ 2000 * Unit * (n * x.w - Ten(k) * x.m) <= 1001 * ((k + 1) * (n * x.w))

LEMMA NearFirst ==
    ASSUME NEW n \in Nat, n <= 512 * Unit
    PROVE  Near(Nearest(n, 1), n, 0)
<1> DEFINE q == Nearest(n, 1)
<1>1. /\ q.m \in Nat /\ q.m <= 512 * Unit /\ q.w \in Nat \ {0} /\ Halves(q.w, 64)
      /\ Differ(q, n, 1)
  BY NearestIs
<1> HIDE DEF q
<1>2. PICK m \in Nat, w \in Nat \ {0}, u \in Nat : m = q.m /\ w = q.w /\ u = Unit
  BY <1>1, UnitIs
<1>3. PICK y \in Nat : y = n * w
  OBVIOUS
<1>4. PICK e \in Int : e = u * (m - y)
  BY <1>3
<1>5. 2 * e <= y /\ - 2 * e <= y
  <2>1. 2 * u * (1 * m - y) <= y /\ 2 * u * (y - 1 * m) <= y
    BY <1>1, <1>2, <1>3 DEF Differ
  <2> QED BY <1>4, <2>1
<1>6. 2000 * u * (1 * m - y) = 2000 * e /\ 2000 * u * (y - 1 * m) = - 2000 * e
  BY <1>4
<1>7. 2000 * u * (1 * m - y) <= 1001 * ((0 + 1) * y) /\ 2000 * u * (y - 1 * m) <= 1001 * ((0 + 1) * y)
  BY <1>5, <1>6
<1> QED BY <1>1, <1>2, <1>3, <1>7, Tens DEF Near, q

LEMMA NearNext ==
    ASSUME NEW x, NEW n \in Nat, NEW k \in {0, 1, 2, 3, 4, 5}, Near(x, n, k)
    PROVE  Near(Quotient(x, 10), n, k + 1)
<1> DEFINE q == Nearest(x.m, 10)
<1>1. /\ x.m \in Nat /\ x.m <= 512 * Unit /\ x.w \in Nat \ {0} /\ Halves(x.w, 64)
      /\ 2000 * Unit * (Ten(k) * x.m - n * x.w) <= 1001 * ((k + 1) * (n * x.w))
      /\ 2000 * Unit * (n * x.w - Ten(k) * x.m) <= 1001 * ((k + 1) * (n * x.w))
  BY DEF Near
<1>2. /\ q.m \in Nat /\ q.m <= 512 * Unit /\ q.w \in Nat \ {0} /\ Halves(q.w, 64)
      /\ Differ(q, x.m, 10)
  BY <1>1, NearestIs
<1>3. Quotient(x, 10) = [m |-> q.m, w |-> x.w * q.w]
  BY DEF Quotient
<1> HIDE DEF q
<1>4. PICK t \in Nat : t = Ten(k) /\ Ten(k + 1) = 10 * t
  BY Tens
<1>5. PICK m \in Nat, w \in Nat \ {0}, r \in Nat, v \in Nat \ {0}, u \in Nat :
        /\ m = x.m /\ w = x.w /\ r = q.m /\ v = q.w /\ u = Unit /\ u >= 4000
  BY <1>1, <1>2, UnitIs
<1>6. PICK c \in Nat : c = k + 1 /\ c <= 6
  OBVIOUS
<1>7. /\ 2000 * u * (t * m - n * w) <= 1001 * (c * (n * w))
      /\ 2000 * u * (n * w - t * m) <= 1001 * (c * (n * w))
      /\ 2 * u * (10 * r - m * v) <= m * v /\ 2 * u * (m * v - 10 * r) <= m * v
  BY <1>1, <1>2, <1>4, <1>5, <1>6 DEF Differ
<1>8. /\ 2000 * u * ((10 * t) * r - n * (w * v)) <= 1001 * ((c + 1) * (n * (w * v)))
      /\ 2000 * u * (n * (w * v) - (10 * t) * r) <= 1001 * ((c + 1) * (n * (w * v)))
  <2>1. c <= 6 /\ u >= 4000 /\ w \in Nat /\ v \in Nat
    BY <1>5, <1>6
  <2> QED BY <1>7, <2>1, ErrorsAdd, SMTT(30)
<1>9. w * v \in Nat \ {0} /\ Halves(w * v, 64)
  <2>1. Halves(w, 64) /\ Halves(v, 64) /\ w \in Nat
    BY <1>1, <1>2, <1>5
  <2>2. Halves(w * v, 64)
    BY <2>1, HalvesTimes
  <2> QED BY <2>2
<1>10. Quotient(x, 10).m = r /\ Quotient(x, 10).w = w * v
  BY <1>3, <1>5
<1> QED BY <1>2, <1>4, <1>5, <1>6, <1>8, <1>9, <1>10 DEF Near

(* Each turn of convert_number's loop is a division more.                  *)
LEMMA ConvertNear ==
    ASSUME NEW n \in Nat, n <= 512 * Unit, NEW point \in 0 .. 6
    PROVE  Near(convert_number(n, point), n, point)
<1> DEFINE Step(q, k) == IF k = 0 THEN Nearest(n, 1) ELSE Quotient(q[k - 1], 10)
           p == CHOOSE q : q = [k \in 0 .. point |-> Step(q, k)]
           x0 == Nearest(n, 1)
           x1 == Quotient(x0, 10)
           x2 == Quotient(x1, 10)
           x3 == Quotient(x2, 10)
           x4 == Quotient(x3, 10)
           x5 == Quotient(x4, 10)
           x6 == Quotient(x5, 10)
           x(k) == IF k = 0 THEN x0 ELSE IF k = 1 THEN x1 ELSE
                   IF k = 2 THEN x2 ELSE IF k = 3 THEN x3 ELSE
                   IF k = 4 THEN x4 ELSE IF k = 5 THEN x5 ELSE x6
           g == [k \in 0 .. point |-> x(k)]
<1>1. ASSUME NEW k \in 0 .. point PROVE g[k] = Step(g, k)
  <2>0. k \in Nat /\ g[k] = x(k) /\ (k # 0 => g[k - 1] = x(k - 1))
    OBVIOUS
  <2> HIDE DEF g
  <2>1. k = 0 \/ k = 1 \/ k = 2 \/ k = 3 \/ k = 4 \/ k = 5 \/ k = 6
    OBVIOUS
  <2> HIDE DEF x0, x1, x2, x3, x4, x5, x6
  <2>2. /\ x0 = Nearest(n, 1)
        /\ x1 = Quotient(x0, 10) /\ x2 = Quotient(x1, 10) /\ x3 = Quotient(x2, 10)
        /\ x4 = Quotient(x3, 10) /\ x5 = Quotient(x4, 10) /\ x6 = Quotient(x5, 10)
    BY DEF x0, x1, x2, x3, x4, x5, x6
  <2>3. k # 0 => x(k) = Quotient(x(k - 1), 10)
    BY <2>1, <2>2
  <2> QED BY <2>0, <2>1, <2>2, <2>3
<1>2. g = [k \in 0 .. point |-> Step(g, k)]
  <2>1. g = [k \in 0 .. point |-> g[k]]
    OBVIOUS
  <2> HIDE DEF Step, g
  <2> QED BY <1>1, <2>1
<1>3. p = [k \in 0 .. point |-> Step(p, k)]
  <2> HIDE DEF g
  <2> QED BY <1>2
<1>4. convert_number(n, point) = p[point]
  BY DEF convert_number, p
<1> HIDE DEF p
<1>5. p[0] = Nearest(n, 1) /\ \A k \in 1 .. point : p[k] = Quotient(p[k - 1], 10)
  BY <1>3
<1>6. Near(p[0], n, 0)
  BY <1>5, NearFirst
<1>7. ASSUME NEW k \in {0, 1, 2, 3, 4, 5}, k + 1 <= point, Near(p[k], n, k)
      PROVE  Near(p[k + 1], n, k + 1)
  <2>1. p[k + 1] = Quotient(p[k], 10)
    <3>1. k + 1 \in 1 .. point /\ (k + 1) - 1 = k
      BY <1>7
    <3> QED BY <1>5, <3>1
  <2> QED BY <1>7, <2>1, NearNext
<1>8. 1 <= point => Near(p[1], n, 1)
  BY <1>6, <1>7
<1>9. 2 <= point => Near(p[2], n, 2)
  BY <1>7, <1>8
<1>10. 3 <= point => Near(p[3], n, 3)
  BY <1>7, <1>9
<1>11. 4 <= point => Near(p[4], n, 4)
  BY <1>7, <1>10
<1>12. 5 <= point => Near(p[5], n, 5)
  BY <1>7, <1>11
<1>13. 6 <= point => Near(p[6], n, 6)
  BY <1>7, <1>12
<1>14. \/ point = 0 \/ point = 1 \/ point = 2 \/ point = 3
       \/ point = 4 \/ point = 5 \/ point = 6
  OBVIOUS
<1> QED BY <1>4, <1>6, <1>8, <1>9, <1>10, <1>11, <1>12, <1>13, <1>14

(* What a decimal is wrong by, of which k * l make up one: the errors of   *)
(* the divisions, and half a decimal for printing.                         *)
LEMMA DecimalsMiss ==
    ASSUME NEW m \in Nat, NEW w \in Nat \ {0}, NEW n \in Nat, NEW k \in Nat \ {0}, NEW l \in Nat,
           NEW c \in Nat, NEW d \in Nat, NEW p \in Nat, NEW u \in Nat \ {0},
           n <= (d + 1) * k, 1001 * (k * l) <= 120 * u,
           2000 * u * (k * m - n * w) <= 1001 * (c * (n * w)),
           2000 * u * (n * w - k * m) <= 1001 * (c * (n * w)),
           2 * (p * w - (k * l) * m) <= w, 2 * ((k * l) * m - p * w) <= w
    PROVE  /\ 100 * (p - n * l) <= (d + 1) * c * 6 + 50
           /\ 100 * (n * l - p) <= (d + 1) * c * 6 + 50
<1>1. PICK y \in Nat, e \in Int, t \in Nat, v \in Nat \ {0}, x \in Nat :
        y = n * w /\ e = k * m - n * w /\ t = k * l /\ v = k * w /\ x = (d + 1) * c
  OBVIOUS
<1>2. 100 * (t * e) <= 6 * (c * y) /\ 100 * (t * (- e)) <= 6 * (c * y)
  <2>1. PICK z \in Nat : z = c * y
    OBVIOUS
  <2>2. 2000 * u * e <= 1001 * z /\ 2000 * u * (- e) <= 1001 * z
    BY <1>1, <2>1
  <2>3. t * (2000 * u * e) <= t * (1001 * z) /\ t * (2000 * u * (- e)) <= t * (1001 * z)
    <3>1. 2000 * u * e \in Int /\ 2000 * u * (- e) \in Int /\ 1001 * z \in Int
      OBVIOUS
    <3> QED BY <2>2, <3>1, TimesKeeps
  <2>4. z * (1001 * t) <= z * (120 * u)
    <3>1. 1001 * t <= 120 * u /\ 1001 * t \in Int /\ 120 * u \in Int
      BY <1>1
    <3> QED BY <3>1, TimesKeeps
  <2>5. /\ t * (2000 * u * e) = u * (2000 * (t * e))
        /\ t * (2000 * u * (- e)) = u * (2000 * (t * (- e)))
        /\ t * (1001 * z) = z * (1001 * t) /\ z * (120 * u) = u * (120 * z)
    OBVIOUS
  <2>6. PICK a \in Int, b \in Int, f \in Int, g \in Int, h \in Int :
          /\ a = u * (2000 * (t * e)) /\ b = u * (2000 * (t * (- e)))
          /\ f = z * (1001 * t) /\ g = u * (120 * z) /\ h = 0
    OBVIOUS
  <2>7. a <= f /\ b <= f /\ f <= g
    BY <2>3, <2>4, <2>5, <2>6
  <2>8. a <= g /\ b <= g
    BY <2>7
  <2>9. 2000 * (t * e) \in Int /\ 2000 * (t * (- e)) \in Int /\ 120 * z \in Int
    OBVIOUS
  <2>10. 2000 * (t * e) <= 120 * z /\ 2000 * (t * (- e)) <= 120 * z
    BY <2>6, <2>8, <2>9, TimesCancels
  <2>11. PICK i \in Int, j \in Int : i = t * e /\ j = t * (- e)
    OBVIOUS
  <2> QED BY <2>1, <2>10, <2>11
<1>3. c * y <= v * x
  <2>1. (c * w) * n <= (c * w) * ((d + 1) * k)
    <3>1. c * w \in Nat /\ n \in Int /\ (d + 1) * k \in Int
      OBVIOUS
    <3> QED BY <3>1, TimesKeeps
  <2>2. (c * w) * n = c * y /\ (c * w) * ((d + 1) * k) = v * x
    BY <1>1
  <2> QED BY <2>1, <2>2
<1>4. 2 * (v * (p - n * l) - t * e) <= v /\ 2 * (v * (n * l - p) - t * (- e)) <= v
  <2>1. k * (2 * (p * w - t * m)) <= k * w /\ k * (2 * (t * m - p * w)) <= k * w
    <3>1. /\ 2 * (p * w - t * m) <= w /\ 2 * (t * m - p * w) <= w
          /\ 2 * (p * w - t * m) \in Int /\ 2 * (t * m - p * w) \in Int
      BY <1>1
    <3> QED BY <3>1, TimesKeeps
  <2>2. PICK a \in Nat, b \in Nat, f \in Nat : a = v * p /\ b = t * (k * m) /\ f = v * (n * l)
    OBVIOUS
  <2>3. k * (2 * (p * w - t * m)) = 2 * (a - b) /\ k * (2 * (t * m - p * w)) = 2 * (b - a)
    <3>1. k * (p * w) = a /\ k * (t * m) = b
      BY <1>1, <2>2
    <3>2. PICK g \in Int, h \in Int : g = p * w /\ h = t * m
      OBVIOUS
    <3>3. k * (2 * (g - h)) = 2 * (k * g - k * h) /\ k * (2 * (h - g)) = 2 * (k * h - k * g)
      OBVIOUS
    <3> QED BY <3>1, <3>2, <3>3
  <2>4. t * e = b - f
    <3>1. t * e = t * (k * m) - t * (n * w)
      BY <1>1
    <3>2. t * (n * w) = f
      BY <1>1, <2>2
    <3> QED BY <2>2, <3>1, <3>2
  <2>5. t * (- e) = f - b
    <3>1. t * (- e) = - (t * e)
      OBVIOUS
    <3> QED BY <2>4, <3>1
  <2>6. v * (p - n * l) = a - f /\ v * (n * l - p) = f - a
    <3>1. PICK g \in Int : g = n * l
      OBVIOUS
    <3>2. v * (p - g) = v * p - v * g /\ v * (g - p) = v * g - v * p
      OBVIOUS
    <3> QED BY <2>2, <3>1, <3>2
  <2>7. 2 * (a - b) <= v /\ 2 * (b - a) <= v
    BY <1>1, <2>1, <2>3
  <2> QED BY <2>4, <2>5, <2>6, <2>7
<1>5. v * (100 * (p - n * l)) <= v * (x * 6 + 50) /\ v * (100 * (n * l - p)) <= v * (x * 6 + 50)
  <2>1. PICK a \in Int, b \in Int, f \in Int, g \in Int, i \in Int, j \in Int :
          /\ a = v * (p - n * l) /\ b = v * (n * l - p) /\ f = v * x
          /\ g = c * y /\ i = t * e /\ j = t * (- e)
    OBVIOUS
  <2>2. 100 * a <= 6 * f + 50 * v /\ 100 * b <= 6 * f + 50 * v
    BY <1>2, <1>3, <1>4, <2>1
  <2>3. v * (100 * (p - n * l)) = 100 * a /\ v * (100 * (n * l - p)) = 100 * b
    <3>1. PICK q \in Int, r \in Int : q = p - n * l /\ r = n * l - p
      OBVIOUS
    <3>2. v * (100 * q) = 100 * (v * q) /\ v * (100 * r) = 100 * (v * r)
      OBVIOUS
    <3> QED BY <2>1, <3>1, <3>2
  <2>4. v * (x * 6 + 50) = 6 * f + 50 * v
    BY <2>1
  <2> QED BY <2>2, <2>3, <2>4
<1>6. 100 * (p - n * l) <= x * 6 + 50 /\ 100 * (n * l - p) <= x * 6 + 50
  <2>1. 100 * (p - n * l) \in Int /\ 100 * (n * l - p) \in Int /\ x * 6 + 50 \in Int
    OBVIOUS
  <2> QED BY <1>5, <2>1, TimesCancels
<1> QED BY <1>1, <1>6

(* A unit in the last of 24 places is less than 6 hundredths of a          *)
(* millionth.                                                              *)
LEMMA UnitIsSmall == 1001 * Ten(6) <= 120 * Unit
BY SMT DEF Ten, Unit

(* Six decimals of n divided point times by ten, against those that n      *)
(* stands for.                                                             *)
LEMMA FloatPrinted ==
    ASSUME NEW n \in Nat, n <= 512 * Unit, NEW point \in 0 .. 6
    PROVE  \E a \in Nat, b \in Nat :
             LET d == n \div Ten(point)
                 r == (n % Ten(point)) * Ten(6 - point)
                 miss == (a - d) * Ten(6) + b - r
                 most == ((d + 1) * (point + 1) * 6 + 50) \div 100
             IN  /\ Printed(convert_number(n, point), 6) = <<a, b>>
                 /\ - most <= miss /\ miss <= most
<1>1. PICK x : x = convert_number(n, point)
  OBVIOUS
<1>2. Near(x, n, point)
  BY <1>1, ConvertNear
<1>3. PICK k \in Nat \ {0}, l \in Nat, t \in Nat :
        k = Ten(point) /\ l = Ten(6 - point) /\ t = Ten(6) /\ t = k * l
  <2>1. \/ point = 0 \/ point = 1 \/ point = 2 \/ point = 3
        \/ point = 4 \/ point = 5 \/ point = 6
    OBVIOUS
  <2>2. /\ Ten(point) \in Nat \ {0} /\ Ten(6 - point) \in Nat /\ Ten(6) \in Nat
        /\ Ten(6) = Ten(point) * Ten(6 - point)
    BY <2>1, Tens, SMT
  <2> QED BY <2>2
<1>4. PICK a \in Nat, b \in Nat, p \in Nat :
        /\ Printed(x, 6) = <<a, b>> /\ p = t * a + b
        /\ 2 * (p * x.w - t * x.m) <= x.w /\ 2 * (t * x.m - p * x.w) <= x.w
  <2>1. x.m \in Nat /\ x.w \in Nat \ {0} /\ Halves(x.w, 64)
    BY <1>2 DEF Near
  <2> QED BY <1>3, <2>1, PrintedNear
<1>5. PICK d \in Nat, f \in Nat : d = n \div k /\ f = n % k /\ f < k /\ n = k * d + f
  BY Division
<1>6. PICK m \in Nat, w \in Nat \ {0}, u \in Nat \ {0}, c \in Nat :
        m = x.m /\ w = x.w /\ u = Unit /\ c = point + 1
  <2>1. x.m \in Nat /\ x.w \in Nat \ {0}
    BY <1>2 DEF Near
  <2> QED BY <2>1, UnitIs
<1>7. 100 * (p - n * l) <= (d + 1) * c * 6 + 50 /\ 100 * (n * l - p) <= (d + 1) * c * 6 + 50
  <2>1. n <= (d + 1) * k
    <3>1. (d + 1) * k = k * d + k
      OBVIOUS
    <3> QED BY <1>5, <3>1
  <2>2. /\ 2000 * u * (k * m - n * w) <= 1001 * (c * (n * w))
        /\ 2000 * u * (n * w - k * m) <= 1001 * (c * (n * w))
    BY <1>2, <1>3, <1>6 DEF Near
  <2>3. 2 * (p * w - (k * l) * m) <= w /\ 2 * ((k * l) * m - p * w) <= w
    BY <1>3, <1>4, <1>6
  <2>4. 1001 * (k * l) <= 120 * u
    BY <1>3, <1>6, UnitIsSmall
  <2> QED BY <2>1, <2>2, <2>3, <2>4, DecimalsMiss, SMTT(30)
<1>8. (a - d) * t + b - f * l = p - n * l
  <2>1. n * l = t * d + f * l
    <3>1. (k * d + f) * l = (k * l) * d + f * l
      OBVIOUS
    <3> QED BY <1>3, <1>5, <3>1
  <2>2. (a - d) * t = t * a - t * d
    OBVIOUS
  <2> QED BY <1>4, <2>1, <2>2
<1> DEFINE top == (d + 1) * c * 6 + 50
           miss == p - n * l
<1>9. top \in Nat /\ miss \in Int /\ 100 * miss <= top /\ 100 * (- miss) <= top
  BY <1>7
<1> HIDE DEF top, miss
<1>10. PICK most \in Nat : most = top \div 100
  BY <1>9, Division
<1>11. miss <= most /\ - most <= miss
  <2>1. miss \in Nat => miss <= most
    BY <1>9, <1>10, DivisionAtLeast
  <2>2. - miss \in Nat => - miss <= most
    BY <1>9, <1>10, DivisionAtLeast
  <2> QED BY <1>9, <2>1, <2>2
<1>12. (a - d) * t + b - f * l = miss /\ most = ((d + 1) * (point + 1) * 6 + 50) \div 100
  BY <1>6, <1>8, <1>10 DEF top, miss
<1>13. /\ Printed(convert_number(n, point), 6) = <<a, b>>
       /\ - most <= (a - d) * t + b - f * l /\ (a - d) * t + b - f * l <= most
  BY <1>1, <1>4, <1>11, <1>12
<1>14. d = n \div Ten(point) /\ f = n % Ten(point) /\ l = Ten(6 - point) /\ t = Ten(6)
  BY <1>3, <1>5
<1> QED BY <1>12, <1>13, <1>14, Zenon

(***************************************************************************)
(* What is displayed.                                                      *)
(***************************************************************************)

(* A text in a field of a frame.                                           *)
LEMMA FieldOf ==
    ASSUME NEW f \in Seq(Byte), NEW a \in Nat, NEW n \in Nat, a + n <= Len(f),
           NEW t \in Seq(Letter), Len(t) <= n,
           \A i \in 1 .. n : f[a + i] = IF i <= Len(t) THEN t[i] ELSE 0
    PROVE  Text(SubSeq(f, a + 1, a + n)) = t
<1> DEFINE s == SubSeq(f, a + 1, a + n)
<1>1. Len(f) \in Nat /\ \A i \in a + 1 .. a + n : f[i] \in Byte
  OBVIOUS
<1>2. /\ s \in Seq(Byte)
      /\ Len(s) = IF a + 1 <= a + n THEN (a + n) - (a + 1) + 1 ELSE 0
      /\ \A i \in 1 .. (a + n) - (a + 1) + 1 : s[i] = f[(a + 1) + i - 1]
  BY <1>1, SubSeqProperties
<1> HIDE DEF s
<1>3. Len(s) = n /\ \A i \in 1 .. n : s[i] = f[a + i]
  BY <1>2
<1>4. Len(t) <= Len(s) /\ \A i \in 1 .. Len(s) : s[i] = IF i <= Len(t) THEN t[i] ELSE 0
  BY <1>3
<1> QED BY <1>2, <1>4, FieldShown DEF s

LEMMA TopicIs ==
    ASSUME NEW m, Meaning(m)
    PROVE  Text(SubSeq(FrameOf(m), 1, TopicLen)) = m.topic
<1> DEFINE f == FrameOf(m)
<1>1. /\ f \in Seq(Byte) /\ Len(f) = ServerLen + IpLen + 3
      /\ \A i \in 1 .. TopicLen : f[0 + i] = IF i <= Len(m.topic) THEN m.topic[i] ELSE 0
  BY FrameIs
<1>2. m.topic \in Seq(Letter) /\ Len(m.topic) <= TopicLen
  BY MessageFields
<1> HIDE DEF f
<1>3. 0 + TopicLen <= Len(f) /\ TopicLen \in Nat
  BY <1>1, Lengths
<1>4. Text(SubSeq(f, 0 + 1, 0 + TopicLen)) = m.topic
  BY <1>1, <1>2, <1>3, FieldOf
<1>5. 0 + 1 = 1 /\ 0 + TopicLen = TopicLen
  BY Lengths
<1> QED BY <1>4, <1>5 DEF f

LEMMA IpIs ==
    ASSUME NEW m, Meaning(m)
    PROVE  Text(SubSeq(FrameOf(m), ServerLen + 1, ServerLen + IpLen)) = m.ip
<1> DEFINE f == FrameOf(m)
<1>1. /\ f \in Seq(Byte) /\ Len(f) = ServerLen + IpLen + 3
      /\ \A i \in 1 .. IpLen : f[ServerLen + i] = IF i <= Len(m.ip) THEN m.ip[i] ELSE 0
  BY FrameIs
<1>2. m.ip \in Seq(Letter) /\ Len(m.ip) < IpLen
  BY MessageFields
<1> HIDE DEF f
<1>3. ServerLen + IpLen <= Len(f) /\ ServerLen \in Nat /\ IpLen \in Nat /\ Len(m.ip) <= IpLen
  BY <1>1, <1>2, Lengths
<1>4. Text(SubSeq(f, ServerLen + 1, ServerLen + IpLen)) = m.ip
  BY <1>1, <1>2, <1>3, FieldOf
<1> QED BY <1>4 DEF f

(* A text is cut where the contents end.                                   *)
CutText(m) ==
    SubSeq(m.text, 1, IF Len(m.text) < ContentLen THEN Len(m.text) ELSE ContentLen)

LEMMA StringIs ==
    ASSUME NEW m, Meaning(m), m.type = 3
    PROVE  processStringMessage(FrameOf(m)) = CutText(m)
<1> DEFINE f == FrameOf(m)
           n == IF Len(m.text) < ContentLen THEN Len(m.text) ELSE ContentLen
           t == SubSeq(m.text, 1, n)
           a == TopicLen + 1
<1>1. Content(m) = m.text /\ m.text \in Seq(Letter)
  BY ContentIs, MessageFields
<1>2. /\ f \in Seq(Byte) /\ Len(f) = ServerLen + IpLen + 3
      /\ \A k \in 1 .. ContentLen :
            f[At(k)] = IF k <= Len(m.text) THEN m.text[k] ELSE 0
  BY <1>1, FrameIs
<1> HIDE DEF f
<1>3. n \in Nat /\ n <= Len(m.text) /\ n <= ContentLen
  BY <1>1, Lengths
<1>4. t \in Seq(Letter) /\ Len(t) = n /\ \A i \in 1 .. n : t[i] = m.text[i]
  BY <1>1, <1>3
<1>5. \A k \in 1 .. ContentLen : f[a + k] = IF k <= Len(t) THEN t[k] ELSE 0
  <2> SUFFICES ASSUME NEW k \in 1 .. ContentLen
               PROVE  f[a + k] = IF k <= Len(t) THEN t[k] ELSE 0
    OBVIOUS
  <2>1. k <= n <=> k <= Len(m.text)
    BY <1>1, Lengths
  <2>2. f[a + k] = IF k <= Len(m.text) THEN m.text[k] ELSE 0
    BY <1>2 DEF At
  <2>3. k <= n => t[k] = m.text[k]
    BY <1>3, <1>4
  <2> QED BY <1>4, <2>1, <2>2, <2>3
<1>6. a \in Nat /\ ContentLen \in Nat /\ a + ContentLen <= Len(f) /\ Len(t) <= ContentLen
  BY <1>2, <1>3, <1>4, Lengths
<1> HIDE DEF t, a
<1>7. Text(SubSeq(f, a + 1, a + ContentLen)) = t
  BY <1>2, <1>4, <1>5, <1>6, FieldOf
<1> QED BY <1>7 DEF f, t, a, processStringMessage, At, CutText

(* Sign and magnitude, the latter in two halves, as they were sent.        *)
LEMMA NumberIs ==
    ASSUME NEW m, Meaning(m), m.type = 0
    PROVE  /\ FrameOf(m)[At(1)] = m.sign
           /\ Short(FrameOf(m), At(2)) = m.hi /\ Short(FrameOf(m), At(4)) = m.lo
<1> DEFINE f == FrameOf(m)
           c == Content(m)
<1>1. /\ Len(c) = 5 /\ c[1] = m.sign
      /\ c[2] * 256 + c[3] = m.hi /\ c[4] * 256 + c[5] = m.lo
  BY ContentIs
<1>2. \A k \in 1 .. ContentLen : f[At(k)] = IF k <= Len(c) THEN c[k] ELSE 0
  BY FrameIs
<1> HIDE DEF f, c
<1>3. \A k \in 1 .. 5 : f[At(k)] = c[k]
  BY <1>1, <1>2, Lengths
<1>4. /\ f[At(1)] = c[1] /\ f[At(2)] = c[2] /\ f[At(3)] = c[3]
      /\ f[At(4)] = c[4] /\ f[At(5)] = c[5]
  BY <1>3
<1>5. At(2) + 1 = At(3) /\ At(4) + 1 = At(5)
  BY Lengths DEF At
<1>6. Short(f, At(2)) = c[2] * 256 + c[3] /\ Short(f, At(4)) = c[4] * 256 + c[5]
  BY <1>4, <1>5 DEF Short
<1> QED BY <1>1, <1>4, <1>6 DEF f

LEMMA IntIs ==
    ASSUME NEW m, Meaning(m), m.type = 0, FitsInt(m)
    PROVE  processIntMessage(FrameOf(m)) =
              [neg |-> m.sign = 1 /\ (m.hi # 0 \/ m.lo # 0), hi |-> m.hi, lo |-> m.lo]
<1>1. m.hi \in Word /\ m.lo \in Word
  BY MessageFields
<1>2. m.hi \in Nat /\ m.lo \in Nat
  BY <1>1, WordIs
<1> DEFINE p == AsInt(m.hi, m.lo)
<1>3. processIntMessage(FrameOf(m)) = IF m.sign = 1 THEN Negated(p) ELSE p
  BY NumberIs DEF processIntMessage
<1>4. CASE m.hi < 32768
  <2>1. p = [neg |-> FALSE, hi |-> m.hi, lo |-> m.lo]
    BY <1>4 DEF AsInt
  <2>2. CASE m.sign = 1 /\ m.hi = 0 /\ m.lo = 0
    <3>1. Negated(p) = p
      BY <2>1, <2>2 DEF Negated
    <3>2. (m.sign = 1 /\ (m.hi # 0 \/ m.lo # 0)) = FALSE
      BY <2>2
    <3> QED BY <1>3, <2>1, <2>2, <3>1, <3>2
  <2>3. CASE m.sign = 1 /\ ~ (m.hi = 0 /\ m.lo = 0)
    <3>1. p.hi = m.hi /\ p.lo = m.lo /\ m.hi # 32768
      BY <1>2, <1>4, <2>1
    <3>2. Negated(p) = [p EXCEPT !.neg = ~ @]
      BY <2>3, <3>1 DEF Negated
    <3>3. Negated(p) = [neg |-> TRUE, hi |-> m.hi, lo |-> m.lo]
      <4>1. [p EXCEPT !.neg = ~ @] = [neg |-> ~ FALSE, hi |-> m.hi, lo |-> m.lo]
        BY <2>1
      <4> QED BY <3>2, <4>1
    <3>4. (m.sign = 1 /\ (m.hi # 0 \/ m.lo # 0)) = TRUE
      BY <2>3
    <3> QED BY <1>3, <2>3, <3>3, <3>4
  <2>4. CASE m.sign # 1
    <3>1. (m.sign = 1 /\ (m.hi # 0 \/ m.lo # 0)) = FALSE
      BY <2>4
    <3> QED BY <1>3, <2>1, <2>4, <3>1
  <2> QED BY <2>2, <2>3, <2>4
<1>5. CASE ~ m.hi < 32768
  <2>1. m.hi = 32768 /\ m.lo = 0 /\ m.sign = 1
    BY <1>5 DEF FitsInt
  <2>2. p = [neg |-> TRUE, hi |-> 32768, lo |-> 0]
    BY <1>5, <2>1 DEF AsInt
  <2>3. Negated(p) = p
    BY <2>2 DEF Negated
  <2>4. (m.sign = 1 /\ (m.hi # 0 \/ m.lo # 0)) = TRUE
    BY <2>1
  <2>5. processIntMessage(FrameOf(m)) = [neg |-> TRUE, hi |-> m.hi, lo |-> m.lo]
    BY <1>3, <2>1, <2>2, <2>3
  <2> QED BY <2>4, <2>5
<1> QED BY <1>4, <1>5

(* The number of hundredths is read as it was sent.                        *)
LEMMA HundredthsAre ==
    ASSUME NEW m, Meaning(m), m.type = 1
    PROVE  Short(FrameOf(m), At(1)) = m.lo
<1> DEFINE f == FrameOf(m)
           c == Content(m)
<1>1. Len(c) = 2 /\ c[1] * 256 + c[2] = m.lo
  BY ContentIs
<1>2. \A k \in 1 .. ContentLen : f[At(k)] = IF k <= Len(c) THEN c[k] ELSE 0
  BY FrameIs
<1> HIDE DEF f, c
<1>3. \A k \in 1 .. 2 : f[At(k)] = c[k]
  BY <1>1, <1>2, Lengths
<1>4. f[At(1)] = c[1] /\ f[At(2)] = c[2]
  BY <1>3
<1>5. At(1) + 1 = At(2)
  BY Lengths DEF At
<1> QED BY <1>1, <1>4, <1>5 DEF f, Short

LEMMA RealIs ==
    ASSUME NEW m, Meaning(m), m.type = 1
    PROVE  processShortRealMessage(FrameOf(m)) = <<m.lo \div 100, m.lo % 100>>
<1>1. m.lo \in Nat /\ m.lo < 65536
  BY MessageFields DEF Word
<1>2. processShortRealMessage(FrameOf(m)) = Printed(Quotient([m |-> m.lo, w |-> 1], 100), 2)
  BY HundredthsAre DEF processShortRealMessage
<1> QED BY <1>1, <1>2, HundredthsPrinted

(* Sign, number and places, as they were sent.                             *)
LEMMA FloatFieldsAre ==
    ASSUME NEW m, Meaning(m), m.type = 2
    PROVE  /\ FrameOf(m)[At(1)] = m.sign
           /\ Short(FrameOf(m), At(2)) = m.hi /\ Short(FrameOf(m), At(4)) = m.lo
           /\ FrameOf(m)[At(6)] = m.point
<1> DEFINE f == FrameOf(m)
           c == Content(m)
<1>1. /\ Len(c) = 6 /\ c[1] = m.sign
      /\ c[2] * 256 + c[3] = m.hi /\ c[4] * 256 + c[5] = m.lo /\ c[6] = m.point
  BY ContentIs
<1>2. \A k \in 1 .. ContentLen : f[At(k)] = IF k <= Len(c) THEN c[k] ELSE 0
  BY FrameIs
<1> HIDE DEF f, c
<1>3. \A k \in 1 .. 6 : f[At(k)] = c[k]
  BY <1>1, <1>2, Lengths
<1>4. /\ f[At(1)] = c[1] /\ f[At(2)] = c[2] /\ f[At(3)] = c[3]
      /\ f[At(4)] = c[4] /\ f[At(5)] = c[5] /\ f[At(6)] = c[6]
  BY <1>3
<1>5. At(2) + 1 = At(3) /\ At(4) + 1 = At(5)
  BY Lengths DEF At
<1>6. Short(f, At(2)) = c[2] * 256 + c[3] /\ Short(f, At(4)) = c[4] * 256 + c[5]
  BY <1>4, <1>5 DEF Short
<1> QED BY <1>1, <1>4, <1>6 DEF f

LEMMA ThreeParts ==
    ASSUME NEW x, NEW y, NEW z
    PROVE  /\ (<<x>> \o <<y, z>>)[1] = x
           /\ (<<x>> \o <<y, z>>)[2] = y /\ (<<x>> \o <<y, z>>)[3] = z
OBVIOUS

LEMMA FloatIs ==
    ASSUME NEW m, Meaning(m), m.type = 2, m.point <= 6
    PROVE  LET v == processFloatMessage(FrameOf(m))
               d == Digits(m)
               miss == (v[2] - d[1]) * 10 ^ 6 + v[3] - d[2]
               most == ((d[1] + 1) * (m.point + 1) * 6 + 50) \div 100
           IN  v[1] = (m.sign = 1) /\ - most <= miss /\ miss <= most
<1>1. m.hi \in Word /\ m.lo \in Word /\ m.point \in Byte
  BY MessageFields
<1>2. PICK p \in 0 .. 6 : p = m.point
  BY <1>1, ByteIs
<1>3. PICK n \in Nat : n = m.hi * 65536 + m.lo /\ n <= 512 * Unit
  <2>1. m.hi * 65536 + m.lo \in Nat /\ m.hi * 65536 + m.lo <= 512 * Unit
    BY <1>1, SMT DEF Word, Unit
  <2> QED BY <2>1
<1>4. processFloatMessage(FrameOf(m)) = <<m.sign = 1>> \o Printed(convert_number(n, p), 6)
  BY <1>2, <1>3, FloatFieldsAre DEF processFloatMessage
<1>5. Digits(m) = <<n \div Ten(p), (n % Ten(p)) * Ten(6 - p)>>
  BY <1>2, <1>3 DEF Digits, Ten
<1> DEFINE d == n \div Ten(p)
           r == (n % Ten(p)) * Ten(6 - p)
           most == ((d + 1) * (p + 1) * 6 + 50) \div 100
<1>6. PICK a \in Nat, b \in Nat :
        /\ Printed(convert_number(n, p), 6) = <<a, b>>
        /\ - most <= (a - d) * Ten(6) + b - r /\ (a - d) * Ten(6) + b - r <= most
  BY <1>3, FloatPrinted
<1> HIDE DEF d, r, most
<1>7. PICK v : v = processFloatMessage(FrameOf(m))
  OBVIOUS
<1>8. v = <<m.sign = 1>> \o <<a, b>>
  BY <1>4, <1>6, <1>7
<1>9. v[1] = (m.sign = 1) /\ v[2] = a /\ v[3] = b
  <2>1. PICK z : z = (m.sign = 1)
    OBVIOUS
  <2>2. v = <<z>> \o <<a, b>>
    BY <1>8, <2>1
  <2>3. v[1] = z /\ v[2] = a /\ v[3] = b
    BY <2>2, ThreeParts
  <2> QED BY <2>1, <2>3
<1>10. Digits(m)[1] = d /\ Digits(m)[2] = r
  BY <1>5 DEF d, r
<1>11. most = ((d + 1) * (m.point + 1) * 6 + 50) \div 100
  BY <1>2 DEF most
<1> QED BY <1>6, <1>7, <1>9, <1>10, <1>11 DEF Ten

(***************************************************************************)
(* The invariant: the frame is the one made of the message, and what is    *)
(* displayed comes from it.                                                *)
(***************************************************************************)
PInv ==
    /\ Meaning(meant)
    /\ buffer \in [1 .. ServerLen -> Byte]
    /\ frame # <<>> => frame = FrameOf(meant)
    /\ display # Nothing => frame # <<>> /\ display = processMessage(frame)

LEMMA PInvInit == Init => PInv
<1> SUFFICES ASSUME Init PROVE PInv
  OBVIOUS
<1>1. Meaning(meant)
  BY PublishedAssumption DEF Init, Meaning
<1>2. buffer \in [1 .. ServerLen -> Byte]
  BY PayloadAssumption DEF Init
<1> QED BY <1>1, <1>2 DEF Init, PInv

LEMMA FrameStays ==
    ASSUME UNCHANGED meant
    PROVE  FrameOf(meant)' = FrameOf(meant) /\ Meaning(meant)' = Meaning(meant)
BY DEF FrameOf, Received, Datagram, Content, format_buffer, Meaning

LEMMA PInvStep == PInv /\ [Next]_vars => PInv'
<1> SUFFICES ASSUME PInv, [Next]_vars PROVE PInv'
  OBVIOUS
<1>1. CASE receive_udp_message
  <2>1. /\ meant' = meant /\ display' = display /\ frame = <<>>
        /\ buffer' = Received(Datagram(meant))
        /\ frame' = format_buffer(buffer', meant.ip, meant.port)
    BY <1>1 DEF receive_udp_message
  <2>2. Meaning(meant)'
    BY <2>1, FrameStays DEF PInv
  <2>3. frame' = FrameOf(meant)
    BY <2>1 DEF FrameOf
  <2>4. FrameOf(meant)' = FrameOf(meant)
    BY <2>1, FrameStays
  <2>5. buffer' \in [1 .. ServerLen -> Byte]
    <3>1. Datagram(meant) \in Seq(Byte)
      BY DatagramIs DEF PInv
    <3>2. Received(Datagram(meant)) \in Seq(Byte) /\ Len(Received(Datagram(meant))) = ServerLen
      BY <3>1, ReceivedIs
    <3> QED BY <2>1, <3>2
  <2>6. display' = Nothing
    BY <2>1 DEF PInv
  <2> QED BY <2>2, <2>3, <2>4, <2>5, <2>6 DEF PInv
<1>2. CASE Shows
  <2>1. /\ UNCHANGED <<meant, buffer, frame>> /\ frame # <<>>
        /\ display' = processMessage(frame)
    BY <1>2 DEF Shows
  <2>2. processMessage(frame)' = processMessage(frame)
    BY <2>1
  <2> QED BY <2>1, <2>2, FrameStays DEF PInv
<1>3. CASE UNCHANGED vars
  BY <1>3, FrameStays DEF vars, PInv
<1> QED BY <1>1, <1>2, <1>3 DEF Next

LEMMA MessagesInductive == Spec => []PInv
BY PInvInit, PInvStep, PTL DEF Spec

(* A frame is as long as the subscriber expects, whatever the datagram's   *)
(* length: recvfrom, format_buffer and the cleared buffer.                 *)
THEOREM FramesAreWhole == Spec => []PayloadTypeOK
<1>1. PInv => PayloadTypeOK
  <2> SUFFICES ASSUME PInv, frame # <<>>
               PROVE  /\ frame \in [1 .. ServerLen + IpLen + 3 -> Byte]
                      /\ frame[Len(frame)] = 13
    BY DEF PInv, PayloadTypeOK
  <2>1. /\ frame \in Seq(Byte) /\ Len(frame) = ServerLen + IpLen + 3
        /\ frame[ServerLen + IpLen + 3] = 13
    BY FrameIs DEF PInv
  <2> QED BY <2>1
<1> QED BY <1>1, MessagesInductive, PTL

(* What processMessage takes out of a frame, but for the value.            *)
LEMMA Displayed ==
    ASSUME PInv, display # Nothing
    PROVE  /\ Meaning(meant) /\ display.type = meant.type
           /\ meant.type <= 3 =>
                /\ display.topic = Text(SubSeq(FrameOf(meant), 1, TopicLen))
                /\ display.ip = Text(SubSeq(FrameOf(meant), ServerLen + 1, ServerLen + IpLen))
                /\ display.port = Short(FrameOf(meant), ServerLen + IpLen + 1)
                /\ meant.type = 0 => display.value = processIntMessage(FrameOf(meant))
                /\ meant.type = 1 => display.value = processShortRealMessage(FrameOf(meant))
                /\ meant.type = 2 => display.value = processFloatMessage(FrameOf(meant))
                /\ meant.type = 3 => display.value = processStringMessage(FrameOf(meant))
<1> DEFINE f == FrameOf(meant)
<1>1. Meaning(meant) /\ display = processMessage(f)
  BY DEF PInv
<1>2. f[TopicLen + 1] = meant.type /\ meant.type \in Nat
  BY <1>1, FrameIs, MessageFields, ByteIs
<1> HIDE DEF f
<1>3. CASE meant.type > 3
  BY <1>1, <1>2, <1>3 DEF processMessage
<1>4. CASE meant.type <= 3
  <2> DEFINE v == CASE meant.type = 0 -> processIntMessage(f)
                    [] meant.type = 1 -> processShortRealMessage(f)
                    [] meant.type = 2 -> processFloatMessage(f)
                    [] meant.type = 3 -> processStringMessage(f)
  <2>1. display = [type  |-> meant.type,
                   topic |-> Text(SubSeq(f, 1, TopicLen)),
                   ip    |-> Text(SubSeq(f, ServerLen + 1, ServerLen + IpLen)),
                   port  |-> Short(f, ServerLen + IpLen + 1),
                   value |-> v]
    BY <1>1, <1>2, <1>4 DEF processMessage
  <2>2. /\ meant.type = 0 => v = processIntMessage(f)
        /\ meant.type = 1 => v = processShortRealMessage(f)
        /\ meant.type = 2 => v = processFloatMessage(f)
        /\ meant.type = 3 => v = processStringMessage(f)
    OBVIOUS
  <2> HIDE DEF v
  <2> QED BY <1>1, <2>1, <2>2 DEF f
<1> QED BY <1>2, <1>3, <1>4

(* Topic, address, port and type are displayed as they were sent, for all  *)
(* lengths of the fields, a topic without a NUL included: format_buffer    *)
(* and processMessage agree where they are.                                *)
THEOREM FieldsArrive == Spec => []FieldsShown
<1>1. PInv => FieldsShown
  <2> SUFFICES ASSUME PInv, display # Nothing, meant.type <= 3
               PROVE  /\ display.topic = meant.topic
                      /\ display.ip = meant.ip /\ display.port = meant.port
                      /\ display.type = meant.type
    BY DEF FieldsShown
  <2>1. Short(FrameOf(meant), ServerLen + IpLen + 1) = meant.port
    BY Displayed, FrameIs
  <2> QED BY <2>1, Displayed, TopicIs, IpIs
<1> QED BY <1>1, MessagesInductive, PTL

(* A text is displayed up to CONTENT_LEN, and nothing after it.            *)
THEOREM TextsArrive == Spec => []TextShown
<1>1. PInv => TextShown
  <2> SUFFICES ASSUME PInv, display # Nothing, meant.type = 3
               PROVE  display.value = CutText(meant)
    BY DEF TextShown, Shown, CutText
  <2>1. Meaning(meant) /\ display.value = processStringMessage(FrameOf(meant))
    BY Displayed
  <2> QED BY <2>1, StringIs
<1> QED BY <1>1, MessagesInductive, PTL

(* Every integer an int can hold is displayed with its sign, the lowest    *)
(* one included, which processIntMessage negates.                          *)
THEOREM IntegersArrive == Spec => []IntShown
<1>1. PInv => IntShown
  <2> SUFFICES ASSUME PInv, display # Nothing, meant.type = 0, FitsInt(meant)
               PROVE  display.value =
                         [neg |-> meant.sign = 1 /\ (meant.hi # 0 \/ meant.lo # 0),
                          hi |-> meant.hi, lo |-> meant.lo]
    BY DEF IntShown, Shown
  <2>1. Meaning(meant) /\ display.value = processIntMessage(FrameOf(meant))
    BY Displayed
  <2> QED BY <2>1, IntIs
<1> QED BY <1>1, MessagesInductive, PTL

(* The two decimals displayed are the two sent, for every number of 16     *)
(* bits: what the division and the printing lose together is less than     *)
(* half a hundredth.                                                       *)
THEOREM DecimalsArrive == Spec => []ShortRealShown
<1>1. PInv => ShortRealShown
  <2> SUFFICES ASSUME PInv, display # Nothing, meant.type = 1
               PROVE  display.value = <<meant.lo \div 100, meant.lo % 100>>
    BY DEF ShortRealShown, Shown
  <2>1. Meaning(meant) /\ display.value = processShortRealMessage(FrameOf(meant))
    BY Displayed
  <2> QED BY <2>1, RealIs
<1> QED BY <1>1, MessagesInductive, PTL

(* A float that stands for n / 10^point is displayed with all of its six   *)
(* decimals but for the roundings of convert_number's divisions and of     *)
(* printf: at most half a unit in the last of 24 places for each.          *)
THEOREM FloatsArrive == Spec => []FloatShown
<1>1. PInv => FloatShown
  <2> SUFFICES ASSUME PInv, display # Nothing, meant.type = 2, meant.point <= 6
               PROVE  LET d == Digits(meant)
                          miss == (display.value[2] - d[1]) * 10 ^ 6 + display.value[3] - d[2]
                          most == ((d[1] + 1) * (meant.point + 1) * 6 + 50) \div 100
                      IN  /\ display.value[1] = (meant.sign = 1)
                          /\ - most <= miss /\ miss <= most
    BY DEF FloatShown, Shown
  <2>1. Meaning(meant) /\ display.value = processFloatMessage(FrameOf(meant))
    BY Displayed
  <2> QED BY <2>1, FloatIs
<1> QED BY <1>1, MessagesInductive, PTL
=============================================================================
