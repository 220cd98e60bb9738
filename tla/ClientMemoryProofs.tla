------------------------- MODULE ClientMemoryProofs -------------------------
(***************************************************************************)
(* The loops of ClientMemory.tla over arrays and queues of any size        *)
(* implement the handlers of Session.tla.                                  *)
(***************************************************************************)
EXTENDS ClientMemory, StorageProofs, FiniteSetTheorems

Sub == [topic : Topics, sf : BOOLEAN]

(***************************************************************************)
(* Lemmas about sequences.                                                 *)
(***************************************************************************)

(* A sequence is the function that lists its elements.                     *)
LEMMA Listed ==
    ASSUME NEW T, NEW s \in Seq(T)
    PROVE  s = [i \in 1 .. Len(s) |-> s[i]] /\ Len(s) \in Nat
OBVIOUS

(* Equal copies, one after the other.                                      *)
LEMMA TimesMore ==
    ASSUME NEW s \in Seq(Nat), NEW k \in Nat, NEW x \in Nat
    PROVE  /\ Times(k, x) \in Seq(Nat)
           /\ s \o Times(0, x) = s
           /\ Append(s \o Times(k, x), x) = s \o Times(k + 1, x)
<1>1. \A l \in Nat : Times(l, x) \in Seq(Nat) /\ Len(Times(l, x)) = l
                     /\ \A i \in 1 .. l : Times(l, x)[i] = x
  BY DEF Times
<1>2. Times(0, x) = <<>>
  BY <1>1
<1>3. s \o Times(0, x) = s
  BY <1>2, ConcatEmptySeq
<1> DEFINE t == Times(k, x)
           u == Times(k + 1, x)
<1>4. t \in Seq(Nat) /\ Len(t) = k /\ \A i \in 1 .. k : t[i] = x
  BY <1>1
<1>5. u \in Seq(Nat) /\ Len(u) = k + 1 /\ \A i \in 1 .. k + 1 : u[i] = x
  <2>1. k + 1 \in Nat
    OBVIOUS
  <2> QED
    BY <1>1, <2>1
<1> HIDE DEF t, u
<1>6. /\ Append(t, x) \in Seq(Nat) /\ Len(Append(t, x)) = k + 1
      /\ \A i \in 1 .. k : Append(t, x)[i] = x
      /\ Append(t, x)[k + 1] = x
  BY <1>4, AppendProperties
<1>7. Append(t, x) = u
  <2>1. \A i \in 1 .. k + 1 : Append(t, x)[i] = u[i]
    BY <1>5, <1>6
  <2> QED
    BY <1>5, <1>6, <2>1, SeqEqual
<1>8. /\ t \o <<x>> = u
      /\ Append(s \o t, x) = (s \o t) \o <<x>>
      /\ (s \o t) \o <<x>> = s \o (t \o <<x>>)
  <2>1. s \o t \in Seq(Nat) /\ <<x>> \in Seq(Nat)
    BY <1>4, ConcatProperties
  <2>2. t \o <<x>> = u
    BY <1>4, <1>7, AppendIsConcat
  <2>3. Append(s \o t, x) = (s \o t) \o <<x>>
    BY <2>1, AppendIsConcat
  <2>4. (s \o t) \o <<x>> = s \o (t \o <<x>>)
    BY <1>4, <2>1, ConcatAssociative
  <2> QED
    BY <2>2, <2>3, <2>4
<1> QED
  BY <1>3, <1>4, <1>8 DEF t, u

(* Positions counted up to j, one at a time.                               *)
UpTo(W, k) == {i \in W : i <= k}

LEMMA Counting ==
    ASSUME NEW m \in Nat, NEW W \in SUBSET (1 .. m), NEW k \in Nat
    PROVE  /\ Cardinality(UpTo(W, k)) \in Nat
           /\ Cardinality(UpTo(W, 0)) = 0
           /\ k + 1 \in W => Cardinality(UpTo(W, k + 1)) = Cardinality(UpTo(W, k)) + 1
           /\ k + 1 \notin W => UpTo(W, k + 1) = UpTo(W, k)
           /\ k >= m => UpTo(W, k) = W
<1>1. IsFiniteSet(1 .. m)
  BY FS_Interval
<1>2. IsFiniteSet(UpTo(W, k))
  <2>1. UpTo(W, k) \in SUBSET (1 .. m)
    BY DEF UpTo
  <2> QED
    BY <1>1, <2>1, FS_Subset
<1>3. Cardinality(UpTo(W, k)) \in Nat
  BY <1>2, FS_CardinalityType
<1>0. \A i \in W : i \in Int /\ i >= 1 /\ i <= m
  OBVIOUS
<1>4. UpTo(W, 0) = {}
  <2>1. \A i \in W : ~ (i <= 0)
    BY <1>0
  <2> QED
    BY <2>1 DEF UpTo
<1>5. Cardinality(UpTo(W, 0)) = 0
  BY <1>4, FS_EmptySet
<1>6. ASSUME k + 1 \in W
      PROVE  Cardinality(UpTo(W, k + 1)) = Cardinality(UpTo(W, k)) + 1
  <2>1. \A i \in W : i <= k + 1 <=> i <= k \/ i = k + 1
    BY <1>0
  <2>2. ~ (k + 1 <= k)
    OBVIOUS
  <2>3. UpTo(W, k + 1) = UpTo(W, k) \cup {k + 1} /\ k + 1 \notin UpTo(W, k)
    BY <2>1, <2>2, <1>6, Zenon DEF UpTo
  <2> QED
    BY <2>3, <1>2, FS_AddElement
<1>7. k + 1 \notin W => UpTo(W, k + 1) = UpTo(W, k)
  <2>1. \A i \in W : i <= k + 1 <=> i <= k \/ i = k + 1
    BY <1>0
  <2> QED
    BY <2>1, Zenon DEF UpTo
<1>8. k >= m => UpTo(W, k) = W
  <2>1. k >= m => \A i \in W : i <= k
    BY <1>0
  <2> QED
    BY <2>1, Zenon DEF UpTo
<1> QED
  BY <1>3, <1>5, <1>6, <1>7, <1>8

(***************************************************************************)
(* The two arrays as a sequence of subscriptions.                          *)
(***************************************************************************)

Arrays(t, s) ==
    /\ Block(t) /\ Block(s)
    /\ Holds(t, Topics) /\ Holds(s, BOOLEAN)
    /\ t.len = s.len

(* The pairs are a sequence.                                               *)
LEMMA PairsType ==
    ASSUME NEW t, NEW s, Arrays(t, s)
    PROVE  /\ Pairs(t, s) \in Seq(Sub) /\ Len(Pairs(t, s)) = t.len /\ t.len \in Nat
           /\ DOMAIN Pairs(t, s) = 1 .. t.len
           /\ \A i \in 1 .. t.len : /\ Pairs(t, s)[i].topic = t.data[i - 1]
                                    /\ Pairs(t, s)[i].sf = s.data[i - 1]
<1>1. t.len \in Nat /\ s.len = t.len
  BY DEF Arrays, Block
<1>2. \A i \in 1 .. t.len : i - 1 \in 0 .. t.len - 1
  BY <1>1
<1>3. \A i \in 1 .. t.len : t.data[i - 1] \in Topics /\ s.data[i - 1] \in BOOLEAN
  BY <1>1, <1>2 DEF Arrays, Holds
<1>4. \A i \in 1 .. t.len : [topic |-> t.data[i - 1], sf |-> s.data[i - 1]] \in Sub
  BY <1>3 DEF Sub
<1>5. Pairs(t, s) \in [1 .. t.len -> Sub]
  BY <1>4 DEF Pairs
<1>6. Pairs(t, s) \in Seq(Sub) /\ Len(Pairs(t, s)) = t.len
  BY <1>1, <1>5
<1> QED
  BY <1>1, <1>5, <1>6 DEF Pairs

(* subscribe puts a pair before the others.                                *)
LEMMA PairsAdd ==
    ASSUME NEW t, NEW s, Arrays(t, s), NEW topic \in Topics, NEW sf \in BOOLEAN
    PROVE  LET t2 == add_pos(t, topic, 0)
               s2 == add_pos(s, sf, 0)
           IN  /\ Arrays(t2, s2)
               /\ Pairs(t2, s2) = <<[topic |-> topic, sf |-> sf]>> \o Pairs(t, s)
<1> DEFINE t2 == add_pos(t, topic, 0)
           s2 == add_pos(s, sf, 0)
           m == [topic |-> topic, sf |-> sf]
<1>1. t.len \in Nat /\ s.len = t.len
  BY DEF Arrays, Block
<1>2. 0 \in 0 .. t.len
  BY <1>1
<1>3. /\ Block(t2) /\ Holds(t2, Topics) /\ t2.len = t.len + 1
      /\ \A i \in 0 .. t.len : t2.data[i] = IF i < 0 THEN t.data[i]
                                            ELSE IF i = 0 THEN topic ELSE t.data[i - 1]
  BY <1>2, AddHolds DEF Arrays
<1>4. /\ Block(s2) /\ Holds(s2, BOOLEAN) /\ s2.len = t.len + 1
      /\ \A i \in 0 .. t.len : s2.data[i] = IF i < 0 THEN s.data[i]
                                            ELSE IF i = 0 THEN sf ELSE s.data[i - 1]
  BY <1>1, <1>2, AddHolds DEF Arrays
<1> HIDE DEF t2, s2
<1>5. Arrays(t2, s2)
  BY <1>3, <1>4 DEF Arrays
<1>6. Pairs(t2, s2) = [i \in 1 .. t.len + 1 |->
                         IF i = 1 THEN m ELSE [topic |-> t.data[i - 2], sf |-> s.data[i - 2]]]
  <2>1. \A i \in 1 .. t.len + 1 :
           /\ t2.data[i - 1] = IF i = 1 THEN topic ELSE t.data[i - 2]
           /\ s2.data[i - 1] = IF i = 1 THEN sf ELSE s.data[i - 2]
    <3> TAKE i \in 1 .. t.len + 1
    <3>1. i - 1 \in 0 .. t.len /\ ~ (i - 1 < 0) /\ (i - 1 = 0 <=> i = 1) /\ (i - 1) - 1 = i - 2
      BY <1>1
    <3> QED
      BY <3>1, <1>3, <1>4
  <2>2. Pairs(t2, s2) = [i \in 1 .. t.len + 1 |->
                           [topic |-> t2.data[i - 1], sf |-> s2.data[i - 1]]]
    BY <1>3 DEF Pairs
  <2> QED
    BY <2>1, <2>2
<1>7. /\ <<m>> \in Seq(Sub) /\ Len(<<m>>) = 1 /\ <<m>>[1] = m
      /\ Pairs(t, s) \in Seq(Sub) /\ Len(Pairs(t, s)) = t.len
  <2>1. m \in Sub
    BY DEF Sub
  <2> QED
    BY <2>1, PairsType
<1>8. /\ <<m>> \o Pairs(t, s) \in Seq(Sub)
      /\ Len(<<m>> \o Pairs(t, s)) = 1 + t.len
      /\ \A i \in 1 .. 1 + t.len : (<<m>> \o Pairs(t, s))[i] =
            IF i <= 1 THEN <<m>>[i] ELSE Pairs(t, s)[i - 1]
  BY <1>7, ConcatProperties
<1>9. <<m>> \o Pairs(t, s) = [i \in 1 .. t.len + 1 |-> (<<m>> \o Pairs(t, s))[i]]
  <2>1. Len(<<m>> \o Pairs(t, s)) = t.len + 1
    BY <1>1, <1>8
  <2> QED
    BY <2>1, <1>8, Listed
<1>10. \A i \in 1 .. t.len + 1 : (<<m>> \o Pairs(t, s))[i] =
          IF i = 1 THEN m ELSE [topic |-> t.data[i - 2], sf |-> s.data[i - 2]]
  <2> TAKE i \in 1 .. t.len + 1
  <2>1. CASE i = 1
    BY <2>1, <1>1, <1>7, <1>8
  <2>2. CASE i # 1
    <3>1. i \in 1 .. 1 + t.len /\ ~ (i <= 1) /\ i - 1 \in 1 .. t.len /\ (i - 1) - 1 = i - 2
      BY <2>2, <1>1
    <3>2. Pairs(t, s)[i - 1] = [topic |-> t.data[(i - 1) - 1], sf |-> s.data[(i - 1) - 1]]
      BY <3>1 DEF Pairs
    <3> QED
      BY <2>2, <3>1, <3>2, <1>8
  <2> QED
    BY <2>1, <2>2
<1>11. Pairs(t2, s2) = <<m>> \o Pairs(t, s)
  BY <1>6, <1>9, <1>10
<1> QED
  BY <1>5, <1>11 DEF t2, s2

(* del_pos of the last element takes the last pair.                        *)
LEMMA PairsDel ==
    ASSUME NEW t, NEW s, Arrays(t, s), t.len > 0
    PROVE  LET t2 == del_pos(t, t.len - 1)
               s2 == del_pos(s, t.len - 1)
           IN  /\ Arrays(t2, s2) /\ t2.len = t.len - 1
               /\ Pairs(t2, s2) = SubSeq(Pairs(t, s), 1, t.len - 1)
<1> DEFINE t2 == del_pos(t, t.len - 1)
           s2 == del_pos(s, t.len - 1)
<1>1. t.len \in Nat /\ s.len = t.len
  BY DEF Arrays, Block
<1>2. /\ Block(t2) /\ Holds(t2, Topics) /\ t2.len = t.len - 1
      /\ \A i \in 0 .. t2.len - 1 : t2.data[i] = t.data[i]
  BY DelHolds DEF Arrays
<1>3. /\ Block(s2) /\ Holds(s2, BOOLEAN) /\ s2.len = t.len - 1
      /\ \A i \in 0 .. s2.len - 1 : s2.data[i] = s.data[i]
  BY <1>1, DelHolds DEF Arrays
<1> HIDE DEF t2, s2
<1>4. Arrays(t2, s2)
  BY <1>2, <1>3 DEF Arrays
<1>5. \A i \in 1 .. t.len - 1 : t2.data[i - 1] = t.data[i - 1] /\ s2.data[i - 1] = s.data[i - 1]
  <2> TAKE i \in 1 .. t.len - 1
  <2>1. i - 1 \in 0 .. (t.len - 1) - 1
    BY <1>1
  <2> QED
    BY <2>1, <1>2, <1>3
<1>6. Pairs(t2, s2) = [i \in 1 .. t.len - 1 |-> [topic |-> t.data[i - 1], sf |-> s.data[i - 1]]]
  <2>1. Pairs(t2, s2) = [i \in 1 .. t.len - 1 |->
                           [topic |-> t2.data[i - 1], sf |-> s2.data[i - 1]]]
    BY <1>2 DEF Pairs
  <2> QED
    BY <2>1, <1>5
<1> DEFINE p == SubSeq(Pairs(t, s), 1, t.len - 1)
<1>7. Pairs(t, s) \in Seq(Sub) /\ Len(Pairs(t, s)) = t.len
  BY PairsType
<1>8. /\ p \in Seq(Sub) /\ Len(p) = t.len - 1
      /\ \A i \in 1 .. t.len - 1 : p[i] = Pairs(t, s)[i]
  <2>1. t.len - 1 \in 0 .. t.len
    BY <1>1
  <2> QED
    BY <2>1, <1>1, <1>7
<1> HIDE DEF p
<1>9. p = [i \in 1 .. t.len - 1 |-> p[i]]
  BY <1>8, Listed
<1>10. \A i \in 1 .. t.len - 1 : p[i] = [topic |-> t.data[i - 1], sf |-> s.data[i - 1]]
  <2> TAKE i \in 1 .. t.len - 1
  <2>1. i \in 1 .. t.len
    BY <1>1
  <2> QED
    BY <2>1, <1>8 DEF Pairs
<1>11. Pairs(t2, s2) = p
  BY <1>6, <1>9, <1>10
<1> QED
  BY <1>2, <1>4, <1>11 DEF t2, s2, p

(***************************************************************************)
(* The inductive invariant: what each loop has done so far to the record   *)
(* its handler began with.                                                 *)
(***************************************************************************)

Began ==
    before \in [rec : [sock : Socks \cup {NoSock}, interests : Seq(Sub), inWaiting : Seq(Nat)],
                out : Seq(Nat)]

(* unsubscribe has found nothing yet, or deleted the last element.         *)
Searched ==
    /\ before.rec.interests = Subscriptions
    /\ \A k \in 0 .. topics.len - 1 : k < j => topics.data[k] # arg
Deleted ==
    LET r == before.rec
    IN  /\ j >= topics.len
        /\ arg \in Topics
        /\ ~ Faults(r, arg)
        /\ Subscriptions = DropLast(r, arg).interests
Unsubscribing ==
    /\ sock # NoSock /\ before.rec.sock = sock
    /\ before.rec.inWaiting = Contents /\ before.out = out
    /\ Searched \/ Deleted

(* receive_udp_message has sent, or stored, for the positions up to j.     *)
Delivering ==
    LET r == before.rec
        n == handled + 1
    IN  /\ arg \in Topics /\ handled < MaxPubs
        /\ r.sock = sock /\ r.interests = Subscriptions
        /\ out = IF sock = NoSock THEN before.out
                 ELSE before.out \o Times(Cardinality(UpTo(Wanted(r, arg), j)), n)
        /\ Contents = IF sock # NoSock THEN r.inWaiting
                      ELSE r.inWaiting \o Times(Cardinality(UpTo(Stored(r, arg), j)), n)

(* handle_id_client has sent the first of what was stored.                 *)
Draining ==
    /\ sock \in Socks
    /\ before.rec.sock = NoSock /\ before.rec.interests = Subscriptions
    /\ before.rec.inWaiting = out \o Contents

LoopsOK ==
    status = "up" =>
       /\ at = "unsubscribe" => Unsubscribing
       /\ at = "datagram" => Delivering
       /\ at = "return" => Draining

IInv ==
    /\ MemoryTypeOK
    /\ Arrays(topics, sfs)
    /\ QueueShape
    /\ Began
    /\ sock = NoSock => out = <<>>
    /\ LoopsOK

(***************************************************************************)
(* Consequences of the invariant.                                          *)
(***************************************************************************)

(* The types of what the memory stands for.                                *)
LEMMA Facts ==
    ASSUME IInv
    PROVE  /\ QueueOK /\ Contents \in Seq(Nat)
           /\ topics.len \in Nat /\ sfs.len = topics.len
           /\ Subscriptions \in Seq(Sub) /\ Len(Subscriptions) = topics.len
           /\ sock \in Socks \cup {NoSock} /\ out \in Seq(Nat)
           /\ handled \in Nat /\ j \in Nat
           /\ before.rec = [sock |-> before.rec.sock, interests |-> before.rec.interests,
                            inWaiting |-> before.rec.inWaiting]
           /\ before.rec.interests \in Seq(Sub) /\ before.rec.inWaiting \in Seq(Nat)
           /\ before.out \in Seq(Nat)
<1>1. QueueOK
  BY DEF IInv, MemoryTypeOK, QueueOK
<1>2. Contents \in Seq(Nat)
  BY <1>1, ContentsType
<1>3. topics.len \in Nat /\ sfs.len = topics.len
  BY DEF IInv, Arrays, Block
<1>4. Subscriptions \in Seq(Sub) /\ Len(Subscriptions) = topics.len
  BY PairsType DEF IInv, Subscriptions
<1>5. /\ sock \in Socks \cup {NoSock} /\ out \in Seq(Nat)
      /\ handled \in Nat /\ j \in Nat
  BY ClientMemoryAssumption DEF IInv, MemoryTypeOK
<1>6. /\ before.rec \in [sock : Socks \cup {NoSock}, interests : Seq(Sub), inWaiting : Seq(Nat)]
      /\ before.out \in Seq(Nat)
  BY DEF IInv, Began
<1>7. /\ before.rec = [sock |-> before.rec.sock, interests |-> before.rec.interests,
                       inWaiting |-> before.rec.inWaiting]
      /\ before.rec.interests \in Seq(Sub) /\ before.rec.inWaiting \in Seq(Nat)
  BY <1>6
<1> QED
  BY <1>1, <1>2, <1>3, <1>4, <1>5, <1>6, <1>7

(* The positions that a record with these subscriptions is searched for.   *)
LEMMA Positions ==
    ASSUME IInv, NEW r, r.interests = Subscriptions, NEW t
    PROVE  /\ Wanted(r, t) \in SUBSET (1 .. topics.len)
           /\ Stored(r, t) \in SUBSET (1 .. topics.len)
           /\ \A k \in 0 .. topics.len - 1 :
                 /\ k + 1 \in 1 .. topics.len
                 /\ k + 1 \in Wanted(r, t) <=> topics.data[k] = t
                 /\ k + 1 \in Stored(r, t) <=> topics.data[k] = t /\ sfs.data[k]
                 /\ topics.data[k] \in Topics /\ sfs.data[k] \in BOOLEAN
<1>1. /\ topics.len \in Nat /\ sfs.len = topics.len
      /\ DOMAIN Subscriptions = 1 .. topics.len
      /\ \A i \in 1 .. topics.len : /\ Subscriptions[i].topic = topics.data[i - 1]
                                   /\ Subscriptions[i].sf = sfs.data[i - 1]
  BY PairsType, Facts DEF IInv, Subscriptions
<1>2. /\ Wanted(r, t) = {i \in 1 .. topics.len : Subscriptions[i].topic = t}
      /\ Stored(r, t) = {i \in Wanted(r, t) : Subscriptions[i].sf}
  BY <1>1 DEF Wanted, Stored
<1>3. ASSUME NEW k \in 0 .. topics.len - 1
      PROVE  /\ k + 1 \in 1 .. topics.len
             /\ Subscriptions[k + 1].topic = topics.data[k]
             /\ Subscriptions[k + 1].sf = sfs.data[k]
  <2>1. k + 1 \in 1 .. topics.len /\ (k + 1) - 1 = k
    BY <1>1
  <2> QED
    BY <2>1, <1>1
<1>4. \A k \in 0 .. topics.len - 1 : topics.data[k] \in Topics /\ sfs.data[k] \in BOOLEAN
  BY <1>1 DEF IInv, Arrays, Holds
<1> QED
  BY <1>2, <1>3, <1>4

(* What Session.tla takes from Records.tla is the same there.              *)
LEMMA SameOperators ==
    /\ \A r : S!Online(r) <=> Online(r)
    /\ \A r, t : S!Wanted(r, t) = Wanted(r, t)
    /\ \A r, t : S!Faults(r, t) <=> Faults(r, t)
    /\ \A r, t : S!DropLast(r, t) = DropLast(r, t)
    /\ \A r, t, n : S!Keep(r, t, n) = Keep(r, t, n)
    /\ \A k, n : S!Times(k, n) = Times(k, n)
    /\ \A r, fd : S!Back(r, fd) = Back(r, fd)
    /\ \A r : S!Offline(r) = Offline(r)
    /\ \A r, m : S!Subscribed(r, m) = Subscribed(r, m)
<1>1. \A r : S!Online(r) <=> Online(r)
  BY DEF S!NoSock, NoSock, S!Online, Online
<1>2. \A r, t : S!Wanted(r, t) = Wanted(r, t)
  BY DEF S!Wanted, Wanted
<1>3. \A r, t : S!Stored(r, t) = Stored(r, t)
  BY <1>2 DEF S!Stored, Stored
<1>4. \A k, n : S!Times(k, n) = Times(k, n)
  BY DEF S!Times, Times
<1>5. \A r, t : S!Faults(r, t) <=> Faults(r, t)
  BY <1>2 DEF S!Faults, Faults
<1>6. \A r, t : S!DropLast(r, t) = DropLast(r, t)
  BY <1>2 DEF S!DropLast, DropLast
<1>7. \A r, t, n : S!Keep(r, t, n) = Keep(r, t, n)
  <2>1. \A W : S!Cardinality(W) = Cardinality(W)
    BY DEF S!Cardinality, Cardinality
  <2> QED
    BY <1>1, <1>3, <1>4, <2>1 DEF S!Keep, Keep
<1>8. \A r, fd : S!Back(r, fd) = Back(r, fd)
  BY DEF S!Back, Back
<1>9. \A r : S!Offline(r) = Offline(r)
  BY DEF S!Offline, Offline, S!NoSock, NoSock
<1>10. \A r, m : S!Subscribed(r, m) = Subscribed(r, m)
  BY DEF S!Subscribed, Subscribed
<1> QED
  BY <1>1, <1>2, <1>4, <1>5, <1>6, <1>7, <1>8, <1>9, <1>10

(* A queue that nothing is done to stays as it is.                         *)
LEMMA QueueStays ==
    ASSUME QueueOK, UNCHANGED queueVars
    PROVE  QueueOK' /\ Contents' = Contents /\ Len(chain') = Len(chain)
<1>1. head' = head /\ tail' = tail /\ cells' = cells /\ chain' = chain
  BY DEF queueVars
<1> QED
  BY <1>1 DEF QueueOK, QueueTypeOK, QueueShape, Contents

(* A step keeps the invariant, and is one of Session.tla or changes none   *)
(* of its variables.                                                       *)
Refines == IInv' /\ [S!Next]_S!vars

(* The record a handler begins with is the one the memory stands for.      *)
LEMMA BeginsWith ==
    ASSUME IInv, NEW handler \in Handlers \ {"idle"}, NEW topic \in Topics \cup {None},
           Begins(handler, topic),
           UNCHANGED <<topics, sfs, out, handled, status, queueVars>>,
           sock' \in Socks \cup {NoSock}, sock' = NoSock => sock = NoSock,
           LoopsOK'
    PROVE  Refines
<1>1. QueueOK' /\ Contents' = Contents
  BY Facts, QueueStays
<1>2. /\ at = "idle" /\ at' = handler /\ arg' = topic /\ j' = 0
      /\ before' = [rec |-> Stands, out |-> out]
  BY DEF Begins
<1>3. MemoryTypeOK'
  <2>1. QueueTypeOK'
    BY <1>1 DEF QueueOK
  <2> QED
    BY <1>2, <2>1 DEF IInv, MemoryTypeOK
<1>4. Arrays(topics, sfs)' /\ QueueShape'
  BY <1>1 DEF IInv, QueueOK
<1>5. Began'
  <2>1. /\ Stands \in [sock : Socks \cup {NoSock}, interests : Seq(Sub), inWaiting : Seq(Nat)]
        /\ out \in Seq(Nat)
    BY Facts DEF Stands
  <2> QED
    BY <1>2, <2>1 DEF Began
<1>6. sock' = NoSock => out' = <<>>
  BY DEF IInv
<1>7. UNCHANGED S!vars
  <2>1. RecordThen = Stands /\ OutThen = out
    BY <1>2 DEF RecordThen, OutThen, Running
  <2>2. RecordThen' = Stands /\ OutThen' = out
    BY <1>2 DEF RecordThen, OutThen, Running
  <2> QED
    BY <2>1, <2>2 DEF S!vars
<1> QED
  BY <1>3, <1>4, <1>5, <1>6, <1>7 DEF Refines, IInv

(* The loops begin with nothing done.                                      *)
LEMMA BeginUnsubscribeRefines ==
    ASSUME IInv, BeginUnsubscribe
    PROVE  Refines
<1>1. PICK topic \in Topics \cup {None} : Begins("unsubscribe", topic)
  BY DEF BeginUnsubscribe
<1>2. UNCHANGED <<sock, topics, sfs, out, handled, status, queueVars>> /\ sock # NoSock
  BY DEF BeginUnsubscribe
<1>3. Contents' = Contents /\ Subscriptions' = Subscriptions
  BY <1>2, Facts, QueueStays DEF Subscriptions
<1>4. before' = [rec |-> Stands, out |-> out] /\ j' = 0 /\ at' = "unsubscribe"
  BY <1>1 DEF Begins
<1>5. Searched'
  <2>1. before'.rec.interests = Subscriptions
    BY <1>4 DEF Stands
  <2>2. \A k \in 0 .. topics'.len - 1 : ~ (k < j')
    BY <1>2, <1>4, Facts
  <2> QED
    BY <1>3, <2>1, <2>2 DEF Searched
<1>6. Unsubscribing'
  BY <1>2, <1>3, <1>4, <1>5 DEF Unsubscribing, Stands
<1>7. LoopsOK'
  BY <1>4, <1>6 DEF LoopsOK
<1>8. sock' \in Socks \cup {NoSock} /\ (sock' = NoSock => sock = NoSock)
  BY <1>2, Facts
<1> QED
  BY <1>1, <1>2, <1>7, <1>8, BeginsWith DEF Handlers

LEMMA BeginDatagramRefines ==
    ASSUME IInv, BeginDatagram
    PROVE  Refines
<1>1. PICK topic \in Topics : Begins("datagram", topic)
  BY DEF BeginDatagram
<1>2. UNCHANGED <<sock, topics, sfs, out, handled, status, queueVars>> /\ handled < MaxPubs
  BY DEF BeginDatagram
<1>3. Contents' = Contents /\ Subscriptions' = Subscriptions
  BY <1>2, Facts, QueueStays DEF Subscriptions
<1>4. /\ before' = [rec |-> Stands, out |-> out] /\ j' = 0 /\ at' = "datagram"
      /\ arg' = topic
  BY <1>1 DEF Begins
<1> DEFINE r == before'.rec
           n == handled + 1
<1>5. /\ r.sock = sock /\ r.interests = Subscriptions /\ r.inWaiting = Contents
      /\ before'.out = out
  BY <1>4 DEF Stands
<1>6. /\ out \o Times(Cardinality(UpTo(Wanted(r, topic), 0)), n) = out
      /\ Contents \o Times(Cardinality(UpTo(Stored(r, topic), 0)), n) = Contents
  <2>1. /\ Cardinality(UpTo(Wanted(r, topic), 0)) = 0
        /\ Cardinality(UpTo(Stored(r, topic), 0)) = 0
    <3>1. Wanted(r, topic) \in SUBSET (1 .. topics.len) /\ Stored(r, topic) \in SUBSET (1 .. topics.len)
      BY <1>5, Positions
    <3>2. topics.len \in Nat /\ 0 \in Nat
      BY Facts
    <3> QED
      BY <3>1, <3>2, Counting
  <2>2. n \in Nat /\ out \in Seq(Nat) /\ Contents \in Seq(Nat)
    BY Facts
  <2> HIDE DEF r, n
  <2>3. out \o Times(0, n) = out /\ Contents \o Times(0, n) = Contents
    BY <2>2, TimesMore
  <2> QED
    BY <2>1, <2>3
<1>7. Delivering'
  <2> HIDE DEF r, n
  <2>1. out = IF sock = NoSock THEN out
              ELSE out \o Times(Cardinality(UpTo(Wanted(r, topic), 0)), n)
    BY <1>6
  <2>2. Contents = IF sock # NoSock THEN Contents
                   ELSE Contents \o Times(Cardinality(UpTo(Stored(r, topic), 0)), n)
    BY <1>6
  <2> QED
    BY <1>2, <1>3, <1>4, <1>5, <2>1, <2>2 DEF Delivering, r, n
<1>8. LoopsOK'
  BY <1>4, <1>7 DEF LoopsOK
<1>9. sock' \in Socks \cup {NoSock} /\ (sock' = NoSock => sock = NoSock)
  BY <1>2, Facts
<1> QED
  BY <1>1, <1>2, <1>8, <1>9, BeginsWith DEF Handlers

LEMMA BeginReturnRefines ==
    ASSUME IInv, BeginReturn
    PROVE  Refines
<1>1. /\ UNCHANGED <<topics, sfs, out, handled, status, queueVars>>
      /\ sock = NoSock /\ sock' \in Socks /\ Begins("return", None)
  BY DEF BeginReturn
<1>2. Contents' = Contents /\ Subscriptions' = Subscriptions /\ Contents \in Seq(Nat)
  BY <1>1, Facts, QueueStays DEF Subscriptions
<1>3. before' = [rec |-> Stands, out |-> out] /\ at' = "return"
  BY <1>1 DEF Begins
<1>4. out \o Contents = Contents
  <2>1. out = <<>>
    BY <1>1 DEF IInv
  <2> QED
    BY <1>2, <2>1, ConcatEmptySeq
<1>5. Draining'
  BY <1>1, <1>2, <1>3, <1>4 DEF Draining, Stands
<1>6. LoopsOK'
  BY <1>3, <1>5 DEF LoopsOK
<1> QED
  BY <1>1, <1>6, BeginsWith DEF Handlers

(***************************************************************************)
(* Handlers without a loop.                                                *)
(***************************************************************************)

LEMMA SubscribeRefines ==
    ASSUME IInv, status = "up", Subscribe
    PROVE  Refines
<1>1. PICK topic \in Topics, sf \in BOOLEAN : Adds(topic, sf)
  BY DEF Subscribe
<1>2. /\ at = "idle" /\ sock # NoSock
      /\ UNCHANGED <<sock, out, handled, at, j, arg, before, status, queueVars>>
  BY DEF Subscribe
<1>3. QueueOK' /\ Contents' = Contents
  BY <1>2, Facts, QueueStays
<1> DEFINE m == [name |-> topic, sf |-> sf]
<1>4. /\ Arrays(topics', sfs')
      /\ Subscriptions' = <<[topic |-> topic, sf |-> sf]>> \o Subscriptions
  BY <1>1, PairsAdd DEF Adds, IInv, Subscriptions
<1>5. MemoryTypeOK' /\ QueueShape' /\ Began' /\ (sock' = NoSock => out' = <<>>) /\ LoopsOK'
  <2>1. QueueTypeOK' /\ QueueShape'
    BY <1>3 DEF QueueOK
  <2>2. MemoryTypeOK'
    BY <1>2, <2>1 DEF IInv, MemoryTypeOK
  <2>3. Began' /\ LoopsOK'
    BY <1>2 DEF IInv, Began, LoopsOK
  <2> QED
    BY <1>2, <2>1, <2>2, <2>3
<1>6. S!Subscribe
  <2>1. RecordThen = Stands /\ RecordThen' = Stands' /\ OutThen' = OutThen
    BY <1>2 DEF RecordThen, OutThen, Running
  <2>2. Stands' = Subscribed(Stands, m)
    <3> DEFINE longer == <<[topic |-> topic, sf |-> sf]>> \o Subscriptions
    <3>1. Stands' = [sock |-> sock, interests |-> longer, inWaiting |-> Contents]
      BY <1>2, <1>3, <1>4 DEF Stands
    <3>2. m.name = topic /\ m.sf = sf /\ Stands.interests = Subscriptions
      BY DEF Stands
    <3>3. Subscribed(Stands, m) = [Stands EXCEPT !.interests = longer]
      BY <3>2, Zenon DEF Subscribed
    <3> HIDE DEF longer
    <3>4. [Stands EXCEPT !.interests = longer]
             = [sock |-> sock, interests |-> longer, inWaiting |-> Contents]
      BY DEF Stands
    <3> QED
      BY <3>1, <3>3, <3>4
  <2>3. Online(Stands) /\ m \in [name : Topics, sf : BOOLEAN]
    BY <1>2 DEF Online, Stands
  <2> HIDE DEF m
  <2> QED
    BY <1>2, <2>1, <2>2, <2>3, SameOperators DEF S!Subscribe
<1> QED
  BY <1>4, <1>5, <1>6 DEF Refines, IInv, S!Next

LEMMA DisconnectRefines ==
    ASSUME IInv, status = "up", Disconnect
    PROVE  Refines
<1>1. /\ at = "idle" /\ sock # NoSock /\ sock' = NoSock /\ out' = <<>>
      /\ UNCHANGED <<topics, sfs, handled, at, j, arg, before, status, queueVars>>
  BY DEF Disconnect
<1>2. QueueOK' /\ Contents' = Contents /\ Subscriptions' = Subscriptions
  BY <1>1, Facts, QueueStays DEF Subscriptions
<1>3. IInv'
  <2>1. QueueTypeOK' /\ QueueShape'
    BY <1>2 DEF QueueOK
  <2>2. MemoryTypeOK'
    BY <1>1, <2>1 DEF IInv, MemoryTypeOK
  <2>3. Began' /\ LoopsOK' /\ Arrays(topics, sfs)'
    BY <1>1 DEF IInv, Began, LoopsOK
  <2> QED
    BY <1>1, <2>1, <2>2, <2>3 DEF IInv
<1>4. S!Leave
  <2>1. /\ RecordThen = Stands /\ RecordThen' = Stands' /\ OutThen' = <<>>
    BY <1>1 DEF RecordThen, OutThen, Running
  <2>2. Stands' = Offline(Stands) /\ Online(Stands)
    BY <1>1, <1>2 DEF Stands, Offline, Online
  <2> QED
    BY <1>1, <2>1, <2>2, SameOperators DEF S!Leave
<1> QED
  BY <1>3, <1>4 DEF Refines, S!Next

(***************************************************************************)
(* unsubscribe.                                                            *)
(***************************************************************************)

(* A pass of the loop that ends well changes no record: until unsubscribe  *)
(* returns, it is the one it began with.                                   *)
LEMMA PassStutters ==
    ASSUME at # "idle", UNCHANGED <<at, before, handled, status>>
    PROVE  UNCHANGED S!vars
BY DEF S!vars, RecordThen, OutThen, Running

(* No subscription before the j-th is the one that is looked for.          *)
LEMMA NotBefore ==
    ASSUME IInv, Searched, j < topics.len, NEW i \in Wanted(before.rec, arg)
    PROVE  i \in j + 1 .. topics.len
<1>1. /\ topics.len \in Nat /\ j \in Nat
      /\ Wanted(before.rec, arg) \in SUBSET (1 .. topics.len)
  BY Facts, Positions DEF Searched
<1>2. i \in 1 .. topics.len /\ i - 1 \in 0 .. topics.len - 1 /\ (i - 1) + 1 = i
  BY <1>1
<1>3. topics.data[i - 1] = arg
  BY <1>2, Positions DEF Searched
<1>4. ~ (i - 1 < j)
  BY <1>2, <1>3 DEF Searched
<1> QED
  BY <1>1, <1>2, <1>4

LEMMA UnsubscribeAtRefines ==
    ASSUME IInv, status = "up", UnsubscribeAt
    PROVE  Refines
<1>1. /\ at = "unsubscribe" /\ j < topics.len /\ j' = j + 1
      /\ UNCHANGED <<at, arg, before, sock, out, handled, queueVars>>
  BY DEF UnsubscribeAt, Works
<1>2. /\ QueueOK' /\ Contents' = Contents
      /\ j \in Nat /\ topics.len \in Nat /\ sfs.len = topics.len
      /\ j \in 0 .. topics.len - 1
  BY <1>1, Facts, QueueStays
<1>3. Unsubscribing /\ Searched
  <2>1. Unsubscribing
    BY <1>1 DEF IInv, LoopsOK
  <2>2. ~ Deleted
    BY <1>1, <1>2 DEF Deleted
  <2> QED
    BY <2>1, <2>2 DEF Unsubscribing
<1>4. status' \in {"up", "fault", "undefined"} /\ Arrays(topics, sfs)' /\ LoopsOK' /\ [S!Next]_S!vars
  <2>1. CASE Topic # arg
    <3>1. UNCHANGED <<topics, sfs, status>>
      BY <2>1 DEF UnsubscribeAt
    <3>2. Searched'
      <4>1. \A k \in 0 .. topics.len - 1 : k < j + 1 => topics.data[k] # arg
        <5> SUFFICES ASSUME NEW k \in 0 .. topics.len - 1, k < j + 1
                     PROVE  topics.data[k] # arg
          OBVIOUS
        <5>1. k < j \/ k = j
          BY <1>2
        <5> QED
          BY <5>1, <2>1, <1>3 DEF Searched, Topic, get_pos
      <4> QED
        BY <1>1, <1>3, <3>1, <4>1 DEF Searched, Subscriptions
    <3>3. LoopsOK'
      BY <1>1, <1>2, <1>3, <3>2 DEF LoopsOK, Unsubscribing
    <3>4. UNCHANGED S!vars
      BY <1>1, <3>1, PassStutters
    <3> QED
      BY <3>1, <3>3, <3>4 DEF IInv
  <2>2. CASE Topic = arg
    <3>1. /\ arg \in Topics /\ j + 1 \in Wanted(before.rec, arg)
          /\ Wanted(before.rec, arg) \in SUBSET (1 .. topics.len)
      BY <2>2, <1>2, <1>3, Positions DEF Searched, Topic, get_pos
    <3>2. /\ AfterDel(topics, j) = "up" <=> j = topics.len - 1
          /\ AfterDel(sfs, j) = "up" <=> j = topics.len - 1
          /\ AfterDel(topics, j) \in {"up", "fault", "undefined"}
          /\ AfterDel(sfs, j) \in {"up", "fault", "undefined"}
      <4>1. Block(topics) /\ Block(sfs)
        BY DEF IInv, Arrays
      <4> QED
        BY <4>1, <1>2, DelLast
    <3>3. Len(before.rec.interests) = topics.len
      BY <1>3, Facts DEF Searched
    <3>4. CASE j = topics.len - 1
      <4>1. topics' = del_pos(topics, j) /\ sfs' = del_pos(sfs, j) /\ UNCHANGED status
        BY <2>2, <3>2, <3>4 DEF UnsubscribeAt, Deletes
      <4>2. /\ Arrays(topics', sfs') /\ topics'.len = topics.len - 1
            /\ Subscriptions' = SubSeq(Subscriptions, 1, topics.len - 1)
        <5>1. topics.len > 0
          BY <1>2, <3>4
        <5> QED
          BY <5>1, <4>1, <3>4, PairsDel DEF IInv, Subscriptions
      <4>3. ~ Faults(before.rec, arg)
        <5>1. \A i \in Wanted(before.rec, arg) : i \in j + 1 .. topics.len
          BY <1>1, <1>3, NotBefore
        <5> QED
          BY <5>1, <1>2, <3>3, <3>4 DEF Faults
      <4>4. DropLast(before.rec, arg).interests = Subscriptions'
        BY <1>3, <3>1, <3>3, <4>2, Facts DEF DropLast, Searched
      <4>5. Deleted'
        <5>1. j' >= topics'.len
          BY <1>1, <1>2, <3>4, <4>2
        <5> QED
          BY <1>1, <3>1, <4>3, <4>4, <5>1 DEF Deleted, Faults, Wanted, DropLast
      <4>6. LoopsOK'
        BY <1>1, <1>2, <1>3, <4>5 DEF LoopsOK, Unsubscribing
      <4>7. UNCHANGED S!vars
        BY <1>1, <4>1, PassStutters
      <4> QED
        BY <4>1, <4>2, <4>6, <4>7
    <3>5. CASE j # topics.len - 1
      <4>1. status' \in {"fault", "undefined"} /\ UNCHANGED <<topics, sfs>>
        BY <2>2, <3>2, <3>5 DEF UnsubscribeAt, Deletes
      <4>2. LoopsOK' /\ Arrays(topics, sfs)'
        BY <4>1 DEF LoopsOK, IInv
      <4>3. S!Unsubscribe(arg)
        <5>1. Faults(before.rec, arg) /\ Online(before.rec)
          <6>1. j + 1 < topics.len
            BY <1>2, <3>5
          <6> QED
            BY <6>1, <1>3, <3>1, <3>3 DEF Faults, Online, Unsubscribing
        <5>2. RecordThen = before.rec /\ UNCHANGED <<RecordThen, OutThen>>
          BY <1>1 DEF RecordThen, OutThen, Running
        <5>3. (status' = "up") = FALSE
          BY <4>1
        <5> QED
          BY <1>1, <5>1, <5>2, <5>3, SameOperators DEF S!Unsubscribe
      <4> QED
        BY <3>1, <4>1, <4>2, <4>3 DEF S!Next
    <3> QED
      BY <3>4, <3>5
  <2> QED
    BY <2>1, <2>2
<1>5. MemoryTypeOK'
  <2>1. QueueTypeOK' /\ j' \in Nat
    BY <1>1, <1>2 DEF QueueOK
  <2> QED
    BY <1>1, <1>4, <2>1 DEF IInv, MemoryTypeOK
<1>6. QueueShape' /\ Began' /\ (sock' = NoSock => out' = <<>>)
  BY <1>1, <1>2 DEF IInv, QueueOK, Began
<1> QED
  BY <1>4, <1>5, <1>6 DEF Refines, IInv

LEMMA UnsubscribeReturnsRefines ==
    ASSUME IInv, status = "up", UnsubscribeReturns
    PROVE  Refines
<1>1. /\ at = "unsubscribe" /\ j >= topics.len
      /\ at' = "idle" /\ arg' = None /\ before' = Nothing /\ j' = 0
      /\ UNCHANGED <<sock, topics, sfs, out, handled, status, queueVars>>
  BY DEF UnsubscribeReturns, Returns
<1>2. /\ QueueOK' /\ Contents' = Contents /\ Subscriptions' = Subscriptions
  BY <1>1, Facts, QueueStays DEF Subscriptions
<1>3. IInv'
  <2>1. MemoryTypeOK'
    BY <1>1, <1>2 DEF IInv, MemoryTypeOK, QueueOK, Handlers
  <2>2. Began'
    BY <1>1 DEF Began, Nothing
  <2> QED
    BY <1>1, <1>2, <2>1, <2>2 DEF IInv, QueueOK, LoopsOK
<1>4. /\ RecordThen = before.rec /\ RecordThen' = Stands
      /\ OutThen = before.out /\ OutThen' = out
  BY <1>1, <1>2 DEF RecordThen, OutThen, Running, Stands
<1>5. Unsubscribing
  BY <1>1 DEF IInv, LoopsOK
<1>6. before.rec = [sock |-> sock, interests |-> before.rec.interests, inWaiting |-> Contents]
  BY <1>5, Facts DEF Unsubscribing
<1>7. CASE Searched
  <2>1. Stands = before.rec
    BY <1>6, <1>7 DEF Stands, Searched
  <2>2. UNCHANGED S!vars
    BY <1>1, <1>4, <1>5, <2>1 DEF S!vars, Unsubscribing
  <2> QED
    BY <1>3, <2>2 DEF Refines
<1>8. CASE Deleted
  <2>1. Stands = DropLast(before.rec, arg)
    BY <1>6, <1>8 DEF Stands, Deleted, DropLast
  <2>2. Online(before.rec) /\ ~ Faults(before.rec, arg) /\ arg \in Topics
    BY <1>5, <1>8 DEF Online, Unsubscribing, Deleted
  <2>3. S!Unsubscribe(arg)
    BY <1>1, <1>4, <1>5, <2>1, <2>2, SameOperators DEF S!Unsubscribe, Unsubscribing
  <2> QED
    BY <1>3, <2>2, <2>3 DEF Refines, S!Next
<1> QED
  BY <1>5, <1>7, <1>8 DEF Unsubscribing

(***************************************************************************)
(* receive_udp_message.                                                    *)
(***************************************************************************)

LEMMA DatagramAtRefines ==
    ASSUME IInv, status = "up", DatagramAt
    PROVE  Refines
<1> DEFINE r == before.rec
           n == handled + 1
<1>1. /\ at = "datagram" /\ j < topics.len /\ j' = j + 1
      /\ UNCHANGED <<at, arg, before, sock, topics, sfs, handled, status>>
  BY DEF DatagramAt, Works, Past
<1>2. /\ QueueOK /\ j \in Nat /\ topics.len \in Nat /\ j \in 0 .. topics.len - 1
      /\ n \in Nat /\ out \in Seq(Nat) /\ Contents \in Seq(Nat)
      /\ before.out \in Seq(Nat) /\ r.inWaiting \in Seq(Nat)
  BY <1>1, Facts
<1>3. Delivering
  BY <1>1 DEF IInv, LoopsOK
<1>4. /\ Wanted(r, arg) \in SUBSET (1 .. topics.len)
      /\ Stored(r, arg) \in SUBSET (1 .. topics.len)
      /\ j + 1 \in Wanted(r, arg) <=> Topic = arg
      /\ j + 1 \in Stored(r, arg) <=> Topic = arg /\ get_pos(sfs, j)
  BY <1>2, <1>3, Positions DEF Delivering, Topic, get_pos
<1> DEFINE Sent(k)   == before.out \o Times(Cardinality(UpTo(Wanted(r, arg), k)), n)
           Queued(k) == r.inWaiting \o Times(Cardinality(UpTo(Stored(r, arg), k)), n)
<1>5. /\ Topic = arg => Sent(j + 1) = Append(Sent(j), n)
      /\ Topic # arg => Sent(j + 1) = Sent(j)
      /\ Topic = arg /\ get_pos(sfs, j) => Queued(j + 1) = Append(Queued(j), n)
      /\ ~ (Topic = arg /\ get_pos(sfs, j)) => Queued(j + 1) = Queued(j)
  <2> HIDE DEF r, n
  <2>1. /\ topics.len \in Nat
        /\ Wanted(r, arg) \in SUBSET (1 .. topics.len)
        /\ Stored(r, arg) \in SUBSET (1 .. topics.len)
        /\ j \in Nat /\ n \in Nat /\ before.out \in Seq(Nat) /\ r.inWaiting \in Seq(Nat)
    BY <1>2, <1>4
  <2>2. ASSUME NEW W \in SUBSET (1 .. topics.len), NEW q \in Seq(Nat)
        PROVE  /\ j + 1 \in W => q \o Times(Cardinality(UpTo(W, j + 1)), n)
                                = Append(q \o Times(Cardinality(UpTo(W, j)), n), n)
               /\ j + 1 \notin W => q \o Times(Cardinality(UpTo(W, j + 1)), n)
                                   = q \o Times(Cardinality(UpTo(W, j)), n)
    <3>1. /\ Cardinality(UpTo(W, j)) \in Nat
          /\ j + 1 \in W => Cardinality(UpTo(W, j + 1)) = Cardinality(UpTo(W, j)) + 1
          /\ j + 1 \notin W => UpTo(W, j + 1) = UpTo(W, j)
      BY <2>1, Counting
    <3>2. Append(q \o Times(Cardinality(UpTo(W, j)), n), n)
            = q \o Times(Cardinality(UpTo(W, j)) + 1, n)
      <4>1. PICK k : k = Cardinality(UpTo(W, j))
        OBVIOUS
      <4>2. k \in Nat /\ n \in Nat
        BY <2>1, <3>1, <4>1
      <4>3. Append(q \o Times(k, n), n) = q \o Times(k + 1, n)
        BY <4>2, TimesMore
      <4> QED BY <4>1, <4>3
    <3> QED
      BY <3>1, <3>2
  <2>3. /\ j + 1 \in Wanted(r, arg) => Sent(j + 1) = Append(Sent(j), n)
        /\ j + 1 \notin Wanted(r, arg) => Sent(j + 1) = Sent(j)
    BY <2>1, <2>2
  <2>4. /\ j + 1 \in Stored(r, arg) => Queued(j + 1) = Append(Queued(j), n)
        /\ j + 1 \notin Stored(r, arg) => Queued(j + 1) = Queued(j)
    BY <2>1, <2>2
  <2> QED
    BY <1>4, <2>3, <2>4
<1> HIDE DEF Sent, Queued, n
<1>6. /\ sock = NoSock => out = before.out /\ Contents = Queued(j)
      /\ sock # NoSock => out = Sent(j) /\ Contents = r.inWaiting
  BY <1>3 DEF Delivering, Sent, Queued, n
<1>7. /\ QueueOK' /\ out' \in Seq(Nat)
      /\ sock = NoSock => out' = before.out /\ Contents' = Queued(j + 1)
      /\ sock # NoSock => out' = Sent(j + 1) /\ Contents' = r.inWaiting
  <2>1. CASE Topic = arg /\ sock # NoSock
    <3>1. out' = Append(out, n) /\ UNCHANGED queueVars
      BY <2>1 DEF DatagramAt, n
    <3>2. QueueOK' /\ Contents' = Contents
      BY <3>1, <1>2, QueueStays
    <3>3. out' \in Seq(Nat)
      BY <3>1, <1>2, AppendProperties
    <3> QED
      BY <2>1, <3>1, <3>2, <3>3, <1>5, <1>6
  <2>2. CASE Topic = arg /\ sock = NoSock /\ get_pos(sfs, j)
    <3>1. queue_enq(n) /\ UNCHANGED out
      BY <2>2 DEF DatagramAt, n
    <3>2. QueueOK' /\ Contents' = Append(Contents, n)
      BY <3>1, <1>2, Enqueues
    <3> QED
      BY <2>2, <3>1, <3>2, <1>2, <1>5, <1>6
  <2>3. CASE Topic # arg \/ (sock = NoSock /\ ~ get_pos(sfs, j))
    <3>1. UNCHANGED <<out, queueVars>>
      BY <2>3 DEF DatagramAt
    <3>2. QueueOK' /\ Contents' = Contents
      BY <3>1, <1>2, QueueStays
    <3> QED
      BY <2>3, <3>1, <3>2, <1>2, <1>5, <1>6
  <2> QED
    BY <2>1, <2>2, <2>3
<1>8. Delivering'
  <2>1. /\ out' = IF sock = NoSock THEN before.out ELSE Sent(j + 1)
        /\ Contents' = IF sock # NoSock THEN r.inWaiting ELSE Queued(j + 1)
    BY <1>7
  <2> QED
    BY <1>1, <1>3, <2>1 DEF Delivering, Sent, Queued, n, Subscriptions
<1>9. MemoryTypeOK'
  <2>1. j' \in Nat
    BY <1>1, <1>2
  <2> QED
    BY <1>1, <1>7, <2>1 DEF IInv, MemoryTypeOK, QueueOK
<1>10. sock' = NoSock => out' = <<>>
  BY <1>1, <1>6, <1>7 DEF IInv
<1>11. IInv'
  BY <1>1, <1>7, <1>8, <1>9, <1>10 DEF IInv, QueueOK, Began, LoopsOK
<1>12. UNCHANGED S!vars
  BY <1>1, PassStutters
<1> QED
  BY <1>11, <1>12 DEF Refines

LEMMA DatagramReturnsRefines ==
    ASSUME IInv, status = "up", DatagramReturns
    PROVE  Refines
<1> DEFINE r == before.rec
           n == handled + 1
<1>1. /\ at = "datagram" /\ j >= topics.len /\ handled' = n
      /\ at' = "idle" /\ arg' = None /\ before' = Nothing /\ j' = 0
      /\ UNCHANGED <<sock, topics, sfs, out, status, queueVars>>
  BY DEF DatagramReturns, Returns
<1>2. QueueOK' /\ Contents' = Contents /\ Subscriptions' = Subscriptions
  BY <1>1, Facts, QueueStays DEF Subscriptions
<1>3. Delivering
  BY <1>1 DEF IInv, LoopsOK
<1>4. IInv'
  <2>1. handled' \in 0 .. MaxPubs
    BY <1>1, <1>3, Facts, ClientMemoryAssumption DEF Delivering
  <2>2. MemoryTypeOK'
    BY <1>1, <1>2, <2>1 DEF IInv, MemoryTypeOK, QueueOK, Handlers
  <2>3. Began'
    BY <1>1 DEF Began, Nothing
  <2> QED
    BY <1>1, <1>2, <2>2, <2>3 DEF IInv, QueueOK, LoopsOK
<1>5. /\ RecordThen = r /\ RecordThen' = Stands
      /\ OutThen = before.out /\ OutThen' = out
  BY <1>1, <1>2 DEF RecordThen, OutThen, Running, Stands
<1>6. UpTo(Wanted(r, arg), j) = Wanted(r, arg) /\ UpTo(Stored(r, arg), j) = Stored(r, arg)
  <2>1. /\ topics.len \in Nat /\ j \in Nat
        /\ Wanted(r, arg) \in SUBSET (1 .. topics.len)
        /\ Stored(r, arg) \in SUBSET (1 .. topics.len)
    BY <1>3, Facts, Positions DEF Delivering
  <2> HIDE DEF r
  <2> QED
    BY <1>1, <2>1, Counting
<1>7. r = [sock |-> sock, interests |-> Subscriptions, inWaiting |-> r.inWaiting]
  BY <1>3, Facts DEF Delivering
<1>8. Stands = Keep(r, arg, n) /\ out = IF Online(r)
         THEN before.out \o Times(Cardinality(Wanted(r, arg)), n) ELSE before.out
  <2>1. CASE sock = NoSock
    <3>1. Contents = r.inWaiting \o Times(Cardinality(Stored(r, arg)), n) /\ out = before.out
      BY <2>1, <1>3, <1>6 DEF Delivering
    <3>2. ~ Online(r)
      BY <2>1, <1>7 DEF Online
    <3> DEFINE longer == r.inWaiting \o Times(Cardinality(Stored(r, arg)), n)
    <3>3. Keep(r, arg, n) = [r EXCEPT !.inWaiting = longer]
      BY <3>2 DEF Keep
    <3>4. Contents = longer
      BY <3>1
    <3> HIDE DEF longer, r, n
    <3>5. Stands = Keep(r, arg, n)
      BY <1>7, <3>3, <3>4 DEF Stands
    <3> QED
      BY <3>1, <3>2, <3>5
  <2>2. CASE sock # NoSock
    <3>1. Contents = r.inWaiting /\ out = before.out \o Times(Cardinality(Wanted(r, arg)), n)
      BY <2>2, <1>3, <1>6 DEF Delivering
    <3>2. Online(r)
      BY <2>2, <1>7 DEF Online
    <3>3. Stands = r
      BY <1>7, <3>1 DEF Stands
    <3> QED
      BY <3>1, <3>2, <3>3 DEF Keep
  <2> QED
    BY <2>1, <2>2
<1>9. S!Datagram(arg)
  <2> HIDE DEF r
  <2>1. /\ S!Keep(r, arg, n) = Keep(r, arg, n) /\ (S!Online(r) <=> Online(r))
        /\ S!Wanted(r, arg) = Wanted(r, arg)
        /\ \A k : S!Times(k, n) = Times(k, n)
        /\ \A W : S!Cardinality(W) = Cardinality(W)
    <3>1. \A W : S!Cardinality(W) = Cardinality(W)
      BY DEF S!Cardinality, Cardinality
    <3> QED
      BY <3>1, SameOperators
  <2> QED
    BY <1>1, <1>5, <1>8, <2>1 DEF S!Datagram
<1>10. arg \in Topics
  BY <1>3 DEF Delivering
<1> QED
  BY <1>4, <1>9, <1>10 DEF Refines, S!Next

(***************************************************************************)
(* handle_id_client, for a client who comes back.                          *)
(***************************************************************************)

LEMMA DrainsRefines ==
    ASSUME IInv, status = "up", Drains
    PROVE  Refines
<1>1. /\ at = "return" /\ ~ queue_empty /\ queue_deq /\ out' = Append(out, Front)
      /\ UNCHANGED <<at, arg, before, sock, topics, sfs, handled, j, status>>
  BY DEF Drains, Works
<1>2. /\ QueueOK' /\ Contents # <<>> /\ Contents \in Seq(Nat) /\ out \in Seq(Nat)
      /\ Front = Head(Contents) /\ Contents' = Tail(Contents)
  BY <1>1, Facts, Dequeues
<1>3. Draining
  BY <1>1 DEF IInv, LoopsOK
<1>4. out' \in Seq(Nat) /\ out' \o Contents' = out \o Contents
  <2>1. /\ Head(Contents) \in Nat /\ Tail(Contents) \in Seq(Nat)
        /\ Contents = <<Head(Contents)>> \o Tail(Contents)
    <3>1. Head(Contents) \in Nat /\ Tail(Contents) \in Seq(Nat)
      BY <1>2, HeadTailProperties
    <3> QED
      BY <3>1, <1>2
  <2>2. Append(out, Head(Contents)) = out \o <<Head(Contents)>>
    BY <1>2, <2>1, AppendIsConcat
  <2>3. <<Head(Contents)>> \in Seq(Nat)
    BY <2>1
  <2>4. (out \o <<Head(Contents)>>) \o Tail(Contents)
           = out \o (<<Head(Contents)>> \o Tail(Contents))
    BY <1>2, <2>1, <2>3, ConcatAssociative, SMTT(30)
  <2>5. out' \in Seq(Nat)
    BY <1>1, <1>2, <2>1, AppendProperties
  <2> QED
    BY <1>1, <1>2, <2>1, <2>2, <2>4, <2>5
<1>5. Draining'
  BY <1>1, <1>3, <1>4 DEF Draining, Subscriptions
<1>6. MemoryTypeOK'
  BY <1>1, <1>2, <1>4 DEF IInv, MemoryTypeOK, QueueOK
<1>7. sock' # NoSock
  BY <1>1, <1>3, ClientMemoryAssumption DEF Draining
<1>8. IInv'
  BY <1>1, <1>2, <1>5, <1>6, <1>7 DEF IInv, QueueOK, Began, LoopsOK
<1>9. UNCHANGED S!vars
  BY <1>1, PassStutters
<1> QED
  BY <1>8, <1>9 DEF Refines

LEMMA ReturnReturnsRefines ==
    ASSUME IInv, status = "up", ReturnReturns
    PROVE  Refines
<1>1. /\ at = "return" /\ queue_empty
      /\ at' = "idle" /\ arg' = None /\ before' = Nothing /\ j' = 0
      /\ UNCHANGED <<sock, topics, sfs, out, handled, status, queueVars>>
  BY DEF ReturnReturns, Returns
<1>2. QueueOK' /\ Contents' = Contents /\ Subscriptions' = Subscriptions
  BY <1>1, Facts, QueueStays DEF Subscriptions
<1>3. Draining /\ Contents = <<>> /\ out \in Seq(Nat)
  BY <1>1, Facts, ContentsType DEF IInv, LoopsOK
<1>4. IInv'
  <2>1. MemoryTypeOK'
    BY <1>1, <1>2 DEF IInv, MemoryTypeOK, QueueOK, Handlers
  <2>2. Began'
    BY <1>1 DEF Began, Nothing
  <2> QED
    BY <1>1, <1>2, <2>1, <2>2 DEF IInv, QueueOK, LoopsOK
<1>5. /\ RecordThen = before.rec /\ RecordThen' = Stands /\ OutThen' = out
  BY <1>1, <1>2 DEF RecordThen, OutThen, Running, Stands
<1>6. before.rec = [sock |-> NoSock, interests |-> Subscriptions, inWaiting |-> out]
  <2>1. out \o Contents = out
    BY <1>3, ConcatEmptySeq
  <2> QED
    BY <2>1, <1>3, Facts DEF Draining
<1>7. Stands = Back(before.rec, sock) /\ ~ Online(before.rec)
  <2>1. Stands = [sock |-> sock, interests |-> Subscriptions, inWaiting |-> <<>>]
    BY <1>3 DEF Stands
  <2>2. Back(before.rec, sock)
          = [sock |-> sock, interests |-> Subscriptions, inWaiting |-> <<>>]
    <3>1. Back(before.rec, sock) = [[before.rec EXCEPT !.sock = sock] EXCEPT !.inWaiting = <<>>]
      BY DEF Back
    <3>2. [before.rec EXCEPT !.sock = sock]
            = [sock |-> sock, interests |-> Subscriptions, inWaiting |-> out]
      BY <1>6
    <3> QED
      BY <3>1, <3>2
  <2>3. ~ Online(before.rec)
    BY <1>6 DEF Online
  <2> QED
    BY <2>1, <2>2, <2>3
<1>8. S!Return(sock) /\ sock \in Socks
  BY <1>1, <1>3, <1>5, <1>6, <1>7, SameOperators DEF S!Return, Draining
<1> QED
  BY <1>4, <1>8 DEF Refines, S!Next

(***************************************************************************)
(* Theorems.                                                               *)
(***************************************************************************)

(* The new record that handle_id_client makes is the one Session begins    *)
(* with.                                                                   *)
LEMMA Initial ==
    ASSUME Init
    PROVE  IInv /\ S!Init
<1>1. /\ Block(topics) /\ Holds(topics, Topics) /\ topics.len = 0
      /\ Block(sfs) /\ Holds(sfs, BOOLEAN) /\ sfs.len = 0
  BY InitHolds, ClientMemoryAssumption DEF Init
<1>2. QueueOK /\ Contents = <<>>
  BY Creates DEF Init
<1>3. Subscriptions = <<>>
  BY <1>1 DEF Subscriptions, Pairs
<1>4. IInv
  <2>1. MemoryTypeOK
    BY <1>2, ClientMemoryAssumption DEF Init, MemoryTypeOK, QueueOK, Handlers
  <2>2. Began
    BY DEF Init, Began, Nothing
  <2>3. sock # NoSock /\ at = "idle"
    BY ClientMemoryAssumption DEF Init
  <2> QED
    BY <1>1, <1>2, <2>1, <2>2, <2>3 DEF IInv, Arrays, QueueOK, LoopsOK
<1>5. S!Init
  BY <1>2, <1>3 DEF Init, S!Init, RecordThen, OutThen, Running, Stands
<1> QED
  BY <1>4, <1>5

LEMMA Step ==
    ASSUME IInv, [Next]_vars
    PROVE  Refines
<1>1. CASE UNCHANGED vars
  <2>1. UNCHANGED memVars /\ UNCHANGED queueVars
    BY <1>1 DEF vars
  <2>2. QueueOK' /\ Contents' = Contents /\ Subscriptions' = Subscriptions
    BY <2>1, Facts, QueueStays DEF Subscriptions, memVars
  <2>3. IInv'
    <3>1. UNCHANGED <<sock, topics, sfs, out, handled, at, j, arg, before, status>>
      BY <2>1 DEF memVars
    <3>2. MemoryTypeOK' /\ QueueShape' /\ Began'
      BY <3>1, <2>2 DEF IInv, MemoryTypeOK, QueueOK, Began
    <3>3. LoopsOK'
      BY <3>1, <2>2 DEF IInv, LoopsOK, Unsubscribing, Delivering, Draining, Searched, Deleted
    <3> QED
      BY <3>1, <3>2, <3>3 DEF IInv
  <2>4. UNCHANGED S!vars
    BY <2>1, <2>2 DEF S!vars, RecordThen, OutThen, Running, Stands, memVars
  <2> QED
    BY <2>3, <2>4 DEF Refines
<1>2. CASE Next
  BY <1>2, SubscribeRefines, DisconnectRefines, BeginUnsubscribeRefines,
     BeginDatagramRefines, BeginReturnRefines, UnsubscribeAtRefines,
     UnsubscribeReturnsRefines, DatagramAtRefines, DatagramReturnsRefines,
     DrainsRefines, ReturnReturnsRefines DEF Next, Loop
<1> QED
  BY <1>1, <1>2

THEOREM MemoryInductive == Spec => []IInv
<1>1. Init => IInv
  BY Initial
<1>2. IInv /\ [Next]_vars => IInv'
  BY Step DEF Refines
<1> QED
  BY <1>1, <1>2, PTL DEF Spec

(* Every field and counter has its type and stays within its bound,        *)
(* whatever the sizes of the arrays.                                       *)
THEOREM MemoryTypeCorrect == Spec => []MemoryTypeOK
<1>1. IInv => MemoryTypeOK
  BY DEF IInv
<1> QED
  BY <1>1, MemoryInductive, PTL

(* add_pos, del_pos: blocks are as large as their arrays think, all        *)
(* elements are there, and the two arrays stay in step.                    *)
THEOREM ArraysInStep == Spec => []SlotsHold
<1>1. IInv => SlotsHold
  BY DEF IInv, Arrays, SlotsHold
<1> QED
  BY <1>1, MemoryInductive, PTL

(* queue_enq, queue_deq: the cells in use are those of the queue, linked   *)
(* in the order in which they came, although memory is used again.         *)
THEOREM CellsLinked == Spec => []QueueShape
<1>1. IInv => QueueShape
  BY DEF IInv
<1> QED
  BY <1>1, MemoryInductive, PTL

(* The loops of subscribe, unsubscribe, receive_udp_message and            *)
(* handle_id_client over arrays and cells do what Records.tla says.        *)
THEOREM HandlersImplement == Spec => ImplementsSession
<1>1. Init => S!Init
  BY Initial
<1>2. IInv /\ [Next]_vars => [S!Next]_S!vars
  BY Step DEF Refines
<1> QED
  BY <1>1, <1>2, MemoryInductive, PTL DEF Spec, ImplementsSession, S!Spec
=============================================================================
