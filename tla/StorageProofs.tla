---------------------------- MODULE StorageProofs ----------------------------
(***************************************************************************)
(* What the operations of Buffer.tla do to an array of any size, and those *)
(* of WaitQueue.tla to a queue in any memory.                              *)
(***************************************************************************)
EXTENDS Buffer, WaitQueue, SequenceTheorems, TLAPS

(***************************************************************************)
(* Arrays.                                                                 *)
(***************************************************************************)

(* What buffer.c relies on: a block is as long as its capacity says.       *)
Block(b) ==
    /\ b = [len |-> b.len, cap |-> b.cap, data |-> b.data]
    /\ b.len \in Nat
    /\ b.cap \in Nat /\ b.cap >= 2
    /\ b.data = [i \in 0 .. b.cap - 1 |-> b.data[i]]

(* init gives an empty block.                                              *)
LEMMA InitHolds ==
    ASSUME NEW cap \in Nat, cap >= 2, NEW E
    PROVE  Block(init(cap)) /\ Holds(init(cap), E) /\ init(cap).len = 0
BY DEF Block, Holds, init

(* A block that is full has room for one more when it has grown.           *)
LEMMA GrownFits ==
    ASSUME NEW b, Block(b), b.len <= b.cap
    PROVE  Grown(b) \in Nat /\ Grown(b) >= b.cap /\ b.len + 1 <= Grown(b)
<1>1. b.cap \div 2 \in Nat /\ b.cap \div 2 >= 1
  BY DEF Block
<1> QED
  BY <1>1 DEF Block, Grown

(* add_pos puts the element in its place and moves those behind it.        *)
LEMMA AddHolds ==
    ASSUME NEW b, NEW E, Block(b), Holds(b, E), NEW x \in E, NEW pos \in 0 .. b.len
    PROVE  LET c == add_pos(b, x, pos)
           IN  /\ Block(c) /\ Holds(c, E) /\ c.len = b.len + 1
               /\ \A i \in 0 .. b.len :
                    c.data[i] = IF i < pos THEN b.data[i]
                                ELSE IF i = pos THEN x ELSE b.data[i - 1]
<1> DEFINE c == add_pos(b, x, pos)
<1>1. Grown(b) \in Nat /\ Grown(b) >= b.cap /\ b.len + 1 <= Grown(b)
  BY GrownFits DEF Holds
<1>2. /\ c.len = b.len + 1 /\ c.cap = Grown(b)
      /\ c.data = [i \in 0 .. Grown(b) - 1 |-> Added(b, x, pos, i)]
      /\ c = [len |-> c.len, cap |-> c.cap, data |-> c.data]
  BY DEF add_pos
<1>3. b.len \in Nat /\ b.cap \in Nat /\ b.cap >= 2 /\ b.len <= b.cap
  BY DEF Block, Holds
<1> HIDE DEF c
<1>4. \A i \in 0 .. b.len :
         c.data[i] = IF i < pos THEN b.data[i]
                     ELSE IF i = pos THEN x ELSE b.data[i - 1]
  <2> TAKE i \in 0 .. b.len
  <2>1. c.data[i] = Added(b, x, pos, i)
    BY <1>1, <1>2, <1>3
  <2> QED
    BY <2>1, <1>3 DEF Added, Slot
<1>5. Block(c)
  BY <1>1, <1>2, <1>3 DEF Block
<1>6. \A i \in 0 .. c.len - 1 : c.data[i] \in E
  <2> SUFFICES ASSUME NEW i \in 0 .. c.len - 1 PROVE c.data[i] \in E
    OBVIOUS
  <2>1. i \in 0 .. b.len /\ i \in Int
    BY <1>2, <1>3
  <2>2. CASE i < pos
    <3>1. c.data[i] = b.data[i] /\ i \in 0 .. b.len - 1
      BY <1>3, <1>4, <2>1, <2>2
    <3> QED
      BY <3>1 DEF Holds
  <2>3. CASE i = pos
    BY <1>3, <1>4, <2>1, <2>3
  <2>4. CASE i > pos
    <3>1. c.data[i] = b.data[i - 1] /\ i - 1 \in 0 .. b.len - 1
      BY <1>3, <1>4, <2>1, <2>4
    <3> QED
      BY <3>1 DEF Holds
  <2> QED
    BY <1>3, <2>1, <2>2, <2>3, <2>4
<1>7. Holds(c, E)
  BY <1>1, <1>2, <1>3, <1>6 DEF Holds
<1> QED
  BY <1>2, <1>4, <1>5, <1>7 DEF c

(* del_pos ends well exactly for the last element.                         *)
LEMMA DelLast ==
    ASSUME NEW b, Block(b), NEW pos \in 0 .. b.len - 1
    PROVE  /\ AfterDel(b, pos) = "up" <=> pos = b.len - 1
           /\ AfterDel(b, pos) \in {"up", "fault", "undefined"}
<1>1. Touched(b, pos) = {} <=> pos = b.len - 1
  <2>1. CASE pos = b.len - 1
    BY <2>1 DEF Touched, Block
  <2>2. CASE pos # b.len - 1
    <3>1. b.len \in pos + 2 .. b.len + 1 /\ pos + 2 <= b.len
      BY <2>2 DEF Block
    <3> QED
      BY <2>2, <3>1 DEF Touched
  <2> QED
    BY <2>1, <2>2
<1> QED
  BY <1>1 DEF AfterDel

(* del_pos of the last element leaves the others where they are.           *)
LEMMA DelHolds ==
    ASSUME NEW b, NEW E, Block(b), Holds(b, E), b.len > 0
    PROVE  LET c == del_pos(b, b.len - 1)
           IN  /\ Block(c) /\ Holds(c, E) /\ c.len = b.len - 1
               /\ \A i \in 0 .. c.len - 1 : c.data[i] = b.data[i]
<1> DEFINE c == del_pos(b, b.len - 1)
<1>1. b.len \in Nat /\ b.cap \in Nat /\ b.cap >= 2 /\ b.len <= b.cap
  BY DEF Block, Holds
<1>2. c = [len |-> b.len - 1, cap |-> b.cap,
           data |-> [b.data EXCEPT ![b.len - 1] = Junk]]
  BY DEF del_pos
<1> HIDE DEF c
<1>3. /\ c.len = b.len - 1 /\ c.cap = b.cap
      /\ DOMAIN c.data = 0 .. b.cap - 1
      /\ \A i \in 0 .. c.len - 1 : c.data[i] = b.data[i]
  BY <1>1, <1>2 DEF Holds
<1>4. c.data = [i \in 0 .. b.cap - 1 |-> c.data[i]]
  BY <1>1, <1>2 DEF Block, Holds
<1>5. Block(c)
  BY <1>1, <1>2, <1>3, <1>4 DEF Block
<1>6. Holds(c, E)
  BY <1>1, <1>3 DEF Holds
<1> QED
  BY <1>3, <1>5, <1>6 DEF c

(***************************************************************************)
(* Queues: with any memory, a sequence to whose end elements are added and *)
(* from whose front they are taken.                                        *)
(***************************************************************************)

QueueOK == QueueTypeOK /\ QueueShape

(* What is in the queue is a sequence as long as the chain of its cells.   *)
LEMMA ContentsType ==
    ASSUME QueueOK
    PROVE  /\ Contents \in Seq(Nat) /\ Len(Contents) = Len(chain)
           /\ \A i \in 1 .. Len(chain) : Contents[i] = cells[chain[i]].element
           /\ queue_empty <=> Contents = <<>>
<1>1. chain \in Seq(Chunks) /\ DOMAIN chain = 1 .. Len(chain) /\ Len(chain) \in Nat
  BY DEF QueueOK, QueueTypeOK
<1>2. \A i \in 1 .. Len(chain) : chain[i] \in Chunks /\ cells[chain[i]].element \in Nat
  BY <1>1 DEF QueueOK, QueueTypeOK
<1>3. Contents \in Seq(Nat) /\ Len(Contents) = Len(chain)
  BY <1>1, <1>2 DEF Contents
<1>4. queue_empty <=> chain = <<>>
  BY <1>1, <1>2, WaitQueueAssumption DEF QueueOK, QueueShape, queue_empty
<1> QED
  BY <1>1, <1>3, <1>4 DEF Contents

(* queue_create makes an empty queue.                                      *)
LEMMA Creates ==
    ASSUME queue_create
    PROVE  QueueOK /\ Contents = <<>>
BY DEF queue_create, QueueOK, QueueTypeOK, QueueShape, Contents

(* queue_enq adds one element at the end, and disturbs no other cell.      *)
LEMMA Enqueues ==
    ASSUME QueueOK, NEW x \in Nat, queue_enq(x)
    PROVE  QueueOK' /\ Contents' = Append(Contents, x)
<1> DEFINE n == Len(chain)
<1>1. /\ chain \in Seq(Chunks) /\ n \in Nat /\ DOMAIN chain = 1 .. n
      /\ \A i \in 1 .. n : chain[i] \in Chunks
  BY DEF QueueOK, QueueTypeOK
<1>2. PICK a \in Chunks :
         /\ ~ cells[a].live /\ tail' = a /\ chain' = Append(chain, a)
         /\ \/ queue_empty /\ head' = a /\ cells' = [cells EXCEPT ![a] = Cell(x, NoCell)]
            \/ /\ ~ queue_empty
               /\ cells' = [cells EXCEPT ![a] = Cell(x, NoCell), ![tail].next = a]
               /\ UNCHANGED head
  BY DEF queue_enq, Malloc
<1>3. /\ chain' \in Seq(Chunks) /\ Len(chain') = n + 1 /\ DOMAIN chain' = 1 .. n + 1
      /\ \A i \in 1 .. n : chain'[i] = chain[i]
      /\ chain'[n + 1] = a
  BY <1>1, <1>2
<1>4. \A i \in 1 .. n : chain[i] # a
  BY <1>1, <1>2 DEF QueueOK, QueueShape
<1>5. queue_empty <=> n = 0
  BY <1>1, WaitQueueAssumption DEF QueueOK, QueueShape, queue_empty
<1>6. n > 0 => tail = chain[n] /\ tail \in Chunks /\ tail # a
  BY <1>1, <1>4 DEF QueueOK, QueueShape
<1>7. cells \in [Chunks -> [live : BOOLEAN, element : Nat, next : Chunks \cup {NoCell}]]
  BY DEF QueueOK, QueueTypeOK
<1>8. /\ \A c \in Chunks : cells'[c] = IF c = a THEN Cell(x, NoCell)
                                       ELSE IF n > 0 /\ c = tail
                                       THEN [cells[c] EXCEPT !.next = a] ELSE cells[c]
      /\ DOMAIN cells' = Chunks
      /\ cells' = [c \in Chunks |-> cells'[c]]
  BY <1>1, <1>2, <1>5, <1>6, <1>7
<1>9. /\ cells'[a].live /\ cells'[a].element = x /\ cells'[a].next = NoCell
      /\ \A c \in Chunks : c # a =>
           /\ cells'[c].live = cells[c].live
           /\ cells'[c].element = cells[c].element
           /\ cells'[c].next = IF n > 0 /\ c = tail THEN a ELSE cells[c].next
  BY <1>7, <1>8 DEF Cell
<1>10. cells' \in [Chunks -> [live : BOOLEAN, element : Nat, next : Chunks \cup {NoCell}]]
  <2>1. \A c \in Chunks : cells'[c] \in [live : BOOLEAN, element : Nat, next : Chunks \cup {NoCell}]
    <3> TAKE c \in Chunks
    <3>1. CASE c = a
      <4>1. cells'[c] = [live |-> TRUE, element |-> x, next |-> NoCell]
        BY <3>1, <1>8 DEF Cell
      <4> QED
        BY <4>1
    <3>2. CASE c # a /\ n > 0 /\ c = tail
      BY <3>2, <1>7, <1>8
    <3>3. CASE c # a /\ ~ (n > 0 /\ c = tail)
      BY <3>3, <1>7, <1>8
    <3> QED
      BY <3>1, <3>2, <3>3
  <2> QED
    BY <2>1, <1>8
<1>11. QueueTypeOK'
  BY <1>2, <1>3, <1>10 DEF QueueOK, QueueTypeOK
<1>12. QueueShape'
  <2>1. head' = IF chain' = <<>> THEN NoCell ELSE chain'[1]
    BY <1>1, <1>2, <1>3, <1>5 DEF QueueOK, QueueShape
  <2>2. tail' = chain'[Len(chain')]
    BY <1>2, <1>3
  <2>3. ASSUME NEW i \in DOMAIN chain'
        PROVE  cells'[chain'[i]].next = IF i = Len(chain') THEN NoCell ELSE chain'[i + 1]
    <3>1. CASE i = n + 1
      BY <3>1, <1>3, <1>9
    <3>2. CASE i = n
      BY <3>2, <1>1, <1>3, <1>4, <1>6, <1>9
    <3>3. CASE i < n
      <4>1. /\ i \in 1 .. n /\ i + 1 \in 1 .. n /\ chain'[i] = chain[i]
            /\ chain'[i + 1] = chain[i + 1]
        BY <3>3, <1>1, <1>3
      <4>2. chain[i] # tail /\ cells[chain[i]].next = chain[i + 1]
        BY <4>1, <3>3, <1>1, <1>6 DEF QueueOK, QueueShape
      <4> QED
        BY <4>1, <4>2, <3>3, <1>1, <1>3, <1>4, <1>9
    <3> QED
      BY <3>1, <3>2, <3>3, <1>1, <1>3
  <2>4. \A i, k \in DOMAIN chain' : chain'[i] = chain'[k] => i = k
    BY <1>1, <1>3, <1>4 DEF QueueOK, QueueShape
  <2>5. {c \in Chunks : cells'[c].live} = {chain'[i] : i \in DOMAIN chain'}
    <3>1. {c \in Chunks : cells[c].live} = {chain[i] : i \in DOMAIN chain}
      BY DEF QueueOK, QueueShape
    <3>2. {c \in Chunks : cells'[c].live} = {c \in Chunks : cells[c].live} \cup {a}
      BY <1>2, <1>9
    <3>3. {chain'[i] : i \in DOMAIN chain'} = {chain[i] : i \in DOMAIN chain} \cup {a}
      BY <1>1, <1>3
    <3> QED
      BY <3>1, <3>2, <3>3
  <2> QED
    BY <2>1, <2>2, <2>3, <2>4, <2>5 DEF QueueShape
<1>13. QueueOK'
  BY <1>11, <1>12 DEF QueueOK
<1>14. /\ Contents \in Seq(Nat) /\ Len(Contents) = n
       /\ \A i \in 1 .. n : Contents[i] = cells[chain[i]].element
  BY ContentsType
<1>15. Contents' = [i \in 1 .. n + 1 |-> cells'[chain'[i]].element]
  BY <1>3 DEF Contents
<1>16. \A i \in 1 .. n + 1 :
          cells'[chain'[i]].element = IF i = n + 1 THEN x ELSE Contents[i]
  BY <1>1, <1>3, <1>4, <1>9, <1>14
<1>17. /\ Append(Contents, x) \in Seq(Nat) /\ Len(Append(Contents, x)) = n + 1
       /\ \A i \in 1 .. n : Append(Contents, x)[i] = Contents[i]
       /\ Append(Contents, x)[n + 1] = x
  BY <1>14, AppendProperties
<1> HIDE DEF n
<1>18. Append(Contents, x) = [i \in 1 .. n + 1 |-> IF i = n + 1 THEN x ELSE Contents[i]]
  <2>1. \A s : s \in Seq(Nat) => s = [i \in 1 .. Len(s) |-> s[i]]
    OBVIOUS
  <2>2. \A i \in 1 .. n + 1 : Append(Contents, x)[i] = IF i = n + 1 THEN x ELSE Contents[i]
    BY <1>1, <1>17
  <2> QED
    BY <2>1, <2>2, <1>17
<1> QED
  BY <1>13, <1>15, <1>16, <1>18

(* queue_deq takes the element at the front, frees its cell, and disturbs  *)
(* no other.                                                               *)
LEMMA Dequeues ==
    ASSUME QueueOK, ~ queue_empty, queue_deq
    PROVE  /\ QueueOK' /\ Contents # <<>>
           /\ Front = Head(Contents) /\ Contents' = Tail(Contents)
<1> DEFINE n == Len(chain)
<1>1. /\ chain \in Seq(Chunks) /\ n \in Nat /\ DOMAIN chain = 1 .. n
      /\ \A i \in 1 .. n : chain[i] \in Chunks
  BY DEF QueueOK, QueueTypeOK
<1>2. n > 0 /\ head = chain[1] /\ head \in Chunks
  BY <1>1, WaitQueueAssumption DEF QueueOK, QueueShape, queue_empty
<1>3. /\ chain' \in Seq(Chunks) /\ Len(chain') = n - 1 /\ DOMAIN chain' = 1 .. n - 1
      /\ \A i \in 1 .. n - 1 : chain'[i] = chain[i + 1]
  BY <1>1, <1>2 DEF queue_deq
<1>4. \A i, k \in 1 .. n : chain[i] = chain[k] => i = k
  BY <1>1 DEF QueueOK, QueueShape
<1>5. cells \in [Chunks -> [live : BOOLEAN, element : Nat, next : Chunks \cup {NoCell}]]
  BY DEF QueueOK, QueueTypeOK
<1>6. \A i \in 1 .. n : cells[chain[i]].next = IF i = n THEN NoCell ELSE chain[i + 1]
  BY <1>1 DEF QueueOK, QueueShape
<1>7. /\ cells' \in [Chunks -> [live : BOOLEAN, element : Nat, next : Chunks \cup {NoCell}]]
      /\ ~ cells'[head].live
      /\ \A c \in Chunks : /\ c # head => cells'[c].live = cells[c].live
                           /\ cells'[c].element = cells[c].element
                           /\ cells'[c].next = cells[c].next
  BY <1>2, <1>5 DEF queue_deq
<1>8. QueueTypeOK'
  BY <1>1, <1>2, <1>3, <1>6, <1>7 DEF queue_deq, QueueOK, QueueTypeOK
<1>9. QueueShape'
  <2>1. head' = IF chain' = <<>> THEN NoCell ELSE chain'[1]
    <3>1. head' = IF n = 1 THEN NoCell ELSE chain[2]
      BY <1>1, <1>2, <1>6 DEF queue_deq
    <3>2. CASE n = 1
      BY <3>1, <3>2, <1>3
    <3>3. CASE n > 1
      <4>1. chain' # <<>> /\ chain'[1] = chain[2]
        BY <3>3, <1>1, <1>3
      <4> QED
        BY <4>1, <3>1, <3>3
    <3> QED
      BY <3>2, <3>3, <1>1, <1>2
  <2>2. chain' # <<>> => tail' = chain'[Len(chain')]
    <3>1. tail' = chain[n]
      BY <1>1, <1>2 DEF queue_deq, QueueOK, QueueShape
    <3>2. chain' # <<>> => n - 1 \in 1 .. n - 1
      BY <1>1, <1>2, <1>3
    <3> QED
      BY <3>1, <3>2, <1>1, <1>3
  <2>3. \A i \in DOMAIN chain' :
           cells'[chain'[i]].next = IF i = Len(chain') THEN NoCell ELSE chain'[i + 1]
    <3> SUFFICES ASSUME NEW i \in 1 .. n - 1
                 PROVE  cells'[chain'[i]].next = IF i = n - 1 THEN NoCell ELSE chain'[i + 1]
      BY <1>3
    <3> DEFINE k == i + 1
    <3>1. k \in 1 .. n /\ chain'[i] = chain[k] /\ chain[k] \in Chunks /\ (k = n <=> i = n - 1)
      <4>1. k \in 1 .. n /\ (k = n <=> i = n - 1)
        BY <1>1, <1>2
      <4>2. chain'[i] = chain[k]
        BY <1>3
      <4> QED
        BY <4>1, <4>2, <1>1
    <3>2. i # n - 1 => k \in 1 .. n - 1
      <4>1. n \in Nat
        BY <1>1
      <4> HIDE DEF n
      <4> QED
        BY <4>1
    <3> HIDE DEF k
    <3>3. cells'[chain'[i]].next = IF k = n THEN NoCell ELSE chain[k + 1]
      BY <3>1, <1>6, <1>7
    <3>4. i # n - 1 => chain'[k] = chain[k + 1]
      BY <3>2, <1>3
    <3> QED
      BY <3>1, <3>3, <3>4 DEF k
  <2>4. \A i, k \in DOMAIN chain' : chain'[i] = chain'[k] => i = k
    <3> SUFFICES ASSUME NEW i \in 1 .. n - 1, NEW k \in 1 .. n - 1, chain[i + 1] = chain[k + 1]
                 PROVE  i = k
      BY <1>3
    <3>1. i + 1 \in 1 .. n /\ k + 1 \in 1 .. n /\ i \in Int /\ k \in Int
      BY <1>1
    <3>2. i + 1 = k + 1
      BY <3>1, <1>4
    <3> QED
      BY <3>1, <3>2
  <2>5. {c \in Chunks : cells'[c].live} = {chain'[i] : i \in DOMAIN chain'}
    <3>1. {c \in Chunks : cells[c].live} = {chain[i] : i \in 1 .. n}
      BY <1>1 DEF QueueOK, QueueShape
    <3>2. {c \in Chunks : cells'[c].live} = {c \in Chunks : cells[c].live} \ {head}
      BY <1>7
    <3>3. {chain'[i] : i \in 1 .. n - 1} = {chain[i] : i \in 2 .. n}
      <4>1. \A i \in 2 .. n : i - 1 \in 1 .. n - 1 /\ chain'[i - 1] = chain[i]
        BY <1>1, <1>2, <1>3
      <4>2. \A i \in 1 .. n - 1 : i + 1 \in 2 .. n
        BY <1>1, <1>2
      <4> QED
        BY <4>1, <4>2, <1>3
    <3>4. {chain[i] : i \in 1 .. n} \ {head} = {chain[i] : i \in 2 .. n}
      <4>1. \A i \in 1 .. n : chain[i] # head <=> i \in 2 .. n
        BY <1>1, <1>2, <1>4
      <4>2. \A i \in 2 .. n : i \in 1 .. n
        BY <1>1
      <4> QED
        BY <4>1, <4>2
    <3> QED
      BY <3>1, <3>2, <3>3, <3>4, <1>3
  <2> QED
    BY <2>1, <2>2, <2>3, <2>4, <2>5 DEF QueueShape
<1>10. /\ Contents \in Seq(Nat) /\ Len(Contents) = n
       /\ \A i \in 1 .. n : Contents[i] = cells[chain[i]].element
  BY ContentsType
<1>11. Front = Head(Contents) /\ Contents # <<>>
  BY <1>1, <1>2, <1>10 DEF Front
<1>12. Contents' = [i \in 1 .. n - 1 |-> cells'[chain'[i]].element]
  BY <1>3 DEF Contents
<1>13. \A i \in 1 .. n - 1 : cells'[chain'[i]].element = Contents[i + 1]
  <2> TAKE i \in 1 .. n - 1
  <2>1. i + 1 \in 1 .. n /\ chain'[i] = chain[i + 1] /\ chain[i + 1] \in Chunks
    BY <1>1, <1>2, <1>3
  <2> QED
    BY <2>1, <1>7, <1>10
<1>14. Contents' = [i \in 1 .. n - 1 |-> Contents[i + 1]]
  BY <1>12, <1>13
<1>15. Tail(Contents) = [i \in 1 .. n - 1 |-> Contents[i + 1]]
  <2>1. /\ Tail(Contents) \in Seq(Nat) /\ Len(Tail(Contents)) = n - 1
        /\ \A i \in 1 .. n - 1 : Tail(Contents)[i] = Contents[i + 1]
    BY <1>10, <1>11, HeadTailProperties
  <2>2. \A s : s \in Seq(Nat) => s = [i \in 1 .. Len(s) |-> s[i]]
    OBVIOUS
  <2> QED
    BY <2>1, <2>2
<1> QED
  BY <1>8, <1>9, <1>11, <1>14, <1>15 DEF QueueOK
=============================================================================
