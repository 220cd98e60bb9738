------------------------------ MODULE WaitQueue ------------------------------
(***************************************************************************)
(* The queue of src/utils/lib/queue.c, made of the cells of                *)
(* src/utils/lib/list.c.  A freed cell keeps its contents until malloc     *)
(* gives the memory out again, to this queue or to somebody else, and the  *)
(* pointers to it remain.                                                  *)
(***************************************************************************)
EXTENDS Integers, Sequences

CONSTANTS
    Chunks,     \* addresses that malloc may return for a cell
    NoCell      \* the null pointer to a cell

ASSUME WaitQueueAssumption == NoCell \notin Chunks

VARIABLES
    head, tail,
    cells,      \* what is at each address
    chain       \* history: addresses of the cells put in and not taken out, in order

queueVars == <<head, tail, cells, chain>>

(* cons.                                                                   *)
\* broken: the two pointers are swapped.
CellSwapped(element, next) == [live |-> TRUE, element |-> next, next |-> element]
Cell(element, next) == [live |-> TRUE, element |-> element, next |-> next]

queue_create ==
    /\ head  = NoCell
    /\ tail  = NoCell
    /\ cells = [a \in Chunks |-> [live |-> FALSE, element |-> 0, next |-> NoCell]]
    /\ chain = <<>>

queue_empty == head = NoCell

(* malloc returns memory that is not in use.                               *)
Malloc(a) == ~ cells[a].live

\* broken: the tail is tested for emptiness.
EnqByTail(x) ==
    \E a \in {a \in Chunks : Malloc(a)} :
      /\ tail'  = a
      /\ chain' = Append(chain, a)
      /\ \/ tail = NoCell /\ head' = a /\ cells' = [cells EXCEPT ![a] = Cell(x, NoCell)]
         \/ /\ tail # NoCell
            /\ cells' = [cells EXCEPT ![a] = Cell(x, NoCell), ![tail].next = a]
            /\ UNCHANGED head
queue_enq(x) ==
    \E a \in {a \in Chunks : Malloc(a)} :
      /\ tail'  = a
      /\ chain' = Append(chain, a)
      /\ \/ queue_empty /\ head' = a /\ cells' = [cells EXCEPT ![a] = Cell(x, NoCell)]
         \/ /\ ~ queue_empty
            /\ cells' = [cells EXCEPT ![a] = Cell(x, NoCell), ![tail].next = a]
            /\ UNCHANGED head

Front == cells[head].element
queue_deq ==
    /\ head'  = cells[head].next
    /\ cells' = [cells EXCEPT ![head].live = FALSE]
    /\ chain' = Tail(chain)
    /\ UNCHANGED tail

(* What is in the queue, in order.                                         *)
Contents == [i \in DOMAIN chain |-> cells[chain[i]].element]

QueueTypeOK ==
    /\ head \in Chunks \cup {NoCell} /\ tail \in Chunks \cup {NoCell}
    /\ cells \in [Chunks -> [live : BOOLEAN, element : Nat, next : Chunks \cup {NoCell}]]
    /\ chain \in Seq(Chunks)

(* queue_enq, queue_deq: the cells from head by their next pointers are    *)
(* those that were put in and not taken out, all of them in use; tail is   *)
(* the last of them, if there is one; no other cell is in use.             *)
QueueShape ==
    /\ head = IF chain = <<>> THEN NoCell ELSE chain[1]
    /\ chain # <<>> => tail = chain[Len(chain)]
    /\ \A i \in DOMAIN chain :
         cells[chain[i]].next = IF i = Len(chain) THEN NoCell ELSE chain[i + 1]
    /\ \A i, k \in DOMAIN chain : chain[i] = chain[k] => i = k
    /\ {a \in Chunks : cells[a].live} = {chain[i] : i \in DOMAIN chain}
=============================================================================
