------------------------------- MODULE Buffer -------------------------------
(***************************************************************************)
(* The dynamic array of src/utils/lib/buffer.c: len elements in a block of *)
(* cap slots, numbered from 0.  A slot holds a pointer that the array      *)
(* alone has, so it is shown as the element pointed to; a slot that no     *)
(* element is in holds a null pointer, or what happens to be there (a      *)
(* pointer to a freed element, or memory never written).                   *)
(***************************************************************************)
EXTENDS Integers

CONSTANTS Null, Junk

init(cap) == [len |-> 0, cap |-> cap, data |-> [i \in 0 .. cap - 1 |-> Null]]

get_pos(b, pos) == b.data[pos]

(* The capacity after add_pos: a full block grows by a half, and realloc   *)
(* leaves what it adds as it was.                                          *)
\* broken: the block grows one element too late.
GrownLate(b) == IF b.len > b.cap THEN b.cap + b.cap \div 2 ELSE b.cap
Grown(b) == IF b.len = b.cap THEN b.cap + b.cap \div 2 ELSE b.cap
Slot(b, i) == IF i < b.cap THEN b.data[i] ELSE Junk

(* memmove makes room for the new element at pos.                          *)
Added(b, x, pos, i) ==
    IF i = pos THEN x
    ELSE IF pos < i /\ i <= b.len THEN Slot(b, i - 1) ELSE Slot(b, i)

add_pos(b, x, pos) ==
    [len  |-> b.len + 1,
     cap  |-> Grown(b),
     data |-> [i \in 0 .. Grown(b) - 1 |-> Added(b, x, pos, i)]]

(* The slots del_pos reads pointers from and copies through.  The loop     *)
(* increments its index before it uses it, so there are none only when the *)
(* last element is deleted; otherwise the two behind the last element are  *)
(* among them.                                                             *)
Touched(b, pos) == {i \in pos + 2 .. b.len + 1 : pos + 2 <= b.len}

(* A copy through a null pointer is a fault; one through a pointer from    *)
(* behind the block or to freed memory can have any effect.                *)
AfterDel(b, pos) ==
    IF Touched(b, pos) = {} THEN "up"
    ELSE IF \E i \in Touched(b, pos) : i < b.cap /\ b.data[i] = Null
         THEN "fault" ELSE "undefined"

(* What is left when no slot was touched: the slot keeps its pointer.      *)
del_pos(b, pos) ==
    [len |-> b.len - 1, cap |-> b.cap, data |-> [b.data EXCEPT ![pos] = Junk]]

(* A block has as many slots as the array thinks it has, and room for its  *)
(* elements, and every element is there.                                   *)
Holds(b, E) ==
    /\ DOMAIN b.data = 0 .. b.cap - 1
    /\ b.len <= b.cap
    /\ \A i \in 0 .. b.len - 1 : b.data[i] \in E
=============================================================================
