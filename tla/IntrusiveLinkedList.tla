-------------------------- MODULE IntrusiveLinkedList --------------------------
(***************************************************************************)
(* intrusive_linked_list/src/lib.rs: singly linked lists whose next field  *)
(* is stored in the first word of the free memory they link.               *)
(*                                                                         *)
(* next maps a cell to the contents of its first word: a list head (the    *)
(* IntrusiveLinkedList value itself) or a piece of memory.  All lists of a *)
(* program share this memory, so an operation on a bad list shows as       *)
(* damage to another.                                                      *)
(***************************************************************************)
EXTENDS Integers, Sequences, FiniteSets, SequencesExt

NULL == -1 \* next: None
JUNK == -2 \* whatever the owner of the memory stored there

(***************************************************************************)
(* The cells from head h on, h included, in the order a walk meets them.   *)
(* A walk that runs into JUNK, or comes back to a cell, ends in JUNK.      *)
(***************************************************************************)
Walk(next, h) ==
    LET From[fuel \in Nat] ==
          [c \in DOMAIN next |->
             IF next[c] = NULL THEN <<c>>
             ELSE IF next[c] = JUNK \/ fuel = 0 THEN <<c, JUNK>>
             ELSE <<c>> \o From[fuel - 1][next[c]]]
    IN  From[Cardinality(DOMAIN next)][h]

(* The linked memory, head excluded. *)
Nodes(next, h) == Tail(Walk(next, h))

is_none(next, h) == next[h] = NULL

(* The first cell of a walk whose successor satisfies Test. *)
FirstBefore(next, h, Test(_)) ==
    LET w == Walk(next, h)
    IN  w[SelectInSeq(w, LAMBDA c : Test(next[c]))]

push(next, h, ptr) == [next EXCEPT ![ptr] = next[h], ![h] = ptr]

push_back_NoTerminator(next, h, ptr) == [next EXCEPT ![Last(Walk(next, h))] = ptr]

push_back(next, h, ptr) ==
    LET fresh == [next EXCEPT ![ptr] = NULL]
    IN  [fresh EXCEPT ![Last(Walk(fresh, h))] = ptr]

(* An unlinked node keeps its stale link, which counts as JUNK from then on. *)
pop(next, h) == [next EXCEPT ![h] = next[next[h]], ![next[h]] = JUNK]

(* remove_if(ptr) returns whether ptr was in the list. *)
Linked(next, h, ptr) == Contains(Nodes(next, h), ptr)
remove_if(next, h, ptr) ==
    [next EXCEPT ![FirstBefore(next, h, LAMBDA n : n = ptr)] = next[ptr], ![ptr] = JUNK]

(* In front of the first node with a larger address. *)
add_with_sort(next, h, ptr) ==
    LET prev == FirstBefore(next, h, LAMBDA n : n = NULL \/ n > ptr)
    IN  [next EXCEPT ![ptr] = next[prev], ![prev] = ptr]
===============================================================================
