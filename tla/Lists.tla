------------------------------- MODULE Lists --------------------------------
(***************************************************************************)
(* The doubly linked list of misc/hev-list.c as a sequence of nodes, first *)
(* node first.  hev_list_add_tail is Append, hev_list_first is Head.       *)
(***************************************************************************)
EXTENDS Integers, Sequences

InList(list, node) == \E i \in 1..Len(list) : list[i] = node
Before(list, x, y) ==
  \E i, j \in 1..Len(list) : i < j /\ list[i] = x /\ list[j] = y
Distinct(list) == \A i, j \in 1..Len(list) : list[i] = list[j] => i = j

(* hev_list_del, for a node that is in the list.                           *)
ListDel(list, node) ==
  LET i == CHOOSE j \in 1..Len(list) : list[j] = node
  IN  [j \in 1..(Len(list) - 1) |-> IF j < i THEN list[j] ELSE list[j + 1]]

(* A node linked in front of the others.                                   *)
Push(list, node) == <<node>> \o list
=============================================================================
