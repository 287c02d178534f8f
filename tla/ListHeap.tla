--------------------------- MODULE ListHeap ---------------------------
(***************************************************************************)
(* The circular doubly linked lists of kernel/list/list.c as pointers.  A  *)
(* heap h gives every node, list heads included, its next and its prev.    *)
(* The writes happen in the order of the code: nodes may coincide, and a   *)
(* later write reads what an earlier one left.                             *)
(***************************************************************************)
EXTENDS Integers, Sequences, FiniteSets

SetNext(h, n, to) == [next |-> [h.next EXCEPT ![n] = to], prev |-> h.prev]
SetPrev(h, n, to) == [next |-> h.next, prev |-> [h.prev EXCEPT ![n] = to]]

\* Every node a list of its own.
Unlinked(N) == [next |-> [n \in N |-> n], prev |-> [n \in N |-> n]]

init_list_head(h, n) == SetPrev(SetNext(h, n, n), n, n)

\* Slip: the node that followed the head keeps its back pointer.
AddOneWay(h, new, head) ==
  SetNext(SetPrev(SetNext(h, new, h.next[head]), new, head), head, new)

list_add(h, new, head) ==
  LET h1 == SetPrev(SetNext(h, new, h.next[head]), new, head)
  IN  SetNext(SetPrev(h1, h1.next[head], new), head, new)

list_add_tail(h, new, head) ==
  LET h1 == SetPrev(SetNext(h, new, head), new, h.prev[head])
  IN  SetPrev(SetNext(h1, h1.prev[head], new), head, new)

list_del(h, entry) ==
  LET h1 == SetNext(h, h.prev[entry], h.next[entry])
  IN  SetPrev(h1, h1.next[entry], h1.prev[entry])

\* Slip: the node keeps its pointers into the list it left.
DelOnly(h, entry) == list_del(h, entry)

list_del_init(h, entry) == init_list_head(list_del(h, entry), entry)

\* Slip: the node goes to the front.
MoveToFront(h, entry, head) == list_add(list_del(h, entry), entry, head)

list_move_tail(h, entry, head) == list_add_tail(list_del(h, entry), entry, head)

list_empty(h, head) == h.next[head] = head

-----------------------------------------------------------------------
\* The node i links after x.
Nth(h, x, i) ==
  LET at[j \in 0..i] == IF j = 0 THEN x ELSE h.next[at[j - 1]] IN at[i]

\* The nodes list_for_each(pos, x) visits, for a list that leads back to x.
Entries(h, x) ==
  LET far == Cardinality(DOMAIN h.next)
      len == CHOOSE i \in 0..far : /\ Nth(h, x, i + 1) = x
                                   /\ \A j \in 1..i : Nth(h, x, j) # x
  IN  [i \in 1..len |-> Nth(h, x, i)]

\* The pointers form rings, in both directions the same.
Rings(h) ==
  \A n \in DOMAIN h.next : h.prev[h.next[n]] = n /\ h.next[h.prev[n]] = n

=======================================================================
