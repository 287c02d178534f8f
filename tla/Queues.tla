---------------------------- MODULE Queues ----------------------------
(***************************************************************************)
(* Queues of process control blocks, as sequences.  The kernel keeps every *)
(* PCB in at most one circular list at a time (the ready queue, the sleep  *)
(* queue, or the block queue of a mutex); a queue is read from the node    *)
(* after the head.  Nothing here is recursive, so that the modules built   *)
(* on it can be proved about.                                              *)
(***************************************************************************)
EXTENDS Integers, FiniteSets, SequencesExt

\* The elements of q at the indices in I, in their order in q: the k-th is
\* the one whose index has rank k in I.
Pick(q, I) ==
  [k \in 1..Cardinality(I) |->
     q[CHOOSE i \in I : Cardinality({j \in I : j <= i}) = k]]

\* list_del of t's node: the other nodes keep their order.
Without(q, t) == Pick(q, {i \in DOMAIN q : q[i] # t})

=======================================================================
