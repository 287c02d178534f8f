----------------------------- MODULE Mutex -----------------------------
(***************************************************************************)
(* What a table of mutexes promises: each has at most one owner, and a     *)
(* release passes it to the task that has waited longest.  There is no     *)
(* moment between owner and next owner at which a newcomer can take it.    *)
(***************************************************************************)
EXTENDS Integers, Sequences, SequencesExt

CONSTANTS Task, Locks, NoOwner

VARIABLES
  owner,   \* who has each mutex
  waiters  \* who waits for it, longest first

vars == <<owner, waiters>>

Init ==
  /\ owner = [l \in Locks |-> NoOwner]
  /\ waiters = [l \in Locks |-> <<>>]

Take(t, l) ==
  /\ owner[l] = NoOwner
  /\ owner' = [owner EXCEPT ![l] = t]
  /\ UNCHANGED waiters

Wait(t, l) ==
  /\ owner[l] \notin {NoOwner, t}
  /\ t \notin ToSet(waiters[l])
  /\ waiters' = [waiters EXCEPT ![l] = Append(@, t)]
  /\ UNCHANGED owner

Free(l) ==
  /\ owner[l] # NoOwner /\ waiters[l] = <<>>
  /\ owner' = [owner EXCEPT ![l] = NoOwner]
  /\ UNCHANGED waiters

Pass(l) ==
  /\ waiters[l] # <<>>
  /\ owner' = [owner EXCEPT ![l] = Head(waiters[l])]
  /\ waiters' = [waiters EXCEPT ![l] = Tail(@)]

Next ==
  \E l \in Locks : \/ \E t \in Task : Take(t, l) \/ Wait(t, l)
                   \/ Free(l)
                   \/ Pass(l)

Spec == Init /\ [][Next]_vars

=======================================================================
