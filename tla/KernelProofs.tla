------------------------- MODULE KernelProofs -------------------------
(***************************************************************************)
(* Theorems about the scheduler and about the mutexes.                     *)
(*                                                                         *)
(* The scheduler: its type invariant, that no task is ever lost from or    *)
(* duplicated in the kernel's queues, the order the ready queue keeps, and *)
(* what holds while some task is always ready or running, the length of a  *)
(* sleep included.                                                         *)
(*                                                                         *)
(* The mutexes of kernel/locking/lock.c: what they need beyond the         *)
(* constants' assumptions stands in each theorem: a key -1 would be taken  *)
(* for the mark of a free slot, and without a task that never waits an     *)
(* acquire may return without the mutex.                                   *)
(***************************************************************************)
EXTENDS Kernel, SleepTime, QueuesProofs


\* The status and lists a handler works on, and their consistency.
Kernels == [status : [Proc -> Status], queue : [Queue -> Seq(Task)]]

Sound(s) ==
  /\ s \in Kernels
  /\ ListsDisjoint(s.queue)
  /\ Placed(s)
  /\ s.status[pid0] = "BLOCKED"

-----------------------------------------------------------------------
\* The lists new are well formed, and hold what the lists qs held, t moved to x.
Moved(qs, new, t, x) ==
  /\ new \in [Queue -> Seq(Task)]
  /\ ListsDisjoint(new)
  /\ ToSet(new[x]) = ToSet(qs[x]) \cup {t}
  /\ \A y \in Queue \ {x} : ToSet(new[y]) = ToSet(qs[y]) \ {t}

(***************************************************************************)
(* list_move_tail takes the node out of the list it is in, if any, and     *)
(* adds it to the other: no list is damaged.                               *)
(***************************************************************************)
LEMMA MoveTail ==
  ASSUME NEW qs \in [Queue -> Seq(Task)], NEW t \in Task, NEW x \in Queue,
         ListsDisjoint(qs)
  PROVE  Moved(qs, list_move_tail(qs, t, x), t, x)
<1> DEFINE off(y) == Without(qs[y], t)
           new == list_move_tail(qs, t, x)
<1>1. \A y \in Queue : /\ off(y) \in Seq(Task)
                       /\ ToSet(off(y)) = ToSet(qs[y]) \ {t}
                       /\ IsInjective(off(y))
  BY WithoutProperties DEF ListsDisjoint
<1>2. \A y \in Queue : new[y] = IF y = x THEN Append(off(y), t) ELSE off(y)
  BY DEF list_move_tail
<1>3. /\ Append(off(x), t) \in Seq(Task)
      /\ ToSet(Append(off(x), t)) = ToSet(qs[x]) \cup {t}
      /\ IsInjective(Append(off(x), t))
  <2> HIDE DEF off
  <2>1. t \notin ToSet(off(x))
    BY <1>1
  <2> QED BY <1>1, <2>1, AppendQueue
<1>4. new \in [Queue -> Seq(Task)]
  BY <1>1, <1>3 DEF list_move_tail
<1> HIDE DEF off, new
<1>5. \A y \in Queue : /\ IsInjective(new[y])
                       /\ y = x => ToSet(new[y]) = ToSet(qs[y]) \cup {t}
                       /\ y # x => ToSet(new[y]) = ToSet(qs[y]) \ {t}
  BY <1>1, <1>2, <1>3
<1>6. ListsDisjoint(new)
  BY <1>5 DEF ListsDisjoint
<1>7. Moved(qs, new, t, x)
  BY <1>4, <1>5, <1>6 DEF Moved
<1> QED BY <1>7 DEF new

(***************************************************************************)
(* do_block and do_unblock keep status and list membership in agreement.   *)
(***************************************************************************)
LEMMA BlockSound ==
  ASSUME NEW s, Sound(s), NEW t \in Task, NEW x \in WaitQueue
  PROVE  /\ Sound(do_block(s, t, x))
         /\ do_block(s, t, x).status = [s.status EXCEPT ![t] = "BLOCKED"]
         /\ ToSet(do_block(s, t, x).queue[ready_queue]) = ToSet(s.queue[ready_queue]) \ {t}
<1> DEFINE st == [s.status EXCEPT ![t] = "BLOCKED"]
           qs == list_move_tail(s.queue, t, x)
           b  == do_block(s, t, x)
<1>1. b.status = st /\ b.queue = qs /\ b = [status |-> st, queue |-> qs]
  BY DEF do_block
<1>2. /\ s.status \in [Proc -> Status] /\ s.queue \in [Queue -> Seq(Task)]
      /\ x \in Queue /\ x # ready_queue /\ ready_queue \in Queue
      /\ t \in Proc /\ t # pid0
  BY DEF Sound, Kernels, WaitQueue, Queue, Proc, Task, pid0
<1>3. /\ qs \in [Queue -> Seq(Task)]
      /\ ListsDisjoint(qs)
      /\ ToSet(qs[x]) = ToSet(s.queue[x]) \cup {t}
      /\ \A y \in Queue \ {x} : ToSet(qs[y]) = ToSet(s.queue[y]) \ {t}
  <2>1. ListsDisjoint(s.queue)
    BY DEF Sound
  <2>2. Moved(s.queue, qs, t, x)
    BY <1>2, <2>1, MoveTail
  <2> HIDE DEF st, qs, b
  <2> QED BY <2>2 DEF Moved
<1>4. st \in [Proc -> Status] /\ st[t] = "BLOCKED" /\ \A u \in Proc \ {t} : st[u] = s.status[u]
  BY <1>2 DEF Status
<1> HIDE DEF st, qs, b
<1>5. \A u \in Task : b.status[u] = "READY" <=> u \in ToSet(b.queue[ready_queue])
  <2> SUFFICES ASSUME NEW u \in Task
               PROVE  st[u] = "READY" <=> u \in ToSet(qs[ready_queue])
    BY <1>1
  <2>1. ToSet(qs[ready_queue]) = ToSet(s.queue[ready_queue]) \ {t}
    BY <1>2, <1>3
  <2>2. s.status[u] = "READY" <=> u \in ToSet(s.queue[ready_queue])
    BY DEF Sound, Placed
  <2>3. u \in Proc
    BY DEF Proc
  <2>4. CASE u = t
    BY <2>1, <2>4, <1>4
  <2>5. CASE u # t
    BY <2>1, <2>2, <2>3, <2>5, <1>4
  <2> QED BY <2>4, <2>5
<1>6. \A u \in Task : b.status[u] = "BLOCKED" =>
        \E y \in WaitQueue : u \in ToSet(b.queue[y])
  <2> SUFFICES ASSUME NEW u \in Task, b.status[u] = "BLOCKED"
               PROVE  \E y \in WaitQueue : u \in ToSet(b.queue[y])
    OBVIOUS
  <2>1. CASE u = t
    BY <2>1, <1>1, <1>3
  <2>2. CASE u # t
    <3>1. PICK y \in WaitQueue : u \in ToSet(s.queue[y])
      BY <2>2, <1>1, <1>4 DEF Sound, Placed, Proc
    <3>2. u \in ToSet(qs[y])
      BY <2>2, <3>1, <1>3 DEF WaitQueue
    <3> QED BY <3>2, <1>1
  <2> QED BY <2>1, <2>2
<1>7. \A y \in WaitQueue : \A u \in ToSet(b.queue[y]) : b.status[u] \in {"BLOCKED", "EXITED"}
  <2> SUFFICES ASSUME NEW y \in WaitQueue, NEW u \in ToSet(qs[y]), u # t
               PROVE  st[u] \in {"BLOCKED", "EXITED"}
    BY <1>1, <1>4
  <2>1. u \in ToSet(s.queue[y]) /\ y \in Queue
    BY <1>3 DEF WaitQueue
  <2>2. u \in Task
    BY <2>1, <1>2 DEF ToSet
  <2> QED BY <2>1, <2>2, <1>4 DEF Sound, Placed, Proc
<1>8. b \in Kernels /\ ListsDisjoint(b.queue) /\ b.status[pid0] = "BLOCKED"
  BY <1>1, <1>2, <1>3, <1>4 DEF Kernels, Sound, Proc
<1>9. Sound(b)
  BY <1>5, <1>6, <1>7, <1>8 DEF Sound, Placed
<1> QED BY <1>1, <1>2, <1>3, <1>9 DEF b, st

LEMMA UnblockSound ==
  ASSUME NEW s, Sound(s), NEW t \in Task
  PROVE  /\ Sound(do_unblock(s, t))
         /\ do_unblock(s, t).status = [s.status EXCEPT ![t] = "READY"]
<1> DEFINE st == [s.status EXCEPT ![t] = "READY"]
           qs == list_move_tail(s.queue, t, ready_queue)
           b  == do_unblock(s, t)
<1>1. b.status = st /\ b.queue = qs /\ b = [status |-> st, queue |-> qs]
  BY DEF do_unblock
<1>2. /\ s.status \in [Proc -> Status] /\ s.queue \in [Queue -> Seq(Task)]
      /\ ready_queue \in Queue
      /\ t \in Proc /\ t # pid0
  BY DEF Sound, Kernels, WaitQueue, Queue, Proc, Task, pid0
<1>3. /\ qs \in [Queue -> Seq(Task)]
      /\ ListsDisjoint(qs)
      /\ ToSet(qs[ready_queue]) = ToSet(s.queue[ready_queue]) \cup {t}
      /\ \A y \in WaitQueue : ToSet(qs[y]) = ToSet(s.queue[y]) \ {t}
  <2>1. ListsDisjoint(s.queue)
    BY DEF Sound
  <2>2. Moved(s.queue, qs, t, ready_queue)
    BY <1>2, <2>1, MoveTail
  <2> HIDE DEF st, qs, b
  <2> QED BY <2>2 DEF Moved, WaitQueue
<1>4. st \in [Proc -> Status] /\ st[t] = "READY" /\ \A u \in Proc \ {t} : st[u] = s.status[u]
  BY <1>2 DEF Status
<1> HIDE DEF st, qs, b
<1>5. \A u \in Task : b.status[u] = "READY" <=> u \in ToSet(b.queue[ready_queue])
  <2> SUFFICES ASSUME NEW u \in Task
               PROVE  st[u] = "READY" <=> u \in ToSet(qs[ready_queue])
    BY <1>1
  <2>1. s.status[u] = "READY" <=> u \in ToSet(s.queue[ready_queue])
    BY DEF Sound, Placed
  <2>2. u \in Proc
    BY DEF Proc
  <2>3. CASE u = t
    BY <2>3, <1>3, <1>4
  <2>4. CASE u # t
    BY <2>1, <2>2, <2>4, <1>3, <1>4
  <2> QED BY <2>3, <2>4
<1>6. \A u \in Task : b.status[u] = "BLOCKED" =>
        \E y \in WaitQueue : u \in ToSet(b.queue[y])
  <2> SUFFICES ASSUME NEW u \in Task, st[u] = "BLOCKED"
               PROVE  \E y \in WaitQueue : u \in ToSet(qs[y])
    BY <1>1
  <2>1. u # t /\ s.status[u] = "BLOCKED"
    BY <1>4 DEF Proc
  <2>2. PICK y \in WaitQueue : u \in ToSet(s.queue[y])
    BY <2>1 DEF Sound, Placed
  <2> QED BY <2>1, <2>2, <1>3
<1>7. \A y \in WaitQueue : \A u \in ToSet(b.queue[y]) : b.status[u] \in {"BLOCKED", "EXITED"}
  <2> SUFFICES ASSUME NEW y \in WaitQueue, NEW u \in ToSet(qs[y])
               PROVE  st[u] \in {"BLOCKED", "EXITED"}
    BY <1>1
  <2>1. u \in ToSet(s.queue[y]) /\ u # t /\ y \in Queue
    BY <1>3 DEF WaitQueue
  <2>2. u \in Task
    BY <2>1, <1>2 DEF ToSet
  <2> QED BY <2>1, <2>2, <1>4 DEF Sound, Placed, Proc
<1>8. b \in Kernels /\ ListsDisjoint(b.queue) /\ b.status[pid0] = "BLOCKED"
  BY <1>1, <1>2, <1>3, <1>4 DEF Kernels, Sound, Proc
<1>9. Sound(b)
  BY <1>5, <1>6, <1>7, <1>8 DEF Sound, Placed
<1> QED BY <1>1, <1>9 DEF b, st

(***************************************************************************)
(* check_sleeping moves the due sleepers, all of them and nothing else, to *)
(* the ready queue.                                                        *)
(***************************************************************************)
LEMMA WakeSound ==
  ASSUME NEW s, Sound(s), NEW wk, NEW k
  PROVE  /\ Sound(check_sleeping(s, wk, k))
         /\ \A p \in Proc : check_sleeping(s, wk, k).status[p] = "RUNNING"
                              <=> s.status[p] = "RUNNING"
         /\ s.queue[ready_queue] # <<>> => check_sleeping(s, wk, k).queue[ready_queue] # <<>>
         /\ \A p \in Proc : \/ check_sleeping(s, wk, k).status[p] = s.status[p]
                            \/ check_sleeping(s, wk, k).queue[ready_queue] # <<>>
<1> DEFINE q   == s.queue[sleep_queue]
           expired == Due(s, wk, k)
           rest == DOMAIN q \ expired
           st  == [p \in Proc |-> IF \E i \in expired : q[i] = p THEN "READY" ELSE s.status[p]]
           stay == Pick(q, rest)
           woken == Pick(q, expired)
           rq  == s.queue[ready_queue]
           w   == check_sleeping(s, wk, k)
<1>1. /\ s.status \in [Proc -> Status] /\ s.queue \in [Queue -> Seq(Task)]
      /\ {sleep_queue, ready_queue} \subseteq Queue /\ sleep_queue # ready_queue
      /\ q \in Seq(Task) /\ rq \in Seq(Task)
      /\ pid0 \notin Task /\ Task \subseteq Proc
  BY SchedAssumption DEF Sound, Kernels, Queue, Proc, Task, pid0
<1>2. expired \in SUBSET DOMAIN q /\ rest \in SUBSET DOMAIN q
  BY DEF Due
<1>3. /\ w.status = st
      /\ w.queue = [s.queue EXCEPT ![sleep_queue] = stay, ![ready_queue] = @ \o woken]
      /\ w = [status |-> st, queue |-> w.queue]
  BY DEF check_sleeping
<1>4. /\ w.queue[sleep_queue] = stay
      /\ w.queue[ready_queue] = rq \o woken
      /\ \A y \in Queue \ {sleep_queue, ready_queue} : w.queue[y] = s.queue[y]
  BY <1>1, <1>3
<1>5. /\ stay \in Seq(Task) /\ woken \in Seq(Task)
      /\ ToSet(stay) = {q[i] : i \in rest}
      /\ ToSet(woken) = {q[i] : i \in expired}
      /\ IsInjective(q) => IsInjective(stay) /\ IsInjective(woken)
  <2> HIDE DEF q, expired, rest
  <2> QED BY <1>1, <1>2, PickProperties
<1>6. /\ IsInjective(q) /\ IsInjective(rq)
      /\ ToSet(q) \cap ToSet(rq) = {}
  BY <1>1 DEF Sound, ListsDisjoint
<1>7. /\ ToSet(stay) \cup ToSet(woken) = ToSet(q)
      /\ ToSet(stay) \cap ToSet(woken) = {}
  <2> HIDE DEF q, expired, stay, woken
  <2>1. /\ \A i \in DOMAIN q : i \in rest \/ i \in expired
        /\ \A i \in rest, j \in expired : i \in DOMAIN q /\ j \in DOMAIN q /\ i # j
    BY <1>2
  <2>2. ToSet(q) = {q[i] : i \in DOMAIN q}
    BY DEF ToSet
  <2>3. \A i \in rest, j \in expired : q[i] # q[j]
    BY <2>1, <1>6 DEF IsInjective
  <2> HIDE DEF rest
  <2>4. ToSet(stay) \cup ToSet(woken) = ToSet(q)
    BY <1>2, <1>5, <2>1, <2>2
  <2> QED BY <1>5, <2>3, <2>4
<1>8. \A u \in Task : /\ u \in ToSet(woken) => st[u] = "READY"
                      /\ u \notin ToSet(woken) => st[u] = s.status[u]
  <2> HIDE DEF q, expired, woken
  <2> QED BY <1>1, <1>5
<1>9. st[pid0] = "BLOCKED" /\ st \in [Proc -> Status]
  <2>1. \A i \in expired : q[i] \in Task
    BY <1>1, <1>2
  <2> HIDE DEF q, expired
  <2> QED BY <1>1, <2>1 DEF Sound, Status, Proc
<1>10. \A u \in ToSet(q) : u \in Task /\ s.status[u] \in {"BLOCKED", "EXITED"}
  BY <1>1 DEF Sound, Placed, WaitQueue, ToSet
<1>11. /\ rq \o woken \in Seq(Task)
       /\ ToSet(rq \o woken) = ToSet(rq) \cup ToSet(woken)
       /\ IsInjective(rq \o woken)
       /\ rq # <<>> => rq \o woken # <<>>
       /\ woken # <<>> => rq \o woken # <<>>
  <2>1. IsInjective(woken) /\ ToSet(rq) \cap ToSet(woken) = {}
    BY <1>5, <1>6, <1>7
  <2> HIDE DEF rq, woken
  <2> QED BY <1>1, <1>5, <1>6, <2>1, ConcatQueue
<1>12. w.queue \in [Queue -> Seq(Task)]
  BY <1>1, <1>3, <1>5, <1>11
<1> HIDE DEF w, st, stay, woken, rest, expired, q, rq
<1>13. ListsDisjoint(w.queue)
  <2>1. \A x \in Queue : IsInjective(w.queue[x])
    BY <1>4, <1>5, <1>6, <1>11 DEF Sound, ListsDisjoint
  <2>2. /\ ToSet(w.queue[ready_queue]) = ToSet(rq) \cup ToSet(woken)
        /\ ToSet(w.queue[sleep_queue]) = ToSet(q) \ ToSet(woken)
        /\ ToSet(woken) \subseteq ToSet(q)
        /\ \A y \in Queue \ {sleep_queue, ready_queue} : ToSet(w.queue[y]) = ToSet(s.queue[y])
    BY <1>4, <1>7, <1>11
  <2>3. \A x, y \in Queue : x # y => ToSet(w.queue[x]) \cap ToSet(w.queue[y]) = {}
    <3> DEFINE old(x) == ToSet(s.queue[x])
               new(x) == ToSet(w.queue[x])
               rest2 == Queue \ {sleep_queue, ready_queue}
    <3>1. \A x, y \in Queue : x # y => old(x) \cap old(y) = {}
      BY DEF Sound, ListsDisjoint
    <3>2. /\ new(ready_queue) \subseteq old(ready_queue) \cup old(sleep_queue)
          /\ new(sleep_queue) \subseteq old(sleep_queue)
          /\ new(ready_queue) \cap new(sleep_queue) = {}
          /\ \A y \in rest2 : new(y) = old(y)
      <4>1. ToSet(rq) = old(ready_queue) /\ ToSet(q) = old(sleep_queue)
        BY DEF rq, q
      <4>2. old(ready_queue) \cap old(sleep_queue) = {}
        BY <3>1, <1>1
      <4>3. /\ new(ready_queue) = ToSet(rq) \cup ToSet(woken)
            /\ new(sleep_queue) = ToSet(q) \ ToSet(woken)
            /\ ToSet(woken) \subseteq ToSet(q)
            /\ \A y \in rest2 : new(y) = old(y)
        BY <2>2
      <4> HIDE DEF old, new, rest2
      <4>4. ToSet(rq) \cap ToSet(q) = {}
        BY <4>1, <4>2
      <4>5. new(ready_queue) \cap new(sleep_queue) = {}
        BY <4>3, <4>4
      <4> QED BY <4>1, <4>3, <4>5
    <3> HIDE DEF old, new, rest2
    <3>3. \A y \in rest2 : new(y) \cap new(ready_queue) = {} /\ new(y) \cap new(sleep_queue) = {}
      <4> SUFFICES ASSUME NEW y \in rest2
                   PROVE  new(y) \cap new(ready_queue) = {} /\ new(y) \cap new(sleep_queue) = {}
        OBVIOUS
      <4>1. old(y) \cap old(ready_queue) = {} /\ old(y) \cap old(sleep_queue) = {}
        BY <3>1, <1>1 DEF rest2
      <4> QED BY <4>1, <3>2
    <3>4. \A x, y \in rest2 : x # y => new(x) \cap new(y) = {}
      BY <3>1, <3>2 DEF rest2
    <3>5. \A x \in Queue : x \in rest2 \/ x = ready_queue \/ x = sleep_queue
      BY DEF rest2
    <3>6. \A x, y \in Queue : x # y => new(x) \cap new(y) = {}
      BY <3>2, <3>3, <3>4, <3>5
    <3> QED BY <3>6 DEF new
  <2> QED BY <2>1, <2>3 DEF ListsDisjoint
<1>14. \A u \in Task : st[u] = "READY" <=> u \in ToSet(w.queue[ready_queue])
  BY <1>1, <1>4, <1>7, <1>8, <1>10, <1>11 DEF Sound, Placed, rq
<1>15. \A u \in Task : st[u] = "BLOCKED" =>
         \E y \in WaitQueue : u \in ToSet(w.queue[y])
  <2> SUFFICES ASSUME NEW u \in Task, st[u] = "BLOCKED"
               PROVE  \E y \in WaitQueue : u \in ToSet(w.queue[y])
    OBVIOUS
  <2>1. u \notin ToSet(woken) /\ s.status[u] = "BLOCKED"
    BY <1>8
  <2>2. PICK y \in WaitQueue : u \in ToSet(s.queue[y])
    BY <2>1 DEF Sound, Placed
  <2>3. u \in ToSet(w.queue[y])
    BY <2>1, <2>2, <1>4, <1>7 DEF WaitQueue, q
  <2> QED BY <2>3
<1>16. \A y \in WaitQueue : \A u \in ToSet(w.queue[y]) : st[u] \in {"BLOCKED", "EXITED"}
  <2> SUFFICES ASSUME NEW y \in WaitQueue, NEW u \in ToSet(w.queue[y])
               PROVE  st[u] \in {"BLOCKED", "EXITED"}
    OBVIOUS
  <2>1. u \in ToSet(s.queue[y]) /\ u \notin ToSet(woken)
    BY <1>1, <1>4, <1>7 DEF WaitQueue, Sound, ListsDisjoint, q
  <2>2. u \in Task
    BY <2>1, <1>1 DEF ToSet, WaitQueue
  <2> QED BY <2>1, <2>2, <1>8 DEF Sound, Placed
<1>17. \A p \in Proc : st[p] = "RUNNING" <=> s.status[p] = "RUNNING"
  <2> SUFFICES ASSUME NEW p \in Proc PROVE st[p] = "RUNNING" <=> s.status[p] = "RUNNING"
    OBVIOUS
  <2>1. CASE p = pid0
    BY <2>1, <1>9 DEF Sound
  <2>2. CASE p \in Task
    BY <2>2, <1>7, <1>8, <1>10
  <2> QED BY <2>1, <2>2 DEF Proc
<1>18. \A p \in Proc : st[p] = s.status[p] \/ w.queue[ready_queue] # <<>>
  <2> SUFFICES ASSUME NEW p \in Proc, st[p] # s.status[p]
               PROVE  woken # <<>>
    BY <1>4, <1>11
  <2>1. p \in ToSet(woken)
    BY <1>8, <1>9 DEF Proc, Sound
  <2> QED BY <2>1 DEF ToSet
<1>19. Sound(w)
  BY <1>3, <1>9, <1>12, <1>13, <1>14, <1>15, <1>16 DEF Sound, Placed, Kernels
<1> QED BY <1>3, <1>4, <1>11, <1>17, <1>18, <1>19 DEF w, rq

LEMMA ReadyStaysReady ==
  ASSUME NEW s, Sound(s), NEW wk, NEW k
  PROVE  \A p \in Proc : s.status[p] \in {"READY", "RUNNING"} =>
           check_sleeping(s, wk, k).status[p] \in {"READY", "RUNNING"}
BY DEF check_sleeping

LEMMA GetTimerNat ==
  ASSUME NEW tk \in Nat PROVE get_timer(tk) \in Nat
BY SchedAssumption DEF get_timer

(***************************************************************************)
(* do_exit leaves the lists alone: the exited task may still be linked in  *)
(* the sleep queue or a block queue, but not in the ready queue.           *)
(***************************************************************************)
LEMMA ExitSound ==
  ASSUME NEW s, Sound(s), NEW t \in Task, s.status[t] # "READY"
  PROVE  Sound([status |-> [s.status EXCEPT ![t] = "EXITED"], queue |-> s.queue])
<1> DEFINE e == [status |-> [s.status EXCEPT ![t] = "EXITED"], queue |-> s.queue]
<1>1. /\ s.status \in [Proc -> Status] /\ t \in Proc /\ t # pid0
      /\ e.status = [s.status EXCEPT ![t] = "EXITED"] /\ e.queue = s.queue
      /\ e \in Kernels
  BY DEF Sound, Kernels, Proc, Task, pid0, Status
<1> HIDE DEF e
<1>2. \A u \in Proc : e.status[u] = IF u = t THEN "EXITED" ELSE s.status[u]
  BY <1>1
<1>3. \A x \in WaitQueue : \A u \in ToSet(s.queue[x]) : u \in Task
  BY DEF Sound, Kernels, WaitQueue, ToSet
<1>4. Placed(e)
  BY <1>1, <1>2, <1>3 DEF Sound, Placed, Proc
<1>5. Sound(e)
  BY <1>1, <1>2, <1>4 DEF Sound
<1> QED BY <1>5 DEF e

(***************************************************************************)
(* do_scheduler's choice of the next task: what was current goes back to   *)
(* the ready queue exactly if it was running, and one task leaves it.      *)
(***************************************************************************)
LEMMA DispatchSound ==
  ASSUME NEW s, Sound(s), current_running \in Proc,
         \A p \in Proc : s.status[p] = "RUNNING" => current_running = p,
         Dispatch(s)
  PROVE  /\ Sound(Kern)'
         /\ current_running' \in Proc
         /\ \A p \in Proc : status'[p] = "RUNNING" => current_running' = p
         /\ s.queue[ready_queue] # <<>> =>
              current_running' \in Task /\ status'[current_running'] = "RUNNING"
         /\ s.queue[ready_queue] = <<>> =>
              current_running' = current_running /\ status' = s.status
         /\ \A p \in Proc : s.status[p] \in {"BLOCKED", "EXITED"} => status'[p] = s.status[p]
         /\ \A p \in Proc : s.status[p] \in {"READY", "RUNNING"} => status'[p] \in {"READY", "RUNNING"}
         /\ \A x \in WaitQueue : queue'[x] = s.queue[x]
<1> DEFINE rq == s.queue[ready_queue]
           cur == current_running
           next == Head(rq)
<1>1. /\ s.status \in [Proc -> Status] /\ s.queue \in [Queue -> Seq(Task)]
      /\ ready_queue \in Queue /\ rq \in Seq(Task)
      /\ pid0 \notin Task /\ Task \subseteq Proc
      /\ s.status[pid0] = "BLOCKED"
      /\ IsInjective(rq)
  BY DEF Sound, Kernels, Queue, Proc, Task, pid0, ListsDisjoint
<1>2. Kern' = [status |-> status', queue |-> queue']
  BY DEF Kern
<1>3. CASE /\ rq = <<>>
           /\ status' = s.status /\ queue' = s.queue /\ current_running' = cur
  <2>1. Kern' = s
    BY <1>2, <1>3 DEF Sound, Kernels
  <2>2. Sound(Kern)'
    BY <2>1 DEF Sound, Placed
  <2> QED BY <1>3, <2>2, <1>1 DEF WaitQueue, Status
<1>4. CASE rq # <<>>
  <2>1. /\ next \in Task /\ next \in Proc /\ next \in ToSet(rq)
        /\ Tail(rq) \in Seq(Task) /\ IsInjective(Tail(rq))
        /\ ToSet(Tail(rq)) = ToSet(rq) \ {next}
    <3> HIDE DEF rq
    <3> QED BY <1>1, <1>4, HeadTailQueue
  <2>2. s.status[next] = "READY"
    BY <2>1 DEF Sound, Placed
  <2>3. current_running' = next
    BY <1>4 DEF Dispatch
  <2>4. PICK back \in SUBSET Task :
          /\ IF s.status[cur] = "RUNNING" THEN back = {cur} ELSE back = {}
          /\ status' \in [Proc -> Status]
          /\ \A p \in Proc : status'[p] = IF p = next THEN "RUNNING"
                                          ELSE IF p \in back THEN "READY" ELSE s.status[p]
          /\ queue'[ready_queue] \in Seq(Task)
          /\ IsInjective(queue'[ready_queue])
          /\ ToSet(queue'[ready_queue]) = (ToSet(rq) \ {next}) \cup back
          /\ queue' \in [Queue -> Seq(Task)]
          /\ \A x \in WaitQueue : queue'[x] = s.queue[x]
    <3>1. CASE s.status[cur] = "RUNNING"
      <4>1. cur \in Task /\ cur # next
        BY <3>1, <1>1, <2>2 DEF Proc
      <4>2. cur \notin ToSet(rq)
        BY <3>1, <4>1 DEF Sound, Placed
      <4>3. /\ Append(rq, cur) \in Seq(Task) /\ Append(rq, cur) # <<>>
            /\ ToSet(Append(rq, cur)) = ToSet(rq) \cup {cur}
            /\ IsInjective(Append(rq, cur))
        <5> HIDE DEF rq
        <5> QED BY <1>1, <4>1, <4>2, AppendQueue
      <4>4. Head(Append(rq, cur)) = next
        <5> HIDE DEF rq
        <5>1. Append(rq, cur)[1] = rq[1] /\ Head(rq) = rq[1]
          BY <1>1, <1>4, <4>1, AppendProperties, HeadTailProperties, EmptySeq
        <5> QED BY <5>1, <4>3, HeadTailProperties
      <4>5. /\ Tail(Append(rq, cur)) \in Seq(Task)
            /\ IsInjective(Tail(Append(rq, cur)))
            /\ ToSet(Tail(Append(rq, cur))) = (ToSet(rq) \ {next}) \cup {cur}
        <5> HIDE DEF rq, next
        <5>1. /\ Tail(Append(rq, cur)) \in Seq(Task)
              /\ IsInjective(Tail(Append(rq, cur)))
              /\ ToSet(Tail(Append(rq, cur))) = ToSet(Append(rq, cur)) \ {next}
          BY <4>3, <4>4, HeadTailQueue
        <5> QED BY <5>1, <4>1, <4>3
      <4>6. /\ queue' = [s.queue EXCEPT ![ready_queue] = Tail(Append(rq, cur))]
            /\ status' = [s.status EXCEPT ![cur] = "READY", ![next] = "RUNNING"]
        BY <3>1, <1>4 DEF Dispatch, Preempts
      <4>7. /\ status' \in [Proc -> Status]
            /\ \A p \in Proc : status'[p] = IF p = next THEN "RUNNING"
                                            ELSE IF p \in {cur} THEN "READY" ELSE s.status[p]
        <5> HIDE DEF next
        <5> QED BY <4>1, <4>6, <2>1, <1>1 DEF Status
      <4>8. /\ queue'[ready_queue] = Tail(Append(rq, cur))
            /\ queue' \in [Queue -> Seq(Task)]
            /\ \A x \in WaitQueue : queue'[x] = s.queue[x]
        <5> HIDE DEF rq
        <5> QED BY <4>5, <4>6, <1>1 DEF WaitQueue
      <4> QED BY <3>1, <4>1, <4>5, <4>7, <4>8
    <3>2. CASE s.status[cur] # "RUNNING"
      <4>1. /\ queue' = [s.queue EXCEPT ![ready_queue] = Tail(rq)]
            /\ status' = [s.status EXCEPT ![next] = "RUNNING"]
        BY <3>2, <1>4 DEF Dispatch, Preempts
      <4>2. /\ status' \in [Proc -> Status]
            /\ \A p \in Proc : status'[p] = IF p = next THEN "RUNNING" ELSE s.status[p]
        <5> HIDE DEF next
        <5> QED BY <4>1, <2>1, <1>1 DEF Status
      <4>3. /\ queue'[ready_queue] = Tail(rq)
            /\ queue' \in [Queue -> Seq(Task)]
            /\ \A x \in WaitQueue : queue'[x] = s.queue[x]
        BY <4>1, <2>1, <1>1 DEF WaitQueue
      <4>4. (ToSet(rq) \ {next}) \cup {} = ToSet(Tail(rq)) /\ \A p : p \notin {}
        BY <2>1
      <4> HIDE DEF rq, next
      <4>5. /\ queue'[ready_queue] \in Seq(Task)
            /\ IsInjective(queue'[ready_queue])
            /\ ToSet(queue'[ready_queue]) = (ToSet(rq) \ {next}) \cup {}
        BY <4>3, <4>4, <2>1
      <4>6. \A p \in Proc : status'[p] = IF p = next THEN "RUNNING"
                                         ELSE IF p \in {} THEN "READY" ELSE s.status[p]
        BY <4>2
      <4>7. {} \in SUBSET Task
        OBVIOUS
      <4> QED BY <3>2, <4>2, <4>3, <4>5, <4>6, <4>7
    <3> QED BY <3>1, <3>2
  <2> HIDE DEF rq, next
  <2>5. \A p \in Proc : /\ p = next => status'[p] = "RUNNING"
                        /\ p # next /\ p \in back => status'[p] = "READY" /\ s.status[p] = "RUNNING"
                        /\ p # next /\ p \notin back => status'[p] = s.status[p]
    BY <2>4
  <2>6. \A p \in Proc : status'[p] = "RUNNING" => p = next
    BY <2>4, <2>5
  <2>7. status' \in [Proc -> Status]
    BY <2>4, <1>1 DEF Status
  <2>8. ListsDisjoint(queue')
    <3>1. \A t \in ToSet(queue'[ready_queue]) : \A x \in WaitQueue : t \notin ToSet(queue'[x])
      <4> SUFFICES ASSUME NEW t \in ToSet(queue'[ready_queue]), NEW x \in WaitQueue
                   PROVE  t \notin ToSet(s.queue[x])
        BY <2>4
      <4>1. CASE t \in ToSet(rq)
        <5>1. x \in Queue /\ ready_queue \in Queue /\ x # ready_queue
          BY <1>1 DEF WaitQueue
        <5>2. ListsDisjoint(s.queue)
          BY DEF Sound
        <5>3. ToSet(s.queue[x]) \cap ToSet(s.queue[ready_queue]) = {}
          BY <5>1, <5>2 DEF ListsDisjoint
        <5> QED BY <4>1, <5>3 DEF rq
      <4>2. CASE t \in back
        <5>1. t = cur /\ s.status[cur] = "RUNNING"
          BY <4>2, <2>4
        <5>2. \A u \in ToSet(s.queue[x]) : s.status[u] \in {"BLOCKED", "EXITED"}
          BY DEF Sound, Placed
        <5> QED BY <5>1, <5>2
      <4> QED BY <4>1, <4>2, <2>4
    <3>2. ListsDisjoint(s.queue) /\ WaitQueue \subseteq Queue /\ Queue = WaitQueue \cup {ready_queue}
      BY <1>1 DEF Sound, WaitQueue
    <3>3. \A x \in WaitQueue : IsInjective(queue'[x])
      BY <3>2, <2>4 DEF ListsDisjoint
    <3>4. \A x, y \in WaitQueue : x # y => ToSet(queue'[x]) \cap ToSet(queue'[y]) = {}
      BY <3>2, <2>4 DEF ListsDisjoint
    <3>5. \A x \in WaitQueue : ToSet(queue'[x]) \cap ToSet(queue'[ready_queue]) = {}
      BY <3>1
    <3> QED BY <3>2, <3>3, <3>4, <3>5, <2>4 DEF ListsDisjoint
  <2>9. \A t \in Task : status'[t] = "READY" <=> t \in ToSet(queue'[ready_queue])
    <3> SUFFICES ASSUME NEW t \in Task
                 PROVE  status'[t] = "READY" <=> t \in (ToSet(rq) \ {next}) \cup back
      BY <2>4
    <3>1. s.status[t] = "READY" <=> t \in ToSet(rq)
      BY DEF Sound, Placed, rq
    <3>2. next \notin back
      BY <2>2, <2>4
    <3> QED BY <3>1, <3>2, <2>5, <1>1
  <2>10. \A t \in Task : status'[t] = "BLOCKED" =>
           \E x \in WaitQueue : t \in ToSet(queue'[x])
    <3> SUFFICES ASSUME NEW t \in Task, status'[t] = "BLOCKED"
                 PROVE  \E x \in WaitQueue : t \in ToSet(queue'[x])
      OBVIOUS
    <3>1. s.status[t] = "BLOCKED"
      BY <2>5, <1>1
    <3>2. PICK x \in WaitQueue : t \in ToSet(s.queue[x])
      BY <3>1 DEF Sound, Placed
    <3> QED BY <3>2, <2>4
  <2>11. \A x \in WaitQueue : \A t \in ToSet(queue'[x]) : status'[t] \in {"BLOCKED", "EXITED"}
    <3> SUFFICES ASSUME NEW x \in WaitQueue, NEW t \in ToSet(s.queue[x])
                 PROVE  status'[t] \in {"BLOCKED", "EXITED"}
      BY <2>4
    <3>1. t \in Task /\ t \in Proc
      BY <1>1 DEF ToSet, WaitQueue
    <3>2. s.status[t] \in {"BLOCKED", "EXITED"}
      BY DEF Sound, Placed
    <3> QED BY <3>1, <3>2, <2>2, <2>5
  <2>12. status'[pid0] = "BLOCKED"
    BY <1>1, <2>1, <2>5 DEF Proc
  <2>13. Sound(Kern)'
    BY <1>2, <2>4, <2>7, <2>8, <2>9, <2>10, <2>11, <2>12 DEF Sound, Placed, Kernels
  <2> QED BY <2>1, <2>2, <2>3, <2>4, <2>5, <2>6, <2>13, <1>4 DEF rq
<1> QED BY <1>3, <1>4 DEF Dispatch

(***************************************************************************)
(* A whole call of do_scheduler, from the state s its caller leaves.       *)
(***************************************************************************)
LEMMA SchedulerSound ==
  ASSUME NEW s, Sound(s), NEW wk, NEW tm \in 0..TimerInterval,
         current_running \in Proc, ticks \in Nat,
         \A p \in Proc : s.status[p] = "RUNNING" => current_running = p,
         s.status[current_running] # "READY",
         do_scheduler(s, wk, tm)
  PROVE  /\ Sound(Kern)'
         /\ current_running' \in Proc
         /\ ticks' \in Nat /\ timer' \in 0..TimerInterval
         /\ \A p \in Proc : status'[p] = "RUNNING" => current_running' = p
         /\ status'[current_running'] # "READY"
         /\ s.queue[ready_queue] # <<>> \/ s.status[current_running] = "RUNNING" =>
              current_running' \in Proc /\ status'[current_running'] = "RUNNING"
         /\ \A p \in Proc : s.status[p] \in {"READY", "RUNNING"} => status'[p] \in {"READY", "RUNNING"}
<1>1. PICK k \in 1..(Len(s.queue[sleep_queue]) + 1) :
        /\ ticks' = IF Late(s, k) THEN ticks + 1 ELSE ticks
        /\ timer' = IF Late(s, k) /\ tm > 0 THEN tm - 1 ELSE tm
        /\ Dispatch(check_sleeping(s, wk, k))
  BY DEF do_scheduler
<1>2. ticks' \in Nat /\ timer' \in 0..TimerInterval
  BY <1>1, SchedAssumption
<1> DEFINE w == check_sleeping(s, wk, k)
<1>3. /\ Sound(w)
      /\ \A p \in Proc : w.status[p] = "RUNNING" <=> s.status[p] = "RUNNING"
      /\ s.queue[ready_queue] # <<>> => w.queue[ready_queue] # <<>>
      /\ \A p \in Proc : w.status[p] = s.status[p] \/ w.queue[ready_queue] # <<>>
  BY WakeSound
<1>4. \A p \in Proc : s.status[p] \in {"READY", "RUNNING"} => w.status[p] \in {"READY", "RUNNING"}
  BY ReadyStaysReady
<1> HIDE DEF w
<1>5. /\ Sound(Kern)'
      /\ current_running' \in Proc
      /\ \A p \in Proc : status'[p] = "RUNNING" => current_running' = p
      /\ w.queue[ready_queue] # <<>> =>
           current_running' \in Task /\ status'[current_running'] = "RUNNING"
      /\ w.queue[ready_queue] = <<>> =>
           current_running' = current_running /\ status' = w.status
      /\ \A p \in Proc : w.status[p] \in {"READY", "RUNNING"} => status'[p] \in {"READY", "RUNNING"}
  BY <1>1, <1>3, DispatchSound DEF w
<1>6. /\ status'[current_running'] # "READY"
      /\ s.queue[ready_queue] # <<>> \/ s.status[current_running] = "RUNNING" =>
           status'[current_running'] = "RUNNING"
  BY <1>3, <1>5
<1> QED BY <1>2, <1>4, <1>5, <1>6

-----------------------------------------------------------------------
\* The inductive invariant of the scheduler by itself.
SchedInv ==
  /\ SchedTypeOK
  /\ NoTaskLost
  /\ status[pid0] = "BLOCKED"
  /\ status[current_running] # "READY"

LEMMA SchedInvSound ==
  ASSUME SchedInv PROVE Sound(Kern)
BY DEF SchedInv, SchedTypeOK, NoTaskLost, Sound, Kernels, Kern

LEMMA SoundSchedInv ==
  ASSUME Sound(Kern)', current_running' \in Proc, ticks' \in Nat,
         timer' \in 0..TimerInterval, wakeup_time' \in [Task -> Nat],
         \A p \in Proc : status'[p] = "RUNNING" => current_running' = p,
         status'[current_running'] # "READY"
  PROVE  SchedInv'
BY DEF SchedInv, SchedTypeOK, NoTaskLost, Sound, Kernels, Kern

LEMMA SchedInitInv ==
  ASSUME SchedInit PROVE SchedInv
<1> USE SchedAssumption DEF SchedInit
<1> DEFINE rq == [i \in Task |-> i]
<1>1. /\ rq \in Seq(Task) /\ DOMAIN rq = Task /\ IsInjective(rq)
      /\ ToSet(rq) = Task
  BY DEF Task, IsInjective, ToSet
<1>2. <<>> \in Seq(Task) /\ ToSet(<<>>) = {} /\ IsInjective(<<>>)
  BY DEF ToSet, IsInjective
<1>3. /\ queue \in [Queue -> Seq(Task)]
      /\ queue[ready_queue] = rq
      /\ \A x \in WaitQueue : queue[x] = <<>>
      /\ ready_queue \in Queue
  BY <1>1, <1>2 DEF Queue, WaitQueue
<1>4. /\ status \in [Proc -> Status] /\ status[pid0] = "BLOCKED"
      /\ \A t \in Task : status[t] = "READY"
  BY DEF Proc, Status, Task, pid0
<1> HIDE DEF rq
<1>5. ListsDisjoint(queue)
  BY <1>1, <1>2, <1>3 DEF ListsDisjoint, WaitQueue
<1>6. Placed(Kern)
  BY <1>1, <1>2, <1>3, <1>4 DEF Placed, Kern
<1>7. SchedTypeOK
  BY <1>3, <1>4 DEF SchedTypeOK, Proc
<1> QED BY <1>4, <1>5, <1>6, <1>7 DEF SchedInv, NoTaskLost, Proc

LEMMA SchedStepInv ==
  ASSUME SchedInv, [SchedStep]_schedVars PROVE SchedInv'
<1> USE DEF SchedInv
<1>0. /\ Sound(Kern) /\ Kern.status = status /\ Kern.queue = queue
      /\ \A p \in Proc : status[p] = "RUNNING" => current_running = p
      /\ SchedTypeOK /\ Task \subseteq Proc /\ pid0 \notin Task
      /\ TimerInterval \in 0..TimerInterval
      /\ sleep_queue \in WaitQueue
  BY SchedInvSound, SchedAssumption DEF Kern, NoTaskLost, Proc, Task, pid0, WaitQueue, Queue
<1>1. ASSUME NEW t \in Task, Yield(t) PROVE SchedInv'
  <2>1. do_scheduler(Kern, wakeup_time, timer) /\ UNCHANGED wakeup_time
    BY <1>1 DEF Yield
  <2> QED BY <1>0, <2>1, SchedulerSound, SoundSchedInv DEF SchedTypeOK
<1>2. ASSUME NEW t \in Task, NEW n \in 0..MaxSleep, Sleep(t, n) PROVE SchedInv'
  <2> DEFINE b == do_block(Kern, t, sleep_queue)
             wk == [wakeup_time EXCEPT ![t] = get_timer(ticks) + n]
  <2>1. /\ current_running = t /\ wakeup_time' = wk
        /\ do_scheduler(b, wk, timer)
    BY <1>2 DEF Sleep, Calls
  <2>2. Sound(b) /\ b.status = [status EXCEPT ![t] = "BLOCKED"]
    BY <1>0, BlockSound
  <2>3. /\ \A p \in Proc : b.status[p] = "RUNNING" => current_running = p
        /\ b.status[current_running] # "READY"
    BY <1>0, <2>1, <2>2 DEF SchedTypeOK
  <2>4. get_timer(ticks) \in Nat
    BY <1>0, GetTimerNat DEF SchedTypeOK
  <2>5. get_timer(ticks) + n \in Nat
    BY <2>4, SchedAssumption
  <2>6. wk \in [Task -> Nat]
    BY <1>0, <2>5 DEF SchedTypeOK
  <2> HIDE DEF b, wk
  <2> QED BY <1>0, <2>1, <2>2, <2>3, <2>6, SchedulerSound, SoundSchedInv DEF SchedTypeOK
<1>3. ASSUME NEW t \in Task, Exit(t) PROVE SchedInv'
  <2> DEFINE e == [status |-> [status EXCEPT ![t] = "EXITED"], queue |-> queue]
  <2>1. /\ current_running = t /\ UNCHANGED wakeup_time
        /\ do_scheduler(e, wakeup_time, timer)
    BY <1>3 DEF Exit, Calls
  <2>2. Sound(e) /\ e.status = [status EXCEPT ![t] = "EXITED"]
    BY <1>0, <2>1, ExitSound DEF SchedTypeOK
  <2>3. /\ \A p \in Proc : e.status[p] = "RUNNING" => current_running = p
        /\ e.status[current_running] # "READY"
    BY <1>0, <2>1, <2>2 DEF SchedTypeOK
  <2> HIDE DEF e
  <2> QED BY <1>0, <2>1, <2>2, <2>3, SchedulerSound, SoundSchedInv DEF SchedTypeOK
<1>4. CASE TimerInterrupt
  <2>1. do_scheduler(Kern, wakeup_time, TimerInterval) /\ UNCHANGED wakeup_time
    BY <1>4 DEF TimerInterrupt
  <2> QED BY <1>0, <2>1, SchedulerSound, SoundSchedInv DEF SchedTypeOK
<1>5. CASE Tick
  BY <1>0, <1>5, SchedAssumption DEF Tick, SchedTypeOK, NoTaskLost, Placed, Kern
<1>6. CASE UNCHANGED schedVars
  BY <1>6 DEF schedVars, SchedTypeOK, NoTaskLost, Placed, Kern
<1> QED BY <1>1, <1>2, <1>3, <1>4, <1>5, <1>6 DEF SchedStep

(***************************************************************************)
(* For any number of tasks, whatever they call and whenever the timer      *)
(* fires: the state stays well typed, no list of the kernel is damaged and *)
(* no task is lost from them (do_scheduler, do_sleep, do_exit,             *)
(* check_sleeping and handle_irq_timer).                                   *)
(***************************************************************************)
THEOREM SchedInvariant == SchedSpec => []SchedInv
<1>1. SchedInit => SchedInv
  BY SchedInitInv
<1>2. SchedInv /\ [SchedStep]_schedVars => SchedInv'
  BY SchedStepInv
<1> QED BY <1>1, <1>2, PTL DEF SchedSpec

\* Every call and interrupt leaves current_running on a PCB and the lists with
\* tasks only.
THEOREM SchedTypeCorrect == SchedSpec => []SchedTypeOK
<1>1. SchedInv => SchedTypeOK
  BY DEF SchedInv
<1> QED BY <1>1, SchedInvariant, PTL

\* do_block, do_unblock, check_sleeping and do_scheduler keep every task that
\* does not run in the one list its status says, and in no other.
THEOREM SchedLosesNoTask == SchedSpec => []NoTaskLost
<1>1. SchedInv => NoTaskLost
  BY DEF SchedInv
<1> QED BY <1>1, SchedInvariant, PTL

-----------------------------------------------------------------------
\* The tasks that wait in old and in new wait in the same order, newcomers last.
KeepsOrder(old, new) ==
  \A t \in ToSet(old) \cap ToSet(new) : \A u \in ToSet(new) \ {t} :
    u \notin ToSet(old) \/ Before(old, t, u) => Before(new, t, u)

\* c begins with q.
Begins(q, c) == \A i \in DOMAIN q : i \in DOMAIN c /\ c[i] = q[i]

(***************************************************************************)
(* A queue that is added to at its tail, and loses at most its head, keeps *)
(* the order.                                                              *)
(***************************************************************************)
LEMMA TailAddsKeepOrder ==
  ASSUME NEW T, NEW q \in Seq(T), NEW c \in Seq(T), IsInjective(c), Begins(q, c)
  PROVE  KeepsOrder(q, c) /\ (c # <<>> => KeepsOrder(q, Tail(c)))
<1>1. /\ DOMAIN q = 1..Len(q) /\ Len(q) \in Nat
      /\ DOMAIN c = 1..Len(c) /\ Len(c) \in Nat
  OBVIOUS
<1>2. ASSUME NEW t \in ToSet(q), NEW u \in ToSet(c), u # t,
             u \notin ToSet(q) \/ Before(q, t, u)
      PROVE  \E i, j \in DOMAIN c : i < j /\ c[i] = t /\ c[j] = u
  <2>1. CASE Before(q, t, u)
    BY <2>1 DEF Before, Begins
  <2>2. CASE u \notin ToSet(q)
    <3>1. PICK i \in DOMAIN q : q[i] = t
      BY DEF ToSet
    <3>2. PICK j \in DOMAIN c : c[j] = u
      BY DEF ToSet
    <3>3. j \notin DOMAIN q
      BY <2>2, <3>2 DEF ToSet, Begins
    <3>4. i < j
      BY <3>3, <1>1
    <3> QED BY <3>1, <3>2, <3>4 DEF Begins
  <2> QED BY <1>2, <2>1, <2>2
<1>3. KeepsOrder(q, c)
  BY <1>2 DEF KeepsOrder, Before
<1>4. ASSUME c # <<>> PROVE KeepsOrder(q, Tail(c))
  <2> DEFINE d == Tail(c)
  <2>1. /\ DOMAIN d = 1..(Len(c) - 1)
        /\ \A i \in 1..(Len(c) - 1) : d[i] = c[i + 1]
    BY <1>4, HeadTailProperties
  <2> HIDE DEF d
  <2>2. \A i \in DOMAIN d : i + 1 \in DOMAIN c /\ i + 1 # 1 /\ c[i + 1] = d[i]
    BY <2>1, <1>1
  <2>3. \A i \in DOMAIN c : i # 1 => i - 1 \in DOMAIN d /\ d[i - 1] = c[i]
    BY <2>1, <1>1
  <2>4. ToSet(d) \subseteq ToSet(c) /\ \A i \in DOMAIN c : c[i] \in ToSet(d) => i # 1
    BY <2>2 DEF ToSet, IsInjective
  <2>5. ASSUME NEW t \in ToSet(q) \cap ToSet(d), NEW u \in ToSet(d) \ {t},
               u \notin ToSet(q) \/ Before(q, t, u)
        PROVE  Before(d, t, u)
    <3>1. PICK i \in DOMAIN c, j \in DOMAIN c : i < j /\ c[i] = t /\ c[j] = u
      BY <1>2, <2>4, <2>5
    <3>2. i # 1 /\ j # 1
      BY <2>4, <3>1
    <3>3. /\ i - 1 \in DOMAIN d /\ d[i - 1] = t
          /\ j - 1 \in DOMAIN d /\ d[j - 1] = u
      BY <2>3, <3>1, <3>2
    <3>4. i - 1 < j - 1
      BY <3>1, <1>1
    <3> QED BY <3>3, <3>4 DEF Before
  <2> QED BY <2>5 DEF KeepsOrder, d
<1> QED BY <1>3, <1>4

LEMMA CheckAddsAtTail ==
  ASSUME NEW s, Sound(s), NEW wk, NEW k
  PROVE  Begins(s.queue[ready_queue], check_sleeping(s, wk, k).queue[ready_queue])
<1> DEFINE q   == s.queue[sleep_queue]
           expired == Due(s, wk, k)
           rq  == s.queue[ready_queue]
           woken == Pick(q, expired)
<1>1. /\ s.queue \in [Queue -> Seq(Task)] /\ ready_queue \in Queue
      /\ q \in Seq(Task) /\ rq \in Seq(Task) /\ sleep_queue # ready_queue
  BY SchedAssumption DEF Sound, Kernels, Queue
<1>2. check_sleeping(s, wk, k).queue[ready_queue] = rq \o woken
  BY <1>1 DEF check_sleeping
<1>3. woken \in Seq(Task)
  <2>1. expired \in SUBSET DOMAIN q
    BY DEF Due
  <2> HIDE DEF q, expired
  <2> QED BY <1>1, <2>1, PickProperties
<1> HIDE DEF woken, rq
<1>4. /\ Len(rq \o woken) = Len(rq) + Len(woken)
      /\ \A i \in 1..(Len(rq) + Len(woken)) :
           (rq \o woken)[i] = IF i <= Len(rq) THEN rq[i] ELSE woken[i - Len(rq)]
      /\ rq \o woken \in Seq(Task)
  BY <1>1, <1>3, ConcatProperties
<1>5. Begins(rq, rq \o woken)
  <2>1. /\ DOMAIN rq = 1..Len(rq) /\ Len(rq) \in Nat /\ Len(woken) \in Nat
        /\ DOMAIN (rq \o woken) = 1..(Len(rq) + Len(woken))
    BY <1>1, <1>3, <1>4
  <2> DEFINE c == rq \o woken
  <2> HIDE DEF c
  <2> QED BY <1>4, <2>1 DEF Begins, c
<1> QED BY <1>2, <1>5 DEF rq

LEMMA SchedulerKeepsOrder ==
  ASSUME NEW s, Sound(s), NEW wk, NEW tm, current_running \in Proc,
         \A p \in Proc : s.status[p] = "RUNNING" => current_running = p,
         do_scheduler(s, wk, tm)
  PROVE  KeepsOrder(s.queue[ready_queue], queue'[ready_queue])
<1>1. PICK k \in 1..(Len(s.queue[sleep_queue]) + 1) : Dispatch(check_sleeping(s, wk, k))
  BY DEF do_scheduler
<1> DEFINE w  == check_sleeping(s, wk, k)
           rq == s.queue[ready_queue]
           c  == w.queue[ready_queue]
<1>2. Sound(w) /\ Begins(rq, c)
  BY WakeSound, CheckAddsAtTail
<1> HIDE DEF w
<1>3. /\ w.queue \in [Queue -> Seq(Task)] /\ ready_queue \in Queue
      /\ rq \in Seq(Task) /\ c \in Seq(Task) /\ IsInjective(c)
      /\ w.status[pid0] = "BLOCKED"
  BY <1>2 DEF Sound, Kernels, ListsDisjoint, Queue
<1> HIDE DEF c, rq
<1>4. CASE queue' = w.queue
  BY <1>2, <1>3, <1>4, TailAddsKeepOrder DEF c, rq
<1>5. CASE /\ c # <<>> /\ ~Preempts(w)
           /\ queue' = [w.queue EXCEPT ![ready_queue] = Tail(@)]
  <2>1. queue'[ready_queue] = Tail(c)
    BY <1>3, <1>5 DEF c
  <2> QED BY <1>2, <1>3, <1>5, <2>1, TailAddsKeepOrder DEF rq
<1>6. CASE /\ c # <<>> /\ Preempts(w)
           /\ queue' = [w.queue EXCEPT ![ready_queue] = Tail(Append(@, current_running))]
  <2> DEFINE cur == current_running
             d   == Append(c, cur)
  <2>1. cur \in Task
    BY <1>3, <1>6 DEF Preempts, Proc
  <2>2. cur \notin ToSet(c)
    BY <1>2, <1>6, <2>1 DEF Preempts, Sound, Placed, c
  <2>3. queue'[ready_queue] = Tail(d)
    BY <1>3, <1>6 DEF c
  <2> HIDE DEF cur
  <2>4. d \in Seq(Task) /\ IsInjective(d) /\ d # <<>>
    BY <1>3, <2>1, <2>2, AppendQueue
  <2>5. Begins(c, d)
    <3>1. /\ DOMAIN d = 1..(Len(c) + 1) /\ DOMAIN c = 1..Len(c) /\ Len(c) \in Nat
          /\ \A i \in 1..Len(c) : d[i] = c[i]
      BY <1>3, <2>1, AppendProperties
    <3> HIDE DEF d
    <3> QED BY <3>1 DEF Begins
  <2> HIDE DEF d
  <2>6. Begins(rq, d)
    BY <1>2, <2>5 DEF Begins
  <2> QED BY <1>3, <2>3, <2>4, <2>6, TailAddsKeepOrder DEF rq
<1> QED BY <1>1, <1>4, <1>5, <1>6 DEF Dispatch, w, c

(***************************************************************************)
(* A task that waits in the ready queue is not overtaken there: whatever   *)
(* do_scheduler, check_sleeping, do_sleep and do_exit do, those behind it  *)
(* and those that come later stay behind it.                               *)
(***************************************************************************)
LEMMA OrderStep ==
  ASSUME SchedInv, [SchedStep]_schedVars
  PROVE  KeepsOrder(queue[ready_queue], queue'[ready_queue])
<1>0. /\ Sound(Kern) /\ Kern.status = status /\ Kern.queue = queue
      /\ \A p \in Proc : status[p] = "RUNNING" => current_running = p
      /\ current_running \in Proc /\ status \in [Proc -> Status]
      /\ status[current_running] # "READY"
      /\ Task \subseteq Proc
      /\ sleep_queue \in WaitQueue /\ ready_queue \in Queue
  <2>1. Sound(Kern)
    BY SchedInvSound
  <2> QED BY <2>1, SchedAssumption
          DEF SchedInv, SchedTypeOK, NoTaskLost, Kern, Proc, WaitQueue, Queue
<1>1. ASSUME NEW tm, do_scheduler(Kern, wakeup_time, tm)
      PROVE  KeepsOrder(queue[ready_queue], queue'[ready_queue])
  BY <1>0, <1>1, SchedulerKeepsOrder
<1>2. ASSUME NEW t \in Task, Yield(t)
      PROVE  KeepsOrder(queue[ready_queue], queue'[ready_queue])
  BY <1>1, <1>2 DEF Yield
<1>3. CASE TimerInterrupt
  BY <1>1, <1>3 DEF TimerInterrupt
<1>4. ASSUME NEW t \in Task, NEW n \in 0..MaxSleep, Sleep(t, n)
      PROVE  KeepsOrder(queue[ready_queue], queue'[ready_queue])
  <2> DEFINE b  == do_block(Kern, t, sleep_queue)
             wk == [wakeup_time EXCEPT ![t] = get_timer(ticks) + n]
  <2>1. current_running = t /\ do_scheduler(b, wk, timer)
    BY <1>4 DEF Sleep, Calls
  <2>2. Sound(b) /\ b.status = [status EXCEPT ![t] = "BLOCKED"]
    BY <1>0, BlockSound
  <2>3. b.queue[ready_queue] = Without(queue[ready_queue], t)
    BY <1>0, SchedAssumption DEF do_block, list_move_tail, WaitQueue
  <2>4. queue[ready_queue] \in Seq(Task) /\ t \notin ToSet(queue[ready_queue])
    BY <1>0, <2>1 DEF Sound, Kernels, Placed
  <2>5. b.queue[ready_queue] = queue[ready_queue]
    BY <2>3, <2>4, WithoutAbsent
  <2> HIDE DEF b, wk
  <2>6. \A p \in Proc : b.status[p] = "RUNNING" => current_running = p
    BY <1>0, <2>1, <2>2
  <2> QED BY <1>0, <2>1, <2>2, <2>5, <2>6, SchedulerKeepsOrder
<1>5. ASSUME NEW t \in Task, Exit(t)
      PROVE  KeepsOrder(queue[ready_queue], queue'[ready_queue])
  <2> DEFINE e == [status |-> [status EXCEPT ![t] = "EXITED"], queue |-> queue]
  <2>1. current_running = t /\ do_scheduler(e, wakeup_time, timer)
    BY <1>5 DEF Exit, Calls
  <2>2. Sound(e) /\ e.status = [status EXCEPT ![t] = "EXITED"] /\ e.queue = queue
    BY <1>0, <2>1, ExitSound
  <2> HIDE DEF e
  <2>3. \A p \in Proc : e.status[p] = "RUNNING" => current_running = p
    BY <1>0, <2>1, <2>2
  <2> QED BY <1>0, <2>1, <2>2, <2>3, SchedulerKeepsOrder
<1>6. CASE queue' = queue
  BY <1>6 DEF KeepsOrder
<1> QED BY <1>2, <1>3, <1>4, <1>5, <1>6 DEF SchedStep, Tick, schedVars

\* The order in which do_scheduler hands out the processor is the order of
\* arrival: list_add_tail is the only way into the ready queue, its head the
\* only way out.
THEOREM SchedFirstComeFirstServed == SchedSpec => NoOvertaking
<1>1. SchedInv /\ [SchedStep]_schedVars =>
        [LET old == queue[ready_queue]
             new == queue'[ready_queue]
         IN  \A t \in ToSet(old) \cap ToSet(new) : \A u \in ToSet(new) \ {t} :
               u \notin ToSet(old) \/ Before(old, t, u) => Before(new, t, u)]_schedVars
  BY OrderStep DEF KeepsOrder
<1> QED BY <1>1, SchedInvariant, PTL DEF SchedSpec, NoOvertaking

-----------------------------------------------------------------------
(***************************************************************************)
(* The scheduler while some task neither sleeps nor exits: do_scheduler    *)
(* then never returns to a caller that has just given up the processor.    *)
(* That such a task exists is an assumption of each theorem below; without *)
(* it they are false.                                                      *)
(***************************************************************************)

\* The task that is current runs, and a spinner is always ready or running.
SpinInv ==
  /\ SchedInv
  /\ CurrentRuns
  /\ \A u \in Spinners : status[u] \in {"READY", "RUNNING"}

\* A task that has exited is linked nowhere.
Gone(s) ==
  \A t \in Task : s.status[t] = "EXITED" =>
    \A x \in WaitQueue : t \notin ToSet(s.queue[x])

-----------------------------------------------------------------------
(***************************************************************************)
(* While u is ready or running, do_scheduler finds something to run.       *)
(***************************************************************************)
LEMMA SchedulerGoesOn ==
  ASSUME NEW s, Sound(s), NEW wk, NEW tm \in 0..TimerInterval,
         current_running \in Proc, ticks \in Nat,
         \A p \in Proc : s.status[p] = "RUNNING" => current_running = p,
         s.status[current_running] # "READY",
         NEW u \in Task, s.status[u] \in {"READY", "RUNNING"},
         do_scheduler(s, wk, tm)
  PROVE  status'[current_running'] = "RUNNING"
<1>1. u \in Proc
  BY DEF Proc
<1>2. CASE s.status[u] = "RUNNING"
  BY <1>1, <1>2, SchedulerSound
<1>3. CASE s.status[u] = "READY"
  <2>1. u \in ToSet(s.queue[ready_queue])
    BY <1>3 DEF Sound, Placed
  <2>2. s.queue[ready_queue] # <<>>
    BY <2>1 DEF ToSet
  <2> QED BY <2>2, SchedulerSound
<1> QED BY <1>2, <1>3

(***************************************************************************)
(* One call of do_scheduler keeps tasks that do not wait going, and runs a *)
(* task that may run.                                                      *)
(***************************************************************************)
LEMMA SchedulerKeepsGoing ==
  ASSUME NEW U \in SUBSET Task, U # {},
         NEW s, Sound(s), NEW wk, NEW tm \in 0..TimerInterval,
         current_running \in Proc, ticks \in Nat,
         \A p \in Proc : s.status[p] = "RUNNING" => current_running = p,
         s.status[current_running] # "READY",
         \A u \in U : s.status[u] \in {"READY", "RUNNING"},
         do_scheduler(s, wk, tm)
  PROVE  CurrentRuns' /\ \A u \in U : status'[u] \in {"READY", "RUNNING"}
<1>1. PICK u \in U : s.status[u] \in {"READY", "RUNNING"}
  OBVIOUS
<1>2. u \in Task /\ U \subseteq Proc
  BY DEF Proc
<1>3. status'[current_running'] = "RUNNING"
  BY <1>1, <1>2, SchedulerGoesOn
<1>4. \A v \in U : status'[v] \in {"READY", "RUNNING"}
  BY <1>2, SchedulerSound
<1> QED BY <1>3, <1>4 DEF CurrentRuns

(***************************************************************************)
(* No step of the scheduler leaves the processor with a task that waits,   *)
(* as long as some of the spinners, U, never wait for another reason.      *)
(***************************************************************************)
LEMMA HonestStep ==
  ASSUME NEW U \in SUBSET Spinners, U # {},
         SchedInv, CurrentRuns, \A u \in U : status[u] \in {"READY", "RUNNING"},
         [SchedStep]_schedVars
  PROVE  SchedInv' /\ CurrentRuns' /\ \A u \in U : status'[u] \in {"READY", "RUNNING"}
<1> DEFINE Honest == CurrentRuns' /\ \A u \in U : status'[u] \in {"READY", "RUNNING"}
<1>0. /\ SchedInv' /\ Sound(Kern) /\ Kern.status = status /\ Kern.queue = queue
      /\ \A p \in Proc : status[p] = "RUNNING" => current_running = p
      /\ status[current_running] # "READY"
      /\ current_running \in Proc /\ ticks \in Nat /\ timer \in 0..TimerInterval
      /\ status \in [Proc -> Status]
      /\ TimerInterval \in 0..TimerInterval
      /\ Task \subseteq Proc /\ U \subseteq Task
      /\ sleep_queue \in WaitQueue
  BY SchedStepInv, SchedInvSound, SchedAssumption
  DEF SchedInv, SchedTypeOK, NoTaskLost, Kern, Proc, Spinners, WaitQueue, Queue
<1>1. ASSUME NEW t \in Task, Yield(t) PROVE Honest
  <2>1. do_scheduler(Kern, wakeup_time, timer)
    BY <1>1 DEF Yield
  <2> QED BY <1>0, <2>1, SchedulerKeepsGoing
<1>2. ASSUME NEW t \in Task, NEW n \in 0..MaxSleep, Sleep(t, n) PROVE Honest
  <2> DEFINE b == do_block(Kern, t, sleep_queue)
             wk == [wakeup_time EXCEPT ![t] = get_timer(ticks) + n]
  <2>1. current_running = t /\ t \notin U /\ do_scheduler(b, wk, timer)
    BY <1>2 DEF Sleep, Calls, Spinners
  <2>2. Sound(b) /\ b.status = [status EXCEPT ![t] = "BLOCKED"]
    BY <1>0, BlockSound
  <2>3. /\ \A p \in Proc : b.status[p] = "RUNNING" => current_running = p
        /\ b.status[current_running] # "READY"
        /\ \A u \in U : b.status[u] \in {"READY", "RUNNING"}
    BY <1>0, <2>1, <2>2
  <2> HIDE DEF b, wk
  <2> QED BY <1>0, <2>1, <2>2, <2>3, SchedulerKeepsGoing
<1>3. ASSUME NEW t \in Task, Exit(t) PROVE Honest
  <2> DEFINE e == [status |-> [status EXCEPT ![t] = "EXITED"], queue |-> queue]
  <2>1. current_running = t /\ t \notin U /\ do_scheduler(e, wakeup_time, timer)
    BY <1>3 DEF Exit, Calls, Spinners
  <2>2. Sound(e) /\ e.status = [status EXCEPT ![t] = "EXITED"]
    BY <1>0, <2>1, ExitSound
  <2>3. /\ \A p \in Proc : e.status[p] = "RUNNING" => current_running = p
        /\ e.status[current_running] # "READY"
        /\ \A u \in U : e.status[u] \in {"READY", "RUNNING"}
    BY <1>0, <2>1, <2>2
  <2> HIDE DEF e
  <2> QED BY <1>0, <2>1, <2>2, <2>3, SchedulerKeepsGoing
<1>4. CASE TimerInterrupt
  <2>1. do_scheduler(Kern, wakeup_time, TimerInterval)
    BY <1>4 DEF TimerInterrupt
  <2> QED BY <1>0, <2>1, SchedulerKeepsGoing
<1>5. CASE Tick
  BY <1>0, <1>5 DEF Tick, CurrentRuns
<1>6. CASE UNCHANGED schedVars
  BY <1>0, <1>6 DEF schedVars, CurrentRuns
<1> QED BY <1>0, <1>1, <1>2, <1>3, <1>4, <1>5, <1>6 DEF SchedStep

LEMMA SpinStepInv ==
  ASSUME Spinners # {}, SpinInv, [SchedStep]_schedVars PROVE SpinInv'
BY HonestStep DEF SpinInv

LEMMA SpinInitInv ==
  ASSUME SchedInit PROVE SpinInv
BY SchedInitInv DEF SchedInit, SpinInv, CurrentRuns, Spinners, Proc, Task, pid0

(***************************************************************************)
(* While some task neither sleeps nor exits, the task that has the         *)
(* processor is running: do_scheduler never returns to a caller it has     *)
(* found blocked or exited.                                                *)
(***************************************************************************)
THEOREM SpinnersKeepOthersHonest ==
  ASSUME Spinners # {} PROVE SchedSpec => []CurrentRuns
<1>1. SchedInit => SpinInv
  BY SpinInitInv
<1>2. SpinInv /\ [SchedStep]_schedVars => SpinInv'
  BY SpinStepInv
<1>3. SpinInv => CurrentRuns
  BY DEF SpinInv
<1> QED BY <1>1, <1>2, <1>3, PTL DEF SchedSpec

-----------------------------------------------------------------------
(***************************************************************************)
(* check_sleeping neither wakes an exited task that is linked nowhere, nor *)
(* makes one exit.                                                         *)
(***************************************************************************)
LEMMA CheckKeepsGone ==
  ASSUME NEW s, Sound(s), Gone(s), NEW wk, NEW k
  PROVE  /\ \A t \in Task : check_sleeping(s, wk, k).status[t] = "EXITED"
                              <=> s.status[t] = "EXITED"
         /\ Gone(check_sleeping(s, wk, k))
<1> DEFINE q   == s.queue[sleep_queue]
           expired == Due(s, wk, k)
           w   == check_sleeping(s, wk, k)
<1>1. /\ expired \in SUBSET DOMAIN q /\ DOMAIN q \ expired \in SUBSET DOMAIN q
      /\ sleep_queue \in Queue /\ ready_queue # sleep_queue /\ sleep_queue \in WaitQueue
      /\ s.queue \in [Queue -> Seq(Task)] /\ q \in Seq(Task) /\ Task \subseteq Proc
      /\ WaitQueue \subseteq Queue
  BY SchedAssumption DEF Due, Queue, WaitQueue, Sound, Kernels, Proc
<1>2. /\ \A p \in Proc : w.status[p] = IF \E i \in expired : q[i] = p THEN "READY" ELSE s.status[p]
      /\ w.queue[sleep_queue] = Pick(q, DOMAIN q \ expired)
      /\ \A x \in WaitQueue \ {sleep_queue} : w.queue[x] = s.queue[x]
  BY <1>1 DEF check_sleeping, WaitQueue
<1>3. ToSet(Pick(q, DOMAIN q \ expired)) \subseteq ToSet(q)
  <2> HIDE DEF q, expired
  <2>1. ToSet(Pick(q, DOMAIN q \ expired)) = {q[i] : i \in DOMAIN q \ expired}
    BY <1>1, PickProperties
  <2> QED BY <2>1 DEF ToSet
<1>4. \A i \in expired : q[i] \in ToSet(q)
  BY <1>1 DEF ToSet
<1>5. \A x \in WaitQueue : ToSet(w.queue[x]) \subseteq ToSet(s.queue[x])
  BY <1>2, <1>3
<1>6. \A t \in Task : s.status[t] = "EXITED" => t \notin ToSet(q)
  BY <1>1 DEF Gone
<1> HIDE DEF q, expired, w
<1>7. \A t \in Task : w.status[t] = "EXITED" <=> s.status[t] = "EXITED"
  BY <1>1, <1>2, <1>4, <1>6
<1>8. Gone(w)
  BY <1>5, <1>7 DEF Gone
<1> QED BY <1>7, <1>8 DEF w

(***************************************************************************)
(* A whole call of do_scheduler leaves the set of exited tasks as it is.   *)
(***************************************************************************)
LEMMA SchedulerKeepsGone ==
  ASSUME NEW s, Sound(s), Gone(s), NEW wk, NEW tm,
         current_running \in Proc,
         \A p \in Proc : s.status[p] = "RUNNING" => current_running = p,
         do_scheduler(s, wk, tm)
  PROVE  /\ \A t \in Task : status'[t] = "EXITED" <=> s.status[t] = "EXITED"
         /\ Gone(Kern)'
<1>1. PICK k \in 1..(Len(s.queue[sleep_queue]) + 1) :
        Dispatch(check_sleeping(s, wk, k))
  BY DEF do_scheduler
<1> DEFINE w == check_sleeping(s, wk, k)
<1>2. /\ Sound(w) /\ Gone(w)
      /\ \A p \in Proc : w.status[p] = "RUNNING" <=> s.status[p] = "RUNNING"
      /\ \A t \in Task : w.status[t] = "EXITED" <=> s.status[t] = "EXITED"
  BY WakeSound, CheckKeepsGone
<1> HIDE DEF w
<1>3. /\ \A p \in Proc : w.status[p] \in {"BLOCKED", "EXITED"} => status'[p] = w.status[p]
      /\ \A p \in Proc : w.status[p] \in {"READY", "RUNNING"} => status'[p] \in {"READY", "RUNNING"}
      /\ \A x \in WaitQueue : queue'[x] = w.queue[x]
  BY <1>1, <1>2, DispatchSound DEF w
<1>4. \A t \in Task : t \in Proc /\ w.status[t] \in {"BLOCKED", "EXITED", "READY", "RUNNING"}
  BY <1>2 DEF Sound, Kernels, Status, Proc
<1>5. \A t \in Task : status'[t] = "EXITED" <=> w.status[t] = "EXITED"
  BY <1>3, <1>4
<1>6. Gone(Kern)'
  BY <1>2, <1>3, <1>5 DEF Gone, Kern
<1> QED BY <1>2, <1>5, <1>6

\* The inductive invariant behind ExitIsFinal.
ExitInv == SpinInv /\ Gone(Kern)

LEMMA ExitStep ==
  ASSUME Spinners # {}, ExitInv, [SchedStep]_schedVars
  PROVE  /\ ExitInv'
         /\ \A t \in Task : status[t] = "EXITED" \/ Exit(t) =>
              status'[t] = "EXITED" /\ current_running' # t
<1> USE DEF ExitInv
<1>0. /\ SpinInv'
      /\ Sound(Kern) /\ Gone(Kern) /\ Kern.status = status /\ Kern.queue = queue
      /\ \A p \in Proc : status[p] = "RUNNING" => current_running = p
      /\ current_running \in Proc /\ status \in [Proc -> Status]
      /\ Task \subseteq Proc /\ sleep_queue \in WaitQueue /\ pid0 \notin Task
  <2>1. SpinInv'
    BY SpinStepInv
  <2>2. SchedInv /\ Gone(Kern)
    BY DEF SpinInv
  <2>3. Sound(Kern) /\ Kern.status = status /\ Kern.queue = queue
    BY <2>2, SchedInvSound DEF Kern
  <2>4. /\ \A p \in Proc : status[p] = "RUNNING" => current_running = p
        /\ current_running \in Proc /\ status \in [Proc -> Status]
    BY <2>2 DEF SchedInv, SchedTypeOK, NoTaskLost
  <2>5. Task \subseteq Proc /\ sleep_queue \in WaitQueue /\ pid0 \notin Task
    BY SchedAssumption DEF Proc, Task, pid0, WaitQueue, Queue
  <2> QED BY <2>1, <2>2, <2>3, <2>4, <2>5
<1>a. \A t \in Task : Calls(t) => status[t] = "RUNNING"
  BY DEF SpinInv, CurrentRuns, Calls
<1>b. \A t \in Task : status[t] = "EXITED" => current_running # t
  BY DEF SpinInv, CurrentRuns
<1>c. \A t \in Task : status'[t] = "EXITED" => current_running' # t
  BY <1>0 DEF SpinInv, CurrentRuns
<1>1. ASSUME do_scheduler(Kern, wakeup_time, timer) \/ do_scheduler(Kern, wakeup_time, TimerInterval)
      PROVE  Gone(Kern)' /\ \A t \in Task : status[t] = "EXITED" <=> status'[t] = "EXITED"
  BY <1>0, <1>1, SchedulerKeepsGone
<1>2. ASSUME NEW t \in Task, Yield(t)
      PROVE  Gone(Kern)' /\ \A u \in Task : status[u] = "EXITED" => status'[u] = "EXITED"
  BY <1>1, <1>2 DEF Yield
<1>3. ASSUME TimerInterrupt
      PROVE  Gone(Kern)' /\ \A u \in Task : status[u] = "EXITED" => status'[u] = "EXITED"
  BY <1>1, <1>3 DEF TimerInterrupt
<1>4. ASSUME NEW t \in Task, NEW n \in 0..MaxSleep, Sleep(t, n)
      PROVE  Gone(Kern)' /\ \A u \in Task : status[u] = "EXITED" => status'[u] = "EXITED"
  <2> DEFINE b == do_block(Kern, t, sleep_queue)
             wk == [wakeup_time EXCEPT ![t] = get_timer(ticks) + n]
  <2>1. Calls(t) /\ do_scheduler(b, wk, timer)
    BY <1>4 DEF Sleep
  <2>2. Sound(b) /\ b.status = [status EXCEPT ![t] = "BLOCKED"]
    BY <1>0, BlockSound
  <2>3. status[t] = "RUNNING" /\ b.status[t] = "BLOCKED"
        /\ \A u \in Proc \ {t} : b.status[u] = status[u]
    BY <1>0, <1>a, <2>1, <2>2
  <2>4. \A x \in WaitQueue : ToSet(b.queue[x]) \subseteq ToSet(queue[x]) \cup {t}
    <3>1. /\ queue \in [Queue -> Seq(Task)] /\ sleep_queue \in Queue /\ WaitQueue \subseteq Queue
          /\ ListsDisjoint(queue)
      BY <1>0 DEF Sound, Kernels, WaitQueue
    <3>2. b.queue = list_move_tail(queue, t, sleep_queue)
      BY <1>0 DEF do_block
    <3> DEFINE qs == list_move_tail(queue, t, sleep_queue)
    <3> HIDE DEF b, wk
    <3>3. /\ ToSet(qs[sleep_queue]) = ToSet(queue[sleep_queue]) \cup {t}
          /\ \A y \in Queue \ {sleep_queue} : ToSet(qs[y]) = ToSet(queue[y]) \ {t}
      <4>1. Moved(queue, qs, t, sleep_queue)
        BY <3>1, MoveTail
      <4> HIDE DEF qs
      <4> QED BY <4>1 DEF Moved
    <3> HIDE DEF qs, b
    <3> QED BY <3>1, <3>2, <3>3 DEF qs
  <2> HIDE DEF b, wk
  <2>5. Gone(b)
    <3> SUFFICES ASSUME NEW u \in Task, b.status[u] = "EXITED", NEW x \in WaitQueue
                 PROVE  u \notin ToSet(b.queue[x])
      BY DEF Gone
    <3>1. u # t /\ status[u] = "EXITED"
      BY <1>0, <2>3
    <3> QED BY <1>0, <3>1, <2>4 DEF Gone
  <2>6. \A p \in Proc : b.status[p] = "RUNNING" => current_running = p
    BY <1>0, <2>3
  <2>7. Gone(Kern)' /\ \A u \in Task : status'[u] = "EXITED" <=> b.status[u] = "EXITED"
    BY <1>0, <2>1, <2>2, <2>5, <2>6, SchedulerKeepsGone
  <2> QED BY <1>0, <2>3, <2>7
<1>5. ASSUME NEW t \in Task, Exit(t)
      PROVE  /\ Gone(Kern)' /\ status'[t] = "EXITED"
             /\ \A u \in Task : status[u] = "EXITED" => status'[u] = "EXITED"
  <2> DEFINE e == [status |-> [status EXCEPT ![t] = "EXITED"], queue |-> queue]
  <2>1. Calls(t) /\ do_scheduler(e, wakeup_time, timer)
    BY <1>5 DEF Exit
  <2>2. status[t] = "RUNNING"
    BY <1>a, <2>1
  <2>3. Sound(e) /\ e.status = [status EXCEPT ![t] = "EXITED"] /\ e.queue = queue
    BY <1>0, <2>2, ExitSound
  <2> HIDE DEF e
  <2>4. e.status[t] = "EXITED" /\ \A u \in Proc \ {t} : e.status[u] = status[u]
    BY <1>0, <2>3
  <2>5. \A x \in WaitQueue : t \notin ToSet(queue[x])
    BY <1>0, <2>2 DEF Sound, Placed
  <2>6. Gone(e)
    BY <1>0, <2>3, <2>4, <2>5 DEF Gone
  <2>7. \A p \in Proc : e.status[p] = "RUNNING" => current_running = p
    BY <1>0, <2>4
  <2>8. Gone(Kern)' /\ \A u \in Task : status'[u] = "EXITED" <=> e.status[u] = "EXITED"
    BY <1>0, <2>1, <2>3, <2>6, <2>7, SchedulerKeepsGone
  <2> QED BY <1>0, <2>4, <2>8
<1>6. ASSUME Tick
      PROVE  Gone(Kern)' /\ \A u \in Task : status[u] = "EXITED" => status'[u] = "EXITED"
  BY <1>0, <1>6 DEF Tick, Gone, Kern
<1>7. ASSUME UNCHANGED schedVars
      PROVE  Gone(Kern)' /\ \A u \in Task : status[u] = "EXITED" => status'[u] = "EXITED"
  BY <1>0, <1>7 DEF schedVars, Gone, Kern
<1>8. Gone(Kern)' /\ \A u \in Task : status[u] = "EXITED" => status'[u] = "EXITED"
  BY <1>2, <1>3, <1>4, <1>5, <1>6, <1>7 DEF SchedStep
<1>9. \A t \in Task : Exit(t) => status'[t] = "EXITED"
  BY <1>5
<1> QED BY <1>0, <1>c, <1>8, <1>9

(***************************************************************************)
(* While some task neither sleeps nor exits, do_exit is final: the task is *)
(* never current again, and no wake-up, release or requeue revives it.     *)
(***************************************************************************)
THEOREM ExitsAreFinal ==
  ASSUME Spinners # {} PROVE SchedSpec => ExitIsFinal
<1>1. SchedInit => ExitInv
  BY SpinInitInv DEF SchedInit, ExitInv, Gone, Kern, Proc
<1>2. ExitInv /\ [SchedStep]_schedVars => ExitInv'
  BY ExitStep
<1>3. ExitInv /\ [SchedStep]_schedVars =>
        [\A t \in Task : status[t] = "EXITED" \/ Exit(t) =>
           status'[t] = "EXITED" /\ current_running' # t]_schedVars
  BY ExitStep
<1> QED BY <1>1, <1>2, <1>3, PTL DEF SchedSpec, ExitIsFinal

-----------------------------------------------------------------------
\* Every task of st that may run has reached its wake-up time at tick tk.
Awake(st, wk, tk) ==
  \A t \in Task : st[t] \in {"READY", "RUNNING"} => get_timer(tk) >= wk[t]

LEMMA TimerMonotone ==
  ASSUME NEW a \in Nat
  PROVE  get_timer(a) \in Nat /\ get_timer(a) <= get_timer(a + 1)
BY SchedAssumption, GetTimerNat DEF get_timer

\* Time passing wakes nobody too early.
LEMMA LaterAwake ==
  ASSUME NEW st, NEW wk \in [Task -> Nat], NEW a \in Nat, NEW b \in {a, a + 1},
         Awake(st, wk, a)
  PROVE  Awake(st, wk, b)
<1>1. /\ get_timer(a) \in Nat /\ get_timer(b) \in Nat
      /\ get_timer(a) <= get_timer(b)
  BY TimerMonotone, GetTimerNat
<1> QED BY <1>1 DEF Awake

(***************************************************************************)
(* check_sleeping unblocks no task whose wake-up time is still to come on  *)
(* the clock the call of do_scheduler ends with.                           *)
(***************************************************************************)
LEMMA SchedulerKeepsAwake ==
  ASSUME NEW s, Sound(s), NEW wk \in [Task -> Nat], NEW tm,
         current_running \in Proc, ticks \in Nat,
         \A p \in Proc : s.status[p] = "RUNNING" => current_running = p,
         Awake(s.status, wk, ticks),
         do_scheduler(s, wk, tm)
  PROVE  Awake(status', wk, ticks')
<1>1. PICK k \in 1..(Len(s.queue[sleep_queue]) + 1) :
        /\ ticks' = IF Late(s, k) THEN ticks + 1 ELSE ticks
        /\ Dispatch(check_sleeping(s, wk, k))
  BY DEF do_scheduler
<1> DEFINE q   == s.queue[sleep_queue]
           expired == Due(s, wk, k)
           w   == check_sleeping(s, wk, k)
<1>2. q \in Seq(Task) /\ expired \subseteq DOMAIN q
  BY SchedAssumption DEF Sound, Kernels, Queue, Due
<1>3. \A i \in expired : get_timer(ticks') >= wk[q[i]]
  <2> SUFFICES ASSUME NEW i \in expired PROVE get_timer(ticks') >= wk[q[i]]
    OBVIOUS
  <2>1. q[i] \in Task /\ wk[q[i]] \in Nat
    BY <1>2
  <2>2. /\ get_timer(ticks) \in Nat /\ get_timer(ticks + 1) \in Nat
        /\ get_timer(ticks) <= get_timer(ticks + 1)
    BY TimerMonotone, GetTimerNat
  <2>3. CASE i >= k /\ Late(s, k)
    BY <1>1, <2>3 DEF Due
  <2>4. CASE ~(i >= k /\ Late(s, k))
    <3>1. get_timer(ticks) >= wk[q[i]]
      BY <2>4 DEF Due
    <3>2. ticks' = ticks \/ ticks' = ticks + 1
      BY <1>1
    <3> QED BY <2>1, <2>2, <3>1, <3>2
  <2> QED BY <2>3, <2>4
<1>4. \A p \in Proc : w.status[p] = IF \E i \in expired : q[i] = p THEN "READY" ELSE s.status[p]
  BY DEF check_sleeping
<1>5. Awake(s.status, wk, ticks')
  BY <1>1, LaterAwake
<1>6. /\ Sound(w)
      /\ \A p \in Proc : w.status[p] = "RUNNING" => current_running = p
  BY WakeSound
<1>7. /\ \A p \in Proc : w.status[p] \in {"BLOCKED", "EXITED"} => status'[p] = w.status[p]
      /\ \A p \in Proc : w.status[p] \in Status
      /\ Task \subseteq Proc
  BY <1>1, <1>6, DispatchSound DEF Sound, Kernels, Proc
<1> HIDE DEF w, expired, q
<1> SUFFICES ASSUME NEW t \in Task, status'[t] \in {"READY", "RUNNING"}
             PROVE  get_timer(ticks') >= wk[t]
  BY DEF Awake
<1>8. w.status[t] \in {"READY", "RUNNING"}
  BY <1>7 DEF Status
<1>9. CASE \E i \in expired : q[i] = t
  BY <1>3, <1>9
<1>10. CASE ~ \E i \in expired : q[i] = t
  BY <1>4, <1>5, <1>7, <1>8, <1>10 DEF Awake
<1> QED BY <1>9, <1>10

\* The inductive invariant behind RunsAwake.
AwakeInv == SpinInv /\ Awake(status, wakeup_time, ticks)

LEMMA AwakeStep ==
  ASSUME Spinners # {}, AwakeInv, [SchedStep]_schedVars PROVE AwakeInv'
<1> USE DEF AwakeInv
<1>0. /\ SpinInv'
      /\ Sound(Kern) /\ Kern.status = status /\ Kern.queue = queue
      /\ \A p \in Proc : status[p] = "RUNNING" => current_running = p
      /\ current_running \in Proc /\ status \in [Proc -> Status] /\ ticks \in Nat
      /\ Task \subseteq Proc /\ sleep_queue \in WaitQueue
      /\ wakeup_time \in [Task -> Nat]
  BY SpinStepInv, SchedInvSound, SchedAssumption
  DEF SpinInv, SchedInv, SchedTypeOK, NoTaskLost, Kern, Proc, WaitQueue, Queue
<1>1. ASSUME \/ do_scheduler(Kern, wakeup_time, timer)
             \/ do_scheduler(Kern, wakeup_time, TimerInterval),
             UNCHANGED wakeup_time
      PROVE  Awake(status, wakeup_time, ticks)'
  <2>1. Awake(status', wakeup_time, ticks')
    BY <1>0, <1>1, SchedulerKeepsAwake
  <2> QED BY <1>1, <2>1 DEF Awake
<1>2. ASSUME NEW t \in Task, Yield(t) PROVE Awake(status, wakeup_time, ticks)'
  BY <1>1, <1>2 DEF Yield
<1>3. ASSUME TimerInterrupt PROVE Awake(status, wakeup_time, ticks)'
  BY <1>1, <1>3 DEF TimerInterrupt
<1>4. ASSUME NEW t \in Task, NEW n \in 0..MaxSleep, Sleep(t, n)
      PROVE  Awake(status, wakeup_time, ticks)'
  <2> DEFINE b == do_block(Kern, t, sleep_queue)
             wk == [wakeup_time EXCEPT ![t] = get_timer(ticks) + n]
  <2>1. wakeup_time' = wk /\ do_scheduler(b, wk, timer)
    BY <1>4 DEF Sleep
  <2>2. Sound(b) /\ b.status = [status EXCEPT ![t] = "BLOCKED"]
    BY <1>0, BlockSound
  <2>3. get_timer(ticks) + n \in Nat
    BY <1>0, GetTimerNat, SchedAssumption
  <2>4. wk \in [Task -> Nat] /\ \A u \in Task \ {t} : wk[u] = wakeup_time[u]
    BY <1>0, <2>3
  <2>5. b.status[t] = "BLOCKED" /\ \A u \in Proc \ {t} : b.status[u] = status[u]
    BY <1>0, <2>2
  <2> HIDE DEF b, wk
  <2>6. Awake(b.status, wk, ticks)
    BY <1>0, <2>4, <2>5 DEF Awake
  <2>7. \A p \in Proc : b.status[p] = "RUNNING" => current_running = p
    BY <1>0, <2>5
  <2>8. Awake(status', wk, ticks')
    BY <1>0, <2>1, <2>2, <2>4, <2>6, <2>7, SchedulerKeepsAwake
  <2> QED BY <2>1, <2>8 DEF Awake
<1>5. ASSUME NEW t \in Task, Exit(t) PROVE Awake(status, wakeup_time, ticks)'
  <2> DEFINE e == [status |-> [status EXCEPT ![t] = "EXITED"], queue |-> queue]
  <2>1. /\ current_running = t /\ UNCHANGED wakeup_time
        /\ do_scheduler(e, wakeup_time, timer)
    BY <1>5 DEF Exit, Calls
  <2>2. status[current_running] # "READY"
    BY DEF SpinInv, SchedInv
  <2>3. Sound(e) /\ e.status = [status EXCEPT ![t] = "EXITED"]
    BY <1>0, <2>1, <2>2, ExitSound
  <2>4. e.status[t] = "EXITED" /\ \A u \in Proc \ {t} : e.status[u] = status[u]
    BY <1>0, <2>3
  <2> HIDE DEF e
  <2>5. Awake(e.status, wakeup_time, ticks)
    BY <1>0, <2>4 DEF Awake
  <2>6. \A p \in Proc : e.status[p] = "RUNNING" => current_running = p
    BY <1>0, <2>4
  <2>7. Awake(status', wakeup_time, ticks')
    BY <1>0, <2>1, <2>3, <2>5, <2>6, SchedulerKeepsAwake
  <2> QED BY <2>1, <2>7 DEF Awake
<1>6. ASSUME Tick PROVE Awake(status, wakeup_time, ticks)'
  <2>1. ticks' \in {ticks, ticks + 1} /\ UNCHANGED <<status, wakeup_time>>
    BY <1>6 DEF Tick
  <2>2. Awake(status, wakeup_time, ticks')
    BY <1>0, <2>1, LaterAwake
  <2> QED BY <2>1, <2>2 DEF Awake
<1>7. ASSUME UNCHANGED schedVars PROVE Awake(status, wakeup_time, ticks)'
  BY <1>7 DEF schedVars, Awake
<1>8. Awake(status, wakeup_time, ticks)'
  BY <1>2, <1>3, <1>4, <1>5, <1>6, <1>7 DEF SchedStep
<1> QED BY <1>0, <1>8

(***************************************************************************)
(* While some task neither sleeps nor exits, a task is current only once   *)
(* the wake-up time do_sleep computed has come: neither the early return   *)
(* of do_scheduler nor a wake-up of another task lets it run before.       *)
(***************************************************************************)
THEOREM SleepersRunAwake ==
  ASSUME Spinners # {} PROVE SchedSpec => []RunsAwake
<1>1. SchedInit => AwakeInv
  <2> SUFFICES ASSUME SchedInit PROVE Awake(status, wakeup_time, ticks)
    BY SpinInitInv DEF AwakeInv
  <2>1. get_timer(0) \in Nat
    BY GetTimerNat
  <2> QED BY <2>1 DEF SchedInit, Awake
<1>2. AwakeInv /\ [SchedStep]_schedVars => AwakeInv'
  BY AwakeStep
<1>3. AwakeInv => RunsAwake
  BY DEF AwakeInv, SpinInv, CurrentRuns, Awake, RunsAwake
<1> QED BY <1>1, <1>2, <1>3, PTL DEF SchedSpec

-----------------------------------------------------------------------
(***************************************************************************)
(* How early a sleeper may run: get_timer and do_sleep round down to       *)
(* seconds, and what is lost is less than one of them.                     *)
(***************************************************************************)
\* Every wake-up time is less than a second before the end of the sleep.
DueBound ==
  \A t \in Task : due[t] < wakeup_time[t] * TimeBase + TimeBase

DueInv ==
  /\ AwakeInv
  /\ due \in [Task -> Nat]
  /\ DueBound

LEMMA SecondBelow ==
  ASSUME NEW a \in Nat
  PROVE  /\ get_timer(a) \in Nat
         /\ get_timer(a) * TimeBase <= a
         /\ a < get_timer(a) * TimeBase + TimeBase
<1>1. TimeBase \in Nat /\ TimeBase > 0
  BY SchedAssumption
<1>2. /\ a % TimeBase \in 0..(TimeBase - 1)
      /\ a = TimeBase * (a \div TimeBase) + (a % TimeBase)
  BY <1>1
<1> QED BY <1>1, <1>2, GetTimerNat DEF get_timer

LEMMA TimesBase ==
  ASSUME NEW m \in Nat, NEW n \in Nat
  PROVE  /\ m * TimeBase \in Nat
         /\ (m + n) * TimeBase = m * TimeBase + n * TimeBase
         /\ m <= n => m * TimeBase <= n * TimeBase
BY SchedAssumption

LEMMA TimeStepsSchedule ==
  ASSUME [TimeStep]_timeVars PROVE [SchedStep]_schedVars
BY DEF TimeStep, OtherStep, SleepFrom, SchedStep, timeVars, schedVars

LEMMA DueStep ==
  ASSUME Spinners # {}, DueInv, [TimeStep]_timeVars PROVE DueInv'
<1>1. AwakeInv'
  BY TimeStepsSchedule, AwakeStep DEF DueInv
<1>2. /\ wakeup_time \in [Task -> Nat] /\ ticks \in Nat
      /\ due \in [Task -> Nat] /\ DueBound
  BY DEF DueInv, AwakeInv, SpinInv, SchedInv, SchedTypeOK
<1>3. ASSUME NEW t \in Task, NEW n \in 0..MaxSleep, SleepFrom(t, n) PROVE DueInv'
  <2>1. /\ wakeup_time' = [wakeup_time EXCEPT ![t] = get_timer(ticks) + n]
        /\ due' = [due EXCEPT ![t] = ticks + n * TimeBase]
    BY <1>3 DEF SleepFrom, Sleep
  <2>2. n \in Nat /\ n * TimeBase \in Nat
    BY TimesBase, SchedAssumption
  <2>3. ticks + n * TimeBase < (get_timer(ticks) + n) * TimeBase + TimeBase
    <3>1. (get_timer(ticks) + n) * TimeBase = get_timer(ticks) * TimeBase + n * TimeBase
      BY <1>2, <2>2, SecondBelow, TimesBase
    <3>2. /\ ticks < get_timer(ticks) * TimeBase + TimeBase
          /\ get_timer(ticks) * TimeBase \in Nat /\ TimeBase \in Nat
      BY <1>2, SecondBelow, TimesBase, SchedAssumption
    <3> QED BY <1>2, <2>2, <3>1, <3>2
  <2>4. due' \in [Task -> Nat]
    <3>1. ticks + n * TimeBase \in Nat
      BY <1>2, <2>2
    <3> QED BY <1>2, <2>1, <3>1
  <2>5. DueBound'
    <3> SUFFICES ASSUME NEW u \in Task
                 PROVE  due'[u] < wakeup_time'[u] * TimeBase + TimeBase
      BY DEF DueBound
    <3>1. CASE u = t
      BY <1>2, <2>1, <2>3, <3>1
    <3>2. CASE u # t
      <4>1. due'[u] = due[u] /\ wakeup_time'[u] = wakeup_time[u]
        BY <1>2, <2>1, <3>2
      <4> QED BY <1>2, <4>1 DEF DueBound
    <3> QED BY <3>1, <3>2
  <2> QED BY <1>1, <2>4, <2>5 DEF DueInv
<1>4. ASSUME OtherStep \/ UNCHANGED timeVars PROVE DueInv'
  <2>1. UNCHANGED <<due, wakeup_time>>
    BY <1>4 DEF OtherStep, Tick, TimerInterrupt, Yield, Exit, timeVars
  <2> QED BY <1>1, <1>2, <2>1 DEF DueInv, DueBound
<1> QED BY <1>3, <1>4 DEF TimeStep

(***************************************************************************)
(* While some task neither sleeps nor exits, a task that runs after        *)
(* sys_sleep is less than a second early, for any number of tasks, clock   *)
(* frequency and timer interval, and however the calls interleave.         *)
(***************************************************************************)
THEOREM SleepIsLessThanASecondShort ==
  ASSUME Spinners # {} PROVE TimeSpec => []LessThanASecondEarly
<1>1. TimeInit => DueInv
  <2> SUFFICES ASSUME TimeInit PROVE DueInv
    OBVIOUS
  <2>1. SpinInv /\ Awake(status, wakeup_time, ticks)
    BY SpinInitInv, GetTimerNat DEF TimeInit, SchedInit, Awake
  <2>2. due = [t \in Task |-> 0] /\ wakeup_time = [t \in Task |-> 0]
    BY DEF TimeInit, SchedInit
  <2> QED BY <2>1, <2>2, SchedAssumption DEF DueInv, AwakeInv, DueBound
<1>2. DueInv /\ [TimeStep]_timeVars => DueInv'
  BY DueStep
<1>3. DueInv => LessThanASecondEarly
  <2> SUFFICES ASSUME DueInv, NEW t \in Task, current_running = t
               PROVE  due[t] < ticks + TimeBase
    BY DEF LessThanASecondEarly
  <2>1. /\ ticks \in Nat /\ wakeup_time[t] \in Nat /\ due[t] \in Nat
        /\ get_timer(ticks) >= wakeup_time[t]
    BY DEF DueInv, AwakeInv, SpinInv, CurrentRuns, SchedInv, SchedTypeOK, Awake
  <2>2. /\ wakeup_time[t] * TimeBase <= get_timer(ticks) * TimeBase
        /\ get_timer(ticks) * TimeBase <= ticks
        /\ wakeup_time[t] * TimeBase \in Nat /\ get_timer(ticks) * TimeBase \in Nat
    BY <2>1, SecondBelow, TimesBase
  <2>3. due[t] < wakeup_time[t] * TimeBase + TimeBase
    BY DEF DueInv, DueBound
  <2> QED BY <2>1, <2>2, <2>3, SchedAssumption
<1> QED BY <1>1, <1>2, <1>3, PTL DEF TimeSpec

-----------------------------------------------------------------------
(***************************************************************************)
(* The mutexes.                                                            *)
(***************************************************************************)
\* The lock table and the indices programs got from it: an index names a slot
\* with the program's key, and no key has two slots.
TableInv ==
  /\ LockTypeOK
  /\ \A t \in Lockers : \A k \in Key :
       handle[t][k] \in Locks => key[handle[t][k]] = k
  /\ \A l, m \in Locks : key[l] # FreeKey /\ key[l] = key[m] => l = m
  /\ \A t \in Task : \A l \in acq[t] : key[l] # FreeKey

(***************************************************************************)
(* do_mutex_lock_init's search: a slot with the key if there is one, else  *)
(* a free slot, else -1, which is no slot.                                 *)
(***************************************************************************)
LEMMA IndexProperties ==
  ASSUME NEW k
  PROVE  /\ IndexFor(k) \in Locks \cup {NoIndex}
         /\ NoIndex \notin Locks /\ NotAsked \notin Locks
         /\ IndexFor(k) \in Locks =>
              \/ key[IndexFor(k)] = k
              \/ /\ key[IndexFor(k)] = FreeKey
                 /\ \A l \in Locks : key[l] # k
<1>1. Locks \subseteq Nat /\ NoIndex \notin Nat /\ NotAsked \notin Nat
  BY KernelAssumption DEF NoIndex, NotAsked
<1>2. \A I \in SUBSET Locks : I # {} => First(I) \in I
  BY <1>1, SmallestExists DEF First
<1>3. CASE \E l \in Locks : key[l] = k
  <2>1. IndexFor(k) = First({l \in Locks : key[l] = k})
    BY <1>3 DEF IndexFor
  <2>2. IndexFor(k) \in {l \in Locks : key[l] = k}
    BY <1>2, <1>3, <2>1
  <2> QED BY <1>1, <2>2
<1>4. CASE ~(\E l \in Locks : key[l] = k) /\ \E l \in Locks : key[l] = FreeKey
  <2>1. IndexFor(k) = First({l \in Locks : key[l] = FreeKey})
    BY <1>4 DEF IndexFor
  <2>2. IndexFor(k) \in {l \in Locks : key[l] = FreeKey}
    BY <1>2, <1>4, <2>1
  <2> QED BY <1>1, <1>4, <2>2
<1>5. CASE ~(\E l \in Locks : key[l] = k) /\ ~ \E l \in Locks : key[l] = FreeKey
  BY <1>1, <1>5 DEF IndexFor
<1> QED BY <1>3, <1>4, <1>5

(***************************************************************************)
(* A slot of mlocks keeps its key once it has one, whatever keys are asked *)
(* for and however full the table is: the indices programs keep stay good. *)
(***************************************************************************)
THEOREM SlotsKeepTheirKeys == KernelSpec => KeysStay
<1>1. [KernelStep]_kernelVars =>
        [\A l \in Locks : key[l] # FreeKey => key'[l] = key[l]]_kernelVars
  <2> SUFFICES ASSUME KernelStep, NEW l \in Locks, key[l] # FreeKey
               PROVE  key'[l] = key[l]
    OBVIOUS
  <2>1. ASSUME NEW t \in Task, NEW k \in Key, MutexInit(t, k) PROVE key'[l] = key[l]
    BY <2>1, IndexProperties DEF MutexInit
  <2>2. ASSUME NEW t \in Task, NEW m \in Locks, MutexAcquire(t, m) \/ MutexRelease(t, m)
        PROVE  key'[l] = key[l]
    BY <2>2 DEF MutexAcquire, MutexRelease
  <2>3. CASE UNCHANGED lockVars
    BY <2>3 DEF lockVars
  <2> QED BY <2>1, <2>2, <2>3 DEF KernelStep
<1> QED BY <1>1, PTL DEF KernelSpec, KeysStay

LEMMA TableInit ==
  ASSUME FreeKey \notin Key, KernelInit PROVE TableInv
<1>1. LockTypeOK
  BY DEF KernelInit, LockTypeOK
<1>2. \A t \in Lockers : \A k \in Key : handle[t][k] \notin Locks
  BY IndexProperties DEF KernelInit
<1>3. \A l \in Locks : key[l] = FreeKey
  BY DEF KernelInit
<1>4. \A t \in Task : acq[t] = {}
  BY DEF KernelInit
<1> QED BY <1>1, <1>2, <1>3, <1>4 DEF TableInv

LEMMA InitKeepsTable ==
  ASSUME FreeKey \notin Key, TableInv, NEW t \in Task, NEW k \in Key, MutexInit(t, k)
  PROVE  TableInv'
<1> DEFINE x == IndexFor(k)
<1>1. /\ t \in Lockers
      /\ handle' = [handle EXCEPT ![t][k] = x]
      /\ key' = [l \in Locks |-> IF l = x THEN k ELSE key[l]]
      /\ UNCHANGED <<lock, acq>>
  BY DEF MutexInit
<1>2. /\ x \in Locks \cup {NoIndex} /\ NoIndex \notin Locks
      /\ x \in Locks => key[x] = k \/ (key[x] = FreeKey /\ \A l \in Locks : key[l] # k)
  BY IndexProperties
<1> HIDE DEF x
<1>3. /\ key \in [Locks -> Key \cup {FreeKey}]
      /\ handle \in [Lockers -> [Key -> Locks \cup {NoIndex, NotAsked}]]
      /\ lock \in [Locks -> {"UNLOCKED", "LOCKED"}] /\ acq \in [Task -> SUBSET Locks]
  BY DEF TableInv, LockTypeOK
<1>4. LockTypeOK'
  BY <1>1, <1>2, <1>3 DEF LockTypeOK
<1>5. \A l \in Locks : key'[l] = IF l = x THEN k ELSE key[l]
  BY <1>1
<1>6. \A u \in Lockers : \A j \in Key :
        handle'[u][j] = IF u = t /\ j = k THEN x ELSE handle[u][j]
  BY <1>1, <1>3
<1>7. \A u \in Lockers : \A j \in Key : handle'[u][j] \in Locks => key'[handle'[u][j]] = j
  <2> SUFFICES ASSUME NEW u \in Lockers, NEW j \in Key, handle'[u][j] \in Locks
               PROVE  key'[handle'[u][j]] = j
    OBVIOUS
  <2>1. CASE u = t /\ j = k
    BY <2>1, <1>5, <1>6
  <2>2. CASE ~(u = t /\ j = k)
    <3>1. handle'[u][j] = handle[u][j] /\ key[handle[u][j]] = j
      BY <2>2, <1>6 DEF TableInv
    <3>2. j # FreeKey
      OBVIOUS
    <3> QED BY <3>1, <3>2, <1>2, <1>5
  <2> QED BY <2>1, <2>2
<1>8. \A l, m \in Locks : key'[l] # FreeKey /\ key'[l] = key'[m] => l = m
  BY <1>2, <1>5 DEF TableInv
<1>9. \A u \in Task : \A l \in acq'[u] : key'[l] # FreeKey
  <2>1. \A u \in Task : \A l \in acq[u] : l \in Locks /\ key[l] # FreeKey
    BY <1>3 DEF TableInv
  <2> QED BY <1>1, <1>5, <2>1
<1> QED BY <1>4, <1>7, <1>8, <1>9 DEF TableInv

(***************************************************************************)
(* Every step keeps the table: only do_mutex_lock_init writes keys, and    *)
(* programs acquire what it gave them.                                     *)
(***************************************************************************)
LEMMA TableStep ==
  ASSUME FreeKey \notin Key, TableInv, [KernelStep]_kernelVars PROVE TableInv'
<1>1. ASSUME NEW t \in Task, NEW k \in Key, MutexInit(t, k) PROVE TableInv'
  BY <1>1, InitKeepsTable
<1>2. ASSUME NEW t \in Task, NEW l \in Locks, MutexAcquire(t, l) PROVE TableInv'
  <2>1. /\ t \in Lockers
        /\ l \in {handle[t][k] : k \in Key}
        /\ acq' = [acq EXCEPT ![t] = @ \cup {l}]
        /\ lock' = lock \/ lock' = [lock EXCEPT ![l] = "LOCKED"]
        /\ key' = key /\ handle' = handle
    BY <1>2 DEF MutexAcquire
  <2>2. key[l] # FreeKey
    BY <2>1 DEF TableInv
  <2>3. LockTypeOK'
    BY <2>1 DEF TableInv, LockTypeOK
  <2>4. \A u \in Task : \A m \in acq'[u] : m \in acq[u] \/ m = l
    BY <2>1 DEF TableInv, LockTypeOK
  <2> QED BY <2>1, <2>2, <2>3, <2>4 DEF TableInv
<1>3. ASSUME NEW t \in Task, NEW l \in Locks, MutexRelease(t, l) PROVE TableInv'
  <2>1. /\ acq' = [acq EXCEPT ![t] = @ \ {l}]
        /\ lock' = lock \/ lock' = [lock EXCEPT ![l] = "UNLOCKED"]
        /\ key' = key /\ handle' = handle
    BY <1>3 DEF MutexRelease, PassOn
  <2>2. LockTypeOK'
    BY <2>1 DEF TableInv, LockTypeOK
  <2>3. \A u \in Task : \A m \in acq'[u] : m \in acq[u]
    BY <2>1 DEF TableInv, LockTypeOK
  <2> QED BY <2>1, <2>2, <2>3 DEF TableInv
<1>4. ASSUME UNCHANGED lockVars PROVE TableInv'
  BY <1>4 DEF lockVars, TableInv, LockTypeOK
<1>5. UNCHANGED kernelVars => UNCHANGED lockVars
  BY DEF kernelVars, lockVars
<1> QED BY <1>1, <1>2, <1>3, <1>4, <1>5 DEF KernelStep

(***************************************************************************)
(* Two programs get the same mutex from do_mutex_lock_init exactly when    *)
(* they use the same key, for any number of programs, keys and slots, as   *)
(* long as none uses the key that marks a free slot.                       *)
(***************************************************************************)
THEOREM KeysNameMutexes ==
  ASSUME FreeKey \notin Key PROVE KernelSpec => []KeyNamesOneMutex
<1>1. KernelInit => TableInv
  BY TableInit
<1>2. TableInv /\ [KernelStep]_kernelVars => TableInv'
  BY TableStep
<1>3. TableInv => KeyNamesOneMutex
  BY DEF TableInv, KeyNamesOneMutex
<1> QED BY <1>1, <1>2, <1>3, PTL DEF KernelSpec

-----------------------------------------------------------------------
\* The scheduler's part, with tasks that never wait in the place of spinners:
\* a program that uses mutexes is no longer one that is always ready.
GoingInv ==
  /\ SchedInv
  /\ CurrentRuns
  /\ \A u \in NeverWait : status[u] \in {"READY", "RUNNING"}

\* A task in a block queue has called acquire on that mutex.
WaitersAsked == \A l \in Locks : \A t \in ToSet(queue[l]) : l \in acq[t]

\* The inductive invariant behind mutual exclusion.
MutexInv == GoingInv /\ TableInv /\ WaitersAsked /\ LockWordAgrees

(***************************************************************************)
(* do_scheduler leaves the block queues of the mutexes as its caller does. *)
(***************************************************************************)
LEMMA SchedulerKeepsWaiters ==
  ASSUME NEW s, Sound(s), NEW wk, NEW tm, current_running \in Proc,
         \A p \in Proc : s.status[p] = "RUNNING" => current_running = p,
         do_scheduler(s, wk, tm)
  PROVE  \A l \in Locks : queue'[l] = s.queue[l]
<1>1. PICK k \in 1..(Len(s.queue[sleep_queue]) + 1) :
        Dispatch(check_sleeping(s, wk, k))
  BY DEF do_scheduler
<1> DEFINE w == check_sleeping(s, wk, k)
<1>2. /\ Sound(w)
      /\ \A p \in Proc : w.status[p] = "RUNNING" => current_running = p
  BY WakeSound
<1>3. \A l \in Locks : l \in WaitQueue /\ l # sleep_queue /\ l # ready_queue
  BY SchedAssumption DEF WaitQueue, Queue
<1>4. \A l \in Locks : w.queue[l] = s.queue[l]
  BY <1>3 DEF check_sleeping, Sound, Kernels, WaitQueue
<1> HIDE DEF w
<1>5. \A x \in WaitQueue : queue'[x] = w.queue[x]
  BY <1>1, <1>2, DispatchSound DEF w
<1> QED BY <1>3, <1>4, <1>5

(***************************************************************************)
(* A running task is in no queue, so blocking it appends it to one and     *)
(* leaves the others alone.                                                *)
(***************************************************************************)
LEMMA BlockRunning ==
  ASSUME GoingInv, NEW t \in Task, Calls(t), NEW x \in WaitQueue
  PROVE  /\ \A y \in Queue : t \notin ToSet(queue[y])
         /\ do_block(Kern, t, x).queue = [queue EXCEPT ![x] = Append(@, t)]
<1>1. /\ queue \in [Queue -> Seq(Task)] /\ Sound(Kern) /\ Kern.status = status
      /\ Kern.queue = queue /\ Queue = WaitQueue \cup {ready_queue}
      /\ status[t] = "RUNNING"
  BY SchedInvSound DEF GoingInv, CurrentRuns, Calls, SchedInv, SchedTypeOK, Kern, WaitQueue, Queue
<1>2. \A y \in Queue : t \notin ToSet(queue[y])
  BY <1>1 DEF Sound, Placed
<1>3. \A y \in Queue : Without(queue[y], t) = queue[y]
  BY <1>1, <1>2, WithoutAbsent
<1>4. do_block(Kern, t, x).queue = list_move_tail(queue, t, x)
  BY <1>1 DEF do_block
<1>5. list_move_tail(queue, t, x) = [y \in Queue |-> IF y = x THEN Append(queue[y], t) ELSE queue[y]]
  BY <1>3 DEF list_move_tail
<1>6. [y \in Queue |-> IF y = x THEN Append(queue[y], t) ELSE queue[y]]
        = [queue EXCEPT ![x] = Append(@, t)]
  BY <1>1
<1> QED BY <1>2, <1>4, <1>5, <1>6

(***************************************************************************)
(* No step of the scheduler touches a block queue: the task do_sleep puts  *)
(* to sleep was running, and so in none.                                   *)
(***************************************************************************)
LEMMA SchedKeepsWaiters ==
  ASSUME GoingInv, [SchedStep]_schedVars
  PROVE  \A l \in Locks : queue'[l] = queue[l]
<1>0. /\ Sound(Kern) /\ Kern.status = status /\ Kern.queue = queue
      /\ \A p \in Proc : status[p] = "RUNNING" => current_running = p
      /\ current_running \in Proc /\ status \in [Proc -> Status]
      /\ Task \subseteq Proc /\ sleep_queue \in WaitQueue /\ sleep_queue \notin Locks
      /\ queue \in [Queue -> Seq(Task)] /\ Locks \subseteq Queue
      /\ status[current_running] # "READY"
  BY SchedInvSound, SchedAssumption
  DEF GoingInv, SchedInv, SchedTypeOK, NoTaskLost, Kern, Proc, WaitQueue, Queue
<1>1. ASSUME NEW t \in Task, Yield(t) PROVE \A l \in Locks : queue'[l] = queue[l]
  BY <1>0, <1>1, SchedulerKeepsWaiters DEF Yield
<1>2. ASSUME NEW t \in Task, NEW n \in 0..MaxSleep, Sleep(t, n)
      PROVE  \A l \in Locks : queue'[l] = queue[l]
  <2> DEFINE b == do_block(Kern, t, sleep_queue)
             wk == [wakeup_time EXCEPT ![t] = get_timer(ticks) + n]
  <2>1. Calls(t) /\ do_scheduler(b, wk, timer)
    BY <1>2 DEF Sleep
  <2>2. Sound(b) /\ b.status = [status EXCEPT ![t] = "BLOCKED"]
    BY <1>0, BlockSound
  <2>3. b.queue = [queue EXCEPT ![sleep_queue] = Append(@, t)]
    BY <1>0, <2>1, BlockRunning
  <2>4. \A p \in Proc : b.status[p] = "RUNNING" => current_running = p
    BY <1>0, <2>2
  <2> HIDE DEF b, wk
  <2>5. \A l \in Locks : queue'[l] = b.queue[l]
    BY <1>0, <2>1, <2>2, <2>4, SchedulerKeepsWaiters
  <2> QED BY <1>0, <2>3, <2>5
<1>3. ASSUME NEW t \in Task, Exit(t) PROVE \A l \in Locks : queue'[l] = queue[l]
  <2> DEFINE e == [status |-> [status EXCEPT ![t] = "EXITED"], queue |-> queue]
  <2>1. current_running = t /\ do_scheduler(e, wakeup_time, timer)
    BY <1>3 DEF Exit, Calls
  <2>2. Sound(e) /\ e.status = [status EXCEPT ![t] = "EXITED"] /\ e.queue = queue
    BY <1>0, <2>1, ExitSound
  <2>3. \A p \in Proc : e.status[p] = "RUNNING" => current_running = p
    BY <1>0, <2>2
  <2> HIDE DEF e
  <2>4. \A l \in Locks : queue'[l] = e.queue[l]
    BY <1>0, <2>1, <2>2, <2>3, SchedulerKeepsWaiters
  <2> QED BY <2>2, <2>4
<1>4. CASE TimerInterrupt
  BY <1>0, <1>4, SchedulerKeepsWaiters DEF TimerInterrupt
<1>5. CASE UNCHANGED queue
  BY <1>5
<1> QED BY <1>1, <1>2, <1>3, <1>4, <1>5 DEF SchedStep, Tick, schedVars

(***************************************************************************)
(* do_mutex_lock_acquire on a taken mutex: the caller joins the block      *)
(* queue, a task that may run is switched to, and nothing else happens to  *)
(* the queues.                                                             *)
(***************************************************************************)
LEMMA BlockOnEffect ==
  ASSUME NeverWait # {}, GoingInv, NEW t \in Lockers, Calls(t), NEW l \in Locks,
         BlockOn(t, l)
  PROVE  /\ GoingInv'
         /\ t \notin ToSet(queue[l])
         /\ queue'[l] = Append(queue[l], t)
         /\ ToSet(queue'[l]) = ToSet(queue[l]) \cup {t}
         /\ \A m \in Locks \ {l} : queue'[m] = queue[m]
<1>0. /\ Sound(Kern) /\ Kern.status = status /\ Kern.queue = queue
      /\ \A p \in Proc : status[p] = "RUNNING" => current_running = p
      /\ current_running = t /\ t \in Task /\ t \in Proc
      /\ ticks \in Nat /\ timer \in 0..TimerInterval /\ wakeup_time \in [Task -> Nat]
      /\ status \in [Proc -> Status]
      /\ NeverWait \in SUBSET Task /\ t \notin NeverWait /\ Task \subseteq Proc
      /\ l \in WaitQueue /\ Locks \subseteq Queue /\ queue \in [Queue -> Seq(Task)]
      /\ \A u \in NeverWait : status[u] \in {"READY", "RUNNING"}
  BY SchedInvSound, SchedAssumption, KernelAssumption
  DEF GoingInv, SchedInv, SchedTypeOK, NoTaskLost, Kern, Proc, WaitQueue, Queue,
      NeverWait, Spinners, Calls
<1> DEFINE b == do_block(Kern, t, l)
<1>1. do_scheduler(b, wakeup_time, timer) /\ UNCHANGED wakeup_time
  BY DEF BlockOn
<1>2. /\ \A y \in Queue : t \notin ToSet(queue[y])
      /\ b.queue = [queue EXCEPT ![l] = Append(@, t)]
  BY <1>0, BlockRunning
<1>3. Sound(b) /\ b.status = [status EXCEPT ![t] = "BLOCKED"]
  BY <1>0, BlockSound
<1> HIDE DEF b
<1>4. /\ \A p \in Proc : b.status[p] = "RUNNING" => current_running = p
      /\ b.status[current_running] # "READY"
      /\ \A u \in NeverWait : b.status[u] \in {"READY", "RUNNING"}
  BY <1>0, <1>3
<1>5. CurrentRuns' /\ \A u \in NeverWait : status'[u] \in {"READY", "RUNNING"}
  BY <1>0, <1>1, <1>3, <1>4, SchedulerKeepsGoing
<1>6. SchedInv'
  BY <1>0, <1>1, <1>3, <1>4, SchedulerSound, SoundSchedInv
<1>7. \A m \in Locks : queue'[m] = b.queue[m]
  BY <1>0, <1>1, <1>3, <1>4, SchedulerKeepsWaiters
<1>8. queue'[l] = Append(queue[l], t) /\ \A m \in Locks \ {l} : queue'[m] = queue[m]
  BY <1>0, <1>2, <1>7
<1>9. ToSet(Append(queue[l], t)) = ToSet(queue[l]) \cup {t}
  BY <1>0, AppendQueue
<1> QED BY <1>0, <1>2, <1>5, <1>6, <1>8, <1>9 DEF GoingInv

(***************************************************************************)
(* do_mutex_lock_release with waiters: the first of them, and no other     *)
(* task, leaves its block queue and is made ready.                         *)
(***************************************************************************)
LEMMA PassOnEffect ==
  ASSUME GoingInv, NEW t \in Task, Calls(t), NEW l \in Locks, queue[l] # <<>>,
         status' = do_unblock(Kern, Head(queue[l])).status,
         queue' = do_unblock(Kern, Head(queue[l])).queue,
         UNCHANGED <<current_running, wakeup_time, ticks, timer>>
  PROVE  /\ GoingInv'
         /\ Head(queue[l]) \in ToSet(queue[l]) \ {t}
         /\ queue'[l] = Tail(queue[l])
         /\ ToSet(queue'[l]) = ToSet(queue[l]) \ {Head(queue[l])}
         /\ \A m \in Locks \ {l} : queue'[m] = queue[m]
<1> DEFINE h == Head(queue[l])
           b == do_unblock(Kern, h)
<1>0. /\ Sound(Kern) /\ Kern.status = status /\ Kern.queue = queue
      /\ \A p \in Proc : status[p] = "RUNNING" => current_running = p
      /\ current_running = t /\ t \in Proc /\ Task \subseteq Proc
      /\ status[t] = "RUNNING" /\ status \in [Proc -> Status]
      /\ l \in WaitQueue /\ l # ready_queue /\ ready_queue \notin Locks
      /\ Locks \subseteq Queue
      /\ queue \in [Queue -> Seq(Task)] /\ ListsDisjoint(queue)
      /\ NeverWait \subseteq Task
      /\ ticks \in Nat /\ timer \in 0..TimerInterval /\ wakeup_time \in [Task -> Nat]
  BY SchedInvSound, SchedAssumption
  DEF GoingInv, CurrentRuns, SchedInv, SchedTypeOK, NoTaskLost, Kern, Proc, WaitQueue, Queue,
      NeverWait, Spinners, Calls
<1>1. h \in Task /\ h \in ToSet(queue[l])
  <2> DEFINE q == queue[l]
  <2>1. q \in Seq(Task) /\ q # <<>>
    BY <1>0
  <2> HIDE DEF q
  <2>2. Head(q) \in Task /\ Head(q) \in ToSet(q)
    BY <2>1, HeadTailQueue
  <2> QED BY <2>2 DEF q
<1>2. status[h] \in {"BLOCKED", "EXITED"} /\ h # t
  BY <1>0, <1>1 DEF Sound, Placed
<1>3. Sound(b) /\ b.status = [status EXCEPT ![h] = "READY"] /\ b \in Kernels
  BY <1>0, <1>1, UnblockSound DEF Sound
<1>4. Kern' = b /\ status' = b.status
  BY <1>3 DEF Kern, Kernels
<1>5. Sound(Kern)'
  <2>1. Sound(Kern')
    BY <1>3, <1>4
  <2> QED BY <2>1 DEF Sound, Placed
<1>6. b.queue = list_move_tail(queue, h, ready_queue)
  BY <1>0 DEF do_unblock
<1>7. \A m \in Locks : queue'[m] = Without(queue[m], h)
  BY <1>0, <1>6 DEF list_move_tail
<1> HIDE DEF b
<1>8. \A m \in Locks \ {l} : queue'[m] = queue[m]
  <2> SUFFICES ASSUME NEW m \in Locks \ {l} PROVE Without(queue[m], h) = queue[m]
    BY <1>7
  <2>1. h \notin ToSet(queue[m]) /\ queue[m] \in Seq(Task)
    BY <1>0, <1>1 DEF ListsDisjoint
  <2> QED BY <2>1, WithoutAbsent
<1>9. queue'[l] = Tail(queue[l]) /\ ToSet(queue'[l]) = ToSet(queue[l]) \ {h}
  <2> DEFINE q == queue[l]
  <2>1. q \in Seq(Task) /\ q # <<>> /\ IsInjective(q) /\ queue'[l] = Without(q, Head(q))
    BY <1>0, <1>7 DEF ListsDisjoint
  <2> HIDE DEF q
  <2>2. queue'[l] = Tail(q) /\ ToSet(queue'[l]) = ToSet(q) \ {Head(q)}
    BY <2>1, WithoutHead, WithoutProperties
  <2> QED BY <2>2 DEF q
<1> HIDE DEF h
<1>10. \A p \in Proc : status'[p] = IF p = h THEN "READY" ELSE status[p]
  BY <1>0, <1>1, <1>3, <1>4
<1>11. SchedInv'
  BY <1>0, <1>2, <1>5, <1>10, SoundSchedInv
<1>12. CurrentRuns' /\ \A u \in NeverWait : status'[u] \in {"READY", "RUNNING"}
  BY <1>0, <1>2, <1>10 DEF GoingInv, CurrentRuns
<1> QED BY <1>1, <1>2, <1>8, <1>9, <1>11, <1>12 DEF GoingInv, h

-----------------------------------------------------------------------
LEMMA SchedVarsKeepGoing ==
  ASSUME GoingInv, UNCHANGED schedVars PROVE GoingInv'
BY DEF GoingInv, SchedInv, SchedTypeOK, NoTaskLost, Placed, Kern, CurrentRuns, schedVars

LEMMA MutexInitInv ==
  ASSUME FreeKey \notin Key, KernelInit PROVE MutexInv
<1>1. SchedInv /\ CurrentRuns /\ \A u \in NeverWait : status[u] \in {"READY", "RUNNING"}
  BY SpinInitInv DEF KernelInit, SpinInv, NeverWait
<1>2. /\ \A l \in Locks : queue[l] = <<>>
      /\ \A t \in Task : acq[t] = {}
      /\ \A l \in Locks : lock[l] = "UNLOCKED"
  BY SchedAssumption DEF KernelInit, SchedInit, Queue
<1>3. ToSet(<<>>) = {}
  BY DEF ToSet
<1> QED BY <1>1, <1>2, <1>3, TableInit DEF MutexInv, GoingInv, WaitersAsked, LockWordAgrees, Holders

\* What a mutex's holders depend on.
LEMMA SameHolders ==
  ASSUME NEW l \in Locks, ToSet(queue'[l]) = ToSet(queue[l]),
         \A t \in Task : l \in acq'[t] <=> l \in acq[t]
  PROVE  Holders(l)' = Holders(l)
BY DEF Holders

LEMMA WaitersAreTasks ==
  ASSUME GoingInv, NEW l \in Locks PROVE queue[l] \in Seq(Task) /\ ToSet(queue[l]) \subseteq Task
<1>1. queue[l] \in Seq(Task)
  BY DEF GoingInv, SchedInv, SchedTypeOK, Queue
<1> QED BY <1>1 DEF ToSet

(***************************************************************************)
(* The steps that change no mutex: the scheduler's, and a search of the    *)
(* table.                                                                  *)
(***************************************************************************)
LEMMA OtherStepsKeepMutexes ==
  ASSUME GoingInv', TableInv', MutexInv, UNCHANGED <<lock, acq>>,
         \A l \in Locks : queue'[l] = queue[l]
  PROVE  MutexInv'
<1>1. \A l \in Locks : Holders(l)' = Holders(l)
  BY SameHolders
<1>2. LockWordAgrees'
  BY <1>1 DEF MutexInv, LockWordAgrees
<1>3. WaitersAsked'
  BY DEF MutexInv, WaitersAsked
<1> QED BY <1>2, <1>3 DEF MutexInv

LEMMA AcquireKeepsMutexes ==
  ASSUME NeverWait # {}, MutexInv, TableInv',
         NEW t \in Task, NEW l \in Locks, MutexAcquire(t, l)
  PROVE  /\ MutexInv'
         /\ \A m \in Locks \ {l} : Holders(m)' = Holders(m) /\ queue'[m] = queue[m]
         /\ \/ /\ Holders(l) = {} /\ Holders(l)' = {t}
               /\ queue'[l] = queue[l]
            \/ /\ Holders(l)' = Holders(l) /\ Holders(l) # {} /\ t \notin Holders(l)
               /\ t \notin ToSet(queue[l])
               /\ queue'[l] = Append(queue[l], t)
<1> USE DEF MutexInv
<1>0. /\ Calls(t) /\ t \in Lockers /\ l \notin acq[t]
      /\ l \in {handle[t][k] : k \in Key}
      /\ acq' = [acq EXCEPT ![t] = @ \cup {l}]
      /\ acq \in [Task -> SUBSET Locks] /\ lock \in [Locks -> {"UNLOCKED", "LOCKED"}]
  BY DEF MutexAcquire, TableInv, LockTypeOK
<1>1. key[l] # FreeKey
  BY <1>0 DEF TableInv, MutexAcquire
<1>2. \A u \in Task : \A m \in Locks : m \in acq'[u] <=> m \in acq[u] \/ (u = t /\ m = l)
  BY <1>0
<1>3. CASE lock[l] = "UNLOCKED" /\ UNCHANGED schedVars /\ lock' = [lock EXCEPT ![l] = "LOCKED"]
  <2>1. queue' = queue /\ GoingInv'
    BY <1>3, SchedVarsKeepGoing DEF schedVars
  <2>2. Holders(l) = {} /\ queue[l] = <<>> /\ ToSet(<<>>) = {}
    BY <1>3 DEF LockWordAgrees, ToSet
  <2>3. Holders(l)' = {t}
    BY <1>2, <2>1, <2>2 DEF Holders
  <2>4. \A m \in Locks \ {l} : Holders(m)' = Holders(m)
    BY <1>2, <2>1 DEF Holders
  <2>5. lock'[l] = "LOCKED" /\ \A m \in Locks \ {l} : lock'[m] = lock[m]
    BY <1>0, <1>3
  <2>6. LockWordAgrees'
    BY <2>1, <2>3, <2>4, <2>5 DEF LockWordAgrees
  <2>7. WaitersAsked'
    <3> SUFFICES ASSUME NEW m \in Locks, NEW u \in ToSet(queue[m]) PROVE m \in acq'[u]
      BY <2>1 DEF WaitersAsked
    <3>1. u \in Task /\ m \in acq[u]
      BY WaitersAreTasks DEF WaitersAsked
    <3> QED BY <1>2, <3>1
  <2> QED BY <2>1, <2>2, <2>3, <2>4, <2>6, <2>7
<1>4. CASE lock[l] = "LOCKED" /\ BlockOn(t, l) /\ lock' = [lock EXCEPT ![l] = "LOCKED"]
  <2>1. /\ GoingInv'
        /\ t \notin ToSet(queue[l])
        /\ queue'[l] = Append(queue[l], t)
        /\ ToSet(queue'[l]) = ToSet(queue[l]) \cup {t}
        /\ \A m \in Locks \ {l} : queue'[m] = queue[m]
    BY <1>0, <1>4, BlockOnEffect
  <2>2. lock' = lock
    BY <1>0, <1>4
  <2>3. Holders(l)' = Holders(l) /\ t \notin Holders(l)
    BY <1>0, <1>2, <2>1 DEF Holders
  <2>4. \A m \in Locks \ {l} : Holders(m)' = Holders(m)
    BY <1>2, <2>1 DEF Holders
  <2>5. Holders(l) # {}
    BY <1>4 DEF LockWordAgrees
  <2>6. LockWordAgrees'
    BY <1>4, <2>1, <2>2, <2>3, <2>4 DEF LockWordAgrees
  <2>7. WaitersAsked'
    <3> SUFFICES ASSUME NEW m \in Locks, NEW u \in ToSet(queue'[m]) PROVE m \in acq'[u]
      BY DEF WaitersAsked
    <3>1. u \in ToSet(queue[m]) \/ (u = t /\ m = l)
      BY <2>1
    <3>2. u \in ToSet(queue[m]) => u \in Task /\ m \in acq[u]
      BY WaitersAreTasks DEF WaitersAsked
    <3> QED BY <1>2, <3>1, <3>2
  <2> QED BY <2>1, <2>3, <2>4, <2>5, <2>6, <2>7
<1> QED BY <1>1, <1>3, <1>4 DEF MutexAcquire

LEMMA ReleaseKeepsMutexes ==
  ASSUME MutexInv, TableInv', NEW t \in Task, NEW l \in Locks, MutexRelease(t, l)
  PROVE  /\ MutexInv'
         /\ \A m \in Locks \ {l} : Holders(m)' = Holders(m) /\ queue'[m] = queue[m]
         /\ Holders(l) = {t}
         /\ \/ queue[l] = <<>> /\ Holders(l)' = {} /\ queue'[l] = queue[l]
            \/ /\ queue[l] # <<>> /\ Holders(l)' = {Head(queue[l])}
               /\ queue'[l] = Tail(queue[l])
<1> USE DEF MutexInv
<1>0. /\ Calls(t) /\ l \in acq[t] /\ key[l] # FreeKey
      /\ acq' = [acq EXCEPT ![t] = @ \ {l}]
      /\ acq \in [Task -> SUBSET Locks] /\ lock \in [Locks -> {"UNLOCKED", "LOCKED"}]
      /\ UNCHANGED <<current_running, wakeup_time, ticks, timer>>
      /\ PassOn(l)
  BY DEF MutexRelease, TableInv, LockTypeOK
<1>1. \A u \in Task : \A m \in Locks : m \in acq'[u] <=> m \in acq[u] /\ ~(u = t /\ m = l)
  BY <1>0
<1>2. t \notin ToSet(queue[l]) /\ l \in WaitQueue
  <2>1. l \in Queue /\ l \in WaitQueue
    BY SchedAssumption DEF Queue, WaitQueue
  <2> QED BY <1>0, <2>1, BlockRunning
<1>3. lock[l] = "LOCKED" /\ Holders(l) = {t}
  <2>1. t \in Holders(l)
    BY <1>0, <1>2 DEF Holders
  <2> QED BY <1>0, <2>1 DEF LockWordAgrees
<1>4. \A u \in Task : u # t /\ l \in acq[u] => u \in ToSet(queue[l])
  BY <1>3 DEF Holders
<1>5. CASE queue[l] = <<>> /\ lock' = [lock EXCEPT ![l] = "UNLOCKED"] /\ UNCHANGED <<status, queue>>
  <2>1. GoingInv' /\ queue' = queue
    BY <1>0, <1>5, SchedVarsKeepGoing DEF schedVars
  <2>2. Holders(l)' = {}
    <3>1. ToSet(<<>>) = {}
      BY DEF ToSet
    <3> QED BY <1>1, <1>4, <1>5, <3>1 DEF Holders
  <2>3. \A m \in Locks \ {l} : Holders(m)' = Holders(m)
    BY <1>1, <2>1 DEF Holders
  <2>4. lock'[l] = "UNLOCKED" /\ \A m \in Locks \ {l} : lock'[m] = lock[m]
    BY <1>0, <1>5
  <2>5. LockWordAgrees'
    BY <1>5, <2>1, <2>2, <2>3, <2>4 DEF LockWordAgrees
  <2>6. WaitersAsked'
    <3> SUFFICES ASSUME NEW m \in Locks, NEW u \in ToSet(queue[m]) PROVE m \in acq'[u]
      BY <2>1 DEF WaitersAsked
    <3>1. u \in Task /\ m \in acq[u]
      BY WaitersAreTasks DEF WaitersAsked
    <3> QED BY <1>1, <1>2, <3>1
  <2> QED BY <1>3, <1>5, <2>1, <2>2, <2>3, <2>5, <2>6
<1>6. CASE /\ queue[l] # <<>> /\ UNCHANGED lock
           /\ status' = do_unblock(Kern, Head(queue[l])).status
           /\ queue' = do_unblock(Kern, Head(queue[l])).queue
  <2> DEFINE h == Head(queue[l])
  <2>1. /\ GoingInv'
        /\ h \in ToSet(queue[l]) \ {t}
        /\ queue'[l] = Tail(queue[l])
        /\ ToSet(queue'[l]) = ToSet(queue[l]) \ {h}
        /\ \A m \in Locks \ {l} : queue'[m] = queue[m]
    BY <1>0, <1>6, PassOnEffect
  <2> HIDE DEF h
  <2>2. h \in Task /\ l \in acq[h]
    BY <2>1, WaitersAreTasks DEF WaitersAsked
  <2>3. Holders(l)' = {h}
    BY <1>1, <1>2, <1>4, <2>1, <2>2 DEF Holders
  <2>4. \A m \in Locks \ {l} : Holders(m)' = Holders(m)
    BY <1>1, <2>1 DEF Holders
  <2>5. LockWordAgrees'
    BY <1>3, <1>6, <2>1, <2>2, <2>3, <2>4 DEF LockWordAgrees
  <2>6. WaitersAsked'
    <3> SUFFICES ASSUME NEW m \in Locks, NEW u \in ToSet(queue'[m]) PROVE m \in acq'[u]
      BY DEF WaitersAsked
    <3>1. u \in ToSet(queue[m])
      BY <2>1
    <3>2. u \in Task /\ m \in acq[u]
      BY <3>1, WaitersAreTasks DEF WaitersAsked
    <3> QED BY <1>1, <1>2, <3>1, <3>2
  <2> QED BY <1>3, <1>6, <2>1, <2>3, <2>4, <2>5, <2>6 DEF h
<1> QED BY <1>0, <1>5, <1>6 DEF PassOn

(***************************************************************************)
(* The steps that are neither an acquire nor a release.                    *)
(***************************************************************************)
LEMMA QuietStep ==
  ASSUME NeverWait # {}, FreeKey \notin Key, MutexInv,
         \/ SchedStep /\ UNCHANGED lockVars
         \/ \E t \in Task : \E k \in Key : MutexInit(t, k)
         \/ UNCHANGED kernelVars
  PROVE  /\ MutexInv'
         /\ \A l \in Locks : Holders(l)' = Holders(l) /\ queue'[l] = queue[l]
<1>1. [SchedStep]_schedVars /\ UNCHANGED <<lock, acq>>
  BY DEF MutexInit, lockVars, kernelVars, schedVars
<1>2. TableInv'
  BY TableStep DEF MutexInv, KernelStep
<1>3. NeverWait \in SUBSET Spinners
  BY DEF NeverWait
<1>4. GoingInv'
  BY <1>1, <1>3, HonestStep DEF MutexInv, GoingInv
<1>5. \A l \in Locks : queue'[l] = queue[l]
  BY <1>1, SchedKeepsWaiters DEF MutexInv
<1>6. \A l \in Locks : Holders(l)' = Holders(l)
  BY <1>1, <1>5, SameHolders
<1> QED BY <1>1, <1>2, <1>4, <1>5, <1>6, OtherStepsKeepMutexes

LEMMA MutexStep ==
  ASSUME NeverWait # {}, FreeKey \notin Key, MutexInv, [KernelStep]_kernelVars
  PROVE  MutexInv'
<1>1. TableInv'
  BY TableStep DEF MutexInv
<1> QED BY <1>1, QuietStep, AcquireKeepsMutexes, ReleaseKeepsMutexes DEF KernelStep

(***************************************************************************)
(* While some task never waits, the invariant holds for any number of      *)
(* programs, mutexes and keys, however acquires, releases, sleeps, exits   *)
(* and timer interrupts interleave.                                        *)
(***************************************************************************)
THEOREM MutexInvariant ==
  ASSUME NeverWait # {}, FreeKey \notin Key PROVE KernelSpec => []MutexInv
<1>1. KernelInit => MutexInv
  BY MutexInitInv
<1>2. MutexInv /\ [KernelStep]_kernelVars => MutexInv'
  BY MutexStep
<1> QED BY <1>1, <1>2, PTL DEF KernelSpec

\* The scheduler's state and the lock table stay well typed under every call of
\* do_mutex_lock_init, acquire and release too.
THEOREM KernelTypeCorrect ==
  ASSUME NeverWait # {}, FreeKey \notin Key PROVE KernelSpec => []KernelTypeOK
<1>1. MutexInv => KernelTypeOK
  BY DEF MutexInv, GoingInv, SchedInv, TableInv, KernelTypeOK
<1> QED BY <1>1, MutexInvariant, PTL

\* An open lock word has neither holder nor waiter, a closed one exactly one
\* holder: no interleaving of acquire and release loses a wake-up.
THEOREM LockWordsTellTheTruth ==
  ASSUME NeverWait # {}, FreeKey \notin Key PROVE KernelSpec => []LockWordAgrees
<1>1. MutexInv => LockWordAgrees
  BY DEF MutexInv
<1> QED BY <1>1, MutexInvariant, PTL

\* No two programs are between the return of do_mutex_lock_acquire and their
\* release of the same mutex.
THEOREM MutexesExclude ==
  ASSUME NeverWait # {}, FreeKey \notin Key PROVE KernelSpec => []MutualExclusion
<1>1. MutexInv => MutualExclusion
  <2> SUFFICES ASSUME MutexInv, NEW l \in Locks, NEW t \in Task, NEW u \in Task,
                      InCriticalSection(t, l), InCriticalSection(u, l)
               PROVE  t = u
    BY DEF MutualExclusion
  <2>1. \A v \in Task : current_running = v => v \notin ToSet(queue[l])
    BY SchedInvSound, SchedAssumption
    DEF MutexInv, GoingInv, CurrentRuns, Sound, Placed, Kern, WaitQueue, Queue
  <2>2. t \in Holders(l) /\ u \in Holders(l)
    BY <2>1 DEF InCriticalSection, Holders
  <2>3. lock[l] \in {"UNLOCKED", "LOCKED"}
    BY DEF MutexInv, TableInv, LockTypeOK
  <2> QED BY <2>2, <2>3 DEF MutexInv, LockWordAgrees
<1> QED BY <1>1, MutexInvariant, PTL

-----------------------------------------------------------------------
\* The owner the refinement mapping gives mutex l.
OwnerOf(l) ==
  IF Holders(l) = {} THEN NoOwner ELSE CHOOSE t \in Task : t \in Holders(l)

LEMMA OwnerProperties ==
  ASSUME NEW l
  PROVE  /\ Holders(l) = {} => OwnerOf(l) = NoOwner
         /\ \A t \in Task : Holders(l) = {t} => OwnerOf(l) = t
         /\ Holders(l) # {} => OwnerOf(l) \in Holders(l) /\ OwnerOf(l) # NoOwner
<1>1. Holders(l) \subseteq Task /\ NoOwner \notin Task
  BY DEF Holders, NoOwner, Task
<1> QED BY <1>1 DEF OwnerOf

(***************************************************************************)
(* Each step of the kernel is a step of the abstract mutexes or leaves     *)
(* them alone: an acquire takes or waits, a release frees or passes on.    *)
(***************************************************************************)
LEMMA StepRefines ==
  ASSUME NeverWait # {}, FreeKey \notin Key, MutexInv, [KernelStep]_kernelVars
  PROVE  [M!Next]_(M!vars)
<1> DEFINE owner   == [l \in Locks |-> OwnerOf(l)]
           waiters == [l \in Locks |-> queue[l]]
<1>0. TableInv'
  BY TableStep DEF MutexInv
<1>1. ASSUME NEW l \in Locks, Holders(l)' = Holders(l)
      PROVE  OwnerOf(l)' = OwnerOf(l)
  BY <1>1 DEF OwnerOf
<1>2. ASSUME NEW t \in Task, NEW l \in Locks, MutexAcquire(t, l)
      PROVE  M!Take(t, l) \/ M!Wait(t, l)
  <2>1. /\ \A m \in Locks \ {l} : Holders(m)' = Holders(m) /\ queue'[m] = queue[m]
        /\ \/ /\ Holders(l) = {} /\ Holders(l)' = {t}
              /\ queue'[l] = queue[l]
           \/ /\ Holders(l)' = Holders(l) /\ Holders(l) # {} /\ t \notin Holders(l)
              /\ t \notin ToSet(queue[l])
              /\ queue'[l] = Append(queue[l], t)
    BY <1>0, <1>2, AcquireKeepsMutexes
  <2>2. \A m \in Locks \ {l} : OwnerOf(m)' = OwnerOf(m)
    BY <1>1, <2>1
  <2>3. CASE Holders(l) = {} /\ Holders(l)' = {t} /\ queue'[l] = queue[l]
    <3>1. OwnerOf(l) = NoOwner /\ OwnerOf(l)' = t
      BY <2>3, OwnerProperties DEF OwnerOf, Task
    <3>2. owner' = [owner EXCEPT ![l] = t] /\ waiters' = waiters
      BY <2>1, <2>2, <2>3, <3>1
    <3> QED BY <3>1, <3>2 DEF M!Take, OwnerOf
  <2>4. CASE /\ Holders(l)' = Holders(l) /\ Holders(l) # {} /\ t \notin Holders(l)
             /\ t \notin ToSet(queue[l])
             /\ queue'[l] = Append(queue[l], t)
    <3>1. OwnerOf(l) \notin {NoOwner, t} /\ OwnerOf(l)' = OwnerOf(l)
      BY <1>1, <2>4, OwnerProperties
    <3>2. owner' = owner /\ waiters' = [waiters EXCEPT ![l] = Append(@, t)]
      BY <2>1, <2>2, <2>4, <3>1
    <3> QED BY <2>4, <3>1, <3>2 DEF M!Wait, M!ToSet, ToSet, OwnerOf
  <2> QED BY <2>1, <2>3, <2>4
<1>3. ASSUME NEW t \in Task, NEW l \in Locks, MutexRelease(t, l)
      PROVE  M!Free(l) \/ M!Pass(l)
  <2>1. /\ \A m \in Locks \ {l} : Holders(m)' = Holders(m) /\ queue'[m] = queue[m]
        /\ Holders(l) = {t}
        /\ \/ queue[l] = <<>> /\ Holders(l)' = {} /\ queue'[l] = queue[l]
           \/ /\ queue[l] # <<>> /\ Holders(l)' = {Head(queue[l])}
              /\ queue'[l] = Tail(queue[l])
    BY <1>0, <1>3, ReleaseKeepsMutexes
  <2>2. (\A m \in Locks \ {l} : OwnerOf(m)' = OwnerOf(m)) /\ OwnerOf(l) # NoOwner
    BY <1>1, <2>1, OwnerProperties
  <2>3. CASE queue[l] = <<>> /\ Holders(l)' = {} /\ queue'[l] = queue[l]
    <3>1. OwnerOf(l)' = NoOwner
      BY <2>3 DEF OwnerOf
    <3>2. owner' = [owner EXCEPT ![l] = NoOwner]
      <4>1. \A m \in Locks : OwnerOf(m)' = IF m = l THEN NoOwner ELSE OwnerOf(m)
        BY <2>2, <3>1
      <4> QED BY <4>1
    <3>3. waiters' = waiters
      BY <2>1, <2>3
    <3> QED BY <2>2, <2>3, <3>2, <3>3 DEF M!Free, OwnerOf
  <2>4. CASE /\ queue[l] # <<>> /\ Holders(l)' = {Head(queue[l])}
             /\ queue'[l] = Tail(queue[l])
    <3>1. Head(queue[l]) \in Task
      BY <2>4, WaitersAreTasks, HeadTailProperties DEF MutexInv
    <3>2. OwnerOf(l)' = Head(queue[l])
      BY <2>4, <3>1 DEF OwnerOf
    <3>3. /\ owner' = [owner EXCEPT ![l] = Head(waiters[l])]
          /\ waiters' = [waiters EXCEPT ![l] = Tail(@)]
      BY <2>1, <2>2, <2>4, <3>2
    <3> QED BY <2>4, <3>3 DEF M!Pass, OwnerOf
  <2> QED BY <2>1, <2>3, <2>4
<1>4. ASSUME \/ SchedStep /\ UNCHANGED lockVars
             \/ \E t \in Task : \E k \in Key : MutexInit(t, k)
             \/ UNCHANGED kernelVars
      PROVE  UNCHANGED M!vars
  <2>1. \A l \in Locks : Holders(l)' = Holders(l) /\ queue'[l] = queue[l]
    BY <1>4, QuietStep
  <2>2. \A l \in Locks : OwnerOf(l)' = OwnerOf(l)
    BY <1>1, <2>1
  <2>3. owner' = owner /\ waiters' = waiters
    BY <2>1, <2>2
  <2> QED BY <2>3 DEF M!vars, OwnerOf
<1> QED BY <1>2, <1>3, <1>4 DEF KernelStep, M!Next

(***************************************************************************)
(* While some task never waits, do_mutex_lock_acquire and release          *)
(* implement the abstract mutexes of module Mutex, for any number of       *)
(* programs, mutexes and keys: hand-over is one step, first come first     *)
(* served, and no newcomer gets in between.                                *)
(***************************************************************************)
THEOREM MutexesImplemented ==
  ASSUME NeverWait # {}, FreeKey \notin Key PROVE KernelSpec => MutexSpec
<1>1. KernelInit => M!Init
  <2> SUFFICES ASSUME KernelInit PROVE M!Init
    OBVIOUS
  <2>1. /\ \A l \in Locks : queue[l] = <<>>
        /\ \A t \in Task : acq[t] = {}
    BY SchedAssumption DEF KernelInit, SchedInit, Queue
  <2>2. \A l \in Locks : Holders(l) = {}
    BY <2>1 DEF Holders
  <2> QED BY <2>1, <2>2 DEF M!Init
<1>2. MutexInv /\ [KernelStep]_kernelVars => [M!Next]_(M!vars)
  BY StepRefines
<1> QED BY <1>1, <1>2, MutexInvariant, PTL DEF KernelSpec, MutexSpec, M!Spec

=======================================================================
