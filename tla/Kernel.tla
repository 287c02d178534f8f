---------------------------- MODULE Kernel ----------------------------
(***************************************************************************)
(* The mutexes of kernel/locking/lock.c on top of the scheduler: a table   *)
(* of LOCK_NUM locks named by keys, each a spin lock word and the queue of *)
(* the tasks blocked on it.  A release hands the lock to the first waiter. *)
(*                                                                         *)
(* Programs use a mutex the way test_project2/lock1.c does: they initialise*)
(* it by key, insist on a non-negative index, acquire it when they do not  *)
(* have it and release it only after their acquire call returned.          *)
(***************************************************************************)
EXTENDS Sched

CONSTANTS
  Lockers,  \* tasks whose program uses mutexes
  Key,      \* the keys they pass to sys_mutex_init
  KeysOf    \* which of them the program of a locker uses

FreeKey  == -1  \* marks a free slot of mlocks
NoIndex  == -1  \* what do_mutex_lock_init returns when the table is full
NotAsked == -2  \* the program has not called sys_mutex_init with the key yet

ASSUME KernelAssumption ==
  /\ Locks \subseteq Nat
  /\ Lockers \subseteq Task
  /\ Key \subseteq Int
  /\ KeysOf \in [Lockers -> SUBSET Key]

VARIABLES
  key,    \* mlocks[..].key
  lock,   \* mlocks[..].lock.status
  handle, \* the index each program got for each key
  acq     \* the mutexes each program has called acquire on since its last release

lockVars == <<key, lock, handle, acq>>
kernelVars == <<current_running, status, queue, wakeup_time, ticks, timer,
                key, lock, handle, acq>>

-----------------------------------------------------------------------
\* The first index in a non-empty set of them.
First(I) == CHOOSE i \in I : \A j \in I : i <= j

\* Slip: the table is not searched for the key before a slot is taken.
IndexAlwaysNew(k) ==
  IF \E l \in Locks : key[l] = FreeKey
  THEN First({l \in Locks : key[l] = FreeKey})
  ELSE NoIndex

\* Slip: a full table gives out its first slot again.
IndexFirstSlot(k) ==
  IF \E l \in Locks : key[l] \in {k, FreeKey}
  THEN First({l \in Locks : key[l] \in {k, FreeKey}})
  ELSE First(Locks)

\* What do_mutex_lock_init returns: the slot with the key, else the first
\* free slot, else -1.
IndexFor(k) ==
  IF \E l \in Locks : key[l] = k
  THEN First({l \in Locks : key[l] = k})
  ELSE IF \E l \in Locks : key[l] = FreeKey
       THEN First({l \in Locks : key[l] = FreeKey})
       ELSE NoIndex

MutexInit(t, k) ==
  /\ Calls(t) /\ t \in Lockers /\ k \in KeysOf[t]
  /\ handle' = [handle EXCEPT ![t][k] = IndexFor(k)]
  /\ key' = [l \in Locks |-> IF l = IndexFor(k) THEN k ELSE key[l]]
  /\ UNCHANGED <<schedVars, lock, acq>>

\* The lock is taken: block on it and give up the processor.
BlockOn(t, l) ==
  /\ do_scheduler(do_block(Kern, t, l), wakeup_time, timer)
  /\ UNCHANGED wakeup_time

\* do_mutex_lock_acquire: nothing on a free slot; else the swap of
\* spin_lock_try_acquire leaves LOCKED and tells whether it was.
MutexAcquire(t, l) ==
  /\ Calls(t) /\ t \in Lockers
  /\ l \in {handle[t][k] : k \in Key} /\ l \in Locks \ acq[t]
  /\ acq' = [acq EXCEPT ![t] = @ \cup {l}]
  /\ \/ key[l] = FreeKey /\ UNCHANGED <<schedVars, lock>>
     \/ /\ key[l] # FreeKey
        /\ lock' = [lock EXCEPT ![l] = "LOCKED"]
        /\ \/ lock[l] = "UNLOCKED" /\ UNCHANGED schedVars
           \/ lock[l] = "LOCKED" /\ BlockOn(t, l)
  /\ UNCHANGED <<key, handle>>

\* Slip: the lock is opened and the first waiter woken as well.
WakeAndUnlock(l) ==
  /\ lock' = [lock EXCEPT ![l] = "UNLOCKED"]
  /\ IF queue[l] = <<>>
     THEN UNCHANGED <<status, queue>>
     ELSE LET s == do_unblock(Kern, Head(queue[l]))
          IN  status' = s.status /\ queue' = s.queue

\* Slip: the lock is opened and the waiters are left where they are.
UnlockOnly(l) ==
  lock' = [lock EXCEPT ![l] = "UNLOCKED"] /\ UNCHANGED <<status, queue>>

\* Slip: the waiter that came last is served first.
PassToLast(l) ==
  \/ /\ queue[l] = <<>>
     /\ lock' = [lock EXCEPT ![l] = "UNLOCKED"]
     /\ UNCHANGED <<status, queue>>
  \/ /\ queue[l] # <<>>
     /\ LET s == do_unblock(Kern, queue[l][Len(queue[l])])
        IN  status' = s.status /\ queue' = s.queue
     /\ UNCHANGED lock

\* With no waiter the lock opens; else it stays LOCKED and the first waiter,
\* made ready, now has it.
PassOn(l) ==
  \/ /\ queue[l] = <<>>
     /\ lock' = [lock EXCEPT ![l] = "UNLOCKED"]
     /\ UNCHANGED <<status, queue>>
  \/ /\ queue[l] # <<>>
     /\ LET s == do_unblock(Kern, Head(queue[l]))
        IN  status' = s.status /\ queue' = s.queue
     /\ UNCHANGED lock

MutexRelease(t, l) ==
  /\ Calls(t) /\ l \in acq[t]
  /\ acq' = [acq EXCEPT ![t] = @ \ {l}]
  /\ \/ key[l] = FreeKey /\ UNCHANGED <<status, queue, lock>>
     \/ key[l] # FreeKey /\ PassOn(l)
  /\ UNCHANGED <<current_running, wakeup_time, ticks, timer, key, handle>>

\* init_locks
KernelInit ==
  /\ SchedInit
  /\ key = [l \in Locks |-> FreeKey]
  /\ lock = [l \in Locks |-> "UNLOCKED"]
  /\ handle = [t \in Lockers |-> [k \in Key |-> NotAsked]]
  /\ acq = [t \in Task |-> {}]

KernelStep ==
  \/ SchedStep /\ UNCHANGED lockVars
  \/ \E t \in Task :
       \/ \E k \in Key : MutexInit(t, k)
       \/ \E l \in Locks : MutexAcquire(t, l) \/ MutexRelease(t, l)

KernelSpec == KernelInit /\ [][KernelStep]_kernelVars

\* As for the scheduler; and a program that has a mutex and keeps getting the
\* processor releases it in the end (lock1.c: one hundred lines, then release).
KernelFairness ==
  /\ WF_kernelVars(Tick /\ UNCHANGED lockVars)
  /\ WF_kernelVars(TimerInterrupt /\ UNCHANGED lockVars)
  /\ \A t \in Lockers : SF_kernelVars(\E l \in Locks : MutexRelease(t, l))

FairKernelSpec == KernelSpec /\ KernelFairness

-----------------------------------------------------------------------
LockTypeOK ==
  /\ key \in [Locks -> Key \cup {FreeKey}]
  /\ lock \in [Locks -> {"UNLOCKED", "LOCKED"}]
  /\ handle \in [Lockers -> [Key -> Locks \cup {NoIndex, NotAsked}]]
  /\ acq \in [Task -> SUBSET Locks]

\* The scheduler's state, and the lock table: the index do_mutex_lock_init gives
\* a program is a slot of mlocks or -1.
KernelTypeOK == SchedTypeOK /\ LockTypeOK

\* The tasks an acquire of l has been granted to.
Holders(l) == {t \in Task : l \in acq[t] /\ t \notin ToSet(queue[l])}

\* t is between the return of its acquire and its release: it is not queued, or
\* it is, and runs all the same.
InCriticalSection(t, l) ==
  l \in acq[t] /\ (t \notin ToSet(queue[l]) \/ current_running = t)

\* Tasks that always run or are ready.  While there is one, do_scheduler never
\* finds the ready queue empty when a call blocks.
NeverWait == Spinners \ Lockers

\* Mutual exclusion between programs, across preemption, sleeping with the
\* mutex, and hand-over.
MutualExclusion ==
  \A l \in Locks : \A t, u \in Task :
    InCriticalSection(t, l) /\ InCriticalSection(u, l) => t = u

\* The lock word, the block queue and the programs agree: an open lock has
\* neither holder nor waiter, a closed one exactly one holder.  A waiter whose
\* lock nobody would ever hand over (a lost wake-up) is excluded.
LockWordAgrees ==
  \A l \in Locks :
    /\ lock[l] = "UNLOCKED" => Holders(l) = {} /\ queue[l] = <<>>
    /\ lock[l] = "LOCKED" => \E t \in Task : Holders(l) = {t}

\* Two programs get the same mutex exactly when they use the same key.
KeyNamesOneMutex ==
  \A t, u \in Lockers : \A j, k \in Key :
    handle[t][j] \in Locks /\ handle[u][k] \in Locks =>
      (handle[t][j] = handle[u][k] <=> j = k)

\* A slot, once claimed, keeps its key: the index a program stored stays good.
KeysStay ==
  [][\A l \in Locks : key[l] # FreeKey => key'[l] = key[l]]_kernelVars

\* What the mutexes promise, and how the kernel's state shows it.
NoOwner == 0
M == INSTANCE Mutex WITH
       owner   <- [l \in Locks |-> IF Holders(l) = {} THEN NoOwner
                                   ELSE CHOOSE t \in Task : t \in Holders(l)],
       waiters <- [l \in Locks |-> queue[l]]

\* Acquire and release implement the abstract mutexes, through preemption,
\* sleeping and exit: do_mutex_lock_release passes the mutex to the first task
\* of the block queue in one step, and that task need not take it again.
MutexSpec == M!Spec

\* Every task that blocks on a mutex gets it and runs.
WaitersServed ==
  \A t \in Task : \A l \in Locks :
    t \in ToSet(queue[l]) ~> t \in Holders(l) /\ current_running = t

=======================================================================
