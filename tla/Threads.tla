---------------------------- MODULE Threads ----------------------------
(***************************************************************************)
(* The scheduler on its real data, with threads: list nodes and pointers   *)
(* in place of queues, do_thread_create and do_thread_yield                *)
(* (kernel/sched/thread.c), and the loop of check_sleeping.                *)
(*                                                                         *)
(* A process is a ring of PCBs with one pid.  One of them takes part in    *)
(* scheduling; do_thread_yield makes another one take its place, while the *)
(* others are parked: READY, but in no queue.  The process as a whole is   *)
(* then a task of Sched, which this module is shown to implement.          *)
(***************************************************************************)
EXTENDS ListHeap, FiniteSetsExt

CONSTANTS
  NumTask,      \* as in Sched
  NumThread,    \* bound: threads created in all
  ready_queue, sleep_queue, Sleepers, Quitters, TimeBase, TimerInterval,
  MaxSleep, MaxTicks,
  Threaders     \* tasks whose program creates threads

Task  == 1..NumTask
Tcb   == NumTask + 1 .. NumTask + NumThread
Pcb   == Task \cup Tcb
pid0  == 0
Heads == {ready_queue, sleep_queue}
Node  == Heads \cup Pcb

\* The list heads are variables of sched.c, no PCBs.
ASSUME ThreadsAssumption ==
  /\ NumTask \in Nat \ {0} /\ NumThread \in Nat
  /\ ready_queue # sleep_queue
  /\ Heads \cap ({pid0} \cup Pcb) = {}
  /\ Sleepers \subseteq Task /\ Quitters \subseteq Task /\ Threaders \subseteq Task
  /\ TimeBase \in Nat \ {0} /\ TimerInterval \in Nat \ {0}
  /\ MaxSleep \in Nat /\ MaxTicks \in Nat

VARIABLES
  current_running,
  status,
  list,         \* the list nodes of the PCBs, and the list heads
  thread_group, \* the thread_group nodes of the PCBs
  pid,          \* pid0 for a TCB not allocated yet
  wakeup_time, ticks, timer

threadVars == <<current_running, status, list, thread_group, pid,
                wakeup_time, ticks, timer>>

-----------------------------------------------------------------------
do_block(s, p, head) ==
  [status |-> [s.status EXCEPT ![p] = "BLOCKED"],
   list   |-> list_move_tail(s.list, p, head)]

do_unblock(s, p) ==
  [status |-> [s.status EXCEPT ![p] = "READY"],
   list   |-> list_move_tail(s.list, p, ready_queue)]

get_timer(tk) == tk \div TimeBase

\* The loop of list_for_each_safe after i rounds: n is read before pos moves
\* to another list.  From round k on the clock shows one tick more.
Scan(s, wk, k, rounds) ==
  LET at[i \in 0..rounds] ==
        IF i = 0
        THEN LET first == s.list.next[sleep_queue]
             IN  [s |-> s, pos |-> first, n |-> s.list.next[first]]
        ELSE LET b     == at[i - 1]
                 now   == IF i >= k THEN ticks + 1 ELSE ticks
                 after == IF get_timer(now) >= wk[b.pos]
                          THEN do_unblock(b.s, b.pos) ELSE b.s
             IN  IF b.pos = sleep_queue THEN b
                 ELSE [s |-> after, pos |-> b.n, n |-> after.list.next[b.n]]
  IN  at[rounds]

\* A loop that is not over after a round for every PCB never is.
check_sleeping(s, wk, k) == Scan(s, wk, k, Cardinality(Pcb))

Dispatch(s) ==
  LET pre   == current_running
      runs  == s.status[pre] = "RUNNING"
      added == IF runs THEN list_add_tail(s.list, pre, ready_queue) ELSE s.list
      next  == added.next[ready_queue]
  IN  \/ /\ list_empty(s.list, ready_queue)
         /\ status' = s.status /\ list' = s.list
         /\ UNCHANGED current_running
      \/ /\ ~list_empty(s.list, ready_queue)
         /\ current_running' = next
         /\ status' = [s.status EXCEPT ![pre] = IF runs THEN "READY" ELSE @,
                                       ![next] = "RUNNING"]
         /\ list' = list_del_init(added, next)

\* The clock moves before round k of the scan, or (the last k) not at all.
do_scheduler(s, wk, tm) ==
  LET len == Len(Entries(s.list, sleep_queue))
  IN  \E k \in 1..(len + 1) :
        LET late == k <= len /\ ticks < MaxTicks
            end  == check_sleeping(s, wk, IF late THEN k ELSE Cardinality(Pcb) + 1)
        IN  /\ ticks' = IF late THEN ticks + 1 ELSE ticks
            /\ timer' = IF late /\ tm > 0 THEN tm - 1 ELSE tm
            /\ end.pos = sleep_queue
            /\ Dispatch(end.s)
            /\ UNCHANGED <<thread_group, pid>>

-----------------------------------------------------------------------
Kern == [status |-> status, list |-> list]

Calls(p) == current_running = p /\ status[p] # "EXITED"

Yield(p) ==
  /\ Calls(p)
  /\ do_scheduler(Kern, wakeup_time, timer)
  /\ UNCHANGED wakeup_time

Sleep(p, sleep_time) ==
  /\ Calls(p) /\ pid[p] \in Sleepers
  /\ get_timer(ticks) + sleep_time <= get_timer(MaxTicks)
  /\ LET wk == [wakeup_time EXCEPT ![p] = get_timer(ticks) + sleep_time]
     IN  /\ wakeup_time' = wk
         /\ do_scheduler(do_block(Kern, p, sleep_queue), wk, timer)

Exit(p) ==
  /\ Calls(p) /\ pid[p] \in Quitters
  /\ do_scheduler([status |-> [status EXCEPT ![p] = "EXITED"], list |-> list],
                  wakeup_time, timer)
  /\ UNCHANGED wakeup_time

TimerInterrupt ==
  /\ timer = 0
  /\ do_scheduler(Kern, wakeup_time, TimerInterval)
  /\ UNCHANGED wakeup_time

Tick ==
  /\ ticks' = IF ticks < MaxTicks THEN ticks + 1 ELSE ticks
  /\ timer' = IF timer > 0 THEN timer - 1 ELSE timer
  /\ UNCHANGED <<current_running, status, list, thread_group, pid, wakeup_time>>

\* Slip: the new thread is queued as well.
CreateQueued(p, tcb) ==
  /\ Calls(p) /\ pid[p] \in Threaders /\ pid[tcb] = pid0
  /\ \A q \in Tcb : q < tcb => pid[q] # pid0
  /\ pid' = [pid EXCEPT ![tcb] = pid[p]]
  /\ status' = [status EXCEPT ![tcb] = "READY"]
  /\ list' = list_add_tail(init_list_head(list, tcb), tcb, ready_queue)
  /\ thread_group' = list_add(init_list_head(thread_group, tcb), tcb, p)
  /\ UNCHANGED <<current_running, wakeup_time, ticks, timer>>

\* The TCBs are allocated in order.
ThreadCreate(p, tcb) ==
  /\ Calls(p) /\ pid[p] \in Threaders /\ pid[tcb] = pid0
  /\ \A q \in Tcb : q < tcb => pid[q] # pid0
  /\ pid' = [pid EXCEPT ![tcb] = pid[p]]
  /\ status' = [status EXCEPT ![tcb] = "READY"]
  /\ list' = init_list_head(list, tcb)
  /\ thread_group' = list_add(init_list_head(thread_group, tcb), tcb, p)
  /\ UNCHANGED <<current_running, wakeup_time, ticks, timer>>

\* Any process may call it: alone in its ring it yields to itself.
ThreadYield(p) ==
  /\ Calls(p)
  /\ LET next == thread_group.next[p]
     IN  /\ current_running' = next
         /\ status' = [status EXCEPT ![p] = "READY", ![next] = "RUNNING"]
         /\ list' = init_list_head(list, next)
  /\ UNCHANGED <<thread_group, pid, wakeup_time, ticks, timer>>

\* init_pcb adds the tasks to the ready queue one after the other.  What a
\* TCB holds before it is allocated is never read.
Init ==
  /\ current_running = pid0
  /\ status = [p \in {pid0} \cup Pcb |-> IF p \in Task THEN "READY" ELSE "BLOCKED"]
  /\ list = LET add[t \in 0..NumTask] ==
                  IF t = 0 THEN Unlinked(Node)
                  ELSE list_add_tail(add[t - 1], t, ready_queue)
            IN  add[NumTask]
  /\ thread_group = Unlinked(Pcb)
  /\ pid = [p \in {pid0} \cup Pcb |-> IF p \in Task THEN p ELSE pid0]
  /\ wakeup_time = [p \in Pcb |-> 0]
  /\ ticks = 0
  /\ timer = TimerInterval

Next ==
  \/ Tick
  \/ TimerInterrupt
  \/ \E p \in Pcb : \/ Yield(p)
                    \/ \E n \in 0..MaxSleep : Sleep(p, n)
                    \/ Exit(p)
                    \/ ThreadYield(p)
                    \/ \E tcb \in Tcb : ThreadCreate(p, tcb)

Spec == Init /\ [][Next]_threadVars

-----------------------------------------------------------------------
\* The threads of a process.
Group(t) == {p \in Pcb : pid[p] = t}

\* p is in a queue.
Linked(p) == list.next[p] # p

Parked(p) == status[p] = "READY" /\ ~Linked(p) /\ current_running # p

\* Every list reads the same in both directions and leads back to its head: a
\* node leads to itself, or to exactly one of the heads.
ListsWhole ==
  /\ Rings(list)
  /\ \A p \in Pcb : Linked(p) =>
       \E x \in Heads : \E i \in 1..Cardinality(Pcb) : Nth(list, x, i) = p
  /\ \A x, y \in Heads : x # y =>
       \A i \in 1..Cardinality(Pcb) : Nth(list, x, i) # y

\* Two threads of a process never take part in scheduling at once, and one
\* always does: do_thread_yield finds the thread it resumes in no queue.
OneTakesPart == \A t \in Task : \E p \in Group(t) : Group(t) = {p} \cup
                  {q \in Group(t) : Parked(q)} /\ ~Parked(p)

\* From each of its threads, the ring of a process leads through all of them:
\* no thread is left where do_thread_yield cannot reach it.
RingsComplete ==
  /\ Rings(thread_group)
  /\ \A t \in Task : \A p, q \in Group(t) :
       \E i \in 1..Cardinality(Pcb) : Nth(thread_group, p, i) = q

\* The thread of t that takes part in scheduling.
Active(t) == CHOOSE p \in Group(t) : ~Parked(p)

S == INSTANCE Sched WITH
       Locks           <- {},
       current_running <- pid[current_running],
       status          <- [t \in {pid0} \cup Task |->
                             IF t = pid0 THEN status[pid0] ELSE status[Active(t)]],
       queue           <- [x \in Heads |->
                             LET q == Entries(list, x)
                             IN  [i \in DOMAIN q |-> pid[q[i]]]],
       wakeup_time     <- [t \in Task |-> Max({wakeup_time[p] : p \in Group(t)})]

\* The pointers implement the queues, and threads leave preemptive scheduling
\* alone: a switch between threads of a process is no step of the scheduler.
SchedulerSpec == S!SchedInit /\ [][S!SchedStep]_(S!schedVars)

=======================================================================
