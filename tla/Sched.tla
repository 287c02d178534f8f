----------------------------- MODULE Sched -----------------------------
(***************************************************************************)
(* The scheduler, sleeping and preemption: kernel/sched/sched.c,           *)
(* kernel/sched/time.c, the timer handler of kernel/irq/irq.c, and the     *)
(* start state init/main.c leaves.                                         *)
(*                                                                         *)
(* One hart runs.  Traps are taken from user code (and from pid 0's idle   *)
(* loop) with interrupts off until sret, so a whole handler, up to the     *)
(* switch_to that ends it, is one action; tasks interleave between traps.  *)
(* do_scheduler's clock readings are the exception: rdtime keeps running.  *)
(*                                                                         *)
(* Time is counted in ticks, TimeBase of them to the second; a handler is  *)
(* short enough to see the clock move by at most one tick.                 *)
(***************************************************************************)
EXTENDS Queues

CONSTANTS
  NumTask,      \* tasks loaded by init_pcb; their pids are 1..NumTask
  Locks,        \* indices of mlocks, each with a block queue
  ready_queue,  \* the names of the two list heads of sched.c
  sleep_queue,
  Sleepers,     \* tasks whose program calls sys_sleep
  Quitters,     \* tasks whose program makes the exit system call
  TimeBase,     \* time_base: ticks per second
  TimerInterval,\* TIMER_INTERVAL, in ticks
  MaxSleep,     \* bound: largest argument of sys_sleep, in seconds
  MaxTicks      \* bound: the clock stops there

Task   == 1..NumTask
pid0   == 0
Proc   == {pid0} \cup Task
Queue  == Locks \cup {ready_queue, sleep_queue}
Status == {"BLOCKED", "RUNNING", "READY", "EXITED"}

ASSUME SchedAssumption ==
  /\ NumTask \in Nat \ {0}
  /\ ready_queue # sleep_queue
  /\ {ready_queue, sleep_queue} \cap Locks = {}
  /\ Sleepers \subseteq Task /\ Quitters \subseteq Task
  /\ TimeBase \in Nat \ {0} /\ TimerInterval \in Nat \ {0}
  /\ MaxSleep \in Nat /\ MaxTicks \in Nat

VARIABLES
  current_running,  \* the pid tp points to
  status,           \* pcb[..].status
  queue,            \* every list the kernel links PCBs into, head first
  wakeup_time,      \* pcb[..].wakeup_time, in seconds
  ticks,            \* rdtime
  timer             \* ticks left until the interrupt bios_set_timer asked for

schedVars == <<current_running, status, queue, wakeup_time, ticks, timer>>

\* What list and status operations work on.
Kern == [status |-> status, queue |-> queue]

-----------------------------------------------------------------------
(***************************************************************************)
(* A definition marked "Slip" is a plausible wrong version of the one that *)
(* follows it.  No specification uses it; it shows which property notices. *)
(***************************************************************************)

\* list_del, then list_add_tail.
list_move_tail(qs, t, x) ==
  [y \in Queue |-> IF y = x THEN Append(Without(qs[y], t), t) ELSE Without(qs[y], t)]

do_block(s, t, x) ==
  [status |-> [s.status EXCEPT ![t] = "BLOCKED"],
   queue  |-> list_move_tail(s.queue, t, x)]

do_unblock(s, t) ==
  [status |-> [s.status EXCEPT ![t] = "READY"],
   queue  |-> list_move_tail(s.queue, t, ready_queue)]

\* Seconds since boot at tick tk, rounded down.
get_timer(tk) == tk \div TimeBase

\* The clock may move on while check_sleeping scans: from the k-th sleeper on
\* it reads one tick more (k = Len + 1: it does not move).
Late(s, k) == k <= Len(s.queue[sleep_queue]) /\ ticks < MaxTicks

\* Slip: the comparison lets a task go a second early.
DueEarly(s, wk, k) ==
  {i \in DOMAIN s.queue[sleep_queue] :
     get_timer(ticks) + 1 >= wk[s.queue[sleep_queue][i]]}

\* Sleepers that find their wake-up time reached, by position.
Due(s, wk, k) ==
  {i \in DOMAIN s.queue[sleep_queue] :
     LET now == IF i >= k /\ Late(s, k) THEN ticks + 1 ELSE ticks
     IN  get_timer(now) >= wk[s.queue[sleep_queue][i]]}

\* Slip: woken tasks go to the head of the ready queue.
WakesToHead(s, wk, k) ==
  LET q   == s.queue[sleep_queue]
      due == Due(s, wk, k)
  IN  [status |-> [p \in Proc |-> IF \E i \in due : q[i] = p
                                  THEN "READY" ELSE s.status[p]],
       queue  |-> [s.queue EXCEPT ![sleep_queue] = Pick(q, DOMAIN q \ due),
                                  ![ready_queue] = Pick(q, due) \o @]]

\* Each due sleeper is unblocked in turn: to the tail of the ready queue, in
\* the order of the sleep queue.
check_sleeping(s, wk, k) ==
  LET q   == s.queue[sleep_queue]
      due == Due(s, wk, k)
  IN  [status |-> [p \in Proc |-> IF \E i \in due : q[i] = p
                                  THEN "READY" ELSE s.status[p]],
       queue  |-> [s.queue EXCEPT ![sleep_queue] = Pick(q, DOMAIN q \ due),
                                  ![ready_queue] = @ \o Pick(q, due)]]

\* Slip: the previous task is put back whatever its status.
PreemptsAlways(s) == TRUE

\* Slip: it is never put back.
PreemptsNever(s) == FALSE

\* The test on pre_running->status.
Preempts(s) == s.status[current_running] = "RUNNING"

\* do_scheduler after check_sleeping.  With nothing ready it returns, and
\* whoever was current goes on, whatever its status.
Dispatch(s) ==
  \/ /\ s.queue[ready_queue] = <<>>
     /\ status' = s.status /\ queue' = s.queue
     /\ UNCHANGED current_running
  \/ /\ s.queue[ready_queue] # <<>>
     /\ LET next == Head(s.queue[ready_queue])
        IN  /\ current_running' = next
            /\ \/ /\ Preempts(s)
                  /\ status' = [s.status EXCEPT ![current_running] = "READY",
                                                ![next] = "RUNNING"]
                  /\ queue' = [s.queue EXCEPT
                                 ![ready_queue] = Tail(Append(@, current_running))]
               \/ /\ ~Preempts(s)
                  /\ status' = [s.status EXCEPT ![next] = "RUNNING"]
                  /\ queue' = [s.queue EXCEPT ![ready_queue] = Tail(@)]

\* Slip: the sleep queue is not checked.
SchedulerWithoutCheck(s, wk, tm) ==
  Dispatch(s) /\ timer' = tm /\ UNCHANGED ticks

\* tm is the countdown the handler found or set.
do_scheduler(s, wk, tm) ==
  \E k \in 1..(Len(s.queue[sleep_queue]) + 1) :
    /\ ticks' = IF Late(s, k) THEN ticks + 1 ELSE ticks
    /\ timer' = IF Late(s, k) /\ tm > 0 THEN tm - 1 ELSE tm
    /\ Dispatch(check_sleeping(s, wk, k))

-----------------------------------------------------------------------
\* A program that has exited makes no further call.
Calls(t) == current_running = t /\ status[t] # "EXITED"

Yield(t) ==
  /\ Calls(t)
  /\ do_scheduler(Kern, wakeup_time, timer)
  /\ UNCHANGED wakeup_time

\* The bound keeps every wake-up time within the clock's range.
Sleep(t, sleep_time) ==
  /\ Calls(t) /\ t \in Sleepers
  /\ get_timer(ticks) + sleep_time <= get_timer(MaxTicks)
  /\ LET wk == [wakeup_time EXCEPT ![t] = get_timer(ticks) + sleep_time]
     IN  /\ wakeup_time' = wk
         /\ do_scheduler(do_block(Kern, t, sleep_queue), wk, timer)

Exit(t) ==
  /\ Calls(t) /\ t \in Quitters
  /\ do_scheduler([status |-> [status EXCEPT ![t] = "EXITED"], queue |-> queue],
                  wakeup_time, timer)
  /\ UNCHANGED wakeup_time

\* Slip: the handler sets the timer and leaves the running task on.
HandlerWithoutScheduler ==
  /\ timer = 0 /\ timer' = TimerInterval
  /\ UNCHANGED <<current_running, status, queue, wakeup_time, ticks>>

\* handle_irq_timer sets the next deadline, then schedules.
TimerInterrupt ==
  /\ timer = 0
  /\ do_scheduler(Kern, wakeup_time, TimerInterval)
  /\ UNCHANGED wakeup_time

\* The hardware clock, and the countdown of the timer with it.
Tick ==
  /\ ticks' = IF ticks < MaxTicks THEN ticks + 1 ELSE ticks
  /\ timer' = IF timer > 0 THEN timer - 1 ELSE timer
  /\ UNCHANGED <<current_running, status, queue, wakeup_time>>

\* init_pcb and init_locks; current_running is pid0_pcb, whose status is the
\* zero of the enumeration and which is in no list.
SchedInit ==
  /\ current_running = pid0
  /\ status = [p \in Proc |-> IF p = pid0 THEN "BLOCKED" ELSE "READY"]
  /\ queue = [x \in Queue |-> IF x = ready_queue THEN [i \in Task |-> i] ELSE <<>>]
  /\ wakeup_time = [t \in Task |-> 0]
  /\ ticks = 0
  /\ timer = TimerInterval

SchedStep ==
  \/ Tick
  \/ TimerInterrupt
  \/ \E t \in Task : \/ Yield(t)
                     \/ \E n \in 0..MaxSleep : Sleep(t, n)
                     \/ Exit(t)

\* The clock runs and a pending interrupt is taken; no program is assumed to
\* do anything.
SchedFairness == WF_schedVars(Tick) /\ WF_schedVars(TimerInterrupt)

SchedSpec == SchedInit /\ [][SchedStep]_schedVars /\ SchedFairness

-----------------------------------------------------------------------
\* current_running points to a PCB, and the lists link tasks only: pid 0, which
\* do_scheduler switches away from in main, is never put in one.
SchedTypeOK ==
  /\ current_running \in Proc
  /\ status \in [Proc -> Status]
  /\ queue \in [Queue -> Seq(Task)]
  /\ wakeup_time \in [Task -> Nat]
  /\ ticks \in Nat
  /\ timer \in 0..TimerInterval

WaitQueue == Queue \ {ready_queue}

\* A PCB has one list node: no list holds it twice, no two lists share it.
ListsDisjoint(qs) ==
  /\ \A x \in Queue : IsInjective(qs[x])
  /\ \A x, y \in Queue : x # y => ToSet(qs[x]) \cap ToSet(qs[y]) = {}

\* Status and list membership agree.  An exited task can only be left in the
\* sleep queue or a block queue.
Placed(s) ==
  /\ \A t \in Task : s.status[t] = "READY" <=> t \in ToSet(s.queue[ready_queue])
  /\ \A t \in Task : s.status[t] = "BLOCKED" =>
                       \E x \in WaitQueue : t \in ToSet(s.queue[x])
  /\ \A x \in WaitQueue : \A t \in ToSet(s.queue[x]) :
                       s.status[t] \in {"BLOCKED", "EXITED"}

\* No task is lost or duplicated by any sequence of calls, wake-ups and
\* interrupts: what is not running is linked exactly where its status says,
\* and only the current task runs.
NoTaskLost ==
  /\ ListsDisjoint(queue)
  /\ Placed(Kern)
  /\ \A p \in Proc : status[p] = "RUNNING" => current_running = p

\* Programs that never sleep or exit: while there is one, a ready queue found
\* empty means that it is the one running.
Spinners == Task \ (Sleepers \cup Quitters)

\* With a spinner, the processor is never left with a task that is blocked,
\* ready or exited: sys_sleep and do_exit do not return to their caller early.
CurrentRuns == current_running \in Task => status[current_running] = "RUNNING"

\* With a spinner, a task runs only once its wake-up time has come.
RunsAwake ==
  \A t \in Task : current_running = t => get_timer(ticks) >= wakeup_time[t]

\* With a spinner, do_exit is final: neither it nor any later wake-up or
\* requeue makes the task runnable again.
ExitIsFinal ==
  [][\A t \in Task : status[t] = "EXITED" \/ Exit(t) =>
       status'[t] = "EXITED" /\ current_running' # t]_schedVars

Before(q, t, u) == \E i, j \in DOMAIN q : i < j /\ q[i] = t /\ q[j] = u

\* Tasks that wait in the ready queue are not overtaken, neither by another
\* that waits there nor by a newcomer.
NoOvertaking ==
  [][LET old == queue[ready_queue]
         new == queue'[ready_queue]
     IN  \A t \in ToSet(old) \cap ToSet(new) : \A u \in ToSet(new) \ {t} :
           u \notin ToSet(old) \/ Before(old, t, u) => Before(new, t, u)]_schedVars

\* A ready task gets the processor, though others never give it up.
ReadyRuns == \A t \in Task : status[t] = "READY" ~> current_running = t

\* sys_sleep returns.
SleepersRun ==
  \A t \in Task : t \in ToSet(queue[sleep_queue]) ~> status[t] = "RUNNING"

=======================================================================
