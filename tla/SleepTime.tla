--------------------------- MODULE SleepTime ---------------------------
(***************************************************************************)
(* How long sys_sleep lasts.  Sched keeps wake-up times in whole seconds,  *)
(* as the code does; here every call to sleep also records the tick at     *)
(* which the requested time will really have passed.                       *)
(***************************************************************************)
EXTENDS Sched

VARIABLE due  \* history: per task, the end of its last sleep in ticks

timeVars == <<current_running, status, queue, wakeup_time, ticks, timer, due>>

TimeInit == SchedInit /\ due = [t \in Task |-> 0]

SleepFrom(t, n) ==
  Sleep(t, n) /\ due' = [due EXCEPT ![t] = ticks + n * TimeBase]

OtherStep ==
  /\ \/ Tick
     \/ TimerInterrupt
     \/ \E t \in Task : Yield(t) \/ Exit(t)
  /\ UNCHANGED due

TimeStep == OtherStep \/ \E t \in Task : \E n \in 0..MaxSleep : SleepFrom(t, n)

\* As SchedFairness: the clock runs, and a pending interrupt is taken.
TimeFairness ==
  WF_timeVars(Tick /\ UNCHANGED due) /\ WF_timeVars(TimerInterrupt /\ UNCHANGED due)

TimeSpec == TimeInit /\ [][TimeStep]_timeVars /\ TimeFairness

\* With a spinner, a task that runs after sleeping is less than a second early.
LessThanASecondEarly ==
  \A t \in Task : current_running = t => due[t] < ticks + TimeBase

=======================================================================
