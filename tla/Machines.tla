--------------------------- MODULE Machines ---------------------------
(***************************************************************************)
(* What traps and context switches promise the programs: each task has a  *)
(* register file of its own that only its own steps change, except that   *)
(* the result of a system call appears in a0 and the pc then points behind *)
(* the ecall.  The kernel resumes no task whose call is unanswered.       *)
(***************************************************************************)
EXTENDS Integers

CONSTANTS
  Owner,      \* tasks and threads
  Fresh(_),   \* the files a task may start with
  Stepped(_), \* the files one user instruction may lead to
  Answered(_) \* the files a file may become when a call returns

NoFile == [pc |-> -1]    \* of a task that does not exist yet
Kernel == -1             \* the processor is in the kernel

VARIABLES
  file,    \* the registers of each task, as the task sees them
  calling, \* the tasks whose system call has not been answered
  running  \* the task the processor executes, or Kernel

vars == <<file, calling, running>>

Init ==
  /\ DOMAIN file = Owner
  /\ \A p \in Owner : file[p] = NoFile \/ file[p] \in Fresh(p)
  /\ calling = {}
  /\ running \in Owner

Step(p) ==
  /\ running = p
  /\ \E f \in Stepped(file[p]) : file' = [file EXCEPT ![p] = f]
  /\ UNCHANGED <<calling, running>>

Interrupt(p) == running = p /\ running' = Kernel /\ UNCHANGED <<file, calling>>

Call(p) ==
  /\ running = p /\ running' = Kernel
  /\ calling' = calling \cup {p}
  /\ UNCHANGED file

Answer(p) ==
  /\ running = Kernel /\ p \in calling
  /\ \E f \in Answered(file[p]) : file' = [file EXCEPT ![p] = f]
  /\ calling' = calling \ {p}
  /\ UNCHANGED running

Create(p) ==
  /\ running = Kernel /\ file[p] = NoFile
  /\ \E f \in Fresh(p) : file' = [file EXCEPT ![p] = f]
  /\ UNCHANGED <<calling, running>>

Resume(p) ==
  /\ running = Kernel /\ p \notin calling /\ file[p] # NoFile
  /\ running' = p
  /\ UNCHANGED <<file, calling>>

Next == \E p \in Owner :
  Step(p) \/ Interrupt(p) \/ Call(p) \/ Answer(p) \/ Create(p) \/ Resume(p)

Spec == Init /\ [][Next]_vars
=======================================================================
