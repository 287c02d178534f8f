---------------------------- MODULE Context ----------------------------
(***************************************************************************)
(* Trap entry, the frames on the kernel stacks and switch_to (entry.S),    *)
(* the frames made by init_pcb_stack and init_tcb_stack, the write of a    *)
(* system call's result (handle_syscall) and the page allocators (mm.c).   *)
(*                                                                         *)
(* Memory is an array of words.  A regs_context, a switchto_context, the   *)
(* frames of the C functions between them and a tcb take a word each; the  *)
(* stacks grow down inside pages of PAGE_SIZE words.  What has been popped *)
(* off a stack is set to Nothing, so that a run stops should it be read.   *)
(* Which task runs next is left open: Sched says that.                     *)
(***************************************************************************)
EXTENDS Integers, FiniteSets

CONSTANTS
  NumTask,    \* tasks loaded by init_pcb
  NumThread,  \* bound: threads created in all
  PAGE_SIZE,  \* words in a page
  MaxDepth,   \* bound: words of C frames between a trap and switch_to
  PcBound,    \* program counters are counted modulo this
  Value       \* what registers may hold

Junk == -1    \* a value no program put there
pid0 == 0
Task == 1..NumTask
Tcb  == NumTask + 1 .. NumTask + NumThread
Pcb  == {pid0} \cup Task \cup Tcb

ASSUME ContextAssumption ==
  /\ NumTask \in Nat \ {0} /\ NumThread \in Nat
  /\ MaxDepth \in Nat \ {0} /\ PcBound \in Nat \ {0}
  /\ PAGE_SIZE \in Nat /\ PAGE_SIZE >= MaxDepth + 3
  /\ Value \subseteq Nat

\* mm.h; addresses count from INIT_KERNEL_STACK.
pid0_stack == PAGE_SIZE
FREEMEM_KERNEL == PAGE_SIZE
UserPages == 16
ROUND(a, n) == ((a + n - 1) \div n) * n
Address == 0 .. (NumTask + NumThread + 2) * PAGE_SIZE

VARIABLES
  mem,         \* the words of the kernel stacks
  kernel_sp,   \* pcb[..].kernel_sp
  cpu,         \* registers: pc, sp, tp, a0, s (callee-saved), t (the others),
               \* priv and sie of sstatus
  at,          \* where the processor is: in the program or in which kernel code
  created,     \* PCBs in use
  exited,      \* those that have called do_exit
  kernMemCurr, userMemCurr

contextVars == <<mem, kernel_sp, cpu, at, created, exited, kernMemCurr, userMemCurr>>

-----------------------------------------------------------------------
Word(k, f) == [kind |-> k, f |-> f]
Nothing == Word("none", Junk)

Regs(pc, sp, tp, a0, s, t, priv, sie) ==
  [pc |-> pc, sp |-> sp, tp |-> tp, a0 |-> a0, s |-> s, t |-> t,
   priv |-> priv, sie |-> sie]

allocKernelPage(cur, n) == LET ret == ROUND(cur, PAGE_SIZE)
                           IN  [ret |-> ret, cur |-> ret + n * PAGE_SIZE]
allocUserPage(cur, n) == [ret |-> cur, cur |-> cur + n]

\* The regs_context of a new task: sp, tp, sepc and sstatus = SPIE are written
\* (a0 for a thread), the rest is what the page held.
FirstRegs(p, ustack, a0) == Regs(0, ustack, p, a0, Junk, Junk, "U", TRUE)

\* init_pcb_stack, init_tcb_stack: the two frames below kernel_stack.
init_stack(m, p, kstack, ustack, a0) ==
  [mem |-> [m EXCEPT
     ![kstack - 1] = Word("regs", FirstRegs(p, ustack, a0)),
     ![kstack - 2] = Word("switchto",
                       [ra |-> "ret_from_exception", sp |-> kstack - 2, s |-> Junk])],
   kernel_sp |-> kstack - 2]

\* init_pcb: one kernel page and sixteen user pages for each task in turn.
TasksMade ==
  LET made[i \in 0..NumTask] ==
        IF i = 0
        THEN [mem |-> [a \in Address |-> Nothing],
              ksp |-> [p \in Pcb |-> pid0_stack],
              kern |-> FREEMEM_KERNEL, user |-> 0]
        ELSE LET old == made[i - 1]
                 k == allocKernelPage(old.kern, 1)
                 u == allocUserPage(old.user, UserPages)
                 s == init_stack(old.mem, i, k.ret + PAGE_SIZE, u.ret + UserPages, Junk)
             IN  [mem |-> s.mem, ksp |-> [old.ksp EXCEPT ![i] = s.kernel_sp],
                  kern |-> k.cur, user |-> u.cur]
  IN made[NumTask]

\* main loops in the kernel's own mode with interrupts on, its tp naming pid0.
ContextInit ==
  /\ mem = TasksMade.mem /\ kernel_sp = TasksMade.ksp
  /\ kernMemCurr = TasksMade.kern /\ userMemCurr = TasksMade.user
  /\ cpu = Regs(0, 0, pid0, Junk, Junk, Junk, "S", TRUE)
  /\ at = "program"
  /\ created = {pid0} \cup Task
  /\ exited = {}

-----------------------------------------------------------------------
\* What a program's instruction may make of its registers.
Stepped(r) == {[r EXCEPT !.pc = (r.pc + 1) % PcBound, !.a0 = v, !.s = v, !.t = v] :
                 v \in Value}

ProgramStep ==
  /\ at = "program" /\ cpu.tp # pid0
  /\ cpu' \in Stepped(cpu)
  /\ UNCHANGED <<mem, kernel_sp, at, created, exited, kernMemCurr, userMemCurr>>

\* SAVE_CONTEXT and the jump to interrupt_helper: the frame is stored at
\* kernel_sp itself, and the C functions get the address of it.
SaveContext(d, cause) ==
  LET p == cpu.tp
      frame == kernel_sp[p]
  IN  /\ mem' = [mem EXCEPT ![frame] = Word("regs", cpu),
                            ![frame - d] = Word("C", [cause |-> cause, d |-> d])]
      /\ cpu' = Regs(Junk, frame - d, p, Junk, frame, Junk, "S", FALSE)

\* A timer interrupt of a program or of main's loop, or an ecall of a program.
Trap(cause) ==
  /\ at = "program" /\ cpu.sie
  /\ cause = "syscall" => cpu.tp # pid0
  /\ \E d \in 1..MaxDepth : SaveContext(d, cause)
  /\ at' = "handler"
  /\ UNCHANGED <<kernel_sp, created, exited, kernMemCurr, userMemCurr>>

\* A handler that does not switch.
Stay ==
  /\ at = "handler" /\ at' = "handled"
  /\ UNCHANGED <<mem, kernel_sp, cpu, created, exited, kernMemCurr, userMemCurr>>

\* switch_to: ra, sp and the callee-saved registers go to the old stack and
\* come from the new one.
switch_to(p, q) ==
  LET sp  == cpu.sp - 1
      m   == [mem EXCEPT ![sp] =
                Word("switchto", [ra |-> "handled", sp |-> sp, s |-> cpu.s])]
      ksp == [kernel_sp EXCEPT ![p] = sp]
      new == m[ksp[q]].f
  IN  /\ mem' = [m EXCEPT ![ksp[q]] = Nothing] /\ kernel_sp' = ksp
      /\ cpu' = [cpu EXCEPT !.tp = q, !.sp = new.sp + 1, !.s = new.s]
      /\ at' = new.ra

\* do_scheduler and do_thread_yield set current_running (tp) and switch.  Who is
\* next has not exited and is not pid0, which stands in no queue.  A thread that
\* is alone in its ring switches to itself, and so does a task that do_scheduler
\* left running when nothing was ready, once its own sleep is over.
Switch(q) ==
  /\ at = "handler" /\ q \in created \ (exited \cup {pid0})
  /\ switch_to(cpu.tp, q)
  /\ UNCHANGED <<created, exited, kernMemCurr, userMemCurr>>

\* do_exit: the caller is never resumed.
Exit(q) ==
  /\ at = "handler" /\ mem[cpu.sp].f.cause = "syscall"
  /\ q \in created \ (exited \cup {pid0, cpu.tp})
  /\ exited' = exited \cup {cpu.tp}
  /\ switch_to(cpu.tp, q)
  /\ UNCHANGED <<created, kernMemCurr, userMemCurr>>

\* do_thread_create: the tcb is at the top of the new kernel page, the frames
\* below it.
ThreadCreate(c, arg) ==
  /\ at = "handler" /\ mem[cpu.sp].f.cause = "syscall"
  /\ c \in Tcb \ created /\ \A e \in Tcb \ created : c <= e
  /\ LET k == allocKernelPage(kernMemCurr, 1)
         u == allocUserPage(userMemCurr, UserPages)
         s == init_stack(mem, c, k.ret + PAGE_SIZE - 1, u.ret + UserPages, arg)
     IN  /\ mem' = s.mem /\ kernel_sp' = [kernel_sp EXCEPT ![c] = s.kernel_sp]
         /\ kernMemCurr' = k.cur /\ userMemCurr' = u.cur
  /\ created' = created \cup {c}
  /\ at' = "handled"
  /\ UNCHANGED <<cpu, exited>>

\* Slip: the result goes to the frame kernel_sp names.
AnswerAtKernelSp(v) ==
  LET frame == kernel_sp[cpu.tp]
      r == mem[frame].f
  IN  mem' = [mem EXCEPT ![frame] = IF mem[frame].kind # "regs" THEN @
                ELSE Word("regs", [r EXCEPT !.a0 = v, !.pc = (r.pc + 1) % PcBound]),
                         ![cpu.sp] = Nothing]

\* The end of handle_syscall: a0 and sepc of the frame it was given, the pointer
\* to which it kept in a callee-saved register.
Answer(v) ==
  LET frame == cpu.s
      r == mem[frame].f
  IN  mem' = [mem EXCEPT ![frame] =
                Word("regs", [r EXCEPT !.a0 = v, !.pc = (r.pc + 1) % PcBound]),
                         ![cpu.sp] = Nothing]

\* The C functions return: their frames go, and ra leads to ret_from_exception.
HandlerReturns ==
  /\ at = "handled"
  /\ LET c == mem[cpu.sp].f
     IN  /\ \/ c.cause = "timer" /\ mem' = [mem EXCEPT ![cpu.sp] = Nothing]
            \/ c.cause = "syscall" /\ \E v \in Value \cup {Junk} : Answer(v)
         /\ cpu' = [cpu EXCEPT !.sp = @ + c.d, !.s = Junk]
  /\ at' = "ret_from_exception"
  /\ UNCHANGED <<kernel_sp, created, exited, kernMemCurr, userMemCurr>>

\* Slip: kernel_sp is left as switch_to set it.
RestoreForgets ==
  /\ cpu' = mem[cpu.sp].f
  /\ UNCHANGED kernel_sp

\* RESTORE_CONTEXT and sret: kernel_sp is again the address of the frame.
RestoreContext ==
  /\ cpu' = mem[cpu.sp].f
  /\ kernel_sp' = [kernel_sp EXCEPT ![mem[cpu.sp].f.tp] = cpu.sp]

ret_from_exception ==
  /\ at = "ret_from_exception"
  /\ RestoreContext
  /\ mem' = [mem EXCEPT ![cpu.sp] = Nothing]
  /\ at' = "program"
  /\ UNCHANGED <<created, exited, kernMemCurr, userMemCurr>>

ContextStep ==
  \/ ProgramStep
  \/ \E cause \in {"timer", "syscall"} : Trap(cause)
  \/ Stay
  \/ \E q \in Pcb : Switch(q) \/ Exit(q)
  \/ \E c \in Tcb, arg \in Value : ThreadCreate(c, arg)
  \/ HandlerReturns
  \/ ret_from_exception

ContextSpec == ContextInit /\ [][ContextStep]_contextVars

-----------------------------------------------------------------------
\* The page of a PCB and the top of its stack: a thread's tcb is above it.
PageOf(p) == p * PAGE_SIZE
TopOf(p)  == IF p = pid0 THEN pid0_stack + 1
             ELSE PageOf(p) + PAGE_SIZE - (IF p \in Tcb THEN 1 ELSE 0)
Home(p)   == TopOf(p) - 1

\* What the kernel's stack of p reaches down to at this moment.
StackPointer(p) == IF at # "program" /\ cpu.tp = p THEN cpu.sp ELSE kernel_sp[p]

Live == created \ exited

\* The kernel stack of a task that can still run lies in its own page, above
\* the frame of pid 0 that was written over the first page's bottom; and it is
\* empty but for the trap frame whenever the task runs: no call, switch or
\* interrupt leaves anything behind.  The save at kernel_sp, the switch and the
\* store in RESTORE_CONTEXT have to agree for that.
StacksBalance ==
  \A p \in Live :
    /\ p # pid0 => /\ StackPointer(p) \in PageOf(p) .. Home(p)
                   /\ StackPointer(p) # Home(pid0)
    /\ at = "program" /\ cpu.tp = p => kernel_sp[p] = Home(p)

\* The calls under way: the processor is in the handler of one, or the task was
\* switched out in it.
InCall(p) ==
  IF cpu.tp = p
  THEN at \in {"handler", "handled"} /\ mem[cpu.sp].f.cause = "syscall"
  ELSE /\ mem[kernel_sp[p]].kind = "switchto"
       /\ mem[kernel_sp[p]].f.ra = "handled"
       /\ mem[mem[kernel_sp[p]].f.sp + 1].f.cause = "syscall"

Machine == INSTANCE Machines WITH
  Owner    <- Pcb,
  Fresh    <- LAMBDA p : {[pc |-> 0, sp |-> u, tp |-> p, a0 |-> v, s |-> Junk, t |-> Junk,
                           priv |-> IF p = pid0 THEN "S" ELSE "U", sie |-> TRUE] :
                            u \in {IF p = pid0 THEN 0 ELSE p * UserPages},
                            v \in Value \cup {Junk}},
  Stepped  <- Stepped,
  Answered <- LAMBDA r : {[r EXCEPT !.a0 = v, !.pc = (r.pc + 1) % PcBound] :
                            v \in Value \cup {Junk}},
  file     <- [p \in Pcb |->
                 IF p \notin created THEN [pc |-> -1]
                 ELSE IF at = "program" /\ cpu.tp = p THEN cpu ELSE mem[Home(p)].f],
  calling  <- {p \in created : InCall(p)},
  running  <- IF at = "program" THEN cpu.tp ELSE -1

\* Traps, frames and switches give each task a machine of its own: whenever a
\* task runs, its registers are those it stopped with, changed only by the
\* answer to its own call, given once; and in user mode.
OwnMachine == Machine!Spec
=======================================================================
