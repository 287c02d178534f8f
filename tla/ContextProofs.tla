------------------------- MODULE ContextProofs -------------------------
(***************************************************************************)
(* Theorems about traps and context switches, for any number of tasks and  *)
(* threads, any page size and any depth of the calls in the kernel: the    *)
(* stacks balance, and each task has a machine of its own.                 *)
(***************************************************************************)
EXTENDS Context, QueuesProofs

Causes == {"timer", "syscall"}

\* The registers of p while it runs or is in its trap frame, and what the
\* processor holds in the kernel.
Files(p) == [pc : Nat, sp : Int, tp : {p}, a0 : Int, s : Int, t : Int,
             priv : {"U", "S"}, sie : BOOLEAN]
Registers == [pc : Int, sp : Int, tp : Pcb, a0 : Int, s : Int, t : Int,
              priv : {"U", "S"}, sie : BOOLEAN]

\* p's registers are in its trap frame.
Saved(p) == \E r \in Files(p) : mem[Home(p)] = Word("regs", r)

\* The C frames of the handler lie below it.
InHandler(p, d, cause) == mem[Home(p) - d] = Word("C", [cause |-> cause, d |-> d])

\* p has never run.
NeverRun(p) ==
  /\ kernel_sp[p] = Home(p) - 1
  /\ mem[Home(p) - 1] =
       Word("switchto", [ra |-> "ret_from_exception", sp |-> Home(p) - 1, s |-> Junk])

\* p was switched out in the handler.
SwitchedOut(p, d) ==
  /\ kernel_sp[p] = Home(p) - d - 1
  /\ mem[Home(p) - d - 1] =
       Word("switchto", [ra |-> "handled", sp |-> Home(p) - d - 1, s |-> Home(p)])

\* p does not have the processor.
Waiting(p) ==
  /\ Saved(p)
  /\ \/ NeverRun(p)
     \/ \E d \in 1..MaxDepth, cause \in Causes : InHandler(p, d, cause) /\ SwitchedOut(p, d)

\* p has it.
OnCpu(p) ==
  /\ at = "program" => cpu \in Files(p) /\ kernel_sp[p] = Home(p)
  /\ at \in {"handler", "handled"} =>
       /\ Saved(p) /\ cpu.s = Home(p)
       /\ \E d \in 1..MaxDepth, cause \in Causes :
            InHandler(p, d, cause) /\ cpu.sp = Home(p) - d
  /\ at = "ret_from_exception" => Saved(p) /\ cpu.sp = Home(p)

\* The allocators have given each PCB its pages, in the order of the pids.
Allocated(n) ==
  /\ created = 0..n
  /\ kernMemCurr = (n + 1) * PAGE_SIZE
  /\ userMemCurr = n * UserPages

\* The inductive invariant.
ContextInv ==
  /\ at \in {"program", "handler", "handled", "ret_from_exception"}
  /\ DOMAIN mem = Address /\ kernel_sp \in [Pcb -> Int]
  /\ cpu \in Registers /\ cpu.tp \in created
  /\ \E n \in NumTask .. NumTask + NumThread : Allocated(n)
  /\ \A p \in created \ {cpu.tp} : Waiting(p)
  /\ OnCpu(cpu.tp)

-----------------------------------------------------------------------
\* The words of the stack of p, at its deepest.
Zone(p) == Home(p) - MaxDepth - 1 .. Home(p)

LEMMA Sizes ==
  /\ NumTask \in Nat /\ NumTask > 0 /\ NumThread \in Nat
  /\ MaxDepth \in Nat /\ MaxDepth > 0
  /\ PAGE_SIZE \in Nat /\ PAGE_SIZE >= MaxDepth + 3
  /\ PcBound \in Nat /\ PcBound > 0 /\ Value \subseteq Nat
  /\ Pcb = 0 .. NumTask + NumThread
  /\ \A p \in Pcb : p = pid0 \/ p \in Task \/ p \in Tcb
  /\ Task \cap Tcb = {} /\ pid0 \notin Task /\ pid0 \notin Tcb
BY ContextAssumption DEF Pcb, Task, Tcb, pid0

LEMMA Pages ==
  ASSUME NEW p \in Nat, NEW q \in Nat
  PROVE  /\ p * PAGE_SIZE \in Nat
         /\ (p + 1) * PAGE_SIZE = p * PAGE_SIZE + PAGE_SIZE
         /\ p < q => p * PAGE_SIZE + PAGE_SIZE <= q * PAGE_SIZE
<1> DEFINE P == PAGE_SIZE
<1>1. P \in Nat
  BY Sizes
<1> HIDE DEF P
<1>2. p * P \in Nat /\ (p + 1) * P = p * P + P
  BY <1>1
<1>3. ASSUME p < q PROVE p * P + P <= q * P
  <2> DEFINE d == q - p - 1
  <2>1. d \in Nat /\ q = p + 1 + d
    BY <1>3
  <2> HIDE DEF d
  <2>2. q * P = p * P + P + d * P /\ d * P \in Nat
    BY <1>1, <2>1
  <2> QED BY <1>1, <1>2, <2>2
<1>4. p * P \in Nat /\ (p + 1) * P = p * P + P /\ (p < q => p * P + P <= q * P)
  BY <1>2, <1>3
<1> QED BY <1>4 DEF P

(***************************************************************************)
(* The stack of a task lies in its own page, and that of a task made by    *)
(* init_pcb leaves the lowest word of the page free: pid 0's trap frame is *)
(* written over the one of the first.                                      *)
(***************************************************************************)
LEMMA ZoneInPage ==
  ASSUME NEW p \in Pcb
  PROVE  /\ p \in Nat /\ Home(p) \in Nat /\ PageOf(p) = p * PAGE_SIZE
         /\ p = pid0 => Home(p) = PAGE_SIZE
         /\ p # pid0 => /\ p * PAGE_SIZE <= Home(p) - MaxDepth - 1
                        /\ Home(p) < p * PAGE_SIZE + PAGE_SIZE
         /\ p \in Task => /\ p * PAGE_SIZE < Home(p) - MaxDepth - 1
                          /\ Home(p) = p * PAGE_SIZE + PAGE_SIZE - 1
         /\ p \in Tcb => Home(p) = p * PAGE_SIZE + PAGE_SIZE - 2
<1>1. p \in Nat /\ p * PAGE_SIZE \in Nat
  BY Sizes, Pages
<1>2. CASE p = pid0
  BY <1>1, <1>2, Sizes DEF Home, TopOf, PageOf, pid0_stack, pid0
<1>3. CASE p \in Task
  <2>1. p # pid0 /\ p \notin Tcb
    BY <1>3, Sizes
  <2>2. Home(p) = p * PAGE_SIZE + PAGE_SIZE - 0 - 1
    BY <1>1, <2>1, Sizes DEF Home, TopOf, PageOf
  <2> QED BY <1>1, <1>3, <2>1, <2>2, Sizes DEF PageOf
<1>4. CASE p \in Tcb
  <2>1. p # pid0 /\ p \notin Task
    BY <1>4, Sizes
  <2>2. Home(p) = p * PAGE_SIZE + PAGE_SIZE - 1 - 1
    BY <1>1, <1>4, <2>1, Sizes DEF Home, TopOf, PageOf
  <2> QED BY <1>1, <1>4, <2>1, <2>2, Sizes DEF PageOf
<1> QED BY <1>2, <1>3, <1>4, Sizes

LEMMA ZonesApart ==
  /\ \A p \in Pcb : Zone(p) \subseteq Address
  /\ \A p, q \in Pcb : p # q => Zone(p) \cap Zone(q) = {}
<1> DEFINE P == PAGE_SIZE
           top == (NumTask + NumThread + 2) * P
<1>1. ASSUME NEW p \in Pcb PROVE Zone(p) \subseteq Address
  <2>1. /\ p \in Nat /\ p <= NumTask + NumThread /\ NumTask + NumThread + 2 \in Nat
        /\ P \in Nat /\ MaxDepth \in Nat /\ P >= MaxDepth + 3
    BY Sizes
  <2>2. p * P \in Nat /\ p * P + P <= top /\ P <= top /\ top \in Nat
    <3>1. p < NumTask + NumThread + 2 /\ 0 < NumTask + NumThread + 2
      BY <2>1, Sizes
    <3>2. 0 * P = 0
      BY <2>1
    <3> QED BY <2>1, <3>1, <3>2, Pages
  <2> HIDE DEF top
  <2>3. 0 <= Home(p) - MaxDepth - 1 /\ Home(p) <= top /\ Home(p) \in Nat
    <3>1. CASE p = pid0
      BY <2>1, <2>2, <3>1, ZoneInPage
    <3>2. CASE p # pid0
      BY <2>1, <2>2, <3>2, ZoneInPage
    <3> QED BY <3>1, <3>2
  <2> QED BY <2>1, <2>2, <2>3 DEF Zone, Address, top, P
<1>2. ASSUME NEW p \in Pcb, NEW q \in Pcb, p < q PROVE Home(p) < Home(q) - MaxDepth - 1
  <2>1. /\ p \in Nat /\ q \in Nat /\ q # pid0 /\ P \in Nat /\ P > 0
        /\ p * P \in Nat /\ q * P \in Nat /\ p * P + P <= q * P
        /\ MaxDepth \in Nat /\ Home(p) \in Nat /\ Home(q) \in Nat
    BY <1>2, Sizes, Pages, ZoneInPage DEF pid0
  <2>2. CASE p # pid0
    <3>1. Home(p) < p * P + P /\ q * P <= Home(q) - MaxDepth - 1
      BY <2>1, <2>2, ZoneInPage
    <3> QED BY <2>1, <3>1
  <2>3. CASE p = pid0 /\ q \in Task
    <3>1. Home(p) = P /\ q * P < Home(q) - MaxDepth - 1
      BY <2>3, ZoneInPage
    <3>2. p * P + P = P
      BY <2>1, <2>3 DEF pid0
    <3> QED BY <2>1, <3>1, <3>2
  <2>4. CASE p = pid0 /\ q \in Tcb
    <3>1. Home(p) = P /\ q * P <= Home(q) - MaxDepth - 1
      BY <2>1, <2>4, ZoneInPage
    <3>2. 1 < q
      BY <2>4, Sizes DEF Tcb
    <3>3. 1 * P + P <= q * P /\ 1 * P = P
      BY <2>1, <3>2, Pages
    <3> QED BY <2>1, <3>1, <3>3
  <2> QED BY <2>1, <2>2, <2>3, <2>4, Sizes
<1>3. ASSUME NEW p \in Pcb, NEW q \in Pcb, p # q, NEW a \in Zone(p) \cap Zone(q) PROVE FALSE
  <2>1. /\ a \in Int /\ a <= Home(p) /\ Home(p) - MaxDepth - 1 <= a
        /\ a <= Home(q) /\ Home(q) - MaxDepth - 1 <= a
        /\ Home(p) \in Nat /\ Home(q) \in Nat /\ MaxDepth \in Nat
        /\ p \in Nat /\ q \in Nat
    BY ZoneInPage, Sizes DEF Zone
  <2>2. p < q \/ q < p
    BY <1>3, <2>1
  <2> QED BY <1>2, <2>1, <2>2
<1> QED BY <1>1, <1>3

\* Where a call of p's handler puts its frames.
LEMMA ZoneHas ==
  ASSUME NEW p \in Pcb
  PROVE  /\ Home(p) \in Zone(p) /\ Home(p) - 1 \in Zone(p)
         /\ \A d \in 1..MaxDepth : Home(p) - d \in Zone(p) /\ Home(p) - d - 1 \in Zone(p)
<1>1. Home(p) \in Nat /\ MaxDepth \in Nat /\ MaxDepth > 0
  BY ZoneInPage, Sizes
<1> QED BY <1>1 DEF Zone

(***************************************************************************)
(* What is on the stack of p depends on its words and its kernel_sp alone. *)
(***************************************************************************)
LEMMA StackKept ==
  ASSUME NEW p \in Pcb, \A a \in Zone(p) : mem'[a] = mem[a]
  PROVE  /\ Saved(p)' <=> Saved(p)
         /\ mem'[Home(p)].f = mem[Home(p)].f
         /\ \A d \in 1..MaxDepth, cause \in Causes :
              InHandler(p, d, cause)' <=> InHandler(p, d, cause)
         /\ kernel_sp'[p] = kernel_sp[p] => (Waiting(p)' <=> Waiting(p))
<1>1. /\ mem'[Home(p)] = mem[Home(p)] /\ mem'[Home(p) - 1] = mem[Home(p) - 1]
      /\ \A d \in 1..MaxDepth : /\ mem'[Home(p) - d] = mem[Home(p) - d]
                                /\ mem'[Home(p) - d - 1] = mem[Home(p) - d - 1]
  BY ZoneHas
<1>2. Saved(p)' <=> Saved(p)
  BY <1>1 DEF Saved
<1>3. \A d \in 1..MaxDepth, cause \in Causes :
        InHandler(p, d, cause)' <=> InHandler(p, d, cause)
  BY <1>1 DEF InHandler
<1>4. ASSUME kernel_sp'[p] = kernel_sp[p]
      PROVE  /\ NeverRun(p)' <=> NeverRun(p)
             /\ \A d \in 1..MaxDepth : SwitchedOut(p, d)' <=> SwitchedOut(p, d)
  BY <1>1, <1>4 DEF NeverRun, SwitchedOut
<1> QED BY <1>1, <1>2, <1>3, <1>4 DEF Waiting

LEMMA OtherStacksKept ==
  ASSUME NEW p \in Pcb, \A a \in Address \ Zone(p) : mem'[a] = mem[a]
  PROVE  \A q \in Pcb \ {p} : \A a \in Zone(q) : mem'[a] = mem[a]
<1> SUFFICES ASSUME NEW q \in Pcb, q # p, NEW a \in Zone(q) PROVE mem'[a] = mem[a]
  OBVIOUS
<1>1. a \in Address /\ a \notin Zone(p)
  BY ZonesApart
<1> QED BY <1>1

LEMMA InvFacts ==
  ASSUME ContextInv
  PROVE  /\ created \subseteq Pcb /\ cpu.tp \in Pcb /\ cpu.tp \in created
         /\ DOMAIN mem = Address /\ kernel_sp \in [Pcb -> Int] /\ cpu \in Registers
         /\ OnCpu(cpu.tp)
         /\ \A p \in created \ {cpu.tp} : Waiting(p)
<1>1. PICK n \in NumTask .. NumTask + NumThread : Allocated(n)
  BY DEF ContextInv
<1>2. created \subseteq Pcb
  BY <1>1, Sizes DEF Allocated
<1> QED BY <1>2 DEF ContextInv

\* Nothing was created or allocated.
LEMMA AllocationKept ==
  ASSUME ContextInv, UNCHANGED <<created, kernMemCurr, userMemCurr>>
  PROVE  (\E n \in NumTask .. NumTask + NumThread : Allocated(n))'
BY DEF ContextInv, Allocated

LEMMA FileStepped ==
  ASSUME NEW p \in Pcb, NEW r \in Files(p), NEW v \in Value \cup {Junk}
  PROVE  /\ [r EXCEPT !.pc = (r.pc + 1) % PcBound, !.a0 = v, !.s = v, !.t = v] \in Files(p)
         /\ [r EXCEPT !.a0 = v, !.pc = (r.pc + 1) % PcBound] \in Files(p)
         /\ r \in Registers /\ r.tp = p /\ r.pc # -1
<1>1. /\ r \in [pc : Nat, sp : Int, tp : {p}, a0 : Int, s : Int, t : Int,
               priv : {"U", "S"}, sie : BOOLEAN]
      /\ v \in Int
  BY Sizes DEF Files, Junk
<1>2. (r.pc + 1) % PcBound \in Nat
  <2>1. r.pc + 1 \in Nat /\ PcBound \in Nat /\ PcBound > 0
    BY <1>1, Sizes
  <2> QED BY <2>1
<1> DEFINE pc == (r.pc + 1) % PcBound
<1> HIDE DEF pc
<1>3. /\ [r EXCEPT !.pc = pc, !.a0 = v, !.s = v, !.t = v] \in Files(p)
      /\ [r EXCEPT !.a0 = v, !.pc = pc] \in Files(p)
  BY <1>1, <1>2 DEF Files, pc
<1>4. r \in Registers /\ r.tp = p /\ r.pc # -1
  BY <1>1 DEF Registers
<1> QED BY <1>3, <1>4 DEF pc

-----------------------------------------------------------------------
(***************************************************************************)
(* SAVE_CONTEXT: the trap frame is at the top of the stack of the task     *)
(* that runs, the frames of the handler below it.                          *)
(***************************************************************************)
LEMMA TrapEffect ==
  ASSUME ContextInv, at = "program", NEW cause \in Causes, NEW d \in 1..MaxDepth,
         NEW p, p = cpu.tp, SaveContext(d, cause)
  PROVE  /\ DOMAIN mem' = Address
         /\ cpu' \in Registers /\ cpu'.tp = p
         /\ cpu'.s = Home(p) /\ cpu'.sp = Home(p) - d
         /\ mem'[Home(p)] = Word("regs", cpu) /\ cpu \in Files(p)
         /\ InHandler(p, d, cause)'
         /\ \A q \in Pcb \ {p} : \A a \in Zone(q) : mem'[a] = mem[a]
<1> DEFINE h == Home(p)
<1>1. /\ p \in Pcb /\ DOMAIN mem = Address /\ kernel_sp[p] = h /\ cpu \in Files(p)
      /\ h \in Nat
  BY InvFacts, ZoneInPage DEF OnCpu
<1>2. /\ mem' = [mem EXCEPT ![h] = Word("regs", cpu),
                            ![h - d] = Word("C", [cause |-> cause, d |-> d])]
      /\ cpu' = Regs(Junk, h - d, p, Junk, h, Junk, "S", FALSE)
  BY <1>1 DEF SaveContext
<1>3. h \in Zone(p) /\ h - d \in Zone(p) /\ h # h - d
      /\ Zone(p) \subseteq Address /\ h - d \in Int
  BY <1>1, ZoneHas, ZonesApart, Sizes
<1>4. cpu' \in Registers /\ cpu'.tp = p /\ cpu'.s = h /\ cpu'.sp = h - d
  BY <1>1, <1>2, <1>3 DEF Regs, Registers, Junk
<1> HIDE DEF h
<1>5. /\ DOMAIN mem' = Address
      /\ mem'[h] = Word("regs", cpu)
      /\ mem'[h - d] = Word("C", [cause |-> cause, d |-> d])
      /\ \A a \in Address \ Zone(p) : mem'[a] = mem[a]
  BY <1>1, <1>2, <1>3
<1>6. \A q \in Pcb \ {p} : \A a \in Zone(q) : mem'[a] = mem[a]
  BY <1>1, <1>5, OtherStacksKept
<1>7. InHandler(p, d, cause)'
  BY <1>5 DEF InHandler, h
<1> QED BY <1>1, <1>4, <1>5, <1>6, <1>7 DEF h

LEMMA TrapInv ==
  ASSUME ContextInv, NEW cause \in Causes, Trap(cause) PROVE ContextInv'
<1>0. PICK p \in Pcb : p = cpu.tp
  BY InvFacts
<1>1. PICK d \in 1..MaxDepth : SaveContext(d, cause)
  BY DEF Trap
<1>2. /\ at = "program" /\ at' = "handler"
      /\ UNCHANGED <<kernel_sp, created, exited, kernMemCurr, userMemCurr>>
  BY DEF Trap
<1>3. /\ DOMAIN mem' = Address
      /\ cpu' \in Registers /\ cpu'.tp = p
      /\ cpu'.s = Home(p) /\ cpu'.sp = Home(p) - d
      /\ mem'[Home(p)] = Word("regs", cpu) /\ cpu \in Files(p)
      /\ InHandler(p, d, cause)'
      /\ \A q \in Pcb \ {p} : \A a \in Zone(q) : mem'[a] = mem[a]
  BY <1>0, <1>1, <1>2, TrapEffect
<1>4. \A q \in created \ {p} : Waiting(q)'
  BY <1>0, <1>2, <1>3, InvFacts, StackKept
<1>5. OnCpu(p)'
  <2>1. Saved(p)'
    BY <1>3 DEF Saved, Files
  <2> QED BY <1>2, <1>3, <2>1 DEF OnCpu
<1> QED BY <1>0, <1>2, <1>3, <1>4, <1>5, InvFacts, AllocationKept DEF ContextInv

LEMMA ProgramStepInv ==
  ASSUME ContextInv, ProgramStep PROVE ContextInv'
<1>0. PICK p \in Pcb : p = cpu.tp
  BY InvFacts
<1>1. /\ at = "program"
      /\ UNCHANGED <<mem, kernel_sp, at, created, exited, kernMemCurr, userMemCurr>>
      /\ cpu \in Files(p)
  BY <1>0, InvFacts DEF ProgramStep, OnCpu
<1>2. PICK v \in Value :
        cpu' = [cpu EXCEPT !.pc = (cpu.pc + 1) % PcBound, !.a0 = v, !.s = v, !.t = v]
  BY DEF ProgramStep, Stepped
<1>3. cpu' \in Files(p)
  BY <1>1, <1>2, FileStepped
<1>4. cpu' \in Registers /\ cpu'.tp = p
  BY <1>0, <1>3 DEF Files, Registers
<1>5. OnCpu(p)'
  BY <1>0, <1>1, <1>3, InvFacts DEF OnCpu
<1>6. \A q \in created \ {p} : Waiting(q)'
  BY <1>0, <1>1, InvFacts, StackKept
<1> QED BY <1>0, <1>1, <1>4, <1>5, <1>6, InvFacts, AllocationKept DEF ContextInv

LEMMA StayInv ==
  ASSUME ContextInv, Stay PROVE ContextInv'
<1>0. PICK p \in Pcb : p = cpu.tp
  BY InvFacts
<1>1. /\ at = "handler" /\ at' = "handled"
      /\ UNCHANGED <<mem, kernel_sp, cpu, created, exited, kernMemCurr, userMemCurr>>
  BY DEF Stay
<1>2. OnCpu(p)'
  BY <1>0, <1>1, InvFacts DEF OnCpu, Saved, InHandler
<1>3. \A q \in created \ {p} : Waiting(q)'
  BY <1>0, <1>1, InvFacts, StackKept
<1> QED BY <1>0, <1>1, <1>2, <1>3, InvFacts, AllocationKept DEF ContextInv

-----------------------------------------------------------------------
(***************************************************************************)
(* Which call a task is in can be read off its handler's frames, wherever  *)
(* the task is.                                                            *)
(***************************************************************************)
CallKnown(p) ==
  /\ \A d \in 1..MaxDepth, cause \in Causes :
       InHandler(p, d, cause) =>
         /\ cpu.tp = p /\ cpu.sp = Home(p) - d /\ at \in {"handler", "handled"}
              => (InCall(p) <=> cause = "syscall")
         /\ cpu.tp # p /\ SwitchedOut(p, d) => (InCall(p) <=> cause = "syscall")
  /\ cpu.tp # p /\ NeverRun(p) => ~InCall(p)
  /\ cpu.tp = p /\ at \notin {"handler", "handled"} => ~InCall(p)

LEMMA InCallIs ==
  ASSUME NEW p \in Pcb
  PROVE  CallKnown(p)
<1>0. Home(p) \in Nat
  BY ZoneInPage
<1>1. ASSUME NEW d \in 1..MaxDepth, NEW cause \in Causes, InHandler(p, d, cause)
      PROVE  /\ cpu.tp = p /\ cpu.sp = Home(p) - d /\ at \in {"handler", "handled"}
                  => (InCall(p) <=> cause = "syscall")
             /\ cpu.tp # p /\ SwitchedOut(p, d) => (InCall(p) <=> cause = "syscall")
  <2>1. mem[Home(p) - d].f.cause = cause
    BY <1>1 DEF InHandler, Word
  <2>2. ASSUME SwitchedOut(p, d)
        PROVE  /\ mem[kernel_sp[p]].kind = "switchto" /\ mem[kernel_sp[p]].f.ra = "handled"
               /\ mem[kernel_sp[p]].f.sp + 1 = Home(p) - d
    <3>1. mem[kernel_sp[p]] =
            Word("switchto", [ra |-> "handled", sp |-> Home(p) - d - 1, s |-> Home(p)])
      BY <2>2 DEF SwitchedOut
    <3>2. d \in Int /\ Home(p) - d - 1 + 1 = Home(p) - d
      BY <1>0, Sizes
    <3> QED BY <3>1, <3>2 DEF Word
  <2> QED BY <2>1, <2>2 DEF InCall
<1>2. ASSUME NeverRun(p) PROVE mem[kernel_sp[p]].f.ra # "handled"
  BY <1>2 DEF NeverRun, Word
<1>3. cpu.tp = p /\ at \notin {"handler", "handled"} => ~InCall(p)
  BY DEF InCall
<1>4. cpu.tp # p /\ NeverRun(p) => ~InCall(p)
  BY <1>2 DEF InCall
<1> QED BY <1>1, <1>3, <1>4 DEF CallKnown

\* Now and after the step.
LEMMA CallsKnown == \A p \in Pcb : CallKnown(p) /\ CallKnown(p)'
<1>1. \A p \in Pcb : CallKnown(p)
  BY InCallIs
<1>2. (\A p \in Pcb : CallKnown(p))'
  BY <1>1, PTL
<1> QED BY <1>1, <1>2

\* Of a task that waits while others take steps, neither its frames nor its call
\* change.
LEMMA WaitingKept ==
  ASSUME NEW p \in Pcb, Waiting(p), cpu.tp # p, cpu'.tp # p,
         \A a \in Zone(p) : mem'[a] = mem[a], kernel_sp'[p] = kernel_sp[p]
  PROVE  /\ Waiting(p)' /\ mem'[Home(p)].f = mem[Home(p)].f
         /\ InCall(p)' <=> InCall(p)
<1>1. Waiting(p)' /\ mem'[Home(p)].f = mem[Home(p)].f
  BY StackKept
<1>2. /\ mem'[kernel_sp'[p]] = mem[kernel_sp[p]]
      /\ mem[kernel_sp[p]].f.ra = "handled" =>
           mem'[mem[kernel_sp[p]].f.sp + 1] = mem[mem[kernel_sp[p]].f.sp + 1]
  <2>0. Home(p) \in Nat
    BY ZoneInPage
  <2>1. CASE NeverRun(p)
    <3>1. kernel_sp[p] \in Zone(p) /\ mem[kernel_sp[p]].f.ra # "handled"
      BY <2>1, ZoneHas DEF NeverRun, Word
    <3> QED BY <3>1
  <2>2. CASE \E d \in 1..MaxDepth : SwitchedOut(p, d)
    <3>1. PICK d \in 1..MaxDepth : SwitchedOut(p, d)
      BY <2>2
    <3>2. d \in Int /\ Home(p) - d - 1 + 1 = Home(p) - d
      BY <2>0, Sizes
    <3>3. mem[kernel_sp[p]].f.sp + 1 = Home(p) - d
      BY <3>1, <3>2 DEF SwitchedOut, Word
    <3>4. kernel_sp[p] \in Zone(p) /\ Home(p) - d \in Zone(p)
      BY <3>1, ZoneHas DEF SwitchedOut
    <3> QED BY <3>3, <3>4
  <2> QED BY <2>1, <2>2 DEF Waiting
<1>3. InCall(p)' <=> InCall(p)
  BY <1>2 DEF InCall
<1> QED BY <1>1, <1>3

-----------------------------------------------------------------------
(***************************************************************************)
(* switch_to: the processor goes from p to q and nothing else changes: p   *)
(* waits as q did, q goes on where it was switched out, or starts.         *)
(***************************************************************************)
Switched(p, q) ==
  /\ DOMAIN mem' = Address /\ kernel_sp' \in [Pcb -> Int]
  /\ cpu' \in Registers /\ cpu'.tp = q
  /\ at' \in {"handled", "ret_from_exception"}
  /\ \A r \in Pcb \ {p, q} : /\ \A a \in Zone(r) : mem'[a] = mem[a]
                             /\ kernel_sp'[r] = kernel_sp[r]
  /\ \A r \in Pcb : mem'[Home(r)] = mem[Home(r)]
  /\ OnCpu(q)'
  /\ p # q => Waiting(p)'
  /\ \A r \in {p, q} : InCall(r)' <=> InCall(r)

\* Its two stores, w on the stack of p and then Nothing on that of q.
Stored(p, q, a, b, w) ==
  /\ DOMAIN mem' = Address /\ mem'[b] = Nothing /\ (a # b => mem'[a] = w)
  /\ \A r \in Pcb \ {p, q} : \A c \in Zone(r) : mem'[c] = mem[c]
  /\ \A r \in Pcb : \A c \in Zone(r) \ {a, b} : mem'[c] = mem[c]

LEMMA SwitchStores ==
  ASSUME NEW p \in Pcb, NEW q \in Pcb, NEW a \in Zone(p), NEW b \in Zone(q), NEW w,
         DOMAIN mem = Address, mem' = [[mem EXCEPT ![a] = w] EXCEPT ![b] = Nothing]
  PROVE  Stored(p, q, a, b, w)
<1>1. a \in Address /\ b \in Address
  BY ZonesApart
<1>2. /\ DOMAIN mem' = Address /\ mem'[b] = Nothing /\ (a # b => mem'[a] = w)
      /\ \A c \in Address \ {a, b} : mem'[c] = mem[c]
  BY <1>1
<1>3. ASSUME NEW r \in Pcb \ {p, q}, NEW c \in Zone(r) PROVE c \in Address \ {a, b}
  BY ZonesApart
<1>4. \A r \in Pcb : Zone(r) \subseteq Address
  BY ZonesApart
<1> QED BY <1>2, <1>3, <1>4 DEF Stored

\* And its loads.
LEMMA SwitchLoads ==
  ASSUME cpu \in Registers, NEW q \in Pcb, NEW x \in Int, NEW y \in Int,
         cpu' = [cpu EXCEPT !.tp = q, !.sp = x, !.s = y]
  PROVE  cpu' \in Registers /\ cpu'.tp = q /\ cpu'.sp = x /\ cpu'.s = y
BY DEF Registers

LEMMA SwitchEffect ==
  ASSUME ContextInv, at = "handler", NEW p \in Pcb, p = cpu.tp, NEW q \in created,
         switch_to(p, q)
  PROVE  Switched(p, q)
<1> DEFINE h == Home(p)
           k == Home(q)
<1>1. /\ q \in Pcb /\ h \in Nat /\ k \in Nat /\ DOMAIN mem = Address
      /\ kernel_sp \in [Pcb -> Int] /\ cpu \in Registers /\ cpu.s = h
      /\ Saved(p) /\ Saved(q)
  BY InvFacts, ZoneInPage DEF OnCpu, Waiting
<1>2. PICK d \in 1..MaxDepth, cause \in Causes : InHandler(p, d, cause) /\ cpu.sp = h - d
  BY InvFacts DEF OnCpu
<1> DEFINE save == h - d - 1
           w == Word("switchto", [ra |-> "handled", sp |-> save, s |-> h])
           m == [mem EXCEPT ![save] = w]
           ksp == [kernel_sp EXCEPT ![p] = save]
           new == m[ksp[q]].f
<1>3. /\ mem' = [m EXCEPT ![ksp[q]] = Nothing] /\ kernel_sp' = ksp
      /\ cpu' = [cpu EXCEPT !.tp = q, !.sp = new.sp + 1, !.s = new.s]
      /\ at' = new.ra
  BY <1>1, <1>2 DEF switch_to
<1>4. /\ d \in Int /\ save \in Int /\ save + 1 = h - d /\ save # h /\ save # h - d
      /\ save \in Zone(p) /\ h \in Zone(p) /\ h - d \in Zone(p) /\ h - d # h
      /\ save \in Address
  <2>1. d \in 1..MaxDepth /\ d \in Int /\ d > 0
    BY Sizes
  <2>2. save \in Int /\ save + 1 = h - d /\ save # h /\ save # h - d /\ h - d # h
    BY <1>1, <2>1
  <2>3. save \in Zone(p) /\ h \in Zone(p) /\ h - d \in Zone(p)
    BY <2>1, ZoneHas
  <2> QED BY <2>1, <2>2, <2>3, ZonesApart
<1>5. /\ kernel_sp' \in [Pcb -> Int] /\ kernel_sp'[p] = save
      /\ \A r \in Pcb \ {p} : kernel_sp'[r] = kernel_sp[r]
  BY <1>1, <1>3, <1>4
<1>6. CASE q = p
  <2>1. ksp[q] = save /\ new = [ra |-> "handled", sp |-> save, s |-> h]
    BY <1>1, <1>4, <1>6 DEF Word
  <2>2. mem' = [[mem EXCEPT ![save] = w] EXCEPT ![save] = Nothing]
    BY <1>3, <2>1
  <2>3. /\ cpu' \in Registers /\ cpu'.tp = q /\ cpu'.sp = h - d /\ cpu'.s = h
        /\ at' = "handled"
    <3>0. new.ra = "handled" /\ new.sp = save /\ new.s = h
      BY <2>1
    <3> HIDE DEF h, k, save, w, m, ksp, new
    <3>1. /\ cpu' = [cpu EXCEPT !.tp = q, !.sp = save + 1, !.s = h] /\ at' = "handled"
          /\ save + 1 \in Int /\ h \in Int
      BY <1>1, <1>3, <1>4, <3>0
    <3>2. cpu' \in Registers /\ cpu'.tp = q /\ cpu'.sp = save + 1 /\ cpu'.s = h
      BY <1>1, <3>1, SwitchLoads
    <3> QED BY <1>4, <3>1, <3>2
  <2> HIDE DEF h, k, save, w, m, ksp, new
  <2>4. /\ DOMAIN mem' = Address
        /\ \A r \in Pcb \ {p} : \A c \in Zone(r) : mem'[c] = mem[c]
        /\ \A r \in Pcb : \A c \in Zone(r) \ {save} : mem'[c] = mem[c]
    <3>1. save \in Zone(q)
      BY <1>4, <1>6
    <3>2. Stored(p, q, save, save, w)
      BY <1>1, <1>4, <2>2, <3>1, SwitchStores
    <3> QED BY <1>6, <3>2 DEF Stored
  <2>5. mem'[h] = mem[h] /\ mem'[h - d] = mem[h - d]
    BY <1>4, <2>4
  <2>6. Saved(p)' /\ InHandler(p, d, cause)'
    BY <1>1, <1>2, <2>5 DEF Saved, InHandler, h
  <2>7. OnCpu(q)'
    BY <1>6, <2>3, <2>6 DEF OnCpu, h
  <2>8. InCall(p)' <=> InCall(p)
    <3>1. InCall(p) <=> cause = "syscall"
      BY <1>2, CallsKnown DEF CallKnown, h
    <3>2. InCall(p)' <=> cause = "syscall"
      BY <1>6, <2>3, <2>6, CallsKnown DEF CallKnown, h
    <3> QED BY <3>1, <3>2
  <2>9. \A r \in Pcb : mem'[Home(r)] = mem[Home(r)]
    BY <2>4, <2>5, ZoneHas DEF h
  <2> QED BY <1>5, <1>6, <2>3, <2>4, <2>7, <2>8, <2>9 DEF Switched
<1>7. CASE q # p
  <2>1. Waiting(q) /\ ksp[q] = kernel_sp[q]
    BY <1>1, <1>7, InvFacts
  <2>2. \A r \in Pcb : Home(r) \in Zone(r) /\ Home(r) \in Address
    BY ZoneHas, ZonesApart
  <2>3. ASSUME NEW e \in 0..MaxDepth, kernel_sp[q] = k - e - 1,
               NEW f \in [ra : {"handled", "ret_from_exception"}, sp : {k - e - 1}, s : Int],
               mem[k - e - 1] = Word("switchto", f)
        PROVE  /\ cpu' \in Registers /\ cpu'.tp = q /\ cpu'.sp = k - e /\ cpu'.s = f.s
               /\ at' = f.ra /\ DOMAIN mem' = Address
               /\ \A r \in Pcb \ {p, q} : \A c \in Zone(r) : mem'[c] = mem[c]
               /\ mem'[save] = w /\ mem'[h] = mem[h] /\ mem'[h - d] = mem[h - d]
               /\ mem'[k] = mem[k] /\ mem'[k - e] = mem[k - e]
    <3> DEFINE b == k - e - 1
    <3>1. e \in Int /\ b \in Int /\ b + 1 = k - e /\ b # k /\ b # k - e
      BY <1>1, Sizes
    <3>2. b \in Zone(q) /\ k \in Zone(q) /\ k - e \in Zone(q)
      <4>1. CASE e = 0
        <5>1. k - e - 1 = k - 1 /\ k - e = k
          BY <1>1, <4>1
        <5> QED BY <1>1, <5>1, ZoneHas
      <4>2. CASE e # 0
        <5>1. e \in 1..MaxDepth
          BY <4>2, Sizes
        <5> QED BY <1>1, <5>1, ZoneHas
      <4> QED BY <4>1, <4>2
    <3>3. b \notin Zone(p) /\ save \notin Zone(q) /\ b \in Address
      BY <1>1, <1>4, <1>7, <3>2, ZonesApart
    <3>4. b # save
      BY <1>4, <3>3
    <3>5. new = f
      BY <1>1, <2>1, <2>3, <3>3, <3>4 DEF Word
    <3>6. mem' = [[mem EXCEPT ![save] = w] EXCEPT ![b] = Nothing]
      BY <1>3, <2>1, <2>3
    <3>7. /\ cpu' \in Registers /\ cpu'.tp = q /\ cpu'.sp = k - e /\ cpu'.s = f.s
          /\ at' = f.ra
      <4>0. new.ra = f.ra /\ new.sp = b /\ new.s = f.s /\ f.s \in Int
        BY <2>3, <3>5
      <4> HIDE DEF h, k, save, w, m, ksp, new, b
      <4>1. /\ cpu' = [cpu EXCEPT !.tp = q, !.sp = k - e, !.s = f.s] /\ at' = f.ra
            /\ k - e \in Int /\ f.s \in Int
        <5>1. new.sp + 1 = k - e /\ k - e \in Int
          BY <3>1, <4>0
        <5> QED BY <1>3, <4>0, <5>1
      <4>2. cpu' \in Registers /\ cpu'.tp = q /\ cpu'.sp = k - e /\ cpu'.s = f.s
        <5> DEFINE x == k - e
                   y == f.s
        <5>1. /\ cpu' = [cpu EXCEPT !.tp = q, !.sp = x, !.s = y] /\ cpu \in Registers
              /\ q \in Pcb /\ x \in Int /\ y \in Int
          BY <1>1, <4>1
        <5> HIDE DEF x, y
        <5>2. cpu' \in Registers /\ cpu'.tp = q /\ cpu'.sp = x /\ cpu'.s = y
          BY <5>1, SwitchLoads
        <5> QED BY <5>2 DEF x, y
      <4> QED BY <4>1, <4>2
    <3> HIDE DEF h, k, save, w, m, ksp, new, b
    <3>8. /\ DOMAIN mem' = Address /\ mem'[save] = w
          /\ \A r \in Pcb \ {p, q} : \A c \in Zone(r) : mem'[c] = mem[c]
          /\ \A r \in Pcb : \A c \in Zone(r) \ {save, b} : mem'[c] = mem[c]
      <4>1. Stored(p, q, save, b, w)
        BY <1>1, <1>4, <3>2, <3>6, SwitchStores
      <4> QED BY <3>4, <4>1 DEF Stored
    <3>9. mem'[h] = mem[h] /\ mem'[h - d] = mem[h - d]
      BY <1>1, <1>4, <3>3, <3>8
    <3>10. mem'[k] = mem[k] /\ mem'[k - e] = mem[k - e]
      BY <1>1, <3>1, <3>2, <3>3, <3>8
    <3> QED BY <3>7, <3>8, <3>9, <3>10
  <2>4. ASSUME /\ \A r \in Pcb \ {p, q} : \A c \in Zone(r) : mem'[c] = mem[c]
               /\ mem'[save] = w /\ mem'[h] = mem[h] /\ mem'[h - d] = mem[h - d]
               /\ mem'[k] = mem[k] /\ cpu'.tp = q
        PROVE  /\ Waiting(p)' /\ Saved(q)' /\ (InCall(p)' <=> InCall(p))
               /\ \A r \in Pcb : mem'[Home(r)] = mem[Home(r)]
    <3>1. Saved(p)' /\ InHandler(p, d, cause)' /\ Saved(q)'
      BY <1>1, <1>2, <2>4 DEF Saved, InHandler
    <3>2. SwitchedOut(p, d)'
      BY <1>5, <2>4 DEF SwitchedOut
    <3>3. InCall(p) <=> cause = "syscall"
      BY <1>2, CallsKnown DEF CallKnown
    <3>4. InCall(p)' <=> cause = "syscall"
      BY <1>7, <2>4, <3>1, <3>2, CallsKnown DEF CallKnown
    <3>5. \A r \in Pcb : mem'[Home(r)] = mem[Home(r)]
      BY <2>2, <2>4
    <3> QED BY <3>1, <3>2, <3>3, <3>4, <3>5 DEF Waiting
  <2>5. CASE NeverRun(q)
    <3> DEFINE f == [ra |-> "ret_from_exception", sp |-> k - 0 - 1, s |-> Junk]
    <3>1. /\ 0 \in 0..MaxDepth /\ k - 0 - 1 = k - 1 /\ k - 0 = k
          /\ f \in [ra : {"handled", "ret_from_exception"}, sp : {k - 0 - 1}, s : Int]
      BY <1>1, Sizes DEF Junk
    <3>2. kernel_sp[q] = k - 0 - 1 /\ mem[k - 0 - 1] = Word("switchto", f)
      BY <2>5, <3>1 DEF NeverRun
    <3> HIDE DEF f
    <3>3. /\ cpu' \in Registers /\ cpu'.tp = q /\ cpu'.sp = k /\ at' = f.ra
          /\ DOMAIN mem' = Address
          /\ \A r \in Pcb \ {p, q} : \A c \in Zone(r) : mem'[c] = mem[c]
          /\ mem'[save] = w /\ mem'[h] = mem[h] /\ mem'[h - d] = mem[h - d]
          /\ mem'[k] = mem[k]
      BY <2>3, <3>1, <3>2
    <3>4. at' = "ret_from_exception"
      BY <3>3 DEF f
    <3>5. /\ Waiting(p)' /\ Saved(q)' /\ (InCall(p)' <=> InCall(p))
          /\ \A r \in Pcb : mem'[Home(r)] = mem[Home(r)]
      BY <2>4, <3>3
    <3>6. OnCpu(q)'
      BY <3>3, <3>4, <3>5 DEF OnCpu
    <3>7. ~InCall(q) /\ ~InCall(q)'
      BY <1>1, <1>7, <2>5, <3>3, <3>4, CallsKnown DEF CallKnown
    <3> QED BY <1>5, <3>3, <3>4, <3>5, <3>6, <3>7 DEF Switched
  <2>6. CASE \E e \in 1..MaxDepth, c2 \in Causes : InHandler(q, e, c2) /\ SwitchedOut(q, e)
    <3>1. PICK e \in 1..MaxDepth, c2 \in Causes : InHandler(q, e, c2) /\ SwitchedOut(q, e)
      BY <2>6
    <3> DEFINE f == [ra |-> "handled", sp |-> k - e - 1, s |-> k]
    <3>2. /\ e \in 0..MaxDepth
          /\ f \in [ra : {"handled", "ret_from_exception"}, sp : {k - e - 1}, s : Int]
      BY <1>1, Sizes
    <3>3. kernel_sp[q] = k - e - 1 /\ mem[k - e - 1] = Word("switchto", f)
      BY <3>1 DEF SwitchedOut
    <3> HIDE DEF f
    <3>4. /\ cpu' \in Registers /\ cpu'.tp = q /\ cpu'.sp = k - e /\ cpu'.s = f.s
          /\ at' = f.ra /\ DOMAIN mem' = Address
          /\ \A r \in Pcb \ {p, q} : \A c \in Zone(r) : mem'[c] = mem[c]
          /\ mem'[save] = w /\ mem'[h] = mem[h] /\ mem'[h - d] = mem[h - d]
          /\ mem'[k] = mem[k] /\ mem'[k - e] = mem[k - e]
      BY <2>3, <3>2, <3>3
    <3>5. at' = "handled" /\ cpu'.s = k
      BY <3>4 DEF f
    <3>6. /\ Waiting(p)' /\ Saved(q)' /\ (InCall(p)' <=> InCall(p))
          /\ \A r \in Pcb : mem'[Home(r)] = mem[Home(r)]
      BY <2>4, <3>4
    <3>7. InHandler(q, e, c2)'
      BY <3>1, <3>4 DEF InHandler
    <3>8. OnCpu(q)'
      BY <3>4, <3>5, <3>6, <3>7 DEF OnCpu
    <3>9. InCall(q) <=> c2 = "syscall"
      BY <1>1, <1>7, <3>1, CallsKnown DEF CallKnown
    <3>10. InCall(q)' <=> c2 = "syscall"
      BY <1>1, <3>4, <3>5, <3>7, CallsKnown DEF CallKnown
    <3> QED BY <1>5, <3>4, <3>5, <3>6, <3>8, <3>9, <3>10 DEF Switched
  <2> QED BY <2>1, <2>5, <2>6 DEF Waiting
<1> QED BY <1>6, <1>7

LEMMA SwitchInv ==
  ASSUME ContextInv, at = "handler", NEW p \in Pcb, p = cpu.tp, NEW q \in created,
         switch_to(p, q), UNCHANGED <<created, kernMemCurr, userMemCurr>>
  PROVE  ContextInv'
<1>1. Switched(p, q)
  BY SwitchEffect
<1>2. \A r \in created \ {q} : Waiting(r)'
  <2> SUFFICES ASSUME NEW r \in created, r # q PROVE Waiting(r)'
    OBVIOUS
  <2>1. CASE r = p
    BY <1>1, <2>1 DEF Switched
  <2>2. CASE r # p
    <3>1. r \in Pcb /\ Waiting(r)
      BY <2>2, InvFacts
    <3>2. (\A a \in Zone(r) : mem'[a] = mem[a]) /\ kernel_sp'[r] = kernel_sp[r]
      BY <1>1, <2>2, <3>1 DEF Switched
    <3> QED BY <3>1, <3>2, StackKept
  <2> QED BY <2>1, <2>2
<1>3. /\ DOMAIN mem' = Address /\ kernel_sp' \in [Pcb -> Int]
      /\ cpu' \in Registers /\ cpu'.tp = q /\ OnCpu(q)'
      /\ at' \in {"handled", "ret_from_exception"}
  BY <1>1 DEF Switched
<1> QED BY <1>2, <1>3, AllocationKept DEF ContextInv

-----------------------------------------------------------------------
(***************************************************************************)
(* The return from the handler takes its frames off the stack; that of a   *)
(* system call leaves the result in the trap frame.                        *)
(***************************************************************************)
Returned(p) ==
  /\ DOMAIN mem' = Address
  /\ cpu' \in Registers /\ cpu'.tp = p /\ cpu'.sp = Home(p)
  /\ \A q \in Pcb \ {p} : \A a \in Zone(q) : mem'[a] = mem[a]
  /\ Saved(p)'
  /\ \/ ~InCall(p) /\ mem'[Home(p)] = mem[Home(p)]
     \/ /\ InCall(p)
        /\ \E v \in Value \cup {Junk} :
             mem'[Home(p)].f = [mem[Home(p)].f EXCEPT
                                  !.a0 = v, !.pc = (mem[Home(p)].f.pc + 1) % PcBound]

LEMMA ReturnEffect ==
  ASSUME ContextInv, NEW p \in Pcb, p = cpu.tp, HandlerReturns
  PROVE  Returned(p)
<1> DEFINE h == Home(p)
<1>1. /\ at = "handled" /\ h \in Nat /\ DOMAIN mem = Address /\ cpu \in Registers
      /\ Saved(p) /\ cpu.s = h
  BY InvFacts, ZoneInPage DEF HandlerReturns, OnCpu
<1>2. PICK d \in 1..MaxDepth, cause \in Causes : InHandler(p, d, cause) /\ cpu.sp = h - d
  BY <1>1, InvFacts DEF OnCpu
<1>3. PICK r \in Files(p) : mem[h] = Word("regs", r)
  BY <1>1 DEF Saved
<1>4. d \in Int /\ h - d + d = h /\ h - d # h
      /\ h \in Zone(p) /\ h - d \in Zone(p) /\ Zone(p) \subseteq Address
  BY <1>1, ZoneHas, ZonesApart, Sizes
<1>5. mem[h - d].f.cause = cause /\ mem[h - d].f.d = d
  BY <1>2 DEF InHandler, Word
<1>6. cpu' = [cpu EXCEPT !.sp = h, !.s = Junk]
  <2>1. cpu' = [cpu EXCEPT !.sp = cpu.sp + d, !.s = Junk]
    BY <1>2, <1>5 DEF HandlerReturns
  <2>2. cpu.sp + d = h
    BY <1>2, <1>4
  <2> QED BY <2>1, <2>2
<1>7. cpu' \in Registers /\ cpu'.tp = p /\ cpu'.sp = h
  <2> HIDE DEF h
  <2>1. h \in Int /\ Junk \in Int
    BY <1>1 DEF Junk
  <2>2. cpu' = [pc |-> cpu.pc, sp |-> h, tp |-> cpu.tp, a0 |-> cpu.a0, s |-> Junk,
                t |-> cpu.t, priv |-> cpu.priv, sie |-> cpu.sie]
    BY <1>1, <1>6 DEF Registers
  <2> QED BY <1>1, <2>1, <2>2 DEF Registers
<1>8. InCall(p) <=> cause = "syscall"
  BY <1>1, <1>2, CallsKnown DEF CallKnown
<1>9. CASE cause = "timer"
  <2>1. mem' = [mem EXCEPT ![h - d] = Nothing]
    BY <1>2, <1>5, <1>9 DEF HandlerReturns
  <2> HIDE DEF h
  <2>2. /\ DOMAIN mem' = Address /\ mem'[h] = mem[h]
        /\ \A a \in Address \ Zone(p) : mem'[a] = mem[a]
    BY <1>1, <1>4, <2>1
  <2>3. Saved(p)'
    BY <1>3, <2>2 DEF Saved, h
  <2>4. \A q \in Pcb \ {p} : \A a \in Zone(q) : mem'[a] = mem[a]
    BY <2>2, OtherStacksKept
  <2> QED BY <1>7, <1>8, <1>9, <2>2, <2>3, <2>4 DEF Returned, h
<1>10. CASE cause = "syscall"
  <2>1. PICK v \in Value \cup {Junk} : Answer(v)
    BY <1>2, <1>5, <1>10 DEF HandlerReturns
  <2> DEFINE new == [r EXCEPT !.a0 = v, !.pc = (r.pc + 1) % PcBound]
  <2>2. mem[h].f = r
    BY <1>3 DEF Word
  <2>3. mem' = [mem EXCEPT ![h] = Word("regs", new), ![h - d] = Nothing]
    BY <1>1, <1>2, <2>1, <2>2 DEF Answer
  <2>4. new \in Files(p)
    BY FileStepped
  <2>5. new = [mem[h].f EXCEPT !.a0 = v, !.pc = (mem[h].f.pc + 1) % PcBound]
    BY <2>2
  <2> HIDE DEF h, new
  <2>6. /\ DOMAIN mem' = Address /\ mem'[h] = Word("regs", new)
        /\ \A a \in Address \ Zone(p) : mem'[a] = mem[a]
    BY <1>1, <1>4, <2>3
  <2>7. Saved(p)' /\ mem'[h].f = new
    BY <2>4, <2>6 DEF Saved, Word, h
  <2>8. \A q \in Pcb \ {p} : \A a \in Zone(q) : mem'[a] = mem[a]
    BY <2>6, OtherStacksKept
  <2>9. mem'[h].f = [mem[h].f EXCEPT !.a0 = v, !.pc = (mem[h].f.pc + 1) % PcBound]
    BY <2>5, <2>7
  <2> QED BY <1>7, <1>8, <1>10, <2>6, <2>7, <2>8, <2>9 DEF Returned, h
<1> QED BY <1>9, <1>10 DEF Causes

LEMMA ReturnInv ==
  ASSUME ContextInv, HandlerReturns PROVE ContextInv'
<1>0. PICK p \in Pcb : p = cpu.tp
  BY InvFacts
<1>1. /\ at' = "ret_from_exception"
      /\ UNCHANGED <<kernel_sp, created, exited, kernMemCurr, userMemCurr>>
  BY DEF HandlerReturns
<1>2. Returned(p)
  BY <1>0, ReturnEffect
<1>3. /\ DOMAIN mem' = Address /\ cpu' \in Registers /\ cpu'.tp = p
      /\ cpu'.sp = Home(p) /\ Saved(p)'
      /\ \A q \in Pcb \ {p} : \A a \in Zone(q) : mem'[a] = mem[a]
  BY <1>2 DEF Returned
<1>4. \A q \in created \ {p} : Waiting(q)'
  BY <1>0, <1>1, <1>3, InvFacts, StackKept
<1>5. OnCpu(p)'
  BY <1>1, <1>3 DEF OnCpu
<1> QED BY <1>0, <1>1, <1>3, <1>4, <1>5, InvFacts, AllocationKept DEF ContextInv

(***************************************************************************)
(* RESTORE_CONTEXT: the registers are those of the trap frame, and the     *)
(* stack is empty.                                                         *)
(***************************************************************************)
Restored(p) ==
  /\ DOMAIN mem' = Address /\ kernel_sp' = [kernel_sp EXCEPT ![p] = Home(p)]
  /\ cpu' \in Files(p) /\ cpu' = mem[Home(p)].f
  /\ \A q \in Pcb \ {p} : \A a \in Zone(q) : mem'[a] = mem[a]

LEMMA RestoreEffect ==
  ASSUME ContextInv, NEW p \in Pcb, p = cpu.tp, ret_from_exception
  PROVE  Restored(p)
<1> DEFINE h == Home(p)
<1>1. /\ at = "ret_from_exception" /\ DOMAIN mem = Address /\ Saved(p) /\ cpu.sp = h
  BY InvFacts DEF ret_from_exception, OnCpu
<1>2. PICK r \in Files(p) : mem[h] = Word("regs", r)
  BY <1>1 DEF Saved
<1>3. mem[h].f = r /\ r.tp = p
  <2>1. mem[h].f = r
    BY <1>2 DEF Word
  <2> QED BY <2>1 DEF Files
<1>4. /\ cpu' = r /\ kernel_sp' = [kernel_sp EXCEPT ![p] = h]
      /\ mem' = [mem EXCEPT ![h] = Nothing]
  BY <1>1, <1>3 DEF ret_from_exception, RestoreContext
<1>5. h \in Zone(p) /\ Zone(p) \subseteq Address
  BY ZoneHas, ZonesApart
<1> HIDE DEF h
<1>6. DOMAIN mem' = Address /\ \A a \in Address \ Zone(p) : mem'[a] = mem[a]
  BY <1>1, <1>4, <1>5
<1>7. \A q \in Pcb \ {p} : \A a \in Zone(q) : mem'[a] = mem[a]
  BY <1>6, OtherStacksKept
<1> QED BY <1>3, <1>4, <1>6, <1>7 DEF Restored, h

LEMMA RestoreInv ==
  ASSUME ContextInv, ret_from_exception PROVE ContextInv'
<1>0. PICK p \in Pcb : p = cpu.tp
  BY InvFacts
<1>1. at' = "program" /\ UNCHANGED <<created, exited, kernMemCurr, userMemCurr>>
  BY DEF ret_from_exception
<1>2. Restored(p)
  BY <1>0, RestoreEffect
<1>3. /\ kernel_sp' \in [Pcb -> Int] /\ kernel_sp'[p] = Home(p)
      /\ \A q \in Pcb \ {p} : kernel_sp'[q] = kernel_sp[q]
  BY <1>2, InvFacts, ZoneInPage DEF Restored
<1>4. /\ DOMAIN mem' = Address /\ cpu' \in Files(p)
      /\ \A q \in Pcb \ {p} : \A a \in Zone(q) : mem'[a] = mem[a]
  BY <1>2 DEF Restored
<1>5. cpu' \in Registers /\ cpu'.tp = p
  BY <1>4 DEF Files, Registers
<1>6. \A q \in created \ {p} : Waiting(q)'
  BY <1>0, <1>3, <1>4, InvFacts, StackKept
<1>7. OnCpu(p)'
  BY <1>1, <1>3, <1>4 DEF OnCpu
<1> QED BY <1>0, <1>1, <1>3, <1>4, <1>5, <1>6, <1>7, InvFacts, AllocationKept DEF ContextInv

-----------------------------------------------------------------------
(***************************************************************************)
(* The page allocators and the frames of a new task.                       *)
(***************************************************************************)
LEMMA PageAligned ==
  ASSUME NEW p \in Nat
  PROVE  ROUND(p * PAGE_SIZE, PAGE_SIZE) = p * PAGE_SIZE
<1> DEFINE P == PAGE_SIZE
           x == p * P + P - 1
           d == x \div P
<1>1. P \in Nat /\ P > 0 /\ p * P \in Nat
  BY Sizes, Pages
<1>2. x \in Nat /\ p * P <= x /\ x < p * P + P
  BY <1>1
<1> HIDE DEF x
<1>3. d \in Nat /\ d * P <= x /\ x < d * P + P
  <2>1. d \in Nat /\ x = P * d + (x % P) /\ (x % P) \in 0..(P - 1)
    BY <1>1, <1>2
  <2>2. P * d = d * P
    BY <1>1, <2>1
  <2> HIDE DEF d
  <2>3. d * P \in Nat
    BY <1>1, <2>1
  <2> QED BY <1>1, <1>2, <2>1, <2>2, <2>3
<1> HIDE DEF d
<1>4. d * P \in Nat
  BY <1>1, <1>3
<1>5. ~(d < p) /\ ~(p < d)
  <2>1. d < p => d * P + P <= p * P
    BY <1>3, Pages
  <2>2. p < d => p * P + P <= d * P
    BY <1>3, Pages
  <2> HIDE DEF P
  <2> QED BY <1>1, <1>2, <1>3, <1>4, <2>1, <2>2
<1>6. d = p
  BY <1>3, <1>5
<1>7. ROUND(p * PAGE_SIZE, PAGE_SIZE) = d * P
  BY DEF ROUND, d, x, P
<1> QED BY <1>6, <1>7 DEF P

LEMMA KernelPage ==
  ASSUME NEW p \in Nat
  PROVE  /\ allocKernelPage(p * PAGE_SIZE, 1).ret = p * PAGE_SIZE
         /\ allocKernelPage(p * PAGE_SIZE, 1).cur = (p + 1) * PAGE_SIZE
<1>1. p * PAGE_SIZE + 1 * PAGE_SIZE = (p + 1) * PAGE_SIZE
  BY Sizes, Pages
<1> QED BY <1>1, PageAligned DEF allocKernelPage

\* The frames are where SAVE_CONTEXT and switch_to would have put them.
FirstFrames(m, p, ustack, a0) ==
  [m EXCEPT ![Home(p)] = Word("regs", FirstRegs(p, ustack, a0)),
            ![Home(p) - 1] = Word("switchto",
               [ra |-> "ret_from_exception", sp |-> Home(p) - 1, s |-> Junk])]

FramesAre(m, s, p, ustack, a0) ==
  /\ DOMAIN s = Address
  /\ s[Home(p)] = Word("regs", FirstRegs(p, ustack, a0))
  /\ s[Home(p) - 1] = Word("switchto",
       [ra |-> "ret_from_exception", sp |-> Home(p) - 1, s |-> Junk])
  /\ \A a \in Address \ Zone(p) : s[a] = m[a]

LEMMA FirstFramesAre ==
  ASSUME NEW p \in Pcb, NEW m, DOMAIN m = Address, NEW ustack, NEW a0
  PROVE  /\ init_stack(m, p, Home(p) + 1, ustack, a0) =
              [mem |-> FirstFrames(m, p, ustack, a0), kernel_sp |-> Home(p) - 1]
         /\ FramesAre(m, FirstFrames(m, p, ustack, a0), p, ustack, a0)
<1> DEFINE h == Home(p)
<1>1. h \in Nat /\ h + 1 - 1 = h /\ h + 1 - 2 = h - 1 /\ h - 1 # h
  BY ZoneInPage
<1>2. h \in Zone(p) /\ h - 1 \in Zone(p) /\ Zone(p) \subseteq Address
  BY ZoneHas, ZonesApart
<1>3. init_stack(m, p, h + 1, ustack, a0) =
        [mem |-> FirstFrames(m, p, ustack, a0), kernel_sp |-> h - 1]
  BY <1>1 DEF init_stack, FirstFrames
<1> DEFINE r == Word("regs", FirstRegs(p, ustack, a0))
           w == Word("switchto", [ra |-> "ret_from_exception", sp |-> h - 1, s |-> Junk])
           s == FirstFrames(m, p, ustack, a0)
<1>4. s = [m EXCEPT ![h] = r, ![h - 1] = w]
  BY DEF FirstFrames
<1> HIDE DEF h, r, w, s
<1>5. /\ DOMAIN s = Address /\ s[h] = r /\ s[h - 1] = w
      /\ \A a \in Address \ Zone(p) : s[a] = m[a]
  BY <1>1, <1>2, <1>4
<1> QED BY <1>3, <1>5 DEF FramesAre, h, r, w, s

LEMMA FirstFile ==
  ASSUME NEW p \in Pcb, NEW a0 \in Value \cup {Junk}
  PROVE  FirstRegs(p, p * UserPages, a0) \in Files(p)
BY Sizes DEF FirstRegs, Regs, Files, Junk, UserPages

(***************************************************************************)
(* do_thread_create makes the next PCB, with a page and frames of its own. *)
(***************************************************************************)
Made(c, arg) ==
  /\ c \in Pcb \ created /\ created' = created \cup {c}
  /\ \E n \in NumTask .. NumTask + NumThread : Allocated(n)'
  /\ DOMAIN mem' = Address /\ kernel_sp' \in [Pcb -> Int]
  /\ mem'[Home(c)] = Word("regs", FirstRegs(c, c * UserPages, arg))
  /\ NeverRun(c)'
  /\ \A q \in Pcb \ {c} : /\ \A a \in Zone(q) : mem'[a] = mem[a]
                          /\ kernel_sp'[q] = kernel_sp[q]

LEMMA CreateEffect ==
  ASSUME ContextInv, NEW c \in Tcb, NEW arg \in Value, ThreadCreate(c, arg)
  PROVE  Made(c, arg)
<1>1. PICK n \in NumTask .. NumTask + NumThread : Allocated(n)
  BY DEF ContextInv
<1>2. /\ c \in Tcb \ created /\ \A e \in Tcb \ created : c <= e
      /\ created' = created \cup {c}
  BY DEF ThreadCreate
<1>3. /\ n \in Nat /\ c = n + 1 /\ n + 1 \in NumTask .. NumTask + NumThread
      /\ c \in Pcb /\ c \notin created /\ c # pid0 /\ c \in Nat
  <2>1. c \in NumTask + 1 .. NumTask + NumThread /\ c \notin 0..n
    BY <1>1, <1>2 DEF Allocated, Tcb
  <2>2. n < c /\ n + 1 \in NumTask + 1 .. NumTask + NumThread /\ n + 1 \notin 0..n
    BY <2>1, Sizes
  <2>3. c <= n + 1
    BY <1>1, <1>2, <2>2 DEF Allocated, Tcb
  <2> QED BY <1>2, <2>1, <2>2, <2>3, Sizes DEF pid0
<1> DEFINE k == allocKernelPage(kernMemCurr, 1)
           u == allocUserPage(userMemCurr, UserPages)
           s == init_stack(mem, c, k.ret + PAGE_SIZE - 1, u.ret + UserPages, arg)
<1>4. /\ mem' = s.mem /\ kernel_sp' = [kernel_sp EXCEPT ![c] = s.kernel_sp]
      /\ kernMemCurr' = k.cur /\ userMemCurr' = u.cur
  BY DEF ThreadCreate
<1>5. k.ret = c * PAGE_SIZE /\ k.cur = (c + 1) * PAGE_SIZE
  BY <1>1, <1>3, KernelPage DEF Allocated
<1>6. u.ret + UserPages = c * UserPages /\ u.cur = c * UserPages
  BY <1>1, <1>3 DEF Allocated, allocUserPage, UserPages
<1>7. k.ret + PAGE_SIZE - 1 = Home(c) + 1
  <2>1. Home(c) = c * PAGE_SIZE + PAGE_SIZE - 2 /\ c * PAGE_SIZE \in Nat /\ PAGE_SIZE \in Nat
    BY <1>3, ZoneInPage, Pages, Sizes
  <2> HIDE DEF k
  <2> QED BY <1>5, <2>1
<1>8. s = [mem |-> FirstFrames(mem, c, c * UserPages, arg), kernel_sp |-> Home(c) - 1]
  <2>1. s = init_stack(mem, c, Home(c) + 1, c * UserPages, arg)
    <3> HIDE DEF k, u
    <3> QED BY <1>6, <1>7
  <2>2. DOMAIN mem = Address
    BY InvFacts
  <2> HIDE DEF s
  <2> QED BY <1>3, <2>1, <2>2, FirstFramesAre
<1>9. c \in NumTask .. NumTask + NumThread /\ Allocated(c)'
  <2>1. created' = 0..c
    BY <1>1, <1>2, <1>3 DEF Allocated
  <2> HIDE DEF k, u
  <2> QED BY <1>3, <1>4, <1>5, <1>6, <2>1 DEF Allocated
<1>10. /\ mem' = FirstFrames(mem, c, c * UserPages, arg)
       /\ kernel_sp' = [kernel_sp EXCEPT ![c] = Home(c) - 1]
  <2> HIDE DEF s
  <2> QED BY <1>4, <1>8
<1>11. FramesAre(mem, mem', c, c * UserPages, arg)
  BY <1>3, <1>10, InvFacts, FirstFramesAre
<1>12. \A q \in Pcb \ {c} : \A a \in Zone(q) : mem'[a] = mem[a]
  BY <1>3, <1>11, OtherStacksKept DEF FramesAre
<1>13. /\ kernel_sp' \in [Pcb -> Int] /\ kernel_sp'[c] = Home(c) - 1
       /\ \A q \in Pcb \ {c} : kernel_sp'[q] = kernel_sp[q]
  BY <1>3, <1>10, InvFacts, ZoneInPage
<1>14. NeverRun(c)'
  BY <1>11, <1>13 DEF NeverRun, FramesAre
<1> QED BY <1>2, <1>3, <1>9, <1>11, <1>12, <1>13, <1>14 DEF Made, FramesAre

LEMMA CreateInv ==
  ASSUME ContextInv, NEW c \in Tcb, NEW arg \in Value, ThreadCreate(c, arg)
  PROVE  ContextInv'
<1>0. PICK p \in Pcb : p = cpu.tp
  BY InvFacts
<1>1. at = "handler" /\ at' = "handled" /\ cpu' = cpu /\ p \in created
  BY <1>0, InvFacts DEF ThreadCreate
<1>2. Made(c, arg)
  BY CreateEffect
<1>3. c \in Pcb \ created /\ c # p /\ created' = created \cup {c}
  BY <1>1, <1>2 DEF Made
<1>4. /\ DOMAIN mem' = Address /\ kernel_sp' \in [Pcb -> Int]
      /\ mem'[Home(c)] = Word("regs", FirstRegs(c, c * UserPages, arg))
      /\ NeverRun(c)'
  BY <1>2 DEF Made
<1>5. \A q \in Pcb \ {c} : \A a \in Zone(q) : mem'[a] = mem[a]
  BY <1>2 DEF Made
<1>6. \A q \in Pcb \ {c} : kernel_sp'[q] = kernel_sp[q]
  BY <1>2 DEF Made
<1>7. Waiting(c)'
  <2>1. Saved(c)'
    BY <1>3, <1>4, FirstFile DEF Saved
  <2> QED BY <1>4, <2>1 DEF Waiting
<1>8. \A q \in created \ {p} : Waiting(q)'
  BY <1>0, <1>3, <1>5, <1>6, InvFacts, StackKept
<1>9. OnCpu(p)'
  <2>1. Saved(p)' /\ \A d \in 1..MaxDepth, cause \in Causes :
                       InHandler(p, d, cause)' <=> InHandler(p, d, cause)
    BY <1>0, <1>1, <1>3, <1>5, InvFacts, StackKept DEF OnCpu
  <2> QED BY <1>0, <1>1, <2>1, InvFacts DEF OnCpu
<1>10. \E n \in NumTask .. NumTask + NumThread : Allocated(n)'
  BY <1>2 DEF Made
<1> QED BY <1>0, <1>1, <1>3, <1>4, <1>7, <1>8, <1>9, <1>10, InvFacts DEF ContextInv

-----------------------------------------------------------------------
(***************************************************************************)
(* init_pcb's loop.                                                        *)
(***************************************************************************)
NoTasks == [mem |-> [a \in Address |-> Nothing], ksp |-> [p \in Pcb |-> pid0_stack],
            kern |-> FREEMEM_KERNEL, user |-> 0]

NextTask(old, i) ==
  LET k == allocKernelPage(old.kern, 1)
      u == allocUserPage(old.user, UserPages)
      s == init_stack(old.mem, i, k.ret + PAGE_SIZE, u.ret + UserPages, Junk)
  IN  [mem |-> s.mem, ksp |-> [old.ksp EXCEPT ![i] = s.kernel_sp],
       kern |-> k.cur, user |-> u.cur]

MadeUpTo(n) ==
  CHOOSE f : f = [i \in 0..n |-> IF i = 0 THEN NoTasks ELSE NextTask(f[i - 1], i)]

LEMMA MadeIs ==
  ASSUME NEW n \in Nat
  PROVE  /\ MadeUpTo(n)[0] = NoTasks
         /\ \A i \in 1..n : MadeUpTo(n)[i] = NextTask(MadeUpTo(n)[i - 1], i)
<1> DEFINE Is(f, m) == f = [i \in 0..m |-> IF i = 0 THEN NoTasks ELSE NextTask(f[i - 1], i)]
           Bad == {m \in Nat : \A f : ~Is(f, m)}
<1>1. Bad = {}
  <2> SUFFICES ASSUME Bad # {} PROVE FALSE
    OBVIOUS
  <2>1. Bad \in SUBSET Nat
    OBVIOUS
  <2>2. PICK m \in Bad : \A j \in Bad : m <= j
    <3> HIDE DEF Bad
    <3> QED BY <2>1, SmallestExists
  <2>3. CASE m = 0
    <3> DEFINE g == [i \in 0..0 |-> NoTasks]
    <3>1. Is(g, 0)
      OBVIOUS
    <3> QED BY <2>3, <3>1
  <2>4. CASE m # 0
    <3>1. m \in Nat /\ m - 1 \in Nat /\ m - 1 \notin Bad
      <4> HIDE DEF Bad
      <4> QED BY <2>1, <2>2, <2>4
    <3>2. \E g : Is(g, m - 1)
      <4> HIDE DEF Is
      <4> QED BY <3>1
    <3>3. PICK g : Is(g, m - 1)
      BY <3>2
    <3> DEFINE h == [i \in 0..m |-> IF i = m THEN NextTask(g[m - 1], m) ELSE g[i]]
    <3>4. \A i \in 0..m : h[i] = IF i = 0 THEN NoTasks ELSE NextTask(h[i - 1], i)
      <4> SUFFICES ASSUME NEW i \in 0..m
                   PROVE  h[i] = IF i = 0 THEN NoTasks ELSE NextTask(h[i - 1], i)
        OBVIOUS
      <4>0. \A j \in 0..(m - 1) : g[j] = IF j = 0 THEN NoTasks ELSE NextTask(g[j - 1], j)
        BY <3>3
      <4>1. CASE i = m
        <5>1. m - 1 \in 0..m /\ m - 1 # m
          BY <3>1
        <5>2. h[m - 1] = g[m - 1]
          BY <5>1
        <5>3. h[m] = NextTask(g[m - 1], m)
          BY <3>1
        <5> HIDE DEF h
        <5> QED BY <2>4, <4>1, <5>2, <5>3
      <4>2. CASE i # m
        <5>1. i \in 0..(m - 1) /\ (i # 0 => i - 1 \in 0..m /\ i - 1 # m)
          BY <3>1, <4>2
        <5>2. h[i] = g[i] /\ (i # 0 => h[i - 1] = g[i - 1])
          BY <5>1, <4>2
        <5> HIDE DEF h
        <5> QED BY <4>0, <5>1, <5>2
      <4> QED BY <4>1, <4>2
    <3>5. h = [i \in 0..m |-> h[i]]
      OBVIOUS
    <3>6. Is(h, m)
      <4> HIDE DEF h
      <4> QED BY <3>4, <3>5
    <3> HIDE DEF Is, h
    <3> QED BY <2>2, <3>6
  <2> QED BY <2>3, <2>4
<1>2. \E f : Is(f, n)
  <2> HIDE DEF Is
  <2> QED BY <1>1
<1>3. Is(MadeUpTo(n), n)
  BY <1>2 DEF MadeUpTo
<1> DEFINE f == MadeUpTo(n)
<1> HIDE DEF f
<1>4. f = [i \in 0..n |-> IF i = 0 THEN NoTasks ELSE NextTask(f[i - 1], i)]
  BY <1>3 DEF f
<1>5. \A i \in 0..n : f[i] = IF i = 0 THEN NoTasks ELSE NextTask(f[i - 1], i)
  BY <1>4
<1>6. 0 \in 0..n /\ \A i \in 1..n : i \in 0..n /\ i # 0
  OBVIOUS
<1>7. f[0] = NoTasks /\ \A i \in 1..n : f[i] = NextTask(f[i - 1], i)
  BY <1>5, <1>6
<1> QED BY <1>7 DEF f

LEMMA TasksMadeIs == TasksMade = MadeUpTo(NumTask)[NumTask]
BY DEF TasksMade, MadeUpTo, NoTasks, NextTask

\* After i tasks.
TasksReady(m, i) ==
  /\ DOMAIN m.mem = Address /\ m.ksp \in [Pcb -> Int] /\ m.ksp[pid0] = Home(pid0)
  /\ m.kern = (i + 1) * PAGE_SIZE /\ m.user = i * UserPages
  /\ \A t \in 1..i :
       /\ m.mem[Home(t)] = Word("regs", FirstRegs(t, t * UserPages, Junk))
       /\ m.mem[Home(t) - 1] = Word("switchto",
            [ra |-> "ret_from_exception", sp |-> Home(t) - 1, s |-> Junk])
       /\ m.ksp[t] = Home(t) - 1

LEMMA NextTaskReady ==
  ASSUME NEW i \in 1..NumTask, NEW old, TasksReady(old, i - 1)
  PROVE  TasksReady(NextTask(old, i), i)
<1>1. i \in Nat /\ i # pid0 /\ i \in Task /\ i \in Pcb /\ (i - 1) + 1 = i
  BY Sizes DEF Task, pid0
<1> DEFINE k == allocKernelPage(old.kern, 1)
           u == allocUserPage(old.user, UserPages)
           s == init_stack(old.mem, i, k.ret + PAGE_SIZE, u.ret + UserPages, Junk)
           f == FirstFrames(old.mem, i, i * UserPages, Junk)
<1>2. k.ret = i * PAGE_SIZE /\ k.cur = (i + 1) * PAGE_SIZE
  <2>1. old.kern = i * PAGE_SIZE
    BY <1>1 DEF TasksReady
  <2> QED BY <1>1, <2>1, KernelPage
<1>3. u.ret + UserPages = i * UserPages /\ u.cur = i * UserPages
  BY <1>1 DEF TasksReady, allocUserPage, UserPages
<1>4. k.ret + PAGE_SIZE = Home(i) + 1
  <2>1. Home(i) = i * PAGE_SIZE + PAGE_SIZE - 1 /\ i * PAGE_SIZE \in Nat /\ PAGE_SIZE \in Nat
    BY <1>1, ZoneInPage, Pages, Sizes
  <2> HIDE DEF k
  <2> QED BY <1>2, <2>1
<1>5. /\ s = [mem |-> f, kernel_sp |-> Home(i) - 1]
      /\ FramesAre(old.mem, f, i, i * UserPages, Junk)
  <2>1. s = init_stack(old.mem, i, Home(i) + 1, i * UserPages, Junk)
    <3> HIDE DEF k, u
    <3> QED BY <1>3, <1>4
  <2>2. DOMAIN old.mem = Address
    BY DEF TasksReady
  <2> HIDE DEF s
  <2> QED BY <1>1, <2>1, <2>2, FirstFramesAre
<1> DEFINE new == NextTask(old, i)
<1>6. /\ new.mem = f /\ new.ksp = [old.ksp EXCEPT ![i] = Home(i) - 1]
      /\ new.kern = (i + 1) * PAGE_SIZE /\ new.user = i * UserPages
  <2>1. new = [mem |-> s.mem, ksp |-> [old.ksp EXCEPT ![i] = s.kernel_sp],
               kern |-> k.cur, user |-> u.cur]
    BY DEF NextTask
  <2> HIDE DEF k, u, s, f, new
  <2> QED BY <1>2, <1>3, <1>5, <2>1
<1>7. /\ new.ksp \in [Pcb -> Int] /\ new.ksp[i] = Home(i) - 1
      /\ \A q \in Pcb \ {i} : new.ksp[q] = old.ksp[q]
  <2>1. Home(i) - 1 \in Int /\ old.ksp \in [Pcb -> Int]
    BY <1>1, ZoneInPage DEF TasksReady
  <2> HIDE DEF new
  <2> QED BY <1>1, <1>6, <2>1
<1> HIDE DEF f, new
<1>8. new.ksp[pid0] = Home(pid0)
  <2>1. pid0 \in Pcb
    BY DEF Pcb
  <2> QED BY <1>1, <1>7, <2>1 DEF TasksReady
<1>9. ASSUME NEW t \in 1..i
      PROVE  /\ new.mem[Home(t)] = Word("regs", FirstRegs(t, t * UserPages, Junk))
             /\ new.mem[Home(t) - 1] = Word("switchto",
                  [ra |-> "ret_from_exception", sp |-> Home(t) - 1, s |-> Junk])
             /\ new.ksp[t] = Home(t) - 1
  <2>1. CASE t = i
    BY <1>5, <1>6, <1>7, <2>1 DEF FramesAre
  <2>2. CASE t # i
    <3>1. t \in 1..(i - 1) /\ t \in Pcb
      BY <2>2, Sizes
    <3>2. /\ Home(t) \in Address \ Zone(i) /\ Home(t) - 1 \in Address \ Zone(i)
      BY <1>1, <2>2, <3>1, ZoneHas, ZonesApart
    <3>3. new.mem[Home(t)] = old.mem[Home(t)] /\ new.mem[Home(t) - 1] = old.mem[Home(t) - 1]
      BY <1>5, <1>6, <3>2 DEF FramesAre
    <3>4. new.ksp[t] = old.ksp[t]
      BY <1>7, <2>2, <3>1
    <3> QED BY <3>1, <3>3, <3>4 DEF TasksReady
  <2> QED BY <2>1, <2>2
<1>10. DOMAIN new.mem = Address
  BY <1>5, <1>6 DEF FramesAre
<1>11. TasksReady(new, i)
  BY <1>6, <1>7, <1>8, <1>9, <1>10 DEF TasksReady
<1> QED BY <1>11 DEF new

LEMMA AllTasksReady == TasksReady(TasksMade, NumTask)
<1> DEFINE f == MadeUpTo(NumTask)
           Bad == {m \in Nat : m <= NumTask /\ ~TasksReady(f[m], m)}
<1>1. NumTask \in Nat
  BY Sizes
<1>2. f[0] = NoTasks /\ \A i \in 1..NumTask : f[i] = NextTask(f[i - 1], i)
  BY <1>1, MadeIs
<1> HIDE DEF f
<1>3. Bad = {}
  <2> SUFFICES ASSUME Bad # {} PROVE FALSE
    OBVIOUS
  <2>1. Bad \in SUBSET Nat
    OBVIOUS
  <2>2. PICK m \in Bad : \A j \in Bad : m <= j
    <3> HIDE DEF Bad
    <3> QED BY <2>1, SmallestExists
  <2>3. TasksReady(NoTasks, 0)
    <3>1. pid0 \in Pcb /\ Home(pid0) = pid0_stack /\ pid0_stack \in Int
      BY Sizes, ZoneInPage DEF Pcb, pid0_stack
    <3>2. FREEMEM_KERNEL = (0 + 1) * PAGE_SIZE /\ 0 = 0 * UserPages
      BY Sizes DEF FREEMEM_KERNEL, UserPages
    <3> QED BY <3>1, <3>2 DEF TasksReady, NoTasks
  <2>4. m # 0
    BY <1>2, <2>2, <2>3
  <2>5. m \in 1..NumTask /\ m - 1 \in Nat /\ m - 1 <= NumTask /\ m - 1 \notin Bad
    BY <1>1, <2>2, <2>4
  <2>6. TasksReady(f[m - 1], m - 1)
    BY <2>5
  <2>7. TasksReady(f[m], m)
    BY <1>2, <2>5, <2>6, NextTaskReady
  <2> QED BY <2>2, <2>7
<1>4. TasksReady(f[NumTask], NumTask)
  BY <1>1, <1>3
<1> QED BY <1>4, TasksMadeIs DEF f

LEMMA ContextInitInv == ContextInit => ContextInv
<1> SUFFICES ASSUME ContextInit PROVE ContextInv
  OBVIOUS
<1>1. /\ cpu = Regs(0, 0, pid0, Junk, Junk, Junk, "S", TRUE) /\ at = "program"
      /\ created = {pid0} \cup Task
  BY DEF ContextInit
<1>2. TasksReady(TasksMade, NumTask) /\ NumTask \in Nat
  BY AllTasksReady, Sizes
<1>3. /\ DOMAIN mem = Address /\ kernel_sp \in [Pcb -> Int] /\ kernel_sp[pid0] = Home(pid0)
      /\ kernMemCurr = (NumTask + 1) * PAGE_SIZE /\ userMemCurr = NumTask * UserPages
  BY <1>2 DEF ContextInit, TasksReady
<1>4. created = 0..NumTask
  BY <1>1, <1>2 DEF Task, pid0
<1>5. NumTask \in NumTask .. NumTask + NumThread /\ Allocated(NumTask)
  BY <1>2, <1>3, <1>4, Sizes DEF Allocated
<1>6. cpu \in Files(pid0) /\ cpu \in Registers /\ cpu.tp = pid0 /\ pid0 \in created
  BY <1>1 DEF Regs, Files, Registers, Junk, pid0, Pcb
<1>7. OnCpu(pid0)
  BY <1>1, <1>3, <1>6 DEF OnCpu
<1>8. ASSUME NEW t \in created \ {pid0} PROVE Waiting(t)
  <2>1. t \in 1..NumTask /\ t \in Pcb
    BY <1>2, <1>4, Sizes DEF pid0
  <2>2. /\ mem[Home(t)] = Word("regs", FirstRegs(t, t * UserPages, Junk))
        /\ mem[Home(t) - 1] = Word("switchto",
             [ra |-> "ret_from_exception", sp |-> Home(t) - 1, s |-> Junk])
        /\ kernel_sp[t] = Home(t) - 1
    BY <1>2, <2>1 DEF ContextInit, TasksReady
  <2>3. Saved(t)
    BY <2>1, <2>2, FirstFile DEF Saved
  <2> QED BY <2>2, <2>3 DEF Waiting, NeverRun
<1> QED BY <1>1, <1>3, <1>5, <1>6, <1>7, <1>8 DEF ContextInv

-----------------------------------------------------------------------
LEMMA ContextStepInv == ContextInv /\ [ContextStep]_contextVars => ContextInv'
<1> SUFFICES ASSUME ContextInv, [ContextStep]_contextVars PROVE ContextInv'
  OBVIOUS
<1>0. PICK p \in Pcb : p = cpu.tp
  BY InvFacts
<1>1. CASE ProgramStep
  BY <1>1, ProgramStepInv
<1>2. ASSUME NEW cause \in Causes, Trap(cause) PROVE ContextInv'
  BY <1>2, TrapInv
<1>3. CASE Stay
  BY <1>3, StayInv
<1>4. ASSUME NEW q \in Pcb, Switch(q) \/ Exit(q) PROVE ContextInv'
  <2>1. /\ at = "handler" /\ q \in created /\ switch_to(p, q)
        /\ UNCHANGED <<created, kernMemCurr, userMemCurr>>
    BY <1>0, <1>4 DEF Switch, Exit
  <2> QED BY <1>0, <2>1, SwitchInv
<1>5. ASSUME NEW c \in Tcb, NEW arg \in Value, ThreadCreate(c, arg) PROVE ContextInv'
  BY <1>5, CreateInv
<1>6. CASE HandlerReturns
  BY <1>6, ReturnInv
<1>7. CASE ret_from_exception
  BY <1>7, RestoreInv
<1>8. CASE UNCHANGED contextVars
  <2>1. UNCHANGED <<mem, kernel_sp, cpu, at, created, exited, kernMemCurr, userMemCurr>>
    BY <1>8 DEF contextVars
  <2>2. \A q \in created \ {p} : Waiting(q)'
    BY <1>0, <2>1, InvFacts, StackKept
  <2>3. OnCpu(p)'
    BY <1>0, <2>1, InvFacts DEF OnCpu, Saved, InHandler
  <2> QED BY <1>0, <2>1, <2>2, <2>3, InvFacts, AllocationKept DEF ContextInv
<1> QED BY <1>1, <1>2, <1>3, <1>4, <1>5, <1>6, <1>7, <1>8 DEF ContextStep, Causes

\* The frames on every stack are those that the entry of the kernel, switch_to
\* and init_stack leave there, and the allocators have given out as many pages as
\* there are PCBs.
THEOREM ContextInvariant == ContextSpec => []ContextInv
BY ContextInitInv, ContextStepInv, PTL DEF ContextSpec

LEMMA Balanced == ASSUME ContextInv PROVE StacksBalance
<1> SUFFICES ASSUME NEW p \in Live
             PROVE  /\ p # pid0 => /\ StackPointer(p) \in PageOf(p) .. Home(p)
                                   /\ StackPointer(p) # Home(pid0)
                    /\ at = "program" /\ cpu.tp = p => kernel_sp[p] = Home(p)
  BY DEF StacksBalance
<1>1. p \in created /\ p \in Pcb /\ pid0 \in Pcb
  BY InvFacts DEF Live, Pcb
<1>2. at = "program" /\ cpu.tp = p => kernel_sp[p] = Home(p)
  BY InvFacts DEF OnCpu
<1>3. StackPointer(p) \in Zone(p)
  <2>1. CASE cpu.tp = p /\ at = "program"
    BY <1>1, <1>2, <2>1, ZoneHas DEF StackPointer
  <2>2. CASE cpu.tp = p /\ at # "program"
    <3>1. cpu.sp = Home(p) \/ \E d \in 1..MaxDepth : cpu.sp = Home(p) - d
      BY <2>2, InvFacts DEF OnCpu, ContextInv
    <3> QED BY <1>1, <2>2, <3>1, ZoneHas DEF StackPointer
  <2>3. CASE cpu.tp # p
    <3>1. kernel_sp[p] = Home(p) - 1 \/ \E d \in 1..MaxDepth : kernel_sp[p] = Home(p) - d - 1
      BY <1>1, <2>3, InvFacts DEF Waiting, NeverRun, SwitchedOut
    <3> QED BY <1>1, <2>3, <3>1, ZoneHas DEF StackPointer
  <2> QED BY <2>1, <2>2, <2>3
<1>4. ASSUME p # pid0
      PROVE  StackPointer(p) \in PageOf(p) .. Home(p) /\ StackPointer(p) # Home(pid0)
  <2>1. /\ p * PAGE_SIZE <= Home(p) - MaxDepth - 1 /\ PageOf(p) = p * PAGE_SIZE
        /\ Home(p) \in Nat /\ p * PAGE_SIZE \in Nat /\ MaxDepth \in Nat
    BY <1>1, <1>4, ZoneInPage, Pages, Sizes
  <2>2. StackPointer(p) \in Int /\ Home(p) - MaxDepth - 1 <= StackPointer(p)
        /\ StackPointer(p) <= Home(p)
    BY <1>3, <2>1 DEF Zone
  <2>3. StackPointer(p) \in PageOf(p) .. Home(p)
    BY <2>1, <2>2
  <2>4. Home(pid0) \notin Zone(p)
    BY <1>1, <1>4, ZoneHas, ZonesApart
  <2> QED BY <1>3, <2>3, <2>4
<1> QED BY <1>2, <1>4

\* SAVE_CONTEXT, switch_to, RESTORE_CONTEXT and the frames made for a new task
\* agree: each stack stays in its page and is empty but for the trap frame
\* whenever the task runs.
THEOREM ContextStacksBalance == ContextSpec => []StacksBalance
BY ContextInvariant, Balanced, PTL

-----------------------------------------------------------------------
(***************************************************************************)
(* The machines: what Machine!file, Machine!calling and Machine!running    *)
(* are in each state.                                                      *)
(***************************************************************************)
FileOf(p) == IF p \notin created THEN [pc |-> -1]
             ELSE IF at = "program" /\ cpu.tp = p THEN cpu ELSE mem[Home(p)].f
MachineFiles == [p \in Pcb |-> FileOf(p)]
Callers == {p \in created : InCall(p)}
OnMachine == IF at = "program" THEN cpu.tp ELSE -1

LEMMA FileUpdated ==
  ASSUME NEW p \in Pcb, \A q \in Pcb \ {p} : FileOf(q)' = FileOf(q)
  PROVE  MachineFiles' = [MachineFiles EXCEPT ![p] = FileOf(p)']
BY DEF MachineFiles

\* A step that leaves the processor with p changes p's file and call at most.
LEMMA OthersKept ==
  ASSUME ContextInv, NEW p \in Pcb, p = cpu.tp, cpu'.tp = p, created' = created,
         \A q \in Pcb \ {p} : /\ \A a \in Zone(q) : mem'[a] = mem[a]
                              /\ kernel_sp'[q] = kernel_sp[q]
  PROVE  /\ \A q \in Pcb \ {p} : FileOf(q)' = FileOf(q)
         /\ Callers' = IF InCall(p)' THEN Callers \cup {p} ELSE Callers \ {p}
<1>1. ASSUME NEW q \in created, q # p
      PROVE  FileOf(q)' = FileOf(q) /\ (InCall(q)' <=> InCall(q))
  <2>1. q \in Pcb /\ Waiting(q)
    BY <1>1, InvFacts
  <2>2. mem'[Home(q)].f = mem[Home(q)].f /\ (InCall(q)' <=> InCall(q))
    BY <1>1, <2>1, WaitingKept
  <2> QED BY <1>1, <2>2 DEF FileOf
<1>2. ASSUME NEW q \in Pcb \ created PROVE FileOf(q)' = FileOf(q)
  BY <1>2 DEF FileOf
<1>3. p \in created
  BY InvFacts
<1>4. Callers' = {q \in created : InCall(q)'}
  BY DEF Callers
<1>5. \A q \in Pcb \ {p} : FileOf(q)' = FileOf(q)
  BY <1>1, <1>2
<1>6. Callers' = IF InCall(p)' THEN Callers \cup {p} ELSE Callers \ {p}
  BY <1>1, <1>3, <1>4 DEF Callers
<1> QED BY <1>5, <1>6

\* No frame of p's call changes while its handler runs.
LEMMA CallStays ==
  ASSUME ContextInv, NEW p \in Pcb, p = cpu.tp, at = "handler", at' = "handled", cpu' = cpu,
         \A a \in Zone(p) : mem'[a] = mem[a]
  PROVE  InCall(p)' <=> InCall(p)
<1>1. PICK d \in 1..MaxDepth : cpu.sp = Home(p) - d
  BY InvFacts DEF OnCpu
<1>2. mem'[cpu.sp] = mem[cpu.sp]
  BY <1>1, ZoneHas
<1> QED BY <1>2 DEF InCall

-----------------------------------------------------------------------
(***************************************************************************)
(* Each step of the kernel is a step of the machines, or none.             *)
(***************************************************************************)
Unseen == UNCHANGED <<MachineFiles, Callers, OnMachine>>

LEMMA TrapSeen ==
  ASSUME ContextInv, NEW p \in Pcb, p = cpu.tp, NEW cause \in Causes, Trap(cause)
  PROVE  /\ OnMachine = p /\ OnMachine' = -1 /\ MachineFiles' = MachineFiles
         /\ Callers' = IF cause = "syscall" THEN Callers \cup {p} ELSE Callers
<1>1. PICK d \in 1..MaxDepth : SaveContext(d, cause)
  BY DEF Trap
<1>2. /\ at = "program" /\ at' = "handler" /\ p \in created
      /\ UNCHANGED <<kernel_sp, created>>
  BY InvFacts DEF Trap
<1>3. /\ cpu'.tp = p /\ cpu'.sp = Home(p) - d
      /\ mem'[Home(p)] = Word("regs", cpu) /\ InHandler(p, d, cause)'
      /\ \A q \in Pcb \ {p} : \A a \in Zone(q) : mem'[a] = mem[a]
  BY <1>1, <1>2, TrapEffect
<1>4. /\ \A q \in Pcb \ {p} : FileOf(q)' = FileOf(q)
      /\ Callers' = IF InCall(p)' THEN Callers \cup {p} ELSE Callers \ {p}
  BY <1>2, <1>3, OthersKept
<1>5. InCall(p)' <=> cause = "syscall"
  BY <1>2, <1>3, CallsKnown DEF CallKnown
<1>6. p \notin Callers
  BY <1>2, CallsKnown DEF CallKnown, Callers
<1>7. FileOf(p)' = FileOf(p)
  BY <1>2, <1>3 DEF FileOf, Word
<1>8. MachineFiles' = MachineFiles
  BY <1>4, <1>7 DEF MachineFiles
<1> QED BY <1>2, <1>4, <1>5, <1>6, <1>8 DEF OnMachine

LEMMA ProgramStepSeen ==
  ASSUME ContextInv, NEW p \in Pcb, p = cpu.tp, ProgramStep
  PROVE  /\ OnMachine = p /\ UNCHANGED <<Callers, OnMachine>>
         /\ \E f \in Stepped(MachineFiles[p]) :
              MachineFiles' = [MachineFiles EXCEPT ![p] = f]
<1>1. /\ at = "program" /\ at' = "program" /\ p \in created /\ cpu \in Files(p)
      /\ UNCHANGED <<mem, kernel_sp, created>>
      /\ cpu' \in Stepped(cpu)
  BY InvFacts DEF ProgramStep, OnCpu
<1>2. cpu'.tp = p
  <2>1. PICK v \in Value :
          cpu' = [cpu EXCEPT !.pc = (cpu.pc + 1) % PcBound, !.a0 = v, !.s = v, !.t = v]
    BY <1>1 DEF Stepped
  <2>2. cpu' \in Files(p)
    BY <1>1, <2>1, FileStepped
  <2> QED BY <2>2 DEF Files
<1>3. /\ \A q \in Pcb \ {p} : FileOf(q)' = FileOf(q)
      /\ Callers' = IF InCall(p)' THEN Callers \cup {p} ELSE Callers \ {p}
  BY <1>1, <1>2, OthersKept
<1>4. p \notin Callers /\ ~InCall(p)'
  BY <1>1, <1>2, CallsKnown DEF CallKnown, Callers
<1>5. MachineFiles[p] = cpu /\ FileOf(p)' = cpu'
  BY <1>1, <1>2 DEF MachineFiles, FileOf
<1>6. MachineFiles' = [MachineFiles EXCEPT ![p] = cpu']
  BY <1>3, <1>5, FileUpdated
<1>7. Callers' = Callers
  BY <1>3, <1>4
<1>8. OnMachine = p /\ OnMachine' = OnMachine
  BY <1>1, <1>2 DEF OnMachine
<1>9. cpu' \in Stepped(MachineFiles[p])
  BY <1>1, <1>5
<1> QED BY <1>6, <1>7, <1>8, <1>9

LEMMA StaySeen ==
  ASSUME ContextInv, NEW p \in Pcb, p = cpu.tp, Stay
  PROVE  Unseen
<1>1. /\ at = "handler" /\ at' = "handled" /\ p \in created
      /\ UNCHANGED <<mem, kernel_sp, cpu, created>>
  BY InvFacts DEF Stay
<1>2. /\ \A q \in Pcb \ {p} : FileOf(q)' = FileOf(q)
      /\ Callers' = IF InCall(p)' THEN Callers \cup {p} ELSE Callers \ {p}
  BY <1>1, OthersKept
<1>3. InCall(p)' <=> InCall(p)
  BY <1>1, CallStays
<1>4. FileOf(p)' = FileOf(p)
  BY <1>1 DEF FileOf
<1>5. MachineFiles' = MachineFiles
  BY <1>2, <1>4 DEF MachineFiles
<1>6. Callers' = Callers
  BY <1>1, <1>2, <1>3 DEF Callers
<1> QED BY <1>1, <1>5, <1>6 DEF Unseen, OnMachine

LEMMA SwitchSeen ==
  ASSUME ContextInv, at = "handler", NEW p \in Pcb, p = cpu.tp, NEW q \in created,
         switch_to(p, q), created' = created
  PROVE  Unseen
<1>1. Switched(p, q)
  BY SwitchEffect
<1>2. /\ cpu'.tp = q /\ at' # "program"
      /\ \A r \in Pcb : mem'[Home(r)] = mem[Home(r)]
      /\ \A r \in {p, q} : InCall(r)' <=> InCall(r)
  BY <1>1 DEF Switched
<1>3. \A r \in Pcb : FileOf(r)' = FileOf(r)
  BY <1>2 DEF FileOf
<1>4. ASSUME NEW r \in created PROVE InCall(r)' <=> InCall(r)
  <2>1. CASE r \in {p, q}
    BY <1>2, <2>1
  <2>2. CASE r \notin {p, q}
    <3>1. r \in Pcb /\ Waiting(r) /\ cpu.tp # r /\ cpu'.tp # r
      BY <1>2, <2>2, InvFacts
    <3>2. (\A a \in Zone(r) : mem'[a] = mem[a]) /\ kernel_sp'[r] = kernel_sp[r]
      BY <1>1, <2>2, <3>1 DEF Switched
    <3> QED BY <3>1, <3>2, WaitingKept
  <2> QED BY <2>1, <2>2
<1>5. MachineFiles' = MachineFiles
  BY <1>3 DEF MachineFiles
<1>6. Callers' = Callers
  BY <1>4 DEF Callers
<1> QED BY <1>2, <1>5, <1>6 DEF Unseen, OnMachine

LEMMA ReturnSeen ==
  ASSUME ContextInv, NEW p \in Pcb, p = cpu.tp, HandlerReturns
  PROVE  \/ Unseen
         \/ /\ OnMachine = -1 /\ OnMachine' = -1 /\ p \in Callers /\ Callers' = Callers \ {p}
            /\ \E v \in Value \cup {Junk} :
                 MachineFiles' = [MachineFiles EXCEPT
                   ![p] = [MachineFiles[p] EXCEPT
                             !.a0 = v, !.pc = (MachineFiles[p].pc + 1) % PcBound]]
<1>1. /\ at = "handled" /\ at' = "ret_from_exception" /\ p \in created
      /\ UNCHANGED <<kernel_sp, created>>
  BY InvFacts DEF HandlerReturns
<1>2. Returned(p)
  BY ReturnEffect
<1>3. /\ cpu'.tp = p
      /\ \A q \in Pcb \ {p} : \A a \in Zone(q) : mem'[a] = mem[a]
  BY <1>2 DEF Returned
<1>4. /\ \A q \in Pcb \ {p} : FileOf(q)' = FileOf(q)
      /\ Callers' = IF InCall(p)' THEN Callers \cup {p} ELSE Callers \ {p}
  BY <1>1, <1>3, OthersKept
<1>5. ~InCall(p)'
  BY <1>1, <1>3, CallsKnown DEF CallKnown
<1>6. OnMachine = -1 /\ OnMachine' = -1
  BY <1>1 DEF OnMachine
<1>7. /\ FileOf(p) = mem[Home(p)].f /\ FileOf(p)' = mem'[Home(p)].f
      /\ MachineFiles[p] = FileOf(p)
  BY <1>1 DEF FileOf, MachineFiles
<1>8. CASE ~InCall(p) /\ mem'[Home(p)] = mem[Home(p)]
  <2>1. MachineFiles' = MachineFiles
    BY <1>4, <1>7, <1>8 DEF MachineFiles
  <2>2. Callers' = Callers
    BY <1>4, <1>5, <1>8 DEF Callers
  <2> QED BY <1>6, <2>1, <2>2 DEF Unseen
<1>9. CASE InCall(p) /\ \E v \in Value \cup {Junk} :
             mem'[Home(p)].f = [mem[Home(p)].f EXCEPT
                                  !.a0 = v, !.pc = (mem[Home(p)].f.pc + 1) % PcBound]
  <2>1. PICK v \in Value \cup {Junk} :
          FileOf(p)' = [FileOf(p) EXCEPT !.a0 = v, !.pc = (FileOf(p).pc + 1) % PcBound]
    BY <1>7, <1>9
  <2>2. MachineFiles' = [MachineFiles EXCEPT ![p] = FileOf(p)']
    BY <1>4, FileUpdated
  <2>3. MachineFiles' = [MachineFiles EXCEPT ![p] = [MachineFiles[p] EXCEPT
                           !.a0 = v, !.pc = (MachineFiles[p].pc + 1) % PcBound]]
    BY <1>7, <2>1, <2>2
  <2>4. p \in Callers /\ Callers' = Callers \ {p}
    BY <1>1, <1>4, <1>5, <1>9 DEF Callers
  <2> QED BY <1>6, <2>3, <2>4
<1> QED BY <1>2, <1>8, <1>9 DEF Returned

LEMMA CreateSeen ==
  ASSUME ContextInv, NEW c \in Tcb, NEW arg \in Value, ThreadCreate(c, arg)
  PROVE  /\ OnMachine = -1 /\ c \in Pcb /\ MachineFiles[c] = [pc |-> -1]
         /\ UNCHANGED <<Callers, OnMachine>>
         /\ MachineFiles' = [MachineFiles EXCEPT ![c] = FirstRegs(c, c * UserPages, arg)]
<1>0. PICK p \in Pcb : p = cpu.tp /\ p \in created
  BY InvFacts
<1>1. at = "handler" /\ at' = "handled" /\ cpu' = cpu
  BY DEF ThreadCreate
<1>2. Made(c, arg)
  BY CreateEffect
<1>3. /\ c \in Pcb \ created /\ created' = created \cup {c} /\ c # p
      /\ mem'[Home(c)] = Word("regs", FirstRegs(c, c * UserPages, arg))
      /\ NeverRun(c)'
      /\ \A q \in Pcb \ {c} : /\ \A a \in Zone(q) : mem'[a] = mem[a]
                              /\ kernel_sp'[q] = kernel_sp[q]
  BY <1>0, <1>2 DEF Made
<1>4. ASSUME NEW q \in created
      PROVE  mem'[Home(q)].f = mem[Home(q)].f /\ (InCall(q)' <=> InCall(q))
  <2>1. q \in Pcb \ {c}
    BY <1>3, InvFacts
  <2>2. CASE q = p
    <3>1. InCall(p)' <=> InCall(p)
      BY <1>0, <1>1, <1>3, <2>1, <2>2, CallStays
    <3> QED BY <1>3, <2>1, <2>2, <3>1, ZoneHas
  <2>3. CASE q # p
    BY <1>0, <1>1, <1>3, <2>1, <2>3, InvFacts, WaitingKept
  <2> QED BY <2>2, <2>3
<1>5. ~InCall(c)'
  BY <1>0, <1>1, <1>3, CallsKnown DEF CallKnown
<1>6. Callers' = Callers
  BY <1>3, <1>4, <1>5 DEF Callers
<1>7. \A q \in Pcb \ {c} : FileOf(q)' = FileOf(q)
  BY <1>1, <1>3, <1>4 DEF FileOf
<1>8. FileOf(c)' = FirstRegs(c, c * UserPages, arg)
  BY <1>1, <1>3 DEF FileOf, Word
<1>9. MachineFiles' = [MachineFiles EXCEPT ![c] = FirstRegs(c, c * UserPages, arg)]
  BY <1>3, <1>7, <1>8, FileUpdated
<1>10. OnMachine = -1 /\ OnMachine' = OnMachine
  BY <1>1 DEF OnMachine
<1>11. MachineFiles[c] = [pc |-> -1]
  BY <1>3 DEF MachineFiles, FileOf
<1> QED BY <1>3, <1>6, <1>9, <1>10, <1>11

LEMMA RestoreSeen ==
  ASSUME ContextInv, NEW p \in Pcb, p = cpu.tp, ret_from_exception
  PROVE  /\ OnMachine = -1 /\ OnMachine' = p /\ p \notin Callers
         /\ MachineFiles[p] # [pc |-> -1]
         /\ UNCHANGED <<MachineFiles, Callers>>
<1>1. /\ at = "ret_from_exception" /\ at' = "program" /\ p \in created
      /\ created' = created
  BY InvFacts DEF ret_from_exception
<1>2. Restored(p)
  BY RestoreEffect
<1>3. /\ cpu' \in Files(p) /\ cpu' = mem[Home(p)].f /\ cpu'.tp = p
      /\ \A q \in Pcb \ {p} : /\ \A a \in Zone(q) : mem'[a] = mem[a]
                              /\ kernel_sp'[q] = kernel_sp[q]
  <2>1. /\ cpu' \in Files(p) /\ cpu' = mem[Home(p)].f
        /\ \A q \in Pcb \ {p} : \A a \in Zone(q) : mem'[a] = mem[a]
        /\ kernel_sp' = [kernel_sp EXCEPT ![p] = Home(p)]
    BY <1>2 DEF Restored
  <2>2. cpu'.tp = p
    BY <2>1 DEF Files
  <2>3. \A q \in Pcb \ {p} : kernel_sp'[q] = kernel_sp[q]
    BY <2>1, InvFacts
  <2> QED BY <2>1, <2>2, <2>3
<1>4. /\ \A q \in Pcb \ {p} : FileOf(q)' = FileOf(q)
      /\ Callers' = IF InCall(p)' THEN Callers \cup {p} ELSE Callers \ {p}
  BY <1>1, <1>3, OthersKept
<1>5. p \notin Callers /\ ~InCall(p)'
  BY <1>1, <1>3, CallsKnown DEF CallKnown, Callers
<1>6. FileOf(p) = cpu' /\ FileOf(p)' = cpu' /\ MachineFiles[p] = cpu'
  BY <1>1, <1>3 DEF FileOf, MachineFiles
<1>7. MachineFiles' = MachineFiles
  BY <1>4, <1>6 DEF MachineFiles
<1>8. MachineFiles[p] # [pc |-> -1]
  <2>1. cpu'.pc \in Nat
    BY <1>3 DEF Files
  <2>2. MachineFiles[p].pc # -1
    BY <1>6, <2>1
  <2> QED BY <2>2
<1> QED BY <1>1, <1>3, <1>4, <1>5, <1>7, <1>8 DEF OnMachine

-----------------------------------------------------------------------
(***************************************************************************)
(* The steps of Machines.                                                  *)
(***************************************************************************)
FirstFiles(p) == {[pc |-> 0, sp |-> u, tp |-> p, a0 |-> v, s |-> Junk, t |-> Junk,
                   priv |-> IF p = pid0 THEN "S" ELSE "U", sie |-> TRUE] :
                    u \in {IF p = pid0 THEN 0 ELSE p * UserPages},
                    v \in Value \cup {Junk}}

LEMMA FirstRegsFresh ==
  ASSUME NEW p \in Pcb, p # pid0, NEW a0 \in Value \cup {Junk}
  PROVE  FirstRegs(p, p * UserPages, a0) \in FirstFiles(p)
<1> DEFINE us == {IF p = pid0 THEN 0 ELSE p * UserPages}
           vs == Value \cup {Junk}
           u == p * UserPages
           File(x, v) == [pc |-> 0, sp |-> x, tp |-> p, a0 |-> v, s |-> Junk, t |-> Junk,
                          priv |-> IF p = pid0 THEN "S" ELSE "U", sie |-> TRUE]
<1>1. u \in us /\ a0 \in vs
  OBVIOUS
<1>2. FirstRegs(p, u, a0) = File(u, a0)
  BY DEF FirstRegs, Regs
<1>3. FirstFiles(p) = {File(x, v) : x \in us, v \in vs}
  BY DEF FirstFiles
<1> HIDE DEF us, vs, u, File
<1>4. File(u, a0) \in {File(x, v) : x \in us, v \in vs}
  BY <1>1
<1> QED BY <1>2, <1>3, <1>4 DEF u

LEMMA InitIs ==
  Machine!Init <=>
    /\ DOMAIN MachineFiles = Pcb
    /\ \A p \in Pcb : MachineFiles[p] = [pc |-> -1] \/ MachineFiles[p] \in FirstFiles(p)
    /\ Callers = {}
    /\ OnMachine \in Pcb
BY DEF Machine!Init, Machine!NoFile, FirstFiles, MachineFiles, FileOf, Callers, OnMachine

LEMMA StepIs ==
  ASSUME NEW p \in Pcb
  PROVE  Machine!Step(p) <=>
           /\ OnMachine = p
           /\ \E f \in Stepped(MachineFiles[p]) : MachineFiles' = [MachineFiles EXCEPT ![p] = f]
           /\ UNCHANGED <<Callers, OnMachine>>
BY DEF Machine!Step, MachineFiles, FileOf, Callers, OnMachine

LEMMA InterruptIs ==
  ASSUME NEW p \in Pcb
  PROVE  Machine!Interrupt(p) <=>
           OnMachine = p /\ OnMachine' = -1 /\ UNCHANGED <<MachineFiles, Callers>>
BY DEF Machine!Interrupt, Machine!Kernel, MachineFiles, FileOf, Callers, OnMachine

LEMMA CallIs ==
  ASSUME NEW p \in Pcb
  PROVE  Machine!Call(p) <=>
           /\ OnMachine = p /\ OnMachine' = -1
           /\ Callers' = Callers \cup {p}
           /\ UNCHANGED MachineFiles
BY DEF Machine!Call, Machine!Kernel, MachineFiles, FileOf, Callers, OnMachine

LEMMA AnswerIs ==
  ASSUME NEW p \in Pcb
  PROVE  Machine!Answer(p) <=>
           /\ OnMachine = -1 /\ p \in Callers
           /\ \E f \in {[MachineFiles[p] EXCEPT
                           !.a0 = v, !.pc = (MachineFiles[p].pc + 1) % PcBound] :
                          v \in Value \cup {Junk}} :
                MachineFiles' = [MachineFiles EXCEPT ![p] = f]
           /\ Callers' = Callers \ {p}
           /\ UNCHANGED OnMachine
BY DEF Machine!Answer, Machine!Kernel, MachineFiles, FileOf, Callers, OnMachine

LEMMA CreateIs ==
  ASSUME NEW p \in Pcb
  PROVE  Machine!Create(p) <=>
           /\ OnMachine = -1 /\ MachineFiles[p] = [pc |-> -1]
           /\ \E f \in FirstFiles(p) : MachineFiles' = [MachineFiles EXCEPT ![p] = f]
           /\ UNCHANGED <<Callers, OnMachine>>
BY DEF Machine!Create, Machine!Kernel, Machine!NoFile, FirstFiles, MachineFiles, FileOf,
       Callers, OnMachine

LEMMA ResumeIs ==
  ASSUME NEW p \in Pcb
  PROVE  Machine!Resume(p) <=>
           /\ OnMachine = -1 /\ p \notin Callers /\ MachineFiles[p] # [pc |-> -1]
           /\ OnMachine' = p
           /\ UNCHANGED <<MachineFiles, Callers>>
BY DEF Machine!Resume, Machine!Kernel, Machine!NoFile, MachineFiles, FileOf, Callers, OnMachine

LEMMA UnseenIs == UNCHANGED Machine!vars <=> Unseen
BY DEF Machine!vars, Unseen, MachineFiles, FileOf, Callers, OnMachine

LEMMA NextIs ==
  Machine!Next <=>
    \E p \in Pcb : \/ Machine!Step(p) \/ Machine!Interrupt(p) \/ Machine!Call(p)
                   \/ Machine!Answer(p) \/ Machine!Create(p) \/ Machine!Resume(p)
BY DEF Machine!Next

LEMMA MachineInit == ContextInit => Machine!Init
<1> SUFFICES ASSUME ContextInit PROVE Machine!Init
  OBVIOUS
<1>2. /\ cpu = Regs(0, 0, pid0, Junk, Junk, Junk, "S", TRUE) /\ at = "program"
      /\ cpu.tp = pid0 /\ created = {pid0} \cup Task /\ pid0 \in Pcb /\ Task \subseteq Pcb
  BY Sizes DEF ContextInit, Regs, Pcb
<1>3. TasksReady(TasksMade, NumTask)
  BY AllTasksReady
<1>4. MachineFiles[pid0] = Regs(0, 0, pid0, Junk, Junk, Junk, "S", TRUE)
  BY <1>2 DEF MachineFiles, FileOf
<1>5. ASSUME NEW t \in Task
      PROVE  MachineFiles[t] = FirstRegs(t, t * UserPages, Junk) /\ NeverRun(t)
  <2>1. t \in 1..NumTask /\ t \in Pcb /\ t # pid0 /\ t \in created
    BY <1>2, Sizes DEF Task
  <2>2. /\ mem[Home(t)] = Word("regs", FirstRegs(t, t * UserPages, Junk))
        /\ mem[Home(t) - 1] = Word("switchto",
             [ra |-> "ret_from_exception", sp |-> Home(t) - 1, s |-> Junk])
        /\ kernel_sp[t] = Home(t) - 1
    BY <1>3, <2>1 DEF ContextInit, TasksReady
  <2>3. NeverRun(t)
    BY <2>2 DEF NeverRun
  <2>4. mem[Home(t)].f = FirstRegs(t, t * UserPages, Junk)
    BY <2>2 DEF Word
  <2>5. MachineFiles[t] = mem[Home(t)].f
    BY <1>2, <2>1 DEF MachineFiles, FileOf
  <2> QED BY <2>3, <2>4, <2>5
<1>6. Callers = {}
  <2>1. ~InCall(pid0)
    BY <1>2, CallsKnown DEF CallKnown
  <2>2. ASSUME NEW t \in Task PROVE ~InCall(t)
    <3>1. t \in Pcb /\ cpu.tp # t
      BY <1>2, Sizes
    <3> QED BY <1>5, <3>1, CallsKnown DEF CallKnown
  <2> QED BY <1>2, <2>1, <2>2 DEF Callers
<1>7. ASSUME NEW p \in Pcb
      PROVE  MachineFiles[p] = [pc |-> -1] \/ MachineFiles[p] \in FirstFiles(p)
  <2>1. CASE p = pid0
    BY <1>4, <2>1 DEF FirstFiles, Regs
  <2>2. CASE p \in Task
    <3>1. p # pid0
      BY <2>2, Sizes
    <3> QED BY <1>5, <2>2, <3>1, FirstRegsFresh
  <2>3. CASE p \notin created
    BY <2>3 DEF MachineFiles, FileOf
  <2> QED BY <1>2, <2>1, <2>2, <2>3
<1>8. DOMAIN MachineFiles = Pcb /\ OnMachine \in Pcb
  BY <1>2 DEF MachineFiles, OnMachine
<1> QED BY <1>6, <1>7, <1>8, InitIs

LEMMA MachineStep ==
  ASSUME ContextInv, ContextStep
  PROVE  Machine!Next \/ UNCHANGED Machine!vars
<1>0. PICK p \in Pcb : p = cpu.tp
  BY InvFacts
<1>1. CASE ProgramStep
  BY <1>0, <1>1, ProgramStepSeen, StepIs, NextIs
<1>2. ASSUME NEW cause \in Causes, Trap(cause) PROVE Machine!Next
  <2>1. /\ OnMachine = p /\ OnMachine' = -1 /\ MachineFiles' = MachineFiles
        /\ Callers' = IF cause = "syscall" THEN Callers \cup {p} ELSE Callers
    BY <1>0, <1>2, TrapSeen
  <2>2. CASE cause = "syscall"
    BY <2>1, <2>2, CallIs, NextIs
  <2>3. CASE cause # "syscall"
    BY <2>1, <2>3, InterruptIs, NextIs
  <2> QED BY <2>2, <2>3
<1>3. CASE Stay
  BY <1>0, <1>3, StaySeen, UnseenIs
<1>4. ASSUME NEW q \in Pcb, Switch(q) \/ Exit(q) PROVE UNCHANGED Machine!vars
  <2>1. at = "handler" /\ q \in created /\ switch_to(p, q) /\ created' = created
    BY <1>0, <1>4 DEF Switch, Exit
  <2> QED BY <1>0, <2>1, SwitchSeen, UnseenIs
<1>5. ASSUME NEW c \in Tcb, NEW arg \in Value, ThreadCreate(c, arg) PROVE Machine!Next
  <2>1. /\ OnMachine = -1 /\ c \in Pcb /\ MachineFiles[c] = [pc |-> -1]
        /\ UNCHANGED <<Callers, OnMachine>>
        /\ MachineFiles' = [MachineFiles EXCEPT ![c] = FirstRegs(c, c * UserPages, arg)]
    BY <1>5, CreateSeen
  <2>2. FirstRegs(c, c * UserPages, arg) \in FirstFiles(c)
    <3>1. c # pid0
      BY Sizes
    <3> QED BY <2>1, <3>1, FirstRegsFresh
  <2> QED BY <2>1, <2>2, CreateIs, NextIs
<1>6. CASE HandlerReturns
  <2>1. CASE Unseen
    BY <2>1, UnseenIs
  <2>2. CASE ~Unseen
    <3>1. /\ OnMachine = -1 /\ OnMachine' = -1 /\ p \in Callers /\ Callers' = Callers \ {p}
          /\ \E v \in Value \cup {Junk} :
               MachineFiles' = [MachineFiles EXCEPT
                 ![p] = [MachineFiles[p] EXCEPT
                           !.a0 = v, !.pc = (MachineFiles[p].pc + 1) % PcBound]]
      BY <1>0, <1>6, <2>2, ReturnSeen
    <3> QED BY <3>1, AnswerIs, NextIs
  <2> QED BY <2>1, <2>2
<1>7. CASE ret_from_exception
  BY <1>0, <1>7, RestoreSeen, ResumeIs, NextIs
<1> QED BY <1>1, <1>2, <1>3, <1>4, <1>5, <1>6, <1>7 DEF ContextStep, Causes

LEMMA MachineStutter ==
  ASSUME UNCHANGED contextVars PROVE UNCHANGED Machine!vars
<1>1. UNCHANGED <<mem, kernel_sp, cpu, at, created>>
  BY DEF contextVars
<1>2. MachineFiles' = MachineFiles /\ OnMachine' = OnMachine
  BY <1>1 DEF MachineFiles, FileOf, Home, TopOf, PageOf, OnMachine
<1>3. Callers' = Callers
  BY <1>1 DEF Callers, InCall
<1> QED BY <1>2, <1>3, UnseenIs DEF Unseen

\* The kernel's entry, frames and switches implement a machine for each task: its
\* registers change by its own instructions and by the answer to its own call,
\* which comes once and before it runs again.
THEOREM ContextOwnMachine == ContextSpec => OwnMachine
<1>1. ContextInv /\ [ContextStep]_contextVars => [Machine!Next]_Machine!vars
  BY MachineStep, MachineStutter
<1> QED BY <1>1, MachineInit, ContextInvariant, PTL DEF ContextSpec, OwnMachine, Machine!Spec

=======================================================================
