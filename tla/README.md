# A verification project for the kernel

The repository is a small RISC-V operating system (boot block, kernel, user
programs): processes, preemptive scheduling, sleeping, mutexes, threads within a
process, a loader and a screen driver. Beside it lies a copy of a DEFLATE library,
`tools/deflate`, which is most of the repository's code. This directory holds TLA+ modules of it,
TLC configurations that check them on small instances, and proofs that TLAPS
checks. Source paths below are relative to `src/`.

Run a check with `tlc -config <run>.cfg <module>` and a proof with
`tlapm <module>.tla`, in this directory. `PROJECT.json` maps every definition to
the lines it models.

## 1. The system

One hart. After `main` has initialised everything it becomes pid 0 and idles with
interrupts on. Programs trap into the kernel by system call or timer interrupt;
the hardware turns interrupts off and they stay off until `sret`. The kernel is
therefore never preempted: a handler runs to its `switch_to` or its return, and
programs interleave between traps. Two things are not atomic all the same: the
clock (`rdtime`) goes on while a handler reads it several times, and `switch_to`
leaves a handler half done on the old task's stack until that task runs again.

| Component | State | Operations | Modelled by |
|---|---|---|---|
| Scheduler, `kernel/sched/sched.c` | `current_running`, `pcb[].status`, `ready_queue`, `sleep_queue` | `do_scheduler`, `do_block`, `do_unblock`, `do_exit` | `Sched` (queues as sequences), `Threads` (pointers) |
| Clock and sleep, `kernel/sched/time.c` | `wakeup_time`, `time_base` | `do_sleep`, `get_timer`, `check_sleeping` | `Sched`, `SleepTime` |
| Timer interrupt, `kernel/irq/irq.c` | the deadline given to the firmware | `handle_irq_timer`, dispatch | `Sched` |
| Mutexes, `kernel/locking/lock.c` | `mlocks[]`: key, lock word, block queue | `do_mutex_lock_init`, `_acquire`, `_release` | `Kernel`; promise in `Mutex` |
| Lists, `kernel/list/list.c` | `next`/`prev` of nodes and heads | add, delete, move, safe iteration | `ListHeap`, used by `Threads` |
| Threads, `kernel/sched/thread.c` | TCBs, `thread_group` rings | `do_thread_create`, `do_thread_yield` | `Threads` |
| System calls, `kernel/syscall/syscall.c` | the jump table of `init/main.c` | one entry per call | an action each |
| Image and loader, `tools/createimage.c`, `kernel/loader/loader.c`, `arch/riscv/boot/bootblock.S` | image layout, task table, program memory | build, boot, load | `Image` |
| Screen, `drivers/screen.c` | `new_screen`, `old_screen`, cursor per PCB | move, write, refresh, clear | `Screen` |
| Traps and context switch, `arch/riscv/kernel/entry.S`, `init_pcb_stack`, `init_tcb_stack` | frames on the kernel stacks, `tp`, `sp`, `kernel_sp` | save, restore, `switch_to`, first frames | `Context`; promise in `Machines` |
| Page allocation, `kernel/mm/mm.c` | two bump pointers | `allocKernelPage`, `allocUserPage` | `Context` |
| Huffman codes, `deflate_compress.c`, `deflate_decompress.c` | frequencies, lengths, code header, decode tables | make a code, write and read its lengths, build a table | `HuffmanCode`, `DecodeTable`, `Codes` |
| Compressed streams, the same and `decompress_template.h` | bit buffers, positions in both buffers | flush a block, bound, the two decode loops | `OutStream`, `InStream`, `Stream` |
| Match finding and parsing, `hc_matchfinder.h`, `deflate_compress.c` | hash tables and chains, the block under way | search, skip, choose, end a block | `Matchfinder`, `Parse` |

How they interact: `do_scheduler` is called by the yield call, the timer handler,
`do_sleep`, `do_exit` and a blocking acquire; a release calls `do_unblock`. The ready
queue, the sleep queue and the block queues all link the same `list` node of a
PCB, so a PCB can be in one of them at a time, and every one of these operations
relies on the others to have left the node where they believe it is. `switch_to`
is where one task's handler stops and another's goes on. The DEFLATE library is
sequential and talks to nothing else: a compressor parses its input into blocks, makes
codes for each and flushes it; a decompressor reads them back. Neither the kernel nor
`createimage` links it yet; its own example does.

What makes it hard, and what correct means:

* **Status and lists must agree** (`status` is set in one place, the node moved in
  another). No sequence of calls, wake-ups and interrupts may lose a task, link
  it twice or run it from the wrong state.
* **`do_scheduler` returns early when nothing is ready** (`sched.c:35`), even to a
  caller that has just blocked, gone to sleep or exited. This is the one
  place where the kernel's operations stop meaning what they promise. A task that never
  waits excludes it, so only the run without one, `kernel_alone`, shows it.
  Whether they do depends on whether another task is ready at that moment.
* **Hand-over of mutexes**: a release with waiters leaves the lock word `LOCKED` and
  makes the first waiter ready. Between the two steps of "release, then the
  waiter runs" anybody may call acquire.
* **Rounding**: wake-up times are whole seconds of a clock rounded down.
* **The clock moves in mid-scan**: two sleepers of one call of `check_sleeping` may be
  measured against different seconds.
* **Liveness through the timer alone**: the only thing that wakes a sleeper or ends a
  computation is the timer interrupt.
* **Threads share a PCB ring but not the queues**: `do_thread_yield` re-initialises
  a node on the belief that it is linked nowhere.
* **Sector arithmetic** between a packed image and a card read in sectors.
* **A printed line is several system calls**, and the screen is refreshed from a
  record of what the console is thought to show.
* **One word, `kernel_sp`, means two things**: where the next trap stores its frame, while
  its task runs; where `switch_to` finds the old handler, while it does not.
* **Compression that must be exact at every limit**: code lengths cut to a maximum, bits
  flushed a word at a time near the end of a buffer, a bound given beforehand, loops
  that look at the ends of their buffers only while these are near, positions in 16 bits.

The list of hazards, each at its line and with the properties that watch it, is in
`PROJECT.json`.

## 2. The modules

| Module | About |
|---|---|
| `Queues` | Operators on queues as sequences (`Without`, `Pick`). |
| `Sched` | The scheduler, sleep and preemption. Extended by `SleepTime` and `Kernel`, implemented by `Threads`. |
| `SleepTime` | `Sched` with a history variable, the tick at which a sleep should end. |
| `Mutex` | Abstract: owner and FIFO of waiters per mutex; a release passes the mutex on in one step. |
| `Kernel` | `Sched` plus `mlocks`, and what programs know of it (`handle`: the index they stored; `acq`: what they have acquired). Implements `Mutex`. |
| `ListHeap` | `list.c` as writes to a heap of pointers, in the order of the code. |
| `Threads` | The scheduler again, on `ListHeap`, with threads and with the loop of `check_sleeping`. Implements `Sched`. |
| `Image` | Builder, boot block and loader. |
| `Screen` | Double buffer, cursors, refresh. |
| `Machines` | Abstract: every task has registers of its own, changed by its steps and the answer to its call. |
| `Context` | Traps, frames, `switch_to` and page allocation on words of memory. Implements `Machines`. |
| `HuffmanCode`, `DecodeTable` | Operators: a length-limited code from frequencies; a decode table from lengths. |
| `Codes` | A code's way from frequencies through a block's header into a decode table. |
| `OutStream` | The compressor's output: choice of block kinds, bit buffer, end of the buffer. |
| `InStream` | The decompressor, reading whole, cut or arbitrary streams. Extends `OutStream`. |
| `Stream` | The two composed, over one compressor's output and one decompressor's two calls. |
| `Matchfinder` | Operators: hash chains, searching and skipping, the sliding base. |
| `Parse` | The greedy, lazy and lazy2 parsers and the splitting into blocks. |
| `QueuesProofs`, `KernelProofs`, `ThreadsProofs`, `ContextProofs`, `ScreenProofs`, `ImageProofs`, `StreamProofs`, `ParseProofs` | Theorems; `KernelProofs` has those of `Sched` too, and `QueuesProofs` what several need: queues, sums, recursion. |
| `MCSleepTime`, `MCKernel`, `MCScreen`, `MCCodes`, `MCStream`, `MCParse` | Values for constants a configuration cannot write. |

Conventions. One action is one whole trap, up to the switch that ends it. A
program is the set of calls it makes (`Sleepers`, `Quitters`, `Lockers`, `Threaders`);
when it makes them is nondeterministic, and between them it computes. A definition
commented "Slip" is a plausible wrong version of the one that follows it: no
specification uses it, it records what the properties were seen to catch.

### Sched

`current_running` is a pid; `queue` gives for each list head the tasks linked in it,
head first, and `status` and `wakeup_time` are the PCB fields. `do_scheduler` is
`check_sleeping` followed by `Dispatch`, whose two disjuncts are the early return
and the switch (the latter with or without putting the previous task back). Callers
compute the status and lists they leave (`do_block(Kern, t, x)`) and pass them on, so
that block-and-reschedule is a single step, as it is in the code.

Time is in ticks; the timer's deadline is kept as the ticks that remain. In
`do_scheduler` the clock may move by one tick before any of the readings of
`check_sleeping` (`Late`): a handler is far shorter than a tick, so more than one
tick cannot pass. `MaxTicks` bounds the clock; a `Sleep` whose wake-up time lies
beyond it is not enabled, so that the bound does not keep sleepers asleep. pid 0
has the zero status, which is `BLOCKED`, and is in no list: `do_scheduler` therefore
never puts it back.

### Kernel and Mutex

`lock[l]` is the spin lock word, `queue[l]` the block queue. Programs behave as
`test/test_project2/lock1.c` does: they check the index, acquire what they do not
have, and release only after their acquire call has returned. They may be
preempted, sleep, yield or exit at any point in between, and use several mutexes.
A task is a holder of `l` when it has called acquire and is not in the block queue
of `l`; that is the refinement mapping onto `Mutex`.

### Threads

A PCB and a TCB have two list nodes, `list` and `thread_group`. `Scan` is the loop of
`list_for_each_safe`, which reads `n` before `pos` moves; that it ends (`end.pos =
sleep_queue`) is part of `do_scheduler`. One thread of a process takes part in
scheduling, the others are parked: `READY` and linked nowhere. The mapping onto
`Sched` takes the active thread of each process and follows the pointers of each
list; a switch between threads maps to a stutter.

### Image

A byte is named by its address in the image, so that the memory shows for each of
its bytes where it came from. `TASK_SIZE` stands for the distance between programs in
memory; the loader's buffer lies behind the last one. Loading is in `init_pcb`'s
order. Not modelled: ELF parsing, and the look-up by name.

### Screen

`new_screen` and `old_screen` are the two buffers, `console` what the terminal shows.
Programs move the cursor, write and refresh in separate calls. A program writes
into its row only what fits there (`column`); `screen_write_ch` itself has no bounds.

### Context and Machines

Memory is words: a `regs_context`, a `switchto_context`, the C frames between them and
a `tcb` take one each, and the stacks lie in pages as `mm.c` gives them away. The registers
are grouped by how they are treated: `pc` (`sepc`), `sp`, `tp`, `a0`, `s` (callee-saved), `t`
(the others) and two fields of `sstatus`. Trap entry stores at `kernel_sp[tp]`; between it
and `switch_to` the C functions use one to `MaxDepth` words. What has been popped is
overwritten with `Nothing`, so that a later use of it would be seen. Who runs next is
free, but for pid 0, which stands in no queue, and those who have exited: the task that
trapped may be chosen itself, as a thread alone in its ring is, or a task that
`do_scheduler` left running with nothing ready, at a later tick. The early return to a caller that has
exited (`sched.c:35`) is not followed here. The mapping onto `Machines` reads a
task's registers from the processor while it runs and from its trap frame otherwise; a
task is `calling` while its handler has not written the result.

### HuffmanCode, DecodeTable and Codes

Alphabets and limits come with the inputs: DEFLATE's own, or small ones that can be
enumerated. Codewords are numbers whose first bit is the lowest.
Symbols are sorted as the counting sort with its heap-sorted last counter does, and the
tree is built in place, frequencies being overwritten by parents. `Header` makes the
bits of a dynamic block's header, precode included, and `ReadHeader` reads them. The flags
and base values that `make_decode_table_entry` packs into an entry are left out: an entry is a
symbol and a number of bits.

### OutStream, InStream and Stream

What matters here is how many bits there are, so a symbol is its widths: the
codeword's, and the extra bits'. An input is a plan of blocks (`Plans`), each with
items, the codeword lengths of its dynamic code and the bits of its header. The
output buffer has any of several sizes around the bound. `bits.held` and `bits.left`
tell the bits a word really has from those that are counted; `bits.short` and `past` record
a decision on bits that were not there, and an access outside a buffer: they are what the
invariants forbid, and no guard looks at them.

A decompressor is then given all, or all but the last bytes, of what was written, or an
arbitrary stream (`AnySymbols`, `Openings`), and a buffer that fits, is a byte short or
has room to spare. It is used twice, so that tables are left from the first call. Both
word sizes and both kinds of builds (`UNALIGNED_ACCESS_IS_FAST`) are in `Builds`.
`MinBlock`, `StoredMax` and `LenBytes` stand for 5000, 65535 and 4: the properties relate
them to each other, and real values would need inputs of that length. Everything else
(table bits, codeword and match limits, slots) is DEFLATE's.

### Matchfinder and Parse

Positions, chains and the choices of the three parsers are as in the code; the
window has 16 positions, and the limits of a block (`MinBlock`, `SoftMax`, `SeqStore`,
`CheckAfter`) a few. A hash is the high bits of a product, as in `lz_hash`, with a
smaller factor: buckets are few, so that different bytes share chains all the time.
`next_tab` is not cleared by `hc_matchfinder_init`; `Unwritten` is what it may hold. The
fields of the block statistics keep their arithmetic. `Behind` is a byte behind the input: the
precomputed hash and the quick comparisons may read it.

## 3. What is checked

| Run | Checks | Distinct states |
|---|---|---|
| `sched` | `SchedTypeOK`, `NoTaskLost`, `CurrentRuns`, `RunsAwake`, `LessThanASecondEarly`, `ExitIsFinal`, `NoOvertaking`, `ReadyRuns`, `SleepersRun` | 6 791 |
| `kernel_mutex` | `MutualExclusion`, `LockWordAgrees`, `KernelTypeOK`, `KeyNamesOneMutex`, `KeysStay`, `MutexSpec` | 165 494 |
| `kernel_live` | `WaitersServed` | 3 720 |
| `kernel_alone` | finding: `MutualExclusion` | |
| `threads` | `ListsWhole`, `OneTakesPart`, `RingsComplete`, `SchedulerSpec` | 28 602 |
| `image` | `InnerProgramsLoaded`, `KernelLoaded` | 1 410 |
| `image_edge` | finding: `ProgramsLoaded` | |
| `screen` | `NothingForgotten`, `RowsKept` | 117 042 |
| `context` | `StacksBalance`, `OwnMachine` | 1 883 210 |
| `codes` | `CodesSound`, `CodesOptimal`, `HeadersRead`, `TablesDecode` | 84 106 |
| `stream` | `BoundEnough`, `OutputInside`, `CostCounted`, `BitsHeld`, `BuffersKept`, `OwnTables`, `RoundTrip` | 1 373 386 |
| `parse` | `Replays`, `BlocksLong`, `LongestFound` | 247 434 |

**sched.** Three tasks: one sleeps, one sleeps and may exit, one only yields or
computes (the *spinner*). Nobody is lost; the current task is always one that may
run; nobody runs before its wake-up time or after its exit; the ready queue is a
FIFO that newcomers join at the end; every ready task runs and every sleep ends.
The last two need fairness (below).

Bounds: two sleepers can be due in one scan, on both sides of a second that ends
in mid-scan, while the third task is in the ready queue; three ticks to the second,
an interval of two and eight ticks in all put sleeps of 0, 1 and 2 seconds at
every offset in a second and expiries before, at and after a timer interrupt.

**kernel_mutex.** Three programs and a task that is always ready. There are two slots
and three keys, of which each program names two: they compete for a slot, the table
fills up and refuses, and what a program stored must stay good. One of them sleeps with a
mutex, one may exit with it. With three lockers there can be a holder and two waiters,
and hand-over order matters. **kernel_live.** A holder, two waiters and a sleeper: whoever
blocks is served.

**threads.** Three processes, one of which makes two threads, sleeps and exits
(another one sleeps too): the lists read the same in both directions and lead back
to their heads, one thread per process takes part in scheduling, and the whole
implements `Sched`.

**image.** Boot blocks and kernels that end inside, at and one past a sector, and two
programs of every size from 1 to 9 bytes with 4-byte sectors. Every begin and
end offset within a sector occurs, and programs that share a sector, with the first,
the last or both of theirs. The kernel always arrives whole, and so does every
program that neither begins at a sector boundary nor ends with the first byte of a
sector.

**screen.** Two programs and `main` on three rows of two columns, everything that
is printed before and after the screen is cleared: whatever the console does not
show yet will be sent by the next refresh, and nobody writes in another's row.

**context.** Two tasks and a thread that one of them makes, with traps of both kinds at
every point, C frames of two depths, and `main`'s loop, which is interrupted and never
resumed. `StacksBalance`: no call, switch or interrupt leaves anything on a kernel stack
and none leaves its page. `OwnMachine`: the refinement of `Machines`. Pages have five words, the
fewest that hold the frames of the deepest trap with the thread's `tcb`. Registers
hold one value and `Junk`: a register of the wrong task still differs in `sp` and `tp`, and one
that was not restored is `Junk`.

**codes.** All frequencies 0, 1, 2, 3, 5, 8 over five symbols (the worst case for lengths) with
limits 3 and 4, so that the limit binds; some frequencies over DEFLATE's own 288 and 32
symbols, chosen for long runs and for runs that cross from one code into the other; and all
lengths up to four over five symbols as a decompressor may be sent them, complete,
incomplete and overfull. Where the limit cannot bind, the cost is compared with that of
Huffman's algorithm.

**stream.** The empty input, and one to three blocks that are cheapest uncompressed, static or dynamic, and
uncompressed ones that take two stored blocks; buffers from far too small to three bytes
more than the bound. On the way back the stream is whole, or one or two bytes short, or
followed by a byte more; the output buffer is a byte short, exact or large (so that the fast loop is
entered). Arbitrary streams follow, some with an uncompressed block in front that takes the
output to the fast loop's margin. Their headers may hold the reserved block type, and
lengths that begin by repeating one there is not yet. The longest codewords of DEFLATE (15 bits with 13 extra)
occur on all builds.

**parse.** All inputs of five pieces out of six, 5 to 30 bytes with almost every repetition
a window of 16 can hold, and slides of the window in searches and in skips; three levels, both ways of
comparing. `LongestFound` compares each search's chains with all positions of the window.
Each of the three ends of a block (length, full store, change of statistics) occurs.

Deadlock is checked in the runs of the scheduler, the kernel, the threads and the
screen, in `context`, `stream` and `parse`. An image is built and loaded once, and a code
goes its way once, so `image` and `codes` stop.

### Fairness

`SchedFairness` says that the clock runs and that a pending timer interrupt is
taken: interrupts are on whenever a program (or pid 0's loop) runs and no handler
loops. Nothing is assumed of the programs: `ReadyRuns` holds although every task
may compute for ever. `kernel_live` assumes in addition that a program that has a
mutex and gets the processor again and again releases it in the end (strong
fairness of its release: `lock1.c` releases after a hundred lines of printing, and
only makes progress while it runs). Without that, no mutex promises anything to
its waiters.

### The assumption of a spinner

`CurrentRuns`, `RunsAwake`, `ExitIsFinal`, `LessThanASecondEarly`, `MutualExclusion`,
`LockWordAgrees` and `MutexSpec`, and in `threads` `ListsWhole`, `OneTakesPart`,
`RingsComplete` and `SchedulerSpec`, are true while some
task is always ready or running (`Spinners # {}`, `NeverWait # {}`). The repository's
own `print1`, `fly`, `timer` and so on are such tasks, and `kernel_alone` shows
what happens without one. In `threads` the third
process is that task: it neither sleeps nor exits.

`NoTaskLost` needs no spinner in `Sched` (it is proved so) but does with mutexes and
exit: a task that goes on running while blocked in a deadlock of two mutexes may
release one, hand the other one on, become `READY` and linked while it runs, and then exit: an
exited task is in the ready queue, and `do_scheduler` revives it. `KeysStay` and
`KeyNamesOneMutex` need no spinner, and are proved without one.

## 4. Findings

1. `kernel_alone`, `MutualExclusion`. With every other task asleep or blocked, a
   blocking acquire returns (`sched.c:35`) and the caller enters a critical section
   that is taken.
2. `image_edge`, `ProgramsLoaded`. `loader.c:21-22` computes the sector of an address
   as `NBYTES2SEC(x) - 1`, one too low at a sector boundary: a program that begins
   at one is loaded from a sector too early, one whose last byte is the first of a
   sector loses that byte.

Four more that can be read off the code and have no run of their own:

* With every other task asleep, a process that calls sleep goes on running with its
  node in the sleep queue (the early return again). If it then calls `thread_yield`, the
  node is re-initialised in place (`thread.c:57`), and the next `check_sleeping` never ends.
  `threads` has a process that is always ready.
* The key -1 is also the mark of a free slot (`lock.c:53`): `do_mutex_lock_init(-1)` gives out a
  slot that stays free, and the next key is given the same one.
* A sleep of n seconds may end up to a second (less one tick) early: `get_timer`
  rounds down (`time.c:18`). `LessThanASecondEarly` says that it is no more than that.
* A comment in the compressor (`tools/deflate/lib/deflate_compress.c:182-190`) says that the
  longest block is SOFT_MAX_BLOCK_LENGTH + 1 + DEFLATE_MAX_MATCH_LEN bytes long: two
  literals and a match from SOFT_MAX_BLOCK_LENGTH - 1 on. The lazy parsers can go on postponing past
  the end of the block (`goto have_cur_match`, lines 2702 and 2733) without looking at it, so
  such a block may be up to some 340 bytes longer. `MAX_BLOCK_LENGTH` is right all the same, because its
  other case, SOFT_MAX_BLOCK_LENGTH + MIN_BLOCK_LENGTH - 1, is larger: with the code's sizes it is
  `LongestBlock`, and `BlocksLong` is the ASSERT at line 1727.

## 5. What is proved

The theorems hold for every value of the constants: any number of tasks, threads,
mutexes, programs and screens' rows and columns, any sets of programs that sleep, exit or use
threads, any clock frequency, timer interval, sector size and page size, under the named
assumptions of the modules (`SchedAssumption`, `KernelAssumption`, `ThreadsAssumption`,
`ContextAssumption`, `ScreenAssumption`, `ImageAssumption`: names are distinct, sizes
are natural numbers; `StreamAssumption`: matches and codewords have lengths DEFLATE
allows, only the last block of an input may be shorter than MIN_BLOCK_LENGTH, and
2 * MIN_BLOCK_LENGTH <= UINT16_MAX; `MatchfinderAssumption` and `ParseAssumption`: bytes are bytes, sizes are positive,
a block that fills its store of matches has the minimum length, and the levels search to
the depths the code's own table has).

| Theorem | Property | Assumes besides |
|---|---|---|
| `KernelProofs!SchedTypeCorrect` | `SchedTypeOK` | |
| `KernelProofs!SchedLosesNoTask` | `NoTaskLost` | |
| `KernelProofs!SchedFirstComeFirstServed` | `NoOvertaking` | |
| `KernelProofs!SpinnersKeepOthersHonest` | `CurrentRuns` | a spinner |
| `KernelProofs!ExitsAreFinal` | `ExitIsFinal` | a spinner |
| `KernelProofs!SleepersRunAwake` | `RunsAwake` | a spinner |
| `KernelProofs!SleepIsLessThanASecondShort` | `LessThanASecondEarly` | a spinner |
| `KernelProofs!SlotsKeepTheirKeys` | `KeysStay` | |
| `KernelProofs!KeysNameMutexes` | `KeyNamesOneMutex` | -1 is no key |
| `KernelProofs!KernelTypeCorrect` | `KernelTypeOK` | -1 is no key, a task that never waits |
| `KernelProofs!LockWordsTellTheTruth` | `LockWordAgrees` | the same |
| `KernelProofs!MutexesExclude` | `MutualExclusion` | the same |
| `KernelProofs!MutexesImplemented` | `MutexSpec` | the same |
| `ThreadsProofs!ThreadsListsWhole` | `ListsWhole` | a spinner |
| `ThreadsProofs!ThreadsOneTakesPart` | `OneTakesPart` | a spinner |
| `ThreadsProofs!ThreadsRingsComplete` | `RingsComplete` | a spinner |
| `ThreadsProofs!ThreadsImplementScheduler` | `SchedulerSpec` | a spinner |
| `ContextProofs!ContextStacksBalance` | `StacksBalance` | |
| `ContextProofs!ContextOwnMachine` | `OwnMachine` | |
| `ScreenProofs!ScreenForgetsNothing` | `NothingForgotten` | |
| `ScreenProofs!ScreenKeepsRows` | `RowsKept` | |
| `ImageProofs!ImageKernelLoaded` | `KernelLoaded` | |
| `ImageProofs!ImageProgramsLoaded` | `InnerProgramsLoaded` | |
| `StreamProofs!StreamBoundEnough` | `BoundEnough` | |
| `StreamProofs!StreamCostCounted` | `CostCounted` | |
| `StreamProofs!StreamOutputInside` | `OutputInside` | |
| `StreamProofs!StreamBitsHeld` | `BitsHeld` | |
| `StreamProofs!StreamBuffersKept` | `BuffersKept` | |
| `StreamProofs!StreamOwnTables` | `OwnTables` | |
| `ParseProofs!ParseReplays` | `Replays` | |
| `ParseProofs!ParseBlocksLong` | `BlocksLong` | |
| `ParseProofs!ParseLongestFound` | `LongestFound` | |

`SchedInvariant`, `ThreadsInvariant`, `ContextInvariant`, `ScreenInvariant`, `ImageInvariant`,
`StreamInvariant`, `StreamCosts` and `ParseInvariant` state the inductive invariants
themselves. The two assumptions on the blocks of a stream are the code's own: ASSERT at line
1726 and STATIC_ASSERT at line 4051 of `deflate_compress.c`. That the greedy and lazy
parsers keep to the first is `BlocksLong`.

**The scheduler.** `SchedInv` adds two facts to `SchedTypeOK` and `NoTaskLost`, and then is
inductive: pid 0 is `BLOCKED`, and the current task is never `READY`. The second
one is what makes an exit safe: `do_exit` leaves the lists alone, so the caller must
not be in the ready queue. It is preserved because the early return is taken only
when the ready queue is empty, hence (status and lists agree) when nobody is `READY`.
A handler is a composition of operations on a status and lists; for each there is a
lemma that it keeps them `Sound` (`MoveTail`, `BlockSound`, `UnblockSound`, `WakeSound`,
`ExitSound`, `DispatchSound`, `SchedulerSound`). They rest on `QueuesProofs`: keeping
some positions of a queue keeps order and elements, each once (`PickProperties`). Its
part about order gives `NoOvertaking`: what a handler keeps of the ready queue keeps its
order, and what it adds goes to the end.

With a spinner u, `SpinInv` adds that u is ready or running and the current task is
running: `do_scheduler` then finds the ready queue non-empty or its caller running.
`Gone` (an exited task is in no list) gives `ExitIsFinal`: a caller of `do_exit` was
running, so it was linked nowhere. `Awake` (whoever is ready or running has reached
its wake-up time) gives `RunsAwake`: the clock a sleeper was compared with is never
later than the one the call ends with. Without a spinner each of them is false.
For `LessThanASecondEarly` the end of a sleep is bounded by its wake-up time plus a
second, from a = c (a div c) + a mod c.

**The mutexes.** `TableInv` says that an index a program holds names a slot with the
program's key, that no two claimed slots have the same key, and that what has been
acquired was claimed; it needs nothing of the scheduler, since slots are never given
back. `MutexInv` joins it with `GoingInv` (the scheduler's invariant, with the tasks
that never wait in the spinner's place: whoever calls is running, so linked nowhere),
`WaitersAsked` (whoever is in a block queue has called acquire on that mutex) and
`LockWordAgrees` itself. None holds without the others: a release wakes the head of the queue,
which is one holder only because the head had asked and was linked nowhere else; an
acquire that blocks does not return only because somebody else is ready. The lemmas
`BlockRunning`, `BlockOnEffect` and `PassOnEffect` say what one call does to the block
queues, `SchedulerKeepsWaiters` that `do_scheduler` and its wake-ups leave them alone, and
`QuietStep` that the scheduler's own steps do. `MutualExclusion` follows, since a
task that runs is in no queue. For the refinement `OwnerOf` is the one holder a closed lock
has; `StepRefines` takes each action to an acquire, a wait, a hand-over or a stutter.
`HonestStep` is stated for any set of tasks that never wait, so that both
use it.

**Lists of pointers and threads.** `Whole(h, Q, H, E)` says that the heap `h` is, for the
heads in `H` and the nodes in `E`, the sequences `Q`: from every head the `next` pointers
lead through its sequence and back, the `prev` pointers lead the other way, and no node
is in two sequences or twice in one. Each operation of `list.c` is shown to take sequences to
sequences, pointer by pointer (`CutWhole`, `InsertWhole`, `AddTailWhole`, `DelInitWhole`,
`MoveWhole`), for any number of nodes, and `EntriesIs` reads a list back as the recursive
function of the model does. The loop of `check_sleeping` unlinks the node it stands
on; `CheckSleepingIs` proves, by an invariant on the position of its cursor, that it visits
each sleeper once and wakes those whose time has come, in their order. `ThreadsInv`
is that the heap is whole; that the statuses agree with the lists, a process being served by one of
its PCBs while the others are idle and out of the queues (`Sound`); that the rings of
threads are complete (`Grouped`); and that the current task runs. `thread_yield` re-initialises the
caller's node without unlinking it: the invariant survives because the caller is
running, hence in no list, which again needs a spinner.

For `SchedulerSpec` a process has the status and the place of the PCB that serves it
(`BarStatus`, `BarQueue`). `YieldRefines`, `SleepRefines`, `ExitRefines`, `InterruptRefines`
and `TickRefines` take those actions to the action of `Sched` with the same name;
`thread_create` and `thread_yield` are stutters. `WakeInv` is needed for the wake-up
times: of the PCBs of a process only one can be asleep, and the others have reached their time, so
the latest one is the sleeper's.

**Context switches.** Stages of a trap (`at`) determine where the registers of a task are.
`ContextInv` says, for a task that waits, that its registers are in the trap frame at the top of its
kernel stack, and that below it there is either the frame that `init_pcb` built or
the one that `switch_to` saved (`NeverRun`, `SwitchedOut`); for the one on the processor, how much has been
saved or restored at each stage (`OnCpu`). The pages given out so far are those of the pids
in their order (`Allocated`), so that stacks lie in disjoint zones and no store of one task
reaches the words of another. `StacksBalance` is read off it; for `OwnMachine` each
step of the code is a step of the abstract machine of its task, the answer to its
call, or a stutter.

**The screen.** `ScreenInv`: once the screen has been cleared, the console shows what `old_screen`
remembers; and a program that has set its cursor has it in its own row. So a character lands in the
writer's row (`LocInjective`: two places of the screen are never the same cell) and
`screen_reflush` leaves rows and memory as they were. The loop that writes a line is a
function, unfolded by `TextWritten`.

**The image.** `ImageInv` records what the builder has laid down when a phase begins: the kernel
from sector 2, the programs one after another, each entry's offset and size, all of it
below `phyaddr`; and what the loader has read so far. Sector arithmetic is in lemmas of its own;
`OthersKept` says that loading a program leaves earlier ones alone, their areas of memory being apart.
`InnerProgramsLoaded` leaves out the programs that begin at a sector boundary and those
whose last byte is the first of a sector: these are finding 2.

**The streams.** The theorems are for any plan of such blocks, any buffers and any
symbols that arrive, so they do not rest on the compressor having written what is
read. On the compressor's side (`OutInv`) a block is a sequence of groups of bits, one for
each FLUSH_BITS; every group fits the word beside the seven bits a flush may leave
(`Fitting`, from CAN_BUFFER and the longest codewords: `ItemIs`, `WriteMatchIs`,
`HeaderGroupsIs`), and a flush writes a whole word only `END_PADDING` bytes before the end.

On the decompressor's side (`InInv`) the bits in the word are bits of the input, and zeroes
after it (`Honest`): hence nothing is read twice or beyond the end, whichever of the three
refills runs. The generic loop refills before it looks at anything. The fastloop does
so only when it may run short, and looks at the ends of the buffers once in a turn:
`Near` counts the bits used since then, `Fast` the bit more that the word may hold than is
counted, and `FastloopAt` what a turn has left after each extra literal. A turn uses
at most as many bits as `FASTLOOP_MAX_BYTES_READ` allows for and writes no more than
`FASTLOOP_MAX_BYTES_WRITTEN`, the overrun of a copy by words included (`CopyIs`),
with words of 32 bits and with words of 64. `TablesOwn` follows the flag that says the
static tables are loaded through every path to the tables of a block, the refused ones too.
The folds and recursive functions of the model are handled by two general facts: a
fold, or a recursion, whose steps lead from a set into it has its value there
(`FoldClosed`, `RecursionClosed`). `StreamInv` is also checked by TLC, on the inputs of
the run `stream`.

`CostCounted` compares two sums over the same items: `SymbolsCost` adds them kind by kind,
frequency times length, and `ItemGroups` adds them in the order of the block, up to four
literals at a time, charged to the literal that begins the group. `SymbolsCostIs` and
`ItemGroupsSum` (with `RunStep`: what the groups have ahead of the items they belong to is paid
back by the next three) bring both to the sum of `ItemsBits`; `HeaderSum` does the same for the
header of a dynamic block and `StoredSize` for a row of uncompressed ones, which ends at
`StoredEnd` if there is room for all of it. They rest on the lemmas on sums of `QueuesProofs`
(`SumsAre`, `SumConcat`, `SumIsLast`). `Counted` is then kept by each flush, or the end of the
buffer is reached and stays so (`WrittenCost`).

`BoundEnough` is about any input, the empty one included, which only `CompressNone` takes.
It needs the costs only from above: the block chosen costs no more than an
uncompressed one. `WithinBound` is the argument of the comment on
libdeflate_deflate_compress_bound as an invariant: what has been added, and what the current
block still adds, fits the input so far and `rows` headers, and there have been as many
minimum-length blocks as `rows`. One more block keeps that (`BlockFits`): of at least
MIN_BLOCK_LENGTH bytes it becomes no more rows than it has minimum lengths, because two of
them fit one row, and the last, if it is shorter, becomes one row, which rounding up has
counted. The alignment bits cost nothing, as the comment says, because a row ends at the
end of a byte at the latest where an uncompressed block would (`StoredPosition`). So the end of the
buffer is never reached, and the test os.next >= os.end at line 3995 passes the
stream. `CostInv` (checked by TLC on the run's inputs too) joins the two.

**The parsers.** The theorems are for any input, and for a matchfinder's tables with any
rubbish in `next_tab`. `ParseInv` has a part for each of three questions. Of the tables it says
that a chain leads to ever earlier positions of the window until it leaves it (`Linked`):
with that, whatever a search compares, what it returns is a repetition of bytes
inside the window (`Found`, `LongestMatchIs`). This survives the sliding of the base
(`SlidReady`), a skip of any length (`SkipIs`), and the fact that the last four
positions are neither searched nor inserted.

`LongestFound` needs to know what a chain contains, not only where it leads (`Chained`): the
codes computed in advance are those of the next position; each bucket, and each entry
of the window, holds the latest earlier position with its code (`Latest`), unless
that lies more than a window before the base, where a slide cuts it off. An entry
is overwritten a window later, when its position has just left the window (`SlotIs`). A
search that is not cut short then goes through every position of the window that
has the code of the next (`Onward`, `StepOnward`): the tests that spare it a
comparison turn away only what is no longer than the best so far (`BetterEnough`), the bucket
of three bytes cannot be empty when four bytes are there to be found, and as a chain only goes
back, a window of nodes is enough. That position 0 is inserted under code 0, whatever its
bytes, is in `Code`: the reason why the property leaves it out.

Of the open block it says that its sequences cover the input up to the position
that is accounted for, which is a byte back while a match waits (`Parsed`), that each
symbol has been counted as often as it occurs (`Counted`), and that it follows the last
block (`Follows`). `LiteralCounted` and `MatchCounted` are the two ways it grows. `Replays` is
what is left of this when the block is flushed.

`BlocksLong` needs a bound on what the lazy parsers postpone (the last remark of section 4). A
match that waits at `in_next - 1`, past the end of its block, must be longer or nearer than
need be: each byte it was postponed by has raised 4 len - bsr32(offset) by three at least, as
BetterBy asks for, and that number is bounded (`CurOK`, `BetterPays`, `WithinLongest`). That
blocks are long enough is a case for each of their ends (`GoOnKeeps`): the next block begins
SOFT_MAX_BLOCK_LENGTH on only where a minimum is left, a full store has three bytes at
least for every match, and a change of statistics is only looked for after the minimum.
`ParseInv` is also checked by TLC, on inputs like those of the run `parse`.

**Only model-checked.** Liveness (`ReadyRuns`, `SleepersRun`, `WaitersServed`) is beyond
the prover. So is what a computation over an input of any length returns, an induction over that
input: what the codes of `Codes` are, for which `HuffmanCode` and `DecodeTable` also use
RECURSIVE operators, which the prover does not take; and `RoundTrip` of `Stream`, which relates the
symbols that were sent to those that are read, from the first to the last.

## 6. Not modelled

* `latency()`, a busy wait that nothing in the repository calls.
* `handle_other` prints the frame and stops the machine.
* Misuse of mutexes (releasing twice, exiting with one and expecting it to open): the
  code does not promise anything there; exiting with a mutex is modelled, and its
  waiters wait for ever.
* ELF headers, program names, escape sequences, `printf`, `printk`, string functions,
  the user library's stubs, the BIOS wrappers, `head.S` and `crt0.S`.
* In `tools/deflate`: the fastest parser and its hash table (`ht_matchfinder.h`, level 1), the
  near-optimal parser and its binary trees (`bt_matchfinder.h`, levels 10 to 12), and the
  wrappers of `tinylibdeflate.c` and `utils.c`. The wrappers cast `int *` to `size_t *` and
  hand out one static decompressor; the library is not linked by anything but its example.

## 7. Plan

What is left is the binary trees and the near-optimal parser: a search finds what the
chains find, and the cheapest path's matches give back the input, in blocks as long as
`StreamAssumption` takes them to be. And a proof of `RoundTrip`, for which `StreamInv` and
`CostInv` would have to be joined by where in the stream each of the symbols lies.
