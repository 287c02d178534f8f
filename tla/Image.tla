----------------------------- MODULE Image -----------------------------
(***************************************************************************)
(* From the executables to programs in memory: tools/createimage.c writes  *)
(* the image, the boot block reads the kernel from it, and init_pcb loads  *)
(* each program with load_task_img (kernel/loader/loader.c).  Programs are *)
(* packed without padding, the card is read in sectors, and all the        *)
(* arithmetic between the two is here.                                     *)
(*                                                                         *)
(* A byte of the image is named by its address in it, so that memory shows *)
(* where each of its bytes came from.                                      *)
(***************************************************************************)
EXTENDS Integers, Sequences, SequencesExt

CONSTANTS
  SECTOR_SIZE,
  TASK_SIZE,     \* the distance between programs in memory (1 << 16)
  BootSizes,     \* sizes the boot block may have, in bytes
  KernelSizes,   \* sizes the kernel may have
  ProgramSizes,  \* sizes a program may have
  TaskNum        \* bound: programs in the image

ASSUME ImageAssumption ==
  /\ SECTOR_SIZE \in Nat \ {0} /\ TASK_SIZE \in Nat \ {0} /\ TaskNum \in Nat
  /\ BootSizes \subseteq 1..(2 * SECTOR_SIZE)
  /\ KernelSizes \subseteq Nat \ {0}
  /\ ProgramSizes \subseteq 1..TASK_SIZE

Junk == -1  \* a byte that is not from the image

\* A program plus the sector before it, a sector at a time, fits.
BufferSize == TASK_SIZE + 2 * SECTOR_SIZE
\* Memory from TASK_MEM_BASE on; the read buffer lies behind the last program.
Memory     == 0 .. (TaskNum + 1) * TASK_SIZE + BufferSize - 1

VARIABLES
  phase,     \* "boot", "main" and "tasks" name the file createimage is at
  phyaddr,   \* bytes written to the image
  taskinfo,  \* the table of programs
  os_size,   \* sectors of the kernel
  main_at,   \* history: the kernel's address in the image
  kernel,    \* the bytes in memory from the kernel's address on
  memory,    \* the bytes from TASK_MEM_BASE on
  loaded     \* programs init_pcb has loaded

imageVars == <<phase, phyaddr, taskinfo, os_size, main_at, kernel, memory, loaded>>

-----------------------------------------------------------------------
NBYTES2SEC(nbytes) ==
  nbytes \div SECTOR_SIZE + (IF nbytes % SECTOR_SIZE # 0 THEN 1 ELSE 0)

\* Slip: the kernel follows the boot block without padding.
NoPadding(at, to) == at

\* Zeros up to an address, if it is not reached yet.
write_padding(at, to) == IF at < to THEN to ELSE at

\* create_image on "bootblock": its segments, then zeros to the end of the
\* second sector, which write_img_info gives to the table of programs.
WriteBoot(size) ==
  /\ phase = "boot" /\ phase' = "main"
  /\ phyaddr' = write_padding(phyaddr + size, 2 * SECTOR_SIZE)
  /\ UNCHANGED <<taskinfo, os_size, main_at, kernel, memory, loaded>>

\* create_image on "main"; os_size is what write_img_info will make of it.
WriteMain(size) ==
  /\ phase = "main" /\ phase' = "tasks"
  /\ phyaddr' = phyaddr + size
  /\ os_size' = NBYTES2SEC(size)
  /\ main_at' = phyaddr
  /\ UNCHANGED <<taskinfo, kernel, memory, loaded>>

WriteTask(size) ==
  /\ phase = "tasks" /\ Len(taskinfo) < TaskNum
  /\ taskinfo' = Append(taskinfo, [begin |-> phyaddr, end |-> phyaddr + size])
  /\ phyaddr' = phyaddr + size
  /\ UNCHANGED <<phase, os_size, main_at, kernel, memory, loaded>>

\* What sd_read brings: count sectors from block on.
Sectors(block, count) ==
  [i \in 1 .. count * SECTOR_SIZE |->
     LET a == block * SECTOR_SIZE + i - 1 IN IF a < phyaddr THEN a ELSE Junk]

\* The image is complete; the boot block reads the kernel from sector 2 on.
Boot ==
  /\ phase = "tasks" /\ taskinfo # <<>> /\ phase' = "load"
  /\ kernel' = Sectors(2, os_size)
  /\ UNCHANGED <<phyaddr, taskinfo, os_size, main_at, memory, loaded>>

\* Memory after the bytes of q are written at address a.
Copied(mem, a, q) ==
  [x \in Memory |-> IF x - a + 1 \in DOMAIN q THEN q[x - a + 1] ELSE mem[x]]

\* Slip: the copy starts with the buffer.
CopyFromStart(begin) == 0

\* Where the program starts in the buffer.
InBuffer(begin) == begin % SECTOR_SIZE

\* load_task_img for the program at index i.
load_task_img(i) ==
  LET t           == taskinfo[i + 1]
      buffer      == (Len(taskinfo) + 1) * TASK_SIZE
      begin_block == NBYTES2SEC(t.begin) - 1
      end_block   == NBYTES2SEC(t.end - 1) - 1
      read        == Copied(memory, buffer,
                            Sectors(begin_block, end_block - begin_block + 1))
  IN  Copied(read, i * TASK_SIZE,
             [j \in 1 .. t.end - t.begin |-> read[buffer + InBuffer(t.begin) + j - 1]])

\* init_pcb's loop.
LoadTask ==
  /\ phase = "load" /\ loaded < Len(taskinfo)
  /\ memory' = load_task_img(loaded)
  /\ loaded' = loaded + 1
  /\ UNCHANGED <<phase, phyaddr, taskinfo, os_size, main_at, kernel>>

ImageInit ==
  /\ phase = "boot" /\ phyaddr = 0
  /\ taskinfo = <<>> /\ os_size = 0 /\ main_at = 0
  /\ kernel = <<>>
  /\ memory = [x \in Memory |-> Junk]
  /\ loaded = 0

ImageStep ==
  \/ \E n \in BootSizes : WriteBoot(n)
  \/ \E n \in KernelSizes : WriteMain(n)
  \/ \E n \in ProgramSizes : WriteTask(n)
  \/ Boot
  \/ LoadTask

ImageSpec == ImageInit /\ [][ImageStep]_imageVars

-----------------------------------------------------------------------
\* Program i is in memory as it is in its executable.
Intact(i) ==
  LET t == taskinfo[i + 1]
  IN  \A o \in 0 .. t.end - t.begin - 1 : memory[i * TASK_SIZE + o] = t.begin + o

\* load_task_img "load task from image": each program arrives as it was
\* written, and stays so while the others are loaded.
ProgramsLoaded == \A i \in 0 .. loaded - 1 : Intact(i)

\* The same, of the programs that begin inside a sector and end after the first
\* byte of one: what comes before, after or between them does not matter.
InnerProgramsLoaded ==
  \A i \in 0 .. loaded - 1 :
    /\ taskinfo[i + 1].begin % SECTOR_SIZE # 0
    /\ (taskinfo[i + 1].end - 1) % SECTOR_SIZE # 0
    => Intact(i)

\* The boot block finds the whole kernel, whatever its size and its own.
KernelLoaded ==
  phase = "load" =>
    \A o \in 0 .. taskinfo[1].begin - main_at - 1 : kernel[o + 1] = main_at + o

=======================================================================
