-------------------------- MODULE ImageProofs --------------------------
(***************************************************************************)
(* Theorems about the image, for any sector size, any programs and any     *)
(* number of them: the boot block reads the whole kernel, and the loader   *)
(* brings every program that neither begins a sector nor ends with the     *)
(* first byte of one, and disturbs none it has loaded before.              *)
(***************************************************************************)
EXTENDS Image, TLAPS

-----------------------------------------------------------------------
(***************************************************************************)
(* An address is a sector's and an offset in it.                           *)
(***************************************************************************)
LEMMA SectorParts ==
  ASSUME NEW n \in Nat
  PROVE  /\ n \div SECTOR_SIZE \in Nat
         /\ n % SECTOR_SIZE \in 0 .. SECTOR_SIZE - 1
         /\ n = (n \div SECTOR_SIZE) * SECTOR_SIZE + (n % SECTOR_SIZE)
<1>1. SECTOR_SIZE \in Nat /\ SECTOR_SIZE > 0
  BY ImageAssumption
<1>2. /\ n % SECTOR_SIZE \in 0 .. SECTOR_SIZE - 1
      /\ n = SECTOR_SIZE * (n \div SECTOR_SIZE) + (n % SECTOR_SIZE)
      /\ n \div SECTOR_SIZE \in Int
  BY <1>1
<1> DEFINE d == n \div SECTOR_SIZE
           r == n % SECTOR_SIZE
           W == SECTOR_SIZE
<1>3. d \in Int /\ r \in 0 .. W - 1 /\ n = W * d + r /\ W \in Nat /\ W > 0
  BY <1>1, <1>2
<1> HIDE DEF d, r, W
<1>4. d >= 0
  <2> SUFFICES ASSUME d <= -1 PROVE FALSE
    BY <1>3
  <2> DEFINE e == -1 - d
  <2>1. e \in Nat /\ d = -1 - e
    BY <1>3
  <2> HIDE DEF e
  <2>2. W * e \in Nat /\ W * d = -W - W * e
    BY <1>3, <2>1
  <2> QED BY <1>3, <2>2
<1>5. W * d = d * W
  BY <1>3
<1>6. d \in Nat /\ r \in 0 .. W - 1 /\ n = d * W + r
  BY <1>3, <1>4, <1>5
<1> QED BY <1>6 DEF d, r, W

LEMMA Times ==
  ASSUME NEW T \in Nat, NEW a \in Nat, NEW b \in Nat
  PROVE  /\ a * T \in Nat
         /\ (a + b) * T = a * T + b * T
         /\ a <= b => a * T <= b * T
         /\ a < b => a * T + T <= b * T
<1>1. a * T \in Nat /\ (a + b) * T = a * T + b * T
  OBVIOUS
<1>2. ASSUME a <= b PROVE a * T <= b * T
  <2> DEFINE d == b - a
  <2>1. d \in Nat /\ b = a + d
    BY <1>2
  <2> HIDE DEF d
  <2>2. b * T = a * T + d * T /\ d * T \in Nat
    BY <2>1
  <2> QED BY <1>1, <2>2
<1>3. ASSUME a < b PROVE a * T + T <= b * T
  <2> DEFINE d == b - a - 1
  <2>1. d \in Nat /\ b = a + 1 + d
    BY <1>3
  <2> HIDE DEF d
  <2>2. b * T = a * T + T + d * T /\ d * T \in Nat
    BY <2>1
  <2> QED BY <1>1, <2>2
<1> QED BY <1>1, <1>2, <1>3

(***************************************************************************)
(* NBYTES2SEC gives enough sectors for that many bytes; and, of an address *)
(* inside a sector, one more than the number of its sector.                *)
(***************************************************************************)
LEMMA SectorsEnough ==
  ASSUME NEW n \in Nat
  PROVE  /\ NBYTES2SEC(n) \in Nat /\ n <= NBYTES2SEC(n) * SECTOR_SIZE
         /\ n % SECTOR_SIZE # 0 => NBYTES2SEC(n) - 1 = n \div SECTOR_SIZE
<1> DEFINE d == n \div SECTOR_SIZE
           r == n % SECTOR_SIZE
           W == SECTOR_SIZE
           N == NBYTES2SEC(n)
<1>1. /\ d \in Nat /\ r \in 0 .. W - 1 /\ n = d * W + r /\ W \in Nat
      /\ N = d + (IF r # 0 THEN 1 ELSE 0)
  BY SectorParts, ImageAssumption DEF NBYTES2SEC
<1> HIDE DEF d, r, W, N
<1>2. ASSUME r = 0 PROVE N \in Nat /\ n <= N * W
  <2>1. N = d /\ n = d * W
    BY <1>1, <1>2
  <2> QED BY <1>1, <2>1
<1>3. ASSUME r # 0 PROVE N \in Nat /\ n <= N * W /\ N - 1 = d
  <2>1. N = d + 1 /\ N * W = d * W + W /\ d * W \in Nat
    BY <1>1, <1>3
  <2> QED BY <1>1, <1>3, <2>1
<1>4. N \in Nat /\ n <= N * W /\ (r # 0 => N - 1 = d)
  BY <1>2, <1>3
<1> QED BY <1>4 DEF N, r, d, W

LEMMA SectorsAt ==
  ASSUME NEW block \in Nat, NEW count \in Nat
  PROVE  /\ DOMAIN Sectors(block, count) = 1 .. count * SECTOR_SIZE
         /\ \A i \in 1 .. count * SECTOR_SIZE :
              block * SECTOR_SIZE + i - 1 < phyaddr =>
                Sectors(block, count)[i] = block * SECTOR_SIZE + i - 1
BY DEF Sectors

-----------------------------------------------------------------------
\* The kernel's sectors, and where the first program begins.
KernelPlaced ==
  \E size \in KernelSizes :
    /\ os_size = NBYTES2SEC(size)
    /\ taskinfo = <<>> => phyaddr = main_at + size
    /\ taskinfo # <<>> => taskinfo[1].begin = main_at + size

\* The entry of a program: not larger than the place for it in memory.
Entry == {t \in [begin : Nat, end : Nat] :
            0 < t.begin /\ t.begin < t.end /\ t.end <= t.begin + TASK_SIZE}

LEMMA EntryHas ==
  ASSUME NEW t \in Entry
  PROVE  t.begin \in Nat /\ t.end \in Nat /\ t.begin < t.end /\ t.end <= t.begin + TASK_SIZE
BY DEF Entry

\* The inductive invariant.
ImageInv ==
  /\ phase \in {"boot", "main", "tasks", "load"}
  /\ phyaddr \in Nat /\ main_at \in Nat
  /\ phase = "boot" => phyaddr = 0
  /\ phase = "main" => phyaddr = 2 * SECTOR_SIZE
  /\ phase \in {"tasks", "load"} => main_at = 2 * SECTOR_SIZE /\ KernelPlaced
                                    /\ phyaddr > 0
  /\ phase \in {"boot", "main"} => taskinfo = <<>>
  /\ taskinfo \in Seq(Entry) /\ Len(taskinfo) <= TaskNum
  /\ \A i \in DOMAIN taskinfo : taskinfo[i].end <= phyaddr
  /\ phase = "load" => taskinfo # <<>> /\ kernel = Sectors(2, os_size)
  /\ loaded \in Nat /\ loaded <= Len(taskinfo)
  /\ phase # "load" => loaded = 0
  /\ InnerProgramsLoaded

LEMMA ImageInitInv == ImageInit => ImageInv
<1> SUFFICES ASSUME ImageInit PROVE ImageInv
  OBVIOUS
<1>1. /\ taskinfo \in Seq(Entry) /\ Len(taskinfo) = 0
      /\ DOMAIN taskinfo = {} /\ loaded = 0
  BY DEF ImageInit
<1>2. InnerProgramsLoaded
  BY <1>1 DEF InnerProgramsLoaded
<1> QED BY <1>1, <1>2, ImageAssumption DEF ImageInit, ImageInv

\* The boot block finds the whole kernel.
LEMMA KernelIsThere == ASSUME ImageInv PROVE KernelLoaded
<1> SUFFICES ASSUME phase = "load", NEW o \in 0 .. taskinfo[1].begin - main_at - 1
             PROVE  kernel[o + 1] = main_at + o
  BY DEF KernelLoaded
<1>1. PICK size \in KernelSizes : /\ os_size = NBYTES2SEC(size)
                                  /\ taskinfo[1].begin = main_at + size
  BY DEF ImageInv, KernelPlaced
<1>2. /\ main_at = 2 * SECTOR_SIZE /\ kernel = Sectors(2, os_size)
      /\ taskinfo \in Seq(Entry) /\ taskinfo # <<>> /\ phyaddr \in Nat
      /\ \A i \in DOMAIN taskinfo : taskinfo[i].end <= phyaddr
      /\ SECTOR_SIZE \in Nat /\ size \in Nat
  BY <1>1, ImageAssumption DEF ImageInv
<1>3. 1 \in DOMAIN taskinfo /\ taskinfo[1] \in Entry
  BY <1>2
<1>4. taskinfo[1].end \in Nat /\ taskinfo[1].begin < taskinfo[1].end /\ taskinfo[1].end <= phyaddr
  BY <1>2, <1>3 DEF Entry
<1>5. os_size \in Nat /\ size <= os_size * SECTOR_SIZE /\ os_size * SECTOR_SIZE \in Nat
  <2>1. NBYTES2SEC(size) \in Nat /\ size <= NBYTES2SEC(size) * SECTOR_SIZE
    BY <1>2, SectorsEnough
  <2>2. NBYTES2SEC(size) * SECTOR_SIZE \in Nat
    BY <1>2, <2>1, Times
  <2> QED BY <1>1, <2>1, <2>2
<1>6. /\ o + 1 \in 1 .. os_size * SECTOR_SIZE
      /\ 2 * SECTOR_SIZE + (o + 1) - 1 = main_at + o
      /\ main_at + o < phyaddr
  BY <1>1, <1>2, <1>4, <1>5
<1> QED BY <1>2, <1>5, <1>6, SectorsAt

-----------------------------------------------------------------------
\* The place of program i in memory, and the read buffer behind the last one.
Place(i)  == i * TASK_SIZE
BufferAt  == Place(Len(taskinfo) + 1)

(***************************************************************************)
(* The places are in memory, none overlaps another, and the buffer is      *)
(* behind them all.                                                        *)
(***************************************************************************)
LEMMA PlacesApart ==
  ASSUME NEW n \in Nat, n <= TaskNum, NEW i \in Nat, i < n,
         NEW o \in 0 .. TASK_SIZE - 1
  PROVE  /\ Place(i) \in Nat /\ Place(n + 1) \in Nat
         /\ Place(i) + o \in Memory
         /\ Place(i) + o < Place(n + 1)
         /\ \A j \in Nat : j < i => Place(j) \in Nat /\ Place(j) + TASK_SIZE <= Place(i)
         /\ \A b \in 0 .. BufferSize - 1 : Place(n + 1) + b \in Memory
<1> DEFINE T == TASK_SIZE
           B == BufferSize
           top == (TaskNum + 1) * T
<1>1. /\ T \in Nat /\ T > 0 /\ TaskNum \in Nat /\ B \in Nat /\ o \in Nat /\ o < T
      /\ Memory = 0 .. top + B - 1
  BY ImageAssumption DEF BufferSize, Memory
<1> HIDE DEF T, B, top
<1>2. /\ i * T \in Nat /\ (n + 1) * T \in Nat /\ top \in Nat
      /\ i * T + T <= (n + 1) * T
      /\ (n + 1) * T <= top
      /\ \A j \in Nat : j < i => j * T \in Nat /\ j * T + T <= i * T
  BY <1>1, Times DEF top
<1>3. \A j \in Nat : Place(j) = j * T
  BY DEF Place, T
<1>4. \A b \in 0 .. B - 1 : (n + 1) * T + b \in Memory
  BY <1>1, <1>2
<1>5. i * T + o \in Memory /\ i * T + o < (n + 1) * T
  BY <1>1, <1>2
<1>6. n + 1 \in Nat
  OBVIOUS
<1> QED BY <1>2, <1>3, <1>4, <1>5, <1>6 DEF B, T

(***************************************************************************)
(* load_task_img writes the places of the program and of the buffer only.  *)
(***************************************************************************)
LEMMA OthersKept ==
  ASSUME ImageInv, NEW i \in Nat, i < Len(taskinfo),
         NEW j \in Nat, j < i, NEW o \in 0 .. TASK_SIZE - 1
  PROVE  load_task_img(i)[Place(j) + o] = memory[Place(j) + o]
<1> DEFINE t == taskinfo[i + 1]
           buffer == (Len(taskinfo) + 1) * TASK_SIZE
           block == NBYTES2SEC(t.begin) - 1
           last == NBYTES2SEC(t.end - 1) - 1
           read == Copied(memory, buffer, Sectors(block, last - block + 1))
           prog == [k \in 1 .. t.end - t.begin |-> read[buffer + InBuffer(t.begin) + k - 1]]
           x == Place(j) + o
<1>1. /\ Len(taskinfo) \in Nat /\ Len(taskinfo) <= TaskNum
      /\ t.begin \in Nat /\ t.end \in Nat /\ TASK_SIZE \in Nat
  <2>1. taskinfo \in Seq(Entry) /\ Len(taskinfo) <= TaskNum
    BY DEF ImageInv
  <2>2. Len(taskinfo) \in Nat /\ t \in Entry
    BY <2>1
  <2>3. t.begin \in Nat /\ t.end \in Nat
    BY <2>2, EntryHas
  <2> QED BY <2>1, <2>2, <2>3, ImageAssumption
<1>2. /\ x \in Memory /\ x \in Nat /\ x < buffer
      /\ Place(i) \in Nat /\ x < Place(i) /\ buffer \in Nat
  <2>1. /\ Place(j) \in Nat /\ Place(Len(taskinfo) + 1) \in Nat
        /\ x \in Memory /\ x < Place(Len(taskinfo) + 1)
    BY <1>1, PlacesApart
  <2>2. Place(i) \in Nat /\ Place(j) + TASK_SIZE <= Place(i)
    BY <1>1, PlacesApart
  <2>3. o \in Nat /\ o < TASK_SIZE
    BY <1>1
  <2> QED BY <1>1, <2>1, <2>2, <2>3 DEF Place
<1>3. load_task_img(i) = Copied(read, Place(i), prog)
  BY DEF load_task_img, Place
<1>4. x - Place(i) + 1 \notin DOMAIN prog
  BY <1>1, <1>2
<1>5. x - buffer + 1 \notin DOMAIN Sectors(block, last - block + 1)
  BY <1>2 DEF Sectors
<1> HIDE DEF prog, buffer, block, last, x
<1>6. read[x] = memory[x]
  BY <1>2, <1>5 DEF Copied
<1> HIDE DEF read
<1>7. Copied(read, Place(i), prog)[x] = read[x]
  BY <1>2, <1>4 DEF Copied
<1> QED BY <1>3, <1>6, <1>7 DEF x

(***************************************************************************)
(* A program that begins inside a sector and does not end with the first   *)
(* byte of one is brought whole.                                           *)
(***************************************************************************)
LEMMA InnerLoaded ==
  ASSUME ImageInv, NEW i \in Nat, i < Len(taskinfo),
         taskinfo[i + 1].begin % SECTOR_SIZE # 0,
         (taskinfo[i + 1].end - 1) % SECTOR_SIZE # 0,
         NEW o \in 0 .. taskinfo[i + 1].end - taskinfo[i + 1].begin - 1
  PROVE  load_task_img(i)[Place(i) + o] = taskinfo[i + 1].begin + o
<1> DEFINE t == taskinfo[i + 1]
           W == SECTOR_SIZE
           begin == t.begin
           end == t.end
           buffer == (Len(taskinfo) + 1) * TASK_SIZE
           block == NBYTES2SEC(t.begin) - 1
           last == NBYTES2SEC(t.end - 1) - 1
           secs == Sectors(block, last - block + 1)
           read == Copied(memory, buffer, secs)
           off == InBuffer(t.begin)
           prog == [k \in 1 .. t.end - t.begin |-> read[buffer + off + k - 1]]
<1>1. /\ i + 1 \in DOMAIN taskinfo /\ Len(taskinfo) \in Nat /\ Len(taskinfo) <= TaskNum
      /\ begin \in Nat /\ end \in Nat /\ begin < end /\ end <= begin + TASK_SIZE
      /\ end <= phyaddr /\ phyaddr \in Nat
      /\ W \in Nat /\ W > 0 /\ TASK_SIZE \in Nat
  <2>1. taskinfo \in Seq(Entry) /\ i + 1 \in 1 .. Len(taskinfo)
    BY DEF ImageInv
  <2>2. i + 1 \in DOMAIN taskinfo /\ taskinfo[i + 1] \in Entry
    BY <2>1
  <2>3. begin \in Nat /\ end \in Nat /\ begin < end /\ end <= begin + TASK_SIZE
    BY <2>2, EntryHas
  <2>4. Len(taskinfo) \in Nat /\ Len(taskinfo) <= TaskNum /\ end <= phyaddr /\ phyaddr \in Nat
    <3>1. /\ \A k \in DOMAIN taskinfo : taskinfo[k].end <= phyaddr
          /\ phyaddr \in Nat /\ Len(taskinfo) <= TaskNum
      BY DEF ImageInv
    <3> QED BY <2>1, <2>2, <3>1
  <2>5. W \in Nat /\ W > 0 /\ TASK_SIZE \in Nat
    BY ImageAssumption
  <2> QED BY <2>2, <2>3, <2>4, <2>5
<1>2. /\ o \in Nat /\ begin + o \in Nat /\ begin + o < end
      /\ o \in 0 .. TASK_SIZE - 1 /\ end - 1 \in Nat
  <2>1. o \in 0 .. end - begin - 1
    OBVIOUS
  <2> HIDE DEF begin, end
  <2> QED BY <1>1, <2>1
<1>3. load_task_img(i) = Copied(read, Place(i), prog)
  BY DEF load_task_img, Place
<1>4. /\ block \in Nat /\ off \in 0 .. W - 1 /\ begin = block * W + off
      /\ block = begin \div W /\ block * W \in Nat
  <2> DEFINE d == begin \div W
             r == begin % W
  <2>1. /\ NBYTES2SEC(begin) - 1 = d /\ d \in Nat
        /\ r \in 0 .. W - 1 /\ begin = d * W + r
    BY <1>1, SectorParts, SectorsEnough
  <2>2. block = d /\ off = r
    BY <2>1 DEF InBuffer
  <2>3. d * W \in Nat
    BY <1>1, <2>1, Times
  <2> HIDE DEF d, r, block, off, begin, W
  <2>4. /\ block \in Nat /\ off \in 0 .. W - 1 /\ begin = block * W + off
        /\ block = d /\ block * W \in Nat
    BY <2>1, <2>2, <2>3
  <2> QED BY <2>4 DEF d
<1>5. /\ last \in Nat /\ last * W \in Nat /\ end - 1 < last * W + W
  <2> DEFINE e == end - 1
             r == e % W
  <2>1. /\ e \in Nat /\ NBYTES2SEC(e) - 1 = e \div W /\ e \div W \in Nat
        /\ r \in 0 .. W - 1 /\ e = (e \div W) * W + r
    BY <1>2, SectorParts, SectorsEnough
  <2> HIDE DEF r, e
  <2>2. last = e \div W
    BY <2>1 DEF e
  <2>3. last \in Nat /\ last * W \in Nat /\ e = last * W + r
    BY <1>1, <2>1, <2>2, Times
  <2>4. last \in Nat /\ last * W \in Nat /\ e < last * W + W
    BY <1>1, <2>1, <2>3
  <2> QED BY <2>4 DEF e
<1> HIDE DEF block, last, off, begin, end, buffer, W, t
<1>6. block <= last
  <2> SUFFICES ASSUME last < block PROVE FALSE
    BY <1>4, <1>5
  <2>1. last * W + W <= block * W
    BY <1>1, <1>4, <1>5, Times
  <2> QED BY <1>1, <1>2, <1>4, <1>5, <2>1
<1> DEFINE count == last - block + 1
<1>7. /\ count \in Nat /\ block * W + count * W = last * W + W /\ count * W \in Nat
  <2>1. count \in Nat
    BY <1>4, <1>5, <1>6
  <2>2. (block + count) * W = block * W + count * W /\ count * W \in Nat
    BY <1>1, <1>4, <2>1, Times
  <2>3. block + count = last + 1
    BY <1>4, <1>5
  <2>4. (last + 1) * W = last * W + W
    BY <1>1, <1>5
  <2> QED BY <2>1, <2>2, <2>3, <2>4
<1>8. off + o + 1 \in 1 .. count * W
  BY <1>1, <1>2, <1>4, <1>5, <1>7
<1>9. /\ block * W + (off + o + 1) - 1 = begin + o
      /\ begin + o < phyaddr
  BY <1>1, <1>2, <1>4
<1>10. /\ DOMAIN secs = 1 .. count * W
       /\ secs[off + o + 1] = begin + o
  <2> HIDE DEF count
  <2>1. secs = Sectors(block, count)
    BY DEF count
  <2>2. /\ DOMAIN secs = 1 .. count * W
        /\ \A k \in 1 .. count * W :
             block * W + k - 1 < phyaddr => secs[k] = block * W + k - 1
    <3>1. /\ DOMAIN Sectors(block, count) = 1 .. count * SECTOR_SIZE
          /\ \A k \in 1 .. count * SECTOR_SIZE :
               block * SECTOR_SIZE + k - 1 < phyaddr =>
                 Sectors(block, count)[k] = block * SECTOR_SIZE + k - 1
      BY <1>4, <1>7, SectorsAt
    <3> QED BY <2>1, <3>1 DEF W
  <2> HIDE DEF secs
  <2> QED BY <1>8, <1>9, <2>2
<1>11. /\ buffer + off + o \in Memory /\ buffer \in Nat
       /\ Place(i) + o \in Memory /\ Place(i) \in Nat
  <2>1. /\ Place(Len(taskinfo) + 1) \in Nat /\ Place(i) \in Nat
        /\ Place(i) + o \in Memory
        /\ \A b \in 0 .. BufferSize - 1 : Place(Len(taskinfo) + 1) + b \in Memory
    BY <1>1, <1>2, PlacesApart
  <2>2. buffer = Place(Len(taskinfo) + 1)
    BY DEF buffer, Place
  <2>3. off + o \in 0 .. BufferSize - 1
    <3>1. BufferSize = TASK_SIZE + 2 * W
      BY DEF BufferSize, W
    <3> QED BY <1>1, <1>2, <1>4, <3>1
  <2>4. buffer + (off + o) = buffer + off + o
    <3>1. buffer \in Nat /\ off \in Nat /\ o \in Nat
      BY <1>2, <1>4, <2>1, <2>2
    <3> QED BY <3>1
  <2> QED BY <2>1, <2>2, <2>3, <2>4
<1>12. (buffer + off + o) - buffer + 1 = off + o + 1
  BY <1>2, <1>4, <1>11
<1> HIDE DEF secs, count
<1>13. read[buffer + off + o] = begin + o
  BY <1>8, <1>10, <1>11, <1>12 DEF Copied
<1> HIDE DEF read
<1>14. o + 1 \in DOMAIN prog /\ prog[o + 1] = begin + o
  <2>1. o + 1 \in 1 .. end - begin
    BY <1>1, <1>2
  <2>2. buffer + off + (o + 1) - 1 = buffer + off + o
    BY <1>2, <1>4, <1>11
  <2> QED BY <1>13, <2>1, <2>2 DEF end, begin
<1>15. (Place(i) + o) - Place(i) + 1 = o + 1
  BY <1>2, <1>11
<1> HIDE DEF prog
<1>16. Copied(read, Place(i), prog)[Place(i) + o] = begin + o
  BY <1>11, <1>14, <1>15 DEF Copied
<1> QED BY <1>3, <1>16 DEF begin, t

-----------------------------------------------------------------------
LEMMA ImageStepInv ==
  ASSUME ImageInv, [ImageStep]_imageVars PROVE ImageInv'
<1>0. /\ phase \in {"boot", "main", "tasks", "load"}
      /\ phyaddr \in Nat /\ main_at \in Nat
      /\ phase = "boot" => phyaddr = 0
      /\ phase = "main" => phyaddr = 2 * SECTOR_SIZE
      /\ phase \in {"tasks", "load"} => main_at = 2 * SECTOR_SIZE /\ KernelPlaced
                                        /\ phyaddr > 0
      /\ phase \in {"boot", "main"} => taskinfo = <<>>
      /\ taskinfo \in Seq(Entry) /\ Len(taskinfo) <= TaskNum
      /\ \A i \in DOMAIN taskinfo : taskinfo[i].end <= phyaddr
      /\ phase = "load" => taskinfo # <<>> /\ kernel = Sectors(2, os_size)
      /\ loaded \in Nat /\ loaded <= Len(taskinfo)
      /\ phase # "load" => loaded = 0
      /\ InnerProgramsLoaded
      /\ SECTOR_SIZE \in Nat /\ SECTOR_SIZE > 0
  BY ImageAssumption DEF ImageInv
<1>1. ASSUME NEW size \in BootSizes, WriteBoot(size) PROVE ImageInv'
  <2>1. /\ phase = "boot" /\ phase' = "main"
        /\ phyaddr' = write_padding(phyaddr + size, 2 * SECTOR_SIZE)
        /\ UNCHANGED <<taskinfo, os_size, main_at, kernel, memory, loaded>>
    BY <1>1 DEF WriteBoot
  <2>2. size \in Nat /\ size <= 2 * SECTOR_SIZE
    BY ImageAssumption
  <2>3. phyaddr' = 2 * SECTOR_SIZE /\ phyaddr' \in Nat
    BY <1>0, <2>1, <2>2 DEF write_padding
  <2>4. DOMAIN taskinfo = {}
    BY <1>0, <2>1
  <2> QED BY <1>0, <2>1, <2>3, <2>4 DEF ImageInv, InnerProgramsLoaded
<1>2. ASSUME NEW size \in KernelSizes, WriteMain(size) PROVE ImageInv'
  <2>1. /\ phase = "main" /\ phase' = "tasks"
        /\ phyaddr' = phyaddr + size
        /\ os_size' = NBYTES2SEC(size)
        /\ main_at' = phyaddr
        /\ UNCHANGED <<taskinfo, kernel, memory, loaded>>
    BY <1>2 DEF WriteMain
  <2>2. size \in Nat /\ phyaddr' \in Nat /\ phyaddr' > 0
    BY <1>0, <2>1, ImageAssumption
  <2>3. KernelPlaced'
    BY <1>0, <2>1 DEF KernelPlaced, NBYTES2SEC
  <2>4. DOMAIN taskinfo = {}
    BY <1>0, <2>1
  <2> QED BY <1>0, <2>1, <2>2, <2>3, <2>4 DEF ImageInv, InnerProgramsLoaded
<1>3. ASSUME NEW size \in ProgramSizes, WriteTask(size) PROVE ImageInv'
  <2> DEFINE t == [begin |-> phyaddr, end |-> phyaddr + size]
  <2>1. /\ phase = "tasks" /\ Len(taskinfo) < TaskNum
        /\ taskinfo' = Append(taskinfo, t)
        /\ phyaddr' = phyaddr + size
        /\ UNCHANGED <<phase, os_size, main_at, kernel, memory, loaded>>
    BY <1>3 DEF WriteTask
  <2>2. /\ size \in Nat /\ size > 0 /\ size <= TASK_SIZE /\ TASK_SIZE \in Nat
        /\ TaskNum \in Nat
    BY ImageAssumption
  <2>3. t \in Entry /\ t.end = phyaddr' /\ t.begin = phyaddr
        /\ phyaddr' \in Nat /\ phyaddr' > 0 /\ phyaddr <= phyaddr'
    BY <1>0, <2>1, <2>2 DEF Entry
  <2> HIDE DEF t
  <2>4. /\ taskinfo' \in Seq(Entry) /\ Len(taskinfo') = Len(taskinfo) + 1
        /\ Len(taskinfo) \in Nat /\ taskinfo' # <<>>
        /\ taskinfo'[Len(taskinfo) + 1] = t
        /\ DOMAIN taskinfo = 1 .. Len(taskinfo)
        /\ DOMAIN taskinfo' = 1 .. (Len(taskinfo) + 1)
        /\ \A i \in 1 .. Len(taskinfo) : taskinfo'[i] = taskinfo[i]
    BY <1>0, <2>1, <2>3
  <2>5. \A i \in DOMAIN taskinfo' : taskinfo'[i].end <= phyaddr'
    <3> SUFFICES ASSUME NEW i \in DOMAIN taskinfo' PROVE taskinfo'[i].end <= phyaddr'
      OBVIOUS
    <3>1. CASE i = Len(taskinfo) + 1
      BY <2>3, <2>4, <3>1
    <3>2. CASE i # Len(taskinfo) + 1
      <4>1. i \in 1 .. Len(taskinfo) /\ taskinfo[i] \in Entry
        BY <1>0, <2>4, <3>2
      <4>2. taskinfo'[i].end = taskinfo[i].end /\ taskinfo[i].end \in Nat
            /\ taskinfo[i].end <= phyaddr
        BY <1>0, <2>4, <4>1 DEF Entry
      <4> QED BY <1>0, <2>3, <4>2
    <3> QED BY <3>1, <3>2
  <2>6. KernelPlaced'
    <3>1. PICK n \in KernelSizes :
            /\ os_size = NBYTES2SEC(n)
            /\ taskinfo = <<>> => phyaddr = main_at + n
            /\ taskinfo # <<>> => taskinfo[1].begin = main_at + n
      BY <1>0, <2>1 DEF KernelPlaced
    <3>2. taskinfo'[1].begin = main_at + n
      <4>1. CASE taskinfo = <<>>
        <5>1. taskinfo'[1] = t
          BY <2>4, <4>1
        <5> QED BY <2>3, <3>1, <4>1, <5>1
      <4>2. CASE taskinfo # <<>>
        <5>1. 1 \in 1 .. Len(taskinfo)
          BY <1>0, <4>2
        <5> QED BY <2>4, <3>1, <4>2, <5>1
      <4> QED BY <4>1, <4>2
    <3>3. os_size' = NBYTES2SEC(n)' /\ taskinfo'[1].begin = main_at' + n
      BY <2>1, <3>1, <3>2 DEF NBYTES2SEC
    <3> QED BY <2>4, <3>3 DEF KernelPlaced
  <2>7. InnerProgramsLoaded'
    BY <1>0, <2>1 DEF InnerProgramsLoaded
  <2>8. Len(taskinfo') <= TaskNum
    BY <2>1, <2>2, <2>4
  <2> QED BY <1>0, <2>1, <2>3, <2>4, <2>5, <2>6, <2>7, <2>8 DEF ImageInv
<1>4. ASSUME Boot PROVE ImageInv'
  <2>1. /\ phase = "tasks" /\ taskinfo # <<>> /\ phase' = "load"
        /\ kernel' = Sectors(2, os_size)
        /\ UNCHANGED <<phyaddr, taskinfo, os_size, main_at, memory, loaded>>
    BY <1>4 DEF Boot
  <2>2. KernelPlaced'
    BY <1>0, <2>1 DEF KernelPlaced, NBYTES2SEC
  <2>3. kernel' = Sectors(2, os_size)'
    BY <2>1 DEF Sectors
  <2>4. InnerProgramsLoaded'
    BY <1>0, <2>1 DEF InnerProgramsLoaded
  <2> QED BY <1>0, <2>1, <2>2, <2>3, <2>4 DEF ImageInv
<1>5. ASSUME LoadTask PROVE ImageInv'
  <2>1. /\ phase = "load" /\ loaded < Len(taskinfo)
        /\ memory' = load_task_img(loaded)
        /\ loaded' = loaded + 1
        /\ UNCHANGED <<phase, phyaddr, taskinfo, os_size, main_at, kernel>>
    BY <1>5 DEF LoadTask
  <2>2. KernelPlaced'
    BY <1>0, <2>1 DEF KernelPlaced, NBYTES2SEC
  <2>3. Sectors(2, os_size)' = Sectors(2, os_size)
    BY <2>1 DEF Sectors
  <2>4. InnerProgramsLoaded'
    <3> SUFFICES ASSUME NEW i \in 0 .. loaded,
                        taskinfo[i + 1].begin % SECTOR_SIZE # 0,
                        (taskinfo[i + 1].end - 1) % SECTOR_SIZE # 0,
                        NEW o \in 0 .. taskinfo[i + 1].end - taskinfo[i + 1].begin - 1
                 PROVE  memory'[i * TASK_SIZE + o] = taskinfo[i + 1].begin + o
      <4>1. loaded' - 1 = loaded
        BY <1>0, <2>1
      <4> QED BY <2>1, <4>1 DEF InnerProgramsLoaded, Intact
    <3>1. i \in Nat /\ loaded \in Nat /\ loaded < Len(taskinfo) /\ Len(taskinfo) \in Nat
      BY <1>0, <2>1
    <3>2. CASE i = loaded
      BY <2>1, <3>1, <3>2, InnerLoaded DEF Place
    <3>3. CASE i # loaded
      <4>1. i < loaded /\ i \in 0 .. loaded - 1
        BY <3>1, <3>3
      <4>2. memory[i * TASK_SIZE + o] = taskinfo[i + 1].begin + o
        BY <1>0, <4>1 DEF InnerProgramsLoaded, Intact
      <4>3. o \in 0 .. TASK_SIZE - 1
        <5>1. i + 1 \in 1 .. Len(taskinfo)
          BY <3>1, <4>1
        <5>2. taskinfo[i + 1] \in Entry
          BY <1>0, <5>1
        <5> QED BY <5>2, ImageAssumption DEF Entry
      <4>4. load_task_img(loaded)[Place(i) + o] = memory[Place(i) + o]
        BY <3>1, <4>1, <4>3, OthersKept
      <4> QED BY <2>1, <4>2, <4>4 DEF Place
    <3> QED BY <3>2, <3>3
  <2>5. loaded' \in Nat /\ loaded' <= Len(taskinfo)
    BY <1>0, <2>1
  <2> QED BY <1>0, <2>1, <2>2, <2>3, <2>4, <2>5 DEF ImageInv
<1>6. CASE UNCHANGED imageVars
  <2>1. /\ UNCHANGED <<phase, phyaddr, taskinfo, os_size, main_at>>
        /\ UNCHANGED <<kernel, memory, loaded>>
    BY <1>6 DEF imageVars
  <2>2. Sectors(2, os_size)' = Sectors(2, os_size)
    BY <2>1 DEF Sectors
  <2>3. KernelPlaced' = KernelPlaced
    BY <2>1 DEF KernelPlaced, NBYTES2SEC
  <2>4. InnerProgramsLoaded'
    BY <1>0, <2>1 DEF InnerProgramsLoaded, Intact
  <2> QED BY <1>0, <2>1, <2>2, <2>3, <2>4 DEF ImageInv
<1> QED BY <1>1, <1>2, <1>3, <1>4, <1>5, <1>6 DEF ImageStep

(***************************************************************************)
(* For any sizes: the addresses in the image, the table of programs and    *)
(* what has been read so far agree (createimage.c, the boot block,         *)
(* loader.c).                                                              *)
(***************************************************************************)
THEOREM ImageInvariant == ImageSpec => []ImageInv
<1> QED BY ImageInitInv, ImageStepInv, PTL DEF ImageSpec

\* The boot block reads the kernel from sector 2: with the padding that
\* createimage writes, all of it and from its first byte.
THEOREM ImageKernelLoaded == ImageSpec => []KernelLoaded
<1> QED BY ImageInvariant, KernelIsThere, PTL

\* load_task_img brings every program that neither begins a sector nor ends
\* with the first byte of one, and keeps those loaded before.
THEOREM ImageProgramsLoaded == ImageSpec => []InnerProgramsLoaded
<1>1. ImageInv => InnerProgramsLoaded
  BY DEF ImageInv
<1> QED BY <1>1, ImageInvariant, PTL

=======================================================================
