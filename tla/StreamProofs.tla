------------------------- MODULE StreamProofs -------------------------
(***************************************************************************)
(* Theorems about the streams of tools/deflate, for any plan of blocks,    *)
(* any buffers and any symbols that arrive, on builds of both word sizes:  *)
(* neither end writes outside its buffer, the decompressor reads nothing   *)
(* outside its input, and it decides on no bit that it does not hold; and  *)
(* a block takes the bits it was chosen for, so that a buffer of the bound *)
(* has room for every input.                                               *)
(***************************************************************************)
EXTENDS Stream, QueuesProofs

\* It has read nothing outside the input and decided on no bit it does not hold.
ReaderFields == {"next", "left", "over", "held", "past", "short"}

Reader(b) ==
  /\ b = [f \in ReaderFields |-> b[f]]
  /\ b.next \in Nat /\ b.left \in Nat /\ b.over \in Nat /\ b.held \in Nat
  /\ b.past = FALSE /\ b.short = FALSE

\* The bits in the word are bits of the input and zeroes after its end.
Honest(b) ==
  /\ Reader(b)
  /\ b.left <= b.held /\ b.left <= MAX_BITSLEFT
  /\ b.next <= given /\ b.left <= 8 * (b.next + b.over)

\* At most k bits have been consumed since in_next was found to be inside the
\* part of the input on which the fastloop may run.
Near(b, k) ==
  /\ given > FASTLOOP_MAX_BYTES_READ
  /\ 8 * b.next - b.left <= 8 * (in_fastloop_end - 1) + k

\* In the fastloop the word may hold a bit more than are counted.
Fast(b, k) == Honest(b) /\ Near(b, k) /\ b.left + PRELOAD_SLACK <= b.held

\* At the start of a turn of the fastloop, after x extra literals.
FastloopAt(b, o, x) ==
  /\ x \in 0..2 /\ (x > 0 => RoomForExtras)
  /\ Fast(b, LITLEN_TABLEBITS * x)
  /\ b.left >= CONSUMABLE_NBITS - LITLEN_TABLEBITS * x
  /\ b.held >= FASTLOOP_PRELOADABLE_NBITS - LITLEN_TABLEBITS * x
  /\ space > FASTLOOP_MAX_BYTES_WRITTEN
  /\ o.next < out_fastloop_end + x

InTypes ==
  /\ pc \in {"idle", "stopped", "next_block", "prelens", "first_len", "lens",
             "have_decode_tables", "fastloop", "generic_loop"}
  /\ given \in Nat /\ space \in Nat /\ final \in BOOLEAN
  /\ out.next \in Nat
  /\ d \in [loaded : BOOLEAN, tables : {"none", "static", "dynamic", "precode"}]
  /\ source \in Seq(SymbolSet)

\* The tables are those of the block from the moment they are built.
TablesOwn ==
  /\ pc \in {"have_decode_tables", "fastloop", "generic_loop"} => d.tables = type
  /\ pc \in {"prelens", "first_len", "lens"} => type = "dynamic" /\ ~d.loaded
  /\ d.loaded => d.tables = "static"

InInv ==
  /\ InTypes
  /\ TablesOwn
  /\ Honest(bits)
  /\ out.past = FALSE /\ out.next <= space
  /\ pc = "prelens" => bits.left >= CONSUMABLE_NBITS - 3
  /\ pc = "fastloop" => FastloopAt(bits, out, extras)

\* What may be added before a FLUSH_BITS.
Fitting == {n \in Nat : CAN_BUFFER(n)}

OutTypes ==
  /\ build \in Builds /\ in_nbytes \in Nat /\ result \in Int
  /\ plan \in Seq(Blocks) /\ todo \in Seq(Fitting) /\ sent \in Seq(SymbolSet)
  /\ os \in [next : Nat, bitcount : 0..7, end : Int, avail : Nat, touched : Nat, peak : Nat]

OutInv ==
  /\ OutTypes
  /\ os.touched <= os.avail /\ os.peak <= 8 * build.word - 1
  /\ result = NotYet => /\ os.end = os.avail - END_PADDING
                        /\ os.avail > END_PADDING => os.next <= os.end
  /\ todo # <<>> => os.avail > END_PADDING /\ sent # <<>> /\ result = NotYet

\* The inductive invariant.
StreamInv == OutInv /\ InInv /\ (from # "none" => result # NotYet)

-----------------------------------------------------------------------
(***************************************************************************)
(* The sizes, on each build, and the bits of a word.                       *)
(***************************************************************************)
LEMMA Sizes ==
  ASSUME build \in Builds
  PROVE  /\ W \in {4, 8} /\ build.fast \in BOOLEAN
         /\ MAX_BITSLEFT = IF build.fast THEN 8 * W - 1 ELSE 8 * W
         /\ CONSUMABLE_NBITS = IF build.fast THEN 8 * W - 8 ELSE 8 * W - 7
         /\ FASTLOOP_PRELOADABLE_NBITS = IF build.fast THEN 8 * W ELSE 8 * W - 7
         /\ PRELOAD_SLACK = IF build.fast THEN 1 ELSE 0
         /\ FASTLOOP_MAX_BYTES_READ = IF W = 8 THEN 25 ELSE 17
         /\ FASTLOOP_MAX_BYTES_WRITTEN = 259 + 5 * W
         /\ RoomForExtras <=> W = 8
         /\ LITLEN_TABLEBITS = 11 /\ OFFSET_TABLEBITS = 8
<1>1. W \in {4, 8} /\ build.fast \in BOOLEAN
  BY StreamAssumption DEF W
<1>2. /\ LITLEN_TABLEBITS = 11 /\ OFFSET_TABLEBITS = 8
      /\ LENGTH_MAXBITS = 20 /\ OFFSET_MAXBITS = 28
  BY DEF LITLEN_TABLEBITS, OFFSET_TABLEBITS, LENGTH_MAXBITS, OFFSET_MAXBITS
<1>3. /\ MAX_BITSLEFT = IF build.fast THEN 8 * W - 1 ELSE 8 * W
      /\ CONSUMABLE_NBITS = IF build.fast THEN 8 * W - 8 ELSE 8 * W - 7
      /\ FASTLOOP_PRELOADABLE_NBITS = IF build.fast THEN 8 * W ELSE 8 * W - 7
  BY <1>1 DEF MAX_BITSLEFT, CONSUMABLE_NBITS, FASTLOOP_PRELOADABLE_NBITS
<1>4. PRELOAD_SLACK = IF build.fast THEN 1 ELSE 0
  BY <1>1, <1>3 DEF PRELOAD_SLACK, Most
<1>5. FASTLOOP_MAX_BYTES_READ = IF W = 8 THEN 25 ELSE 17
  BY <1>1, <1>2, <1>3 DEF FASTLOOP_MAX_BYTES_READ, UpTo
<1>6. FASTLOOP_MAX_BYTES_WRITTEN = 259 + 5 * W
  BY <1>1 DEF FASTLOOP_MAX_BYTES_WRITTEN
<1>7. RoomForExtras <=> W = 8
  BY <1>1, <1>2, <1>3 DEF RoomForExtras, CAN_CONSUME_AND_THEN_PRELOAD
<1> QED BY <1>1, <1>2, <1>3, <1>4, <1>5, <1>6, <1>7

\* What CAN_CONSUME and CAN_CONSUME_AND_THEN_PRELOAD say on each build.
LEMMA Consumable ==
  ASSUME build \in Builds
  PROVE  /\ CAN_CONSUME(3 * 18) <=> W = 8
         /\ CAN_CONSUME(LENGTH_MAXBITS + OFFSET_MAXBITS) <=> W = 8
         /\ CAN_CONSUME(OFFSET_MAXBITS) <=> W = 8
         /\ CAN_CONSUME_AND_THEN_PRELOAD(15, LITLEN_TABLEBITS) /\
            CAN_CONSUME_AND_THEN_PRELOAD(LENGTH_MAXBITS, OFFSET_TABLEBITS)
              <=> W = 8 \/ build.fast
         /\ CAN_CONSUME_AND_THEN_PRELOAD(OFFSET_MAXBITS, LITLEN_TABLEBITS) <=> W = 8
         /\ CAN_CONSUME_AND_THEN_PRELOAD(
              Most(OFFSET_MAXBITS - OFFSET_TABLEBITS, OFFSET_MAXFASTBITS), LITLEN_TABLEBITS)
              <=> W = 8 \/ build.fast
<1>1. /\ OFFSET_MAXFASTBITS = 21 /\ LENGTH_MAXBITS = 20 /\ OFFSET_MAXBITS = 28
      /\ Most(OFFSET_MAXBITS - OFFSET_TABLEBITS, OFFSET_MAXFASTBITS) = 21
  BY DEF OFFSET_MAXFASTBITS, LENGTH_MAXBITS, OFFSET_MAXBITS, OFFSET_TABLEBITS, Most
<1> QED BY <1>1, Sizes DEF CAN_CONSUME, CAN_CONSUME_AND_THEN_PRELOAD

LEMMA UpToIs ==
  ASSUME NEW n \in Nat
  PROVE  UpTo(n, 8) \in Nat /\ n <= 8 * UpTo(n, 8) /\ 8 * UpTo(n, 8) <= n + 7
BY DEF UpTo

LEMMA DivMod ==
  ASSUME NEW n \in Nat
  PROVE  n \div 8 \in Nat /\ n % 8 \in 0..7 /\ n = 8 * (n \div 8) + (n % 8)
OBVIOUS

\* Bits that are held are consumed.
LEMMA ConsumeIs ==
  ASSUME NEW b, Honest(b), NEW n \in Nat, n <= b.left, build \in Builds
  PROVE  LET c == Consume(b, n) IN
         /\ Honest(c)
         /\ c.next = b.next /\ c.over = b.over /\ c.left = b.left - n /\ c.held = b.held - n
<1> DEFINE c == Consume(b, n)
<1>1. /\ Reader(b) /\ b.left <= b.held /\ b.left <= MAX_BITSLEFT
      /\ b.next <= given /\ b.left <= 8 * (b.next + b.over)
  BY DEF Honest
<1>2. DOMAIN b = ReaderFields /\ c = [f \in ReaderFields |-> c[f]]
  BY <1>1 DEF Consume, Reader, ReaderFields
<1>3. c.next = b.next /\ c.over = b.over /\ c.past = FALSE
  BY <1>1, <1>2 DEF Consume, Reader, ReaderFields
<1>4. c.left = b.left - n
  BY <1>1, <1>2 DEF Consume, Reader, ReaderFields
<1>5. c.held = b.held - n
  BY <1>1, <1>2 DEF Consume, Reader, ReaderFields
<1>6. c.short = FALSE
  <2>1. c.short = (b.short \/ n > b.left)
    BY <1>1, <1>2 DEF Consume, Reader, ReaderFields
  <2>2. ~(n > b.left)
    BY <1>1 DEF Reader
  <2> QED BY <1>1, <2>1, <2>2 DEF Reader
<1> HIDE DEF c
<1>7. MAX_BITSLEFT \in Nat
  BY Sizes
<1>8. Reader(c)
  BY <1>1, <1>2, <1>3, <1>4, <1>5, <1>6 DEF Reader
<1>9. Honest(c)
  BY <1>1, <1>3, <1>4, <1>5, <1>7, <1>8 DEF Honest, Reader
<1> QED BY <1>3, <1>4, <1>5, <1>9 DEF c

\* Looking at bits that are held leaves everything as it is.
LEMMA PreloadIs ==
  ASSUME NEW b, Honest(b), NEW n \in Nat, n <= b.held
  PROVE  LET c == Preload(b, n) IN
         /\ Honest(c)
         /\ c.next = b.next /\ c.over = b.over /\ c.left = b.left /\ c.held = b.held
<1> DEFINE c == Preload(b, n)
<1>1. /\ Reader(b) /\ b.left <= b.held /\ b.left <= MAX_BITSLEFT
      /\ b.next <= given /\ b.left <= 8 * (b.next + b.over)
  BY DEF Honest
<1>2. DOMAIN b = ReaderFields /\ c = [f \in ReaderFields |-> c[f]]
  BY <1>1 DEF Preload, Reader, ReaderFields
<1>3. c.next = b.next /\ c.over = b.over /\ c.past = FALSE /\ c.left = b.left /\ c.held = b.held
  BY <1>1, <1>2 DEF Preload, Reader, ReaderFields
<1>4. c.short = FALSE
  <2>1. c.short = (b.short \/ n > b.held)
    BY <1>1, <1>2 DEF Preload, Reader, ReaderFields
  <2>2. ~(n > b.held)
    BY <1>1 DEF Reader
  <2> QED BY <1>1, <2>1, <2>2 DEF Reader
<1> HIDE DEF c
<1>5. Reader(c)
  BY <1>1, <1>2, <1>3, <1>4 DEF Reader
<1>6. Honest(c)
  BY <1>1, <1>3, <1>5 DEF Honest, Reader
<1> QED BY <1>3, <1>6 DEF c

\* Byte by byte, up to an end that may be far.
LEMMA RefillBytesIs ==
  ASSUME NEW b, Honest(b), NEW end \in Nat, b.next <= end, end <= given,
         build \in Builds, given \in Nat
  PROVE  LET r == RefillBytes(b, end) IN
         /\ Honest(r) /\ r.left = r.held /\ r.left >= CONSUMABLE_NBITS
         /\ end - b.next >= W => 8 * r.next - r.left = 8 * b.next - b.left
<1> DEFINE m == IF b.left < CONSUMABLE_NBITS THEN UpTo(CONSUMABLE_NBITS - b.left, 8) ELSE 0
           real == Least(m, end - b.next)
           r == RefillBytes(b, end)
<1>1. /\ Reader(b) /\ b.left <= b.held /\ b.left <= MAX_BITSLEFT
      /\ b.next <= given /\ b.left <= 8 * (b.next + b.over)
  BY DEF Honest
<1>2. /\ m \in Nat /\ b.left + 8 * m >= CONSUMABLE_NBITS /\ b.left + 8 * m <= MAX_BITSLEFT
      /\ m <= W
  <2>1. CASE b.left < CONSUMABLE_NBITS
    <3>1. CONSUMABLE_NBITS - b.left \in Nat
      BY <1>1, <2>1, Sizes DEF Reader
    <3>2. m = UpTo(CONSUMABLE_NBITS - b.left, 8)
      BY <2>1
    <3> HIDE DEF m
    <3>3. /\ m \in Nat /\ CONSUMABLE_NBITS - b.left <= 8 * m
          /\ 8 * m <= CONSUMABLE_NBITS - b.left + 7
      BY <3>1, <3>2, UpToIs
    <3> QED BY <1>1, <3>3, Sizes DEF Reader
  <2>2. CASE ~(b.left < CONSUMABLE_NBITS)
    <3>1. m = 0
      BY <2>2
    <3> QED BY <1>1, <2>2, <3>1, Sizes DEF Reader
  <2> QED BY <2>1, <2>2
<1> HIDE DEF m
<1>3. /\ real \in Nat /\ real <= m /\ b.next + real <= end
      /\ end - b.next >= W => real = m
  BY <1>1, <1>2, Sizes DEF Least, Reader
<1>4. r = [b EXCEPT !.next = @ + real, !.past = @ \/ b.next + real > given,
                    !.over = @ + m - real, !.left = @ + 8 * m, !.held = b.left + 8 * m]
  BY DEF RefillBytes, m
<1> HIDE DEF real, r
<1>5. DOMAIN b = ReaderFields /\ r = [f \in ReaderFields |-> r[f]]
  BY <1>1, <1>4 DEF Reader, ReaderFields
<1>6. r.next = b.next + real
  BY <1>1, <1>4, <1>5 DEF Reader, ReaderFields
<1>7. r.over = b.over + m - real /\ r.short = FALSE
  BY <1>1, <1>4, <1>5 DEF Reader, ReaderFields
<1>8. r.left = b.left + 8 * m
  BY <1>1, <1>4, <1>5 DEF Reader, ReaderFields
<1>9. r.held = b.left + 8 * m
  BY <1>1, <1>4, <1>5 DEF Reader, ReaderFields
<1>10. r.past = FALSE
  <2>1. r.past = (b.past \/ b.next + real > given)
    BY <1>1, <1>4, <1>5 DEF Reader, ReaderFields
  <2>2. ~(b.next + real > given)
    BY <1>1, <1>3 DEF Reader
  <2> QED BY <1>1, <2>1, <2>2 DEF Reader
<1>11. Reader(r)
  BY <1>1, <1>2, <1>3, <1>5, <1>6, <1>7, <1>8, <1>9, <1>10 DEF Reader
<1>12. Honest(r)
  BY <1>1, <1>2, <1>3, <1>6, <1>7, <1>8, <1>9, <1>11 DEF Honest, Reader
<1>13. r.left = r.held /\ r.left >= CONSUMABLE_NBITS
  BY <1>2, <1>8, <1>9
<1>14. end - b.next >= W => 8 * r.next - r.left = 8 * b.next - b.left
  BY <1>1, <1>2, <1>3, <1>6, <1>8 DEF Reader
<1> QED BY <1>12, <1>13, <1>14 DEF r

\* A word at a time: the bits that do not count are the ones that come next.
LEMMA BranchlessIs ==
  ASSUME NEW b, Honest(b), b.next + W <= given, build \in Builds, build.fast, given \in Nat
  PROVE  LET r == REFILL_BITS_BRANCHLESS(b) IN
         /\ Honest(r) /\ r.held = 8 * W /\ r.left >= CONSUMABLE_NBITS
         /\ 8 * r.next - r.left = 8 * b.next - b.left
<1> DEFINE r == REFILL_BITS_BRANCHLESS(b)
           q == b.left \div 8
           m == b.left % 8
<1>1. /\ Reader(b) /\ b.left <= b.held /\ b.left <= MAX_BITSLEFT
      /\ b.next <= given /\ b.left <= 8 * (b.next + b.over)
  BY DEF Honest
<1>2. /\ W \in {4, 8} /\ MAX_BITSLEFT = 8 * W - 1 /\ CONSUMABLE_NBITS = 8 * W - 8
  BY Sizes
<1>3. q \in Nat /\ m \in 0..7 /\ b.left = 8 * q + m /\ q <= W - 1
  <2>1. b.left \in Nat /\ b.left < 8 * W
    BY <1>1, <1>2 DEF Reader
  <2>2. q \in Nat /\ m \in 0..7 /\ b.left = 8 * q + m
    BY <2>1, DivMod
  <2> HIDE DEF q, m
  <2> QED BY <1>2, <2>1, <2>2
<1>4. r = [b EXCEPT !.past = @ \/ b.next + W > given, !.next = @ + W - 1 - q,
                    !.left = 8 * (W - 1) + (b.left % 8), !.held = 8 * W]
  BY <1>1 DEF REFILL_BITS_BRANCHLESS, Reader
<1> HIDE DEF q, r
<1>5. DOMAIN b = ReaderFields /\ r = [f \in ReaderFields |-> r[f]]
  BY <1>1, <1>4 DEF Reader, ReaderFields
<1>6. r.next = b.next + W - 1 - q
  BY <1>1, <1>4, <1>5 DEF Reader, ReaderFields
<1>7. r.over = b.over /\ r.held = 8 * W /\ r.short = FALSE
  BY <1>1, <1>4, <1>5 DEF Reader, ReaderFields
<1>8. r.left = 8 * (W - 1) + m
  BY <1>1, <1>4, <1>5 DEF Reader, ReaderFields
<1>9. r.past = FALSE
  <2>1. r.past = (b.past \/ b.next + W > given)
    BY <1>1, <1>4, <1>5 DEF Reader, ReaderFields
  <2>2. ~(b.next + W > given)
    BY <1>1, <1>2 DEF Reader
  <2> QED BY <1>1, <2>1, <2>2 DEF Reader
<1> HIDE DEF m
<1>10. Reader(r)
  BY <1>1, <1>2, <1>3, <1>5, <1>6, <1>7, <1>8, <1>9 DEF Reader
<1>11. Honest(r)
  BY <1>1, <1>2, <1>3, <1>6, <1>7, <1>8, <1>10 DEF Honest, Reader
<1>12. r.left >= CONSUMABLE_NBITS /\ 8 * r.next - r.left = 8 * b.next - b.left
  BY <1>1, <1>2, <1>3, <1>6, <1>8 DEF Reader
<1> QED BY <1>7, <1>11, <1>12 DEF r

\* REFILL_BITS, anywhere in the input.
LEMMA RefillIs ==
  ASSUME NEW b, Honest(b), build \in Builds, given \in Nat
  PROVE  LET r == REFILL_BITS(b) IN Honest(r) /\ r.left >= CONSUMABLE_NBITS
<1> DEFINE p == IF build.fast /\ given - b.next >= W THEN REFILL_BITS_BRANCHLESS(b)
                ELSE RefillBytes(b, given)
           r == REFILL_BITS(b)
<1>1. Reader(b) /\ b.next <= given
  BY DEF Honest
<1>2. Honest(p) /\ p.left >= CONSUMABLE_NBITS
  <2>1. CASE build.fast /\ given - b.next >= W
    <3>1. b.next + W <= given
      BY <1>1, <2>1, Sizes DEF Reader
    <3> QED BY <2>1, <3>1, BranchlessIs
  <2>2. CASE ~(build.fast /\ given - b.next >= W)
    <3>1. Honest(RefillBytes(b, given)) /\ RefillBytes(b, given).left >= CONSUMABLE_NBITS
      BY <1>1, RefillBytesIs DEF Reader
    <3> QED BY <2>2, <3>1
  <2> QED BY <2>1, <2>2
<1>3. r = [p EXCEPT !.held = p.left]
  BY DEF REFILL_BITS
<1> HIDE DEF p, r
<1>4. /\ r.next = p.next /\ r.left = p.left /\ r.over = p.over
      /\ r.past = p.past /\ r.short = p.short /\ r.held = p.left
      /\ r = [f \in ReaderFields |-> r[f]]
  BY <1>2, <1>3 DEF Honest, Reader, ReaderFields
<1> QED BY <1>2, <1>4 DEF Honest, Reader, r

\* In the fastloop the part of the input it leaves alone is enough for a word.
LEMMA FastRefillIs ==
  ASSUME NEW b, NEW k \in 0..80, Honest(b), Near(b, k), build \in Builds, given \in Nat
  PROVE  LET r == REFILL_BITS_IN_FASTLOOP(b) IN
         /\ Fast(r, k) /\ r.left >= CONSUMABLE_NBITS
         /\ r.held >= FASTLOOP_PRELOADABLE_NBITS
<1> DEFINE r == REFILL_BITS_IN_FASTLOOP(b)
<1>1. Honest(b) /\ Near(b, k) /\ Reader(b) /\ b.left <= MAX_BITSLEFT
  BY DEF Honest
<1>2. in_fastloop_end = given - FASTLOOP_MAX_BYTES_READ
  BY <1>1, Sizes DEF in_fastloop_end, Least, Near
<1>3. b.next + W <= given
  BY <1>1, <1>2, Sizes DEF Near, Reader
<1>4. Honest(r) /\ r.left >= CONSUMABLE_NBITS /\ r.left + PRELOAD_SLACK <= r.held
      /\ 8 * r.next - r.left = 8 * b.next - b.left /\ r.held >= FASTLOOP_PRELOADABLE_NBITS
  <2>1. CASE build.fast
    <3>1. r = REFILL_BITS_BRANCHLESS(b)
      BY <2>1 DEF REFILL_BITS_IN_FASTLOOP
    <3> HIDE DEF r
    <3>2. /\ Honest(r) /\ r.held = 8 * W /\ r.left >= CONSUMABLE_NBITS
          /\ 8 * r.next - r.left = 8 * b.next - b.left
      BY <1>1, <1>3, <2>1, <3>1, BranchlessIs
    <3>3. r.left \in Nat /\ r.left <= MAX_BITSLEFT
      BY <3>2 DEF Honest, Reader
    <3> QED BY <2>1, <3>2, <3>3, Sizes
  <2>2. CASE ~build.fast
    <3> DEFINE end == b.next + W
    <3>1. r = RefillBytes(b, end)
      BY <2>2 DEF REFILL_BITS_IN_FASTLOOP
    <3> HIDE DEF r
    <3>2. end \in Nat /\ b.next <= end /\ end - b.next >= W /\ end <= given
      BY <1>1, <1>3, Sizes DEF Reader
    <3> HIDE DEF end
    <3>3. /\ Honest(r) /\ r.left = r.held /\ r.left >= CONSUMABLE_NBITS
          /\ 8 * r.next - r.left = 8 * b.next - b.left
      BY <1>1, <3>1, <3>2, RefillBytesIs
    <3>4. r.left \in Nat
      BY <3>3 DEF Honest, Reader
    <3> QED BY <2>2, <3>3, <3>4, Sizes
  <2> QED BY <2>1, <2>2
<1> HIDE DEF r
<1>5. Near(r, k)
  BY <1>1, <1>4 DEF Near
<1> QED BY <1>4, <1>5 DEF Fast, r

LEMMA FastConsumeIs ==
  ASSUME NEW b, NEW k \in Nat, Fast(b, k), NEW n \in Nat, n <= b.left,
         build \in Builds, given \in Nat
  PROVE  LET c == Consume(b, n) IN
         /\ Fast(c, k + n) /\ c.left = b.left - n /\ c.held = b.held - n /\ c.left \in Nat
<1> DEFINE c == Consume(b, n)
<1>1. Honest(b) /\ Reader(b) /\ Near(b, k) /\ b.left + PRELOAD_SLACK <= b.held
  BY DEF Fast, Honest
<1>2. Honest(c) /\ c.next = b.next /\ c.left = b.left - n /\ c.held = b.held - n
  BY <1>1, ConsumeIs
<1> HIDE DEF c
<1>3. in_fastloop_end = given - FASTLOOP_MAX_BYTES_READ
  BY <1>1, Sizes DEF in_fastloop_end, Least, Near
<1>4. Near(c, k + n)
  BY <1>1, <1>2, <1>3, Sizes DEF Near, Reader
<1>5. c.left + PRELOAD_SLACK <= c.held
  BY <1>1, <1>2, Sizes DEF Reader
<1>6. c.left \in Nat
  BY <1>2 DEF Honest, Reader
<1> QED BY <1>2, <1>4, <1>5, <1>6 DEF Fast, c

LEMMA FastPreloadIs ==
  ASSUME NEW b, NEW k \in Nat, Fast(b, k), NEW n \in Nat, n <= b.held
  PROVE  LET c == Preload(b, n) IN Fast(c, k) /\ c.left = b.left /\ c.held = b.held
<1> DEFINE c == Preload(b, n)
<1>1. Honest(b) /\ Near(b, k) /\ b.left + PRELOAD_SLACK <= b.held
  BY DEF Fast
<1>2. Honest(c) /\ c.next = b.next /\ c.left = b.left /\ c.held = b.held
  BY <1>1, PreloadIs
<1> HIDE DEF c
<1> QED BY <1>1, <1>2 DEF Fast, Near, c

LEMMA RewoundIs ==
  ASSUME NEW b, Honest(b), EndsInside(b), given \in Nat, build \in Builds
  PROVE  LET c == Rewound(b) IN
         Honest(c) /\ c.next \in Nat /\ c.left = 0
<1> DEFINE c == Rewound(b)
           q == b.left \div 8
<1>1. Reader(b) /\ b.next <= given /\ b.left <= 8 * (b.next + b.over) /\ b.over <= q
  BY DEF Honest, EndsInside
<1>2. q \in Nat /\ 8 * q <= b.left
  BY <1>1 DEF Reader
<1>3. c = [b EXCEPT !.next = @ - (q - b.over), !.over = 0, !.left = 0, !.held = 0]
  BY DEF Rewound
<1> HIDE DEF c, q
<1>4. /\ c = [f \in ReaderFields |-> c[f]] /\ c.next = b.next - (q - b.over) /\ c.over = 0
      /\ c.left = 0 /\ c.held = 0 /\ c.past = b.past /\ c.short = b.short
  BY <1>1, <1>3 DEF Reader, ReaderFields
<1>5. c.next \in Nat /\ c.next <= given
  BY <1>1, <1>2, <1>4 DEF Reader
<1>6. MAX_BITSLEFT \in Nat
  BY Sizes
<1> QED BY <1>1, <1>4, <1>5, <1>6 DEF Honest, Reader, c

-----------------------------------------------------------------------
(***************************************************************************)
(* What comes, and what the tables of slots hold.                          *)
(***************************************************************************)
LEMMA LengthSlots ==
  ASSUME NEW s \in 1..29
  PROVE  deflate_extra_length_bits[s] \in 0..5 /\ deflate_length_slot_base[s] \in 3..258
BY DEF deflate_extra_length_bits, deflate_length_slot_base

LEMMA OffsetSlots ==
  ASSUME NEW s \in 1..30
  PROVE  /\ deflate_extra_offset_bits[s] \in 0..13
         /\ deflate_offset_slot_base[s] \in Nat \ {0}
BY DEF deflate_extra_offset_bits, deflate_offset_slot_base

LEMMA SymbolKinds ==
  ASSUME NEW y \in SymbolSet
  PROVE  /\ y.kind \in {"block", "stored", "prelens", "item", "lit", "end", "match"}
         /\ y.kind = "block" => y.type \in {"static", "dynamic"} /\ y.final \in BOOLEAN
         /\ y.kind = "stored" => y.final \in BOOLEAN /\ y.len \in Nat
         /\ y.kind = "prelens" => y.n \in 4..19
         /\ y.kind = "item" => y.bits \in 1..14
         /\ y.kind \in {"lit", "end", "match"} => y.code \in 1..15
         /\ y.kind = "match" =>
              /\ y.slot \in 1..29 /\ y.offcode \in 1..15 /\ y.oslot \in 1..30
              /\ LengthOfMatch(y) \in 3..258 /\ OffsetOf(y) \in Nat \ {0}
<1>1. CASE y \in [kind : {"block"}, type : {"static", "dynamic"}, final : BOOLEAN]
  BY <1>1
<1>2. CASE y \in [kind : {"stored"}, final : BOOLEAN, len : Nat]
  BY <1>2
<1>3. CASE y \in [kind : {"prelens"}, n : 4..19] \cup [kind : {"item"}, bits : 1..14]
  BY <1>3
<1>4. CASE y \in [kind : {"lit", "end"}, code : 1..15]
  BY <1>4
<1>5. CASE y \in {z \in Matches : deflate_length_slot_base[z.slot] + z.extra <= 258}
  <2>1. /\ y.kind = "match" /\ y.code \in 1..15 /\ y.slot \in 1..29 /\ y.extra \in Nat
        /\ y.offcode \in 1..15 /\ y.oslot \in 1..30 /\ y.oextra \in Nat
        /\ deflate_length_slot_base[y.slot] + y.extra <= 258
    BY <1>5 DEF Matches
  <2>2. deflate_length_slot_base[y.slot] \in 3..258 /\ deflate_offset_slot_base[y.oslot] \in Nat \ {0}
    BY <2>1, LengthSlots, OffsetSlots
  <2>3. LengthOfMatch(y) \in 3..258
    <3>1. ASSUME NEW p \in 3..258, NEW q \in Nat, p + q <= 258
          PROVE  p + q \in 3..258
      BY <3>1
    <3> QED BY <2>1, <2>2, <3>1 DEF LengthOfMatch
  <2>4. OffsetOf(y) \in Nat \ {0}
    <3>1. ASSUME NEW p \in Nat \ {0}, NEW q \in Nat
          PROVE  p + q \in Nat \ {0}
      BY <3>1
    <3> QED BY <2>1, <2>2, <3>1 DEF OffsetOf
  <2> QED BY <2>1, <2>3, <2>4
<1> QED BY <1>1, <1>2, <1>3, <1>4, <1>5 DEF SymbolSet

\* What comes is one of the symbols there are, and so is all that comes after it.
LEMMA ComingIs ==
  ASSUME source \in Seq(SymbolSet), NEW kinds, NEW y \in Coming(kinds)
  PROVE  y \in SymbolSet /\ y.kind \in kinds
<1>1. CASE Known
  <2>1. source[1] \in SymbolSet
    BY <1>1 DEF Known
  <2> QED BY <1>1, <2>1 DEF Coming
<1>2. CASE ~Known
  BY <1>2, StreamAssumption DEF Coming
<1> QED BY <1>1, <1>2

LEMMA TakenIs ==
  ASSUME source \in Seq(SymbolSet), Taken
  PROVE  source' \in Seq(SymbolSet)
<1>1. CASE Known
  BY <1>1 DEF Known, Taken
<1>2. CASE ~Known
  BY <1>2 DEF Taken
<1> QED BY <1>1, <1>2

-----------------------------------------------------------------------
(***************************************************************************)
(* The decompressor's steps.                                               *)
(***************************************************************************)
\* What a step that leaves the buffers where they are has to show.
Control == {"idle", "stopped", "next_block", "prelens", "first_len", "lens",
            "have_decode_tables", "fastloop", "generic_loop"}

LEMMA InNext ==
  ASSUME UNCHANGED <<build, given, space>>, given \in Nat, space \in Nat,
         pc' \in Control, final' \in BOOLEAN, source' \in Seq(SymbolSet),
         d' \in [loaded : BOOLEAN, tables : {"none", "static", "dynamic", "precode"}],
         TablesOwn', Honest(bits'),
         out'.next \in Nat, out'.past = FALSE, out'.next <= space,
         pc' = "prelens" => bits'.left >= CONSUMABLE_NBITS - 3,
         pc' = "fastloop" => FastloopAt(bits', out', extras')
  PROVE  InInv'
<1>1. /\ W' = W /\ MAX_BITSLEFT' = MAX_BITSLEFT /\ CONSUMABLE_NBITS' = CONSUMABLE_NBITS
      /\ FASTLOOP_PRELOADABLE_NBITS' = FASTLOOP_PRELOADABLE_NBITS
  BY DEF W, MAX_BITSLEFT, CONSUMABLE_NBITS, FASTLOOP_PRELOADABLE_NBITS
<1>2. /\ PRELOAD_SLACK' = PRELOAD_SLACK /\ FASTLOOP_MAX_BYTES_READ' = FASTLOOP_MAX_BYTES_READ
      /\ FASTLOOP_MAX_BYTES_WRITTEN' = FASTLOOP_MAX_BYTES_WRITTEN
      /\ (RoomForExtras)' = RoomForExtras
  BY <1>1 DEF PRELOAD_SLACK, FASTLOOP_MAX_BYTES_READ, FASTLOOP_MAX_BYTES_WRITTEN,
              RoomForExtras, CAN_CONSUME_AND_THEN_PRELOAD
<1>3. in_fastloop_end' = in_fastloop_end /\ out_fastloop_end' = out_fastloop_end
  BY <1>2 DEF in_fastloop_end, out_fastloop_end
<1>4. Honest(bits)'
  BY <1>1 DEF Honest, Reader
<1>5. ASSUME pc' = "fastloop"
      PROVE  FastloopAt(bits, out, extras)'
  BY <1>1, <1>2, <1>3, <1>4, <1>5 DEF FastloopAt, Fast, Near
<1>6. InTypes'
  BY DEF InTypes, Control
<1> QED BY <1>1, <1>4, <1>5, <1>6 DEF InInv

LEMMA WrittenIs ==
  ASSUME out.next \in Nat, out.past = FALSE, space \in Nat, NEW n \in Nat, NEW upTo \in Nat,
         n <= upTo, out.next + upTo <= space
  PROVE  /\ Written(n, upTo).next = out.next + n /\ Written(n, upTo).next \in Nat
         /\ Written(n, upTo).past = FALSE /\ Written(n, upTo).next <= space
<1>1. Written(n, upTo).next = out.next + n
  BY DEF Written
<1>2. Written(n, upTo).past = (out.past \/ out.next + upTo > space)
  BY DEF Written
<1>3. ~(out.next + upTo > space)
  OBVIOUS
<1>4. Written(n, upTo).past = FALSE
  BY <1>2, <1>3
<1>5. out.next + n \in Nat /\ out.next + n <= space
  OBVIOUS
<1> QED BY <1>1, <1>4, <1>5

LEMMA BlockDoneIs ==
  ASSUME NEW b, Honest(b), given \in Nat, build \in Builds, NEW written, NEW last,
         BlockDone(b, written, last)
  PROVE  Honest(bits') /\ pc' \in {"next_block", "stopped"}
<1>1. CASE ~last
  BY <1>1 DEF BlockDone
<1>2. CASE last /\ ~EndsInside(b)
  BY <1>2 DEF BlockDone, Stop
<1>3. CASE last /\ EndsInside(b)
  <2>1. Honest(Rewound(b))
    BY <1>3, RewoundIs
  <2> QED BY <1>3, <2>1 DEF BlockDone, Stop
<1> QED BY <1>1, <1>2, <1>3

LEMMA StoreIs ==
  ASSUME NEW b, Honest(b), given \in Nat, space \in Nat, build \in Builds,
         out.next \in Nat, out.past = FALSE, out.next <= space,
         NEW y, y.len \in Nat, Store(b, y)
  PROVE  /\ Honest(bits') /\ pc' \in {"next_block", "stopped"}
         /\ out'.next \in Nat /\ out'.past = FALSE /\ out'.next <= space
<1> DEFINE r  == Rewound(b)
           at == r.next + LenBytes
           to == at + y.len
<1>1. CASE ~EndsInside(b) \/ given < at
  BY <1>1 DEF Store, Stop
<1>2. CASE EndsInside(b) /\ ~(given < at)
  <2>1. Honest(r) /\ r.next \in Nat /\ r.left = 0
    BY <1>2, RewoundIs
  <2>2. \/ Stop("BAD_DATA") /\ bits' = r /\ UNCHANGED out
        \/ Stop("INSUFFICIENT_SPACE") /\ bits' = r /\ UNCHANGED out
        \/ /\ y.len <= space - out.next /\ to <= given
           /\ out' = Written(y.len, y.len)
           /\ BlockDone([r EXCEPT !.next = to], out.next + y.len, y.final)
    BY <1>2 DEF Store
  <2>3. CASE Stop("BAD_DATA") /\ bits' = r /\ UNCHANGED out
    BY <2>1, <2>3 DEF Stop
  <2>4. CASE Stop("INSUFFICIENT_SPACE") /\ bits' = r /\ UNCHANGED out
    BY <2>1, <2>4 DEF Stop
  <2>5. CASE /\ y.len <= space - out.next /\ to <= given
             /\ out' = Written(y.len, y.len)
             /\ BlockDone([r EXCEPT !.next = to], out.next + y.len, y.final)
    <3> DEFINE c == [r EXCEPT !.next = to]
    <3>1. to \in Nat /\ to <= given
      BY <2>1, <2>5, StreamAssumption
    <3> HIDE DEF to, r
    <3>2. /\ c = [f \in ReaderFields |-> c[f]] /\ c.next = to /\ c.left = r.left /\ c.over = r.over
          /\ c.held = r.held /\ c.past = r.past /\ c.short = r.short
      BY <2>1 DEF Honest, Reader, ReaderFields
    <3>3. Honest(c)
      BY <2>1, <3>1, <3>2 DEF Honest, Reader
    <3>4. Honest(bits') /\ pc' \in {"next_block", "stopped"}
      BY <2>5, <3>3, BlockDoneIs
    <3>5. out'.next \in Nat /\ out'.past = FALSE /\ out'.next <= space
      <4>1. out.next + y.len <= space
        BY <2>5
      <4>2. y.len <= y.len
        OBVIOUS
      <4>3. /\ Written(y.len, y.len).next \in Nat /\ Written(y.len, y.len).past = FALSE
            /\ Written(y.len, y.len).next <= space
        BY <4>1, <4>2, WrittenIs
      <4> QED BY <2>5, <4>3
    <3> QED BY <3>4, <3>5
  <2> QED BY <2>2, <2>3, <2>4, <2>5
<1> QED BY <1>1, <1>2

\* A block's header, unless its type is the reserved one.
ReadsHeader(b) ==
  \E y \in Coming({"block", "stored"}) :
    /\ final' = y.final /\ Taken
    /\ IF y.kind = "stored"
       THEN type' = "stored" /\ Store(Consume(b, 3), y) /\ UNCHANGED d
       ELSE /\ type' = y.type /\ d' = Header(y.type)
            /\ bits' = Consume(b, 3)
            /\ pc' = IF y.type = "static" THEN "have_decode_tables" ELSE "prelens"
            /\ UNCHANGED <<out, status>>

LEMMA NextBlockInv ==
  ASSUME build \in Builds, UNCHANGED build, InInv, NextBlock
  PROVE  InInv'
<1> DEFINE b == REFILL_BITS(bits)
<1>1. /\ InTypes /\ TablesOwn /\ Honest(bits) /\ out.past = FALSE /\ out.next <= space
      /\ given \in Nat /\ space \in Nat /\ out.next \in Nat /\ source \in Seq(SymbolSet)
      /\ pc = "next_block" /\ final \in BOOLEAN
      /\ d \in [loaded : BOOLEAN, tables : {"none", "static", "dynamic", "precode"}]
      /\ UNCHANGED <<given, space, extras>>
  BY DEF InInv, InTypes, NextBlock
<1>2. Honest(b) /\ b.left >= CONSUMABLE_NBITS
  BY <1>1, RefillIs
<1>3. CASE TooFarOver(b)
  <2>1. pc' = "stopped" /\ bits' = b /\ UNCHANGED <<out, final, type, d, source>>
    BY <1>3 DEF NextBlock, Stop
  <2>2. TablesOwn'
    BY <1>1, <2>1 DEF TablesOwn
  <2> HIDE DEF b
  <2> QED BY <1>1, <1>2, <2>1, <2>2, InNext DEF Control
<1>4. CASE /\ final' \in BOOLEAN /\ type' = "reserved" /\ Stop("BAD_DATA") /\ bits' = b
           /\ UNCHANGED <<out, d, source>>
  <2>1. pc' = "stopped"
    BY <1>4 DEF Stop
  <2>2. TablesOwn'
    BY <1>1, <1>4, <2>1 DEF TablesOwn
  <2> HIDE DEF b
  <2> QED BY <1>1, <1>2, <1>4, <2>1, <2>2, InNext DEF Control
<1>5. CASE ~TooFarOver(b) /\ ReadsHeader(b)
  <2>1. PICK y \in Coming({"block", "stored"}) :
          /\ final' = y.final /\ Taken
          /\ IF y.kind = "stored"
             THEN type' = "stored" /\ Store(Consume(b, 3), y) /\ UNCHANGED d
             ELSE /\ type' = y.type /\ d' = Header(y.type)
                  /\ bits' = Consume(b, 3)
                  /\ pc' = IF y.type = "static" THEN "have_decode_tables" ELSE "prelens"
                  /\ UNCHANGED <<out, status>>
    BY <1>5 DEF ReadsHeader
  <2>2. y \in SymbolSet /\ y.kind \in {"block", "stored"} /\ source' \in Seq(SymbolSet)
    BY <1>1, <2>1, ComingIs, TakenIs
  <2>3. y.final \in BOOLEAN /\ (y.kind = "stored" => y.len \in Nat)
        /\ (y.kind = "block" => y.type \in {"static", "dynamic"})
    BY <2>2, SymbolKinds
  <2>4. 3 <= b.left /\ 3 \in Nat
    BY <1>2, Sizes DEF Honest, Reader
  <2> DEFINE c == Consume(b, 3)
  <2>5. Honest(c) /\ c.left = b.left - 3
    BY <1>2, <2>4, ConsumeIs
  <2> HIDE DEF b, c
  <2>6. CASE y.kind = "stored"
    <3>1. type' = "stored" /\ Store(c, y) /\ UNCHANGED d
      BY <2>1, <2>6 DEF c
    <3>2. /\ Honest(bits') /\ pc' \in {"next_block", "stopped"}
          /\ out'.next \in Nat /\ out'.past = FALSE /\ out'.next <= space
      BY <1>1, <2>3, <2>5, <2>6, <3>1, StoreIs
    <3>3. TablesOwn'
      BY <1>1, <3>1, <3>2 DEF TablesOwn
    <3> QED BY <1>1, <2>1, <2>2, <2>3, <3>1, <3>2, <3>3, InNext DEF Control
  <2>7. CASE y.kind = "block"
    <3>1. /\ type' = y.type /\ d' = Header(y.type) /\ bits' = c /\ UNCHANGED out
          /\ pc' = IF y.type = "static" THEN "have_decode_tables" ELSE "prelens"
      BY <2>1, <2>7 DEF c
    <3>2. /\ d' \in [loaded : BOOLEAN, tables : {"none", "static", "dynamic", "precode"}]
          /\ TablesOwn'
      <4>1. CASE y.type = "static"
        <5>1. CASE d.loaded
          <6>1. d' = d
            BY <3>1, <4>1, <5>1 DEF Header
          <6> QED BY <1>1, <3>1, <4>1, <5>1, <6>1 DEF TablesOwn
        <5>2. CASE ~d.loaded
          <6>1. d' = [loaded |-> TRUE, tables |-> "static"]
            BY <3>1, <4>1, <5>2 DEF Header
          <6>2. /\ d'.loaded = TRUE /\ d'.tables = "static"
                /\ d' \in [loaded : BOOLEAN, tables : {"none", "static", "dynamic", "precode"}]
            BY <6>1
          <6> QED BY <3>1, <4>1, <6>2 DEF TablesOwn
        <5> QED BY <5>1, <5>2
      <4>2. CASE y.type = "dynamic"
        <5>1. d' = [d EXCEPT !.loaded = FALSE]
          BY <3>1, <4>2 DEF Header
        <5>2. /\ d' \in [loaded : BOOLEAN, tables : {"none", "static", "dynamic", "precode"}]
              /\ ~d'.loaded
          BY <1>1, <5>1
        <5> QED BY <1>1, <3>1, <4>2, <5>2 DEF TablesOwn
      <4> QED BY <2>3, <2>7, <4>1, <4>2
    <3>3. pc' \in Control /\ pc' # "fastloop"
      BY <3>1 DEF Control
    <3>4. bits'.left >= CONSUMABLE_NBITS - 3
      BY <1>2, <2>5, <3>1, Sizes DEF Honest, Reader
    <3> QED BY <1>1, <2>1, <2>2, <2>3, <2>5, <3>1, <3>2, <3>3, <3>4, InNext
  <2> QED BY <2>2, <2>6, <2>7
<1>6. \/ TooFarOver(b)
      \/ /\ final' \in BOOLEAN /\ type' = "reserved" /\ Stop("BAD_DATA") /\ bits' = b
         /\ UNCHANGED <<out, d, source>>
      \/ ~TooFarOver(b) /\ ReadsHeader(b)
  BY DEF NextBlock, ReadsHeader
<1> QED BY <1>3, <1>4, <1>5, <1>6

\* One length of the precode, on a build whose word does not hold them all.
ReadPrecodeLen(c) == Consume(IF c.left < 3 THEN REFILL_BITS(c) ELSE c, 3)

LEMMA ReadPrecodeLenIs ==
  ASSUME NEW c, Honest(c), build \in Builds, given \in Nat
  PROVE  Honest(ReadPrecodeLen(c))
<1> DEFINE r == IF c.left < 3 THEN REFILL_BITS(c) ELSE c
<1>1. CONSUMABLE_NBITS >= 3 /\ CONSUMABLE_NBITS \in Nat /\ 3 \in Nat
  BY Sizes
<1>2. Honest(r) /\ r.left >= 3
  <2>1. CASE c.left < 3
    <3>1. Honest(REFILL_BITS(c)) /\ REFILL_BITS(c).left >= CONSUMABLE_NBITS
      BY RefillIs
    <3>2. r = REFILL_BITS(c)
      BY <2>1
    <3> HIDE DEF r
    <3>3. r.left \in Nat
      BY <3>1, <3>2 DEF Honest, Reader
    <3> QED BY <1>1, <3>1, <3>2, <3>3
  <2>2. CASE ~(c.left < 3)
    <3>1. c.left \in Nat
      BY DEF Honest, Reader
    <3> QED BY <2>2, <3>1
  <2> QED BY <2>1, <2>2
<1>3. ReadPrecodeLen(c) = Consume(r, 3)
  BY DEF ReadPrecodeLen
<1> HIDE DEF r
<1>4. r.left \in Nat
  BY <1>2 DEF Honest, Reader
<1>5. 3 <= r.left
  BY <1>2, <1>4
<1>6. Honest(Consume(r, 3))
  BY <1>1, <1>2, <1>5, ConsumeIs
<1> QED BY <1>3, <1>6

LEMMA PrecodeFold ==
  ASSUME NEW b, Honest(b), NEW n \in Nat, build \in Builds, given \in Nat
  PROVE  Honest(FoldSeq(LAMBDA k, c : ReadPrecodeLen(c), b, [k \in 1..n |-> k]))
<1> DEFINE S == DOMAIN [k \in 1..n |-> k]
           T == {c \in [ReaderFields -> Nat \cup BOOLEAN] : Honest(c)}
           F == [k \in S |-> [c \in T |-> ReadPrecodeLen(c)]]
           e(f, s) == IF s = {} THEN b ELSE ReadPrecodeLen(f[s \ {CHOOSE x \in s : TRUE}])
           iter == CHOOSE f : f = [s \in SUBSET S |-> e(f, s)]
<1>1. ASSUME NEW c, Honest(c) PROVE c \in T
  BY <1>1 DEF Honest, Reader, ReaderFields
<1>2. b \in T /\ \A c \in T : Honest(c) /\ ReadPrecodeLen(c) \in T
  BY <1>1, ReadPrecodeLenIs
<1> HIDE DEF T
<1>3. F \in [S -> [T -> T]] /\ IsFiniteSet(S)
  BY <1>2, FS_Interval
<1>4. /\ FoldSeq(LAMBDA k, c : ReadPrecodeLen(c), b, [k \in 1..n |-> k]) = iter[S]
  BY DEF FoldSeq, FoldFunction, FoldFunctionOnSet, MapThenFoldSet
<1> HIDE DEF F, S
<1> DEFINE pick == [s \in SUBSET S |-> CHOOSE x \in s : TRUE]
<1>5. ASSUME NEW s \in SUBSET S, s # {}
      PROVE  /\ pick[s] \in s /\ pick[s] \in S /\ s \ {pick[s]} \in SUBSET S
             /\ pick[s] = CHOOSE x \in s : TRUE
  BY <1>5
<1> HIDE DEF pick
<1>6. \A s \in SUBSET S : s # {} => pick[s] \in s
  BY <1>5
<1>7. PICK g \in [SUBSET S -> T] : \A s \in SUBSET S :
        g[s] = IF s = {} THEN b ELSE F[pick[s]][g[s \ {pick[s]}]]
  <2>1. HasFold(S, T, b, F, pick)
    BY <1>2, <1>3, <1>6, FoldExists
  <2> QED BY <2>1 DEF HasFold
<1>8. \A s \in SUBSET S : g[s] = e(g, s)
  BY <1>2, <1>5, <1>7 DEF F
<1> HIDE DEF e
<1>9. g = [s \in SUBSET S |-> e(g, s)]
  BY <1>8
<1>10. iter = [s \in SUBSET S |-> e(iter, s)]
  BY <1>9
<1> HIDE DEF iter
<1>11. \A s \in SUBSET S : iter[s] = e(iter, s)
  BY <1>10
<1>12. iter[{}] \in T
  BY <1>2, <1>11 DEF e
<1>13. ASSUME NEW s \in SUBSET S, s # {}
       PROVE  \E x \in s : iter[s \ {x}] \in T => iter[s] \in T
  <2>1. iter[s \ {pick[s]}] \in T => iter[s] \in T
    <3>1. iter[s] = ReadPrecodeLen(iter[s \ {CHOOSE x \in s : TRUE}])
      BY <1>11, <1>13 DEF e
    <3> QED BY <1>2, <1>5, <1>13, <3>1
  <2> QED BY <1>5, <1>13, <2>1
<1>14. iter[S] \in T
  BY <1>3, <1>12, <1>13, FoldClosed
<1> QED BY <1>2, <1>4, <1>14

LEMMA PrecodeLensInv ==
  ASSUME build \in Builds, UNCHANGED build, InInv, PrecodeLens
  PROVE  InInv'
<1>1. /\ TablesOwn /\ Honest(bits) /\ out.past = FALSE /\ out.next <= space
      /\ given \in Nat /\ space \in Nat /\ out.next \in Nat /\ source \in Seq(SymbolSet)
      /\ pc = "prelens" /\ final \in BOOLEAN /\ bits.left >= CONSUMABLE_NBITS - 3
      /\ d \in [loaded : BOOLEAN, tables : {"none", "static", "dynamic", "precode"}]
      /\ UNCHANGED <<given, space, out, final, type, extras>>
  BY DEF InInv, InTypes, PrecodeLens
<1> DEFINE read(y) == IF CAN_CONSUME(3 * 18)
                      THEN Consume(REFILL_BITS(Consume(bits, 17)), 3 * (y.n - 1))
                      ELSE FoldSeq(LAMBDA k, c : ReadPrecodeLen(c), Consume(bits, 14),
                                   [k \in 1..y.n |-> k])
<1>2. PICK y \in Coming({"prelens"}) :
        /\ bits' = read(y) /\ Taken
        /\ \/ Stop("BAD_DATA") /\ UNCHANGED d
           \/ d' = [d EXCEPT !.tables = "precode"] /\ pc' = "first_len"
  BY DEF PrecodeLens, ReadPrecodeLen
<1>3. y \in SymbolSet /\ y.n \in 4..19 /\ source' \in Seq(SymbolSet)
  <2>1. y \in SymbolSet /\ y.kind = "prelens"
    BY <1>1, ComingIs
  <2>2. y.n \in 4..19
    BY <2>1, SymbolKinds
  <2>3. Taken
    BY <1>2
  <2> QED BY <1>1, <2>1, <2>2, <2>3, TakenIs
<1>4. bits.left \in Nat
  BY <1>1 DEF Honest, Reader
<1>5. Honest(bits')
  <2>1. CASE CAN_CONSUME(3 * 18)
    <3> DEFINE c == Consume(bits, 17)
               r == REFILL_BITS(c)
    <3>1. W = 8 /\ 17 <= bits.left /\ 17 \in Nat /\ CONSUMABLE_NBITS >= 56
      BY <1>1, <1>4, <2>1, Sizes, Consumable
    <3>2. Honest(c)
      BY <1>1, <3>1, ConsumeIs
    <3> HIDE DEF c
    <3>3. Honest(r) /\ r.left >= CONSUMABLE_NBITS
      BY <1>1, <3>2, RefillIs
    <3>4. 3 * (y.n - 1) \in Nat /\ 3 * (y.n - 1) <= 54
      <4>1. ASSUME NEW n \in 4..19 PROVE 3 * (n - 1) \in Nat /\ 3 * (n - 1) <= 54
        OBVIOUS
      <4>2. y.n \in 4..19
        BY <1>3
      <4> QED BY <4>1, <4>2
    <3>5. bits' = Consume(r, 3 * (y.n - 1))
      BY <1>2, <2>1 DEF c
    <3> HIDE DEF r
    <3>6. 3 * (y.n - 1) <= r.left
      <4>1. r.left \in Nat /\ CONSUMABLE_NBITS \in Nat
        BY <3>3, Sizes DEF Honest, Reader
      <4> QED BY <3>1, <3>3, <3>4, <4>1
    <3> QED BY <3>3, <3>4, <3>5, <3>6, ConsumeIs
  <2>2. CASE ~CAN_CONSUME(3 * 18)
    <3> DEFINE c == Consume(bits, 14)
    <3>1. 14 <= bits.left /\ 14 \in Nat
      BY <1>1, <1>4, Sizes
    <3>2. Honest(c)
      BY <1>1, <3>1, ConsumeIs
    <3>3. bits' = FoldSeq(LAMBDA k, e : ReadPrecodeLen(e), c, [k \in 1..y.n |-> k])
      BY <1>2, <2>2
    <3>4. y.n \in Nat
      BY <1>3
    <3> HIDE DEF c
    <3>5. Honest(FoldSeq(LAMBDA k, e : ReadPrecodeLen(e), c, [k \in 1..y.n |-> k]))
      BY <1>1, <3>2, <3>4, PrecodeFold
    <3> QED BY <3>3, <3>5
  <2> QED BY <2>1, <2>2
<1>6. CASE Stop("BAD_DATA") /\ UNCHANGED d
  <2>1. pc' = "stopped" /\ UNCHANGED <<d, type>>
    BY <1>1, <1>6 DEF Stop
  <2>2. TablesOwn'
    BY <1>1, <2>1 DEF TablesOwn
  <2> QED BY <1>1, <1>3, <1>5, <2>1, <2>2, InNext DEF Control
<1>7. CASE d' = [d EXCEPT !.tables = "precode"] /\ pc' = "first_len"
  <2>1. /\ d' \in [loaded : BOOLEAN, tables : {"none", "static", "dynamic", "precode"}]
        /\ ~d'.loaded
    BY <1>1, <1>7 DEF TablesOwn
  <2>2. TablesOwn'
    BY <1>1, <1>7, <2>1 DEF TablesOwn
  <2> QED BY <1>1, <1>3, <1>5, <1>7, <2>1, <2>2, InNext DEF Control
<1> QED BY <1>2, <1>6, <1>7

LEMMA CodewordLensInv ==
  ASSUME build \in Builds, UNCHANGED build, InInv, CodewordLens
  PROVE  InInv'
<1> DEFINE b == IF bits.left < 7 + 7 THEN REFILL_BITS(bits) ELSE bits
<1>1. /\ TablesOwn /\ Honest(bits) /\ out.past = FALSE /\ out.next <= space
      /\ given \in Nat /\ space \in Nat /\ out.next \in Nat /\ source \in Seq(SymbolSet)
      /\ pc \in {"first_len", "lens"} /\ final \in BOOLEAN
      /\ d \in [loaded : BOOLEAN, tables : {"none", "static", "dynamic", "precode"}]
      /\ UNCHANGED <<given, space, out, final, type, extras, d>>
  BY DEF InInv, InTypes, CodewordLens
<1>2. Honest(b) /\ b.left \in Nat /\ b.left >= 14
  <2>1. CASE bits.left < 7 + 7
    <3>1. Honest(REFILL_BITS(bits)) /\ REFILL_BITS(bits).left >= CONSUMABLE_NBITS
      BY <1>1, RefillIs
    <3>2. b = REFILL_BITS(bits)
      BY <2>1
    <3> HIDE DEF b
    <3>3. b.left \in Nat
      BY <3>1, <3>2 DEF Honest, Reader
    <3> QED BY <3>1, <3>2, <3>3, Sizes
  <2>2. CASE ~(bits.left < 7 + 7)
    <3>1. bits.left \in Nat
      BY <1>1 DEF Honest, Reader
    <3> QED BY <1>1, <2>2, <3>1
  <2> QED BY <2>1, <2>2
<1>3. CASE TooFarOver(b)
  <2>1. pc' = "stopped" /\ bits' = b /\ UNCHANGED source
    BY <1>3 DEF CodewordLens, Stop
  <2>2. TablesOwn'
    BY <1>1, <2>1 DEF TablesOwn
  <2> HIDE DEF b
  <2> QED BY <1>1, <1>2, <2>1, <2>2, InNext DEF Control
<1>4. CASE ~TooFarOver(b)
  <2>1. PICK y \in Coming({"item"}) :
          /\ Taken
          /\ \/ bits' = Consume(b, y.bits) /\ pc' = "lens"
             \/ y.bits \in 3..9 /\ bits' = Consume(b, y.bits - 2) /\ pc' = "stopped"
    BY <1>4 DEF CodewordLens, Stop
  <2> HIDE DEF b
  <2>2. y \in SymbolSet /\ y.kind = "item"
    BY <1>1, <2>1, ComingIs
  <2>3. y.bits \in 1..14 /\ source' \in Seq(SymbolSet)
    BY <1>1, <2>1, <2>2, SymbolKinds, TakenIs
  <2>4. Honest(bits')
    <3>1. y.bits \in Nat /\ y.bits <= b.left
      BY <1>2, <2>3
    <3>2. y.bits \in 3..9 => y.bits - 2 \in Nat /\ y.bits - 2 <= b.left
      BY <1>2, <3>1
    <3> QED BY <1>2, <2>1, <3>1, <3>2, ConsumeIs
  <2>5. TablesOwn'
    BY <1>1, <2>1 DEF TablesOwn
  <2> QED BY <1>1, <2>1, <2>3, <2>4, <2>5, InNext DEF Control
<1> QED BY <1>3, <1>4

LEMMA BuildTablesInv ==
  ASSUME build \in Builds, UNCHANGED build, InInv, BuildTables
  PROVE  InInv'
<1>1. /\ TablesOwn /\ Honest(bits) /\ out.past = FALSE /\ out.next <= space
      /\ given \in Nat /\ space \in Nat /\ out.next \in Nat /\ source \in Seq(SymbolSet)
      /\ pc = "lens" /\ final \in BOOLEAN
      /\ d \in [loaded : BOOLEAN, tables : {"none", "static", "dynamic", "precode"}]
      /\ UNCHANGED <<bits, given, space, out, final, type, extras, source>>
  BY DEF InInv, InTypes, BuildTables
<1>2. CASE pc' = "stopped" /\ UNCHANGED d
  <2>1. TablesOwn'
    BY <1>1, <1>2 DEF TablesOwn
  <2> QED BY <1>1, <1>2, <2>1, InNext DEF Control
<1>3. CASE d' = [d EXCEPT !.tables = "dynamic"] /\ pc' = "have_decode_tables"
  <2>1. /\ d' \in [loaded : BOOLEAN, tables : {"none", "static", "dynamic", "precode"}]
        /\ ~d'.loaded /\ d'.tables = "dynamic" /\ type = "dynamic"
    BY <1>1, <1>3 DEF TablesOwn
  <2>2. TablesOwn'
    BY <1>1, <1>3, <2>1 DEF TablesOwn
  <2> QED BY <1>1, <1>3, <2>1, <2>2, InNext DEF Control
<1> QED BY <1>2, <1>3 DEF BuildTables, Stop

\* Where the fastloop may run.
LEMMA InsideIs ==
  ASSUME NEW b, NEW o, build \in Builds, given \in Nat, space \in Nat,
         Honest(b), InFastloop(b, o), o.next \in Nat
  PROVE  /\ Near(b, 0) /\ space > FASTLOOP_MAX_BYTES_WRITTEN
         /\ o.next < out_fastloop_end /\ out_fastloop_end \in Nat
<1>1. b.next < in_fastloop_end /\ o.next < out_fastloop_end /\ Reader(b)
  BY DEF InFastloop, Honest
<1>2. given > FASTLOOP_MAX_BYTES_READ /\ in_fastloop_end \in Int
  BY <1>1, Sizes DEF in_fastloop_end, Least, Reader
<1>3. space > FASTLOOP_MAX_BYTES_WRITTEN /\ out_fastloop_end \in Nat
  BY <1>1, Sizes DEF out_fastloop_end, Least
<1>4. Near(b, 0)
  BY <1>1, <1>2 DEF Near, Reader
<1> QED BY <1>1, <1>3, <1>4

LEMMA TurnBegins ==
  ASSUME NEW b, NEW o, build \in Builds,
         Fast(b, 0), b.left >= CONSUMABLE_NBITS, b.held >= FASTLOOP_PRELOADABLE_NBITS,
         space > FASTLOOP_MAX_BYTES_WRITTEN, o.next < out_fastloop_end,
         out_fastloop_end \in Nat
  PROVE  FastloopAt(b, o, 0)
<1>1. LITLEN_TABLEBITS * 0 = 0 /\ out_fastloop_end + 0 = out_fastloop_end
  BY Sizes
<1>2. /\ CONSUMABLE_NBITS - LITLEN_TABLEBITS * 0 = CONSUMABLE_NBITS
      /\ FASTLOOP_PRELOADABLE_NBITS - LITLEN_TABLEBITS * 0 = FASTLOOP_PRELOADABLE_NBITS
  BY Sizes
<1> QED BY <1>1, <1>2 DEF FastloopAt

LEMMA HaveDecodeTablesInv ==
  ASSUME build \in Builds, UNCHANGED build, InInv, HaveDecodeTables
  PROVE  InInv'
<1>1. /\ TablesOwn /\ Honest(bits) /\ out.past = FALSE /\ out.next <= space
      /\ given \in Nat /\ space \in Nat /\ out.next \in Nat /\ source \in Seq(SymbolSet)
      /\ pc = "have_decode_tables" /\ final \in BOOLEAN
      /\ d \in [loaded : BOOLEAN, tables : {"none", "static", "dynamic", "precode"}]
      /\ extras' = 0 /\ UNCHANGED <<given, space, out, final, type, d, source>>
  BY DEF InInv, InTypes, HaveDecodeTables
<1>2. CASE InFastloop(bits, out)
  <2> DEFINE r == REFILL_BITS_IN_FASTLOOP(bits)
             p == Preload(r, LITLEN_TABLEBITS)
  <2>1. pc' = "fastloop" /\ bits' = p
    BY <1>2 DEF HaveDecodeTables
  <2>2. /\ Near(bits, 0) /\ space > FASTLOOP_MAX_BYTES_WRITTEN
        /\ out.next < out_fastloop_end /\ out_fastloop_end \in Nat
    BY <1>1, <1>2, InsideIs
  <2>3. Fast(r, 0) /\ r.left >= CONSUMABLE_NBITS /\ r.held >= FASTLOOP_PRELOADABLE_NBITS
    BY <1>1, <2>2, FastRefillIs
  <2> HIDE DEF r
  <2>4. LITLEN_TABLEBITS \in Nat /\ LITLEN_TABLEBITS <= r.held
    BY <2>3, Sizes DEF Fast, Honest, Reader
  <2>5. Fast(p, 0) /\ p.left = r.left /\ p.held = r.held
    BY <2>3, <2>4, FastPreloadIs
  <2>6. FastloopAt(p, out, 0) /\ Honest(p)
    BY <2>2, <2>3, <2>5, TurnBegins DEF Fast
  <2>7. FastloopAt(bits', out', extras') /\ Honest(bits')
    BY <1>1, <2>1, <2>6
  <2>8. TablesOwn'
    BY <1>1, <2>1 DEF TablesOwn
  <2> QED BY <1>1, <2>1, <2>7, <2>8, InNext DEF Control
<1>3. CASE ~InFastloop(bits, out)
  <2>1. pc' = "generic_loop" /\ UNCHANGED bits
    BY <1>3 DEF HaveDecodeTables
  <2>2. TablesOwn'
    BY <1>1, <2>1 DEF TablesOwn
  <2> QED BY <1>1, <2>1, <2>2, InNext DEF Control
<1> QED BY <1>2, <1>3

\* The end of a turn: what was consumed since it began is at most what the part
\* of the input that the fastloop leaves alone was made for.
LEMMA IterateIs ==
  ASSUME NEW b, NEW o, NEW k \in 0..80, build \in Builds, given \in Nat, space \in Nat,
         Fast(b, k), b.held >= LITLEN_TABLEBITS, o.next \in Nat, Iterate(b, o)
  PROVE  /\ Honest(bits') /\ out' = o /\ pc' \in {"fastloop", "generic_loop"}
         /\ pc' = "fastloop" => FastloopAt(bits', out', extras')
<1> DEFINE p == Preload(b, LITLEN_TABLEBITS)
           r == REFILL_BITS_IN_FASTLOOP(p)
<1>1. LITLEN_TABLEBITS \in Nat /\ LITLEN_TABLEBITS <= b.held
  BY Sizes DEF Fast, Honest, Reader
<1>2. Fast(p, k)
  BY <1>1, FastPreloadIs
<1>3. /\ bits' = r /\ out' = o /\ extras' = 0
      /\ pc' = IF InFastloop(r, o) THEN "fastloop" ELSE "generic_loop"
  BY DEF Iterate
<1> HIDE DEF p
<1>4. Fast(r, k) /\ r.left >= CONSUMABLE_NBITS /\ r.held >= FASTLOOP_PRELOADABLE_NBITS
  BY <1>2, FastRefillIs DEF Fast
<1> HIDE DEF r
<1>5. ASSUME InFastloop(r, o)
      PROVE  FastloopAt(r, o, 0)
  <2>1. /\ Near(r, 0) /\ space > FASTLOOP_MAX_BYTES_WRITTEN
        /\ o.next < out_fastloop_end /\ out_fastloop_end \in Nat
    BY <1>4, <1>5, InsideIs DEF Fast
  <2>2. Fast(r, 0)
    BY <1>4, <2>1 DEF Fast
  <2> QED BY <1>4, <2>1, <2>2, TurnBegins
<1>6. Honest(r)
  BY <1>4 DEF Fast
<1> QED BY <1>3, <1>5, <1>6

\* What holds at the start of a turn.
LEMMA TurnIs ==
  ASSUME InInv, pc = "fastloop"
  PROVE  /\ given \in Nat /\ space \in Nat /\ source \in Seq(SymbolSet) /\ final \in BOOLEAN
         /\ d \in [loaded : BOOLEAN, tables : {"none", "static", "dynamic", "precode"}]
         /\ d.tables = type /\ (d.loaded => d.tables = "static")
         /\ out.next \in Nat /\ out.past = FALSE
BY DEF InInv, InTypes, TablesOwn

LEMMA TurnBits ==
  ASSUME build \in Builds, InInv, pc = "fastloop"
  PROVE  /\ extras \in {0, 1, 2} /\ 11 * extras \in Nat /\ (extras > 0 => W = 8)
         /\ Fast(bits, 11 * extras) /\ bits.left \in Nat /\ bits.held \in Nat
         /\ bits.left >= CONSUMABLE_NBITS - 11 * extras
         /\ bits.held >= FASTLOOP_PRELOADABLE_NBITS - 11 * extras
<1>1. FastloopAt(bits, out, extras)
  BY DEF InInv
<1>2. /\ extras \in 0..2 /\ (extras > 0 => W = 8)
      /\ Fast(bits, 11 * extras)
      /\ bits.left >= CONSUMABLE_NBITS - 11 * extras
      /\ bits.held >= FASTLOOP_PRELOADABLE_NBITS - 11 * extras
  BY <1>1, Sizes DEF FastloopAt
<1>3. bits.left \in Nat /\ bits.held \in Nat
  BY <1>2 DEF Fast, Honest, Reader
<1>4. extras \in {0, 1, 2} /\ 11 * extras \in Nat
  BY <1>2
<1> QED BY <1>2, <1>3, <1>4

LEMMA TurnRoom ==
  ASSUME build \in Builds, InInv, pc = "fastloop"
  PROVE  /\ out.next \in Nat /\ space \in Nat /\ extras \in {0, 1, 2}
         /\ (extras > 0 => W = 8)
         /\ out_fastloop_end \in Nat /\ space > FASTLOOP_MAX_BYTES_WRITTEN
         /\ out.next < out_fastloop_end + extras
         /\ out.next + FASTLOOP_MAX_BYTES_WRITTEN < space + extras
<1>1. out.next \in Nat /\ space \in Nat /\ extras \in {0, 1, 2} /\ (extras > 0 => W = 8)
  BY TurnBits DEF InInv, InTypes
<1>2. space > FASTLOOP_MAX_BYTES_WRITTEN /\ out.next < out_fastloop_end + extras
  BY DEF InInv, FastloopAt
<1>3. FASTLOOP_MAX_BYTES_WRITTEN \in Nat
  BY Sizes
<1>4. out_fastloop_end = space - FASTLOOP_MAX_BYTES_WRITTEN
  BY <1>1, <1>2, <1>3 DEF out_fastloop_end, Least
<1> QED BY <1>1, <1>2, <1>3, <1>4

LEMMA FastLiteralInv ==
  ASSUME build \in Builds, UNCHANGED build, InInv, FastLiteral
  PROVE  InInv'
<1>0. pc = "fastloop" /\ UNCHANGED <<given, space, final, type, d>>
  BY DEF FastLiteral
<1>1. PICK y \in Coming({"lit"}) :
        /\ IsFastLiteral(y) /\ Taken
        /\ LET b == Consume(bits, y.code)
           IN  IF RoomForExtras /\ extras < 2
               THEN /\ bits' = Preload(b, LITLEN_TABLEBITS)
                    /\ out' = Written(1, 1) /\ extras' = extras + 1
                    /\ UNCHANGED <<pc, status>>
               ELSE Iterate(b, Written(1, 1))
  BY DEF FastLiteral
<1>2. /\ given \in Nat /\ space \in Nat /\ source \in Seq(SymbolSet) /\ final \in BOOLEAN
      /\ d \in [loaded : BOOLEAN, tables : {"none", "static", "dynamic", "precode"}]
      /\ d.tables = type /\ (d.loaded => d.tables = "static")
      /\ out.next \in Nat /\ out.past = FALSE
  BY <1>0, TurnIs
<1>3. given \in Nat /\ space \in Nat /\ out.next \in Nat
  BY <1>2
<1>4. /\ extras \in {0, 1, 2} /\ 11 * extras \in Nat /\ (extras > 0 => W = 8)
       /\ Fast(bits, 11 * extras) /\ bits.left \in Nat /\ bits.held \in Nat
       /\ bits.left >= CONSUMABLE_NBITS - 11 * extras
       /\ bits.held >= FASTLOOP_PRELOADABLE_NBITS - 11 * extras
  BY <1>0, TurnBits
<1>5. /\ out_fastloop_end \in Nat /\ space > FASTLOOP_MAX_BYTES_WRITTEN
       /\ out.next < out_fastloop_end + extras
       /\ out.next + FASTLOOP_MAX_BYTES_WRITTEN < space + extras
  BY <1>0, TurnRoom
<1>6. y \in SymbolSet /\ y.kind = "lit" /\ source' \in Seq(SymbolSet)
  BY <1>1, <1>2, ComingIs, TakenIs
<1>7. y.code \in 1..11
  <2>1. y.code \in 1..15
    BY <1>6, SymbolKinds
  <2> QED BY <1>1, <2>1, Sizes DEF IsFastLiteral
<1> DEFINE b == Consume(bits, y.code)
<1>8. y.code \in Nat /\ y.code <= bits.left /\ 11 * extras \in Nat
  BY <1>4, <1>7, Sizes
<1>9. /\ Fast(b, 11 * extras + y.code)
      /\ b.left = bits.left - y.code /\ b.held = bits.held - y.code
  BY <1>3, <1>4, <1>8, FastConsumeIs
<1>10. /\ Written(1, 1).next = out.next + 1 /\ Written(1, 1).next \in Nat
      /\ Written(1, 1).past = FALSE /\ Written(1, 1).next <= space
  <2>1. out.next + 1 <= space /\ 1 \in Nat /\ 1 <= 1
    BY <1>3, <1>4, <1>5, Sizes
  <2> QED BY <1>2, <2>1, WrittenIs
<1>11. b.held >= 11 /\ b.held \in Nat
  BY <1>4, <1>7, <1>9, Sizes
<1> HIDE DEF b
<1>12. CASE RoomForExtras /\ extras < 2
  <2> DEFINE p == Preload(b, LITLEN_TABLEBITS)
  <2>1. /\ bits' = p /\ out' = Written(1, 1) /\ extras' = extras + 1 /\ pc' = "fastloop"
    BY <1>0, <1>1, <1>12 DEF b
  <2>2. 11 * extras + y.code \in Nat /\ LITLEN_TABLEBITS \in Nat /\ LITLEN_TABLEBITS <= b.held
    BY <1>4, <1>7, <1>11, Sizes
  <2>3. /\ Fast(p, 11 * extras + y.code) /\ p.left = b.left /\ p.held = b.held
    BY <1>9, <2>2, FastPreloadIs
  <2> HIDE DEF p
  <2>4. Fast(p, LITLEN_TABLEBITS * (extras + 1))
    <3>1. 11 * extras + y.code <= 11 * (extras + 1) /\ LITLEN_TABLEBITS = 11
      BY <1>4, <1>7, Sizes
    <3>2. Near(p, 11 * (extras + 1))
      <4>1. /\ Near(p, 11 * extras + y.code) /\ p.left \in Nat /\ p.next \in Nat
            /\ in_fastloop_end \in Int
        BY <1>3, <2>3, Sizes DEF Fast, Honest, Reader, in_fastloop_end, Least
      <4> QED BY <1>4, <1>7, <3>1, <4>1 DEF Near
    <3> QED BY <2>3, <3>1, <3>2 DEF Fast
  <2>5. /\ p.left >= CONSUMABLE_NBITS - LITLEN_TABLEBITS * (extras + 1)
        /\ p.held >= FASTLOOP_PRELOADABLE_NBITS - LITLEN_TABLEBITS * (extras + 1)
    <3>1. /\ LITLEN_TABLEBITS * (extras + 1) = 11 * extras + 11
          /\ CONSUMABLE_NBITS \in Nat /\ FASTLOOP_PRELOADABLE_NBITS \in Nat
      BY <1>4, Sizes
    <3>2. p.left = bits.left - y.code /\ p.held = bits.held - y.code
      BY <1>9, <2>3
    <3> QED BY <1>4, <1>7, <3>1, <3>2
  <2>6. space > FASTLOOP_MAX_BYTES_WRITTEN /\ out'.next < out_fastloop_end + (extras + 1)
    <3>1. out'.next = out.next + 1 /\ extras \in Nat
      BY <1>10, <1>4, <2>1
    <3> QED BY <1>3, <1>5, <3>1
  <2>7. extras + 1 \in 0..2
    BY <1>4, <1>12
  <2>8. FastloopAt(bits', out', extras')
    BY <1>12, <2>1, <2>4, <2>5, <2>6, <2>7 DEF FastloopAt
  <2>9. Honest(bits')
    BY <2>1, <2>3 DEF Fast
  <2>10. TablesOwn'
    BY <1>0, <1>2, <2>1 DEF TablesOwn
  <2> QED BY <1>0, <1>2, <1>6, <1>10, <2>1, <2>8, <2>9, <2>10, InNext DEF Control
<1>13. CASE ~(RoomForExtras /\ extras < 2)
  <2>1. Iterate(b, Written(1, 1))
    BY <1>1, <1>13 DEF b
  <2>2. 11 * extras + y.code \in 0..80 /\ b.held >= LITLEN_TABLEBITS
    BY <1>4, <1>7, <1>11, Sizes
  <2>3. /\ Honest(bits') /\ out' = Written(1, 1) /\ pc' \in {"fastloop", "generic_loop"}
        /\ pc' = "fastloop" => FastloopAt(bits', out', extras')
    BY <1>3, <1>9, <1>10, <2>1, <2>2, IterateIs
  <2>4. TablesOwn'
    BY <1>0, <1>2, <2>3 DEF TablesOwn
  <2> QED BY <1>0, <1>2, <1>6, <1>10, <2>3, <2>4, InNext DEF Control
<1> QED BY <1>12, <1>13

-----------------------------------------------------------------------
(***************************************************************************)
(* A turn of the fastloop that ends with a longer literal, a match or the  *)
(* end of a block.                                                         *)
(***************************************************************************)
LEMMA NearWeaker ==
  ASSUME NEW b, NEW k \in Nat, NEW m \in Nat, k <= m, Fast(b, k), build \in Builds, given \in Nat
  PROVE  Fast(b, m)
<1>1. /\ Near(b, k) /\ b.left \in Nat /\ b.next \in Nat /\ in_fastloop_end \in Int
  BY Sizes DEF Fast, Honest, Reader, in_fastloop_end, Least
<1>2. Near(b, m)
  BY <1>1 DEF Near
<1> QED BY <1>2 DEF Fast

LEMMA RefillBelowIs ==
  ASSUME NEW b, NEW k \in 0..80, Fast(b, k), NEW n \in Nat, n <= CONSUMABLE_NBITS,
         build \in Builds, given \in Nat
  PROVE  LET r == RefillBelow(b, n) IN Fast(r, k) /\ r.left >= n
<1>1. b.left \in Nat /\ Honest(b) /\ Near(b, k)
  BY DEF Fast, Honest, Reader
<1>2. CASE b.left < n
  <2> DEFINE r == REFILL_BITS_IN_FASTLOOP(b)
  <2>1. Fast(r, k) /\ r.left >= CONSUMABLE_NBITS
    BY <1>1, FastRefillIs
  <2>2. RefillBelow(b, n) = r
    BY <1>2 DEF RefillBelow
  <2> HIDE DEF r
  <2>3. r.left \in Nat /\ CONSUMABLE_NBITS \in Nat
    BY <2>1, Sizes DEF Fast, Honest, Reader
  <2>4. r.left >= n
    BY <2>1, <2>3
  <2> QED BY <2>1, <2>2, <2>4
<1>3. CASE ~(b.left < n)
  <2>1. RefillBelow(b, n) = b
    BY <1>3 DEF RefillBelow
  <2>2. b.left >= n
    BY <1>1, <1>3
  <2> QED BY <2>1, <2>2
<1> QED BY <1>2, <1>3

\* The bits of a litlen symbol, with a length's extra bits, leave enough to look
\* at the next entry.
LEMMA AfterLitlenIs ==
  ASSUME build \in Builds, InInv, pc = "fastloop", given \in Nat,
         NEW y \in SymbolSet, y.kind \in {"lit", "end", "match"}, ~IsFastLiteral(y)
  PROVE  LET b == AfterLitlen(y) IN
         /\ Fast(b, 42) /\ b.held >= OFFSET_TABLEBITS
         /\ y.kind = "lit" => b.held >= LITLEN_TABLEBITS
<1> DEFINE extra == IF y.kind = "match" THEN deflate_extra_length_bits[y.slot] ELSE 0
           b == AfterLitlen(y)
<1>1. /\ extras \in {0, 1, 2} /\ 11 * extras \in Nat /\ (extras > 0 => W = 8)
      /\ Fast(bits, 11 * extras) /\ bits.left \in Nat /\ bits.held \in Nat
      /\ bits.left >= CONSUMABLE_NBITS - 11 * extras
      /\ bits.held >= FASTLOOP_PRELOADABLE_NBITS - 11 * extras
  BY TurnBits
<1>2. y.code \in 1..15 /\ extra \in 0..5 /\ (y.kind = "lit" => y.code > 11 /\ extra = 0)
  <2>1. y.code \in 1..15 /\ (y.kind = "match" => y.slot \in 1..29)
    BY SymbolKinds
  <2>2. extra \in 0..5
    BY <2>1, LengthSlots
  <2>3. y.kind = "lit" => y.code > 11 /\ extra = 0
    BY <2>1, Sizes DEF IsFastLiteral
  <2> QED BY <2>1, <2>2, <2>3
<1>3. /\ LITLEN_TABLEBITS = 11 /\ OFFSET_TABLEBITS = 8
      /\ bits.left >= 24 /\ (W = 8 => bits.held >= 35)
      /\ (W = 4 => bits.held >= 25) /\ (W = 4 /\ build.fast => bits.held >= 32)
      /\ W \in {4, 8} /\ CONSUMABLE_NBITS \in Nat /\ FASTLOOP_PRELOADABLE_NBITS \in Nat
      /\ FASTLOOP_PRELOADABLE_NBITS >= 25
  BY <1>1, Sizes
<1>4. CASE y.code <= 11
  <2> DEFINE n == y.code + extra
  <2>1. b = Consume(bits, n)
    BY <1>3, <1>4 DEF AfterLitlen
  <2> HIDE DEF b, extra
  <2>2. n \in 0..16
    BY <1>2, <1>4
  <2> HIDE DEF n
  <2>3. n \in Nat /\ n <= bits.left
    BY <1>1, <1>3, <2>2
  <2>4. Fast(b, 11 * extras + n) /\ b.held = bits.held - n
    BY <1>1, <2>1, <2>3, FastConsumeIs
  <2>5. 11 * extras + n \in Nat /\ 11 * extras + n <= 42 /\ 42 \in Nat
    BY <1>1, <2>2
  <2>6. Fast(b, 42)
    BY <2>4, <2>5, NearWeaker
  <2>7. bits.held - n >= 8
    BY <1>1, <1>3, <2>2
  <2> QED BY <1>2, <1>3, <1>4, <2>4, <2>6, <2>7 DEF b
<1>5. CASE y.code > 11
  <2> DEFINE n == y.code - LITLEN_TABLEBITS + extra
             a == Consume(bits, LITLEN_TABLEBITS)
             c == Consume(a, n)
  <2>1. b = IF W = 8 \/ build.fast THEN c ELSE REFILL_BITS_IN_FASTLOOP(c)
    <3>1. ~(y.code <= LITLEN_TABLEBITS)
      BY <1>2, <1>3, <1>5
    <3> QED BY <3>1, Consumable DEF AfterLitlen
  <2> HIDE DEF b, extra
  <2>2. n \in 0..9
    BY <1>2, <1>3, <1>5
  <2> HIDE DEF n
  <2>3. LITLEN_TABLEBITS \in Nat /\ LITLEN_TABLEBITS <= bits.left
    BY <1>1, <1>3
  <2>4. /\ Fast(a, 11 * extras + LITLEN_TABLEBITS) /\ a.left = bits.left - LITLEN_TABLEBITS
        /\ a.held = bits.held - LITLEN_TABLEBITS /\ a.left \in Nat
    BY <1>1, <2>3, FastConsumeIs
  <2> HIDE DEF a
  <2>5. 11 * extras + LITLEN_TABLEBITS \in Nat /\ n \in Nat /\ n <= a.left
    BY <1>1, <1>3, <2>2, <2>4
  <2>6. Fast(c, 11 * extras + LITLEN_TABLEBITS + n) /\ c.held = a.held - n
    BY <2>4, <2>5, FastConsumeIs
  <2> HIDE DEF c
  <2>7. /\ 11 * extras + LITLEN_TABLEBITS + n \in Nat
        /\ 11 * extras + LITLEN_TABLEBITS + n <= 42 /\ 42 \in Nat /\ 42 \in 0..80
    BY <1>1, <1>3, <2>2
  <2>8. Fast(c, 42)
    BY <2>6, <2>7, NearWeaker
  <2>9. Fast(b, 42) /\ b.held >= 11
    <3>1. CASE W = 8 \/ build.fast
      <4>1. c.held >= 11
        BY <1>1, <1>3, <2>2, <2>4, <2>6, <3>1
      <4> QED BY <2>1, <2>8, <3>1, <4>1
    <3>2. CASE ~(W = 8 \/ build.fast)
      <4>1. Honest(c) /\ Near(c, 42)
        BY <2>8 DEF Fast
      <4>2. b = REFILL_BITS_IN_FASTLOOP(c)
        BY <2>1, <3>2
      <4>3. Fast(b, 42) /\ b.held >= FASTLOOP_PRELOADABLE_NBITS
        BY <2>7, <4>1, <4>2, FastRefillIs
      <4>4. b.held \in Nat
        BY <4>3 DEF Fast, Honest, Reader
      <4> QED BY <1>3, <4>3, <4>4
    <3> QED BY <3>1, <3>2
  <2>10. b.held \in Nat
    BY <2>9 DEF Fast, Honest, Reader
  <2> QED BY <1>3, <2>9, <2>10 DEF b
<1> QED BY <1>2, <1>4, <1>5

\* The bits of an offset, and enough left to look at the next entry, where the
\* code looks without filling the word again.
LEMMA AfterOffsetIs ==
  ASSUME build \in Builds, given \in Nat, NEW c, Fast(c, 42), c.held >= OFFSET_TABLEBITS,
         NEW y \in SymbolSet, y.kind = "match"
  PROVE  LET e == AfterOffset(c, y) IN
         /\ Fast(e, 80) /\ (W = 8 \/ build.fast => e.held >= LITLEN_TABLEBITS)
<1> DEFINE b == Preload(c, OFFSET_TABLEBITS)
           slow == y.offcode > OFFSET_TABLEBITS
           rest == deflate_extra_offset_bits[y.oslot] + y.offcode -
                   (IF slow THEN OFFSET_TABLEBITS ELSE 0)
           full == REFILL_BITS_IN_FASTLOOP(b)
           ready == IF W = 8
                    THEN IF slow
                         THEN Consume(RefillBelow(b, OFFSET_MAXBITS + LITLEN_TABLEBITS - PRELOAD_SLACK),
                                      OFFSET_TABLEBITS)
                         ELSE RefillBelow(b, OFFSET_MAXFASTBITS + LITLEN_TABLEBITS - PRELOAD_SLACK)
                    ELSE IF slow THEN REFILL_BITS_IN_FASTLOOP(Consume(full, OFFSET_TABLEBITS))
                         ELSE full
           e == AfterOffset(c, y)
<1>1. e = Consume(ready, rest)
  BY Consumable DEF AfterOffset
<1> HIDE DEF e
<1>2. /\ LITLEN_TABLEBITS = 11 /\ OFFSET_TABLEBITS = 8 /\ OFFSET_MAXBITS = 28
      /\ OFFSET_MAXFASTBITS = 21 /\ W \in {4, 8} /\ PRELOAD_SLACK \in {0, 1}
      /\ (build.fast => PRELOAD_SLACK = 1) /\ CONSUMABLE_NBITS \in Nat
      /\ CONSUMABLE_NBITS >= 24 /\ (W = 8 => CONSUMABLE_NBITS >= 56)
      /\ FASTLOOP_PRELOADABLE_NBITS \in Nat
      /\ (build.fast => FASTLOOP_PRELOADABLE_NBITS >= 32)
      /\ (~build.fast => PRELOAD_SLACK = 0)
  BY Sizes DEF OFFSET_MAXBITS, OFFSET_MAXFASTBITS
<1>3. /\ (slow => rest \in 0..20) /\ (~slow => rest \in 0..21)
  <2>1. y.offcode \in 1..15 /\ y.oslot \in 1..30
    BY SymbolKinds
  <2>2. deflate_extra_offset_bits[y.oslot] \in 0..13
    BY <2>1, OffsetSlots
  <2> QED BY <1>2, <2>1, <2>2
<1>4. c.held \in Nat /\ OFFSET_TABLEBITS \in Nat /\ OFFSET_TABLEBITS <= c.held /\ 42 \in Nat
      /\ 42 \in 0..80 /\ 50 \in 0..80
  BY <1>2 DEF Fast, Honest, Reader
<1>5. Fast(b, 42)
  BY <1>4, FastPreloadIs
<1> HIDE DEF b, rest, slow
<1>6. Fast(ready, 50) /\ ready.left \in Nat /\ rest \in Nat /\ rest <= ready.left
      /\ (W = 8 => ready.left - rest >= 11 - PRELOAD_SLACK)
      /\ (W = 4 /\ build.fast => ready.held - rest >= 11)
  <2>1. CASE W = 8 /\ slow
    <3> DEFINE n == OFFSET_MAXBITS + LITLEN_TABLEBITS - PRELOAD_SLACK
               r == RefillBelow(b, n)
    <3>1. n \in 38..39
      BY <1>2
    <3>2. n \in Nat /\ n <= CONSUMABLE_NBITS /\ n = 39 - PRELOAD_SLACK
      BY <1>2, <2>1, <3>1
    <3>3. ready = Consume(r, OFFSET_TABLEBITS)
      BY <2>1
    <3> HIDE DEF n, ready
    <3>4. Fast(r, 42) /\ r.left >= n
      BY <1>4, <1>5, <3>2, RefillBelowIs
    <3> HIDE DEF r
    <3>5. r.left \in Nat /\ OFFSET_TABLEBITS <= r.left
      <4>1. r.left \in Nat
        BY <3>4 DEF Fast, Honest, Reader
      <4> QED BY <1>2, <3>1, <3>4, <4>1
    <3>6. Fast(ready, 42 + OFFSET_TABLEBITS) /\ ready.left = r.left - OFFSET_TABLEBITS
          /\ ready.left \in Nat
      BY <1>4, <3>3, <3>4, <3>5, FastConsumeIs
    <3>7. 42 + OFFSET_TABLEBITS = 50
      BY <1>2
    <3>8. ready.left >= 31 - PRELOAD_SLACK
      BY <1>2, <3>2, <3>4, <3>5, <3>6
    <3> QED BY <1>2, <1>3, <2>1, <3>6, <3>7, <3>8
  <2>2. CASE W = 8 /\ ~slow
    <3> DEFINE n == OFFSET_MAXFASTBITS + LITLEN_TABLEBITS - PRELOAD_SLACK
    <3>1. n \in 31..32
      BY <1>2
    <3>2. n \in Nat /\ n <= CONSUMABLE_NBITS /\ n = 32 - PRELOAD_SLACK
      BY <1>2, <2>2, <3>1
    <3>3. ready = RefillBelow(b, n)
      BY <2>2
    <3> HIDE DEF n, ready
    <3>4. Fast(ready, 42) /\ ready.left >= n
      BY <1>4, <1>5, <3>2, <3>3, RefillBelowIs
    <3>5. ready.left \in Nat
      BY <3>4 DEF Fast, Honest, Reader
    <3>6. 50 \in Nat /\ 42 <= 50
      OBVIOUS
    <3>7. Fast(ready, 50)
      BY <1>4, <3>4, <3>6, NearWeaker
    <3> QED BY <1>2, <1>3, <2>2, <3>2, <3>4, <3>5, <3>7
  <2>3. /\ Fast(full, 42) /\ full.left >= CONSUMABLE_NBITS /\ full.left \in Nat
        /\ full.held \in Nat /\ full.held >= FASTLOOP_PRELOADABLE_NBITS
    <3>1. Honest(b) /\ Near(b, 42)
      BY <1>5 DEF Fast
    <3>2. /\ Fast(full, 42) /\ full.left >= CONSUMABLE_NBITS
          /\ full.held >= FASTLOOP_PRELOADABLE_NBITS
      BY <1>4, <3>1, FastRefillIs
    <3> HIDE DEF full
    <3> QED BY <3>2 DEF Fast, Honest, Reader
  <2> HIDE DEF full
  <2>4. CASE W = 4 /\ slow
    <3> DEFINE a == Consume(full, OFFSET_TABLEBITS)
    <3>1. ready = REFILL_BITS_IN_FASTLOOP(a)
      BY <2>4
    <3> HIDE DEF ready
    <3>2. OFFSET_TABLEBITS <= full.left
      BY <1>2, <2>3
    <3>3. Fast(a, 42 + OFFSET_TABLEBITS)
      BY <1>4, <2>3, <3>2, FastConsumeIs
    <3>4. Honest(a) /\ Near(a, 50)
      BY <1>2, <3>3 DEF Fast
    <3> HIDE DEF a
    <3>5. /\ Fast(ready, 50) /\ ready.left >= CONSUMABLE_NBITS
          /\ ready.held >= FASTLOOP_PRELOADABLE_NBITS
      BY <1>4, <3>1, <3>4, FastRefillIs
    <3>6. ready.left \in Nat /\ ready.held \in Nat
      BY <3>5 DEF Fast, Honest, Reader
    <3> QED BY <1>2, <1>3, <2>4, <3>5, <3>6
  <2>5. CASE W = 4 /\ ~slow
    <3>1. ready = full
      BY <2>5
    <3> HIDE DEF ready
    <3>2. 50 \in Nat /\ 42 <= 50
      OBVIOUS
    <3>3. Fast(ready, 50)
      BY <1>4, <2>3, <3>1, <3>2, NearWeaker
    <3> QED BY <1>2, <1>3, <2>3, <2>5, <3>1, <3>3
  <2> QED BY <1>2, <2>1, <2>2, <2>4, <2>5
<1> HIDE DEF ready
<1>7. /\ Fast(e, 50 + rest) /\ e.left = ready.left - rest /\ e.held = ready.held - rest
  BY <1>1, <1>6, FastConsumeIs
<1>8. 50 + rest \in Nat /\ 50 + rest <= 80 /\ 80 \in Nat
  BY <1>3, <1>6
<1>9. Fast(e, 80)
  BY <1>7, <1>8, NearWeaker
<1>10. e.left + PRELOAD_SLACK <= e.held /\ e.left \in Nat /\ e.held \in Nat
  BY <1>9 DEF Fast, Honest, Reader
<1>11. W = 8 \/ build.fast => e.held >= 11
  BY <1>2, <1>6, <1>7, <1>10
<1> QED BY <1>2, <1>9, <1>11 DEF e

\* A copy in groups of words stays within what the fastloop leaves alone.
LEMMA CopyIs ==
  ASSUME build \in Builds, NEW len \in 3..258, NEW off \in Nat \ {0}
  PROVE  /\ CopyEnd(len, off) \in Nat /\ len <= CopyEnd(len, off)
         /\ CopyEnd(len, off) <= FASTLOOP_MAX_BYTES_WRITTEN - 1
<1>1. W \in {4, 8} /\ FASTLOOP_MAX_BYTES_WRITTEN = 259 + 5 * W
  BY Sizes
<1>2. CASE ~build.fast
  BY <1>1, <1>2 DEF CopyEnd
<1>3. CASE build.fast /\ W = 8
  <2>1. CASE off >= 8
    <3>1. CopyEnd(len, off) = 40 * ((len + 39) \div 40)
      BY <1>3, <2>1 DEF CopyEnd, UpTo
    <3> QED BY <1>1, <1>3, <3>1
  <2>2. CASE off = 1
    <3>1. CopyEnd(len, off) = 32 * ((len + 31) \div 32)
      BY <1>3, <2>2 DEF CopyEnd, UpTo
    <3> QED BY <1>1, <1>3, <3>1
  <2>3. CASE off \in 2..7
    <3> DEFINE n == UpTo(len, 2 * off)
    <3>1. CopyEnd(len, off) = (2 * Most(2, n) - 1) * off + 8
      BY <1>3, <2>3 DEF CopyEnd
    <3>2. off = 2 \/ off = 3 \/ off = 4 \/ off = 5 \/ off = 6 \/ off = 7
      BY <2>3
    <3>3. n \in Nat /\ 2 * off * n <= len + 2 * off - 1 /\ len <= 2 * off * n
      BY <3>2 DEF UpTo
    <3> HIDE DEF n
    <3> QED BY <1>1, <1>3, <3>1, <3>2, <3>3 DEF Most
  <2> QED BY <2>1, <2>2, <2>3
<1>4. CASE build.fast /\ W = 4
  <2>1. CASE off >= 4
    <3>1. CopyEnd(len, off) = 20 * ((len + 19) \div 20)
      BY <1>4, <2>1 DEF CopyEnd, UpTo
    <3> QED BY <1>1, <1>4, <3>1
  <2>2. CASE off = 1
    <3>1. CopyEnd(len, off) = 16 * ((len + 15) \div 16)
      BY <1>4, <2>2 DEF CopyEnd, UpTo
    <3> QED BY <1>1, <1>4, <3>1
  <2>3. CASE off \in 2..3
    <3> DEFINE n == UpTo(len, 2 * off)
    <3>1. CopyEnd(len, off) = (2 * Most(2, n) - 1) * off + 4
      BY <1>4, <2>3 DEF CopyEnd
    <3>2. off = 2 \/ off = 3
      BY <2>3
    <3>3. n \in Nat /\ 2 * off * n <= len + 2 * off - 1 /\ len <= 2 * off * n
      BY <3>2 DEF UpTo
    <3> HIDE DEF n
    <3> QED BY <1>1, <1>4, <3>1, <3>2, <3>3 DEF Most
  <2> QED BY <2>1, <2>2, <2>3
<1> QED BY <1>1, <1>2, <1>3, <1>4

LEMMA FastOtherInv ==
  ASSUME build \in Builds, UNCHANGED build, InInv, FastOther
  PROVE  InInv'
<1> DEFINE b(y) == AfterLitlen(y)
           c(y) == AfterOffset(b(y), y)
           before(y) == IF W = 8 \/ build.fast THEN c(y)
                        ELSE RefillBelow(c(y), LITLEN_TABLEBITS - PRELOAD_SLACK)
           len(y) == LengthOfMatch(y)
<1>1. pc = "fastloop" /\ UNCHANGED <<given, space, final, type, d>>
  BY DEF FastOther
<1>2. PICK y \in Coming({"lit", "end", "match"}) :
        /\ ~IsFastLiteral(y) /\ Taken
        /\ CASE y.kind = "lit" -> Iterate(b(y), Written(1, 1))
             [] y.kind = "end" -> BlockDone(b(y), out.next, final) /\ UNCHANGED <<out, extras>>
             [] y.kind = "match" ->
                  IF OffsetOf(y) > out.next
                  THEN Stop("BAD_DATA") /\ bits' = c(y) /\ UNCHANGED <<out, extras>>
                  ELSE Iterate(before(y), Written(len(y), CopyEnd(len(y), OffsetOf(y))))
  BY Consumable DEF FastOther
<1>3. /\ given \in Nat /\ space \in Nat /\ source \in Seq(SymbolSet) /\ final \in BOOLEAN
      /\ d \in [loaded : BOOLEAN, tables : {"none", "static", "dynamic", "precode"}]
      /\ d.tables = type /\ (d.loaded => d.tables = "static")
      /\ out.next \in Nat /\ out.past = FALSE
  BY <1>1, TurnIs
<1>4. given \in Nat /\ space \in Nat /\ out.next \in Nat
  BY <1>3
<1>5. /\ extras \in {0, 1, 2} /\ out.next + FASTLOOP_MAX_BYTES_WRITTEN < space + extras
      /\ FASTLOOP_MAX_BYTES_WRITTEN \in Nat /\ FASTLOOP_MAX_BYTES_WRITTEN >= 259
  BY <1>1, TurnRoom, Sizes
<1>6. y \in SymbolSet /\ y.kind \in {"lit", "end", "match"} /\ source' \in Seq(SymbolSet)
  BY <1>2, <1>3, ComingIs, TakenIs
<1> HIDE DEF before
<1>7. /\ Fast(b(y), 42) /\ b(y).held >= OFFSET_TABLEBITS
      /\ y.kind = "lit" => b(y).held >= LITLEN_TABLEBITS
  BY <1>1, <1>2, <1>4, <1>6, AfterLitlenIs
<1> HIDE DEF b
<1>8. out.next <= space /\ out.next + 1 <= space
  BY <1>4, <1>5
<1>9. CASE y.kind = "lit"
  <2>1. Iterate(b(y), Written(1, 1))
    BY <1>2, <1>9
  <2>2. /\ Written(1, 1).next \in Nat /\ Written(1, 1).past = FALSE
        /\ Written(1, 1).next <= space
    <3>1. 1 \in Nat /\ 1 <= 1
      OBVIOUS
    <3> QED BY <1>3, <1>8, <3>1, WrittenIs
  <2>3. 42 \in 0..80
    OBVIOUS
  <2>4. /\ Honest(bits') /\ out' = Written(1, 1) /\ pc' \in {"fastloop", "generic_loop"}
        /\ pc' = "fastloop" => FastloopAt(bits', out', extras')
    BY <1>4, <1>7, <1>9, <2>1, <2>2, <2>3, IterateIs
  <2>5. TablesOwn'
    BY <1>1, <1>3, <2>4 DEF TablesOwn
  <2> QED BY <1>1, <1>3, <1>6, <2>2, <2>4, <2>5, InNext DEF Control
<1>10. CASE y.kind = "end"
  <2>1. BlockDone(b(y), out.next, final) /\ UNCHANGED out
    BY <1>2, <1>10
  <2>2. Honest(bits') /\ pc' \in {"next_block", "stopped"}
    BY <1>4, <1>7, <2>1, BlockDoneIs DEF Fast
  <2>3. TablesOwn'
    BY <1>1, <1>3, <2>2 DEF TablesOwn
  <2> QED BY <1>1, <1>3, <1>6, <1>8, <2>1, <2>2, <2>3, InNext DEF Control
<1>11. CASE y.kind = "match"
  <2>1. Fast(c(y), 80) /\ (W = 8 \/ build.fast => c(y).held >= LITLEN_TABLEBITS)
    BY <1>4, <1>6, <1>7, <1>11, AfterOffsetIs
  <2> HIDE DEF c
  <2>2. CASE OffsetOf(y) > out.next
    <3>1. pc' = "stopped" /\ bits' = c(y) /\ UNCHANGED out
      BY <1>2, <1>11, <2>2 DEF Stop
    <3>2. Honest(bits')
      BY <2>1, <3>1 DEF Fast
    <3>3. TablesOwn'
      BY <1>1, <1>3, <3>1 DEF TablesOwn
    <3> QED BY <1>1, <1>3, <1>6, <1>8, <3>1, <3>2, <3>3, InNext DEF Control
  <2>3. CASE ~(OffsetOf(y) > out.next)
    <3> DEFINE end == CopyEnd(len(y), OffsetOf(y))
               o == Written(len(y), end)
    <3>1. Iterate(before(y), o)
      BY <1>2, <1>11, <2>3
    <3>2. len(y) \in 3..258 /\ OffsetOf(y) \in Nat \ {0}
      BY <1>6, <1>11, SymbolKinds
    <3>3. end \in Nat /\ len(y) <= end /\ end <= FASTLOOP_MAX_BYTES_WRITTEN - 1
      BY <3>2, CopyIs
    <3> HIDE DEF end, len
    <3>4. len(y) \in Nat /\ out.next + end <= space
      BY <1>4, <1>5, <3>2, <3>3
    <3>5. o.next \in Nat /\ o.past = FALSE /\ o.next <= space
      BY <1>3, <3>3, <3>4, WrittenIs
    <3> HIDE DEF o
    <3>6. Fast(before(y), 80) /\ before(y).held >= LITLEN_TABLEBITS
      <4>1. CASE W = 8 \/ build.fast
        BY <2>1, <4>1 DEF before
      <4>2. CASE ~(W = 8 \/ build.fast)
        <5> DEFINE r == RefillBelow(c(y), LITLEN_TABLEBITS)
        <5>1. /\ LITLEN_TABLEBITS \in Nat /\ LITLEN_TABLEBITS <= CONSUMABLE_NBITS
              /\ LITLEN_TABLEBITS - PRELOAD_SLACK = LITLEN_TABLEBITS
              /\ PRELOAD_SLACK = 0 /\ 80 \in 0..80
          BY <4>2, Sizes
        <5>2. before(y) = r
          BY <4>2, <5>1 DEF before
        <5>3. Fast(r, 80) /\ r.left >= LITLEN_TABLEBITS
          BY <1>4, <2>1, <5>1, RefillBelowIs
        <5> HIDE DEF r
        <5>4. r.left \in Nat /\ r.held \in Nat /\ r.left <= r.held
          BY <5>3 DEF Fast, Honest, Reader
        <5> QED BY <5>1, <5>2, <5>3, <5>4
      <4> QED BY <4>1, <4>2
    <3>7. 80 \in 0..80
      OBVIOUS
    <3>8. /\ Honest(bits') /\ out' = o /\ pc' \in {"fastloop", "generic_loop"}
          /\ pc' = "fastloop" => FastloopAt(bits', out', extras')
      BY <1>4, <3>1, <3>5, <3>6, <3>7, IterateIs
    <3>9. TablesOwn'
      BY <1>1, <1>3, <3>8 DEF TablesOwn
    <3> QED BY <1>1, <1>3, <1>6, <3>5, <3>8, <3>9, InNext DEF Control
  <2> QED BY <2>2, <2>3
<1> QED BY <1>6, <1>9, <1>10, <1>11

LEMMA GenericLoopInv ==
  ASSUME build \in Builds, UNCHANGED build, InInv, GenericLoop
  PROVE  InInv'
<1> DEFINE b == REFILL_BITS(bits)
           len(y) == LengthOfMatch(y)
           a(y) == Consume(b, y.code + deflate_extra_length_bits[y.slot])
           c(y) == IF CAN_CONSUME(LENGTH_MAXBITS + OFFSET_MAXBITS) THEN a(y)
                   ELSE REFILL_BITS(a(y))
           slow(y) == y.offcode > OFFSET_TABLEBITS
           e(y) == IF ~slow(y) THEN c(y)
                   ELSE IF CAN_CONSUME(OFFSET_MAXBITS) THEN Consume(c(y), OFFSET_TABLEBITS)
                   ELSE REFILL_BITS(Consume(c(y), OFFSET_TABLEBITS))
           rest(y) == deflate_extra_offset_bits[y.oslot] + y.offcode -
                      (IF slow(y) THEN OFFSET_TABLEBITS ELSE 0)
           f(y) == Consume(e(y), rest(y))
<1>1. /\ pc = "generic_loop" /\ UNCHANGED <<given, space, final, type, extras, d>>
  BY DEF GenericLoop
<1>2. /\ given \in Nat /\ space \in Nat /\ source \in Seq(SymbolSet) /\ final \in BOOLEAN
      /\ d \in [loaded : BOOLEAN, tables : {"none", "static", "dynamic", "precode"}]
      /\ d.tables = type /\ (d.loaded => d.tables = "static")
      /\ out.next \in Nat /\ out.past = FALSE /\ out.next <= space /\ Honest(bits)
  BY <1>1 DEF InInv, InTypes, TablesOwn
<1>3. given \in Nat /\ space \in Nat /\ out.next \in Nat /\ out.next <= space
  BY <1>2
<1>4. /\ Honest(b) /\ b.left \in Nat /\ b.left >= CONSUMABLE_NBITS
  <2>1. Honest(b) /\ b.left >= CONSUMABLE_NBITS
    BY <1>2, RefillIs
  <2> QED BY <2>1 DEF Honest, Reader
<1>5. /\ CONSUMABLE_NBITS \in Nat /\ CONSUMABLE_NBITS >= 24
      /\ (W = 8 => CONSUMABLE_NBITS >= 56) /\ OFFSET_TABLEBITS = 8
  BY Sizes
<1>6. CASE TooFarOver(b)
  <2>1. pc' = "stopped" /\ bits' = b /\ UNCHANGED <<out, source>>
    BY <1>6 DEF GenericLoop, Stop
  <2>2. TablesOwn'
    BY <1>1, <1>2, <2>1 DEF TablesOwn
  <2> HIDE DEF b
  <2> QED BY <1>1, <1>2, <1>4, <2>1, <2>2, InNext DEF Control
<1>7. CASE ~TooFarOver(b)
  <2>1. PICK y \in Coming({"lit", "end", "match"}) : Taken /\
          CASE y.kind = "lit" ->
                 IF out.next = space
                 THEN Stop("INSUFFICIENT_SPACE") /\ bits' = Consume(b, y.code) /\ UNCHANGED out
                 ELSE out' = Written(1, 1) /\ bits' = Consume(b, y.code) /\ UNCHANGED <<pc, status>>
            [] y.kind = "end" -> BlockDone(Consume(b, y.code), out.next, final) /\ UNCHANGED out
            [] y.kind = "match" ->
                 IF len(y) > space - out.next
                 THEN Stop("INSUFFICIENT_SPACE") /\ bits' = a(y) /\ UNCHANGED out
                 ELSE IF TooFarOver(e(y)) \/ OffsetOf(y) > out.next
                 THEN Stop("BAD_DATA") /\ bits' = e(y) /\ UNCHANGED out
                 ELSE out' = Written(len(y), len(y)) /\ bits' = f(y) /\ UNCHANGED <<pc, status>>
    BY <1>7, ZenonT(60) DEF GenericLoop
  <2> HIDE DEF b, f, e, c, a
  <2>2. y \in SymbolSet /\ y.kind \in {"lit", "end", "match"} /\ source' \in Seq(SymbolSet)
    BY <1>2, <2>1, ComingIs, TakenIs
  <2>3. y.code \in 1..15
    BY <2>2, SymbolKinds
  <2>4. Honest(Consume(b, y.code))
    <3>1. y.code \in Nat /\ y.code <= b.left
      BY <1>4, <1>5, <2>3
    <3> QED BY <1>4, <3>1, ConsumeIs
  <2>5. CASE y.kind = "lit" /\ out.next = space
    <3>1. pc' = "stopped" /\ bits' = Consume(b, y.code) /\ UNCHANGED out
      BY <2>1, <2>5 DEF Stop
    <3>2. TablesOwn'
      BY <1>1, <1>2, <3>1 DEF TablesOwn
    <3> QED BY <1>1, <1>2, <2>2, <2>4, <3>1, <3>2, InNext DEF Control
  <2>6. CASE y.kind = "lit" /\ out.next # space
    <3>1. out' = Written(1, 1) /\ bits' = Consume(b, y.code) /\ pc' = pc
      BY <2>1, <2>6
    <3>2. 1 \in Nat /\ 1 <= 1 /\ out.next + 1 <= space
      BY <1>3, <2>6
    <3>3. out'.next \in Nat /\ out'.past = FALSE /\ out'.next <= space
      BY <1>2, <3>1, <3>2, WrittenIs
    <3>4. TablesOwn'
      BY <1>1, <1>2, <3>1 DEF TablesOwn
    <3> QED BY <1>1, <1>2, <2>2, <2>4, <3>1, <3>3, <3>4, InNext DEF Control
  <2>7. CASE y.kind = "end"
    <3>1. BlockDone(Consume(b, y.code), out.next, final) /\ UNCHANGED out
      BY <2>1, <2>7
    <3>2. Honest(bits') /\ pc' \in {"next_block", "stopped"}
      BY <1>3, <2>4, <3>1, BlockDoneIs
    <3>3. TablesOwn'
      BY <1>1, <1>2, <3>2 DEF TablesOwn
    <3> QED BY <1>1, <1>2, <2>2, <3>1, <3>2, <3>3, InNext DEF Control
  <2>8. CASE y.kind = "match"
    <3>1. /\ y.offcode \in 1..15 /\ y.oslot \in 1..30 /\ y.slot \in 1..29
          /\ len(y) \in 3..258
      BY <2>2, <2>8, SymbolKinds
    <3>2. /\ deflate_extra_length_bits[y.slot] \in 0..5
          /\ deflate_extra_offset_bits[y.oslot] \in 0..13
      BY <3>1, LengthSlots, OffsetSlots
    <3>3. Honest(a(y)) /\ a(y).left \in Nat /\ (W = 8 => a(y).left >= 36)
      <4> DEFINE n == y.code + deflate_extra_length_bits[y.slot]
      <4>1. n \in 0..20
        BY <2>3, <3>2
      <4>2. a(y) = Consume(b, n)
        BY DEF a
      <4> HIDE DEF n
      <4>3. n \in Nat /\ n <= b.left
        BY <1>4, <1>5, <4>1
      <4>4. Honest(a(y)) /\ a(y).left = b.left - n
        BY <1>4, <4>2, <4>3, ConsumeIs
      <4> QED BY <1>4, <1>5, <4>1, <4>3, <4>4
    <3>4. Honest(c(y)) /\ c(y).left \in Nat /\ c(y).left >= 24 /\ (W = 8 => c(y).left >= 36)
      <4>1. CASE W = 8
        BY <3>3, <4>1, Consumable DEF c
      <4>2. CASE W # 8
        <5>1. Honest(REFILL_BITS(a(y))) /\ REFILL_BITS(a(y)).left >= CONSUMABLE_NBITS
          BY <1>3, <3>3, RefillIs
        <5>2. c(y) = REFILL_BITS(a(y))
          BY <4>2, Consumable DEF c
        <5>3. c(y).left \in Nat
          BY <5>1, <5>2 DEF Honest, Reader
        <5> QED BY <1>5, <4>2, <5>1, <5>2, <5>3
      <4> QED BY <4>1, <4>2
    <3>5. Honest(e(y)) /\ e(y).left \in Nat /\ e(y).left >= IF slow(y) THEN 20 ELSE 21
      <4>1. CASE ~slow(y)
        BY <3>4, <4>1 DEF e
      <4>2. CASE slow(y)
        <5> DEFINE h == Consume(c(y), OFFSET_TABLEBITS)
        <5>1. OFFSET_TABLEBITS \in Nat /\ OFFSET_TABLEBITS <= c(y).left
          BY <1>5, <3>4
        <5>2. Honest(h) /\ h.left = c(y).left - OFFSET_TABLEBITS
          BY <3>4, <5>1, ConsumeIs
        <5>3. e(y) = IF W = 8 THEN h ELSE REFILL_BITS(h)
          BY <4>2, Consumable DEF e
        <5> HIDE DEF h
        <5>4. CASE W = 8
          BY <1>5, <3>4, <4>2, <5>1, <5>2, <5>3, <5>4
        <5>5. CASE W # 8
          <6>1. Honest(REFILL_BITS(h)) /\ REFILL_BITS(h).left >= CONSUMABLE_NBITS
            BY <1>3, <5>2, RefillIs
          <6>2. e(y) = REFILL_BITS(h)
            BY <5>3, <5>5
          <6>3. e(y).left \in Nat
            BY <6>1, <6>2 DEF Honest, Reader
          <6> QED BY <1>5, <4>2, <6>1, <6>2, <6>3
        <5> QED BY <5>4, <5>5
      <4> QED BY <4>1, <4>2
    <3>6. Honest(f(y))
      <4>1. rest(y) \in Nat /\ rest(y) <= e(y).left
        BY <1>5, <3>1, <3>2, <3>5
      <4>2. f(y) = Consume(e(y), rest(y))
        BY DEF f
      <4> HIDE DEF rest
      <4> QED BY <3>5, <4>1, <4>2, ConsumeIs
    <3>7. CASE /\ UNCHANGED out /\ pc' = "stopped"
               /\ bits' = a(y) \/ bits' = e(y)
      <4>1. TablesOwn'
        BY <1>1, <1>2, <3>7 DEF TablesOwn
      <4> QED BY <1>1, <1>2, <2>2, <3>3, <3>5, <3>7, <4>1, InNext DEF Control
    <3>8. CASE /\ ~(len(y) > space - out.next)
               /\ out' = Written(len(y), len(y)) /\ bits' = f(y) /\ pc' = pc
      <4>1. len(y) \in Nat /\ len(y) <= len(y) /\ out.next + len(y) <= space
        BY <1>3, <3>1, <3>8
      <4> HIDE DEF len
      <4>2. out'.next \in Nat /\ out'.past = FALSE /\ out'.next <= space
        BY <1>2, <3>8, <4>1, WrittenIs
      <4>3. TablesOwn'
        BY <1>1, <1>2, <3>8 DEF TablesOwn
      <4> QED BY <1>1, <1>2, <2>2, <3>6, <3>8, <4>2, <4>3, InNext DEF Control
    <3> QED BY <2>1, <2>8, <3>7, <3>8 DEF Stop
  <2> QED BY <2>2, <2>5, <2>6, <2>7, <2>8
<1> QED BY <1>6, <1>7

\* A new stream: nothing of it has been read, and the tables are as they were left.
LEMMA DecompressInv ==
  ASSUME build \in Builds, UNCHANGED build, InInv,
         NEW size \in Nat, NEW room \in Nat, NEW symbols \in Seq(SymbolSet),
         Decompress(size, room, symbols)
  PROVE  InInv'
<1>1. /\ bits' = [next |-> 0, left |-> 0, over |-> 0, held |-> 0, past |-> FALSE, short |-> FALSE]
      /\ given' = size /\ space' = room /\ out' = [next |-> 0, past |-> FALSE]
      /\ pc' = "next_block" /\ final' = FALSE /\ source' = symbols /\ d' = d
  BY DEF Decompress
<1>2. /\ d \in [loaded : BOOLEAN, tables : {"none", "static", "dynamic", "precode"}]
      /\ d.loaded => d.tables = "static"
  BY DEF InInv, InTypes, TablesOwn
<1>3. InTypes'
  BY <1>1, <1>2 DEF InTypes
<1>4. TablesOwn'
  BY <1>1, <1>2 DEF TablesOwn
<1>5. Reader(bits')
  BY <1>1 DEF Reader, ReaderFields
<1>6. 0 <= MAX_BITSLEFT' /\ Reader(bits)'
  <2>1. MAX_BITSLEFT' = MAX_BITSLEFT
    BY DEF MAX_BITSLEFT, W
  <2>2. MAX_BITSLEFT \in Nat
    BY Sizes
  <2> QED BY <1>5, <2>1, <2>2 DEF Reader
<1>7. Honest(bits)'
  BY <1>1, <1>6 DEF Honest
<1> QED BY <1>1, <1>3, <1>4, <1>7 DEF InInv

LEMMA InInitInv ==
  ASSUME build \in Builds, InInit
  PROVE  InInv
<1>1. InTypes /\ TablesOwn
  <2>1. /\ pc = "idle" /\ given = 0 /\ space = 0 /\ final = FALSE /\ source = <<>>
        /\ out = [next |-> 0, past |-> FALSE] /\ d = [loaded |-> FALSE, tables |-> "none"]
    BY DEF InInit
  <2>2. d \in [loaded : BOOLEAN, tables : {"none", "static", "dynamic", "precode"}]
    BY <2>1
  <2>3. source \in Seq(SymbolSet)
    BY <2>1
  <2>4. InTypes
    BY <2>1, <2>2, <2>3 DEF InTypes
  <2> QED BY <2>1, <2>4 DEF TablesOwn
<1>2. Reader(bits)
  BY DEF InInit, Reader, ReaderFields
<1>3. MAX_BITSLEFT \in Nat
  BY Sizes
<1>4. Honest(bits)
  BY <1>2, <1>3 DEF InInit, Honest
<1> QED BY <1>1, <1>4 DEF InInit, InInv

LEMMA InStepInv ==
  ASSUME build \in Builds, UNCHANGED build, InInv, InStep
  PROVE  InInv'
<1>1. CASE NextBlock         BY <1>1, NextBlockInv
<1>2. CASE PrecodeLens       BY <1>2, PrecodeLensInv
<1>3. CASE CodewordLens      BY <1>3, CodewordLensInv
<1>4. CASE BuildTables       BY <1>4, BuildTablesInv
<1>5. CASE HaveDecodeTables  BY <1>5, HaveDecodeTablesInv
<1>6. CASE FastLiteral       BY <1>6, FastLiteralInv
<1>7. CASE FastOther         BY <1>7, FastOtherInv
<1>8. CASE GenericLoop       BY <1>8, GenericLoopInv
<1> QED BY <1>1, <1>2, <1>3, <1>4, <1>5, <1>6, <1>7, <1>8 DEF InStep

\* What the compressor does leaves the decompressor alone.
LEMMA InUnchanged ==
  ASSUME UNCHANGED build, UNCHANGED inVars, InInv
  PROVE  InInv'
<1>1. /\ W' = W /\ MAX_BITSLEFT' = MAX_BITSLEFT /\ CONSUMABLE_NBITS' = CONSUMABLE_NBITS
      /\ FASTLOOP_PRELOADABLE_NBITS' = FASTLOOP_PRELOADABLE_NBITS
  BY DEF W, MAX_BITSLEFT, CONSUMABLE_NBITS, FASTLOOP_PRELOADABLE_NBITS
<1>2. /\ PRELOAD_SLACK' = PRELOAD_SLACK /\ FASTLOOP_MAX_BYTES_READ' = FASTLOOP_MAX_BYTES_READ
      /\ FASTLOOP_MAX_BYTES_WRITTEN' = FASTLOOP_MAX_BYTES_WRITTEN
      /\ (RoomForExtras)' = RoomForExtras
  BY <1>1 DEF PRELOAD_SLACK, FASTLOOP_MAX_BYTES_READ, FASTLOOP_MAX_BYTES_WRITTEN,
              RoomForExtras, CAN_CONSUME_AND_THEN_PRELOAD
<1>3. UNCHANGED <<pc, bits, given, space, out, final, type, extras, d, source>>
  BY DEF inVars
<1>4. in_fastloop_end' = in_fastloop_end /\ out_fastloop_end' = out_fastloop_end
  BY <1>2, <1>3 DEF in_fastloop_end, out_fastloop_end
<1>5. Honest(bits)'
  BY <1>1, <1>3 DEF InInv, Honest, Reader
<1>6. ASSUME pc' = "fastloop"
      PROVE  FastloopAt(bits, out, extras)'
  <2>1. FastloopAt(bits, out, extras)
    BY <1>3, <1>6 DEF InInv
  <2> QED BY <1>1, <1>2, <1>3, <1>4, <1>5, <2>1 DEF FastloopAt, Fast, Near
<1>7. InTypes'
  BY <1>3 DEF InInv, InTypes
<1>8. TablesOwn'
  BY <1>3 DEF InInv, TablesOwn
<1> QED BY <1>1, <1>3, <1>5, <1>6, <1>7, <1>8 DEF InInv

-----------------------------------------------------------------------
(***************************************************************************)
(* The largest element of a set, and sequences put end to end.             *)
(***************************************************************************)
LEMMA MaxIs ==
  ASSUME NEW n \in Nat, NEW I \in SUBSET (0..n), I # {}
  PROVE  Max(I) \in I /\ \A i \in I : Max(I) >= i
<1> DEFINE J == {j \in 0..n : n - j \in I}
<1>1. J \in SUBSET Nat /\ J # {}
  <2>1. PICK i \in I : TRUE
    OBVIOUS
  <2>2. n - i \in 0..n /\ n - (n - i) = i
    OBVIOUS
  <2>3. n - i \in J
    BY <2>2
  <2> QED BY <2>3
<1>2. PICK j \in J : \A k \in J : j <= k
  <2> HIDE DEF J
  <2> QED BY <1>1, SmallestExists
<1>3. n - j \in I
  BY <1>2
<1>4. ASSUME NEW i \in I PROVE n - j >= i
  <2>1. n - i \in 0..n /\ n - (n - i) = i
    OBVIOUS
  <2>2. n - i \in J
    BY <2>1
  <2>3. j <= n - i
    BY <1>2, <2>2
  <2> QED BY <2>3
<1> QED BY <1>3, <1>4 DEF Max

\* f puts the first i sequences of s end to end, for every i.
Flattens(s, n, T, f) ==
  /\ f \in [1..n -> Seq(T)] /\ f[1] = s[1]
  /\ \A i \in 2..n : f[i] = f[i - 1] \o s[i]

LEMMA FlattenUnfolds ==
  ASSUME NEW T, NEW n \in Nat \ {0}, NEW s \in [1..n -> Seq(T)]
  PROVE  \E f : Flattens(s, n, T, f) /\ FlattenSeq(s) = f[n]
<1> DEFINE e(f, i) == IF i = 1 THEN s[i] ELSE f[i - 1] \o s[i]
           flatten == CHOOSE f : f = [i \in 1..Len(s) |-> e(f, i)]
           F == [i \in 1..n |-> [c \in Seq(T) |-> c \o s[i]]]
<1>0. Len(s) = n /\ n # 0
  OBVIOUS
<1>1. FlattenSeq(s) = flatten[n]
  BY <1>0 DEF FlattenSeq
<1>2. \A i \in 1..n : s[i] \in Seq(T)
  OBVIOUS
<1>3. F \in [1..n -> [Seq(T) -> Seq(T)]] /\ 1 \in Nat /\ 1 \in 1..n /\ s[1] \in Seq(T)
  BY <1>2
<1>4. \A i \in 1..n : \A c \in Seq(T) : F[i][c] = c \o s[i]
  OBVIOUS
<1> HIDE DEF F
<1>5. PICK g \in [1..n -> Seq(T)] :
        \A i \in 1..n : g[i] = IF i = 1 THEN s[1] ELSE F[i][g[i - 1]]
  <2>1. HasRecursion(1, n, Seq(T), s[1], F)
    BY <1>3, RecursionExists
  <2> QED BY <2>1 DEF HasRecursion
<1>6. \A i \in 1..n : g[i] = e(g, i)
  <2> SUFFICES ASSUME NEW i \in 1..n PROVE g[i] = e(g, i)
    OBVIOUS
  <2>1. CASE i = 1
    BY <1>5, <2>1
  <2>2. CASE i # 1
    <3>1. i - 1 \in 1..n
      BY <2>2
    <3>2. g[i - 1] \in Seq(T)
      BY <1>5, <3>1
    <3>3. g[i] = F[i][g[i - 1]]
      BY <1>5, <2>2
    <3> QED BY <1>4, <2>2, <3>2, <3>3
  <2> QED BY <2>1, <2>2
<1> HIDE DEF e
<1>7. g = [i \in 1..Len(s) |-> e(g, i)]
  BY <1>0, <1>5, <1>6
<1>8. flatten = [i \in 1..Len(s) |-> e(flatten, i)]
  BY <1>7
<1> HIDE DEF flatten
<1>9. \A i \in 1..n : flatten[i] = e(flatten, i)
  BY <1>0, <1>8
<1>10. flatten[1] = s[1]
  BY <1>3, <1>9 DEF e
<1>11. \A i \in 2..n : flatten[i] = flatten[i - 1] \o s[i]
  <2> SUFFICES ASSUME NEW i \in 2..n PROVE flatten[i] = flatten[i - 1] \o s[i]
    OBVIOUS
  <2>1. i \in 1..n /\ i # 1
    OBVIOUS
  <2> QED BY <1>9, <2>1 DEF e
<1>12. \A i \in 1..n : flatten[i] \in Seq(T)
  <2>1. ASSUME NEW i \in (1 + 1)..n, flatten[i - 1] \in Seq(T)
        PROVE  flatten[i] \in Seq(T)
    <3>1. i \in 1..n /\ i \in 2..n
      OBVIOUS
    <3>2. flatten[i] = flatten[i - 1] \o s[i]
      BY <1>11, <3>1
    <3>3. s[i] \in Seq(T)
      BY <1>2, <3>1
    <3> QED BY <2>1, <3>2, <3>3
  <2>2. flatten[1] \in Seq(T)
    BY <1>3, <1>10
  <2> QED BY <2>1, <2>2, RecursionClosed
<1>13. flatten \in [1..n -> Seq(T)]
  BY <1>0, <1>8, <1>12
<1> QED BY <1>1, <1>10, <1>11, <1>13 DEF Flattens

LEMMA FlattenEmpty == FlattenSeq(<<>>) = <<>>
<1>1. Len(<<>>) = 0
  OBVIOUS
<1> QED BY <1>1 DEF FlattenSeq

LEMMA FlattenIs ==
  ASSUME NEW T, NEW n \in Nat, NEW s \in [1..n -> Seq(T)]
  PROVE  FlattenSeq(s) \in Seq(T)
<1>1. CASE n = 0
  <2>1. s = <<>>
    BY <1>1
  <2>2. <<>> \in Seq(T)
    OBVIOUS
  <2> QED BY <2>1, <2>2, FlattenEmpty
<1>2. CASE n # 0
  <2>1. PICK f : Flattens(s, n, T, f) /\ FlattenSeq(s) = f[n]
    BY <1>2, FlattenUnfolds
  <2> QED BY <1>2, <2>1 DEF Flattens
<1> QED BY <1>1, <1>2

LEMMA SumFlatten ==
  ASSUME NEW n \in Nat, NEW s \in [1..n -> Seq(Nat)], NEW P \in [0..n -> Nat], P[0] = 0,
         \A k \in 1..n : P[k] = P[k - 1] + SumFunction(s[k])
  PROVE  SumFunction(FlattenSeq(s)) = P[n]
<1>1. CASE n = 0
  <2>1. s = <<>>
    BY <1>1
  <2>2. FlattenSeq(s) = <<>>
    BY <2>1, FlattenEmpty
  <2> QED BY <1>1, <2>2, SumShort
<1>2. CASE n # 0
  <2>1. PICK f : Flattens(s, n, Nat, f) /\ FlattenSeq(s) = f[n]
    BY <1>2, FlattenUnfolds
  <2>2. /\ f \in [1..n -> Seq(Nat)] /\ f[1] = s[1]
        /\ \A i \in 2..n : f[i] = f[i - 1] \o s[i]
    BY <2>1 DEF Flattens
  <2>3. ASSUME NEW k \in 1..n
        PROVE  f[k] \in Seq(Nat) /\ s[k] \in Seq(Nat) /\ SumFunction(f[k]) \in Nat
               /\ SumFunction(s[k]) \in Nat /\ P[k] \in Nat
    <3>1. f[k] \in Seq(Nat) /\ s[k] \in Seq(Nat) /\ P[k] \in Nat
      BY <2>2
    <3> QED BY <3>1, SumConcat
  <2> DEFINE apart == [k \in 1..n |-> SumFunction(f[k]) - P[k]]
             T == {0}
  <2>4. apart[1] \in T
    <3>1. 1 \in 1..n /\ 1 - 1 = 0
      BY <1>2
    <3>2. P[1] = SumFunction(f[1])
      <4>1. P[1] = P[1 - 1] + SumFunction(s[1])
        BY <3>1
      <4> QED BY <2>2, <2>3, <3>1, <4>1
    <3> QED BY <2>3, <3>1, <3>2
  <2>5. ASSUME NEW k \in (1 + 1)..n, apart[k - 1] \in T
        PROVE  apart[k] \in T
    <3>1. k \in 1..n /\ k - 1 \in 1..n /\ k \in 2..n
      OBVIOUS
    <3>2. f[k] = f[k - 1] \o s[k]
      BY <2>2, <3>1
    <3>3. SumFunction(f[k]) = SumFunction(f[k - 1]) + SumFunction(s[k])
      <4>1. f[k - 1] \in Seq(Nat) /\ s[k] \in Seq(Nat)
        BY <2>3, <3>1
      <4>2. SumFunction(f[k - 1] \o s[k]) = SumFunction(f[k - 1]) + SumFunction(s[k])
        BY <4>1, SumConcat
      <4> QED BY <3>2, <4>2
    <3>4. P[k] = P[k - 1] + SumFunction(s[k])
      BY <3>1
    <3>5. SumFunction(f[k - 1]) = P[k - 1]
      <4>1. SumFunction(f[k - 1]) - P[k - 1] = 0
        BY <2>5, <3>1
      <4> QED BY <2>3, <3>1, <4>1
    <3>6. SumFunction(f[k]) - P[k] = 0
      BY <2>3, <3>1, <3>3, <3>4, <3>5
    <3> QED BY <3>1, <3>6
  <2> HIDE DEF apart, T
  <2>6. \A k \in 1..n : apart[k] \in T
    BY <2>4, <2>5, RecursionClosed
  <2>7. n \in 1..n
    BY <1>2
  <2>8. SumFunction(f[n]) - P[n] = 0
    BY <2>6, <2>7 DEF apart, T
  <2> QED BY <2>1, <2>3, <2>7, <2>8
<1> QED BY <1>1, <1>2

-----------------------------------------------------------------------
(***************************************************************************)
(* The compressor: slots, the items of a block and their codewords.        *)
(***************************************************************************)
Codewords ==
  [lo : 1..14, hi : 1..14, short : 1..14, long : 1..14, off : 1..15, end : 1..14]

LEMMA SlotIs ==
  ASSUME NEW n \in Nat \ {0}, NEW base \in [1..n -> Nat], NEW x \in Nat, base[1] <= x
  PROVE  SlotIn(base, x) \in 1..n /\ base[SlotIn(base, x)] <= x
<1> DEFINE I == {s \in 1..n : base[s] <= x}
<1>1. I \in SUBSET (0..n) /\ 1 \in I
  OBVIOUS
<1>2. DOMAIN base = 1..n
  OBVIOUS
<1>3. SlotIn(base, x) = Max(I)
  BY <1>2 DEF SlotIn
<1>4. Max(I) \in I
  <2> HIDE DEF I
  <2> QED BY <1>1, MaxIs
<1> QED BY <1>3, <1>4

LEMMA LengthSlotIs ==
  ASSUME NEW len \in 3..258
  PROVE  /\ deflate_length_slot(len) \in 1..29
         /\ deflate_length_slot_base[deflate_length_slot(len)] \in Nat
         /\ deflate_length_slot_base[deflate_length_slot(len)] <= len
<1>1. /\ deflate_length_slot_base \in [1..29 -> Nat] /\ deflate_length_slot_base[1] = 3
  BY DEF deflate_length_slot_base
<1>2. 29 \in Nat \ {0} /\ len \in Nat /\ deflate_length_slot_base[1] <= len
  BY <1>1
<1> QED BY <1>1, <1>2, SlotIs DEF deflate_length_slot

LEMMA OffsetSlotIs ==
  ASSUME NEW off \in Nat \ {0}
  PROVE  /\ deflate_get_offset_slot(off) \in 1..30
         /\ deflate_offset_slot_base[deflate_get_offset_slot(off)] \in Nat
         /\ deflate_offset_slot_base[deflate_get_offset_slot(off)] <= off
<1> DEFINE x == IF off <= 256 THEN off ELSE 1 + 128 * ((off - 1) \div 128)
<1>1. /\ deflate_offset_slot_base \in [1..30 -> Nat] /\ deflate_offset_slot_base[1] = 1
  BY DEF deflate_offset_slot_base
<1>2. x \in Nat /\ 1 <= x /\ x <= off
  OBVIOUS
<1>3. deflate_get_offset_slot(off) = SlotIn(deflate_offset_slot_base, x)
  BY DEF deflate_get_offset_slot
<1> HIDE DEF x
<1>4. 30 \in Nat \ {0} /\ deflate_offset_slot_base[1] <= x
  BY <1>1, <1>2
<1>5. /\ SlotIn(deflate_offset_slot_base, x) \in 1..30
      /\ deflate_offset_slot_base[SlotIn(deflate_offset_slot_base, x)] <= x
  <2>1. x \in Nat /\ deflate_offset_slot_base \in [1..30 -> Nat]
    BY <1>1, <1>2
  <2> HIDE DEF deflate_offset_slot_base
  <2> QED BY <1>4, <2>1, SlotIs
<1>6. deflate_offset_slot_base[SlotIn(deflate_offset_slot_base, x)] \in Nat
  BY <1>1, <1>5
<1> QED BY <1>2, <1>3, <1>5, <1>6

LEMMA ItemIs ==
  ASSUME NEW i \in Items
  PROVE  /\ IsLit(i) => i.lit \in {"lo", "hi"}
         /\ ~IsLit(i) => i.len \in 3..258 /\ i.off \in Nat \ {0}
         /\ ItemLen(i) \in Nat
<1>1. CASE i \in {Lo, Hi}
  <2>1. IsLit(i) /\ i.lit \in {"lo", "hi"}
    BY <1>1 DEF IsLit, Lo, Hi
  <2>2. ItemLen(i) = 1
    BY <2>1 DEF ItemLen
  <2> QED BY <2>1, <2>2
<1>2. CASE i \in [len : 3..258, off : 1..DEFLATE_MAX_MATCH_OFFSET]
  <2>0. ASSUME NEW n \in Nat, i \in [len : 3..258, off : 1..n]
        PROVE  ~IsLit(i) /\ i.len \in 3..258 /\ i.off \in Nat \ {0}
    BY <2>0 DEF IsLit
  <2>1. ~IsLit(i) /\ i.len \in 3..258 /\ i.off \in Nat \ {0}
    <3>1. DEFLATE_MAX_MATCH_OFFSET \in Nat
      BY DEF DEFLATE_MAX_MATCH_OFFSET
    <3> QED BY <1>2, <2>0, <3>1
  <2>2. i.len \in 3..258
    BY <2>1
  <2>4. ItemLen(i) = i.len
    BY <2>1 DEF ItemLen
  <2>5. ItemLen(i) \in Nat
    BY <2>2, <2>4
  <2> QED BY <2>1, <2>5
<1> QED BY <1>1, <1>2 DEF Items

\* No litlen codeword with its extra bits is longer than 19 bits.
LEMMA CodewordIs ==
  ASSUME NEW i \in Items, NEW code \in Codewords
  PROVE  /\ code[LitlenSym(i)] \in 1..14
         /\ full_len_codewords(i, code) \in 1..19
         /\ IsLit(i) => full_len_codewords(i, code) \in 1..14
         /\ ~IsLit(i) => ExtraOff(i) \in 0..13
<1>1. LitlenSym(i) \in {"lo", "hi", "short", "long"}
  BY ItemIs DEF LitlenSym
<1>2. code[LitlenSym(i)] \in 1..14
  BY <1>1 DEF Codewords
<1>3. CASE IsLit(i)
  <2>1. ExtraLen(i) = 0
    BY <1>3 DEF ExtraLen
  <2> QED BY <1>2, <1>3, <2>1 DEF full_len_codewords
<1>4. CASE ~IsLit(i)
  <2>1. deflate_length_slot(i.len) \in 1..29 /\ deflate_get_offset_slot(i.off) \in 1..30
    BY <1>4, ItemIs, LengthSlotIs, OffsetSlotIs
  <2>2. ExtraLen(i) \in 0..5
    BY <1>4, <2>1, LengthSlots DEF ExtraLen
  <2>3. ExtraOff(i) \in 0..13
    BY <2>1, OffsetSlots DEF ExtraOff
  <2> QED BY <1>2, <1>4, <2>2, <2>3 DEF full_len_codewords
<1> QED BY <1>3, <1>4

LEMMA SymbolIs ==
  ASSUME NEW i \in Items, NEW code \in Codewords
  PROVE  Symbol(i, code) \in SymbolSet
<1>1. CASE IsLit(i)
  <2>1. code[i.lit] \in 1..15
    <3>1. i.lit \in {"lo", "hi"}
      BY <1>1, ItemIs
    <3>2. code[i.lit] \in 1..14
      BY <3>1 DEF Codewords
    <3> QED BY <3>2
  <2>2. Symbol(i, code) = [kind |-> "lit", code |-> code[i.lit]]
    BY <1>1 DEF Symbol, Literal
  <2>3. Symbol(i, code) \in [kind : {"lit", "end"}, code : 1..15]
    BY <2>1, <2>2
  <2> QED BY <2>3 DEF SymbolSet
<1>2. CASE ~IsLit(i)
  <2> DEFINE s == deflate_length_slot(i.len)
             o == deflate_get_offset_slot(i.off)
             extra == i.len - deflate_length_slot_base[s]
             oextra == i.off - deflate_offset_slot_base[o]
             c == code[LitlenSym(i)]
             y == [kind |-> "match", code |-> c, slot |-> s, extra |-> extra,
                   offcode |-> code.off, oslot |-> o, oextra |-> oextra]
  <2>1. i.len \in 3..258 /\ i.off \in Nat \ {0}
    BY <1>2, ItemIs
  <2>2. /\ s \in 1..29 /\ deflate_length_slot_base[s] \in Nat
        /\ deflate_length_slot_base[s] <= i.len
        /\ o \in 1..30 /\ deflate_offset_slot_base[o] \in Nat
        /\ deflate_offset_slot_base[o] <= i.off
    BY <2>1, LengthSlotIs, OffsetSlotIs
  <2>3. extra \in Nat /\ deflate_length_slot_base[s] + extra <= 258
    BY <2>1, <2>2
  <2>4. oextra \in Nat
    BY <2>1, <2>2
  <2>5. code.off \in 1..15 /\ c \in 1..15
    <3>1. c \in 1..14
      BY CodewordIs
    <3>2. code.off \in 1..15
      BY DEF Codewords
    <3> HIDE DEF c
    <3> QED BY <3>1, <3>2
  <2>6. Symbol(i, code) = y
    BY <1>2 DEF Symbol, MatchSym
  <2> HIDE DEF s, o, extra, oextra, c
  <2>7. y \in Matches /\ y.slot = s /\ y.extra = extra
    BY <2>2, <2>3, <2>4, <2>5 DEF Matches
  <2> HIDE DEF y
  <2>8. y \in {z \in Matches : deflate_length_slot_base[z.slot] + z.extra <= 258}
    BY <2>3, <2>7
  <2> QED BY <2>6, <2>8 DEF SymbolSet
<1> QED BY <1>1, <1>2

-----------------------------------------------------------------------
(***************************************************************************)
(* What is added before a FLUSH_BITS fits the word: 56 bits of eight       *)
(* bytes, or 24 of four, with the 7 that may be left.                      *)
(***************************************************************************)
LEMMA FittingIs ==
  ASSUME build \in Builds
  PROVE  /\ build.word \in {4, 8}
         /\ \A n \in Nat : n <= (IF build.word = 8 THEN 56 ELSE 24) => n \in Fitting
         /\ \A n \in Nat : CAN_BUFFER(n) <=> n <= (IF build.word = 8 THEN 56 ELSE 24)
<1>1. build.word \in {4, 8}
  BY StreamAssumption
<1>2. \A n \in Nat : CAN_BUFFER(n) <=> n <= (IF build.word = 8 THEN 56 ELSE 24)
  BY <1>1 DEF CAN_BUFFER
<1> QED BY <1>1, <1>2 DEF Fitting

LEMMA RunGroupsIs ==
  ASSUME build \in Builds, NEW items \in Seq(Items), NEW code \in Codewords,
         NEW apart \in BOOLEAN, NEW k \in Nat
  PROVE  RunGroups(items, code, apart, k) \in Seq(Fitting)
<1> DEFINE run(j)  == \A i \in k..j : i \in DOMAIN items /\ IsLit(items[i])
           bits_(j) == IF run(j) THEN full_len_codewords(items[j], code) ELSE 0
           start   == Max({j \in 0..k-1 : j = 0 \/ ~IsLit(items[j])}) + 1
           four == bits_(k) + bits_(k + 1) + bits_(k + 2) + bits_(k + 3)
<1>1. ASSUME NEW j \in Nat, k <= j PROVE bits_(j) \in 0..14
  <2>1. CASE run(j)
    <3>1. j \in DOMAIN items /\ IsLit(items[j])
      BY <1>1, <2>1
    <3>2. items[j] \in Items
      BY <3>1
    <3> QED BY <2>1, <3>1, <3>2, CodewordIs
  <2>2. CASE ~run(j)
    BY <2>2
  <2> QED BY <2>1, <2>2
<1>2. /\ bits_(k) \in 0..14 /\ bits_(k + 1) \in 0..14
      /\ bits_(k + 2) \in 0..14 /\ bits_(k + 3) \in 0..14
  <2> HIDE DEF bits_
  <2> QED BY <1>1
<1>3. RunGroups(items, code, apart, k) =
        IF apart \/ ~CAN_BUFFER(4 * 14) THEN <<bits_(k)>>
        ELSE IF (k - start) % 4 = 0 THEN <<four>> ELSE <<>>
  BY DEF RunGroups
<1> HIDE DEF bits_, start
<1>4. bits_(k) \in Fitting
  BY <1>2, FittingIs
<1>5. ASSUME CAN_BUFFER(4 * 14) PROVE four \in Fitting
  <2>1. build.word = 8
    BY <1>5, FittingIs
  <2>2. four \in Nat /\ four <= 56
    <3>1. ASSUME NEW p \in 0..14, NEW q \in 0..14, NEW r \in 0..14, NEW t \in 0..14
          PROVE  p + q + r + t \in Nat /\ p + q + r + t <= 56
      OBVIOUS
    <3> QED BY <1>2, <3>1
  <2> QED BY <2>1, <2>2, FittingIs
<1> HIDE DEF four
<1>6. <<bits_(k)>> \in Seq(Fitting) /\ <<>> \in Seq(Fitting)
  BY <1>4
<1>7. CAN_BUFFER(4 * 14) => <<four>> \in Seq(Fitting)
  BY <1>5
<1> QED BY <1>3, <1>6, <1>7

LEMMA WriteMatchIs ==
  ASSUME build \in Builds, NEW i \in Items, ~IsLit(i), NEW code \in Codewords
  PROVE  WRITE_MATCH(i, code) \in Seq(Fitting)
<1> DEFINE length == full_len_codewords(i, code)
           extra == ExtraOff(i)
<1>1. length \in 1..19 /\ extra \in 0..13
  BY CodewordIs
<1>2. code.off \in 1..15
  BY DEF Codewords
<1>3. WRITE_MATCH(i, code) =
        IF CAN_BUFFER(14 + 5 + 15 + 13) THEN <<length + code.off + extra>>
        ELSE IF CAN_BUFFER(15 + 13) THEN <<length, code.off + extra>>
        ELSE <<length, code.off, extra>>
  BY DEF WRITE_MATCH
<1> HIDE DEF length, extra
<1>4. CASE build.word = 8
  <2>1. length + code.off + extra \in Fitting
    <3>1. length + code.off + extra \in Nat /\ length + code.off + extra <= 56
      BY <1>1, <1>2
    <3> QED BY <1>4, <3>1, FittingIs
  <2>2. CAN_BUFFER(14 + 5 + 15 + 13)
    BY <1>4, FittingIs
  <2> QED BY <1>3, <2>1, <2>2
<1>5. CASE build.word = 4
  <2>1. length \in Fitting /\ code.off \in Fitting /\ extra \in Fitting
    BY <1>1, <1>2, <1>5, FittingIs
  <2>2. ~CAN_BUFFER(14 + 5 + 15 + 13) /\ ~CAN_BUFFER(15 + 13)
    BY <1>5, FittingIs
  <2> QED BY <1>3, <2>1, <2>2
<1> QED BY <1>4, <1>5, FittingIs

LEMMA ItemGroupsIs ==
  ASSUME build \in Builds, NEW items \in Seq(Items), NEW code \in Codewords,
         NEW apart \in BOOLEAN
  PROVE  ItemGroups(items, code, apart) \in Seq(Fitting)
<1> DEFINE s == [k \in DOMAIN items |->
                   IF IsLit(items[k]) THEN RunGroups(items, code, apart, k)
                   ELSE WRITE_MATCH(items[k], code)]
<1>1. DOMAIN items = 1..Len(items) /\ Len(items) \in Nat
  OBVIOUS
<1>2. ASSUME NEW k \in 1..Len(items)
      PROVE  (IF IsLit(items[k]) THEN RunGroups(items, code, apart, k)
              ELSE WRITE_MATCH(items[k], code)) \in Seq(Fitting)
  <2>1. items[k] \in Items /\ k \in Nat
    OBVIOUS
  <2> QED BY <2>1, RunGroupsIs, WriteMatchIs
<1>3. s \in [1..Len(items) -> Seq(Fitting)]
  BY <1>1, <1>2
<1>4. ItemGroups(items, code, apart) = FlattenSeq(s)
  BY DEF ItemGroups
<1> HIDE DEF s
<1> QED BY <1>1, <1>3, <1>4, FlattenIs

LEMMA HeaderGroupsIs ==
  ASSUME build \in Builds, NEW lens \in [explicit : 4..19, items : Seq(1..14)]
  PROVE  HeaderGroups(lens) \in Seq(Fitting)
<1> DEFINE three == [k \in 1..lens.explicit |-> 3]
<1>1. lens.explicit \in 4..19 /\ lens.items \in Seq(1..14)
  OBVIOUS
<1>2. \A n \in 0..24 : n \in Fitting
  BY FittingIs
<1>3. lens.items \in Seq(Fitting)
  <2>1. ASSUME NEW n \in 1..14 PROVE n \in Fitting
    <3>1. n \in 0..24
      OBVIOUS
    <3> QED BY <1>2, <3>1
  <2>2. ASSUME NEW S, NEW T, NEW s \in Seq(S), \A n \in S : n \in T
        PROVE  s \in Seq(T)
    BY <2>2
  <2> DEFINE Bits == 1..14
  <2> HIDE DEF Bits
  <2>3. lens.items \in Seq(Bits) /\ \A n \in Bits : n \in Fitting
    BY <1>1, <2>1 DEF Bits
  <2> QED BY <2>2, <2>3
<1>4. three \in Seq(Fitting)
  <2>1. 3 \in Fitting /\ lens.explicit \in Nat
    BY <1>1, <1>2
  <2>2. three \in [1..lens.explicit -> Fitting]
    BY <2>1
  <2> HIDE DEF three
  <2> QED BY <2>1, <2>2
<1>5. CASE CAN_BUFFER(3 * 18)
  <2>1. build.word = 8
    BY <1>5, FittingIs
  <2>2. 20 \in Fitting /\ 3 * (lens.explicit - 1) \in Fitting
    <3>1. 3 * (lens.explicit - 1) \in Nat /\ 3 * (lens.explicit - 1) <= 56
      <4>1. ASSUME NEW n \in 4..19 PROVE 3 * (n - 1) \in Nat /\ 3 * (n - 1) <= 56
        OBVIOUS
      <4> QED BY <1>1, <4>1
    <3> DEFINE m == 3 * (lens.explicit - 1)
    <3>2. 20 \in 0..24 /\ m \in Nat /\ m <= 56
      BY <3>1
    <3> HIDE DEF m
    <3>3. 20 \in Fitting /\ m \in Fitting
      BY <1>2, <2>1, <3>2, FittingIs
    <3> QED BY <3>3 DEF m
  <2>3. <<20, 3 * (lens.explicit - 1)>> \in Seq(Fitting)
    BY <2>2
  <2>4. HeaderGroups(lens) = <<20, 3 * (lens.explicit - 1)>> \o lens.items
    BY <1>5 DEF HeaderGroups
  <2> QED BY <1>3, <2>3, <2>4
<1>6. CASE ~CAN_BUFFER(3 * 18)
  <2>1. <<17>> \in Seq(Fitting)
    BY <1>2
  <2>2. HeaderGroups(lens) = (<<17>> \o three) \o lens.items
    <3>1. HeaderGroups(lens) = (<<1 + 2 + 5 + 5 + 4>> \o three) \o lens.items
      BY <1>6 DEF HeaderGroups
    <3>2. 1 + 2 + 5 + 5 + 4 = 17
      OBVIOUS
    <3> HIDE DEF three
    <3> QED BY <3>1, <3>2
  <2> HIDE DEF three
  <2>3. <<17>> \o three \in Seq(Fitting)
    BY <1>4, <2>1
  <2> QED BY <1>3, <2>2, <2>3
<1> QED BY <1>5, <1>6

-----------------------------------------------------------------------
(***************************************************************************)
(* What the items of a block take: the same in groups, whichever way the   *)
(* bits of a run of literals are grouped, as by their frequencies.         *)
(***************************************************************************)
ItemBits(i, code) ==
  full_len_codewords(i, code) + IF IsLit(i) THEN 0 ELSE code.off + ExtraOff(i)

ItemsBits(items, code) == [k \in 1..Len(items) |-> ItemBits(items[k], code)]

LEMMA ItemBitsIs ==
  ASSUME NEW items \in Seq(Items), NEW code \in Codewords
  PROVE  /\ ItemsBits(items, code) \in [1..Len(items) -> Nat]
         /\ \A i \in Items : ItemBits(i, code) \in Nat
<1>1. ASSUME NEW i \in Items PROVE ItemBits(i, code) \in Nat
  <2>1. full_len_codewords(i, code) \in 1..19 /\ (~IsLit(i) => ExtraOff(i) \in 0..13)
    BY CodewordIs
  <2>2. code.off \in 1..15
    BY DEF Codewords
  <2> DEFINE l == full_len_codewords(i, code)
             o == code.off
             x == ExtraOff(i)
  <2>3. l \in 1..19 /\ o \in 1..15 /\ (~IsLit(i) => x \in 0..13)
    BY <2>1, <2>2
  <2>4. ItemBits(i, code) = l + IF IsLit(i) THEN 0 ELSE o + x
    BY DEF ItemBits
  <2> HIDE DEF l, o, x
  <2>5. CASE IsLit(i)
    BY <2>3, <2>4, <2>5
  <2>6. CASE ~IsLit(i)
    BY <2>3, <2>4, <2>6
  <2> QED BY <2>5, <2>6
<1>2. \A k \in 1..Len(items) : items[k] \in Items
  OBVIOUS
<1> QED BY <1>1, <1>2 DEF ItemsBits

\* Where the run of literals of k begins, what the literal at j adds if it is in
\* one run with k, and what has been added by k for literals after it.
IsRun(items, k, j) == \A i \in k..j : i \in DOMAIN items /\ IsLit(items[i])
RunStart(items, k) == Max({j \in 0..k-1 : j = 0 \/ ~IsLit(items[j])}) + 1
RunBits(items, code, k, j) ==
  IF IsRun(items, k, j) THEN full_len_codewords(items[j], code) ELSE 0
Ahead(items, code, k) ==
  LET rank == (k - RunStart(items, k)) % 4
      bits_(n) == RunBits(items, code, k, k + n)
  IN  IF rank = 3 THEN 0
      ELSE IF rank = 2 THEN bits_(1)
      ELSE IF rank = 1 THEN bits_(1) + bits_(2)
      ELSE bits_(1) + bits_(2) + bits_(3)

LEMMA RunStartIs ==
  ASSUME NEW items \in Seq(Items), NEW k \in 1..Len(items)
  PROVE  /\ RunStart(items, k) \in 1..k
         /\ IF k > 1 /\ IsLit(items[k - 1]) THEN RunStart(items, k) = RunStart(items, k - 1)
            ELSE RunStart(items, k) = k
<1> DEFINE I == {j \in 0..k-1 : j = 0 \/ ~IsLit(items[j])}
<1>1. k - 1 \in Nat /\ I \in SUBSET (0..(k - 1)) /\ 0 \in I
  OBVIOUS
<1>2. RunStart(items, k) = Max(I) + 1
  BY DEF RunStart
<1>3. Max(I) \in I /\ \A i \in I : Max(I) >= i
  <2> HIDE DEF I
  <2> QED BY <1>1, MaxIs
<1>4. RunStart(items, k) \in 1..k
  BY <1>2, <1>3
<1>5. CASE k > 1 /\ IsLit(items[k - 1])
  <2> DEFINE J == {j \in 0..(k - 1) - 1 : j = 0 \/ ~IsLit(items[j])}
  <2>1. I = J
    BY <1>5
  <2>2. RunStart(items, k - 1) = Max(J) + 1
    BY DEF RunStart
  <2> QED BY <1>2, <1>4, <1>5, <2>1, <2>2
<1>6. CASE ~(k > 1 /\ IsLit(items[k - 1]))
  <2>1. k - 1 \in I
    BY <1>6
  <2>2. Max(I) >= k - 1 /\ Max(I) \in 0..(k - 1)
    BY <1>3, <2>1
  <2>3. Max(I) = k - 1
    <3> DEFINE m == Max(I)
    <3> HIDE DEF m
    <3>1. m >= k - 1 /\ m \in 0..(k - 1)
      BY <2>2 DEF m
    <3>2. m = k - 1
      BY <3>1
    <3> QED BY <3>2 DEF m
  <2> QED BY <1>2, <1>4, <1>6, <2>3
<1> QED BY <1>5, <1>6, <1>4

LEMMA RunBitsIs ==
  ASSUME NEW items \in Seq(Items), NEW code \in Codewords, NEW k \in Nat, NEW j \in Nat,
         k <= j
  PROVE  RunBits(items, code, k, j) \in Nat
<1>1. CASE IsRun(items, k, j)
  <2>1. j \in k..j
    OBVIOUS
  <2>2. j \in DOMAIN items
    BY <1>1, <2>1 DEF IsRun
  <2>3. items[j] \in Items
    BY <2>2
  <2> QED BY <1>1, <2>3, CodewordIs DEF RunBits
<1>2. CASE ~IsRun(items, k, j)
  BY <1>2 DEF RunBits
<1> QED BY <1>1, <1>2

LEMMA AheadIs ==
  ASSUME NEW items \in Seq(Items), NEW code \in Codewords, NEW k \in Nat
  PROVE  /\ Ahead(items, code, k) \in Nat
         /\ \A i \in {k, k + 1} : ~(i \in DOMAIN items /\ IsLit(items[i])) =>
              Ahead(items, code, k) = 0
<1> DEFINE b(n) == RunBits(items, code, k, k + n)
<1>1. b(1) \in Nat /\ b(2) \in Nat /\ b(3) \in Nat
  <2>1. /\ k + 1 \in Nat /\ k + 2 \in Nat /\ k + 3 \in Nat
        /\ k <= k + 1 /\ k <= k + 2 /\ k <= k + 3
    OBVIOUS
  <2> QED BY <2>1, RunBitsIs
<1> DEFINE rank == (k - RunStart(items, k)) % 4
<1>2. Ahead(items, code, k) =
        IF rank = 3 THEN 0 ELSE IF rank = 2 THEN b(1)
        ELSE IF rank = 1 THEN b(1) + b(2) ELSE b(1) + b(2) + b(3)
  BY DEF Ahead
<1>3. ASSUME NEW i \in {k, k + 1}, ~(i \in DOMAIN items /\ IsLit(items[i]))
      PROVE  b(1) = 0 /\ b(2) = 0 /\ b(3) = 0
  <2>1. ASSUME NEW n \in 1..3 PROVE ~IsRun(items, k, k + n)
    <3>1. i \in k..(k + n)
      OBVIOUS
    <3> QED BY <1>3, <3>1 DEF IsRun
  <2> QED BY <2>1 DEF RunBits
<1> HIDE DEF b, rank
<1>4. Ahead(items, code, k) \in Nat
  BY <1>1, <1>2
<1>5. b(1) = 0 /\ b(2) = 0 /\ b(3) = 0 => Ahead(items, code, k) = 0
  BY <1>2
<1> QED BY <1>3, <1>4, <1>5

\* A group of four is counted at its first literal, for the three that follow too.
LEMMA RunStep ==
  ASSUME NEW items \in Seq(Items), NEW code \in Codewords, NEW k \in 1..Len(items),
         IsLit(items[k]), CAN_BUFFER(4 * 14)
  PROVE  /\ RunGroups(items, code, FALSE, k) \in Seq(Nat)
         /\ SumFunction(RunGroups(items, code, FALSE, k)) + Ahead(items, code, k - 1)
              = ItemBits(items[k], code) + Ahead(items, code, k)
<1> DEFINE b(n) == RunBits(items, code, k, k + n)
           a(n) == RunBits(items, code, k - 1, (k - 1) + n)
           start == RunStart(items, k)
           rank == (k - start) % 4
           before == (k - 1 - RunStart(items, k - 1)) % 4
           prev == k > 1 /\ IsLit(items[k - 1])
<1>1. k \in Nat /\ k - 1 \in Nat /\ k \in DOMAIN items
  OBVIOUS
<1>2. RunGroups(items, code, FALSE, k) =
        IF rank = 0 THEN <<b(0) + b(1) + b(2) + b(3)>> ELSE <<>>
  <2>1. RunGroups(items, code, FALSE, k) =
        IF rank = 0 THEN <<RunBits(items, code, k, k) + b(1) + b(2) + b(3)>> ELSE <<>>
    BY DEF RunGroups, RunBits, IsRun, RunStart
  <2>2. k = k + 0
    OBVIOUS
  <2> QED BY <2>1, <2>2
<1>3. /\ Ahead(items, code, k) =
           IF rank = 3 THEN 0 ELSE IF rank = 2 THEN b(1)
           ELSE IF rank = 1 THEN b(1) + b(2) ELSE b(1) + b(2) + b(3)
      /\ Ahead(items, code, k - 1) =
           IF before = 3 THEN 0 ELSE IF before = 2 THEN a(1)
           ELSE IF before = 1 THEN a(1) + a(2) ELSE a(1) + a(2) + a(3)
  BY DEF Ahead
<1>4. b(0) \in Nat /\ b(1) \in Nat /\ b(2) \in Nat /\ b(3) \in Nat
  <2>1. /\ k + 0 \in Nat /\ k + 1 \in Nat /\ k + 2 \in Nat /\ k + 3 \in Nat
        /\ k <= k + 0 /\ k <= k + 1 /\ k <= k + 2 /\ k <= k + 3
    OBVIOUS
  <2> QED BY <1>1, <2>1, RunBitsIs
<1>5. ItemBits(items[k], code) = b(0)
  <2>1. IsRun(items, k, k)
    BY <1>1 DEF IsRun
  <2>2. k = k + 0 /\ items[k] \in Items
    OBVIOUS
  <2>3. b(0) = full_len_codewords(items[k], code)
    BY <2>1, <2>2 DEF RunBits
  <2>4. full_len_codewords(items[k], code) \in Nat
    BY <2>2, CodewordIs
  <2> QED BY <2>3, <2>4 DEF ItemBits
<1>6. ASSUME prev PROVE a(1) = b(0) /\ a(2) = b(1) /\ a(3) = b(2)
  <2>1. ASSUME NEW j \in Nat, k <= j
        PROVE  RunBits(items, code, k - 1, j) = RunBits(items, code, k, j)
    <3>1. k - 1 \in DOMAIN items /\ IsLit(items[k - 1])
      BY <1>6
    <3>2. (k - 1)..j = (k..j) \cup {k - 1}
      BY <2>1
    <3>3. IsRun(items, k - 1, j) <=> IsRun(items, k, j)
      BY <3>1, <3>2 DEF IsRun
    <3> QED BY <3>3 DEF RunBits
  <2>2. (k - 1) + 1 = k + 0 /\ (k - 1) + 2 = k + 1 /\ (k - 1) + 3 = k + 2
    OBVIOUS
  <2>3. k + 0 \in Nat /\ k + 1 \in Nat /\ k + 2 \in Nat
    OBVIOUS
  <2> QED BY <2>1, <2>2, <2>3
<1>7. ASSUME prev PROVE start = RunStart(items, k - 1) /\ start \in 1..(k - 1)
  <2>1. start = RunStart(items, k - 1) /\ k - 1 \in 1..Len(items)
    BY <1>7, RunStartIs
  <2>2. RunStart(items, k - 1) \in 1..(k - 1)
    BY <2>1, RunStartIs
  <2> QED BY <2>1, <2>2
<1>8. ~prev => start = k /\ Ahead(items, code, k - 1) = 0
  <2> SUFFICES ASSUME ~prev PROVE start = k /\ Ahead(items, code, k - 1) = 0
    OBVIOUS
  <2>1. start = k
    BY RunStartIs
  <2>2. ~(k - 1 \in DOMAIN items /\ IsLit(items[k - 1]))
    OBVIOUS
  <2>3. k - 1 \in {k - 1, (k - 1) + 1}
    OBVIOUS
  <2>4. Ahead(items, code, k - 1) = 0
    BY <1>1, <2>2, <2>3, AheadIs
  <2> QED BY <2>1, <2>4
<1> HIDE DEF a, b, start
<1>9. prev => before = (k - 1 - start) % 4
  BY <1>7
<1> DEFINE four == b(0) + b(1) + b(2) + b(3)
<1>10. four \in Nat
  BY <1>4
<1>11. CASE rank = 0
  <2>1. RunGroups(items, code, FALSE, k) = <<four>>
    BY <1>2, <1>11
  <2>2. Ahead(items, code, k - 1) = 0
    <3>1. CASE prev
      <4>1. before = 3
        <5>1. start \in 1..(k - 1)
          BY <1>7, <3>1
        <5>2. (k - 1 - start) % 4 = 3
          BY <1>1, <1>11, <5>1
        <5> QED BY <1>9, <3>1, <5>2
      <4> QED BY <1>3, <4>1
    <3>2. CASE ~prev
      BY <1>8, <3>2
    <3> QED BY <3>1, <3>2
  <2>3. Ahead(items, code, k) = b(1) + b(2) + b(3)
    BY <1>3, <1>11
  <2>4. four = b(0) + (b(1) + b(2) + b(3))
    BY <1>4
  <2>5. four = ItemBits(items[k], code) + Ahead(items, code, k)
    BY <1>5, <2>3, <2>4
  <2> HIDE DEF four
  <2>6. SumFunction(<<four>>) = four /\ <<four>> \in Seq(Nat) /\ four + 0 = four
    BY <1>10, SumShort
  <2> QED BY <2>1, <2>2, <2>5, <2>6
<1>12. CASE rank # 0
  <2>1. prev
    <3> SUFFICES ASSUME ~prev PROVE FALSE
      OBVIOUS
    <3>1. (k - start) % 4 = 0
      BY <1>1, <1>8
    <3> QED BY <1>12, <3>1
  <2>2. before + 1 = rank /\ rank \in {1, 2, 3} /\ before \in Nat
    <3>1. start \in 1..(k - 1)
      BY <1>7, <2>1
    <3>2. /\ ((k - 1 - start) % 4) + 1 = (k - start) % 4 /\ (k - start) % 4 \in {1, 2, 3}
          /\ (k - 1 - start) % 4 \in Nat
      BY <1>1, <1>12, <3>1
    <3> QED BY <1>9, <2>1, <3>2
  <2>3. RunGroups(items, code, FALSE, k) = <<>>
    BY <1>2, <1>12
  <2>4. a(1) = b(0) /\ a(2) = b(1) /\ a(3) = b(2)
    BY <1>6, <2>1
  <2> HIDE DEF before, rank
  <2>5. Ahead(items, code, k - 1) = b(0) + Ahead(items, code, k)
    <3>1. CASE rank = 1
      <4>1. before = 0
        BY <2>2, <3>1
      <4> QED BY <1>3, <1>4, <2>4, <3>1, <4>1
    <3>2. CASE rank = 2
      <4>1. before = 1
        BY <2>2, <3>2
      <4> QED BY <1>3, <1>4, <2>4, <3>2, <4>1
    <3>3. CASE rank = 3
      <4>1. before = 2
        BY <2>2, <3>3
      <4> QED BY <1>3, <1>4, <2>4, <3>3, <4>1
    <3> QED BY <2>2, <3>1, <3>2, <3>3
  <2>6. <<>> \in Seq(Nat) /\ SumFunction(<<>>) = 0
    BY SumShort
  <2>7. Ahead(items, code, k - 1) \in Nat
    BY <1>1, AheadIs
  <2>8. 0 + Ahead(items, code, k - 1) = Ahead(items, code, k - 1)
    BY <2>7
  <2> QED BY <1>5, <2>3, <2>5, <2>6, <2>8
<1> QED BY <1>11, <1>12

LEMMA MatchSum ==
  ASSUME NEW i \in Items, ~IsLit(i), NEW code \in Codewords
  PROVE  /\ WRITE_MATCH(i, code) \in Seq(Nat)
         /\ SumFunction(WRITE_MATCH(i, code)) = ItemBits(i, code)
<1> DEFINE l == full_len_codewords(i, code)
           o == code.off
           x == ExtraOff(i)
<1>1. l \in Nat /\ o \in Nat /\ x \in Nat
  <2>1. l \in 1..19 /\ x \in 0..13
    BY CodewordIs
  <2>2. o \in 1..15
    BY DEF Codewords
  <2> HIDE DEF l, o, x
  <2> QED BY <2>1, <2>2
<1>2. WRITE_MATCH(i, code) =
        IF CAN_BUFFER(14 + 5 + 15 + 13) THEN <<l + o + x>>
        ELSE IF CAN_BUFFER(15 + 13) THEN <<l, o + x>> ELSE <<l, o, x>>
  BY DEF WRITE_MATCH
<1>3. ItemBits(i, code) = l + (o + x)
  BY DEF ItemBits
<1> HIDE DEF l, o, x
<1>4. o + x \in Nat /\ l + o + x \in Nat /\ l + (o + x) = l + o + x
  BY <1>1
<1> DEFINE m == WRITE_MATCH(i, code)
           ox == o + x
           lox == l + o + x
<1>5. m = <<lox>> \/ m = <<l, ox>> \/ m = <<l, o, x>>
  BY <1>2
<1>6. ItemBits(i, code) = lox /\ lox = l + ox /\ lox = l + o + x /\ ox \in Nat /\ lox \in Nat
  BY <1>3, <1>4
<1> HIDE DEF m, ox, lox
<1>7. m \in Seq(Nat)
  <2>1. <<lox>> \in Seq(Nat) /\ <<l, ox>> \in Seq(Nat) /\ <<l, o, x>> \in Seq(Nat)
    BY <1>1, <1>6
  <2> QED BY <1>5, <2>1
<1>8. SumFunction(m) = lox
  <2>1. CASE m = <<lox>>
    BY <1>6, <2>1, SumShort
  <2>2. CASE m = <<l, ox>>
    BY <1>1, <1>6, <2>2, SumFew
  <2>3. CASE m = <<l, o, x>>
    BY <1>1, <1>6, <2>3, SumFew
  <2> QED BY <1>5, <2>1, <2>2, <2>3
<1> QED BY <1>6, <1>7, <1>8 DEF m

LEMMA ItemGroupsSum ==
  ASSUME NEW items \in Seq(Items), NEW code \in Codewords, NEW apart \in BOOLEAN,
         NEW U, Sums(ItemsBits(items, code), Len(items), U)
  PROVE  /\ ItemGroups(items, code, apart) \in Seq(Nat)
         /\ SumFunction(ItemGroups(items, code, apart)) = U[Len(items)]
<1> DEFINE n == Len(items)
           alone == apart \/ ~CAN_BUFFER(4 * 14)
           group(k) == IF IsLit(items[k]) THEN RunGroups(items, code, apart, k)
                       ELSE WRITE_MATCH(items[k], code)
           s == [k \in DOMAIN items |-> group(k)]
           more(k) == IF alone THEN 0 ELSE Ahead(items, code, k)
           P == [k \in 0..n |-> U[k] + more(k)]
<1>1. /\ n \in Nat /\ DOMAIN items = 1..n
      /\ U \in [0..n -> Nat] /\ U[0] = 0
      /\ \A k \in 1..n : U[k] = U[k - 1] + ItemBits(items[k], code)
      /\ \A k \in 1..n : items[k] \in Items /\ ItemBits(items[k], code) \in Nat
  <2>1. /\ U \in [0..n -> Nat] /\ U[0] = 0
        /\ \A k \in 1..n : U[k] = U[k - 1] + ItemsBits(items, code)[k]
    BY DEF Sums
  <2>2. \A k \in 1..n : ItemsBits(items, code)[k] = ItemBits(items[k], code)
    BY DEF ItemsBits
  <2>3. n \in Nat /\ DOMAIN items = 1..n /\ \A k \in 1..n : items[k] \in Items
    OBVIOUS
  <2> QED BY <2>1, <2>2, <2>3, ItemBitsIs
<1>2. ItemGroups(items, code, apart) = FlattenSeq(s)
  BY DEF ItemGroups
<1>3. ASSUME NEW k \in 0..n PROVE more(k) \in Nat
  <2>1. k \in Nat
    OBVIOUS
  <2> QED BY <2>1, AheadIs
<1>4. more(0) = 0 /\ more(n) = 0
  <2>1. Ahead(items, code, 0) = 0
    <3>1. 0 \in {0, 0 + 1} /\ 0 \notin DOMAIN items /\ 0 \in Nat
      BY <1>1
    <3> QED BY <3>1, AheadIs
  <2>2. Ahead(items, code, n) = 0
    <3>1. n + 1 \in {n, n + 1} /\ n + 1 \notin DOMAIN items
      BY <1>1
    <3> HIDE DEF n
    <3> QED BY <1>1, <3>1, AheadIs
  <2> QED BY <2>1, <2>2
<1>5. ASSUME NEW k \in 1..n
      PROVE  /\ group(k) \in Seq(Nat)
             /\ SumFunction(group(k)) + more(k - 1) = ItemBits(items[k], code) + more(k)
  <2> DEFINE u == ItemBits(items[k], code)
  <2>0. u \in Nat /\ k \in Nat /\ k - 1 \in Nat /\ items[k] \in Items
    BY <1>1
  <2>1. CASE ~IsLit(items[k])
    <3>1. group(k) = WRITE_MATCH(items[k], code)
      BY <2>1
    <3>2. group(k) \in Seq(Nat) /\ SumFunction(group(k)) = u
      BY <2>0, <2>1, <3>1, MatchSum
    <3>3. more(k) = 0 /\ more(k - 1) = 0
      <4>1. k \in {k, k + 1} /\ k \in {k - 1, (k - 1) + 1}
        OBVIOUS
      <4>2. Ahead(items, code, k) = 0 /\ Ahead(items, code, k - 1) = 0
        BY <2>0, <2>1, <4>1, AheadIs
      <4> QED BY <4>2
    <3> HIDE DEF group, more, u
    <3> QED BY <2>0, <3>2, <3>3 DEF u
  <2>2. CASE IsLit(items[k]) /\ alone
    <3>1. group(k) = <<RunBits(items, code, k, k)>>
      BY <2>2 DEF RunGroups, RunBits, IsRun
    <3>2. RunBits(items, code, k, k) = u
      <4>1. IsRun(items, k, k)
        BY <1>1, <2>2 DEF IsRun
      <4>2. full_len_codewords(items[k], code) \in Nat
        BY <2>0, CodewordIs
      <4>3. u = full_len_codewords(items[k], code)
        BY <2>2, <4>2 DEF ItemBits
      <4> QED BY <4>1, <4>3 DEF RunBits
    <3>3. more(k) = 0 /\ more(k - 1) = 0
      BY <2>2
    <3> HIDE DEF group, more, u
    <3>4. group(k) \in Seq(Nat) /\ SumFunction(group(k)) = u
      BY <2>0, <3>1, <3>2, SumShort
    <3> QED BY <2>0, <3>3, <3>4 DEF u
  <2>3. CASE IsLit(items[k]) /\ ~alone
    <3>1. group(k) = RunGroups(items, code, FALSE, k)
      BY <2>3
    <3>2. more(k) = Ahead(items, code, k) /\ more(k - 1) = Ahead(items, code, k - 1)
      BY <2>3
    <3>3. k \in 1..Len(items)
      OBVIOUS
    <3> QED BY <2>3, <3>1, <3>2, <3>3, RunStep
  <2> QED BY <2>1, <2>2, <2>3
<1>6. s \in [1..n -> Seq(Nat)] /\ \A k \in 1..n : s[k] = group(k)
  BY <1>1, <1>5
<1> HIDE DEF s, group, more, n
<1>7. P \in [0..n -> Nat] /\ P[0] = 0 /\ P[n] = U[n]
  BY <1>1, <1>3, <1>4
<1>8. ASSUME NEW k \in 1..n PROVE P[k] = P[k - 1] + SumFunction(s[k])
  <2> DEFINE sum == SumFunction(s[k])
             u == ItemBits(items[k], code)
             now == more(k)
             was == more(k - 1)
             U0 == U[k - 1]
  <2>1. k \in 0..n /\ k - 1 \in 0..n
    BY <1>1
  <2>2. sum + was = u + now
    BY <1>5, <1>6
  <2>3. now \in Nat /\ was \in Nat /\ u \in Nat /\ U0 \in Nat /\ sum \in Nat
    <3>1. s[k] \in Seq(Nat)
      BY <1>6
    <3>2. sum \in Nat
      BY <3>1, SumConcat
    <3> QED BY <1>1, <1>3, <2>1, <3>2
  <2>4. P[k] = (U0 + u) + now /\ P[k - 1] = U0 + was
    BY <1>1, <2>1
  <2> HIDE DEF sum, u, now, was, U0, P
  <2>5. P[k] = P[k - 1] + sum
    BY <2>2, <2>3, <2>4
  <2> QED BY <2>5 DEF sum
<1> HIDE DEF P
<1>9. SumFunction(FlattenSeq(s)) = P[n]
  BY <1>1, <1>6, <1>7, <1>8, SumFlatten
<1>10. FlattenSeq(s) \in Seq(Nat)
  BY <1>1, <1>6, FlattenIs
<1> QED BY <1>2, <1>7, <1>9, <1>10 DEF n

LEMMA SymbolsCostIs ==
  ASSUME NEW items \in Seq(Items), NEW code \in Codewords,
         NEW U, Sums(ItemsBits(items, code), Len(items), U)
  PROVE  SymbolsCost(items, code) = code.end + U[Len(items)]
<1> DEFINE n == Len(items)
           S == 1..n
           w == ItemsBits(items, code)
           kinds == {items[k] : k \in DOMAIN items}
           at(x) == {k \in DOMAIN items : items[k] = x}
           c(x) == Cardinality(at(x)) * ItemBits(x, code)
           F == [x \in kinds |-> [sum \in Nat |-> sum + c(x)]]
           e(f, s) == IF s = {} THEN 0
                      ELSE f[s \ {CHOOSE x \in s : TRUE}] + c(CHOOSE x \in s : TRUE)
           iter == CHOOSE f : f = [s \in SUBSET kinds |-> e(f, s)]
<1>1. /\ n \in Nat /\ DOMAIN items = S /\ w \in [1..n -> Nat]
      /\ \A k \in S : items[k] \in Items /\ w[k] = ItemBits(items[k], code)
  <2>1. /\ n \in Nat /\ DOMAIN items = S /\ \A k \in S : items[k] \in Items
    OBVIOUS
  <2> QED BY <2>1, ItemBitsIs DEF ItemsBits
<1>2. SymbolsCost(items, code) = code.end + iter[kinds]
  BY DEF SymbolsCost, ItemBits, FoldSet, MapThenFoldSet
<1> HIDE DEF w
<1>3. PICK g : IsSum(w, S, g) /\ U[n] = g[S]
  <2>1. Sums(w, n, U)
    BY DEF w
  <2>2. PICK g : IsSum(w, 1..n, g) /\ SumFunction(w) = g[1..n]
    BY <1>1, SumUnfolds
  <2>3. SumFunction(w) = U[n]
    BY <1>1, <2>1, SumIsLast
  <2> QED BY <2>2, <2>3
<1>4. IsFiniteSet(S) /\ IsFiniteSet(kinds)
  <2>1. IsFiniteSet(S)
    BY <1>1, FS_Interval
  <2> DEFINE f == [k \in S |-> items[k]]
  <2>2. f \in [S -> kinds] /\ \A x \in kinds : \E k \in S : f[k] = x
    BY <1>1
  <2> HIDE DEF S, kinds, f
  <2>3. f \in Surjection(S, kinds)
    BY <2>2 DEF Surjection
  <2> QED BY <2>1, <2>3, FS_Surjection
<1>5. ASSUME NEW x \in kinds
      PROVE  /\ x \in Items /\ at(x) \in SUBSET S /\ Cardinality(at(x)) \in Nat
             /\ ItemBits(x, code) \in Nat /\ c(x) \in Nat
  <2>1. x \in Items /\ at(x) \in SUBSET S
    BY <1>1
  <2>2. Cardinality(at(x)) \in Nat
    <3>1. IsFiniteSet(at(x))
      BY <1>4, <2>1, FS_Subset
    <3> QED BY <3>1, FS_CardinalityType
  <2>3. ItemBits(x, code) \in Nat
    BY <2>1, ItemBitsIs
  <2>4. ASSUME NEW a \in Nat, NEW b \in Nat PROVE a * b \in Nat
    OBVIOUS
  <2> HIDE DEF at
  <2> QED BY <2>1, <2>2, <2>3, <2>4
<1> HIDE DEF c
<1>6. F \in [kinds -> [Nat -> Nat]] /\ \A x \in kinds : \A m \in Nat : F[x][m] = m + c(x)
  <2> HIDE DEF kinds
  <2>1. \A x \in kinds : c(x) \in Nat
    BY <1>5
  <2>2. \A x \in kinds : \A m \in Nat : m + c(x) \in Nat
    BY <2>1
  <2> QED BY <2>2
<1> HIDE DEF F, kinds, S
<1> DEFINE pick == [s \in SUBSET kinds |-> CHOOSE x \in s : TRUE]
<1>7. ASSUME NEW s \in SUBSET kinds, s # {}
      PROVE  /\ pick[s] \in s /\ pick[s] \in kinds /\ s \ {pick[s]} \in SUBSET kinds
             /\ pick[s] = CHOOSE x \in s : TRUE
  BY <1>7
<1> HIDE DEF pick
<1>8. PICK h \in [SUBSET kinds -> Nat] : \A s \in SUBSET kinds :
        h[s] = IF s = {} THEN 0 ELSE F[pick[s]][h[s \ {pick[s]}]]
  <2>1. \A s \in SUBSET kinds : s # {} => pick[s] \in s
    BY <1>7
  <2>2. HasFold(kinds, Nat, 0, F, pick)
    BY <1>4, <1>6, <2>1, FoldExists
  <2> QED BY <2>2 DEF HasFold
<1>9. \A s \in SUBSET kinds : h[s] = e(h, s)
  <2> SUFFICES ASSUME NEW s \in SUBSET kinds PROVE h[s] = e(h, s)
    OBVIOUS
  <2>1. CASE s = {}
    BY <1>8, <2>1
  <2>2. CASE s # {}
    <3>1. h[s] = F[pick[s]][h[s \ {pick[s]}]] /\ h[s \ {pick[s]}] \in Nat /\ pick[s] \in kinds
      BY <1>7, <1>8, <2>2
    <3>2. h[s] = h[s \ {pick[s]}] + c(pick[s])
      BY <1>6, <3>1
    <3> QED BY <1>7, <2>2, <3>2
  <2> QED BY <2>1, <2>2
<1> HIDE DEF e
<1>10. h = [s \in SUBSET kinds |-> e(h, s)]
  BY <1>8, <1>9
<1>11. iter = [s \in SUBSET kinds |-> e(iter, s)]
  BY <1>10
<1> HIDE DEF iter
<1>12. \A s \in SUBSET kinds :
         iter[s] = IF s = {} THEN 0 ELSE iter[s \ {pick[s]}] + c(pick[s])
  <2> SUFFICES ASSUME NEW s \in SUBSET kinds
               PROVE  iter[s] = IF s = {} THEN 0 ELSE iter[s \ {pick[s]}] + c(pick[s])
    OBVIOUS
  <2>1. iter[s] = e(iter, s)
    BY <1>11
  <2>2. s # {} => pick[s] = CHOOSE x \in s : TRUE
    BY <1>7
  <2> QED BY <2>1, <2>2 DEF e
<1> DEFINE K(s) == {k \in S : items[k] \in s}
           same == [s \in SUBSET kinds |-> IF iter[s] = g[K(s)] THEN 1 ELSE 0]
           T == {1}
<1>13. same[{}] \in T
  <2>1. K({}) = {} /\ g[{}] = 0
    BY <1>3 DEF IsSum
  <2>2. iter[{}] = 0
    BY <1>12
  <2> HIDE DEF K
  <2> QED BY <2>1, <2>2
<1>14. ASSUME NEW s \in SUBSET kinds, s # {}
       PROVE  \E x \in s : same[s \ {x}] \in T => same[s] \in T
  <2> DEFINE x == pick[s]
             A == K(s \ {x})
             B == at(x)
  <2>1. x \in s /\ x \in kinds /\ s \ {x} \in SUBSET kinds
    BY <1>7, <1>14
  <2>2. A \in SUBSET S /\ B \in SUBSET (S \ A) /\ A \cup B = K(s)
    BY <1>1, <2>1
  <2>3. ItemBits(x, code) \in Nat /\ \A k \in B : w[k] = ItemBits(x, code)
    BY <1>1, <1>5, <2>1
  <2>4. iter[s] = iter[s \ {x}] + c(x) /\ c(x) \in Nat
    BY <1>5, <1>12, <1>14, <2>1
  <2>5. c(x) = ItemBits(x, code) * Cardinality(B)
    <3>1. ASSUME NEW a \in Nat, NEW b \in Nat PROVE a * b = b * a
      OBVIOUS
    <3>2. ItemBits(x, code) \in Nat /\ Cardinality(B) \in Nat
      BY <1>5, <2>1
    <3> HIDE DEF B, x
    <3> QED BY <3>1, <3>2 DEF c, B
  <2>6. g[A] \in Nat
    BY <1>3, <2>2 DEF IsSum
  <2> SUFFICES ASSUME same[s \ {x}] \in T PROVE same[s] \in T
    BY <2>1
  <2>7. iter[s \ {x}] = g[A]
    BY <2>1
  <2> HIDE DEF x, A, B, K
  <2>8. g[A \cup B] = g[A] + ItemBits(x, code) * Cardinality(B)
    BY <1>3, <2>2, <2>3, SumRepeats
  <2>9. iter[s] = g[K(s)]
    BY <2>2, <2>4, <2>5, <2>7, <2>8
  <2> QED BY <2>9
<1>15. iter[kinds] = g[S]
  <2> HIDE DEF same, T
  <2>1. same[kinds] \in T
    BY <1>4, <1>13, <1>14, FoldClosed
  <2>2. iter[kinds] = g[K(kinds)]
    BY <2>1 DEF same, T
  <2>3. K(kinds) = S
    BY <1>1 DEF kinds
  <2> QED BY <2>2, <2>3
<1> QED BY <1>2, <1>3, <1>15

\* The header of a dynamic block, with the 3 bits that begin every block.
LEMMA HeaderSum ==
  ASSUME NEW lens \in [explicit : 4..19, items : Seq(1..14)]
  PROVE  /\ HeaderGroups(lens) \in Seq(Nat) /\ SumFunction(lens.items) \in Nat
         /\ SumFunction(HeaderGroups(lens)) = 17 + 3 * lens.explicit + SumFunction(lens.items)
<1> DEFINE m == lens.explicit
           q == lens.items
           threes == [k \in 1..m |-> 3]
<1>1. m \in 4..19 /\ q \in Seq(Nat)
  <2>1. ASSUME NEW s \in Seq(1..14) PROVE s \in Seq(Nat)
    BY <2>1
  <2> QED BY <2>1
<1>2. SumFunction(q) \in Nat
  BY <1>1, SumConcat
<1>3. HeaderGroups(lens) = (IF CAN_BUFFER(3 * 18) THEN <<20, 3 * (m - 1)>>
                            ELSE <<17>> \o threes) \o q
  <2>1. 1 + 2 + 5 + 5 + 4 + 3 = 20 /\ 1 + 2 + 5 + 5 + 4 = 17
    OBVIOUS
  <2> HIDE DEF threes
  <2>2. HeaderGroups(lens) = (IF CAN_BUFFER(3 * 18)
                              THEN <<1 + 2 + 5 + 5 + 4 + 3, 3 * (m - 1)>>
                              ELSE <<1 + 2 + 5 + 5 + 4>> \o threes) \o q
    BY DEF HeaderGroups, threes
  <2> QED BY <2>1, <2>2
<1> HIDE DEF m, q
<1>4. threes \in Seq(Nat) /\ SumFunction(threes) = 3 * m
  <2> DEFINE P == [k \in 0..m |-> 3 * k]
  <2>1. m \in Nat /\ threes \in [1..m -> Nat] /\ threes \in Seq(Nat)
    BY <1>1
  <2>2. P \in [0..m -> Nat] /\ P[0] = 0 /\ P[m] = 3 * m
    BY <1>1
  <2>3. ASSUME NEW k \in 1..m PROVE P[k] = P[k - 1] + threes[k]
    BY <1>1
  <2> HIDE DEF P, threes
  <2>4. Sums(threes, m, P)
    BY <2>2, <2>3 DEF Sums
  <2>5. SumFunction(threes) = P[m]
    BY <2>1, <2>4, SumIsLast
  <2> QED BY <2>1, <2>2, <2>5
<1> HIDE DEF threes
<1> DEFINE first == IF CAN_BUFFER(3 * 18) THEN <<20, 3 * (m - 1)>> ELSE <<17>> \o threes
<1>5. first \in Seq(Nat) /\ SumFunction(first) = 17 + 3 * m
  <2>1. CASE CAN_BUFFER(3 * 18)
    <3> DEFINE l == 3 * (m - 1)
    <3>1. l \in Nat /\ 20 + l = 17 + 3 * m
      BY <1>1
    <3> HIDE DEF l
    <3>2. SumFunction(<<20, l>>) = 20 + l /\ <<20, l>> \in Seq(Nat)
      BY <3>1, SumFew
    <3> QED BY <2>1, <3>1, <3>2 DEF l
  <2>2. CASE ~CAN_BUFFER(3 * 18)
    <3>1. <<17>> \in Seq(Nat) /\ SumFunction(<<17>>) = 17
      BY SumShort
    <3>2. SumFunction(<<17>> \o threes) = SumFunction(<<17>>) + SumFunction(threes)
      BY <1>4, <3>1, SumConcat
    <3>3. SumFunction(<<17>> \o threes) = 17 + 3 * m
      BY <1>4, <3>1, <3>2
    <3>4. <<17>> \o threes \in Seq(Nat)
      BY <1>4, <3>1
    <3> QED BY <2>2, <3>3, <3>4
  <2> QED BY <2>1, <2>2
<1> HIDE DEF first
<1>6. HeaderGroups(lens) = first \o q
  BY <1>3 DEF first
<1>7. first \o q \in Seq(Nat) /\ SumFunction(first \o q) = (17 + 3 * m) + SumFunction(q)
  BY <1>1, <1>5, SumConcat
<1> QED BY <1>2, <1>6, <1>7 DEF m, q

\* What a compressed block adds is what it was chosen for.
LEMMA CompressedSum ==
  ASSUME NEW items \in Seq(Items), NEW code \in Codewords, NEW apart \in BOOLEAN,
         NEW first \in Seq(Nat)
  PROVE  /\ SumFunction(first \o ItemGroups(items, code, apart) \o <<code.end>>)
              = SumFunction(first) + SymbolsCost(items, code)
         /\ SymbolsCost(items, code) \in Nat
<1> DEFINE w == ItemsBits(items, code)
           n == Len(items)
<1>1. w \in [1..n -> Nat] /\ n \in Nat
  BY ItemBitsIs
<1>2. PICK U : Sums(w, n, U)
  <2> HIDE DEF w, n
  <2> QED BY <1>1, SumsExist
<1>3. U[n] \in Nat
  BY <1>1, <1>2 DEF Sums
<1>4. /\ ItemGroups(items, code, apart) \in Seq(Nat)
      /\ SumFunction(ItemGroups(items, code, apart)) = U[n]
  BY <1>2, ItemGroupsSum
<1>5. SymbolsCost(items, code) = code.end + U[n]
  BY <1>2, SymbolsCostIs
<1>6. code.end \in Nat
  BY DEF Codewords
<1> DEFINE groups == ItemGroups(items, code, apart)
           u == U[n]
           end == code.end
<1> HIDE DEF groups, u, end, w, n
<1>7. groups \in Seq(Nat) /\ SumFunction(groups) = u /\ u \in Nat /\ end \in Nat
  BY <1>3, <1>4, <1>6 DEF groups, u, end
<1>8. <<end>> \in Seq(Nat) /\ SumFunction(<<end>>) = end /\ first \o groups \in Seq(Nat)
  BY <1>7, SumShort
<1>9. SumFunction(first \o groups) = SumFunction(first) + u /\ SumFunction(first) \in Nat
  BY <1>7, SumConcat
<1>10. SumFunction((first \o groups) \o <<end>>) = (SumFunction(first) + u) + end
  BY <1>8, <1>9, SumConcat
<1>11. (SumFunction(first) + u) + end = SumFunction(first) + (end + u) /\ end + u \in Nat
  BY <1>7, <1>9
<1> QED BY <1>5, <1>10, <1>11 DEF groups, end, u

-----------------------------------------------------------------------
(***************************************************************************)
(* The output bitstream.                                                   *)
(***************************************************************************)
OutStreams ==
  [next : Nat, bitcount : 0..7, end : Int, avail : Nat, touched : Nat, peak : Nat]

Flushed(s, next, bitcount, touched) ==
  [s EXCEPT !.next = next, !.bitcount = bitcount, !.touched = touched]

LEMMA FlushedIs ==
  ASSUME NEW s \in OutStreams, NEW next \in Nat, NEW bitcount \in 0..7, NEW touched \in Nat
  PROVE  Flushed(s, next, bitcount, touched) \in OutStreams
BY DEF Flushed, OutStreams

LEMMA SizesOut ==
  /\ StoredMax \in Nat \ {0} /\ MinBlock \in Nat \ {0} /\ LenBytes \in Nat
  /\ END_PADDING = 8
BY StreamAssumption DEF END_PADDING

\* The bytes that are left for a block of a row of uncompressed blocks.
LEMMA RowLeft ==
  ASSUME NEW len \in Nat, NEW rows, rows = Most(UpTo(len, StoredMax), 1)
  PROVE  rows \in Nat \ {0} /\ \A n \in 1..rows : len - (n - 1) * StoredMax \in Nat
<1> DEFINE M == StoredMax
           q == (len + M - 1) \div M
<1>1. M \in Nat \ {0}
  BY SizesOut
<1>2. q \in Nat /\ M * q <= len + M - 1
  <2> HIDE DEF M
  <2>1. len + M - 1 \in Nat
    BY <1>1
  <2>2. ASSUME NEW x \in Nat PROVE x \div M \in Nat /\ M * (x \div M) <= x
    BY <1>1
  <2> QED BY <2>1, <2>2
<1>3. rows = IF q < 1 THEN 1 ELSE q
  BY DEF Most, UpTo
<1> HIDE DEF q, M
<1>4. rows \in Nat \ {0}
  BY <1>2, <1>3
<1>5. ASSUME NEW n \in 1..rows PROVE len - (n - 1) * M \in Nat
  <2>1. CASE n = 1
    BY <2>1, <1>1
  <2>2. CASE n # 1
    <3>1. rows = q /\ n - 1 \in Nat /\ n - 1 <= q - 1
      BY <1>2, <1>3, <1>4, <2>2
    <3>2. (n - 1) * M <= (q - 1) * M
      <4>1. ASSUME NEW x \in Nat, NEW y \in Nat, x <= y PROVE x * M <= y * M
        BY <1>1, <4>1
      <4>2. q - 1 \in Nat
        BY <1>2, <3>1
      <4> QED BY <3>1, <4>1, <4>2
    <3>3. (q - 1) * M = M * q - M
      BY <1>1, <1>2
    <3>4. (n - 1) * M \in Int /\ M * q \in Int
      BY <1>1, <1>2, <3>1
    <3>5. (n - 1) * M <= len - 1
      BY <1>1, <1>2, <3>2, <3>3, <3>4
    <3> QED BY <3>4, <3>5
  <2> QED BY <2>1, <2>2
<1>6. \A n \in 1..rows : len - (n - 1) * M \in Nat
  BY <1>5
<1> QED BY <1>4, <1>6 DEF M

\* One block of the row.
StoredRow(was, n, rows, len, final_) ==
  LET now == Least(len - (n - 1) * StoredMax, StoredMax)
      to  == was.s.next + UpTo(was.s.bitcount + 3, 8) + LenBytes + now
  IN  IF ~was.all THEN was
      ELSE IF was.s.end < to THEN [was EXCEPT !.all = FALSE]
      ELSE [s    |-> [was.s EXCEPT !.next = to, !.bitcount = 0, !.touched = Most(@, to)],
            syms |-> Append(was.syms, Stored(final_ /\ n = rows, now)),
            all  |-> TRUE]

\* It ends where it began or further on, inside the buffer.
Rows(s) ==
  {t \in [s : OutStreams, syms : Seq(SymbolSet), all : BOOLEAN] :
     /\ t.s.end = s.end /\ t.s.avail = s.avail /\ t.s.peak = s.peak
     /\ t.s.touched <= s.avail
     /\ s.next <= s.end => t.s.next <= s.end}

LEMMA StoredRowIs ==
  ASSUME NEW s \in OutStreams, s.end <= s.avail, NEW was \in Rows(s),
         NEW len \in Nat, NEW rows, rows = Most(UpTo(len, StoredMax), 1),
         NEW n \in 1..rows, NEW final_ \in BOOLEAN
  PROVE  StoredRow(was, n, rows, len, final_) \in Rows(s)
<1> DEFINE left == len - (n - 1) * StoredMax
           now == Least(left, StoredMax)
           to  == was.s.next + UpTo(was.s.bitcount + 3, 8) + LenBytes + now
           next == [was.s EXCEPT !.next = to, !.bitcount = 0, !.touched = Most(@, to)]
           y == [kind |-> "stored", final |-> final_ /\ n = rows, len |-> now]
           t == [s |-> next, syms |-> Append(was.syms, y), all |-> TRUE]
<1>1. /\ was \in [s : OutStreams, syms : Seq(SymbolSet), all : BOOLEAN]
      /\ was.s \in OutStreams /\ was.syms \in Seq(SymbolSet)
      /\ was.s.end = s.end /\ was.s.avail = s.avail /\ was.s.peak = s.peak
      /\ was.s.touched <= s.avail
      /\ s.next <= s.end => was.s.next <= s.end
  BY DEF Rows
<1>2. /\ s.end \in Int /\ s.avail \in Nat /\ was.s.next \in Nat /\ was.s.bitcount \in 0..7
      /\ was.s.touched \in Nat
  BY <1>1 DEF OutStreams
<1>3. now \in Nat
  <2>1. left \in Nat
    BY RowLeft
  <2> HIDE DEF left
  <2> QED BY <2>1, SizesOut DEF Least
<1>4. to \in Nat
  <2>1. UpTo(was.s.bitcount + 3, 8) \in Nat
    <3>1. was.s.bitcount + 3 \in Nat
      BY <1>2
    <3> QED BY <3>1, UpToIs
  <2> HIDE DEF now
  <2> QED BY <1>2, <1>3, <2>1, SizesOut
<1>5. StoredRow(was, n, rows, len, final_) =
        IF ~was.all THEN was
        ELSE IF was.s.end < to THEN [was EXCEPT !.all = FALSE] ELSE t
  BY DEF StoredRow, Stored
<1> HIDE DEF left, now, to
<1>6. CASE ~was.all
  BY <1>5, <1>6
<1>7. CASE was.all /\ was.s.end < to
  <2>1. [was EXCEPT !.all = FALSE] \in [s : OutStreams, syms : Seq(SymbolSet), all : BOOLEAN]
    BY <1>1
  <2>2. [was EXCEPT !.all = FALSE].s = was.s
    BY <1>1
  <2>3. [was EXCEPT !.all = FALSE] \in Rows(s)
    BY <1>1, <2>1, <2>2 DEF Rows
  <2> QED BY <1>5, <1>7, <2>3
<1>8. CASE was.all /\ ~(was.s.end < to)
  <2>1. to <= s.end /\ Most(was.s.touched, to) \in Nat /\ Most(was.s.touched, to) <= s.avail
    BY <1>1, <1>2, <1>4, <1>8 DEF Most
  <2>2. /\ next \in OutStreams
        /\ next.end = s.end /\ next.avail = s.avail /\ next.peak = s.peak
        /\ next.next = to /\ next.touched = Most(was.s.touched, to)
    <3> DEFINE m == Most(was.s.touched, to)
               none == 0
    <3>1. none \in 0..7 /\ was.s \in OutStreams
      BY <1>1
    <3>2. next = Flushed(was.s, to, none, m)
      BY DEF Flushed
    <3>3. m \in Nat
      BY <2>1
    <3> HIDE DEF m, none, next
    <3>4. /\ next \in OutStreams /\ next.end = was.s.end /\ next.avail = was.s.avail
          /\ next.peak = was.s.peak /\ next.next = to /\ next.touched = m
      <4>1. next \in OutStreams
        BY <1>4, <3>1, <3>2, <3>3, FlushedIs
      <4> QED BY <3>1, <3>2, <4>1 DEF Flushed, OutStreams
    <3> QED BY <1>1, <3>4 DEF m
  <2>3. y \in SymbolSet
    <3>1. (final_ /\ n = rows) \in BOOLEAN
      OBVIOUS
    <3>2. y \in [kind : {"stored"}, final : BOOLEAN, len : Nat]
      BY <1>3, <3>1
    <3> QED BY <3>2 DEF SymbolSet
  <2> HIDE DEF y, next
  <2>4. Append(was.syms, y) \in Seq(SymbolSet)
    BY <1>1, <2>3
  <2>5. t \in [s : OutStreams, syms : Seq(SymbolSet), all : BOOLEAN] /\ t.s = next
    BY <2>2, <2>4
  <2> HIDE DEF t
  <2>6. t \in Rows(s)
    BY <2>1, <2>2, <2>5 DEF Rows
  <2> QED BY <1>5, <1>8, <2>6
<1> QED BY <1>1, <1>6, <1>7, <1>8

\* g adds the blocks of the row one after another.
StoredRows(s, syms, len, final_, g) ==
  LET rows == Most(UpTo(len, StoredMax), 1)
  IN  /\ g \in [0..rows -> Rows(s)]
      /\ g[0] = [s |-> s, syms |-> syms, all |-> TRUE]
      /\ \A n \in 1..rows : g[n] = StoredRow(g[n - 1], n, rows, len, final_)

LEMMA StoredUnfolds ==
  ASSUME NEW s \in OutStreams, s.end <= s.avail, s.touched <= s.avail,
         NEW syms \in Seq(SymbolSet), NEW len \in Nat, NEW final_ \in BOOLEAN
  PROVE  \E g : /\ StoredRows(s, syms, len, final_, g)
                /\ StoredBlocks(s, syms, len, final_) = g[Most(UpTo(len, StoredMax), 1)]
<1> DEFINE rows == Most(UpTo(len, StoredMax), 1)
           base == [s |-> s, syms |-> syms, all |-> TRUE]
           e(f, n) == IF n = 0 THEN base ELSE StoredRow(f[n - 1], n, rows, len, final_)
           row == CHOOSE f : f = [n \in 0..rows |-> e(f, n)]
           T == Rows(s)
           F == [n \in 1..rows |-> [t \in T |-> StoredRow(t, n, rows, len, final_)]]
<1>1. base \in T
  <2>1. base \in [s : OutStreams, syms : Seq(SymbolSet), all : BOOLEAN] /\ base.s = s
    OBVIOUS
  <2> HIDE DEF base
  <2> QED BY <2>1 DEF Rows
<1>2. rows \in Nat \ {0}
  BY RowLeft
<1>3. \A n \in 1..rows : \A t \in T : StoredRow(t, n, rows, len, final_) \in T
  <2> HIDE DEF rows
  <2>1. rows = Most(UpTo(len, StoredMax), 1)
    BY DEF rows
  <2> QED BY <2>1, StoredRowIs
<1>4. StoredBlocks(s, syms, len, final_) = row[rows]
  BY DEF StoredBlocks, StoredRow
<1> HIDE DEF base, rows, T
<1>5. F \in [1..rows -> [T -> T]]
  BY <1>3
<1>6. \A n \in 1..rows : \A t \in T : F[n][t] = StoredRow(t, n, rows, len, final_)
  OBVIOUS
<1> HIDE DEF F
<1>7. PICK g \in [0..rows -> T] :
        \A i \in 0..rows : g[i] = IF i = 0 THEN base ELSE F[i][g[i - 1]]
  <2>1. HasRecursion(0, rows, T, base, F)
    BY <1>1, <1>2, <1>5, RecursionExists
  <2> QED BY <2>1 DEF HasRecursion
<1>8. \A n \in 0..rows : g[n] = e(g, n)
  <2> SUFFICES ASSUME NEW n \in 0..rows PROVE g[n] = e(g, n)
    OBVIOUS
  <2>1. CASE n = 0
    BY <1>7, <2>1
  <2>2. CASE n # 0
    <3>1. n \in 1..rows /\ n - 1 \in 0..rows
      BY <1>2, <2>2
    <3>2. g[n - 1] \in T /\ g[n] = F[n][g[n - 1]]
      BY <1>7, <2>2, <3>1
    <3> QED BY <1>6, <2>2, <3>1, <3>2
  <2> QED BY <2>1, <2>2
<1> HIDE DEF e
<1>9. g = [n \in 0..rows |-> e(g, n)]
  BY <1>7, <1>8
<1>10. row = [n \in 0..rows |-> e(row, n)]
  BY <1>9
<1> HIDE DEF row
<1>11. \A n \in 0..rows : row[n] = e(row, n)
  BY <1>10
<1>12. row[0] \in T
  BY <1>1, <1>2, <1>11 DEF e
<1>13. ASSUME NEW n \in (0 + 1)..rows, row[n - 1] \in T
       PROVE  row[n] \in T
  <2>1. n \in 1..rows /\ n # 0 /\ n \in 0..rows
    BY <1>2
  <2>2. row[n] = StoredRow(row[n - 1], n, rows, len, final_)
    BY <1>11, <2>1 DEF e
  <2> QED BY <1>3, <1>13, <2>1, <2>2
<1>14. \A n \in 0..rows : row[n] \in T
  BY <1>2, <1>12, <1>13, RecursionClosed
<1>15. row \in [0..rows -> T]
  BY <1>10, <1>14
<1>16. row[0] = base
  BY <1>2, <1>11 DEF e
<1>17. \A n \in 1..rows : row[n] = StoredRow(row[n - 1], n, rows, len, final_)
  <2> SUFFICES ASSUME NEW n \in 1..rows
               PROVE  row[n] = StoredRow(row[n - 1], n, rows, len, final_)
    OBVIOUS
  <2>1. n # 0 /\ n \in 0..rows
    BY <1>2
  <2> QED BY <1>11, <2>1 DEF e
<1>18. StoredRows(s, syms, len, final_, row)
  BY <1>15, <1>16, <1>17 DEF StoredRows, T, base, rows
<1> QED BY <1>4, <1>18 DEF rows

LEMMA StoredBlocksIs ==
  ASSUME NEW s \in OutStreams, s.end <= s.avail, s.touched <= s.avail,
         NEW syms \in Seq(SymbolSet), NEW len \in Nat, NEW final_ \in BOOLEAN
  PROVE  StoredBlocks(s, syms, len, final_) \in Rows(s)
<1> DEFINE rows == Most(UpTo(len, StoredMax), 1)
<1>1. PICK g : /\ StoredRows(s, syms, len, final_, g)
               /\ StoredBlocks(s, syms, len, final_) = g[rows]
  BY StoredUnfolds
<1>2. rows \in 0..rows
  <2>1. rows \in Nat \ {0}
    BY RowLeft
  <2> HIDE DEF rows
  <2> QED BY <2>1
<1>3. g \in [0..rows -> Rows(s)]
  BY <1>1 DEF StoredRows
<1> HIDE DEF rows
<1> QED BY <1>1, <1>2, <1>3

LEMMA UpToAny ==
  ASSUME NEW n \in Nat, NEW d_ \in Nat \ {0}
  PROVE  /\ UpTo(n, d_) \in Nat /\ n <= d_ * UpTo(n, d_) /\ d_ * UpTo(n, d_) < n + d_
         /\ n > 0 => UpTo(n, d_) > 0
<1> DEFINE x == n + d_ - 1
           q == x \div d_
<1>1. x \in Nat /\ UpTo(n, d_) = q
  BY DEF UpTo
<1> HIDE DEF x
<1>2. ASSUME NEW y \in Nat
      PROVE  /\ y \div d_ \in Nat /\ d_ * (y \div d_) <= y /\ y < d_ * (y \div d_) + d_
             /\ (y >= d_ => y \div d_ > 0)
  <2>1. y \div d_ \in Nat /\ y % d_ \in 0..(d_ - 1) /\ y = d_ * (y \div d_) + (y % d_)
    OBVIOUS
  <2> DEFINE z == y \div d_
             m == d_ * z
             l == y % d_
  <2>2. z \in Nat /\ m \in Nat /\ l \in 0..(d_ - 1) /\ y = m + l /\ (z = 0 => m = 0)
    BY <2>1
  <2> HIDE DEF z, m, l
  <2>3. m <= y /\ y < m + d_ /\ (y >= d_ => z > 0)
    BY <2>2
  <2> QED BY <2>2, <2>3 DEF z, m
<1>3. q \in Nat /\ d_ * q <= x /\ x < d_ * q + d_ /\ (x >= d_ => q > 0)
  BY <1>1, <1>2
<1> HIDE DEF q
<1> DEFINE m == d_ * q
<1>4. m \in Nat
  BY <1>3
<1> HIDE DEF m
<1>5. m <= x /\ x < m + d_ /\ x = n + d_ - 1
  BY <1>3 DEF m, x
<1>6. n <= m /\ m < n + d_ /\ (n > 0 => x >= d_)
  BY <1>4, <1>5
<1> QED BY <1>1, <1>3, <1>6 DEF m

LEMMA StoredRowSize ==
  ASSUME NEW s \in OutStreams, NEW was \in Rows(s),
         NEW len \in Nat, NEW rows, NEW n, NEW final_, NEW to \in Nat,
         to = was.s.next + UpTo(was.s.bitcount + 3, 8) + LenBytes
                + Least(len - (n - 1) * StoredMax, StoredMax),
         NEW t, t = StoredRow(was, n, rows, len, final_)
  PROVE  IF was.all /\ to <= s.end THEN t.all /\ t.s.next = to /\ t.s.bitcount = 0
         ELSE ~t.all
<1> DEFINE now == Least(len - (n - 1) * StoredMax, StoredMax)
           next == [was.s EXCEPT !.next = to, !.bitcount = 0, !.touched = Most(@, to)]
           full == [s |-> next, all |-> TRUE,
                    syms |-> Append(was.syms, Stored(final_ /\ n = rows, now))]
<1>1. /\ was \in [s : OutStreams, syms : Seq(SymbolSet), all : BOOLEAN]
      /\ was.s \in OutStreams /\ was.s.end = s.end
  BY DEF Rows
<1>2. t = IF ~was.all THEN was ELSE IF s.end < to THEN [was EXCEPT !.all = FALSE] ELSE full
  BY <1>1 DEF StoredRow
<1>3. s.end \in Int /\ (s.end < to <=> ~(to <= s.end))
  <2>1. s.end \in Int
    BY DEF OutStreams
  <2> QED BY <2>1
<1>4. [was EXCEPT !.all = FALSE].all = FALSE
  BY <1>1
<1>5. next.next = to /\ next.bitcount = 0
  BY <1>1 DEF OutStreams
<1>6. full.all = TRUE /\ full.s = next
  OBVIOUS
<1> HIDE DEF full, next
<1> QED BY <1>2, <1>3, <1>4, <1>5, <1>6

\* Where a row of uncompressed blocks ends if there is room for all of it.
StoredEnd(s, len) ==
  s.next + UpTo(s.bitcount + 3, 8) - 1 + (1 + LenBytes) * Most(UpTo(len, StoredMax), 1) + len

LEMMA StoredSize ==
  ASSUME NEW s \in OutStreams, s.end <= s.avail, s.touched <= s.avail,
         NEW syms \in Seq(SymbolSet), NEW len \in Nat, NEW final_ \in BOOLEAN,
         NEW o, o = StoredBlocks(s, syms, len, final_)
  PROVE  /\ o.all => o.s.next = StoredEnd(s, len) /\ o.s.bitcount = 0
         /\ StoredEnd(s, len) <= s.end => o.all
<1> DEFINE rows == Most(UpTo(len, StoredMax), 1)
           head == UpTo(s.bitcount + 3, 8)
           heads(n) == (1 + LenBytes) * n
           end(n) == s.next + head - 1 + heads(n) + Least(len, n * StoredMax)
<1>1. PICK g : StoredRows(s, syms, len, final_, g) /\ o = g[rows]
  BY StoredUnfolds
<1>2. /\ g \in [0..rows -> Rows(s)]
      /\ g[0] = [s |-> s, syms |-> syms, all |-> TRUE]
      /\ \A n \in 1..rows : g[n] = StoredRow(g[n - 1], n, rows, len, final_)
  BY <1>1 DEF StoredRows
<1>3. s.next \in Nat /\ s.bitcount \in 0..7 /\ s.end \in Int /\ StoredMax \in Nat \ {0} /\ LenBytes \in Nat
  BY SizesOut DEF OutStreams
<1>4. head \in Nat /\ head >= 1
  <2> DEFINE x == s.bitcount + 3
  <2>1. x \in Nat /\ x > 0 /\ 8 \in Nat \ {0}
    BY <1>3
  <2> HIDE DEF x
  <2>2. UpTo(x, 8) \in Nat /\ UpTo(x, 8) > 0
    BY <2>1, UpToAny
  <2> QED BY <2>2 DEF x
<1>5. /\ rows \in Nat \ {0} /\ \A n \in 1..rows : len - (n - 1) * StoredMax \in Nat
      /\ len <= rows * StoredMax
  <2>1. rows \in Nat \ {0} /\ \A n \in 1..rows : len - (n - 1) * StoredMax \in Nat
    BY RowLeft
  <2>2. len <= rows * StoredMax
    <3> DEFINE q == UpTo(len, StoredMax)
    <3>1. q \in Nat /\ len <= StoredMax * q
      BY <1>3, UpToAny
    <3>2. rows = IF q < 1 THEN 1 ELSE q
      BY DEF Most
    <3> HIDE DEF q, rows
    <3>3. CASE q < 1
      <4>1. q = 0 /\ len <= 0 /\ rows = 1
        BY <1>3, <3>1, <3>2, <3>3
      <4> QED BY <1>3, <4>1
    <3>4. CASE ~(q < 1)
      <4>1. rows = q /\ StoredMax * q = q * StoredMax
        BY <1>3, <3>1, <3>2, <3>4
      <4> QED BY <3>1, <4>1
    <3> QED BY <3>3, <3>4
  <2> QED BY <2>1, <2>2
<1> HIDE DEF rows, head
<1>6. ASSUME NEW n \in 1..rows
      PROVE  /\ end(n) \in Nat /\ Least(len - (n - 1) * StoredMax, StoredMax) \in Nat
             /\ n = 1 => end(n) = s.next + head + LenBytes
                                    + Least(len - (n - 1) * StoredMax, StoredMax)
             /\ n > 1 => end(n) = end(n - 1) + 1 + LenBytes
                                    + Least(len - (n - 1) * StoredMax, StoredMax)
  <2> DEFINE before == (n - 1) * StoredMax
             after == n * StoredMax
             h0 == heads(n - 1)
             h1 == heads(n)
  <2>1. after = before + StoredMax /\ h1 = h0 + (1 + LenBytes)
    BY <1>3
  <2>2. before \in Nat /\ h0 \in Nat /\ len - before \in Nat /\ n \in Nat
    <3>1. ASSUME NEW a \in Nat, NEW b \in Nat PROVE a * b \in Nat
      OBVIOUS
    <3>2. n - 1 \in Nat /\ 1 + LenBytes \in Nat
      BY <1>3
    <3> QED BY <1>3, <1>5, <3>1, <3>2
  <2>3. n = 1 => before = 0 /\ h0 = 0
    BY <1>3
  <2>4. /\ end(n) = s.next + head - 1 + h1 + Least(len, after)
        /\ end(n - 1) = s.next + head - 1 + h0 + Least(len, before)
    OBVIOUS
  <2> HIDE DEF before, after, h0, h1, heads, end
  <2>5. Least(len, before) = before
    BY <2>2 DEF Least
  <2>6. Least(len, after) = before + Least(len - before, StoredMax)
    BY <1>3, <2>1, <2>2 DEF Least
  <2> DEFINE now == Least(len - before, StoredMax)
             e1 == end(n)
             e0 == end(n - 1)
  <2>7. now \in Nat
    BY <1>3, <2>2 DEF Least
  <2> HIDE DEF now, e1, e0
  <2>8. e1 = s.next + head - 1 + (h0 + (1 + LenBytes)) + (before + now) /\
        e0 = s.next + head - 1 + h0 + before
    BY <2>1, <2>4, <2>5, <2>6 DEF now, e1, e0
  <2>9. /\ e1 \in Nat
        /\ n = 1 => e1 = s.next + head + LenBytes + now
        /\ n > 1 => e1 = e0 + 1 + LenBytes + now
    <3> DEFINE a == s.next
    <3>1. a \in Nat /\ LenBytes \in Nat
      BY <1>3
    <3> HIDE DEF a
    <3>2. e1 = a + head - 1 + (h0 + (1 + LenBytes)) + (before + now) /\
          e0 = a + head - 1 + h0 + before
      BY <2>8 DEF a
    <3>3. e1 \in Nat
      BY <1>4, <2>2, <2>7, <3>1, <3>2
    <3>4. n = 1 => e1 = a + head + LenBytes + now
      BY <1>4, <2>2, <2>3, <2>7, <3>1, <3>2
    <3>5. n > 1 => e1 = e0 + 1 + LenBytes + now
      BY <1>4, <2>2, <2>7, <3>1, <3>2
    <3> QED BY <3>3, <3>4, <3>5 DEF a
  <2> QED BY <2>7, <2>9 DEF now, e1, e0, before
<1> DEFINE good(n) == /\ g[n].all => g[n].s.next = end(n) /\ g[n].s.bitcount = 0
                      /\ ~g[n].all => s.end < end(n)
           held == [n \in 1..rows |-> IF good(n) THEN 1 ELSE 0]
           T == {1}
<1> HIDE DEF end
<1>7. held[1] \in T
  <2> DEFINE to == end(1)
             t == g[1]
             was == g[0]
  <2>1. 1 \in 1..rows /\ 0 \in 0..rows /\ 1 - 1 = 0
    BY <1>5
  <2>2. was \in Rows(s) /\ was.all = TRUE /\ was.s = s
    <3>1. was \in Rows(s)
      BY <1>2, <2>1
    <3>2. was = [s |-> s, syms |-> syms, all |-> TRUE]
      BY <1>2
    <3> QED BY <3>1, <3>2
  <2>3. to \in Nat /\ to = was.s.next + UpTo(was.s.bitcount + 3, 8) + LenBytes
                             + Least(len - (1 - 1) * StoredMax, StoredMax)
    BY <1>6, <2>1, <2>2 DEF head
  <2>4. t = StoredRow(was, 1, rows, len, final_)
    BY <1>2, <2>1
  <2> HIDE DEF to, t, was
  <2>5. IF was.all /\ to <= s.end THEN t.all /\ t.s.next = to /\ t.s.bitcount = 0
        ELSE ~t.all
    BY <2>2, <2>3, <2>4, StoredRowSize
  <2>6. good(1)
    BY <1>3, <2>2, <2>3, <2>5 DEF to, t
  <2> QED BY <2>1, <2>6
<1>8. ASSUME NEW n \in (1 + 1)..rows, held[n - 1] \in T
      PROVE  held[n] \in T
  <2> DEFINE to == end(n)
             t == g[n]
             was == g[n - 1]
             now == Least(len - (n - 1) * StoredMax, StoredMax)
  <2>1. n \in 1..rows /\ n - 1 \in 1..rows /\ n - 1 \in 0..rows /\ n > 1
    BY <1>5
  <2>2. good(n - 1)
    BY <1>8, <2>1
  <2>3. was \in Rows(s)
    BY <1>2, <2>1
  <2>4. to \in Nat /\ end(n - 1) \in Nat /\ to = end(n - 1) + 1 + LenBytes + now /\ now \in Nat
    BY <1>6, <2>1
  <2>5. t = StoredRow(was, n, rows, len, final_)
    BY <1>2, <2>1
  <2> HIDE DEF to, t, now
  <2>6. CASE was.all
    <3>1. was.s.next = end(n - 1) /\ was.s.bitcount = 0
      BY <2>2, <2>6
    <3>2. UpTo(0 + 3, 8) = 1
      BY DEF UpTo
    <3>3. to = was.s.next + UpTo(was.s.bitcount + 3, 8) + LenBytes + now
      BY <1>3, <2>4, <3>1, <3>2
    <3> HIDE DEF was
    <3>4. IF was.all /\ to <= s.end THEN t.all /\ t.s.next = to /\ t.s.bitcount = 0
          ELSE ~t.all
      BY <2>3, <2>4, <2>5, <3>3, StoredRowSize DEF now
    <3>5. good(n)
      BY <1>3, <2>4, <2>6, <3>4 DEF to, t
    <3> QED BY <2>1, <3>5
  <2>7. CASE ~was.all
    <3>1. s.end < end(n - 1)
      BY <2>2, <2>7
    <3>2. s.end < to
      BY <1>3, <2>4, <3>1
    <3>3. t = was
      BY <2>5, <2>7 DEF StoredRow
    <3>4. good(n)
      BY <2>7, <3>2, <3>3 DEF to, t
    <3> QED BY <2>1, <3>4
  <2> QED BY <2>6, <2>7
<1>9. good(rows)
  <2> HIDE DEF held, T, good
  <2>1. \A n \in 1..rows : held[n] \in T
    <3>1. 1 \in Nat /\ rows \in Nat
      BY <1>5
    <3> QED BY <1>7, <1>8, <3>1, RecursionClosed
  <2>2. rows \in 1..rows
    BY <1>5
  <2>3. held[rows] \in T
    BY <2>1, <2>2
  <2> QED BY <2>2, <2>3 DEF held, T
<1>10. end(rows) = StoredEnd(s, len) /\ end(rows) \in Nat
  <2>1. Least(len, rows * StoredMax) = len
    <3> DEFINE x == rows * StoredMax
    <3>1. x \in Int /\ len <= x
      BY <1>3, <1>5
    <3> HIDE DEF x
    <3>2. Least(len, x) = len
      BY <3>1 DEF Least
    <3> QED BY <3>2 DEF x
  <2>2. rows \in 1..rows
    BY <1>5
  <2>3. end(rows) \in Nat
    BY <1>6, <2>2
  <2>4. end(rows) = s.next + head - 1 + (1 + LenBytes) * rows + len
    BY <2>1 DEF end
  <2> QED BY <2>3, <2>4 DEF StoredEnd, rows, head
<1> QED BY <1>1, <1>3, <1>9, <1>10

\* What every step of the compressor has to show.
LEMMA OutNext ==
  ASSUME UNCHANGED build, build \in Builds, in_nbytes' \in Nat, result' \in Int,
         plan' \in Seq(Blocks), todo' \in Seq(Fitting), sent' \in Seq(SymbolSet),
         os' \in OutStreams,
         os'.touched <= os'.avail, os'.peak <= 8 * build.word - 1,
         result' = NotYet => /\ os'.end = os'.avail - END_PADDING
                             /\ os'.avail > END_PADDING => os'.next <= os'.end,
         todo' # <<>> => os'.avail > END_PADDING /\ sent' # <<>> /\ result' = NotYet
  PROVE  OutInv'
<1>1. Fitting' = Fitting
  BY DEF Fitting, CAN_BUFFER
<1>2. OutTypes'
  BY <1>1 DEF OutTypes, OutStreams
<1> QED BY <1>2 DEF OutInv, NotYet, END_PADDING

LEMMA WriteSymbolsInv ==
  ASSUME OutInv, WriteSymbols
  PROVE  OutInv'
<1> DEFINE n == todo[1]
           a == ADD_BITS(os, n)
           s == FLUSH_BITS(a)
           bc == os.bitcount + n
           peak == Most(os.peak, bc)
           rest == bc % 8
           next == Least(os.end, os.next + bc \div 8)
           touched == IF build.fast THEN Most(os.touched, os.next + build.word)
                      ELSE IF bc < 8 THEN os.touched
                      ELSE Most(os.touched, Least(os.end, os.next + bc \div 8 - 1) + 1)
<1>1. /\ todo # <<>> /\ os' = s /\ todo' = Tail(todo)
      /\ UNCHANGED <<build, in_nbytes, plan, sent, result>>
  BY DEF WriteSymbols
<1>2. /\ build \in Builds /\ in_nbytes \in Nat /\ result \in Int
      /\ plan \in Seq(Blocks) /\ todo \in Seq(Fitting) /\ sent \in Seq(SymbolSet)
      /\ os \in OutStreams /\ os.touched <= os.avail /\ os.peak <= 8 * build.word - 1
      /\ result = NotYet /\ sent # <<>> /\ os.avail > END_PADDING
      /\ os.end = os.avail - END_PADDING /\ os.next <= os.end
  BY <1>1 DEF OutInv, OutTypes, OutStreams
<1>3. /\ os.next \in Nat /\ os.bitcount \in 0..7 /\ os.end \in Int /\ os.avail \in Nat
      /\ os.touched \in Nat /\ os.peak \in Nat
  BY <1>2 DEF OutStreams
<1>4. n \in Nat /\ 7 + n <= 8 * build.word - 1 /\ build.word \in {4, 8} /\ build.fast \in BOOLEAN
  <2>1. n \in Fitting
    BY <1>1, <1>2
  <2>2. build.word \in {4, 8} /\ build.fast \in BOOLEAN
    BY <1>2, StreamAssumption
  <2> QED BY <2>1, <2>2 DEF Fitting, CAN_BUFFER
<1>5. os.end \in Nat /\ os.end + 8 = os.avail
  BY <1>2, <1>3, SizesOut
<1>6. /\ bc \in Nat /\ bc <= 8 * build.word - 1 /\ bc % 8 \in 0..7 /\ bc \div 8 \in Nat
      /\ (bc >= 8 => bc \div 8 >= 1)
  <2> HIDE DEF n
  <2>1. bc \in Nat /\ bc <= 8 * build.word - 1
    BY <1>3, <1>4
  <2> HIDE DEF bc
  <2> QED BY <2>1, DivMod
<1>7. a = [os EXCEPT !.bitcount = bc, !.peak = peak]
  BY DEF ADD_BITS
<1> HIDE DEF bc, n
<1>8. next \in Nat /\ next <= os.end
  BY <1>3, <1>5, <1>6 DEF Least
<1>9. touched \in Nat /\ touched <= os.avail
  <2>1. /\ os.next \in Nat /\ os.touched \in Nat /\ os.end \in Nat /\ os.avail \in Nat
        /\ os.next <= os.end /\ os.end + 8 = os.avail /\ os.touched <= os.avail
    BY <1>2, <1>3, <1>5
  <2>2. ASSUME NEW x \in Nat, x <= os.avail
        PROVE  Most(os.touched, x) \in Nat /\ Most(os.touched, x) <= os.avail
    BY <2>1, <2>2 DEF Most
  <2>3. CASE build.fast
    <3>1. os.next + build.word \in Nat /\ os.next + build.word <= os.avail
      BY <1>4, <2>1
    <3> QED BY <2>2, <2>3, <3>1
  <2>4. CASE ~build.fast /\ bc < 8
    BY <2>1, <2>4
  <2>5. CASE ~build.fast /\ ~(bc < 8)
    <3> DEFINE whole == bc \div 8
               x == Least(os.end, os.next + whole - 1) + 1
    <3>1. whole \in Nat /\ whole >= 1
      BY <1>6, <2>5
    <3>2. touched = Most(os.touched, x)
      BY <2>5
    <3> HIDE DEF whole, touched
    <3>3. x \in Nat /\ x <= os.avail
      BY <2>1, <3>1 DEF Least
    <3> HIDE DEF x
    <3> QED BY <2>2, <3>2, <3>3
  <2> QED BY <1>6, <2>3, <2>4, <2>5
<1>10. peak \in Nat /\ peak <= 8 * build.word - 1
  BY <1>2, <1>3, <1>4, <1>6 DEF Most
<1>11. rest \in 0..7
  BY <1>6
<1> HIDE DEF a, peak
<1>12. /\ a \in [next : Nat, bitcount : Nat, end : Int, avail : Nat, touched : Nat, peak : Nat]
       /\ a.next = os.next /\ a.bitcount = bc /\ a.end = os.end /\ a.avail = os.avail
       /\ a.touched = os.touched /\ a.peak = peak
  BY <1>2, <1>6, <1>7, <1>10 DEF OutStreams
<1>13. s = [a EXCEPT !.next = next, !.bitcount = rest, !.touched = touched]
  BY <1>12 DEF FLUSH_BITS
<1> HIDE DEF s, next, rest, touched
<1>14. /\ s \in OutStreams /\ s.end = a.end /\ s.avail = a.avail /\ s.next = next
       /\ s.touched = touched /\ s.peak = a.peak
  BY <1>8, <1>9, <1>11, <1>12, <1>13 DEF OutStreams
<1>15. Tail(todo) \in Seq(Fitting)
  BY <1>1, <1>2
<1>16. /\ s.touched <= s.avail /\ s.peak <= 8 * build.word - 1
       /\ s.end = s.avail - END_PADDING /\ s.next <= s.end
       /\ s.avail > END_PADDING
  BY <1>2, <1>8, <1>9, <1>10, <1>12, <1>14
<1> QED BY <1>1, <1>2, <1>14, <1>15, <1>16, OutNext

LEMMA FinishInv ==
  ASSUME OutInv, Finish
  PROVE  OutInv'
<1> DEFINE r == IF os.next >= os.end \/ os.avail <= END_PADDING THEN 0
                ELSE os.next + UpTo(os.bitcount, 8)
           t == Most(os.touched, r)
           s == [os EXCEPT !.touched = t]
<1>1. /\ result = NotYet /\ todo = <<>> /\ result' = r /\ os' = [os EXCEPT !.touched = Most(@, r)]
      /\ UNCHANGED <<build, in_nbytes, plan, todo, sent>>
  BY DEF Finish
<1>2. /\ build \in Builds /\ in_nbytes \in Nat
      /\ plan \in Seq(Blocks) /\ todo \in Seq(Fitting) /\ sent \in Seq(SymbolSet)
      /\ os \in OutStreams /\ os.touched <= os.avail /\ os.peak <= 8 * build.word - 1
      /\ os.end = os.avail - END_PADDING
  BY <1>1 DEF OutInv, OutTypes, OutStreams
<1>3. /\ os.next \in Nat /\ os.bitcount \in 0..7 /\ os.end \in Int /\ os.avail \in Nat
      /\ os.touched \in Nat /\ os.peak \in Nat
  BY <1>2 DEF OutStreams
<1>4. r \in Nat /\ r <= os.avail
  <2>1. UpTo(os.bitcount, 8) \in {0, 1}
    BY <1>3 DEF UpTo
  <2> QED BY <1>2, <1>3, <2>1, SizesOut
<1>5. os' = s
  BY <1>1
<1> HIDE DEF r
<1>6. t \in Nat /\ t <= os.avail
  BY <1>2, <1>3, <1>4 DEF Most
<1> HIDE DEF t
<1>7. s \in OutStreams /\ s.touched = t /\ s.avail = os.avail /\ s.peak = os.peak
  BY <1>2, <1>6 DEF OutStreams
<1> HIDE DEF s
<1>8. result' \in Int /\ result' # NotYet
  BY <1>1, <1>4 DEF NotYet
<1>9. s.touched <= s.avail /\ s.peak <= 8 * build.word - 1
  BY <1>2, <1>6, <1>7
<1> QED BY <1>1, <1>2, <1>5, <1>7, <1>8, <1>9, OutNext

LEMMA CompressNoneInv ==
  ASSUME OutInv, CompressNone
  PROVE  OutInv'
<1> DEFINE whole == [os EXCEPT !.end = os.avail]
           none == <<>>
           o == StoredBlocks(whole, none, in_nbytes, TRUE)
<1>1. /\ result = NotYet /\ sent = <<>> /\ os' = o.s /\ sent' = o.syms
      /\ result' = (IF o.all THEN o.s.next ELSE 0) /\ plan' = <<>>
      /\ UNCHANGED <<build, in_nbytes, todo>>
  BY DEF CompressNone
<1>2. /\ build \in Builds /\ in_nbytes \in Nat /\ todo = <<>> /\ todo \in Seq(Fitting)
      /\ os \in OutStreams /\ os.touched <= os.avail /\ os.peak <= 8 * build.word - 1
  BY <1>1 DEF OutInv, OutTypes, OutStreams
<1>3. /\ whole \in OutStreams /\ whole.end = os.avail /\ whole.avail = os.avail
      /\ whole.touched = os.touched /\ whole.peak = os.peak /\ os.avail \in Nat
  BY <1>2 DEF OutStreams
<1>4. whole.end <= whole.avail /\ whole.touched <= whole.avail
  BY <1>2, <1>3
<1>5. none \in Seq(SymbolSet) /\ TRUE \in BOOLEAN
  OBVIOUS
<1> HIDE DEF whole, none
<1>6. o \in Rows(whole)
  BY <1>2, <1>3, <1>4, <1>5, StoredBlocksIs
<1> HIDE DEF o
<1>7. /\ o.s \in OutStreams /\ o.syms \in Seq(SymbolSet) /\ o.all \in BOOLEAN
      /\ o.s.avail = os.avail /\ o.s.peak = os.peak /\ o.s.touched <= os.avail
  BY <1>3, <1>6 DEF Rows
<1>8. o.s.next \in Nat
  BY <1>7 DEF OutStreams
<1>9. result' \in Int /\ result' # NotYet /\ plan' \in Seq(Blocks)
  BY <1>1, <1>7, <1>8 DEF NotYet
<1>10. os'.touched <= os'.avail /\ os'.peak <= 8 * build.word - 1
  BY <1>1, <1>2, <1>7
<1> QED BY <1>1, <1>2, <1>7, <1>9, <1>10, OutNext

\* The static code is one of those a block may have.
LEMMA StaticCodewords == StaticCode \in Codewords
BY DEF StaticCode, Codewords

LEMMA BlockIs ==
  ASSUME NEW b \in Blocks
  PROVE  /\ b.items \in Seq(Items) /\ b.apart \in BOOLEAN /\ b.codes \in Codewords
         /\ b.lens \in [explicit : 4..19, items : Seq(1..14)]
         /\ Bytes(b.items) \in Nat
<1>1. /\ b.items \in Seq(Items) /\ b.apart \in BOOLEAN /\ b.codes \in Codewords
      /\ b.lens \in [explicit : 4..19, items : Seq(1..14)]
  BY DEF Blocks, Codewords
<1> DEFINE w == [k \in DOMAIN b.items |-> ItemLen(b.items[k])]
<1>2. DOMAIN b.items = 1..Len(b.items) /\ Len(b.items) \in Nat
  BY <1>1
<1>3. ASSUME NEW k \in 1..Len(b.items) PROVE ItemLen(b.items[k]) \in Nat
  <2>1. b.items[k] \in Items
    BY <1>1
  <2> QED BY <2>1, ItemIs
<1>4. w \in [1..Len(b.items) -> Nat]
  BY <1>2, <1>3
<1>5. Bytes(b.items) = SumFunction(w)
  BY DEF Bytes
<1> HIDE DEF w
<1> QED BY <1>1, <1>2, <1>4, <1>5, SumIs

LEMMA LengthOfIs ==
  ASSUME NEW blocks \in Seq(Blocks)
  PROVE  LengthOf(blocks) \in Nat
<1> DEFINE w == [k \in DOMAIN blocks |-> Bytes(blocks[k].items)]
<1>1. DOMAIN blocks = 1..Len(blocks) /\ Len(blocks) \in Nat
  OBVIOUS
<1>2. ASSUME NEW k \in 1..Len(blocks) PROVE Bytes(blocks[k].items) \in Nat
  <2>1. blocks[k] \in Blocks
    OBVIOUS
  <2> QED BY <2>1, BlockIs
<1>3. w \in [1..Len(blocks) -> Nat]
  BY <1>1, <1>2
<1>4. LengthOf(blocks) = SumFunction(w)
  BY DEF LengthOf
<1> HIDE DEF w
<1> QED BY <1>1, <1>3, <1>4, SumIs

\* What a compressed block sends.
LEMMA SymbolsIs ==
  ASSUME NEW b \in Blocks, NEW code \in Codewords
  PROVE  Symbols(b, code) \in Seq(SymbolSet)
<1> DEFINE s == [k \in DOMAIN b.items |-> Symbol(b.items[k], code)]
           y == [kind |-> "end", code |-> code.end]
<1>1. b.items \in Seq(Items)
  BY BlockIs
<1>2. DOMAIN b.items = 1..Len(b.items) /\ Len(b.items) \in Nat
  BY <1>1
<1>3. ASSUME NEW k \in 1..Len(b.items) PROVE Symbol(b.items[k], code) \in SymbolSet
  <2>1. b.items[k] \in Items
    BY <1>1
  <2> QED BY <2>1, SymbolIs
<1>4. s \in Seq(SymbolSet)
  <2>1. s \in [1..Len(b.items) -> SymbolSet]
    BY <1>2, <1>3
  <2> HIDE DEF s
  <2> QED BY <1>2, <2>1
<1>5. y \in SymbolSet
  <2>1. code.end \in 1..14
    BY DEF Codewords
  <2>2. y \in [kind : {"lit", "end"}, code : 1..15]
    BY <2>1
  <2> HIDE DEF y
  <2> QED BY <2>2 DEF SymbolSet
<1>6. Symbols(b, code) = s \o <<y>>
  BY DEF Symbols, End
<1> HIDE DEF s, y
<1>7. <<y>> \in Seq(SymbolSet)
  BY <1>5
<1> QED BY <1>4, <1>6, <1>7

LEMMA HeaderSymbolsIs ==
  ASSUME NEW lens \in [explicit : 4..19, items : Seq(1..14)]
  PROVE  <<PreLens(lens.explicit)>> \o [k \in DOMAIN lens.items |-> PreItem(lens.items[k])]
           \in Seq(SymbolSet)
<1> DEFINE s == [k \in DOMAIN lens.items |-> PreItem(lens.items[k])]
           p == PreLens(lens.explicit)
<1>1. lens.explicit \in 4..19 /\ lens.items \in Seq(1..14)
  OBVIOUS
<1>2. DOMAIN lens.items = 1..Len(lens.items) /\ Len(lens.items) \in Nat
  BY <1>1
<1>3. ASSUME NEW w \in 1..14 PROVE PreItem(w) \in SymbolSet
  <2>1. PreItem(w) \in [kind : {"item"}, bits : 1..14]
    BY DEF PreItem
  <2> QED BY <2>1 DEF SymbolSet
<1>4. p \in SymbolSet
  <2>1. p \in [kind : {"prelens"}, n : 4..19]
    BY <1>1 DEF PreLens
  <2> HIDE DEF p
  <2> QED BY <2>1 DEF SymbolSet
<1>5. s \in Seq(SymbolSet)
  <2>1. \A k \in 1..Len(lens.items) : PreItem(lens.items[k]) \in SymbolSet
    BY <1>1, <1>3
  <2>2. s \in [1..Len(lens.items) -> SymbolSet]
    BY <1>2, <2>1
  <2> HIDE DEF s
  <2> QED BY <1>2, <2>2
<1> HIDE DEF s, p
<1>6. <<p>> \in Seq(SymbolSet)
  BY <1>4
<1>7. <<p>> \o s \in Seq(SymbolSet)
  BY <1>5, <1>6
<1> QED BY <1>7 DEF s, p

LEMMA FlushBlockInv ==
  ASSUME OutInv, FlushBlock
  PROVE  OutInv'
<1> DEFINE b == plan[1]
           last == (Len(plan) = 1)
           Compressed(type_, code, first, syms) ==
             /\ todo' = first \o ItemGroups(b.items, code, b.apart) \o <<code.end>>
             /\ sent' = sent \o <<Block(type_, last)>> \o syms \o Symbols(b, code)
             /\ UNCHANGED os
           o == StoredBlocks(os, sent, Bytes(b.items), last)
           pre == <<PreLens(b.lens.explicit)>> \o
                    [k \in DOMAIN b.lens.items |-> PreItem(b.lens.items[k])]
<1>1. /\ result = NotYet /\ plan # <<>> /\ todo = <<>> /\ os.avail > END_PADDING
      /\ plan' = Tail(plan) /\ UNCHANGED <<build, in_nbytes, result>>
  BY DEF FlushBlock
<1>2. \/ Compressed("dynamic", b.codes, HeaderGroups(b.lens), pre)
      \/ Compressed("static", StaticCode, <<3>>, <<>>)
      \/ /\ os' = IF o.all THEN o.s ELSE [o.s EXCEPT !.next = o.s.end]
         /\ sent' = o.syms /\ UNCHANGED todo
  BY DEF FlushBlock
<1>3. /\ build \in Builds /\ in_nbytes \in Nat /\ result \in Int
      /\ plan \in Seq(Blocks) /\ todo \in Seq(Fitting) /\ sent \in Seq(SymbolSet)
      /\ os \in OutStreams /\ os.touched <= os.avail /\ os.peak <= 8 * build.word - 1
      /\ os.end = os.avail - END_PADDING /\ os.next <= os.end
  BY <1>1 DEF OutInv, OutTypes, OutStreams
<1>4. /\ b \in Blocks /\ Tail(plan) \in Seq(Blocks) /\ last \in BOOLEAN
  BY <1>1, <1>3
<1> HIDE DEF b, last
<1>5. ASSUME NEW type_ \in {"static", "dynamic"}, NEW code \in Codewords,
             NEW first \in Seq(Fitting), NEW syms \in Seq(SymbolSet),
             Compressed(type_, code, first, syms)
      PROVE  OutInv'
  <2> DEFINE groups == ItemGroups(b.items, code, b.apart)
             y == Block(type_, last)
             more == Symbols(b, code)
  <2>1. groups \in Seq(Fitting)
    BY <1>3, <1>4, BlockIs, ItemGroupsIs
  <2>2. code.end \in Fitting
    <3>1. code.end \in Nat /\ code.end <= 14
      BY DEF Codewords
    <3> QED BY <1>3, <3>1, FittingIs
  <2>3. y \in SymbolSet
    <3>1. y \in [kind : {"block"}, type : {"static", "dynamic"}, final : BOOLEAN]
      BY <1>4 DEF Block
    <3> HIDE DEF y
    <3> QED BY <3>1 DEF SymbolSet
  <2>4. more \in Seq(SymbolSet)
    BY <1>4, SymbolsIs
  <2> DEFINE head == sent \o <<y>>
  <2>5. /\ todo' = first \o groups \o <<code.end>>
        /\ sent' = head \o syms \o more /\ os' = os
    BY <1>5
  <2> HIDE DEF groups, y, more, Compressed
  <2>6. todo' \in Seq(Fitting)
    <3>1. <<code.end>> \in Seq(Fitting) /\ first \o groups \in Seq(Fitting)
      BY <2>1, <2>2
    <3> QED BY <2>5, <3>1
  <2>7. head \in Seq(SymbolSet) /\ Len(head) > 0
    BY <1>3, <2>3
  <2> HIDE DEF head
  <2>8. sent' \in Seq(SymbolSet) /\ sent' # <<>>
    <3>1. head \o syms \in Seq(SymbolSet) /\ Len(head \o syms) > 0
      BY <2>7
    <3>2. head \o syms \o more \in Seq(SymbolSet) /\ Len(head \o syms \o more) > 0
      BY <2>4, <3>1
    <3> QED BY <2>5, <3>2
  <2> QED BY <1>1, <1>3, <1>4, <2>5, <2>6, <2>8, OutNext
<1>6. CASE Compressed("dynamic", b.codes, HeaderGroups(b.lens), pre)
  <2>1. b.codes \in Codewords /\ b.lens \in [explicit : 4..19, items : Seq(1..14)]
    BY <1>4, BlockIs
  <2>2. HeaderGroups(b.lens) \in Seq(Fitting) /\ pre \in Seq(SymbolSet)
    BY <1>3, <2>1, HeaderGroupsIs, HeaderSymbolsIs
  <2> HIDE DEF Compressed, pre
  <2> QED BY <1>5, <1>6, <2>1, <2>2
<1>7. CASE Compressed("static", StaticCode, <<3>>, <<>>)
  <2> DEFINE three == <<3>>
             none == <<>>
  <2>1. three \in Seq(Fitting)
    <3>1. 3 \in Fitting
      BY <1>3, FittingIs
    <3> QED BY <3>1
  <2>2. none \in Seq(SymbolSet)
    OBVIOUS
  <2>3. Compressed("static", StaticCode, three, none)
    BY <1>7
  <2> HIDE DEF Compressed, three, none
  <2> QED BY <1>5, <2>1, <2>2, <2>3, StaticCodewords
<1>8. CASE /\ os' = IF o.all THEN o.s ELSE [o.s EXCEPT !.next = o.s.end]
           /\ sent' = o.syms /\ UNCHANGED todo
  <2> DEFINE full == [o.s EXCEPT !.next = o.s.end]
  <2>1. o \in Rows(os)
    <3>1. os.end <= os.avail /\ Bytes(b.items) \in Nat
      <4>1. os.avail \in Nat
        BY <1>3 DEF OutStreams
      <4> QED BY <1>3, <1>4, <4>1, BlockIs, SizesOut
    <3> QED BY <1>3, <1>4, <3>1, StoredBlocksIs
  <2> HIDE DEF o
  <2>2. /\ o.s \in OutStreams /\ o.syms \in Seq(SymbolSet)
        /\ o.s.end = os.end /\ o.s.avail = os.avail /\ o.s.peak = os.peak
        /\ o.s.touched <= os.avail /\ o.s.next <= os.end
    BY <1>3, <2>1 DEF Rows
  <2>3. o.s.end \in Nat
    <3>1. os.avail \in Nat
      BY <1>3 DEF OutStreams
    <3> QED BY <1>1, <1>3, <2>2, <3>1, SizesOut
  <2>4. /\ full \in OutStreams /\ full.end = os.end /\ full.avail = os.avail
        /\ full.peak = os.peak /\ full.touched = o.s.touched /\ full.next = os.end
    BY <2>2, <2>3 DEF OutStreams
  <2> HIDE DEF full
  <2>5. os' = o.s \/ os' = full
    BY <1>8 DEF full
  <2>6. os.end \in Int
    BY <1>3 DEF OutStreams
  <2>7. /\ os' \in OutStreams /\ os'.end = os.end /\ os'.avail = os.avail
        /\ os'.peak = os.peak /\ os'.touched <= os.avail /\ os'.next <= os.end
    BY <2>2, <2>4, <2>5, <2>6
  <2>8. /\ os'.touched <= os'.avail /\ os'.peak <= 8 * build.word - 1
        /\ os'.end = os'.avail - END_PADDING /\ os'.next <= os'.end
    BY <1>3, <2>7
  <2>9. sent' \in Seq(SymbolSet) /\ todo' = <<>> /\ todo' \in Seq(Fitting)
    BY <1>1, <1>3, <1>8, <2>2
  <2> QED BY <1>1, <1>3, <1>4, <2>7, <2>8, <2>9, OutNext
<1> QED BY <1>2, <1>6, <1>7, <1>8

\* A bitstream at the start of its buffer.
LEMMA BitStreamIs ==
  ASSUME NEW avail \in Nat
  PROVE  /\ BitStream(avail) \in OutStreams
         /\ BitStream(avail).next = 0 /\ BitStream(avail).end = avail - END_PADDING
         /\ BitStream(avail).avail = avail
         /\ BitStream(avail).touched = 0 /\ BitStream(avail).peak = 0
<1>1. avail - END_PADDING \in Int
  BY SizesOut
<1> QED BY <1>1 DEF BitStream, OutStreams

LEMMA OutInitInv ==
  ASSUME OutInit
  PROVE  OutInv
<1>1. /\ build \in Builds /\ plan \in Seq(Blocks) /\ in_nbytes \in Nat
      /\ todo = <<>> /\ sent = <<>> /\ result = NotYet
  <2>1. plan \in Seq(Blocks) /\ in_nbytes = LengthOf(plan)
    BY StreamAssumption DEF OutInit
  <2> QED BY <2>1, LengthOfIs DEF OutInit
<1>2. PICK a \in Avails : LET avail == compress_bound(in_nbytes) + a IN
        avail >= 0 /\ os = BitStream(avail)
  BY DEF OutInit
<1> DEFINE avail == compress_bound(in_nbytes) + a
<1>3. avail >= 0 /\ os = BitStream(avail)
  BY <1>2
<1>4. compress_bound(in_nbytes) \in Int
  <2>1. UpTo(in_nbytes, MinBlock) \in Int
    <3>1. in_nbytes + MinBlock - 1 \in Int /\ MinBlock \in Nat \ {0}
      BY <1>1, SizesOut
    <3> QED BY <3>1 DEF UpTo
  <2>2. Most(UpTo(in_nbytes, MinBlock), 1) \in Int
    BY <2>1 DEF Most
  <2> QED BY <1>1, <2>2, SizesOut DEF compress_bound
<1>5. avail \in Nat
  <2>1. a \in Int
    BY StreamAssumption
  <2> QED BY <1>3, <1>4, <2>1
<1> HIDE DEF avail
<1>6. /\ os \in OutStreams /\ os.next = 0 /\ os.end = avail - END_PADDING /\ os.avail = avail
      /\ os.touched = 0 /\ os.peak = 0
  BY <1>3, <1>5, BitStreamIs
<1>7. result \in Int /\ todo \in Seq(Fitting) /\ sent \in Seq(SymbolSet)
  BY <1>1 DEF NotYet
<1>8. OutTypes
  BY <1>1, <1>6, <1>7 DEF OutTypes, OutStreams
<1>9. /\ os.touched <= os.avail /\ os.peak <= 8 * build.word - 1
      /\ os.end = os.avail - END_PADDING /\ (os.avail > END_PADDING => os.next <= os.end)
  <2>1. build.word \in {4, 8}
    BY <1>1, FittingIs
  <2> QED BY <1>5, <1>6, <2>1, SizesOut
<1> QED BY <1>1, <1>8, <1>9 DEF OutInv

LEMMA OutUnchanged ==
  ASSUME UNCHANGED outVars, OutInv
  PROVE  OutInv'
<1>1. UNCHANGED <<build, in_nbytes, plan, os, todo, sent, result>>
  BY DEF outVars
<1>2. Fitting' = Fitting
  BY <1>1 DEF Fitting, CAN_BUFFER
<1>3. OutTypes'
  BY <1>1, <1>2 DEF OutInv, OutTypes
<1> QED BY <1>1, <1>3 DEF OutInv, NotYet, END_PADDING

\* When the decompressor begins, what the compressor is at has ended.
LEMMA OutOpened ==
  ASSUME OutInv, UNCHANGED <<build, todo>>, os' = BitStream(0), todo = <<>>,
         in_nbytes' \in Nat, plan' \in Seq(Blocks), sent' \in Seq(SymbolSet),
         result' \in Nat
  PROVE  OutInv'
<1>1. build \in Builds /\ todo \in Seq(Fitting)
  BY DEF OutInv, OutTypes
<1>2. /\ os' \in OutStreams /\ os'.avail = 0 /\ os'.touched = 0 /\ os'.peak = 0
  BY BitStreamIs
<1>3. os'.touched <= os'.avail /\ os'.peak <= 8 * build.word - 1
  <2>1. build.word \in {4, 8}
    BY <1>1, FittingIs
  <2> QED BY <1>2, <2>1
<1>4. result' \in Int /\ result' # NotYet
  BY DEF NotYet
<1> QED BY <1>1, <1>2, <1>3, <1>4, OutNext

LEMMA OpenSentInv ==
  ASSUME StreamInv, OpenSent
  PROVE  StreamInv'
<1>1. /\ OutInv /\ InInv /\ build \in Builds /\ in_nbytes \in Nat /\ result \in Int
      /\ plan \in Seq(Blocks) /\ sent \in Seq(SymbolSet)
  BY DEF StreamInv, OutInv, OutTypes
<1>2. /\ result > 0 /\ os' = BitStream(0)
      /\ UNCHANGED <<build, in_nbytes, plan, todo, sent, result>>
  BY DEF OpenSent
<1>3. result \in Nat /\ todo = <<>>
  BY <1>1, <1>2 DEF OutInv, NotYet
<1>4. OutInv'
  BY <1>1, <1>2, <1>3, OutOpened
<1>5. PICK c \in Cuts, r \in Rooms :
        /\ result + c >= 0 /\ in_nbytes + r >= 0
        /\ Decompress(result + c, in_nbytes + r, sent)
  BY DEF OpenSent
<1> DEFINE size == result + c
           room == in_nbytes + r
<1>6. size \in Nat /\ room \in Nat
  <2>1. c \in Int /\ r \in Int
    BY StreamAssumption
  <2> QED BY <1>1, <1>5, <2>1
<1>7. Decompress(size, room, sent)
  BY <1>5
<1> HIDE DEF size, room
<1>8. InInv'
  BY <1>1, <1>2, <1>6, <1>7, DecompressInv
<1>9. result' # NotYet
  BY <1>2, <1>3 DEF NotYet
<1> QED BY <1>4, <1>8, <1>9 DEF StreamInv, NotYet

LEMMA OpenAnyInv ==
  ASSUME StreamInv, OpenAny
  PROVE  StreamInv'
<1>1. OutInv /\ InInv /\ build \in Builds /\ todo = <<>>
  BY DEF OpenAny, StreamInv, OutInv, OutTypes, NotYet
<1>2. /\ os' = BitStream(0) /\ in_nbytes' = 0 /\ plan' = <<>> /\ sent' = <<>> /\ result' = 0
      /\ UNCHANGED <<build, todo>>
  BY DEF OpenAny
<1>3. /\ in_nbytes' \in Nat /\ result' \in Nat
      /\ plan' \in Seq(Blocks) /\ sent' \in Seq(SymbolSet)
  BY <1>2
<1>4. OutInv'
  BY <1>1, <1>2, <1>3, OutOpened
<1>5. PICK o \in Openings : Decompress(o.given, o.space, o.source)
  BY DEF OpenAny
<1>6. o.given \in Nat /\ o.space \in Nat /\ o.source \in Seq(SymbolSet)
  BY StreamAssumption
<1>7. InInv'
  BY <1>1, <1>2, <1>5, <1>6, DecompressInv
<1>8. result' # NotYet
  BY <1>2 DEF NotYet
<1> QED BY <1>4, <1>7, <1>8 DEF StreamInv, NotYet

\* A step of the compressor leaves the decompressor alone.
LEMMA OutStepInv ==
  ASSUME StreamInv, OutStep, UNCHANGED <<inVars, from>>
  PROVE  StreamInv'
<1>1. OutInv /\ InInv /\ (from # "none" => result # NotYet) /\ UNCHANGED inVars
  BY DEF StreamInv
<1>2. OutInv'
  BY <1>1, CompressNoneInv, FlushBlockInv, WriteSymbolsInv, FinishInv DEF OutStep
<1>3. UNCHANGED build
  BY DEF OutStep, CompressNone, FlushBlock, WriteSymbols, Finish
<1>4. result # NotYet => result' = result
  BY DEF OutStep, CompressNone, FlushBlock, WriteSymbols, Finish
<1>5. InInv'
  BY <1>1, <1>3, InUnchanged
<1> QED BY <1>1, <1>2, <1>4, <1>5 DEF StreamInv, NotYet

LEMMA DecodingInv ==
  ASSUME StreamInv, InStep, UNCHANGED <<outVars, from>>
  PROVE  StreamInv'
<1>1. OutInv /\ InInv /\ (from # "none" => result # NotYet) /\ UNCHANGED outVars
  BY DEF StreamInv
<1>2. build \in Builds /\ UNCHANGED build /\ UNCHANGED result
  BY <1>1 DEF OutInv, OutTypes, outVars
<1>3. InInv'
  BY <1>1, <1>2, InStepInv
<1>4. OutInv'
  BY <1>1, OutUnchanged
<1> QED BY <1>1, <1>2, <1>3, <1>4 DEF StreamInv, NotYet

-----------------------------------------------------------------------
(***************************************************************************)
(* What the blocks cost, and what the bound leaves for them.               *)
(***************************************************************************)
\* How many bits have been added.
Position(s) == 8 * s.next + s.bitcount

\* The bytes of a row of uncompressed blocks besides those of the input.
Row == 1 + LenBytes

LEMMA UpToBound ==
  ASSUME NEW k \in Nat, NEW n \in Nat, NEW d_ \in Nat \ {0}
  PROVE  /\ k * d_ <= n => k <= UpTo(n, d_)
         /\ k * d_ < n => k + 1 <= UpTo(n, d_)
<1> DEFINE q == UpTo(n, d_)
           m == d_ * q
<1>1. q \in Nat /\ n <= m
  BY UpToAny
<1>2. ASSUME NEW x \in Nat, k >= x + 1 PROVE k * d_ >= d_ * x + d_
  <2>1. ASSUME NEW u \in Nat, NEW v \in Nat, u <= v PROVE u * d_ <= v * d_
    BY <2>1
  <2>2. (x + 1) * d_ <= k * d_
    BY <1>2, <2>1
  <2>3. (x + 1) * d_ = d_ * x + d_
    OBVIOUS
  <2> QED BY <2>2, <2>3
<1>3. ASSUME NEW x \in Nat, k = x PROVE k * d_ = d_ * x
  BY <1>3
<1> HIDE DEF q
<1>4. q \in Nat /\ (k >= q + 1 => k * d_ >= m + d_) /\ (k = q => k * d_ = m)
  BY <1>1, <1>2, <1>3
<1>5. m \in Nat /\ k * d_ \in Nat
  <2>1. ASSUME NEW u \in Nat, NEW v \in Nat PROVE u * v \in Nat
    OBVIOUS
  <2> QED BY <1>4, <2>1
<1> DEFINE kd == k * d_
<1>6. /\ n <= m /\ m \in Nat /\ kd \in Nat /\ q \in Nat
      /\ (k >= q + 1 => kd >= m + d_) /\ (k = q => kd = m)
  BY <1>1, <1>4, <1>5
<1> HIDE DEF m, kd
<1>7. (kd <= n => k <= q) /\ (kd < n => k + 1 <= q)
  BY <1>6
<1> QED BY <1>7 DEF kd, q

\* The uncompressed blocks one block of the input becomes.
LEMMA RowsOf ==
  ASSUME NEW n \in Nat \ {0}, NEW r, r = UpTo(n, StoredMax)
  PROVE  /\ r \in Nat \ {0} /\ Most(r, 1) = r
         /\ n >= MinBlock => r * MinBlock <= n
         /\ n < MinBlock => r = 1
<1> DEFINE S == StoredMax
           M == MinBlock
<1>1. S \in Nat \ {0} /\ M \in Nat \ {0} /\ 2 * M <= S
  BY StreamAssumption
<1> HIDE DEF S, M
<1>2. r \in Nat \ {0} /\ S * r < n + S
  <2>1. UpTo(n, S) \in Nat /\ S * UpTo(n, S) < n + S /\ UpTo(n, S) > 0
    <3>1. n \in Nat /\ n > 0
      OBVIOUS
    <3> QED BY <1>1, <3>1, UpToAny
  <2>2. r = UpTo(n, S)
    BY DEF S
  <2> QED BY <2>1, <2>2
<1>3. Most(r, 1) = r
  BY <1>2 DEF Most
<1>4. PICK p \in Nat : r = p + 1
  <2>1. r - 1 \in Nat /\ r = (r - 1) + 1
    BY <1>2
  <2> QED BY <2>1
<1>5. S * r = S * p + S /\ r * M = M * p + M /\ S * p \in Nat /\ M * p \in Nat
  <2>1. ASSUME NEW u \in Nat, NEW v \in Nat PROVE u * v \in Nat /\ u * (v + 1) = u * v + u
                                                  /\ (v + 1) * u = u * v + u
    OBVIOUS
  <2> QED BY <1>1, <1>4, <2>1
<1>6. (2 * M) * p <= S * p /\ (2 * M) * p = 2 * (M * p)
  <2>1. ASSUME NEW u \in Nat, NEW v \in Nat, u <= v PROVE u * p <= v * p
    BY <2>1
  <2>2. 2 * M \in Nat
    BY <1>1
  <2>3. (2 * M) * p <= S * p
    BY <1>1, <2>1, <2>2
  <2>4. (2 * M) * p = 2 * (M * p)
    BY <1>1
  <2> QED BY <2>3, <2>4
<1>7. p >= 1 => M * p >= M /\ S * p >= S
  <2>1. ASSUME NEW u \in Nat, p >= 1 PROVE u * p >= u
    <3>1. PICK o \in Nat : p = o + 1
      <4>1. p - 1 \in Nat /\ p = (p - 1) + 1
        BY <2>1
      <4> QED BY <4>1
    <3>2. u * p = u * o + u /\ u * o \in Nat
      <4>1. ASSUME NEW v \in Nat PROVE u * (v + 1) = u * v + u /\ u * v \in Nat
        OBVIOUS
      <4> QED BY <3>1, <4>1
    <3> QED BY <3>2
  <2> QED BY <1>1, <2>1
<1> DEFINE sp == S * p
           mp == M * p
<1>8. /\ sp + S < n + S /\ sp \in Nat /\ mp \in Nat /\ 2 * mp <= sp /\ r * M = mp + M
      /\ (p >= 1 => mp >= M /\ sp >= S) /\ (p = 0 => mp = 0)
  BY <1>1, <1>2, <1>5, <1>6, <1>7
<1> HIDE DEF sp, mp
<1>9. n >= M => mp + M <= n
  BY <1>1, <1>8
<1>10. n < M => p = 0
  BY <1>1, <1>8
<1> QED BY <1>2, <1>3, <1>4, <1>8, <1>9, <1>10 DEF M

\* Rows of the longest blocks are no more than rows of the shortest.
LEMMA LongerFewer ==
  ASSUME NEW n \in Nat
  PROVE  UpTo(n, StoredMax) <= UpTo(n, MinBlock)
<1>1. CASE n = 0
  <2> DEFINE q == UpTo(n, StoredMax)
             S == StoredMax
  <2>1. q \in Nat /\ S * q < S /\ UpTo(n, MinBlock) \in Nat /\ S \in Nat
    <3>1. S \in Nat \ {0} /\ MinBlock \in Nat \ {0}
      BY SizesOut
    <3> HIDE DEF S
    <3>2. UpTo(n, S) \in Nat /\ S * UpTo(n, S) < n + S /\ UpTo(n, MinBlock) \in Nat
      BY <3>1, UpToAny
    <3>3. n + S = S
      BY <1>1, <3>1
    <3> QED BY <3>1, <3>2, <3>3 DEF S
  <2>2. q >= 1 => S * q >= S
    <3>1. ASSUME NEW u \in Nat, NEW v \in Nat, v >= 1 PROVE u * v >= u
      <4>1. u * v = u * (v - 1) + u /\ v - 1 \in Nat
        BY <3>1
      <4>2. ASSUME NEW x \in Nat PROVE u * x \in Nat
        OBVIOUS
      <4>3. u * (v - 1) \in Nat
        BY <4>1, <4>2
      <4> QED BY <4>1, <4>3
    <3>2. q \in Nat /\ S \in Nat
      BY <2>1
    <3> HIDE DEF q, S
    <3> QED BY <3>1, <3>2
  <2> DEFINE sq == S * q
  <2>3. sq < S /\ (q >= 1 => sq >= S) /\ q \in Nat /\ UpTo(n, MinBlock) \in Nat /\ S \in Nat
        /\ sq \in Int
    BY <2>1, <2>2
  <2> HIDE DEF q, S, sq
  <2> QED BY <2>3 DEF q
<1>2. CASE n # 0
  <2> DEFINE r == UpTo(n, StoredMax)
             p == r - 1
  <2>1. n \in Nat \ {0} /\ r = UpTo(n, StoredMax)
    BY <1>2
  <2> HIDE DEF r
  <2>2. r \in Nat \ {0} /\ (n >= MinBlock => r * MinBlock <= n) /\ (n < MinBlock => r = 1)
    BY <2>1, RowsOf
  <2>3. MinBlock \in Nat \ {0}
    BY SizesOut
  <2>4. CASE n >= MinBlock
    BY <2>1, <2>2, <2>3, <2>4, UpToBound DEF r
  <2>5. CASE n < MinBlock
    <3>1. UpTo(n, MinBlock) \in Nat /\ UpTo(n, MinBlock) > 0
      <4>1. n \in Nat /\ n > 0
        BY <2>1
      <4> QED BY <2>3, <4>1, UpToAny
    <3>2. r = 1
      BY <2>2, <2>5
    <3> QED BY <3>1, <3>2 DEF r
  <2> QED BY <2>3, <2>4, <2>5
<1> QED BY <1>1, <1>2

\* An uncompressed block takes what it costs, a byte at most to get to a byte's
\* end, the bytes of its rows and those of the input.
LEMMA StoredPosition ==
  ASSUME os \in OutStreams, NEW b, NEW n \in Nat \ {0}, n = Bytes(b.items)
  PROVE  /\ StoredEnd(os, n) \in Nat
         /\ uncompressed_cost(b) \in Nat
         /\ 8 * StoredEnd(os, n) = Position(os) + 3 + uncompressed_cost(b)
         /\ \A m \in Nat : Position(os) <= 8 * m =>
              StoredEnd(os, n) <= m + Row * UpTo(n, StoredMax) + n
<1> DEFINE r == UpTo(n, StoredMax)
           x == os.next
           c == os.bitcount
           pad == (-(c + 3)) % 8
           head == UpTo(c + 3, 8)
           w == Row
           rows == w * r
           end == x + head - 1 + rows + n
           cost == pad + 8 * LenBytes + 8 * w * (r - 1) + 8 * n
<1>1. r \in Nat \ {0} /\ Most(r, 1) = r
  BY RowsOf
<1>2. x \in Nat /\ c \in 0..7
  BY DEF OutStreams
<1>3. StoredEnd(os, n) = end
  BY <1>1 DEF StoredEnd, Row
<1>4. uncompressed_cost(b) = cost
  BY DEF uncompressed_cost, Row
<1>5. Position(os) = 8 * x + c
  BY DEF Position
<1>6. LenBytes \in Nat /\ w = 1 + LenBytes /\ w \in Nat
  BY SizesOut DEF Row
<1> HIDE DEF x, c, w
<1>7. pad \in Nat /\ head \in Nat /\ 8 * head = c + 3 + pad /\ head >= 1
      /\ (c = 0 => head = 1) /\ head <= 2
  BY <1>2 DEF UpTo
<1>8. rows \in Nat /\ 8 * w * (r - 1) = 8 * rows - 8 * w /\ rows >= w
  <2> HIDE DEF r
  <2>1. PICK p \in Nat : r = p + 1
    <3>1. r - 1 \in Nat /\ r = (r - 1) + 1
      BY <1>1
    <3> QED BY <3>1
  <2>2. w * r = w * p + w /\ w * p \in Nat
    <3>1. ASSUME NEW u \in Nat, NEW v \in Nat PROVE u * (v + 1) = u * v + u /\ u * v \in Nat
      OBVIOUS
    <3> QED BY <1>6, <2>1, <3>1
  <2>3. r - 1 = p
    BY <2>1
  <2>4. 8 * w * p = 8 * (w * p)
    BY <1>6, <2>1
  <2> DEFINE wp == w * p
  <2>5. rows = wp + w /\ wp \in Nat /\ 8 * w * (r - 1) = 8 * wp
    BY <2>2, <2>3, <2>4
  <2> HIDE DEF wp, rows
  <2> QED BY <1>6, <2>5
<1> DEFINE most == 8 * w * (r - 1)
<1> HIDE DEF pad, head, rows, r, most
<1>9. /\ end = x + head - 1 + rows + n
      /\ cost = pad + 8 * LenBytes + most + 8 * n
  BY DEF most
<1> HIDE DEF end, cost
<1>10. most = 8 * rows - 8 * w /\ rows \in Nat /\ rows >= w
  BY <1>8 DEF most
<1>11. end \in Nat /\ cost \in Nat /\ 8 * end = 8 * x + c + 3 + cost
  BY <1>2, <1>6, <1>7, <1>9, <1>10
<1>12. ASSUME NEW m \in Nat, 8 * x + c <= 8 * m PROVE end <= m + rows + n
  <2>1. x + head - 1 <= m
    BY <1>2, <1>7, <1>12
  <2> QED BY <1>2, <1>7, <1>9, <1>10, <2>1
<1>13. \A m \in Nat : 8 * x + c <= 8 * m => end <= m + rows + n
  BY <1>12
<1> HIDE DEF rows
<1>14. rows = Row * UpTo(n, StoredMax)
  BY DEF rows, r, w
<1> QED BY <1>3, <1>4, <1>5, <1>11, <1>13, <1>14

\* A compressed block adds what it costs.
LEMMA BlockCosts ==
  ASSUME NEW b \in Blocks
  PROVE  /\ dynamic_cost(b) \in Nat /\ static_cost(b) \in Nat
         /\ SumFunction(HeaderGroups(b.lens) \o ItemGroups(b.items, b.codes, b.apart)
                          \o <<b.codes.end>>) = 3 + dynamic_cost(b)
         /\ SumFunction(<<3>> \o ItemGroups(b.items, StaticCode, b.apart)
                          \o <<StaticCode.end>>) = 3 + static_cost(b)
<1>1. /\ b.items \in Seq(Items) /\ b.apart \in BOOLEAN /\ b.codes \in Codewords
      /\ b.lens \in [explicit : 4..19, items : Seq(1..14)]
  BY BlockIs
<1> DEFINE head == HeaderGroups(b.lens)
           three == <<3>>
           listed == SumFunction(b.lens.items)
           few == b.lens.explicit
           dyn == SymbolsCost(b.items, b.codes)
           stat == SymbolsCost(b.items, StaticCode)
<1>2. head \in Seq(Nat) /\ listed \in Nat /\ SumFunction(head) = 17 + 3 * few + listed
  BY <1>1, HeaderSum
<1>3. three \in Seq(Nat) /\ SumFunction(three) = 3
  BY SumShort
<1>4. few \in 4..19
  BY <1>1
<1> HIDE DEF head, three
<1>5. /\ SumFunction(head \o ItemGroups(b.items, b.codes, b.apart) \o <<b.codes.end>>)
           = SumFunction(head) + dyn
      /\ dyn \in Nat
  BY <1>1, <1>2, CompressedSum
<1>6. /\ SumFunction(three \o ItemGroups(b.items, StaticCode, b.apart) \o <<StaticCode.end>>)
           = SumFunction(three) + stat
      /\ stat \in Nat
  BY <1>1, <1>3, StaticCodewords, CompressedSum
<1>7. dynamic_cost(b) = 5 + 5 + 4 + 3 * few + listed + dyn /\ static_cost(b) = stat
  BY DEF dynamic_cost, static_cost
<1> HIDE DEF listed, few, dyn, stat
<1>8. dynamic_cost(b) \in Nat /\ SumFunction(head) + dyn = 3 + dynamic_cost(b)
  BY <1>2, <1>4, <1>5, <1>7
<1>9. static_cost(b) \in Nat /\ SumFunction(three) + stat = 3 + static_cost(b)
  BY <1>3, <1>6, <1>7
<1> QED BY <1>5, <1>6, <1>8, <1>9 DEF head, three

\* Only the last block may be shorter than MIN_BLOCK_LENGTH, and none is empty.
PlanLong == \A i \in DOMAIN plan : Bytes(plan[i].items) >= IF i < Len(plan) THEN MinBlock ELSE 1

\* The first block, and what is left of the input after it.
LEMMA PlanTail ==
  ASSUME plan \in Seq(Blocks), plan # <<>>, PlanLong
  PROVE  /\ Bytes(plan[1].items) \in Nat \ {0}
         /\ Tail(plan) # <<>> => Bytes(plan[1].items) >= MinBlock
         /\ \A i \in DOMAIN Tail(plan) :
              Bytes(Tail(plan)[i].items) >= IF i < Len(Tail(plan)) THEN MinBlock ELSE 1
         /\ LengthOf(plan) = Bytes(plan[1].items) + LengthOf(Tail(plan))
         /\ LengthOf(Tail(plan)) \in Nat
<1> DEFINE n == Len(plan)
           rest == Tail(plan)
           w == [k \in DOMAIN plan |-> Bytes(plan[k].items)]
           v == [k \in DOMAIN rest |-> Bytes(rest[k].items)]
<1>1. /\ n \in Nat \ {0} /\ DOMAIN plan = 1..n
      /\ rest \in Seq(Blocks) /\ Len(rest) = n - 1 /\ DOMAIN rest = 1..(n - 1)
      /\ \A i \in 1..(n - 1) : rest[i] = plan[i + 1]
      /\ (rest # <<>> => n > 1)
  OBVIOUS
<1>2. \A k \in 1..n : plan[k] \in Blocks
  BY <1>1
<1>3. \A k \in 1..n : Bytes(plan[k].items) \in Nat
  BY <1>2, BlockIs
<1>4. \A k \in 1..n : Bytes(plan[k].items) >= IF k < n THEN MinBlock ELSE 1
  BY <1>1 DEF PlanLong
<1>5. Bytes(plan[1].items) \in Nat \ {0} /\ (rest # <<>> => Bytes(plan[1].items) >= MinBlock)
  <2> DEFINE first == Bytes(plan[1].items)
  <2>1. 1 \in 1..n
    BY <1>1
  <2>2. first \in Nat /\ first >= IF 1 < n THEN MinBlock ELSE 1
    BY <1>3, <1>4, <2>1
  <2> HIDE DEF first
  <2>3. first >= 1 /\ (rest # <<>> => first >= MinBlock)
    BY <1>1, <2>2, SizesOut
  <2> QED BY <2>2, <2>3 DEF first
<1>6. \A i \in DOMAIN rest : Bytes(rest[i].items) >= IF i < Len(rest) THEN MinBlock ELSE 1
  <2> SUFFICES ASSUME NEW i \in 1..(n - 1)
               PROVE  Bytes(rest[i].items) >= IF i < n - 1 THEN MinBlock ELSE 1
    BY <1>1
  <2>1. i + 1 \in 1..n /\ rest[i] = plan[i + 1] /\ (i < n - 1 <=> i + 1 < n)
    BY <1>1
  <2>2. Bytes(plan[i + 1].items) >= IF i + 1 < n THEN MinBlock ELSE 1
    BY <1>4, <2>1
  <2> QED BY <2>1, <2>2
<1>7. w \in Seq(Nat) /\ w # <<>> /\ w[1] = Bytes(plan[1].items) /\ Tail(w) = v
  <2>1. w \in [1..n -> Nat]
    BY <1>1, <1>3
  <2>2. w \in Seq(Nat) /\ Len(w) = n
    BY <1>1, <2>1
  <2>3. w # <<>> /\ w[1] = Bytes(plan[1].items)
    BY <1>1, <2>2
  <2>4. v \in [1..(n - 1) -> Nat] /\ \A i \in 1..(n - 1) : v[i] = w[i + 1]
    <3>1. ASSUME NEW i \in 1..(n - 1)
          PROVE  Bytes(rest[i].items) = w[i + 1] /\ w[i + 1] \in Nat
      <4>1. i + 1 \in 1..n /\ rest[i] = plan[i + 1]
        BY <1>1
      <4> QED BY <1>1, <1>3, <4>1
    <3> QED BY <1>1, <3>1
  <2> HIDE DEF w, v
  <2>5. Tail(w) \in [1..(n - 1) -> Nat] /\ \A i \in 1..(n - 1) : Tail(w)[i] = w[i + 1]
    <3>1. ASSUME NEW s \in Seq(Nat), s # <<>>
          PROVE  /\ Tail(s) \in [1..(Len(s) - 1) -> Nat]
                 /\ \A i \in 1..(Len(s) - 1) : Tail(s)[i] = s[i + 1]
      <4>1. Tail(s) \in Seq(Nat) /\ Len(Tail(s)) = Len(s) - 1
        BY <3>1
      <4>2. \A i \in 1..(Len(s) - 1) : Tail(s)[i] = s[i + 1]
        BY <3>1
      <4>3. Tail(s) \in [1..Len(Tail(s)) -> Nat]
        <5>1. ASSUME NEW u \in Seq(Nat) PROVE u \in [1..Len(u) -> Nat]
          OBVIOUS
        <5> QED BY <4>1, <5>1
      <4> QED BY <4>1, <4>2, <4>3
    <3> QED BY <2>2, <2>3, <3>1
  <2>6. Tail(w) = v
    BY <2>4, <2>5
  <2> QED BY <2>2, <2>3, <2>6
<1>8. LengthOf(plan) = SumFunction(w) /\ LengthOf(rest) = SumFunction(v)
  BY DEF LengthOf
<1> HIDE DEF w, v
<1>9. SumFunction(w) = w[1] + SumFunction(Tail(w)) /\ SumFunction(Tail(w)) \in Nat
  BY <1>7, SumTail
<1> QED BY <1>5, <1>6, <1>7, <1>8, <1>9

LEMMA NothingLeft == LengthOf(<<>>) = 0
<1> DEFINE none == <<>>
           w == [k \in DOMAIN none |-> Bytes(none[k].items)]
<1>1. w = <<>>
  OBVIOUS
<1>2. LengthOf(none) = SumFunction(w)
  BY DEF LengthOf
<1> QED BY <1>1, <1>2, SumShort

\* Writing keeps the sum of what is written and what is not, until the end of the
\* buffer is reached.
LEMMA WrittenCost ==
  ASSUME OutInv, WriteSymbols
  PROVE  /\ SumFunction(todo) \in Nat /\ SumFunction(todo') \in Nat
         /\ os'.end = os.end /\ os'.avail = os.avail /\ os'.next \in Nat /\ os'.bitcount \in Nat
         /\ Position(os') + SumFunction(todo') <= Position(os) + SumFunction(todo)
         /\ \/ os'.next = os'.end
            \/ os.next # os.end
               /\ Position(os') + SumFunction(todo') = Position(os) + SumFunction(todo)
<1> DEFINE n == todo[1]
           bc == os.bitcount + n
           whole == bc \div 8
           x == os.next
           e == os.end
<1>1. todo # <<>> /\ os' = FLUSH_BITS(ADD_BITS(os, n)) /\ todo' = Tail(todo)
  BY DEF WriteSymbols
<1>2. /\ todo \in Seq(Nat) /\ os \in OutStreams /\ x <= e
  <2>1. todo \in Seq(Fitting) /\ os \in OutStreams /\ x <= e
    BY <1>1 DEF OutInv, OutTypes, OutStreams, NotYet
  <2>2. \A y \in Fitting : y \in Nat
    BY DEF Fitting
  <2> QED BY <2>1, <2>2
<1>3. /\ SumFunction(todo) = n + SumFunction(Tail(todo))
      /\ n \in Nat /\ SumFunction(Tail(todo)) \in Nat
  BY <1>1, <1>2, SumTail
<1>4. x \in Nat /\ e \in Int /\ os.bitcount \in 0..7
  BY <1>2 DEF OutStreams
<1>5. /\ os'.end = e /\ os'.avail = os.avail
      /\ os'.next = Least(e, x + whole) /\ os'.bitcount = bc % 8
  BY <1>1, <1>2 DEF FLUSH_BITS, ADD_BITS, OutStreams
<1>6. bc \in Nat
  BY <1>3, <1>4
<1> DEFINE rest == bc % 8
<1>7. whole \in Nat /\ rest \in 0..7 /\ bc = 8 * whole + rest
  <2> HIDE DEF bc
  <2> QED BY <1>6, DivMod
<1> DEFINE later == SumFunction(Tail(todo))
           c == os.bitcount
           y == os'.next
<1> HIDE DEF whole, rest, later, n, x, e
<1>8. y = (IF e < x + whole THEN e ELSE x + whole) /\ y \in Nat /\ y <= x + whole
  BY <1>2, <1>4, <1>5, <1>7 DEF Least
<1>9. y = e \/ (x # e /\ y = x + whole)
  BY <1>2, <1>4, <1>7, <1>8
<1>10. later \in Nat /\ n \in Nat /\ c \in 0..7 /\ x \in Nat
  BY <1>3, <1>4 DEF later
<1>11. c + n = 8 * whole + rest
  BY <1>7
<1>12. Position(os') = 8 * y + rest /\ Position(os) = 8 * x + c
  BY <1>5 DEF Position, rest, x
<1>13. SumFunction(todo) = n + later /\ SumFunction(todo') = later
  BY <1>1, <1>3 DEF later
<1> HIDE DEF c, y
<1>14. (8 * y + rest) + later <= (8 * x + c) + (n + later)
  BY <1>7, <1>8, <1>10, <1>11
<1>15. y = x + whole => (8 * y + rest) + later = (8 * x + c) + (n + later)
  BY <1>7, <1>8, <1>10, <1>11
<1>16. os'.bitcount \in Nat
  BY <1>5, <1>7 DEF rest
<1>17. os'.next \in Nat /\ (os'.next = os'.end \/ (os.next # os.end /\ y = x + whole))
  BY <1>5, <1>8, <1>9 DEF y, e, x
<1>18. n + later \in Nat
  BY <1>10
<1> QED BY <1>5, <1>10, <1>12, <1>13, <1>14, <1>15, <1>16, <1>17, <1>18 DEF e

\* A block is flushed as it was chosen, at the least cost, or to the end of the buffer.
LEMMA FlushedCost ==
  ASSUME OutInv, FlushBlock, NEW n \in Nat \ {0}, n = Bytes(plan[1].items)
  PROVE  /\ block'.at = os /\ block'.cost \in Nat
         /\ \/ /\ os' = os /\ SumFunction(todo') = 3 + block'.cost
               /\ Position(os) + 3 + block'.cost <= 8 * StoredEnd(os, n)
            \/ /\ todo' = <<>> /\ os'.end = os.end /\ os'.avail = os.avail
               /\ os' \in OutStreams
               /\ 8 * StoredEnd(os, n) = Position(os) + 3 + block'.cost
               /\ \/ Position(os') = 8 * StoredEnd(os, n)
                  \/ os'.next = os'.end /\ os.end < StoredEnd(os, n)
<1> DEFINE b == plan[1]
           last == (Len(plan) = 1)
           stat == static_cost(b)
           unco == uncompressed_cost(b)
           dyn == dynamic_cost(b)
           o == StoredBlocks(os, sent, n, last)
           end == StoredEnd(os, n)
           at == Position(os)
           groups(code) == ItemGroups(b.items, code, b.apart) \o <<code.end>>
<1>1. /\ result = NotYet /\ plan # <<>> /\ todo = <<>> /\ os.avail > END_PADDING
  BY DEF FlushBlock
<1>2. /\ plan \in Seq(Blocks) /\ sent \in Seq(SymbolSet)
      /\ os \in OutStreams /\ os.touched <= os.avail /\ os.end = os.avail - END_PADDING
      /\ os.next <= os.end
  BY <1>1 DEF OutInv, OutTypes, OutStreams
<1>3. /\ b \in Blocks /\ last \in BOOLEAN
  BY <1>1, <1>2
<1>4. \/ /\ dyn < Least(stat, unco) /\ UNCHANGED os
         /\ todo' = HeaderGroups(b.lens) \o ItemGroups(b.items, b.codes, b.apart)
                      \o <<b.codes.end>>
         /\ block' = [at |-> os, cost |-> dyn]
      \/ /\ stat < unco /\ UNCHANGED os
         /\ todo' = <<3>> \o ItemGroups(b.items, StaticCode, b.apart) \o <<StaticCode.end>>
         /\ block' = [at |-> os, cost |-> stat]
      \/ /\ os' = (IF o.all THEN o.s ELSE [o.s EXCEPT !.next = o.s.end])
         /\ block' = [at |-> os, cost |-> unco] /\ UNCHANGED todo
  BY DEF FlushBlock
<1>5. /\ dyn \in Nat /\ stat \in Nat
      /\ SumFunction(HeaderGroups(b.lens) \o ItemGroups(b.items, b.codes, b.apart)
                       \o <<b.codes.end>>) = 3 + dyn
      /\ SumFunction(<<3>> \o ItemGroups(b.items, StaticCode, b.apart)
                       \o <<StaticCode.end>>) = 3 + stat
  <2> HIDE DEF b
  <2> QED BY <1>3, BlockCosts
<1>6. end \in Nat /\ unco \in Nat /\ 8 * end = at + 3 + unco
  <2> HIDE DEF b
  <2>1. n = Bytes(b.items)
    BY DEF b
  <2> QED BY <1>2, <2>1, StoredPosition
<1>7. at \in Nat
  BY <1>2 DEF Position, OutStreams
<1> HIDE DEF dyn, stat, unco, b
<1>8. CASE /\ dyn < Least(stat, unco) /\ UNCHANGED os
           /\ todo' = HeaderGroups(b.lens) \o ItemGroups(b.items, b.codes, b.apart)
                        \o <<b.codes.end>>
           /\ block' = [at |-> os, cost |-> dyn]
  <2>1. dyn < unco
    BY <1>5, <1>6, <1>8 DEF Least
  <2>2. block'.at = os /\ block'.cost = dyn /\ SumFunction(todo') = 3 + dyn /\ os' = os
    BY <1>5, <1>8
  <2> HIDE DEF end, at
  <2>3. at + 3 + dyn <= 8 * end
    BY <1>5, <1>6, <1>7, <2>1
  <2> QED BY <1>5, <2>2, <2>3 DEF end, at
<1>9. CASE /\ stat < unco /\ UNCHANGED os
           /\ todo' = <<3>> \o ItemGroups(b.items, StaticCode, b.apart) \o <<StaticCode.end>>
           /\ block' = [at |-> os, cost |-> stat]
  <2>1. block'.at = os /\ block'.cost = stat /\ SumFunction(todo') = 3 + stat /\ os' = os
    BY <1>5, <1>9
  <2> HIDE DEF end, at
  <2>2. at + 3 + stat <= 8 * end
    BY <1>5, <1>6, <1>7, <1>9
  <2> QED BY <1>5, <2>1, <2>2 DEF end, at
<1>10. CASE /\ os' = (IF o.all THEN o.s ELSE [o.s EXCEPT !.next = o.s.end])
            /\ block' = [at |-> os, cost |-> unco] /\ UNCHANGED todo
  <2> DEFINE full == [o.s EXCEPT !.next = o.s.end]
  <2>1. os.end <= os.avail /\ os.end \in Nat
    <3>1. os.avail \in Nat /\ os.end \in Int
      BY <1>2 DEF OutStreams
    <3> QED BY <1>1, <1>2, <3>1, SizesOut
  <2>2. /\ o \in Rows(os)
        /\ o.all => o.s.next = StoredEnd(os, n) /\ o.s.bitcount = 0
        /\ StoredEnd(os, n) <= os.end => o.all
    <3>1. n \in Nat
      OBVIOUS
    <3> HIDE DEF last
    <3> QED BY <1>2, <1>3, <2>1, <3>1, StoredBlocksIs, StoredSize
  <2> HIDE DEF o
  <2>3. /\ o.s \in OutStreams /\ o.s.end = os.end /\ o.s.avail = os.avail
    BY <2>2 DEF Rows
  <2>4. full \in OutStreams /\ full.end = os.end /\ full.avail = os.avail /\ full.next = os.end
    BY <2>1, <2>3 DEF OutStreams
  <2> HIDE DEF full
  <2>5. os' = (IF o.all THEN o.s ELSE full)
    BY <1>10 DEF full
  <2>6. /\ os' \in OutStreams /\ os'.end = os.end /\ os'.avail = os.avail
    BY <2>3, <2>4, <2>5
  <2>7. Position(os') = 8 * end \/ (os'.next = os'.end /\ os.end < end)
    <3>1. CASE o.all
      <4>1. os'.next = end /\ os'.bitcount = 0
        BY <2>2, <2>5, <3>1
      <4> HIDE DEF end
      <4> QED BY <1>6, <4>1 DEF Position
    <3>2. CASE ~o.all
      <4>1. os'.next = os'.end /\ ~(end <= os.end)
        BY <2>2, <2>4, <2>5, <3>2
      <4> HIDE DEF end
      <4> QED BY <1>6, <2>1, <4>1
    <3> QED BY <3>1, <3>2
  <2>8. todo' = <<>> /\ block'.at = os /\ block'.cost = unco
    BY <1>1, <1>10
  <2> HIDE DEF end, at
  <2> QED BY <1>6, <2>6, <2>7, <2>8 DEF end, at
<1> QED BY <1>4, <1>8, <1>9, <1>10

\* compress_bound leaves room for the rows of every block.
LEMMA BoundRoom ==
  ASSUME NEW n \in Nat, NEW rows \in Nat, rows <= Most(UpTo(n, MinBlock), 1)
  PROVE  /\ Row * rows + n + 9 <= compress_bound(n)
         /\ compress_bound(n) \in Nat /\ Row * rows \in Nat
<1> DEFINE q == Most(UpTo(n, MinBlock), 1)
           w == Row
<1>1. q \in Nat
  <2>1. UpTo(n, MinBlock) \in Nat
    BY SizesOut, UpToAny
  <2> QED BY <2>1 DEF Most
<1>2. w \in Nat /\ compress_bound(n) = w * q + n + 1 + 8
  BY SizesOut DEF compress_bound, Row
<1> HIDE DEF q, w
<1>3. w * rows <= w * q /\ w * rows \in Nat /\ w * q \in Nat
  <2>1. ASSUME NEW u \in Nat, NEW v \in Nat, u <= v PROVE w * u <= w * v /\ w * u \in Nat
    <3>1. PICK y \in Nat : v = u + y
      <4>1. v - u \in Nat /\ v = u + (v - u)
        BY <2>1
      <4> QED BY <4>1
    <3>2. ASSUME NEW x \in Nat, NEW z \in Nat PROVE w * x \in Nat /\ w * (x + z) = w * x + w * z
      BY <1>2
    <3>3. w * v = w * u + w * y /\ w * u \in Nat /\ w * y \in Nat
      BY <3>1, <3>2
    <3> QED BY <3>3
  <2>2. rows <= q /\ q <= q
    BY <1>1 DEF q
  <2> QED BY <1>1, <2>1, <2>2
<1> DEFINE a == w * rows
           c == w * q
<1>4. a <= c /\ a \in Nat /\ c \in Nat /\ compress_bound(n) = c + n + 1 + 8
  BY <1>2, <1>3
<1> HIDE DEF a, c
<1>5. a + n + 9 <= compress_bound(n) /\ compress_bound(n) \in Nat
  BY <1>4
<1> QED BY <1>4, <1>5 DEF a, w

\* A block of n bytes becomes r rows, and what is before it became no more of them
\* than it has blocks of minimum length.
Grows(total, n, left, rows, r) ==
  /\ total \in Nat /\ n \in Nat \ {0} /\ left \in Nat /\ n + left <= total
  /\ rows \in Nat /\ rows * MinBlock <= total - (n + left)
  /\ r = UpTo(n, StoredMax)

\* The rows of one more block stay within those of the bound.
LEMMA BlockFits ==
  ASSUME NEW total, NEW n, NEW left, NEW rows, NEW r, Grows(total, n, left, rows, r)
  PROVE  /\ rows + r \in 0..UpTo(total, MinBlock)
         /\ n >= MinBlock => (rows + r) * MinBlock <= total - left
         /\ Row * (rows + r) = Row * rows + Row * r
<1> DEFINE M == MinBlock
           q == UpTo(total, MinBlock)
<1>0. /\ total \in Nat /\ n \in Nat \ {0} /\ left \in Nat /\ rows \in Nat
      /\ n + left <= total /\ rows * M <= total - (n + left) /\ r = UpTo(n, StoredMax)
  BY DEF Grows
<1>1. M \in Nat \ {0} /\ q \in Nat
  BY <1>0, SizesOut, UpToAny
<1>2. r \in Nat \ {0} /\ (n >= M => r * M <= n) /\ (n < M => r = 1)
  BY <1>0, RowsOf
<1>3. \A k \in Nat : (k * M <= total => k <= q) /\ (k * M < total => k + 1 <= q)
  BY <1>0, <1>1, UpToBound
<1>4. rows \in Nat /\ rows * M <= total - (n + left)
  BY <1>0
<1> HIDE DEF M, q
<1>5. ASSUME NEW x \in Nat, NEW y \in Nat, NEW z \in Nat
      PROVE  (x + y) * z = x * z + y * z /\ z * (x + y) = z * x + z * y /\ x * z \in Nat
  OBVIOUS
<1>6. (rows + r) * M = rows * M + r * M /\ rows * M \in Nat /\ r * M \in Nat
  BY <1>1, <1>2, <1>4, <1>5
<1>7. Row * (rows + r) = Row * rows + Row * r
  <2>1. Row \in Nat
    BY SizesOut DEF Row
  <2> HIDE DEF M
  <2> QED BY <1>2, <1>4, <1>5, <2>1
<1> DEFINE a == rows * M
           c == r * M
           later == (rows + r) * M
<1>8. /\ later = a + c /\ a \in Nat /\ c \in Nat /\ a <= total - (n + left)
      /\ (n >= M => c <= n) /\ rows \in Nat /\ r \in Nat /\ rows + r \in Nat
  BY <1>0, <1>2, <1>4, <1>6
<1>9. (later <= total => rows + r <= q) /\ (a < total => rows + 1 <= q)
  BY <1>3, <1>8
<1> HIDE DEF a, c, later
<1>10. CASE n >= M
  <2>1. later <= total - left /\ later <= total
    BY <1>0, <1>8, <1>10
  <2>2. rows + r \in 0..q
    BY <1>0, <1>1, <1>8, <1>9, <2>1
  <2> QED BY <1>7, <2>1, <2>2 DEF later, M, q
<1>11. CASE n < M
  <2>1. ~(n >= M)
    BY <1>0, <1>1, <1>11
  <2>2. a < total
    BY <1>0, <1>8
  <2>3. rows + r \in 0..q
    BY <1>0, <1>1, <1>2, <1>8, <1>9, <1>11, <2>2
  <2> QED BY <1>7, <2>1, <2>3 DEF M, q
<1> QED BY <1>0, <1>1, <1>10, <1>11

\* While blocks are flushed, a buffer of the bound has room for their rows.
WithinBound ==
  \E rows \in 0..UpTo(in_nbytes, MinBlock) :
    /\ Position(os) + SumFunction(todo) <= 8 * (Row * rows + (in_nbytes - LengthOf(plan)))
    /\ plan # <<>> => rows * MinBlock <= in_nbytes - LengthOf(plan)

Counted ==
  block.cost # NotYet =>
    \/ os.next = os.end
    \/ Position(os) + SumFunction(todo) = Position(block.at) + 3 + block.cost

Flushing ==
  /\ PlanLong /\ LengthOf(plan) <= in_nbytes
  /\ block.cost = NotYet => Position(os) = 0 /\ todo = <<>> /\ LengthOf(plan) = in_nbytes
  /\ Counted
  /\ os.avail >= compress_bound(in_nbytes) => WithinBound

\* What a block adds is what it was chosen for, and the rows it may become fit.
CostInv ==
  /\ block.at.next \in Nat /\ block.at.bitcount \in Nat /\ block.cost \in Nat \cup {NotYet}
  /\ result = NotYet => Flushing
  /\ result = 0 /\ from # "any" => os.avail < compress_bound(in_nbytes)

LEMMA FlushBlockCosts ==
  ASSUME OutInv, CostInv, FlushBlock
  PROVE  CostInv'
<1> DEFINE n == Bytes(plan[1].items)
           left == LengthOf(Tail(plan))
           more == Tail(plan) # <<>>
           end == StoredEnd(os, n)
           r == UpTo(n, StoredMax)
           total == in_nbytes
           at == Position(os)
<1>1. /\ result = NotYet /\ plan # <<>> /\ todo = <<>> /\ os.avail > END_PADDING
      /\ plan' = Tail(plan) /\ UNCHANGED <<build, in_nbytes, result>>
  BY DEF FlushBlock
<1>2. /\ plan \in Seq(Blocks) /\ total \in Nat /\ os \in OutStreams
      /\ os.end = os.avail - END_PADDING /\ os.next <= os.end
  BY <1>1 DEF OutInv, OutTypes, OutStreams
<1>3. Flushing
  BY <1>1 DEF CostInv
<1>4. /\ n \in Nat \ {0} /\ (more => n >= MinBlock)
      /\ LengthOf(plan) = n + left /\ left \in Nat /\ n + left <= total
      /\ \A i \in DOMAIN Tail(plan) :
           Bytes(Tail(plan)[i].items) >= IF i < Len(Tail(plan)) THEN MinBlock ELSE 1
  BY <1>1, <1>2, <1>3, PlanTail DEF Flushing
<1>5. PlanLong'
  BY <1>1, <1>4 DEF PlanLong
<1>6. LengthOf(plan') = left /\ (plan' # <<>> <=> more)
  BY <1>1
<1> HIDE DEF n, left, more
<1>7. /\ block'.at = os /\ block'.cost \in Nat
      /\ \/ /\ os' = os /\ SumFunction(todo') = 3 + block'.cost
            /\ at + 3 + block'.cost <= 8 * end
         \/ /\ todo' = <<>> /\ os'.end = os.end /\ os'.avail = os.avail
            /\ os' \in OutStreams
            /\ 8 * end = at + 3 + block'.cost
            /\ \/ Position(os') = 8 * end
               \/ os'.next = os'.end /\ os.end < end
  BY <1>4, FlushedCost DEF n
<1>8. /\ end \in Nat
      /\ \A m \in Nat : at <= 8 * m => end <= m + Row * r + n
  <2> DEFINE b == plan[1]
  <2>1. n = Bytes(b.items)
    BY DEF n
  <2> HIDE DEF b
  <2> QED BY <1>2, <1>4, <2>1, StoredPosition
<1>9. /\ os.next \in Nat /\ os.bitcount \in Nat /\ at \in Nat /\ os.end \in Int
      /\ os.avail \in Nat /\ os'.avail = os.avail /\ os'.end = os.end
      /\ Position(os') \in Nat /\ SumFunction(<<>>) = 0
  <2>1. ASSUME NEW s \in OutStreams
        PROVE  /\ s.next \in Nat /\ s.bitcount \in Nat /\ s.end \in Int /\ s.avail \in Nat
               /\ Position(s) \in Nat
    BY DEF Position, OutStreams
  <2>2. os' \in OutStreams /\ os'.avail = os.avail /\ os'.end = os.end
    BY <1>2, <1>7
  <2> QED BY <1>2, <2>1, <2>2, SumShort
<1>10. block'.at.next \in Nat /\ block'.at.bitcount \in Nat /\ block'.cost # NotYet
  BY <1>7, <1>9 DEF NotYet
<1>11. \/ os'.next = os'.end
       \/ Position(os') + SumFunction(todo') = Position(block'.at) + 3 + block'.cost
  <2> DEFINE cost == block'.cost
             sum == SumFunction(todo')
             to == Position(os')
  <2>1. \/ to = at /\ sum = 3 + cost
        \/ sum = 0 /\ to = at + 3 + cost
        \/ os'.next = os'.end
    BY <1>7, <1>9
  <2>2. cost \in Nat /\ at \in Nat /\ Position(block'.at) = at
    BY <1>7, <1>9
  <2> HIDE DEF cost, sum, to, at
  <2>3. (to = at /\ sum = 3 + cost) \/ (sum = 0 /\ to = at + 3 + cost) => to + sum = at + 3 + cost
    BY <2>2
  <2> QED BY <2>1, <2>2, <2>3 DEF cost, sum, to
<1>12. Counted'
  BY <1>11 DEF Counted, Position, NotYet
<1>13. ASSUME os.avail >= compress_bound(total)
       PROVE  \E rows \in 0..UpTo(total, MinBlock) :
                /\ Position(os') + SumFunction(todo') <= 8 * (Row * rows + (total - left))
                /\ more => rows * MinBlock <= total - left
  <2>1. PICK rows :
          /\ rows \in 0..UpTo(total, MinBlock)
          /\ at + SumFunction(todo) <= 8 * (Row * rows + (total - (n + left)))
          /\ rows * MinBlock <= total - (n + left)
    BY <1>1, <1>3, <1>4, <1>13 DEF Flushing, WithinBound
  <2> DEFINE now == rows + r
  <2>2. /\ now \in 0..UpTo(total, MinBlock)
        /\ more => now * MinBlock <= total - left
        /\ Row * now = Row * rows + Row * r
    <3>1. Grows(total, n, left, rows, r)
      BY <1>2, <1>4, <2>1 DEF Grows
    <3> HIDE DEF r, total
    <3>2. /\ rows + r \in 0..UpTo(total, MinBlock)
          /\ n >= MinBlock => (rows + r) * MinBlock <= total - left
          /\ Row * (rows + r) = Row * rows + Row * r
      BY <3>1, BlockFits
    <3> QED BY <1>4, <3>2
  <2>3. UpTo(total, MinBlock) \in Nat /\ now <= Most(UpTo(total, MinBlock), 1) /\ now \in Nat
        /\ rows <= Most(UpTo(total, MinBlock), 1) /\ rows \in Nat
    <3>1. UpTo(total, MinBlock) \in Nat
      BY <1>2, SizesOut, UpToAny
    <3> HIDE DEF now, r
    <3> QED BY <2>1, <2>2, <3>1 DEF Most
  <2>4. /\ Row * now + total + 9 <= compress_bound(total) /\ compress_bound(total) \in Nat
        /\ Row * now \in Nat /\ Row * rows \in Nat
    <3> HIDE DEF now
    <3> QED BY <1>2, <2>3, BoundRoom
  <2> DEFINE a == Row * rows
             c == Row * r
             e == Row * now
             m == a + (total - (n + left))
  <2>5. e = a + c /\ e \in Nat /\ a \in Nat /\ c \in Int /\ at <= 8 * m /\ m \in Nat
    <3>1. r \in Nat
      <4>1. n \in Nat
        BY <1>4
      <4> QED BY <4>1, SizesOut, UpToAny
    <3>2. c \in Int
      <4>1. Row \in Nat
        BY SizesOut DEF Row
      <4> HIDE DEF r
      <4> QED BY <3>1, <4>1
    <3>3. m \in Nat
      <4> HIDE DEF a
      <4> QED BY <1>2, <1>4, <2>4 DEF a
    <3> HIDE DEF r, now, at
    <3> QED BY <1>1, <1>9, <2>1, <2>2, <2>4, <3>2, <3>3
  <2>6. end <= m + c + n
    <3> HIDE DEF m, at, end, r
    <3> QED BY <1>8, <2>5
  <2> HIDE DEF a, c, e, now
  <2>7. end <= e + (total - left)
    <3> HIDE DEF end
    <3> QED BY <1>2, <1>4, <1>8, <2>5, <2>6
  <2>8. end < os.end
    <3> HIDE DEF end
    <3>1. e + total + 9 <= compress_bound(total)
      BY <2>4 DEF e
    <3>2. compress_bound(total) <= os.avail /\ os.avail = os.end + 8
      BY <1>2, <1>9, <1>13, SizesOut
    <3> HIDE DEF total
    <3> QED BY <1>2, <1>4, <1>8, <1>9, <2>4, <2>5, <2>7, <3>1, <3>2
  <2>9. Position(os') + SumFunction(todo') <= 8 * end
    <3> DEFINE sum == SumFunction(todo')
               cost == block'.cost
               to == Position(os')
    <3>1. CASE os' = os /\ sum = 3 + cost /\ at + 3 + cost <= 8 * end
      <4>1. to = at /\ cost \in Nat
        BY <1>7, <3>1
      <4> HIDE DEF sum, cost, to, at, end
      <4>2. to + sum <= 8 * end
        BY <1>8, <1>9, <3>1, <4>1
      <4> QED BY <4>2 DEF sum, to
    <3>2. CASE todo' = <<>> /\ (to = 8 * end \/ os.end < end)
      <4>1. sum = 0 /\ to \in Nat
        BY <1>9, <3>2
      <4> HIDE DEF sum, to, end
      <4>2. to = 8 * end
        BY <1>8, <1>9, <2>8, <3>2
      <4>3. to + sum <= 8 * end
        BY <4>1, <4>2
      <4> QED BY <4>3 DEF sum, to
    <3> QED BY <1>7, <3>1, <3>2
  <2> DEFINE all == Position(os') + SumFunction(todo')
  <2>10. all \in Int
    <3>1. SumFunction(todo') \in Int
      <4>1. SumFunction(todo') = 3 + block'.cost \/ todo' = <<>>
        BY <1>7
      <4> QED BY <1>7, <1>9, <4>1
    <3> QED BY <1>9, <3>1
  <2>11. all <= 8 * (e + (total - left))
    <3>1. all <= 8 * end
      BY <2>9
    <3> HIDE DEF all, end
    <3> QED BY <1>2, <1>4, <1>8, <2>5, <2>7, <2>10, <3>1
  <2> QED BY <2>2, <2>11 DEF e, now
<1>14. os'.avail >= compress_bound(in_nbytes)' => WithinBound'
  <2>1. in_nbytes' = total /\ plan' = Tail(plan)
    BY <1>1
  <2>2. compress_bound(in_nbytes)' = compress_bound(total)
    BY <2>1 DEF compress_bound, UpTo
  <2>3. WithinBound' <=>
          \E rows \in 0..UpTo(total, MinBlock) :
            /\ Position(os') + SumFunction(todo') <= 8 * (Row * rows + (total - LengthOf(plan')))
            /\ plan' # <<>> => rows * MinBlock <= total - LengthOf(plan')
    BY <2>1 DEF WithinBound
  <2> QED BY <1>6, <1>9, <1>13, <2>2, <2>3
<1>15. LengthOf(plan)' <= in_nbytes'
  <2>1. left <= total
    BY <1>2, <1>4
  <2>2. LengthOf(plan)' = left
    BY <1>6
  <2> QED BY <1>1, <2>1, <2>2
<1>16. Flushing'
  BY <1>5, <1>10, <1>12, <1>14, <1>15 DEF Flushing, NotYet
<1> QED BY <1>1, <1>7, <1>10, <1>16 DEF CostInv, NotYet

LEMMA WriteSymbolsCosts ==
  ASSUME OutInv, CostInv, WriteSymbols
  PROVE  CostInv'
<1> DEFINE sum == Position(os) + SumFunction(todo)
           later == Position(os') + SumFunction(todo')
<1>1. todo # <<>> /\ UNCHANGED <<in_nbytes, plan, block, result>>
  BY DEF WriteSymbols
<1>2. result = NotYet /\ os \in OutStreams /\ in_nbytes \in Nat /\ plan \in Seq(Blocks)
  BY <1>1 DEF OutInv, OutTypes, OutStreams
<1>3. Flushing /\ block.cost # NotYet
  BY <1>1, <1>2 DEF CostInv, Flushing
<1>4. /\ SumFunction(todo) \in Nat /\ SumFunction(todo') \in Nat
      /\ os'.end = os.end /\ os'.avail = os.avail /\ os'.next \in Nat /\ os'.bitcount \in Nat
      /\ later <= sum
      /\ os'.next = os'.end \/ (os.next # os.end /\ later = sum)
  BY WrittenCost
<1>5. Position(os) \in Nat /\ Position(os') \in Nat
  <2>1. ASSUME NEW s, s.next \in Nat, s.bitcount \in Nat PROVE Position(s) \in Nat
    BY <2>1 DEF Position
  <2>2. os.next \in Nat /\ os.bitcount \in Nat
    BY <1>2 DEF OutStreams
  <2> QED BY <1>4, <2>1, <2>2
<1>6. sum \in Nat /\ later \in Nat
  BY <1>4, <1>5
<1> HIDE DEF sum, later
<1>7. /\ PlanLong' = PlanLong /\ LengthOf(plan)' = LengthOf(plan)
      /\ compress_bound(in_nbytes)' = compress_bound(in_nbytes)
  BY <1>1 DEF PlanLong, LengthOf, compress_bound, UpTo
<1>8. Counted'
  <2>1. os'.next = os'.end \/ later = Position(block.at) + 3 + block.cost
    BY <1>3, <1>4 DEF Flushing, Counted, sum
  <2> QED BY <1>1, <2>1 DEF Counted, Position, later, NotYet
<1>9. os'.avail >= compress_bound(in_nbytes)' => WithinBound'
  <2> SUFFICES ASSUME os.avail >= compress_bound(in_nbytes) PROVE WithinBound'
    BY <1>4, <1>7
  <2>1. PICK rows \in 0..UpTo(in_nbytes, MinBlock) :
          /\ sum <= 8 * (Row * rows + (in_nbytes - LengthOf(plan)))
          /\ plan # <<>> => rows * MinBlock <= in_nbytes - LengthOf(plan)
    BY <1>3 DEF Flushing, WithinBound, sum
  <2> DEFINE room == Row * rows + (in_nbytes - LengthOf(plan))
  <2>2. room \in Int
    <3>1. LengthOf(plan) \in Nat /\ Row \in Nat /\ UpTo(in_nbytes, MinBlock) \in Nat
      BY <1>2, LengthOfIs, SizesOut, UpToAny DEF Row
    <3>2. Row * rows \in Int
      BY <3>1
    <3> QED BY <1>2, <3>1, <3>2
  <2>3. later <= 8 * room
    <3>1. sum <= 8 * room
      BY <2>1
    <3> HIDE DEF room
    <3> QED BY <1>4, <1>6, <2>2, <3>1
  <2>4. \E k \in 0..UpTo(in_nbytes, MinBlock) :
          /\ later <= 8 * (Row * k + (in_nbytes - LengthOf(plan)))
          /\ plan # <<>> => k * MinBlock <= in_nbytes - LengthOf(plan)
    BY <2>1, <2>3
  <2>5. WithinBound' <=>
          \E k \in 0..UpTo(in_nbytes, MinBlock) :
            /\ later <= 8 * (Row * k + (in_nbytes - LengthOf(plan)))
            /\ plan # <<>> => k * MinBlock <= in_nbytes - LengthOf(plan)
    BY <1>1, <1>7 DEF WithinBound, later, LengthOf
  <2> QED BY <2>4, <2>5
<1>10. Flushing'
  BY <1>1, <1>3, <1>7, <1>8, <1>9 DEF Flushing, NotYet
<1> QED BY <1>1, <1>2, <1>10 DEF CostInv, NotYet

LEMMA FinishCosts ==
  ASSUME OutInv, CostInv, Finish
  PROVE  CostInv'
<1> DEFINE bound == compress_bound(in_nbytes)
           head == UpTo(os.bitcount, 8)
<1>1. /\ result = NotYet /\ todo = <<>> /\ UNCHANGED <<in_nbytes, plan, block>>
      /\ IF plan = <<>> THEN block.cost # NotYet ELSE os.avail <= END_PADDING
      /\ result' = IF os.next >= os.end \/ os.avail <= END_PADDING THEN 0 ELSE os.next + head
  BY DEF Finish
<1>2. /\ os \in OutStreams /\ in_nbytes \in Nat /\ plan \in Seq(Blocks)
      /\ os.end = os.avail - END_PADDING /\ (os.avail > END_PADDING => os.next <= os.end)
  BY <1>1 DEF OutInv, OutTypes, OutStreams
<1>3. Flushing
  BY <1>1 DEF CostInv
<1>4. os'.avail = os.avail
  BY <1>2 DEF Finish, OutStreams
<1>5. /\ os.next \in Nat /\ os.bitcount \in 0..7 /\ os.end \in Int /\ os.avail \in Nat
      /\ os.end = os.avail - 8 /\ bound \in Nat /\ END_PADDING = 8
      /\ SumFunction(<<>>) = 0 /\ LengthOf(<<>>) = 0
  <2>1. bound \in Nat
    <3>1. 0 \in Nat /\ 0 <= Most(UpTo(in_nbytes, MinBlock), 1)
      <4>1. UpTo(in_nbytes, MinBlock) \in Nat
        BY <1>2, SizesOut, UpToAny
      <4> QED BY <4>1 DEF Most
    <3> QED BY <1>2, <3>1, BoundRoom
  <2> QED BY <1>2, <2>1, SizesOut, SumShort, NothingLeft DEF OutStreams
<1>6. head \in Nat /\ (os.bitcount > 0 => head > 0)
  BY <1>5 DEF UpTo
<1>7. ASSUME os.avail >= bound PROVE result' > 0
  <2>1. PICK rows :
          /\ rows \in 0..UpTo(in_nbytes, MinBlock)
          /\ Position(os) + SumFunction(todo) <= 8 * (Row * rows + (in_nbytes - LengthOf(plan)))
    BY <1>3, <1>7 DEF Flushing, WithinBound
  <2>2. /\ Row * rows + in_nbytes + 9 <= bound /\ Row * rows \in Nat
    <3>1. rows \in Nat /\ rows <= Most(UpTo(in_nbytes, MinBlock), 1)
      <4>1. UpTo(in_nbytes, MinBlock) \in Nat
        BY <1>2, SizesOut, UpToAny
      <4> QED BY <2>1, <4>1 DEF Most
    <3> QED BY <1>2, <3>1, BoundRoom
  <2> DEFINE a == Row * rows
             x == os.next
             c == os.bitcount
  <2>3. a + in_nbytes + 9 <= bound /\ a \in Nat
    BY <2>2
  <2> HIDE DEF a
  <2>4. os.avail > 8
    BY <1>2, <1>5, <1>7, <2>3
  <2>5. plan = <<>>
    BY <1>1, <1>5, <2>4
  <2>6. 8 * x + c <= 8 * (a + in_nbytes)
    <3>1. in_nbytes - LengthOf(plan) = in_nbytes /\ SumFunction(todo) = 0
      BY <1>1, <1>2, <1>5, <2>5
    <3>2. Position(os) = 8 * x + c /\ (8 * x + c) + 0 = 8 * x + c
      BY <1>5 DEF Position
    <3> QED BY <2>1, <3>1, <3>2 DEF a
  <2>7. x < os.end
    <3> DEFINE e == os.end
               v == os.avail
    <3>1. /\ x \in Nat /\ c \in Nat /\ e \in Int /\ v \in Nat /\ e = v - 8 /\ bound \in Nat
          /\ v >= bound /\ 8 * x + c <= 8 * (a + in_nbytes) /\ a + in_nbytes + 9 <= bound
      BY <1>5, <1>7, <2>3, <2>6
    <3> HIDE DEF x, c, e, v, bound
    <3>2. x < e
      BY <1>2, <2>3, <3>1
    <3> QED BY <3>2 DEF e
  <2>8. Position(os) = Position(block.at) + 3 + block.cost
    <3>1. block.cost # NotYet /\ os.next # os.end
      BY <1>1, <1>5, <2>5, <2>7
    <3>2. Position(os) + SumFunction(todo) = Position(os)
      BY <1>1, <1>5 DEF Position
    <3> QED BY <1>3, <3>1, <3>2 DEF Flushing, Counted
  <2>9. 8 * x + c >= 3
    <3>1. block.at.next \in Nat /\ block.at.bitcount \in Nat /\ block.cost \in Nat
      BY <1>1, <2>5 DEF CostInv
    <3> QED BY <2>8, <3>1 DEF Position
  <2>10. result' = x + head
    BY <1>1, <1>5, <2>4, <2>7
  <2> QED BY <1>5, <1>6, <2>9, <2>10
<1>8. result' # NotYet /\ result' \in Nat
  BY <1>1, <1>5, <1>6 DEF NotYet
<1>9. in_nbytes' = in_nbytes /\ compress_bound(in_nbytes)' = bound
  BY <1>1 DEF compress_bound, UpTo
<1>10. result' = 0 => os'.avail < compress_bound(in_nbytes)'
  BY <1>4, <1>5, <1>7, <1>8, <1>9
<1> QED BY <1>1, <1>8, <1>10 DEF CostInv, NotYet

LEMMA CompressNoneCosts ==
  ASSUME OutInv, CostInv, CompressNone
  PROVE  CostInv'
<1> DEFINE whole == [os EXCEPT !.end = os.avail]
           none == <<>>
           o == StoredBlocks(whole, none, in_nbytes, TRUE)
           bound == compress_bound(in_nbytes)
           rows == Most(UpTo(in_nbytes, StoredMax), 1)
<1>1. /\ result = NotYet /\ block.cost = NotYet /\ os' = o.s
      /\ result' = (IF o.all THEN o.s.next ELSE 0)
      /\ UNCHANGED <<in_nbytes, block>>
  BY DEF CompressNone
<1>2. /\ os \in OutStreams /\ in_nbytes \in Nat /\ os.touched <= os.avail
  BY <1>1 DEF OutInv, OutTypes, OutStreams
<1>3. os.next = 0 /\ os.bitcount = 0
  <2>1. Position(os) = 0
    BY <1>1 DEF CostInv, Flushing
  <2> QED BY <1>2, <2>1 DEF Position, OutStreams
<1>4. /\ whole \in OutStreams /\ whole.end = os.avail /\ whole.avail = os.avail
      /\ whole.touched = os.touched /\ os.avail \in Nat
      /\ whole.next = 0 /\ whole.bitcount = 0
  BY <1>2, <1>3 DEF OutStreams
<1>5. whole.end <= whole.avail /\ whole.touched <= whole.avail
  BY <1>2, <1>4
<1>6. none \in Seq(SymbolSet) /\ TRUE \in BOOLEAN
  OBVIOUS
<1> HIDE DEF whole, none
<1>7. /\ o \in Rows(whole)
      /\ o.all => o.s.next = StoredEnd(whole, in_nbytes)
      /\ StoredEnd(whole, in_nbytes) <= whole.end => o.all
  BY <1>2, <1>4, <1>5, <1>6, StoredBlocksIs, StoredSize
<1> HIDE DEF o
<1>8. o.s \in OutStreams /\ o.s.avail = os.avail /\ o.s.next \in Nat
  BY <1>4, <1>7 DEF Rows, OutStreams
<1>9. /\ Row * rows + in_nbytes + 9 <= bound /\ bound \in Nat /\ Row * rows \in Nat
      /\ Row * rows > 0
  <2> DEFINE few == UpTo(in_nbytes, StoredMax)
             many == UpTo(in_nbytes, MinBlock)
  <2>1. few \in Nat /\ many \in Nat /\ few <= many
    BY <1>2, SizesOut, UpToAny, LongerFewer
  <2>2. rows = Most(few, 1)
    OBVIOUS
  <2> HIDE DEF few, many, rows
  <2>3. rows \in Nat \ {0} /\ rows <= Most(many, 1)
    BY <2>1, <2>2 DEF Most
  <2>4. /\ Row * rows + in_nbytes + 9 <= bound /\ bound \in Nat /\ Row * rows \in Nat
    BY <1>2, <2>3, BoundRoom DEF many
  <2>5. Row \in Nat \ {0}
    BY SizesOut DEF Row
  <2>6. ASSUME NEW u \in Nat \ {0}, NEW v \in Nat \ {0} PROVE u * v > 0
    OBVIOUS
  <2> QED BY <2>3, <2>4, <2>5, <2>6
<1>10. StoredEnd(whole, in_nbytes) = Row * rows + in_nbytes
  <2> DEFINE a == Row * rows
  <2>1. StoredEnd(whole, in_nbytes) = 0 + UpTo(0 + 3, 8) - 1 + a + in_nbytes
    BY <1>4 DEF StoredEnd, Row
  <2>2. UpTo(0 + 3, 8) = 1
    BY DEF UpTo
  <2>3. a \in Nat
    BY <1>9
  <2> HIDE DEF a
  <2>4. StoredEnd(whole, in_nbytes) = a + in_nbytes
    BY <1>2, <2>1, <2>2, <2>3
  <2> QED BY <2>4 DEF a
<1> DEFINE end == StoredEnd(whole, in_nbytes)
<1>11. end \in Nat /\ end > 0 /\ end + 9 <= bound /\ bound \in Nat
  <2> DEFINE a == Row * rows
  <2>1. end = a + in_nbytes /\ a \in Nat /\ a > 0 /\ a + in_nbytes + 9 <= bound
    BY <1>9, <1>10
  <2> HIDE DEF a, bound, end
  <2> QED BY <1>2, <1>9, <2>1
<1> HIDE DEF end, bound
<1>12. os.avail >= bound => result' > 0
  <2> SUFFICES ASSUME os.avail >= bound PROVE result' > 0
    OBVIOUS
  <2>1. end <= whole.end
    BY <1>4, <1>11
  <2>2. o.all /\ o.s.next = end
    BY <1>7, <2>1 DEF end
  <2> QED BY <1>1, <1>11, <2>2
<1>13. result' \in Nat /\ result' # NotYet
  BY <1>1, <1>8 DEF NotYet
<1>14. in_nbytes' = in_nbytes /\ compress_bound(in_nbytes)' = bound /\ os'.avail = os.avail
  BY <1>1, <1>8 DEF compress_bound, UpTo, bound
<1>15. result' = 0 => os'.avail < compress_bound(in_nbytes)'
  BY <1>4, <1>11, <1>12, <1>13, <1>14
<1> QED BY <1>1, <1>13, <1>15 DEF CostInv, NotYet

LEMMA InitCosts ==
  ASSUME Init
  PROVE  CostInv
<1>1. /\ OutInv /\ plan \in Plans /\ in_nbytes = LengthOf(plan) /\ todo = <<>>
      /\ block = [at |-> os, cost |-> NotYet] /\ result = NotYet
  BY OutInitInv DEF Init, OutInit
<1>2. PICK a \in Avails : LET avail == compress_bound(in_nbytes) + a IN
        avail >= 0 /\ os = BitStream(avail)
  BY DEF Init, OutInit
<1>3. os.next = 0 /\ os.bitcount = 0
  BY <1>2 DEF BitStream
<1>4. in_nbytes \in Nat /\ os.avail \in Nat
  BY <1>1 DEF OutInv, OutTypes, OutStreams
<1>5. PlanLong
  BY <1>1, StreamAssumption DEF PlanLong
<1>6. Position(os) = 0 /\ SumFunction(todo) = 0
  BY <1>1, <1>3, SumShort DEF Position
<1>7. WithinBound
  <2>1. UpTo(in_nbytes, MinBlock) \in Nat /\ Row \in Nat
    BY <1>4, SizesOut, UpToAny DEF Row
  <2>2. in_nbytes - LengthOf(plan) = 0 /\ Row * 0 = 0 /\ 0 * MinBlock = 0
    BY <1>1, <1>4, <2>1, SizesOut
  <2>3. Position(os) + SumFunction(todo) <= 8 * (Row * 0 + (in_nbytes - LengthOf(plan)))
    BY <1>6, <2>2
  <2>4. 0 \in 0..UpTo(in_nbytes, MinBlock)
    BY <2>1
  <2> QED BY <2>2, <2>3, <2>4 DEF WithinBound
<1>8. Flushing
  <2>1. LengthOf(plan) <= in_nbytes
    BY <1>1, <1>4
  <2> QED BY <1>1, <1>5, <1>6, <1>7, <2>1 DEF Flushing, Counted
<1>9. /\ block.at.next \in Nat /\ block.at.bitcount \in Nat /\ block.cost = NotYet
  BY <1>1, <1>3
<1> QED BY <1>1, <1>8, <1>9 DEF CostInv, NotYet

\* What is said of the compressor stays while the decompressor runs.
LEMMA CostsUnchanged ==
  ASSUME CostInv, UNCHANGED <<outVars, from>>
  PROVE  CostInv'
<1>1. UNCHANGED <<in_nbytes, plan, os, todo, block, result, from>>
  BY DEF outVars
<1>2. /\ PlanLong' = PlanLong /\ LengthOf(plan)' = LengthOf(plan)
      /\ compress_bound(in_nbytes)' = compress_bound(in_nbytes)
  BY <1>1 DEF PlanLong, LengthOf, compress_bound, UpTo
<1>3. Counted' = Counted /\ WithinBound' = WithinBound /\ Position(os)' = Position(os)
  BY <1>1, <1>2 DEF Counted, WithinBound, Position, NotYet, LengthOf
<1>4. Flushing' = Flushing
  BY <1>1, <1>2, <1>3 DEF Flushing, NotYet
<1> QED BY <1>1, <1>2, <1>4 DEF CostInv, NotYet

\* When the decompressor begins, nothing is counted any more.
LEMMA OpenCosts ==
  ASSUME StreamInv, CostInv, OpenSent \/ OpenAny
  PROVE  CostInv'
<1>1. /\ os' = BitStream(0) /\ block' = [at |-> os', cost |-> NotYet]
      /\ (result > 0 /\ result' = result) \/ (result' = 0 /\ from' = "any")
  BY DEF OpenSent, OpenAny
<1>2. block'.at.next = 0 /\ block'.at.bitcount = 0 /\ block'.cost = NotYet
  BY <1>1 DEF BitStream
<1>3. result \in Int
  BY DEF StreamInv, OutInv, OutTypes
<1>4. result' # NotYet /\ ~(result' = 0 /\ from' # "any")
  BY <1>1, <1>3 DEF NotYet
<1> QED BY <1>2, <1>4 DEF CostInv, NotYet

-----------------------------------------------------------------------
(***************************************************************************)
(* The theorems.                                                           *)
(***************************************************************************)
\* The bits of the word, the ends of the buffers, the decode tables and what is
\* still to be written are what the loops of both ends take them for
\* (deflate_flush_block, deflate_decompress).
THEOREM StreamInvariant == Spec => []StreamInv
<1>1. Init => StreamInv
  <2> SUFFICES ASSUME Init PROVE StreamInv
    OBVIOUS
  <2>1. OutInv
    BY OutInitInv DEF Init
  <2>2. build \in Builds
    BY <2>1 DEF OutInv, OutTypes
  <2>3. InInv
    BY <2>2, InInitInv DEF Init
  <2> QED BY <2>1, <2>3 DEF Init, StreamInv
<1>2. StreamInv /\ [Next]_vars => StreamInv'
  <2> SUFFICES ASSUME StreamInv, [Next]_vars PROVE StreamInv'
    OBVIOUS
  <2>1. CASE OutStep /\ UNCHANGED <<inVars, from>>
    BY <2>1, OutStepInv
  <2>2. CASE InStep /\ UNCHANGED <<outVars, from>>
    BY <2>2, DecodingInv
  <2>3. CASE OpenSent
    BY <2>3, OpenSentInv
  <2>4. CASE OpenAny
    BY <2>4, OpenAnyInv
  <2>5. CASE UNCHANGED vars
    <3>1. UNCHANGED <<outVars, inVars, from>>
      BY <2>5 DEF vars
    <3>2. OutInv'
      BY <3>1, OutUnchanged DEF StreamInv
    <3>3. InInv' /\ UNCHANGED result
      BY <3>1, InUnchanged DEF StreamInv, outVars
    <3> QED BY <3>1, <3>2, <3>3 DEF StreamInv, NotYet
  <2> QED BY <2>1, <2>2, <2>3, <2>4, <2>5 DEF Next
<1> QED BY <1>1, <1>2, PTL DEF Spec

\* The compressor writes nothing beyond its buffer, a word at a time included, and
\* adds no more bits than its word has (FLUSH_BITS, ADD_BITS, CAN_BUFFER).
THEOREM StreamOutputInside == Spec => []OutputInside
<1>1. StreamInv => OutputInside
  <2> SUFFICES ASSUME StreamInv PROVE OutputInside
    OBVIOUS
  <2>1. /\ os.touched <= os.avail /\ os.peak <= 8 * build.word - 1
        /\ os.avail \in Nat
    BY DEF StreamInv, OutInv, OutTypes
  <2>2. Most(os.avail, 0) = os.avail
    BY <2>1 DEF Most
  <2> QED BY <2>1, <2>2 DEF OutputInside
<1> QED BY <1>1, StreamInvariant, PTL

\* The decompressor decides on no bit that its word does not hold: each bound of
\* CAN_CONSUME and CAN_CONSUME_AND_THEN_PRELOAD is enough for what follows it.
THEOREM StreamBitsHeld == Spec => []BitsHeld
<1>1. StreamInv => BitsHeld
  BY DEF StreamInv, InInv, Honest, Reader, BitsHeld
<1> QED BY <1>1, StreamInvariant, PTL

\* The fastloop, which does not look where the buffers end, neither reads beyond
\* the input nor writes beyond the output, for any input whatever
\* (FASTLOOP_MAX_BYTES_READ, FASTLOOP_MAX_BYTES_WRITTEN).
THEOREM StreamBuffersKept == Spec => []BuffersKept
<1>1. StreamInv => BuffersKept
  BY DEF StreamInv, InInv, Honest, Reader, BuffersKept
<1> QED BY <1>1, StreamInvariant, PTL

\* A block is decoded with the tables of its own kind, and static_codes_loaded is
\* set only while the static ones are there.
THEOREM StreamOwnTables == Spec => []OwnTables
<1>1. StreamInv => OwnTables
  BY DEF StreamInv, InInv, TablesOwn, OwnTables
<1> QED BY <1>1, StreamInvariant, PTL

\* What the compressor adds for a block is what deflate_flush_block chose it for,
\* and the rows of uncompressed blocks it may become fit a buffer of the bound.
THEOREM StreamCosts == Spec => []CostInv
<1>1. Init => CostInv
  BY InitCosts
<1>2. StreamInv /\ CostInv /\ [Next]_vars => CostInv'
  <2> SUFFICES ASSUME StreamInv, CostInv, [Next]_vars PROVE CostInv'
    OBVIOUS
  <2>1. OutInv
    BY DEF StreamInv
  <2>2. CASE OutStep
    BY <2>1, <2>2, CompressNoneCosts, FlushBlockCosts, WriteSymbolsCosts, FinishCosts
       DEF OutStep
  <2>3. CASE OpenSent \/ OpenAny
    BY <2>3, OpenCosts
  <2>4. CASE UNCHANGED <<outVars, from>>
    BY <2>4, CostsUnchanged
  <2> QED BY <2>2, <2>3, <2>4 DEF Next, vars
<1> QED BY <1>1, <1>2, StreamInvariant, PTL DEF Spec

\* A block takes as many bits as deflate_flush_block reckoned when it chose its
\* kind, unless the end of the buffer is reached: its closing assertion.
THEOREM StreamCostCounted == Spec => []CostCounted
<1>1. StreamInv /\ CostInv => CostCounted
  <2> SUFFICES ASSUME StreamInv, CostInv, block.cost # NotYet, todo = <<>>, result = NotYet
               PROVE  \/ 8 * (os.next - block.at.next) + os.bitcount - block.at.bitcount
                           = 3 + block.cost
                      \/ os.next = os.end
    BY DEF CostCounted
  <2>1. os.next = os.end \/ Position(os) + SumFunction(todo) = Position(block.at) + 3 + block.cost
    BY DEF CostInv, Flushing, Counted
  <2>2. SumFunction(todo) = 0
    BY SumShort
  <2>3. /\ os.next \in Nat /\ os.bitcount \in Nat
        /\ block.at.next \in Nat /\ block.at.bitcount \in Nat /\ block.cost \in Nat
    BY DEF CostInv, StreamInv, OutInv, OutTypes, OutStreams
  <2> DEFINE x == os.next
             c == os.bitcount
             y == block.at.next
             f == block.at.bitcount
             cost == block.cost
  <2>4. x = os.end \/ (8 * x + c) + 0 = (8 * y + f) + 3 + cost
    BY <2>1, <2>2 DEF Position
  <2>5. x \in Nat /\ c \in Nat /\ y \in Nat /\ f \in Nat /\ cost \in Nat
    BY <2>3
  <2> HIDE DEF x, c, y, f, cost
  <2>6. x = os.end \/ 8 * (x - y) + c - f = 3 + cost
    BY <2>4, <2>5
  <2> QED BY <2>6 DEF x, c, y, f, cost
<1> QED BY <1>1, StreamInvariant, StreamCosts, PTL

\* A buffer of the size that libdeflate_deflate_compress_bound returns is never
\* too small, whatever blocks the input is cut into and whatever they cost.
THEOREM StreamBoundEnough == Spec => []BoundEnough
<1>1. CostInv => BoundEnough
  BY DEF CostInv, BoundEnough
<1> QED BY <1>1, StreamCosts, PTL

=======================================================================
