-------------------------- MODULE ParseProofs --------------------------
(***************************************************************************)
(* Theorems about the parsers of tools/deflate, for any inputs, sizes and  *)
(* search depths: whatever the matchfinder returns, blocks give back their *)
(* bytes and have lengths between the limits; and no position of the       *)
(* window is missing from the matchfinder's chains.                        *)
(***************************************************************************)
EXTENDS Parse, QueuesProofs

\* Nothing, or a position before p.
Entry(e, base, p) == e = -Window \/ (0 <= e + base /\ e + base < p)

Tables ==
  [hash3 : [Buckets -> Int], hash4 : [Buckets -> Int], next : [0..Window-1 -> Int],
   base : Nat, hashes : Buckets \X Buckets]

\* Position p is the next to be searched or skipped, and every chain leads to
\* earlier positions until it leaves the window.
Linked(m, p) ==
  /\ m \in Tables
  /\ (m.base = 0 \/ m.base >= Window) /\ m.base <= p /\ p <= m.base + Window
  /\ \A h \in Buckets : Entry(m.hash3[h], m.base, p) /\ Entry(m.hash4[h], m.base, p)
  /\ \A j \in 0..Window-1 : j < p => Entry(m.next[j], m.base, p)

\* The codes under which position p is inserted.
Code(s, p) == IF p = 0 THEN <<0, 0>> ELSE Hashes(s, p)

\* The entry of next_tab for a position of the window.
Slot(q, base) == IF q >= base THEN q - base ELSE q - base + Window

\* e is the latest position before q with code h; or nothing, if all those are further
\* back than a window before the base.
Latest(e, s, base, h, q) ==
  /\ e = -Window \/ (e + base \in 0..q-1 /\ Code(s, e + base)[2] = h)
  /\ \A k \in 0..q-1 : Code(s, k)[2] = h => k - base <= e

\* No position that is still in the window is missing from the tables.
Chained(m, s, p) ==
  /\ m.hashes = Code(s, p)
  /\ \A k \in 0..p-1 : k - m.base <= m.hash3[Code(s, k)[1]]
  /\ \A h \in Buckets : Latest(m.hash4[h], s, m.base, h, p)
  /\ \A q \in 0..p-1 :
       q > p - Window => Latest(m.next[Slot(q, m.base)], s, m.base, Code(s, q)[2], q)

Ready(m, s, p) == Linked(m, p) /\ Chained(m, s, p)

BlockFields == {"begin", "max_end", "recalc", "min_len", "stats", "freqs", "seqs"}
Sequence == [litrunlen : Nat, length : Nat, offset : Nat]
Coded ==
  ({"lit"} \X (0..255)) \cup ({"length"} \X (0..MaxMatch)) \cup ({"offset"} \X (0..Window))

\* The sequences of a block cover its bytes up to e, and are counted.
Counted(s, b, e) ==
  /\ b = [f \in BlockFields |-> b[f]]
  /\ b.begin \in Nat /\ e \in b.begin..Len(s)
  /\ b.seqs \in Seq(Sequence) /\ Len(b.seqs) > 0
  /\ \A i \in 1..Len(b.seqs) : At(b, i) \in Nat /\ At(b, i) + b.seqs[i].litrunlen <= e
  /\ \A i \in 1..Len(b.seqs)-1 : RealMatch(s, b, i)
  /\ At(b, Len(b.seqs)) + Last(b.seqs).litrunlen = e
  /\ \A x \in Coded : Frequency(b.freqs, x) = Cardinality(Used(s, b, x))

\* It is not too long, and has at most n matches.
Limited(s, b, e, n) ==
  /\ b.max_end = choose_max_block_end(b.begin, Len(s))
  /\ b.min_len \in Nat /\ b.min_len >= 3
  /\ 3 * (Len(b.seqs) - 1) <= e - b.begin
  /\ Len(b.seqs) <= n + 1

\* The bytes that are accounted for: the current match begins a byte back.
Parsed == IF cur = NoMatch THEN in_next ELSE in_next - 1

\* A match that begins past the end of the block is longer, or nearer, for it.
CurOK ==
  cur # NoMatch =>
    /\ cur \in [len : Nat, offset : Nat]
    /\ in_next > 0 /\ Repeats(input, in_next - 1, cur.len, cur.offset)
    /\ 3 * (in_next - block.max_end) <= 4 * (cur.len - 3) + bsr32(Window) - bsr32(cur.offset)

\* Block b follows the finished ones, of which none is the last.
Follows(b, bs) ==
  /\ b.begin = IF bs = <<>> THEN 0 ELSE Last(bs).begin + Last(bs).length
  /\ Len(bs) * MinBlock <= b.begin
  /\ \A i \in DOMAIN bs : ~bs[i].final

BlockOK ==
  in_next < Len(input) =>
    /\ Counted(input, block, Parsed)
    /\ Limited(input, block, Parsed, SeqStore - 1)
    /\ Follows(block, blocks)
    /\ cur = NoMatch => in_next < block.max_end

\* What is flushed, as block i of bs.
Finished(s, bs, i) ==
  LET b == bs[i] IN
  /\ b.begin \in Nat /\ b.length \in Nat /\ b.final \in BOOLEAN
  /\ b.begin = IF i = 1 THEN 0 ELSE bs[i-1].begin + bs[i-1].length
  /\ Covers(s, b, b.begin + b.length)
  /\ b.final <=> b.begin + b.length = Len(s)
  /\ ~b.final => b.length >= MinBlock
  /\ b.length <= LongestBlock
  /\ Len(b.seqs) <= SeqStore + 1

Elements(s) == {s[i] : i \in DOMAIN s}

ParseTypes ==
  /\ input \in Inputs
  /\ level \in [parser : {"greedy", "lazy", "lazy2"}, depth : Nat, nice : Nat, fast : BOOLEAN]
  /\ in_next \in 0..Len(input)
  /\ lens \in [max : 0..MaxMatch, nice : Nat]
  /\ lens.max < MaxMatch => Len(input) - in_next < MaxMatch
  /\ blocks \in Seq(Elements(blocks))

\* The inductive invariant.
ParseInv ==
  /\ ParseTypes
  /\ Len(input) - in_next >= 5 => Ready(mf, input, in_next)
  /\ CurOK
  /\ BlockOK
  /\ \A i \in DOMAIN blocks : Finished(input, blocks, i)
  /\ Len(blocks) <= (in_next + MinBlock - 1) \div MinBlock
  /\ in_next = Len(input) => cur = NoMatch

-----------------------------------------------------------------------
(***************************************************************************)
(* The bits of an offset, bytes, and the codes of the hash tables.         *)
(***************************************************************************)

LEMMA ModIs ==
  ASSUME NEW x \in Int, NEW w \in Nat \ {0}
  PROVE  x % w \in 0..w-1 /\ (0 <= x /\ x < w => x % w = x)
OBVIOUS

LEMMA ModBelow ==
  ASSUME NEW x \in Int, NEW w \in Nat \ {0}, x + w \in 0..w-1
  PROVE  x % w = x + w
OBVIOUS

LEMMA BsrIs ==
  ASSUME NEW n \in Int, NEW m \in Int, n <= m
  PROVE  bsr32(n) \in Nat /\ bsr32(m) \in Nat /\ bsr32(n) <= bsr32(m)
<1> DEFINE Bits(x) == {k \in 1..15 : 2^k <= x}
<1>1. \A k \in 1..15 : 2^k \in Int
  OBVIOUS
<1>2. Bits(n) \subseteq Bits(m)
  BY <1>1
<1>3. IsFiniteSet(Bits(n)) /\ IsFiniteSet(Bits(m))
  <2>1. IsFiniteSet(1..15)
    <3> DEFINE last == 15
    <3>1. last \in Int /\ 1 \in Int
      OBVIOUS
    <3> HIDE DEF last
    <3>2. IsFiniteSet(1..last)
      BY <3>1, FS_Interval
    <3> QED BY <3>2 DEF last
  <2>2. Bits(n) \subseteq 1..15 /\ Bits(m) \subseteq 1..15
    OBVIOUS
  <2> HIDE DEF Bits
  <2> QED BY <2>1, <2>2, FS_Subset
<1> HIDE DEF Bits
<1>4. /\ Cardinality(Bits(n)) \in Nat /\ Cardinality(Bits(m)) \in Nat
      /\ Cardinality(Bits(n)) <= Cardinality(Bits(m))
  BY <1>2, <1>3, FS_CardinalityType, FS_Subset
<1> QED BY <1>4 DEF bsr32, Bits

LEMMA ByteIs ==
  ASSUME NEW s \in Seq(0..255), NEW p \in Nat
  PROVE  Byte(s, p) \in 0..255
<1>1. CASE p < Len(s)
  <2>1. p + 1 \in 1..Len(s)
    BY <1>1
  <2>2. s[p + 1] \in 0..255
    BY <2>1, ElementOfSeq
  <2> QED BY <1>1, <2>2 DEF Byte
<1>2. CASE ~(p < Len(s))
  BY <1>2, MatchfinderAssumption DEF Byte
<1> QED BY <1>1, <1>2

LEMMA HashIs ==
  ASSUME NEW v \in Nat
  PROVE  lz_hash(v) \in Buckets
<1>1. (v * 157) % 256 \in 0..255
  OBVIOUS
<1>2. Order \in 1..8
  BY MatchfinderAssumption
<1> DEFINE x == (v * 157) % 256
<1> HIDE DEF x
<1>3. x \in 0..255
  BY <1>1 DEF x
<1>4. x \div 2^(8 - Order) \in 0 .. 2^Order - 1
  <2>1. CASE Order = 1
    BY <1>3, <2>1
  <2>2. CASE Order = 2
    BY <1>3, <2>2
  <2>3. CASE Order = 3
    BY <1>3, <2>3
  <2>4. CASE Order = 4
    BY <1>3, <2>4
  <2>5. CASE Order = 5
    BY <1>3, <2>5
  <2>6. CASE Order = 6
    BY <1>3, <2>6
  <2>7. CASE Order = 7
    BY <1>3, <2>7
  <2>8. CASE Order = 8
    BY <1>3, <2>8
  <2> QED BY <1>2, <2>1, <2>2, <2>3, <2>4, <2>5, <2>6, <2>7, <2>8
<1> QED BY <1>4 DEF lz_hash, Buckets, x

LEMMA ZeroBucket == 0 \in Buckets
<1>1. CASE Order = 1
  BY <1>1 DEF Buckets
<1>2. CASE Order = 2
  BY <1>2 DEF Buckets
<1>3. CASE Order = 3
  BY <1>3 DEF Buckets
<1>4. CASE Order = 4
  BY <1>4 DEF Buckets
<1>5. CASE Order = 5
  BY <1>5 DEF Buckets
<1>6. CASE Order = 6
  BY <1>6 DEF Buckets
<1>7. CASE Order = 7
  BY <1>7 DEF Buckets
<1>8. CASE Order = 8
  BY <1>8 DEF Buckets
<1>9. Order \in 1..8
  BY MatchfinderAssumption
<1> QED BY <1>1, <1>2, <1>3, <1>4, <1>5, <1>6, <1>7, <1>8, <1>9

LEMMA HashesAre ==
  ASSUME NEW s \in Seq(0..255), NEW p \in Nat
  PROVE  Hashes(s, p) \in Buckets \X Buckets
<1> DEFINE w == Byte(s, p + 0) % 4
           x == Byte(s, p + 1) % 4
           y == Byte(s, p + 2) % 4
           z == Byte(s, p + 3) % 4
<1>1. w \in Nat /\ x \in Nat /\ y \in Nat /\ z \in Nat
  <2>1. \A i \in 0..3 : p + i \in Nat
    OBVIOUS
  <2>2. \A i \in 0..3 : Byte(s, p + i) \in 0..255
    BY <2>1, ByteIs
  <2>3. \A b \in 0..255 : b % 4 \in Nat
    OBVIOUS
  <2>4. /\ Byte(s, p + 0) \in 0..255 /\ Byte(s, p + 1) \in 0..255
        /\ Byte(s, p + 2) \in 0..255 /\ Byte(s, p + 3) \in 0..255
    BY <2>2
  <2> QED BY <2>3, <2>4
<1>2. Hashes(s, p) = <<lz_hash(w + 4 * x + 16 * y), lz_hash(w + 4 * x + 16 * y + 64 * z)>>
  BY DEF Hashes
<1> HIDE DEF w, x, y, z
<1>3. w + 4 * x + 16 * y \in Nat /\ w + 4 * x + 16 * y + 64 * z \in Nat
  BY <1>1
<1>4. /\ lz_hash(w + 4 * x + 16 * y) \in Buckets
      /\ lz_hash(w + 4 * x + 16 * y + 64 * z) \in Buckets
  BY <1>3, HashIs
<1> QED BY <1>2, <1>4

LEMMA ExtendIs ==
  ASSUME NEW s, NEW p \in Int, NEW q \in Int, NEW max \in Nat
  PROVE  LET n == lz_extend(s, p, q, max) IN n \in 0..max /\ Same(s, p, q, n)
<1> DEFINE differ == {i \in 0..max-1 : Byte(s, p + i) # Byte(s, q + i)}
<1>1. CASE differ = {}
  <2>1. lz_extend(s, p, q, max) = max
    BY <1>1 DEF lz_extend
  <2>2. \A i \in 0..max-1 : Byte(s, p + i) = Byte(s, q + i)
    BY <1>1
  <2> QED BY <2>1, <2>2 DEF Same
<1>2. CASE differ # {}
  <2>1. differ \in SUBSET Nat
    OBVIOUS
  <2>2. PICK n \in differ : \A j \in differ : n <= j
    <3> HIDE DEF differ
    <3> QED BY <1>2, <2>1, SmallestExists
  <2>3. \A j \in differ : (\A i \in differ : j <= i) => j = n
    BY <2>1, <2>2
  <2>4. Min(differ) = n
    <3> HIDE DEF differ
    <3> QED BY <2>2, <2>3 DEF Min
  <2>5. lz_extend(s, p, q, max) = n
    BY <1>2, <2>4 DEF lz_extend
  <2>6. \A i \in 0..n-1 : Byte(s, p + i) = Byte(s, q + i)
    BY <2>2
  <2> QED BY <2>2, <2>5, <2>6 DEF Same
<1> QED BY <1>1, <1>2

-----------------------------------------------------------------------
(***************************************************************************)
(* The tables of the matchfinder: each step of it leaves them ready for    *)
(* the next position.                                                      *)
(***************************************************************************)
LEMMA InitLinked ==
  ASSUME NEW rest \in Unwritten
  PROVE  Linked(hc_matchfinder_init(rest), 0)
<1>1. Window \in Nat \ {0} /\ rest \in Int
  BY MatchfinderAssumption
<1>2. 0 \in Buckets
  BY ZeroBucket
<1>3. /\ hc_matchfinder_init(rest) \in Tables
      /\ \A h \in Buckets : /\ hc_matchfinder_init(rest).hash3[h] = -Window
                            /\ hc_matchfinder_init(rest).hash4[h] = -Window
      /\ hc_matchfinder_init(rest).base = 0
  BY <1>1, <1>2 DEF hc_matchfinder_init, Tables
<1> QED BY <1>1, <1>3 DEF Linked, Entry

LEMMA RebaseIs ==
  ASSUME NEW D, NEW tab \in [D -> Int]
  PROVE  /\ matchfinder_rebase(tab) \in [D -> Int]
         /\ \A i \in D : matchfinder_rebase(tab)[i]
                          = IF tab[i] >= 0 THEN tab[i] - Window ELSE -Window
BY MatchfinderAssumption DEF matchfinder_rebase

Rebased(e) == IF e >= 0 THEN e - Window ELSE -Window

LEMMA SlideIs ==
  ASSUME NEW m \in Tables
  PROVE  LET c == hc_matchfinder_slide_window(m) IN
         /\ c \in Tables /\ c.base = m.base + Window /\ c.hashes = m.hashes
         /\ \A h \in Buckets : /\ c.hash3[h] = Rebased(m.hash3[h])
                               /\ c.hash4[h] = Rebased(m.hash4[h])
         /\ \A j \in 0..Window-1 : c.next[j] = Rebased(m.next[j])
<1> DEFINE c == hc_matchfinder_slide_window(m)
           D == 0..Window-1
<1>0. Window \in Nat \ {0}
  BY MatchfinderAssumption
<1>1. /\ m.hash3 \in [Buckets -> Int] /\ m.hash4 \in [Buckets -> Int]
      /\ m.next \in [D -> Int] /\ m.base \in Nat /\ m.hashes \in Buckets \X Buckets
  BY DEF Tables
<1>2. /\ c = [hash3 |-> c.hash3, hash4 |-> c.hash4, next |-> c.next, base |-> c.base,
              hashes |-> c.hashes]
      /\ c.hash3 = matchfinder_rebase(m.hash3) /\ c.hash4 = matchfinder_rebase(m.hash4)
      /\ c.next = matchfinder_rebase(m.next)
      /\ c.base = m.base + Window /\ c.hashes = m.hashes
  BY DEF hc_matchfinder_slide_window
<1> HIDE DEF c, D
<1>3. c.hash3 \in [Buckets -> Int] /\ \A h \in Buckets : c.hash3[h] = Rebased(m.hash3[h])
  BY <1>1, <1>2, RebaseIs DEF Rebased
<1>4. c.hash4 \in [Buckets -> Int] /\ \A h \in Buckets : c.hash4[h] = Rebased(m.hash4[h])
  BY <1>1, <1>2, RebaseIs DEF Rebased
<1>5. c.next \in [D -> Int] /\ \A j \in D : c.next[j] = Rebased(m.next[j])
  BY <1>1, <1>2, RebaseIs DEF Rebased
<1>6. c.base \in Nat
  BY <1>0, <1>1, <1>2
<1>7. c \in Tables
  BY <1>1, <1>2, <1>3, <1>4, <1>5, <1>6 DEF Tables, D
<1> QED BY <1>2, <1>3, <1>4, <1>5, <1>7 DEF c, D

LEMMA SlidLinked ==
  ASSUME NEW m, NEW p \in Nat, Linked(m, p)
  PROVE  /\ Linked(Slid(m, p), p)
         /\ Slid(m, p).base <= p /\ p < Slid(m, p).base + Window
         /\ Slid(m, p).hashes = m.hashes
<1>0. Window \in Nat \ {0} /\ m \in Tables /\ m.base \in Nat
  BY MatchfinderAssumption DEF Linked, Tables
<1>1. CASE p - m.base = Window
  <2> DEFINE c == hc_matchfinder_slide_window(m)
  <2>1. Slid(m, p) = c
    BY <1>1 DEF Slid
  <2>2. /\ m.hash3 \in [Buckets -> Int] /\ m.hash4 \in [Buckets -> Int]
        /\ m.next \in [0..Window-1 -> Int]
    BY <1>0 DEF Tables
  <2>3. /\ c \in Tables /\ c.base = m.base + Window /\ c.hashes = m.hashes
        /\ \A h \in Buckets : /\ c.hash3[h] = Rebased(m.hash3[h])
                              /\ c.hash4[h] = Rebased(m.hash4[h])
        /\ \A j \in 0..Window-1 : c.next[j] = Rebased(m.next[j])
    BY <1>0, SlideIs
  <2> HIDE DEF c
  <2>5. ASSUME NEW x \in Int, Entry(x, m.base, p)
        PROVE  Entry(Rebased(x), c.base, p)
    BY <1>0, <2>3, <2>5 DEF Entry, Rebased
  <2>6. ASSUME NEW h \in Buckets PROVE Entry(c.hash3[h], c.base, p) /\ Entry(c.hash4[h], c.base, p)
    <3>1. /\ m.hash3[h] \in Int /\ Entry(m.hash3[h], m.base, p)
          /\ m.hash4[h] \in Int /\ Entry(m.hash4[h], m.base, p)
      BY <2>2 DEF Linked
    <3> QED BY <2>3, <2>5, <3>1
  <2>7. ASSUME NEW j \in 0..Window-1, j < p PROVE Entry(c.next[j], c.base, p)
    <3>1. m.next[j] \in Int /\ Entry(m.next[j], m.base, p)
      BY <2>2, <2>7 DEF Linked
    <3> QED BY <2>3, <2>5, <3>1
  <2>8. c.base >= Window /\ c.base = p
    BY <1>0, <1>1, <2>3
  <2> QED BY <1>0, <2>1, <2>3, <2>6, <2>7, <2>8 DEF Linked
<1>2. CASE p - m.base # Window
  <2>1. Slid(m, p) = m
    BY <1>2 DEF Slid
  <2> QED BY <1>0, <1>2, <2>1 DEF Linked
<1> QED BY <1>1, <1>2

LEMMA InsertLinked ==
  ASSUME NEW m, NEW s \in Seq(0..255), NEW p \in Nat, Linked(m, p), p < m.base + Window
  PROVE  /\ Linked(Insert(m, s, p), p + 1)
         /\ Insert(m, s, p).base = m.base
         /\ \A j \in 0..Window-1 : j <= p => Entry(Insert(m, s, p).next[j], m.base, p)
<1> DEFINE c == Insert(m, s, p)
           h3 == m.hashes[1]
           h4 == m.hashes[2]
           r == p - m.base
<1>0. Window \in Nat \ {0}
  BY MatchfinderAssumption
<1>1. /\ m.base \in Nat /\ m.base <= p
      /\ m.hash3 \in [Buckets -> Int] /\ m.hash4 \in [Buckets -> Int]
      /\ m.next \in [0..Window-1 -> Int] /\ h3 \in Buckets /\ h4 \in Buckets
  BY DEF Linked, Tables
<1>2. r \in 0..Window-1
  BY <1>0, <1>1
<1>3. /\ c = [hash3 |-> c.hash3, hash4 |-> c.hash4, next |-> c.next, base |-> c.base,
              hashes |-> c.hashes]
      /\ c.hash3 = [m.hash3 EXCEPT ![h3] = r] /\ c.hash4 = [m.hash4 EXCEPT ![h4] = r]
      /\ c.next = [m.next EXCEPT ![r] = m.hash4[h4]]
      /\ c.base = m.base /\ c.hashes = Hashes(s, p + 1)
  BY DEF Insert
<1>4. Hashes(s, p + 1) \in Buckets \X Buckets
  BY HashesAre
<1> HIDE DEF c
<1>5. /\ c.hash3 \in [Buckets -> Int] /\ c.hash4 \in [Buckets -> Int]
      /\ c.next \in [0..Window-1 -> Int]
  BY <1>1, <1>2, <1>3
<1>14. c \in Tables
  BY <1>1, <1>3, <1>4, <1>5 DEF Tables
<1>6. \A h \in Buckets : Entry(m.hash3[h], m.base, p) /\ Entry(m.hash4[h], m.base, p)
  BY DEF Linked
<1>7. \A j \in 0..Window-1 : j < p => Entry(m.next[j], m.base, p)
  BY DEF Linked
<1>8. ASSUME NEW e \in Int, Entry(e, m.base, p) PROVE Entry(e, m.base, p + 1)
  BY <1>1, <1>8 DEF Entry
<1>9. Entry(r, m.base, p + 1)
  BY <1>1 DEF Entry
<1>10. ASSUME NEW h \in Buckets
       PROVE  Entry(c.hash3[h], c.base, p + 1) /\ Entry(c.hash4[h], c.base, p + 1)
  <2>1. m.hash3[h] \in Int /\ m.hash4[h] \in Int
    BY <1>1
  <2>2. /\ c.hash3[h] = IF h = h3 THEN r ELSE m.hash3[h]
        /\ c.hash4[h] = IF h = h4 THEN r ELSE m.hash4[h]
    BY <1>1, <1>3
  <2> QED BY <1>3, <1>6, <1>8, <1>9, <2>1, <2>2
<1>11. ASSUME NEW j \in 0..Window-1, j <= p PROVE Entry(c.next[j], m.base, p)
  <2>1. CASE j = r
    BY <1>1, <1>3, <1>6, <2>1
  <2>2. CASE j # r
    <3>1. j < p
      <4>1. m.base = 0 \/ m.base >= Window
        BY DEF Linked
      <4> QED BY <1>0, <1>1, <1>11, <2>2, <4>1
    <3> QED BY <1>1, <1>3, <1>7, <2>2, <3>1
  <2> QED BY <2>1, <2>2
<1>12. ASSUME NEW j \in 0..Window-1, j < p + 1 PROVE Entry(c.next[j], c.base, p + 1)
  <2>1. j <= p /\ c.next[j] \in Int
    BY <1>0, <1>5, <1>12
  <2> QED BY <1>3, <1>8, <1>11, <2>1
<1>13. (c.base = 0 \/ c.base >= Window) /\ c.base <= p + 1 /\ p + 1 <= c.base + Window
  BY <1>0, <1>1, <1>3 DEF Linked
<1> QED BY <1>3, <1>14, <1>10, <1>11, <1>12, <1>13 DEF Linked, c

-----------------------------------------------------------------------
(***************************************************************************)
(* No position of the window is missing from the chain of its code.        *)
(***************************************************************************)
LEMMA CodeIs ==
  ASSUME NEW s \in Seq(0..255), NEW p \in Nat
  PROVE  Code(s, p) \in Buckets \X Buckets
<1>1. CASE p = 0
  BY <1>1, ZeroBucket DEF Code
<1>2. CASE p # 0
  BY <1>2, HashesAre DEF Code
<1> QED BY <1>1, <1>2

\* The slot of position p is used again a window further on.
LEMMA SlotIs ==
  ASSUME NEW base \in Nat, NEW p \in Nat, base <= p, p <= base + Window,
         NEW q \in 0..p, q > p - Window, q < base + Window
  PROVE  /\ Slot(q, base) \in 0..Window-1
         /\ Slot(q, base) = (q - base) % Window
         /\ \A k \in Nat : base <= k /\ k < base + Window /\ k # q /\ k - Window < q
                             => Slot(q, base) # Slot(k, base)
<1>1. Window \in Nat \ {0}
  BY MatchfinderAssumption
<1>2. CASE q >= base
  <2>1. Slot(q, base) = q - base /\ q - base \in 0..Window-1
    BY <1>1, <1>2 DEF Slot
  <2>2. (q - base) % Window = q - base
    <3> DEFINE x == q - base
    <3>1. x \in Int /\ 0 <= x /\ x < Window
      BY <1>1, <2>1
    <3> HIDE DEF x
    <3>2. x % Window = x
      BY <1>1, <3>1, ModIs
    <3> QED BY <3>2 DEF x
  <2>3. \A k \in Nat : base <= k => Slot(k, base) = k - base
    BY DEF Slot
  <2> QED BY <2>1, <2>2, <2>3
<1>3. CASE ~(q >= base)
  <2>1. Slot(q, base) = q - base + Window /\ q - base + Window \in 0..Window-1
    BY <1>1, <1>3 DEF Slot
  <2>2. (q - base) % Window = q - base + Window
    <3> DEFINE x == q - base
    <3>1. x \in Int /\ x + Window \in 0..Window-1
      BY <2>1
    <3> HIDE DEF x
    <3>2. x % Window = x + Window
      BY <1>1, <3>1, ModBelow
    <3> QED BY <3>2 DEF x
  <2>3. \A k \in Nat : base <= k => Slot(k, base) = k - base
    BY DEF Slot
  <2> QED BY <1>1, <2>1, <2>2, <2>3
<1> QED BY <1>2, <1>3

LEMMA InitChained ==
  ASSUME NEW s, NEW rest \in Unwritten
  PROVE  Chained(hc_matchfinder_init(rest), s, 0)
<1> DEFINE m == hc_matchfinder_init(rest)
<1>1. m.hashes = Code(s, 0) /\ \A h \in Buckets : m.hash4[h] = -Window
  BY DEF hc_matchfinder_init, Code
<1>2. 0..0-1 = {}
  OBVIOUS
<1> HIDE DEF m
<1>3. Chained(m, s, 0)
  BY <1>1, <1>2 DEF Chained, Latest
<1> QED BY <1>3 DEF m

LEMMA RebasedAbove ==
  ASSUME NEW k \in Int, NEW e \in Int, NEW base \in Int, k - base <= e
  PROVE  k - (base + Window) <= Rebased(e)
<1>1. Window \in Nat \ {0}
  BY MatchfinderAssumption
<1> QED BY <1>1 DEF Rebased

LEMMA RebasedLatest ==
  ASSUME NEW e \in Int, NEW s, NEW base \in Nat, NEW h, NEW q \in Nat, Latest(e, s, base, h, q)
  PROVE  Latest(Rebased(e), s, base + Window, h, q)
<1>1. Window \in Nat \ {0}
  BY MatchfinderAssumption
<1>2. \A k \in 0..q-1 : Code(s, k)[2] = h => k - (base + Window) <= Rebased(e)
  BY RebasedAbove DEF Latest
<1>3. CASE e >= 0
  <2>1. e # -Window /\ Rebased(e) + (base + Window) = e + base
    BY <1>1, <1>3 DEF Rebased
  <2> QED BY <1>2, <2>1 DEF Latest
<1>4. CASE ~(e >= 0)
  BY <1>2, <1>4 DEF Latest, Rebased
<1> QED BY <1>3, <1>4

LEMMA SlidChained ==
  ASSUME NEW m, NEW s \in Seq(0..255), NEW p \in Nat, Linked(m, p), Chained(m, s, p)
  PROVE  Chained(Slid(m, p), s, p)
<1> DEFINE c == Slid(m, p)
<1>0. Window \in Nat \ {0} /\ m \in Tables /\ m.base \in Nat /\ m.base <= p
  BY MatchfinderAssumption DEF Linked, Tables
<1>1. CASE p - m.base = Window
  <2>1. c = hc_matchfinder_slide_window(m)
    BY <1>1 DEF Slid
  <2>2. /\ m.hash3 \in [Buckets -> Int] /\ m.hash4 \in [Buckets -> Int]
        /\ m.next \in [0..Window-1 -> Int]
    BY <1>0 DEF Tables
  <2>3. /\ c.base = m.base + Window /\ c.hashes = m.hashes
        /\ \A h \in Buckets : /\ c.hash3[h] = Rebased(m.hash3[h])
                              /\ c.hash4[h] = Rebased(m.hash4[h])
        /\ \A j \in 0..Window-1 : c.next[j] = Rebased(m.next[j])
    BY <1>0, <2>1, SlideIs
  <2> HIDE DEF c
  <2>4. ASSUME NEW k \in 0..p-1 PROVE k - c.base <= c.hash3[Code(s, k)[1]]
    <3>1. Code(s, k)[1] \in Buckets
      BY CodeIs
    <3> DEFINE e == m.hash3[Code(s, k)[1]]
               base == m.base
    <3>2. k \in Int /\ base \in Int /\ k - base <= e /\ e \in Int
      BY <1>0, <2>2, <3>1 DEF Chained
    <3>3. c.hash3[Code(s, k)[1]] = Rebased(e) /\ c.base = base + Window
      BY <2>3, <3>1
    <3> HIDE DEF e, base
    <3> QED BY <3>2, <3>3, RebasedAbove
  <2>5. ASSUME NEW h \in Buckets PROVE Latest(c.hash4[h], s, c.base, h, p)
    <3>1. Latest(m.hash4[h], s, m.base, h, p) /\ m.hash4[h] \in Int
      BY <2>2 DEF Chained
    <3> QED BY <1>0, <2>3, <3>1, RebasedLatest
  <2>6. ASSUME NEW q \in 0..p-1, q > p - Window
        PROVE  Latest(c.next[Slot(q, c.base)], s, c.base, Code(s, q)[2], q)
    <3>1. Slot(q, m.base) = q - m.base /\ Slot(q, c.base) = q - m.base
          /\ q - m.base \in 0..Window-1
      <4> DEFINE base == m.base
                 next == c.base
      <4>1. /\ base \in Nat /\ p - base = Window /\ next = base + Window
            /\ Window \in Nat \ {0} /\ q \in 0..p-1 /\ q > p - Window
        BY <1>0, <1>1, <2>3, <2>6
      <4> HIDE DEF base, next
      <4>2. Slot(q, base) = q - base /\ Slot(q, next) = q - base /\ q - base \in 0..Window-1
        BY <4>1 DEF Slot
      <4> QED BY <4>2 DEF base, next
    <3>2. Latest(m.next[q - m.base], s, m.base, Code(s, q)[2], q) /\ m.next[q - m.base] \in Int
      BY <2>2, <2>6, <3>1 DEF Chained
    <3>3. Latest(Rebased(m.next[q - m.base]), s, m.base + Window, Code(s, q)[2], q)
      BY <1>0, <3>2, RebasedLatest
    <3> QED BY <2>3, <3>1, <3>3
  <2> QED BY <2>3, <2>4, <2>5, <2>6 DEF Chained, c
<1>2. CASE p - m.base # Window
  BY <1>2 DEF Slid
<1> QED BY <1>1, <1>2

LEMMA LaterLatest ==
  ASSUME NEW e, NEW s, NEW base \in Nat, NEW h, NEW p \in Nat, Latest(e, s, base, h, p),
         Code(s, p)[2] # h
  PROVE  Latest(e, s, base, h, p + 1)
<1>1. 0..(p + 1)-1 = (0..p-1) \cup {p}
  OBVIOUS
<1> QED BY <1>1 DEF Latest

LEMMA InsertChained ==
  ASSUME NEW m, NEW s \in Seq(0..255), NEW p \in Nat, Linked(m, p), Chained(m, s, p),
         p < m.base + Window
  PROVE  /\ Chained(Insert(m, s, p), s, p + 1)
         /\ \A q \in 0..p : q > p - Window =>
              Latest(Insert(m, s, p).next[Slot(q, m.base)], s, m.base, Code(s, q)[2], q)
<1> DEFINE c == Insert(m, s, p)
           h3 == m.hashes[1]
           h4 == m.hashes[2]
           r == p - m.base
<1>0. Window \in Nat \ {0}
  BY MatchfinderAssumption
<1>1. /\ m.base \in Nat /\ m.base <= p
      /\ m.hash3 \in [Buckets -> Int] /\ m.hash4 \in [Buckets -> Int]
      /\ m.next \in [0..Window-1 -> Int] /\ h3 \in Buckets /\ h4 \in Buckets
      /\ h3 = Code(s, p)[1] /\ h4 = Code(s, p)[2]
  BY DEF Linked, Tables, Chained
<1>2. r \in 0..Window-1 /\ r \in Int
  BY <1>0, <1>1
<1>3. /\ c.hash3 = [m.hash3 EXCEPT ![h3] = r] /\ c.hash4 = [m.hash4 EXCEPT ![h4] = r]
      /\ c.next = [m.next EXCEPT ![r] = m.hash4[h4]]
      /\ c.base = m.base /\ c.hashes = Hashes(s, p + 1)
  BY DEF Insert
<1>4. c.hashes = Code(s, p + 1)
  BY <1>3 DEF Code
<1> HIDE DEF c, h3, h4
<1>5. ASSUME NEW k \in 0..p PROVE k - c.base <= c.hash3[Code(s, k)[1]]
  <2>1. Code(s, k)[1] \in Buckets
    BY CodeIs
  <2>2. CASE Code(s, k)[1] = h3
    <3>1. c.hash3[Code(s, k)[1]] = r
      BY <1>1, <1>3, <2>2
    <3> QED BY <1>1, <1>3, <3>1
  <2>3. CASE Code(s, k)[1] # h3
    <3>1. k # p
      BY <1>1, <2>3
    <3>2. k \in 0..p-1
      BY <3>1
    <3>3. k - m.base <= m.hash3[Code(s, k)[1]]
      BY <3>2 DEF Chained
    <3>4. c.hash3[Code(s, k)[1]] = m.hash3[Code(s, k)[1]]
      BY <1>1, <1>3, <2>1, <2>3
    <3> QED BY <1>3, <3>3, <3>4
  <2> QED BY <2>2, <2>3
<1>6. ASSUME NEW h \in Buckets PROVE Latest(c.hash4[h], s, c.base, h, p + 1)
  <2>1. CASE h = h4
    <3>1. c.hash4[h] = r /\ r + c.base = p
      BY <1>1, <1>3, <2>1
    <3>2. \A k \in 0..(p + 1)-1 : k - c.base <= r
      BY <1>1, <1>3
    <3>3. p \in 0..(p + 1)-1
      OBVIOUS
    <3> QED BY <1>1, <2>1, <3>1, <3>2, <3>3 DEF Latest
  <2>2. CASE h # h4
    <3>1. c.hash4[h] = m.hash4[h]
      BY <1>1, <1>3, <2>2
    <3>2. Latest(m.hash4[h], s, m.base, h, p)
      BY DEF Chained
    <3> QED BY <1>1, <1>3, <2>2, <3>1, <3>2, LaterLatest
  <2> QED BY <2>1, <2>2
<1>7. ASSUME NEW q \in 0..p, q > p - Window
      PROVE  Latest(c.next[Slot(q, m.base)], s, m.base, Code(s, q)[2], q)
  <2>1. CASE q = p
    <3>1. Slot(q, m.base) = r
      BY <1>1, <2>1 DEF Slot
    <3>2. c.next[r] = m.hash4[h4]
      BY <1>1, <1>2, <1>3
    <3>3. Latest(m.hash4[h4], s, m.base, h4, p)
      BY <1>1 DEF Chained
    <3> QED BY <1>1, <2>1, <3>1, <3>2, <3>3
  <2>2. CASE q # p
    <3>1. q \in 0..p-1 /\ q < m.base + Window
      BY <1>0, <1>1, <2>2
    <3>2. Latest(m.next[Slot(q, m.base)], s, m.base, Code(s, q)[2], q)
      BY <1>7, <3>1 DEF Chained
    <3>3. Slot(q, m.base) \in 0..Window-1 /\ Slot(q, m.base) # Slot(p, m.base)
      <4> DEFINE base == m.base
      <4>1. base \in Nat /\ base <= p /\ p < base + Window /\ p <= base + Window
        BY <1>0, <1>1
      <4>2. q < base + Window /\ p - Window < q
        BY <1>0, <1>7, <3>1
      <4> HIDE DEF base
      <4>3. /\ Slot(q, base) \in 0..Window-1
            /\ \A k \in Nat : base <= k /\ k < base + Window /\ k # q /\ k - Window < q
                                => Slot(q, base) # Slot(k, base)
        BY <1>7, <4>1, <4>2, SlotIs
      <4>4. Slot(q, base) # Slot(p, base)
        BY <2>2, <4>1, <4>2, <4>3
      <4> QED BY <4>3, <4>4 DEF base
    <3>4. Slot(p, m.base) = r
      BY <1>1 DEF Slot
    <3>5. c.next[Slot(q, m.base)] = m.next[Slot(q, m.base)]
      BY <1>1, <1>2, <1>3, <3>3, <3>4
    <3> QED BY <3>2, <3>5
  <2> QED BY <2>1, <2>2
<1>8. Chained(c, s, p + 1)
  <2>1. (p + 1) - 1 = p /\ \A q \in 0..p : q > (p + 1) - Window => q > p - Window
    BY <1>0
  <2>2. \A k \in 0..(p + 1)-1 : k - c.base <= c.hash3[Code(s, k)[1]]
    BY <1>5, <2>1
  <2>3. \A q \in 0..(p + 1)-1 : q > (p + 1) - Window =>
           Latest(c.next[Slot(q, c.base)], s, c.base, Code(s, q)[2], q)
    BY <1>3, <1>7, <2>1
  <2> QED BY <1>4, <1>6, <2>2, <2>3 DEF Chained
<1> QED BY <1>7, <1>8 DEF c

LEMMA InitReady ==
  ASSUME NEW s, NEW rest \in Unwritten
  PROVE  Ready(hc_matchfinder_init(rest), s, 0)
BY InitLinked, InitChained DEF Ready

LEMMA SlidReady ==
  ASSUME NEW m, NEW s \in Seq(0..255), NEW p \in Nat, Ready(m, s, p)
  PROVE  /\ Ready(Slid(m, p), s, p)
         /\ Slid(m, p).base <= p /\ p < Slid(m, p).base + Window
         /\ Slid(m, p).hashes = m.hashes
BY SlidLinked, SlidChained DEF Ready

LEMMA InsertReady ==
  ASSUME NEW m, NEW s \in Seq(0..255), NEW p \in Nat, Ready(m, s, p), p < m.base + Window
  PROVE  /\ Ready(Insert(m, s, p), s, p + 1)
         /\ Insert(m, s, p).base = m.base
         /\ \A j \in 0..Window-1 : j <= p => Entry(Insert(m, s, p).next[j], m.base, p)
BY InsertLinked, InsertChained DEF Ready

LEMMA SlidTables ==
  ASSUME NEW m \in Tables, NEW p
  PROVE  Slid(m, p) \in Tables
BY SlideIs DEF Slid

LEMMA InsertTables ==
  ASSUME NEW m \in Tables, NEW s \in Seq(0..255), NEW p \in Nat
  PROVE  Insert(m, s, p) \in Tables
<1>1. /\ m.hash3 \in [Buckets -> Int] /\ m.hash4 \in [Buckets -> Int]
      /\ m.next \in [0..Window-1 -> Int] /\ m.base \in Nat
      /\ m.hashes[1] \in Buckets /\ m.hashes[2] \in Buckets
  BY DEF Tables
<1>2. m.hash4[m.hashes[2]] \in Int /\ p - m.base \in Int
  BY <1>1
<1>3. Hashes(s, p + 1) \in Buckets \X Buckets
  BY HashesAre
<1>4. /\ [m.hash3 EXCEPT ![m.hashes[1]] = p - m.base] \in [Buckets -> Int]
      /\ [m.hash4 EXCEPT ![m.hashes[2]] = p - m.base] \in [Buckets -> Int]
  BY <1>1, <1>2
<1>5. [m.next EXCEPT ![p - m.base] = m.hash4[m.hashes[2]]] \in [0..Window-1 -> Int]
  <2> DEFINE D == 0..Window-1
             v == m.hash4[m.hashes[2]]
             k == p - m.base
  <2>1. m.next \in [D -> Int] /\ v \in Int
    BY <1>1, <1>2
  <2> HIDE DEF D, v, k
  <2>2. [m.next EXCEPT ![k] = v] \in [D -> Int]
    BY <2>1
  <2> QED BY <2>2 DEF D, v, k
<1> QED BY <1>1, <1>3, <1>4, <1>5 DEF Insert, Tables

\* Every insertion moves the tables on to the next position.
LEMMA InsertedReady ==
  ASSUME NEW m, NEW s \in Seq(0..255), NEW p \in Nat, Ready(m, s, p), NEW count \in Nat
  PROVE  Ready(Inserted(m, s, p, count), s, p + count)
<1> DEFINE step(c, i) == Insert(Slid(c, p + i - 1), s, p + i - 1)
           e(f, i) == IF i = 0 THEN m ELSE step(f[i - 1], i)
           into == CHOOSE f : f = [i \in 0..count |-> e(f, i)]
           F == [i \in 1..count |-> [c \in Tables |-> step(c, i)]]
<1>1. Inserted(m, s, p, count) = into[count]
  BY DEF Inserted
<1>2. m \in Tables
  BY DEF Ready, Linked
<1>3. \A i \in 1..count : \A c \in Tables : step(c, i) \in Tables
  <2> SUFFICES ASSUME NEW i \in 1..count, NEW c \in Tables PROVE step(c, i) \in Tables
    OBVIOUS
  <2>1. p + i - 1 \in Nat
    OBVIOUS
  <2>2. Slid(c, p + i - 1) \in Tables
    BY SlidTables
  <2> QED BY <2>1, <2>2, InsertTables
<1>4. ASSUME NEW i \in 1..count, NEW c, Ready(c, s, p + (i - 1)) PROVE Ready(step(c, i), s, p + i)
  <2>1. p + i - 1 \in Nat /\ p + (i - 1) = p + i - 1 /\ (p + i - 1) + 1 = p + i
    OBVIOUS
  <2> DEFINE q == p + i - 1
             d == Slid(c, q)
  <2> HIDE DEF q
  <2>2. q \in Nat /\ Ready(c, s, q) /\ q + 1 = p + i
    BY <1>4, <2>1 DEF q
  <2>3. Ready(d, s, q) /\ q < d.base + Window
    BY <2>2, SlidReady
  <2> HIDE DEF d
  <2>4. Ready(Insert(d, s, q), s, q + 1)
    BY <2>2, <2>3, InsertReady
  <2> QED BY <2>2, <2>4 DEF d, q
<1>5. F \in [1..count -> [Tables -> Tables]]
  <2> HIDE DEF step
  <2> QED BY <1>3
<1>6. \A i \in 1..count : \A c \in Tables : F[i][c] = step(c, i)
  <2> HIDE DEF step
  <2> QED OBVIOUS
<1> HIDE DEF F, step
<1>7. PICK g \in [0..count -> Tables] :
        \A i \in 0..count : g[i] = IF i = 0 THEN m ELSE F[i][g[i - 1]]
  <2>1. HasRecursion(0, count, Tables, m, F)
    BY <1>2, <1>5, RecursionExists
  <2> QED BY <2>1 DEF HasRecursion
<1>8. \A i \in 0..count : g[i] = e(g, i)
  <2> SUFFICES ASSUME NEW i \in 0..count PROVE g[i] = e(g, i)
    OBVIOUS
  <2>1. CASE i = 0
    BY <1>7, <2>1
  <2>2. CASE i # 0
    <3>1. i \in 1..count /\ i - 1 \in 0..count
      BY <2>2
    <3>2. g[i - 1] \in Tables /\ g[i] = F[i][g[i - 1]]
      BY <1>7, <2>2, <3>1
    <3> QED BY <1>6, <2>2, <3>1, <3>2
  <2> QED BY <2>1, <2>2
<1> HIDE DEF e
<1>9. g = [i \in 0..count |-> e(g, i)]
  BY <1>7, <1>8
<1>10. into = [i \in 0..count |-> e(into, i)]
  BY <1>9
<1>14. Inserted(m, s, p, count) = into[count]
  BY <1>1 DEF e, step
<1> HIDE DEF into
<1>11. \A i \in 0..count : into[i] = e(into, i)
  BY <1>10
<1> DEFINE right == [i \in 0..count |-> IF Ready(into[i], s, p + i) THEN 1 ELSE 0]
<1>12. right[0] \in {1}
  <2>1. into[0] = m /\ p + 0 = p
    BY <1>11 DEF e
  <2> QED BY <2>1
<1>13. ASSUME NEW i \in (0 + 1)..count, right[i - 1] \in {1} PROVE right[i] \in {1}
  <2>1. i \in 1..count /\ i \in 0..count /\ i - 1 \in 0..count /\ i # 0
    OBVIOUS
  <2>2. Ready(into[i - 1], s, p + (i - 1))
    BY <1>13, <2>1
  <2>3. into[i] = step(into[i - 1], i)
    BY <1>11, <2>1 DEF e
  <2> QED BY <1>4, <2>1, <2>2, <2>3
<1> HIDE DEF right
<1>15. \A i \in 0..count : right[i] \in {1}
  BY <1>12, <1>13, RecursionClosed
<1>16. Ready(into[count], s, p + count)
  <2>1. right[count] = 1
    BY <1>15
  <2> QED BY <2>1 DEF right
<1> QED BY <1>14, <1>16

-----------------------------------------------------------------------
(***************************************************************************)
(* A search finds nothing, or bytes of the window that repeat.             *)
(***************************************************************************)
Best(s, p, best_len, max_len) ==
  {b \in [len : Nat, at : Int] :
     /\ b.len >= best_len
     /\ b.len > best_len => /\ b.len \in 3..max_len
                            /\ p - b.at \in 1..Least(Window, p)
                            /\ Same(s, p, b.at, b.len)}

LEMMA BetterIs ==
  ASSUME NEW s, NEW p \in Nat, NEW best_len \in Nat \ 0..1, NEW max_len \in Nat,
         NEW best \in Best(s, p, best_len, max_len),
         NEW q \in Int, p - q \in 1..Least(Window, p), NEW nice_len, NEW fast
  PROVE  Better(best, s, p, q, max_len, nice_len, fast) \in Best(s, p, best_len, max_len)
<1> DEFINE len == lz_extend(s, p, q, max_len)
           b == [len |-> len, at |-> q]
<1>1. len \in 0..max_len /\ Same(s, p, q, len)
  BY ExtendIs
<1>2. best.len \in Nat /\ best.len >= best_len
  BY DEF Best
<1>3. \/ Better(best, s, p, q, max_len, nice_len, fast) = best
      \/ len > best.len /\ Better(best, s, p, q, max_len, nice_len, fast) = b
  BY DEF Better
<1> HIDE DEF len
<1>4. ASSUME len > best.len PROVE b \in Best(s, p, best_len, max_len)
  <2>1. len \in Nat /\ len \in 3..max_len /\ len >= best_len
    BY <1>1, <1>2, <1>4
  <2> QED BY <1>1, <2>1 DEF Best
<1> QED BY <1>3, <1>4

\* A search follows the chain a node at a time.
SearchStep(m, s, p, max_len, nice_len, fast, f) ==
  IF f.node <= p - m.base - Window THEN f
  ELSE [node |-> m.next[f.node % Window],
        best |-> Better(f.best, s, p, m.base + f.node, max_len, nice_len, fast)]

\* The nodes of a search are of T.
Steps(T, m, s, p, node, best, max_len, nice_len, fast) ==
  /\ [node |-> node, best |-> best] \in T
  /\ \A f \in T : SearchStep(m, s, p, max_len, nice_len, fast, f) \in T

\* found goes through the nodes of a search.
Trace(found, T, m, s, p, node, best, max_len, nice_len, depth, fast) ==
  /\ found \in [0..depth -> T]
  /\ found[0] = [node |-> node, best |-> best]
  /\ \A i \in 1..depth :
       found[i] = SearchStep(m, s, p, max_len, nice_len, fast, found[i - 1])
  /\ found[depth].best = Searched(m, s, p, node, best, max_len, nice_len, depth, fast)

LEMMA SearchedSteps ==
  ASSUME NEW m, NEW s, NEW p, NEW node, NEW best, NEW max_len, NEW nice_len,
         NEW depth \in Nat, NEW fast, NEW T, Steps(T, m, s, p, node, best, max_len, nice_len, fast)
  PROVE  \E found : Trace(found, T, m, s, p, node, best, max_len, nice_len, depth, fast)
<1> DEFINE step(f) == SearchStep(m, s, p, max_len, nice_len, fast, f)
           base == [node |-> node, best |-> best]
           e(f, i) == IF i = 0 THEN base ELSE step(f[i - 1])
           found == CHOOSE f : f = [i \in 0..depth |-> e(f, i)]
           F == [i \in 1..depth |-> [f \in T |-> step(f)]]
<1>1. Searched(m, s, p, node, best, max_len, nice_len, depth, fast) = found[depth].best
  BY DEF Searched, SearchStep
<1> HIDE DEF step, base
<1>2. base \in T /\ \A f \in T : step(f) \in T
  BY DEF base, step, Steps
<1>3. F \in [1..depth -> [T -> T]]
  BY <1>2
<1>4. \A i \in 1..depth : \A f \in T : F[i][f] = step(f)
  OBVIOUS
<1> HIDE DEF F
<1>5. PICK g \in [0..depth -> T] :
        \A i \in 0..depth : g[i] = IF i = 0 THEN base ELSE F[i][g[i - 1]]
  <2>1. HasRecursion(0, depth, T, base, F)
    BY <1>2, <1>3, RecursionExists
  <2> QED BY <2>1 DEF HasRecursion
<1>6. \A i \in 0..depth : g[i] = e(g, i)
  <2> SUFFICES ASSUME NEW i \in 0..depth PROVE g[i] = e(g, i)
    OBVIOUS
  <2>1. CASE i = 0
    BY <1>5, <2>1
  <2>2. CASE i # 0
    <3>1. i \in 1..depth /\ i - 1 \in 0..depth
      BY <2>2
    <3>2. g[i - 1] \in T /\ g[i] = F[i][g[i - 1]]
      BY <1>5, <2>2, <3>1
    <3> QED BY <1>4, <2>2, <3>1, <3>2
  <2> QED BY <2>1, <2>2
<1> HIDE DEF e
<1>7. g = [i \in 0..depth |-> e(g, i)]
  BY <1>5, <1>6
<1>8. found = [i \in 0..depth |-> e(found, i)]
  BY <1>7
<1> HIDE DEF found
<1>9. \A i \in 0..depth : found[i] = e(found, i)
  BY <1>8
<1>10. found[0] = base
  BY <1>9 DEF e
<1>11. \A i \in 1..depth : found[i] = step(found[i - 1])
  <2> SUFFICES ASSUME NEW i \in 1..depth PROVE found[i] = step(found[i - 1])
    OBVIOUS
  <2>1. i \in 0..depth /\ i # 0
    OBVIOUS
  <2> QED BY <1>9, <2>1 DEF e
<1>12. \A i \in 0..depth : found[i] \in T
  <2>1. found[0] \in T
    BY <1>2, <1>10
  <2>2. ASSUME NEW i \in (0 + 1)..depth, found[i - 1] \in T PROVE found[i] \in T
    <3>1. i \in 1..depth
      OBVIOUS
    <3> QED BY <1>2, <1>11, <2>2, <3>1
  <2> QED BY <2>1, <2>2, RecursionClosed
<1>13. found \in [0..depth -> T]
  BY <1>8, <1>12
<1> QED BY <1>1, <1>10, <1>11, <1>13 DEF base, step, Trace

LEMMA SearchedIs ==
  ASSUME NEW m \in Tables, NEW s, NEW p \in Nat, NEW best_len \in Nat \ 0..1,
         NEW max_len \in Nat, NEW best \in Best(s, p, best_len, max_len),
         NEW node \in Int, Entry(node, m.base, p), m.base = 0 \/ m.base >= Window,
         m.base <= p, \A j \in 0..Window-1 : j <= p => Entry(m.next[j], m.base, p),
         NEW nice_len, NEW depth \in Nat, NEW fast
  PROVE  Searched(m, s, p, node, best, max_len, nice_len, depth, fast)
           \in Best(s, p, best_len, max_len)
<1> DEFINE step(f) == SearchStep(m, s, p, max_len, nice_len, fast, f)
           B == Best(s, p, best_len, max_len)
           T == {f \in [node : Int, best : B] : Entry(f.node, m.base, p)}
<1>0. Window \in Nat \ {0} /\ m.base \in Nat /\ m.next \in [0..Window-1 -> Int]
  BY MatchfinderAssumption DEF Tables
<1>2. [node |-> node, best |-> best] \in T
  OBVIOUS
<1>3. \A f \in T : step(f) \in T
  <2> SUFFICES ASSUME NEW f \in T, ~(f.node <= p - m.base - Window) PROVE step(f) \in T
    BY DEF SearchStep
  <2> DEFINE j == f.node % Window
             b == Better(f.best, s, p, m.base + f.node, max_len, nice_len, fast)
  <2>1. f.node \in Int /\ f.best \in B /\ Entry(f.node, m.base, p)
    OBVIOUS
  <2>2. 0 <= f.node + m.base /\ f.node + m.base < p
    BY <1>0, <2>1 DEF Entry
  <2>3. j \in 0..Window-1 /\ (0 <= f.node /\ f.node < Window => j = f.node)
    BY <1>0, <2>1, ModIs
  <2>4. j <= p
    <3>1. CASE m.base = 0
      <4>1. 0 <= f.node
        BY <1>0, <2>1, <2>2, <3>1
      <4>2. CASE f.node < Window
        BY <1>0, <2>1, <2>2, <2>3, <3>1, <4>1, <4>2
      <4>3. CASE f.node >= Window
        BY <1>0, <2>1, <2>2, <2>3, <3>1, <4>3
      <4> QED BY <1>0, <2>1, <4>2, <4>3
    <3>2. CASE m.base >= Window
      BY <1>0, <2>3, <3>2
    <3> QED BY <3>1, <3>2
  <2> HIDE DEF j
  <2>5. Entry(m.next[j], m.base, p) /\ m.next[j] \in Int
    BY <1>0, <2>3, <2>4
  <2>6. b \in B
    <3>1. m.base + f.node \in Int /\ p - (m.base + f.node) \in 1..Least(Window, p)
      BY <1>0, <2>1, <2>2 DEF Least
    <3> QED BY <2>1, <3>1, BetterIs
  <2> HIDE DEF b, B
  <2>7. step(f) = [node |-> m.next[j], best |-> b]
    BY DEF j, b, SearchStep
  <2> QED BY <2>5, <2>6, <2>7
<1> HIDE DEF T
<1>4. Steps(T, m, s, p, node, best, max_len, nice_len, fast)
  BY <1>2, <1>3 DEF Steps
<1>5. PICK found : Trace(found, T, m, s, p, node, best, max_len, nice_len, depth, fast)
  BY <1>4, SearchedSteps
<1>6. found[depth] \in T
  BY <1>5 DEF Trace
<1> QED BY <1>5, <1>6 DEF T, Trace

\* What a search at p returns.
Found(r, s, p, best_len, max_len) ==
  /\ r.len \in Nat /\ r.len >= best_len
  /\ r.len > best_len => /\ r.len \in 3..max_len
                         /\ r.offset \in 1..Least(Window, p)
                         /\ Same(s, p, p - r.offset, r.len)

LEMMA LongestMatchIs ==
  ASSUME NEW m0, NEW s \in Seq(0..255), NEW p \in Nat, NEW best_len \in Nat \ 0..1,
         NEW max_len \in Nat, max_len >= 5 => Ready(m0, s, p),
         NEW nice_len, NEW depth \in Nat, NEW fast
  PROVE  LET r == hc_matchfinder_longest_match(m0, s, p, best_len, max_len, nice_len, depth, fast)
         IN /\ r = [mf |-> r.mf, len |-> r.len, offset |-> r.offset]
            /\ Found(r, s, p, best_len, max_len)
            /\ max_len >= 5 => Ready(r.mf, s, p + 1)
<1> DEFINE r == hc_matchfinder_longest_match(m0, s, p, best_len, max_len, nice_len, depth, fast)
           m == Slid(m0, p)
           node3 == m.hash3[m.hashes[1]]
           node4 == m.hash4[m.hashes[2]]
           into == Insert(m, s, p)
           none == [len |-> best_len, at |-> p]
           three == IF best_len < 3 /\ Same(s, p, m.base + node3, 3)
                    THEN [len |-> 3, at |-> m.base + node3] ELSE none
           searched == Searched(into, s, p, node4, three, max_len, nice_len, depth, fast)
           best == IF best_len < 4 /\ node3 <= p - m.base - Window THEN none ELSE searched
           B == Best(s, p, best_len, max_len)
<1>1. CASE max_len < 5
  <2>1. r = [mf |-> m, len |-> best_len, offset |-> 0]
    BY <1>1 DEF hc_matchfinder_longest_match
  <2> HIDE DEF r, m
  <2> QED BY <1>1, <2>1 DEF Found, r
<1>2. CASE ~(max_len < 5)
  <2>0. Window \in Nat \ {0}
    BY MatchfinderAssumption
  <2>1. r = [mf |-> into, len |-> best.len, offset |-> p - best.at]
    BY <1>2 DEF hc_matchfinder_longest_match
  <2>2. Ready(m0, s, p)
    BY <1>2
  <2>3. Ready(m, s, p) /\ m.base <= p /\ p < m.base + Window
    BY <2>2, SlidReady
  <2> HIDE DEF m, r
  <2>4. /\ m.base \in Nat /\ (m.base = 0 \/ m.base >= Window)
        /\ m.hash3 \in [Buckets -> Int] /\ m.hash4 \in [Buckets -> Int]
        /\ m.hashes[1] \in Buckets /\ m.hashes[2] \in Buckets
    BY <2>3 DEF Ready, Linked, Tables
  <2>5. /\ node3 \in Int /\ Entry(node3, m.base, p)
        /\ node4 \in Int /\ Entry(node4, m.base, p)
    BY <2>3, <2>4 DEF Ready, Linked
  <2> HIDE DEF node3, node4
  <2>6. /\ Ready(into, s, p + 1) /\ into.base = m.base
        /\ \A j \in 0..Window-1 : j <= p => Entry(into.next[j], into.base, p)
    BY <2>3, InsertReady
  <2>7. into \in Tables
    BY <2>6 DEF Ready, Linked
  <2> HIDE DEF into
  <2>8. none \in B
    BY DEF Best
  <2>9. ASSUME ~(best_len < 4 /\ node3 <= p - m.base - Window) PROVE three \in B
    <3>1. CASE best_len < 3 /\ Same(s, p, m.base + node3, 3)
      <4>1. node3 > p - m.base - Window
        BY <2>0, <2>4, <2>5, <2>9, <3>1
      <4>2. 0 <= node3 + m.base /\ node3 + m.base < p
        BY <2>0, <2>3, <2>4, <2>5, <4>1 DEF Entry
      <4>3. p - (m.base + node3) \in 1..Least(Window, p) /\ m.base + node3 \in Int
        BY <2>0, <2>4, <2>5, <4>1, <4>2, SMTT(40) DEF Least
      <4>4. 3 \in 3..max_len /\ 3 >= best_len
        BY <1>2, <3>1
      <4>5. three = [len |-> 3, at |-> m.base + node3]
        BY <3>1
      <4> QED BY <3>1, <4>3, <4>4, <4>5 DEF Best
    <3>2. CASE ~(best_len < 3 /\ Same(s, p, m.base + node3, 3))
      BY <2>8, <3>2
    <3> QED BY <3>1, <3>2
  <2>10. best \in B
    <3>1. CASE best_len < 4 /\ node3 <= p - m.base - Window
      BY <2>8, <3>1
    <3>2. CASE ~(best_len < 4 /\ node3 <= p - m.base - Window)
      <4>1. three \in B
        BY <2>9, <3>2
      <4> HIDE DEF three, none
      <4>2. searched \in B
        BY <2>3, <2>4, <2>5, <2>6, <2>7, <4>1, SearchedIs
      <4> QED BY <3>2, <4>2
    <3> QED BY <3>1, <3>2
  <2> HIDE DEF best
  <2>11. Found(r, s, p, best_len, max_len)
    <3>1. /\ best.len \in Nat /\ best.at \in Int /\ best.len >= best_len
          /\ best.len > best_len => /\ best.len \in 3..max_len
                                    /\ p - best.at \in 1..Least(Window, p)
                                    /\ Same(s, p, best.at, best.len)
      BY <2>10 DEF Best
    <3>2. p - (p - best.at) = best.at /\ r.len = best.len /\ r.offset = p - best.at
      BY <2>1, <3>1
    <3> QED BY <3>1, <3>2 DEF Found
  <2> QED BY <2>1, <2>6, <2>11 DEF r
<1> QED BY <1>1, <1>2

LEMMA SkipIs ==
  ASSUME NEW m, NEW s \in Seq(0..255), NEW p \in Nat, NEW count \in Nat,
         Len(s) - p >= 5 => Ready(m, s, p), Len(s) - (p + count) >= 5
  PROVE  Ready(hc_matchfinder_skip_bytes(m, s, p, count), s, p + count)
<1>1. ~(count + 5 > Len(s) - p) /\ Len(s) - p >= 5
  OBVIOUS
<1> QED BY <1>1, InsertedReady DEF hc_matchfinder_skip_bytes

-----------------------------------------------------------------------
(***************************************************************************)
(* A search without a limit of depth finds a longest match.                *)
(***************************************************************************)
LEMMA ExtendStops ==
  ASSUME NEW s, NEW p \in Int, NEW q \in Int, NEW max \in Nat, NEW i \in Nat,
         Byte(s, p + i) # Byte(s, q + i)
  PROVE  lz_extend(s, p, q, max) <= i
<1> DEFINE n == lz_extend(s, p, q, max)
<1>1. n \in 0..max /\ Same(s, p, q, n)
  BY ExtendIs
<1> HIDE DEF n
<1>2. ~(i \in 0..n-1)
  BY <1>1 DEF Same
<1> QED BY <1>1, <1>2 DEF n

\* The tests that save a comparison only turn away what is no better.
LEMMA BetterEnough ==
  ASSUME NEW s, NEW p \in Nat, NEW q \in Nat, NEW max \in Nat, NEW best,
         best.len \in Nat, best.len >= 2, NEW fast \in BOOLEAN,
         NEW n, n = lz_extend(s, p, q, max), NEW b, b = Better(best, s, p, q, max, max, fast)
  PROVE  /\ b.len \in Nat /\ b.len >= best.len
         /\ n >= 4 => b.len >= n
<1> DEFINE len == best.len
<1>1. n \in 0..max /\ Same(s, p, q, n)
  BY ExtendIs
<1>2. \A i \in Nat : Byte(s, p + i) # Byte(s, q + i) => n <= i
  BY ExtendStops
<1>3. CASE len >= max /\ len >= 4
  <2>1. b = best
    BY <1>3 DEF Better
  <2> QED BY <1>1, <1>3, <2>1
<1>4. CASE ~Promising(s, p, q, len, fast)
  <2>1. b = best
    BY <1>4 DEF Better
  <2>2. n >= 4 => n <= len
    <3> SUFFICES ASSUME n >= 4 PROVE n <= len
      OBVIOUS
    <3>1. Same(s, p, q, 4)
      <4>1. \A i \in 0..4-1 : i \in 0..n-1
        BY <1>1
      <4> QED BY <1>1, <4>1 DEF Same
    <3>2. ~(len < 4)
      BY <1>4, <3>1 DEF Promising
    <3>3. CASE fast
      <4>1. ~Same(s, p + len - 3, q + len - 3, 4)
        BY <1>4, <3>1, <3>2, <3>3 DEF Promising
      <4>2. PICK j \in 0..3 : Byte(s, p + len - 3 + j) # Byte(s, q + len - 3 + j)
        BY <4>1 DEF Same
      <4>3. /\ len - 3 + j \in Nat /\ len - 3 + j <= len
            /\ p + len - 3 + j = p + (len - 3 + j) /\ q + len - 3 + j = q + (len - 3 + j)
        BY <3>2
      <4>4. n <= len - 3 + j
        BY <1>2, <4>2, <4>3
      <4> QED BY <1>1, <4>3, <4>4
    <3>4. CASE ~fast
      <4>1. Byte(s, p + len) # Byte(s, q + len)
        BY <1>4, <3>2, <3>4 DEF Promising
      <4> QED BY <1>2, <4>1
    <3> QED BY <3>3, <3>4
  <2> QED BY <2>1, <2>2
<1>5. CASE ~(len >= max /\ len >= 4) /\ Promising(s, p, q, len, fast)
  <2>1. b = IF n > best.len THEN [len |-> n, at |-> q] ELSE best
    BY <1>5 DEF Better
  <2> QED BY <1>1, <2>1
<1> QED BY <1>3, <1>4, <1>5

\* Where the search at p still has to look, the chain leads.
Ahead(s, base, p, max, h, q, f) ==
  Code(s, q)[2] = h => \/ q - base <= f.node
                       \/ lz_extend(s, p, q, max) < 4
                       \/ lz_extend(s, p, q, max) <= f.best.len

\* After i nodes that were in the window.
Onward(s, base, p, max, h, f, i) ==
  /\ f.node \in Int /\ f.best.len \in Nat /\ f.best.len >= 2
  /\ f.node = -Window \/ (f.node + base \in 0..p-1 /\ Code(s, f.node + base)[2] = h)
  /\ f.node <= p - base - 1 - i \/ f.node <= p - base - Window
  /\ \A q \in 0..p-1 : q > p - Window => Ahead(s, base, p, max, h, q, f)

LEMMA StepOnward ==
  ASSUME NEW m \in Tables, NEW s, NEW p \in Nat, m.base <= p, p < m.base + Window,
         \A q \in 0..p : q > p - Window =>
            Latest(m.next[Slot(q, m.base)], s, m.base, Code(s, q)[2], q),
         NEW max \in Nat, NEW fast \in BOOLEAN, NEW h, NEW f, NEW i \in Nat,
         Onward(s, m.base, p, max, h, f, i),
         NEW g, g = SearchStep(m, s, p, max, max, fast, f)
  PROVE  Onward(s, m.base, p, max, h, g, i + 1)
<1> DEFINE base == m.base
<1>0. /\ Window \in Nat \ {0} /\ base \in Nat /\ base <= p /\ p < base + Window
      /\ m.next \in [0..Window-1 -> Int]
  BY MatchfinderAssumption DEF Tables
<1>1. \A q \in 0..p : q > p - Window => Latest(m.next[Slot(q, base)], s, base, Code(s, q)[2], q)
  OBVIOUS
<1>2. Onward(s, base, p, max, h, f, i) /\ g = SearchStep(m, s, p, max, max, fast, f)
  OBVIOUS
<1>3. CASE f.node <= p - m.base - Window
  <2>1. g = f
    BY <1>3 DEF SearchStep
  <2> QED BY <1>2, <1>3, <2>1 DEF Onward
<1>4. CASE ~(f.node <= p - m.base - Window)
  <2> DEFINE x == base + f.node
             e == m.next[f.node % Window]
             b == Better(f.best, s, p, x, max, max, fast)
  <2>1. g = [node |-> e, best |-> b]
    BY <1>4 DEF SearchStep
  <2> HIDE DEF base
  <2>2. /\ f.node \in Int /\ f.best.len \in Nat /\ f.best.len >= 2
        /\ f.node = -Window \/ (f.node + base \in 0..p-1 /\ Code(s, f.node + base)[2] = h)
        /\ f.node <= p - base - 1 - i \/ f.node <= p - base - Window
        /\ ~(f.node <= p - base - Window)
    BY <1>2, <1>4 DEF Onward, base
  <2>3. f.node # -Window /\ f.node + base = x /\ x - base = f.node
    BY <1>0, <2>2
  <2>4. x \in 0..p-1 /\ x > p - Window /\ Code(s, x)[2] = h /\ f.node <= p - base - 1 - i
    <3>1. f.node + base > p - Window
      BY <1>0, <2>2
    <3> QED BY <2>2, <2>3, <3>1
  <2>5. Slot(x, base) = f.node % Window /\ Slot(x, base) \in 0..Window-1
    <3>1. x \in 0..p /\ x < base + Window /\ p <= base + Window /\ x \in Int
      BY <1>0, <2>4
    <3> HIDE DEF x
    <3>2. Slot(x, base) = (x - base) % Window /\ Slot(x, base) \in 0..Window-1
      BY <1>0, <2>4, <3>1, SlotIs
    <3> QED BY <2>3, <3>2
  <2>6. Latest(e, s, base, h, x) /\ e \in Int
    <3>1. x \in 0..p
      BY <2>4
    <3>2. Latest(m.next[Slot(x, base)], s, base, Code(s, x)[2], x)
      BY <1>1, <2>4, <3>1
    <3> QED BY <1>0, <2>4, <2>5, <3>2
  <2>7. /\ b.len \in Nat /\ b.len >= f.best.len
        /\ lz_extend(s, p, x, max) >= 4 => b.len >= lz_extend(s, p, x, max)
    <3>1. x \in Nat
      BY <2>4
    <3> HIDE DEF x
    <3> QED BY <2>2, <3>1, BetterEnough
  <2>8. \A q \in Int : lz_extend(s, p, q, max) \in Nat
    <3> SUFFICES ASSUME NEW q \in Int PROVE lz_extend(s, p, q, max) \in Nat
      OBVIOUS
    <3>1. lz_extend(s, p, q, max) \in 0..max
      BY ExtendIs
    <3> QED BY <3>1
  <2> HIDE DEF x, e, b
  <2>9. e < f.node
    <3>1. e = -Window \/ e + base \in 0..x-1
      BY <2>6 DEF Latest
    <3> QED BY <1>0, <2>2, <2>3, <2>4, <2>6, <3>1
  <2>10. ASSUME NEW q \in 0..p-1, q > p - Window PROVE Ahead(s, base, p, max, h, q, g)
    <3> SUFFICES ASSUME Code(s, q)[2] = h
                 PROVE  \/ q - base <= e
                        \/ lz_extend(s, p, q, max) < 4
                        \/ lz_extend(s, p, q, max) <= b.len
      BY <2>1 DEF Ahead
    <3>1. \/ q - base <= f.node
          \/ lz_extend(s, p, q, max) < 4
          \/ lz_extend(s, p, q, max) <= f.best.len
      BY <1>2, <2>10 DEF Onward, Ahead
    <3>2. CASE q - base <= f.node
      <4>1. CASE q = x
        BY <2>7, <2>8, <4>1
      <4>2. CASE q # x
        <5>1. q \in 0..x-1
          BY <1>0, <2>2, <2>3, <2>4, <3>2, <4>2
        <5> QED BY <2>6, <5>1 DEF Latest
      <4> QED BY <4>1, <4>2
    <3>3. CASE lz_extend(s, p, q, max) <= f.best.len
      BY <2>2, <2>7, <2>8, <3>3
    <3> QED BY <3>1, <3>2, <3>3
  <2>11. e = -Window \/ (e + base \in 0..p-1 /\ Code(s, e + base)[2] = h)
    <3>1. \A y \in 0..x-1 : y \in 0..p-1
      BY <2>4
    <3> QED BY <2>6, <3>1 DEF Latest
  <2>12. e <= p - base - 1 - (i + 1)
    BY <1>0, <2>2, <2>4, <2>6, <2>9
  <2> QED BY <2>1, <2>6, <2>2, <2>7, <2>10, <2>11, <2>12 DEF Onward, base
<1> QED BY <1>3, <1>4

\* After a window of nodes nothing is left ahead.
LEMMA SearchedLongest ==
  ASSUME NEW m \in Tables, NEW s, NEW p \in Nat, m.base <= p, p < m.base + Window,
         \A q \in 0..p : q > p - Window =>
            Latest(m.next[Slot(q, m.base)], s, m.base, Code(s, q)[2], q),
         NEW node \in Int, NEW h, Latest(node, s, m.base, h, p),
         NEW best \in [len : Nat, at : Int], best.len >= 2, NEW max \in Nat, NEW fast \in BOOLEAN,
         NEW r, r = Searched(m, s, p, node, best, max, max, Window, fast),
         NEW q \in 0..p-1, q > p - Window, Code(s, q)[2] = h, lz_extend(s, p, q, max) >= 4
  PROVE  r.len >= lz_extend(s, p, q, max)
<1> DEFINE T == [node : Int, best : [len : Nat, at : Int]]
           base == m.base
<1>0. /\ Window \in Nat \ {0} /\ base \in Nat /\ m.next \in [0..Window-1 -> Int]
  BY MatchfinderAssumption DEF Tables
<1>1. Steps(T, m, s, p, node, best, max, max, fast)
  <2>1. [node |-> node, best |-> best] \in T
    OBVIOUS
  <2>2. ASSUME NEW f \in T PROVE SearchStep(m, s, p, max, max, fast, f) \in T
    <3> DEFINE x == m.base + f.node
               j == f.node % Window
               b == Better(f.best, s, p, x, max, max, fast)
    <3>1. f.node \in Int /\ f.best \in [len : Nat, at : Int] /\ x \in Int
      BY <1>0
    <3>2. m.next[j] \in Int
      <4>1. j \in 0..Window-1
        BY <1>0, <3>1, ModIs
      <4> HIDE DEF j
      <4> QED BY <1>0, <4>1
    <3>3. b \in [len : Nat, at : Int]
      <4> HIDE DEF x
      <4>1. lz_extend(s, p, x, max) \in 0..max
        BY <3>1, ExtendIs
      <4> QED BY <3>1, <4>1 DEF Better
    <3>4. SearchStep(m, s, p, max, max, fast, f) = f
          \/ SearchStep(m, s, p, max, max, fast, f) = [node |-> m.next[j], best |-> b]
      BY DEF SearchStep
    <3> HIDE DEF x, j, b
    <3> QED BY <3>2, <3>3, <3>4
  <2> QED BY <2>1, <2>2 DEF Steps
<1> HIDE DEF T
<1>2. PICK found : Trace(found, T, m, s, p, node, best, max, max, Window, fast)
  BY <1>0, <1>1, SearchedSteps
<1>3. Onward(s, base, p, max, h, found[0], 0)
  <2>1. found[0] = [node |-> node, best |-> best]
    BY <1>2 DEF Trace
  <2>2. node = -Window \/ (node + base \in 0..p-1 /\ Code(s, node + base)[2] = h)
    BY DEF Latest
  <2>3. \A k \in 0..p-1 : Ahead(s, base, p, max, h, k, found[0])
    BY <2>1 DEF Ahead, Latest
  <2> HIDE DEF base
  <2>4. node <= p - base - 1 - 0 \/ node <= p - base - Window
    <3>1. CASE node = -Window
      <4>1. base <= p
        BY DEF base
      <4> QED BY <1>0, <3>1, <4>1
    <3>2. CASE node + base \in 0..p-1
      BY <1>0, <3>2
    <3> QED BY <2>2, <3>1, <3>2
  <2> QED BY <2>1, <2>2, <2>4, <2>3 DEF Onward
<1>4. ASSUME NEW i \in 1..Window, Onward(s, base, p, max, h, found[i - 1], i - 1)
      PROVE  Onward(s, base, p, max, h, found[i], i)
  <2>1. found[i] = SearchStep(m, s, p, max, max, fast, found[i - 1])
    BY <1>2, <1>4 DEF Trace
  <2>2. i - 1 \in Nat /\ (i - 1) + 1 = i
    BY <1>0
  <2>3. Onward(s, m.base, p, max, h, found[i], (i - 1) + 1)
    BY <1>4, <2>1, <2>2, StepOnward
  <2> QED BY <2>2, <2>3
<1> DEFINE right == [i \in 0..Window |-> IF Onward(s, base, p, max, h, found[i], i) THEN 1 ELSE 0]
<1>5. right[0] \in {1}
  BY <1>0, <1>3
<1>6. ASSUME NEW i \in (0 + 1)..Window, right[i - 1] \in {1} PROVE right[i] \in {1}
  <2>1. i \in 1..Window /\ i \in 0..Window /\ i - 1 \in 0..Window
    BY <1>0
  <2>2. Onward(s, base, p, max, h, found[i - 1], i - 1)
    BY <1>6, <2>1
  <2> QED BY <1>4, <2>1, <2>2
<1> HIDE DEF right
<1>7. \A i \in 0..Window : right[i] \in {1}
  BY <1>0, <1>5, <1>6, RecursionClosed
<1>8. Onward(s, base, p, max, h, found[Window], Window)
  <2>1. right[Window] = 1
    BY <1>0, <1>7
  <2> QED BY <1>0, <2>1 DEF right
<1> DEFINE f == found[Window]
           n == lz_extend(s, p, q, max)
<1>9. /\ f.node \in Int /\ f.best.len \in Nat
      /\ f.node <= p - base - 1 - Window \/ f.node <= p - base - Window
      /\ Ahead(s, base, p, max, h, q, f)
  BY <1>8 DEF Onward
<1>10. r = f.best
  BY <1>2 DEF Trace
<1>11. n \in Nat
  <2>1. n \in 0..max
    BY ExtendIs
  <2> QED BY <2>1
<1>12. ~(q - base <= f.node)
  <2> DEFINE last == f.node
  <2>1. last \in Int /\ (last <= p - base - 1 - Window \/ last <= p - base - Window)
    BY <1>9
  <2> HIDE DEF last, base
  <2>2. last <= p - base - Window /\ p - Window < q
    BY <1>0, <2>1
  <2>3. ~(q - base <= last)
    BY <1>0, <2>1, <2>2
  <2> QED BY <2>3 DEF last
<1>13. n <= f.best.len
  <2> HIDE DEF f, base
  <2> QED BY <1>9, <1>11, <1>12 DEF Ahead
<1> QED BY <1>10, <1>13

LEMMA SameCodes ==
  ASSUME NEW s, NEW p \in Nat \ {0}, NEW q \in Nat \ {0}, Same(s, p, q, 4)
  PROVE  Code(s, p) = Code(s, q)
<1>1. \A i \in 0..3 : Byte(s, p + i) = Byte(s, q + i)
  BY DEF Same
<1>2. /\ Byte(s, p + 0) = Byte(s, q + 0) /\ Byte(s, p + 1) = Byte(s, q + 1)
      /\ Byte(s, p + 2) = Byte(s, q + 2) /\ Byte(s, p + 3) = Byte(s, q + 3)
  BY <1>1
<1> QED BY <1>2 DEF Code, Hashes

\* A search at p from a length of 2: the three bytes of a longer match are in their bucket.
LEMMA LongestIs ==
  ASSUME NEW m0, NEW s \in Seq(0..255), NEW p \in Nat, Ready(m0, s, p),
         NEW max \in Nat, max >= 5, NEW fast \in BOOLEAN,
         NEW q \in 1..p-1, q > p - Window, lz_extend(s, p, q, max) >= 4,
         NEW r, r = hc_matchfinder_longest_match(m0, s, p, 2, max, max, Window, fast)
  PROVE  r.len >= lz_extend(s, p, q, max)
<1> DEFINE m == Slid(m0, p)
           node3 == m.hash3[m.hashes[1]]
           node4 == m.hash4[m.hashes[2]]
           into == Insert(m, s, p)
           none == [len |-> 2, at |-> p]
           three == IF Same(s, p, m.base + node3, 3) THEN [len |-> 3, at |-> m.base + node3] ELSE none
           searched == Searched(into, s, p, node4, three, max, max, Window, fast)
<1>0. Window \in Nat \ {0}
  BY MatchfinderAssumption
<1>1. r.len = IF node3 <= p - m.base - Window THEN 2 ELSE searched.len
  BY DEF hc_matchfinder_longest_match
<1>2. Ready(m, s, p) /\ m.base <= p /\ p < m.base + Window
  BY SlidReady
<1> HIDE DEF m
<1>3. /\ m \in Tables /\ m.base \in Nat
      /\ m.hash3 \in [Buckets -> Int] /\ m.hash4 \in [Buckets -> Int]
      /\ m.hashes[1] \in Buckets /\ m.hashes[2] \in Buckets
  BY <1>2 DEF Ready, Linked, Tables
<1>4. Linked(m, p) /\ Chained(m, s, p) /\ m.hashes = Code(s, p)
  BY <1>2 DEF Ready, Chained
<1>5. node3 \in Int /\ node4 \in Int /\ Latest(node4, s, m.base, Code(s, p)[2], p)
  BY <1>3, <1>4 DEF Chained
<1>6. /\ into \in Tables /\ into.base = m.base
      /\ \A k \in 0..p : k > p - Window =>
           Latest(into.next[Slot(k, into.base)], s, into.base, Code(s, k)[2], k)
  BY <1>2, <1>4, InsertLinked, InsertChained DEF Linked
<1>7. Code(s, p) = Code(s, q)
  <2> DEFINE n == lz_extend(s, p, q, max)
  <2>1. n \in 0..max /\ Same(s, p, q, n)
    BY ExtendIs
  <2> HIDE DEF n
  <2>2. \A i \in 0..4-1 : i \in 0..n-1
    BY <2>1 DEF n
  <2>3. Same(s, p, q, 4)
    BY <2>1, <2>2 DEF Same
  <2> QED BY <2>3, SameCodes
<1>8. q \in 0..p-1 /\ q \in Int
  OBVIOUS
<1>9. q - m.base <= node3
  BY <1>4, <1>7, <1>8 DEF Chained
<1> HIDE DEF into, node3, node4
<1>10. ~(node3 <= p - m.base - Window)
  BY <1>0, <1>3, <1>5, <1>8, <1>9
<1>11. three \in [len : Nat, at : Int] /\ three.len >= 2
  BY <1>3, <1>5
<1> HIDE DEF three
<1>12. searched.len >= lz_extend(s, p, q, max)
  <2> DEFINE h == Code(s, p)[2]
  <2>1. Latest(node4, s, into.base, h, p) /\ Code(s, q)[2] = h
    BY <1>5, <1>6, <1>7
  <2> HIDE DEF h
  <2>2. into.base <= p /\ p < into.base + Window
    BY <1>2, <1>6
  <2> QED BY <1>5, <1>6, <1>8, <1>11, <2>1, <2>2, SearchedLongest
<1> QED BY <1>1, <1>10, <1>12

-----------------------------------------------------------------------
(***************************************************************************)
(* Where the sequences of a block begin, and how often a symbol is used.   *)
(***************************************************************************)
LEMMA AtIs ==
  ASSUME NEW b, b.begin \in Nat, b.seqs \in Seq(Sequence)
  PROVE  /\ At(b, 1) = b.begin
         /\ \A i \in 1..Len(b.seqs) :
              /\ At(b, i) \in Nat
              /\ At(b, i + 1) = At(b, i) + b.seqs[i].litrunlen + b.seqs[i].length
<1> DEFINE sizes(n) == [k \in 1..n |-> b.seqs[k].litrunlen + b.seqs[k].length]
<1>1. Len(b.seqs) \in Nat /\ \A k \in 1..Len(b.seqs) : b.seqs[k] \in Sequence
  BY ElementOfSeq
<1>2. ASSUME NEW n \in 0..Len(b.seqs)
      PROVE  sizes(n) \in [1..n -> Nat]
  <2> SUFFICES ASSUME NEW k \in 1..n PROVE b.seqs[k].litrunlen + b.seqs[k].length \in Nat
    OBVIOUS
  <2>1. k \in 1..Len(b.seqs)
    BY <1>1
  <2>2. b.seqs[k].litrunlen \in Nat /\ b.seqs[k].length \in Nat
    BY <1>1, <2>1 DEF Sequence
  <2> QED BY <2>2
<1>3. At(b, 1) = b.begin
  <2>1. sizes(0) \in [1..0 -> Nat] /\ 0 \in Nat
    BY <1>1, <1>2
  <2>2. PICK g : IsSum(sizes(0), 1..0, g) /\ SumFunction(sizes(0)) = g[1..0]
    BY <2>1, SumUnfolds
  <2>3. SumFunction(sizes(0)) = 0
    <3>1. 1..0 = {}
      OBVIOUS
    <3> QED BY <2>2, <3>1 DEF IsSum
  <2>4. At(b, 1) = b.begin + SumFunction(sizes(0))
    <3>1. 1 - 1 = 0
      OBVIOUS
    <3> QED BY <3>1 DEF At
  <2> QED BY <2>3, <2>4
<1>4. ASSUME NEW i \in 1..Len(b.seqs)
      PROVE  /\ At(b, i) \in Nat
             /\ At(b, i + 1) = At(b, i) + b.seqs[i].litrunlen + b.seqs[i].length
  <2> DEFINE n == i - 1
  <2>1. n \in Nat /\ n + 1 = i /\ n \in 0..Len(b.seqs) /\ n + 1 \in 0..Len(b.seqs)
    BY <1>1
  <2>2. At(b, i) = b.begin + SumFunction(sizes(n))
    BY DEF At
  <2>3. At(b, i + 1) = b.begin + SumFunction(sizes(n + 1))
    <3>1. (i + 1) - 1 = n + 1
      BY <2>1
    <3> QED BY <3>1 DEF At
  <2> HIDE DEF n
  <2>4. sizes(n) \in [1..n -> Nat] /\ sizes(n + 1) \in [1..(n + 1) -> Nat]
    BY <1>2, <2>1
  <2>5. /\ \A k \in 1..n : sizes(n)[k] = sizes(n + 1)[k]
        /\ sizes(n + 1)[n + 1] = b.seqs[i].litrunlen + b.seqs[i].length
    BY <2>1
  <2>6. b.seqs[i].litrunlen \in Nat /\ b.seqs[i].length \in Nat
    BY <1>1 DEF Sequence
  <2> HIDE DEF sizes
  <2>7. SumFunction(sizes(n + 1)) = SumFunction(sizes(n)) + sizes(n + 1)[n + 1]
    BY <2>1, <2>4, <2>5, SumStep
  <2>8. SumFunction(sizes(n)) \in Nat
    BY <2>1, <2>4, SumIs
  <2> DEFINE sum == SumFunction(sizes(n))
             total == SumFunction(sizes(n + 1))
  <2>9. total = sum + (b.seqs[i].litrunlen + b.seqs[i].length)
    BY <2>5, <2>7
  <2> HIDE DEF sum, total
  <2>10. sum \in Nat /\ At(b, i) = b.begin + sum /\ At(b, i + 1) = b.begin + total
    BY <2>2, <2>3, <2>8 DEF sum, total
  <2> DEFINE lit == b.seqs[i].litrunlen
             len == b.seqs[i].length
             first == b.begin
  <2>11. first \in Nat /\ lit \in Nat /\ len \in Nat /\ total = sum + (lit + len)
    BY <2>6, <2>9
  <2> HIDE DEF lit, len, first
  <2>12. first + sum \in Nat /\ first + total = (first + sum) + lit + len
    BY <2>10, <2>11
  <2> QED BY <2>10, <2>12 DEF lit, len, first
<1> QED BY <1>3, <1>4

LEMMA AtSame ==
  ASSUME NEW b, NEW c, NEW i \in Nat, b.begin = c.begin,
         \A k \in 1..i-1 : /\ b.seqs[k].litrunlen = c.seqs[k].litrunlen
                           /\ b.seqs[k].length = c.seqs[k].length
  PROVE  At(b, i) = At(c, i)
<1>1. [k \in 1..i-1 |-> b.seqs[k].litrunlen + b.seqs[k].length]
        = [k \in 1..i-1 |-> c.seqs[k].litrunlen + c.seqs[k].length]
  OBVIOUS
<1> QED BY <1>1 DEF At

LEMMA IncrementedIs ==
  ASSUME NEW freqs, NEW x, NEW y, Frequency(freqs, y) \in Nat
  PROVE  Frequency(Incremented(freqs, x), y) = Frequency(freqs, y) + IF y = x THEN 1 ELSE 0
<1>1. CASE y \in DOMAIN freqs \cup {x}
  <2>1. Incremented(freqs, x)[y] = Frequency(freqs, y) + IF y = x THEN 1 ELSE 0
    BY <1>1 DEF Incremented
  <2>2. y \in DOMAIN Incremented(freqs, x)
    BY <1>1 DEF Incremented
  <2> QED BY <2>1, <2>2 DEF Frequency
<1>2. CASE y \notin DOMAIN freqs \cup {x}
  <2>1. y \notin DOMAIN Incremented(freqs, x) /\ y # x
    BY <1>2 DEF Incremented
  <2>2. Frequency(freqs, y) = 0
    BY <1>2 DEF Frequency
  <2> QED BY <2>1, <2>2 DEF Frequency
<1> QED BY <1>1, <1>2

LEMMA BoundedFinite ==
  ASSUME NEW n \in Nat, NEW S \in SUBSET (0..n)
  PROVE  IsFiniteSet(S) /\ Cardinality(S) \in Nat
<1> DEFINE low == 0
<1>1. IsFiniteSet(low..n)
  <2>1. low \in Int
    OBVIOUS
  <2> HIDE DEF low
  <2> QED BY <2>1, FS_Interval
<1>2. IsFiniteSet(S)
  <2>1. S \subseteq low..n
    OBVIOUS
  <2> HIDE DEF low
  <2> QED BY <1>1, <2>1, FS_Subset
<1> QED BY <1>2, FS_CardinalityType

\* A block and its last sequence; that of the new one is to be.
LEMMA CountedParts ==
  ASSUME NEW s \in Seq(0..255), NEW b, NEW e, Counted(s, b, e)
  PROVE  /\ Len(b.seqs) \in Nat \ {0} /\ Last(b.seqs) = b.seqs[Len(b.seqs)]
         /\ \A i \in 1..Len(b.seqs) : /\ b.seqs[i] \in Sequence /\ At(b, i) \in Nat
                                      /\ b.seqs[i].litrunlen \in Nat /\ b.seqs[i].length \in Nat
                                      /\ At(b, i) + b.seqs[i].litrunlen <= e
         /\ At(b, Len(b.seqs)) + b.seqs[Len(b.seqs)].litrunlen = e
         /\ b.begin \in Nat /\ e \in Nat /\ b.begin <= e /\ e <= Len(s) /\ Len(s) \in Nat
         /\ \A x \in Coded : IsFiniteSet(Used(s, b, x)) /\ Cardinality(Used(s, b, x)) \in Nat
<1>1. b.seqs \in Seq(Sequence) /\ Len(b.seqs) > 0 /\ b.begin \in Nat
  BY DEF Counted
<1>2. Len(b.seqs) \in Nat \ {0} /\ Last(b.seqs) = b.seqs[Len(b.seqs)]
  BY <1>1 DEF Last
<1>3. \A i \in 1..Len(b.seqs) : b.seqs[i] \in Sequence
  BY <1>1, ElementOfSeq
<1>4. Len(s) \in Nat /\ e \in Nat /\ b.begin <= e /\ e <= Len(s)
  BY <1>1 DEF Counted
<1>5. ASSUME NEW x \in Coded
      PROVE  IsFiniteSet(Used(s, b, x)) /\ Cardinality(Used(s, b, x)) \in Nat
  <2>1. CASE x[1] = "lit"
    <3>1. Used(s, b, x) \in SUBSET (0..Len(s))
      BY <1>4, <2>1 DEF Used
    <3> QED BY <1>4, <3>1, BoundedFinite
  <2>2. CASE x[1] = "length"
    <3>1. Used(s, b, x) \in SUBSET (0..Len(b.seqs))
      BY <1>2, <2>2 DEF Used
    <3> QED BY <1>2, <3>1, BoundedFinite
  <2>3. CASE x[1] = "offset"
    <3>1. Used(s, b, x) \in SUBSET (0..Len(b.seqs))
      BY <1>2, <2>3 DEF Used
    <3> QED BY <1>2, <3>1, BoundedFinite
  <2>4. x[1] \in {"lit", "length", "offset"}
    BY DEF Coded
  <2> QED BY <2>1, <2>2, <2>3, <2>4
<1>6. \A i \in 1..Len(b.seqs) : At(b, i) \in Nat /\ At(b, i) + b.seqs[i].litrunlen <= e
  BY DEF Counted
<1>7. \A i \in 1..Len(b.seqs) : b.seqs[i].litrunlen \in Nat /\ b.seqs[i].length \in Nat
  BY <1>3 DEF Sequence
<1>8. At(b, Len(b.seqs)) + Last(b.seqs).litrunlen = e
  BY DEF Counted
<1> QED BY <1>1, <1>2, <1>3, <1>4, <1>5, <1>6, <1>7, <1>8

\* One literal more in the last sequence.
LEMMA LiteralIs ==
  ASSUME NEW s \in Seq(0..255), NEW b, NEW e, Counted(s, b, e), NEW lit
  PROVE  LET c == deflate_choose_literal(b, lit)
             n == Len(b.seqs) IN
         /\ c = [f \in BlockFields |-> c[f]]
         /\ c.begin = b.begin /\ c.max_end = b.max_end /\ c.min_len = b.min_len
         /\ c.freqs = Incremented(b.freqs, <<"lit", lit>>)
         /\ c.seqs \in Seq(Sequence) /\ Len(c.seqs) = n
         /\ \A i \in 1..n : /\ c.seqs[i].length = b.seqs[i].length
                            /\ c.seqs[i].offset = b.seqs[i].offset
                            /\ i # n => c.seqs[i].litrunlen = b.seqs[i].litrunlen
         /\ c.seqs[n].litrunlen = b.seqs[n].litrunlen + 1
<1> DEFINE c == deflate_choose_literal(b, lit)
           n == Len(b.seqs)
           open == b.seqs[n]
           last == [open EXCEPT !.litrunlen = open.litrunlen + 1]
           seqs == [b.seqs EXCEPT ![n] = last]
<1>1. /\ n \in Nat \ {0} /\ Last(b.seqs) = b.seqs[n]
      /\ \A i \in 1..n : b.seqs[i] \in Sequence
  BY CountedParts
<1>2. b.seqs \in Seq(Sequence) /\ b = [f \in BlockFields |-> b[f]]
  BY DEF Counted
<1>4. c = [b EXCEPT !.freqs = Incremented(b.freqs, <<"lit", lit>>),
                    !.stats = observe_literal(b.stats, lit), !.seqs = seqs]
  BY <1>1, <1>2 DEF deflate_choose_literal, ReplaceAt, BlockFields
<1>5. last \in Sequence
  BY <1>1 DEF Sequence
<1>6. /\ seqs \in Seq(Sequence) /\ Len(seqs) = n
      /\ \A i \in 1..n : seqs[i] = IF i = n THEN last ELSE b.seqs[i]
  <2> HIDE DEF last
  <2> QED BY <1>1, <1>2, <1>5
<1>7. ASSUME NEW i \in 1..n
      PROVE  /\ seqs[i].length = b.seqs[i].length
             /\ seqs[i].offset = b.seqs[i].offset
             /\ i # n => seqs[i].litrunlen = b.seqs[i].litrunlen
             /\ i = n => seqs[i].litrunlen = b.seqs[i].litrunlen + 1
  <2>1. b.seqs[i] \in Sequence /\ b.seqs[n] \in Sequence
    BY <1>1
  <2>2. CASE i = n
    <3>1. seqs[i] = last
      BY <1>6, <2>2
    <3> HIDE DEF seqs
    <3> QED BY <2>1, <2>2, <3>1 DEF Sequence
  <2>3. CASE i # n
    <3>1. seqs[i] = b.seqs[i]
      BY <1>6, <2>3
    <3> HIDE DEF seqs
    <3> QED BY <2>1, <2>3, <3>1 DEF Sequence
  <2> QED BY <2>2, <2>3
<1> HIDE DEF seqs, c
<1>8. /\ c = [f \in BlockFields |-> c[f]]
      /\ c.begin = b.begin /\ c.max_end = b.max_end /\ c.min_len = b.min_len
      /\ c.freqs = Incremented(b.freqs, <<"lit", lit>>) /\ c.seqs = seqs
  BY <1>2, <1>4 DEF BlockFields
<1>9. n \in 1..n
  BY <1>1
<1> HIDE DEF last, open, n
<1>10. /\ \A i \in 1..n : /\ c.seqs[i].length = b.seqs[i].length
                          /\ c.seqs[i].offset = b.seqs[i].offset
                          /\ i # n => c.seqs[i].litrunlen = b.seqs[i].litrunlen
       /\ c.seqs[n].litrunlen = b.seqs[n].litrunlen + 1
  BY <1>7, <1>8, <1>9
<1> QED BY <1>6, <1>8, <1>10 DEF c, n

LEMMA LiteralCounted ==
  ASSUME NEW s \in Seq(0..255), NEW b, NEW e, Counted(s, b, e), e < Len(s)
  PROVE  Counted(s, deflate_choose_literal(b, s[e + 1]), e + 1)
<1> DEFINE c == deflate_choose_literal(b, s[e + 1])
           n == Len(b.seqs)
           lit == s[e + 1]
<1>1. /\ n \in Nat \ {0}
      /\ \A i \in 1..n : /\ b.seqs[i] \in Sequence /\ At(b, i) \in Nat
                         /\ b.seqs[i].litrunlen \in Nat /\ b.seqs[i].length \in Nat
                         /\ At(b, i) + b.seqs[i].litrunlen <= e
      /\ At(b, n) + b.seqs[n].litrunlen = e
      /\ b.begin \in Nat /\ e \in Nat /\ b.begin <= e /\ e <= Len(s) /\ Len(s) \in Nat
      /\ \A x \in Coded : IsFiniteSet(Used(s, b, x)) /\ Cardinality(Used(s, b, x)) \in Nat
  BY CountedParts
<1>2. /\ c = [f \in BlockFields |-> c[f]] /\ c.begin = b.begin
      /\ c.freqs = Incremented(b.freqs, <<"lit", lit>>)
      /\ c.seqs \in Seq(Sequence) /\ Len(c.seqs) = n
      /\ \A i \in 1..n : /\ c.seqs[i].length = b.seqs[i].length
                         /\ c.seqs[i].offset = b.seqs[i].offset
                         /\ i # n => c.seqs[i].litrunlen = b.seqs[i].litrunlen
      /\ c.seqs[n].litrunlen = b.seqs[n].litrunlen + 1
  BY LiteralIs
<1> HIDE DEF c, n, lit
<1>3. ASSUME NEW i \in 1..n PROVE At(c, i) = At(b, i)
  <2>1. \A k \in 1..i-1 : /\ c.seqs[k].litrunlen = b.seqs[k].litrunlen
                          /\ c.seqs[k].length = b.seqs[k].length
    <3> SUFFICES ASSUME NEW k \in 1..i-1
                 PROVE  /\ c.seqs[k].litrunlen = b.seqs[k].litrunlen
                        /\ c.seqs[k].length = b.seqs[k].length
      OBVIOUS
    <3>1. k \in 1..n /\ k # n
      BY <1>1
    <3>2. b.seqs[k].litrunlen \in Nat
      BY <1>1, <3>1
    <3> QED BY <1>2, <3>1, <3>2
  <2>2. i \in Nat
    OBVIOUS
  <2> QED BY <1>2, <2>1, <2>2, AtSame
<1>4. \A i \in 1..n-1 : RealMatch(s, c, i)
  <2> SUFFICES ASSUME NEW i \in 1..n-1 PROVE RealMatch(s, c, i)
    OBVIOUS
  <2>1. i \in 1..n /\ i # n
    BY <1>1
  <2>2. RealMatch(s, b, i)
    BY DEF Counted, n
  <2>3. c.seqs[i].litrunlen = b.seqs[i].litrunlen
    BY <1>1, <1>2, <2>1
  <2> QED BY <1>2, <1>3, <2>1, <2>2, <2>3 DEF RealMatch
<1>5. \A i \in 1..n : At(c, i) \in Nat /\ At(c, i) + c.seqs[i].litrunlen <= e + 1
  <2> SUFFICES ASSUME NEW i \in 1..n
               PROVE  At(c, i) \in Nat /\ At(c, i) + c.seqs[i].litrunlen <= e + 1
    OBVIOUS
  <2>1. /\ At(b, i) \in Nat /\ b.seqs[i].litrunlen \in Nat /\ e \in Nat
        /\ At(b, i) + b.seqs[i].litrunlen <= e
        /\ i = n => At(b, i) + b.seqs[i].litrunlen = e
    BY <1>1
  <2>2. /\ At(c, i) = At(b, i)
        /\ c.seqs[i].litrunlen \in {b.seqs[i].litrunlen, b.seqs[i].litrunlen + 1}
        /\ i # n => c.seqs[i].litrunlen = b.seqs[i].litrunlen
    BY <1>2, <1>3
  <2> DEFINE at == At(b, i)
             was == b.seqs[i].litrunlen
             now == c.seqs[i].litrunlen
  <2>3. /\ at \in Nat /\ was \in Nat /\ e \in Nat /\ at + was <= e /\ At(c, i) = at
        /\ now \in {was, was + 1}
    BY <2>1, <2>2
  <2> HIDE DEF at, was, now
  <2>4. at + now <= e + 1
    BY <2>3
  <2> QED BY <2>3, <2>4 DEF now
<1>6. At(c, n) + c.seqs[n].litrunlen = e + 1 /\ n \in 1..n
  <2>1. n \in 1..n
    BY <1>1
  <2>2. /\ At(b, n) \in Nat /\ b.seqs[n].litrunlen \in Nat
        /\ At(b, n) + b.seqs[n].litrunlen = e
        /\ At(c, n) = At(b, n) /\ c.seqs[n].litrunlen = b.seqs[n].litrunlen + 1
    BY <1>1, <1>2, <1>3, <2>1
  <2> QED BY <2>1, <2>2
<1>7. ASSUME NEW x \in Coded PROVE Frequency(c.freqs, x) = Cardinality(Used(s, c, x))
  <2>1. Frequency(b.freqs, x) = Cardinality(Used(s, b, x))
    BY DEF Counted
  <2>2. Frequency(c.freqs, x) = Frequency(b.freqs, x) + IF x = <<"lit", lit>> THEN 1 ELSE 0
    BY <1>1, <1>2, <2>1, IncrementedIs
  <2>3. CASE x[1] = "lit"
    <3>1. /\ Used(s, b, x) = {p \in 0..Len(s)-1 : \E i \in 1..n :
                p \in At(b, i) .. At(b, i) + b.seqs[i].litrunlen - 1 /\ s[p + 1] = x[2]}
          /\ Used(s, c, x) = {p \in 0..Len(s)-1 : \E i \in 1..n :
                p \in At(c, i) .. At(c, i) + c.seqs[i].litrunlen - 1 /\ s[p + 1] = x[2]}
      BY <1>2, <2>3 DEF Used, n
    <3>2. e \notin Used(s, b, x)
      <4> SUFFICES ASSUME NEW i \in 1..n, e \in At(b, i) .. At(b, i) + b.seqs[i].litrunlen - 1
                   PROVE  FALSE
        BY <3>1
      <4>1. /\ At(b, i) \in Nat /\ b.seqs[i].litrunlen \in Nat /\ e \in Nat
            /\ At(b, i) + b.seqs[i].litrunlen <= e
        BY <1>1
      <4> QED BY <4>1
    <3>3. ASSUME NEW p \in 0..Len(s)-1, NEW i \in 1..n
          PROVE  p \in At(c, i) .. At(c, i) + c.seqs[i].litrunlen - 1
                 <=> \/ p \in At(b, i) .. At(b, i) + b.seqs[i].litrunlen - 1
                     \/ i = n /\ p = e
      <4>1. /\ At(b, i) \in Nat /\ b.seqs[i].litrunlen \in Nat /\ e \in Nat
            /\ i = n => At(b, i) + b.seqs[i].litrunlen = e
        BY <1>1
      <4>2. /\ At(c, i) = At(b, i)
            /\ i # n => c.seqs[i].litrunlen = b.seqs[i].litrunlen
            /\ i = n => c.seqs[i].litrunlen = b.seqs[i].litrunlen + 1
        BY <1>2, <1>3
      <4> DEFINE a == At(b, i)
                 l == b.seqs[i].litrunlen
      <4> HIDE DEF a, l
      <4>3. /\ a \in Nat /\ l \in Nat /\ e \in Nat /\ (i = n => a + l = e)
            /\ At(c, i) = a
            /\ i # n => c.seqs[i].litrunlen = l
            /\ i = n => c.seqs[i].litrunlen = l + 1
        BY <4>1, <4>2 DEF a, l
      <4> DEFINE k == c.seqs[i].litrunlen
      <4> HIDE DEF k
      <4>4. CASE i = n
        <5>1. k = l + 1 /\ a + l = e
          BY <4>3, <4>4 DEF k
        <5>2. p \in a .. a + k - 1 <=> p \in a .. a + l - 1 \/ p = e
          BY <4>3, <5>1
        <5> QED BY <4>3, <4>4, <5>2 DEF a, l, k
      <4>5. CASE i # n
        BY <4>3, <4>5 DEF a, l
      <4> QED BY <4>4, <4>5
    <3>4. e \in 0..Len(s)-1
      BY <1>1
    <3>5. Used(s, c, x) = Used(s, b, x) \cup (IF lit = x[2] THEN {e} ELSE {})
      <4>1. ASSUME NEW p \in 0..Len(s)-1
            PROVE  p \in Used(s, c, x) <=> p \in Used(s, b, x) \/ (p = e /\ lit = x[2])
        BY <1>6, <3>1, <3>3 DEF lit
      <4>2. Used(s, c, x) \subseteq 0..Len(s)-1 /\ Used(s, b, x) \subseteq 0..Len(s)-1
        BY <3>1
      <4> QED BY <3>4, <4>1, <4>2
    <3>6. x = <<"lit", lit>> <=> lit = x[2]
      BY <2>3 DEF Coded
    <3>7. CASE lit = x[2]
      <4>1. Cardinality(Used(s, b, x) \cup {e}) = Cardinality(Used(s, b, x)) + 1
        BY <1>1, <3>2, FS_AddElement
      <4> QED BY <2>1, <2>2, <3>5, <3>6, <3>7, <4>1
    <3>8. CASE lit # x[2]
      <4>1. Used(s, c, x) = Used(s, b, x)
        BY <3>5, <3>8
      <4> QED BY <1>1, <2>1, <2>2, <3>6, <3>8, <4>1
    <3> QED BY <3>7, <3>8
  <2>4. CASE x[1] # "lit"
    <3>1. x # <<"lit", lit>> /\ x[1] \in {"length", "offset"}
      BY <2>4 DEF Coded
    <3>2. \A i \in 1..n-1 : /\ c.seqs[i].length = b.seqs[i].length
                            /\ c.seqs[i].offset = b.seqs[i].offset
      <4>1. \A i \in 1..n-1 : i \in 1..n
        BY <1>1
      <4> QED BY <1>2, <4>1
    <3>3. Used(s, c, x) = Used(s, b, x)
      <4>1. CASE x[1] = "length"
        BY <1>2, <3>2, <4>1 DEF Used, n
      <4>2. CASE x[1] = "offset"
        BY <1>2, <3>2, <4>2 DEF Used, n
      <4> QED BY <3>1, <4>1, <4>2
    <3> QED BY <1>1, <2>1, <2>2, <3>1, <3>3
  <2> QED BY <2>3, <2>4
<1>8. Last(c.seqs) = c.seqs[n]
  BY <1>2 DEF Last
<1>9. c.begin \in Nat /\ e + 1 \in c.begin..Len(s)
  BY <1>1, <1>2
<1>10. Counted(s, c, e + 1)
  <2>1. \A x \in Coded : Frequency(c.freqs, x) = Cardinality(Used(s, c, x))
    BY <1>7
  <2>2. Len(c.seqs) = n /\ n > 0
    BY <1>1, <1>2
  <2> QED BY <1>2, <1>4, <1>5, <1>6, <1>8, <1>9, <2>1, <2>2, Zenon DEF Counted
<1> QED BY <1>10 DEF c

\* The last sequence gets its match, and an empty one follows.
LEMMA MatchIs ==
  ASSUME NEW s \in Seq(0..255), NEW b, NEW e, Counted(s, b, e),
         NEW len \in Nat, NEW offset \in Nat
  PROVE  LET c == deflate_choose_match(b, len, offset)
             n == Len(b.seqs) IN
         /\ c = [f \in BlockFields |-> c[f]]
         /\ c.begin = b.begin /\ c.max_end = b.max_end /\ c.min_len = b.min_len
         /\ c.freqs = Incremented(Incremented(b.freqs, <<"length", len>>), <<"offset", offset>>)
         /\ c.seqs \in Seq(Sequence) /\ Len(c.seqs) = n + 1
         /\ \A i \in 1..n-1 : c.seqs[i] = b.seqs[i]
         /\ c.seqs[n].litrunlen = b.seqs[n].litrunlen
         /\ c.seqs[n].length = len /\ c.seqs[n].offset = offset
         /\ c.seqs[n + 1].litrunlen = 0
<1> DEFINE c == deflate_choose_match(b, len, offset)
           n == Len(b.seqs)
           open == b.seqs[n]
           last == [open EXCEPT !.length = len, !.offset = offset]
           new == [litrunlen |-> 0, length |-> 0, offset |-> 0]
           seqs == Append([b.seqs EXCEPT ![n] = last], new)
<1>1. /\ n \in Nat \ {0} /\ Last(b.seqs) = b.seqs[n]
      /\ \A i \in 1..n : b.seqs[i] \in Sequence
  BY CountedParts
<1>2. b.seqs \in Seq(Sequence) /\ b = [f \in BlockFields |-> b[f]]
  BY DEF Counted
<1>3. c = [b EXCEPT !.freqs = Incremented(Incremented(b.freqs, <<"length", len>>),
                                          <<"offset", offset>>),
                    !.stats = observe_match(b.stats, len), !.seqs = seqs]
  BY <1>1, <1>2 DEF deflate_choose_match, ReplaceAt, BlockFields
<1>4. /\ last \in Sequence /\ last.litrunlen = b.seqs[n].litrunlen
      /\ last.length = len /\ last.offset = offset
  <2>1. open \in Sequence
    BY <1>1
  <2> HIDE DEF open
  <2>2. /\ open = [litrunlen |-> open.litrunlen, length |-> open.length, offset |-> open.offset]
        /\ open.litrunlen \in Nat
    BY <2>1 DEF Sequence
  <2> DEFINE once == [open EXCEPT !.length = len]
  <2>3. last = [litrunlen |-> open.litrunlen, length |-> len, offset |-> offset]
    <3>1. once = [litrunlen |-> open.litrunlen, length |-> len, offset |-> open.offset]
      BY <2>2
    <3>2. last = [once EXCEPT !.offset = offset]
      OBVIOUS
    <3> HIDE DEF once
    <3>3. [once EXCEPT !.offset = offset]
            = [litrunlen |-> open.litrunlen, length |-> len, offset |-> offset]
      BY <3>1
    <3> HIDE DEF last
    <3> QED BY <3>2, <3>3
  <2> HIDE DEF last
  <2> QED BY <2>2, <2>3 DEF Sequence, open
<1>5. new \in Sequence /\ new.litrunlen = 0
  BY DEF Sequence
<1> HIDE DEF last, new
<1>6. /\ seqs \in Seq(Sequence) /\ Len(seqs) = n + 1
      /\ \A i \in 1..n-1 : seqs[i] = b.seqs[i]
      /\ seqs[n] = last /\ seqs[n + 1] = new
  <2> DEFINE most == [b.seqs EXCEPT ![n] = last]
  <2>1. /\ most \in Seq(Sequence) /\ Len(most) = n
        /\ \A i \in 1..n : most[i] = IF i = n THEN last ELSE b.seqs[i]
    BY <1>1, <1>2, <1>4
  <2> HIDE DEF most
  <2>2. /\ Append(most, new) \in Seq(Sequence) /\ Len(Append(most, new)) = n + 1
        /\ \A i \in 1..n : Append(most, new)[i] = most[i]
        /\ Append(most, new)[n + 1] = new
    BY <1>5, <2>1, AppendProperties
  <2>3. n \in 1..n /\ \A i \in 1..n-1 : i \in 1..n /\ i # n
    BY <1>1
  <2> QED BY <2>1, <2>2, <2>3 DEF most
<1> HIDE DEF seqs, c, open, n
<1>7. /\ c = [f \in BlockFields |-> c[f]]
      /\ c.begin = b.begin /\ c.max_end = b.max_end /\ c.min_len = b.min_len
      /\ c.freqs = Incremented(Incremented(b.freqs, <<"length", len>>), <<"offset", offset>>)
      /\ c.seqs = seqs
  BY <1>2, <1>3 DEF BlockFields
<1> QED BY <1>4, <1>5, <1>6, <1>7 DEF c, n

LEMMA MatchCounted ==
  ASSUME NEW s \in Seq(0..255), NEW b, NEW e, Counted(s, b, e),
         NEW len \in Nat, NEW offset \in Nat, Repeats(s, e, len, offset)
  PROVE  Counted(s, deflate_choose_match(b, len, offset), e + len)
<1> DEFINE c == deflate_choose_match(b, len, offset)
           n == Len(b.seqs)
<1>1. /\ n \in Nat \ {0}
      /\ \A i \in 1..n : /\ b.seqs[i] \in Sequence /\ At(b, i) \in Nat
                         /\ b.seqs[i].litrunlen \in Nat /\ b.seqs[i].length \in Nat
                         /\ At(b, i) + b.seqs[i].litrunlen <= e
      /\ At(b, n) + b.seqs[n].litrunlen = e
      /\ b.begin \in Nat /\ e \in Nat /\ b.begin <= e /\ e <= Len(s) /\ Len(s) \in Nat
      /\ \A x \in Coded : IsFiniteSet(Used(s, b, x)) /\ Cardinality(Used(s, b, x)) \in Nat
  BY CountedParts
<1>2. /\ c = [f \in BlockFields |-> c[f]] /\ c.begin = b.begin
      /\ c.freqs = Incremented(Incremented(b.freqs, <<"length", len>>), <<"offset", offset>>)
      /\ c.seqs \in Seq(Sequence) /\ Len(c.seqs) = n + 1
      /\ \A i \in 1..n-1 : c.seqs[i] = b.seqs[i]
      /\ c.seqs[n].litrunlen = b.seqs[n].litrunlen
      /\ c.seqs[n].length = len /\ c.seqs[n].offset = offset
      /\ c.seqs[n + 1].litrunlen = 0
  BY MatchIs
<1>3. len \in 3..MaxMatch /\ offset \in 0..Window /\ e + len <= Len(s)
  BY <1>1, MatchfinderAssumption DEF Repeats, Least
<1> HIDE DEF c, n
<1>4. ASSUME NEW i \in 1..n PROVE At(c, i) = At(b, i)
  <2>1. \A k \in 1..i-1 : k \in 1..n-1
    BY <1>1
  <2>2. \A k \in 1..i-1 : /\ c.seqs[k].litrunlen = b.seqs[k].litrunlen
                          /\ c.seqs[k].length = b.seqs[k].length
    BY <1>2, <2>1
  <2>3. i \in Nat
    OBVIOUS
  <2> QED BY <1>2, <2>2, <2>3, AtSame
<1>5. n \in 1..n /\ n \in 1..(n + 1) /\ n + 1 \in 1..(n + 1) /\ (n + 1) - 1 = n
  BY <1>1
<1>6. At(c, n) = At(b, n) /\ At(c, n + 1) = e + len
  <2>1. At(c, n) = At(b, n)
    BY <1>4, <1>5
  <2>2. At(c, n + 1) = At(c, n) + c.seqs[n].litrunlen + c.seqs[n].length
    BY <1>1, <1>2, <1>5, AtIs
  <2> DEFINE a == At(b, n)
             l == b.seqs[n].litrunlen
  <2>3. a \in Nat /\ l \in Nat /\ a + l = e /\ At(c, n + 1) = a + l + len
    BY <1>1, <1>2, <1>5, <2>1, <2>2
  <2> HIDE DEF a, l
  <2>4. At(c, n + 1) = e + len
    BY <2>3
  <2> QED BY <2>1, <2>4
<1>7. \A i \in 1..(n + 1) - 1 : RealMatch(s, c, i)
  <2> SUFFICES ASSUME NEW i \in 1..n PROVE RealMatch(s, c, i)
    BY <1>5
  <2>1. CASE i = n
    BY <1>1, <1>2, <1>6, <2>1 DEF RealMatch
  <2>2. CASE i # n
    <3>1. i \in 1..n-1
      BY <1>1, <2>2
    <3>2. RealMatch(s, b, i)
      BY <3>1 DEF Counted, n
    <3> QED BY <1>2, <1>4, <3>1, <3>2 DEF RealMatch
  <2> QED BY <2>1, <2>2
<1>8. ASSUME NEW i \in 1..(n + 1)
      PROVE  At(c, i) \in Nat /\ At(c, i) + c.seqs[i].litrunlen <= e + len
  <2>1. CASE i = n + 1
    BY <1>1, <1>2, <1>6, <2>1
  <2>2. CASE i # n + 1
    <3>1. i \in 1..n
      BY <1>1, <2>2
    <3>2. /\ At(b, i) \in Nat /\ b.seqs[i].litrunlen \in Nat
          /\ At(b, i) + b.seqs[i].litrunlen <= e
      BY <1>1, <3>1
    <3>3. At(c, i) = At(b, i) /\ c.seqs[i].litrunlen = b.seqs[i].litrunlen
      <4>1. CASE i = n
        BY <1>2, <1>4, <3>1, <4>1
      <4>2. CASE i # n
        <5>1. i \in 1..n-1
          BY <1>1, <3>1, <4>2
        <5> QED BY <1>2, <1>4, <3>1, <5>1
      <4> QED BY <4>1, <4>2
    <3> DEFINE a == At(b, i)
               l == b.seqs[i].litrunlen
    <3> HIDE DEF a, l
    <3>4. a \in Nat /\ l \in Nat /\ a + l <= e
      BY <3>2 DEF a, l
    <3>5. a + l <= e + len
      BY <1>1, <3>4
    <3> QED BY <3>3, <3>4, <3>5 DEF a, l
  <2> QED BY <2>1, <2>2
<1>9. ASSUME NEW x \in Coded PROVE Frequency(c.freqs, x) = Cardinality(Used(s, c, x))
  <2> DEFINE once == Incremented(b.freqs, <<"length", len>>)
  <2>1. Frequency(b.freqs, x) = Cardinality(Used(s, b, x)) /\ Frequency(b.freqs, x) \in Nat
    BY <1>1 DEF Counted
  <2>2. Frequency(once, x) = Frequency(b.freqs, x) + IF x = <<"length", len>> THEN 1 ELSE 0
    BY <2>1, IncrementedIs
  <2>3. Frequency(once, x) \in Nat
    BY <2>1, <2>2
  <2> HIDE DEF once
  <2>4. Frequency(c.freqs, x) = Frequency(once, x) + IF x = <<"offset", offset>> THEN 1 ELSE 0
    BY <1>2, <2>3, IncrementedIs DEF once
  <2>5. x = <<x[1], x[2]>> /\ x[1] \in {"lit", "length", "offset"}
    BY DEF Coded
  <2>6. CASE x[1] = "lit"
    <3>1. x # <<"length", len>> /\ x # <<"offset", offset>>
      BY <2>6
    <3>2. /\ Used(s, b, x) = {p \in 0..Len(s)-1 : \E i \in 1..n :
                p \in At(b, i) .. At(b, i) + b.seqs[i].litrunlen - 1 /\ s[p + 1] = x[2]}
          /\ Used(s, c, x) = {p \in 0..Len(s)-1 : \E i \in 1..(n + 1) :
                p \in At(c, i) .. At(c, i) + c.seqs[i].litrunlen - 1 /\ s[p + 1] = x[2]}
      BY <1>2, <2>6 DEF Used, n
    <3>3. \A i \in 1..n : At(c, i) = At(b, i) /\ c.seqs[i].litrunlen = b.seqs[i].litrunlen
      <4> SUFFICES ASSUME NEW i \in 1..n
                   PROVE  c.seqs[i].litrunlen = b.seqs[i].litrunlen
        BY <1>4
      <4>1. CASE i = n
        BY <1>2, <4>1
      <4>2. CASE i # n
        <5>1. i \in 1..n-1
          BY <1>1, <4>2
        <5> QED BY <1>2, <5>1
      <4> QED BY <4>1, <4>2
    <3>4. ASSUME NEW p \in 0..Len(s)-1
          PROVE  p \notin At(c, n + 1) .. At(c, n + 1) + c.seqs[n + 1].litrunlen - 1
      <4>1. At(c, n + 1) \in Nat /\ c.seqs[n + 1].litrunlen = 0
        BY <1>1, <1>2, <1>6
      <4> QED BY <4>1
    <3>5. \A i : i \in 1..(n + 1) <=> i \in 1..n \/ i = n + 1
      BY <1>1
    <3>6. Used(s, c, x) = Used(s, b, x)
      BY <3>2, <3>3, <3>4, <3>5
    <3> QED BY <2>1, <2>2, <2>4, <3>1, <3>6
  <2>7. CASE x[1] = "length"
    <3>1. x # <<"offset", offset>> /\ (x = <<"length", len>> <=> x[2] = len)
      BY <2>5, <2>7
    <3>2. /\ Used(s, b, x) = {i \in 1..n-1 : b.seqs[i].length = x[2]}
          /\ Used(s, c, x) = {i \in 1..(n + 1)-1 : c.seqs[i].length = x[2]}
      BY <1>2, <2>7 DEF Used, n
    <3>3. Used(s, c, x) = Used(s, b, x) \cup (IF x[2] = len THEN {n} ELSE {})
      <4>1. \A i : i \in 1..(n + 1)-1 <=> i \in 1..n-1 \/ i = n
        BY <1>1
      <4>2. \A i \in 1..n-1 : c.seqs[i].length = b.seqs[i].length
        BY <1>2
      <4>3. c.seqs[n].length = len
        BY <1>2
      <4> QED BY <3>2, <4>1, <4>2, <4>3
    <3>4. n \notin Used(s, b, x)
      BY <1>1, <3>2
    <3>5. CASE x[2] = len
      <4>1. Cardinality(Used(s, b, x) \cup {n}) = Cardinality(Used(s, b, x)) + 1
        BY <1>1, <3>4, FS_AddElement
      <4>2. /\ Frequency(once, x) = Frequency(b.freqs, x) + 1
            /\ Frequency(c.freqs, x) = Frequency(once, x)
        BY <2>1, <2>2, <2>3, <2>4, <3>1, <3>5
      <4> QED BY <2>1, <3>3, <3>5, <4>1, <4>2
    <3>6. CASE x[2] # len
      <4>1. Used(s, c, x) = Used(s, b, x)
        BY <3>3, <3>6
      <4> QED BY <2>1, <2>2, <2>4, <3>1, <3>6, <4>1
    <3> QED BY <3>5, <3>6
  <2>8. CASE x[1] = "offset"
    <3>1. x # <<"length", len>> /\ (x = <<"offset", offset>> <=> x[2] = offset)
      BY <2>5, <2>8
    <3>2. /\ Used(s, b, x) = {i \in 1..n-1 : b.seqs[i].offset = x[2]}
          /\ Used(s, c, x) = {i \in 1..(n + 1)-1 : c.seqs[i].offset = x[2]}
      BY <1>2, <2>8 DEF Used, n
    <3>3. Used(s, c, x) = Used(s, b, x) \cup (IF x[2] = offset THEN {n} ELSE {})
      <4>1. \A i : i \in 1..(n + 1)-1 <=> i \in 1..n-1 \/ i = n
        BY <1>1
      <4>2. \A i \in 1..n-1 : c.seqs[i].offset = b.seqs[i].offset
        BY <1>2
      <4>3. c.seqs[n].offset = offset
        BY <1>2
      <4> QED BY <3>2, <4>1, <4>2, <4>3
    <3>4. n \notin Used(s, b, x)
      BY <1>1, <3>2
    <3>5. CASE x[2] = offset
      <4>1. Cardinality(Used(s, b, x) \cup {n}) = Cardinality(Used(s, b, x)) + 1
        BY <1>1, <3>4, FS_AddElement
      <4>2. /\ Frequency(once, x) = Frequency(b.freqs, x)
            /\ Frequency(c.freqs, x) = Frequency(once, x) + 1
        BY <2>1, <2>2, <2>3, <2>4, <3>1, <3>5
      <4> QED BY <2>1, <3>3, <3>5, <4>1, <4>2
    <3>6. CASE x[2] # offset
      <4>1. Used(s, c, x) = Used(s, b, x)
        BY <3>3, <3>6
      <4> QED BY <2>1, <2>2, <2>4, <3>1, <3>6, <4>1
    <3> QED BY <3>5, <3>6
  <2> QED BY <2>5, <2>6, <2>7, <2>8
<1>10. Last(c.seqs) = c.seqs[n + 1] /\ Len(c.seqs) > 0
  BY <1>1, <1>2 DEF Last
<1>11. c.begin \in Nat /\ e + len \in c.begin..Len(s)
  BY <1>1, <1>2, <1>3
<1>12. At(c, Len(c.seqs)) + Last(c.seqs).litrunlen = e + len
  BY <1>1, <1>2, <1>6, <1>10
<1>13. Counted(s, c, e + len)
  <2>1. \A x \in Coded : Frequency(c.freqs, x) = Cardinality(Used(s, c, x))
    BY <1>9
  <2>2. \A i \in 1..(n + 1) : At(c, i) \in Nat /\ At(c, i) + c.seqs[i].litrunlen <= e + len
    BY <1>8
  <2> QED BY <1>2, <1>7, <1>10, <1>11, <1>12, <2>1, <2>2, Zenon DEF Counted
<1> QED BY <1>13 DEF c

\* Only its beginning, its sequences and its counters matter.
LEMMA CountedSame ==
  ASSUME NEW s \in Seq(0..255), NEW b, NEW e, Counted(s, b, e),
         NEW c, c = [f \in BlockFields |-> c[f]],
         c.begin = b.begin, c.seqs = b.seqs, c.freqs = b.freqs
  PROVE  Counted(s, c, e)
<1>1. \A i \in Nat : At(c, i) = At(b, i)
  BY DEF At
<1>2. Len(b.seqs) \in Nat \ {0}
  BY CountedParts
<1>3. \A i \in 1..Len(b.seqs) : At(c, i) = At(b, i)
  BY <1>1
<1>4. \A i \in 1..Len(b.seqs)-1 : RealMatch(s, c, i)
  <2> SUFFICES ASSUME NEW i \in 1..Len(b.seqs)-1 PROVE RealMatch(s, c, i)
    OBVIOUS
  <2>1. RealMatch(s, b, i)
    BY DEF Counted
  <2> QED BY <1>1, <2>1 DEF RealMatch
<1>5. ASSUME NEW x \in Coded PROVE Frequency(c.freqs, x) = Cardinality(Used(s, c, x))
  <2>1. Used(s, c, x) = Used(s, b, x)
    BY <1>3 DEF Used
  <2>2. Frequency(b.freqs, x) = Cardinality(Used(s, b, x))
    BY DEF Counted
  <2> QED BY <2>1, <2>2
<1>6. At(c, Len(b.seqs)) = At(b, Len(b.seqs))
  BY <1>1, <1>2
<1> QED BY <1>3, <1>4, <1>5, <1>6 DEF Counted

LEMMA MinLenIs ==
  ASSUME NEW used, NEW depth
  PROVE  choose_min_match_len(used, depth) \in Nat /\ choose_min_match_len(used, depth) >= 3
<1> DEFINE most == IF depth < 5 THEN 4 ELSE IF depth < 10 THEN 5 ELSE 7
           k == used + 1
<1>1. most \in Nat /\ most >= 3
  OBVIOUS
<1>2. choose_min_match_len(used, depth) =
        IF k \notin DOMAIN MinLens THEN 3
        ELSE IF depth >= 16 THEN MinLens[k] ELSE Least(MinLens[k], most)
  BY DEF choose_min_match_len
<1> HIDE DEF most, k
<1>3. CASE k \in DOMAIN MinLens
  <2>1. MinLens[k] \in Nat \ 0..2
    BY <1>3, ParseAssumption, ElementOfSeq
  <2> QED BY <1>1, <1>2, <1>3, <2>1 DEF Least
<1>4. CASE k \notin DOMAIN MinLens
  BY <1>2, <1>4
<1> QED BY <1>3, <1>4

LEMMA NewBlockIs ==
  ASSUME NEW s \in Seq(0..255), NEW p \in 0..Len(s), SeqStore \in Nat \ {0}
  PROVE  /\ NewBlock(s, p).begin = p
         /\ Counted(s, NewBlock(s, p), p)
         /\ Limited(s, NewBlock(s, p), p, SeqStore - 1)
<1> DEFINE c == NewBlock(s, p)
           new == [litrunlen |-> 0, length |-> 0, offset |-> 0]
<1>1. /\ c = [f \in BlockFields |-> c[f]]
      /\ c.begin = p /\ c.max_end = choose_max_block_end(p, Len(s))
      /\ c.freqs = NoFreqs /\ c.seqs = <<new>>
      /\ \E data : c.min_len = calculate_min_match_len(data)
  BY DEF NewBlock, BlockFields
<1> HIDE DEF c, new
<1>2. new \in Sequence /\ new.litrunlen = 0
  BY DEF Sequence, new
<1>3. c.seqs \in Seq(Sequence) /\ Len(c.seqs) = 1 /\ c.seqs[1] = new /\ Last(c.seqs) = new
  <2>1. <<new>> \in Seq(Sequence) /\ Len(<<new>>) = 1 /\ <<new>>[1] = new
    BY <1>2
  <2> QED BY <1>1, <2>1 DEF Last
<1>4. p \in Nat /\ p <= Len(s) /\ Len(s) \in Nat
  OBVIOUS
<1>5. At(c, 1) = p
  BY <1>1, <1>3, <1>4, AtIs
<1>6. ASSUME NEW x \in Coded PROVE Frequency(c.freqs, x) = Cardinality(Used(s, c, x))
  <2>1. Frequency(c.freqs, x) = 0
    BY <1>1 DEF NoFreqs, Frequency
  <2>2. Used(s, c, x) = {}
    <3>1. CASE x[1] = "lit"
      <4>1. Used(s, c, x) = {q \in 0..Len(s)-1 : \E i \in 1..1 :
                q \in At(c, i) .. At(c, i) + c.seqs[i].litrunlen - 1 /\ s[q + 1] = x[2]}
        BY <1>3, <3>1 DEF Used
      <4>2. \A q \in 0..Len(s)-1 : q \notin p .. p + 0 - 1
        BY <1>4
      <4>3. \A i \in 1..1 : At(c, i) = p /\ c.seqs[i].litrunlen = 0
        BY <1>2, <1>3, <1>5
      <4> QED BY <4>1, <4>2, <4>3
    <3>2. CASE x[1] = "length"
      BY <1>3, <3>2 DEF Used
    <3>3. CASE x[1] = "offset"
      BY <1>3, <3>3 DEF Used
    <3>4. x[1] \in {"lit", "length", "offset"}
      BY DEF Coded
    <3> QED BY <3>1, <3>2, <3>3, <3>4
  <2> QED BY <2>1, <2>2, FS_EmptySet
<1>7. Counted(s, c, p)
  <2>1. \A i \in 1..1 : At(c, i) \in Nat /\ At(c, i) + c.seqs[i].litrunlen <= p
    BY <1>2, <1>3, <1>4, <1>5
  <2>2. 1..1-1 = {} /\ 1 > 0
    OBVIOUS
  <2>3. At(c, 1) + Last(c.seqs).litrunlen = p
    BY <1>2, <1>3, <1>4, <1>5
  <2>4. c.begin \in Nat /\ p \in c.begin..Len(s)
    BY <1>1, <1>4
  <2>5. \A x \in Coded : Frequency(c.freqs, x) = Cardinality(Used(s, c, x))
    BY <1>6
  <2>6. /\ \A i \in 1..Len(c.seqs) : At(c, i) \in Nat /\ At(c, i) + c.seqs[i].litrunlen <= p
        /\ \A i \in 1..Len(c.seqs)-1 : RealMatch(s, c, i)
        /\ At(c, Len(c.seqs)) + Last(c.seqs).litrunlen = p
        /\ Len(c.seqs) > 0
    BY <1>3, <2>1, <2>2, <2>3
  <2> QED BY <1>1, <1>3, <2>4, <2>5, <2>6 DEF Counted
<1>8. c.min_len \in Nat /\ c.min_len >= 3
  BY <1>1, MinLenIs DEF calculate_min_match_len
<1>9. Limited(s, c, p, SeqStore - 1)
  <2>1. 3 * (Len(c.seqs) - 1) <= p - c.begin /\ Len(c.seqs) <= SeqStore - 1 + 1
    <3>1. 3 * (1 - 1) <= p - p /\ 1 <= SeqStore - 1 + 1
      BY <1>4
    <3> QED BY <1>1, <1>3, <3>1
  <2> QED BY <1>1, <1>8, <2>1 DEF Limited
<1> QED BY <1>1, <1>7, <1>9 DEF c

LEMMA FinishedCovers ==
  ASSUME NEW s \in Seq(0..255), NEW b, NEW e, Counted(s, b, e), NEW d,
         d.begin = b.begin, d.seqs = b.seqs, d.freqs = Incremented(b.freqs, <<"end">>)
  PROVE  Covers(s, d, e)
<1>1. \A i \in Nat : At(d, i) = At(b, i)
  BY DEF At
<1>2. /\ Len(b.seqs) \in Nat \ {0}
      /\ \A x \in Coded : Cardinality(Used(s, b, x)) \in Nat
  BY CountedParts
<1>3. \A i \in 1..Len(b.seqs) : At(d, i) = At(b, i)
  BY <1>1
<1>4. \A i \in 1..Len(b.seqs)-1 : RealMatch(s, b, i) /\ RealMatch(s, d, i)
  <2> SUFFICES ASSUME NEW i \in 1..Len(b.seqs)-1 PROVE RealMatch(s, b, i) /\ RealMatch(s, d, i)
    OBVIOUS
  <2>1. RealMatch(s, b, i)
    BY DEF Counted
  <2> QED BY <1>1, <2>1 DEF RealMatch
<1>5. ASSUME NEW x \in Symbols(s, d) PROVE x \in Coded
  <2>1. CASE \E c \in {s[i] : i \in DOMAIN s} : x = <<"lit", c>>
    <3>1. PICK i \in DOMAIN s : x = <<"lit", s[i]>>
      BY <2>1
    <3>2. s[i] \in 0..255
      <4>1. i \in 1..Len(s)
        OBVIOUS
      <4> QED BY <4>1, ElementOfSeq
    <3> QED BY <3>1, <3>2 DEF Coded
  <2>2. CASE \E i \in 1..Len(d.seqs)-1 :
               x \in {<<"length", d.seqs[i].length>>, <<"offset", d.seqs[i].offset>>}
    <3>1. PICK i \in 1..Len(b.seqs)-1 :
            x \in {<<"length", b.seqs[i].length>>, <<"offset", b.seqs[i].offset>>}
      BY <2>2
    <3> DEFINE q == b.seqs[i]
               p == At(b, i) + q.litrunlen
    <3>2. Repeats(s, p, q.length, q.offset)
      BY <1>4, <3>1 DEF RealMatch
    <3>3. q.length \in 0..MaxMatch
      BY <3>2, ParseAssumption DEF Repeats
    <3>4. q.offset \in 0..Window
      <4>1. At(b, i) \in Nat /\ q.litrunlen \in Nat
        <5>1. i \in 1..Len(b.seqs)
          BY <1>2, <3>1
        <5> QED BY <5>1, CountedParts
      <4>2. p \in Nat
        BY <4>1
      <4> HIDE DEF p, q
      <4> QED BY <3>2, <4>2, MatchfinderAssumption DEF Repeats, Least
    <3>5. CASE x = <<"length", q.length>>
      BY <3>3, <3>5 DEF Coded
    <3>6. CASE x = <<"offset", q.offset>>
      BY <3>4, <3>6 DEF Coded
    <3> QED BY <3>1, <3>5, <3>6
  <2> QED BY <2>1, <2>2 DEF Symbols
<1>6. ASSUME NEW x \in Coded PROVE Frequency(d.freqs, x) = Cardinality(Used(s, d, x))
  <2>1. Used(s, d, x) = Used(s, b, x)
    BY <1>3 DEF Used
  <2>2. Frequency(b.freqs, x) = Cardinality(Used(s, b, x)) /\ Frequency(b.freqs, x) \in Nat
    BY <1>2 DEF Counted
  <2>3. x # <<"end">>
    BY DEF Coded
  <2>4. Frequency(d.freqs, x) = Frequency(b.freqs, x)
    BY <2>2, <2>3, IncrementedIs
  <2> QED BY <2>1, <2>2, <2>4
<1>7. At(d, Len(d.seqs)) + Last(d.seqs).litrunlen = e
  BY <1>1, <1>2 DEF Counted
<1> QED BY <1>4, <1>5, <1>6, <1>7 DEF Covers

-----------------------------------------------------------------------
(***************************************************************************)
(* How long a block can get, and how many there can be.                    *)
(***************************************************************************)
LEMMA SizesAre ==
  /\ MinBlock \in Nat \ {0} /\ SoftMax \in Nat \ {0} /\ SeqStore \in Nat \ {0}
  /\ SoftMax >= MinBlock /\ SeqStore * 3 >= MinBlock
  /\ MaxMatch \in Nat /\ MaxMatch >= 5
BY ParseAssumption

LEMMA WithinLongest ==
  ASSUME NEW x \in Int, 3 * x <= 4 * (MaxMatch - 3) + bsr32(Window)
  PROVE  /\ SoftMax + MinBlock - 1 <= LongestBlock
         /\ SoftMax - 1 + x + MaxMatch <= LongestBlock
<1> DEFINE top == 4 * (MaxMatch - 3) + bsr32(Window)
           third == top \div 3
           a == SoftMax + MinBlock - 1
           b == SoftMax - 1 + third + MaxMatch
<1>1. bsr32(Window) \in Nat
  <2>1. Window \in Int /\ Window <= Window
    BY MatchfinderAssumption
  <2> QED BY <2>1, BsrIs
<1>2. top \in Int /\ 3 * x <= top
  BY <1>1, SizesAre
<1>3. LongestBlock = Most(a, b)
  BY DEF LongestBlock
<1> HIDE DEF top
<1>4. third \in Int /\ x <= third
  BY <1>2
<1> HIDE DEF third
<1>5. a \in Int /\ b \in Int /\ SoftMax - 1 + x + MaxMatch <= b
  BY <1>4, SizesAre
<1> HIDE DEF b
<1>6. a <= Most(a, b) /\ b <= Most(a, b) /\ Most(a, b) \in Int
  BY <1>5 DEF Most
<1>7. SoftMax - 1 + x + MaxMatch \in Int
  BY SizesAre
<1> QED BY <1>3, <1>5, <1>6, <1>7

LEMMA BlockNotTooLong ==
  ASSUME NEW begin \in Nat, NEW end \in Nat, begin <= end, NEW next \in Nat, next <= end,
         NEW x \in Int, 3 * x <= 4 * (MaxMatch - 3) + bsr32(Window),
         next <= choose_max_block_end(begin, end) - 1 + x + MaxMatch
  PROVE  next - begin <= LongestBlock
<1> DEFINE longest == LongestBlock
           a == SoftMax + MinBlock - 1
           b == SoftMax - 1 + x + MaxMatch
<1>1. a <= longest /\ b <= longest
  BY WithinLongest
<1>2. next - begin <= a \/ next - begin <= b
  <2>1. CASE end - begin < SoftMax + MinBlock
    BY <2>1, SizesAre
  <2>2. CASE ~(end - begin < SoftMax + MinBlock)
    <3>1. choose_max_block_end(begin, end) = begin + SoftMax
      BY <2>2 DEF choose_max_block_end
    <3> QED BY <3>1, SizesAre
  <2> QED BY <2>1, <2>2
<1>3. a \in Int /\ b \in Int /\ longest \in Int
  <2>1. bsr32(Window) \in Nat
    <3>1. Window \in Int /\ Window <= Window
      BY MatchfinderAssumption
    <3> QED BY <3>1, BsrIs
  <2> QED BY <2>1, SizesAre DEF LongestBlock, Most
<1> HIDE DEF a, b, longest
<1>4. next - begin <= longest
  BY <1>1, <1>2, <1>3
<1> QED BY <1>4 DEF longest

LEMMA MaxEndIs ==
  ASSUME NEW begin \in Nat, NEW end \in Nat, begin < end
  PROVE  LET e == choose_max_block_end(begin, end) IN
         e \in Nat /\ begin < e /\ e <= end /\ (e < end => e >= begin + MinBlock)
BY SizesAre DEF choose_max_block_end

LEMMA FewBlocks ==
  ASSUME NEW n \in Nat, NEW p \in Nat, n * MinBlock <= p + MinBlock - 1
  PROVE  n <= (p + MinBlock - 1) \div MinBlock
<1> DEFINE t == p + MinBlock - 1
           q == t \div MinBlock
<1>1. MinBlock \in Nat \ {0}
  BY SizesAre
<1>2. t \in Nat
  BY <1>1
<1> HIDE DEF t
<1>3. q \in Nat /\ t < MinBlock * (q + 1)
  BY <1>1, <1>2
<1> HIDE DEF q
<1>4. ASSUME n >= q + 1 PROVE FALSE
  <2>1. n * MinBlock >= (q + 1) * MinBlock
    BY <1>1, <1>3, <1>4
  <2>2. n * MinBlock <= t
    BY DEF t
  <2> QED BY <1>1, <1>2, <1>3, <2>1, <2>2
<1>5. n <= q
  BY <1>3, <1>4
<1> QED BY <1>5 DEF q, t

LEMMA OneMore ==
  ASSUME NEW n \in Nat, NEW begin \in Nat, NEW next \in Nat, n * MinBlock <= begin,
         begin < next
  PROVE  /\ n <= (next + MinBlock - 1) \div MinBlock
         /\ n + 1 <= (next + MinBlock - 1) \div MinBlock
         /\ next - begin >= MinBlock => (n + 1) * MinBlock <= next
<1>1. MinBlock \in Nat \ {0}
  BY SizesAre
<1>2. n * MinBlock \in Nat /\ (n + 1) * MinBlock = n * MinBlock + MinBlock
  BY <1>1
<1>3. n * MinBlock <= next + MinBlock - 1 /\ (n + 1) * MinBlock <= next + MinBlock - 1
  BY <1>1, <1>2
<1> QED BY <1>1, <1>2, <1>3, FewBlocks

-----------------------------------------------------------------------
(***************************************************************************)
(* The end of a loop: the block goes on, or is flushed and another begins. *)
(***************************************************************************)
LEMMA InputIs ==
  ASSUME input \in Inputs
  PROVE  input \in Seq(0..255) /\ Len(input) \in Nat
BY ParseAssumption

LEMMA GoOnKeeps ==
  ASSUME input \in Inputs, NEW c, NEW next \in Nat, NEW m, GoOn(c, next, m), UNCHANGED input,
         Counted(input, c, next), Limited(input, c, next, SeqStore),
         c.begin < next, next - c.begin <= LongestBlock, Follows(c, blocks),
         blocks \in Seq(Elements(blocks)),
         \A i \in DOMAIN blocks : Finished(input, blocks, i)
  PROVE  /\ in_next' = next /\ mf' = m /\ cur' = NoMatch
         /\ blocks' \in Seq(Elements(blocks'))
         /\ \A i \in DOMAIN blocks' : Finished(input, blocks', i)
         /\ Len(blocks') <= (next + MinBlock - 1) \div MinBlock
         /\ next < Len(input) =>
              /\ Counted(input, block', next) /\ Limited(input, block', next, SeqStore - 1)
              /\ Follows(block', blocks') /\ next < block'.max_end
<1> DEFINE checks == next < c.max_end /\ Len(c.seqs) <= SeqStore
           ready == checks /\ ready_to_check_block(c.stats, c.begin, next, Len(input))
           split == ready /\ do_end_block_check(c.stats, next - c.begin)
           d == deflate_finish_block(c, next)
           merged == [c EXCEPT !.stats = merge_new_observations(c.stats)]
<1>1. /\ in_next' = next /\ mf' = m /\ cur' = NoMatch
      /\ IF checks /\ ~split
         THEN block' = (IF ready THEN merged ELSE c) /\ blocks' = blocks
         ELSE /\ blocks' = Append(blocks, d)
              /\ block' = IF next = Len(input) THEN c ELSE NewBlock(input, next)
  BY DEF GoOn
<1>2. input \in Seq(0..255) /\ Len(input) \in Nat
  BY InputIs
<1>3. /\ c.begin \in Nat /\ next <= Len(input) /\ c = [f \in BlockFields |-> c[f]]
      /\ Len(c.seqs) \in Nat \ {0}
  BY <1>2, CountedParts DEF Counted
<1>4. /\ c.max_end = choose_max_block_end(c.begin, Len(input))
      /\ c.min_len \in Nat /\ c.min_len >= 3
      /\ 3 * (Len(c.seqs) - 1) <= next - c.begin
      /\ Len(c.seqs) <= SeqStore + 1
  BY DEF Limited
<1>5. /\ c.max_end \in Nat /\ c.max_end <= Len(input)
      /\ c.max_end < Len(input) => c.max_end >= c.begin + MinBlock
  <2>1. c.begin < Len(input)
    BY <1>2, <1>3
  <2> QED BY <1>2, <1>3, <1>4, <2>1, MaxEndIs
<1>6. /\ c.begin = IF blocks = <<>> THEN 0 ELSE Last(blocks).begin + Last(blocks).length
      /\ Len(blocks) * MinBlock <= c.begin /\ Len(blocks) \in Nat
      /\ \A i \in DOMAIN blocks : ~blocks[i].final
  BY DEF Follows
<1>7. /\ Len(blocks) <= (next + MinBlock - 1) \div MinBlock
      /\ Len(blocks) + 1 <= (next + MinBlock - 1) \div MinBlock
      /\ next - c.begin >= MinBlock => (Len(blocks) + 1) * MinBlock <= next
  BY <1>3, <1>6, OneMore
<1> HIDE DEF d, merged, split
<1>8. CASE checks /\ ~split
  <2>1. blocks' = blocks /\ block' \in {merged, c}
    BY <1>1, <1>8
  <2>2. /\ merged = [f \in BlockFields |-> merged[f]]
        /\ merged.begin = c.begin /\ merged.seqs = c.seqs /\ merged.freqs = c.freqs
        /\ merged.max_end = c.max_end /\ merged.min_len = c.min_len
    BY <1>3 DEF merged, BlockFields
  <2>3. Counted(input, merged, next)
    BY <1>2, <2>2, CountedSame
  <2>4. ASSUME NEW b \in {merged, c}
        PROVE  /\ Counted(input, b, next) /\ Limited(input, b, next, SeqStore - 1)
               /\ Follows(b, blocks) /\ next < b.max_end
    <3>1. /\ b.begin = c.begin /\ b.seqs = c.seqs /\ b.max_end = c.max_end /\ b.min_len = c.min_len
          /\ Counted(input, b, next)
      BY <2>2, <2>3
    <3>2. Len(c.seqs) <= SeqStore - 1 + 1
      BY <1>3, <1>8, SizesAre
    <3> QED BY <1>4, <1>8, <3>1, <3>2 DEF Limited, Follows
  <2> QED BY <1>1, <1>7, <2>1, <2>4
<1>9. CASE ~(checks /\ ~split)
  <2>1. /\ blocks' = Append(blocks, d)
        /\ block' = IF next = Len(input) THEN c ELSE NewBlock(input, next)
    BY <1>1, <1>9
  <2>2. /\ d = [begin |-> c.begin, length |-> next - c.begin, seqs |-> c.seqs,
                freqs |-> Incremented(c.freqs, <<"end">>), final |-> d.final]
        /\ d.final \in BOOLEAN /\ (d.final <=> next = Len(input))
    BY DEF d, deflate_finish_block
  <2>3. next # Len(input) => next - c.begin >= MinBlock
    <3> SUFFICES ASSUME next # Len(input) PROVE next - c.begin >= MinBlock
      OBVIOUS
    <3>1. CASE ~(next < c.max_end)
      BY <1>2, <1>3, <1>5, <3>1, SizesAre
    <3>2. CASE ~(Len(c.seqs) <= SeqStore)
      BY <1>3, <1>4, <3>2, SizesAre, SMTT(40)
    <3>3. CASE split
      BY <1>3, <3>3 DEF split, ready_to_check_block
    <3> QED BY <1>9, <3>1, <3>2, <3>3
  <2>4. c.begin + (next - c.begin) = next
    BY <1>3
  <2>5. Covers(input, d, next)
    <3>1. d.begin = c.begin /\ d.seqs = c.seqs /\ d.freqs = Incremented(c.freqs, <<"end">>)
      BY <2>2
    <3> QED BY <1>2, <3>1, FinishedCovers
  <2> DEFINE n == Len(blocks)
  <2>6. /\ DOMAIN blocks' = 1..(n + 1) /\ Len(blocks') = n + 1
        /\ \A i \in 1..n : blocks'[i] = blocks[i]
        /\ blocks'[n + 1] = d /\ DOMAIN blocks = 1..n
        /\ blocks' # <<>> /\ blocks' = [i \in 1..(n + 1) |-> blocks'[i]]
    <3> DEFINE bs == blocks
               S == Elements(bs) \cup {d}
               more == Append(bs, d)
    <3>1. bs \in Seq(S) /\ d \in S
      <4>1. \A i \in 1..Len(bs) : bs[i] \in S
        BY DEF Elements
      <4> HIDE DEF S
      <4>2. bs = [i \in 1..Len(bs) |-> bs[i]] /\ Len(bs) \in Nat
        OBVIOUS
      <4> HIDE DEF bs
      <4>3. bs \in Seq(S)
        BY <4>1, <4>2
      <4> QED BY <4>3 DEF S
    <3> HIDE DEF S
    <3>2. /\ more \in Seq(S) /\ more # <<>> /\ Len(more) = n + 1
          /\ \A i \in 1..n : more[i] = bs[i]
          /\ more[n + 1] = d
      BY <3>1, AppendProperties
    <3> HIDE DEF more
    <3>3. DOMAIN more = 1..(n + 1) /\ more = [i \in 1..(n + 1) |-> more[i]]
      BY <3>2
    <3> QED BY <1>6, <2>1, <3>2, <3>3 DEF more
  <2>7. blocks' \in Seq(Elements(blocks'))
    <3>1. \A i \in 1..(n + 1) : blocks'[i] \in Elements(blocks')
      BY <2>6 DEF Elements
    <3>2. n + 1 \in Nat
      BY <1>6
    <3> DEFINE bs == blocks'
               l == n + 1
    <3> HIDE DEF bs, l
    <3>3. bs = [i \in 1..l |-> bs[i]] /\ l \in Nat /\ \A i \in 1..l : bs[i] \in Elements(bs)
      BY <2>6, <3>1, <3>2 DEF bs, l
    <3>4. bs \in Seq(Elements(bs))
      BY <3>3
    <3> QED BY <3>4 DEF bs
  <2>8. Last(blocks') = d
    BY <2>6 DEF Last
  <2>9. ASSUME NEW i \in DOMAIN blocks' PROVE Finished(input, blocks', i)
    <3>1. CASE i = n + 1
      <4>1. blocks'[i] = d
        BY <2>6, <3>1
      <4>2. c.begin = IF i = 1 THEN 0 ELSE blocks'[i-1].begin + blocks'[i-1].length
        <5>1. CASE n = 0
          <6>1. blocks = <<>>
            BY <1>6, <5>1
          <6> QED BY <1>6, <3>1, <5>1, <6>1
        <5>2. CASE n # 0
          <6>1. blocks # <<>> /\ i # 1 /\ i - 1 = n /\ n \in 1..n
            BY <1>6, <3>1, <5>2
          <6>2. Last(blocks) = blocks[n] /\ blocks'[n] = blocks[n]
            BY <2>6, <6>1 DEF Last
          <6> QED BY <1>6, <6>1, <6>2
        <5> QED BY <5>1, <5>2
      <4>3. next - c.begin \in Nat
        BY <1>3
      <4>4. d.begin + d.length = next
        BY <2>2, <2>4
      <4>5. d.begin = c.begin /\ d.length = next - c.begin /\ d.seqs = c.seqs
        BY <2>2
      <4>6. Len(d.seqs) <= SeqStore + 1
        BY <1>4, <4>5
      <4>7. ~d.final => d.length >= MinBlock
        BY <2>2, <2>3, <4>5
      <4> QED BY <1>3, <2>2, <2>5, <4>1, <4>2, <4>3, <4>4, <4>5, <4>6, <4>7 DEF Finished
    <3>2. CASE i # n + 1
      <4>1. i \in 1..n /\ (i # 1 => i - 1 \in 1..n)
        BY <1>6, <2>6, <3>2
      <4>2. blocks'[i] = blocks[i] /\ (i # 1 => blocks'[i-1] = blocks[i-1])
        BY <2>6, <4>1
      <4>3. Finished(input, blocks, i)
        BY <2>6, <4>1
      <4> QED BY <4>2, <4>3 DEF Finished
    <3> QED BY <3>1, <3>2
  <2>10. ASSUME next < Len(input)
         PROVE  /\ Counted(input, block', next) /\ Limited(input, block', next, SeqStore - 1)
                /\ Follows(block', blocks') /\ next < block'.max_end
    <3>1. next # Len(input) /\ next \in 0..Len(input) /\ block' = NewBlock(input, next)
      BY <1>2, <2>1, <2>10
    <3>2. /\ NewBlock(input, next).begin = next
          /\ Counted(input, NewBlock(input, next), next)
          /\ Limited(input, NewBlock(input, next), next, SeqStore - 1)
      BY <1>2, <3>1, SizesAre, NewBlockIs
    <3>3. next < NewBlock(input, next).max_end
      <4>1. NewBlock(input, next).max_end = choose_max_block_end(next, Len(input))
        BY <3>2 DEF Limited
      <4> QED BY <1>2, <2>10, <4>1, MaxEndIs
    <3>4. d.begin + d.length = next /\ ~d.final
      BY <2>2, <2>4, <3>1
    <3>5. (n + 1) * MinBlock <= next
      BY <1>7, <2>3, <3>1
    <3>6. \A i \in DOMAIN blocks' : ~blocks'[i].final
      <4> SUFFICES ASSUME NEW i \in 1..(n + 1) PROVE ~blocks'[i].final
        BY <2>6
      <4>1. i = n + 1 \/ i \in 1..n
        BY <1>6
      <4> QED BY <1>6, <2>6, <3>4, <4>1
    <3>7. Follows(block', blocks')
      BY <2>6, <2>8, <3>1, <3>2, <3>4, <3>5, <3>6 DEF Follows
    <3> QED BY <3>1, <3>2, <3>3, <3>7
  <2> QED BY <1>1, <1>7, <2>6, <2>7, <2>9, <2>10
<1> QED BY <1>8, <1>9

-----------------------------------------------------------------------
(***************************************************************************)
(* The lengths a search may use, and what it leaves.                       *)
(***************************************************************************)
LensTypes == [max : 0..MaxMatch, nice : Nat]

LEMMA LensAre ==
  ASSUME Len(input) \in Nat, NEW l \in LensTypes, NEW q \in Nat, NEW p \in Nat, q <= p,
         p <= Len(input), l.max < MaxMatch => Len(input) - q < MaxMatch
  PROVE  /\ Lens(l, p) \in LensTypes
         /\ Lens(l, p).max < MaxMatch => Len(input) - p < MaxMatch
         /\ Lens(l, p).max <= Len(input) - p
         /\ Lens(l, p).max >= 5 <=> Len(input) - p >= 5
<1> DEFINE rest == Len(input) - p
           nice == Least(l.nice, rest)
<1>1. rest \in Nat /\ MaxMatch \in Nat /\ MaxMatch >= 5
  BY SizesAre
<1>2. l.max \in 0..MaxMatch /\ l.nice \in Nat
  BY DEF LensTypes
<1>3. CASE rest < MaxMatch
  <2>1. Lens(l, p) = [max |-> rest, nice |-> nice]
    BY <1>3 DEF Lens, adjust_max_and_nice_len
  <2>2. nice \in Nat
    BY <1>1, <1>2 DEF Least
  <2> HIDE DEF nice
  <2> QED BY <1>1, <1>3, <2>1, <2>2 DEF LensTypes
<1>4. CASE ~(rest < MaxMatch)
  <2>1. Lens(l, p) = l
    BY <1>4 DEF Lens, adjust_max_and_nice_len
  <2>2. l.max = MaxMatch
    BY <1>1, <1>2, <1>4
  <2> QED BY <1>1, <1>4, <2>1, <2>2
<1> QED BY <1>3, <1>4

LEMMA SearchIs ==
  ASSUME input \in Inputs, NEW p \in Nat, p <= Len(input), NEW m,
         Len(input) - p >= 5 => Ready(m, input, p),
         NEW l \in LensTypes, l.max <= Len(input) - p,
         l.max >= 5 <=> Len(input) - p >= 5,
         NEW best_len \in Nat \ 0..1, NEW depth \in Nat
  PROVE  LET r == longest_match(m, p, best_len, l, depth) IN
         /\ r.len \in Nat /\ r.len >= best_len
         /\ r.len > best_len => Repeats(input, p, r.len, r.offset) /\ r.offset \in Nat
         /\ Len(input) - (p + 1) >= 5 => Ready(r.mf, input, p + 1)
<1> DEFINE r == longest_match(m, p, best_len, l, depth)
<1>1. input \in Seq(0..255) /\ Len(input) \in Nat
  BY InputIs
<1>2. l.max \in Nat /\ l.max <= MaxMatch /\ MaxMatch \in Nat
  BY SizesAre DEF LensTypes
<1>3. /\ Found(r, input, p, best_len, l.max)
      /\ l.max >= 5 => Ready(r.mf, input, p + 1)
  BY <1>1, <1>2, LongestMatchIs DEF longest_match
<1> HIDE DEF r
<1>4. /\ r.len \in Nat /\ r.len >= best_len
      /\ r.len > best_len => /\ r.len \in 3..l.max
                             /\ r.offset \in 1..Least(Window, p)
                             /\ Same(input, p, p - r.offset, r.len)
  BY <1>3 DEF Found
<1>5. r.len \in 3..l.max => r.len \in 3..MaxMatch /\ p + r.len <= Len(input)
  BY <1>1, <1>2
<1>6. r.offset \in 1..Least(Window, p) => r.offset \in Nat
  BY MatchfinderAssumption DEF Least
<1>7. Len(input) - (p + 1) >= 5 => Ready(r.mf, input, p + 1)
  BY <1>1, <1>3
<1> QED BY <1>4, <1>5, <1>6, <1>7 DEF Repeats, r

\* A step that goes on with block c at next.
LEMMA GoOnInv ==
  ASSUME ParseInv, NEW c, NEW next \in Nat, NEW m, GoOn(c, next, m), UNCHANGED <<input, level>>,
         lens' \in LensTypes, lens'.max < MaxMatch => Len(input) - next < MaxMatch,
         Counted(input, c, next), Limited(input, c, next, SeqStore), Follows(c, blocks),
         c.begin < next, NEW x \in Int, 3 * x <= 4 * (MaxMatch - 3) + bsr32(Window),
         next <= c.max_end - 1 + x + MaxMatch,
         Len(input) - next >= 5 => Ready(m, input, next)
  PROVE  ParseInv'
<1>1. /\ input \in Inputs /\ input \in Seq(0..255) /\ Len(input) \in Nat
      /\ level \in [parser : {"greedy", "lazy", "lazy2"}, depth : Nat, nice : Nat, fast : BOOLEAN]
      /\ blocks \in Seq(Elements(blocks))
      /\ \A i \in DOMAIN blocks : Finished(input, blocks, i)
  BY InputIs DEF ParseInv, ParseTypes
<1>2. /\ c.begin \in Nat /\ next <= Len(input) /\ c.begin <= Len(input)
      /\ c.max_end = choose_max_block_end(c.begin, Len(input))
  BY <1>1, CountedParts DEF Limited
<1>3. next - c.begin <= LongestBlock
  BY <1>1, <1>2, BlockNotTooLong
<1>4. /\ in_next' = next /\ mf' = m /\ cur' = NoMatch
      /\ blocks' \in Seq(Elements(blocks'))
      /\ \A i \in DOMAIN blocks' : Finished(input, blocks', i)
      /\ Len(blocks') <= (next + MinBlock - 1) \div MinBlock
      /\ next < Len(input) =>
           /\ Counted(input, block', next) /\ Limited(input, block', next, SeqStore - 1)
           /\ Follows(block', blocks') /\ next < block'.max_end
  BY <1>1, <1>3, GoOnKeeps
<1>5. ParseTypes'
  BY <1>1, <1>2, <1>4 DEF ParseTypes, LensTypes
<1>6. BlockOK'
  BY <1>4 DEF BlockOK, Parsed
<1>7. CurOK' /\ (in_next = Len(input) => cur = NoMatch)'
  BY <1>4 DEF CurOK
<1>8. (Len(input) - in_next >= 5 => Ready(mf, input, in_next))'
  BY <1>4
<1> QED BY <1>4, <1>5, <1>6, <1>7, <1>8 DEF ParseInv

\* A step that leaves a match at q to be bettered.
LEMMA WaitInv ==
  ASSUME ParseInv, NEW c, NEW q \in Nat, NEW len \in Nat, NEW offset \in Nat, NEW m,
         UNCHANGED <<input, level, blocks>>, block' = c, mf' = m, in_next' = q + 1,
         cur' = [len |-> len, offset |-> offset],
         lens' \in LensTypes, lens'.max < MaxMatch => Len(input) - (q + 1) < MaxMatch,
         Counted(input, c, q), Limited(input, c, q, SeqStore - 1), Follows(c, blocks),
         Repeats(input, q, len, offset),
         3 * (q + 1 - c.max_end) <= 4 * (len - 3) + bsr32(Window) - bsr32(offset),
         Len(input) - (q + 1) >= 5 => Ready(m, input, q + 1)
  PROVE  ParseInv'
<1>1. /\ input \in Inputs /\ input \in Seq(0..255) /\ Len(input) \in Nat
      /\ level \in [parser : {"greedy", "lazy", "lazy2"}, depth : Nat, nice : Nat, fast : BOOLEAN]
      /\ blocks \in Seq(Elements(blocks))
      /\ \A i \in DOMAIN blocks : Finished(input, blocks, i)
  BY InputIs DEF ParseInv, ParseTypes
<1>2. len >= 3 /\ q + 1 < Len(input) /\ q + 1 \in 0..Len(input)
  BY <1>1, SizesAre DEF Repeats
<1>3. cur' # NoMatch
  <2>1. [len |-> len, offset |-> offset].len # NoMatch.len
    BY <1>2 DEF NoMatch
  <2> QED BY <2>1
<1>4. (q + 1) - 1 = q /\ Parsed' = q
  BY <1>3 DEF Parsed
<1>5. ParseTypes'
  BY <1>1, <1>2 DEF ParseTypes, LensTypes
<1>6. BlockOK'
  BY <1>3, <1>4 DEF BlockOK
<1>7. CurOK'
  <2>1. cur'.len = len /\ cur'.offset = offset /\ cur' \in [len : Nat, offset : Nat]
    OBVIOUS
  <2>2. in_next' > 0 /\ in_next' - 1 = q
    BY <1>4
  <2>3. Repeats(input', in_next' - 1, cur'.len, cur'.offset)
    BY <2>1, <2>2
  <2>4. 3 * (in_next' - block'.max_end) <= 4 * (cur'.len - 3) + bsr32(Window) - bsr32(cur'.offset)
    <3>1. c.begin \in Nat /\ c.begin <= q /\ q < Len(input)
      BY <1>1, <1>2, CountedParts
    <3>2. c.max_end \in Int
      <4>1. c.begin < Len(input)
        BY <1>1, <3>1
      <4>2. choose_max_block_end(c.begin, Len(input)) \in Nat
        BY <1>1, <3>1, <4>1, MaxEndIs
      <4> QED BY <4>2 DEF Limited
    <3>3. block'.max_end = c.max_end
      OBVIOUS
    <3>4. bsr32(cur'.offset) = bsr32(offset)
      BY <2>1
    <3>5. bsr32(offset) \in Int
      <4>1. offset \in Int /\ offset <= offset
        OBVIOUS
      <4> QED BY <4>1, BsrIs
    <3>6. bsr32(Window) \in Int
      <4>1. Window \in Int /\ Window <= Window
        BY MatchfinderAssumption
      <4> QED BY <4>1, BsrIs
    <3> QED BY <2>1, <3>2, <3>3, <3>4, <3>5, <3>6
  <2> QED BY <2>1, <2>2, <2>3, <2>4 DEF CurOK
<1>8. Len(blocks) <= (q + 1 + MinBlock - 1) \div MinBlock
  <2>1. c.begin \in Nat /\ c.begin <= q
    BY <1>1, CountedParts
  <2>2. Len(blocks) \in Nat /\ Len(blocks) * MinBlock <= c.begin
    BY <1>1 DEF Follows
  <2>3. c.begin < q + 1 /\ q + 1 \in Nat
    BY <2>1
  <2> QED BY <2>1, <2>2, <2>3, OneMore
<1>9. in_next' # Len(input')
  BY <1>1, <1>2
<1> QED BY <1>1, <1>5, <1>6, <1>7, <1>8, <1>9 DEF ParseInv

-----------------------------------------------------------------------
(***************************************************************************)
(* A literal or a match more, and min_len looked at again.                 *)
(***************************************************************************)

\* The open block b: its sequences reach e, and it may have one more match.
Open(b, e) ==
  Counted(input, b, e) /\ Limited(input, b, e, SeqStore - 1) /\ Follows(b, blocks)

\* The block with that match.
Filled(b, e) ==
  Counted(input, b, e) /\ Limited(input, b, e, SeqStore) /\ Follows(b, blocks)

LEMMA LiteralOpen ==
  ASSUME input \in Inputs, NEW b, NEW e, Open(b, e), e < Len(input)
  PROVE  LET c == deflate_choose_literal(b, input[e + 1]) IN
         Open(c, e + 1) /\ c.begin = b.begin /\ c.max_end = b.max_end
<1> DEFINE c == deflate_choose_literal(b, input[e + 1])
<1>1. /\ input \in Seq(0..255)
      /\ Counted(input, b, e) /\ Limited(input, b, e, SeqStore - 1) /\ Follows(b, blocks)
  BY InputIs DEF Open
<1>2. /\ c.begin = b.begin /\ c.max_end = b.max_end /\ c.min_len = b.min_len
      /\ c.seqs \in Seq(Sequence) /\ Len(c.seqs) = Len(b.seqs)
  BY <1>1, LiteralIs
<1>3. Counted(input, c, e + 1)
  BY <1>1, LiteralCounted
<1> HIDE DEF c
<1>4. Limited(input, c, e + 1, SeqStore - 1)
  <2>1. b.begin \in Nat /\ e \in b.begin..Len(input) /\ Len(b.seqs) \in Nat
    BY <1>1 DEF Counted
  <2>2. /\ b.max_end = choose_max_block_end(b.begin, Len(input))
        /\ b.min_len \in Nat /\ b.min_len >= 3
        /\ 3 * (Len(b.seqs) - 1) <= e - b.begin
        /\ Len(b.seqs) <= SeqStore - 1 + 1
    BY <1>1 DEF Limited
  <2>3. 3 * (Len(b.seqs) - 1) <= (e + 1) - b.begin
    BY <2>1, <2>2, InputIs
  <2> QED BY <1>2, <2>2, <2>3 DEF Limited
<1>5. Follows(c, blocks)
  BY <1>1, <1>2 DEF Follows
<1> QED BY <1>2, <1>3, <1>4, <1>5 DEF Open, c

LEMMA OpenFilled ==
  ASSUME input \in Inputs, NEW b, NEW e, Open(b, e)
  PROVE  Filled(b, e)
<1>1. Len(b.seqs) \in Nat
  BY DEF Open, Counted
<1>2. Len(b.seqs) <= SeqStore - 1 + 1 => Len(b.seqs) <= SeqStore + 1
  BY <1>1, SizesAre
<1> QED BY <1>2 DEF Open, Filled, Limited

LEMMA MatchKeeps ==
  ASSUME NEW s \in Seq(0..255), NEW b, NEW e, Counted(s, b, e),
         NEW len \in Nat, NEW offset \in Nat
  PROVE  LET c == deflate_choose_match(b, len, offset) IN
         /\ c.begin = b.begin /\ c.max_end = b.max_end /\ c.min_len = b.min_len
         /\ c.seqs \in Seq(Sequence) /\ Len(c.seqs) = Len(b.seqs) + 1
<1> DEFINE c == deflate_choose_match(b, len, offset)
           n == Len(b.seqs)
<1>1. /\ c = [f \in BlockFields |-> c[f]]
      /\ c.begin = b.begin /\ c.max_end = b.max_end /\ c.min_len = b.min_len
      /\ c.freqs = Incremented(Incremented(b.freqs, <<"length", len>>), <<"offset", offset>>)
      /\ c.seqs \in Seq(Sequence) /\ Len(c.seqs) = n + 1
      /\ \A i \in 1..n-1 : c.seqs[i] = b.seqs[i]
      /\ c.seqs[n].litrunlen = b.seqs[n].litrunlen
      /\ c.seqs[n].length = len /\ c.seqs[n].offset = offset
      /\ c.seqs[n + 1].litrunlen = 0
  BY MatchIs
<1> QED BY <1>1

LEMMA MatchFilled ==
  ASSUME input \in Inputs, NEW b, NEW e, Open(b, e),
         NEW len \in Nat, NEW offset \in Nat, Repeats(input, e, len, offset)
  PROVE  LET c == deflate_choose_match(b, len, offset) IN
         Filled(c, e + len) /\ c.begin = b.begin /\ c.max_end = b.max_end
<1> DEFINE c == deflate_choose_match(b, len, offset)
<1>1. /\ input \in Seq(0..255)
      /\ Counted(input, b, e) /\ Limited(input, b, e, SeqStore - 1) /\ Follows(b, blocks)
  BY InputIs DEF Open
<1>2. /\ c.begin = b.begin /\ c.max_end = b.max_end /\ c.min_len = b.min_len
      /\ c.seqs \in Seq(Sequence) /\ Len(c.seqs) = Len(b.seqs) + 1
  BY <1>1, MatchKeeps
<1>3. Counted(input, c, e + len)
  BY <1>1, MatchCounted
<1> HIDE DEF c
<1>4. Limited(input, c, e + len, SeqStore)
  <2>1. b.begin \in Nat /\ e \in b.begin..Len(input) /\ Len(b.seqs) \in Nat /\ len >= 3
    BY <1>1, SizesAre DEF Counted, Repeats
  <2>2. /\ b.max_end = choose_max_block_end(b.begin, Len(input))
        /\ b.min_len \in Nat /\ b.min_len >= 3
        /\ 3 * (Len(b.seqs) - 1) <= e - b.begin
        /\ Len(b.seqs) <= SeqStore - 1 + 1
    BY <1>1 DEF Limited
  <2>3. 3 * (Len(c.seqs) - 1) <= (e + len) - c.begin
    BY <1>2, <2>1, <2>2, InputIs
  <2>4. Len(c.seqs) <= SeqStore + 1
    BY <1>2, <2>1, <2>2, SizesAre
  <2> QED BY <1>2, <2>2, <2>3, <2>4 DEF Limited
<1>5. Follows(c, blocks)
  BY <1>1, <1>2 DEF Follows
<1> QED BY <1>2, <1>3, <1>4, <1>5 DEF Filled, c

LEMMA RecalculatedOpen ==
  ASSUME input \in Inputs, NEW b, NEW e, Open(b, e)
  PROVE  LET c == Recalculated(b) IN
         Open(c, e) /\ c.begin = b.begin /\ c.max_end = b.max_end
<1> DEFINE min_len == recalculate_min_match_len(b.freqs)
           recalc == b.recalc + Least(Len(input) - b.recalc, in_next - b.begin)
           c == [b EXCEPT !.min_len = min_len, !.recalc = recalc]
<1>1. /\ input \in Seq(0..255)
      /\ Counted(input, b, e) /\ Limited(input, b, e, SeqStore - 1) /\ Follows(b, blocks)
  BY InputIs DEF Open
<1>2. Recalculated(b) \in {b, c}
  BY DEF Recalculated
<1>3. min_len \in Nat /\ min_len >= 3
  BY MinLenIs DEF recalculate_min_match_len
<1> HIDE DEF min_len, recalc
<1>4. b = [f \in BlockFields |-> b[f]]
  BY <1>1 DEF Counted
<1>5. /\ c = [f \in BlockFields |-> c[f]]
      /\ c.begin = b.begin /\ c.seqs = b.seqs /\ c.freqs = b.freqs /\ c.max_end = b.max_end
      /\ c.min_len = min_len
  BY <1>4 DEF BlockFields
<1> HIDE DEF c
<1>6. Counted(input, c, e)
  BY <1>1, <1>5, CountedSame
<1>7. Limited(input, c, e, SeqStore - 1) /\ Follows(c, blocks)
  BY <1>1, <1>3, <1>5 DEF Limited, Follows
<1> QED BY <1>1, <1>2, <1>5, <1>6, <1>7 DEF Open

LEMMA OpenParts ==
  ASSUME input \in Inputs, NEW b, NEW e, Open(b, e), e < Len(input)
  PROVE  b.begin \in Nat /\ e \in Nat /\ b.begin <= e /\ b.max_end \in Nat
<1>1. Len(input) \in Nat
  BY InputIs
<1>2. b.begin \in Nat /\ e \in b.begin..Len(input)
  BY DEF Open, Counted
<1>3. b.max_end = choose_max_block_end(b.begin, Len(input))
  BY DEF Open, Limited
<1>4. b.begin < Len(input)
  BY <1>1, <1>2
<1> QED BY <1>1, <1>2, <1>3, <1>4, MaxEndIs

LEMMA BitsAre ==
  ASSUME NEW offset \in Nat
  PROVE  /\ bsr32(offset) \in Nat /\ bsr32(Window) \in Nat
         /\ offset <= Window => bsr32(offset) <= bsr32(Window)
<1>1. offset \in Int /\ offset <= offset /\ Window \in Int /\ Window <= Window
  BY MatchfinderAssumption
<1>2. bsr32(offset) \in Nat /\ bsr32(Window) \in Nat
  BY <1>1, BsrIs
<1>3. offset <= Window => bsr32(offset) <= bsr32(Window)
  BY <1>1, BsrIs
<1> QED BY <1>2, <1>3

\* What holds of the open block, and of the match that waits.
LEMMA Opened ==
  ASSUME ParseInv, in_next < Len(input)
  PROVE  /\ input \in Inputs /\ Len(input) \in Nat /\ in_next \in Nat
         /\ Open(block, Parsed) /\ lens \in LensTypes
         /\ lens.max < MaxMatch => Len(input) - in_next < MaxMatch
         /\ level.depth \in Nat
         /\ Len(input) - in_next >= 5 => Ready(mf, input, in_next)
         /\ cur = NoMatch => Parsed = in_next /\ in_next < block.max_end
         /\ cur # NoMatch => Parsed = in_next - 1 /\ in_next - 1 \in Nat
<1>1. /\ input \in Inputs /\ in_next \in 0..Len(input)
      /\ level \in [parser : {"greedy", "lazy", "lazy2"}, depth : Nat, nice : Nat, fast : BOOLEAN]
      /\ lens \in [max : 0..MaxMatch, nice : Nat]
      /\ lens.max < MaxMatch => Len(input) - in_next < MaxMatch
  BY DEF ParseInv, ParseTypes
<1>2. /\ Len(input) - in_next >= 5 => Ready(mf, input, in_next)
      /\ CurOK /\ BlockOK
  BY DEF ParseInv
<1>3. Open(block, Parsed) /\ (cur = NoMatch => in_next < block.max_end)
  BY <1>2 DEF BlockOK, Open
<1>4. level.depth \in Nat
  BY <1>1
<1>5. Len(input) \in Nat /\ in_next \in Nat
  BY <1>1, InputIs
<1>6. cur # NoMatch => in_next > 0
  BY <1>2 DEF CurOK
<1> QED BY <1>1, <1>2, <1>3, <1>4, <1>5, <1>6 DEF LensTypes, Parsed

\* A match that is taken, and the bytes of it skipped from a position.
LEMMA TakeInv ==
  ASSUME ParseInv, NEW q \in Nat, NEW len \in Nat, NEW offset \in Nat,
         Repeats(input, q, len, offset), Open(block, q),
         NEW b, Open(b, q), b.max_end = block.max_end, NEW m,
         GoOn(deflate_choose_match(b, len, offset), q + len, m),
         UNCHANGED <<input, level>>,
         lens' \in LensTypes, lens'.max < MaxMatch => Len(input) - (q + 2) < MaxMatch,
         NEW x \in Int, 3 * x <= 4 * (MaxMatch - 3) + bsr32(Window),
         q <= b.max_end - 1 + x,
         Len(input) - (q + len) >= 5 => Ready(m, input, q + len)
  PROVE  ParseInv'
<1>1. input \in Inputs /\ Len(input) \in Nat
  BY InputIs DEF ParseInv, ParseTypes
<1>2. len \in 3..MaxMatch /\ q + len <= Len(input) /\ MaxMatch \in Nat
  BY SizesAre DEF Repeats
<1>3. q < Len(input)
  BY <1>1, <1>2
<1>4. b.begin \in Nat /\ b.begin <= q /\ b.max_end \in Nat
  BY <1>1, <1>3, OpenParts
<1> DEFINE c == deflate_choose_match(b, len, offset)
           next == q + len
<1>5. Filled(c, next) /\ c.begin = b.begin /\ c.max_end = b.max_end
  BY <1>1, MatchFilled
<1>6. GoOn(c, next, m)
  OBVIOUS
<1>7. next \in Nat /\ c.begin < next /\ next <= c.max_end - 1 + x + MaxMatch
  BY <1>2, <1>4, <1>5, SMTT(40)
<1>8. lens'.max < MaxMatch => Len(input) - next < MaxMatch
  BY <1>1, <1>2
<1>9. Len(input) - next >= 5 => Ready(m, input, next)
  OBVIOUS
<1> HIDE DEF c, next
<1>10. Counted(input, c, next) /\ Limited(input, c, next, SeqStore) /\ Follows(c, blocks)
  BY <1>5 DEF Filled
<1> QED BY <1>6, <1>7, <1>8, <1>9, <1>10, GoOnInv

-----------------------------------------------------------------------
(***************************************************************************)
(* The actions.                                                            *)
(***************************************************************************)

LEMMA SearchInv ==
  ASSUME ParseInv, Search
  PROVE  ParseInv'
<1> DEFINE b == Recalculated(block)
           l == Lens(lens, in_next)
           r == longest_match(mf, in_next, b.min_len - 1, l, level.depth)
           found == /\ r.len >= b.min_len
                    /\ r.len > 3 \/ r.offset <= (IF Lazy THEN NearLazy ELSE NearGreedy)
           lit == deflate_choose_literal(b, input[in_next + 1])
           skipped == hc_matchfinder_skip_bytes(r.mf, input, in_next + 1, r.len - 1)
<1>1. /\ in_next < Len(input) /\ cur = NoMatch /\ lens' = l /\ UNCHANGED <<input, level>>
      /\ \/ ~found /\ GoOn(lit, in_next + 1, r.mf)
         \/ found /\ GoOn(deflate_choose_match(b, r.len, r.offset), in_next + r.len, skipped)
         \/ /\ found
            /\ block' = b /\ mf' = r.mf /\ cur' = [len |-> r.len, offset |-> r.offset]
            /\ in_next' = in_next + 1 /\ UNCHANGED blocks
  BY DEF Search
<1>2. /\ input \in Inputs /\ Len(input) \in Nat /\ in_next \in Nat
      /\ Open(block, in_next) /\ lens \in LensTypes
      /\ lens.max < MaxMatch => Len(input) - in_next < MaxMatch
      /\ level.depth \in Nat
      /\ Len(input) - in_next >= 5 => Ready(mf, input, in_next)
      /\ in_next < block.max_end
  BY <1>1, Opened
<1>3. input \in Seq(0..255) /\ MaxMatch \in Nat
  BY <1>2, InputIs, SizesAre
<1>4. Open(b, in_next) /\ b.begin = block.begin /\ b.max_end = block.max_end
  BY <1>2, RecalculatedOpen
<1>5. /\ l \in LensTypes
      /\ l.max < MaxMatch => Len(input) - in_next < MaxMatch
      /\ l.max <= Len(input) - in_next
      /\ l.max >= 5 <=> Len(input) - in_next >= 5
  BY <1>1, <1>2, LensAre
<1>6. b.begin \in Nat /\ b.begin <= in_next /\ b.max_end \in Nat
  BY <1>1, <1>2, <1>4, OpenParts
<1>7. b.min_len - 1 \in Nat \ 0..1
  <2>1. b.min_len \in Nat /\ b.min_len >= 3
    BY <1>4 DEF Open, Limited
  <2> QED BY <2>1
<1> HIDE DEF b, l
<1>8. /\ r.len \in Nat /\ r.len >= b.min_len - 1
      /\ r.len > b.min_len - 1 => Repeats(input, in_next, r.len, r.offset) /\ r.offset \in Nat
      /\ Len(input) - (in_next + 1) >= 5 => Ready(r.mf, input, in_next + 1)
  <2> DEFINE best_len == b.min_len - 1
             depth == level.depth
  <2>1. /\ in_next <= Len(input) /\ in_next \in Nat /\ l \in LensTypes
        /\ best_len \in Nat \ 0..1 /\ depth \in Nat
        /\ r = longest_match(mf, in_next, best_len, l, depth)
    BY <1>1, <1>2, <1>5, <1>7
  <2> HIDE DEF best_len, depth, r
  <2>2. /\ r.len \in Nat /\ r.len >= best_len
        /\ r.len > best_len => Repeats(input, in_next, r.len, r.offset) /\ r.offset \in Nat
        /\ Len(input) - (in_next + 1) >= 5 => Ready(r.mf, input, in_next + 1)
    BY <1>2, <1>5, <2>1, SearchIs
  <2> QED BY <2>2 DEF best_len
<1>9. bsr32(Window) \in Nat
  BY BitsAre
<1> HIDE DEF r
<1>10. found => Repeats(input, in_next, r.len, r.offset) /\ r.offset \in Nat
  BY <1>4, <1>7, <1>8 DEF Open, Limited
<1>11. 0 \in Int /\ 3 * 0 <= 4 * (MaxMatch - 3) + bsr32(Window)
  BY <1>9, SizesAre
<1> HIDE DEF found
<1>12. CASE GoOn(lit, in_next + 1, r.mf)
  <2> DEFINE next == in_next + 1
  <2>1. Open(lit, next) /\ lit.begin = b.begin /\ lit.max_end = b.max_end
    BY <1>1, <1>2, <1>4, LiteralOpen
  <2>2. /\ next \in Nat /\ lit.begin < next /\ next <= lit.max_end - 1 + 0 + MaxMatch
        /\ lens' \in LensTypes
        /\ lens'.max < MaxMatch => Len(input) - next < MaxMatch
        /\ Len(input) - next >= 5 => Ready(r.mf, input, next)
    BY <1>1, <1>2, <1>4, <1>5, <1>6, <1>8, <2>1, SizesAre, SMTT(40)
  <2> HIDE DEF next, lit
  <2>3. Counted(input, lit, next) /\ Limited(input, lit, next, SeqStore) /\ Follows(lit, blocks)
    BY <1>2, <2>1, OpenFilled DEF Filled
  <2>4. GoOn(lit, next, r.mf)
    BY <1>12 DEF next
  <2> QED BY <1>1, <1>11, <2>2, <2>3, <2>4, GoOnInv
<1>13. CASE found /\ GoOn(deflate_choose_match(b, r.len, r.offset), in_next + r.len, skipped)
  <2>1. /\ r.len \in Nat /\ r.offset \in Nat /\ Repeats(input, in_next, r.len, r.offset)
        /\ r.len >= 3
    BY <1>8, <1>10, <1>13, SizesAre DEF Repeats
  <2>2. Len(input) - (in_next + r.len) >= 5 => Ready(skipped, input, in_next + r.len)
    <3> SUFFICES ASSUME Len(input) - (in_next + r.len) >= 5
                 PROVE  Ready(skipped, input, in_next + r.len)
      OBVIOUS
    <3> DEFINE p == in_next + 1
               count == r.len - 1
    <3>1. /\ p \in Nat /\ count \in Nat /\ p + count = in_next + r.len
          /\ Len(input) - (p + count) >= 5
          /\ Len(input) - p >= 5 => Ready(r.mf, input, p)
      BY <1>2, <1>8, <2>1
    <3>2. skipped = hc_matchfinder_skip_bytes(r.mf, input, p, count)
      OBVIOUS
    <3> HIDE DEF p, count, skipped
    <3>3. Ready(hc_matchfinder_skip_bytes(r.mf, input, p, count), input, p + count)
      BY <1>3, <3>1, SkipIs
    <3> QED BY <3>1, <3>2, <3>3
  <2> HIDE DEF skipped
  <2>3. /\ lens' \in LensTypes
        /\ lens'.max < MaxMatch => Len(input) - (in_next + 2) < MaxMatch
        /\ in_next <= b.max_end - 1 + 0
    BY <1>1, <1>2, <1>3, <1>4, <1>5, <1>6
  <2> QED BY <1>1, <1>2, <1>4, <1>11, <1>13, <2>1, <2>2, <2>3, TakeInv
<1>14. CASE /\ found
            /\ block' = b /\ mf' = r.mf /\ cur' = [len |-> r.len, offset |-> r.offset]
            /\ in_next' = in_next + 1 /\ UNCHANGED blocks
  <2>1. r.len \in Nat /\ r.offset \in Nat /\ Repeats(input, in_next, r.len, r.offset)
    BY <1>8, <1>10, <1>14
  <2>2. 3 * (in_next + 1 - b.max_end) <= 4 * (r.len - 3) + bsr32(Window) - bsr32(r.offset)
    <3>1. r.len >= 3 /\ r.offset <= Window
      BY <2>1, <1>2, SizesAre, MatchfinderAssumption DEF Repeats, Least
    <3>2. bsr32(r.offset) \in Nat /\ bsr32(r.offset) <= bsr32(Window)
      BY <2>1, <3>1, BitsAre
    <3> QED BY <1>2, <1>4, <1>6, <1>9, <2>1, <3>1, <3>2, SMTT(40)
  <2>3. /\ lens' \in LensTypes
        /\ lens'.max < MaxMatch => Len(input) - (in_next + 1) < MaxMatch
    BY <1>1, <1>2, <1>3, <1>5
  <2>4. /\ Counted(input, b, in_next) /\ Limited(input, b, in_next, SeqStore - 1)
        /\ Follows(b, blocks)
    BY <1>4 DEF Open
  <2> QED BY <1>1, <1>2, <1>8, <1>14, <2>1, <2>2, <2>3, <2>4, WaitInv
<1> QED BY <1>1, <1>12, <1>13, <1>14

\* The match that waits begins a byte back.
LEMMA CurIs ==
  ASSUME ParseInv, cur # NoMatch
  PROVE  /\ in_next < Len(input)
         /\ cur.len \in 3..MaxMatch /\ MaxMatch \in Nat /\ cur.offset \in Nat
         /\ Repeats(input, in_next - 1, cur.len, cur.offset)
         /\ in_next - 1 + cur.len <= Len(input)
         /\ 3 * (in_next - block.max_end)
              <= 4 * (cur.len - 3) + bsr32(Window) - bsr32(cur.offset)
         /\ bsr32(Window) \in Nat /\ bsr32(cur.offset) \in Nat
         /\ block.max_end \in Nat
<1>1. CurOK /\ in_next \in 0..Len(input) /\ in_next # Len(input) /\ input \in Inputs
  BY DEF ParseInv, ParseTypes
<1>2. /\ cur \in [len : Nat, offset : Nat]
      /\ Repeats(input, in_next - 1, cur.len, cur.offset)
      /\ 3 * (in_next - block.max_end)
           <= 4 * (cur.len - 3) + bsr32(Window) - bsr32(cur.offset)
  BY <1>1 DEF CurOK
<1>3. cur.len \in 3..MaxMatch /\ in_next - 1 + cur.len <= Len(input)
  BY <1>2 DEF Repeats
<1>4. cur.offset \in Nat
  BY <1>2
<1>5. bsr32(Window) \in Nat /\ bsr32(cur.offset) \in Nat
  BY <1>4, BitsAre
<1>6. Len(input) \in Nat /\ in_next < Len(input)
  BY <1>1, InputIs
<1>7. Open(block, in_next - 1) /\ in_next - 1 < Len(input)
  BY <1>1, <1>6, Opened
<1>8. block.max_end \in Nat
  BY <1>1, <1>7, OpenParts
<1> QED BY <1>2, <1>3, <1>4, <1>5, <1>6, <1>8, SizesAre

LEMMA TakeCurInv ==
  ASSUME ParseInv, cur # NoMatch, NEW m, TakeCur(m), UNCHANGED <<input, level>>,
         lens' \in LensTypes, lens'.max < MaxMatch => Len(input) - (in_next + 1) < MaxMatch,
         Len(input) - (in_next - 1 + cur.len) >= 5 => Ready(m, input, in_next - 1 + cur.len)
  PROVE  ParseInv'
<1> DEFINE q == in_next - 1
           len == cur.len
           offset == cur.offset
           x == in_next - block.max_end
<1>1. /\ in_next < Len(input)
      /\ len \in 3..MaxMatch /\ MaxMatch \in Nat /\ offset \in Nat
      /\ Repeats(input, q, len, offset)
      /\ 3 * x <= 4 * (len - 3) + bsr32(Window) - bsr32(offset)
      /\ bsr32(Window) \in Nat /\ bsr32(offset) \in Nat
      /\ block.max_end \in Nat
  BY CurIs
<1>2. /\ Open(block, q) /\ q \in Nat /\ in_next \in Nat /\ Len(input) \in Nat
  BY <1>1, Opened
<1>3. GoOn(deflate_choose_match(block, len, offset), q + len, m)
  BY DEF TakeCur
<1>4. /\ x \in Int /\ q <= block.max_end - 1 + x
      /\ q + 2 = in_next + 1 /\ len \in Nat
  <2>1. len \in Nat
    BY <1>1
  <2> DEFINE end == block.max_end
             p == in_next
  <2>2. end \in Nat /\ p \in Nat
    BY <1>1, <1>2
  <2> HIDE DEF end, p
  <2>3. p - end \in Int /\ p - 1 <= end - 1 + (p - end) /\ (p - 1) + 2 = p + 1
    BY <2>2
  <2> QED BY <2>1, <2>3 DEF end, p
<1>5. Len(input) - (q + len) >= 5 => Ready(m, input, q + len)
  OBVIOUS
<1> HIDE DEF q, len, offset, x
<1>6. 3 * x <= 4 * (MaxMatch - 3) + bsr32(Window)
  BY <1>1, <1>4
<1>7. lens'.max < MaxMatch => Len(input) - (q + 2) < MaxMatch
  BY <1>4
<1> QED BY <1>1, <1>2, <1>3, <1>4, <1>5, <1>6, <1>7, TakeInv

LEMMA TakeNiceInv ==
  ASSUME ParseInv, TakeNice
  PROVE  ParseInv'
<1> DEFINE skipped == hc_matchfinder_skip_bytes(mf, input, in_next, cur.len - 1)
<1>1. cur # NoMatch /\ TakeCur(skipped) /\ UNCHANGED <<input, level, lens>>
  BY DEF TakeNice
<1>2. in_next < Len(input) /\ cur.len \in 3..MaxMatch /\ MaxMatch \in Nat
  BY <1>1, CurIs
<1>3. /\ input \in Inputs /\ Len(input) \in Nat /\ in_next \in Nat /\ lens \in LensTypes
      /\ lens.max < MaxMatch => Len(input) - in_next < MaxMatch
      /\ Len(input) - in_next >= 5 => Ready(mf, input, in_next)
  BY <1>2, Opened
<1>4. /\ lens' \in LensTypes
      /\ lens'.max < MaxMatch => Len(input) - (in_next + 1) < MaxMatch
  BY <1>1, <1>2, <1>3
<1>5. Len(input) - (in_next - 1 + cur.len) >= 5 => Ready(skipped, input, in_next - 1 + cur.len)
  <2> SUFFICES ASSUME Len(input) - (in_next - 1 + cur.len) >= 5
               PROVE  Ready(skipped, input, in_next - 1 + cur.len)
    OBVIOUS
  <2> DEFINE count == cur.len - 1
  <2>1. /\ count \in Nat /\ in_next + count = in_next - 1 + cur.len
        /\ Len(input) - (in_next + count) >= 5
    BY <1>2, <1>3
  <2>2. skipped = hc_matchfinder_skip_bytes(mf, input, in_next, count)
    OBVIOUS
  <2> HIDE DEF count, skipped
  <2>3. Ready(hc_matchfinder_skip_bytes(mf, input, in_next, count), input, in_next + count)
    BY <1>3, <2>1, InputIs, SkipIs
  <2> QED BY <2>1, <2>2, <2>3
<1> HIDE DEF skipped
<1> QED BY <1>1, <1>4, <1>5, TakeCurInv

\* The bytes before a better match are literals, and have paid for themselves.
LEMMA PostponeInv ==
  ASSUME ParseInv, cur # NoMatch, NEW r, NEW literals \in {1, 2}, Postpone(r, literals),
         r.len \in Nat, r.offset \in Nat, Repeats(input, in_next - 1 + literals, r.len, r.offset),
         3 * literals <= 4 * (r.len - cur.len) + bsr32(cur.offset) - bsr32(r.offset),
         UNCHANGED <<input, level>>, lens' \in LensTypes,
         lens'.max < MaxMatch => Len(input) - (in_next + literals) < MaxMatch,
         Len(input) - (in_next + literals) >= 5 => Ready(r.mf, input, in_next + literals)
  PROVE  ParseInv'
<1> DEFINE b == deflate_choose_literal(block, input[in_next])
           c == IF literals = 1 THEN b ELSE deflate_choose_literal(b, input[in_next + 1])
           q == in_next - 1 + literals
<1>1. /\ block' = c /\ cur' = [len |-> r.len, offset |-> r.offset]
      /\ mf' = r.mf /\ in_next' = in_next + literals /\ UNCHANGED blocks
  BY DEF Postpone
<1>2. /\ in_next < Len(input) /\ cur.len \in 3..MaxMatch /\ MaxMatch \in Nat
      /\ 3 * (in_next - block.max_end)
           <= 4 * (cur.len - 3) + bsr32(Window) - bsr32(cur.offset)
      /\ bsr32(Window) \in Nat /\ bsr32(cur.offset) \in Nat
      /\ block.max_end \in Nat
  BY CurIs
<1>3. /\ input \in Inputs /\ Len(input) \in Nat /\ in_next \in Nat
      /\ Open(block, in_next - 1) /\ in_next - 1 \in Nat
  BY <1>2, Opened
<1>4. q \in Nat /\ q + 1 = in_next + literals /\ q < Len(input)
  <2>1. r.len \in 3..MaxMatch /\ q + r.len <= Len(input)
    BY DEF Repeats
  <2> QED
    <3> DEFINE len == r.len
               p == in_next
               n == Len(input)
    <3>1. /\ len \in Int /\ len >= 3 /\ p - 1 + literals + len <= n
          /\ p \in Nat /\ p - 1 \in Nat /\ n \in Nat
      BY <1>2, <1>3, <2>1
    <3> HIDE DEF len, p, n
    <3>2. /\ p - 1 + literals \in Nat /\ (p - 1 + literals) + 1 = p + literals
          /\ p - 1 + literals < n
      BY <3>1
    <3> QED BY <3>2 DEF p, n
<1>5. Open(b, in_next) /\ b.max_end = block.max_end
  <2> DEFINE e == in_next - 1
  <2>1. e < Len(input) /\ e + 1 = in_next
    BY <1>2, <1>3
  <2>2. Open(block, e)
    BY <1>3
  <2> HIDE DEF e
  <2>3. /\ Open(deflate_choose_literal(block, input[e + 1]), e + 1)
        /\ deflate_choose_literal(block, input[e + 1]).max_end = block.max_end
    BY <1>3, <2>1, <2>2, LiteralOpen
  <2> QED BY <2>1, <2>3
<1>6. Open(c, q) /\ c.max_end = block.max_end
  <2>1. CASE literals = 1
    BY <1>3, <1>5, <2>1
  <2>2. CASE literals = 2
    <3> HIDE DEF b
    <3>1. /\ Open(deflate_choose_literal(b, input[in_next + 1]), in_next + 1)
          /\ deflate_choose_literal(b, input[in_next + 1]).max_end = b.max_end
      BY <1>2, <1>3, <1>5, LiteralOpen
    <3>2. q = in_next + 1
      BY <1>3, <2>2
    <3> QED BY <1>5, <2>2, <3>1, <3>2
  <2> QED BY <2>1, <2>2
<1> HIDE DEF c
<1>7. 3 * (q + 1 - c.max_end) <= 4 * (r.len - 3) + bsr32(Window) - bsr32(r.offset)
  <2> DEFINE end == block.max_end
             len == r.len
             was == cur.len
             far == bsr32(Window)
             near == bsr32(r.offset)
             old == bsr32(cur.offset)
  <2>1. near \in Nat
    BY BitsAre
  <2>2. was \in Nat /\ len \in Nat /\ end \in Nat /\ far \in Nat /\ old \in Nat
    BY <1>2
  <2>3. /\ 3 * (in_next - end) <= 4 * (was - 3) + far - old
        /\ 3 * literals <= 4 * (len - was) + old - near
        /\ c.max_end = end
    BY <1>2, <1>6
  <2> HIDE DEF end, len, was, far, near, old
  <2>4. 3 * (q + 1 - end) <= 4 * (len - 3) + far - near
    BY <1>3, <1>4, <2>1, <2>2, <2>3
  <2> QED BY <2>3, <2>4 DEF len, far, near
<1>8. /\ in_next' = q + 1 /\ (lens'.max < MaxMatch => Len(input) - (q + 1) < MaxMatch)
      /\ (Len(input) - (q + 1) >= 5 => Ready(r.mf, input, q + 1))
      /\ Repeats(input, q, r.len, r.offset)
  BY <1>1, <1>4
<1> HIDE DEF q
<1>9. Counted(input, c, q) /\ Limited(input, c, q, SeqStore - 1) /\ Follows(c, blocks)
  BY <1>6 DEF Open
<1> QED BY <1>1, <1>4, <1>7, <1>8, <1>9, WaitInv

LEMMA BetterPays ==
  ASSUME ParseInv, cur # NoMatch, NEW r, r.len \in Nat, r.offset \in Nat,
         NEW that \in Nat, BetterBy(r, that)
  PROVE  /\ r.len >= cur.len
         /\ that + 1 <= 4 * (r.len - cur.len) + bsr32(cur.offset) - bsr32(r.offset)
<1> DEFINE len == r.len
           was == cur.len
           near == bsr32(r.offset)
           old == bsr32(cur.offset)
<1>1. len >= was /\ 4 * (len - was) + old - near > that
  BY DEF BetterBy
<1>2. was \in Nat /\ old \in Nat
  BY CurIs
<1>3. len \in Nat /\ near \in Nat
  BY BitsAre
<1> HIDE DEF len, was, near, old
<1>4. that + 1 <= 4 * (len - was) + old - near
  BY <1>1, <1>2, <1>3
<1> QED BY <1>1, <1>4 DEF len, was, near, old

\* The lengths a search may use are those for position p, or for one before it.
LensFor(k, p) == k \in LensTypes /\ (k.max < MaxMatch => Len(input) - p < MaxMatch)

ReadyFor(m, p) == Len(input) - p >= 5 => Ready(m, input, p)

\* A search for a match that is longer than the one that waits.
LEMMA FurtherSearch ==
  ASSUME ParseInv, cur # NoMatch, NEW p \in Nat, p < Len(input), NEW m,
         ReadyFor(m, p), NEW k, LensFor(k, p), NEW depth \in Nat,
         NEW l, l = Lens(k, p), NEW r, r = longest_match(m, p, cur.len - 1, l, depth)
  PROVE  /\ LensFor(l, p) /\ ReadyFor(r.mf, p + 1)
         /\ r.len \in Nat
         /\ r.len >= cur.len => Repeats(input, p, r.len, r.offset) /\ r.offset \in Nat
<1> DEFINE best_len == cur.len - 1
<1>1. input \in Inputs /\ Len(input) \in Nat /\ p <= Len(input)
  BY InputIs DEF ParseInv, ParseTypes
<1>2. /\ l \in LensTypes
      /\ l.max < MaxMatch => Len(input) - p < MaxMatch
      /\ l.max <= Len(input) - p
      /\ l.max >= 5 <=> Len(input) - p >= 5
  BY <1>1, LensAre DEF LensFor
<1>3. best_len \in Nat \ 0..1 /\ cur.len \in Nat /\ best_len = cur.len - 1
  <2>1. cur.len \in 3..MaxMatch /\ MaxMatch \in Nat
    BY CurIs
  <2> QED BY <2>1
<1>4. r = longest_match(m, p, best_len, l, depth)
  OBVIOUS
<1> HIDE DEF best_len
<1>5. /\ r.len \in Nat /\ r.len >= best_len
      /\ r.len > best_len => Repeats(input, p, r.len, r.offset) /\ r.offset \in Nat
      /\ Len(input) - (p + 1) >= 5 => Ready(r.mf, input, p + 1)
  BY <1>1, <1>2, <1>3, <1>4, SearchIs DEF ReadyFor
<1>6. r.len >= cur.len => r.len > best_len
  BY <1>3, <1>5
<1> QED BY <1>2, <1>5, <1>6 DEF LensFor, ReadyFor

LEMMA LookAheadInv ==
  ASSUME ParseInv, LookAhead
  PROVE  ParseInv'
<1> DEFINE l1 == Lens(lens, in_next)
           r1 == longest_match(mf, in_next, cur.len - 1, l1, level.depth \div 2)
           l2 == Lens(l1, in_next + 1)
           r2 == longest_match(r1.mf, in_next + 1, cur.len - 1, l2, level.depth \div 4)
           skipped1 == hc_matchfinder_skip_bytes(r1.mf, input, in_next + 1, cur.len - 2)
           skipped2 == IF cur.len = 3 THEN r2.mf
                       ELSE hc_matchfinder_skip_bytes(r2.mf, input, in_next + 2, cur.len - 3)
<1>1. /\ cur # NoMatch /\ UNCHANGED <<input, level>>
      /\ \/ BetterBy(r1, 2) /\ lens' = l1 /\ Postpone(r1, 1)
         \/ lens' = l1 /\ TakeCur(skipped1)
         \/ lens' = l2 /\ BetterBy(r2, 6) /\ Postpone(r2, 2)
         \/ lens' = l2 /\ TakeCur(skipped2)
  BY DEF LookAhead
<1>2. /\ in_next < Len(input) /\ cur.len \in 3..MaxMatch /\ MaxMatch \in Nat
      /\ in_next - 1 + cur.len <= Len(input)
  BY <1>1, CurIs
<1>3. /\ input \in Inputs /\ input \in Seq(0..255) /\ Len(input) \in Nat
      /\ in_next \in Nat /\ lens \in LensTypes
      /\ lens.max < MaxMatch => Len(input) - in_next < MaxMatch
      /\ level.depth \in Nat
      /\ Len(input) - in_next >= 5 => Ready(mf, input, in_next)
  BY <1>2, Opened, InputIs
<1>4. level.depth \div 2 \in Nat /\ level.depth \div 4 \in Nat
  BY <1>3
<1>5. in_next + 1 \in Nat /\ in_next + 1 < Len(input) /\ in_next <= in_next + 1
  BY <1>2, <1>3
<1> DEFINE half == level.depth \div 2
           quarter == level.depth \div 4
<1>6. /\ l1 = Lens(lens, in_next) /\ r1 = longest_match(mf, in_next, cur.len - 1, l1, half)
      /\ l2 = Lens(l1, in_next + 1)
      /\ r2 = longest_match(r1.mf, in_next + 1, cur.len - 1, l2, quarter)
      /\ half \in Nat /\ quarter \in Nat
  BY <1>4
<1> HIDE DEF l1, r1, l2, r2, half, quarter
<1>7. LensFor(lens, in_next) /\ ReadyFor(mf, in_next)
  BY <1>3 DEF LensFor, ReadyFor
<1>8. /\ LensFor(l1, in_next) /\ ReadyFor(r1.mf, in_next + 1)
      /\ r1.len \in Nat
      /\ r1.len >= cur.len => Repeats(input, in_next, r1.len, r1.offset) /\ r1.offset \in Nat
  BY <1>1, <1>2, <1>3, <1>6, <1>7, FurtherSearch
<1>9. LensFor(l1, in_next + 1)
  BY <1>2, <1>3, <1>8 DEF LensFor
<1>10. /\ LensFor(l2, in_next + 1) /\ ReadyFor(r2.mf, in_next + 1 + 1)
       /\ r2.len \in Nat
       /\ r2.len >= cur.len => Repeats(input, in_next + 1, r2.len, r2.offset) /\ r2.offset \in Nat
  BY <1>1, <1>5, <1>8, <1>6, <1>9, FurtherSearch
<1>11. /\ in_next - 1 + cur.len = in_next + 1 + (cur.len - 2) /\ cur.len - 2 \in Nat
       /\ in_next - 1 + cur.len = in_next + 2 + (cur.len - 3) /\ cur.len - 3 \in Nat
  <2> DEFINE len == cur.len
  <2>1. len \in Nat /\ len >= 3
    BY <1>2
  <2> HIDE DEF len
  <2>2. /\ in_next - 1 + len = in_next + 1 + (len - 2) /\ len - 2 \in Nat
        /\ in_next - 1 + len = in_next + 2 + (len - 3) /\ len - 3 \in Nat
    BY <1>3, <2>1
  <2> QED BY <2>2 DEF len
<1>12. CASE BetterBy(r1, 2) /\ lens' = l1 /\ Postpone(r1, 1)
  <2>1. /\ r1.len >= cur.len
        /\ 2 + 1 <= 4 * (r1.len - cur.len) + bsr32(cur.offset) - bsr32(r1.offset)
        /\ Repeats(input, in_next, r1.len, r1.offset) /\ r1.offset \in Nat
    <3>1. r1.len >= cur.len
      BY <1>12 DEF BetterBy
    <3>2. r1.offset \in Nat
      BY <1>8, <3>1
    <3> QED BY <1>1, <1>8, <1>12, <3>1, <3>2, BetterPays
  <2> DEFINE one == 1
  <2>2. /\ one \in {1, 2} /\ 3 * one = 2 + 1
        /\ in_next - 1 + one = in_next /\ in_next + one = in_next + 1
    BY <1>3
  <2>3. Postpone(r1, one)
    BY <1>12
  <2> HIDE DEF one
  <2>4. lens'.max < MaxMatch => Len(input) - (in_next + one) < MaxMatch
    BY <1>2, <1>3, <1>8, <1>12, <2>2 DEF LensFor
  <2>5. lens' \in LensTypes /\ (Len(input) - (in_next + one) >= 5 => Ready(r1.mf, input, in_next + one))
    BY <1>8, <1>12, <2>2 DEF LensFor, ReadyFor
  <2> QED BY <1>1, <1>8, <1>12, <2>1, <2>2, <2>3, <2>4, <2>5, PostponeInv
<1>13. CASE lens' = l1 /\ TakeCur(skipped1)
  <2>1. Len(input) - (in_next - 1 + cur.len) >= 5 => Ready(skipped1, input, in_next - 1 + cur.len)
    <3> SUFFICES ASSUME Len(input) - (in_next - 1 + cur.len) >= 5
                 PROVE  Ready(skipped1, input, in_next - 1 + cur.len)
      OBVIOUS
    <3> DEFINE count == cur.len - 2
               p == in_next + 1
    <3>1. /\ count \in Nat /\ in_next - 1 + cur.len = p + count /\ p \in Nat
          /\ Len(input) - (p + count) >= 5
      BY <1>5, <1>11
    <3>2. skipped1 = hc_matchfinder_skip_bytes(r1.mf, input, p, count)
      OBVIOUS
    <3>3. Len(input) - p >= 5 => Ready(r1.mf, input, p)
      BY <1>8 DEF ReadyFor
    <3> HIDE DEF count, p, skipped1
    <3>4. Ready(hc_matchfinder_skip_bytes(r1.mf, input, p, count), input, p + count)
      BY <1>3, <3>1, <3>3, SkipIs
    <3> QED BY <3>1, <3>2, <3>4
  <2> HIDE DEF skipped1
  <2>2. LensFor(lens', in_next + 1)
    BY <1>13, <1>9
  <2> QED BY <1>1, <1>13, <2>1, <2>2, TakeCurInv DEF LensFor
<1>14. CASE lens' = l2 /\ BetterBy(r2, 6) /\ Postpone(r2, 2)
  <2>1. /\ 6 + 1 <= 4 * (r2.len - cur.len) + bsr32(cur.offset) - bsr32(r2.offset)
        /\ Repeats(input, in_next + 1, r2.len, r2.offset) /\ r2.offset \in Nat
    <3>1. r2.len >= cur.len
      BY <1>14 DEF BetterBy
    <3>2. r2.offset \in Nat
      BY <1>10, <3>1
    <3> QED BY <1>1, <1>10, <1>14, <3>1, <3>2, BetterPays
  <2>2. 3 * 2 <= 4 * (r2.len - cur.len) + bsr32(cur.offset) - bsr32(r2.offset)
    <3> DEFINE x == 4 * (r2.len - cur.len) + bsr32(cur.offset) - bsr32(r2.offset)
    <3>1. x \in Int /\ 6 + 1 <= x
      <4>1. bsr32(r2.offset) \in Nat
        BY <2>1, BitsAre
      <4>2. bsr32(cur.offset) \in Nat /\ cur.len \in Nat
        BY <1>1, CurIs
      <4> QED BY <1>10, <2>1, <4>1, <4>2
    <3> HIDE DEF x
    <3>2. 3 * 2 <= x
      BY <3>1
    <3> QED BY <3>2 DEF x
  <2> DEFINE two == 2
  <2>3. two \in {1, 2} /\ in_next - 1 + two = in_next + 1 /\ in_next + two = in_next + 1 + 1
    BY <1>3
  <2>4. Postpone(r2, two) /\ 3 * two = 3 * 2
    BY <1>14
  <2> HIDE DEF two
  <2>5. lens'.max < MaxMatch => Len(input) - (in_next + two) < MaxMatch
    BY <1>2, <1>3, <1>10, <1>14, <2>3 DEF LensFor
  <2>6. lens' \in LensTypes /\ (Len(input) - (in_next + two) >= 5 => Ready(r2.mf, input, in_next + two))
    BY <1>10, <1>14, <2>3 DEF LensFor, ReadyFor
  <2> QED BY <1>1, <1>10, <1>14, <2>1, <2>2, <2>3, <2>4, <2>5, <2>6, PostponeInv
<1>15. CASE lens' = l2 /\ TakeCur(skipped2)
  <2>1. Len(input) - (in_next - 1 + cur.len) >= 5 => Ready(skipped2, input, in_next - 1 + cur.len)
    <3> SUFFICES ASSUME Len(input) - (in_next - 1 + cur.len) >= 5
                 PROVE  Ready(skipped2, input, in_next - 1 + cur.len)
      OBVIOUS
    <3> DEFINE count == cur.len - 3
               p == in_next + 2
    <3>1. /\ count \in Nat /\ in_next - 1 + cur.len = p + count /\ p \in Nat
          /\ Len(input) - (p + count) >= 5 /\ p = in_next + 1 + 1
      BY <1>3, <1>11
    <3>2. skipped2 = IF cur.len = 3 THEN r2.mf
                     ELSE hc_matchfinder_skip_bytes(r2.mf, input, p, count)
      OBVIOUS
    <3>3. Len(input) - p >= 5 => Ready(r2.mf, input, p)
      BY <1>10, <3>1 DEF ReadyFor
    <3>4. cur.len = 3 => p + count = p
      BY <1>3
    <3> HIDE DEF count, p, skipped2
    <3>5. Ready(hc_matchfinder_skip_bytes(r2.mf, input, p, count), input, p + count)
      BY <1>3, <3>1, <3>3, SkipIs
    <3>6. cur.len = 3 => Ready(r2.mf, input, p + count)
      BY <3>1, <3>3, <3>4
    <3> QED BY <3>1, <3>2, <3>5, <3>6
  <2> HIDE DEF skipped2
  <2>2. LensFor(lens', in_next + 1)
    BY <1>10, <1>15
  <2> QED BY <1>1, <1>15, <2>1, <2>2, TakeCurInv DEF LensFor
<1> QED BY <1>1, <1>12, <1>13, <1>14, <1>15

-----------------------------------------------------------------------
(***************************************************************************)
(* The theorems.                                                           *)
(***************************************************************************)

LEMMA ParseInit ==
  ASSUME Init
  PROVE  ParseInv
<1>1. /\ input \in Inputs /\ in_next = 0 /\ cur = NoMatch /\ blocks = <<>>
      /\ lens = [max |-> MaxMatch, nice |-> Least(level.nice, MaxMatch)]
      /\ block = NewBlock(input, 0)
  BY DEF Init
<1>2. input \in Seq(0..255) /\ Len(input) \in Nat
  BY <1>1, InputIs
<1>3. level \in [parser : {"greedy", "lazy", "lazy2"}, depth : Nat, nice : Nat, fast : BOOLEAN]
  <2>1. PICK l \in Levels, f \in BOOLEAN :
          level = [parser |-> l.parser, depth |-> l.depth, nice |-> l.nice, fast |-> f]
    BY DEF Init
  <2>2. l.parser \in {"greedy", "lazy", "lazy2"} /\ l.nice \in Nat \ 0..4 /\ l.depth \in Nat \ 0..3
    BY ParseAssumption
  <2> QED BY <2>1, <2>2
<1>4. ParseTypes
  <2>1. Least(level.nice, MaxMatch) \in Nat
    BY <1>3, SizesAre DEF Least
  <2>2. lens \in [max : 0..MaxMatch, nice : Nat] /\ ~(lens.max < MaxMatch)
    BY <1>1, <2>1, SizesAre
  <2>3. blocks \in Seq(Elements(blocks))
    BY <1>1 DEF Elements
  <2>4. in_next \in 0..Len(input)
    BY <1>1, <1>2
  <2> QED BY <1>1, <1>3, <2>2, <2>3, <2>4 DEF ParseTypes
<1>5. Ready(mf, input, in_next)
  <2>1. PICK rest \in Unwritten : mf = hc_matchfinder_init(rest)
    BY DEF Init
  <2> QED BY <1>1, <1>2, <2>1, InitReady
<1>6. BlockOK
  <2> SUFFICES ASSUME in_next < Len(input)
               PROVE  /\ Counted(input, block, Parsed)
                      /\ Limited(input, block, Parsed, SeqStore - 1)
                      /\ Follows(block, blocks)
                      /\ in_next < block.max_end
    BY DEF BlockOK
  <2>1. 0 \in 0..Len(input) /\ 0 < Len(input) /\ Parsed = 0
    BY <1>1, <1>2 DEF Parsed
  <2>2. block.begin = 0 /\ Counted(input, block, 0) /\ Limited(input, block, 0, SeqStore - 1)
    BY <1>1, <1>2, <2>1, SizesAre, NewBlockIs
  <2>3. in_next < block.max_end
    <3>1. block.max_end = choose_max_block_end(0, Len(input))
      BY <2>2 DEF Limited
    <3> QED BY <1>1, <1>2, <2>1, <3>1, MaxEndIs
  <2>4. Follows(block, blocks)
    <3>1. Len(blocks) * MinBlock <= 0 /\ DOMAIN blocks = {}
      BY <1>1, SizesAre
    <3> QED BY <1>1, <2>2, <3>1 DEF Follows
  <2> QED BY <2>1, <2>2, <2>3, <2>4
<1>7. Len(blocks) <= (in_next + MinBlock - 1) \div MinBlock
  <2>1. Len(blocks) = 0 /\ 0 * MinBlock <= in_next + MinBlock - 1
    BY <1>1, SizesAre
  <2> QED BY <1>1, <2>1, SizesAre, FewBlocks
<1>8. \A i \in DOMAIN blocks : Finished(input, blocks, i)
  BY <1>1
<1> QED BY <1>1, <1>4, <1>5, <1>6, <1>7, <1>8 DEF ParseInv, CurOK

LEMMA ParseStays ==
  ASSUME ParseInv, UNCHANGED vars
  PROVE  ParseInv'
BY DEF ParseInv, ParseTypes, CurOK, BlockOK, Parsed, vars

\* Whatever the input, the level and the sizes of the tables: the chains of the matchfinder
\* lead to earlier positions of the window, the sequences of the open block give back its
\* bytes and are counted, it has room for one match more, and a match that waits beyond the
\* end of the block is so much longer or nearer that this cannot go on.
THEOREM ParseInvariant == Spec => []ParseInv
<1>1. Init => ParseInv
  BY ParseInit
<1>2. ParseInv /\ [Next]_vars => ParseInv'
  <2> SUFFICES ASSUME ParseInv, [Next]_vars PROVE ParseInv'
    OBVIOUS
  <2>1. CASE Search
    BY <2>1, SearchInv
  <2>2. CASE TakeNice
    BY <2>2, TakeNiceInv
  <2>3. CASE LookAhead
    BY <2>3, LookAheadInv
  <2>4. CASE Done
    BY <2>4, ParseStays DEF Done
  <2>5. CASE UNCHANGED vars
    BY <2>5, ParseStays
  <2> QED BY <2>1, <2>2, <2>3, <2>4, <2>5 DEF Next
<1> QED BY <1>1, <1>2, PTL DEF Spec

\* deflate_compress_greedy, _lazy and _lazy2: a block that is flushed begins where the one
\* before ended, its literals and matches give back its bytes, from inside the window, and
\* every symbol is counted as often as it is written.
THEOREM ParseReplays == Spec => []Replays
<1>1. ParseInv => Replays
  <2> SUFFICES ASSUME ParseInv,
                      NEW n, n = Len(blocks), NEW b, b = Last(blocks), n > 0
               PROVE  /\ b.begin = IF n = 1 THEN 0 ELSE blocks[n-1].begin + blocks[n-1].length
                      /\ Covers(input, b, b.begin + b.length)
                      /\ b.final <=> b.begin + b.length = Len(input)
    BY DEF Replays
  <2>1. blocks \in Seq(Elements(blocks)) /\ \A i \in DOMAIN blocks : Finished(input, blocks, i)
    BY DEF ParseInv, ParseTypes
  <2>2. n \in DOMAIN blocks /\ b = blocks[n]
    BY <2>1 DEF Last
  <2>3. Finished(input, blocks, n)
    BY <2>1, <2>2
  <2> QED BY <2>2, <2>3 DEF Finished
<1> QED BY <1>1, ParseInvariant, PTL

\* should_end_block, choose_max_block_end and the lazy parsers' have_cur_match: blocks have
\* the minimum length, there are no more of them than deflate_compress_bound counts, and
\* none is longer than LongestBlock or has more matches than the store.
THEOREM ParseBlocksLong == Spec => []BlocksLong
<1>1. ParseInv => BlocksLong
  BY DEF ParseInv, BlocksLong, Finished
<1> QED BY <1>1, ParseInvariant, PTL

\* hc_matchfinder: with depth and nice length unlimited, a search at the next position finds a
\* match as long as any of four bytes or more in the window, position 0 apart: whatever was
\* searched, skipped or slid before, no position is missing from the chain of its code.
THEOREM ParseLongestFound == Spec => []LongestFound
<1>1. ParseInv => LongestFound
  <2> SUFFICES ASSUME ParseInv, Len(input) - in_next >= 5,
                      NEW max, max = Least(MaxMatch, Len(input) - in_next),
                      NEW q \in Most(1, in_next - Window + 1) .. in_next - 1,
                      lz_extend(input, in_next, q, max) >= 4,
                      NEW r, r = hc_matchfinder_longest_match(mf, input, in_next, 2, max, max,
                                                              Window, level.fast)
               PROVE  r.len >= lz_extend(input, in_next, q, max)
    BY DEF LongestFound
  <2>1. /\ input \in Seq(0..255) /\ Len(input) \in Nat /\ in_next \in Nat
        /\ level.fast \in BOOLEAN /\ Ready(mf, input, in_next)
    BY InputIs DEF ParseInv, ParseTypes
  <2>2. max \in Nat /\ max >= 5
    BY <2>1, SizesAre DEF Least
  <2>3. q \in 1..in_next-1 /\ q > in_next - Window
    BY <2>1, MatchfinderAssumption DEF Most
  <2> QED BY <2>1, <2>2, <2>3, LongestIs
<1> QED BY <1>1, ParseInvariant, PTL

=======================================================================
