-------------------------- MODULE DecodeTable --------------------------
(***************************************************************************)
(* build_decode_table of tools/deflate/lib/deflate_decompress.c: a table   *)
(* indexed by the next bits of the input, with subtables for codewords     *)
(* that are longer than its index.                                         *)
(***************************************************************************)
EXTENDS HuffmanCode

SymEntry(y, len)    == [kind |-> "sym", value |-> y, bits |-> len]
Pointer(at, bits)   == [kind |-> "sub", value |-> at, bits |-> bits]
Unset               == [kind |-> "none", value |-> 0, bits |-> 0]
NoTable             == <<>>

Bit(n, k) == (n \div 2^k) % 2

\* The lexicographically next codeword: the last 0 bit is set, what follows is
\* cleared.  bsr32 finds the bit.
NextCodeword(c, len) ==
  LET k == Highest({j \in 0..len - 1 : Bit(c, j) = 0})
  IN  (c % 2^k) + 2^k

AllOnes(c, len) == c = 2^len - 1

LenCounts(lens, max) ==
  [l \in 0..max |-> Cardinality({y \in DOMAIN lens : lens[y] = l})]

\* The used symbols by codeword length, then by value.
SortedSyms(lens, max) ==
  LET n == Cardinality(DOMAIN lens)
      OfLen(l) == SelectSeq([i \in 1..n |-> i - 1], LAMBDA y : lens[y] = l)
  IN  FlattenSeq([l \in 1..max |-> OfLen(l)])

\* The share of the codespace in use, out of 2^max.
Codespace(counts, max) == Total([l \in 1..max |-> counts[l] * 2^(max - l)])

\* The next length that has codewords.
NextLen(counts, len) == CHOOSE l \in DOMAIN counts :
  l > len /\ counts[l] > 0 /\ \A m \in len + 1..l - 1 : counts[m] = 0

\* Codewords of at most tablebits: the table is filled as if it had 2^len entries
\* and doubled for each longer length.
RECURSIVE Direct(_, _, _, _, _, _, _)
Direct(t, counts, syms, tablebits, k, c, len) ==
  IF len > tablebits \/ k > Len(syms)
  THEN [t |-> t, k |-> k, c |-> c, len |-> len]
  ELSE LET grown == [i \in 0..2^len - 1 |-> IF i \in DOMAIN t THEN t[i]
                       ELSE IF DOMAIN t = {} THEN Unset ELSE t[i % Cardinality(DOMAIN t)]]
           fill[j \in 0..counts[len]] ==
             IF j = 0 THEN [t |-> grown, c |-> c]
             ELSE LET p == fill[j - 1]
                  IN  [t |-> [p.t EXCEPT ![p.c] = SymEntry(syms[k + j - 1], len)],
                       c |-> IF AllOnes(p.c, len) THEN p.c ELSE NextCodeword(p.c, len)]
           done == fill[counts[len]]
       IN  IF k + counts[len] > Len(syms)
           THEN [t |-> [i \in 0..2^tablebits - 1 |-> done.t[i % 2^len]],
                 k |-> k + counts[len], c |-> done.c, len |-> len]
           ELSE Direct(done.t, counts, syms, tablebits, k + counts[len], done.c,
                       NextLen(counts, len))

\* Slip: a subtable has the size its first codeword needs.
SubtableBitsFirst(counts, count, tablebits, len) == len - tablebits

\* The size of a subtable: while the codewords left do not fill it, it is one bit
\* longer and takes in the codewords of the next length.
SubtableBits(counts, count, tablebits, len) ==
  LET used[b \in len - tablebits..Highest(DOMAIN counts) - tablebits] ==
        IF b = len - tablebits THEN count
        ELSE 2 * used[b - 1] + counts[tablebits + b]
  IN  CHOOSE b \in DOMAIN used :
        used[b] >= 2^b /\ \A a \in DOMAIN used : a < b => used[a] < 2^a

\* Codewords that are longer.  prefix is the main table's entry in hand, start
\* where its subtable begins, end where the table ends.
RECURSIVE Subtables(_, _, _, _, _, _, _, _, _, _)
Subtables(t, counts, syms, tablebits, k, c, len, count, prefix, start) ==
  LET new  == c % 2^tablebits # prefix
      at   == IF new THEN Cardinality(DOMAIN t) ELSE start
      bits == SubtableBits(counts, count, tablebits, len)
      room == IF new
              THEN [i \in 0..at + 2^bits - 1 |->
                      IF i = c % 2^tablebits THEN Pointer(at, bits)
                      ELSE IF i < at THEN t[i] ELSE Unset]
              ELSE t
      full == [i \in DOMAIN room |->
                 IF i >= at + c \div 2^tablebits
                    /\ (i - at) % 2^(len - tablebits) = c \div 2^tablebits
                 THEN SymEntry(syms[k], len - tablebits) ELSE room[i]]
      next == IF count > 1 THEN len ELSE NextLen(counts, len)
  IN  IF AllOnes(c, len) THEN full
      ELSE Subtables(full, counts, syms, tablebits, k + 1, NextCodeword(c, len), next,
                     IF count > 1 THEN count - 1 ELSE counts[next], c % 2^tablebits, at)

\* build_decode_table.  An overfull code has no table; an incomplete one has only
\* if it is empty or has a single codeword, of one bit.  NoTable is failure.
build_decode_table(lens, maxbits, max, dynamic) ==
  LET all    == LenCounts(lens, max)
      used   == {l \in 1..max : all[l] # 0}
      longest == IF used = {} THEN 1 ELSE Highest(used)
      tablebits == IF dynamic THEN Lesser(maxbits, longest) ELSE maxbits
      counts == [l \in 0..longest |-> all[l]]
      syms   == SortedSyms(lens, longest)
      space  == Codespace(counts, longest)
      Same(y) == [i \in 0..2^tablebits - 1 |-> SymEntry(y, 1)]
      direct == Direct(NoTable, counts, syms, tablebits, 1, 0, NextLen(counts, 0))
  IN  IF space > 2^longest THEN NoTable
      ELSE IF space = 0 THEN Same(0)
      ELSE IF space < 2^longest
           THEN IF space = 2^(longest - 1) /\ counts[1] = 1 THEN Same(syms[1]) ELSE NoTable
      ELSE IF direct.k > Len(syms) THEN direct.t
      ELSE Subtables([i \in 0..2^tablebits - 1 |->
                        IF DOMAIN direct.t = {} THEN Unset
                        ELSE direct.t[i % Cardinality(DOMAIN direct.t)]],
                     counts, syms, tablebits, direct.k, direct.c, direct.len,
                     counts[direct.len], -1, 0)

\* The decoder's lookup: the symbol the input begins with and its codeword's length.
Lookup(t, tablebits, input) ==
  LET e == t[input % 2^tablebits]
      f == t[e.value + ((input \div 2^tablebits) % 2^e.bits)]
  IN  IF e.kind = "sub" THEN <<f.value, tablebits + f.bits>> ELSE <<e.value, e.bits>>
=======================================================================
