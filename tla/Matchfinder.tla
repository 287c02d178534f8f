-------------------------- MODULE Matchfinder --------------------------
(***************************************************************************)
(* The hash chains in which the compressor of tools/deflate looks for      *)
(* earlier occurrences of the bytes that come next.  Positions are counted *)
(* from 0; the tables hold them relative to a base, which is moved up by a *)
(* window at a time.                                                       *)
(***************************************************************************)
EXTENDS Integers, Sequences, FiniteSetsExt

CONSTANTS
  Window,   \* MATCHFINDER_WINDOW_SIZE, a power of 2
  Order,    \* the hash tables have 2^Order buckets
  Unwritten, \* what next_tab, which nobody clears, may hold at first
  Behind    \* the byte that lies behind the input

ASSUME MatchfinderAssumption ==
  /\ Window \in Nat \ {0} /\ Order \in 1..8
  /\ Unwritten \subseteq Int /\ Behind \in 0..255

Least(a, b) == IF a < b THEN a ELSE b

Buckets == 0 .. 2^Order - 1

\* What memory has at position p: behind the input s, whatever it may be.
Byte(s, p) == IF p < Len(s) THEN s[p + 1] ELSE Behind
Word(s, p, n) == [i \in 1..n |-> Byte(s, p + i - 1)]

\* The high bits of a product that is cut to the width of four bytes; a byte of the
\* model is its two low bits.
lz_hash(value) == ((value * 157) % 256) \div 2^(8 - Order)

\* The codes of the three and of the four bytes at p.
Hashes(s, p) ==
  LET byte(i) == Byte(s, p + i) % 4
      three == byte(0) + 4 * byte(1) + 16 * byte(2)
  IN <<lz_hash(three), lz_hash(three + 64 * byte(3))>>

\* Are the n bytes at p and q the same, and how many are, up to max?
Same(s, p, q, n) == \A i \in 0..n-1 : Byte(s, p + i) = Byte(s, q + i)

lz_extend(s, p, q, max) ==
  LET differ == {i \in 0..max-1 : Byte(s, p + i) # Byte(s, q + i)}
  IN IF differ = {} THEN max ELSE Min(differ)

hc_matchfinder_init(rest) ==
  [hash3  |-> [h \in Buckets |-> -Window],
   hash4  |-> [h \in Buckets |-> -Window],
   next   |-> [p \in 0..Window-1 |-> rest],
   base   |-> 0,
   hashes |-> <<0, 0>>]

\* Slip: the 16 bits of an entry overflow.
RebaseWraps(tab) ==
  [i \in DOMAIN tab |-> IF tab[i] >= 0 THEN tab[i] - Window ELSE tab[i] + Window]

matchfinder_rebase(tab) ==
  [i \in DOMAIN tab |-> IF tab[i] >= 0 THEN tab[i] - Window ELSE -Window]

hc_matchfinder_slide_window(m) ==
  [hash3 |-> matchfinder_rebase(m.hash3), hash4 |-> matchfinder_rebase(m.hash4),
   next |-> matchfinder_rebase(m.next), base |-> m.base + Window, hashes |-> m.hashes]

Slid(m, p) == IF p - m.base = Window THEN hc_matchfinder_slide_window(m) ELSE m

\* Position p is the first of its chains from now on.
Insert(m, s, p) ==
  [hash3  |-> [m.hash3 EXCEPT ![m.hashes[1]] = p - m.base],
   hash4  |-> [m.hash4 EXCEPT ![m.hashes[2]] = p - m.base],
   next   |-> [m.next EXCEPT ![p - m.base] = m.hash4[m.hashes[2]]],
   base   |-> m.base,
   hashes |-> Hashes(s, p + 1)]

\* Cheap tests that a longer match passes; fast: the build reads words anywhere.
Promising(s, p, q, len, fast) ==
  IF len < 4 THEN Same(s, p, q, 4)
  ELSE IF fast THEN /\ Same(s, p + len - 3, q + len - 3, 4)
                    /\ Same(s, p, q, 4)
  ELSE Byte(s, p + len) = Byte(s, q + len)

\* The best of a match and the one at q: the first of the longest, unless the
\* search is content already.
Better(best, s, p, q, max_len, nice_len, fast) ==
  IF \/ best.len >= nice_len /\ best.len >= 4
     \/ ~Promising(s, p, q, best.len, fast) THEN best
  ELSE LET len == lz_extend(s, p, q, max_len)
       IN IF len > best.len THEN [len |-> len, at |-> q] ELSE best

\* The best of a match and those on the chain from node on, as far as the window and the
\* depth let a search go.
Searched(m, s, p, node, best, max_len, nice_len, depth, fast) ==
  LET found[i \in 0..depth] ==
        IF i = 0 THEN [node |-> node, best |-> best]
        ELSE LET f == found[i - 1] IN
             IF f.node <= p - m.base - Window THEN f
             ELSE [node |-> m.next[f.node % Window],
                   best |-> Better(f.best, s, p, m.base + f.node, max_len, nice_len, fast)]
  IN found[depth].best

\* The longest match for the bytes at p that is longer than best_len.
hc_matchfinder_longest_match(m0, s, p, best_len, max_len, nice_len, depth, fast) ==
  LET m     == Slid(m0, p)
      node3 == m.hash3[m.hashes[1]]
      node4 == m.hash4[m.hashes[2]]
      into  == Insert(m, s, p)
      none  == [len |-> best_len, at |-> p]
      three == IF best_len < 3 /\ Same(s, p, m.base + node3, 3)
               THEN [len |-> 3, at |-> m.base + node3] ELSE none
      best  == IF best_len < 4 /\ node3 <= p - m.base - Window THEN none
               ELSE Searched(into, s, p, node4, three, max_len, nice_len, depth, fast)
  IN IF max_len < 5 THEN [mf |-> m, len |-> best_len, offset |-> 0]
     ELSE [mf |-> into, len |-> best.len, offset |-> p - best.at]

\* The positions from p on are inserted.
Inserted(m, s, p, count) ==
  LET into[i \in 0..count] ==
        IF i = 0 THEN m ELSE Insert(Slid(into[i - 1], p + i - 1), s, p + i - 1)
  IN into[count]

\* Slip: the codes that were computed in advance stay those of p.
SkipKeepsHashes(m, s, p, count) ==
  IF count + 5 > Len(s) - p THEN m ELSE [Inserted(m, s, p, count) EXCEPT !.hashes = m.hashes]

\* As far as four bytes follow the last.
hc_matchfinder_skip_bytes(m, s, p, count) ==
  IF count + 5 > Len(s) - p THEN m ELSE Inserted(m, s, p, count)
=======================================================================
