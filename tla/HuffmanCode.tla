-------------------------- MODULE HuffmanCode --------------------------
(***************************************************************************)
(* How the compressor of tools/deflate makes a length-limited Huffman code *)
(* from frequencies (deflate_make_huffman_code), as operators.             *)
(*                                                                         *)
(* Arrays are functions from 0.  An entry of the array A, a frequency (or  *)
(* parent, or depth) above a symbol in one word, is a pair of the two.     *)
(* Codewords are numbers, their first bit the lowest.                      *)
(***************************************************************************)
EXTENDS Integers, Sequences, FiniteSets, SequencesExt, TLC

Lesser(a, b)  == IF a < b THEN a ELSE b
Greater(a, b) == IF a > b THEN a ELSE b
Array(s)      == [k \in 0..Len(s) - 1 |-> s[k + 1]]
Total(f)      == FoldFunction(+, 0, f)
Highest(I)    == CHOOSE i \in I : \A j \in I : j <= i

-----------------------------------------------------------------------
\* Sorting: by frequency, then by symbol.
Before(x, y) == x[1] < y[1] \/ (x[1] = y[1] /\ x[2] < y[2])

\* heapify_subtree with the hole at p and v to be placed.
RECURSIVE Sift(_, _, _, _)
Sift(A, length, p, v) ==
  LET c == IF 2 * p < length /\ Before(A[2 * p], A[2 * p + 1]) THEN 2 * p + 1 ELSE 2 * p
  IN  IF 2 * p > length \/ ~Before(v, A[c]) THEN [A EXCEPT ![p] = v]
      ELSE Sift([A EXCEPT ![p] = A[c]], length, c, v)

heapify_array(A) ==
  FoldLeft(LAMBDA h, p : Sift(h, Len(h), p, h[p]), A,
           [k \in 1..Len(A) \div 2 |-> Len(A) \div 2 + 1 - k])

heap_sort(A) ==
  FoldLeft(LAMBDA h, last :
             LET moved == [h EXCEPT ![last] = h[1], ![1] = h[last]]
             IN  Sift(moved, last - 1, 1, moved[1]),
           heapify_array(A), [k \in 1..Len(A) - 1 |-> Len(A) + 1 - k])

\* sort_symbols: the used symbols counted by frequency; those of the last
\* counter, which stands for every frequency from there on, are heap-sorted.
sort_symbols(freqs) ==
  LET n == Cardinality(DOMAIN freqs)
      Used(Rare(_)) == SelectSeq([i \in 1..n |-> <<freqs[i - 1], i - 1>>],
                                 LAMBDA x : x[1] # 0 /\ Rare(x[1]))
  IN  SortSeq(Used(LAMBDA f : f < n - 1), Before) \o heap_sort(Used(LAMBDA f : f >= n - 1))

-----------------------------------------------------------------------
\* Slip: an inner node that is as frequent as the next leaf is lost sight of.
RECURSIVE TreeLeavesFirst(_, _, _, _, _)
TreeLeavesFirst(A, last, i, b, e) ==
  LET freq == IF i + 1 <= last THEN A[i][1] + A[i + 1][1]
              ELSE IF i <= last THEN A[i][1] + A[b][1] ELSE A[b][1] + A[b + 1][1]
      leaves == IF i + 1 <= last THEN 2 ELSE IF i <= last THEN 1 ELSE 0
      linked == [A EXCEPT ![e][1] = freq]
  IN  IF e = last THEN A
      ELSE TreeLeavesFirst([k \in DOMAIN A |-> IF k \in b .. b + 1 - leaves
                                               THEN <<e, A[k][2]>> ELSE linked[k]],
                           last, i + leaves, b + 2 - leaves, e + 1)

\* build_tree: leaves wait from i on, inner nodes from b to e - 1; the two least
\* frequent of them get the parent e, which takes the place of a leaf in A.
RECURSIVE Tree(_, _, _, _, _)
Tree(A, last, i, b, e) ==
  LET F(k) == A[k][1]
      twoLeaves == i + 1 <= last /\ (b = e \/ F(i + 1) <= F(b))
      twoInner  == ~twoLeaves /\ b + 2 <= e /\ (i > last \/ F(b + 1) < F(i))
      leaves == IF twoLeaves THEN 2 ELSE IF twoInner THEN 0 ELSE 1
      freq == IF twoLeaves THEN F(i) + F(i + 1)
              ELSE IF twoInner THEN F(b) + F(b + 1) ELSE F(i) + F(b)
  IN  IF e = last THEN A
      ELSE Tree([k \in DOMAIN A |->
                   IF k \in b .. b + 1 - leaves THEN <<e, A[k][2]>>
                   ELSE IF k = e THEN <<freq, A[k][2]>> ELSE A[k]],
                last, i + leaves, b + 2 - leaves, e + 1)

build_tree(A) == Tree(A, Cardinality(DOMAIN A) - 1, 0, 0, 0)

\* A node at or below the limit is put where there is a shorter codeword to split.
ParentDepth(counts, depth, max) ==
  IF depth < max THEN depth
  ELSE Highest({d \in 0..max - 1 : counts[d] # 0})

\* compute_length_counts: from the root down, each inner node takes a codeword
\* of its depth away and adds two that are one longer.
compute_length_counts(A, root, max) ==
  FoldLeft(
    LAMBDA st, k :
      LET depth == st.A[st.A[k][1]][1] + 1
          d == ParentDepth(st.counts, depth, max)
      IN  [A |-> [st.A EXCEPT ![k][1] = depth],
           counts |-> [l \in 0..max + 1 |->
                         st.counts[l] - (IF l = d THEN 1 ELSE 0)
                                      + (IF l = d + 1 THEN 2 ELSE 0)]],
    [A |-> [A EXCEPT ![root][1] = 0],
     counts |-> [l \in 0..max + 1 |-> IF l = 1 THEN 2 ELSE 0]],
    [k \in 1..root |-> root - k]).counts

\* reverse_codeword
RECURSIVE reverse_codeword(_, _)
reverse_codeword(c, len) ==
  IF len = 0 THEN 0 ELSE (c % 2) * 2^(len - 1) + reverse_codeword(c \div 2, len - 1)

\* Slip: the longest go to the last in A.
AssignLensUpwards(A, counts, max, lens) ==
  LET first(l) == Total([m \in 1..l - 1 |-> counts[m]])
      lenAt(i) == CHOOSE l \in 1..max : first(l) <= i /\ i < first(l) + counts[l]
  IN  [y \in DOMAIN lens |->
         IF \E i \in DOMAIN A : A[i][2] = y
         THEN lenAt(CHOOSE i \in DOMAIN A : A[i][2] = y) ELSE 0]

\* gen_codewords, the lengths: the longest go to the first in A.
AssignLens(A, counts, max, lens) ==
  LET first(l) == Total([m \in l + 1..max |-> counts[m]])
      lenAt(i) == CHOOSE l \in 1..max : first(l) <= i /\ i < first(l) + counts[l]
  IN  [y \in DOMAIN lens |->
         IF \E i \in DOMAIN A : A[i][2] = y
         THEN lenAt(CHOOSE i \in DOMAIN A : A[i][2] = y) ELSE 0]

\* gen_codewords, the codewords: in each length counting up in symbol order.
CanonicalWords(lens, max) ==
  LET count(l) == Cardinality({y \in DOMAIN lens : lens[y] = l})
      next[l \in 1..max] == IF l = 1 THEN 0 ELSE 2 * (next[l - 1] + count(l - 1))
  IN  [y \in {x \in DOMAIN lens : lens[x] # 0} |->
         reverse_codeword(next[lens[y]] +
                          Cardinality({x \in DOMAIN lens : x < y /\ lens[x] = lens[y]}),
                          lens[y])]

\* deflate_make_huffman_code for fewer than two used symbols: none, or two words
\* of one bit, for the used symbol and another one.
SmallCode(freqs) ==
  LET used == {y \in DOMAIN freqs : freqs[y] # 0}
  IN  [y \in DOMAIN freqs |->
         IF used # {} /\ y \in {0, IF 0 \in used THEN 1 ELSE CHOOSE x \in used : TRUE}
         THEN 1 ELSE 0]

\* deflate_make_huffman_code: the length of each symbol's codeword.
deflate_make_huffman_code(freqs, max) ==
  LET syms == sort_symbols(freqs)
      A == Array(syms)
  IN  IF Len(syms) < 2 THEN SmallCode(freqs)
      ELSE AssignLens(A, compute_length_counts(build_tree(A), Len(syms) - 2, max),
                      max, freqs)
=======================================================================
