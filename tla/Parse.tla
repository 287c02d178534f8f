----------------------------- MODULE Parse -----------------------------
(***************************************************************************)
(* How the compressor of tools/deflate cuts an input into blocks, and      *)
(* every block into literals and matches: the greedy, lazy and lazy2       *)
(* parsers.  A step is one search of the parser's loop with the choice     *)
(* that follows it.                                                        *)
(***************************************************************************)
EXTENDS Matchfinder, SequencesExt

CONSTANTS
  Inputs,      \* sequences of bytes
  Levels,      \* [parser, depth, nice] of the compression levels
  MinBlock,    \* MIN_BLOCK_LENGTH
  SoftMax,     \* SOFT_MAX_BLOCK_LENGTH
  SeqStore,    \* SEQ_STORE_LENGTH
  MaxMatch,    \* DEFLATE_MAX_MATCH_LEN
  CheckAfter,  \* NUM_OBSERVATIONS_PER_BLOCK_CHECK
  RecalcAfter, \* the bytes after which min_len is looked at again
  MinLens,     \* min_lens, for 0, 1, ... different literals
  NearGreedy, NearLazy \* how far back a match of three bytes is worth it

VARIABLES
  input,   \* the bytes to compress
  level,   \* parser, depth and nice length, and how the build compares
  mf,      \* the matchfinder
  in_next, \* the position that is next
  lens,    \* max_len and nice_len, which only ever get smaller
  cur,     \* the match the lazy parsers would like to better, or NoMatch
  block,   \* the block that is being parsed
  blocks   \* those that have been flushed

vars == <<input, level, mf, in_next, lens, cur, block, blocks>>

ASSUME ParseAssumption ==
  /\ {MinBlock, SoftMax, SeqStore, CheckAfter, RecalcAfter} \subseteq Nat \ {0}
  /\ SoftMax >= MinBlock /\ SeqStore * 3 >= MinBlock
  /\ MaxMatch \in Nat /\ MaxMatch >= 5
  /\ Inputs \subseteq Seq(0..255) /\ MinLens \in Seq(Nat \ 0..2)
  /\ \A l \in Levels : /\ l.parser \in {"greedy", "lazy", "lazy2"}
                       /\ l.nice \in Nat \ 0..4 /\ l.depth \in Nat \ 0..3

NoMatch == [len |-> 0, offset |-> 0]
Most(a, b) == IF a < b THEN b ELSE a
bsr32(n) == Cardinality({k \in 1..15 : 2^k <= n})

-----------------------------------------------------------------------
\* The counters of symbols; one that is zero is left out.
NoFreqs == [x \in {} |-> 0]
Frequency(freqs, x) == IF x \in DOMAIN freqs THEN freqs[x] ELSE 0
Incremented(freqs, x) ==
  [y \in DOMAIN freqs \cup {x} |-> Frequency(freqs, y) + IF y = x THEN 1 ELSE 0]

-----------------------------------------------------------------------
\* Block splitting: has the mix of literals and matches changed?
NoObservations == [i \in 0..9 |-> 0]
init_block_split_stats == [new |-> NoObservations, old |-> NoObservations]

Total(obs) == FoldFunction(+, 0, obs)

observe(stats, i) == [stats EXCEPT !.new[i] = @ + 1]
observe_literal(stats, lit) == observe(stats, 2 * (lit \div 64) + (lit % 2))
observe_match(stats, len) == observe(stats, 8 + IF len >= 9 THEN 1 ELSE 0)

merge_new_observations(stats) ==
  [new |-> NoObservations, old |-> [i \in 0..9 |-> stats.old[i] + stats.new[i]]]

\* The statistics tell of a change that is worth new codes.
do_end_block_check(stats, length) ==
  LET new == Total(stats.new)
      old == Total(stats.old)
      delta(i) == LET d == stats.new[i] * old - stats.old[i] * new IN IF d < 0 THEN -d ELSE d
      total_delta == FoldFunction(+, 0, [i \in 0..9 |-> delta(i)])
      base   == ((new * 200) \div 512) * old
      cutoff == IF length < 10000 /\ new + old < 8192
                THEN base + (base * (8192 - new - old)) \div 8192 ELSE base
  IN old > 0 /\ total_delta + (length \div 4096) * old >= cutoff

\* Slip: the block may be as short as it likes.
ReadyAtOnce(stats, begin, next, end) ==
  Total(stats.new) >= CheckAfter /\ end - next >= MinBlock

ready_to_check_block(stats, begin, next, end) ==
  /\ Total(stats.new) >= CheckAfter
  /\ next - begin >= MinBlock
  /\ end - next >= MinBlock

-----------------------------------------------------------------------
\* The minimum length of a match; a shallow search may not find long ones.
choose_min_match_len(used, depth) ==
  IF used + 1 \notin DOMAIN MinLens THEN 3
  ELSE IF depth >= 16 THEN MinLens[used + 1]
  ELSE Least(MinLens[used + 1], IF depth < 5 THEN 4 ELSE IF depth < 10 THEN 5 ELSE 7)

calculate_min_match_len(data) ==
  choose_min_match_len(Cardinality({data[i] : i \in 1..Least(Len(data), 4096)}), level.depth)

Literals(freqs) == {x \in DOMAIN freqs : x[1] = "lit"}

recalculate_min_match_len(freqs) ==
  LET cutoff == FoldFunctionOnSet(+, 0, freqs, Literals(freqs)) \div 1024
  IN choose_min_match_len(Cardinality({x \in Literals(freqs) : freqs[x] > cutoff}), level.depth)

choose_max_block_end(begin, end) ==
  IF end - begin < SoftMax + MinBlock THEN end ELSE begin + SoftMax

\* A block that begins at p.  The last sequence is the one that is still open.
NewBlock(s, p) ==
  LET max_end == choose_max_block_end(p, Len(s)) IN
  [begin   |-> p,
   max_end |-> max_end,
   recalc  |-> p + Least(Len(s) - p, RecalcAfter),
   min_len |-> calculate_min_match_len(Word(s, p, max_end - p)),
   stats   |-> init_block_split_stats,
   freqs   |-> NoFreqs,
   seqs    |-> <<[litrunlen |-> 0, length |-> 0, offset |-> 0]>>]

deflate_choose_literal(b, lit) ==
  LET open == Last(b.seqs) IN
  [b EXCEPT !.freqs = Incremented(@, <<"lit", lit>>),
            !.stats = observe_literal(@, lit),
            !.seqs = ReplaceAt(@, Len(@), [open EXCEPT !.litrunlen = open.litrunlen + 1])]

deflate_choose_match(b, len, offset) ==
  LET open == Last(b.seqs) IN
  [b EXCEPT !.freqs = Incremented(Incremented(@, <<"length", len>>), <<"offset", offset>>),
            !.stats = observe_match(@, len),
            !.seqs = Append(ReplaceAt(@, Len(@), [open EXCEPT !.length = len, !.offset = offset]),
                            [litrunlen |-> 0, length |-> 0, offset |-> 0])]

adjust_max_and_nice_len(l, remaining) ==
  IF remaining < MaxMatch THEN [max |-> remaining, nice |-> Least(l.nice, remaining)] ELSE l

\* What deflate_finish_block makes codes of and flushes.
deflate_finish_block(b, next) ==
  [begin |-> b.begin, length |-> next - b.begin, seqs |-> b.seqs,
   freqs |-> Incremented(b.freqs, <<"end">>), final |-> next = Len(input)]

-----------------------------------------------------------------------
Lazy == level.parser # "greedy"

\* The end of the loop over the positions of a block, which may end the block.
GoOn(b, next, m) ==
  LET checks == next < b.max_end /\ Len(b.seqs) <= SeqStore
      ready  == checks /\ ready_to_check_block(b.stats, b.begin, next, Len(input))
      split  == ready /\ do_end_block_check(b.stats, next - b.begin)
  IN /\ in_next' = next
     /\ mf' = m
     /\ cur' = NoMatch
     /\ IF checks /\ ~split
        THEN /\ block' = IF ready THEN [b EXCEPT !.stats = merge_new_observations(@)] ELSE b
             /\ UNCHANGED blocks
        ELSE /\ blocks' = Append(blocks, deflate_finish_block(b, next))
             /\ block' = IF next = Len(input) THEN b ELSE NewBlock(input, next)

longest_match(m, p, best_len, l, depth) ==
  hc_matchfinder_longest_match(m, input, p, best_len, l.max, l.nice, depth, level.fast)

Lens(l, p) == adjust_max_and_nice_len(l, Len(input) - p)

\* min_len is looked at again when the block has doubled.
Recalculated(b) ==
  IF Lazy /\ in_next >= b.recalc
  THEN [b EXCEPT !.min_len = recalculate_min_match_len(b.freqs),
                 !.recalc = @ + Least(Len(input) - @, in_next - b.begin)]
  ELSE b

\* A search from a new position: a literal, or a match, which the greedy parser takes.
Search ==
  /\ in_next < Len(input)
  /\ cur = NoMatch
  /\ lens' = Lens(lens, in_next)
  /\ LET b == Recalculated(block)
         r == longest_match(mf, in_next, b.min_len - 1, lens', level.depth)
         found == /\ r.len >= b.min_len
                  /\ r.len > 3 \/ r.offset <= (IF Lazy THEN NearLazy ELSE NearGreedy)
     IN \/ /\ ~found
           /\ GoOn(deflate_choose_literal(b, input[in_next + 1]), in_next + 1, r.mf)
        \/ /\ found /\ ~Lazy
           /\ GoOn(deflate_choose_match(b, r.len, r.offset), in_next + r.len,
                   hc_matchfinder_skip_bytes(r.mf, input, in_next + 1, r.len - 1))
        \/ /\ found /\ Lazy
           /\ block' = b
           /\ mf' = r.mf
           /\ cur' = [len |-> r.len, offset |-> r.offset]
           /\ in_next' = in_next + 1
           /\ UNCHANGED blocks
  /\ UNCHANGED <<input, level>>

\* The lazy parsers: the current match begins at in_next - 1.
TakeCur(m) ==
  GoOn(deflate_choose_match(block, cur.len, cur.offset), in_next - 1 + cur.len, m)

\* A very long match is taken at once.
TakeNice ==
  /\ cur # NoMatch
  /\ cur.len >= lens.nice
  /\ TakeCur(hc_matchfinder_skip_bytes(mf, input, in_next, cur.len - 1))
  /\ UNCHANGED <<input, level, lens>>

\* Is the match r, further on, better by more than that?
BetterBy(r, that) ==
  /\ r.len >= cur.len
  /\ 4 * (r.len - cur.len) + bsr32(cur.offset) - bsr32(r.offset) > that

\* The match r takes the place of the current one; the bytes before it are literals.
Postpone(r, literals) ==
  /\ LET b == deflate_choose_literal(block, input[in_next])
     IN block' = IF literals = 1 THEN b ELSE deflate_choose_literal(b, input[in_next + 1])
  /\ cur' = [len |-> r.len, offset |-> r.offset]
  /\ mf' = r.mf
  /\ in_next' = in_next + literals
  /\ UNCHANGED blocks

\* Is there a better match at the next position, or the one after that?
LookAhead ==
  /\ cur # NoMatch
  /\ cur.len < lens.nice
  /\ LET l1 == Lens(lens, in_next)
         r1 == longest_match(mf, in_next, cur.len - 1, l1, level.depth \div 2)
         l2 == Lens(l1, in_next + 1)
         r2 == longest_match(r1.mf, in_next + 1, cur.len - 1, l2, level.depth \div 4)
     IN IF BetterBy(r1, 2)
        THEN lens' = l1 /\ Postpone(r1, 1)
        ELSE \/ /\ level.parser = "lazy"
                /\ lens' = l1
                /\ TakeCur(hc_matchfinder_skip_bytes(r1.mf, input, in_next + 1, cur.len - 2))
             \/ /\ level.parser = "lazy2"
                /\ lens' = l2
                /\ IF BetterBy(r2, 6)
                   THEN Postpone(r2, 2)
                   ELSE TakeCur(IF cur.len = 3 THEN r2.mf
                                ELSE hc_matchfinder_skip_bytes(r2.mf, input, in_next + 2, cur.len - 3))
  /\ UNCHANGED <<input, level>>

Init ==
  /\ input \in Inputs
  /\ level \in {[parser |-> l.parser, depth |-> l.depth, nice |-> l.nice, fast |-> f] :
                  l \in Levels, f \in BOOLEAN}
  /\ \E rest \in Unwritten : mf = hc_matchfinder_init(rest)
  /\ in_next = 0
  /\ lens = [max |-> MaxMatch, nice |-> Least(level.nice, MaxMatch)]
  /\ cur = NoMatch
  /\ block = NewBlock(input, 0)
  /\ blocks = <<>>

Done == in_next = Len(input) /\ UNCHANGED vars

Next == Search \/ TakeNice \/ LookAhead \/ Done

Spec == Init /\ [][Next]_vars

-----------------------------------------------------------------------
\* The position at which sequence i of a block begins.
At(b, i) == b.begin + SumFunction([k \in 1..i-1 |-> b.seqs[k].litrunlen + b.seqs[k].length])

\* The bytes at p of an input repeat those of the window that lie offset before them.
Repeats(s, p, len, offset) ==
  /\ len \in 3..MaxMatch
  /\ offset \in 1..Least(Window, p)
  /\ p + len <= Len(s)
  /\ Same(s, p, p - offset, len)

RealMatch(s, b, i) ==
  LET q == b.seqs[i] IN Repeats(s, At(b, i) + q.litrunlen, q.length, q.offset)

\* Where symbol x is coded in a block: the literals' positions, or sequences.
Used(s, b, x) ==
  CASE x[1] = "lit" ->
         {p \in 0..Len(s)-1 : \E i \in 1..Len(b.seqs) :
            p \in At(b, i) .. At(b, i) + b.seqs[i].litrunlen - 1 /\ s[p + 1] = x[2]}
    [] x[1] = "length" -> {i \in 1..Len(b.seqs)-1 : b.seqs[i].length = x[2]}
    [] x[1] = "offset" -> {i \in 1..Len(b.seqs)-1 : b.seqs[i].offset = x[2]}

Symbols(s, b) ==
  {<<"lit", c>> : c \in {s[i] : i \in DOMAIN s}} \cup
  UNION {{<<"length", b.seqs[i].length>>, <<"offset", b.seqs[i].offset>>} : i \in 1..Len(b.seqs)-1}

\* Sequences and literals of a block cover the bytes of s up to end, and are counted.
Covers(s, b, end) ==
  /\ \A i \in 1..Len(b.seqs)-1 : RealMatch(s, b, i)
  /\ At(b, Len(b.seqs)) + Last(b.seqs).litrunlen = end
  /\ \A x \in Symbols(s, b) : Frequency(b.freqs, x) = Cardinality(Used(s, b, x))

\* A block that is flushed begins where the one before ended, and its sequences give
\* back its bytes: a match is never longer than the input, farther than the window or of
\* other bytes.  Every symbol is counted as often as it will be written: one that is
\* not has no codeword.
Replays ==
  LET n == Len(blocks)
      b == Last(blocks)
      end == b.begin + b.length
  IN n > 0 /\ in_next = end =>
       /\ b.begin = IF n = 1 THEN 0 ELSE blocks[n-1].begin + blocks[n-1].length
       /\ Covers(input, b, end)
       /\ b.final <=> end = Len(input)

\* The lazy parsers may postpone a match beyond the end of the block, and again as long as
\* what they find is longer, or much nearer: three or more points better for every byte.
LongestBlock ==
  Most(SoftMax + MinBlock - 1,
       SoftMax - 1 + (4 * (MaxMatch - 3) + bsr32(Window)) \div 3 + MaxMatch)

\* All blocks but the last have the minimum length, so that there are no more of them
\* than compress_bound counts headers for, whichever of the three ends of a block comes
\* first; none is too long for the field of a run of literals, and none has more matches
\* than the store.
BlocksLong ==
  /\ \A i \in DOMAIN blocks :
       /\ ~blocks[i].final => blocks[i].length >= MinBlock
       /\ blocks[i].length <= LongestBlock
       /\ Len(blocks[i].seqs) <= SeqStore + 1
  /\ Len(blocks) <= (in_next + MinBlock - 1) \div MinBlock

\* Without a limit of depth a search at the next position finds a match of four bytes or
\* more as long as any in the window: whatever was searched, skipped, slid or found
\* better before, no position of the window is missing from its chain.  Only position 0
\* may be missing, which is put in the buckets of code 0.
LongestFound ==
  Len(input) - in_next >= 5 =>
    LET max == Least(MaxMatch, Len(input) - in_next)
        longest == {lz_extend(input, in_next, q, max) :
                      q \in Most(1, in_next - Window + 1) .. in_next - 1}
        found == hc_matchfinder_longest_match(mf, input, in_next, 2, max, max, Window, level.fast)
    IN \A n \in longest : n >= 4 => found.len >= n
=======================================================================
