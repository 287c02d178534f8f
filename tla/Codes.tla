----------------------------- MODULE Codes -----------------------------
(***************************************************************************)
(* A block's Huffman codes on their way from the compressor to the         *)
(* decompressor of tools/deflate: made from frequencies, their lengths     *)
(* written as runs with a code of their own (the precode), read again and  *)
(* turned into decode tables.  A decompressor may also be sent lengths no  *)
(* compressor wrote.                                                       *)
(***************************************************************************)
EXTENDS DecodeTable

CONSTANTS
  Inputs,      \* frequencies: [lit, off : arrays, limit, min], see MCCodes
  Sent,        \* lengths a decompressor is sent
  MaxLen,      \* the longest codeword they have
  TableBits    \* index bits of the decode tables

VARIABLES
  stage,   \* "freqs", "codes", "written", "read", "tables"
  freqs,   \* c->freqs, with the limits that go with the alphabets
  lens,    \* c->codes.lens
  header,  \* the bits of the header, from the count of litlen symbols on
  got,     \* what the decompressor makes of them
  tables   \* its decode tables

codesVars == <<stage, freqs, lens, header, got, tables>>

-----------------------------------------------------------------------
\* The lengths as items: a length, or a repetition with its extra bits.
RECURSIVE ZeroItems(_)
ZeroItems(n) ==
  IF n >= 11 THEN LET x == Lesser(n - 11, 127)
                  IN  <<<<18, x>>>> \o ZeroItems(n - 11 - x)
  ELSE IF n >= 3 THEN <<<<17, n - 3>>>>
  ELSE [k \in 1..n |-> <<0, 0>>]

RECURSIVE RepeatItems(_, _)
RepeatItems(len, n) ==
  IF n >= 3 THEN LET x == Lesser(n - 3, 3)
                 IN  <<<<16, x>>>> \o RepeatItems(len, n - 3 - x)
  ELSE [k \in 1..n |-> <<len, 0>>]

\* Slip: a run of a length begins with a repetition.
RunItemsAtOnce(len, n) ==
  IF len = 0 THEN ZeroItems(n) ELSE RepeatItems(len, n)

RunItems(len, n) ==
  IF len = 0 THEN ZeroItems(n)
  ELSE IF n >= 4 THEN <<<<len, 0>>>> \o RepeatItems(len, n - 1)
  ELSE [k \in 1..n |-> <<len, 0>>]

RECURSIVE compute_precode_items(_)
compute_precode_items(ls) ==
  IF ls = <<>> THEN <<>>
  ELSE LET breaks == {k \in DOMAIN ls : ls[k] # ls[1]}
           run == IF breaks = {} THEN Len(ls)
                  ELSE (CHOOSE k \in breaks : \A j \in breaks : k <= j) - 1
       IN  RunItems(ls[1], run) \o
           compute_precode_items(SubSeq(ls, run + 1, Len(ls)))

-----------------------------------------------------------------------
NumPrecodeSyms == 19
MaxPrecodeLen  == 7

deflate_precode_lens_permutation ==
  <<16, 17, 18, 0, 8, 7, 9, 6, 10, 5, 11, 4, 12, 3, 13, 2, 14, 1, 15>>

ExtraPrecodeBits(p) == CASE p = 16 -> 2 [] p = 17 -> 3 [] p = 18 -> 7 [] OTHER -> 0

\* ADD_BITS: the low n bits of v, the lowest first.
Bits(v, n) == [k \in 1..n |-> Bit(v, k - 1)]

\* The first n bits from pos on as a number; zeroes follow the end.
Peek(s, pos, n) ==
  Total([k \in 0..n - 1 |-> IF pos + k \in DOMAIN s THEN s[pos + k] * 2^k ELSE 0])

\* How many symbols' lengths are sent: up to the last one in use.
NumSyms(ls, min) ==
  Highest({n \in min..Cardinality(DOMAIN ls) : n = min \/ ls[n - 1] # 0})

\* deflate_precompute_huffman_header, and the header as deflate_flush_block
\* writes it.
Header(lit, off, min) ==
  LET numLit == NumSyms(lit, min)
      numOff == NumSyms(off, 1)
      items  == compute_precode_items([k \in 1..numLit + numOff |->
                  IF k <= numLit THEN lit[k - 1] ELSE off[k - numLit - 1]])
      prefreqs == [p \in 0..NumPrecodeSyms - 1 |->
                     Cardinality({k \in DOMAIN items : items[k][1] = p})]
      prelens  == deflate_make_huffman_code(prefreqs, MaxPrecodeLen)
      words    == CanonicalWords(prelens, MaxPrecodeLen)
      explicit == Highest({n \in 4..NumPrecodeSyms :
                    n = 4 \/ prelens[deflate_precode_lens_permutation[n]] # 0})
  IN  Bits(numLit - min, 5) \o Bits(numOff - 1, 5) \o Bits(explicit - 4, 4)
      \o FlattenSeq([k \in 1..explicit |->
                       Bits(prelens[deflate_precode_lens_permutation[k]], 3)])
      \o FlattenSeq([k \in DOMAIN items |->
                       Bits(words[items[k][1]], prelens[items[k][1]])
                       \o Bits(items[k][2], ExtraPrecodeBits(items[k][1]))])

-----------------------------------------------------------------------
\* The lengths read so far and those the next items stand for, until there are
\* at least total; NoTable when the first item repeats a length.
RECURSIVE ReadLens(_, _, _, _, _)
ReadLens(s, pos, t, total, ls) ==
  LET e == Lookup(t, MaxPrecodeLen, Peek(s, pos, MaxPrecodeLen))
      p == e[1]
      x == Peek(s, pos + e[2], ExtraPrecodeBits(p))
      after == pos + e[2] + ExtraPrecodeBits(p)
      more == IF p < 16 THEN <<p>>
              ELSE IF p = 16 THEN [k \in 1..3 + x |-> Last(ls)]
              ELSE [k \in 1..(IF p = 17 THEN 3 ELSE 11) + x |-> 0]
  IN  IF Len(ls) >= total THEN ls
      ELSE IF p = 16 /\ ls = <<>> THEN <<>>
      ELSE ReadLens(s, after, t, total, ls \o more)

Refused == [lit |-> NoTable, off |-> NoTable]

\* The dynamic block's part of deflate_decompress: BAD_DATA is Refused.
ReadHeader(s, min) ==
  LET numLit == min + Peek(s, 1, 5)
      numOff == 1 + Peek(s, 6, 5)
      explicit == 4 + Peek(s, 11, 4)
      prelens == [p \in 0..NumPrecodeSyms - 1 |->
                    LET k == CHOOSE k \in 1..NumPrecodeSyms :
                               deflate_precode_lens_permutation[k] = p
                    IN  IF k <= explicit THEN Peek(s, 15 + 3 * (k - 1), 3) ELSE 0]
      t  == build_decode_table(prelens, MaxPrecodeLen, MaxPrecodeLen, FALSE)
      ls == ReadLens(s, 15 + 3 * explicit, t, numLit + numOff, <<>>)
  IN  IF t = NoTable \/ Len(ls) # numLit + numOff THEN Refused
      ELSE [lit |-> [y \in 0..numLit - 1 |-> ls[y + 1]],
            off |-> [y \in 0..numOff - 1 |-> ls[numLit + y + 1]]]

-----------------------------------------------------------------------
Nil == <<>>

CodesInit ==
  /\ \/ stage = "freqs" /\ freqs \in Inputs /\ got = Refused
     \/ /\ stage = "read" /\ freqs = Nil
        /\ got \in {[lit |-> l, off |-> l] : l \in Sent}
  /\ lens = Nil /\ header = Nil /\ tables = Nil

\* deflate_make_huffman_codes
MakeCodes ==
  /\ stage = "freqs" /\ stage' = "codes"
  /\ lens' = [lit |-> deflate_make_huffman_code(freqs.lit, freqs.limit),
              off |-> deflate_make_huffman_code(freqs.off, freqs.limit)]
  /\ UNCHANGED <<freqs, header, got, tables>>

WriteHeader ==
  /\ stage = "codes" /\ stage' = "written"
  /\ header' = Header(lens.lit, lens.off, freqs.min)
  /\ UNCHANGED <<freqs, lens, got, tables>>

Read ==
  /\ stage = "written" /\ stage' = "read"
  /\ got' = ReadHeader(header, freqs.min)
  /\ UNCHANGED <<freqs, lens, header, tables>>

\* build_litlen_decode_table, whose index is as short as the code allows, and
\* build_offset_decode_table.
BuildTables ==
  /\ stage = "read" /\ stage' = "tables"
  /\ got # Refused /\ Cardinality(DOMAIN got.lit) < NumPrecodeSyms
  /\ tables' = [lit |-> build_decode_table(got.lit, TableBits, MaxLen, TRUE),
                off |-> build_decode_table(got.off, TableBits, MaxLen, FALSE)]
  /\ UNCHANGED <<freqs, lens, header, got>>

CodesStep == MakeCodes \/ WriteHeader \/ Read \/ BuildTables

CodesSpec == CodesInit /\ [][CodesStep]_codesVars

-----------------------------------------------------------------------
\* The cost of Huffman's own algorithm, merging the two least frequent: the
\* shortest any prefix code can be.
RECURSIVE HuffmanCost(_)
HuffmanCost(sorted) ==
  IF Len(sorted) < 2 THEN 0
  ELSE LET both == sorted[1] + sorted[2]
       IN  both + HuffmanCost(SortSeq(SubSeq(sorted, 3, Len(sorted)) \o <<both>>, <))

Cost(f, ls) == Total([y \in DOMAIN f |-> f[y] * ls[y]])

SortedFreqs(f) ==
  LET n == Cardinality(DOMAIN f)
  IN  SortSeq(SelectSeq([i \in 1..n |-> f[i - 1]], LAMBDA x : x # 0), <)

Sound(f, ls, limit) ==
  /\ \A y \in DOMAIN f : ls[y] <= limit /\ (f[y] # 0 => ls[y] # 0)
  /\ \A y, z \in DOMAIN f : f[y] > f[z] /\ f[z] # 0 => ls[y] <= ls[z]
  /\ (\E y \in DOMAIN f : f[y] # 0) =>
       /\ Codespace(LenCounts(ls, limit), limit) = 2^limit
       /\ Cardinality({y \in DOMAIN f : ls[y] # 0})
            = Greater(2, Cardinality({y \in DOMAIN f : f[y] # 0}))

\* Every code the compressor makes gives each used symbol a codeword within the
\* limit, no symbol a longer one than a rarer symbol has, and is complete: the
\* lengths that were cut down to the limit are paid for exactly.
CodesSound ==
  stage = "codes" => Sound(freqs.lit, lens.lit, freqs.limit)
                     /\ Sound(freqs.off, lens.off, freqs.limit)

\* Where the limit cannot bind, the in-place tree gives a code as short as
\* Huffman's.
CodesOptimal ==
  stage = "codes" =>
    LET used == SortedFreqs(freqs.lit)
    IN  Len(used) \in 2..freqs.limit + 1 =>
          Cost(freqs.lit, lens.lit) = HuffmanCost(used)

\* What the decompressor reads is what the compressor wrote: runs, the precode,
\* the trimmed counts, and the runs that go from one code into the next.
HeadersRead ==
  stage = "read" /\ lens # Nil =>
    /\ got # Refused
    /\ \A y \in DOMAIN lens.lit :
         lens.lit[y] = IF y \in DOMAIN got.lit THEN got.lit[y] ELSE 0
    /\ \A y \in DOMAIN lens.off :
         lens.off[y] = IF y \in DOMAIN got.off THEN got.off[y] ELSE 0

\* What a table must say of a code: a complete code's words lead to their symbols,
\* whatever follows them; a single word of one bit, or none, makes a table of
\* one symbol; anything else makes no table.
Decodes(t, ls, dynamic) ==
  LET used  == {y \in DOMAIN ls : ls[y] # 0}
      space == Codespace(LenCounts(ls, MaxLen), MaxLen)
      words == CanonicalWords(ls, MaxLen)
      index == IF dynamic THEN Lesser(TableBits, Highest({ls[y] : y \in used} \cup {1}))
               ELSE TableBits
  IN  IF space = 2^MaxLen
      THEN \A y \in used : \A tail \in 0..2^(MaxLen - ls[y]) - 1 :
             Lookup(t, index, words[y] + tail * 2^ls[y]) = <<y, ls[y]>>
      ELSE IF used = {} \/ (\E y \in used : used = {y} /\ ls[y] = 1)
      THEN \A i \in DOMAIN t : used # {} => t[i] = SymEntry(CHOOSE y \in used : TRUE, 1)
      ELSE t = NoTable

\* The decode tables are right for every set of lengths, those of a damaged
\* stream included.
TablesDecode ==
  stage = "tables" => Decodes(tables.lit, got.lit, TRUE) /\ Decodes(tables.off, got.off, FALSE)
=======================================================================
