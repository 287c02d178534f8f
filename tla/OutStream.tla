--------------------------- MODULE OutStream ---------------------------
(***************************************************************************)
(* How the compressor of tools/deflate puts a stream in the output buffer: *)
(* the cheapest kind of every block, bits that pass through a word, and an *)
(* end of the buffer that may come at any moment.  A symbol counts for the *)
(* number of its bits.                                                     *)
(***************************************************************************)
EXTENDS Integers, FiniteSetsExt, SequencesExt

CONSTANTS
  Builds,    \* [word : bytes of a word, fast : UNALIGNED_ACCESS_IS_FAST]
  Plans,     \* inputs: their blocks, each [items, codes, lens, apart]
  MinBlock,  \* MIN_BLOCK_LENGTH
  StoredMax, \* the longest uncompressed block, UINT16_MAX
  LenBytes,  \* the bytes of LEN and NLEN
  Avails     \* sizes of output buffers, relative to the bound

VARIABLES
  build,   \* how the library was built
  in_nbytes, \* the length of the input
  plan,    \* the blocks that are still to be flushed
  os,      \* the output bitstream, with the bytes it touched and its fullest
  todo,    \* what the current block still adds, up to each FLUSH_BITS
  block,   \* os when the block began, and the cost it was chosen for
  sent,    \* the symbols of the stream
  result   \* what libdeflate_deflate_compress returns, or NotYet

outVars == <<build, in_nbytes, plan, os, todo, block, sent, result>>

NotYet == -1
Least(a, b) == IF a < b THEN a ELSE b
Most(a, b)  == IF a < b THEN b ELSE a
UpTo(n, d)  == (n + d - 1) \div d

-----------------------------------------------------------------------
\* Slots: the first length (offset) of each, and how many extra bits follow.
deflate_length_slot_base ==
  <<3, 4, 5, 6, 7, 8, 9, 10, 11, 13, 15, 17, 19, 23, 27, 31, 35, 43, 51, 59,
    67, 83, 99, 115, 131, 163, 195, 227, 258>>
deflate_extra_length_bits ==
  <<0, 0, 0, 0, 0, 0, 0, 0, 1, 1, 1, 1, 2, 2, 2, 2, 3, 3, 3, 3,
    4, 4, 4, 4, 5, 5, 5, 5, 0>>
deflate_offset_slot_base ==
  <<1, 2, 3, 4, 5, 7, 9, 13, 17, 25, 33, 49, 65, 97, 129, 193, 257, 385, 513,
    769, 1025, 1537, 2049, 3073, 4097, 6145, 8193, 12289, 16385, 24577>>
deflate_extra_offset_bits ==
  <<0, 0, 0, 0, 1, 1, 2, 2, 3, 3, 4, 4, 5, 5, 6, 6, 7, 7, 8, 8, 9, 9, 10, 10,
    11, 11, 12, 12, 13, 13>>

SlotIn(base, x) == Max({s \in DOMAIN base : base[s] <= x})

deflate_length_slot(len) == SlotIn(deflate_length_slot_base, len)

\* Beyond 256 one entry of the table serves 128 offsets.
deflate_get_offset_slot(off) ==
  SlotIn(deflate_offset_slot_base,
         IF off <= 256 THEN off ELSE 1 + 128 * ((off - 1) \div 128))

\* An item of a block: a literal of 8 or 9 bits in the static code, or a match.
Lo == [lit |-> "lo"]
Hi == [lit |-> "hi"]
Match(len, off) == [len |-> len, off |-> off]
IsLit(i) == "lit" \in DOMAIN i
ItemLen(i) == IF IsLit(i) THEN 1 ELSE i.len
Bytes(items) == SumFunction([k \in DOMAIN items |-> ItemLen(items[k])])

\* What the symbol of an item takes in a code, with the extra bits after it.
StaticCode == [lo |-> 8, hi |-> 9, short |-> 7, long |-> 8, off |-> 5, end |-> 7]
LitlenSym(i) ==
  IF IsLit(i) THEN i.lit
  ELSE IF deflate_length_slot(i.len) <= 23 THEN "short" ELSE "long"
ExtraLen(i) == IF IsLit(i) THEN 0 ELSE deflate_extra_length_bits[deflate_length_slot(i.len)]
ExtraOff(i) == deflate_extra_offset_bits[deflate_get_offset_slot(i.off)]

full_len_codewords(i, code) == code[LitlenSym(i)] + ExtraLen(i)

-----------------------------------------------------------------------
CAN_BUFFER(n) == 7 + n <= 8 * build.word - 1

\* Slip: a pending word counts for its bytes, whether they fit or not.
FlushUnchecked(s) ==
  [s EXCEPT !.next = @ + s.bitcount \div 8, !.bitcount = @ % 8,
            !.touched = Most(@, s.next + build.word)]

FLUSH_BITS(s) ==
  [s EXCEPT !.next = Least(s.end, @ + s.bitcount \div 8), !.bitcount = @ % 8,
            !.touched =
              IF build.fast THEN Most(@, s.next + build.word)
              ELSE IF s.bitcount < 8 THEN @
              ELSE Most(@, Least(s.end, s.next + s.bitcount \div 8 - 1) + 1)]

ADD_BITS(s, n) ==
  [s EXCEPT !.bitcount = @ + n, !.peak = Most(@, s.bitcount + n)]

\* What the literal at k adds before a FLUSH_BITS: the bits of up to four of its run,
\* where a word holds them, unless one before it has added its bits already.
RunGroups(items, code, apart, k) ==
  LET run(j)  == \A i \in k..j : i \in DOMAIN items /\ IsLit(items[i])
      bits(j) == IF run(j) THEN full_len_codewords(items[j], code) ELSE 0
      start   == Max({j \in 0..k-1 : j = 0 \/ ~IsLit(items[j])}) + 1
  IN  IF apart \/ ~CAN_BUFFER(4 * 14) THEN <<bits(k)>>
      ELSE IF (k - start) % 4 = 0 THEN <<bits(k) + bits(k + 1) + bits(k + 2) + bits(k + 3)>>
      ELSE <<>>

WRITE_MATCH(i, code) ==
  LET length == full_len_codewords(i, code)
  IN  IF CAN_BUFFER(14 + 5 + 15 + 13) THEN <<length + code.off + ExtraOff(i)>>
      ELSE IF CAN_BUFFER(15 + 13) THEN <<length, code.off + ExtraOff(i)>>
      ELSE <<length, code.off, ExtraOff(i)>>

ItemGroups(items, code, apart) ==
  FlattenSeq([k \in DOMAIN items |->
                IF IsLit(items[k]) THEN RunGroups(items, code, apart, k)
                ELSE WRITE_MATCH(items[k], code)])

\* The header of a dynamic block; lens is [explicit : how many precode lengths,
\* items : the bits of each item].
HeaderGroups(lens) ==
  (IF CAN_BUFFER(3 * 18) THEN <<1 + 2 + 5 + 5 + 4 + 3, 3 * (lens.explicit - 1)>>
   ELSE <<1 + 2 + 5 + 5 + 4>> \o [k \in 1..lens.explicit |-> 3]) \o lens.items

-----------------------------------------------------------------------
\* The costs, from how often each symbol occurs.
SymbolsCost(items, code) ==
  LET kinds == {items[k] : k \in DOMAIN items}
      freq(i) == Cardinality({k \in DOMAIN items : items[k] = i})
  IN  code.end +
      FoldSet(LAMBDA i, sum : sum + freq(i) *
                (full_len_codewords(i, code) +
                 IF IsLit(i) THEN 0 ELSE code.off + ExtraOff(i)), 0, kinds)

dynamic_cost(b) ==
  5 + 5 + 4 + 3 * b.lens.explicit + SumFunction(b.lens.items)
    + SymbolsCost(b.items, b.codes)
static_cost(b) == SymbolsCost(b.items, StaticCode)

\* Slip: the headers of all but the first of a row of uncompressed blocks are
\* not counted.
CostOfOneStored(b) ==
  ((-(os.bitcount + 3)) % 8) + 8 * LenBytes + 8 * Bytes(b.items)

uncompressed_cost(b) ==
  ((-(os.bitcount + 3)) % 8) + 8 * LenBytes
    + 8 * (1 + LenBytes) * (UpTo(Bytes(b.items), StoredMax) - 1)
    + 8 * Bytes(b.items)

-----------------------------------------------------------------------
\* The symbols a decompressor is going to see.
Block(type, final) == [kind |-> "block", type |-> type, final |-> final]
Stored(final, len) == [kind |-> "stored", final |-> final, len |-> len]
PreLens(n) == [kind |-> "prelens", n |-> n]
PreItem(w) == [kind |-> "item", bits |-> w]
Literal(w) == [kind |-> "lit", code |-> w]
End(w) == [kind |-> "end", code |-> w]
MatchSym(code, slot, extra, offcode, oslot, oextra) ==
  [kind |-> "match", code |-> code, slot |-> slot, extra |-> extra,
   offcode |-> offcode, oslot |-> oslot, oextra |-> oextra]

Symbol(i, code) ==
  IF IsLit(i) THEN Literal(code[i.lit])
  ELSE LET s == deflate_length_slot(i.len)
           o == deflate_get_offset_slot(i.off)
       IN  MatchSym(code[LitlenSym(i)], s, i.len - deflate_length_slot_base[s],
                    code.off, o, i.off - deflate_offset_slot_base[o])

Symbols(b, code) == [k \in DOMAIN b.items |-> Symbol(b.items[k], code)] \o <<End(code.end)>>

DEFLATE_MAX_MATCH_OFFSET == 32768

\* Blocks, with codewords of MAX_LITLEN_CODEWORD_LEN and MAX_OFFSET_CODEWORD_LEN
\* bits at most, and symbols, with those of DEFLATE_MAX_CODEWORD_LEN.
Items == {Lo, Hi} \cup [len : 3..258, off : 1..DEFLATE_MAX_MATCH_OFFSET]
Blocks ==
  [items : Seq(Items), apart : BOOLEAN,
   codes : [lo : 1..14, hi : 1..14, short : 1..14, long : 1..14, off : 1..15, end : 1..14],
   lens  : [explicit : 4..19, items : Seq(1..14)]]

Matches ==
  [kind : {"match"}, code : 1..15, slot : 1..29, extra : Nat,
   offcode : 1..15, oslot : 1..30, oextra : Nat]
SymbolSet ==
  [kind : {"block"}, type : {"static", "dynamic"}, final : BOOLEAN] \cup
  [kind : {"stored"}, final : BOOLEAN, len : Nat] \cup
  [kind : {"prelens"}, n : 4..19] \cup [kind : {"item"}, bits : 1..14] \cup
  [kind : {"lit", "end"}, code : 1..15] \cup
  {y \in Matches : deflate_length_slot_base[y.slot] + y.extra <= 258}

-----------------------------------------------------------------------
LengthOf(blocks) == SumFunction([k \in DOMAIN blocks |-> Bytes(blocks[k].items)])

END_PADDING == 8

\* Slip: the overhead of each block, and no byte to spare.
BoundTight(n) ==
  (1 + LenBytes) * Most(UpTo(n, MinBlock), 1) + n + END_PADDING

compress_bound(n) ==
  (1 + LenBytes) * Most(UpTo(n, MinBlock), 1) + n + 1 + END_PADDING

BitStream(avail) ==
  [next |-> 0, bitcount |-> 0, end |-> avail - END_PADDING, avail |-> avail,
   touched |-> 0, peak |-> 0]

OutInit ==
  /\ build \in Builds
  /\ plan \in Plans
  /\ in_nbytes = LengthOf(plan)
  /\ \E a \in Avails : LET avail == compress_bound(in_nbytes) + a IN
       avail >= 0 /\ os = BitStream(avail)
  /\ todo = <<>> /\ sent = <<>>
  /\ block = [at |-> os, cost |-> NotYet]
  /\ result = NotYet

\* A row of uncompressed blocks for len bytes, or as many as there is room for.
\* Without padding, for deflate_compress_none, the end is the buffer's.
StoredBlocks(s, syms, len, final) ==
  LET rows == Most(UpTo(len, StoredMax), 1)
      row[n \in 0..rows] ==
        IF n = 0 THEN [s |-> s, syms |-> syms, all |-> TRUE]
        ELSE LET was == row[n - 1]
                 now == Least(len - (n - 1) * StoredMax, StoredMax)
                 to  == was.s.next + UpTo(was.s.bitcount + 3, 8) + LenBytes + now
             IN  IF ~was.all THEN was
                 ELSE IF was.s.end < to THEN [was EXCEPT !.all = FALSE]
                 ELSE [s    |-> [was.s EXCEPT !.next = to, !.bitcount = 0, !.touched = Most(@, to)],
                       syms |-> Append(was.syms, Stored(final /\ n = rows, now)),
                       all  |-> TRUE]
  IN  row[rows]

\* deflate_compress_none, for inputs the level passes through.
CompressNone ==
  /\ result = NotYet /\ sent = <<>> /\ block.cost = NotYet
  /\ LET whole == [os EXCEPT !.end = os.avail]
         out == StoredBlocks(whole, <<>>, in_nbytes, TRUE)
     IN  /\ os' = out.s
         /\ sent' = out.syms
         /\ result' = IF out.all THEN out.s.next ELSE 0
  /\ plan' = <<>>
  /\ UNCHANGED <<build, in_nbytes, todo, block>>

\* deflate_flush_block up to its symbols; an uncompressed block to its end.
FlushBlock ==
  /\ result = NotYet /\ plan # <<>> /\ todo = <<>>
  /\ os.avail > END_PADDING
  /\ LET b == plan[1]
         final == Len(plan) = 1
         stat == static_cost(b)
         unco == uncompressed_cost(b)
         dyn  == dynamic_cost(b)
         compressed(type, cost, code, first, syms) ==
           /\ todo' = first \o ItemGroups(b.items, code, b.apart) \o <<code.end>>
           /\ sent' = sent \o <<Block(type, final)>> \o syms \o Symbols(b, code)
           /\ block' = [at |-> os, cost |-> cost]
           /\ UNCHANGED os
     IN  IF dyn < Least(stat, unco)
         THEN compressed("dynamic", dyn, b.codes, HeaderGroups(b.lens),
                         <<PreLens(b.lens.explicit)>> \o
                         [k \in DOMAIN b.lens.items |-> PreItem(b.lens.items[k])])
         ELSE IF stat < unco
         THEN compressed("static", stat, StaticCode, <<3>>, <<>>)
         ELSE LET out == StoredBlocks(os, sent, Bytes(b.items), final)
              IN  /\ os' = IF out.all THEN out.s ELSE [out.s EXCEPT !.next = out.s.end]
                  /\ sent' = out.syms
                  /\ block' = [at |-> os, cost |-> unco]
                  /\ UNCHANGED todo
  /\ plan' = Tail(plan)
  /\ UNCHANGED <<build, in_nbytes, result>>

WriteSymbols ==
  /\ todo # <<>>
  /\ os' = FLUSH_BITS(ADD_BITS(os, todo[1]))
  /\ todo' = Tail(todo)
  /\ UNCHANGED <<build, in_nbytes, plan, block, sent, result>>

\* The end of libdeflate_deflate_compress, or its return before the first block.
Finish ==
  /\ result = NotYet /\ todo = <<>>
  /\ IF plan = <<>> THEN block.cost # NotYet ELSE os.avail <= END_PADDING
  /\ result' = IF os.next >= os.end \/ os.avail <= END_PADDING THEN 0
               ELSE os.next + UpTo(os.bitcount, 8)
  /\ os' = [os EXCEPT !.touched = Most(@, result')]
  /\ UNCHANGED <<build, in_nbytes, plan, todo, block, sent>>

OutStep == CompressNone \/ FlushBlock \/ WriteSymbols \/ Finish
=======================================================================
