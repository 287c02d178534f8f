--------------------------- MODULE InStream ----------------------------
(***************************************************************************)
(* How the decompressor of tools/deflate gets through a stream: a word of  *)
(* bits that is refilled without looking where the input ends while that   *)
(* is far, a loop that decodes and copies without looking where the output *)
(* ends while that is far, and zeroes that stand for what is missing.      *)
(***************************************************************************)
EXTENDS OutStream

CONSTANT AnySymbols  \* the symbols an input of any content may hold

VARIABLES
  pc,      \* where deflate_decompress is
  bits,    \* in_next, bitsleft, overread_count; the bits the fastloop may look
           \* at, and whether it read past the input or looked past those bits
  given,   \* in_nbytes
  space,   \* out_nbytes_avail
  out,     \* out_next, and whether something was written past the end
  final,   \* is_final_block
  type,    \* block_type
  extras,  \* extra literals this iteration of the fastloop decoded
  d,       \* the decompressor: static_codes_loaded, whose tables it holds
  source,  \* the symbols to come, as far as they are known
  status   \* what deflate_decompress returns, or "running"

inVars == <<pc, bits, given, space, out, final, type, extras, d, source, status>>

-----------------------------------------------------------------------
W == build.word

LITLEN_TABLEBITS   == 11
OFFSET_TABLEBITS   == 8
LENGTH_MAXBITS     == 15 + 5
OFFSET_MAXBITS     == 15 + 13
OFFSET_MAXFASTBITS == OFFSET_TABLEBITS + 13

MAX_BITSLEFT     == IF build.fast THEN 8 * W - 1 ELSE 8 * W
CONSUMABLE_NBITS == MAX_BITSLEFT - 7
FASTLOOP_PRELOADABLE_NBITS == IF build.fast THEN 8 * W ELSE CONSUMABLE_NBITS
PRELOAD_SLACK    == Most(0, FASTLOOP_PRELOADABLE_NBITS - MAX_BITSLEFT)
CAN_CONSUME(n)   == CONSUMABLE_NBITS >= n
CAN_CONSUME_AND_THEN_PRELOAD(n, m) ==
  CONSUMABLE_NBITS >= n /\ FASTLOOP_PRELOADABLE_NBITS >= n + m

\* Slip: room for the longest match, but not for what its copy overruns.
WithoutOverrun == 2 + 258

FASTLOOP_MAX_BYTES_WRITTEN == 2 + 258 + 5 * W - 1

FASTLOOP_MAX_BYTES_READ ==
  UpTo(MAX_BITSLEFT + 2 * LITLEN_TABLEBITS + LENGTH_MAXBITS + OFFSET_MAXBITS, 8) + W

in_fastloop_end  == given - Least(given, FASTLOOP_MAX_BYTES_READ)
out_fastloop_end == space - Least(space, FASTLOOP_MAX_BYTES_WRITTEN)

-----------------------------------------------------------------------
\* A word is read at next; only whole bytes count, the rest is held as well.
REFILL_BITS_BRANCHLESS(b) ==
  [b EXCEPT !.past = @ \/ b.next + W > given,
            !.next = @ + W - 1 - b.left \div 8,
            !.left = 8 * (W - 1) + (@ % 8),
            !.held = 8 * W]

\* Byte by byte, with zeroes beyond the end.
RefillBytes(b, end) ==
  LET n    == IF b.left < CONSUMABLE_NBITS THEN UpTo(CONSUMABLE_NBITS - b.left, 8) ELSE 0
      real == Least(n, end - b.next)
  IN  [b EXCEPT !.next = @ + real, !.past = @ \/ b.next + real > given,
                !.over = @ + n - real,
                !.left = @ + 8 * n, !.held = b.left + 8 * n]

\* After this one only the bits that count may be looked at.
REFILL_BITS(b) ==
  LET r == IF build.fast /\ given - b.next >= W THEN REFILL_BITS_BRANCHLESS(b)
           ELSE RefillBytes(b, given)
  IN  [r EXCEPT !.held = r.left]

REFILL_BITS_IN_FASTLOOP(b) ==
  IF build.fast THEN REFILL_BITS_BRANCHLESS(b) ELSE RefillBytes(b, b.next + W)

\* The SAFETY_CHECK of REFILL_BITS.
TooFarOver(b) == b.over > W

Consume(b, n) ==
  [b EXCEPT !.left = @ - n, !.held = @ - n, !.short = @ \/ n > b.left]

Preload(b, n) == [b EXCEPT !.short = @ \/ n > b.held]

\* Slip: the word is filled again only when it is empty.
RefillWhenEmpty(b, n) == IF b.left = 0 THEN REFILL_BITS_IN_FASTLOOP(b) ELSE b

RefillBelow(b, n) == IF b.left < n THEN REFILL_BITS_IN_FASTLOOP(b) ELSE b

-----------------------------------------------------------------------
\* The symbol that comes: the one that was sent, if the input holds all of its
\* bits; otherwise one that the input does not hold either, since no codeword
\* begins with another.
Width(y) ==
  CASE y.kind \in {"block", "stored"} -> 3
    [] y.kind = "prelens" -> 14 + 3 * y.n
    [] y.kind = "item" -> y.bits
    [] y.kind \in {"lit", "end"} -> y.code
    [] y.kind = "match" -> y.code + deflate_extra_length_bits[y.slot] +
                           y.offcode + deflate_extra_offset_bits[y.oslot]

used    == 8 * (bits.next + bits.over) - bits.left
Held(y) == used + Width(y) <= 8 * given
Known   == source # <<>> /\ Held(source[1])

Coming(kinds) ==
  IF Known THEN {y \in {source[1]} : y.kind \in kinds}
  ELSE {y \in AnySymbols : y.kind \in kinds /\ (source = <<>> \/ ~Held(y))}

\* What comes is known to be, or not to be, of a kind.
MayBe(k)    == IF source = <<>> THEN TRUE ELSE source[1].kind = k
MayNotBe(k) == IF source = <<>> THEN TRUE ELSE source[1].kind # k

Taken == source' = IF Known THEN Tail(source) ELSE <<>>

-----------------------------------------------------------------------
Stop(why) == status' = why /\ pc' = "stopped"

\* The bytes that were filled in and not consumed are given back.
Rewound(b) ==
  [b EXCEPT !.next = @ - (b.left \div 8 - b.over), !.over = 0, !.left = 0, !.held = 0]

\* Slip: the zeroes after the input are as good as data.
EndsAnywhere(b) == TRUE

EndsInside(b) == b.over <= b.left \div 8

\* block_done, and the end of the stream.  Without a place for the number of
\* bytes written, the output buffer has to be full.
BlockDone(b, written, last) ==
  IF ~last THEN pc' = "next_block" /\ bits' = b /\ UNCHANGED status
  ELSE IF ~EndsInside(b) THEN Stop("BAD_DATA") /\ bits' = b
  ELSE /\ bits' = Rewound(b)
       /\ \/ Stop("SUCCESS")
          \/ written # space /\ Stop("SHORT_OUTPUT")

Written(n, upTo) == [next |-> out.next + n, past |-> out.past \/ out.next + upTo > space]

\* An uncompressed block.
Store(b, y) ==
  LET r  == Rewound(b)
      at == r.next + LenBytes
      to == at + y.len
  IN  IF ~EndsInside(b) \/ given < at THEN Stop("BAD_DATA") /\ bits' = b /\ UNCHANGED out
      ELSE \/ /\ ~Known    \* LEN and NLEN disagree
              /\ Stop("BAD_DATA") /\ bits' = r /\ UNCHANGED out
           \/ /\ y.len > space - out.next
              /\ Stop("INSUFFICIENT_SPACE") /\ bits' = r /\ UNCHANGED out
           \/ /\ y.len <= space - out.next /\ given < to
              /\ Stop("BAD_DATA") /\ bits' = r /\ UNCHANGED out
           \/ /\ y.len <= space - out.next /\ to <= given
              /\ out' = Written(y.len, y.len)
              /\ BlockDone([r EXCEPT !.next = to],
                           out.next + y.len, y.final)

\* Slip: the tables of an earlier static block are there whatever came since.
HeaderKeepsLoaded(t) ==
  IF t = "static" THEN IF d.loaded THEN d ELSE [loaded |-> TRUE, tables |-> "static"] ELSE d

\* The decompressor once it knows a block's type.
Header(t) ==
  IF t = "static" THEN IF d.loaded THEN d ELSE [loaded |-> TRUE, tables |-> "static"]
  ELSE [d EXCEPT !.loaded = FALSE]

NextBlock ==
  /\ pc = "next_block"
  /\ LET b == REFILL_BITS(bits)
     IN  IF TooFarOver(b)
         THEN Stop("BAD_DATA") /\ bits' = b /\ UNCHANGED <<out, final, type, d, source>>
         ELSE \/ /\ source = <<>>   \* the fourth type, which zeroes do not make up
                 /\ final' \in BOOLEAN /\ type' = "reserved"
                 /\ Stop("BAD_DATA") /\ bits' = b /\ UNCHANGED <<out, d, source>>
              \/ \E y \in Coming({"block", "stored"}) :
                   /\ final' = y.final /\ Taken
                   /\ IF y.kind = "stored"
                      THEN type' = "stored" /\ Store(Consume(b, 3), y) /\ UNCHANGED d
                      ELSE /\ type' = y.type /\ d' = Header(y.type)
                           /\ bits' = Consume(b, 3)
                           /\ pc' = IF y.type = "static" THEN "have_decode_tables"
                                    ELSE "prelens"
                           /\ UNCHANGED <<out, status>>
  /\ UNCHANGED <<given, space, extras>>

\* The counts and the precode's lengths, and its table unless they are no code.
PrecodeLens ==
  /\ pc = "prelens"
  /\ \E y \in Coming({"prelens"}) :
       LET one(b) == Consume(IF b.left < 3 THEN REFILL_BITS(b) ELSE b, 3)
           b == IF CAN_CONSUME(3 * 18)
                THEN Consume(REFILL_BITS(Consume(bits, 17)), 3 * (y.n - 1))
                ELSE FoldSeq(LAMBDA k, c : one(c), Consume(bits, 14), [k \in 1..y.n |-> k])
       IN  /\ bits' = b /\ Taken
           /\ \/ /\ TooFarOver(b) \/ ~Known
                 /\ Stop("BAD_DATA") /\ UNCHANGED d
              \/ /\ ~TooFarOver(b)
                 /\ d' = [d EXCEPT !.tables = "precode"]
                 /\ pc' = "first_len" /\ UNCHANGED status
  /\ UNCHANGED <<given, space, out, final, type, extras>>

\* One of the items that make up the codeword lengths.  The first cannot repeat
\* the length before it; an item that does has two bits after its codeword.
CodewordLens ==
  /\ pc \in {"first_len", "lens"} /\ MayBe("item")
  /\ LET b == IF bits.left < 7 + 7 THEN REFILL_BITS(bits) ELSE bits
     IN  IF TooFarOver(b) THEN Stop("BAD_DATA") /\ bits' = b /\ UNCHANGED source
         ELSE \E y \in Coming({"item"}) : Taken /\
                \/ bits' = Consume(b, y.bits) /\ pc' = "lens" /\ UNCHANGED status
                \/ /\ pc = "first_len" /\ ~Known /\ y.bits \in 3..9
                   /\ bits' = Consume(b, y.bits - 2) /\ Stop("BAD_DATA")
  /\ UNCHANGED <<given, space, out, final, type, extras, d>>

BuildTables ==
  /\ pc = "lens" /\ MayNotBe("item")
  /\ \/ /\ source = <<>>   \* too many lengths, or lengths that are no code
        /\ Stop("BAD_DATA") /\ UNCHANGED d
     \/ /\ d' = [d EXCEPT !.tables = "dynamic"]
        /\ pc' = "have_decode_tables" /\ UNCHANGED status
  /\ UNCHANGED <<bits, given, space, out, final, type, extras, source>>

-----------------------------------------------------------------------
InFastloop(b, o) == b.next < in_fastloop_end /\ o.next < out_fastloop_end

HaveDecodeTables ==
  /\ pc = "have_decode_tables"
  /\ IF InFastloop(bits, out)
     THEN pc' = "fastloop" /\ bits' = Preload(REFILL_BITS_IN_FASTLOOP(bits), LITLEN_TABLEBITS)
     ELSE pc' = "generic_loop" /\ UNCHANGED bits
  /\ extras' = 0
  /\ UNCHANGED <<given, space, out, final, type, d, source, status>>

\* The end of an iteration: preload the next entry, refill, look at the ends.
Iterate(b, o) ==
  LET r == REFILL_BITS_IN_FASTLOOP(Preload(b, LITLEN_TABLEBITS))
  IN  /\ bits' = r /\ out' = o
      /\ pc' = IF InFastloop(r, o) THEN "fastloop" ELSE "generic_loop"
      /\ extras' = 0 /\ UNCHANGED status

RoomForExtras ==
  /\ CAN_CONSUME_AND_THEN_PRELOAD(2 * LITLEN_TABLEBITS + LENGTH_MAXBITS, OFFSET_TABLEBITS)
  /\ CAN_CONSUME_AND_THEN_PRELOAD(2 * LITLEN_TABLEBITS + 15, LITLEN_TABLEBITS)

IsFastLiteral(y) == y.kind = "lit" /\ y.code <= LITLEN_TABLEBITS

FastLiteral ==
  /\ pc = "fastloop"
  /\ \E y \in Coming({"lit"}) :
       /\ IsFastLiteral(y) /\ Taken
       /\ LET b == Consume(bits, y.code)
          IN  IF RoomForExtras /\ extras < 2
              THEN /\ bits' = Preload(b, LITLEN_TABLEBITS)
                   /\ out' = Written(1, 1) /\ extras' = extras + 1
                   /\ UNCHANGED <<pc, status>>
              ELSE Iterate(b, Written(1, 1))
  /\ UNCHANGED <<given, space, final, type, d>>

\* The bits after a litlen entry and, where the codeword needs one, a subtable's.
AfterLitlen(y) ==
  LET extra == IF y.kind = "match" THEN deflate_extra_length_bits[y.slot] ELSE 0
      b == Consume(Consume(bits, LITLEN_TABLEBITS), y.code - LITLEN_TABLEBITS + extra)
  IN  IF y.code <= LITLEN_TABLEBITS THEN Consume(bits, y.code + extra)
      ELSE IF CAN_CONSUME_AND_THEN_PRELOAD(15, LITLEN_TABLEBITS) /\
              CAN_CONSUME_AND_THEN_PRELOAD(LENGTH_MAXBITS, OFFSET_TABLEBITS) THEN b
      ELSE REFILL_BITS_IN_FASTLOOP(b)

\* The bits after the offset's entry and its extra bits.
AfterOffset(c, y) ==
  LET b == Preload(c, OFFSET_TABLEBITS)
      slow == y.offcode > OFFSET_TABLEBITS
      rest == deflate_extra_offset_bits[y.oslot] + y.offcode -
              (IF slow THEN OFFSET_TABLEBITS ELSE 0)
      full == REFILL_BITS_IN_FASTLOOP(b)
      ready == IF CAN_CONSUME_AND_THEN_PRELOAD(OFFSET_MAXBITS, LITLEN_TABLEBITS)
               THEN IF slow
                    THEN Consume(RefillBelow(b, OFFSET_MAXBITS + LITLEN_TABLEBITS - PRELOAD_SLACK),
                                 OFFSET_TABLEBITS)
                    ELSE RefillBelow(b, OFFSET_MAXFASTBITS + LITLEN_TABLEBITS - PRELOAD_SLACK)
               ELSE IF slow THEN REFILL_BITS_IN_FASTLOOP(Consume(full, OFFSET_TABLEBITS))
                    ELSE full
  IN  Consume(ready, rest)

\* How far a match copy writes: words in groups, past the match's end.
CopyEnd(len, off) ==
  IF ~build.fast THEN len
  ELSE IF off >= W THEN 5 * W * UpTo(len, 5 * W)
  ELSE IF off = 1 THEN 4 * W * UpTo(len, 4 * W)
  ELSE (2 * Most(2, UpTo(len, 2 * off)) - 1) * off + W

LengthOfMatch(y) == deflate_length_slot_base[y.slot] + y.extra
OffsetOf(y)      == deflate_offset_slot_base[y.oslot] + y.oextra

FastOther ==
  /\ pc = "fastloop"
  /\ \E y \in Coming({"lit", "end", "match"}) :
       /\ ~IsFastLiteral(y) /\ Taken
       /\ LET b == AfterLitlen(y)
              c == AfterOffset(b, y)
              before == IF CAN_CONSUME_AND_THEN_PRELOAD(
                             Most(OFFSET_MAXBITS - OFFSET_TABLEBITS, OFFSET_MAXFASTBITS),
                             LITLEN_TABLEBITS)
                        THEN c ELSE RefillBelow(c, LITLEN_TABLEBITS - PRELOAD_SLACK)
              len == LengthOfMatch(y)
          IN  CASE y.kind = "lit" -> Iterate(b, Written(1, 1))
                [] y.kind = "end" -> BlockDone(b, out.next, final) /\ UNCHANGED <<out, extras>>
                [] y.kind = "match" ->
                     IF OffsetOf(y) > out.next
                     THEN Stop("BAD_DATA") /\ bits' = c /\ UNCHANGED <<out, extras>>
                     ELSE Iterate(before, Written(len, CopyEnd(len, OffsetOf(y))))
  /\ UNCHANGED <<given, space, final, type, d>>

\* An iteration of the loop that looks where the buffers end.
GenericLoop ==
  /\ pc = "generic_loop"
  /\ LET b == REFILL_BITS(bits)
         stays(c) == bits' = c /\ UNCHANGED <<pc, status>>
     IN  IF TooFarOver(b) THEN Stop("BAD_DATA") /\ bits' = b /\ UNCHANGED <<out, source>>
         ELSE \E y \in Coming({"lit", "end", "match"}) : Taken /\
           CASE y.kind = "lit" ->
                  IF out.next = space
                  THEN Stop("INSUFFICIENT_SPACE") /\ bits' = Consume(b, y.code) /\ UNCHANGED out
                  ELSE out' = Written(1, 1) /\ stays(Consume(b, y.code))
             [] y.kind = "end" -> BlockDone(Consume(b, y.code), out.next, final) /\ UNCHANGED out
             [] y.kind = "match" ->
                  LET len == LengthOfMatch(y)
                      a == Consume(b, y.code + deflate_extra_length_bits[y.slot])
                      c == IF CAN_CONSUME(LENGTH_MAXBITS + OFFSET_MAXBITS) THEN a ELSE REFILL_BITS(a)
                      slow == y.offcode > OFFSET_TABLEBITS
                      e == IF ~slow THEN c
                           ELSE IF CAN_CONSUME(OFFSET_MAXBITS) THEN Consume(c, OFFSET_TABLEBITS)
                           ELSE REFILL_BITS(Consume(c, OFFSET_TABLEBITS))
                      f == Consume(e, deflate_extra_offset_bits[y.oslot] + y.offcode -
                                      (IF slow THEN OFFSET_TABLEBITS ELSE 0))
                  IN  IF len > space - out.next
                      THEN Stop("INSUFFICIENT_SPACE") /\ bits' = a /\ UNCHANGED out
                      ELSE IF TooFarOver(e) \/ OffsetOf(y) > out.next
                      THEN Stop("BAD_DATA") /\ bits' = e /\ UNCHANGED out
                      ELSE out' = Written(len, len) /\ stays(f)
  /\ UNCHANGED <<given, space, final, type, extras, d>>

InInit ==
  /\ pc = "idle" /\ status = "none"
  /\ bits = [next |-> 0, left |-> 0, over |-> 0, held |-> 0, past |-> FALSE, short |-> FALSE]
  /\ given = 0 /\ space = 0 /\ out = [next |-> 0, past |-> FALSE]
  /\ final = FALSE /\ type = "none" /\ extras = 0 /\ source = <<>>
  /\ d = [loaded |-> FALSE, tables |-> "none"]

Decompress(size, room, symbols) ==
  /\ pc \in {"idle", "stopped"}
  /\ pc' = "next_block" /\ status' = "running"
  /\ bits' = [next |-> 0, left |-> 0, over |-> 0, held |-> 0, past |-> FALSE, short |-> FALSE]
  /\ given' = size /\ space' = room /\ out' = [next |-> 0, past |-> FALSE]
  /\ final' = FALSE /\ type' = "none" /\ extras' = 0
  /\ source' = symbols
  /\ UNCHANGED d

InStep == NextBlock \/ PrecodeLens \/ CodewordLens \/ BuildTables \/ HaveDecodeTables
          \/ FastLiteral \/ FastOther \/ GenericLoop
=======================================================================
