---------------------------- MODULE Stream -----------------------------
(***************************************************************************)
(* A stream on its way from the compressor of tools/deflate, in a buffer   *)
(* that may be too small, to the decompressor, in whole or in part; and    *)
(* streams of any content for the same decompressor after it.              *)
(***************************************************************************)
EXTENDS InStream

CONSTANTS
  Cuts,      \* how much of a stream arrives, relative to its end
  Rooms,     \* buffers for what it holds, relative to its length
  Openings   \* streams of any content: [given, space, source]

VARIABLE from  \* "sent" if the decompressor reads the compressor's stream

vars == <<outVars, inVars, from>>

\* The words of the builds, and what blocks and streams are made of.  Two blocks
\* of minimum length fit an uncompressed one, and only the last block of an input
\* may be shorter (what deflate_flush_block and compress_bound assert).
ASSUME StreamAssumption ==
  /\ Builds \subseteq [word : {4, 8}, fast : BOOLEAN]
  /\ {MinBlock, StoredMax} \subseteq Nat \ {0} /\ LenBytes \in Nat
  /\ 2 * MinBlock <= StoredMax
  /\ Plans \subseteq Seq(Blocks) /\ AnySymbols \subseteq SymbolSet
  /\ \A p \in Plans : \A i \in DOMAIN p :
       Bytes(p[i].items) >= IF i < Len(p) THEN MinBlock ELSE 1
  /\ Openings \subseteq [given : Nat, space : Nat, source : Seq(SymbolSet)]
  /\ Avails \cup Cuts \cup Rooms \subseteq Int

Init == OutInit /\ InInit /\ from = "none"

OpenSent ==
  /\ from = "none" /\ result > 0
  /\ \E c \in Cuts, r \in Rooms :
       /\ result + c >= 0 /\ in_nbytes + r >= 0
       /\ Decompress(result + c, in_nbytes + r, sent)
  /\ from' = "sent"
  /\ os' = BitStream(0) /\ block' = [at |-> os', cost |-> NotYet]
  /\ UNCHANGED <<build, in_nbytes, plan, todo, sent, result>>

\* The compressor is forgotten: its output may as well be lost.
OpenAny ==
  /\ from # "none" \/ result = 0
  /\ \E o \in Openings : Decompress(o.given, o.space, o.source)
  /\ from' = "any"
  /\ in_nbytes' = 0 /\ plan' = <<>> /\ sent' = <<>> /\ result' = 0
  /\ os' = BitStream(0) /\ block' = [at |-> os', cost |-> NotYet]
  /\ UNCHANGED <<build, todo>>

Next == \/ OutStep /\ UNCHANGED <<inVars, from>>
        \/ InStep /\ UNCHANGED <<outVars, from>>
        \/ OpenSent \/ OpenAny

Spec == Init /\ [][Next]_vars

-----------------------------------------------------------------------
\* A buffer of the size libdeflate_deflate_compress_bound returns is enough,
\* whatever blocks the input is cut into, and for an empty input.
BoundEnough ==
  result = 0 /\ from # "any" => os.avail < compress_bound(in_nbytes)

\* The compressor writes nothing beyond its buffer (a word at a time included)
\* and never holds more bits than its word has.
OutputInside ==
  os.touched <= Most(os.avail, 0) /\ os.peak <= 8 * build.word - 1

\* A block takes as many bits as it was chosen for, or it reached the end of the
\* buffer: the assertion at the end of deflate_flush_block.
CostCounted ==
  block.cost # NotYet /\ todo = <<>> /\ result = NotYet =>
    \/ 8 * (os.next - block.at.next) + os.bitcount - block.at.bitcount = 3 + block.cost
    \/ os.next = os.end

\* No decision rests on bits the word does not hold.
BitsHeld == ~bits.short

\* Neither loop reads beyond the input, nor writes beyond the output.
BuffersKept == ~bits.past /\ ~out.past

\* A block is decoded with the tables of its own kind.
OwnTables ==
  /\ pc \in {"fastloop", "generic_loop"} => d.tables = type
  /\ d.loaded => d.tables = "static"

\* What the compressor reports as whole is decoded to its input, and the end of
\* the stream is found to the byte; a stream that was cut is refused, and so is
\* a buffer too small for it.
RoundTrip ==
  from = "sent" /\ pc = "stopped" =>
    IF given < result THEN status \in {"BAD_DATA", "INSUFFICIENT_SPACE"}
    ELSE IF space < in_nbytes THEN status = "INSUFFICIENT_SPACE"
    ELSE /\ status = "SUCCESS" \/ (status = "SHORT_OUTPUT" /\ space > in_nbytes)
         /\ bits.next = result /\ out.next = in_nbytes
=======================================================================
