----------------------------- MODULE BlockCodec -----------------------------
(***************************************************************************)
(* One data block on its way through prepare_block (src/src/writer.cpp) and  *)
(* back through parse_compression_plan and decode_compressed_block           *)
(* (src/src/reader.cpp): shuffled as a whole, cut into sub-blocks that are   *)
(* compressed one by one, described by sizes, checked and decoded again.     *)
(* The reader also meets blocks and descriptors of other producers.          *)
(*                                                                         *)
(* A decoded byte is known by its index in the block, a serialized byte by   *)
(* the stream it belongs to and its place there.  The codec libraries are    *)
(* external: a stream can have any length, and decodes to what went in if    *)
(* it is offered whole and with the right output size.                       *)
(***************************************************************************)
EXTENDS Integers, Sequences, FiniteSets

CONSTANTS
  Requests,      \* blocks for the writer: [size, item, shuffle, chunk]
  Descriptors,   \* blocks of other producers, see Descriptor
  Growth,        \* a stream is at most this much longer than its input
  MaxSerialized, \* the serialized budgets of writer and reader
  MaxSubblocks,  \* max_compression_subblocks, max_compressed_subblocks
  MaxRatio,      \* ReaderOptions::max_decompression_ratio
  MaxDecoded,    \* the reader's decoded budget of the block
  CodecLimit,    \* uInt and int of the zlib and LZ4 decoders; zstd has no such limit
  Word           \* 2^64 in the code

\* BlockPrepareRequest; `chunk` is compression_subblock_bytes after the codec's
\* own limit.  The typed extent and the item size are in the XML as well.
Request == [size : Nat \ {0}, item : Nat \ {0}, shuffle : BOOLEAN,
            chunk : Nat \ {0}]

\* compression="codec:declared[:item]" subblocks="c,u:c,u:..." of `serialized`
\* bytes, for a block whose type asks for `size` bytes and `item` per element.
Descriptor == [size : Nat, item : Nat \ {0}, shuffle : BOOLEAN,
               declared : Nat, declaredItem : Nat, serialized : Nat,
               subblocks : Seq(Nat \X Nat)]

ASSUME CodecAssumption ==
  /\ Requests \subseteq Request /\ Descriptors \subseteq Descriptor
  /\ Growth \in Nat /\ MaxSerialized \in Nat /\ MaxSubblocks \in Nat \ {0}
  /\ MaxRatio \in Nat \ {0} /\ MaxDecoded \in Nat /\ Word \in Nat
  /\ CodecLimit \in Nat
  /\ MaxDecoded < Word /\ MaxSerialized < Word

VARIABLES
  request,   \* the writer's request, or NoRequest for a foreign block
  step,      \* "idle", "compress", "parse", "decode", "ok", "failed"
  streams,   \* what was compressed, in order: input bytes and length
  stored,    \* the serialized bytes: the spool, or block.storage
  taken,     \* input_offset of prepare_block
  descr,     \* the descriptor in the header
  totals,    \* total_compressed and total_uncompressed
  plan,      \* CompressionPlan::subblocks
  from, to,  \* input_offset and output_offset of decode_compressed_block
  decoded,   \* sub-blocks decoded so far
  output,    \* the destination: the byte at each place, or Unknown
  result

writing == <<request, streams, stored, taken>>
reading == <<totals, plan, from, to, decoded, output>>
vars == <<step, writing, descr, reading, result>>

Unknown == -1
NoRequest == [size |-> 0, item |-> 1, shuffle |-> FALSE, chunk |-> 1]
NoDescr == [size |-> 0, item |-> 1, shuffle |-> FALSE, declared |-> 0,
            declaredItem |-> 1, serialized |-> 0, subblocks |-> << >>]

CodecErrors == {"cancelled", "resource_limit", "overflow", "invalid_block",
                "codec"}

TypeOK ==
  /\ request \in Requests \cup {NoRequest}
  /\ step \in {"idle", "compress", "parse", "decode", "ok", "failed"}
  /\ streams \in Seq([bytes : Seq(Nat), size : Nat \ {0}])
  /\ stored \in Seq(Nat \X Nat)
  /\ taken \in Nat /\ taken <= request.size
  /\ descr \in Descriptor
  /\ totals \in (0 .. Word - 1) \X (0 .. Word - 1)
  /\ plan \in Seq(Nat \X Nat)
  /\ from \in Nat /\ to \in Nat /\ decoded \in 0 .. Len(plan)
  /\ DOMAIN output = 0 .. descr.size - 1
  /\ \A i \in DOMAIN output : output[i] \in Nat \cup {Unknown}
  /\ result \in CodecErrors \cup {"none", "ok"}

Init ==
  /\ request = NoRequest /\ step = "idle"
  /\ streams = << >> /\ stored = << >> /\ taken = 0
  /\ descr = NoDescr
  /\ totals = <<0, 0>> /\ plan = << >> /\ from = 0 /\ to = 0 /\ decoded = 0
  /\ output = [i \in {} |-> Unknown]
  /\ result = "none"

Fail(e) ==
  /\ step' = "failed" /\ result' = e
  /\ UNCHANGED <<writing, descr, reading>>

Least(m, n) == IF m < n THEN m ELSE n

-----------------------------------------------------------------------------
(* Byte shuffling: byte b of item i goes to place b * items + i; bytes that   *)
(* make up no whole item stay.  The writer gathers, the reader scatters.      *)

\* shuffled_range: where the byte at place g of the shuffled block comes from.
ShuffledFrom(size, item, g) ==
  LET items == size \div item
  IN IF g < items * item THEN (g % items) * item + g \div items ELSE g

\* Mutant: the odd bytes at the end are taken for part of an item.
ScatteredToMutant(size, item, g) ==
  LET items == (size + item - 1) \div item
  IN IF g < items * item THEN (g % items) * item + g \div items ELSE g

\* scatter_unshuffled_bytes: where the byte at place g of the shuffled block
\* belongs.  Its own check of the geometry is left out: an accepted plan keeps
\* each sub-block inside the block, as DecodesInBounds says.
ScatteredTo(size, item, g) ==
  LET items == size \div item
      whole == items * item
  IN IF g < whole THEN (g % items) * item + (g \div items) ELSE g

-----------------------------------------------------------------------------
(* prepare_block *)

Prepare(r) ==
  /\ step = "idle"
  /\ request' = r /\ step' = "compress"
  /\ UNCHANGED <<streams, stored, taken, descr, reading, result>>

UseSpool == request.size > request.chunk

\* shuffled_range or the plain subspan: the input of the next stream.
Input ==
  LET n == Least(request.chunk, request.size - taken)
  IN [j \in 1 .. n |->
        IF request.shuffle
        THEN ShuffledFrom(request.size, request.item, taken + j - 1)
        ELSE taken + j - 1]

\* A spool grows, memory holds the last stream.
Keep(cells) == IF UseSpool THEN stored \o cells ELSE cells

\* The first n sizes together.
SumOf(sizes, n) ==
  LET sum[i \in 0 .. n] == IF i = 0 THEN 0 ELSE sum[i - 1] + sizes[i]
  IN sum[n]

\* serialized_so_far, and what it leaves of the budget.
Serialized == SumOf([k \in DOMAIN streams |-> streams[k].size], Len(streams))
Budget == MaxSerialized - Serialized

CompressChunk ==
  /\ step = "compress" /\ taken < request.size
  /\ \/ Fail("cancelled")
     \/ (Len(streams) >= MaxSubblocks \/ Budget <= 0) /\ Fail("resource_limit")
     \/ /\ Len(streams) < MaxSubblocks /\ Budget > 0
        /\ \E n \in 1 .. Len(Input) + Growth :
             \/ n > Budget /\ Fail("resource_limit")
             \/ /\ n <= Budget
                /\ streams' = Append(streams, [bytes |-> Input, size |-> n])
                /\ stored' = Keep([j \in 1 .. n |-> <<Len(streams) + 1, j>>])
                /\ taken' = taken + Len(Input)
                /\ UNCHANGED <<request, step, descr, reading, result>>

SubblockSizes ==
  [k \in DOMAIN streams |-> <<streams[k].size, Len(streams[k].bytes)>>]

\* The strings that go into the header; a single stream needs no list.
Describe ==
  /\ step = "compress" /\ taken = request.size
  /\ descr' = [size |-> request.size, item |-> request.item,
               shuffle |-> request.shuffle, declared |-> request.size,
               declaredItem |-> request.item, serialized |-> Serialized,
               subblocks |-> IF Len(streams) > 1 THEN SubblockSizes ELSE << >>]
  /\ output' = [i \in 0 .. request.size - 1 |-> Unknown]
  /\ step' = "parse"
  /\ UNCHANGED <<writing, totals, plan, from, to, decoded, result>>

\* A header and a block from somebody else; nothing is known of the bytes.
Foreign(d) ==
  /\ step = "idle"
  /\ descr' = d
  /\ stored' = [j \in 1 .. d.serialized |-> <<0, j>>]
  /\ output' = [i \in 0 .. d.size - 1 |-> Unknown]
  /\ step' = "parse"
  /\ UNCHANGED <<request, streams, taken, totals, plan, from, to, decoded,
                 result>>

-----------------------------------------------------------------------------
(* parse_compression_plan *)

\* checked_multiply, saturating.
MaxOutput == Least(descr.serialized * MaxRatio, Word - 1)

Oversized == descr.serialized > MaxSerialized

Malformed ==
  \/ descr.declared = 0
  \/ descr.declared # descr.size
  \/ descr.shuffle /\ descr.declaredItem # descr.item
  \/ descr.serialized = 0

TooLarge == descr.declared > MaxOutput \/ descr.declared > MaxDecoded

Plausible == ~Oversized /\ ~Malformed /\ ~TooLarge

\* The whole block is one stream, or the pairs follow one by one.
ParseBlock ==
  /\ step = "parse" /\ plan = << >>
  /\ \/ Oversized /\ Fail("resource_limit")
     \/ ~Oversized /\ Malformed /\ Fail("invalid_block")
     \/ ~Oversized /\ ~Malformed /\ TooLarge /\ Fail("resource_limit")
     \/ /\ Plausible /\ descr.subblocks = << >>
        /\ plan' = <<<<descr.serialized, descr.declared>>>>
        /\ step' = "decode"
        /\ UNCHANGED <<writing, descr, totals, from, to, decoded, output,
                       result>>

\* Mutant: the sums wrap around.
AddMutant(m, n) == (m + n) % Word
Add(m, n) == m + n

Pair == descr.subblocks[Len(plan) + 1]
Sums == <<Add(totals[1], Pair[1]), Add(totals[2], Pair[2])>>

\* Mutant: the sums are not compared with what a uint64_t holds.
FitsMutant == TRUE

Fits == Sums[1] < Word /\ Sums[2] < Word

ParsePair ==
  /\ step = "parse" /\ Plausible
  /\ Len(plan) < Len(descr.subblocks)
  /\ \/ Len(plan) >= MaxSubblocks /\ Fail("resource_limit")
     \/ /\ Len(plan) < MaxSubblocks
        /\ 0 \in {Pair[1], Pair[2]} /\ Fail("invalid_block")
     \/ /\ Len(plan) < MaxSubblocks /\ 0 \notin {Pair[1], Pair[2]}
        /\ ~Fits /\ Fail("overflow")
     \/ /\ Len(plan) < MaxSubblocks /\ 0 \notin {Pair[1], Pair[2]}
        /\ Fits
        /\ totals' = Sums /\ plan' = Append(plan, Pair)
        /\ UNCHANGED <<step, writing, descr, from, to, decoded, output, result>>

TotalsMatch == totals = <<descr.serialized, descr.declared>>

ParseTotals ==
  /\ step = "parse" /\ plan # << >> /\ Len(plan) = Len(descr.subblocks)
  /\ \/ ~TotalsMatch /\ Fail("invalid_block")
     \/ TotalsMatch /\ step' = "decode"
        /\ UNCHANGED <<writing, descr, reading, result>>

-----------------------------------------------------------------------------
(* decode_compressed_block *)

Slice == SubSeq(stored, from + 1, from + plan[decoded + 1][1])
Room == plan[decoded + 1][2]

\* The library takes the slice for a whole stream of just that output size.
Stream(k) == [j \in 1 .. streams[k].size |-> <<k, j>>]
Whole(k) == Slice = Stream(k) /\ Room = Len(streams[k].bytes)

\* decompress_zlib and decompress_lz4 count in less than 64 bits.
TooLong == plan[decoded + 1][1] > CodecLimit \/ Room > CodecLimit

\* Where the j-th byte of the sub-block goes.
Target(j) ==
  IF descr.shuffle THEN ScatteredTo(descr.size, descr.item, to + j - 1)
  ELSE to + j - 1

DecodeChunk ==
  /\ step = "decode" /\ decoded < Len(plan)
  /\ \/ Fail("cancelled")
     \/ TooLong /\ Fail("resource_limit")
     \/ ~TooLong /\ ~(\E k \in DOMAIN streams : Whole(k)) /\ Fail("codec")
     \/ \E k \in DOMAIN streams :
          /\ ~TooLong /\ Whole(k)
          /\ output' = [i \in DOMAIN output |->
                          IF \E j \in 1 .. Room : Target(j) = i
                          THEN streams[k].bytes[CHOOSE j \in 1 .. Room :
                                                  Target(j) = i]
                          ELSE output[i]]
          /\ from' = from + plan[decoded + 1][1]
          /\ to' = to + Room /\ decoded' = decoded + 1
          /\ UNCHANGED <<step, writing, descr, totals, plan, result>>
     \/ \* a stream of another producer may be well formed
        /\ ~TooLong /\ streams = << >>
        /\ from' = from + plan[decoded + 1][1]
        /\ to' = to + Room /\ decoded' = decoded + 1
        /\ UNCHANGED <<step, writing, descr, totals, plan, output, result>>

Deliver ==
  /\ step = "decode" /\ decoded = Len(plan)
  /\ step' = "ok" /\ result' = "ok"
  /\ UNCHANGED <<writing, descr, reading>>

-----------------------------------------------------------------------------

Next ==
  \/ \E r \in Requests : Prepare(r)
  \/ \E d \in Descriptors : Foreign(d)
  \/ CompressChunk \/ Describe
  \/ ParseBlock \/ ParsePair \/ ParseTotals
  \/ DecodeChunk \/ Deliver

Spec == Init /\ [][Next]_vars

-----------------------------------------------------------------------------
(* Properties. *)

Ours == request # NoRequest

\* A block the writer prepared comes back byte for byte, and the reader never
\* calls it malformed: only a cancellation can keep it from being read, or that it
\* really exceeds the ratio or the size the reader allows, or one of its sub-blocks
\* what a decoder can count (prepare_block, shuffled_range; parse_compression_plan,
\* decode_compressed_block, decompress_zlib, scatter_unshuffled_bytes).
ReadsBack ==
  /\ Ours /\ step = "ok" => \A i \in DOMAIN output : output[i] = i
  /\ Ours => result \notin {"invalid_block", "overflow", "codec"}
  /\ Ours /\ descr # NoDescr /\ result = "resource_limit" =>
       \/ request.size > Least(MaxDecoded, Len(stored) * MaxRatio)
       \/ \E k \in DOMAIN streams :
            streams[k].size > CodecLimit \/ Len(streams[k].bytes) > CodecLimit

\* Whatever a header declares, a plan that was accepted never takes the decoder
\* outside the serialized bytes or the destination (decode_compressed_block
\* slices both without a check of its own); and a decoded block was filled to its
\* last byte and used all that was stored.
DecodesInBounds ==
  /\ step = "decode" /\ decoded < Len(plan) =>
       /\ from + plan[decoded + 1][1] <= Len(stored)
       /\ to + Room <= descr.size
       /\ \A j \in 1 .. Room : Target(j) \in DOMAIN output
  /\ step = "ok" => from = Len(stored) /\ to = descr.size

-----------------------------------------------------------------------------
(* The inductive invariant behind these properties.                          *)

\* The lengths of the streams, and of the input of each.
StreamSizes == [k \in DOMAIN streams |-> streams[k].size]
InputSizes == [k \in DOMAIN streams |-> Len(streams[k].bytes)]

\* Where the first k streams, or their inputs, end.
StreamEnd(k) == SumOf(StreamSizes, k)
InputEnd(k) == SumOf(InputSizes, k)

\* The byte at place g of what is compressed.
Gathered(g) ==
  IF request.shuffle THEN ShuffledFrom(request.size, request.item, g) ELSE g

\* The sizes a plan gives for its sub-blocks.
Compressed(p) == [k \in DOMAIN p |-> p[k][1]]
Uncompressed(p) == [k \in DOMAIN p |-> p[k][2]]

\* The streams hold the block from its first byte to `taken`, one after the other,
\* and the spool holds the streams.
InvWriting ==
  /\ \A k \in DOMAIN streams :
       /\ streams[k].bytes # << >>
       /\ \A j \in DOMAIN streams[k].bytes :
            streams[k].bytes[j] = Gathered((InputEnd(k - 1) + j) - 1)
  /\ taken = InputEnd(Len(streams))
  /\ \A k \in DOMAIN streams : \A j \in 1 .. streams[k].size :
       stored[StreamEnd(k - 1) + j] = <<k, j>>
  /\ Ours => Len(stored) = Serialized
  /\ Serialized <= MaxSerialized /\ Len(streams) <= MaxSubblocks
  /\ streams # << >> => Ours /\ (UseSpool \/ taken = request.size)

\* What was written, once it is described.
Described ==
  [size |-> request.size, item |-> request.item, shuffle |-> request.shuffle,
   declared |-> request.size, declaredItem |-> request.item,
   serialized |-> Serialized,
   subblocks |-> IF Len(streams) > 1 THEN SubblockSizes ELSE << >>]

\* What each step has established, and has not touched yet.
InvPhases ==
  /\ step = "idle" => ~Ours /\ streams = << >> /\ stored = << >>
  /\ step \in {"idle", "compress"} =>
       /\ descr = NoDescr /\ plan = << >> /\ totals = <<0, 0>>
  /\ step = "compress" => Ours
  /\ step \in {"idle", "compress", "parse"} => from = 0 /\ to = 0 /\ decoded = 0
  /\ step \in {"parse", "decode", "ok"} =>
       /\ Len(stored) = descr.serialized
       /\ Ours => descr = Described /\ taken = request.size
  /\ step \notin {"ok", "failed"} => result = "none"
  /\ step = "ok" => result = "ok"

\* The plan is the list in the header as far as it was read, and the totals are
\* its sums; a plan that is decoded from is whole and adds up to the block.
InvPlan ==
  /\ step = "parse" =>
       /\ Len(plan) <= Len(descr.subblocks)
       /\ \A k \in DOMAIN plan : plan[k] = descr.subblocks[k]
       /\ totals = <<SumOf(Compressed(plan), Len(plan)),
                     SumOf(Uncompressed(plan), Len(plan))>>
  /\ plan # << >> => Plausible
  /\ step \in {"decode", "ok"} =>
       /\ plan # << >>
       /\ SumOf(Compressed(plan), Len(plan)) = descr.serialized
       /\ SumOf(Uncompressed(plan), Len(plan)) = descr.declared
       /\ Ours => plan = SubblockSizes

\* The decoder stands where its sub-blocks begin; what it has put anywhere is
\* right, and it has been to every place of the sub-blocks so far.
InvDecoding ==
  step \in {"parse", "decode", "ok"} =>
    /\ from = SumOf(Compressed(plan), decoded)
    /\ to = SumOf(Uncompressed(plan), decoded)
    /\ step = "ok" => decoded = Len(plan)
    /\ Ours => /\ \A i \in DOMAIN output : output[i] \in {i, Unknown}
               /\ \A g \in 0 .. to - 1 : output[Gathered(g)] # Unknown

IInv == TypeOK /\ InvWriting /\ InvPhases /\ InvPlan /\ InvDecoding /\ ReadsBack
=============================================================================
