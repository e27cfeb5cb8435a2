------------------------------ MODULE BlockRead ------------------------------
(***************************************************************************)
(* The reads that return a whole block (src/src/reader.cpp): read_image_into  *)
(* with its conversions, and read_property_block, read_icc_profile and        *)
(* read_thumbnail, which are its special cases with a buffer of their own.    *)
(* They run concurrently over one FileSource.                                *)
(*                                                                         *)
(* A block that needs no codec and no checksum is read straight into the      *)
(* destination.  Any other is staged: all of it is read, then verified, then  *)
(* decoded.  The codec is taken apart in BlockCodec; here it keeps every byte *)
(* in its place, and may fail on bytes that are not the declared ones.        *)
(***************************************************************************)
EXTENDS FileSource

CONSTANTS
  Plans,       \* what the clients may read: each maps a client to a BlockPlan
  Chunk,       \* kReadChunkBytes, 8 MiB in the code
  MaxChanges,  \* how often other programs change the file
  Damage,      \* where a byte may change, and where the file may be cut off
  MayStop      \* the reads that may be asked to stop

\* An ImageReadPlan and the options of the call: the attachment, how it is
\* stored, the shape of the image, and the conversions that were asked for.
\* A component is what the byte order is about: half of a complex sample.
BlockPlan ==
  [offset : Nat, compressed : BOOLEAN, checksum : BOOLEAN,
   channels : Nat \ {0}, pixels : Nat \ {0},
   components : Nat \ {0}, width : Nat \ {0},
   planar : BOOLEAN, toPlanar : BOOLEAN, swapped : BOOLEAN]

SampleSize(m) == m.components * m.width
Samples(m) == m.channels * m.pixels
Size(m) == Samples(m) * SampleSize(m)

ASSUME ReadAssumption ==
  /\ Plans \subseteq [Clients -> BlockPlan]
  /\ \A p \in Plans : \A c \in Clients :
       /\ p[c].offset + Size(p[c]) <= FileSize
       /\ p[c].planar # p[c].toPlanar => SampleSize(p[c]) <= Chunk
  /\ Chunk \in Nat \ {0} /\ MaxChanges \in Nat
  /\ Damage \subseteq 0 .. FileSize - 1
  /\ MayStop \subseteq Clients

VARIABLES
  plan,     \* the plans of the reads under way
  turn,     \* which of its Steps a client takes next
  total,    \* bytes read so far
  staging,  \* the staged bytes
  output,   \* the destination: a byte in each place, or Untouched
  stop,
  result,
  changes   \* how often the file has changed

vars == <<file, stream, reads, plan, turn, total, staging, output, stop, result,
          changes>>

Untouched == [at |-> -1, good |-> TRUE]
Garbage == [at |-> -1, good |-> FALSE]
ReadErrors == {"cancelled", "io_error", "checksum_mismatch", "invalid_block"}

\* Mutant: a checksum alone does not need staging.
StagedMutant(m) == m.compressed

Staged(m) == m.compressed \/ m.checksum

Rearranged(m) == m.planar # m.toPlanar

\* Mutant: the block is decoded first and verified afterwards.
StepsMutant(m) ==
  IF Staged(m) THEN <<"read", "decode", "verify", "convert", "done">>
  ELSE <<"read", "convert", "done">>

\* The order of the calls in read_image_into.
Steps(m) ==
  IF Staged(m) THEN <<"read", "verify", "decode", "convert", "done">>
  ELSE <<"read", "convert", "done">>

TypeOK ==
  /\ SourceTypeOK
  /\ plan \in Plans
  /\ turn \in [Clients -> Nat] /\ total \in [Clients -> Nat]
  /\ staging \in [Clients -> Seq(Byte \cup {Garbage})]
  /\ output = [c \in Clients |-> output[c]]
  /\ \A c \in Clients :
       /\ turn[c] \in DOMAIN Steps(plan[c])
       /\ total[c] <= Size(plan[c])
       /\ output[c] \in [0 .. Size(plan[c]) - 1 -> Byte \cup {Untouched, Garbage}]
  /\ result \in [Clients -> ReadErrors \cup {"none", "ok"}]
  /\ stop \in [Clients -> BOOLEAN]
  /\ changes \in 0 .. MaxChanges

Init ==
  /\ SourceInit
  /\ plan \in Plans
  /\ turn = [c \in Clients |-> 1]
  /\ total = [c \in Clients |-> 0]
  /\ staging = [c \in Clients |-> << >>]
  /\ output = [c \in Clients |-> [i \in 0 .. Size(plan[c]) - 1 |-> Untouched]]
  /\ stop = [c \in Clients |-> FALSE]
  /\ result = [c \in Clients |-> "none"]
  /\ changes = 0

-----------------------------------------------------------------------------
(* Where the bytes go. *)

\* transform_pixel_storage: sample k of the block becomes this sample.
SampleTo(m, k) ==
  LET channel == IF m.planar THEN k \div m.pixels ELSE k % m.channels
      pixel == IF m.planar THEN k % m.pixels ELSE k \div m.channels
  IN IF m.toPlanar THEN channel * m.pixels + pixel
     ELSE pixel * m.channels + channel

\* std::reverse over each component: byte b of the pixels goes here.
ByteTo(m, b) == (b \div m.width) * m.width + (m.width - 1 - (b % m.width))

\* The place of byte i of the block in the rearranged image.
Place(m, i) ==
  LET s == SampleSize(m)
      to == SampleTo(m, i \div s) * s + (i % s)
  IN IF m.swapped THEN ByteTo(m, to) ELSE to

\* `bytes`, which begin at place `first` of the block, rearranged into `into`.
Rearrange(m, into, first, bytes) ==
  [i \in DOMAIN into |->
     LET from == {j \in DOMAIN bytes : Place(m, first + j - 1) = i}
     IN IF from = {} THEN into[i] ELSE bytes[CHOOSE j \in from : TRUE]]

\* `bytes` copied to place `first`.
Copy(into, first, bytes) ==
  [i \in DOMAIN into |->
     IF i - first + 1 \in DOMAIN bytes THEN bytes[i - first + 1] ELSE into[i]]

\* swap_byte_order_in_place, up to byte n.  A reversal is its own inverse.
Swap(m, into, n) ==
  [i \in DOMAIN into |-> IF i < n THEN into[ByteTo(m, i)] ELSE into[i]]

-----------------------------------------------------------------------------

Current(c) == Steps(plan[c])[turn[c]]

Step(c, s) == result[c] = "none" /\ Current(c) = s

Fail(c, r) ==
  /\ result' = [result EXCEPT ![c] = r]
  /\ UNCHANGED <<plan, turn, total, staging, stop, changes>>

End(c, r) == Fail(c, r) /\ UNCHANGED output

Onward(c) ==
  /\ turn' = [turn EXCEPT ![c] = @ + 1]
  /\ UNCHANGED <<plan, total, stop, result, changes>>

\* transform_pixel_storage reads whole samples.
ChunkOf(m) ==
  IF Staged(m) \/ ~Rearranged(m) THEN Chunk
  ELSE (Chunk \div SampleSize(m)) * SampleSize(m)

\* Mutant: the last chunk is as long as the others.
NextChunkMutant(c) ==
  Fewer(ChunkOf(plan[c]), FileSize - plan[c].offset - total[c])

\* What is left, at most what is left of a chunk.
NextChunk(c) ==
  Fewer(ChunkOf(plan[c]) - (total[c] % ChunkOf(plan[c])),
        Size(plan[c]) - total[c])

\* copy_serialized_*, read_serialized_chunk.
AskChunk(c) ==
  /\ Step(c, "read") /\ stage[c] = "none" /\ total[c] < Size(plan[c])
  /\ \/ stop[c] /\ End(c, "cancelled") /\ UNCHANGED <<file, stream, reads>>
     \/ /\ ~stop[c] /\ Ask(c, plan[c].offset + total[c], NextChunk(c))
        /\ UNCHANGED <<plan, turn, total, staging, output, stop, result, changes>>

\* Staged bytes are collected, those to be rearranged until a chunk is whole;
\* the others go straight into the destination.
Deliver(c, bytes) ==
  LET m == plan[c]
      collected == staging[c] \o bytes
      whole == total'[c] = Size(m) \/ total'[c] % ChunkOf(m) = 0
  IN \/ /\ Staged(m) \/ (Rearranged(m) /\ ~whole)
        /\ staging' = [staging EXCEPT ![c] = collected]
        /\ UNCHANGED output
     \/ /\ ~Staged(m) /\ Rearranged(m) /\ whole
        /\ output' = [output EXCEPT ![c] =
             Rearrange(m, @, total'[c] - Len(collected), collected)]
        /\ staging' = [staging EXCEPT ![c] = << >>]
     \/ /\ ~Staged(m) /\ ~Rearranged(m)
        /\ output' = [output EXCEPT ![c] = Copy(@, total[c], bytes)]
        /\ UNCHANGED staging

\* A short read is continued; one that makes no progress is an error.
TakeChunk(c) ==
  /\ Step(c, "read") /\ Taken(c)
  /\ \/ reply[c] \in {IoError, << >>} /\ End(c, "io_error")
     \/ /\ reply[c] \notin {IoError, << >>}
        /\ total' = [total EXCEPT ![c] = @ + Len(reply[c])]
        /\ Deliver(c, reply[c])
        /\ UNCHANGED <<plan, turn, stop, result, changes>>

EndRead(c) ==
  /\ Step(c, "read") /\ stage[c] = "none" /\ total[c] = Size(plan[c])
  /\ Onward(c) /\ UNCHANGED <<file, stream, reads, staging, output>>

Declared(bytes) == \A j \in DOMAIN bytes : bytes[j].good

\* verify_checksum over exactly the bytes that are decoded next.
Verify(c) ==
  /\ Step(c, "verify")
  /\ \/ plan[c].checksum /\ ~Declared(staging[c]) /\ End(c, "checksum_mismatch")
     \/ /\ plan[c].checksum => Declared(staging[c])
        /\ Onward(c) /\ UNCHANGED <<staging, output>>
  /\ UNCHANGED <<file, stream, reads>>

\* What the codec makes of the staged bytes: nothing in particular, if one of
\* them is not the declared one.
Decoded(c) ==
  IF plan[c].compressed /\ ~Declared(staging[c])
  THEN [j \in DOMAIN staging[c] |-> Garbage] ELSE staging[c]

\* decode_compressed_block, or the copy out of the staging buffer: into the
\* destination, or into a buffer of its own if it is to be rearranged.  A stop
\* or a damaged stream leaves part of the pixels behind.
Decode(c) ==
  LET m == plan[c]
      written(bytes) ==
        IF Rearranged(m) THEN output
        ELSE [output EXCEPT ![c] = Copy(@, 0, bytes)]
  IN /\ Step(c, "decode")
     /\ \/ /\ m.compressed /\ (stop[c] \/ ~Declared(staging[c]))
           /\ \E n \in 0 .. Size(m) - 1 :
                output' = written(SubSeq(Decoded(c), 1, n))
           /\ Fail(c, IF stop[c] THEN "cancelled" ELSE "invalid_block")
        \/ /\ output' = written(Decoded(c))
           /\ staging' = [staging EXCEPT ![c] = Decoded(c)]
           /\ Onward(c)
     /\ UNCHANGED <<file, stream, reads>>

\* transform_pixel_storage_from_buffer or swap_byte_order_in_place, either of
\* which may be stopped half way, or neither.
Convert(c) ==
  LET m == plan[c]
      rearranges == Staged(m) /\ Rearranged(m)
      swaps == ~Rearranged(m) /\ m.swapped /\ SampleSize(m) > 1
      converted(n) ==
        IF rearranges THEN Rearrange(m, output[c], 0, SubSeq(staging[c], 1, n))
        ELSE IF swaps THEN Swap(m, output[c], n)
        ELSE output[c]
  IN /\ Step(c, "convert")
     /\ \/ /\ (rearranges \/ swaps) /\ stop[c]
           /\ \E k \in 0 .. Samples(m) - 1 :
                output' = [output EXCEPT ![c] = converted(k * SampleSize(m))]
           /\ Fail(c, "cancelled")
        \/ /\ output' = [output EXCEPT ![c] = converted(Size(m))]
           /\ Onward(c) /\ UNCHANGED staging
     /\ UNCHANGED <<file, stream, reads>>

Return(c) ==
  /\ Step(c, "done") /\ End(c, "ok") /\ UNCHANGED <<file, stream, reads>>

ChangeFile ==
  /\ changes < MaxChanges
  /\ changes' = changes + 1
  /\ \/ \E i \in Damage : Overwrite(i)
     \/ \E n \in Damage : Shorten(n)
  /\ UNCHANGED <<plan, turn, total, staging, output, stop, result>>

RequestStop(c) ==
  /\ c \in MayStop /\ ~stop[c] /\ result[c] = "none"
  /\ stop' = [stop EXCEPT ![c] = TRUE]
  /\ UNCHANGED <<file, stream, reads, plan, turn, total, staging, output,
                 result, changes>>

InSource(c) ==
  /\ ReadAt(c)
  /\ UNCHANGED <<plan, turn, total, staging, output, stop, result, changes>>

Work(c) ==
  \/ AskChunk(c) \/ InSource(c) \/ TakeChunk(c) \/ EndRead(c)
  \/ Verify(c) \/ Decode(c) \/ Convert(c) \/ Return(c)

Next == ChangeFile \/ \E c \in Clients : Work(c) \/ RequestStop(c)

\* Every thread is scheduled.  Nothing is asked of the mutex: when the other
\* reads have ended it stays free.
Spec == Init /\ [][Next]_vars
FairSpec == Spec /\ \A c \in Clients : WF_vars(Work(c))

-----------------------------------------------------------------------------
(* Properties. *)

\* The sample of the block that belongs in place k of the result, said from
\* the meaning of the result, pixel by pixel or channel by channel.
SampleFrom(m, k) ==
  LET channel == IF m.toPlanar THEN k \div m.pixels ELSE k % m.channels
      pixel == IF m.toPlanar THEN k % m.pixels ELSE k \div m.channels
  IN IF m.planar THEN channel * m.pixels + pixel
     ELSE pixel * m.channels + channel

\* The byte of the block that belongs in place i of the destination, component
\* by component.
SourceOf(m, i) ==
  LET s == SampleSize(m)
      component == (i % s) \div m.width
      digit == (i % s) % m.width
  IN SampleFrom(m, i \div s) * s
       + (component * m.width + (IF m.swapped THEN m.width - 1 - digit ELSE digit))

\* A read that succeeds returns the bytes of its own block, each in its place,
\* however the reads of other threads used the stream meanwhile (docs/API.md:
\* read operations may run concurrently; the built-in file source serializes
\* access to its file handle).  Garbage comes only from a damaged stream that
\* no checksum covers.
ReadsOwnBlock ==
  \A c \in Clients : result[c] = "ok" =>
    \A i \in DOMAIN output[c] :
      \/ output[c][i].at = plan[c].offset + SourceOf(plan[c], i)
      \/ output[c][i] = Garbage /\ plan[c].compressed /\ ~plan[c].checksum

\* With a checksum a read that succeeds returns declared bytes only, whenever
\* the file was changed: what was verified is what was decoded.
VerifiedBytes ==
  \A c \in Clients : result[c] = "ok" /\ plan[c].checksum =>
    \A i \in DOMAIN output[c] : output[c][i].good

\* A staged block that cannot be read whole, or is not the declared one, leaves
\* the caller's buffer as it was (docs/API.md: a checksum mismatch yields no
\* trusted pixels).
KeepsDestination ==
  \A c \in Clients :
    Staged(plan[c]) /\ result[c] \in {"io_error", "checksum_mismatch"} =>
    \A i \in DOMAIN output[c] : output[c][i] = Untouched

\* A read fails for lack of bytes only if its own block was cut off: one that
\* ran into the end does not spoil the stream for the others.
FailsOnItsOwn ==
  \A c \in Clients : result[c] = "io_error" =>
    length < plan[c].offset + Size(plan[c])

-----------------------------------------------------------------------------
(* The inductive invariant behind these properties.                          *)

\* Byte i of the block, as the file had it when it was read.
FromBlock(c, i, byte) == byte.at = plan[c].offset + i

\* What may stand for byte i of the block in the result.
Sound(c, i, byte) ==
  \/ FromBlock(c, i, byte) /\ (plan[c].checksum => byte.good)
  \/ byte = Garbage /\ plan[c].compressed /\ ~plan[c].checksum

\* A client uses the source for the next bytes of its block only.
InvReading(c) ==
  /\ stage[c] # "none" =>
       /\ result[c] = "none" /\ Current(c) = "read"
       /\ total[c] < Size(plan[c])
       /\ request[c] = [offset |-> plan[c].offset + total[c],
                        count |-> NextChunk(c)]
  /\ Current(c) # "read" => total[c] = Size(plan[c])

\* The staging buffer holds the block so far; the destination waits for it.
InvStaged(c) ==
  Staged(plan[c]) =>
    /\ Len(staging[c]) = total[c]
    /\ Current(c) \in {"read", "verify", "decode"} =>
         \A j \in DOMAIN staging[c] : FromBlock(c, j - 1, staging[c][j])
    /\ Current(c) \in {"read", "verify"} =>
         \A i \in DOMAIN output[c] : output[c][i] = Untouched
    /\ Current(c) = "decode" /\ plan[c].checksum => Declared(staging[c])
    /\ Current(c) = "convert" =>
         \A j \in DOMAIN staging[c] : Sound(c, j - 1, staging[c][j])
    /\ Current(c) = "convert" /\ result[c] = "none" /\ ~Rearranged(plan[c]) =>
         \A i \in DOMAIN output[c] : Sound(c, i, output[c][i])

\* Where a byte goes that is read straight into the destination.
Landing(m, i) == IF Rearranged(m) THEN Place(m, i) ELSE i

\* What is read straight into the destination is there, up to a chunk that is
\* not whole and still has to be rearranged.
InvDirect(c) ==
  LET delivered == total[c] - Len(staging[c])
  IN ~Staged(plan[c]) =>
       /\ delivered >= 0
       /\ ~Rearranged(plan[c]) \/ total[c] = Size(plan[c]) => staging[c] = << >>
       /\ \A j \in DOMAIN staging[c] :
            FromBlock(c, delivered + j - 1, staging[c][j])
       /\ Current(c) = "read" \/ (Current(c) = "convert" /\ result[c] = "none") =>
            \A i \in 0 .. delivered - 1 : FromBlock(c, i, output[c][Landing(plan[c], i)])

\* A result says how far the read came, and what it left in the destination.
InvResult(c) ==
  /\ result[c] = "ok" => Current(c) = "done"
  /\ result[c] = "checksum_mismatch" => Current(c) = "verify"
  /\ result[c] = "io_error" =>
       Current(c) = "read" /\ length < plan[c].offset + Size(plan[c])
  /\ Current(c) = "done" =>
       \A i \in DOMAIN output[c] :
         Sound(c, SourceOf(plan[c], i), output[c][i])

InvClient(c) == InvReading(c) /\ InvStaged(c) /\ InvDirect(c) /\ InvResult(c)

IInv == SourceInv /\ \A c \in Clients : InvClient(c)

-----------------------------------------------------------------------------

\* No read waits for ever, for the mutex or for bytes that do not come.
EveryReadEnds == \A c \in Clients : <>(result[c] # "none")
=============================================================================
