----------------------------- MODULE RowReader ------------------------------
(***************************************************************************)
(* Reader::read_image_rows (src/src/reader.cpp): one image is read twice     *)
(* from a source that may change meanwhile, first to verify its checksum and  *)
(* then piece by piece to decode it, cut it into source rows and hand plane   *)
(* rows to the caller's sink, which may fail or ask to stop.                  *)
(*                                                                         *)
(* A piece is what one turn of the delivery loop reads: a source row, or a   *)
(* compressed sub-block.  A sample is known by its index in the decoded       *)
(* image and by whether it was read from the bytes the checksum was made      *)
(* for.  A sample has one byte, and its byte order is left out.               *)
(***************************************************************************)
EXTENDS Integers, Sequences

CONSTANTS
  Images,      \* what may be read, see Image
  MaxChanges,  \* how often the source changes
  Faults       \* the failures that occur: subset of FaultKinds

FaultKinds == {"stop", "io", "codec", "sink", "limit"}

\* `pieces` holds the decoded samples of each piece; parse_compression_plan has
\* made sure that they add up to the whole image.
Image == [normal : BOOLEAN, width : Nat \ {0}, height : Nat \ {0},
          channels : Nat \ {0}, compressed : BOOLEAN, shuffled : BOOLEAN,
          checksum : BOOLEAN, pieces : Seq(Nat \ {0})]

PlaneRows(m) == m.height * m.channels
RowSamples(m) == IF m.normal THEN m.width * m.channels ELSE m.width
SourceRows(m) == IF m.normal THEN m.height ELSE PlaneRows(m)

SamplesIn(pieces, n) ==
  LET upto[i \in 0 .. n] == IF i = 0 THEN 0 ELSE upto[i - 1] + pieces[i]
  IN upto[n]

ASSUME RowAssumption ==
  /\ Images \subseteq Image /\ MaxChanges \in Nat /\ Faults \subseteq FaultKinds
  /\ \A m \in Images :
       /\ SamplesIn(m.pieces, Len(m.pieces)) = m.width * PlaneRows(m)
       /\ m.shuffled => m.compressed
       /\ ~m.compressed => \A i \in DOMAIN m.pieces :
                             m.pieces[i] = RowSamples(m)

VARIABLES
  image,      \* the plan of the image
  phase,      \* "begin", "verify", "read", "feed", "emit", "consume", "ended"
  intact,     \* for each piece, whether the source holds the declared bytes
  changes,    \* how often the source has changed
  piece,      \* pieces read so far in this pass
  digest,     \* whether all the bytes hashed in this pass were the declared ones
  pending,    \* decoded samples not yet copied into the row
  row,        \* source_row as far as it is filled
  channel,    \* the plane row of the source row that is next, from 0
  ordinal,    \* source_row_ordinal
  delivered,  \* what the sink has accepted: [channel, row, samples]
  stop,
  result

source == <<intact, changes>>
pass == <<piece, digest>>
staging == <<pending, row, channel, ordinal>>
vars == <<image, phase, source, pass, staging, delivered, stop, result>>

Sample == [index : Nat, good : BOOLEAN]
RowErrors == {"cancelled", "unsupported_feature", "resource_limit", "io_error",
              "invalid_block", "sink", "checksum_mismatch"}

TypeOK ==
  /\ image \in Images
  /\ phase \in {"begin", "verify", "read", "feed", "emit", "consume", "ended"}
  /\ intact \in [DOMAIN image.pieces -> BOOLEAN]
  /\ changes \in 0 .. MaxChanges
  /\ piece \in 0 .. Len(image.pieces)
  /\ digest \in BOOLEAN
  /\ pending \in Seq(Sample)
  /\ row \in Seq(Sample) /\ Len(row) <= RowSamples(image)
  /\ channel \in 0 .. image.channels - 1
  /\ ordinal \in 0 .. SourceRows(image)
  /\ delivered \in Seq([channel : Nat, row : Nat, samples : Seq(Sample)])
  /\ stop \in BOOLEAN
  /\ result \in RowErrors \cup {"none", "ok"}

Init ==
  /\ image \in Images
  /\ phase = "begin"
  /\ intact \in [DOMAIN image.pieces -> BOOLEAN]
  /\ changes = 0 /\ piece = 0 /\ digest = TRUE
  /\ pending = << >> /\ row = << >> /\ channel = 0 /\ ordinal = 0
  /\ delivered = << >> /\ stop = FALSE /\ result = "none"

-----------------------------------------------------------------------------

End(r) ==
  /\ phase' = "ended" /\ result' = r
  /\ UNCHANGED <<image, source, pass, staging, delivered, stop>>

Faulty(kind, e) == kind \in Faults /\ End(e)
Cancelled == stop /\ End("cancelled")

Goto(p) == phase' = p /\ UNCHANGED <<image, source, stop, result>>

\* Mutant: a checksum is left to the second pass.
FirstPassMutant(m) == "read"

FirstPass(m) == IF m.checksum THEN "verify" ELSE "read"

Begin ==
  /\ phase = "begin"
  /\ \/ Cancelled
     \/ ~stop /\ Faulty("limit", "resource_limit")
     \/ /\ ~stop /\ image.shuffled /\ Len(image.pieces) > 1
        /\ End("unsupported_feature")
     \/ /\ ~stop /\ ~(image.shuffled /\ Len(image.pieces) > 1)
        /\ Goto(FirstPass(image)) /\ UNCHANGED <<pass, staging, delivered>>

\* read_serialized_chunk of the next piece, and the digest over it.
ReadPiece ==
  /\ piece' = piece + 1
  /\ digest' = (digest /\ intact[piece + 1])

\* verify_image_checksum_streaming
VerifyPiece ==
  /\ phase = "verify" /\ piece < Len(image.pieces)
  /\ \/ Cancelled
     \/ ~stop /\ Faulty("io", "io_error")
     \/ ~stop /\ ReadPiece /\ Goto("verify") /\ UNCHANGED <<staging, delivered>>

SecondPass == digest' = TRUE /\ piece' = 0

Verified ==
  /\ phase = "verify" /\ piece = Len(image.pieces)
  /\ \/ ~digest /\ End("checksum_mismatch")
     \/ digest /\ SecondPass /\ Goto("read") /\ UNCHANGED <<staging, delivered>>

\* Bytes that are not the declared ones may be no valid stream.
FetchPiece ==
  /\ phase = "read" /\ piece < Len(image.pieces)
  /\ \/ Cancelled
     \/ ~stop /\ Faulty("io", "io_error")
     \/ /\ ~stop /\ image.compressed /\ ~intact[piece + 1]
        /\ Faulty("codec", "invalid_block")
     \/ /\ ~stop /\ ReadPiece
        /\ pending' = [j \in 1 .. image.pieces[piece + 1] |->
                         [index |-> SamplesIn(image.pieces, piece) + j - 1,
                          good  |-> intact[piece + 1]]]
        /\ Goto("feed") /\ UNCHANGED <<row, channel, ordinal, delivered>>

CarryOver == row

\* feed_decoded: as much as the row still takes.
Feed ==
  /\ phase = "feed" /\ pending # << >>
  /\ LET room == RowSamples(image) - Len(CarryOver)
         count == IF room < Len(pending) THEN room ELSE Len(pending)
     IN /\ row' = CarryOver \o SubSeq(pending, 1, count)
        /\ pending' = SubSeq(pending, count + 1, Len(pending))
        /\ Goto(IF Len(row') = RowSamples(image) THEN "emit" ELSE "feed")
  /\ UNCHANGED <<pass, channel, ordinal, delivered>>

FedPiece ==
  /\ phase = "feed" /\ pending = << >>
  /\ Goto("read") /\ UNCHANGED <<pass, staging, delivered>>

-----------------------------------------------------------------------------
(* emit_source_row and emit_plane_row *)

\* Mutant: the channels of a pixel are taken for pixels of a channel.
PlaneMutant == SubSeq(row, channel * image.width + 1,
                      (channel + 1) * image.width)

\* The samples of the next plane row: all of a planar row, every channels-th
\* sample of an interleaved one.
Plane ==
  IF image.normal
  THEN [p \in 1 .. image.width |-> row[(p - 1) * image.channels + channel + 1]]
  ELSE row

PlaneView ==
  IF image.normal
  THEN [channel |-> channel, row |-> ordinal, samples |-> Plane]
  ELSE [channel |-> ordinal \div image.height, row |-> ordinal % image.height,
        samples |-> Plane]

\* Mutant: the stop token is looked at before the first row only.
CheckStopMutant ==
  /\ phase = "emit"
  /\ \/ delivered = << >> /\ Cancelled
     \/ Goto("consume") /\ UNCHANGED <<pass, staging, delivered>>

CheckStop ==
  /\ phase = "emit"
  /\ \/ Cancelled
     \/ ~stop /\ Goto("consume") /\ UNCHANGED <<pass, staging, delivered>>

\* Mutant: one plane row too many.
LastPlaneMutant == ~image.normal \/ channel = image.channels

LastPlane == ~image.normal \/ channel = image.channels - 1

\* ImageRowSink::consume
Consume ==
  /\ phase = "consume"
  /\ \/ Faulty("sink", "sink")
     \/ /\ delivered' = Append(delivered, PlaneView)
        /\ IF LastPlane
           THEN /\ ordinal' = ordinal + 1 /\ row' = << >> /\ channel' = 0
                /\ Goto("feed")
           ELSE channel' = channel + 1 /\ UNCHANGED <<ordinal, row>> /\ Goto("emit")
        /\ UNCHANGED <<pass, pending>>

-----------------------------------------------------------------------------

AllRead == phase = "read" /\ piece = Len(image.pieces)

\* What the last checks of the function compare before they report an extent
\* that does not match.
ExtentMatches ==
  /\ row = << >>
  /\ ordinal = SourceRows(image)
  /\ Len(delivered) = PlaneRows(image)

\* Mutant: the second digest is not compared.
StillIntactMutant == TRUE

StillIntact == image.checksum => digest

Finish ==
  /\ AllRead
  /\ \/ ~ExtentMatches /\ End("invalid_block")
     \/ ExtentMatches /\ Cancelled
     \/ ExtentMatches /\ ~stop /\ ~StillIntact /\ End("checksum_mismatch")
     \/ ExtentMatches /\ ~stop /\ StillIntact /\ End("ok")

\* Somebody overwrites or restores a piece of the source.
ChangeSource(i) ==
  /\ changes < MaxChanges /\ phase # "ended"
  /\ intact' = [intact EXCEPT ![i] = ~@] /\ changes' = changes + 1
  /\ UNCHANGED <<image, phase, pass, staging, delivered, stop, result>>

\* The caller, or the sink while it has a row, asks to stop.
RequestStop ==
  /\ "stop" \in Faults /\ ~stop /\ phase # "ended"
  /\ stop' = TRUE
  /\ UNCHANGED <<image, phase, source, pass, staging, delivered, result>>

Next ==
  \/ Begin \/ VerifyPiece \/ Verified \/ FetchPiece \/ Feed \/ FedPiece
  \/ CheckStop \/ Consume \/ Finish
  \/ RequestStop \/ \E i \in DOMAIN image.pieces : ChangeSource(i)

Spec == Init /\ [][Next]_vars

-----------------------------------------------------------------------------
(* Properties. *)

Good(view) == \A j \in DOMAIN view.samples : view.samples[j].good

\* With a checksum, success means that every delivered row was made of the
\* declared bytes, however the source changed between and during the two passes
\* (docs/ROW_READER.md: source mutation cannot silently detach the summary from
\* the delivered rows).
SuccessIsVerified ==
  image.checksum /\ result = "ok" =>
    \A k \in DOMAIN delivered : Good(delivered[k])

\* A block that was damaged before the call, and has not changed since, is
\* found out before the sink sees a row (docs/ROW_READER.md: a bounded first pass
\* verifies the checksum before the first callback).
DamageFoundFirst ==
  image.checksum /\ changes = 0 /\ (\E i \in DOMAIN intact : ~intact[i])
    => delivered = << >>

\* The k-th row delivered, said without buffers: channel by channel from a
\* planar source, channels within rows from an interleaved one.
RowAt(k) ==
  IF image.normal THEN <<(k - 1) % image.channels, (k - 1) \div image.channels>>
  ELSE <<(k - 1) \div image.height, (k - 1) % image.height>>

IndexOf(c, r, p) ==
  IF image.normal THEN (r * image.width + p) * image.channels + c
  ELSE (c * image.height + r) * image.width + p

\* Every row delivered is the one whose turn it was, with the samples of that row.
InOrder ==
  \A k \in DOMAIN delivered :
    LET view == delivered[k] IN
    /\ <<view.channel, view.row>> = RowAt(k)
    /\ Len(view.samples) = image.width
    /\ \A p \in 1 .. image.width :
         view.samples[p].index = IndexOf(view.channel, view.row, p - 1)

\* Rows arrive in order, each once and with its own samples, wherever the pieces
\* cut them; a success means that all of them have arrived; and the checks of the
\* extent that end the function never fail, as the plan and the loops leave no row
\* unfinished and none out.
RowsInOrder ==
  /\ InOrder
  /\ result = "ok" => Len(delivered) = PlaneRows(image)
  /\ AllRead => ExtentMatches

\* After a stop at most the row already on its way is delivered, and unless the
\* last look at the token is past, the read does not succeed.
RowBound == 8  \* no image of an instance has more plane rows
StopHonoured ==
  \A n \in 0 .. RowBound :
    [](stop /\ phase # "ended" /\ Len(delivered) = n
         => [](Len(delivered) <= n + 1 /\ result # "ok"))

-----------------------------------------------------------------------------
(* The inductive invariant behind these properties.                          *)

Delivering == {"read", "feed", "emit", "consume"}

\* Nothing is staged before the delivery starts, and no result is known before
\* the end.
InvPhases ==
  /\ phase # "ended" => result = "none"
  /\ phase \in {"begin", "verify"} =>
       /\ pending = << >> /\ row = << >> /\ delivered = << >>
       /\ channel = 0 /\ ordinal = 0
  /\ phase = "begin" => piece = 0 /\ digest

\* The samples read so far are those of the rows that are through, then the row,
\* then what is pending, in the order of the image.
InvFlow ==
  phase \in Delivering =>
    LET through == ordinal * RowSamples(image) IN
    /\ through + Len(row) + Len(pending) = SamplesIn(image.pieces, piece)
    /\ \A j \in DOMAIN row : row[j].index = through + j - 1
    /\ \A j \in DOMAIN pending :
         pending[j].index = through + Len(row) + j - 1
    /\ phase \in {"emit", "consume"} <=> Len(row) = RowSamples(image)
    /\ phase = "read" => pending = << >>

\* How many rows the sink has: `channel` moves only inside an interleaved row.
InvCount ==
  /\ ~image.normal => channel = 0
  /\ phase \in {"read", "feed"} => channel = 0
  /\ phase \in Delivering =>
       Len(delivered) = IF image.normal THEN ordinal * image.channels + channel
                        ELSE ordinal
  /\ result = "ok" => Len(delivered) = PlaneRows(image)

\* While the digest is sound, so is every sample anywhere on the way.
InvDigest ==
  /\ digest => /\ \A j \in DOMAIN pending : pending[j].good
               /\ \A j \in DOMAIN row : row[j].good
               /\ \A k \in DOMAIN delivered : Good(delivered[k])
  /\ result = "ok" => StillIntact

\* A first pass over a source that does not change has seen all of it.
InvIntact ==
  image.checksum /\ changes = 0 =>
    /\ phase = "verify" /\ digest => \A i \in 1 .. piece : intact[i]
    /\ phase \in Delivering => \A i \in DOMAIN intact : intact[i]
    /\ phase = "ended" /\ delivered # << >> => \A i \in DOMAIN intact : intact[i]

IInv == InvPhases /\ InvFlow /\ InvCount /\ InOrder /\ InvDigest /\ InvIntact

\* What a stop leaves possible once the sink has n rows: one more, if it is
\* already on its way.
AtMostOneMore(n) ==
  /\ stop /\ result # "ok"
  /\ \/ Len(delivered) <= n
     \/ Len(delivered) = n + 1 /\ phase # "consume"
=============================================================================
