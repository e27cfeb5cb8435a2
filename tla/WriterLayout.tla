---------------------------- MODULE WriterLayout ----------------------------
(***************************************************************************)
(* The layout of a monolithic file (write_impl, src/src/writer.cpp): where  *)
(* the attached blocks go depends on the length of the XML header, which    *)
(* spells out in decimal where the blocks go.  The writer plans the blocks  *)
(* behind a guessed header, renders the header, and starts over, at most    *)
(* MaxRenders times, until the guess is right; then it emits header,        *)
(* padding and blocks.                                                      *)
(*                                                                         *)
(* Bytes are counted, not stored.  Errors of the sink and cancellation      *)
(* belong to WriterCommit.                                                  *)
(***************************************************************************)
EXTENDS Integers, Sequences, FiniteSets

CONSTANTS
  Requests,   \* what is written: [base, sizes]
  Alignment,  \* WriterOptions::attachment_alignment
  MaxHeader,  \* WriterOptions::max_header_bytes
  Word,       \* 2^64 in the code: one more than the largest uint64_t
  MaxDigits   \* decimal digits enough for every number below Word

\* `base` counts the header bytes other than the decimal offsets, `sizes` the
\* serialized bytes of the images and then of the property blocks.  There is
\* at least one image, and none of the blocks is empty.
Request == [base : Nat, sizes : Seq(Nat \ {0})]

ASSUME LayoutAssumption ==
  /\ Requests \subseteq Request
  /\ \A r \in Requests : r.sizes # << >>
  /\ Alignment \in Nat \ {0}
  /\ MaxHeader \in Nat
  /\ Word \in Nat /\ MaxDigits \in Nat
  /\ Alignment < Word

Preamble == 16

VARIABLES
  request,
  phase,       \* "plan", "render", "emit", "done" or "failed"
  attachment,  \* attachment_offset: the guess, where the first block goes
  offset,      \* where the next block goes
  locations,   \* the offsets planned in this round
  fileSize,    \* file_size_result
  renders,     \* headers rendered and rejected so far
  header,      \* the last header rendered: its length and what it says
  position,    \* output_position
  written,     \* bytes the sink has taken
  starts,      \* where the first byte of each block went
  result       \* the error, or "ok"

plan == <<attachment, offset, locations, fileSize, renders>>
output == <<position, written, starts>>
vars == <<request, phase, plan, header, output, result>>

Total == Len(request.sizes)

LayoutErrors == {"overflow", "resource_limit", "internal_error"}

TypeOK ==
  /\ request \in Requests
  /\ phase \in {"plan", "render", "emit", "done", "failed"}
  /\ attachment \in 0 .. Word - 1
  /\ offset \in 0 .. Word - 1
  /\ locations \in Seq(0 .. Word - 1) /\ Len(locations) <= Total
  /\ fileSize \in 0 .. Word - 1
  /\ renders \in Nat
  /\ header \in [size : Nat, locations : Seq(0 .. Word - 1)]
  /\ position \in Nat /\ written \in Nat
  /\ starts \in Seq(Nat) /\ Len(starts) <= Total
  /\ result \in LayoutErrors \cup {"none", "ok"}

-----------------------------------------------------------------------------
(* Arithmetic and text. *)

\* Mutant: sums are not compared with what a uint64_t holds.
RepresentableMutant(n) == n \in Nat

Representable(n) == n < Word

\* align_up without its overflow check, which the callers make.
AlignUp(value) ==
  IF value % Alignment = 0 THEN value
  ELSE value + (Alignment - (value % Alignment))

\* 10 ^ k.
PowerOfTen ==
  LET power[k \in 0 .. MaxDigits] == IF k = 0 THEN 1 ELSE 10 * power[k - 1]
  IN power

\* How many characters std::to_string(n) has.
Digits(n) == 1 + Cardinality({k \in 1 .. MaxDigits : PowerOfTen[k] <= n})

OffsetDigits(offsets) ==
  LET upto[i \in 0 .. Len(offsets)] ==
        IF i = 0 THEN 0 ELSE upto[i - 1] + Digits(offsets[i])
  IN upto[Len(offsets)]

\* make_header names every offset once.
HeaderSize(r, offsets) == r.base + OffsetDigits(offsets)

HeaderEnd == Preamble + header.size

-----------------------------------------------------------------------------

\* Mutant: the first guess leaves room for a long header.
FirstGuessMutant == 256 * Alignment

FirstGuess == Alignment

Init ==
  /\ request \in Requests
  /\ phase = "plan"
  /\ attachment = FirstGuess /\ offset = FirstGuess
  /\ locations = << >> /\ fileSize = 0 /\ renders = 0
  /\ header = [size |-> 0, locations |-> << >>]
  /\ position = 0 /\ written = 0 /\ starts = << >>
  /\ result = "none"

Fail(e) ==
  /\ phase' = "failed" /\ result' = e
  /\ UNCHANGED <<request, plan, header, output>>

\* Mutant: blocks follow each other without alignment.
NextOffsetMutant(end) == end

NextOffset(end) == AlignUp(end)

\* One turn of plan_one inside plan_blocks.
PlanBlock ==
  /\ phase = "plan"
  /\ LET end == offset + request.sizes[Len(locations) + 1]
         last == Len(locations) + 1 = Total
     IN \/ ~Representable(end) /\ Fail("overflow")
        \/ /\ Representable(end) /\ ~last
           /\ ~Representable(NextOffset(end)) /\ Fail("overflow")
        \/ /\ Representable(end) /\ ~last /\ Representable(NextOffset(end))
           /\ locations' = Append(locations, offset)
           /\ offset' = NextOffset(end)
           /\ UNCHANGED <<request, phase, attachment, fileSize, renders,
                          header, output, result>>
        \/ /\ Representable(end) /\ last
           /\ locations' = Append(locations, offset)
           /\ fileSize' = end
           /\ phase' = "render"
           /\ UNCHANGED <<request, attachment, offset, renders, header,
                          output, result>>

MaxRendersMutant == 3
MaxRenders == 4

Settled(next) == next = attachment

Emit ==
  /\ phase' = "emit"
  /\ position' = Preamble + header'.size
  /\ written' = Preamble + header'.size
  /\ UNCHANGED <<request, plan, starts, result>>

Replan(next) ==
  /\ phase' = "plan"
  /\ attachment' = next /\ offset' = next
  /\ locations' = << >>
  /\ renders' = renders + 1
  /\ UNCHANGED <<request, fileSize, output, result>>

Rendered == HeaderSize(request, locations)

\* make_header, and the decision to accept it or to plan again.  Once it is
\* accepted its limits are checked, and preamble and header are written.
RenderHeader ==
  /\ phase = "render" /\ renders < MaxRenders
  /\ LET end == Preamble + Rendered
         next == AlignUp(end)
     IN \/ ~(Representable(end) /\ Representable(next)) /\ Fail("overflow")
        \/ /\ Representable(end) /\ Representable(next) /\ Settled(next)
           /\ Rendered > MaxHeader /\ Fail("resource_limit")
        \/ /\ Representable(end) /\ Representable(next) /\ Settled(next)
           /\ Rendered <= MaxHeader
           /\ header' = [size |-> Rendered, locations |-> locations]
           /\ Emit
        \/ /\ Representable(end) /\ Representable(next) /\ ~Settled(next)
           /\ header' = [size |-> Rendered, locations |-> locations]
           /\ Replan(next)

GiveUp ==
  /\ phase = "render" /\ renders = MaxRenders
  /\ Fail("internal_error")

\* `offset - output_position` in uint64_t.
Padding(from, to) == IF to >= from THEN to - from ELSE to - from + Word

\* Mutant: the position forgets the padding.
PositionAfterMutant(i) == position + request.sizes[i]

PositionAfter(i) == locations[i] + request.sizes[i]

\* Zeros up to the next block, then the block.
EmitBlock ==
  /\ phase = "emit" /\ Len(starts) < Total
  /\ LET i == Len(starts) + 1
         start == written + Padding(position, locations[i])
     IN /\ starts' = Append(starts, start)
        /\ written' = start + request.sizes[i]
        /\ position' = PositionAfter(i)
  /\ UNCHANGED <<request, phase, plan, header, result>>

Finish ==
  /\ phase = "emit" /\ Len(starts) = Total
  /\ phase' = "done" /\ result' = "ok"
  /\ UNCHANGED <<request, plan, header, output>>

Next == PlanBlock \/ RenderHeader \/ GiveUp \/ EmitBlock \/ Finish

Spec == Init /\ [][Next]_vars

-----------------------------------------------------------------------------
(* Properties. *)

\* Every block starts where the emitted header says it starts: the header that
\* goes out was rendered for exactly the layout that is emitted, and the
\* padding lands each block there; and WriteSummary::file_size is the number of
\* bytes that went out (write_impl, plan_blocks, make_header).
HeaderIsTrue ==
  /\ \A i \in DOMAIN starts :
       i \in DOMAIN header.locations /\ starts[i] = header.locations[i]
  /\ phase = "done" => written = fileSize

\* The blocks lie behind the header and behind each other, aligned, with less
\* than one alignment unit of zeros in front of each (align_up; the padding
\* loops subtract unsigned numbers and must never wrap).
TightLayout ==
  \A i \in DOMAIN starts :
    LET end == IF i = 1 THEN HeaderEnd ELSE starts[i - 1] + request.sizes[i - 1]
    IN /\ starts[i] % Alignment = 0
       /\ starts[i] >= end
       /\ starts[i] - end < Alignment

\* Planning again only ever moves the blocks back: the rounds cannot oscillate
\* (the header grows with the offsets it spells out).
NeverMovesForward == [][attachment' >= attachment]_vars

-----------------------------------------------------------------------------
(* The inductive invariant behind these three properties.                    *)

\* `places` follow each other behind `from`, block by block.
LaidOut(places, from) ==
  /\ places # << >> => places[1] = from
  /\ \A i \in 1 .. Len(places) - 1 :
       places[i + 1] = AlignUp(places[i] + request.sizes[i])

\* Where the block after the planned ones goes.
NextPlace ==
  IF locations = << >> THEN attachment
  ELSE AlignUp(locations[Len(locations)] + request.sizes[Len(locations)])

\* The plan follows the guess; when it is complete the file ends behind it.
InvPlan ==
  /\ attachment % Alignment = 0
  /\ LaidOut(locations, attachment)
  /\ phase = "plan" => Len(locations) < Total /\ offset = NextPlace
  /\ phase \in {"render", "emit", "done"} =>
       /\ Len(locations) = Total
       /\ fileSize = locations[Total] + request.sizes[Total]

\* What goes out is the plan that the header spells out, and takes the bytes
\* that takes; the writer's position is the sink's.
InvEmit ==
  /\ phase \notin {"emit", "done"} => starts = << >>
  /\ phase \in {"emit", "done"} =>
       /\ header.locations = locations /\ attachment = AlignUp(HeaderEnd)
       /\ header.size = HeaderSize(request, header.locations)
       /\ \A i \in DOMAIN starts : starts[i] = locations[i]
       /\ position = written
       /\ written = IF starts = << >> THEN HeaderEnd
                    ELSE starts[Len(starts)] + request.sizes[Len(starts)]
  /\ phase = "done" => Len(starts) = Total

\* The guess comes from the header of the round before, whose plan was complete
\* and put no block behind where this one puts it.
InvRounds ==
  phase \in {"plan", "render"} =>
    /\ renders = 0 => attachment = FirstGuess
    /\ renders > 0 =>
         /\ Len(header.locations) = Total
         /\ header.locations[1] <= attachment
         /\ LaidOut(header.locations, header.locations[1])
         /\ header.size = HeaderSize(request, header.locations)
         /\ attachment = AlignUp(HeaderEnd)
         /\ \A i \in DOMAIN locations : header.locations[i] <= locations[i]

IInv == InvPlan /\ InvEmit /\ InvRounds

-----------------------------------------------------------------------------

\* Fewer blocks than an alignment unit has bytes always find their layout in
\* the rounds the code allows: after the second round an offset gains at most
\* one digit, and all of them together less than the unit that would move the
\* blocks a fourth time (the iterations of the planning loop in write_impl).
FewBlocksSettle == Total < Alignment => result # "internal_error"

\* A second round can have moved the blocks to `before`.
FromSecond(before) ==
  \E second \in Seq(Nat) :
    /\ Len(second) = Total /\ LaidOut(second, second[1])
    /\ second[1] >= FirstGuess /\ second[1] % Alignment = 0
    /\ second[1] <= before /\ before <= 2 * second[1]
    /\ before = AlignUp(Preamble + HeaderSize(request, second))

\* Behind it: planning has moved the blocks at most three times.  The second
\* move at most doubled the guess, so that no offset of the second round gains
\* more than one digit in the rounds that follow it; and the third was by one
\* unit, as all those digits together take less.
InvFewBlocks ==
  Total < Alignment =>
    /\ result # "internal_error"
    /\ phase \in {"plan", "render"} =>
         /\ renders <= 3 /\ attachment >= FirstGuess
         /\ renders > 0 =>
              LET before == header.locations[1]
              IN /\ before >= FirstGuess /\ before % Alignment = 0
                 /\ renders = 1 => before = FirstGuess
                 /\ renders = 2 => attachment <= 2 * before
                 /\ renders = 3 => attachment = before + Alignment /\ FromSecond(before)

-----------------------------------------------------------------------------

\* What docs/M6_STATUS.md:37 calls fixed-point block planning: a request within
\* the limits is laid out, however many blocks it has.
PlanningReachesFixedPoint == result # "internal_error"
=============================================================================
