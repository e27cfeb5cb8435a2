---------------------------- MODULE ReaderRanges ----------------------------
(***************************************************************************)
(* How opening a document accounts for every byte of the file: open_source  *)
(* reads the preamble and the header, the end of parse_header sorts and      *)
(* checks the attached ranges, and validate_unused_spaces scans what they    *)
(* leave over (src/src/reader.cpp).                                          *)
(*                                                                         *)
(* A file is its size, what its preamble says (the signature, the reserved   *)
(* bytes, the length of the XML header), whether its header is a sound one   *)
(* (HeaderDocument says which are), the ranges the header declares in        *)
(* document order, and which of its bytes are not zero.                      *)
(***************************************************************************)
EXTENDS Integers, Sequences, FiniteSets

CONSTANTS
  MaxHeaderBytes, \* ReaderOptions::max_header_bytes
  MaxUnused,  \* ReaderOptions::max_unused_space_bytes
  Chunk,      \* bytes scanned per read: 64 KiB in the code
  ReadFails   \* whether ByteSource::size and read_at may fail

\* Monolith, which gives the constants their values, assumes it.
RangesAssumption ==
  /\ MaxHeaderBytes \in Nat /\ MaxUnused \in Nat
  /\ Chunk \in Nat \ {0} /\ ReadFails \in BOOLEAN

PreambleSize == 16

AttachedRange == [offset : Nat, size : Nat]
File == [size : Nat, signed : BOOLEAN, reserved : BOOLEAN, length : Nat,
         sound : BOOLEAN, ranges : Seq(AttachedRange), dirty : SUBSET Nat]

NoFile == [size |-> 0, signed |-> FALSE, reserved |-> FALSE, length |-> 0,
           sound |-> FALSE, ranges |-> << >>, dirty |-> {}]

VARIABLES
  file,
  step,      \* a member of Steps
  ranges,    \* attached_ranges, sorted
  at,        \* the range being looked at
  cursor,    \* previous_end in the first loop, cursor in the second
  unused,    \* validated_unused_bytes
  checked,   \* bytes of the current gap scanned so far
  verdict    \* the error, or "ok"

vars == <<file, step, ranges, at, cursor, unused, checked, verdict>>

Steps == {"closed", "preamble", "header", "ranges", "gaps", "scan",
          "accepted", "rejected"}
ReaderErrors ==
  {"invalid_preamble", "invalid_signature", "header_too_large", "invalid_xisf",
   "invalid_block", "resource_limit", "io_error"}

TypeOK ==
  /\ file \in File
  /\ step \in Steps
  /\ ranges \in Seq(AttachedRange)
  /\ at \in 1 .. Len(ranges) + 1
  /\ cursor \in Nat /\ unused \in Nat /\ checked \in Nat
  /\ verdict \in ReaderErrors \cup {"none", "ok"}

Init ==
  /\ file = NoFile /\ step = "closed" /\ ranges = << >>
  /\ at = 1 /\ cursor = 0 /\ unused = 0 /\ checked = 0
  /\ verdict = "none"

-----------------------------------------------------------------------------

End(range) == range.offset + range.size

\* Mutant: the ranges are taken in document order.
SortedMutant(rs) == rs

\* Range i comes before range j.  std::sort may put equal offsets in another
\* order; two blocks at one offset overlap in either.
Before(rs, i, j) ==
  \/ rs[i].offset < rs[j].offset
  \/ rs[i].offset = rs[j].offset /\ i < j

PlaceOf(rs, i) == 1 + Cardinality({j \in DOMAIN rs : Before(rs, j, i)})

Sorted(rs) ==
  [k \in DOMAIN rs |-> rs[CHOOSE i \in DOMAIN rs : PlaceOf(rs, i) = k]]

Open(f) ==
  /\ step = "closed"
  /\ file' = f /\ step' = "preamble"
  /\ UNCHANGED <<ranges, at, cursor, unused, checked, verdict>>

Reject(e) ==
  /\ step' = "rejected" /\ verdict' = e
  /\ UNCHANGED <<file, ranges, at, cursor, unused, checked>>

HeaderEndOf(f) == PreambleSize + f.length

ReadPreamble ==
  /\ step = "preamble"
  /\ \/ file.size < PreambleSize /\ Reject("invalid_preamble")
     \/ ReadFails /\ Reject("io_error")
     \/ /\ file.size >= PreambleSize
        /\ \/ ~file.signed /\ Reject("invalid_signature")
           \/ file.signed /\ ~file.reserved /\ Reject("invalid_preamble")
           \/ /\ file.signed /\ file.reserved
              /\ step' = "header"
              /\ UNCHANGED <<file, ranges, at, cursor, unused, checked, verdict>>

HeaderFits == file.length <= file.size - PreambleSize

\* The length is checked before the header is read; the header is parsed and
\* its attachments are sorted.
ReadHeader ==
  /\ step = "header"
  /\ \/ file.length \notin 1 .. MaxHeaderBytes /\ Reject("header_too_large")
     \/ /\ file.length \in 1 .. MaxHeaderBytes
        /\ ~HeaderFits /\ Reject("invalid_preamble")
     \/ /\ file.length \in 1 .. MaxHeaderBytes /\ HeaderFits
        /\ \/ ReadFails /\ Reject("io_error")
           \/ ~file.sound /\ Reject("invalid_xisf")
           \/ /\ file.sound
              /\ ranges' = Sorted(file.ranges)
              /\ step' = "ranges" /\ cursor' = HeaderEndOf(file)
              /\ UNCHANGED <<file, at, unused, checked, verdict>>

\* Written so that no sum can overflow.
Outside(range) ==
  \/ range.size = 0
  \/ range.offset < HeaderEndOf(file)
  \/ range.offset > file.size
  \/ range.size > file.size - range.offset

CheckRange ==
  /\ step = "ranges" /\ at <= Len(ranges)
  /\ \/ Outside(ranges[at]) \/ ranges[at].offset < cursor
  /\ Reject("invalid_block")

PassRange ==
  /\ step = "ranges" /\ at <= Len(ranges)
  /\ ~Outside(ranges[at]) /\ ranges[at].offset >= cursor
  /\ cursor' = End(ranges[at]) /\ at' = at + 1
  /\ UNCHANGED <<file, step, ranges, unused, checked, verdict>>

BeginGaps ==
  /\ step = "ranges" /\ at > Len(ranges)
  /\ step' = "gaps" /\ at' = 1 /\ cursor' = HeaderEndOf(file)
  /\ UNCHANGED <<file, ranges, unused, checked, verdict>>

\* Where the gap at the cursor ends.
GapEnd == IF at <= Len(ranges) THEN ranges[at].offset ELSE file.size

GapSize == GapEnd - cursor

\* Go on behind the current range; behind the last one the file ends.
Advance ==
  /\ IF at <= Len(ranges)
     THEN step' = "gaps" /\ cursor' = End(ranges[at]) /\ at' = at + 1
          /\ UNCHANGED verdict
     ELSE step' = "accepted" /\ verdict' = "ok" /\ UNCHANGED <<cursor, at>>
  /\ UNCHANGED <<file, ranges>>

NoGap ==
  /\ step = "gaps" /\ GapEnd <= cursor
  /\ Advance /\ UNCHANGED <<unused, checked>>

\* Mutant: the budget applies to each gap on its own.
OverBudgetMutant(size) == size > MaxUnused

Smaller(m, n) == IF m < n THEN m ELSE n
OverBudget(size) == size > MaxUnused - Smaller(unused, MaxUnused)

EnterGap ==
  /\ step = "gaps" /\ GapEnd > cursor
  /\ \/ OverBudget(GapSize) /\ Reject("resource_limit")
     \/ /\ ~OverBudget(GapSize)
        /\ unused' = unused + GapSize /\ checked' = 0 /\ step' = "scan"
        /\ UNCHANGED <<file, ranges, at, cursor, verdict>>

\* The bytes of the next chunk.
Scanned ==
  cursor + checked .. cursor + checked + Smaller(Chunk, GapSize - checked) - 1

ScanChunk ==
  /\ step = "scan" /\ checked < GapSize
  /\ \/ ReadFails /\ Reject("io_error")
     \/ Scanned \cap file.dirty # {} /\ Reject("invalid_block")
     \/ /\ Scanned \cap file.dirty = {}
        /\ checked' = checked + Smaller(Chunk, GapSize - checked)
        /\ UNCHANGED <<file, step, ranges, at, cursor, unused, verdict>>

LeaveGap ==
  /\ step = "scan" /\ checked = GapSize
  /\ Advance /\ UNCHANGED <<unused, checked>>

Check ==
  \/ ReadPreamble \/ ReadHeader \/ CheckRange \/ PassRange \/ BeginGaps
  \/ NoGap \/ EnterGap \/ ScanChunk \/ LeaveGap

-----------------------------------------------------------------------------
(* What the two loops are meant to decide, said without them. *)

Bytes(range) == range.offset .. End(range) - 1
Payload(f) == HeaderEndOf(f) .. f.size - 1
Blocks(f) == UNION {Bytes(f.ranges[i]) : i \in DOMAIN f.ranges}
Unused(f) == Payload(f) \ Blocks(f)

\* Every block is a nonempty part of the payload, and no byte belongs to two.
Partitioned(f) ==
  /\ \A i \in DOMAIN f.ranges :
       Bytes(f.ranges[i]) # {} /\ Bytes(f.ranges[i]) \subseteq Payload(f)
  /\ \A i, j \in DOMAIN f.ranges :
       i # j => Bytes(f.ranges[i]) \cap Bytes(f.ranges[j]) = {}

WellFormed(f) ==
  /\ f.size > PreambleSize /\ f.signed /\ f.reserved /\ f.sound
  /\ f.length \in 1 .. MaxHeaderBytes /\ HeaderEndOf(f) <= f.size
  /\ Partitioned(f)
  /\ Unused(f) \cap f.dirty = {}
  /\ Cardinality(Unused(f)) <= MaxUnused

\* A document that opens has each byte of its payload in exactly one block or
\* proven zero, within the budget; one that is turned away for another reason
\* than a failing read has not (open_source, parse_header and
\* validate_unused_spaces).
DecidesExactly ==
  /\ step = "accepted" => WellFormed(file)
  /\ step = "rejected" /\ verdict # "io_error" => ~WellFormed(file)

\* The scan for zeros never spends more than the budget and never looks into a
\* block or the header, whatever the header declares.
ScansOnlyUnused ==
  /\ unused <= MaxUnused
  /\ step = "scan" /\ checked < GapSize => Scanned \subseteq Unused(file)

-----------------------------------------------------------------------------
(* The inductive invariant behind these two properties.                      *)

\* What has been established when the header is accepted.
InvHeader ==
  /\ step \in {"closed", "preamble", "header"} =>
       ranges = << >> /\ at = 1 /\ unused = 0
  /\ step \in {"header", "ranges", "gaps", "scan", "accepted"} =>
       file.size >= PreambleSize /\ file.signed /\ file.reserved
  /\ step \in {"ranges", "gaps", "scan", "accepted"} =>
       /\ file.length \in 1 .. MaxHeaderBytes /\ HeaderFits /\ file.sound
       /\ ranges = Sorted(file.ranges)

\* The first n ranges lie in the payload, one behind the other.
Passed(n) ==
  \A i \in 1 .. n : /\ ~Outside(ranges[i])
                   /\ \A j \in 1 .. i - 1 : End(ranges[j]) <= ranges[i].offset

\* Where the ranges before the current one end.
Reached == IF at = 1 THEN HeaderEndOf(file) ELSE End(ranges[at - 1])

InvRanges ==
  /\ step = "ranges" => unused = 0 /\ Passed(at - 1)
  /\ step \in {"gaps", "scan", "accepted"} => Passed(Len(ranges))
  /\ step \in {"ranges", "gaps", "scan"} => cursor = Reached

UnusedBelow(b) == Unused(file) \cap 0 .. b - 1

\* The unused bytes in front of the cursor, or of the end of the gap, have been
\* paid for; those in front of the next chunk are clean.
InvGaps ==
  /\ unused <= MaxUnused
  /\ step = "gaps" => /\ unused = Cardinality(UnusedBelow(cursor))
                      /\ UnusedBelow(cursor) \cap file.dirty = {}
  /\ step = "scan" => /\ checked \in 0 .. GapSize
                      /\ unused = Cardinality(UnusedBelow(GapEnd))
                      /\ UnusedBelow(cursor + checked) \cap file.dirty = {}

IInv == InvHeader /\ InvRanges /\ InvGaps /\ DecidesExactly
=============================================================================
