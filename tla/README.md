# A specification of mmxisf

mmxisf is a C++ library that reads and writes monolithic XISF files: a 16-byte
preamble, an XML header, and data blocks at the offsets the header declares.
This directory holds TLA+ modules for the parts of it that keep state over
several steps and for the grammars both sides of it must agree on, TLC instances
that check them, and proofs of what the runs check of publication, layout, opening, header
documents, compressed blocks, block reads and row delivery, for every value of the constants.
Line numbers below are those of the commit the modules were written from;
`PROJECT.json` maps each definition to its lines.

## 1. The system

| Component (source) | State it keeps | Operations | What is hard | What makes it correct |
|---|---|---|---|---|
| **Publication** (`src/writer.cpp`: `write_file`, `write_to`, `TemporaryFilesCleanup`, `write_file_contents`, `ExclusiveFileByteSink`) | the directory, the files under way, the guard's list of paths, the caller's stop token | create exclusively, append, reopen, flush, close, hard link, remove | calls in many threads and processes share names; any step may fail, be cancelled or be the last before a crash | a visible destination is complete; nothing of somebody else is removed or replaced; nothing of one's own is left; success means published |
| **Layout** (`src/writer.cpp`: `write_impl`, `align_up`) | the guessed attachment offset, planned offsets, the rendered header | plan, render, start over, emit | the header's length depends on offsets that depend on the header's length | the header emitted is true of the bytes that follow; planning ends |
| **Block preparation** (`prepare_block`) | a block's sub-blocks and their sizes, in memory or in a spool | shuffle, cut, compress, describe | whole-block shuffle against sub-blocks; budgets | a reader gets back what went in |
| **Byte source** (`src/reader.cpp`: `FileByteSource`) | one stream, one mutex | `read_at` | one file position for all readers; a stream stays in error | each read gets its own bytes and only its own errors |
| **Metadata** (`write_impl`'s checks, `escape_xml`, `make_metadata_xml`, `make_header`; `start_element` for Property and FITSKeyword) | the caller's entries, the header, the document's entries | check, serialize, parse | two copies of every rule; an XML processor in between that changes blanks | what the writer takes comes back the same |
| **Value syntax** (`is_valid_integer_value`, `is_valid_time_point_value` and their like, in both files) | none | decide on a text | ranges decided on digits, without a number | exactly the literals within the range of the type |
| **Opening** (`open_source`, `XmlBuilder`, `parse_header`, `validate_unused_spaces`) | the objects and references collected so far; the builder's open elements, one decoder and the texts; the sorted ranges and the scan position | read the preamble; expat callbacks; sort, check, scan | forward references; text in pieces; ranges of a damaged file | the document is what the tree of elements says; each text is kept where it belongs; every payload byte is accounted for |
| **Reading blocks** (`read_image_into`, `read_property_block`, `read_icc_profile`, `read_thumbnail`, `decode_compressed_block`) | staging buffer, destination, digest | read in chunks, verify, decode, rearrange, swap | verification before use, in-place work in the caller's buffer | only verified bytes reach the caller; sub-blocks are decoded in bounds |
| **Row delivery** (`read_image_rows`) | position in the source, the partial row | a verifying pass, a delivering pass, the caller's sink | the source changes between the passes; rows cut by sub-blocks | success means that what was delivered had been verified |
| Viewer, tools, `Result`/`Error`, version | a user interface, or none | | | not modelled, see section 8 |

The parts interact in four ways. `write_file` drives layout and preparation and
publishes what they produce. A file goes from the writer to any number of
readers through the file system alone. `Reader::open` gives a `Document` whose
ranges and descriptors all later reads rely on without looking at the header
again. All reads of one `Reader`, from whatever thread, share one byte source.

## 2. Modules

| Module | Models | Uses |
|---|---|---|
| `AtomicPublish` | the promise of `write_file`: a destination is taken at most once, by one commit | |
| `WriterCommit` | `write_file` and `write_to`, several calls at a time | implements `AtomicPublish` |
| `WriterCommitProofs` | theorems about `WriterCommit` | `WriterCommit`, `TLAPS` |
| `WriterLayout` | planning, rendering, emission in `write_impl` | |
| `ReaderRanges` | preamble, header length, attached ranges and unused space at open | |
| `Monolith` | files of `WriterLayout`, and foreign ones, opened by `ReaderRanges` | extends the first, instantiates the second |
| `MonolithProofs` | theorems about `WriterLayout`, about `ReaderRanges`, and about both together | `Monolith`, `ArithmeticLemmas`, `FiniteSetTheorems` |
| `BlockCodec` | `prepare_block` and, back, `parse_compression_plan` and `decode_compressed_block` | |
| `BlockCodecProofs` | theorems about `BlockCodec` | `BlockCodec`, `ArithmeticLemmas` |
| `FileSource` | `FileByteSource` over a file that other programs change | |
| `BlockRead` | image, property, thumbnail and profile reads | extends `FileSource` |
| `BlockReadProofs` | theorems about `BlockRead` and `FileSource` | `BlockRead`, `ArithmeticLemmas` |
| `RowReader` | `read_image_rows` | |
| `RowReaderProofs` | theorems about `RowReader` | `RowReader`, `ArithmeticLemmas` |
| `ArithmeticLemmas` | division with remainder, mixed radix, sums, and induction over the natural numbers, for all proofs | `WellFoundedInduction`, `TLAPS` |
| `HeaderDocument` | the element callbacks and the resolution of references | |
| `HeaderDocumentProofs` | theorems about `HeaderDocument` | `HeaderDocument`, `FiniteSetTheorems` |
| `HeaderText` | the character-data callback, the one decoder of embedded and inline blocks, and the texts of Properties, Cells and extensions | |
| `HeaderTextProofs` | theorems about `HeaderText` | `HeaderText`, `ArithmeticLemmas` |
| `ValueSyntax` | the texts of Booleans, integers, reals, complex numbers and times, and what they denote | |
| `MetadataRoundTrip` | metadata through the writer's checks, the escaped header, expat and the reader's checks | extends `ValueSyntax` |

An operator named `...Mutant` is a wrong form of the definition that follows it.
No behaviour uses it; it documents a mistake the properties are known to find.

### WriterCommit

`fs` maps each path name to a file, to `Absent` or to `Foreign` (a file that no
call created); `content` holds what was written to each file, `synced` how much
of it a flush had covered. Each call has a program counter `pc`, the block and
unit it is at (`blk`, `done`, `pos`), the guard's paths (`tracked`), the paths
the guard failed to remove (`stuck`), its `stop` token and its `result`. An
action is one system call or one turn of a loop together with its error exits,
since another process may run between any two: `CreateTracked` is exclusive
creation followed by `track`, and `CreateThenNoMemory` is the same with an
allocation failing in between (the file exists, the guard does not know it). No
result tells that case from an exhausted budget, both being `resource_limit`, so the
history variable `stray` notes the name a call had bound when memory ran out, there or
after the link; nothing reads it but the properties.
`SpoolUnit` is a turn of the compression loop, `WriteFromMemory` and its spool
counterpart a turn of the copy loop; flush, close, last look at the token
(`pc = "final"`), link, summary and cleanup are steps of their own, in the
order of the code. `Faults` names what the environment may do: failing
allocation (`alloc`), I/O (`io`), budget (`limit`) or removal (`remove`),
cancellation (`stop`), death of a process (`crash`), files of other programs
(`foreign`), and shortening or extending a spool behind the writer's back
(`tamper`).

Bytes are units: one unit is what one successful `ByteSink::write` takes. A unit
is identified by its block and its place, so an output can be compared with its
plan. Codecs and budgets only decide whether a step fails.

### WriterLayout, ReaderRanges, Monolith

`WriterLayout` counts bytes. A request is the header's length without offsets
(`base`) and the block sizes; `HeaderSize` adds the decimal digits of the
planned offsets, which is the whole feedback loop. `PlanBlock` is one turn of
`plan_blocks`, `RenderHeader` compares the rendered header with the guess and
emits or starts over, `GiveUp` is the error after `MaxRenders = 4` rounds.
Padding is computed modulo `Word`, as the unsigned subtraction in the code.

In `ReaderRanges`, `ReadPreamble` and `ReadHeader` are `open_source` with its
checks in the order of the code; the latter ends with the sort of `parse_header`,
whose range checks are `CheckRange` and `PassRange`; `EnterGap`, `ScanChunk` and
`LeaveGap` are `validate_unused_spaces`. A file is its size, what its preamble
says, the ranges its header declares and which of its bytes are not zero; whether
the header is sound is one flag, which `HeaderDocument` and `HeaderText` are about.
`Monolith` writes a file with the first and opens it with the second; header and
block bytes may be anything, padding is zero. It also opens files the writer did
not write (`ForeignFiles`).

### BlockCodec, FileSource, BlockRead, RowReader

In `BlockCodec`, a decoded byte is its index in the block and a serialized byte
is (stream, place), so a permutation that is not undone, or a stream cut at the
wrong place, is visible. A codec is external: it may produce a stream of any
length up to a bound, and decodes it if offered whole with the right room. `Foreign`
supplies descriptors no mmxisf writer makes.

`FileSource` splits `read_at` into taking the mutex, `clear`, `seekg`, and
`read`, over one stream position and one error state. `BlockRead` gives each
client a list of steps (read in chunks, verify, decode or rearrange, swap)
derived from its plan as the code derives them from the options, `turn` being the
index of the next one, and a destination whose untouched places are distinguishable. `ChangeFile` overwrites
or shortens the file at any time. Whether the attachment's bytes are the
declared ones (`good`) stands for the checksum; a digest is ideal.

`RowReader` abstracts the source to one flag per piece (the declared bytes are
there or not) that may flip between any two steps, also in the middle of the
two passes, and follows each sample from the piece to the row view the sink
sees.

### HeaderDocument

`Start(e)` and `EndElement` are `start_element` and `end_element`. `doc` records
the tree as it arrives and drives nothing; `objects`, `events`, `images`, `own`,
`uids`, `openTable` and the stack are what `XmlBuilder` keeps. `Finish` resolves
references as `parse_header` does. Fields of a Structure and cells of a Table
are numbers; `Refuse` covers every limit and every attribute error, none of
which depends on the rest.

The rules for places compare the parent's name (`reader.cpp:2315`), and only the
element at depth 1 has to be the root (`reader.cpp:1278`). An element named `xisf`
further down is accepted and passes for the root, for the Properties and FITSKeywords
in it: `StartNested`. An entry belongs to the image that is open (`current_image()`,
`reader.cpp:2399`), not to its parent, so one below such an element in an Image is
bound to the Image; a Reference there goes by its parent and is bound to nothing.

### HeaderText

The builder has to know from its own state what a piece of text is for. `block`
stands for its three `embedded_..._index` and `inline_..._index` variables, of
which at most one is set; `open` for the indices of open elements and
`decoder` for the quartet, the padding mark and the nibble that all encoded blocks
of a header share. `StartElement`, `EndElement` and `CharacterData` are the three
callbacks. A piece of text has one character, since a longer one does
what its characters do in turn; every split is therefore covered. The input
(`doc`) is kept beside the builder, and the properties are said of the whole text
of an element, in terms of RFC 4648 rather than of a decoder.

As in `HeaderDocument`, an element named `xisf` below the root stands for the root
with the Properties in it, so that a text Property may have another Property inside.
The end of the inner one resets the only index (`reader.cpp:2618`), and the outer one
keeps no more text. `doc` therefore has two records of the input that only the
properties read: what is heard between the tags of an element until the reader is
`Disturbed`, and what of its own text no element was to keep (`stray`).

### ValueSyntax, MetadataRoundTrip

`ValueSyntax` translates the predicates on texts, character by character where
the code looks at characters; words (`nan`, `true`), dates and times of day are
one character each. Widths are 8 and 16 bits: the wider types run the same
code with other literals, which no run looks at, since numbers of 32 bits are more
than TLC can count: a wrong digit in the tables of `maximum_decimal_magnitude` for
32, 64 and 128 bits (`reader.cpp:177-210`) would not be found. The second half defines the same texts by their grammar
and number, with which the first half is compared. `Write` is the metadata part of
`write_impl` as a whole, since nothing outside sees it halfway; `Parsed`, `Lines`
and `Breaks` are expat, from the XML recommendation; `Read` is the reader's.

## 3. Runs

| Run | Instance | Checks |
|---|---|---|
| `writer_pair` | two `write_file` calls, one destination, one spooling two units, one in memory; every fault | `TypeOK`, `OutputFaithful`, `PublishedComplete`, `TrackedOwned`, `CleanReturn`, `SuccessIsPublication`, `IInv`, `NoForeignLoss`, `ImplementsAtomicPublish` |
| `writer_crowd` | two `write_file` calls for one destination, one in memory and one with a spool, and a `write_to` with two spools whose scratch stem is that destination; stops, failing removals; fairness | `NoMutualDefeat`, `StopHonoured`, `EveryCallReturns` |
| `writer_late_failure` | as `writer_pair`, only allocations fail | violates `FailureLeavesNoDestination`, see section 7 |
| `monolith` | headers around 100, 1000 and 10 000 bytes with 1 to 15 blocks, sums around `Word`, a plan that gives up; those below 300 bytes are opened again; beside them all foreign files of six payload bytes with up to three ranges, two gaps that only together exceed the budget, and damaged preambles; failing reads | `BothTyped`, `HeaderIsTrue`, `TightLayout`, `FewBlocksSettle`, `NeverMovesForward`, `ReaderAgrees`, `DecidesExactly`, `ScansOnlyUnused` |
| `writer_layout_many` | 120 blocks of 16 bytes behind headers of 98 000 and 98 740 bytes | violates `PlanningReachesFixedPoint`, see section 7 |
| `block_codec` | all blocks of one to five bytes, items of one to three, shuffled or not, every sub-block length; foreign descriptors over {0, 1, 2, 7} modulo 8 | `TypeOK`, `ReadsBack`, `DecodesInBounds` |
| `block_read` | two reads at once over nine bytes: direct and rearranged, staged and swapped, mixed; one change of the file; stops; fairness | `TypeOK`, `ReadsOwnBlock`, `VerifiedBytes`, `KeepsDestination`, `FailsOnItsOwn`, `EveryReadEnds` |
| `row_reader` | 2 x 2 images of two channels, planar and interleaved, raw, packed, shuffled, checked or not; pieces that cut rows anywhere; two changes of the source; every fault | `TypeOK`, `SuccessIsVerified`, `DamageFoundFirst`, `RowsInOrder`, `StopHonoured` |
| `header_document` | all headers of up to four elements beside Metadata, from sixteen templates with two uids | `TypeOK`, `MeansItsTree` |
| `header_text` | headers of a few elements of six families, with every text of up to the bounds of `MCHeaderText.cfg` between their tags | `TypeOK`, `BlocksAreTheirText`, `TextGoesHome` |
| `metadata_round_trip` | one entry of any type with values of up to eleven characters, or three brief ones in every scope; extents; limits that are reached | `ReadsAsWritten`, `AcceptsItsRange` |
| `metadata_lexical` | the same | violates `KeepsLexicalForm`, see section 7 |

What they say, in words:

- `OutputFaithful`: what a call has written is a prefix of its plan, and all of
  it on success, even when spools change length between closing and copying.
- `PublishedComplete`: a file visible under its destination is whole and was
  flushed before it became visible. It holds at every state, so also after a crash.
- `NoForeignLoss`: the guard removes by name, but what it removes is never
  another call's file, a foreign file or a publication.
- `CleanReturn`: after a return, whatever its result, the only names of a call's
  files are the publication of a success, those whose removal failed, and the one in
  `stray`: a file made just when memory ran out, or published before it did. A call
  that fails for a budget, or for memory anywhere else, leaves nothing.
- `SuccessIsPublication`, `ImplementsAtomicPublish`: of all calls for a name at
  most one succeeds, and the name stays its.
- `NoMutualDefeat`: calls that share names never all lose: when none was stopped and
  every removal succeeded, a call gives up only while another still works or after
  one has succeeded.
- `StopHonoured` (writer): a stop requested before the last look at the token is
  never followed by a publication or a success.
- `HeaderIsTrue`, `TightLayout`: blocks are where the header says, aligned and
  with less than one alignment of padding. `NeverMovesForward`: guesses only grow,
  so planning cannot oscillate; `FewBlocksSettle`: with fewer blocks than the
  alignment, four rounds are enough.
- `DecidesExactly`: opening succeeds exactly for files whose payload is
  partitioned into blocks and affordable zeros. `ScansOnlyUnused`: the scan never
  reads a block and never more than the budget.
- `ReaderAgrees`: whatever is written is opened with the same blocks, unless
  padding exceeds the reader's budget (44 bytes here, which some layouts exceed).
- `ReadsBack`, `DecodesInBounds`: a round trip is the identity and fails only for a
  limit that is really exceeded; no codec is given more room or input than there is,
  and success used up both.
- `ReadsOwnBlock`, `FailsOnItsOwn`: a read returns bytes of its own attachment in
  the places the options ask for, and fails only for a reason of its own.
- `VerifiedBytes`, `KeepsDestination`: with a checksum, success delivers the
  declared bytes; a staged block that cannot be read whole or fails its checksum
  leaves the destination alone.
- `SuccessIsVerified`, `DamageFoundFirst`: a successful row delivery delivered
  good samples only, and damage that was there before the call is found before
  the first row. `StopHonoured` (rows): after a stop at most the row on its way is
  delivered, and the call does not succeed unless its last look is past.
- `RowsInOrder`: no row is lost, doubled, reordered or mixed, and a plan that adds
  up leaves nothing over.
- `MeansItsTree`: what is collected and resolved is what a definition on the
  tree, quantifying over whole elements, says, elements named `xisf` included; and a
  header is accepted only if that definition finds it sound.
- `BlocksAreTheirText`: a block has the bytes whose encoding is its own text,
  whatever the pieces, the blanks and the blocks before; a text is refused only if
  no encoding begins like it, and with the group that shows it. The encodings are
  defined from the bytes (`Pairs`, `Quartets`); the decoder works from the digits.
- `TextGoesHome`: extension elements and Cells keep their text whole and in order; a
  text Property keeps what is between its tags, up to the first Property in it that
  keeps text itself or is over; no other text is kept, and what is not is refused where
  none may stand and passed over elsewhere; all of it within the cumulative limits.
- `ReadsAsWritten`: an entry the writer accepts is accepted by the reader, in its
  scope and its place, and has changed in nothing but which blanks it has.
- `AcceptsItsRange`: the predicates on texts hold exactly for the literals whose
  number, or day, lies in the type's range.

### Why the bounds are enough

Two calls meet at every pair of steps; the third in `writer_crowd` is there
because the spools of one call may have the names of another's, and because three
calls can refuse each other in a cycle. Two units in a spool give a first and a later one. Layout depends on the
digits of offsets, so the headers straddle powers of ten, where lengths change.
Behind the preamble, six bytes hold a header, two blocks and gaps before, between
and behind; three ranges are the smallest list that sorting can get wrong in a way
no pair shows. Written files above 300 bytes are checked but not opened again,
since nothing in the reader depends on a size except through its limits.
Blocks of five bytes cover items that do and do not divide block and sub-block.
Rows of two samples in pieces of three, five, seven and eight end inside, at the
end of, and several rows further on. Four elements give the longest chain of the
resolution (a reference, to a Table, whose row structure is referred to) and a
Property below an `xisf` element in an Image beside one of the Image's own. Three
elements of text are an element, the block in it and the one that comes after;
four digits are a quartet, and a fifth follows its padding. The characters are a
digit without bits, digits with bits that padding forbids, the padding, a blank,
and letters of one encoding only; three elements also are a Property in an `xisf`
element in a Property, with text before, in and after it. Values reach the limits of both widths with
their digits and one more; eleven characters exceed the limit of a value.
Word, alignment and limits are scaled constants (`Word` is 2^64 in the code),
and the edges around them are in the instances.

Deadlock is not checked: every modelled operation ends, and the last state of a
run is one in which all of them have returned.

### Fairness

`EveryCallReturns` and `EveryReadEnds` assume weak fairness of each call's own
steps and nothing else: a thread that can run is scheduled some time. No step of
the writer waits for another call, since a taken name is an error and not a
wait. A read waits only for the byte source's mutex. Nothing is asked of that
mutex: each read takes it a finite number of times, so it is free for good once
the other read is done. Faults, stops and changes of files are never fair.

## 4. What is proved

Eight modules hold proofs. Each states its theorems for every value of the constants
its assumptions allow, so for any number of calls, blocks, reads, rows or ranges of
any size; TLC evaluates those assumptions in the runs. Every theorem goes along an
inductive invariant, called `IInv` and defined at the end of the module it is about
(`MonolithIInv` for `Monolith`). Each was confirmed by TLC on the run's instance
before it was proved; `writer_pair` keeps checking that of `WriterCommit`.

### WriterCommitProofs

| Theorem | Statement |
|---|---|
| `TypeCorrect` | `Spec => []TypeOK` |
| `Inductive` | `Spec => []IInv` |
| `OutputIsFaithful` | `Spec => []OutputFaithful` |
| `PublicationsAreComplete` | `Spec => []PublishedComplete` |
| `CleanupIsSafe` | `Spec => []TrackedOwned` |
| `ReturnsAreClean` | `Spec => []CleanReturn` |
| `SuccessPublishes` | `Spec => []SuccessIsPublication` |
| `NothingIsLost` | `Spec => NoForeignLoss` |
| `StopsAreHonoured` | `Spec => StopHonoured` |
| `SomebodyGetsThrough` | `CreatedAlong(rank)`, `Undisturbed`: `Spec => []NoMutualDefeat` |
| `Refinement` | `Spec => ImplementsAtomicPublish` |

The assumptions are `ConstantsAssumption` and `FilesAssumption`: the temporary
and the scratch names of a call are not its own destination (the code derives
them with suffixes), plans refer to units that are spooled, and the markers for
"no entry" and "not ours" are not files of a call. Names of *different* calls may
collide in any way.

Files are created once but removed and reopened by *name*, so no property of a file
is inductive without knowing what the names stand for. `IInv` therefore conjoins:

- `TrackedOwned`: what a call tracks stands for a file of its own, and not for
  its destination;
- `InvNames`: an output has a name only where its call put it, and a call that
  has created nothing yet has no file;
- `InvSpools`: the spools of a running call are tracked and stand under their
  names, and hold the right unit at every place a truncation has left;
- `InvOutput`: the output is the first `pos` units of the plan, and all of them,
  flushed, from the closing of the file on;
- `InvCommit`: the temporary is the file the call will link, and only a call at or
  past its link has a publication;
- `InvResult`: there is no result before the end, and nothing is tracked before the
  first step or after the last;
- `InvOwned`: a file of a call is tracked, stuck, published, or one of the two
  leftovers the code admits (a crash, an allocation failing after creation, whose name
  is in `stray`).

`TypeOK` is proved first and used everywhere. Preservation of `IInv` is proved
action by action, with one lemma for each kind of step several actions share
(creating, failing, appending, removing, doing nothing to the disk). The other
invariants follow from `IInv` and `TypeOK`; `NothingIsLost` from `TrackedOwned`,
since the guard removes only what is tracked. `StopsAreHonoured` rests on two facts:
only a call's own link makes its output visible, and a call that was stopped before
its last look never gets to the link or the summary, whatever the other calls and
the environment do meanwhile. The refinement maps a destination to
the call whose output stands there, and a call to "committed" once its output
stands under its destination; the link is the abstract commit, returning and
crashing are the abstract ends, a foreign file on a destination is the abstract
`Outside`, and every other step is a stutter.

`NoMutualDefeat` is not true of all constants: three calls can hold one another's next
names in a circle. `SomebodyGetsThrough` therefore assumes a ranking of the names that
agrees with the order in which each call creates its own: spools, temporary,
destination. The writer's names have one for any number of calls: each is a stem with a
suffix (`writer.cpp:1761`, `1784`, `1833`) that comes off in one way only, so names form
trees, and visiting every stem after the names made from it is such a ranking.
`MCWriterCommit` assumes the hypothesis of its instances, so TLC has checked that it can
be met. The other hypothesis, `Undisturbed`, allows stops and failing removals, as the run
does, and excludes what makes a call fail on its own account. The invariant is `InvAhead`:
for each call that failed there is one that has won, or one at work that holds a name
above all those the failed call has not yet removed. When a leader is itself refused a
name, whoever holds that name is ahead of it, or is behind somebody else who is, and that
cannot be the refused call, all of whose names rank below. `InvCalm` holds what this
needs: what a call tracks is what it has created on its way, closed spools keep their
length, and only taken names and stops end a call. Both were checked by TLC on the
instance of `writer_crowd`.

### MonolithProofs: the layout

| Theorem | Statement |
|---|---|
| `LayoutInvariant`, `LayoutTypeCorrect` | `Spec => [](TypeOK /\ IInv)`, `Spec => []TypeOK` |
| `HeadersAreTrue` | `Spec => []HeaderIsTrue` |
| `LayoutIsTight` | `Spec => []TightLayout` |
| `GuessesGrow` | `Spec => NeverMovesForward` |
| `FewBlocksAlwaysSettle` | `Spec => []FewBlocksSettle` |

`InvPlan` says that the plan follows from the guess, `InvEmit` that what has gone out
is the plan the header spells out, and `InvRounds` that the guess of a round is
the end of the header of the round before, whose plan was complete and put no block
further back. The last one makes guesses grow: later offsets have no fewer digits,
so the next header is no shorter and aligns no lower.

`FewBlocksAlwaysSettle` explains why four rounds are enough for fewer blocks than
the alignment has bytes. The first guess is one unit of alignment, and blocks first
move to where the header written for it ends. The second move at most doubles the
guess: where that is `q` units, no offset has gained more than `q` - 1 digits, so the
header has grown by less than `q` - 1 units. From then on an offset gains at
most one digit, all of them together less than a unit; so the third move is by
exactly one unit, and the header after it fits.
`InvFewBlocks` carries these distances from round to round.

### MonolithProofs on the reader, and on writer and reader

| Theorem | Statement |
|---|---|
| `MonolithInvariant`, `BothKeepTheirTypes` | `MonolithSpec => [](BothTyped /\ MonolithIInv)`, `MonolithSpec => []BothTyped` |
| `WritesAsSpecified` | `MonolithSpec => Spec` of `WriterLayout` |
| `LayoutKeepsItsPromises` | what is shown of `WriterLayout` above, of the composition |
| `DecidesByTheRules` | `MonolithSpec => []DecidesExactly` |
| `ScansWithinBudget` | `MonolithSpec => []ScansOnlyUnused` |
| `ReaderAgreesWithWriter` | `MonolithSpec => []ReaderAgrees` |

The lemmas whose names begin with `Reader` show that each step of opening keeps the
reader's `IInv`, for every file: `InvHeader` (what the checks passed so far have
established), `InvRanges` (the ranges passed so far lie in the payload, one behind the
other, and the cursor stands where the last of them ends) and `InvGaps` (the unused
bytes below the cursor have been counted against the budget, and those already scanned
are zero). `Sorted`
puts ranges with one offset in the order of the header; `std::sort` leaves the order
of equals open, but ranges with one offset are nonempty and overlap, so the file is
refused whichever comes first.

The composition is shown to behave as `WriterLayout`, which the
reader only looks at, and its reader as `ReaderRanges`. `OpensWhatWasWritten` links
them: once the writer is done, the file under the reader is the one written. That its
blocks are disjoint, aligned and separated by zeros follows from `HeaderIsTrue` and
`TightLayout`, and `DecidesExactly` then leaves only the reader's own limits and
failing reads as reasons to turn it away.

### BlockCodecProofs

| Theorem | Statement |
|---|---|
| `BlocksStayWellFormed`, `TypeCorrect` | `Spec => []IInv`, `Spec => []TypeOK` |
| `WrittenBlocksReadBack` | `Spec => []ReadsBack` |
| `DecodingStaysInBounds` | `Spec => []DecodesInBounds` |

`CodecAssumption` says that budgets are numbers a `uint64_t` holds. `InvWriting`: the
streams hold the shuffled block in order, and the spool holds the streams.
`InvPhases`: the header describes just those streams. `InvPlan`: the plan is the
list in the header as far as it was read, the totals are its sums, and a plan that
is decoded from adds up to the block. `InvDecoding`: the decoder stands where its
sub-blocks begin, every byte it has put anywhere belongs there, and it has been to
every place of the sub-blocks so far. Three lemmas about shuffling carry the round
trip: scattering is gathering backwards, it stays inside the block, and it leaves
no place out, whether or not items divide the block.

### BlockReadProofs

| Theorem | Statement |
|---|---|
| `ReadInvariant`, `TypeCorrect` | `Spec => [](TypeOK /\ IInv)`, `Spec => []TypeOK` |
| `ReadsItsOwnBlock` | `Spec => []ReadsOwnBlock` |
| `ReturnsVerifiedBytes` | `Spec => []VerifiedBytes` |
| `KeepsTheDestination` | `Spec => []KeepsDestination` |
| `FailsOnlyOnItsOwn` | `Spec => []FailsOnItsOwn` |

For any number of clients. `SourceInv` says that whoever has positioned the stream
holds the mutex, so nobody moves it before the read, and that a reply is a prefix
of what was asked for. Per client, `InvReading`, `InvStaged` and `InvDirect` say that
the bytes so far are the next bytes of its own block, in the staging buffer or at
their places in the destination, and `InvResult` what a result says of them.
Most of the module is about those places: `Place` is a permutation of the block, for
every number of channels, samples and bytes per sample, because it takes a position
apart in one mixed radix and puts it together in another (`ArithmeticLemmas`). It is
assumed that a sample which changes places fits into a chunk, as in the code, whose
chunk is 8 MiB.

### RowReaderProofs

| Theorem | Statement |
|---|---|
| `RowInvariant`, `RowTypeCorrect` | `Spec => [](TypeOK /\ IInv)`, `Spec => []TypeOK` |
| `SuccessVouchesForRows` | `Spec => []SuccessIsVerified` |
| `DamageReachesNoSink` | `Spec => []DamageFoundFirst` |
| `RowsArriveInOrder` | `Spec => []RowsInOrder` |
| `StopsInTime` | `Spec => StopHonoured` |
| `OneRowMore` | the same for every number of rows, where `StopHonoured` looks at a few |

`RowAssumption` holds what the plan was checked for before: pieces add up to the
image. `InvFlow` says that the samples read are those of the rows that are
through, then the row, then what is pending; `InvCount` how many rows that makes;
`InOrder` what was in them; `InvDigest` that a digest which is still sound vouches for
all samples on their way, and `InvIntact` that a first pass over a source that does
not change has seen all of it. From `InvFlow` and the sum of the pieces, the closing
checks of the extent cannot fail.

### HeaderDocumentProofs

| Theorem | Statement |
|---|---|
| `HeaderDocumentInvariant`, `HeaderDocumentTypeOK` | `Spec => [](TypeOK /\ IInv)`, `Spec => []TypeOK` |
| `HeaderDocumentMeansItsTree` | `Spec => []MeansItsTree` |

For every vocabulary, every header over it and every limit. `HeaderAssumption` only
says that an element has a `ref` exactly if it is a Reference, as the checks of
`start_element` have it, and that "no uid" is not a uid.

`IInv` says that the builder knows the tree so far, structure by structure: the
stack is a path of it (`InvStack`), `images` and `objects` are its images and its
other elements, one entry for each (`InvImages`, `InvObjects`), the table that is
open and the Structures inside of tables are those of the tree (`InvOpenTable`,
`InvInside`), references, in tables or anywhere, are recorded where they stand
(`InvTableReferences`, `InvReferences`), each element is in the same child of the root
as its parent (`InvTops`), and each binding event has one element: an entry anywhere in
an image or a child of Metadata, or a Reference or an attached element that is a child
of either (`InvEvents`, `InvOwn`). The last
conjunct is `SoundSoFar` itself: while parsing goes on the tree is sound as far as a
prefix of it can be.

That one is why a header is refused *exactly* when it should be. For each rule, the
guard of the callback over the builder's counters and indices is shown to be the rule
over the tree with the new element (`SoundGrows`); so `Malformed` leaves an unsound tree
and every other start tag a sound one. Then there is one lemma for each start tag and
one for the end tag, over lemmas that say, variable by variable, what adding one object,
one event or one image to both sides preserves. At the end of the header,
`TableRight`, `ProperRight` and `BindingsMean` translate the resolution in `Finish` into
the rules of `Sound`, and `PlacedAre` shows that bindings and associations correspond
one to one, which is what counting them against `MaxBindings` needs.

### HeaderTextProofs

| Theorem | Statement |
|---|---|
| `HeaderTextInvariant`, `HeaderTextTypeOK` | `Spec => []IInv`, `Spec => []TypeOK` |
| `HeaderTextGoesHome` | `Spec => []TextGoesHome` |
| `HeaderTextBlocks` | `Spec => []BlocksAreTheirText` |

For every set of families and characters, every header over them and all limits.
`IInv` has two halves, the tree and the decoder.

The tree (`InvTree`), for `TextGoesHome`. The callback decides by a chain of tests on its indices, and the property speaks of
the tree, so the invariant has to say that the two agree. `InvPlaces` says which kinds
can be inside of which (`Fits`): it follows that a path has at most one open element of
each kind but Property, and nothing that could take a text away from a Cell, a Field or
a block. `InvOpen` says that each index is that of the element of its kind in the path,
or nothing, that of the text Property being the one no other has disturbed, and `InvCharged` that the two counters of bytes are the sums of what the
elements have kept. `TextOutcome` then goes through the chain once: a character is kept by
exactly one element, its home, or by none, and then refused unless it is blank or in
a place where text is passed over.
The lemmas about `Charged` show that a sum over a header that grows by an element, or
by one character of one element, grows by what that adds.

The decoder (`InvOwners`, `InvDecoder`), for `BlocksAreTheirText`. `InvOwners` says
that no two encoded blocks have the same owner, so that a block that has ended is
not written again and one that begins finds no bytes. `InvDecoder` is `Follows`
for the open block: the digits of its text so far are the encoding of the bytes
delivered so far, followed by the nibble or the quartet that waits. The resets in
`start_element` are what makes it hold at a start tag. The argument has three parts:

1. The encodings, without any state. `PairsMore` and `QuartetsMore` say how an encoding
   grows by a byte or by a group of up to three, `BackFromPairs` and
   `BackFromQuartets` that `BytesOf` finds the bytes of any encoding again, so that the
   bytes a text stands for are the only ones.
2. The decoder keeps `Follows`: `FollowsNibble` and `FollowsByte` for base16,
   `FollowsSextet` and `FollowsQuartet` for base64, and `FollowsEnd` for the end tag, where
   `Follows` with nothing waiting is the property.
3. What is refused is no encoding: `RefusedDigit` (a character that is no digit),
   `RefusedAfterEnd` (anything after a padded group) and `RefusedGroup` (a group whose
   padding or whose unused bits are wrong) show that no ending makes the text an
   encoding, and `GroupTooMuch` that what is reported as too large is.

`CharacterBlocks` puts these together along the branches of `Decode`.

### Form and limits of the proofs

Sums of sizes, digits and samples are recursive functions, not `RECURSIVE` operators,
which the prover cannot handle. That such a recursion has a solution, and what it
yields for one argument more, is proved by induction over a *set* of numbers
(`NatSetInduction`, from the well-foundedness of `<`), since the library's induction
rule takes a predicate and the provers cannot instantiate it.

Only model-checked:

- `EveryCallReturns` and `EveryReadEnds`: liveness under fairness is out of the
  prover's reach.
- `ReadsAsWritten` and `AcceptsItsRange` of `MetadataRoundTrip`. The first compares
  selections from and folds over sequences of entries and characters, the second a
  predicate on characters with the number they write, a fold over the digits; each
  would need an induction for every such definition.

`TrackedOwned`, which `CleanupIsSafe` states, is a conjunct of `IInv`, which
`writer_pair` checks.

## 5. What the properties do not promise

Not every wish can hold, and the properties say where they stop. A spool altered
without changing its length is copied as it is (`writer.cpp:1194`): `OutputFaithful` is
stated for tampering that changes lengths. A direct read without a checksum
delivers what the file holds when it is read. Rows delivered before damage was
found in the second pass have been delivered; only the result tells. A crash
leaves temporary and spool files, whose names then refuse later calls until
somebody removes them; `CleanReturn` is about calls that return, and excuses the one
name that memory ran out over. Text inside an
element that a text Property does not expect, such as an unknown element of the
XISF namespace, is appended to the Property, and text behind an inner Property is
passed over: `TextGoesHome` says so. `ReadsBack` admits a sub-block that the codec's
own counters cannot hold, and `ReaderAgrees` padding above the reader's budget.
`DecidesExactly` is stated with unbounded sums where the code compares differences. A value of a
String Property may come back with other line ends (XML has one), and one of any
other type with spaces for tabs and line ends; `ReadsAsWritten` compares up to that.

## 6. Hazards

`PROJECT.json` lists them at their lines with the properties that cover them.
Three have none, for what the properties do not promise: the same-length alteration
of a spool above; sub-blocks above 4 GiB, which the writer can be configured to produce
and `decompress_zlib` refuses because zlib counts in `uInt` (`reader.cpp:4023`), in
`BlockCodec` as `CodecLimit`; and padding of the writer's that exceeds the reader's
budget for unused space.

## 7. Where code and documents disagree

- `writer_late_failure`: `docs/WRITER.md:197-199` says that a cancelled or failed
  `write_file` "does not produce a successful destination". The code links the
  destination (`writer.cpp:2077`) and then builds the summary; when its `reserve`
  (`writer.cpp:2089`) throws `std::bad_alloc`, the call reports `resource_limit`
  and the complete file stays. The file is whole (`PublishedComplete` holds);
  only the report is wrong. Reserving before the link would settle it.
- `writer_layout_many`: `docs/M6_STATUS.md:36-37` lists "fixed-point block
  planning". The loop (`writer.cpp:1922`) stops after four rounds. 120 blocks of
  16 bytes behind a header of about 98.7 kB need a fifth, and the write ends with
  `internal_error` (`writer.cpp:1948`) although a layout exists.
- `metadata_lexical`: `docs/WRITER.md:140-144` promises that scalar values "retain
  their caller-provided lexical form after XML escaping". `is_valid_scalar_property`
  trims blanks before it looks (`writer.cpp:280`), so `"0\t"` is accepted, and
  `escape_xml` writes the tab into the attribute as it is, where an XML processor
  turns it into a space. The number is the same, the text is not. Writing `&#9;`,
  `&#10;` and `&#13;`, or refusing blanks, would keep the promise.

Known divergences without a run of their own, which the models have and the properties
therefore allow for:

- A scratch file can stay behind. `docs/WRITER.md:98-99` and `179-181` say that spools
  are removed after a failure, and `docs/WRITER.md:197-199` that a failed `write_file`
  removes its incomplete temporary file. The code creates the file, allocates its sink
  and then tracks the name (`writer.cpp:1303-1308`, `1964-1978`); when one of these
  allocations throws, the guard does not know the file and it stays
  (`CreateThenNoMemory`, `stray`). Tracking the name before creating the file, or
  reserving room for it, would settle it.
- An element named `xisf` below the root is taken for the root by what is in it.
  `docs/decisions/0006-metadata-fidelity-model.md:21` gives an entry "the direct image
  index when the element is an `Image` child"; a Property in an `xisf` element in an
  Image has the image index too (`reader.cpp:2315`, `2399`).
- A text Property with another Property inside, in such an element, loses what follows.
  `docs/decisions/0006-metadata-fidelity-model.md:31-33` says that `value` "remains the
  exact XML-decoded attribute or direct character data"; the end of the inner Property
  resets `text_metadata_index` (`reader.cpp:2618`), and `character_data` passes over the
  rest without an error (`reader.cpp:2768`). Refusing `xisf` below depth 1 would settle
  both.

## 8. What is not modelled

- Text beyond values: the wording and layout of the XML, UTF-8 validation, the XML
  declaration, the syntax of identifiers and keywords, the parsing of locations,
  compression and checksum attributes, geometry, bounds, colour spaces and the other
  attributes of images, thumbnails, ICC profiles and ancillary elements; the tables
  of type names; conversions to double. Pure functions of one text, without state,
  whose outcome the modules take as accepted or refused.
- The byte budgets of block Properties in the writer's metadata checks, and in
  `MetadataRoundTrip` the reader's cumulative limits on header bytes and XML nodes.
- Libraries: expat, zlib, lz4, zstd and digests are used through what they promise;
  stream buffering is not distinguished from the file.
- Blocks stored without a codec in `BlockCodec`; conversion of a row's
  byte order; the content check of ICC profiles; the validation read plans do
  themselves, and reads of embedded and inline blocks (copies of what `HeaderText`
  decodes); growth of a file while it is opened; the order of bindings in an image.
- Viewer, command-line tools, `Result`, `Error`, version: clients and value types.
- `docs/RESOURCE_LIMITS.md:46` describes a cumulative limit of decoded bytes over
  a document; there is no such limit in the code, and no property for it.

## 9. Plan

Done, in this order: `WriterCommit` with `AtomicPublish` and its proofs;
`WriterLayout`, `ReaderRanges` and `Monolith`; `BlockCodec`; `RowReader`;
`FileSource` and `BlockRead`; `HeaderDocument`; the preamble and foreign files in
`ReaderRanges` and `Monolith`; `HeaderText`; `ValueSyntax` and `MetadataRoundTrip`;
then the proofs of `BlockRead`, `WriterLayout`, `RowReader`, `ReaderRanges` with
`Monolith`, `BlockCodec`, `HeaderDocument`, of `NoMutualDefeat`, and of `HeaderText`.

Extending the model:

1. The validation of read plans, composed with `BlockRead` and `RowReader`.
2. Blocks without a codec and the row byte order, to close `BlockCodec` and `RowReader`.
3. The attributes of an Image on both sides, in the manner of `MetadataRoundTrip`.

Proving more, in order of value:

1. `MetadataRoundTrip`: that what the predicates of `ValueSyntax` accept is what its
   grammar and its numbers allow, one predicate at a time; then `ReadsAsWritten`.

Recursion in modules that are proved about is written with functions, not with
`RECURSIVE`.
