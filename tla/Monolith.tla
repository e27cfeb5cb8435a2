------------------------------ MODULE Monolith ------------------------------
(***************************************************************************)
(* What the writer lays out, the reader opens: WriterLayout produces a      *)
(* file, ReaderRanges takes it apart again from nothing but its preamble     *)
(* and header.  The reader also opens files that others wrote.               *)
(***************************************************************************)
EXTENDS WriterLayout

CONSTANTS
  MaxHeaderBytes, MaxUnused, Chunk, ReadFails,  \* of the reader
  ForeignFiles,  \* files the reader opens that this writer did not write
  LargestOpened  \* bound of the model: written files above it stay unopened

VARIABLES file, step, ranges, at, cursor, unused, checked, verdict

Reader == INSTANCE ReaderRanges

ASSUME MonolithAssumption ==
  /\ Reader!RangesAssumption
  /\ ForeignFiles \subseteq Reader!File /\ LargestOpened \in Nat

readerVars == <<file, step, ranges, at, cursor, unused, checked, verdict>>
allVars == <<vars, readerVars>>

\* The file as it went out.  Padding is the only thing known to be zero: every
\* byte of header and blocks may be anything.
WrittenFile ==
  [size     |-> written,
   signed   |-> TRUE,
   reserved |-> TRUE,
   length   |-> header.size,
   sound    |-> TRUE,
   ranges   |-> [i \in 1 .. Total |-> [offset |-> header.locations[i],
                                       size   |-> request.sizes[i]]],
   dirty    |-> 0 .. HeaderEnd - 1 \cup
                UNION {starts[i] .. starts[i] + request.sizes[i] - 1 :
                         i \in 1 .. Total}]

Write == step = "closed" /\ Next /\ UNCHANGED readerVars

OpenWritten ==
  /\ phase = "done" /\ written <= LargestOpened
  /\ Reader!Open(WrittenFile) /\ UNCHANGED vars

\* The reader does not look at the writer: one request, at its start, will do.
OpenForeign ==
  /\ step = "closed" /\ request = CHOOSE r \in Requests : TRUE
  /\ phase = "plan" /\ renders = 0 /\ locations = << >>
  /\ \E f \in ForeignFiles : Reader!Open(f)
  /\ UNCHANGED vars

Read == Reader!Check /\ UNCHANGED vars

MonolithInit == Init /\ Reader!Init
MonolithNext == Write \/ OpenWritten \/ OpenForeign \/ Read

MonolithSpec == MonolithInit /\ [][MonolithNext]_allVars

\* The variables of the writer and of the reader have their types.
BothTyped == TypeOK /\ Reader!TypeOK

\* Of the reader alone, for every file (see there).
DecidesExactly == Reader!DecidesExactly
ScansOnlyUnused == Reader!ScansOnlyUnused

PaddingBytes == Cardinality(Reader!Unused(file))

\* A file the writer produced is opened, with its blocks in the order they were
\* written and each where it was written; the only file that is turned away,
\* unless a read fails, has a header that is longer, or needs more padding, than
\* the reader is willing to read.
ReaderAgrees ==
  phase = "done" =>
    /\ step = "accepted" =>
         /\ file.size = fileSize
         /\ [i \in DOMAIN ranges |-> ranges[i].offset] = starts
         /\ [i \in DOMAIN ranges |-> ranges[i].size] = request.sizes
    /\ step = "rejected" =>
         \/ verdict = "io_error"
         \/ PaddingBytes > MaxUnused \/ header.size > MaxHeaderBytes

-----------------------------------------------------------------------------
(* The inductive invariant: that of the writer, that of the reader, and which  *)
(* file the reader looks at when the writer is done.                           *)

OpensWhatWasWritten ==
  step # "closed" =>
    \/ phase = "plan"
    \/ phase = "done" /\ file = WrittenFile

MonolithIInv == IInv /\ Reader!IInv /\ OpensWhatWasWritten
=============================================================================
