----------------------------- MODULE FileSource -----------------------------
(***************************************************************************)
(* FileByteSource (src/src/reader.cpp): positioned reads over one stream     *)
(* with one position and one error state, shared by every read operation of   *)
(* a Reader, in any number of threads.                                       *)
(*                                                                         *)
(* The file may be overwritten and shortened while it is open; its size was   *)
(* asked for once.  A byte is known by its place in the file and by whether   *)
(* it is the byte the header was written for.  The stream's own buffer is     *)
(* not modelled: a read sees the file as it is.                              *)
(***************************************************************************)
EXTENDS Integers, Sequences, FiniteSets

CONSTANTS
  Clients,   \* the read operations
  Free,      \* nobody holds the mutex
  FileSize   \* source_size_

ASSUME SourceAssumption == Free \notin Clients /\ FileSize \in Nat

VARIABLES
  good,      \* for each place, whether the byte there is the declared one
  length,    \* the length of the file now
  mutex,
  position,  \* of the stream
  exhausted, \* eofbit and failbit: a read ran into the end
  request,   \* the arguments of read_at: [offset, count]
  stage,     \* of read_at: "none", "asked", "held", "sought", "replied"
  reply      \* what read_at returned: bytes, or IoError

file == <<good, length>>
stream == <<mutex, position, exhausted>>
reads == <<request, stage, reply>>

Byte == [at : 0 .. FileSize - 1, good : BOOLEAN]
NoRead == [offset |-> 0, count |-> 0]
IoError == <<[at |-> -1, good |-> FALSE]>>   \* no bytes

SourceTypeOK ==
  /\ good \in [0 .. FileSize - 1 -> BOOLEAN]
  /\ length \in 0 .. FileSize
  /\ mutex \in Clients \cup {Free}
  /\ position \in 0 .. FileSize
  /\ exhausted \in BOOLEAN
  /\ request \in [Clients -> [offset : 0 .. FileSize, count : 0 .. FileSize]]
  /\ stage \in [Clients -> {"none", "asked", "held", "sought", "replied"}]
  /\ reply \in [Clients -> Seq(Byte) \cup {IoError}]

SourceInit ==
  /\ good = [i \in 0 .. FileSize - 1 |-> TRUE]
  /\ length = FileSize
  /\ mutex = Free /\ position = 0 /\ exhausted = FALSE
  /\ request = [c \in Clients |-> NoRead]
  /\ stage = [c \in Clients |-> "none"]
  /\ reply = [c \in Clients |-> << >>]

-----------------------------------------------------------------------------

\* read_at is called.  A range outside the file as it was opened is refused; a
\* Reader has no block there (see ReaderRanges).
Ask(c, offset, count) ==
  /\ offset + count <= FileSize
  /\ request' = [request EXCEPT ![c] = [offset |-> offset, count |-> count]]
  /\ stage' = [stage EXCEPT ![c] = "asked"]
  /\ UNCHANGED <<file, stream, reply>>

\* Mutant: the position is not protected.
NotLockedMutant == TRUE

NotLocked == mutex = Free

\* Mutant: the stream keeps the error of an earlier read.
ClearedMutant == exhausted

\* input_.clear()
Cleared == FALSE

Acquire(c) ==
  /\ stage[c] = "asked" /\ NotLocked
  /\ mutex' = c /\ exhausted' = Cleared
  /\ stage' = [stage EXCEPT ![c] = "held"]
  /\ UNCHANGED <<file, position, request, reply>>

\* Mutant: an early return of a read that found less than it wanted forgets
\* the mutex.
ReleaseMutant == mutex' = IF exhausted' THEN mutex ELSE Free

Release == mutex' = Free

Reply(c, r) ==
  /\ reply' = [reply EXCEPT ![c] = r]
  /\ stage' = [stage EXCEPT ![c] = "replied"]
  /\ Release

\* seekg does nothing to a stream in error.
Seek(c) ==
  /\ stage[c] = "held"
  /\ \/ /\ exhausted /\ UNCHANGED exhausted
        /\ Reply(c, IoError) /\ UNCHANGED position
     \/ /\ ~exhausted
        /\ position' = request[c].offset
        /\ stage' = [stage EXCEPT ![c] = "sought"]
        /\ UNCHANGED <<mutex, exhausted, reply>>
  /\ UNCHANGED <<file, request>>

Fewer(m, n) == IF m < n THEN m ELSE n

\* How many bytes of the file the stream can still give: a file that was
\* shortened ends early, perhaps in front of the position.
Available(c) ==
  IF position < length THEN Fewer(request[c].count, length - position) ELSE 0

ReadStream(c) ==
  /\ stage[c] = "sought"
  /\ position' = position + Available(c)
  /\ exhausted' = (Available(c) < request[c].count)
  /\ Reply(c, [j \in 1 .. Available(c) |->
                 [at |-> position + j - 1, good |-> good[position + j - 1]]])
  /\ UNCHANGED <<file, request>>

ReadAt(c) == Acquire(c) \/ Seek(c) \/ ReadStream(c)

\* Other programs.
Overwrite(i) ==
  /\ good' = [good EXCEPT ![i] = ~@]
  /\ UNCHANGED <<length, stream, reads>>

Shorten(n) ==
  /\ n < length /\ length' = n
  /\ UNCHANGED <<good, stream, reads>>

\* A client takes the reply.
Taken(c) ==
  /\ stage[c] = "replied"
  /\ stage' = [stage EXCEPT ![c] = "none"]
  /\ reply' = [reply EXCEPT ![c] = << >>]
  /\ UNCHANGED <<file, stream, request>>

-----------------------------------------------------------------------------
(* What the mutex is for: an invariant of every module that uses the source.  *)

\* Whoever is inside holds the mutex, so that nobody else moves the stream
\* between seekg and read; what a reply holds is a prefix of the range asked
\* for, and a proper prefix only if the file was cut off within the range.
SourceInv ==
  \A c \in Clients :
    /\ request[c].offset + request[c].count <= FileSize
    /\ stage[c] \in {"held", "sought"} => mutex = c
    /\ stage[c] = "held" => ~exhausted
    /\ stage[c] = "sought" => position = request[c].offset
    /\ stage[c] = "replied" =>
         /\ reply[c] \in Seq(Byte)
         /\ Len(reply[c]) <= request[c].count
         /\ \A j \in DOMAIN reply[c] : reply[c][j].at = request[c].offset + j - 1
         /\ Len(reply[c]) < request[c].count =>
              length < request[c].offset + request[c].count
=============================================================================
