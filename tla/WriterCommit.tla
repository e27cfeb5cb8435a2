---------------------------- MODULE WriterCommit ----------------------------
(***************************************************************************)
(* The publication protocol of Writer::write_file and Writer::write_to     *)
(* (src/src/writer.cpp): several calls, in one or many threads and         *)
(* processes, share one directory.  A call compresses large blocks into    *)
(* exclusively created spool files, writes a temporary file (or the        *)
(* caller's ByteSink), flushes and closes it, and publishes it with a hard *)
(* link; a scope guard then removes, by name, the files the call created.  *)
(* Between any two steps the other calls, a cancellation request, a crash  *)
(* or another program may run.                                             *)
(*                                                                         *)
(* The bytes are abstracted to units: one unit is what one successful      *)
(* ByteSink::write takes.  The budgets, the codecs and the layout decide   *)
(* only whether a step fails; WriterLayout and BlockCodec model them.      *)
(***************************************************************************)
EXTENDS Naturals, Sequences, FiniteSets

CONSTANTS
  Calls,     \* the write_file and write_to calls
  Names,     \* the path names of the directory
  NoName,    \* the empty path
  Dest,      \* Dest[c]: destination of a write_file, NoName for a write_to
  Temp,      \* Temp[c]: destination + ".mmxisf-tmp"
  Blocks,    \* Blocks[c]: the blocks the call prepares, in order
  Plan,      \* Plan[c]: the units of the output file, in order
  Faults,    \* the kinds of failure the environment may produce
  Absent,    \* no directory entry
  Foreign    \* a file no call created

FaultKinds == {"alloc", "crash", "foreign", "io", "limit", "remove", "stop",
               "tamper"}

\* "raw" bytes are written from the caller's span, "packed" ones from the
\* single compressed sub-block in memory, "spool" ones from a spool file, which
\* is read back for its checksum if one was asked for.
BlockSpec == [kind : {"raw", "packed", "spool"}, digest : BOOLEAN,
              name : Names \cup {NoName}, units : Nat]

\* Unit `at` of spooled block `block`; block 0 stands for bytes in memory.
Unit == [block : Nat, at : Nat]

IsSpool(c, k) == k \in DOMAIN Blocks[c] /\ Blocks[c][k].kind = "spool"

ASSUME ConstantsAssumption ==
  /\ Absent # Foreign
  /\ NoName \notin Names
  /\ Faults \subseteq FaultKinds
  /\ Dest \in [Calls -> Names \cup {NoName}]
  /\ Temp \in [Calls -> Names \cup {NoName}]
  /\ \A c \in Calls : Dest[c] # NoName => Temp[c] # NoName
  /\ \A c \in Calls : Dest[c] # NoName => Temp[c] # Dest[c]
  /\ \A c \in Calls : \A k \in DOMAIN Blocks[c] :
       Blocks[c][k].name # NoName => Blocks[c][k].name # Dest[c]
  /\ Blocks \in [Calls -> Seq(BlockSpec)]
  /\ Plan \in [Calls -> Seq(Unit)]
  /\ \A c \in Calls : \A i \in DOMAIN Plan[c] :
       Plan[c][i].block # 0 =>
         /\ IsSpool(c, Plan[c][i].block)
         /\ Plan[c][i].at \in 1 .. Blocks[c][Plan[c][i].block].units

\* A call writes files 1, 2, ... (its spools) and 0 (its output).
Files == UNION {{<<c, k>> : k \in {0} \cup DOMAIN Blocks[c]} : c \in Calls}

ASSUME FilesAssumption == Absent \notin Files /\ Foreign \notin Files

Owner(f) == f[1]
WritesFile(c) == Dest[c] # NoName

Errors == {"cancelled", "io_error", "invalid_argument", "resource_limit",
           "overflow", "internal_error"}

Preparing == {"prepare", "compress", "checksum"}
Opened == {"write", "close", "final", "link", "summary"}
Planned == Opened \cup {"open"}
Over == {"cleanup", "returned", "crashed"}
Steps == {"idle", "check", "prepare", "compress", "checksum", "open", "write",
          "close", "final", "link", "summary", "cleanup", "returned", "crashed"}

VARIABLES
  fs,        \* the directory: what each name stands for
  content,   \* the units written to each file, whether or not it has a name
  synced,    \* how many units of the output were there at its last flush
  pc,        \* the step each call is at
  blk,       \* the block being prepared
  done,      \* units of that block already spooled
  pos,       \* units of the plan already written
  tracked,   \* TemporaryFilesCleanup::paths_
  stuck,     \* names the guard could not remove
  stray,     \* history: the name a call made for a file just when memory ran out
  stop,      \* the call's stop_token
  result     \* the Result the call is returning

vars == <<fs, content, synced, pc, blk, done, pos, tracked, stuck, stray, stop,
          result>>
local == <<blk, done, pos>>
disk == <<fs, content, synced>>
guarded == <<tracked, stuck, stray>>

TypeOK ==
  /\ fs \in [Names -> Files \cup {Absent, Foreign}]
  /\ content \in [Files -> Seq(Calls \X Unit)]
  /\ synced \in [Calls -> Nat]
  /\ pc \in [Calls -> Steps]
  /\ blk \in [Calls -> Nat \ {0}]
  /\ done \in [Calls -> Nat]
  /\ pos \in [Calls -> Nat]
  /\ tracked \in [Calls -> SUBSET Names]
  /\ stuck \in [Calls -> SUBSET Names]
  /\ stray \in [Calls -> SUBSET Names]
  /\ stop \in [Calls -> BOOLEAN]
  /\ result \in [Calls -> Errors \cup {"none", "ok"}]

FirstBlockMutant == 0
FirstBlock == 1

Init ==
  /\ fs = [n \in Names |-> Absent]
  /\ content = [f \in Files |-> << >>]
  /\ synced = [c \in Calls |-> 0]
  /\ pc = [c \in Calls |-> "idle"]
  /\ blk = [c \in Calls |-> FirstBlock]
  /\ done = [c \in Calls |-> 0]
  /\ pos = [c \in Calls |-> 0]
  /\ tracked = [c \in Calls |-> {}]
  /\ stuck = [c \in Calls |-> {}]
  /\ stray = [c \in Calls |-> {}]
  /\ stop = [c \in Calls |-> FALSE]
  /\ result = [c \in Calls |-> "none"]

-----------------------------------------------------------------------------
(* Building blocks of the steps. *)

Goto(c, step) == pc' = [pc EXCEPT ![c] = step] /\ UNCHANGED <<stop, result>>

\* Every return, with or without an error, unwinds through the scope guard.
Return(c, r) ==
  /\ pc' = [pc EXCEPT ![c] = "cleanup"]
  /\ result' = [result EXCEPT ![c] = r]
  /\ UNCHANGED stop

\* An error return that leaves the files alone.
Fail(c, e) == Return(c, e) /\ UNCHANGED <<disk, local, guarded>>

\* if (stop_token.stop_requested()) return cancelled
Cancelled(c) == stop[c] /\ Fail(c, "cancelled")
Proceeds(c) == ~stop[c]

\* O_CREAT | O_EXCL succeeds only on a free name.
CanCreate(n) == fs[n] = Absent

\* Mutant: the new file is not handed to the guard.
CreateTrackedMutant(c, n, f) ==
  /\ CanCreate(n)
  /\ fs' = [fs EXCEPT ![n] = f]
  /\ content' = [content EXCEPT ![f] = << >>]
  /\ UNCHANGED <<synced, guarded>>

\* ExclusiveFileByteSink::create followed by cleanup.track.
CreateTracked(c, n, f) ==
  /\ CanCreate(n)
  /\ fs' = [fs EXCEPT ![n] = f]
  /\ content' = [content EXCEPT ![f] = << >>]
  /\ tracked' = [tracked EXCEPT ![c] = @ \cup {n}]
  /\ UNCHANGED <<synced, stuck, stray>>

\* The name is taken: open fails and the name is not tracked.
NameTaken(c, n) == ~CanCreate(n) /\ Fail(c, "io_error")

\* The file is created, then the sink or the guard's vector cannot be
\* allocated: bad_alloc unwinds with the file not tracked.
CreateThenNoMemory(c, n, f) ==
  /\ "alloc" \in Faults
  /\ CanCreate(n)
  /\ fs' = [fs EXCEPT ![n] = f]
  /\ content' = [content EXCEPT ![f] = << >>]
  /\ stray' = [stray EXCEPT ![c] = @ \cup {n}]
  /\ Return(c, "resource_limit")
  /\ UNCHANGED <<synced, tracked, stuck, local>>

Faulty(kind, c, e) == kind \in Faults /\ Fail(c, e)

AppendTo(f, u) == content' = [content EXCEPT ![f] = Append(@, u)]

Out(c) == <<c, 0>>

-----------------------------------------------------------------------------
(* write_impl up to the first block: cancellation, validation, destination. *)

Begin(c) ==
  /\ pc[c] = "idle"
  /\ \/ Cancelled(c)
     \/ Proceeds(c) /\ Faulty("limit", c, "invalid_argument")
     \/ /\ Proceeds(c)
        /\ Goto(c, IF WritesFile(c) THEN "check" ELSE "prepare")
        /\ UNCHANGED <<disk, local, guarded>>

\* path_is_available(destination)
CheckDestination(c) ==
  /\ pc[c] = "check" /\ WritesFile(c)
  /\ \/ fs[Dest[c]] # Absent /\ Fail(c, "io_error")
     \/ Faulty("io", c, "io_error")
     \/ /\ fs[Dest[c]] = Absent
        /\ Goto(c, "prepare")
        /\ UNCHANGED <<disk, local, guarded>>

-----------------------------------------------------------------------------
(* prepare_block, for the images and then for the property blocks. *)

Block(c) == Blocks[c][blk[c]]
HasBlock(c) == blk[c] \in DOMAIN Blocks[c]

NextBlock(c) ==
  /\ blk' = [blk EXCEPT ![c] = @ + 1]
  /\ done' = [done EXCEPT ![c] = 0]
  /\ Goto(c, "prepare")
  /\ UNCHANGED <<disk, pos, guarded>>

\* A budget, the codec or the digest ends the preparation of a block.
CannotPrepare(c) ==
  \E e \in {"invalid_argument", "internal_error", "resource_limit"} :
    Faulty("limit", c, e)

\* The whole block stays in memory.  Only compression looks at the token.
PrepareInMemory(c) ==
  /\ pc[c] = "prepare" /\ HasBlock(c) /\ Block(c).kind # "spool"
  /\ \/ Block(c).kind = "packed" /\ Cancelled(c)
     \/ CannotPrepare(c)
     \/ (Block(c).kind = "packed" => Proceeds(c)) /\ NextBlock(c)

OpenSpool(c) ==
  /\ pc[c] = "prepare" /\ HasBlock(c) /\ Block(c).kind = "spool"
  /\ \/ Block(c).name = NoName /\ Fail(c, "invalid_argument")
     \/ /\ Block(c).name # NoName
        /\ \/ NameTaken(c, Block(c).name)
           \/ Faulty("io", c, "io_error")
           \/ CreateThenNoMemory(c, Block(c).name, <<c, blk[c]>>)
           \/ /\ CreateTracked(c, Block(c).name, <<c, blk[c]>>)
              /\ done' = [done EXCEPT ![c] = 0]
              /\ Goto(c, "compress")
              /\ UNCHANGED <<blk, pos>>

AddUnit(c) ==
  /\ AppendTo(<<c, blk[c]>>, <<c, [block |-> blk[c], at |-> done[c] + 1]>>)
  /\ done' = [done EXCEPT ![c] = @ + 1]
  /\ Goto(c, "compress")
  /\ UNCHANGED <<fs, synced, blk, pos, guarded>>

\* Mutant: a block above its budget is given up with its spool.
SpoolUnitMutant(c) ==
  /\ pc[c] = "compress" /\ done[c] < Block(c).units /\ Proceeds(c)
  /\ \/ AddUnit(c)
     \/ /\ "limit" \in Faults
        /\ tracked' = [tracked EXCEPT ![c] = @ \ {Block(c).name}]
        /\ Return(c, "resource_limit")
        /\ UNCHANGED <<disk, local, stuck, stray>>

\* One turn of the sub-block loop, or of write_all inside it.
SpoolUnit(c) ==
  /\ pc[c] = "compress" /\ done[c] < Block(c).units
  /\ \/ Cancelled(c)
     \/ Proceeds(c) /\ CannotPrepare(c)
     \/ Proceeds(c) /\ Faulty("io", c, "io_error")
     \/ Proceeds(c) /\ AddUnit(c)

\* Mutant: the spool is removed once it is sealed, before it is copied.
SealSpoolMutant(c) ==
  /\ pc[c] = "compress" /\ done[c] = Block(c).units
  /\ fs' = [fs EXCEPT ![Block(c).name] = Absent]
  /\ blk' = [blk EXCEPT ![c] = @ + 1]
  /\ done' = [done EXCEPT ![c] = 0]
  /\ Goto(c, "prepare")
  /\ UNCHANGED <<content, synced, pos, guarded>>

\* spool_sink->flush() and spool_sink->close()
SealSpool(c) ==
  /\ pc[c] = "compress" /\ done[c] = Block(c).units
  /\ \/ Faulty("io", c, "io_error")
     \/ ~Block(c).digest /\ NextBlock(c)
     \/ /\ Block(c).digest
        /\ Goto(c, "checksum")
        /\ UNCHANGED <<disk, local, guarded>>

\* The units compute_checksum_file and write_file_contents find when they
\* open the spool again, by name.
SpoolContent(c, k) ==
  LET f == fs[Blocks[c][k].name] IN IF f \in Files THEN content[f] ELSE << >>

\* compute_checksum_file: the spool must hold exactly the expected bytes.
ChecksumSpool(c) ==
  /\ pc[c] = "checksum"
  /\ LET found == Len(SpoolContent(c, blk[c])) IN
     \/ Cancelled(c)
     \/ \E e \in {"io_error", "internal_error"} : Faulty("io", c, e)
     \/ Proceeds(c) /\ found # Block(c).units /\ Fail(c, "io_error")
     \/ Proceeds(c) /\ found = Block(c).units /\ NextBlock(c)

-----------------------------------------------------------------------------
(* The layout, the output sink and the bytes. *)

\* plan_blocks, make_header and the header budget.
PlanLayout(c) ==
  /\ pc[c] = "prepare" /\ ~HasBlock(c)
  /\ \/ \E e \in {"overflow", "resource_limit", "internal_error"} :
          Faulty("limit", c, e)
     \/ /\ Goto(c, IF WritesFile(c) THEN "open" ELSE "write")
        /\ UNCHANGED <<disk, local, guarded>>

OpenTemporary(c) ==
  /\ pc[c] = "open" /\ WritesFile(c)
  /\ \/ NameTaken(c, Temp[c])
     \/ Faulty("io", c, "io_error")
     \/ CreateThenNoMemory(c, Temp[c], Out(c))
     \/ CreateTracked(c, Temp[c], Out(c)) /\ Goto(c, "write") /\ UNCHANGED local

NextUnit(c) == Plan[c][pos[c] + 1]
\* Mutant: the last unit is forgotten.
MoreUnitsMutant(c) == pos[c] + 1 < Len(Plan[c])

MoreUnits(c) == pos[c] < Len(Plan[c])

WriteUnit(c, u) ==
  /\ AppendTo(Out(c), u)
  /\ pos' = [pos EXCEPT ![c] = @ + 1]
  /\ UNCHANGED <<fs, synced, blk, done, guarded>>

\* write_all from memory; a sink that fails, or reports a count of zero or
\* more than it was offered, ends the call.
WriteFromMemory(c) ==
  /\ pc[c] = "write" /\ MoreUnits(c) /\ NextUnit(c).block = 0
  /\ \/ Cancelled(c)
     \/ Proceeds(c) /\ Faulty("io", c, "io_error")
     \/ Proceeds(c) /\ WriteUnit(c, <<c, NextUnit(c)>>) /\ Goto(c, "write")

\* write_file_contents: a spool that is too short is noticed at the missing
\* unit, one that is too long after the last one was copied.
WriteFromSpool(c) ==
  /\ pc[c] = "write" /\ MoreUnits(c) /\ NextUnit(c).block # 0
  /\ LET k == NextUnit(c).block
         at == NextUnit(c).at
         spool == SpoolContent(c, k)
         trailing == at = Blocks[c][k].units /\ Len(spool) > at
     IN \/ Cancelled(c)
        \/ Proceeds(c) /\ at > Len(spool) /\ Fail(c, "io_error")
        \/ Proceeds(c) /\ Faulty("io", c, "io_error")
        \/ /\ Proceeds(c) /\ at <= Len(spool)
           /\ WriteUnit(c, spool[at])
           /\ IF trailing THEN Return(c, "io_error") ELSE Goto(c, "write")

\* Mutant: the output is closed and linked without a flush.
FlushMutant(c) ==
  /\ pc[c] = "write" /\ ~MoreUnits(c)
  /\ Goto(c, IF WritesFile(c) THEN "close" ELSE "final")
  /\ UNCHANGED <<disk, local, guarded>>

\* output->flush(): fsync of the temporary, or the caller's sink.
Flush(c) ==
  /\ pc[c] = "write" /\ ~MoreUnits(c)
  /\ \/ Faulty("io", c, "io_error")
     \/ /\ synced' = [synced EXCEPT ![c] = Len(content[Out(c)])]
        /\ Goto(c, IF WritesFile(c) THEN "close" ELSE "final")
        /\ UNCHANGED <<fs, content, local, guarded>>

Close(c) ==
  /\ pc[c] = "close" /\ WritesFile(c)
  /\ \/ Faulty("io", c, "io_error")
     \/ Goto(c, "final") /\ UNCHANGED <<disk, local, guarded>>

\* Mutant: the token is not looked at before the commit.
FinalCheckMutant(c) ==
  /\ pc[c] = "final"
  /\ Goto(c, IF WritesFile(c) THEN "link" ELSE "summary")
  /\ UNCHANGED <<disk, local, guarded>>

\* The last look at the stop token.
FinalCheck(c) ==
  /\ pc[c] = "final"
  /\ \/ Cancelled(c)
     \/ /\ Proceeds(c)
        /\ Goto(c, IF WritesFile(c) THEN "link" ELSE "summary")
        /\ UNCHANGED <<disk, local, guarded>>

\* Mutant: the temporary is renamed over whatever is there.
CanLinkMutant(c) == fs[Temp[c]] # Absent

\* Mutant: the free destination is checked as if it had been created before.
CanLinkNeverMutant(c) == fs[Dest[c]] = Out(c)

\* create_hard_link(temporary, destination) gives the file a second name if
\* that name is free; it never replaces an entry.
CanLink(c) == fs[Dest[c]] = Absent /\ fs[Temp[c]] # Absent

\* Mutant: the error of create_hard_link is dropped.
LinkMutant(c) ==
  /\ pc[c] = "link" /\ WritesFile(c)
  /\ fs' = IF CanLink(c) THEN [fs EXCEPT ![Dest[c]] = fs[Temp[c]]] ELSE fs
  /\ Goto(c, "summary")
  /\ UNCHANGED <<content, synced, local, guarded>>

Link(c) ==
  /\ pc[c] = "link" /\ WritesFile(c)
  /\ \/ ~CanLink(c) /\ Fail(c, "io_error")
     \/ Faulty("io", c, "io_error")
     \/ /\ CanLink(c)
        /\ fs' = [fs EXCEPT ![Dest[c]] = fs[Temp[c]]]
        /\ Goto(c, "summary")
        /\ UNCHANGED <<content, synced, local, guarded>>

\* The WriteSummary is built after the link and allocates.
SummaryNoMemory(c) ==
  /\ "alloc" \in Faults
  /\ stray' = [stray EXCEPT ![c] = @ \cup ({Dest[c]} \cap Names)]
  /\ Return(c, "resource_limit")
  /\ UNCHANGED <<disk, local, tracked, stuck>>

Summarize(c) ==
  /\ pc[c] = "summary"
  /\ \/ SummaryNoMemory(c)
     \/ Return(c, "ok") /\ UNCHANGED <<disk, local, guarded>>

-----------------------------------------------------------------------------
(* ~TemporaryFilesCleanup: remove(path, ignored) for every tracked path.  The *)
(* order of the vector matters to no property and is left open.               *)

Cleanup(c) ==
  /\ pc[c] = "cleanup"
  /\ \E n \in tracked[c] :
       /\ tracked' = [tracked EXCEPT ![c] = @ \ {n}]
       /\ \/ fs' = [fs EXCEPT ![n] = Absent] /\ UNCHANGED stuck
          \/ /\ "remove" \in Faults
             /\ stuck' = [stuck EXCEPT ![c] = @ \cup {n}]
             /\ UNCHANGED fs
  /\ UNCHANGED <<content, synced, pc, local, stray, stop, result>>

\* Any other allocation of the call throws bad_alloc, which the public entry
\* points turn into resource_limit once the scope guard has run.
OutOfMemory(c) ==
  /\ pc[c] \in {"check", "prepare", "compress", "checksum", "open", "write"}
  /\ Faulty("alloc", c, "resource_limit")

\* Mutant: the guard insists until every file is gone.
LeaveCallMutant(c) ==
  /\ pc[c] = "cleanup" /\ tracked[c] = {} /\ stuck[c] = {}
  /\ Goto(c, "returned")
  /\ UNCHANGED <<disk, local, guarded>>

\* The public entry points hand the result over after the guard has run.
LeaveCall(c) ==
  /\ pc[c] = "cleanup" /\ tracked[c] = {}
  /\ Goto(c, "returned")
  /\ UNCHANGED <<disk, local, guarded>>

-----------------------------------------------------------------------------
(* The environment. *)

Active(c) == pc[c] \notin {"idle", "returned", "crashed"}

\* std::stop_source::request_stop() by the caller, at any time.
RequestStop(c) ==
  /\ "stop" \in Faults /\ pc[c] \notin {"returned", "crashed"} /\ ~stop[c]
  /\ stop' = [stop EXCEPT ![c] = TRUE]
  /\ UNCHANGED <<disk, local, guarded, pc, result>>

\* The process dies: the descriptors close and the guard never runs.
Crash(c) ==
  /\ "crash" \in Faults /\ Active(c)
  /\ pc' = [pc EXCEPT ![c] = "crashed"]
  /\ tracked' = [tracked EXCEPT ![c] = {}]
  /\ UNCHANGED <<disk, local, stuck, stray, stop, result>>

\* Someone else puts a file under a destination name.
ForeignCreate(c) ==
  /\ "foreign" \in Faults /\ WritesFile(c) /\ fs[Dest[c]] = Absent
  /\ fs' = [fs EXCEPT ![Dest[c]] = Foreign]
  /\ UNCHANGED <<content, synced, local, guarded, pc, stop, result>>

\* A user deletes what a finished or crashed call left behind.
RemoveLeftover(n) ==
  /\ "foreign" \in Faults /\ fs[n] \in Files
  /\ LET c == Owner(fs[n]) IN ~Active(c) /\ n # Dest[c]
  /\ fs' = [fs EXCEPT ![n] = Absent]
  /\ UNCHANGED <<content, synced, local, guarded, pc, stop, result>>

\* Someone shortens or lengthens a closed spool file, at most once.
Tamperable(c, k) ==
  /\ "tamper" \in Faults /\ IsSpool(c, k)
  /\ pc[c] \in Preparing \cup {"open", "write"}
  /\ k < blk[c] \/ (k = blk[c] /\ pc[c] = "checksum")
  /\ Len(content[<<c, k>>]) = Blocks[c][k].units

TruncateSpool(c, k) ==
  /\ Tamperable(c, k) /\ content[<<c, k>>] # << >>
  /\ content' = [content EXCEPT ![<<c, k>>] = SubSeq(@, 1, Len(@) - 1)]
  /\ UNCHANGED <<fs, synced, local, guarded, pc, stop, result>>

Junk == [block |-> 0, at |-> 0]

ExtendSpool(c, k) ==
  /\ Tamperable(c, k)
  /\ AppendTo(<<c, k>>, <<c, Junk>>)
  /\ UNCHANGED <<fs, synced, local, guarded, pc, stop, result>>

-----------------------------------------------------------------------------

CallStep(c) ==
  \/ Begin(c) \/ CheckDestination(c)
  \/ PrepareInMemory(c) \/ OpenSpool(c) \/ SpoolUnit(c) \/ SealSpool(c)
  \/ ChecksumSpool(c) \/ PlanLayout(c) \/ OpenTemporary(c)
  \/ WriteFromMemory(c) \/ WriteFromSpool(c) \/ Flush(c) \/ Close(c)
  \/ FinalCheck(c) \/ Link(c) \/ Summarize(c) \/ Cleanup(c)
  \/ OutOfMemory(c) \/ LeaveCall(c)

Environment ==
  \/ \E c \in Calls : RequestStop(c) \/ Crash(c) \/ ForeignCreate(c)
  \/ \E c \in Calls : \E k \in DOMAIN Blocks[c] :
       TruncateSpool(c, k) \/ ExtendSpool(c, k)
  \/ \E n \in Names : RemoveLeftover(n)

Next == (\E c \in Calls : CallStep(c)) \/ Environment

Spec == Init /\ [][Next]_vars

\* A call that has begun runs on its own thread until it returns; nothing
\* obliges a caller to make a call, nor the environment to do anything.
FairSpec == Spec /\ \A c \in Calls : WF_vars(pc[c] # "idle" /\ CallStep(c))

-----------------------------------------------------------------------------
(* Properties. *)

Published(c) == WritesFile(c) /\ fs[Dest[c]] = Out(c)

\* The output of every call is a prefix of its plan, whatever the spools went
\* through in between, and the whole plan when the call reports success.
\* (prepare_block, write_file_contents and write_all: a failed write_to leaves
\* a prefix in the caller's sink, never other bytes.)
OutputFaithful ==
  \A c \in Calls :
    /\ Len(content[Out(c)]) <= Len(Plan[c])
    /\ \A i \in 1 .. Len(content[Out(c)]) :
         content[Out(c)][i] = <<c, Plan[c][i]>>
    /\ result[c] = "ok" => Len(content[Out(c)]) = Len(Plan[c])

\* A file that is visible under the destination it was written for holds the
\* whole plan, and all of it was flushed before the name appeared
\* (write_impl: flush, close and only then create_hard_link).
PublishedComplete ==
  \A c \in Calls : Published(c) =>
    /\ Len(content[Out(c)]) = Len(Plan[c])
    /\ synced[c] = Len(Plan[c])
    /\ \A i \in 1 .. Len(Plan[c]) : content[Out(c)][i] = <<c, Plan[c][i]>>

\* While a call will still remove or reopen a name, the name stands for a file
\* that very call created: cleanup by name is safe because tracking follows an
\* exclusive creation (prepare_block, write_impl, ~TemporaryFilesCleanup).
TrackedOwned ==
  \A c \in Calls : \A n \in tracked[c] :
    /\ fs[n] \in Files
    /\ Owner(fs[n]) = c
    /\ n # Dest[c]

\* Once a call has returned, whatever made it return, the directory holds none
\* of its files but the published one, and that one only after success: an
\* exceeded budget, a failed read or write and a failed allocation leave nothing
\* either.  The exceptions are single names, those that could not be removed and
\* that of a file after which memory ran out at once: before cleanup.track
\* (prepare_block, write_impl) or, after the link, in the WriteSummary.
CleanReturn ==
  \A c \in Calls : pc[c] = "returned" =>
    \A n \in Names \ (stuck[c] \cup stray[c]) :
      fs[n] \in Files /\ Owner(fs[n]) = c => n = Dest[c] /\ result[c] = "ok"

\* A call that reports success has its file under the destination, and stays
\* the publisher of that name (write_file returns only after the link).
SuccessIsPublication ==
  \A c \in Calls : WritesFile(c) /\ result[c] = "ok" => Published(c)

\* No step takes away or replaces an entry except the removal of a scratch
\* file, by the call that created it or by a user once that call is over: a
\* publication is never undone and a file of another program never touched
\* (O_EXCL, create_hard_link and the cleanup guard together).
NoForeignLoss ==
  [][\A n \in Names : fs[n] # Absent /\ fs'[n] # fs[n] =>
       /\ fs'[n] = Absent
       /\ fs[n] \in Files
       /\ n # Dest[Owner(fs[n])]
       /\ n \in tracked[Owner(fs[n])] \/ ~Active(Owner(fs[n]))]_vars

\* A stop requested before the last check of the token is never followed by a
\* publication or a success, wherever the request fell between two checks.
BeforeLastCheck == Steps \ {"link", "summary", "cleanup", "returned", "crashed"}

StopHonoured ==
  \A c \in Calls :
    [](stop[c] /\ pc[c] \in BeforeLastCheck
         => [](result[c] # "ok" /\ ~Published(c)))

\* Every call that starts returns, with its guard run, unless its process dies
\* (no step waits for another call: a taken name is an error, not a lock).
EveryCallReturns ==
  \A c \in Calls : pc[c] # "idle" ~> pc[c] \in {"returned", "crashed"}

\* Calls that share names never all defeat each other: when none was told to
\* stop and every removal succeeded, a call gives up only while another one is
\* still working or after one has succeeded.  (Scratch names are created in one
\* fixed order, and the temporary after them.)
NoMutualDefeat ==
  (\A c \in Calls : ~stop[c] /\ stuck[c] = {}) =>
     \A c \in Calls : pc[c] = "returned" =>
       \E b \in Calls : Active(b) \/ result[b] = "ok"

\* Not every choice of names allows that: three calls can hold one another's next
\* names in a circle.  It takes a ranking of the names that agrees with the order in
\* which each call creates its own.  The writer's names have one: they are a stem and
\* suffixes that come off again in one way only, hence form trees, and what a tree's
\* node is the stem of is created before it, spools by number, then the temporary.
\* (A write_to that has to spool and was given no scratch path fails on its own.)
CreatedAlong(rank) ==
  /\ rank \in [Names -> Nat]
  /\ \A c \in Calls : \A k \in DOMAIN Blocks[c] : IsSpool(c, k) =>
       /\ Blocks[c][k].name # NoName
       /\ \A j \in 1 .. k - 1 :
            IsSpool(c, j) => rank[Blocks[c][j].name] < rank[Blocks[c][k].name]
       /\ WritesFile(c) => rank[Blocks[c][k].name] < rank[Temp[c]]
  /\ \A c \in Calls : WritesFile(c) => rank[Temp[c]] < rank[Dest[c]]

\* What the documentation says without exception (docs/WRITER.md): a cancelled
\* or failed write_file leaves no successful destination.
FailureLeavesNoDestination ==
  \A c \in Calls :
    pc[c] = "returned" /\ result[c] # "ok" => ~Published(c)

-----------------------------------------------------------------------------
(* The inductive invariant behind these properties.                          *)

\* The spools a running call has created so far.
Spooled(c, k) ==
  /\ IsSpool(c, k)
  /\ \/ k < blk[c]
     \/ k = blk[c] /\ pc[c] \in {"compress", "checksum"}

\* A name stands for a file of a call only where that call put it.
InvNames ==
  \A n \in Names : \A c \in Calls :
    /\ fs[n] = Out(c) => n = Temp[c] \/ n = Dest[c]
    /\ fs[n] \in Files /\ Owner(fs[n]) = c =>
         pc[c] \notin {"idle", "check"}

\* The spools of a running call are reachable under their names and tracked.
SpoolHeld(c, k) ==
  pc[c] \in Preparing \cup Planned /\ Spooled(c, k) =>
    /\ Blocks[c][k].name \in tracked[c]
    /\ fs[Blocks[c][k].name] = <<c, k>>

\* A spool holds the right unit at every place somebody's truncation left.
SpoolFaithful(c, k) ==
  \A j \in 1 .. Len(content[<<c, k>>]) :
    j <= Blocks[c][k].units =>
      content[<<c, k>>][j] = <<c, [block |-> k, at |-> j]>>

BlockAt(c) ==
  /\ pc[c] = "compress" =>
       IsSpool(c, blk[c]) /\ Len(content[<<c, blk[c]>>]) = done[c]
  /\ pc[c] = "checksum" => IsSpool(c, blk[c])
  /\ pc[c] \in Planned => blk[c] > Len(Blocks[c])
  /\ pc[c] \in {"idle", "check"} => blk[c] = 1

InvSpools ==
  \A c \in Calls :
    /\ BlockAt(c)
    /\ \A k \in DOMAIN Blocks[c] : SpoolHeld(c, k) /\ SpoolFaithful(c, k)

\* What was written so far is the plan so far, and all of it once flushed.
InvOutput ==
  \A c \in Calls :
    /\ Len(content[Out(c)]) = pos[c]
    /\ pos[c] <= Len(Plan[c])
    /\ \A i \in 1 .. pos[c] : content[Out(c)][i] = <<c, Plan[c][i]>>
    /\ pc[c] \in {"idle", "check", "open"} \cup Preparing => pos[c] = 0
    /\ pc[c] \in {"close", "final", "link", "summary"} \/ result[c] = "ok" =>
         pos[c] = Len(Plan[c]) /\ synced[c] = pos[c]

\* The temporary is what the call will link, and a publication comes last.
InvCommit ==
  \A c \in Calls :
    /\ WritesFile(c) /\ pc[c] \in Opened =>
         Temp[c] \in tracked[c] /\ fs[Temp[c]] = Out(c)
    /\ Published(c) =>
         /\ pc[c] \in Over \cup {"summary"}
         /\ pos[c] = Len(Plan[c]) /\ synced[c] = pos[c]
    /\ WritesFile(c) /\ (pc[c] = "summary" \/ result[c] = "ok") => Published(c)

InvResult ==
  \A c \in Calls :
    /\ pc[c] \notin Over => result[c] = "none"
    /\ pc[c] \in {"idle", "check", "returned", "crashed"} => tracked[c] = {}
    /\ stray[c] # {} => result[c] = "resource_limit"

\* Every file of a call is accounted for.
InvOwned ==
  \A n \in Names : \A c \in Calls :
    fs[n] \in Files /\ Owner(fs[n]) = c =>
      \/ n \in tracked[c] \cup stuck[c] \cup stray[c]
      \/ n = Dest[c] /\ (pc[c] = "summary" \/ result[c] = "ok")
      \/ pc[c] = "crashed"

IInv ==
  /\ TrackedOwned /\ InvNames /\ InvSpools /\ InvOutput
  /\ InvCommit /\ InvResult /\ InvOwned

-----------------------------------------------------------------------------
(* Refinement: the directory and the calls as AtomicPublish sees them. *)

FileCalls == {c \in Calls : WritesFile(c)}
Dests == {Dest[c] : c \in FileCalls}

IsPublication(d) == \E c \in FileCalls : Dest[c] = d /\ fs[d] = Out(c)

publicEntry ==
  [d \in Dests |-> IF IsPublication(d) THEN Owner(fs[d])
                   ELSE IF fs[d] = Absent THEN Absent ELSE Foreign]

publicPhase ==
  [c \in FileCalls |->
     CASE pc[c] = "crashed" -> "lost"
       [] pc[c] = "returned" -> IF result[c] = "ok" THEN "ok" ELSE "failed"
       [] OTHER -> IF Published(c) THEN "committed" ELSE "running"]

Abstract == INSTANCE AtomicPublish
  WITH Calls <- FileCalls, Free <- Absent, Taken <- Foreign,
       entry <- publicEntry, phase <- publicPhase

\* The protocol implements the atomic publication it promises.
ImplementsAtomicPublish == Abstract!Spec
=============================================================================
