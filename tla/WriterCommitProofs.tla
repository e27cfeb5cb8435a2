------------------------- MODULE WriterCommitProofs -------------------------
(***************************************************************************)
(* Proofs about the publication protocol for every set of calls, names,    *)
(* blocks, plans and faults that satisfies ConstantsAssumption.            *)
(***************************************************************************)
EXTENDS WriterCommit, TLAPS

-----------------------------------------------------------------------------
(* Files are pairs of a call and a slot. *)

\* Every call has an output file and one file for each of its blocks.
LEMMA FileOfCall ==
  ASSUME NEW c \in Calls, NEW k \in {0} \cup DOMAIN Blocks[c]
  PROVE  <<c, k>> \in Files /\ Owner(<<c, k>>) = c
BY DEF Files, Owner

\* Conversely, a file is the output or a spool of the call that owns it.
LEMMA FileHasOwner ==
  ASSUME NEW f \in Files
  PROVE  /\ Owner(f) \in Calls
         /\ \E k \in {0} \cup DOMAIN Blocks[Owner(f)] : f = <<Owner(f), k>>
BY DEF Files, Owner

\* The block a call prepares is one of its blocks, with a file of its own.
LEMMA BlockFacts ==
  ASSUME NEW c \in Calls, TypeOK, HasBlock(c)
  PROVE  /\ Block(c) \in BlockSpec
         /\ blk[c] \in DOMAIN Blocks[c]
         /\ <<c, blk[c]>> \in Files
         /\ Block(c).units \in Nat
         /\ Block(c).name \in Names \cup {NoName}
<1>1. blk[c] \in DOMAIN Blocks[c]
  BY DEF HasBlock
<1>2. Blocks[c] \in Seq(BlockSpec)
  BY ConstantsAssumption DEF ConstantsAssumption
<1>3. Block(c) \in BlockSpec
  BY <1>1, <1>2 DEF Block
<1> QED
  BY <1>1, <1>3, FileOfCall DEF BlockSpec

\* The next unit of a plan is a unit.
LEMMA UnitFacts ==
  ASSUME NEW c \in Calls, TypeOK, MoreUnits(c)
  PROVE  NextUnit(c) \in Unit /\ pos[c] + 1 \in DOMAIN Plan[c]
BY ConstantsAssumption DEF TypeOK, MoreUnits, NextUnit, ConstantsAssumption

\* What is found under a spool name is a sequence of stamped units.
LEMMA SpoolContentType ==
  ASSUME NEW c \in Calls, NEW k, TypeOK
  PROVE  SpoolContent(c, k) \in Seq(Calls \X Unit)
BY DEF TypeOK, SpoolContent

-----------------------------------------------------------------------------
(* Type correctness. *)

\* A step that only moves the call on keeps the types.
LEMMA QuietType ==
  ASSUME TypeOK, NEW c \in Calls, NEW step \in Steps, Goto(c, step),
         UNCHANGED <<disk, local, guarded>>
  PROVE  TypeOK'
BY DEF TypeOK, Goto, disk, local, guarded

\* So does a step that returns a result.
LEMMA ReturnType ==
  ASSUME TypeOK, NEW c \in Calls, NEW r \in Errors \cup {"ok"}, Return(c, r)
  PROVE  /\ pc' \in [Calls -> Steps]
         /\ result' \in [Calls -> Errors \cup {"none", "ok"}]
         /\ stop' \in [Calls -> BOOLEAN]
BY DEF TypeOK, Return, Steps

\* An error return keeps the types.
LEMMA FailType ==
  ASSUME TypeOK, NEW c \in Calls, NEW e \in Errors, Fail(c, e)
  PROVE  TypeOK'
BY ReturnType DEF TypeOK, Fail, disk, local, guarded

\* Going on to the next block keeps the types.
LEMMA NextBlockType ==
  ASSUME TypeOK, NEW c \in Calls, NextBlock(c)
  PROVE  TypeOK'
BY DEF TypeOK, NextBlock, Goto, disk, guarded, Steps

\* Creating a file keeps the types, whether or not it comes to be tracked.
LEMMA CreateType ==
  ASSUME TypeOK, NEW c \in Calls, NEW n \in Names, NEW f \in Files
  PROVE  /\ CreateTracked(c, n, f) =>
              /\ fs' \in [Names -> Files \cup {Absent, Foreign}]
              /\ content' \in [Files -> Seq(Calls \X Unit)]
              /\ tracked' \in [Calls -> SUBSET Names]
              /\ UNCHANGED <<synced, stuck, stray>>
         /\ CreateThenNoMemory(c, n, f) => TypeOK'
<1>1. ASSUME CreateThenNoMemory(c, n, f)
      PROVE  TypeOK'
  <2>1. UNCHANGED <<synced, tracked, stuck, blk, done, pos>>
    BY <1>1 DEF CreateThenNoMemory, local
  <2>2. /\ fs' \in [Names -> Files \cup {Absent, Foreign}]
        /\ content' \in [Files -> Seq(Calls \X Unit)]
    BY <1>1 DEF TypeOK, CreateThenNoMemory
  <2>3. Return(c, "resource_limit")
    BY <1>1 DEF CreateThenNoMemory
  <2>4. /\ pc' \in [Calls -> Steps] /\ stop' \in [Calls -> BOOLEAN]
        /\ result' \in [Calls -> Errors \cup {"none", "ok"}]
    BY <2>3, ReturnType DEF Errors
  <2>5. stray' \in [Calls -> SUBSET Names]
    BY <1>1 DEF CreateThenNoMemory, TypeOK
  <2>6. /\ synced' \in [Calls -> Nat] /\ blk' \in [Calls -> Nat \ {0}]
        /\ done' \in [Calls -> Nat] /\ pos' \in [Calls -> Nat]
        /\ tracked' \in [Calls -> SUBSET Names] /\ stuck' \in [Calls -> SUBSET Names]
    BY <2>1 DEF TypeOK
  <2> QED
    BY <2>2, <2>4, <2>5, <2>6 DEF TypeOK
<1>2. ASSUME CreateTracked(c, n, f)
      PROVE  /\ fs' \in [Names -> Files \cup {Absent, Foreign}]
             /\ content' \in [Files -> Seq(Calls \X Unit)]
             /\ tracked' \in [Calls -> SUBSET Names]
  <2>1. tracked[c] \cup {n} \in SUBSET Names
    BY DEF TypeOK
  <2>2. tracked' \in [Calls -> SUBSET Names]
    BY <1>2, <2>1 DEF TypeOK, CreateTracked
  <2>3. content' \in [Files -> Seq(Calls \X Unit)]
    BY <1>2 DEF TypeOK, CreateTracked
  <2> QED
    BY <1>2, <2>2, <2>3 DEF TypeOK, CreateTracked
<1> QED
  BY <1>1, <1>2 DEF CreateTracked

\* Appending a stamped unit keeps the type of the contents.
LEMMA AppendType ==
  ASSUME TypeOK, NEW f, NEW u \in Calls \X Unit, AppendTo(f, u)
  PROVE  content' \in [Files -> Seq(Calls \X Unit)]
<1>1. CASE f \in Files
  <2>1. Append(content[f], u) \in Seq(Calls \X Unit)
    BY <1>1 DEF TypeOK
  <2> QED
    BY <2>1, <1>1 DEF TypeOK, AppendTo
<1>2. CASE f \notin Files
  <2>1. \A g \in Files : content'[g] = content[g]
    BY <1>2 DEF TypeOK, AppendTo
  <2> QED
    BY <2>1, <1>2 DEF TypeOK, AppendTo
<1> QED
  BY <1>1, <1>2

\* Writing a unit to the output keeps the types.
LEMMA WriteUnitType ==
  ASSUME TypeOK, NEW c \in Calls, NEW u \in Calls \X Unit, WriteUnit(c, u)
  PROVE  /\ content' \in [Files -> Seq(Calls \X Unit)]
         /\ pos' \in [Calls -> Nat]
         /\ UNCHANGED <<fs, synced, blk, done, tracked, stuck, stray>>
<1>1. content' \in [Files -> Seq(Calls \X Unit)]
  BY AppendType DEF WriteUnit
<1> QED
  BY <1>1 DEF TypeOK, WriteUnit, guarded

\* The initial values have their types.
LEMMA TypeInit == Init => TypeOK
BY DEF Init, TypeOK, FirstBlock, Steps

\* prepare_block opening a spool keeps the types.
LEMMA OpenSpoolType ==
  ASSUME TypeOK, NEW c \in Calls, OpenSpool(c)
  PROVE  TypeOK'
<1>1. Block(c).name # NoName => Block(c).name \in Names
  BY BlockFacts DEF OpenSpool
<1>2. <<c, blk[c]>> \in Files
  BY BlockFacts DEF OpenSpool
<1>3. CASE /\ Block(c).name # NoName
           /\ CreateTracked(c, Block(c).name, <<c, blk[c]>>)
           /\ done' = [done EXCEPT ![c] = 0]
           /\ Goto(c, "compress")
           /\ UNCHANGED <<blk, pos>>
  BY <1>1, <1>2, <1>3, CreateType DEF TypeOK, Goto, Steps
<1> QED
  BY <1>1, <1>2, <1>3, CreateType, FailType
  DEF OpenSpool, Errors, NameTaken, Faulty

\* The sub-block loop keeps the types.
LEMMA SpoolUnitType ==
  ASSUME TypeOK, NEW c \in Calls, SpoolUnit(c)
  PROVE  TypeOK'
<1> DEFINE u == <<c, [block |-> blk[c], at |-> done[c] + 1]>>
<1>1. u \in Calls \X Unit
  BY DEF TypeOK, Unit
<1>2. CASE /\ AppendTo(<<c, blk[c]>>, u)
           /\ done' = [done EXCEPT ![c] = @ + 1]
           /\ Goto(c, "compress")
           /\ UNCHANGED <<fs, synced, blk, pos, guarded>>
  <2>1. content' \in [Files -> Seq(Calls \X Unit)]
    BY <1>1, <1>2, AppendType
  <2> QED
    BY <2>1, <1>2 DEF TypeOK, Goto, guarded, Steps
<1> QED
  BY <1>2, FailType DEF SpoolUnit, AddUnit, CannotPrepare, Cancelled, Faulty, Errors

\* write_impl opening the temporary keeps the types.
LEMMA OpenTemporaryType ==
  ASSUME TypeOK, NEW c \in Calls, OpenTemporary(c)
  PROVE  TypeOK'
<1>1. Out(c) \in Files
  BY FileOfCall DEF Out
<1>2. Temp[c] \in Names
  BY ConstantsAssumption DEF ConstantsAssumption, OpenTemporary, WritesFile
<1>3. CASE CreateTracked(c, Temp[c], Out(c)) /\ Goto(c, "write")
           /\ UNCHANGED local
  BY <1>1, <1>2, <1>3, CreateType DEF TypeOK, Goto, Steps, local
<1> QED
  BY <1>1, <1>2, <1>3, CreateType, FailType
  DEF OpenTemporary, NameTaken, Faulty, Errors

\* output->flush() keeps the types.
LEMMA FlushType ==
  ASSUME TypeOK, NEW c \in Calls, Flush(c)
  PROVE  TypeOK'
<1>1. Len(content[Out(c)]) \in Nat
  BY FileOfCall DEF TypeOK, Out
<1>2. CASE /\ synced' = [synced EXCEPT ![c] = Len(content[Out(c)])]
           /\ Goto(c, IF WritesFile(c) THEN "close" ELSE "final")
           /\ UNCHANGED <<fs, content, local, guarded>>
  BY <1>1, <1>2 DEF TypeOK, Goto, guarded, local, Steps
<1> QED
  BY <1>2, FailType DEF Flush, Faulty, Errors

\* create_hard_link keeps the types.
LEMMA LinkType ==
  ASSUME TypeOK, NEW c \in Calls, Link(c)
  PROVE  TypeOK'
<1>1. Temp[c] \in Names
  BY ConstantsAssumption DEF ConstantsAssumption, Link, WritesFile
<1>2. CASE /\ CanLink(c)
           /\ fs' = [fs EXCEPT ![Dest[c]] = fs[Temp[c]]]
           /\ Goto(c, "summary")
           /\ UNCHANGED <<content, synced, local, guarded>>
  BY <1>1, <1>2 DEF TypeOK, Goto, guarded, local, Steps
<1> QED
  BY <1>2, FailType DEF Link, Faulty, Errors

\* ~TemporaryFilesCleanup keeps the types.
LEMMA CleanupType ==
  ASSUME TypeOK, NEW c \in Calls, Cleanup(c)
  PROVE  TypeOK'
<1>1. PICK n \in tracked[c] :
        /\ tracked' = [tracked EXCEPT ![c] = @ \ {n}]
        /\ \/ fs' = [fs EXCEPT ![n] = Absent] /\ UNCHANGED stuck
           \/ /\ "remove" \in Faults
              /\ stuck' = [stuck EXCEPT ![c] = @ \cup {n}]
              /\ UNCHANGED fs
  BY DEF Cleanup
<1>2. tracked' \in [Calls -> SUBSET Names]
  BY <1>1 DEF TypeOK
<1>3. stuck[c] \cup {n} \in SUBSET Names
  BY DEF TypeOK
<1>4. stuck' \in [Calls -> SUBSET Names]
  BY <1>1, <1>3 DEF TypeOK
<1>5. fs' \in [Names -> Files \cup {Absent, Foreign}]
  BY <1>1 DEF TypeOK
<1> QED
  BY <1>2, <1>4, <1>5 DEF TypeOK, Cleanup, local

\* The environment may stop, kill or disturb a call, but types survive.
LEMMA EnvironmentType ==
  ASSUME TypeOK, Environment
  PROVE  TypeOK'
<1>1. ASSUME NEW c \in Calls, RequestStop(c) PROVE TypeOK'
  BY <1>1 DEF TypeOK, RequestStop, disk, local, guarded
<1>2. ASSUME NEW c \in Calls, Crash(c) PROVE TypeOK'
  BY <1>2 DEF TypeOK, Crash, disk, local, Steps
<1>3. ASSUME NEW c \in Calls, ForeignCreate(c) PROVE TypeOK'
  BY <1>3 DEF TypeOK, ForeignCreate, local, guarded
<1>4. ASSUME NEW c \in Calls, NEW k \in DOMAIN Blocks[c], TruncateSpool(c, k)
      PROVE  TypeOK'
  <2>1. <<c, k>> \in Files
    BY FileOfCall
  <2>2. content[<<c, k>>] \in Seq(Calls \X Unit) /\ Len(content[<<c, k>>]) > 0
    BY <1>4, <2>1 DEF TypeOK, TruncateSpool
  <2> DEFINE shorter == SubSeq(content[<<c, k>>], 1, Len(content[<<c, k>>]) - 1)
  <2>3. shorter \in Seq(Calls \X Unit)
    BY <2>2
  <2>4. content' = [content EXCEPT ![<<c, k>>] = shorter]
    BY <1>4 DEF TruncateSpool
  <2>5. content' \in [Files -> Seq(Calls \X Unit)]
    BY <2>3, <2>4 DEF TypeOK
  <2> QED
    BY <1>4, <2>5 DEF TypeOK, TruncateSpool, local, guarded
<1>5. ASSUME NEW c \in Calls, NEW k \in DOMAIN Blocks[c], ExtendSpool(c, k)
      PROVE  TypeOK'
  <2>1. <<c, Junk>> \in Calls \X Unit
    BY DEF Junk, Unit
  <2>2. content' \in [Files -> Seq(Calls \X Unit)]
    BY <1>5, <2>1, AppendType DEF ExtendSpool
  <2> QED
    BY <1>5, <2>2 DEF TypeOK, ExtendSpool, local, guarded
<1>6. ASSUME NEW n \in Names, RemoveLeftover(n) PROVE TypeOK'
  BY <1>6 DEF TypeOK, RemoveLeftover, local, guarded
<1> QED
  BY <1>1, <1>2, <1>3, <1>4, <1>5, <1>6 DEF Environment

\* A step of a call keeps the types: one case for each step.
LEMMA CallType ==
  ASSUME TypeOK, NEW c \in Calls, CallStep(c)
  PROVE  TypeOK'
<1> USE FailType, QuietType DEF Cancelled, Faulty, CannotPrepare, Errors, Steps
<1>1. CASE Begin(c)
  BY <1>1 DEF Begin
<1>2. CASE CheckDestination(c)
  BY <1>2 DEF CheckDestination
<1>3. CASE PrepareInMemory(c)
  BY <1>3, NextBlockType DEF PrepareInMemory
<1>4. CASE OpenSpool(c)
  BY <1>4, OpenSpoolType
<1>5. CASE SpoolUnit(c)
  BY <1>5, SpoolUnitType
<1>6. CASE SealSpool(c)
  BY <1>6, NextBlockType DEF SealSpool
<1>7. CASE ChecksumSpool(c)
  BY <1>7, NextBlockType DEF ChecksumSpool
<1>8. CASE PlanLayout(c)
  BY <1>8 DEF PlanLayout
<1>9. CASE OpenTemporary(c)
  BY <1>9, OpenTemporaryType
<1>10. CASE WriteFromMemory(c)
  <2>1. CASE WriteUnit(c, <<c, NextUnit(c)>>) /\ Goto(c, "write")
    <3>1. <<c, NextUnit(c)>> \in Calls \X Unit
      BY <1>10, UnitFacts DEF WriteFromMemory
    <3> QED
      BY <2>1, <3>1, WriteUnitType DEF TypeOK, Goto
  <2> QED
    BY <1>10, <2>1 DEF WriteFromMemory
<1>11. CASE WriteFromSpool(c)
  <2> DEFINE spool == SpoolContent(c, NextUnit(c).block)
             at == NextUnit(c).at
  <2>1. ASSUME at <= Len(spool), WriteUnit(c, spool[at]),
               Return(c, "io_error") \/ Goto(c, "write")
        PROVE  TypeOK'
    <3>1. at \in Nat \ {0}
      <4>1. /\ pos[c] + 1 \in DOMAIN Plan[c] /\ NextUnit(c) = Plan[c][pos[c] + 1]
            /\ NextUnit(c) \in Unit /\ NextUnit(c).block # 0
        BY <1>11, UnitFacts DEF WriteFromSpool, NextUnit
      <4>2. NextUnit(c).at \in 1 .. Blocks[c][NextUnit(c).block].units
        BY <4>1, ConstantsAssumption DEF ConstantsAssumption
      <4> QED
        BY <4>1, <4>2 DEF Unit
    <3>2. spool[at] \in Calls \X Unit
      BY <2>1, <3>1, SpoolContentType
    <3>3. pc' \in [Calls -> Steps] /\ stop' \in [Calls -> BOOLEAN]
          /\ result' \in [Calls -> Errors \cup {"none", "ok"}]
      BY <2>1, ReturnType DEF TypeOK, Goto
    <3>4. /\ content' \in [Files -> Seq(Calls \X Unit)] /\ pos' \in [Calls -> Nat]
          /\ UNCHANGED <<fs, synced, blk, done, tracked, stuck, stray>>
      BY <2>1, <3>2, WriteUnitType
    <3> QED
      BY <3>3, <3>4 DEF TypeOK
  <2> QED
    BY <1>11, <2>1 DEF WriteFromSpool
<1>12. CASE Flush(c)
  BY <1>12, FlushType
<1>13. CASE Close(c)
  BY <1>13 DEF Close
<1>14. CASE FinalCheck(c)
  BY <1>14 DEF FinalCheck
<1>15. CASE Link(c)
  BY <1>15, LinkType
<1>16. CASE Summarize(c)
  <2>1. CASE SummaryNoMemory(c)
    <3>1. stray' \in [Calls -> SUBSET Names]
      BY <2>1 DEF SummaryNoMemory, TypeOK
    <3>2. pc' \in [Calls -> Steps] /\ stop' \in [Calls -> BOOLEAN]
          /\ result' \in [Calls -> Errors \cup {"none", "ok"}]
      BY <2>1, ReturnType DEF SummaryNoMemory
    <3> QED
      BY <2>1, <3>1, <3>2 DEF SummaryNoMemory, TypeOK, disk, local
  <2>2. CASE Return(c, "ok") /\ UNCHANGED <<disk, local, guarded>>
    BY <2>2, ReturnType DEF TypeOK, disk, local, guarded
  <2> QED
    BY <1>16, <2>1, <2>2 DEF Summarize
<1>17. CASE Cleanup(c)
  BY <1>17, CleanupType
<1>18. CASE OutOfMemory(c)
  BY <1>18 DEF OutOfMemory
<1>19. CASE LeaveCall(c)
  BY <1>19 DEF LeaveCall
<1> QED
  BY <1>1, <1>2, <1>3, <1>4, <1>5, <1>6, <1>7, <1>8, <1>9, <1>10, <1>11,
     <1>12, <1>13, <1>14, <1>15, <1>16, <1>17, <1>18, <1>19 DEF CallStep

\* Every step keeps the types.
LEMMA TypeNext == TypeOK /\ [Next]_vars => TypeOK'
BY CallType, EnvironmentType DEF Next, vars, TypeOK

\* Every variable keeps its type in every reachable state, for any set of
\* calls, directory and faults.
THEOREM TypeCorrect == Spec => []TypeOK
BY TypeInit, TypeNext, PTL DEF Spec

-----------------------------------------------------------------------------
(* The inductive invariant. *)

\* No call has begun and every file is empty: the invariant holds.
LEMMA InvInit == Init => IInv
<1> SUFFICES ASSUME Init
             PROVE  IInv
  OBVIOUS
<1>1. \A n \in Names : fs[n] \notin Files
  BY FilesAssumption DEF Init, FilesAssumption
<1>2. \A c \in Calls : content[Out(c)] = << >> /\ \A k \in DOMAIN Blocks[c] : content[<<c, k>>] = << >>
  BY FileOfCall DEF Init, Out
<1>3. \A c \in Calls : Out(c) \in Files
  BY FileOfCall DEF Out
<1>4. \A c \in Calls : Plan[c] \in Seq(Unit)
  BY ConstantsAssumption DEF ConstantsAssumption
<1>5. TrackedOwned /\ InvNames /\ InvResult /\ InvOwned
  BY <1>1, <1>3 DEF Init, TrackedOwned, InvNames, InvResult, InvOwned, Over, Steps
<1>6. InvOutput
  BY <1>2, <1>4 DEF Init, InvOutput, Preparing
<1>7. InvSpools
  BY <1>2 DEF Init, InvSpools, SpoolHeld, SpoolFaithful, BlockAt, Preparing, Planned, Opened, FirstBlock
<1>8. InvCommit
  BY <1>1, <1>3, ConstantsAssumption DEF Init, InvCommit, Published, Opened, WritesFile, ConstantsAssumption
<1> QED
  BY <1>5, <1>6, <1>7, <1>8 DEF IInv

\* A call that gives up leaves the files as they are, for the guard to remove; the
\* only one it has published by then, if any, counts as a stray.
LEMMA GiveUpInv ==
  ASSUME TypeOK, IInv, NEW c \in Calls, NEW e \in Errors, Return(c, e),
         UNCHANGED <<disk, local, tracked, stuck>>, pc[c] \notin Over,
         \/ UNCHANGED stray /\ pc[c] # "summary"
         \/ /\ e = "resource_limit"
            /\ stray' = [stray EXCEPT ![c] = @ \cup ({Dest[c]} \cap Names)]
  PROVE  IInv'
<1>1. pc'[c] = "cleanup" /\ result'[c] = e /\ e # "ok" /\ e # "none"
  BY DEF Return, TypeOK, Errors
<1>2. \A b \in Calls \ {c} : pc'[b] = pc[b] /\ result'[b] = result[b]
  BY DEF Return, TypeOK
<1>3. UNCHANGED <<fs, content, synced, blk, done, pos, tracked, stuck>>
  BY DEF disk, local
<1>11. /\ \A b \in Calls : stray[b] \subseteq stray'[b]
       /\ \A b \in Calls \ {c} : stray'[b] = stray[b]
       /\ stray'[c] # {} => e = "resource_limit"
       /\ pc[c] = "summary" => \A n \in Names : n = Dest[c] => n \in stray'[c]
  <2>1. result[c] = "none" /\ stray[c] = {}
    BY DEF IInv, InvResult
  <2> QED
    BY <2>1 DEF TypeOK
<1>4. TrackedOwned'
  BY <1>3 DEF IInv, TrackedOwned
<1>5. InvNames'
  BY <1>1, <1>2, <1>3 DEF IInv, InvNames, Out
<1>6. InvSpools'
  <2>1. ASSUME NEW b \in Calls PROVE BlockAt(b)'
    BY <1>1, <1>2, <1>3 DEF IInv, InvSpools, BlockAt, Planned, Opened, IsSpool
  <2>2. ASSUME NEW b \in Calls, NEW k \in DOMAIN Blocks[b] PROVE SpoolHeld(b, k)'
    BY <1>1, <1>2, <1>3
    DEF IInv, InvSpools, SpoolHeld, Spooled, IsSpool, Preparing, Planned, Opened
  <2>3. ASSUME NEW b \in Calls, NEW k \in DOMAIN Blocks[b] PROVE SpoolFaithful(b, k)'
    BY <1>3 DEF IInv, InvSpools, SpoolFaithful
  <2> QED
    BY <2>1, <2>2, <2>3 DEF InvSpools
<1>7. InvOutput'
  BY <1>1, <1>2, <1>3 DEF IInv, InvOutput, Out, Preparing
<1>8. InvCommit'
  BY <1>1, <1>2, <1>3 DEF IInv, InvCommit, Opened, Over, Published, WritesFile, Out
<1>9. InvResult'
  BY <1>1, <1>2, <1>3, <1>11 DEF IInv, InvResult, Over
<1>10. InvOwned'
  <2>1. result[c] = "none"
    BY DEF IInv, InvResult
  <2>2. ASSUME NEW n \in Names, NEW b \in Calls, fs[n] \in Files, Owner(fs[n]) = b
        PROVE  \/ n \in tracked'[b] \cup stuck'[b] \cup stray'[b]
               \/ n = Dest[b] /\ (pc'[b] = "summary" \/ result'[b] = "ok")
               \/ pc'[b] = "crashed"
    <3>1. \/ n \in tracked[b] \cup stuck[b] \cup stray[b]
          \/ n = Dest[b] /\ (pc[b] = "summary" \/ result[b] = "ok")
          \/ pc[b] = "crashed"
      BY <2>2 DEF IInv, InvOwned
    <3>2. CASE b = c
      BY <1>3, <1>11, <2>1, <3>1, <3>2 DEF Over
    <3>3. CASE b # c
      BY <1>2, <1>3, <1>11, <3>1, <3>3
    <3> QED
      BY <3>2, <3>3
  <2> QED
    BY <1>3, <2>2 DEF InvOwned
<1> QED
  BY <1>4, <1>5, <1>6, <1>7, <1>8, <1>9, <1>10 DEF IInv

\* An error return.
LEMMA FailInv ==
  ASSUME TypeOK, IInv, NEW c \in Calls, NEW e \in Errors, Fail(c, e),
         pc[c] \notin Over, pc[c] # "summary"
  PROVE  IInv'
BY GiveUpInv DEF Fail, guarded

\* A step that leaves spools and blocks alone keeps what is known of them, as
\* long as a running call still finds its spools.
LEMMA SpoolsFrame ==
  ASSUME TypeOK, IInv, UNCHANGED <<content, blk, done>>,
         \A b \in Calls :
           \/ pc'[b] = pc[b]
           \/ pc'[b] \in Over
           \/ pc[b] \in Opened /\ pc'[b] \in Opened,
         \A b \in Calls : \A k \in DOMAIN Blocks[b] :
           /\ pc'[b] \in Preparing \cup Planned
           /\ Blocks[b][k].name \in tracked[b]
           /\ fs[Blocks[b][k].name] = <<b, k>>
           => /\ Blocks[b][k].name \in tracked'[b]
              /\ fs'[Blocks[b][k].name] = <<b, k>>
  PROVE  InvSpools'
<1>1. ASSUME NEW b \in Calls PROVE BlockAt(b)'
  BY DEF IInv, InvSpools, BlockAt, Planned, Opened, IsSpool, Over
<1>2. ASSUME NEW b \in Calls, NEW k \in DOMAIN Blocks[b]
      PROVE  SpoolFaithful(b, k)'
  BY DEF IInv, InvSpools, SpoolFaithful
<1>3. ASSUME NEW b \in Calls, NEW k \in DOMAIN Blocks[b],
             pc'[b] \in Preparing \cup Planned, Spooled(b, k)'
      PROVE  /\ Blocks[b][k].name \in tracked'[b]
             /\ fs'[Blocks[b][k].name] = <<b, k>>
  <2>1. pc[b] \in Preparing \cup Planned
    BY <1>3 DEF Over, Preparing, Planned, Opened
  <2>2. Spooled(b, k)
    BY <1>3 DEF Spooled, IsSpool, Over, Opened
  <2>3. Blocks[b][k].name \in tracked[b] /\ fs[Blocks[b][k].name] = <<b, k>>
    BY <2>1, <2>2 DEF IInv, InvSpools, SpoolHeld
  <2> QED
    BY <1>3, <2>3
<1> QED
  BY <1>1, <1>2, <1>3 DEF InvSpools, SpoolHeld

\* A step that only moves a running call on, along an edge of write_impl.
Onward(from, to) ==
  \/ from = "idle" /\ to \in {"check", "prepare"}
  \/ from = "check" /\ to = "prepare"
  \/ from = "compress" /\ to = "checksum"
  \/ from = "prepare" /\ to \in {"open", "write"}
  \/ from = "close" /\ to = "final"
  \/ from = "final" /\ to \in {"link", "summary"}
  \/ from = "cleanup" /\ to = "returned"

\* Such a step keeps the invariant.
LEMMA QuietInv ==
  ASSUME TypeOK, IInv, NEW c \in Calls, NEW step \in Steps, Goto(c, step),
         UNCHANGED <<disk, local, guarded>>,
         Onward(pc[c], step),
         pc[c] = "prepare" => ~HasBlock(c),
         step \in {"write", "summary"} => ~WritesFile(c),
         step = "returned" => tracked[c] = {}
  PROVE  IInv'
<1>1. pc'[c] = step /\ UNCHANGED result
  BY DEF Goto, TypeOK
<1>2. \A b \in Calls \ {c} : pc'[b] = pc[b]
  BY DEF Goto, TypeOK
<1>3. UNCHANGED <<fs, content, synced, blk, done, pos, tracked, stuck, stray>>
  BY DEF disk, local, guarded
<1>4. TrackedOwned'
  BY <1>3 DEF IInv, TrackedOwned
<1>5. InvNames'
  BY <1>1, <1>2, <1>3 DEF IInv, InvNames, Out, Onward
<1>6. InvSpools'
  <2>1. pc[c] = "prepare" => blk[c] > Len(Blocks[c])
    BY ConstantsAssumption DEF HasBlock, TypeOK, ConstantsAssumption
  <2>2. \A b \in Calls : \A k \in DOMAIN Blocks[b] : k \in Nat /\ k > 0
    BY ConstantsAssumption DEF ConstantsAssumption
  <2>3. \A b \in Calls : \A k \in DOMAIN Blocks[b] :
          pc'[b] \in Preparing \cup Planned /\ Spooled(b, k)' =>
            pc[b] \in Preparing \cup Planned /\ Spooled(b, k)
    <3>1. ASSUME NEW b \in Calls \ {c}, NEW k \in DOMAIN Blocks[b]
          PROVE  pc'[b] = pc[b] /\ (Spooled(b, k)' <=> Spooled(b, k))
      BY <1>2, <1>3 DEF Spooled, IsSpool
    <3>2. pc[c] \in {"idle", "check"} => blk[c] = 1
      BY DEF IInv, InvSpools, SpoolFaithful, BlockAt
    <3>3. ASSUME NEW k \in DOMAIN Blocks[c], Spooled(c, k)',
                 step \in Preparing \cup Planned
          PROVE  pc[c] \in Preparing \cup Planned /\ Spooled(c, k)
      <4>1. CASE pc[c] \in {"idle", "check"}
        BY <1>1, <1>3, <2>2, <3>2, <3>3, <4>1
        DEF Spooled, Onward, Preparing, Planned, Opened
      <4>2. CASE pc[c] \notin {"idle", "check"}
        BY <1>1, <1>3, <3>3, <4>2
        DEF Spooled, Onward, Preparing, Planned, Opened
      <4> QED
        BY <4>1, <4>2
    <3> QED
      BY <1>1, <3>1, <3>3
  <2>4. ASSUME NEW b \in Calls
        PROVE  BlockAt(b)'
    <3>1. BlockAt(b)
      BY DEF IInv, InvSpools
    <3>2. CASE b = c
      BY <1>1, <1>3, <2>1, <3>1, <3>2
      DEF BlockAt, IsSpool, Onward, Planned, Opened
    <3>3. CASE b # c
      BY <1>2, <1>3, <3>1, <3>3 DEF BlockAt
    <3> QED
      BY <3>2, <3>3
  <2>5. ASSUME NEW b \in Calls, NEW k \in DOMAIN Blocks[b]
        PROVE  SpoolHeld(b, k)' /\ SpoolFaithful(b, k)'
    <3>1. SpoolHeld(b, k) /\ SpoolFaithful(b, k)
      BY DEF IInv, InvSpools
    <3>2. SpoolHeld(b, k)'
      BY <1>3, <2>3, <3>1 DEF SpoolHeld
    <3> QED
      BY <1>3, <3>1, <3>2 DEF SpoolFaithful
  <2> QED
    BY <2>4, <2>5 DEF InvSpools
<1>7. InvOutput'
  BY <1>1, <1>2, <1>3 DEF IInv, InvOutput, Out, Preparing, Onward
<1>8. InvCommit'
  BY <1>1, <1>2, <1>3 DEF IInv, InvCommit, InvResult, Opened, Over, Published, WritesFile, Out, Onward
<1>9. InvResult'
  BY <1>1, <1>2, <1>3 DEF IInv, InvResult, Over, Onward
<1>10. InvOwned'
  BY <1>1, <1>2, <1>3 DEF IInv, InvOwned, Onward
<1> QED
  BY <1>4, <1>5, <1>6, <1>7, <1>8, <1>9, <1>10 DEF IInv

\* A block is complete: the call turns to the next one.
LEMMA NextBlockInv ==
  ASSUME TypeOK, IInv, NEW c \in Calls, NextBlock(c),
         \/ pc[c] \in {"compress", "checksum"}
         \/ pc[c] = "prepare" /\ HasBlock(c) /\ ~IsSpool(c, blk[c])
  PROVE  IInv'
<1>1. pc'[c] = "prepare" /\ blk'[c] = blk[c] + 1 /\ blk[c] \in Nat \ {0}
  BY DEF NextBlock, Goto, TypeOK
<1>2. \A b \in Calls \ {c} : pc'[b] = pc[b] /\ blk'[b] = blk[b] /\ done'[b] = done[b]
  BY DEF NextBlock, Goto, TypeOK
<1>3. UNCHANGED <<fs, content, synced, pos, tracked, stuck, stray, result>>
  BY DEF NextBlock, Goto, disk, guarded
<1>4. TrackedOwned'
  BY <1>3 DEF IInv, TrackedOwned
<1>5. InvNames'
  BY <1>1, <1>2, <1>3 DEF IInv, InvNames, Out
<1>6. InvSpools'
  <2>1. \A k \in DOMAIN Blocks[c] : k \in Nat /\ k > 0
    BY ConstantsAssumption DEF ConstantsAssumption
  <2>2. ASSUME NEW b \in Calls \ {c}, NEW k \in DOMAIN Blocks[b]
        PROVE  Spooled(b, k)' <=> Spooled(b, k)
    BY <1>2 DEF Spooled, IsSpool
  <2>3. ASSUME NEW k \in DOMAIN Blocks[c], Spooled(c, k)'
        PROVE  Spooled(c, k)
    BY <1>1, <2>1, <2>3 DEF Spooled, IsSpool
  <2>4. ASSUME NEW b \in Calls, NEW k \in DOMAIN Blocks[b],
               pc'[b] \in Preparing \cup Planned, Spooled(b, k)'
        PROVE  pc[b] \in Preparing \cup Planned /\ Spooled(b, k)
    BY <1>2, <2>2, <2>3, <2>4 DEF Preparing
  <2>6. ASSUME NEW b \in Calls PROVE BlockAt(b)'
    BY <1>1, <1>2, <1>3 DEF IInv, InvSpools, BlockAt, Planned, Opened, IsSpool
  <2>7. ASSUME NEW b \in Calls, NEW k \in DOMAIN Blocks[b] PROVE SpoolHeld(b, k)'
    BY <1>3, <2>4 DEF IInv, InvSpools, SpoolHeld
  <2>8. ASSUME NEW b \in Calls, NEW k \in DOMAIN Blocks[b]
        PROVE  SpoolFaithful(b, k)'
    BY <1>3 DEF IInv, InvSpools, SpoolFaithful
  <2> QED
    BY <2>6, <2>7, <2>8 DEF InvSpools
<1>7. InvOutput'
  BY <1>1, <1>2, <1>3 DEF IInv, InvOutput, Out, Preparing
<1>8. InvCommit'
  <2>1. /\ result[c] = "none" /\ ~Published(c)
        /\ \A b \in Calls : Published(b)' <=> Published(b)
    BY <1>3 DEF IInv, InvCommit, InvResult, Over, Published, WritesFile, Out
  <2> QED
    BY <1>1, <1>2, <1>3, <2>1 DEF IInv, InvCommit, Opened, Over, WritesFile, Out
<1>9. InvResult'
  BY <1>1, <1>2, <1>3 DEF IInv, InvResult, Over
<1>10. InvOwned'
  BY <1>1, <1>2, <1>3 DEF IInv, InvOwned
<1> QED
  BY <1>4, <1>5, <1>6, <1>7, <1>8, <1>9, <1>10 DEF IInv

\* Appending leaves what was there, adds one unit and touches one file.
LEMMA AppendFacts ==
  ASSUME TypeOK, NEW f \in Files, NEW u \in Calls \X Unit, AppendTo(f, u)
  PROVE  /\ Len(content'[f]) = Len(content[f]) + 1
         /\ Len(content[f]) \in Nat
         /\ content'[f][Len(content[f]) + 1] = u
         /\ \A j \in 1 .. Len(content[f]) : content'[f][j] = content[f][j]
         /\ \A g \in Files : g # f => content'[g] = content[g]
<1>1. content[f] \in Seq(Calls \X Unit)
  BY DEF TypeOK
<1>2. content'[f] = Append(content[f], u)
  BY DEF TypeOK, AppendTo
<1>3. \A g \in Files : g # f => content'[g] = content[g]
  BY DEF TypeOK, AppendTo
<1> QED
  BY <1>1, <1>2, <1>3

\* A unit goes to the spool of the block being compressed.
LEMMA SpoolUnitInv ==
  ASSUME TypeOK, IInv, NEW c \in Calls, pc[c] = "compress",
         AppendTo(<<c, blk[c]>>, <<c, [block |-> blk[c], at |-> done[c] + 1]>>),
         done' = [done EXCEPT ![c] = @ + 1],
         Goto(c, "compress"),
         UNCHANGED <<fs, synced, blk, pos, guarded>>
  PROVE  IInv'
<1>1. UNCHANGED <<fs, synced, pc, blk, pos, tracked, stuck, stray, result>>
  BY DEF Goto, guarded, TypeOK
<1>2. /\ IsSpool(c, blk[c]) /\ blk[c] \in DOMAIN Blocks[c]
      /\ blk[c] # 0 /\ done[c] \in Nat /\ blk[c] \in Nat
      /\ Len(content[<<c, blk[c]>>]) = done[c]
  BY DEF IInv, InvSpools, SpoolHeld, SpoolFaithful, BlockAt, IsSpool, TypeOK
<1> DEFINE k0 == blk[c]
           d == done[c]
           u == <<c, [block |-> k0, at |-> d + 1]>>
<1>3. <<c, k0>> \in Files
  BY <1>2, FileOfCall
<1>4. u \in Calls \X Unit
  BY <1>2 DEF Unit
<1>5. /\ Len(content'[<<c, k0>>]) = d + 1
      /\ content'[<<c, k0>>][d + 1] = u
      /\ \A j \in 1 .. d : content'[<<c, k0>>][j] = content[<<c, k0>>][j]
      /\ \A g \in Files : g # <<c, k0>> => content'[g] = content[g]
  <2>1. AppendTo(<<c, k0>>, u)
    OBVIOUS
  <2>2. Len(content[<<c, k0>>]) = d
    BY <1>2
  <2> HIDE DEF k0, d, u
  <2> QED
    BY <1>3, <1>4, <2>1, <2>2, AppendFacts
<1>6. done'[c] = d + 1 /\ \A b \in Calls \ {c} : done'[b] = done[b]
  BY DEF TypeOK
<1>7. k0 \in DOMAIN Blocks[c] /\ k0 # 0 /\ d \in Nat
  BY <1>2
<1> HIDE DEF k0, d
<1>8. InvSpools'
  <2>1. ASSUME NEW b \in Calls, NEW k \in DOMAIN Blocks[b],
               NEW j \in 1 .. Len(content'[<<b, k>>]), j <= Blocks[b][k].units
        PROVE  content'[<<b, k>>][j] = <<b, [block |-> k, at |-> j]>>
    <3>1. CASE b = c /\ k = k0
      <4>1. j = d + 1 \/ j \in 1 .. d
        BY <1>5, <1>7, <3>1
      <4>2. \A i \in 1 .. d : i <= Blocks[b][k].units =>
              content[<<c, k0>>][i] = <<c, [block |-> k0, at |-> i]>>
        <5>1. SpoolFaithful(c, k0)
          BY <1>7 DEF IInv, InvSpools
        <5> QED
          BY <1>2, <3>1, <5>1 DEF SpoolFaithful, k0, d
      <4> QED
        BY <1>5, <2>1, <3>1, <4>1, <4>2
    <3>2. CASE ~(b = c /\ k = k0)
      <4>1. <<b, k>> \in Files /\ <<b, k>> # <<c, k0>>
        BY <3>2, FileOfCall
      <4>2. content'[<<b, k>>] = content[<<b, k>>]
        BY <1>5, <4>1
      <4>3. SpoolFaithful(b, k)
        BY DEF IInv, InvSpools
      <4> QED
        BY <2>1, <4>2, <4>3 DEF SpoolFaithful
    <3> QED
      BY <3>1, <3>2
  <2>2. ASSUME NEW b \in Calls, pc[b] = "compress"
        PROVE  Len(content'[<<b, blk[b]>>]) = done'[b]
    <3>1. CASE b = c
      BY <1>5, <1>6, <3>1 DEF k0
    <3>2. CASE b # c
      <4>1. <<b, blk[b]>> \in Files /\ <<b, blk[b]>> # <<c, k0>>
        BY <2>2, <3>2, FileOfCall DEF IInv, InvSpools, SpoolHeld, SpoolFaithful, BlockAt, IsSpool
      <4> QED
        BY <1>5, <1>6, <2>2, <3>2, <4>1 DEF IInv, InvSpools, SpoolFaithful, BlockAt
    <3> QED
      BY <3>1, <3>2
  <2>3. ASSUME NEW b \in Calls PROVE BlockAt(b)'
    BY <1>1, <2>2 DEF IInv, InvSpools, BlockAt, IsSpool
  <2>4. ASSUME NEW b \in Calls, NEW k \in DOMAIN Blocks[b]
        PROVE  SpoolHeld(b, k)' /\ SpoolFaithful(b, k)'
    BY <1>1, <2>1 DEF IInv, InvSpools, SpoolHeld, SpoolFaithful, Spooled, IsSpool
  <2> QED
    BY <2>3, <2>4 DEF InvSpools
<1>9. InvOutput'
  <2>1. \A b \in Calls : content'[Out(b)] = content[Out(b)]
    BY <1>5, <1>7, FileOfCall DEF Out
  <2> QED
    BY <1>1, <2>1 DEF IInv, InvOutput
<1>10. TrackedOwned' /\ InvNames' /\ InvCommit' /\ InvResult' /\ InvOwned'
  BY <1>1 DEF IInv, TrackedOwned, InvNames, InvCommit, InvResult, InvOwned,
              Published, Out, WritesFile
<1> QED
  BY <1>8, <1>9, <1>10 DEF IInv

\* A unit goes to the output: the one the plan has there.
LEMMA WriteUnitInv ==
  ASSUME TypeOK, IInv, NEW c \in Calls, pc[c] = "write", MoreUnits(c),
         WriteUnit(c, <<c, NextUnit(c)>>),
         Goto(c, "write") \/ Return(c, "io_error")
  PROVE  IInv'
<1>1. UNCHANGED <<fs, synced, blk, done, tracked, stuck, stray>>
  BY DEF WriteUnit, guarded
<1>2. /\ Out(c) \in Files
      /\ content[Out(c)] \in Seq(Calls \X Unit)
      /\ Len(content[Out(c)]) = pos[c]
      /\ pos[c] \in Nat
      /\ pos[c] < Len(Plan[c])
      /\ Len(Plan[c]) \in Nat
  BY FileOfCall, ConstantsAssumption
  DEF Out, TypeOK, IInv, InvOutput, MoreUnits, ConstantsAssumption
<1>3. /\ content'[Out(c)] = Append(content[Out(c)], <<c, Plan[c][pos[c] + 1]>>)
      /\ \A g \in Files \ {Out(c)} : content'[g] = content[g]
  BY <1>2 DEF WriteUnit, AppendTo, TypeOK, NextUnit
<1>4. pos'[c] = pos[c] + 1 /\ \A b \in Calls \ {c} : pos'[b] = pos[b]
  BY DEF WriteUnit, TypeOK
<1>5. /\ \A b \in Calls \ {c} : pc'[b] = pc[b] /\ result'[b] = result[b]
      /\ \/ pc'[c] = "write" /\ result'[c] = result[c]
         \/ pc'[c] = "cleanup" /\ result'[c] = "io_error"
  BY DEF Goto, Return, TypeOK
<1>6. result[c] = "none" /\ ~Published(c)
  BY DEF IInv, InvResult, InvCommit, Over
<1>7. InvOutput'
  <2>1. Len(content'[Out(c)]) = pos[c] + 1
    BY <1>2, <1>3
  <2>2. \A i \in 1 .. pos[c] + 1 : content'[Out(c)][i] = <<c, Plan[c][i]>>
    BY <1>2, <1>3 DEF IInv, InvOutput
  <2>3. \A b \in Calls \ {c} : content'[Out(b)] = content[Out(b)]
    BY <1>3, FileOfCall DEF Out
  <2>4. pc'[c] \in {"write", "cleanup"} /\ result'[c] # "ok"
    BY <1>5, <1>6
  <2>5. ASSUME NEW b \in Calls \ {c}
        PROVE  /\ Len(content'[Out(b)]) = pos'[b]
               /\ pos'[b] <= Len(Plan[b])
               /\ \A i \in 1 .. pos'[b] : content'[Out(b)][i] = <<b, Plan[b][i]>>
               /\ pc'[b] \in {"idle", "check", "open"} \cup Preparing => pos'[b] = 0
               /\ pc'[b] \in {"close", "final", "link", "summary"}
                    \/ result'[b] = "ok" =>
                      pos'[b] = Len(Plan[b]) /\ synced'[b] = pos'[b]
    BY <1>1, <1>4, <1>5, <2>3 DEF IInv, InvOutput
  <2>6. /\ Len(content'[Out(c)]) = pos'[c]
        /\ pos'[c] <= Len(Plan[c])
        /\ \A i \in 1 .. pos'[c] : content'[Out(c)][i] = <<c, Plan[c][i]>>
    BY <1>2, <1>4, <2>1, <2>2
  <2>7. /\ pc'[c] \notin {"idle", "check", "open"} \cup Preparing
        /\ pc'[c] \notin {"close", "final", "link", "summary"}
        /\ result'[c] # "ok"
    BY <2>4 DEF Preparing
  <2> QED
    BY <2>5, <2>6, <2>7 DEF InvOutput, Out
<1>8. InvSpools'
  <2>1. \A b \in Calls : \A k \in DOMAIN Blocks[b] :
          content'[<<b, k>>] = content[<<b, k>>]
    <3>1. ASSUME NEW b \in Calls, NEW k \in DOMAIN Blocks[b]
          PROVE  <<b, k>> \in Files \ {Out(c)}
      <4>1. k # 0
        BY ConstantsAssumption DEF ConstantsAssumption
      <4> QED
        BY <4>1, FileOfCall DEF Out
    <3> QED
      BY <1>3, <3>1
  <2>2. ASSUME NEW b \in Calls, pc[b] = "compress"
        PROVE  content'[<<b, blk[b]>>] = content[<<b, blk[b]>>]
    BY <2>1, <2>2 DEF IInv, InvSpools, SpoolHeld, SpoolFaithful, BlockAt, IsSpool
  <2>3. ASSUME NEW b \in Calls
        PROVE  /\ pc'[b] \in Preparing \cup Planned => pc[b] = pc'[b]
               /\ pc'[b] \in {"idle", "check", "compress", "checksum"} =>
                    pc[b] = pc'[b]
               /\ \A k \in DOMAIN Blocks[b] :
                    pc'[b] = pc[b] => (Spooled(b, k)' <=> Spooled(b, k))
    BY <1>1, <1>5 DEF Preparing, Planned, Opened, Spooled, IsSpool
  <2>4. ASSUME NEW b \in Calls
        PROVE  BlockAt(b)'
    <3>1. BlockAt(b)
      BY DEF IInv, InvSpools
    <3> QED
      BY <1>1, <2>2, <2>3, <3>1 DEF BlockAt, IsSpool, Planned
  <2>5. ASSUME NEW b \in Calls, NEW k \in DOMAIN Blocks[b]
        PROVE  SpoolHeld(b, k)' /\ SpoolFaithful(b, k)'
    <3>1. SpoolHeld(b, k) /\ SpoolFaithful(b, k)
      BY DEF IInv, InvSpools
    <3>2. SpoolHeld(b, k)'
      BY <1>1, <2>3, <3>1 DEF SpoolHeld
    <3> QED
      BY <2>1, <3>1, <3>2 DEF SpoolFaithful
  <2> QED
    BY <2>4, <2>5 DEF InvSpools
<1>9. TrackedOwned'
  BY <1>1 DEF IInv, TrackedOwned
<1>10. InvNames' /\ InvResult' /\ InvOwned'
  BY <1>1, <1>5, <1>6
  DEF IInv, InvNames, InvResult, InvOwned, Out, Over
<1>11. InvCommit'
  BY <1>1, <1>4, <1>5, <1>6
  DEF IInv, InvCommit, Published, Out, WritesFile, Opened, Over
<1> QED
  BY <1>7, <1>8, <1>9, <1>10, <1>11 DEF IInv

\* A file is created under a free name and handed to the guard.
LEMMA CreateFrame ==
  ASSUME TypeOK, IInv, NEW c \in Calls, NEW n \in Names, NEW f \in Files,
         Owner(f) = c, CanCreate(n), fs' = [fs EXCEPT ![n] = f]
  PROVE  /\ fs'[n] = f
         /\ \A m \in Names : m # n => fs'[m] = fs[m]
         /\ \A b \in Calls : n \notin tracked[b]
         /\ fs[n] \notin Files
<1>1. fs'[n] = f /\ \A m \in Names : m # n => fs'[m] = fs[m]
  BY DEF TypeOK
<1>2. fs[n] \notin Files
  BY FilesAssumption DEF CanCreate, FilesAssumption
<1> QED
  BY <1>1, <1>2 DEF IInv, TrackedOwned

\* The spool or the temporary is created under a free name and tracked.
LEMMA CreateTrackedInv ==
  ASSUME TypeOK, IInv, NEW c \in Calls, NEW n \in Names, NEW f \in Files,
         CreateTracked(c, n, f), UNCHANGED <<blk, pos>>,
         n # Dest[c],
         \/ /\ pc[c] = "prepare" /\ IsSpool(c, blk[c])
            /\ f = <<c, blk[c]>> /\ n = Blocks[c][blk[c]].name
            /\ done' = [done EXCEPT ![c] = 0] /\ Goto(c, "compress")
         \/ /\ pc[c] = "open" /\ f = Out(c) /\ n = Temp[c]
            /\ UNCHANGED done /\ Goto(c, "write")
  PROVE  IInv'
<1>1. Owner(f) = c
  BY FileOfCall DEF Out, IsSpool
<1>2. /\ fs'[n] = f
      /\ \A m \in Names : m # n => fs'[m] = fs[m]
      /\ \A b \in Calls : n \notin tracked[b]
      /\ fs[n] \notin Files
  BY <1>1, CreateFrame DEF CreateTracked
<1>3. /\ content'[f] = << >>
      /\ \A g \in Files : g # f => content'[g] = content[g]
      /\ tracked'[c] = tracked[c] \cup {n}
      /\ \A b \in Calls : b # c => tracked'[b] = tracked[b]
      /\ UNCHANGED <<synced, stuck, stray, blk, pos, result>>
  BY DEF CreateTracked, TypeOK, Goto
<1>4. /\ \A b \in Calls : b # c => pc'[b] = pc[b] /\ done'[b] = done[b]
      /\ pc'[c] = IF pc[c] = "prepare" THEN "compress" ELSE "write"
      /\ pc[c] \in {"prepare", "open"}
      /\ pc[c] = "prepare" => done'[c] = 0
  BY DEF TypeOK, Goto
<1>5. result[c] = "none"
  BY <1>4 DEF IInv, InvResult, Over
<1>6. TrackedOwned'
  <2> SUFFICES ASSUME NEW b \in Calls, NEW m \in tracked'[b]
               PROVE  fs'[m] \in Files /\ Owner(fs'[m]) = b /\ m # Dest[b]
    BY DEF TrackedOwned
  <2>1. CASE b = c /\ m = n
    BY <1>1, <1>2, <2>1
  <2>2. CASE ~(b = c /\ m = n)
    <3>1. m \in tracked[b]
      BY <1>3, <2>2
    <3>2. m \in Names /\ m # n
      BY <1>2, <3>1 DEF TypeOK
    <3> QED
      BY <1>2, <3>1, <3>2 DEF IInv, TrackedOwned
  <2> QED
    BY <2>1, <2>2
<1>7. InvNames'
  <2>1. pc[c] = "prepare" => f # Out(c)
    BY ConstantsAssumption DEF ConstantsAssumption, IsSpool, Out
  <2> QED
    BY <1>1, <1>2, <1>4, <2>1 DEF IInv, InvNames, Out, Owner
<1>8. InvOutput'
  <2>1. ASSUME NEW b \in Calls PROVE content'[Out(b)] = content[Out(b)]
    <3>1. CASE f = Out(b)
      <4>1. b = c /\ pos[c] = 0 /\ Len(content[Out(c)]) = 0
        BY <1>1, <1>4, <3>1, FileOfCall DEF Out, IInv, InvOutput, Preparing
      <4> QED
        BY <1>3, <3>1, <4>1, FileOfCall DEF Out, TypeOK
    <3>2. CASE f # Out(b)
      BY <1>3, <3>2, FileOfCall DEF Out
    <3> QED
      BY <3>1, <3>2
  <2>2. \A b \in Calls : pc'[b] \in {"idle", "check", "open", "close", "final", "link", "summary"} \cup Preparing
          => pc'[b] = pc[b] \/ (b = c /\ pc[c] = "prepare" /\ pc'[c] = "compress")
    BY <1>4 DEF Preparing
  <2> QED
    BY <1>3, <2>1, <2>2 DEF IInv, InvOutput, Preparing
<1>9. InvSpools'
  <2>1. ASSUME NEW b \in Calls PROVE BlockAt(b)'
    <3>1. CASE b = c
      BY <1>3, <1>4, <3>1 DEF IInv, InvSpools, BlockAt, Planned, Opened, IsSpool
    <3>2. CASE b # c
      <4>1. pc[b] = "compress" => <<b, blk[b]>> \in Files /\ <<b, blk[b]>> # f
        <5>1. pc[b] = "compress" => blk[b] \in DOMAIN Blocks[b]
          BY DEF IInv, InvSpools, BlockAt, IsSpool
        <5>2. ASSUME blk[b] \in DOMAIN Blocks[b]
              PROVE  <<b, blk[b]>> \in Files /\ Owner(<<b, blk[b]>>) = b
          BY <5>2, FileOfCall
        <5> QED
          BY <1>1, <3>2, <5>1, <5>2
      <4> QED
        BY <1>3, <1>4, <3>2, <4>1 DEF IInv, InvSpools, BlockAt
    <3> QED
      BY <3>1, <3>2
  <2>2. ASSUME NEW b \in Calls, NEW k \in DOMAIN Blocks[b]
        PROVE  SpoolFaithful(b, k)'
    <3>1. CASE f = <<b, k>>
      BY <1>3, <3>1 DEF SpoolFaithful
    <3>2. CASE f # <<b, k>>
      <4>1. content'[<<b, k>>] = content[<<b, k>>]
        BY <1>3, <3>2, FileOfCall
      <4> QED
        BY <4>1 DEF IInv, InvSpools, SpoolFaithful
    <3> QED
      BY <3>1, <3>2
  <2>3. ASSUME NEW b \in Calls, NEW k \in DOMAIN Blocks[b],
               pc'[b] \in Preparing \cup Planned, Spooled(b, k)'
        PROVE  /\ Blocks[b][k].name \in tracked'[b]
               /\ fs'[Blocks[b][k].name] = <<b, k>>
    <3>1. CASE b = c /\ k = blk[c] /\ pc[c] = "prepare"
      BY <1>2, <1>3, <3>1
    <3>2. CASE ~(b = c /\ k = blk[c] /\ pc[c] = "prepare")
      <4>1. pc[b] \in Preparing \cup Planned /\ Spooled(b, k)
        BY <1>3, <1>4, <2>3, <3>2 DEF Spooled, IsSpool, Preparing, Planned, Opened
      <4>2. Blocks[b][k].name \in tracked[b] /\ fs[Blocks[b][k].name] = <<b, k>>
        BY <4>1 DEF IInv, InvSpools, SpoolHeld
      <4>3. Blocks[b][k].name \in Names /\ Blocks[b][k].name # n
        BY <1>2, <4>2 DEF TypeOK
      <4> QED
        BY <1>2, <1>3, <4>2, <4>3
    <3> QED
      BY <3>1, <3>2
  <2> QED
    BY <2>1, <2>2, <2>3 DEF InvSpools, SpoolHeld
<1>10. InvResult'
  BY <1>3, <1>4 DEF IInv, InvResult, Over
<1>11. InvOwned'
  BY <1>1, <1>2, <1>3, <1>4, <1>5 DEF IInv, InvOwned
<1>12. InvCommit'
  <2>1. ASSUME NEW b \in Calls PROVE Published(b)' <=> Published(b)
    <3>1. CASE n = Dest[b] /\ WritesFile(b)
      <4>1. b # c /\ f # Out(b) /\ fs[n] # Out(b)
        BY <1>1, <1>2, <3>1, FileOfCall DEF Out
      <4> QED
        BY <1>2, <3>1, <4>1 DEF Published
    <3>2. CASE ~(n = Dest[b] /\ WritesFile(b))
      BY <1>2, <3>2, ConstantsAssumption
      DEF Published, WritesFile, ConstantsAssumption, Out
    <3> QED
      BY <3>1, <3>2
  <2>2. ASSUME NEW b \in Calls, WritesFile(b), pc'[b] \in Opened
        PROVE  Temp[b] \in tracked'[b] /\ fs'[Temp[b]] = Out(b)
    <3>1. CASE b = c
      BY <1>2, <1>3, <1>4, <2>2, <3>1 DEF Opened
    <3>2. CASE b # c
      <4>1. Temp[b] \in tracked[b] /\ fs[Temp[b]] = Out(b)
        BY <1>4, <2>2, <3>2 DEF IInv, InvCommit
      <4>2. Temp[b] \in Names /\ Temp[b] # n
        BY <1>2, <4>1 DEF TypeOK
      <4> QED
        BY <1>2, <1>3, <3>2, <4>1, <4>2
    <3> QED
      BY <3>1, <3>2
  <2> QED
    BY <1>3, <1>4, <1>5, <2>1, <2>2 DEF IInv, InvCommit, Over
<1> QED
  BY <1>6, <1>7, <1>8, <1>9, <1>10, <1>11, <1>12 DEF IInv

\* Memory runs out right after the file was created: it stays behind.
LEMMA CreateThenNoMemoryInv ==
  ASSUME TypeOK, IInv, NEW c \in Calls, NEW n \in Names, NEW f \in Files,
         CreateThenNoMemory(c, n, f), n # Dest[c],
         \/ pc[c] = "prepare" /\ IsSpool(c, blk[c]) /\ f = <<c, blk[c]>>
         \/ pc[c] = "open" /\ f = Out(c) /\ n = Temp[c]
  PROVE  IInv'
<1>1. Owner(f) = c
  BY FileOfCall DEF Out, IsSpool
<1>2. /\ fs'[n] = f
      /\ \A m \in Names : m # n => fs'[m] = fs[m]
      /\ \A b \in Calls : n \notin tracked[b]
      /\ fs[n] \notin Files
  BY <1>1, CreateFrame DEF CreateThenNoMemory
<1>3. /\ content'[f] = << >>
      /\ \A g \in Files : g # f => content'[g] = content[g]
      /\ UNCHANGED <<synced, tracked, stuck, blk, pos, done>>
      /\ stray'[c] = stray[c] \cup {n}
      /\ \A b \in Calls : b # c => stray'[b] = stray[b]
  BY DEF CreateThenNoMemory, TypeOK, local
<1>4. /\ \A b \in Calls : b # c => pc'[b] = pc[b] /\ result'[b] = result[b]
      /\ pc'[c] = "cleanup" /\ result'[c] = "resource_limit"
      /\ pc[c] \in {"prepare", "open"}
  BY DEF TypeOK, CreateThenNoMemory, Return
<1>5. result[c] = "none"
  BY <1>4 DEF IInv, InvResult, Over
<1>6. TrackedOwned'
  <2> SUFFICES ASSUME NEW b \in Calls, NEW m \in tracked[b]
               PROVE  fs'[m] \in Files /\ Owner(fs'[m]) = b /\ m # Dest[b]
    BY <1>3 DEF TrackedOwned
  <2>1. m \in Names /\ m # n
    BY <1>2 DEF TypeOK
  <2> QED
    BY <1>2, <2>1 DEF IInv, TrackedOwned
<1>7. InvNames'
  <2>1. pc[c] = "prepare" => f # Out(c)
    BY ConstantsAssumption DEF ConstantsAssumption, IsSpool, Out
  <2> QED
    BY <1>1, <1>2, <1>4, <2>1 DEF IInv, InvNames, Out, Owner
<1>8. InvOutput'
  <2>1. ASSUME NEW b \in Calls PROVE content'[Out(b)] = content[Out(b)]
    <3>1. CASE f = Out(b)
      <4>1. b = c /\ pos[c] = 0 /\ Len(content[Out(c)]) = 0
        BY <1>1, <1>4, <3>1, FileOfCall DEF Out, IInv, InvOutput, Preparing
      <4> QED
        BY <1>3, <3>1, <4>1, FileOfCall DEF Out, TypeOK
    <3>2. CASE f # Out(b)
      BY <1>3, <3>2, FileOfCall DEF Out
    <3> QED
      BY <3>1, <3>2
  <2> QED
    BY <1>3, <1>4, <2>1 DEF IInv, InvOutput, Preparing
<1>9. InvSpools'
  <2>1. ASSUME NEW b \in Calls PROVE BlockAt(b)'
    <3>1. CASE b = c
      BY <1>4, <3>1 DEF BlockAt, Planned, Opened
    <3>2. CASE b # c
      <4>1. pc[b] = "compress" => blk[b] \in DOMAIN Blocks[b]
        BY DEF IInv, InvSpools, BlockAt, IsSpool
      <4>2. ASSUME blk[b] \in DOMAIN Blocks[b]
            PROVE  <<b, blk[b]>> \in Files /\ Owner(<<b, blk[b]>>) = b
        BY <4>2, FileOfCall
      <4> QED
        BY <1>1, <1>3, <1>4, <3>2, <4>1, <4>2 DEF IInv, InvSpools, BlockAt
    <3> QED
      BY <3>1, <3>2
  <2>2. ASSUME NEW b \in Calls, NEW k \in DOMAIN Blocks[b]
        PROVE  SpoolFaithful(b, k)'
    <3>1. CASE f = <<b, k>>
      BY <1>3, <3>1 DEF SpoolFaithful
    <3>2. CASE f # <<b, k>>
      <4>1. content'[<<b, k>>] = content[<<b, k>>]
        BY <1>3, <3>2, FileOfCall
      <4> QED
        BY <4>1 DEF IInv, InvSpools, SpoolFaithful
    <3> QED
      BY <3>1, <3>2
  <2>3. ASSUME NEW b \in Calls, NEW k \in DOMAIN Blocks[b],
               pc'[b] \in Preparing \cup Planned, Spooled(b, k)'
        PROVE  /\ Blocks[b][k].name \in tracked'[b]
               /\ fs'[Blocks[b][k].name] = <<b, k>>
    <3>1. b # c /\ pc[b] = pc'[b] /\ Spooled(b, k)
      BY <1>3, <1>4, <2>3 DEF Spooled, IsSpool, Preparing, Planned, Opened
    <3>2. Blocks[b][k].name \in tracked[b] /\ fs[Blocks[b][k].name] = <<b, k>>
      BY <2>3, <3>1 DEF IInv, InvSpools, SpoolHeld
    <3>3. Blocks[b][k].name \in Names /\ Blocks[b][k].name # n
      BY <1>2, <3>2 DEF TypeOK
    <3> QED
      BY <1>2, <1>3, <3>2, <3>3
  <2> QED
    BY <2>1, <2>2, <2>3 DEF InvSpools, SpoolHeld
<1>10. InvResult'
  BY <1>3, <1>4 DEF IInv, InvResult, Over
<1>11. InvOwned'
  BY <1>1, <1>2, <1>3, <1>4, <1>5 DEF IInv, InvOwned
<1>12. InvCommit'
  <2>1. ASSUME NEW b \in Calls PROVE Published(b)' <=> Published(b)
    <3>1. CASE n = Dest[b] /\ WritesFile(b)
      <4>1. b # c /\ f # Out(b) /\ fs[n] # Out(b)
        BY <1>1, <1>2, <3>1, FileOfCall DEF Out
      <4> QED
        BY <1>2, <3>1, <4>1 DEF Published
    <3>2. CASE ~(n = Dest[b] /\ WritesFile(b))
      BY <1>2, <3>2, ConstantsAssumption
      DEF Published, WritesFile, ConstantsAssumption, Out
    <3> QED
      BY <3>1, <3>2
  <2>2. ASSUME NEW b \in Calls, WritesFile(b), pc'[b] \in Opened
        PROVE  Temp[b] \in tracked'[b] /\ fs'[Temp[b]] = Out(b)
    BY <1>2, <1>3, <1>4, <2>2 DEF IInv, InvCommit, TypeOK, Opened
  <2> QED
    BY <1>3, <1>4, <1>5, <2>1, <2>2 DEF IInv, InvCommit, Over
<1> QED
  BY <1>6, <1>7, <1>8, <1>9, <1>10, <1>11, <1>12 DEF IInv

\* The output is flushed when all of the plan is written.
LEMMA FlushInv ==
  ASSUME TypeOK, IInv, NEW c \in Calls, pc[c] = "write", ~MoreUnits(c),
         synced' = [synced EXCEPT ![c] = Len(content[Out(c)])],
         Goto(c, IF WritesFile(c) THEN "close" ELSE "final"),
         UNCHANGED <<fs, content, local, guarded>>
  PROVE  IInv'
<1>1. UNCHANGED <<fs, content, blk, done, pos, tracked, stuck, stray, result>>
  BY DEF Goto, local, guarded
<1>2. /\ pc'[c] \in {"close", "final"}
      /\ \A b \in Calls : b # c => pc'[b] = pc[b] /\ synced'[b] = synced[b]
      /\ synced'[c] = Len(content[Out(c)])
  BY DEF Goto, TypeOK
<1>3. Len(content[Out(c)]) = pos[c] /\ pos[c] = Len(Plan[c])
  BY ConstantsAssumption
  DEF IInv, InvOutput, MoreUnits, TypeOK, ConstantsAssumption
<1>4. TrackedOwned' /\ InvNames' /\ InvResult' /\ InvOwned'
  BY <1>1, <1>2 DEF IInv, TrackedOwned, InvNames, InvResult, InvOwned, Over, Out
<1>5. InvOutput'
  <2>1. ASSUME NEW b \in Calls, b # c
        PROVE  /\ Len(content'[Out(b)]) = pos'[b]
               /\ pos'[b] <= Len(Plan[b])
               /\ \A i \in 1 .. pos'[b] : content'[Out(b)][i] = <<b, Plan[b][i]>>
               /\ pc'[b] \in {"idle", "check", "open"} \cup Preparing => pos'[b] = 0
               /\ pc'[b] \in {"close", "final", "link", "summary"}
                    \/ result'[b] = "ok" =>
                      pos'[b] = Len(Plan[b]) /\ synced'[b] = pos'[b]
    BY <1>1, <1>2, <2>1 DEF IInv, InvOutput, Out
  <2>2. \A i \in 1 .. pos'[c] : content'[Out(c)][i] = <<c, Plan[c][i]>>
    BY <1>1 DEF IInv, InvOutput, Out
  <2>3. pc'[c] \notin {"idle", "check", "open"} \cup Preparing
    BY <1>2 DEF Preparing
  <2>4. /\ Len(content'[Out(c)]) = pos'[c]
        /\ pos'[c] <= Len(Plan[c])
        /\ pos'[c] = Len(Plan[c]) /\ synced'[c] = pos'[c]
    BY <1>1, <1>2, <1>3 DEF IInv, InvOutput, Out
  <2> QED
    BY <2>1, <2>2, <2>3, <2>4 DEF InvOutput
<1>6. InvSpools'
  <2>1. UNCHANGED <<content, blk, done>>
    BY <1>1
  <2>2. \A b \in Calls :
         \/ pc'[b] = pc[b]
         \/ pc'[b] \in Over
         \/ pc[b] \in Opened /\ pc'[b] \in Opened
    BY <1>2 DEF Opened
  <2>3. \A b \in Calls : \A k \in DOMAIN Blocks[b] :
           /\ pc'[b] \in Preparing \cup Planned
           /\ Blocks[b][k].name \in tracked[b]
           /\ fs[Blocks[b][k].name] = <<b, k>>
           => /\ Blocks[b][k].name \in tracked'[b]
              /\ fs'[Blocks[b][k].name] = <<b, k>>
    BY <1>1
  <2> QED
    BY <2>1, <2>2, <2>3, SpoolsFrame
<1>7. InvCommit'
  BY <1>1, <1>2, <1>3
  DEF IInv, InvCommit, InvResult, Published, Out, WritesFile, Opened, Over
<1> QED
  BY <1>4, <1>5, <1>6, <1>7 DEF IInv

\* The temporary gets its second name: the call is now the publisher.
LEMMA LinkInv ==
  ASSUME TypeOK, IInv, NEW c \in Calls, pc[c] = "link", WritesFile(c),
         CanLink(c), fs' = [fs EXCEPT ![Dest[c]] = fs[Temp[c]]],
         Goto(c, "summary"),
         UNCHANGED <<content, synced, local, guarded>>
  PROVE  IInv'
<1> DEFINE d == Dest[c]
<1>1. /\ UNCHANGED <<content, synced, blk, done, pos, tracked, stuck, stray, result>>
      /\ pc'[c] = "summary"
      /\ \A b \in Calls : b # c => pc'[b] = pc[b]
  BY DEF Goto, TypeOK, local, guarded
<1>2. d \in Names /\ fs[d] = Absent /\ fs[d] \notin Files
  BY ConstantsAssumption, FilesAssumption
  DEF ConstantsAssumption, FilesAssumption, WritesFile, CanLink
<1>3. fs[Temp[c]] = Out(c) /\ Owner(Out(c)) = c /\ Out(c) \in Files
  BY FileOfCall DEF IInv, InvCommit, Opened, Out
<1>4. fs'[d] = Out(c) /\ \A m \in Names : m # d => fs'[m] = fs[m]
  BY <1>2, <1>3 DEF TypeOK
<1>5. \A b \in Calls : \A m \in tracked[b] : m \in Names /\ m # d
  BY <1>2 DEF IInv, TrackedOwned, TypeOK
<1>6. TrackedOwned'
  BY <1>1, <1>4, <1>5 DEF IInv, TrackedOwned
<1>7. InvNames'
  BY <1>1, <1>3, <1>4 DEF IInv, InvNames, Out, Owner
<1>8. InvOutput'
  BY <1>1 DEF IInv, InvOutput, Preparing, Out
<1>9. InvSpools'
  <2>1. ASSUME NEW b \in Calls PROVE BlockAt(b)'
    BY <1>1 DEF IInv, InvSpools, BlockAt, Planned, Opened, IsSpool
  <2>2. ASSUME NEW b \in Calls, NEW k \in DOMAIN Blocks[b]
        PROVE  SpoolFaithful(b, k)'
    BY <1>1 DEF IInv, InvSpools, SpoolFaithful
  <2>3. ASSUME NEW b \in Calls, NEW k \in DOMAIN Blocks[b],
               pc'[b] \in Preparing \cup Planned, Spooled(b, k)'
        PROVE  /\ Blocks[b][k].name \in tracked'[b]
               /\ fs'[Blocks[b][k].name] = <<b, k>>
    <3>1. pc[b] \in Preparing \cup Planned /\ Spooled(b, k)
      BY <1>1, <2>3 DEF Spooled, IsSpool, Preparing, Planned, Opened
    <3>2. Blocks[b][k].name \in tracked[b] /\ fs[Blocks[b][k].name] = <<b, k>>
      BY <3>1 DEF IInv, InvSpools, SpoolHeld
    <3> QED
      BY <1>1, <1>4, <1>5, <3>2
  <2> QED
    BY <2>1, <2>2, <2>3 DEF InvSpools, SpoolHeld
<1>10. InvResult'
  BY <1>1 DEF IInv, InvResult, Over
<1>11. InvOwned'
  BY <1>1, <1>3, <1>4 DEF IInv, InvOwned
<1>12. InvCommit'
  <2>1. ASSUME NEW b \in Calls, b # c PROVE Published(b)' <=> Published(b)
    <3>1. Out(b) # Out(c) /\ Out(b) \in Files
      BY <2>1, FileOfCall DEF Out
    <3>2. WritesFile(b) => Dest[b] \in Names
      BY ConstantsAssumption DEF ConstantsAssumption, WritesFile
    <3> QED
      BY <1>2, <1>4, <3>1, <3>2 DEF Published, Out, WritesFile
  <2>2. Published(c)'
    BY <1>4 DEF Published, Out, WritesFile
  <2>3. pos[c] = Len(Plan[c]) /\ synced[c] = pos[c] /\ result[c] = "none"
    BY DEF IInv, InvOutput, InvResult, Over
  <2>4. ASSUME NEW b \in Calls, WritesFile(b), pc'[b] \in Opened
        PROVE  Temp[b] \in tracked'[b] /\ fs'[Temp[b]] = Out(b)
    BY <1>1, <1>4, <1>5, <2>4 DEF IInv, InvCommit, Opened
  <2> QED
    BY <1>1, <2>1, <2>2, <2>3, <2>4 DEF IInv, InvCommit, Over
<1> QED
  BY <1>6, <1>7, <1>8, <1>9, <1>10, <1>11, <1>12 DEF IInv

\* The summary is complete: success.
LEMMA SucceedInv ==
  ASSUME TypeOK, IInv, NEW c \in Calls, pc[c] = "summary", Return(c, "ok"),
         UNCHANGED <<disk, local, guarded>>
  PROVE  IInv'
<1>1. UNCHANGED <<fs, content, synced, blk, done, pos, tracked, stuck, stray>>
  BY DEF disk, local, guarded
<1>2. /\ \A b \in Calls : b # c => pc'[b] = pc[b] /\ result'[b] = result[b]
      /\ pc'[c] = "cleanup" /\ result'[c] = "ok"
  BY DEF Return, TypeOK
<1>3. pos[c] = Len(Plan[c]) /\ synced[c] = pos[c]
  BY DEF IInv, InvOutput
<1>4. TrackedOwned' /\ InvNames' /\ InvResult' /\ InvOwned'
  BY <1>1, <1>2
  DEF IInv, TrackedOwned, InvNames, InvResult, InvOwned, Over, Out
<1>5. InvOutput'
  BY <1>1, <1>2, <1>3 DEF IInv, InvOutput, Preparing, Out
<1>6. InvSpools'
  <2>1. ASSUME NEW b \in Calls
        PROVE  BlockAt(b)'
    BY <1>1, <1>2 DEF IInv, InvSpools, BlockAt, Planned, Opened
  <2>2. ASSUME NEW b \in Calls, NEW k \in DOMAIN Blocks[b]
        PROVE  SpoolHeld(b, k)' /\ SpoolFaithful(b, k)'
    <3>1. SpoolHeld(b, k) /\ SpoolFaithful(b, k)
      BY DEF IInv, InvSpools
    <3>2. SpoolHeld(b, k)'
      BY <1>1, <1>2, <3>1 DEF SpoolHeld, Spooled, Preparing, Planned, Opened
    <3> QED
      BY <1>1, <3>1, <3>2 DEF SpoolFaithful
  <2> QED
    BY <2>1, <2>2 DEF InvSpools
<1>7. InvCommit'
  BY <1>1, <1>2, <1>3 DEF IInv, InvCommit, Published, Out, WritesFile, Opened, Over
<1> QED
  BY <1>4, <1>5, <1>6, <1>7 DEF IInv

\* An entry that is no publication and that no running call tracks, or that a
\* call in its cleanup gives up, disappears.
LEMMA RemoveInv ==
  ASSUME TypeOK, IInv, NEW c \in Calls, NEW n \in Names,
         fs[n] \in Files, Owner(fs[n]) = c, n # Dest[c],
         pc[c] \in Over,
         fs' = [fs EXCEPT ![n] = Absent],
         \/ /\ UNCHANGED tracked /\ n \notin tracked[c]
         \/ tracked' = [tracked EXCEPT ![c] = @ \ {n}],
         UNCHANGED <<content, synced, pc, local, stuck, stray, stop, result>>
  PROVE  IInv'
<1>1. fs'[n] = Absent /\ \A m \in Names : m # n => fs'[m] = fs[m]
  BY DEF TypeOK
<1>2. /\ \A b \in Calls : tracked'[b] = tracked[b] \ {n}
      /\ UNCHANGED <<content, synced, pc, blk, done, pos, stuck, stray, result>>
  <2>1. \A b \in Calls : b # c => tracked[b] = tracked[b] \ {n}
    BY DEF IInv, TrackedOwned
  <2>2. CASE UNCHANGED tracked /\ n \notin tracked[c]
    BY <2>1, <2>2 DEF local
  <2>3. CASE tracked' = [tracked EXCEPT ![c] = @ \ {n}]
    BY <2>1, <2>3 DEF local, TypeOK
  <2> QED
    BY <2>2, <2>3
<1>3. Absent \notin Files
  BY FilesAssumption DEF FilesAssumption
<1>4. ASSUME NEW b \in Calls, NEW m \in tracked'[b]
      PROVE  m \in Names /\ m # n /\ m \in tracked[b]
  BY <1>2, <1>4 DEF TypeOK
<1>5. TrackedOwned'
  BY <1>1, <1>4 DEF IInv, TrackedOwned
<1>6. InvNames' /\ InvOwned'
  <2>1. ASSUME NEW m \in Names, fs'[m] \in Files
        PROVE  m # n /\ fs'[m] = fs[m]
    BY <1>1, <1>3, <2>1
  <2>2. ASSUME NEW b \in Calls, NEW m \in Names
        PROVE  /\ fs'[m] = Out(b) => m = Temp[b] \/ m = Dest[b]
               /\ fs'[m] \in Files /\ Owner(fs'[m]) = b =>
                    pc'[b] \notin {"idle", "check"}
    <3>1. Out(b) \in Files
      BY FileOfCall DEF Out
    <3> QED
      BY <1>2, <2>1, <3>1 DEF IInv, InvNames
  <2>3. ASSUME NEW b \in Calls, NEW m \in Names, fs'[m] \in Files, Owner(fs'[m]) = b
        PROVE  \/ m \in tracked'[b] \cup stuck'[b] \cup stray'[b]
               \/ m = Dest[b] /\ (pc'[b] = "summary" \/ result'[b] = "ok")
               \/ pc'[b] = "crashed"
    BY <1>2, <2>1, <2>3 DEF IInv, InvOwned
  <2>4. InvNames'
    BY <2>2 DEF InvNames, Out
  <2>5. InvOwned'
    BY <2>3 DEF InvOwned
  <2> QED
    BY <2>4, <2>5
<1>7. InvOutput' /\ InvResult'
  BY <1>2 DEF IInv, InvOutput, InvResult, Out
<1>8. InvSpools'
  <2>1. ASSUME NEW b \in Calls, NEW k \in DOMAIN Blocks[b],
               pc'[b] \in Preparing \cup Planned,
               Blocks[b][k].name \in tracked[b],
               fs[Blocks[b][k].name] = <<b, k>>
        PROVE  /\ Blocks[b][k].name \in tracked'[b]
               /\ fs'[Blocks[b][k].name] = <<b, k>>
    <3>1. b # c
      BY <1>2, <2>1 DEF Over, Preparing, Planned, Opened
    <3>2. Blocks[b][k].name # n /\ Blocks[b][k].name \in Names
      BY <2>1, <3>1, FileOfCall DEF TypeOK
    <3> QED
      BY <1>1, <1>2, <2>1, <3>2
  <2>2. UNCHANGED <<content, blk, done>>
    BY <1>2
  <2>3. \A b \in Calls :
         \/ pc'[b] = pc[b]
         \/ pc'[b] \in Over
         \/ pc[b] \in Opened /\ pc'[b] \in Opened
    BY <1>2
  <2> QED
    BY <2>1, <2>2, <2>3, SpoolsFrame
<1>9. InvCommit'
  <2>1. ASSUME NEW b \in Calls PROVE Published(b)' <=> Published(b)
    <3>1. WritesFile(b) => Dest[b] \in Names
      BY ConstantsAssumption DEF ConstantsAssumption, WritesFile
    <3>2. Out(b) # Absent /\ (Dest[b] = n => fs[n] # Out(b))
      BY <1>3, FileOfCall DEF Out
    <3> QED
      BY <1>1, <3>1, <3>2 DEF Published, Out, WritesFile
  <2>2. ASSUME NEW b \in Calls, WritesFile(b), pc[b] \in Opened
        PROVE  Temp[b] \in tracked'[b] /\ fs'[Temp[b]] = Out(b)
    <3>1. Temp[b] \in tracked[b] /\ fs[Temp[b]] = Out(b) /\ b # c
      BY <2>2 DEF IInv, InvCommit, Opened, Over
    <3>2. Temp[b] # n /\ Temp[b] \in Names
      BY <3>1, FileOfCall DEF Out, TypeOK
    <3> QED
      BY <1>1, <1>2, <3>1, <3>2
  <2> QED
    BY <1>2, <2>1, <2>2 DEF IInv, InvCommit
<1> QED
  BY <1>5, <1>6, <1>7, <1>8, <1>9 DEF IInv

\* The guard removes a name it tracks, or gives it up when remove fails.
LEMMA CleanupInv ==
  ASSUME TypeOK, IInv, NEW c \in Calls, Cleanup(c)
  PROVE  IInv'
<1>1. PICK n \in tracked[c] :
        /\ tracked' = [tracked EXCEPT ![c] = @ \ {n}]
        /\ \/ fs' = [fs EXCEPT ![n] = Absent] /\ UNCHANGED stuck
           \/ /\ "remove" \in Faults
              /\ stuck' = [stuck EXCEPT ![c] = @ \cup {n}]
              /\ UNCHANGED fs
  BY DEF Cleanup
<1>2. n \in Names /\ fs[n] \in Files /\ Owner(fs[n]) = c /\ n # Dest[c]
  BY DEF TypeOK, IInv, TrackedOwned
<1>3. pc[c] = "cleanup" /\ UNCHANGED <<content, synced, pc, local, stray, stop, result>>
  BY DEF Cleanup
<1>4. CASE fs' = [fs EXCEPT ![n] = Absent] /\ UNCHANGED stuck
  BY <1>1, <1>2, <1>3, <1>4, RemoveInv DEF Over
<1>5. CASE stuck' = [stuck EXCEPT ![c] = @ \cup {n}] /\ UNCHANGED fs
  <2>1. /\ \A b \in Calls : tracked'[b] \subseteq tracked[b]
        /\ \A b \in Calls : tracked[b] \cup stuck[b] \subseteq tracked'[b] \cup stuck'[b]
        /\ \A b \in Calls : b # c => tracked'[b] = tracked[b]
    BY <1>1, <1>5 DEF TypeOK
  <2>2. UNCHANGED <<fs, content, synced, pc, blk, done, pos, stray, result>>
    BY <1>3, <1>5 DEF local
  <2>3. TrackedOwned' /\ InvNames' /\ InvOutput' /\ InvResult'
    BY <2>1, <2>2 DEF IInv, TrackedOwned, InvNames, InvOutput, InvResult, Out
  <2>4. InvOwned'
    BY <2>1, <2>2 DEF IInv, InvOwned
  <2>5. InvSpools'
    <3>1. ASSUME NEW b \in Calls
          PROVE  BlockAt(b)'
      BY <2>2 DEF IInv, InvSpools, BlockAt
    <3>2. ASSUME NEW b \in Calls, NEW k \in DOMAIN Blocks[b]
          PROVE  SpoolHeld(b, k)' /\ SpoolFaithful(b, k)'
      <4>1. SpoolHeld(b, k) /\ SpoolFaithful(b, k)
        BY DEF IInv, InvSpools
      <4>2. SpoolHeld(b, k)'
        BY <1>3, <2>1, <2>2, <4>1
        DEF SpoolHeld, Spooled, Preparing, Planned, Opened
      <4> QED
        BY <2>2, <4>1, <4>2 DEF SpoolFaithful
    <3> QED
      BY <3>1, <3>2 DEF InvSpools
  <2>6. InvCommit'
    BY <1>3, <2>1, <2>2
    DEF IInv, InvCommit, Published, Out, WritesFile, Opened
  <2> QED
    BY <2>3, <2>4, <2>5, <2>6 DEF IInv
<1> QED
  BY <1>1, <1>4, <1>5

\* Nothing the invariant speaks of changes.
LEMMA SameInv ==
  ASSUME IInv,
         UNCHANGED <<fs, content, synced, pc, blk, done, pos, tracked, stuck, stray,
                     result>>
  PROVE  IInv'
<1>1. TrackedOwned' /\ InvNames' /\ InvResult' /\ InvOwned'
  BY DEF IInv, TrackedOwned, InvNames, InvResult, InvOwned, Out
<1>2. InvSpools'
  BY DEF IInv, InvSpools, BlockAt, SpoolHeld, SpoolFaithful, Spooled
<1>3. InvOutput' /\ InvCommit'
  BY DEF IInv, InvOutput, InvCommit, Published, Out
<1> QED
  BY <1>1, <1>2, <1>3 DEF IInv

\* A dying process forgets what it tracked and leaves the directory as it is.
LEMMA CrashInv ==
  ASSUME TypeOK, IInv, NEW c \in Calls, Crash(c)
  PROVE  IInv'
<1>1. /\ UNCHANGED <<fs, content, synced, blk, done, pos, stuck, stray, result>>
      /\ pc[c] \notin {"idle", "returned", "crashed"}
  BY DEF Crash, Active, disk, local
<1>2. /\ pc'[c] = "crashed" /\ tracked'[c] = {}
      /\ \A b \in Calls : b # c => pc'[b] = pc[b] /\ tracked'[b] = tracked[b]
  BY DEF Crash, TypeOK
<1>3. TrackedOwned'
  BY <1>1, <1>2 DEF IInv, TrackedOwned
<1>4. InvNames' /\ InvResult' /\ InvOwned'
  BY <1>1, <1>2 DEF IInv, InvNames, InvResult, InvOwned, Out, Over
<1>5. InvOutput'
  BY <1>1, <1>2 DEF IInv, InvOutput, Out, Preparing
<1>6. InvCommit'
  BY <1>1, <1>2 DEF IInv, InvCommit, Published, Out, Opened, Over
<1>7. InvSpools'
  <2>1. UNCHANGED <<content, blk, done>>
    BY <1>1
  <2>2. \A b \in Calls :
         \/ pc'[b] = pc[b]
         \/ pc'[b] \in Over
         \/ pc[b] \in Opened /\ pc'[b] \in Opened
    BY <1>2 DEF Over
  <2>3. ASSUME NEW b \in Calls, NEW k \in DOMAIN Blocks[b],
               pc'[b] \in Preparing \cup Planned,
               Blocks[b][k].name \in tracked[b],
               fs[Blocks[b][k].name] = <<b, k>>
        PROVE  /\ Blocks[b][k].name \in tracked'[b]
               /\ fs'[Blocks[b][k].name] = <<b, k>>
    <3>1. b # c
      BY <1>2, <2>3 DEF Preparing, Planned, Opened
    <3> QED
      BY <1>1, <1>2, <2>3, <3>1
  <2> QED
    BY <2>1, <2>2, <2>3, SpoolsFrame
<1> QED
  BY <1>3, <1>4, <1>5, <1>6, <1>7 DEF IInv

\* A file of another program takes a free destination name.
LEMMA ForeignCreateInv ==
  ASSUME TypeOK, IInv, NEW c \in Calls, ForeignCreate(c)
  PROVE  IInv'
<1> DEFINE d == Dest[c]
<1>1. UNCHANGED <<content, synced, pc, blk, done, pos, tracked, stuck, stray, result>>
  BY DEF ForeignCreate, local, guarded
<1>2. d \in Names /\ fs[d] = Absent /\ fs[d] \notin Files /\ Foreign \notin Files
  BY ConstantsAssumption, FilesAssumption
  DEF ConstantsAssumption, FilesAssumption, WritesFile, ForeignCreate
<1>3. fs'[d] = Foreign /\ \A m \in Names : m # d => fs'[m] = fs[m]
  BY <1>2 DEF ForeignCreate, TypeOK
<1>4. ASSUME NEW b \in Calls, NEW m \in tracked[b]
      PROVE  m \in Names /\ fs'[m] = fs[m]
  <2>1. m \in Names /\ fs[m] \in Files
    BY DEF IInv, TrackedOwned, TypeOK
  <2> QED
    BY <1>2, <1>3, <2>1
<1>5. \A m \in Names : fs'[m] \in Files => fs'[m] = fs[m]
  BY <1>2, <1>3
<1>6. \A b \in Calls : Out(b) \in Files
  BY FileOfCall DEF Out
<1> HIDE DEF d
<1>7. TrackedOwned'
  BY <1>1, <1>4 DEF IInv, TrackedOwned
<1>8. InvNames'
  BY <1>1, <1>5, <1>6 DEF IInv, InvNames, Out
<1>9. InvResult' /\ InvOwned'
  BY <1>1, <1>5 DEF IInv, InvResult, InvOwned
<1>10. InvOutput'
  BY <1>1 DEF IInv, InvOutput, Out
<1>11. InvCommit'
  <2>1. ASSUME NEW b \in Calls PROVE Published(b)' <=> Published(b)
    <3>1. WritesFile(b) => Dest[b] \in Names
      BY ConstantsAssumption DEF ConstantsAssumption, WritesFile
    <3>2. \A m \in Names : fs'[m] = Out(b) <=> fs[m] = Out(b)
      BY <1>2, <1>3, <1>6
    <3> QED
      BY <3>1, <3>2 DEF Published, Out, WritesFile
  <2>2. ASSUME NEW b \in Calls, WritesFile(b), pc[b] \in Opened
        PROVE  Temp[b] \in tracked'[b] /\ fs'[Temp[b]] = Out(b)
    BY <1>1, <1>4, <2>2 DEF IInv, InvCommit
  <2> QED
    BY <1>1, <2>1, <2>2 DEF IInv, InvCommit
<1>12. InvSpools'
  <2>1. UNCHANGED <<content, blk, done>>
    BY <1>1
  <2>2. \A b \in Calls :
         \/ pc'[b] = pc[b]
         \/ pc'[b] \in Over
         \/ pc[b] \in Opened /\ pc'[b] \in Opened
    BY <1>1
  <2>3. ASSUME NEW b \in Calls, NEW k \in DOMAIN Blocks[b],
               pc'[b] \in Preparing \cup Planned,
               Blocks[b][k].name \in tracked[b],
               fs[Blocks[b][k].name] = <<b, k>>
        PROVE  /\ Blocks[b][k].name \in tracked'[b]
               /\ fs'[Blocks[b][k].name] = <<b, k>>
    BY <1>1, <1>4, <2>3
  <2> QED
    BY <2>1, <2>2, <2>3, SpoolsFrame
<1> QED
  BY <1>7, <1>8, <1>9, <1>10, <1>11, <1>12 DEF IInv

\* A file that belongs to no running call is removed by a user.
LEMMA RemoveLeftoverInv ==
  ASSUME TypeOK, IInv, NEW n \in Names, RemoveLeftover(n)
  PROVE  IInv'
<1> DEFINE c == Owner(fs[n])
<1>1. fs[n] \in Files /\ c \in Calls
  BY FileHasOwner DEF RemoveLeftover
<1>2. pc[c] \in {"returned", "crashed"}
  BY <1>1 DEF RemoveLeftover, Active, IInv, InvNames
<1>3. n \notin tracked[c]
  BY <1>1, <1>2 DEF IInv, InvResult
<1>4. /\ n # Dest[c] /\ fs' = [fs EXCEPT ![n] = Absent]
      /\ UNCHANGED <<content, synced, pc, local, stuck, stray, stop, result>>
      /\ UNCHANGED tracked
  BY DEF RemoveLeftover, guarded
<1> QED
  BY <1>1, <1>2, <1>3, <1>4, RemoveInv DEF Over

\* A spool changes under a call that is not writing it: what is left of it is
\* still right, and what was copied from it stays as it was.
LEMMA TamperInv ==
  ASSUME TypeOK, IInv, NEW c \in Calls, NEW k \in DOMAIN Blocks[c],
         pc[c] = "compress" => k # blk[c],
         \A g \in Files : g # <<c, k>> => content'[g] = content[g],
         \A j \in 1 .. Len(content'[<<c, k>>]) : j <= Blocks[c][k].units =>
           content'[<<c, k>>][j] = <<c, [block |-> k, at |-> j]>>,
         UNCHANGED <<fs, synced, local, guarded, pc, stop, result>>
  PROVE  IInv'
<1>1. UNCHANGED <<fs, synced, pc, blk, done, pos, tracked, stuck, stray, result>>
  BY DEF local, guarded
<1>2. k # 0
  BY ConstantsAssumption DEF ConstantsAssumption
<1>3. ASSUME NEW b \in Calls PROVE content'[Out(b)] = content[Out(b)]
  BY <1>2, FileOfCall DEF Out
<1>4. TrackedOwned' /\ InvNames' /\ InvResult' /\ InvOwned'
  BY <1>1 DEF IInv, TrackedOwned, InvNames, InvResult, InvOwned, Out
<1>5. InvOutput'
  BY <1>1, <1>3 DEF IInv, InvOutput
<1>6. InvCommit'
  BY <1>1 DEF IInv, InvCommit, Published, Out
<1>7. InvSpools'
  <2>1. ASSUME NEW b \in Calls PROVE BlockAt(b)'
    <3>1. CASE pc[b] = "compress"
      <4>1. blk[b] \in DOMAIN Blocks[b] /\ (b = c => blk[b] # k)
        BY <3>1 DEF IInv, InvSpools, BlockAt, IsSpool
      <4>2. <<b, blk[b]>> \in Files /\ <<b, blk[b]>> # <<c, k>>
        BY <4>1, FileOfCall
      <4> QED
        BY <1>1, <3>1, <4>2 DEF IInv, InvSpools, BlockAt, Planned, Opened
    <3>2. CASE pc[b] # "compress"
      BY <1>1, <3>2 DEF IInv, InvSpools, BlockAt
    <3> QED
      BY <3>1, <3>2
  <2>2. ASSUME NEW b \in Calls, NEW i \in DOMAIN Blocks[b]
        PROVE  SpoolFaithful(b, i)'
    <3>1. CASE b = c /\ i = k
      BY <3>1 DEF SpoolFaithful
    <3>2. CASE ~(b = c /\ i = k)
      <4>1. content'[<<b, i>>] = content[<<b, i>>]
        BY <3>2, FileOfCall
      <4> QED
        BY <4>1 DEF IInv, InvSpools, SpoolFaithful
    <3> QED
      BY <3>1, <3>2
  <2>3. ASSUME NEW b \in Calls, NEW i \in DOMAIN Blocks[b]
        PROVE  SpoolHeld(b, i)'
    BY <1>1 DEF IInv, InvSpools, SpoolHeld, Spooled
  <2> QED
    BY <2>1, <2>2, <2>3 DEF InvSpools
<1> QED
  BY <1>4, <1>5, <1>6, <1>7 DEF IInv

\* Shortening a closed spool leaves a prefix of what the call spooled.
LEMMA TruncateInv ==
  ASSUME TypeOK, IInv, NEW c \in Calls, NEW k \in DOMAIN Blocks[c],
         TruncateSpool(c, k)
  PROVE  IInv'
<1> DEFINE f == <<c, k>>
<1>1. f \in Files /\ content[f] \in Seq(Calls \X Unit)
  BY FileOfCall DEF TypeOK
<1>2. content[f] # << >> /\ content'[f] = SubSeq(content[f], 1, Len(content[f]) - 1)
  BY <1>1 DEF TruncateSpool, TypeOK
<1>3. Len(content[f]) \in Nat /\ Len(content[f]) > 0
  BY <1>1, <1>2
<1>4. /\ Len(content'[f]) = Len(content[f]) - 1
      /\ \A j \in 1 .. Len(content'[f]) : content'[f][j] = content[f][j]
  BY <1>1, <1>2, <1>3
<1>5. \A g \in Files : g # f => content'[g] = content[g]
  BY DEF TruncateSpool, TypeOK
<1>6. \A j \in 1 .. Len(content'[f]) : j <= Blocks[c][k].units =>
        content'[f][j] = <<c, [block |-> k, at |-> j]>>
  <2>1. SpoolFaithful(c, k)
    BY DEF IInv, InvSpools
  <2>2. \A j \in 1 .. Len(content'[f]) : j \in 1 .. Len(content[f])
    BY <1>3, <1>4
  <2> QED
    BY <1>4, <2>1, <2>2 DEF SpoolFaithful
<1>7. /\ pc[c] = "compress" => k # blk[c]
      /\ UNCHANGED <<fs, synced, local, guarded, pc, stop, result>>
  BY DEF TruncateSpool, Tamperable, TypeOK
<1> QED
  BY <1>5, <1>6, <1>7, TamperInv

\* Lengthening a closed spool adds a unit behind those the call spooled.
LEMMA ExtendInv ==
  ASSUME TypeOK, IInv, NEW c \in Calls, NEW k \in DOMAIN Blocks[c],
         ExtendSpool(c, k)
  PROVE  IInv'
<1> DEFINE f == <<c, k>>
<1>1. f \in Files /\ <<c, Junk>> \in Calls \X Unit /\ AppendTo(f, <<c, Junk>>)
  BY FileOfCall DEF ExtendSpool, Junk, Unit
<1>2. /\ Len(content'[f]) = Len(content[f]) + 1
      /\ Len(content[f]) \in Nat
      /\ \A j \in 1 .. Len(content[f]) : content'[f][j] = content[f][j]
      /\ \A g \in Files : g # f => content'[g] = content[g]
  BY <1>1, AppendFacts
<1>3. Len(content[f]) = Blocks[c][k].units
  BY DEF ExtendSpool, Tamperable
<1>4. \A j \in 1 .. Len(content'[f]) : j <= Blocks[c][k].units =>
        content'[f][j] = <<c, [block |-> k, at |-> j]>>
  <2>1. SpoolFaithful(c, k)
    BY DEF IInv, InvSpools
  <2>2. \A j \in 1 .. Len(content'[f]) : j <= Blocks[c][k].units =>
          j \in 1 .. Len(content[f])
    BY <1>2, <1>3
  <2> QED
    BY <1>2, <2>1, <2>2 DEF SpoolFaithful
<1>5. /\ pc[c] = "compress" => k # blk[c]
      /\ UNCHANGED <<fs, synced, local, guarded, pc, stop, result>>
  BY DEF ExtendSpool, Tamperable, TypeOK
<1> QED
  BY <1>2, <1>4, <1>5, TamperInv

\* No step of the environment breaks the invariant.
LEMMA EnvironmentInv ==
  ASSUME TypeOK, IInv, Environment
  PROVE  IInv'
<1>1. ASSUME NEW c \in Calls, RequestStop(c)
      PROVE  IInv'
  BY <1>1, SameInv DEF RequestStop, disk, local, guarded
<1> QED
  BY <1>1, CrashInv, ForeignCreateInv, TruncateInv, ExtendInv, RemoveLeftoverInv
  DEF Environment

\* Preparing a block that stays in memory.
LEMMA PrepareInMemoryInv ==
  ASSUME TypeOK, IInv, NEW c \in Calls, PrepareInMemory(c)
  PROVE  IInv'
<1>1. CASE \E e \in Errors : Fail(c, e)
  BY <1>1, FailInv DEF PrepareInMemory, Over
<1>2. CASE NextBlock(c)
  <2>1. ~IsSpool(c, blk[c])
    BY DEF PrepareInMemory, Block, IsSpool
  <2> QED
    BY <1>2, <2>1, NextBlockInv DEF PrepareInMemory
<1> QED
  BY <1>1, <1>2 DEF PrepareInMemory, CannotPrepare, Cancelled, Faulty, Errors

\* Opening a spool.
LEMMA OpenSpoolInv ==
  ASSUME TypeOK, IInv, NEW c \in Calls, OpenSpool(c)
  PROVE  IInv'
<1> DEFINE n == Block(c).name
           f == <<c, blk[c]>>
<1>1. CASE \E e \in Errors : Fail(c, e)
  BY <1>1, FailInv DEF OpenSpool, Over
<1>2. CASE ~\E e \in Errors : Fail(c, e)
  <2>1. HasBlock(c) /\ pc[c] = "prepare"
    BY DEF OpenSpool
  <2>2. IsSpool(c, blk[c]) /\ n = Blocks[c][blk[c]].name
    BY DEF OpenSpool, Block, HasBlock, IsSpool
  <2>3. /\ n # NoName
        /\ \/ CreateThenNoMemory(c, n, f)
           \/ /\ CreateTracked(c, n, f)
              /\ done' = [done EXCEPT ![c] = 0]
              /\ Goto(c, "compress")
              /\ UNCHANGED <<blk, pos>>
    BY <1>2 DEF OpenSpool, NameTaken, Faulty, Errors
  <2>4. n \in Names /\ f \in Files
    BY <2>1, <2>3, BlockFacts
  <2>5. n # Dest[c]
    BY <2>2, <2>3, ConstantsAssumption DEF ConstantsAssumption, IsSpool
  <2> HIDE DEF n, f
  <2>6. CASE CreateThenNoMemory(c, n, f)
    BY <2>1, <2>2, <2>4, <2>5, <2>6, CreateThenNoMemoryInv DEF f
  <2>7. CASE /\ CreateTracked(c, n, f)
             /\ done' = [done EXCEPT ![c] = 0]
             /\ Goto(c, "compress")
             /\ UNCHANGED <<blk, pos>>
    BY <2>1, <2>2, <2>4, <2>5, <2>7, CreateTrackedInv DEF f
  <2> QED
    BY <2>3, <2>6, <2>7
<1> QED
  BY <1>1, <1>2

\* Opening the temporary.
LEMMA OpenTemporaryInv ==
  ASSUME TypeOK, IInv, NEW c \in Calls, OpenTemporary(c)
  PROVE  IInv'
<1> DEFINE n == Temp[c]
           f == Out(c)
<1>1. CASE \E e \in Errors : Fail(c, e)
  BY <1>1, FailInv DEF OpenTemporary, Over
<1>2. CASE ~\E e \in Errors : Fail(c, e)
  <2>1. pc[c] = "open" /\ WritesFile(c)
    BY DEF OpenTemporary
  <2>2. \/ CreateThenNoMemory(c, n, f)
        \/ CreateTracked(c, n, f) /\ Goto(c, "write") /\ UNCHANGED local
    BY <1>2 DEF OpenTemporary, NameTaken, Faulty, Errors
  <2>3. n \in Names /\ n # Dest[c] /\ f \in Files /\ Owner(f) = c
    BY <2>1, ConstantsAssumption, FileOfCall
    DEF WritesFile, ConstantsAssumption, Out
  <2>4. CASE CreateThenNoMemory(c, n, f)
    BY <2>1, <2>3, <2>4, CreateThenNoMemoryInv
  <2>5. CASE CreateTracked(c, n, f) /\ Goto(c, "write") /\ UNCHANGED local
    <3>1. UNCHANGED <<blk, done, pos>>
      BY <2>5 DEF local
    <3> QED
      BY <2>1, <2>3, <2>5, <3>1, CreateTrackedInv
  <2> QED
    BY <2>2, <2>4, <2>5
<1> QED
  BY <1>1, <1>2

\* Compressing one unit into the spool.
LEMMA SpoolUnitStepInv ==
  ASSUME TypeOK, IInv, NEW c \in Calls, SpoolUnit(c)
  PROVE  IInv'
<1>1. CASE \E e \in Errors : Fail(c, e)
  BY <1>1, FailInv DEF SpoolUnit, Over
<1>2. CASE ~\E e \in Errors : Fail(c, e)
  BY <1>2, SpoolUnitInv DEF SpoolUnit, AddUnit, CannotPrepare, Cancelled, Faulty, Errors
<1> QED
  BY <1>1, <1>2

\* What is copied from a spool is the unit the plan has there, whatever
\* happened to the length of the spool in between.
LEMMA CopiedUnit ==
  ASSUME TypeOK, IInv, NEW c \in Calls, pc[c] = "write", MoreUnits(c),
         NextUnit(c).block # 0,
         NextUnit(c).at <= Len(SpoolContent(c, NextUnit(c).block))
  PROVE  SpoolContent(c, NextUnit(c).block)[NextUnit(c).at] = <<c, NextUnit(c)>>
<1> DEFINE u == NextUnit(c)
           k == u.block
           spool == SpoolContent(c, k)
<1>1. u \in Unit /\ pos[c] + 1 \in DOMAIN Plan[c] /\ u = Plan[c][pos[c] + 1]
  BY UnitFacts DEF NextUnit
<1>2. IsSpool(c, k) /\ u.at \in 1 .. Blocks[c][k].units
  BY <1>1, ConstantsAssumption DEF ConstantsAssumption
<1>3. k \in DOMAIN Blocks[c] /\ k \in Nat
  BY <1>1, <1>2 DEF IsSpool, Unit
<1>4. Spooled(c, k)
  <2>1. blk[c] > Len(Blocks[c]) /\ blk[c] \in Nat
    BY DEF IInv, InvSpools, BlockAt, Planned, Opened, TypeOK
  <2>2. k <= Len(Blocks[c]) /\ Len(Blocks[c]) \in Nat
    BY <1>3, ConstantsAssumption DEF ConstantsAssumption
  <2> QED
    BY <1>2, <1>3, <2>1, <2>2 DEF Spooled
<1>5. fs[Blocks[c][k].name] = <<c, k>>
  BY <1>3, <1>4 DEF IInv, InvSpools, SpoolHeld, Planned, Opened
<1>6. spool = content[<<c, k>>]
  BY <1>3, <1>5, FileOfCall DEF SpoolContent
<1>7. spool \in Seq(Calls \X Unit)
  BY SpoolContentType
<1>8. u.at \in 1 .. Len(spool) /\ u.at <= Blocks[c][k].units
  <2>1. Blocks[c][k].units \in Nat
    <3>1. Blocks[c] \in Seq(BlockSpec)
      BY ConstantsAssumption DEF ConstantsAssumption
    <3>2. Blocks[c][k] \in BlockSpec
      BY <1>3, <3>1
    <3> QED
      BY <3>2 DEF BlockSpec
  <2>2. u.at \in Nat /\ 1 <= u.at /\ u.at <= Blocks[c][k].units
    BY <1>2, <2>1
  <2>3. u.at <= Len(spool) /\ Len(spool) \in Nat
    BY <1>7
  <2> HIDE DEF u, spool, k
  <2> QED
    BY <2>2, <2>3
<1>9. spool[u.at] = <<c, [block |-> k, at |-> u.at]>>
  <2>1. SpoolFaithful(c, k)
    BY <1>3 DEF IInv, InvSpools
  <2> QED
    BY <1>6, <1>8, <2>1 DEF SpoolFaithful
<1>10. u = [block |-> k, at |-> u.at]
  BY <1>1 DEF Unit
<1> QED
  BY <1>9, <1>10

\* Writing a unit from memory.
LEMMA WriteFromMemoryInv ==
  ASSUME TypeOK, IInv, NEW c \in Calls, WriteFromMemory(c)
  PROVE  IInv'
<1>1. CASE \E e \in Errors : Fail(c, e)
  BY <1>1, FailInv DEF WriteFromMemory, Over
<1>2. CASE ~\E e \in Errors : Fail(c, e)
  BY <1>2, WriteUnitInv DEF WriteFromMemory, Cancelled, Faulty, Errors
<1> QED
  BY <1>1, <1>2

\* Copying a unit of a spool.
LEMMA WriteFromSpoolInv ==
  ASSUME TypeOK, IInv, NEW c \in Calls, WriteFromSpool(c)
  PROVE  IInv'
<1> DEFINE k == NextUnit(c).block
           at == NextUnit(c).at
           spool == SpoolContent(c, k)
<1>1. CASE \E e \in Errors : Fail(c, e)
  BY <1>1, FailInv DEF WriteFromSpool, Over
<1>2. CASE ~\E e \in Errors : Fail(c, e)
  <2>1. pc[c] = "write" /\ MoreUnits(c) /\ k # 0
    BY DEF WriteFromSpool
  <2>2. /\ at <= Len(spool)
        /\ WriteUnit(c, spool[at])
        /\ Return(c, "io_error") \/ Goto(c, "write")
    BY <1>2 DEF WriteFromSpool, Cancelled, Faulty, Errors
  <2>3. spool[at] = <<c, NextUnit(c)>>
    BY <2>1, <2>2, CopiedUnit
  <2> QED
    BY <2>1, <2>2, <2>3, WriteUnitInv
<1> QED
  BY <1>1, <1>2

\* The steps that move a call on, or end it, and leave the files alone.
LEMMA QuietStepInv ==
  ASSUME TypeOK, IInv, NEW c \in Calls,
         \/ Begin(c) \/ CheckDestination(c) \/ PlanLayout(c) \/ Close(c)
         \/ SealSpool(c) /\ ~NextBlock(c)
         \/ FinalCheck(c) \/ LeaveCall(c)
  PROVE  IInv'
<1>1. CASE \E e \in Errors : Fail(c, e) /\ pc[c] \notin Over \cup {"summary"}
  BY <1>1, FailInv
<1>2. CASE \E step \in Steps :
             /\ Goto(c, step) /\ UNCHANGED <<disk, local, guarded>>
             /\ Onward(pc[c], step)
             /\ pc[c] = "prepare" => ~HasBlock(c)
             /\ step \in {"write", "summary"} => ~WritesFile(c)
             /\ step = "returned" => tracked[c] = {}
  BY <1>2, QuietInv
<1>3. CASE Begin(c)
  BY <1>1, <1>2, <1>3 DEF Begin, Cancelled, Faulty, Errors, Over, Onward, Steps
<1>4. CASE CheckDestination(c)
  BY <1>1, <1>2, <1>4 DEF CheckDestination, Faulty, Errors, Over, Onward, Steps
<1>5. CASE SealSpool(c) /\ ~NextBlock(c)
  BY <1>1, <1>2, <1>5 DEF SealSpool, Faulty, Errors, Over, Onward, Steps
<1>6. CASE PlanLayout(c)
  BY <1>1, <1>2, <1>6 DEF PlanLayout, Faulty, Errors, Over, Onward, Steps
<1>7. CASE Close(c)
  BY <1>1, <1>2, <1>7 DEF Close, Faulty, Errors, Over, Onward, Steps
<1>8. CASE FinalCheck(c)
  BY <1>1, <1>2, <1>8 DEF FinalCheck, Cancelled, Errors, Over, Onward, Steps
<1>9. CASE LeaveCall(c)
  BY <1>2, <1>9 DEF LeaveCall, Onward, Steps
<1> QED
  BY <1>3, <1>4, <1>5, <1>6, <1>7, <1>8, <1>9

\* No step of a call breaks the invariant.
LEMMA CallInv ==
  ASSUME TypeOK, IInv, NEW c \in Calls, CallStep(c)
  PROVE  IInv'
<1>1. CASE \/ Begin(c) \/ CheckDestination(c) \/ PlanLayout(c) \/ Close(c)
           \/ SealSpool(c) /\ ~NextBlock(c)
           \/ FinalCheck(c) \/ LeaveCall(c)
  BY <1>1, QuietStepInv
<1>14. CASE SealSpool(c) /\ NextBlock(c)
  BY <1>14, NextBlockInv DEF SealSpool
<1>2. CASE PrepareInMemory(c)
  BY <1>2, PrepareInMemoryInv
<1>3. CASE OpenSpool(c)
  BY <1>3, OpenSpoolInv
<1>4. CASE SpoolUnit(c)
  BY <1>4, SpoolUnitStepInv
<1>5. CASE ChecksumSpool(c)
  <2>1. CASE \E e \in Errors : Fail(c, e)
    BY <1>5, <2>1, FailInv DEF ChecksumSpool, Over
  <2>2. CASE NextBlock(c)
    BY <1>5, <2>2, NextBlockInv DEF ChecksumSpool
  <2> QED
    BY <1>5, <2>1, <2>2 DEF ChecksumSpool, Faulty, Cancelled, Errors
<1>6. CASE OpenTemporary(c)
  BY <1>6, OpenTemporaryInv
<1>7. CASE WriteFromMemory(c)
  BY <1>7, WriteFromMemoryInv
<1>8. CASE WriteFromSpool(c)
  BY <1>8, WriteFromSpoolInv
<1>9. CASE Flush(c)
  <2>1. CASE \E e \in Errors : Fail(c, e)
    BY <1>9, <2>1, FailInv DEF Flush, Over
  <2>2. CASE ~\E e \in Errors : Fail(c, e)
    BY <1>9, <2>2, FlushInv DEF Flush, Faulty, Errors
  <2> QED
    BY <2>1, <2>2
<1>10. CASE Link(c)
  <2>1. CASE \E e \in Errors : Fail(c, e)
    BY <1>10, <2>1, FailInv DEF Link, Over
  <2>2. CASE ~\E e \in Errors : Fail(c, e)
    BY <1>10, <2>2, LinkInv DEF Link, Faulty, Errors
  <2> QED
    BY <2>1, <2>2
<1>11. CASE Summarize(c)
  <2>1. CASE SummaryNoMemory(c)
    BY <1>11, <2>1, GiveUpInv DEF Summarize, SummaryNoMemory, Over, Errors
  <2>2. CASE Return(c, "ok") /\ UNCHANGED <<disk, local, guarded>>
    BY <1>11, <2>2, SucceedInv DEF Summarize
  <2> QED
    BY <1>11, <2>1, <2>2 DEF Summarize
<1>12. CASE Cleanup(c)
  BY <1>12, CleanupInv
<1>13. CASE OutOfMemory(c)
  BY <1>13, FailInv DEF OutOfMemory, Faulty, Over, Errors
<1> QED
  BY <1>1, <1>2, <1>3, <1>4, <1>5, <1>6, <1>7, <1>8, <1>9, <1>10, <1>11,
     <1>12, <1>13, <1>14 DEF CallStep

\* Every step keeps the invariant.
LEMMA InvNext == TypeOK /\ IInv /\ [Next]_vars => IInv'
<1>1. ASSUME TypeOK, IInv, UNCHANGED vars
      PROVE  IInv'
  BY <1>1, SameInv DEF vars
<1> QED
  BY <1>1, CallInv, EnvironmentInv DEF Next

\* The inductive invariant: who owns each name, what each spool and each
\* output holds, and how far each call has come, in every reachable state.
THEOREM Inductive == Spec => []IInv
BY TypeCorrect, InvInit, InvNext, PTL DEF Spec

-----------------------------------------------------------------------------
(* What follows from it. *)

\* Every output is a prefix of its plan, and complete on success: no spool
\* that was shortened or lengthened between its checksum and its copy puts a
\* wrong byte in the file (prepare_block, write_file_contents, write_all).
THEOREM OutputIsFaithful == Spec => []OutputFaithful
<1>1. TypeOK /\ IInv => OutputFaithful
  <2> SUFFICES ASSUME TypeOK, IInv, NEW c \in Calls
               PROVE  /\ Len(content[Out(c)]) <= Len(Plan[c])
                      /\ \A i \in 1 .. Len(content[Out(c)]) :
                           content[Out(c)][i] = <<c, Plan[c][i]>>
                      /\ result[c] = "ok" => Len(content[Out(c)]) = Len(Plan[c])
    BY DEF OutputFaithful
  <2> QED
    BY DEF IInv, InvOutput
<1> QED
  BY <1>1, TypeCorrect, Inductive, PTL

\* A file that can be seen under its destination is complete, and all of it
\* was flushed before its name appeared (flush, close, create_hard_link).
THEOREM PublicationsAreComplete == Spec => []PublishedComplete
<1>1. IInv => PublishedComplete
  <2> SUFFICES ASSUME IInv, NEW c \in Calls, Published(c)
               PROVE  /\ Len(content[Out(c)]) = Len(Plan[c])
                      /\ synced[c] = Len(Plan[c])
                      /\ \A i \in 1 .. Len(Plan[c]) :
                           content[Out(c)][i] = <<c, Plan[c][i]>>
    BY DEF PublishedComplete
  <2>1. pos[c] = Len(Plan[c]) /\ synced[c] = pos[c]
    BY DEF IInv, InvCommit
  <2> QED
    BY <2>1 DEF IInv, InvOutput
<1> QED
  BY <1>1, Inductive, PTL

\* A name the guard will remove stands for a file of the very call.
THEOREM CleanupIsSafe == Spec => []TrackedOwned
<1>1. IInv => TrackedOwned
  BY DEF IInv
<1> QED
  BY <1>1, Inductive, PTL

\* A call that has returned left nothing behind but what it published, whether it
\* succeeded, was cancelled, exceeded a budget or failed: but for the names that
\* could not be removed, and that of a file after whose creation or link memory
\* ran out at once (~TemporaryFilesCleanup, on every return of write_impl).
THEOREM ReturnsAreClean == Spec => []CleanReturn
<1>1. IInv => CleanReturn
  <2> SUFFICES ASSUME IInv, NEW c \in Calls, pc[c] = "returned",
                      NEW n \in Names \ (stuck[c] \cup stray[c]),
                      fs[n] \in Files, Owner(fs[n]) = c
               PROVE  n = Dest[c] /\ result[c] = "ok"
    BY DEF CleanReturn
  <2>1. tracked[c] = {}
    BY DEF IInv, InvResult
  <2> QED
    BY <2>1 DEF IInv, InvOwned
<1> QED
  BY <1>1, Inductive, PTL

\* Success means that the file is under the destination, and stays there.
THEOREM SuccessPublishes == Spec => []SuccessIsPublication
<1>1. IInv => SuccessIsPublication
  BY DEF IInv, InvCommit, SuccessIsPublication
<1> QED
  BY <1>1, Inductive, PTL

\* Only four steps of a call touch the directory.
LEMMA CallKeepsDirectory ==
  ASSUME NEW c \in Calls, CallStep(c),
         ~OpenSpool(c), ~OpenTemporary(c), ~Link(c), ~Cleanup(c)
  PROVE  UNCHANGED fs
BY DEF CallStep, Begin, CheckDestination, PrepareInMemory, SpoolUnit, SealSpool,
       ChecksumSpool, PlanLayout, WriteFromMemory, WriteFromSpool, WriteUnit,
       Flush, Close, FinalCheck, Summarize, OutOfMemory, LeaveCall, NextBlock,
       CannotPrepare, AddUnit, SummaryNoMemory, Cancelled, Faulty, Fail, disk

\* The steps that change the directory, and what they change.
LEMMA DirectorySteps ==
  ASSUME TypeOK, IInv, [Next]_vars
  PROVE  \/ UNCHANGED fs
         \/ \E n \in Names : \E v : fs[n] = Absent /\ fs' = [fs EXCEPT ![n] = v]
         \/ \E n \in Names :
              /\ fs' = [fs EXCEPT ![n] = Absent]
              /\ fs[n] \in Files
              /\ n # Dest[Owner(fs[n])]
              /\ n \in tracked[Owner(fs[n])] \/ ~Active(Owner(fs[n]))
<1> DEFINE Goal == \/ UNCHANGED fs
                   \/ \E n \in Names : \E v : fs[n] = Absent /\ fs' = [fs EXCEPT ![n] = v]
                   \/ \E n \in Names :
                        /\ fs' = [fs EXCEPT ![n] = Absent]
                        /\ fs[n] \in Files
                        /\ n # Dest[Owner(fs[n])]
                        /\ n \in tracked[Owner(fs[n])] \/ ~Active(Owner(fs[n]))
<1>1. ASSUME NEW c \in Calls, OpenSpool(c) PROVE Goal
  <2>1. CASE UNCHANGED fs
    BY <2>1
  <2>2. CASE Block(c).name # NoName /\ CanCreate(Block(c).name)
    <3>1. Block(c).name \in Names
      BY <1>1, <2>2, BlockFacts DEF OpenSpool
    <3> QED
      BY <1>1, <2>1, <2>2, <3>1
      DEF OpenSpool, NameTaken, Faulty, Fail, disk, CreateThenNoMemory,
          CreateTracked, CanCreate
  <2> QED
    BY <1>1, <2>1, <2>2
    DEF OpenSpool, NameTaken, Faulty, Fail, disk, CreateThenNoMemory, CreateTracked
<1>2. ASSUME NEW c \in Calls, OpenTemporary(c) PROVE Goal
  <2>1. Temp[c] \in Names
    BY <1>2, ConstantsAssumption DEF OpenTemporary, WritesFile, ConstantsAssumption
  <2> QED
    BY <1>2, <2>1
    DEF OpenTemporary, NameTaken, Faulty, Fail, disk, CreateThenNoMemory,
        CreateTracked, CanCreate
<1>3. ASSUME NEW c \in Calls, Link(c) PROVE Goal
  <2>1. Dest[c] \in Names
    BY <1>3, ConstantsAssumption DEF Link, WritesFile, ConstantsAssumption
  <2> QED
    BY <1>3, <2>1 DEF Link, Faulty, Fail, disk, CanLink
<1>4. ASSUME NEW c \in Calls, Cleanup(c) PROVE Goal
  <2>1. PICK n \in tracked[c] : fs' = [fs EXCEPT ![n] = Absent] \/ UNCHANGED fs
    BY <1>4 DEF Cleanup
  <2>2. n \in Names /\ fs[n] \in Files /\ Owner(fs[n]) = c /\ n # Dest[c]
    BY DEF TypeOK, IInv, TrackedOwned
  <2> QED
    BY <2>1, <2>2
<1>5. ASSUME NEW c \in Calls, CallStep(c),
             ~OpenSpool(c), ~OpenTemporary(c), ~Link(c), ~Cleanup(c)
      PROVE  UNCHANGED fs
  BY <1>5, CallKeepsDirectory
<1>6. ASSUME NEW c \in Calls, ForeignCreate(c) PROVE Goal
  <2>1. Dest[c] \in Names
    BY <1>6, ConstantsAssumption DEF ForeignCreate, WritesFile, ConstantsAssumption
  <2> QED
    BY <1>6, <2>1 DEF ForeignCreate
<1>7. ASSUME NEW n \in Names, RemoveLeftover(n) PROVE Goal
  BY <1>7 DEF RemoveLeftover
<1>8. ASSUME NEW c \in Calls,
             \/ RequestStop(c) \/ Crash(c)
             \/ \E k \in DOMAIN Blocks[c] : TruncateSpool(c, k) \/ ExtendSpool(c, k)
      PROVE  UNCHANGED fs
  BY <1>8 DEF RequestStop, Crash, TruncateSpool, ExtendSpool, disk
<1>9. UNCHANGED vars => UNCHANGED fs
  BY DEF vars
<1> QED
  BY <1>1, <1>2, <1>3, <1>4, <1>5, <1>6, <1>7, <1>8, <1>9 DEF Next, Environment

\* A publication is never undone or replaced, and no file of another program
\* or of another running call is ever removed (O_EXCL, create_hard_link and
\* ~TemporaryFilesCleanup together).
THEOREM NothingIsLost == Spec => NoForeignLoss
<1>1. TypeOK /\ IInv /\ [Next]_vars =>
        [\A n \in Names : fs[n] # Absent /\ fs'[n] # fs[n] =>
           /\ fs'[n] = Absent
           /\ fs[n] \in Files
           /\ n # Dest[Owner(fs[n])]
           /\ n \in tracked[Owner(fs[n])] \/ ~Active(Owner(fs[n]))]_vars
  BY DirectorySteps DEF TypeOK
<1> QED
  BY <1>1, TypeCorrect, Inductive, PTL DEF Spec, NoForeignLoss

-----------------------------------------------------------------------------
(* A stop is honoured.                                                        *)

\* Only its own link publishes the output of a call.
LEMMA OnlyLinkPublishes ==
  ASSUME TypeOK, IInv, [Next]_vars, NEW c \in Calls, pc[c] # "link", ~Published(c)
  PROVE  ~Published(c)'
<1> SUFFICES ASSUME WritesFile(c), fs[Dest[c]] # Out(c), fs'[Dest[c]] = Out(c)
             PROVE  FALSE
  BY DEF Published, WritesFile, Out
<1> DEFINE d == Dest[c]
<1>1. d \in Names /\ Out(c) \in Files /\ Owner(Out(c)) = c /\ Absent # Out(c)
      /\ Foreign # Out(c)
  BY ConstantsAssumption, FilesAssumption, FileOfCall
  DEF ConstantsAssumption, FilesAssumption, WritesFile, Out
<1>2. ASSUME UNCHANGED fs PROVE FALSE
  BY <1>2
<1>3. ASSUME NEW n \in Names, NEW v, fs' = [fs EXCEPT ![n] = v], v # Out(c)
      PROVE  FALSE
  BY <1>1, <1>3 DEF TypeOK
<1>4. ASSUME NEW b \in Calls, OpenSpool(b) PROVE FALSE
  <2>1. \/ UNCHANGED fs
        \/ /\ Block(b).name # NoName /\ CanCreate(Block(b).name)
           /\ fs' = [fs EXCEPT ![Block(b).name] = <<b, blk[b]>>]
    BY <1>4 DEF OpenSpool, NameTaken, Faulty, Fail, disk, CreateThenNoMemory,
                CreateTracked
  <2>2. HasBlock(b)
    BY <1>4 DEF OpenSpool
  <2>3. Block(b).name \in Names \cup {NoName} /\ <<b, blk[b]>> # Out(c)
    BY <2>2, BlockFacts DEF Out, TypeOK
  <2> QED
    BY <1>2, <1>3, <2>1, <2>3
<1>5. ASSUME NEW b \in Calls, OpenTemporary(b) PROVE FALSE
  <2>1. \/ UNCHANGED fs
        \/ CanCreate(Temp[b]) /\ fs' = [fs EXCEPT ![Temp[b]] = Out(b)]
    BY <1>5 DEF OpenTemporary, NameTaken, Faulty, Fail, disk, CreateThenNoMemory,
                CreateTracked
  <2>2. Temp[b] \in Names /\ Temp[b] # Dest[b]
    BY <1>5, ConstantsAssumption DEF OpenTemporary, WritesFile, ConstantsAssumption
  <2>3. CASE b = c
    BY <1>1, <2>1, <2>2, <2>3 DEF TypeOK
  <2>4. CASE b # c
    BY <1>2, <1>3, <2>1, <2>2, <2>4 DEF Out
  <2> QED
    BY <2>3, <2>4
<1>6. ASSUME NEW b \in Calls, Link(b) PROVE FALSE
  <2>1. \/ UNCHANGED fs
        \/ fs' = [fs EXCEPT ![Dest[b]] = fs[Temp[b]]]
    BY <1>6 DEF Link, Faulty, Fail, disk
  <2>2. b # c /\ Dest[b] \in Names /\ fs[Temp[b]] = Out(b)
    BY <1>6, ConstantsAssumption
    DEF Link, WritesFile, ConstantsAssumption, IInv, InvCommit, Opened
  <2> QED
    BY <1>2, <1>3, <2>1, <2>2 DEF Out
<1>7. ASSUME NEW b \in Calls, Cleanup(b) PROVE FALSE
  <2>1. PICK n \in tracked[b] : fs' = [fs EXCEPT ![n] = Absent] \/ UNCHANGED fs
    BY <1>7 DEF Cleanup
  <2> QED
    BY <1>1, <1>2, <1>3, <2>1 DEF TypeOK
<1>8. ASSUME NEW b \in Calls, CallStep(b),
             ~OpenSpool(b), ~OpenTemporary(b), ~Link(b), ~Cleanup(b)
      PROVE  FALSE
  BY <1>2, <1>8, CallKeepsDirectory
<1>9. ASSUME NEW b \in Calls, ForeignCreate(b) PROVE FALSE
  <2>1. Dest[b] \in Names
    BY <1>9, ConstantsAssumption DEF ForeignCreate, WritesFile, ConstantsAssumption
  <2> QED
    BY <1>1, <1>3, <1>9, <2>1 DEF ForeignCreate
<1>10. ASSUME NEW n \in Names, RemoveLeftover(n) PROVE FALSE
  BY <1>1, <1>3, <1>10 DEF RemoveLeftover
<1>11. ASSUME \E b \in Calls :
               \/ RequestStop(b) \/ Crash(b)
               \/ \E k \in DOMAIN Blocks[b] : TruncateSpool(b, k) \/ ExtendSpool(b, k)
       PROVE  FALSE
  BY <1>2, <1>11 DEF RequestStop, Crash, TruncateSpool, ExtendSpool, disk
<1>12. ASSUME UNCHANGED vars PROVE FALSE
  BY <1>2, <1>12 DEF vars
<1> QED
  BY <1>4, <1>5, <1>6, <1>7, <1>8, <1>9, <1>10, <1>11, <1>12 DEF Next, Environment

\* What a step of a call makes of the other calls.
LEMMA OthersKeep ==
  ASSUME TypeOK, NEW b \in Calls, NEW c \in Calls, CallStep(b), b # c
  PROVE  pc'[c] = pc[c] /\ result'[c] = result[c] /\ stop'[c] = stop[c]
BY DEF TypeOK, CallStep, Begin, CheckDestination, PrepareInMemory, OpenSpool, SpoolUnit,
       SealSpool, ChecksumSpool, PlanLayout, OpenTemporary, WriteFromMemory,
       WriteFromSpool, Flush, Close, FinalCheck, Link, Summarize, Cleanup,
       OutOfMemory, LeaveCall, NextBlock, NameTaken, CreateThenNoMemory, CannotPrepare,
       AddUnit, SummaryNoMemory, Cancelled, Faulty, Fail, Return, Goto

\* A call that has been told to stop and is not past its last look does not get
\* past it, nor to a success.
LEMMA StoppedCall ==
  ASSUME TypeOK, NEW c \in Calls, CallStep(c), stop[c],
         pc[c] \notin {"link", "summary"}, result[c] # "ok"
  PROVE  stop'[c] /\ pc'[c] \notin {"link", "summary"} /\ result'[c] # "ok"
<1> USE DEF TypeOK, Errors, Cancelled, Proceeds, Faulty, Fail, Return, Goto
<1>1. CASE Begin(c) \/ CheckDestination(c) \/ PlanLayout(c)
  BY <1>1 DEF Begin, CheckDestination, PlanLayout
<1>2. CASE PrepareInMemory(c) \/ SealSpool(c) \/ ChecksumSpool(c)
  BY <1>2 DEF PrepareInMemory, SealSpool, ChecksumSpool, NextBlock, CannotPrepare
<1>3. CASE OpenSpool(c) \/ OpenTemporary(c)
  BY <1>3 DEF OpenSpool, OpenTemporary, NameTaken, CreateThenNoMemory
<1>4. CASE SpoolUnit(c) \/ WriteFromMemory(c)
  BY <1>4 DEF SpoolUnit, WriteFromMemory
<1>5. CASE WriteFromSpool(c)
  BY <1>5 DEF WriteFromSpool
<1>6. CASE Flush(c) \/ Close(c) \/ FinalCheck(c) \/ Link(c) \/ Summarize(c)
  BY <1>6 DEF Flush, Close, FinalCheck, Link, Summarize
<1>7. CASE Cleanup(c) \/ OutOfMemory(c) \/ LeaveCall(c)
  BY <1>7 DEF Cleanup, OutOfMemory, LeaveCall
<1> QED
  BY <1>1, <1>2, <1>3, <1>4, <1>5, <1>6, <1>7 DEF CallStep

\* The environment takes no stop back, and ends a call at most.
LEMMA StoppedMeanwhile ==
  ASSUME TypeOK, NEW c \in Calls, Environment, stop[c],
         pc[c] \notin {"link", "summary"}, result[c] # "ok"
  PROVE  stop'[c] /\ pc'[c] \notin {"link", "summary"} /\ result'[c] # "ok"
<1>1. ASSUME NEW b \in Calls, RequestStop(b)
      PROVE  stop'[c] /\ UNCHANGED <<pc, result>>
  BY <1>1 DEF RequestStop, TypeOK
<1>2. ASSUME NEW b \in Calls, Crash(b)
      PROVE  pc'[c] \in {pc[c], "crashed"} /\ UNCHANGED <<stop, result>>
  BY <1>2 DEF Crash, TypeOK
<1>3. ASSUME NEW b \in Calls, ForeignCreate(b)
      PROVE  UNCHANGED <<pc, stop, result>>
  BY <1>3 DEF ForeignCreate
<1>4. ASSUME NEW b \in Calls, NEW k \in DOMAIN Blocks[b],
             TruncateSpool(b, k) \/ ExtendSpool(b, k)
      PROVE  UNCHANGED <<pc, stop, result>>
  BY <1>4 DEF TruncateSpool, ExtendSpool
<1>5. ASSUME NEW n \in Names, RemoveLeftover(n)
      PROVE  UNCHANGED <<pc, stop, result>>
  BY <1>5 DEF RemoveLeftover
<1> QED
  BY <1>1, <1>2, <1>3, <1>4, <1>5 DEF Environment

\* The call has been told to stop, and nothing of it has been published.
Stopped(c) ==
  stop[c] /\ pc[c] \notin {"link", "summary"} /\ result[c] # "ok" /\ ~Published(c)

\* A stop requested before the last look at the token is never followed by a
\* publication or a success, for any calls, wherever the request falls.
THEOREM StopsAreHonoured == Spec => StopHonoured
<1> SUFFICES ASSUME NEW c \in Calls
             PROVE  Spec => [](stop[c] /\ pc[c] \in BeforeLastCheck
                                 => [](result[c] # "ok" /\ ~Published(c)))
  BY DEF StopHonoured
<1>1. TypeOK /\ IInv /\ stop[c] /\ pc[c] \in BeforeLastCheck => Stopped(c)
  BY DEF IInv, InvResult, InvCommit, BeforeLastCheck, Stopped, Over
<1>2. TypeOK /\ IInv /\ Stopped(c) /\ [Next]_vars => Stopped(c)'
  <2> SUFFICES ASSUME TypeOK, IInv, Stopped(c), [Next]_vars PROVE Stopped(c)'
    OBVIOUS
  <2>1. ~Published(c)'
    BY OnlyLinkPublishes DEF Stopped
  <2>2. stop'[c] /\ pc'[c] \notin {"link", "summary"} /\ result'[c] # "ok"
    <3>1. ASSUME NEW b \in Calls, CallStep(b)
          PROVE  stop'[c] /\ pc'[c] \notin {"link", "summary"} /\ result'[c] # "ok"
      BY <3>1, OthersKeep, StoppedCall DEF Stopped
    <3>2. CASE Environment
      BY <3>2, StoppedMeanwhile DEF Stopped
    <3>3. CASE UNCHANGED vars
      BY <3>3 DEF vars, Stopped
    <3> QED
      BY <3>1, <3>2, <3>3 DEF Next
  <2> QED
    BY <2>1, <2>2 DEF Stopped
<1>3. Stopped(c) => result[c] # "ok" /\ ~Published(c)
  BY DEF Stopped
<1> QED
  BY <1>1, <1>2, <1>3, TypeCorrect, Inductive, PTL DEF Spec

-----------------------------------------------------------------------------
(* The protocol implements AtomicPublish. *)

\* publicEntry depends on the directory only.
LEMMA EntrySame == UNCHANGED fs => UNCHANGED publicEntry
BY DEF publicEntry, IsPublication, Out

\* What AtomicPublish sees of a call: whether it is over, how, and whether its
\* file is published.
LEMMA PhaseSame ==
  ASSUME \A b \in FileCalls :
           /\ Published(b)' <=> Published(b)
           /\ \/ pc'[b] = pc[b] /\ result'[b] = result[b]
              \/ /\ pc[b] \notin {"returned", "crashed"}
                 /\ pc'[b] \notin {"returned", "crashed"}
  PROVE  UNCHANGED publicPhase
<1>1. ASSUME NEW b \in FileCalls
      PROVE  publicPhase'[b] = publicPhase[b]
  BY DEF publicPhase
<1> QED
  BY <1>1 DEF publicPhase

\* Every step but the return and the crash keeps a call running or over.
Steady ==
  \A b \in Calls :
    \/ pc'[b] = pc[b] /\ result'[b] = result[b]
    \/ /\ pc[b] \notin {"returned", "crashed"}
       /\ pc'[b] \notin {"returned", "crashed"}

\* Every step of a call but its return is steady.
LEMMA CallSteady ==
  ASSUME TypeOK, NEW c \in Calls, CallStep(c), ~LeaveCall(c)
  PROVE  Steady
<1>1. CASE Cleanup(c)
  BY <1>1 DEF Cleanup, Steady
<1>2. CASE ~Cleanup(c)
  <2>1. pc[c] \notin {"returned", "crashed"}
    BY <1>2
    DEF CallStep, Begin, CheckDestination, PrepareInMemory, OpenSpool, SpoolUnit,
        SealSpool, ChecksumSpool, PlanLayout, OpenTemporary, WriteFromMemory,
        WriteFromSpool, Flush, Close, FinalCheck, Link, Summarize, OutOfMemory,
        CannotPrepare, AddUnit, SummaryNoMemory
  <2>2. \/ \E r : Return(c, r)
        \/ \E step \in Steps \ {"returned", "crashed"} : Goto(c, step)
    BY <1>2
    DEF CallStep, Begin, CheckDestination, PrepareInMemory, OpenSpool, SpoolUnit,
        SealSpool, ChecksumSpool, PlanLayout, OpenTemporary, WriteFromMemory,
        WriteFromSpool, Flush, Close, FinalCheck, Link, Summarize, OutOfMemory,
        CannotPrepare, AddUnit, SummaryNoMemory,
        Cancelled, Faulty, Fail, NameTaken, CreateThenNoMemory, NextBlock, Steps
  <2>3. CASE \E r : Return(c, r)
    BY <2>1, <2>3 DEF Return, Steady, TypeOK
  <2>4. CASE \E step \in Steps \ {"returned", "crashed"} : Goto(c, step)
    BY <2>1, <2>4 DEF Goto, Steady, TypeOK
  <2> QED
    BY <2>2, <2>3, <2>4
<1> QED
  BY <1>1, <1>2

\* Nothing AtomicPublish sees happens.
LEMMA UnseenStep ==
  ASSUME UNCHANGED fs, Steady
  PROVE  UNCHANGED <<publicEntry, publicPhase>>
<1>1. \A b \in FileCalls : Published(b)' <=> Published(b)
  BY DEF Published, Out
<1> QED
  BY <1>1, EntrySame, PhaseSame DEF Steady, FileCalls

\* An entry that is no publication appears or disappears: for AtomicPublish
\* somebody else did it, or nothing happened.
LEMMA OutsideStep ==
  ASSUME TypeOK, Steady, NEW n \in Names,
         \A m \in Names : m # n => fs'[m] = fs[m],
         \A b \in FileCalls : Dest[b] = n => fs[n] # Out(b) /\ fs'[n] # Out(b)
  PROVE  [Abstract!Next]_(Abstract!vars)
<1>1. \A m \in Names : m # n => fs'[m] = fs[m]
  OBVIOUS
<1>2. \A b \in FileCalls : b \in Calls /\ Dest[b] \in Names
  BY ConstantsAssumption DEF FileCalls, WritesFile, ConstantsAssumption
<1>3. \A b \in FileCalls : Published(b)' <=> Published(b)
  BY <1>1, <1>2 DEF Published, Out
<1>4. UNCHANGED publicPhase
  BY <1>2, <1>3, PhaseSame DEF Steady
<1>5. ASSUME NEW d \in Dests, d # n
      PROVE  publicEntry'[d] = publicEntry[d]
  <2>1. fs'[d] = fs[d]
    BY <1>1, <1>2, <1>5 DEF Dests
  <2> QED
    BY <2>1 DEF publicEntry, IsPublication, Out
<1>6. CASE n \in Dests
  <2>1. ~IsPublication(n) /\ ~IsPublication(n)'
    BY <1>1 DEF IsPublication, Out
  <2>2. publicEntry[n] \in {Absent, Foreign} /\ publicEntry'[n] \in {Absent, Foreign}
    BY <1>6, <2>1 DEF publicEntry, Dests
  <2>3. publicEntry' = [publicEntry EXCEPT ![n] = publicEntry'[n]]
    <3>1. /\ publicEntry = [d \in Dests |-> publicEntry[d]]
          /\ publicEntry' = [d \in Dests |-> publicEntry'[d]]
      BY DEF publicEntry
    <3> QED
      BY <1>5, <1>6, <3>1
  <2>4. n \in Abstract!Dests
    BY <1>6 DEF Abstract!Dests, Dests
  <2>5. Abstract!Outside(n)
    BY <1>4, <2>2, <2>3 DEF Abstract!Outside
  <2> QED
    BY <2>4, <2>5 DEF Abstract!Next
<1>7. CASE n \notin Dests
  <2>1. UNCHANGED publicEntry
    BY <1>5, <1>7 DEF publicEntry
  <2> QED
    BY <1>4, <2>1 DEF Abstract!vars
<1> QED
  BY <1>6, <1>7

\* A scratch file appears under a free name.
LEMMA ScratchStep ==
  ASSUME TypeOK, IInv, Steady, NEW c \in Calls, NEW n \in Names, NEW f \in Files,
         Owner(f) = c, n # Dest[c], CanCreate(n), fs' = [fs EXCEPT ![n] = f]
  PROVE  [Abstract!Next]_(Abstract!vars)
<1>1. ASSUME NEW b \in FileCalls, Dest[b] = n
      PROVE  fs[n] # Out(b) /\ f # Out(b)
  <2>1. b \in Calls /\ Owner(Out(b)) = b /\ Out(b) \in Files
    BY FileOfCall DEF FileCalls, Out
  <2> QED
    BY <1>1, <2>1, FilesAssumption DEF CanCreate, FilesAssumption
<1>2. fs'[n] = f /\ \A m \in Names : m # n => fs'[m] = fs[m]
  BY DEF TypeOK
<1>3. \A b \in FileCalls : Dest[b] = n => fs[n] # Out(b) /\ fs'[n] # Out(b)
  BY <1>1, <1>2
<1> QED
  BY <1>2, <1>3, OutsideStep

\* A file of another program appears under a free name.
LEMMA ForeignStep ==
  ASSUME TypeOK, Steady, NEW n \in Names, CanCreate(n),
         fs' = [fs EXCEPT ![n] = Foreign]
  PROVE  [Abstract!Next]_(Abstract!vars)
<1>1. ASSUME NEW b \in FileCalls, Dest[b] = n
      PROVE  fs[n] # Out(b) /\ Foreign # Out(b)
  <2>1. b \in Calls /\ Owner(Out(b)) = b /\ Out(b) \in Files
    BY FileOfCall DEF FileCalls, Out
  <2> QED
    BY <1>1, <2>1, FilesAssumption DEF CanCreate, FilesAssumption
<1>2. fs'[n] = Foreign /\ \A m \in Names : m # n => fs'[m] = fs[m]
  BY DEF TypeOK
<1>3. \A b \in FileCalls : Dest[b] = n => fs[n] # Out(b) /\ fs'[n] # Out(b)
  BY <1>1, <1>2
<1> QED
  BY <1>2, <1>3, OutsideStep

\* A file that is not published disappears.
LEMMA RemovalStep ==
  ASSUME TypeOK, IInv, Steady, NEW n \in Names, fs[n] \in Files,
         n # Dest[Owner(fs[n])], fs' = [fs EXCEPT ![n] = Absent]
  PROVE  [Abstract!Next]_(Abstract!vars)
<1>1. ASSUME NEW b \in FileCalls, Dest[b] = n
      PROVE  fs[n] # Out(b) /\ Absent # Out(b)
  <2>1. b \in Calls /\ Owner(Out(b)) = b /\ Out(b) \in Files
    BY FileOfCall DEF FileCalls, Out
  <2> QED
    BY <1>1, <2>1, FilesAssumption DEF FilesAssumption
<1>2. fs'[n] = Absent /\ \A m \in Names : m # n => fs'[m] = fs[m]
  BY DEF TypeOK
<1>3. \A b \in FileCalls : Dest[b] = n => fs[n] # Out(b) /\ fs'[n] # Out(b)
  BY <1>1, <1>2
<1> QED
  BY <1>2, <1>3, OutsideStep

\* The hard link is the commit.
LEMMA CommitStep ==
  ASSUME TypeOK, IInv, NEW c \in Calls, pc[c] = "link", WritesFile(c), CanLink(c),
         fs' = [fs EXCEPT ![Dest[c]] = fs[Temp[c]]], Goto(c, "summary")
  PROVE  Abstract!Next
<1> DEFINE d == Dest[c]
<1>1. /\ c \in FileCalls /\ d \in Dests /\ d \in Names
      /\ fs[d] = Absent /\ Absent \notin Files
  BY ConstantsAssumption, FilesAssumption
  DEF FileCalls, Dests, WritesFile, CanLink, ConstantsAssumption, FilesAssumption
<1>2. fs[Temp[c]] = Out(c) /\ Out(c) \in Files /\ Owner(Out(c)) = c
  BY FileOfCall DEF IInv, InvCommit, Opened, Out
<1>3. fs'[d] = Out(c) /\ \A m \in Names : m # d => fs'[m] = fs[m]
  BY <1>1, <1>2 DEF TypeOK
<1>4. /\ pc'[c] = "summary" /\ UNCHANGED result
      /\ \A b \in Calls : b # c => pc'[b] = pc[b]
  BY DEF Goto, TypeOK
<1>5. \A b \in FileCalls : b \in Calls /\ Dest[b] \in Names
  BY ConstantsAssumption DEF FileCalls, WritesFile, ConstantsAssumption
<1>6. ASSUME NEW b \in FileCalls
      PROVE  Out(b) \in Files /\ (b # c => Out(b) # Out(c))
  BY <1>5, FileOfCall DEF Out
<1>7. publicEntry[d] = Absent
  <2>1. ~IsPublication(d)
    BY <1>1, <1>6 DEF IsPublication
  <2> QED
    BY <1>1, <2>1 DEF publicEntry
<1>8. publicEntry'[d] = c
  <2>1. IsPublication(d)'
    BY <1>1, <1>3 DEF IsPublication, Out
  <2> QED
    BY <1>1, <1>2, <1>3, <2>1 DEF publicEntry, Out
<1>9. ASSUME NEW e \in Dests, e # d
      PROVE  publicEntry'[e] = publicEntry[e]
  <2>1. fs'[e] = fs[e]
    BY <1>3, <1>5, <1>9 DEF Dests
  <2> QED
    BY <2>1 DEF publicEntry, IsPublication, Out
<1>10. publicEntry' = [publicEntry EXCEPT ![d] = c]
  BY <1>1, <1>8, <1>9 DEF publicEntry
<1>11. publicPhase[c] = "running"
  <2>1. ~Published(c)
    BY <1>1, <1>2 DEF Published
  <2> QED
    BY <1>1, <2>1 DEF publicPhase
<1>12. publicPhase'[c] = "committed"
  <2>1. Published(c)'
    BY <1>3 DEF Published, Out, WritesFile
  <2> QED
    BY <1>1, <1>4, <2>1 DEF publicPhase
<1>13. ASSUME NEW b \in FileCalls, b # c
       PROVE  publicPhase'[b] = publicPhase[b]
  <2>1. Published(b)' <=> Published(b)
    BY <1>1, <1>3, <1>5, <1>6, <1>13 DEF Published, Out, WritesFile
  <2> QED
    BY <1>4, <1>5, <1>13, <2>1 DEF publicPhase
<1>14. publicPhase' = [publicPhase EXCEPT ![c] = "committed"]
  BY <1>1, <1>12, <1>13 DEF publicPhase
<1>15. Abstract!Commit(c)
  BY <1>1, <1>7, <1>10, <1>11, <1>14 DEF Abstract!Commit
<1> QED
  BY <1>1, <1>15 DEF Abstract!Next

\* A call that returns or crashes: AtomicPublish learns how it ended.
LEMMA EndStep ==
  ASSUME TypeOK, IInv, NEW c \in Calls, LeaveCall(c) \/ Crash(c)
  PROVE  [Abstract!Next]_(Abstract!vars)
<1>1. /\ UNCHANGED <<fs, result>>
      /\ \A b \in Calls : b # c => pc'[b] = pc[b]
      /\ pc[c] \notin {"returned", "crashed"}
      /\ \/ LeaveCall(c) /\ pc[c] = "cleanup" /\ pc'[c] = "returned"
         \/ Crash(c) /\ pc'[c] = "crashed"
  BY DEF LeaveCall, Goto, Crash, Active, TypeOK, disk
<1>2. UNCHANGED publicEntry
  BY <1>1, EntrySame
<1>3. \A b \in Calls : Published(b)' <=> Published(b)
  BY <1>1 DEF Published, Out
<1>4. \A b \in FileCalls : b \in Calls
  BY DEF FileCalls
<1>5. ASSUME NEW b \in FileCalls, b # c
      PROVE  publicPhase'[b] = publicPhase[b]
  BY <1>1, <1>3, <1>4, <1>5 DEF publicPhase
<1>6. CASE c \notin FileCalls
  <2>1. UNCHANGED publicPhase
    BY <1>5, <1>6 DEF publicPhase
  <2> QED
    BY <1>2, <2>1 DEF Abstract!vars
<1>7. CASE c \in FileCalls
  <2>1. publicPhase' = [publicPhase EXCEPT ![c] = publicPhase'[c]]
    <3>1. /\ publicPhase = [b \in FileCalls |-> publicPhase[b]]
          /\ publicPhase' = [b \in FileCalls |-> publicPhase'[b]]
      BY DEF publicPhase
    <3> QED
      BY <1>5, <1>7, <3>1
  <2>2. publicPhase[c] = IF Published(c) THEN "committed" ELSE "running"
    BY <1>1, <1>7 DEF publicPhase
  <2>3. CASE Crash(c) /\ pc'[c] = "crashed"
    <3>1. publicPhase'[c] = "lost"
      BY <1>7, <2>3 DEF publicPhase
    <3>2. Abstract!Lose(c)
      BY <1>2, <2>1, <2>2, <3>1 DEF Abstract!Lose
    <3> QED
      BY <1>7, <3>2 DEF Abstract!Next
  <2>4. CASE pc'[c] = "returned" /\ result[c] = "ok"
    <3>1. publicPhase'[c] = "ok"
      BY <1>1, <1>7, <2>4 DEF publicPhase
    <3>2. publicPhase[c] = "committed"
      BY <1>7, <2>2, <2>4 DEF IInv, InvCommit, FileCalls
    <3>3. Abstract!Succeed(c)
      BY <1>2, <2>1, <3>1, <3>2 DEF Abstract!Succeed
    <3> QED
      BY <1>7, <3>3 DEF Abstract!Next
  <2>5. CASE pc'[c] = "returned" /\ result[c] # "ok"
    <3>1. publicPhase'[c] = "failed"
      BY <1>1, <1>7, <2>5 DEF publicPhase
    <3>2. Abstract!Fail(c)
      BY <1>2, <2>1, <2>2, <3>1 DEF Abstract!Fail
    <3> QED
      BY <1>7, <3>2 DEF Abstract!Next
  <2> QED
    BY <1>1, <2>3, <2>4, <2>5
<1> QED
  BY <1>6, <1>7

\* Every step of a call is a step of AtomicPublish or hidden from it.
LEMMA CallRefines ==
  ASSUME TypeOK, IInv, NEW c \in Calls, CallStep(c)
  PROVE  [Abstract!Next]_(Abstract!vars)
<1>1. CASE LeaveCall(c)
  BY <1>1, EndStep
<1>2. CASE ~LeaveCall(c)
  <2> Steady
    BY <1>2, CallSteady
  <2>1. CASE UNCHANGED fs
    BY <2>1, UnseenStep DEF Abstract!vars
  <2>2. CASE OpenSpool(c)
    <3>1. HasBlock(c) /\ IsSpool(c, blk[c]) /\ Block(c).name = Blocks[c][blk[c]].name
      BY <2>2 DEF OpenSpool, Block, HasBlock, IsSpool
    <3>2. \/ UNCHANGED fs
          \/ /\ Block(c).name # NoName /\ CanCreate(Block(c).name)
             /\ fs' = [fs EXCEPT ![Block(c).name] = <<c, blk[c]>>]
      BY <2>2 DEF OpenSpool, NameTaken, Faulty, Fail, disk, CreateThenNoMemory,
                  CreateTracked
    <3>3. CASE /\ Block(c).name # NoName /\ CanCreate(Block(c).name)
               /\ fs' = [fs EXCEPT ![Block(c).name] = <<c, blk[c]>>]
      <4>1. /\ Block(c).name \in Names /\ <<c, blk[c]>> \in Files
            /\ Owner(<<c, blk[c]>>) = c
        BY <3>1, <3>3, BlockFacts DEF Owner
      <4>2. Block(c).name # Dest[c]
        BY <3>1, <3>3, ConstantsAssumption DEF ConstantsAssumption, IsSpool
      <4> QED
        BY <3>3, <4>1, <4>2, ScratchStep
    <3> QED
      BY <2>1, <3>2, <3>3
  <2>3. CASE OpenTemporary(c)
    <3>1. \/ UNCHANGED fs
          \/ CanCreate(Temp[c]) /\ fs' = [fs EXCEPT ![Temp[c]] = Out(c)]
      BY <2>3 DEF OpenTemporary, NameTaken, Faulty, Fail, disk, CreateThenNoMemory,
                  CreateTracked
    <3>2. /\ Temp[c] \in Names /\ Temp[c] # Dest[c]
          /\ Out(c) \in Files /\ Owner(Out(c)) = c
      BY <2>3, ConstantsAssumption, FileOfCall
      DEF OpenTemporary, WritesFile, ConstantsAssumption, Out
    <3> QED
      BY <2>1, <3>1, <3>2, ScratchStep
  <2>4. CASE Link(c)
    <3>1. \/ UNCHANGED fs
          \/ /\ CanLink(c) /\ fs' = [fs EXCEPT ![Dest[c]] = fs[Temp[c]]]
             /\ Goto(c, "summary")
      BY <2>4 DEF Link, Faulty, Fail, disk
    <3> QED
      BY <2>1, <2>4, <3>1, CommitStep DEF Link
  <2>5. CASE Cleanup(c)
    <3>1. PICK n \in tracked[c] : fs' = [fs EXCEPT ![n] = Absent] \/ UNCHANGED fs
      BY <2>5 DEF Cleanup
    <3>2. n \in Names /\ fs[n] \in Files /\ n # Dest[Owner(fs[n])]
      BY DEF TypeOK, IInv, TrackedOwned
    <3> QED
      BY <2>1, <3>1, <3>2, RemovalStep
  <2>6. CASE ~OpenSpool(c) /\ ~OpenTemporary(c) /\ ~Link(c) /\ ~Cleanup(c)
    BY <2>1, <2>6, CallKeepsDirectory
  <2> QED
    BY <2>2, <2>3, <2>4, <2>5, <2>6
<1> QED
  BY <1>1, <1>2

\* And so is every step of the environment.
LEMMA EnvironmentRefines ==
  ASSUME TypeOK, IInv, Environment
  PROVE  [Abstract!Next]_(Abstract!vars)
<1>1. ASSUME NEW c \in Calls, RequestStop(c)
      PROVE  [Abstract!Next]_(Abstract!vars)
  BY <1>1, UnseenStep DEF RequestStop, disk, Steady, Abstract!vars
<1>2. ASSUME NEW c \in Calls, NEW k \in DOMAIN Blocks[c],
             TruncateSpool(c, k) \/ ExtendSpool(c, k)
      PROVE  [Abstract!Next]_(Abstract!vars)
  BY <1>2, UnseenStep DEF TruncateSpool, ExtendSpool, Steady, Abstract!vars
<1>3. ASSUME NEW c \in Calls, Crash(c)
      PROVE  [Abstract!Next]_(Abstract!vars)
  BY <1>3, EndStep
<1>4. ASSUME NEW c \in Calls, ForeignCreate(c)
      PROVE  [Abstract!Next]_(Abstract!vars)
  <2>1. Dest[c] \in Names /\ CanCreate(Dest[c])
    BY <1>4, ConstantsAssumption
    DEF ForeignCreate, WritesFile, ConstantsAssumption, CanCreate
  <2>2. fs' = [fs EXCEPT ![Dest[c]] = Foreign] /\ Steady
    BY <1>4 DEF ForeignCreate, Steady
  <2> QED
    BY <2>1, <2>2, ForeignStep
<1>5. ASSUME NEW n \in Names, RemoveLeftover(n)
      PROVE  [Abstract!Next]_(Abstract!vars)
  <2>1. /\ fs[n] \in Files /\ n # Dest[Owner(fs[n])]
        /\ fs' = [fs EXCEPT ![n] = Absent] /\ Steady
    BY <1>5 DEF RemoveLeftover, Steady
  <2> QED
    BY <2>1, RemovalStep
<1> QED
  BY <1>1, <1>2, <1>3, <1>4, <1>5 DEF Environment

\* write_file is an atomic publication: whatever other calls, programs, faults
\* and crashes do, a destination name goes in one step from free to a complete
\* file, and a call reports success only if that step was its own.
THEOREM Refinement == Spec => ImplementsAtomicPublish
<1>1. Init => Abstract!Init
  <2> SUFFICES ASSUME Init
               PROVE  Abstract!Init
    OBVIOUS
  <2>1. \A b \in FileCalls : b \in Calls /\ Dest[b] \in Names /\ Out(b) # Absent
    BY ConstantsAssumption, FileOfCall, FilesAssumption
    DEF FileCalls, WritesFile, ConstantsAssumption, Out, FilesAssumption
  <2>2. \A b \in FileCalls : ~Published(b)
    BY <2>1 DEF Init, Published
  <2>3. publicPhase = [b \in FileCalls |-> "running"]
    BY <2>1, <2>2 DEF Init, publicPhase
  <2>4. publicEntry \in [Dests -> {Absent, Foreign}]
    BY <2>1 DEF Init, publicEntry, IsPublication, Dests
  <2> QED
    BY <2>3, <2>4 DEF Abstract!Init, Abstract!Dests, Dests
<1>2. TypeOK /\ IInv /\ [Next]_vars => [Abstract!Next]_(Abstract!vars)
  <2>1. ASSUME UNCHANGED vars
        PROVE  UNCHANGED <<publicEntry, publicPhase>>
    BY <2>1, UnseenStep DEF vars, Steady
  <2> QED
    BY <2>1, CallRefines, EnvironmentRefines DEF Next, Abstract!vars
<1> QED
  BY <1>1, <1>2, TypeCorrect, Inductive, PTL
  DEF Spec, ImplementsAtomicPublish, Abstract!Spec

-----------------------------------------------------------------------------
(* Calls that share names do not all defeat each other.  Under the hypothesis  *)
(* CreatedAlong, a call that is refused a name is behind the call that holds   *)
(* it.                                                                        *)

\* Nothing but names, stops and removals makes a call fail.
Undisturbed == Faults \subseteq {"stop", "remove"}

\* The hypothesis of NoMutualDefeat, which once false stays false.
Unhindered == \A c \in Calls : ~stop[c] /\ stuck[c] = {}

\* What a call at work tracks is what it has created on its way.
OnItsWay(c) ==
  result[c] = "none" =>
    \A n \in tracked[c] :
      \/ \E k \in DOMAIN Blocks[c] : Spooled(c, k) /\ n = Blocks[c][k].name
      \/ WritesFile(c) /\ pc[c] \in Opened /\ n = Temp[c]

\* Nobody changes a spool that is closed.
Sealed(c) ==
  pc[c] \notin Over =>
    \A k \in DOMAIN Blocks[c] :
      IsSpool(c, k) /\ (k < blk[c] \/ (k = blk[c] /\ pc[c] = "checksum")) =>
        Len(content[<<c, k>>]) = Blocks[c][k].units

\* A call ends with a result, and of the failures only these two are left.
EndsByName(c) ==
  /\ result[c] \in {"none", "ok", "io_error", "cancelled"}
  /\ pc[c] \in {"cleanup", "returned"} => result[c] # "none"
  /\ pc[c] # "crashed"

InvCalm ==
  /\ \A c \in Calls : OnItsWay(c) /\ Sealed(c) /\ EndsByName(c)
  /\ \A n \in Names : fs[n] # Foreign

Won(c) == pc[c] = "summary" \/ result[c] = "ok"
Failed(c) == result[c] \notin {"none", "ok"}

\* A call at work that holds a name above all those the other still holds.
AheadOf(rank, b, c) ==
  result[b] = "none" /\ \E m \in tracked[b] : \A n \in tracked[c] : rank[n] < rank[m]

InvAhead(rank) ==
  Unhindered =>
    \A c \in Calls : Failed(c) => \E b \in Calls : Won(b) \/ AheadOf(rank, b, c)

LEMMA BlockOf ==
  ASSUME NEW c \in Calls, NEW k \in DOMAIN Blocks[c]
  PROVE  /\ Blocks[c][k] \in BlockSpec
         /\ Blocks[c][k].units \in Nat
         /\ Blocks[c][k].name \in Names \cup {NoName}
         /\ k \in Nat \ {0}
<1>1. Blocks[c] \in Seq(BlockSpec)
  BY ConstantsAssumption DEF ConstantsAssumption
<1>2. Blocks[c][k] \in BlockSpec /\ k \in Nat \ {0}
  BY <1>1
<1> QED
  BY <1>2 DEF BlockSpec

\* What is tracked on the way to a name ranks below it.
LEMMA BehindSpool ==
  ASSUME TypeOK, InvCalm, NEW rank, CreatedAlong(rank), NEW c \in Calls,
         result[c] = "none", pc[c] = "prepare", HasBlock(c), Block(c).kind = "spool"
  PROVE  /\ Block(c).name \in Names
         /\ \A n \in tracked[c] : rank[n] < rank[Block(c).name]
<1>1. IsSpool(c, blk[c]) /\ blk[c] \in DOMAIN Blocks[c]
  BY DEF HasBlock, Block, IsSpool
<1>2. Block(c).name \in Names
  BY <1>1, BlockFacts DEF CreatedAlong, Block
<1>3. ASSUME NEW n \in tracked[c]
      PROVE  rank[n] < rank[Block(c).name]
  <2>1. PICK k \in DOMAIN Blocks[c] : Spooled(c, k) /\ n = Blocks[c][k].name
    BY <1>3 DEF InvCalm, OnItsWay, Opened
  <2>2. IsSpool(c, k) /\ k < blk[c]
    BY <2>1 DEF Spooled
  <2>3. k \in 1 .. blk[c] - 1
    BY <2>2, BlockOf DEF TypeOK
  <2> QED
    BY <1>1, <2>1, <2>2, <2>3 DEF CreatedAlong, Block
<1> QED
  BY <1>2, <1>3

LEMMA BehindTemporary ==
  ASSUME TypeOK, InvCalm, NEW rank, CreatedAlong(rank), NEW c \in Calls,
         result[c] = "none", pc[c] = "open", WritesFile(c)
  PROVE  /\ Temp[c] \in Names
         /\ \A n \in tracked[c] : rank[n] < rank[Temp[c]]
<1>1. Temp[c] \in Names
  BY ConstantsAssumption DEF WritesFile, ConstantsAssumption
<1>2. ASSUME NEW n \in tracked[c]
      PROVE  rank[n] < rank[Temp[c]]
  <2>1. PICK k \in DOMAIN Blocks[c] : Spooled(c, k) /\ n = Blocks[c][k].name
    BY <1>2 DEF InvCalm, OnItsWay, Opened
  <2> QED
    BY <2>1 DEF CreatedAlong, Spooled
<1> QED
  BY <1>1, <1>2

LEMMA BehindDestination ==
  ASSUME TypeOK, InvCalm, NEW rank, CreatedAlong(rank), NEW c \in Calls,
         result[c] = "none", WritesFile(c)
  PROVE  /\ Dest[c] \in Names
         /\ \A n \in tracked[c] : rank[n] < rank[Dest[c]]
<1>1. Dest[c] \in Names /\ Temp[c] \in Names
  BY ConstantsAssumption DEF WritesFile, ConstantsAssumption
<1>2. rank[Temp[c]] < rank[Dest[c]] /\ rank[Temp[c]] \in Nat /\ rank[Dest[c]] \in Nat
  BY <1>1 DEF CreatedAlong
<1>3. ASSUME NEW n \in tracked[c]
      PROVE  rank[n] < rank[Dest[c]]
  <2>1. n \in Names /\ rank[n] \in Nat
    BY <1>3 DEF TypeOK, CreatedAlong
  <2>2. CASE n = Temp[c]
    BY <1>2, <2>2
  <2>3. CASE \E k \in DOMAIN Blocks[c] : Spooled(c, k) /\ n = Blocks[c][k].name
    <3>1. PICK k \in DOMAIN Blocks[c] : Spooled(c, k) /\ n = Blocks[c][k].name
      BY <2>3
    <3>2. rank[n] < rank[Temp[c]]
      BY <3>1 DEF CreatedAlong, Spooled
    <3> QED
      BY <1>2, <2>1, <3>2
  <2> QED
    BY <1>3, <2>2, <2>3 DEF InvCalm, OnItsWay
<1> QED
  BY <1>1, <1>3

-----------------------------------------------------------------------------
(* The step that refuses.                                                     *)

\* The call is refused a name that ranks above all it holds.
Refused(rank, c) ==
  /\ result[c] = "none" /\ pc[c] # "summary"
  /\ Fail(c, "io_error")
  /\ \E n \in Names : fs[n] # Absent /\ \A x \in tracked[c] : rank[x] < rank[n]

\* Whoever holds the name has won, works on, or has failed behind someone who
\* works on; that cannot be the refused call, whose names all rank below.
LEMMA RefusedByAnother ==
  ASSUME TypeOK, IInv, InvCalm, Unhindered, NEW rank, CreatedAlong(rank), InvAhead(rank),
         NEW c \in Calls, Refused(rank, c)
  PROVE  \E b \in Calls \ {c} : Won(b) \/ AheadOf(rank, b, c)
<1>1. PICK n \in Names : fs[n] # Absent /\ \A x \in tracked[c] : rank[x] < rank[n]
  BY DEF Refused
<1>2. fs[n] \in Files
  BY <1>1 DEF InvCalm, TypeOK
<1>3. PICK b \in Calls : b = Owner(fs[n])
  BY <1>2, FileHasOwner
<1>4. n \in tracked[b] \/ (n = Dest[b] /\ Won(b))
  BY <1>2, <1>3 DEF IInv, InvOwned, InvResult, InvCalm, EndsByName, Unhindered, Won
<1>5. ~Won(c)
  BY DEF Refused, Won
<1>6. CASE Won(b)
  BY <1>5, <1>6
<1> SUFFICES ASSUME ~Won(b) PROVE \E w \in Calls \ {c} : Won(w) \/ AheadOf(rank, w, c)
  BY <1>6
<1>7. n \in tracked[b]
  BY <1>4
<1>8. \A x \in Names : rank[x] \in Nat
  BY DEF CreatedAlong
<1>9. b # c
  BY <1>1, <1>7, <1>8
<1>10. \A x \in Calls : tracked[x] \subseteq Names
  BY DEF TypeOK
<1>11. CASE result[b] = "none"
  <2>1. AheadOf(rank, b, c)
    BY <1>1, <1>7, <1>11 DEF AheadOf
  <2> QED
    BY <1>9, <2>1
<1>12. CASE result[b] # "none"
  <2>1. Failed(b)
    BY <1>12 DEF Failed, Won
  <2>2. PICK w \in Calls : Won(w) \/ AheadOf(rank, w, b)
    BY <2>1 DEF InvAhead
  <2>3. CASE Won(w)
    BY <1>5, <2>3
  <2>4. CASE AheadOf(rank, w, b)
    <3>1. PICK m \in tracked[w] : \A x \in tracked[b] : rank[x] < rank[m]
      BY <2>4 DEF AheadOf
    <3>2. rank[n] < rank[m] /\ m \in Names
      BY <1>7, <1>10, <3>1
    <3>3. w # c
      BY <1>1, <1>8, <3>1, <3>2
    <3>4. \A x \in tracked[c] : rank[x] < rank[m]
      BY <1>1, <1>8, <1>10, <3>2
    <3>5. AheadOf(rank, w, c)
      BY <2>4, <3>1, <3>4 DEF AheadOf
    <3> QED
      BY <3>3, <3>5
  <2> QED
    BY <2>2, <2>3, <2>4
<1> QED
  BY <1>11, <1>12

-----------------------------------------------------------------------------
(* The two ways in which a step changes who is ahead of whom.                 *)

\* All that matters of the other calls.
OthersStand(c) ==
  \A b \in Calls \ {c} :
    pc'[b] = pc[b] /\ result'[b] = result[b] /\ tracked'[b] = tracked[b]

\* A call at work keeps what it holds, one that won has won, and one that
\* failed had failed before and holds no more than then.
Advances(c) ==
  /\ Won(c) => Won(c)'
  /\ result[c] = "none" => Won(c)' \/ (result'[c] = "none" /\ tracked[c] \subseteq tracked'[c])
  /\ Failed(c)' => Failed(c) /\ tracked'[c] \subseteq tracked[c]

LEMMA AheadWhenOneAdvances ==
  ASSUME NEW rank, InvAhead(rank), Unhindered, NEW c \in Calls, OthersStand(c), Advances(c)
  PROVE  \A a \in Calls : Failed(a)' => \E b \in Calls : Won(b)' \/ AheadOf(rank, b, a)'
<1> SUFFICES ASSUME NEW a \in Calls, Failed(a)'
             PROVE  \E b \in Calls : Won(b)' \/ AheadOf(rank, b, a)'
  OBVIOUS
<1>1. Failed(a) /\ tracked'[a] \subseteq tracked[a]
  BY DEF Failed, OthersStand, Advances
<1>2. PICK b \in Calls : Won(b) \/ AheadOf(rank, b, a)
  BY <1>1 DEF InvAhead
<1>3. Won(b) => Won(b)'
  BY DEF Won, OthersStand, Advances
<1>4. ASSUME AheadOf(rank, b, a), ~Won(b)'
      PROVE  AheadOf(rank, b, a)'
  <2>1. PICK m \in tracked[b] : \A n \in tracked[a] : rank[n] < rank[m]
    BY <1>4 DEF AheadOf
  <2>2. result'[b] = "none" /\ m \in tracked'[b]
    BY <1>4, <2>1 DEF AheadOf, OthersStand, Advances
  <2> QED
    BY <1>1, <2>1, <2>2 DEF AheadOf
<1> QED
  BY <1>2, <1>3, <1>4

\* The call that is refused was ahead of those that now follow its own leader.
LEMMA AheadWhenOneIsRefused ==
  ASSUME TypeOK, IInv, InvCalm, Unhindered, NEW rank, CreatedAlong(rank), InvAhead(rank),
         NEW c \in Calls, Refused(rank, c)
  PROVE  \A a \in Calls : Failed(a)' => \E b \in Calls : Won(b)' \/ AheadOf(rank, b, a)'
<1>1. /\ OthersStand(c) /\ UNCHANGED tracked
      /\ result'[c] = "io_error"
  BY DEF Refused, Fail, Return, guarded, OthersStand, TypeOK
<1>2. PICK w \in Calls \ {c} : Won(w) \/ AheadOf(rank, w, c)
  BY RefusedByAnother
<1>3. Won(w) => Won(w)'
  BY <1>1 DEF Won, OthersStand
<1>4. \A b \in Calls \ {c}, a \in Calls : AheadOf(rank, b, a) => AheadOf(rank, b, a)'
  BY <1>1 DEF AheadOf, OthersStand
<1> SUFFICES ASSUME NEW a \in Calls, Failed(a)'
             PROVE  \E b \in Calls : Won(b)' \/ AheadOf(rank, b, a)'
  OBVIOUS
<1>5. CASE a = c
  BY <1>2, <1>3, <1>4, <1>5
<1>6. CASE a # c
  <2>1. Failed(a)
    BY <1>1, <1>6 DEF Failed, OthersStand
  <2>2. PICK b \in Calls : Won(b) \/ AheadOf(rank, b, a)
    BY <2>1 DEF InvAhead
  <2>3. ~Won(c)
    BY DEF Refused, Won
  <2>4. CASE b # c
    BY <1>1, <1>4, <2>2, <2>4 DEF Won, OthersStand
  <2>5. CASE b = c
    <3>1. PICK m \in tracked[c] : \A n \in tracked[a] : rank[n] < rank[m]
      BY <2>2, <2>3, <2>5 DEF AheadOf
    <3>2. CASE Won(w)
      BY <1>3, <3>2
    <3>3. CASE AheadOf(rank, w, c)
      <4>1. PICK x \in tracked[w] : \A n \in tracked[c] : rank[n] < rank[x]
        BY <3>3 DEF AheadOf
      <4>2. \A n \in Names : rank[n] \in Nat
        BY DEF CreatedAlong
      <4>3. tracked[a] \subseteq Names /\ m \in Names /\ x \in Names
        BY <3>1, <4>1 DEF TypeOK
      <4>4. \A n \in tracked[a] : rank[n] < rank[x]
        BY <3>1, <4>1, <4>2, <4>3
      <4>5. AheadOf(rank, w, a)
        BY <3>3, <4>1, <4>4 DEF AheadOf
      <4> QED
        BY <1>4, <4>5
    <3> QED
      BY <1>2, <3>2, <3>3
  <2> QED
    BY <2>4, <2>5
<1> QED
  BY <1>5, <1>6

-----------------------------------------------------------------------------
(* Every step of a call is one of the two.                                    *)

LEMMA QuietlyAdvances ==
  ASSUME TypeOK, NEW c \in Calls, NEW step \in Steps, Goto(c, step),
         pc[c] # "summary" \/ result[c] = "ok", UNCHANGED tracked
  PROVE  Advances(c)
BY DEF TypeOK, Goto, Advances, Won, Failed

LEMMA CreatingAdvances ==
  ASSUME TypeOK, NEW c \in Calls, NEW step \in Steps, NEW n, NEW f, Goto(c, step),
         pc[c] # "summary", result[c] = "none", CreateTracked(c, n, f)
  PROVE  Advances(c)
<1>1. tracked'[c] = tracked[c] \cup {n}
  BY DEF CreateTracked, TypeOK
<1>2. result' = result
  BY DEF Goto
<1> QED
  BY <1>1, <1>2 DEF Advances, Won, Failed

LEMMA AdvancesOrIsRefused ==
  ASSUME TypeOK, IInv, InvCalm, Undisturbed, NEW rank, CreatedAlong(rank),
         NEW c \in Calls, CallStep(c), ~stop[c]
  PROVE  Advances(c) \/ Refused(rank, c)
<1> DEFINE Goal == Advances(c) \/ Refused(rank, c)
<1> USE DEF Steps
<1>0. /\ pc[c] \notin Over => result[c] = "none"
      /\ Faults \cap {"alloc", "io", "limit", "tamper", "foreign", "crash"} = {}
      /\ ~Cancelled(c)
      /\ \A e : ~Faulty("limit", c, e) /\ ~Faulty("io", c, e) /\ ~Faulty("alloc", c, e)
      /\ ~CannotPrepare(c) /\ ~SummaryNoMemory(c)
      /\ \A n, f : ~CreateThenNoMemory(c, n, f)
  BY DEF IInv, InvResult, Undisturbed, Cancelled, Faulty, CreateThenNoMemory,
    CannotPrepare, SummaryNoMemory
<1>1. CASE Begin(c)
  BY <1>0, <1>1, QuietlyAdvances DEF Begin, Over, guarded
<1>2. CASE CheckDestination(c)
  <2>1. CASE Fail(c, "io_error") /\ fs[Dest[c]] # Absent
    BY <1>0, <1>2, <2>1, BehindDestination DEF CheckDestination, Refused, Over
  <2> QED
    BY <1>0, <1>2, <2>1, QuietlyAdvances DEF CheckDestination, Over, guarded
<1>3. CASE PrepareInMemory(c)
  BY <1>0, <1>3, QuietlyAdvances DEF PrepareInMemory, NextBlock, guarded
<1>4. CASE OpenSpool(c)
  <2>1. Block(c).name \in Names /\ \A n \in tracked[c] : rank[n] < rank[Block(c).name]
    BY <1>0, <1>4, BehindSpool DEF OpenSpool, Over
  <2>2. CASE NameTaken(c, Block(c).name)
    BY <1>0, <1>4, <2>1, <2>2 DEF OpenSpool, NameTaken, CanCreate, Refused, Over
  <2>3. CASE CreateTracked(c, Block(c).name, <<c, blk[c]>>) /\ Goto(c, "compress")
    BY <1>0, <1>4, <2>3, CreatingAdvances DEF OpenSpool, Over
  <2>4. Block(c).name # NoName
    BY <2>1, ConstantsAssumption DEF ConstantsAssumption
  <2> QED
    BY <1>0, <1>4, <2>2, <2>3, <2>4 DEF OpenSpool
<1>5. CASE SpoolUnit(c)
  BY <1>0, <1>5, QuietlyAdvances DEF SpoolUnit, AddUnit, guarded
<1>6. CASE SealSpool(c)
  BY <1>0, <1>6, QuietlyAdvances DEF SealSpool, NextBlock, guarded
<1>7. CASE ChecksumSpool(c)
  <2>1. Len(SpoolContent(c, blk[c])) = Block(c).units
    <3>1. IsSpool(c, blk[c]) /\ blk[c] \in DOMAIN Blocks[c] /\ Spooled(c, blk[c])
      BY <1>7 DEF ChecksumSpool, IInv, InvSpools, BlockAt, Spooled, IsSpool
    <3>2. fs[Blocks[c][blk[c]].name] = <<c, blk[c]>>
      BY <1>7, <3>1 DEF ChecksumSpool, IInv, InvSpools, SpoolHeld, Preparing
    <3>3. Len(content[<<c, blk[c]>>]) = Blocks[c][blk[c]].units
      BY <1>7, <3>1 DEF ChecksumSpool, InvCalm, Sealed, Over
    <3> QED
      BY <3>1, <3>2, <3>3, FileOfCall DEF SpoolContent, Block
  <2> QED
    BY <1>0, <1>7, <2>1, QuietlyAdvances DEF ChecksumSpool, NextBlock, guarded
<1>8. CASE PlanLayout(c)
  BY <1>0, <1>8, QuietlyAdvances DEF PlanLayout, guarded
<1>9. CASE OpenTemporary(c)
  <2>1. Temp[c] \in Names /\ \A n \in tracked[c] : rank[n] < rank[Temp[c]]
    BY <1>0, <1>9, BehindTemporary DEF OpenTemporary, Over
  <2>2. CASE NameTaken(c, Temp[c])
    BY <1>0, <1>9, <2>1, <2>2 DEF OpenTemporary, NameTaken, CanCreate, Refused, Over
  <2>3. CASE CreateTracked(c, Temp[c], Out(c)) /\ Goto(c, "write")
    BY <1>0, <1>9, <2>3, CreatingAdvances DEF OpenTemporary, Over
  <2> QED
    BY <1>0, <1>9, <2>2, <2>3 DEF OpenTemporary
<1>10. CASE WriteFromMemory(c)
  BY <1>0, <1>10, QuietlyAdvances DEF WriteFromMemory, WriteUnit, guarded
<1>11. CASE WriteFromSpool(c)
  <2> DEFINE k == NextUnit(c).block
  <2>1. /\ IsSpool(c, k) /\ k \in DOMAIN Blocks[c]
        /\ NextUnit(c).at \in 1 .. Blocks[c][k].units
    BY <1>11, UnitFacts, ConstantsAssumption
    DEF WriteFromSpool, NextUnit, ConstantsAssumption, IsSpool
  <2>2. k < blk[c] /\ Spooled(c, k)
    <3>1. Len(Blocks[c]) \in Nat /\ k \in 1 .. Len(Blocks[c])
      BY <2>1, ConstantsAssumption DEF ConstantsAssumption
    <3>2. blk[c] > Len(Blocks[c]) /\ blk[c] \in Nat
      BY <1>11 DEF WriteFromSpool, IInv, InvSpools, BlockAt, Planned, Opened, TypeOK
    <3> QED
      BY <2>1, <3>1, <3>2 DEF Spooled
  <2>3. SpoolContent(c, k) = content[<<c, k>>]
    BY <1>11, <2>1, <2>2, FileOfCall
    DEF WriteFromSpool, IInv, InvSpools, SpoolHeld, Planned, Opened, SpoolContent
  <2>4. Len(SpoolContent(c, k)) = Blocks[c][k].units
    BY <1>11, <2>1, <2>2, <2>3 DEF WriteFromSpool, InvCalm, Sealed, Over
  <2>5. /\ ~(NextUnit(c).at > Len(SpoolContent(c, k)))
        /\ ~(NextUnit(c).at = Blocks[c][k].units /\ Len(SpoolContent(c, k)) > NextUnit(c).at)
    BY <2>1, <2>4, BlockOf
  <2>6. WriteUnit(c, SpoolContent(c, k)[NextUnit(c).at]) /\ Goto(c, "write")
    BY <1>0, <1>11, <2>5 DEF WriteFromSpool
  <2>7. Goto(c, "write") /\ UNCHANGED tracked
    BY <2>6 DEF WriteUnit, guarded
  <2> QED
    BY <1>11, <2>7, QuietlyAdvances DEF WriteFromSpool
<1>12. CASE Flush(c) \/ Close(c) \/ FinalCheck(c)
  BY <1>0, <1>12, QuietlyAdvances DEF Flush, Close, FinalCheck, guarded
<1>13. CASE Link(c)
  <2>1. fs[Temp[c]] # Absent
    <3>1. fs[Temp[c]] = <<c, 0>>
      BY <1>13 DEF Link, IInv, InvCommit, Opened, Out
    <3>2. <<c, 0>> \in Files
      BY FileOfCall
    <3> QED
      BY <3>1, <3>2, FilesAssumption DEF FilesAssumption
  <2>2. CASE ~CanLink(c) /\ Fail(c, "io_error")
    BY <1>0, <1>13, <2>1, <2>2, BehindDestination DEF Link, CanLink, Refused, Over
  <2> QED
    BY <1>0, <1>13, <2>2, QuietlyAdvances DEF Link, guarded
<1>14. CASE Summarize(c)
  BY <1>0, <1>14 DEF Summarize, Return, Advances, Won, Failed, guarded, TypeOK, Over
<1>15. CASE Cleanup(c)
  <2>1. result' = result /\ pc' = pc /\ tracked'[c] \subseteq tracked[c]
    BY <1>15 DEF Cleanup, TypeOK
  <2>2. result[c] # "none"
    BY <1>15 DEF Cleanup, InvCalm, EndsByName
  <2> QED
    BY <2>1, <2>2 DEF Advances, Won, Failed
<1>16. CASE OutOfMemory(c)
  BY <1>0, <1>16 DEF OutOfMemory
<1>17. CASE LeaveCall(c)
  BY <1>17, QuietlyAdvances DEF LeaveCall, guarded
<1> QED
  BY <1>1, <1>2, <1>3, <1>4, <1>5, <1>6, <1>7, <1>8, <1>9, <1>10, <1>11, <1>12,
     <1>13, <1>14, <1>15, <1>16, <1>17 DEF CallStep

-----------------------------------------------------------------------------
(* The calm stays.                                                            *)

LEMMA OthersUntouched ==
  ASSUME TypeOK, NEW b \in Calls, NEW c \in Calls, CallStep(b), b # c
  PROVE  /\ pc'[c] = pc[c] /\ result'[c] = result[c] /\ stop'[c] = stop[c]
         /\ blk'[c] = blk[c] /\ tracked'[c] = tracked[c] /\ stuck'[c] = stuck[c]
         /\ \A k \in DOMAIN Blocks[c] : content'[<<c, k>>] = content[<<c, k>>]
<1>1. /\ pc'[c] = pc[c] /\ result'[c] = result[c] /\ stop'[c] = stop[c]
  BY OthersKeep
<1>2. blk'[c] = blk[c] /\ tracked'[c] = tracked[c] /\ stuck'[c] = stuck[c]
  BY DEF TypeOK, CallStep, Begin, CheckDestination, PrepareInMemory, OpenSpool, SpoolUnit,
       SealSpool, ChecksumSpool, PlanLayout, OpenTemporary, WriteFromMemory,
       WriteFromSpool, WriteUnit, Flush, Close, FinalCheck, Link, Summarize, Cleanup,
       OutOfMemory, LeaveCall, NextBlock, NameTaken, CreateTracked, CreateThenNoMemory,
       CannotPrepare, AddUnit, SummaryNoMemory,
       Cancelled, Faulty, Fail, Return, Goto, local, guarded
<1>3. ASSUME NEW k \in DOMAIN Blocks[c]
      PROVE  content'[<<c, k>>] = content[<<c, k>>]
  <2>1. <<c, k>> \in Files
    BY FileOfCall
  <2>2. UNCHANGED content \/ \E j, v : content' = [content EXCEPT ![<<b, j>>] = v]
    BY DEF CallStep, Begin, CheckDestination, PrepareInMemory, OpenSpool, SpoolUnit,
       SealSpool, ChecksumSpool, PlanLayout, OpenTemporary, WriteFromMemory,
       WriteFromSpool, WriteUnit, Flush, Close, FinalCheck, Link, Summarize, Cleanup,
       OutOfMemory, LeaveCall, NextBlock, NameTaken, CreateTracked, CreateThenNoMemory,
       CannotPrepare, AddUnit, SummaryNoMemory,
       Cancelled, Faulty, Fail, AppendTo, Out, disk
  <2>3. \A j : <<b, j>> # <<c, k>>
    OBVIOUS
  <2> QED
    BY <2>1, <2>2, <2>3 DEF TypeOK
<1> QED
  BY <1>1, <1>2, <1>3

LEMMA OthersStayCalm ==
  ASSUME TypeOK, InvCalm, NEW b \in Calls, NEW c \in Calls, CallStep(b), b # c
  PROVE  OnItsWay(c)' /\ Sealed(c)' /\ EndsByName(c)'
<1>1. OnItsWay(c) /\ Sealed(c) /\ EndsByName(c)
  BY DEF InvCalm
<1> QED
  BY <1>1, OthersUntouched DEF OnItsWay, Sealed, EndsByName, Spooled

\* A call that gives up has only its guard's list left.
LEMMA FailsCalmly ==
  ASSUME TypeOK, NEW c \in Calls, NEW r \in {"ok", "io_error", "cancelled"}, Return(c, r)
  PROVE  OnItsWay(c)' /\ Sealed(c)' /\ EndsByName(c)'
BY DEF Return, OnItsWay, Sealed, EndsByName, TypeOK, Over

\* A call that works on keeps on its way.
LEMMA WorksCalmly ==
  ASSUME TypeOK, InvCalm, NEW c \in Calls, NEW step \in Steps \ Over, Goto(c, step),
         result[c] = "none",
         \A k \in DOMAIN Blocks[c] : Spooled(c, k) => Spooled(c, k)',
         pc[c] \in Opened => step \in Opened,
         \A n \in tracked'[c] \ tracked[c] :
           \/ \E k \in DOMAIN Blocks[c] : Spooled(c, k)' /\ n = Blocks[c][k].name
           \/ WritesFile(c) /\ step \in Opened /\ n = Temp[c],
         \A k \in DOMAIN Blocks[c] :
           IsSpool(c, k) /\ (k < blk'[c] \/ (k = blk'[c] /\ step = "checksum")) =>
             Len(content'[<<c, k>>]) = Blocks[c][k].units
  PROVE  OnItsWay(c)' /\ Sealed(c)' /\ EndsByName(c)'
<1>1. pc'[c] = step /\ result'[c] = "none" /\ UNCHANGED result
  BY DEF Goto, TypeOK
<1>2. OnItsWay(c)'
  <2> SUFFICES ASSUME NEW n \in tracked'[c]
               PROVE  \/ \E k \in DOMAIN Blocks[c] : Spooled(c, k)' /\ n = Blocks[c][k].name
                      \/ WritesFile(c) /\ step \in Opened /\ n = Temp[c]
    BY <1>1 DEF OnItsWay, WritesFile
  <2>1. CASE n \in tracked[c]
    BY <2>1 DEF InvCalm, OnItsWay
  <2> QED
    BY <2>1
<1>3. Sealed(c)'
  BY <1>1 DEF Sealed
<1>4. EndsByName(c)'
  BY <1>1 DEF EndsByName, Over
<1> QED
  BY <1>2, <1>3, <1>4

\* The steps of a call that leave its blocks, and the guard's list, alone.
LEMMA MovesCalmly ==
  ASSUME TypeOK, InvCalm, NEW c \in Calls, NEW step \in Steps \ Over, Goto(c, step),
         result[c] = "none", pc[c] \notin Over, UNCHANGED <<blk, tracked>>,
         \A k \in DOMAIN Blocks[c] :
           k # blk[c] \/ pc[c] # "compress" => content'[<<c, k>>] = content[<<c, k>>],
         pc[c] \in Opened => step \in Opened,
         pc[c] \in {"compress", "checksum"} => step \in {"compress", "checksum"},
         step = "checksum" => Len(content'[<<c, blk[c]>>]) = Block(c).units
  PROVE  OnItsWay(c)' /\ Sealed(c)' /\ EndsByName(c)'
<1>1. \A k \in DOMAIN Blocks[c] : Spooled(c, k) => Spooled(c, k)'
  BY DEF Spooled, Goto, TypeOK
<1>2. ASSUME NEW k \in DOMAIN Blocks[c], IsSpool(c, k),
             k < blk'[c] \/ (k = blk'[c] /\ step = "checksum")
      PROVE  Len(content'[<<c, k>>]) = Blocks[c][k].units
  <2>1. CASE k < blk[c]
    <3>1. k # blk[c]
      BY <2>1, BlockOf DEF TypeOK
    <3> QED
      BY <1>2, <2>1, <3>1 DEF InvCalm, Sealed
  <2>2. CASE k = blk[c] /\ step = "checksum"
    BY <2>2 DEF Block
  <2> QED
    BY <1>2, <2>1, <2>2
<1> QED
  BY <1>1, <1>2, WorksCalmly

LEMMA NextBlockCalmly ==
  ASSUME TypeOK, InvCalm, NEW c \in Calls, NextBlock(c), result[c] = "none",
         pc[c] \in Preparing,
         IsSpool(c, blk[c]) => Len(content[<<c, blk[c]>>]) = Block(c).units
  PROVE  OnItsWay(c)' /\ Sealed(c)' /\ EndsByName(c)'
<1>1. blk'[c] = blk[c] + 1 /\ blk[c] \in Nat /\ UNCHANGED <<content, tracked>>
      /\ Goto(c, "prepare")
  BY DEF NextBlock, TypeOK, disk, guarded
<1>2. \A k \in DOMAIN Blocks[c] : Spooled(c, k) => Spooled(c, k)'
  BY <1>1, BlockOf DEF Spooled
<1>3. ASSUME NEW k \in DOMAIN Blocks[c], IsSpool(c, k), k < blk'[c]
      PROVE  Len(content'[<<c, k>>]) = Blocks[c][k].units
  <2>1. k < blk[c] \/ k = blk[c]
    BY <1>1, <1>3, BlockOf
  <2>2. CASE k < blk[c]
    BY <1>1, <1>3, <2>2 DEF InvCalm, Sealed, Preparing, Over
  <2>3. CASE k = blk[c]
    BY <1>1, <1>3, <2>3 DEF Block
  <2> QED
    BY <2>1, <2>2, <2>3
<1> QED
  BY <1>1, <1>2, <1>3, WorksCalmly DEF Steps, Over, Preparing, Opened

\* Every step of a call leaves the call itself calm.
LEMMA StepsCalmly ==
  ASSUME TypeOK, IInv, InvCalm, Undisturbed, NEW rank, CreatedAlong(rank),
         NEW c \in Calls, CallStep(c)
  PROVE  OnItsWay(c)' /\ Sealed(c)' /\ EndsByName(c)'
<1> DEFINE Goal == OnItsWay(c)' /\ Sealed(c)' /\ EndsByName(c)'
<1>0. /\ pc[c] \notin Over => result[c] = "none"
      /\ OnItsWay(c) /\ Sealed(c) /\ EndsByName(c)
  BY DEF IInv, InvResult, InvCalm
<1>a. /\ \A e : ~Faulty("limit", c, e) /\ ~Faulty("io", c, e) /\ ~Faulty("alloc", c, e)
      /\ ~CannotPrepare(c) /\ ~SummaryNoMemory(c)
      /\ \A n, f : ~CreateThenNoMemory(c, n, f)
  BY DEF Undisturbed, Faulty, CannotPrepare, SummaryNoMemory, CreateThenNoMemory
<1>b. ASSUME Cancelled(c) \/ Fail(c, "io_error") PROVE Goal
  BY <1>b, FailsCalmly DEF Cancelled, Fail
<1>1. CASE Begin(c) \/ CheckDestination(c) \/ PlanLayout(c)
  <2>1. ASSUME Cancelled(c) \/ Fail(c, "io_error") PROVE Goal
    BY <1>b, <2>1
  <2> SUFFICES ASSUME ~Cancelled(c), ~Fail(c, "io_error") PROVE Goal
    BY <2>1
  <2>2. PICK step \in {"check", "prepare", "open", "write"} : Goto(c, step)
    BY <1>1, <1>a DEF Begin, CheckDestination, PlanLayout
  <2>3. UNCHANGED <<disk, local, guarded>>
    BY <1>1, <1>a DEF Begin, CheckDestination, PlanLayout
  <2>4. pc[c] \in {"idle", "check", "prepare"}
    BY <1>1 DEF Begin, CheckDestination, PlanLayout
  <2> QED
    BY <1>0, <2>2, <2>3, <2>4, MovesCalmly
    DEF disk, local, guarded, Steps, Over, Opened
<1>2. CASE PrepareInMemory(c)
  <2>1. CASE Cancelled(c)
    BY <1>b, <2>1
  <2> QED
    BY <1>0, <1>a, <1>2, <2>1, NextBlockCalmly
    DEF PrepareInMemory, Over, Preparing, IsSpool, Block
<1>3. CASE OpenSpool(c)
  <2>1. Block(c).name # NoName /\ IsSpool(c, blk[c]) /\ blk[c] \in DOMAIN Blocks[c]
    BY <1>3 DEF OpenSpool, HasBlock, Block, IsSpool, CreatedAlong
  <2>2. CASE NameTaken(c, Block(c).name)
    BY <1>b, <2>2 DEF NameTaken
  <2>3. CASE /\ CreateTracked(c, Block(c).name, <<c, blk[c]>>)
             /\ Goto(c, "compress") /\ UNCHANGED <<blk, pos>>
    <3>1. tracked'[c] = tracked[c] \cup {Block(c).name}
      BY <2>3 DEF CreateTracked, TypeOK
    <3>2. \A k \in DOMAIN Blocks[c] : k # blk[c] => content'[<<c, k>>] = content[<<c, k>>]
      BY <2>3, FileOfCall DEF CreateTracked, TypeOK
    <3>3. pc'[c] = "compress" /\ pc[c] = "prepare" /\ blk'[c] = blk[c] /\ blk[c] \in Nat
      BY <1>3, <2>3 DEF OpenSpool, Goto, TypeOK
    <3>4. Spooled(c, blk[c])'
      BY <2>1, <3>3 DEF Spooled, IsSpool
    <3>5. \A k \in DOMAIN Blocks[c] : Spooled(c, k) => Spooled(c, k)'
      BY <3>3 DEF Spooled
    <3>6. ASSUME NEW k \in DOMAIN Blocks[c], IsSpool(c, k), k < blk'[c]
          PROVE  Len(content'[<<c, k>>]) = Blocks[c][k].units
      BY <1>0, <3>2, <3>3, <3>6, BlockOf DEF Sealed, Over
    <3> QED
      BY <1>0, <2>1, <2>3, <3>1, <3>3, <3>4, <3>5, <3>6, WorksCalmly
      DEF Steps, Over, Opened, Block
  <2> QED
    BY <1>3, <1>a, <2>1, <2>2, <2>3 DEF OpenSpool
<1>4. CASE SpoolUnit(c)
  <2>1. CASE Cancelled(c)
    BY <1>b, <2>1
  <2>2. CASE ~Cancelled(c)
    <3>1. /\ Goto(c, "compress") /\ UNCHANGED <<blk, tracked>> /\ pc[c] = "compress"
          /\ \E v : content' = [content EXCEPT ![<<c, blk[c]>>] = v]
      BY <1>4, <1>a, <2>2 DEF SpoolUnit, AddUnit, AppendTo, guarded
    <3>2. \A k \in DOMAIN Blocks[c] : k # blk[c] => content'[<<c, k>>] = content[<<c, k>>]
      BY <3>1, FileOfCall DEF TypeOK
    <3> QED
      BY <1>0, <3>1, <3>2, MovesCalmly DEF Steps, Over, Opened
  <2> QED
    BY <2>1, <2>2
<1>5. CASE SealSpool(c)
  <2>1. Len(content[<<c, blk[c]>>]) = Block(c).units
    BY <1>5 DEF SealSpool, IInv, InvSpools, BlockAt
  <2>2. CASE NextBlock(c)
    BY <1>0, <1>5, <2>1, <2>2, NextBlockCalmly DEF SealSpool, Over, Preparing
  <2>3. CASE Goto(c, "checksum") /\ UNCHANGED <<disk, local, guarded>>
    BY <1>0, <1>5, <2>1, <2>3, MovesCalmly
    DEF SealSpool, disk, local, guarded, Steps, Over, Opened
  <2> QED
    BY <1>5, <1>a, <2>2, <2>3 DEF SealSpool
<1>6. CASE ChecksumSpool(c)
  <2>1. CASE NextBlock(c)
    <3>1. IsSpool(c, blk[c]) => Len(content[<<c, blk[c]>>]) = Block(c).units
      BY <1>0, <1>6 DEF ChecksumSpool, Sealed, Over, IsSpool, Block
    <3> QED
      BY <1>0, <1>6, <2>1, <3>1, NextBlockCalmly DEF ChecksumSpool, Over, Preparing
  <2> QED
    BY <1>6, <1>a, <1>b, <2>1 DEF ChecksumSpool
<1>7. CASE OpenTemporary(c)
  <2>1. CASE NameTaken(c, Temp[c])
    BY <1>b, <2>1 DEF NameTaken
  <2>2. CASE CreateTracked(c, Temp[c], Out(c)) /\ Goto(c, "write") /\ UNCHANGED local
    <3>1. tracked'[c] = tracked[c] \cup {Temp[c]}
      BY <2>2 DEF CreateTracked, TypeOK
    <3>2. \A k \in DOMAIN Blocks[c] : content'[<<c, k>>] = content[<<c, k>>]
      <4>1. \A k \in DOMAIN Blocks[c] : <<c, k>> # <<c, 0>>
        BY BlockOf
      <4> QED
        BY <2>2, <4>1, FileOfCall DEF CreateTracked, TypeOK, Out
    <3>3. pc'[c] = "write" /\ pc[c] = "open" /\ UNCHANGED blk /\ WritesFile(c)
      BY <1>7, <2>2 DEF OpenTemporary, Goto, TypeOK, local
    <3>4. \A k \in DOMAIN Blocks[c] : Spooled(c, k) => Spooled(c, k)'
      BY <3>3 DEF Spooled
    <3>5. ASSUME NEW k \in DOMAIN Blocks[c], IsSpool(c, k), k < blk'[c]
          PROVE  Len(content'[<<c, k>>]) = Blocks[c][k].units
      BY <1>0, <3>2, <3>3, <3>5 DEF Sealed, Over
    <3> QED
      BY <1>0, <2>2, <3>1, <3>3, <3>4, <3>5, WorksCalmly DEF Steps, Over, Opened
  <2> QED
    BY <1>7, <1>a, <2>1, <2>2 DEF OpenTemporary
<1>8. CASE WriteFromMemory(c) \/ WriteFromSpool(c)
  <2>1. ASSUME Cancelled(c) \/ Fail(c, "io_error") PROVE Goal
    BY <1>b, <2>1
  <2> SUFFICES ASSUME ~Cancelled(c), ~Fail(c, "io_error") PROVE Goal
    BY <2>1
  <2>2. PICK u : WriteUnit(c, u) /\ (Goto(c, "write") \/ Return(c, "io_error"))
    <3>1. CASE WriteFromMemory(c)
      BY <1>a, <3>1 DEF WriteFromMemory
    <3>2. CASE WriteFromSpool(c)
      BY <1>a, <3>2 DEF WriteFromSpool
    <3> QED
      BY <1>8, <3>1, <3>2
  <2>3. CASE Return(c, "io_error")
    BY <2>3, FailsCalmly
  <2>4. CASE Goto(c, "write")
    <3>1. \A k \in DOMAIN Blocks[c] : content'[<<c, k>>] = content[<<c, k>>]
      <4>1. \A k \in DOMAIN Blocks[c] : <<c, k>> # <<c, 0>>
        BY BlockOf
      <4> QED
        BY <2>2, <4>1, FileOfCall DEF WriteUnit, AppendTo, TypeOK, Out
    <3>2. UNCHANGED <<blk, tracked>> /\ pc[c] = "write"
      BY <1>8, <2>2 DEF WriteUnit, guarded, WriteFromMemory, WriteFromSpool
    <3> QED
      BY <1>0, <2>4, <3>1, <3>2, MovesCalmly DEF Steps, Over, Opened
  <2> QED
    BY <2>2, <2>3, <2>4
<1>9. CASE Flush(c) \/ Close(c) \/ FinalCheck(c) \/ Link(c)
  <2>1. ASSUME Cancelled(c) \/ Fail(c, "io_error") PROVE Goal
    BY <1>b, <2>1
  <2> SUFFICES ASSUME ~Cancelled(c), ~Fail(c, "io_error") PROVE Goal
    BY <2>1
  <2>2. PICK step \in {"close", "final", "link", "summary"} : Goto(c, step)
    BY <1>9, <1>a DEF Flush, Close, FinalCheck, Link
  <2>3. UNCHANGED <<content, local, guarded>>
    BY <1>9, <1>a DEF Flush, Close, FinalCheck, Link, disk
  <2>4. pc[c] \in {"write", "close", "final", "link"}
    BY <1>9 DEF Flush, Close, FinalCheck, Link
  <2> QED
    BY <1>0, <2>2, <2>3, <2>4, MovesCalmly DEF local, guarded, Steps, Over, Opened
<1>10. CASE Summarize(c)
  BY <1>10, <1>a, FailsCalmly DEF Summarize
<1>11. CASE Cleanup(c) \/ LeaveCall(c)
  <2>1. result' = result /\ pc[c] = "cleanup" /\ pc'[c] \in {"cleanup", "returned"}
    BY <1>11 DEF Cleanup, LeaveCall, Goto, TypeOK
  <2> QED
    BY <1>0, <2>1 DEF OnItsWay, Sealed, EndsByName, Over
<1>12. CASE OutOfMemory(c)
  BY <1>12, <1>a DEF OutOfMemory
<1> QED
  BY <1>1, <1>2, <1>3, <1>4, <1>5, <1>6, <1>7, <1>8, <1>9, <1>10, <1>11, <1>12
  DEF CallStep

LEMMA NoStrangers ==
  ASSUME TypeOK, InvCalm, NEW c \in Calls, CallStep(c), NEW n \in Names
  PROVE  fs'[n] # Foreign
<1>1. \A k : fs[k] # Foreign \/ k \notin Names
  BY DEF InvCalm
<1>2. Absent # Foreign /\ (WritesFile(c) => Temp[c] \in Names /\ Dest[c] \in Names)
  BY ConstantsAssumption DEF ConstantsAssumption, WritesFile
<1>3. CASE OpenSpool(c)
  <2>1. <<c, blk[c]>> # Foreign
    BY <1>3, BlockFacts, FilesAssumption DEF OpenSpool, FilesAssumption
  <2> QED
    BY <1>1, <1>3, <2>1
    DEF OpenSpool, NameTaken, Faulty, Fail, disk, CreateThenNoMemory, CreateTracked, TypeOK
<1>4. CASE OpenTemporary(c)
  <2>1. Out(c) # Foreign
    BY FileOfCall, FilesAssumption DEF Out, FilesAssumption
  <2> QED
    BY <1>1, <1>4, <2>1
    DEF OpenTemporary, NameTaken, Faulty, Fail, disk, CreateThenNoMemory, CreateTracked, TypeOK
<1>5. CASE Link(c)
  BY <1>1, <1>2, <1>5 DEF Link, Faulty, Fail, disk, TypeOK
<1>6. CASE Cleanup(c)
  BY <1>1, <1>2, <1>6 DEF Cleanup, TypeOK
<1> QED
  BY <1>1, <1>3, <1>4, <1>5, <1>6, CallKeepsDirectory

LEMMA CalmInit ==
  ASSUME Init
  PROVE  InvCalm
BY ConstantsAssumption, BlockOf
DEF Init, InvCalm, OnItsWay, Sealed, EndsByName, FirstBlock, Spooled, ConstantsAssumption

\* Who holds a name above all those a failed call still holds: nobody can be
\* left behind by calls that have all failed.
LEMMA CrowdKeeps ==
  ASSUME TypeOK, IInv, Undisturbed, NEW rank, CreatedAlong(rank),
         InvCalm, InvAhead(rank), [Next]_vars
  PROVE  InvCalm' /\ InvAhead(rank)'
<1>1. CASE UNCHANGED vars
  BY <1>1 DEF vars, InvCalm, InvAhead, OnItsWay, Sealed, EndsByName, Spooled, Won,
              Failed, AheadOf, Unhindered
<1>2. ASSUME NEW c \in Calls, CallStep(c)
      PROVE  InvCalm' /\ InvAhead(rank)'
  <2>1. InvCalm'
    <3>1. ASSUME NEW b \in Calls
          PROVE  OnItsWay(b)' /\ Sealed(b)' /\ EndsByName(b)'
      BY <1>2, StepsCalmly, OthersStayCalm
    <3> QED
      BY <1>2, <3>1, NoStrangers DEF InvCalm
  <2>2. InvAhead(rank)'
    <3> SUFFICES ASSUME Unhindered'
                 PROVE  \A a \in Calls : Failed(a)' =>
                          \E b \in Calls : Won(b)' \/ AheadOf(rank, b, a)'
      BY DEF InvAhead
    <3>1. /\ stop' = stop
          /\ \A b \in Calls : stuck[b] \subseteq stuck'[b]
      <4>1. CASE Cleanup(c)
        <5>1. PICK n : UNCHANGED stuck \/ stuck' = [stuck EXCEPT ![c] = stuck[c] \cup {n}]
          BY <4>1, Zenon DEF Cleanup
        <5>2. DOMAIN stuck = Calls
          BY DEF TypeOK
        <5>3. stop' = stop
          BY <4>1 DEF Cleanup
        <5> QED
          BY <5>1, <5>2, <5>3
      <4>2. CASE \/ Begin(c) \/ CheckDestination(c) \/ PrepareInMemory(c) \/ OpenSpool(c)
                 \/ SpoolUnit(c) \/ SealSpool(c) \/ ChecksumSpool(c)
        <5>1. UNCHANGED <<stop, stuck>>
          BY <4>2 DEF Begin, CheckDestination, PrepareInMemory, OpenSpool, SpoolUnit,
            SealSpool, ChecksumSpool, NextBlock, NameTaken, CreateTracked, CannotPrepare,
            AddUnit, CreateThenNoMemory, Cancelled, Faulty, Fail, Return, Goto, guarded
        <5> QED
          BY <5>1
      <4>3. CASE \/ PlanLayout(c) \/ OpenTemporary(c) \/ WriteFromMemory(c)
                 \/ WriteFromSpool(c)
        <5>1. UNCHANGED <<stop, stuck>>
          BY <4>3 DEF PlanLayout, OpenTemporary, WriteFromMemory, WriteFromSpool,
            WriteUnit, NextBlock, NameTaken, CreateTracked, CreateThenNoMemory,
            Cancelled, Faulty, Fail, Return, Goto, guarded
        <5> QED
          BY <5>1
      <4>4. CASE \/ Flush(c) \/ Close(c) \/ FinalCheck(c) \/ Link(c) \/ Summarize(c)
                 \/ OutOfMemory(c) \/ LeaveCall(c)
        <5>1. UNCHANGED <<stop, stuck>>
          BY <4>4 DEF Flush, Close, FinalCheck, Link, Summarize, OutOfMemory, LeaveCall,
            SummaryNoMemory, NextBlock, NameTaken, Cancelled, Faulty, Fail, Return, Goto,
            guarded
        <5> QED
          BY <5>1
      <4> QED
        BY <1>2, <4>1, <4>2, <4>3, <4>4, Zenon DEF CallStep
    <3>2. Unhindered
      BY <3>1 DEF Unhindered
    <3>3. OthersStand(c)
      BY <1>2, OthersUntouched DEF OthersStand
    <3>4. Advances(c) \/ Refused(rank, c)
      BY <1>2, <3>2, AdvancesOrIsRefused DEF Unhindered
    <3> QED
      BY <3>2, <3>3, <3>4, AheadWhenOneAdvances, AheadWhenOneIsRefused
  <2> QED
    BY <2>1, <2>2
<1>3. ASSUME NEW c \in Calls, RequestStop(c)
      PROVE  InvCalm' /\ InvAhead(rank)'
  <2>1. UNCHANGED <<fs, content, blk, tracked, stuck, stray, pc, result>>
    BY <1>3 DEF RequestStop, disk, local, guarded
  <2>2. ~Unhindered'
    BY <1>3 DEF RequestStop, Unhindered, TypeOK
  <2> QED
    BY <2>1, <2>2 DEF InvCalm, OnItsWay, Sealed, EndsByName, Spooled, InvAhead
<1>4. ~\E c \in Calls : Crash(c) \/ ForeignCreate(c)
  BY DEF Crash, ForeignCreate, Undisturbed
<1>5. ~\E c \in Calls : \E k \in DOMAIN Blocks[c] : TruncateSpool(c, k) \/ ExtendSpool(c, k)
  BY DEF TruncateSpool, ExtendSpool, Tamperable, Undisturbed
<1>6. ~\E n \in Names : RemoveLeftover(n)
  BY DEF RemoveLeftover, Undisturbed
<1> QED
  BY <1>1, <1>2, <1>3, <1>4, <1>5, <1>6 DEF Next, Environment

\* Where one ranking of the names agrees with the order in which each call
\* creates its own, and nothing but taken names, stops and failing removals gets
\* in the way, any number of calls that share names never all defeat each other:
\* a call gives up only while another is still working or after one has
\* succeeded (OpenSpool, OpenTemporary and Link refuse a taken name at once).
THEOREM SomebodyGetsThrough ==
  ASSUME NEW rank, CreatedAlong(rank), Undisturbed
  PROVE  Spec => []NoMutualDefeat
<1>1. Init => InvCalm /\ InvAhead(rank)
  <2> SUFFICES ASSUME Init PROVE InvAhead(rank)
    BY CalmInit
  <2> QED
    BY DEF Init, InvAhead, Failed
<1>2. TypeOK /\ IInv /\ InvCalm /\ InvAhead(rank) /\ [Next]_vars =>
        InvCalm' /\ InvAhead(rank)'
  BY CrowdKeeps
<1>3. TypeOK /\ IInv /\ InvCalm /\ InvAhead(rank) => NoMutualDefeat
  <2> SUFFICES ASSUME TypeOK, IInv, InvCalm, InvAhead(rank), Unhindered,
                      NEW c \in Calls, pc[c] = "returned", result[c] # "ok"
               PROVE  \E b \in Calls : Active(b) \/ result[b] = "ok"
    BY DEF NoMutualDefeat, Unhindered
  <2>1. Failed(c)
    BY DEF Failed, InvCalm, EndsByName
  <2>2. PICK b \in Calls : Won(b) \/ AheadOf(rank, b, c)
    BY <2>1 DEF InvAhead
  <2>3. Won(b) => Active(b) \/ result[b] = "ok"
    BY DEF Won, Active
  <2>4. AheadOf(rank, b, c) => Active(b)
    BY DEF AheadOf, Active, IInv, InvResult
  <2> QED
    BY <2>2, <2>3, <2>4
<1> QED
  BY <1>1, <1>2, <1>3, TypeCorrect, Inductive, PTL DEF Spec
=============================================================================
