--------------------------- MODULE AtomicPublish ---------------------------
(***************************************************************************)
(* What Writer::write_file promises to the callers that share a directory, *)
(* with every intermediate file left out: a destination name is taken at   *)
(* most once, by a single commit, and a call that reports success is the   *)
(* one that committed.  The detailed protocol is WriterCommit, which is    *)
(* checked and proved to implement this module.                            *)
(***************************************************************************)
CONSTANTS Calls,     \* the write_file calls
          Dest,      \* the destination name each of them was given
          Free,      \* nothing exists under the name
          Taken      \* something that no call published exists under it

Dests == {Dest[c] : c \in Calls}

VARIABLES entry,     \* what each destination name stands for
          phase      \* how far each call got

vars == <<entry, phase>>

TypeOK ==
  /\ entry \in [Dests -> Calls \cup {Free, Taken}]
  /\ phase \in [Calls -> {"running", "committed", "ok", "failed", "lost"}]

Init ==
  /\ entry \in [Dests -> {Free, Taken}]
  /\ phase = [c \in Calls |-> "running"]

\* The single step that makes a complete file visible.
Commit(c) ==
  /\ phase[c] = "running"
  /\ entry[Dest[c]] = Free
  /\ entry' = [entry EXCEPT ![Dest[c]] = c]
  /\ phase' = [phase EXCEPT ![c] = "committed"]

Succeed(c) ==
  /\ phase[c] = "committed"
  /\ phase' = [phase EXCEPT ![c] = "ok"]
  /\ UNCHANGED entry

\* A call may fail with nothing published; after the commit the code can only
\* fail by running out of memory, and then the file stays published.
Fail(c) ==
  /\ phase[c] \in {"running", "committed"}
  /\ phase' = [phase EXCEPT ![c] = "failed"]
  /\ UNCHANGED entry

\* The process that made the call dies before the call returns.
Lose(c) ==
  /\ phase[c] \in {"running", "committed"}
  /\ phase' = [phase EXCEPT ![c] = "lost"]
  /\ UNCHANGED entry

\* Others create and remove files under names nobody has published.
Outside(d) ==
  /\ entry[d] \in {Free, Taken}
  /\ \E v \in {Free, Taken} : entry' = [entry EXCEPT ![d] = v]
  /\ UNCHANGED phase

Next ==
  \/ \E c \in Calls : Commit(c) \/ Succeed(c) \/ Fail(c) \/ Lose(c)
  \/ \E d \in Dests : Outside(d)

Spec == Init /\ [][Next]_vars

=============================================================================
