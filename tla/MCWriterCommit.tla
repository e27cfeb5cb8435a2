--------------------------- MODULE MCWriterCommit ---------------------------
(***************************************************************************)
(* Instances of WriterCommit for TLC: two to three calls whose names       *)
(* collide in the ways the path rules of the writer allow.                 *)
(***************************************************************************)
EXTENDS WriterCommit, TLC

CONSTANTS c1, c2, c3

U(k, j) == [block |-> k, at |-> j]
Raw == [kind |-> "raw", digest |-> FALSE, name |-> NoName, units |-> 1]
Packed == [kind |-> "packed", digest |-> FALSE, name |-> NoName, units |-> 1]
Spool(n, u) == [kind |-> "spool", digest |-> TRUE, name |-> n, units |-> u]
PlainSpool(n, u) == [Spool(n, u) EXCEPT !.digest = FALSE]

\* Two write_file calls for one destination; the first spools a block, the
\* second stays in memory.
PairDest == c1 :> "a" @@ c2 :> "a"
PairTemp == c1 :> "a.tmp" @@ c2 :> "a.tmp"
PairBlocks == c1 :> <<Spool("a.b0", 2)>> @@ c2 :> <<Packed>>
PairPlan == c1 :> <<U(0, 1), U(1, 1), U(1, 2)>> @@ c2 :> <<U(0, 1), U(0, 2)>>

\* Two write_file calls for one destination and a write_to whose scratch stem is
\* that destination: one keeps its block in memory, the others spool, one of them
\* two blocks.
CrowdDest == c1 :> "a" @@ c2 :> NoName @@ c3 :> "a"
CrowdTemp == c1 :> "a.tmp" @@ c2 :> NoName @@ c3 :> "a.tmp"
CrowdBlocks == c1 :> <<PlainSpool("a.b0", 1)>>
            @@ c2 :> <<PlainSpool("a.b0", 1), PlainSpool("a.b1", 1)>>
            @@ c3 :> <<Packed>>
CrowdPlan == c1 :> <<U(1, 1)>>
          @@ c2 :> <<U(1, 1), U(2, 1)>>
          @@ c3 :> <<U(0, 1)>>

\* All of these calls create their names in this order.
NameRank ==
  [n \in Names |-> CASE n = "a.b0" -> 0 [] n = "a.b1" -> 1
                      [] n = "a.tmp" -> 2 [] n = "a" -> 3]

ASSUME OrderedNames == CreatedAlong(NameRank)
=============================================================================
