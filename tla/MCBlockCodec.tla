---------------------------- MODULE MCBlockCodec ----------------------------
(* Every block of at most five bytes, and foreign descriptors whose sums can *)
(* miss, match or overflow, for TLC.                                        *)
EXTENDS BlockCodec

SmallBlocks ==
  {r \in [size : 1 .. 5, item : 1 .. 3, shuffle : BOOLEAN, chunk : 1 .. 5] :
     r.chunk <= r.size}

Numbers == {0, 1, 2, 7}
Pairs == Numbers \X Numbers

ForeignBlocks ==
  {[size |-> n, item |-> 2, shuffle |-> sh, declared |-> d, declaredItem |-> i,
    serialized |-> c, subblocks |-> l] :
     n \in {0, 3}, sh \in BOOLEAN, d \in {0, 3}, i \in {1, 2}, c \in {0, 2, 3},
     l \in {<< >>} \cup {<<p>> : p \in Pairs} \cup {<<p, q>> : p, q \in Pairs}
           \cup {<<p, q, p>> : p, q \in Pairs}}
=============================================================================
