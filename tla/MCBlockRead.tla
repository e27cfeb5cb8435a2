---------------------------- MODULE MCBlockRead -----------------------------
(* Two reads at once over a file of nine bytes, for TLC, in three            *)
(* combinations: straight from the file, staged, and one of each.            *)
EXTENDS BlockRead, TLC

CONSTANTS c1, c2

\* A 2 x 2 byte image, and a complex sample of two components of two bytes.
Image(offset) ==
  [offset |-> offset, compressed |-> FALSE, checksum |-> FALSE,
   channels |-> 2, pixels |-> 2, components |-> 1, width |-> 1,
   planar |-> FALSE, toPlanar |-> FALSE, swapped |-> FALSE]
Complex(offset) ==
  [Image(offset) EXCEPT !.channels = 1, !.pixels = 1, !.components = 2,
                        !.width = 2, !.swapped = TRUE]

Combinations == {
  (c1 :> [Image(1) EXCEPT !.toPlanar = TRUE]) @@ (c2 :> Complex(5)),
  (c1 :> [Image(1) EXCEPT !.planar = TRUE, !.compressed = TRUE]) @@
  (c2 :> [Complex(5) EXCEPT !.checksum = TRUE]),
  (c1 :> [Complex(1) EXCEPT !.compressed = TRUE, !.checksum = TRUE]) @@
  (c2 :> [Complex(5) EXCEPT !.components = 1, !.pixels = 2,
                            !.toPlanar = TRUE]) }
=============================================================================
