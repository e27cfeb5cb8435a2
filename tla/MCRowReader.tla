---------------------------- MODULE MCRowReader -----------------------------
(* Two-row images whose pieces cut the rows in every awkward place, for TLC. *)
EXTENDS RowReader

Shape(normal, width, height, channels) ==
  [normal |-> normal, width |-> width, height |-> height, channels |-> channels]

Picture(shape, how, checksum, pieces) ==
  [normal |-> shape.normal, width |-> shape.width, height |-> shape.height,
   channels |-> shape.channels, compressed |-> how # "raw",
   shuffled |-> how = "shuffled", checksum |-> checksum, pieces |-> pieces]

Planar == Shape(FALSE, 2, 2, 2)
Normal == Shape(TRUE, 2, 2, 2)

Pictures ==
  {Picture(Planar, "raw", c, <<2, 2, 2, 2>>) : c \in BOOLEAN}
    \cup {Picture(Normal, "raw", c, <<4, 4>>) : c \in BOOLEAN}
    \cup {Picture(s, "packed", c, p) :
            s \in {Planar, Normal}, c \in BOOLEAN, p \in {<<3, 5>>, <<7, 1>>, <<8>>}}
    \cup {Picture(s, "shuffled", TRUE, p) :
            s \in {Planar, Normal}, p \in {<<8>>, <<4, 4>>}}
=============================================================================
