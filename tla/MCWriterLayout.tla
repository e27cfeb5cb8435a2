--------------------------- MODULE MCWriterLayout ---------------------------
(* Instances of WriterLayout for TLC.                                       *)
EXTENDS WriterLayout

\* Header lengths around the places where an offset gains a digit, with few
\* blocks of uneven sizes.
FewBlocks ==
  {[base |-> b, sizes |-> s] :
     b \in 60 .. 110 \cup 930 .. 1010,
     s \in {<<1>>, <<16, 16>>, <<7, 40, 1>>, <<1, 16, 15, 1, 17>>}}

\* Ten and fifteen small blocks that straddle 10^4: the most rounds a list of
\* fewer blocks than the alignment takes.
SmallBlocks ==
  {[base |-> b, sizes |-> [i \in 1 .. n |-> 16]] :
     b \in 9690 .. 9960, n \in {10, 15}}

\* Sums just below and above what a uint64_t holds: the end of a block, the
\* next aligned offset, the end of the header.
EdgeRequests ==
  {[base |-> 100, sizes |-> s] :
     s \in {<<Word - 16>>, <<Word - 21, 1>>, <<Word - 160>>, <<16, Word - 190>>}}
    \cup {[base |-> Word - k, sizes |-> <<1>>] : k \in {10, 20, 30}}

\* Enough blocks around 10^5 for the planner to give up.
GivesUp == [base |-> 98740, sizes |-> [i \in 1 .. 120 |-> 16]]

SmallRequests == FewBlocks \cup SmallBlocks \cup EdgeRequests \cup {GivesUp}

\* One image and 119 short vector Properties, all within the default limits.
ManyBlocks == {GivesUp, [GivesUp EXCEPT !.base = 98000]}
=============================================================================
