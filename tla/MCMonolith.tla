----------------------------- MODULE MCMonolith -----------------------------
(***************************************************************************)
(* For TLC: the requests of MCWriterLayout and some short files whose layout *)
(* takes one to three rounds, and every small file that others may write.    *)
(***************************************************************************)
EXTENDS Monolith, MCWriterLayout

ShortFiles ==
  {[base |-> b, sizes |-> s] :
     b \in 70 .. 100,
     s \in {<<5, 16>>, <<16, 2, 9>>, <<1, 1, 1, 1>>, <<3, 30, 3, 30>>}}

MonolithRequests == SmallRequests \cup ShortFiles

\* Foreign files have a payload of at most six bytes behind the preamble.
Payload == 6
RangesSmall ==
  [offset : {Reader!PreambleSize + i : i \in 0 .. Payload + 1}, size : 0 .. 2]
Bytes1 == [offset : {Reader!PreambleSize + i : i \in 1 .. Payload}, size : {1}]

\* Two or fewer ranges anywhere, in any order, or three with one byte each.
RangeLists ==
  {<< >>} \cup {<<r>> : r \in RangesSmall}
    \cup {<<r, s>> : r, s \in RangesSmall}
    \cup {<<r, s, t>> : r, s, t \in Bytes1}

Intact(length, list, dirt) ==
  [size |-> Reader!PreambleSize + Payload, signed |-> TRUE, reserved |-> TRUE,
   length |-> length, sound |-> TRUE, ranges |-> list, dirty |-> dirt]

\* At most one byte that is not zero; headers of one and two bytes.
WellFramed ==
  {Intact(length, list, dirt) :
     length \in {1, 2}, list \in RangeLists,
     dirt \in {{}} \cup {{Reader!PreambleSize + b} : b \in 1 .. Payload - 1}}

\* Preambles that promise too much, too little or nothing.
Damaged ==
  [size : {0, 15, 16, 17, 18}, signed : BOOLEAN, reserved : BOOLEAN,
   length : {0, 1, 2, 3, 17, 9999}, sound : BOOLEAN, ranges : {<< >>}, dirty : {{}}]

\* Gaps that only together exceed the budget.
Spacious ==
  {[Intact(2, <<[offset |-> o, size |-> 1], [offset |-> p, size |-> 1]>>, {})
      EXCEPT !.size = 70] : o \in {18, 30, 38}, p \in {31, 39, 60, 69}}

AllForeign == WellFramed \cup Spacious \cup Damaged
=============================================================================
