-------------------------- MODULE BlockCodecProofs --------------------------
(***************************************************************************)
(* What module BlockCodec claims of a compressed block, proved for blocks,    *)
(* items and sub-blocks of every size and for every descriptor a header can   *)
(* hold.                                                                     *)
(***************************************************************************)
EXTENDS BlockCodec, ArithmeticLemmas

-----------------------------------------------------------------------------
(* Sums of sizes.                                                             *)

\* SumOf with one more size, and with the first sizes only.
LEMMA SizeSums ==
  ASSUME NEW s, NEW n \in Nat
  PROVE  /\ SumOf(s, 0) = 0
         /\ SumOf(s, n + 1) = SumOf(s, n) + s[n + 1]
BY SumToNext DEF SumOf, SumTo

\* Sums of sizes are numbers and grow.
LEMMA SizeBounds ==
  ASSUME NEW s, NEW m \in Nat, \A i \in 1 .. m : s[i] \in Nat,
         NEW n \in 0 .. m
  PROVE  SumOf(s, n) \in Nat /\ SumOf(s, n) <= SumOf(s, m)
BY SumToFacts DEF SumOf, SumTo

\* The first n sizes determine their sum.
LEMMA SameSizes ==
  ASSUME NEW s, NEW t, NEW n \in Nat, \A i \in 1 .. n : s[i] = t[i]
  PROVE  SumOf(s, n) = SumOf(t, n)
BY SumToSame DEF SumOf, SumTo

\* One size, between where it begins and where it ends.
LEMMA SizeWithin ==
  ASSUME NEW s, NEW m \in Nat, \A i \in 1 .. m : s[i] \in Nat,
         NEW n \in 1 .. m
  PROVE  /\ SumOf(s, n - 1) \in Nat /\ SumOf(s, n) \in Nat
         /\ SumOf(s, n) = SumOf(s, n - 1) + s[n]
         /\ SumOf(s, n) <= SumOf(s, m)
<1>1. n - 1 \in 0 .. m /\ n \in 0 .. m /\ n - 1 \in Nat /\ (n - 1) + 1 = n
  OBVIOUS
<1>2. SumOf(s, n - 1) \in Nat /\ SumOf(s, n) \in Nat /\ SumOf(s, n) <= SumOf(s, m)
  BY <1>1, SizeBounds
<1>3. SumOf(s, (n - 1) + 1) = SumOf(s, n - 1) + s[(n - 1) + 1]
  BY <1>1, SizeSums
<1> QED
  BY <1>1, <1>2, <1>3

-----------------------------------------------------------------------------
(* Shuffling.                                                                 *)

\* The reader scatters to where the writer gathered from.
LEMMA ScatterIsGather ==
  ASSUME NEW size, NEW item, NEW g
  PROVE  ScatteredTo(size, item, g) = ShuffledFrom(size, item, g)
BY DEF ScatteredTo, ShuffledFrom

\* The whole items of a block lie inside it.
LEMMA WholeItems ==
  ASSUME NEW size \in Nat, NEW item \in Nat \ {0}
  PROVE  /\ size \div item \in Nat
         /\ (size \div item) * item \in Nat
         /\ (size \div item) * item <= size
         /\ (size \div item) * item = item * (size \div item)
<1>1. PICK q, r : q = size \div item /\ r = size % item
  OBVIOUS
<1>2. q \in Nat /\ r \in 0 .. item - 1 /\ size = q * item + r
  BY <1>1, DivMod
<1>3. q * item \in Nat /\ q * item = item * q
  BY <1>2
<1> QED
  BY <1>1, <1>2, <1>3

\* A place of the shuffled block is taken from a place of the block.
LEMMA ShuffleInside ==
  ASSUME NEW size \in Nat, NEW item \in Nat \ {0}, NEW g \in 0 .. size - 1
  PROVE  ShuffledFrom(size, item, g) \in 0 .. size - 1
<1>1. PICK q : q = size \div item
  OBVIOUS
<1>2. q \in Nat /\ q * item \in Nat /\ q * item <= size /\ q * item = item * q
  BY <1>1, WholeItems
<1>3. CASE g < q * item
  <2>1. q \in Nat \ {0}
    BY <1>2, <1>3
  <2>2. g \in 0 .. item * q - 1
    BY <1>2, <1>3
  <2>3. g \div q \in 0 .. item - 1 /\ g % q \in 0 .. q - 1
    BY <2>1, <2>2, InPart
  <2>4. (g % q) * item + g \div q \in 0 .. q * item - 1
    BY <1>2, <2>3, InWhole
  <2>5. ShuffledFrom(size, item, g) = (g % q) * item + g \div q
    BY <1>1, <1>3 DEF ShuffledFrom
  <2> QED
    BY <1>2, <2>4, <2>5
<1>4. CASE ~(g < q * item)
  BY <1>1, <1>4 DEF ShuffledFrom
<1> QED
  BY <1>3, <1>4

\* No place of the block is left out.
LEMMA ShuffleOnto ==
  ASSUME NEW size \in Nat, NEW item \in Nat \ {0}, NEW i \in 0 .. size - 1
  PROVE  \E g \in 0 .. size - 1 : ShuffledFrom(size, item, g) = i
<1>1. PICK q : q = size \div item
  OBVIOUS
<1>2. q \in Nat /\ q * item \in Nat /\ q * item <= size /\ q * item = item * q
  BY <1>1, WholeItems
<1>3. CASE i < q * item
  <2>1. q \in Nat \ {0} /\ i \in 0 .. q * item - 1
    BY <1>2, <1>3
  <2>2. PICK x, y : x = i \div item /\ y = i % item
    OBVIOUS
  <2>3. x \in 0 .. q - 1 /\ y \in 0 .. item - 1 /\ i = x * item + y
    <3>1. x \in 0 .. q - 1 /\ y \in 0 .. item - 1
      BY <2>1, <2>2, <1>2, InPart
    <3>2. i \in Nat
      BY <2>1
    <3>3. i = (i \div item) * item + (i % item)
      BY <3>2, DivMod
    <3> QED
      BY <2>2, <3>1, <3>3
  <2>4. PICK g : g = y * q + x
    OBVIOUS
  <2>5. g \in 0 .. item * q - 1
    BY <2>1, <2>3, <2>4, InWhole
  <2>6. g \div q = y /\ g % q = x
    BY <2>1, <2>3, <2>4, DivModOf
  <2>7. g < q * item /\ g \in 0 .. size - 1
    BY <1>2, <2>5
  <2>8. ShuffledFrom(size, item, g) = (g % q) * item + g \div q
    BY <1>1, <2>7 DEF ShuffledFrom
  <2> QED
    BY <2>3, <2>6, <2>7, <2>8
<1>4. CASE ~(i < q * item)
  <2>1. ShuffledFrom(size, item, i) = i
    BY <1>1, <1>4 DEF ShuffledFrom
  <2> QED
    BY <2>1
<1> QED
  BY <1>3, <1>4

\* The same of the block in hand, shuffled or not.
LEMMA GatheredFacts ==
  ASSUME request \in Request
  PROVE  /\ \A g \in 0 .. request.size - 1 : Gathered(g) \in 0 .. request.size - 1
         /\ \A i \in 0 .. request.size - 1 :
              \E g \in 0 .. request.size - 1 : Gathered(g) = i
<1>1. request.size \in Nat /\ request.item \in Nat \ {0}
  BY DEF Request
<1>2. CASE request.shuffle
  <2>1. \A g : Gathered(g) = ShuffledFrom(request.size, request.item, g)
    BY <1>2 DEF Gathered
  <2>2. \A g \in 0 .. request.size - 1 :
          ShuffledFrom(request.size, request.item, g) \in 0 .. request.size - 1
    BY <1>1, ShuffleInside
  <2>3. \A i \in 0 .. request.size - 1 : \E g \in 0 .. request.size - 1 :
          ShuffledFrom(request.size, request.item, g) = i
    BY <1>1, ShuffleOnto
  <2> QED
    BY <2>1, <2>2, <2>3
<1>3. CASE ~request.shuffle
  BY <1>3 DEF Gathered
<1> QED
  BY <1>2, <1>3

-----------------------------------------------------------------------------
(* What the invariant says of the streams.                                    *)

\* What is indexed from one is a sequence.
LEMMA FunctionIsSequence ==
  ASSUME NEW S, NEW n \in Nat, NEW f \in [1 .. n -> S]
  PROVE  f \in Seq(S) /\ Len(f) = n
OBVIOUS

\* Sequences with the same elements are the same.
LEMMA SameSequence ==
  ASSUME NEW S, NEW s \in Seq(S), NEW t \in Seq(S), Len(s) = Len(t),
         \A i \in 1 .. Len(s) : s[i] = t[i]
  PROVE  s = t
OBVIOUS

\* A stretch of a sequence.
LEMMA StretchFacts ==
  ASSUME NEW s, NEW a \in Nat, NEW n \in Nat
  PROVE  SubSeq(s, a + 1, a + n) = [j \in 1 .. n |-> s[a + j]]
<1>1. PICK f, e : f = a + 1 /\ e = a + n
  OBVIOUS
<1>2. (1 + e) - f = n /\ f \in Int /\ e \in Int
  BY <1>1
<1>3. \A j \in 1 .. n : (j + f) - 1 = a + j
  BY <1>1
<1>4. SubSeq(s, f, e) = [j \in 1 .. n |-> s[a + j]]
  BY <1>2, <1>3
<1> QED
  BY <1>1, <1>4

\* One sequence after another.
LEMMA ConcatFacts ==
  ASSUME NEW S, NEW s \in Seq(S), NEW t \in Seq(S)
  PROVE  /\ s \o t \in Seq(S) /\ Len(s \o t) = Len(s) + Len(t)
         /\ \A i \in 1 .. Len(s) : (s \o t)[i] = s[i]
         /\ \A j \in 1 .. Len(t) : (s \o t)[Len(s) + j] = t[j]
OBVIOUS

\* A block of the writer's has the sizes of its request.
LEMMA OursFacts ==
  ASSUME TypeOK, Ours
  PROVE  /\ request \in Request
         /\ request.size \in Nat \ {0} /\ request.item \in Nat \ {0}
         /\ request.chunk \in Nat \ {0} /\ request.shuffle \in BOOLEAN
<1>1. request \in Request
  BY CodecAssumption DEF TypeOK, Ours
<1> QED
  BY <1>1 DEF Request

\* Streams and their inputs follow one another.
LEMMA StreamFacts ==
  ASSUME TypeOK
  PROVE  /\ Len(streams) \in Nat /\ DOMAIN streams = 1 .. Len(streams)
         /\ \A k \in 1 .. Len(streams) :
              /\ streams[k].bytes \in Seq(Nat) /\ streams[k].size \in Nat \ {0}
              /\ Len(streams[k].bytes) \in Nat
              /\ StreamSizes[k] = streams[k].size
              /\ InputSizes[k] = Len(streams[k].bytes)
         /\ StreamEnd(0) = 0 /\ InputEnd(0) = 0
         /\ Serialized = StreamEnd(Len(streams))
         /\ StreamEnd(Len(streams)) \in Nat /\ InputEnd(Len(streams)) \in Nat
<1>1. Len(streams) \in Nat /\ DOMAIN streams = 1 .. Len(streams)
  BY DEF TypeOK
<1>2. ASSUME NEW k \in 1 .. Len(streams)
      PROVE  /\ streams[k].bytes \in Seq(Nat) /\ streams[k].size \in Nat \ {0}
             /\ Len(streams[k].bytes) \in Nat
             /\ StreamSizes[k] = streams[k].size
             /\ InputSizes[k] = Len(streams[k].bytes)
  <2>1. streams[k] \in [bytes : Seq(Nat), size : Nat \ {0}]
    <3>1. PICK S : S = [bytes : Seq(Nat), size : Nat \ {0}]
      OBVIOUS
    <3>2. streams \in Seq(S)
      BY <3>1 DEF TypeOK
    <3>3. streams[k] \in S
      BY <3>2
    <3> QED
      BY <3>1, <3>3
  <2>2. streams[k].bytes \in Seq(Nat) /\ streams[k].size \in Nat \ {0}
    BY <2>1
  <2>3. StreamSizes[k] = streams[k].size /\ InputSizes[k] = Len(streams[k].bytes)
    BY <1>1 DEF StreamSizes, InputSizes
  <2> QED
    BY <2>2, <2>3
<1>3. StreamEnd(0) = 0 /\ InputEnd(0) = 0
  BY SizeSums DEF StreamEnd, InputEnd
<1>4. Serialized = StreamEnd(Len(streams))
  BY DEF Serialized, StreamEnd, StreamSizes
<1>5. StreamEnd(Len(streams)) \in Nat /\ InputEnd(Len(streams)) \in Nat
  <2>1. Len(streams) \in 0 .. Len(streams)
    BY <1>1
  <2> QED
    BY <1>1, <1>2, <2>1, SizeBounds DEF StreamEnd, InputEnd
<1> QED
  BY <1>1, <1>2, <1>3, <1>4, <1>5

\* One stream among them.
LEMMA StreamWithin ==
  ASSUME TypeOK, NEW k \in 1 .. Len(streams)
  PROVE  /\ StreamEnd(k - 1) \in Nat /\ StreamEnd(k) \in Nat
         /\ StreamEnd(k) = StreamEnd(k - 1) + streams[k].size
         /\ StreamEnd(k) <= Serialized
         /\ InputEnd(k - 1) \in Nat /\ InputEnd(k) \in Nat
         /\ InputEnd(k) = InputEnd(k - 1) + Len(streams[k].bytes)
         /\ InputEnd(k) <= InputEnd(Len(streams))
<1>1. /\ Len(streams) \in Nat
      /\ \A i \in 1 .. Len(streams) : StreamSizes[i] \in Nat /\ InputSizes[i] \in Nat
      /\ StreamSizes[k] = streams[k].size /\ InputSizes[k] = Len(streams[k].bytes)
      /\ Serialized = StreamEnd(Len(streams))
  BY StreamFacts
<1>2. PICK s, u, L : s = StreamSizes /\ u = InputSizes /\ L = Len(streams)
  OBVIOUS
<1>3. /\ SumOf(s, k - 1) \in Nat /\ SumOf(s, k) \in Nat
      /\ SumOf(s, k) = SumOf(s, k - 1) + s[k] /\ SumOf(s, k) <= SumOf(s, L)
  BY <1>1, <1>2, SizeWithin
<1>4. /\ SumOf(u, k - 1) \in Nat /\ SumOf(u, k) \in Nat
      /\ SumOf(u, k) = SumOf(u, k - 1) + u[k] /\ SumOf(u, k) <= SumOf(u, L)
  BY <1>1, <1>2, SizeWithin
<1> QED
  BY <1>1, <1>2, <1>3, <1>4 DEF StreamEnd, InputEnd

\* A step that writes nothing leaves what was written.
LEMMA WritingKept ==
  ASSUME InvWriting, UNCHANGED writing
  PROVE  InvWriting'
BY DEF InvWriting, writing, InputEnd, InputSizes, StreamEnd, StreamSizes, Gathered,
       ShuffledFrom, Serialized, UseSpool, Ours

\* What makes the reader refuse a block of the writer's.
Excess ==
  \/ request.size > Least(MaxDecoded, Len(stored) * MaxRatio)
  \/ \E k \in DOMAIN streams :
       streams[k].size > CodecLimit \/ Len(streams[k].bytes) > CodecLimit

\* A failure changes nothing but the step and the result.
LEMMA FailKeeps ==
  ASSUME IInv, NEW e \in CodecErrors, Fail(e),
         Ours => e \notin {"invalid_block", "overflow", "codec"},
         Ours /\ descr # NoDescr /\ e = "resource_limit" => Excess
  PROVE  IInv'
<1>1. /\ step' = "failed" /\ result' = e /\ UNCHANGED <<writing, descr, reading>>
  BY DEF Fail
<1>2. TypeOK'
  BY <1>1 DEF IInv, TypeOK, writing, reading
<1>3. InvWriting'
  BY <1>1, WritingKept DEF IInv
<1>4. InvPhases'
  BY <1>1 DEF InvPhases
<1>5. InvPlan'
  BY <1>1 DEF IInv, InvPlan, Plausible, Oversized, Malformed, TooLarge, MaxOutput,
     reading
<1>6. InvDecoding'
  BY <1>1 DEF InvDecoding
<1>7. ReadsBack'
  BY <1>1 DEF ReadsBack, Excess, Ours, writing
<1> QED
  BY <1>2, <1>3, <1>4, <1>5, <1>6, <1>7 DEF IInv

-----------------------------------------------------------------------------
(* The writer's steps.                                                        *)

LEMMA InitHolds ==
  ASSUME Init
  PROVE  IInv
<1>1. TypeOK
  <2>1. NoDescr \in Descriptor
    BY DEF NoDescr, Descriptor
  <2>2. DOMAIN output = 0 .. descr.size - 1
    BY DEF Init, NoDescr
  <2>3. totals \in (0 .. Word - 1) \X (0 .. Word - 1)
    BY CodecAssumption DEF Init
  <2> QED
    BY <2>1, <2>2, <2>3 DEF Init, TypeOK, NoRequest
<1>2. InvWriting
  <2>1. SumOf(StreamSizes, 0) = 0 /\ SumOf(InputSizes, 0) = 0
    BY SizeSums
  <2>2. Serialized = 0 /\ InputEnd(0) = 0
    BY <2>1 DEF Init, Serialized, StreamSizes, InputEnd
  <2> QED
    BY <2>2, CodecAssumption DEF Init, InvWriting, Ours
<1>3. InvPhases /\ InvPlan /\ InvDecoding /\ ReadsBack
  BY DEF Init, InvPhases, InvPlan, InvDecoding, ReadsBack, Ours
<1> QED
  BY <1>1, <1>2, <1>3 DEF IInv

LEMMA PrepareKeeps ==
  ASSUME IInv, NEW r \in Requests, Prepare(r)
  PROVE  IInv'
<1>1. /\ step = "idle" /\ request' = r /\ step' = "compress"
      /\ UNCHANGED <<streams, stored, taken, descr, reading, result>>
  BY DEF Prepare
<1>2. ~Ours /\ streams = << >> /\ stored = << >> /\ result = "none"
  BY <1>1 DEF IInv, InvPhases
<1>3. r \in Request /\ r.size \in Nat \ {0}
  BY CodecAssumption DEF Request
<1>4. Ours' /\ taken = 0
  <2>1. r # NoRequest
    BY <1>3 DEF NoRequest
  <2> QED
    BY <1>1, <1>2, <1>3, <2>1 DEF Ours, NoRequest, IInv, TypeOK
<1>5. TypeOK'
  BY <1>1, <1>3, <1>4 DEF IInv, TypeOK, reading
<1>6. InvWriting'
  <2>1. Serialized' = Serialized /\ InputEnd(0)' = InputEnd(0)
    BY <1>1 DEF Serialized, InputEnd, InputSizes
  <2>2. Serialized = 0 /\ InputEnd(0) = 0
    BY <1>2, StreamFacts DEF IInv
  <2> QED
    BY <1>1, <1>2, <1>4, <2>1, <2>2, CodecAssumption DEF InvWriting
<1>7. InvPhases'
  BY <1>1, <1>4 DEF IInv, InvPhases, reading
<1>8. InvPlan' /\ InvDecoding'
  BY <1>1 DEF IInv, InvPhases, InvPlan, InvDecoding, reading
<1>9. ReadsBack'
  BY <1>1, <1>2 DEF ReadsBack
<1> QED
  BY <1>5, <1>6, <1>7, <1>8, <1>9 DEF IInv

LEMMA ForeignKeeps ==
  ASSUME IInv, NEW d \in Descriptors, Foreign(d)
  PROVE  IInv'
<1>1. /\ step = "idle" /\ descr' = d
      /\ stored' = [j \in 1 .. d.serialized |-> <<0, j>>]
      /\ output' = [i \in 0 .. d.size - 1 |-> Unknown]
      /\ step' = "parse"
      /\ UNCHANGED <<request, streams, taken, totals, plan, from, to, decoded,
                     result>>
  BY DEF Foreign
<1>2. /\ ~Ours /\ streams = << >> /\ plan = << >> /\ totals = <<0, 0>>
      /\ from = 0 /\ to = 0 /\ decoded = 0 /\ result = "none"
  BY <1>1 DEF IInv, InvPhases
<1>3. d \in Descriptor /\ d.size \in Nat /\ d.serialized \in Nat
      /\ Len(d.subblocks) \in Nat
  BY CodecAssumption DEF Descriptor
<1>4. ~Ours'
  BY <1>1, <1>2 DEF Ours
<1>5. TypeOK'
  <2>1. stored' \in Seq(Nat \X Nat)
    <3>1. stored' \in [1 .. d.serialized -> Nat \X Nat]
      BY <1>1
    <3> QED
      BY <1>3, <3>1, FunctionIsSequence
  <2>2. /\ DOMAIN output' = 0 .. descr'.size - 1
        /\ \A i \in DOMAIN output' : output'[i] \in Nat \cup {Unknown}
    BY <1>1, <1>3
  <2> QED
    BY <1>1, <1>3, <2>1, <2>2 DEF IInv, TypeOK
<1>6. InvWriting'
  <2>1. Serialized' = Serialized /\ InputEnd(0)' = InputEnd(0)
    BY <1>1 DEF Serialized, InputEnd, InputSizes
  <2>2. Serialized = 0 /\ InputEnd(0) = 0 /\ taken = 0
    BY <1>2, StreamFacts DEF IInv, InvWriting
  <2> QED
    BY <1>1, <1>2, <1>4, <2>1, <2>2, CodecAssumption DEF InvWriting
<1>7. InvPhases'
  BY <1>1, <1>2, <1>3, <1>4 DEF InvPhases
<1>8. InvPlan'
  <2>1. plan' = << >> /\ totals' = <<0, 0>> /\ Len(plan') = 0
    BY <1>1, <1>2
  <2>2. SumOf(Compressed(plan'), 0) = 0 /\ SumOf(Uncompressed(plan'), 0) = 0
    BY SizeSums
  <2> QED
    BY <1>1, <1>3, <2>1, <2>2 DEF InvPlan
<1>9. InvDecoding'
  BY <1>1, <1>2, <1>4, SizeSums DEF InvDecoding
<1>10. ReadsBack'
  BY <1>1, <1>4 DEF ReadsBack
<1> QED
  BY <1>5, <1>6, <1>7, <1>8, <1>9, <1>10 DEF IInv

LEMMA DescribeKeeps ==
  ASSUME IInv, Describe
  PROVE  IInv'
<1>1. /\ step = "compress" /\ taken = request.size
      /\ descr' = Described
      /\ output' = [i \in 0 .. request.size - 1 |-> Unknown]
      /\ step' = "parse"
      /\ UNCHANGED <<writing, totals, plan, from, to, decoded, result>>
  BY DEF Describe, Described
<1>2. /\ Ours /\ plan = << >> /\ totals = <<0, 0>>
      /\ from = 0 /\ to = 0 /\ decoded = 0 /\ result = "none"
  BY <1>1 DEF IInv, InvPhases
<1>3. /\ request.size \in Nat \ {0} /\ request.item \in Nat \ {0}
      /\ request.shuffle \in BOOLEAN
  BY <1>2, OursFacts DEF IInv
<1>4. Serialized \in Nat /\ Len(stored) = Serialized
  BY <1>2, StreamFacts DEF IInv, InvWriting
<1>5. SubblockSizes \in Seq(Nat \X Nat)
  <2>1. /\ Len(streams) \in Nat /\ DOMAIN streams = 1 .. Len(streams)
        /\ \A k \in 1 .. Len(streams) :
             streams[k].size \in Nat /\ Len(streams[k].bytes) \in Nat
    BY StreamFacts DEF IInv
  <2> QED
    BY <2>1 DEF SubblockSizes
<1>6. Described \in Descriptor
  BY <1>3, <1>4, <1>5 DEF Described, Descriptor
<1>7. /\ Described.size = request.size /\ Described.serialized = Serialized
      /\ Len(Described.subblocks) \in Nat
  BY <1>5 DEF Described
<1>8. TypeOK'
  <2>1. /\ DOMAIN output' = 0 .. descr'.size - 1
        /\ \A i \in DOMAIN output' : output'[i] \in Nat \cup {Unknown}
    BY <1>1, <1>3, <1>7
  <2> QED
    BY <1>1, <1>6, <2>1 DEF IInv, TypeOK, writing
<1>9. InvWriting'
  BY <1>1, WritingKept DEF IInv
<1>10. InvPhases'
  <2>1. /\ Described' = Described /\ Ours' /\ taken' = taken /\ request' = request
        /\ stored' = stored
    BY <1>1, <1>2 DEF writing, Described, Ours, Serialized, SubblockSizes
  <2> QED
    BY <1>1, <1>2, <1>4, <1>7, <2>1 DEF InvPhases
<1>11. InvPlan'
  <2>1. plan' = << >> /\ totals' = <<0, 0>> /\ Len(plan') = 0
    BY <1>1, <1>2
  <2>2. SumOf(Compressed(plan'), 0) = 0 /\ SumOf(Uncompressed(plan'), 0) = 0
    BY SizeSums
  <2> QED
    BY <1>1, <1>7, <2>1, <2>2 DEF InvPlan
<1>12. InvDecoding'
  <2>1. to' = 0 /\ from' = 0 /\ decoded' = 0
    BY <1>1, <1>2
  <2>2. \A i \in DOMAIN output' : output'[i] \in {i, Unknown}
    BY <1>1
  <2> QED
    BY <1>1, <2>1, <2>2, SizeSums DEF InvDecoding
<1>13. ReadsBack'
  BY <1>1, <1>2 DEF ReadsBack
<1> QED
  BY <1>8, <1>9, <1>10, <1>11, <1>12, <1>13 DEF IInv

\* The input of the next stream: the bytes of the next places.
LEMMA InputFacts ==
  ASSUME TypeOK, Ours, taken < request.size
  PROVE  /\ Len(Input) \in Nat \ {0} /\ taken + Len(Input) <= request.size
         /\ ~UseSpool /\ taken = 0 => Len(Input) = request.size
         /\ Input \in Seq(Nat)
         /\ DOMAIN Input = 1 .. Len(Input)
         /\ \A j \in 1 .. Len(Input) : Input[j] = Gathered((taken + j) - 1)
<1>1. PICK n : n = Least(request.chunk, request.size - taken)
  OBVIOUS
<1>2. /\ request.size \in Nat \ {0} /\ request.chunk \in Nat \ {0} /\ taken \in Nat
      /\ request \in Request
  BY OursFacts DEF TypeOK
<1>3. n \in Nat \ {0} /\ taken + n <= request.size
  BY <1>1, <1>2 DEF Least
<1>4. ~UseSpool /\ taken = 0 => n = request.size
  BY <1>1, <1>2 DEF Least, UseSpool
<1>5. Input = [j \in 1 .. n |-> Gathered((taken + j) - 1)]
  <2>1. Input = [j \in 1 .. n |-> Gathered(taken + j - 1)]
    BY <1>1 DEF Input, Gathered
  <2>2. \A j \in 1 .. n : taken + j - 1 = (taken + j) - 1
    BY <1>2
  <2> QED
    BY <2>1, <2>2
<1>6. ASSUME NEW j \in 1 .. n
      PROVE  Gathered((taken + j) - 1) \in Nat
  <2>1. (taken + j) - 1 \in 0 .. request.size - 1
    BY <1>2, <1>3
  <2>2. Gathered((taken + j) - 1) \in 0 .. request.size - 1
    BY <1>2, <2>1, GatheredFacts
  <2> QED
    BY <2>2
<1>7. Input \in [1 .. n -> Nat]
  BY <1>5, <1>6
<1>8. Input \in Seq(Nat) /\ Len(Input) = n
  BY <1>3, <1>7, FunctionIsSequence
<1> QED
  BY <1>3, <1>4, <1>5, <1>8

\* One more stream.
LEMMA ChunkKeeps ==
  ASSUME IInv, step = "compress", taken < request.size,
         Len(streams) < MaxSubblocks, Budget > 0,
         NEW n \in 1 .. Len(Input) + Growth, n <= Budget,
         streams' = Append(streams, [bytes |-> Input, size |-> n]),
         stored' = Keep([j \in 1 .. n |-> <<Len(streams) + 1, j>>]),
         taken' = taken + Len(Input),
         UNCHANGED <<request, step, descr, reading, result>>
  PROVE  IInv'
<1>1. Ours /\ result = "none"
  BY DEF IInv, InvPhases
<1>2. /\ request \in Request /\ request.size \in Nat \ {0}
      /\ request.chunk \in Nat \ {0} /\ taken \in Nat
  BY <1>1, OursFacts DEF IInv, TypeOK
<1>3. PICK L, m : L = Len(streams) /\ m = Len(Input)
  OBVIOUS
<1>4. /\ m \in Nat \ {0} /\ taken + m <= request.size
      /\ ~UseSpool /\ taken = 0 => m = request.size
      /\ Input \in Seq(Nat) /\ DOMAIN Input = 1 .. m
      /\ \A j \in 1 .. m : Input[j] = Gathered((taken + j) - 1)
  BY <1>1, <1>3, InputFacts DEF IInv
<1>5. n \in Nat \ {0}
  BY <1>3, <1>4, CodecAssumption
<1>6. /\ L \in Nat /\ DOMAIN streams = 1 .. L
      /\ \A k \in 1 .. L :
           /\ streams[k].bytes \in Seq(Nat) /\ streams[k].size \in Nat \ {0}
           /\ StreamSizes[k] = streams[k].size
           /\ InputSizes[k] = Len(streams[k].bytes)
      /\ StreamEnd(L) = Serialized /\ Serialized \in Nat
      /\ InputEnd(L) = taken
  BY <1>3, StreamFacts DEF IInv, InvWriting
<1>7. /\ L + 1 \in Nat /\ Len(streams') = L + 1 /\ DOMAIN streams' = 1 .. L + 1
      /\ \A k \in 1 .. L : streams'[k] = streams[k]
      /\ streams'[L + 1] = [bytes |-> Input, size |-> n]
      /\ streams' \in Seq([bytes : Seq(Nat), size : Nat \ {0}])
  <2>1. PICK S : S = [bytes : Seq(Nat), size : Nat \ {0}]
    OBVIOUS
  <2>2. PICK s : s = [bytes |-> Input, size |-> n]
    OBVIOUS
  <2>3. s \in S
    BY <1>4, <1>5, <2>1, <2>2
  <2>4. streams \in Seq(S) /\ streams' = Append(streams, s)
    BY <2>1, <2>2 DEF IInv, TypeOK
  <2>5. /\ Len(streams') = L + 1 /\ DOMAIN streams' = 1 .. L + 1
        /\ \A k \in 1 .. L : streams'[k] = streams[k]
        /\ streams'[L + 1] = s /\ streams' \in Seq(S)
    BY <1>3, <2>3, <2>4
  <2> QED
    BY <1>6, <2>1, <2>2, <2>5
<1>8. /\ \A k \in 1 .. L : StreamSizes'[k] = StreamSizes[k] /\ InputSizes'[k] = InputSizes[k]
      /\ StreamSizes'[L + 1] = n /\ InputSizes'[L + 1] = m
  BY <1>3, <1>6, <1>7 DEF StreamSizes, InputSizes
<1>9. \A k \in 0 .. L : StreamEnd(k)' = StreamEnd(k) /\ InputEnd(k)' = InputEnd(k)
  <2> SUFFICES ASSUME NEW k \in 0 .. L
               PROVE  /\ SumOf(StreamSizes', k) = SumOf(StreamSizes, k)
                      /\ SumOf(InputSizes', k) = SumOf(InputSizes, k)
    BY DEF StreamEnd, InputEnd
  <2>1. k \in Nat /\ \A i \in 1 .. k : i \in 1 .. L
    BY <1>6
  <2> QED
    BY <1>8, <2>1, SameSizes
<1>10. StreamEnd(L + 1)' = Serialized + n /\ InputEnd(L + 1)' = taken'
  <2>1. /\ SumOf(StreamSizes', L + 1) = SumOf(StreamSizes', L) + StreamSizes'[L + 1]
        /\ SumOf(InputSizes', L + 1) = SumOf(InputSizes', L) + InputSizes'[L + 1]
    BY <1>6, SizeSums
  <2>2. L \in 0 .. L
    BY <1>6
  <2>3. StreamEnd(L)' = Serialized /\ InputEnd(L)' = taken
    BY <1>6, <1>9, <2>2
  <2> QED
    BY <1>3, <1>8, <2>1, <2>3 DEF StreamEnd, InputEnd
<1>11. Serialized' = Serialized + n
  <2>1. Serialized' = SumOf(StreamSizes', Len(streams'))
    BY DEF Serialized, StreamSizes
  <2>2. SumOf(StreamSizes', L + 1) = Serialized + n
    BY <1>10 DEF StreamEnd
  <2> QED
    BY <1>7, <2>1, <2>2
<1>12. PICK cells : cells = [j \in 1 .. n |-> <<L + 1, j>>]
  OBVIOUS
<1>13. cells \in Seq(Nat \X Nat) /\ Len(cells) = n
  <2>1. cells \in [1 .. n -> Nat \X Nat]
    BY <1>5, <1>6, <1>12
  <2> QED
    BY <1>5, <2>1, FunctionIsSequence
<1>14. Len(stored) = Serialized /\ stored \in Seq(Nat \X Nat)
  BY <1>1 DEF IInv, InvWriting, TypeOK
<1>15. ~UseSpool => /\ L = 0 /\ Serialized = 0 /\ taken = 0
  <2> SUFFICES ASSUME ~UseSpool
               PROVE  L = 0 /\ Serialized = 0 /\ taken = 0
    OBVIOUS
  <2>1. streams = << >>
    BY <1>2 DEF IInv, InvWriting
  <2>2. L = 0
    BY <1>3, <2>1
  <2> QED
    BY <1>6, <2>2, StreamFacts DEF IInv
<1>16. /\ stored' \in Seq(Nat \X Nat) /\ Len(stored') = Serialized + n
       /\ \A i \in 1 .. Serialized : stored'[i] = stored[i]
       /\ \A j \in 1 .. n : stored'[Serialized + j] = <<L + 1, j>>
  <2>1. stored' = IF UseSpool THEN stored \o cells ELSE cells
    BY <1>3, <1>12 DEF Keep
  <2>2. CASE UseSpool
    <3>1. stored' = stored \o cells
      BY <2>1, <2>2
    <3>4. /\ stored \o cells \in Seq(Nat \X Nat)
          /\ Len(stored \o cells) = Len(stored) + Len(cells)
          /\ \A i \in 1 .. Len(stored) : (stored \o cells)[i] = stored[i]
          /\ \A j \in 1 .. Len(cells) : (stored \o cells)[Len(stored) + j] = cells[j]
      <4>1. PICK S : S = Nat \X Nat
        OBVIOUS
      <4>2. stored \in Seq(S) /\ cells \in Seq(S)
        BY <1>13, <1>14, <4>1
      <4>3. PICK t : t = stored \o cells
        OBVIOUS
      <4>4. /\ t \in Seq(S) /\ Len(t) = Len(stored) + Len(cells)
            /\ \A i \in 1 .. Len(stored) : t[i] = stored[i]
            /\ \A j \in 1 .. Len(cells) : t[Len(stored) + j] = cells[j]
        BY <4>2, <4>3, ConcatFacts
      <4> QED
        BY <4>1, <4>3, <4>4
    <3>2. /\ stored' \in Seq(Nat \X Nat) /\ Len(stored') = Serialized + n
          /\ \A i \in 1 .. Serialized : stored'[i] = stored[i]
      BY <1>13, <1>14, <3>1, <3>4
    <3>3. ASSUME NEW j \in 1 .. n
          PROVE  stored'[Serialized + j] = <<L + 1, j>>
      <4>1. stored'[Serialized + j] = cells[j]
        BY <1>13, <1>14, <3>1, <3>4
      <4> QED
        BY <1>12, <4>1
    <3> QED
      BY <3>2, <3>3
  <2>3. CASE ~UseSpool
    <3>1. stored' = cells /\ Serialized = 0
      BY <1>15, <2>1, <2>3
    <3>2. \A j \in 1 .. n : stored'[Serialized + j] = <<L + 1, j>>
      <4>1. \A j \in 1 .. n : Serialized + j = j
        BY <1>5, <3>1
      <4>2. \A j \in 1 .. n : cells[j] = <<L + 1, j>>
        BY <1>12
      <4> QED
        BY <3>1, <4>1, <4>2
    <3>3. Len(stored') = Serialized + n /\ stored' \in Seq(Nat \X Nat)
      BY <1>5, <1>13, <3>1
    <3>4. \A i \in 1 .. Serialized : stored'[i] = stored[i]
      BY <3>1
    <3> QED
      BY <3>2, <3>3, <3>4
  <2> QED
    BY <2>2, <2>3
<1>17. TypeOK'
  <2>1. taken' \in Nat /\ taken' <= request'.size
    BY <1>2, <1>3, <1>4
  <2> QED
    BY <1>7, <1>16, <2>1 DEF IInv, TypeOK, reading
<1>18. InvWriting'
  <2>1. ASSUME NEW k \in 1 .. L + 1
        PROVE  /\ streams'[k].bytes # << >>
               /\ \A j \in DOMAIN streams'[k].bytes :
                    streams'[k].bytes[j] = Gathered(((InputEnd(k - 1))' + j) - 1)
               /\ \A j \in 1 .. streams'[k].size :
                    stored'[(StreamEnd(k - 1))' + j] = <<k, j>>
    <3>1. CASE k \in 1 .. L
      <4>1. k - 1 \in 0 .. L
        BY <1>6, <3>1
      <4>2. (StreamEnd(k - 1))' = StreamEnd(k - 1) /\ (InputEnd(k - 1))' = InputEnd(k - 1)
        BY <1>9, <4>1
      <4>3. /\ streams[k].bytes # << >>
            /\ \A j \in DOMAIN streams[k].bytes :
                 streams[k].bytes[j] = Gathered((InputEnd(k - 1) + j) - 1)
            /\ \A j \in 1 .. streams[k].size : stored[StreamEnd(k - 1) + j] = <<k, j>>
        BY <1>6, <3>1 DEF IInv, InvWriting
      <4>4. streams'[k] = streams[k] /\ streams[k].size \in Nat
        BY <1>6, <1>7, <3>1
      <4>5. ASSUME NEW j \in 1 .. streams[k].size
            PROVE  stored'[StreamEnd(k - 1) + j] = stored[StreamEnd(k - 1) + j]
        <5>1. PICK a, n0 : a = StreamEnd(k - 1) /\ n0 = streams[k].size
          OBVIOUS
        <5>2. a \in Nat /\ n0 \in Nat /\ a + n0 <= Serialized
          BY <1>3, <3>1, <4>4, <5>1, StreamWithin DEF IInv
        <5>3. j \in 1 .. n0
          BY <5>1
        <5>4. a + j \in 1 .. Serialized
          BY <1>6, <5>2, <5>3
        <5>5. StreamEnd(k - 1) + j \in 1 .. Serialized
          BY <5>1, <5>4
        <5> QED
          BY <1>16, <5>5
      <4> QED
        BY <4>2, <4>3, <4>4, <4>5
    <3>2. CASE k = L + 1
      <4>1. (StreamEnd(k - 1))' = Serialized /\ (InputEnd(k - 1))' = taken
        <5>1. k - 1 = L /\ L \in 0 .. L
          BY <1>6, <3>2
        <5> QED
          BY <1>6, <1>9, <5>1
      <4>2. streams'[k].bytes = Input /\ streams'[k].size = n
        BY <1>7, <3>2
      <4>3. Input # << >>
        BY <1>3, <1>4
      <4> QED
        BY <1>4, <1>16, <3>2, <4>1, <4>2, <4>3
    <3>3. k \in 1 .. L \/ k = L + 1
      BY <1>6
    <3> QED
      BY <3>1, <3>2, <3>3
  <2>2. \A g : Gathered(g)' = Gathered(g)
    BY DEF Gathered, ShuffledFrom
  <2>3. Serialized' <= MaxSerialized /\ Len(streams') <= MaxSubblocks
    <3>1. Serialized + n <= MaxSerialized
      BY <1>5, <1>6, CodecAssumption DEF Budget
    <3> QED
      BY <1>3, <1>6, <1>7, <1>11, <3>1, CodecAssumption
  <2>4. Ours' /\ UseSpool' = UseSpool
    BY <1>1 DEF Ours, UseSpool
  <2>5. ~UseSpool => taken' = request'.size
    BY <1>2, <1>3, <1>4, <1>15
  <2>6. \A k \in DOMAIN streams' :
          \A j \in DOMAIN streams'[k].bytes :
            streams'[k].bytes[j] = Gathered((InputEnd(k - 1) + j) - 1)'
    BY <1>7, <2>1, <2>2 DEF Gathered, ShuffledFrom
  <2> QED
    BY <1>7, <1>10, <1>11, <1>16, <2>1, <2>3, <2>4, <2>5, <2>6 DEF InvWriting
<1>19. InvPhases'
  BY <1>1 DEF IInv, InvPhases, reading, Ours
<1>20. InvPlan' /\ InvDecoding'
  BY DEF IInv, InvPhases, InvPlan, InvDecoding, reading
<1>21. ReadsBack'
  BY <1>1 DEF ReadsBack
<1> QED
  BY <1>17, <1>18, <1>19, <1>20, <1>21 DEF IInv

LEMMA CompressKeeps ==
  ASSUME IInv, CompressChunk
  PROVE  IInv'
<1>1. step = "compress" /\ taken < request.size
  BY DEF CompressChunk
<1>2. Ours /\ descr = NoDescr
  BY <1>1 DEF IInv, InvPhases
<1>3. CASE Fail("cancelled") \/ Fail("resource_limit")
  BY <1>2, <1>3, FailKeeps DEF CodecErrors
<1>4. CASE /\ Len(streams) < MaxSubblocks /\ Budget > 0
           /\ \E n \in 1 .. Len(Input) + Growth :
                /\ n <= Budget
                /\ streams' = Append(streams, [bytes |-> Input, size |-> n])
                /\ stored' = Keep([j \in 1 .. n |-> <<Len(streams) + 1, j>>])
                /\ taken' = taken + Len(Input)
                /\ UNCHANGED <<request, step, descr, reading, result>>
  BY <1>1, <1>4, ChunkKeeps
<1> QED
  BY <1>3, <1>4 DEF CompressChunk

-----------------------------------------------------------------------------
(* What the reader finds.                                                     *)

\* The parts of a descriptor and of a plan.
LEMMA DescrFacts ==
  ASSUME TypeOK
  PROVE  /\ descr.size \in Nat /\ descr.item \in Nat \ {0}
         /\ descr.declared \in Nat /\ descr.serialized \in Nat
         /\ descr.subblocks \in Seq(Nat \X Nat) /\ Len(descr.subblocks) \in Nat
         /\ \A k \in 1 .. Len(descr.subblocks) :
              /\ descr.subblocks[k] \in Nat \X Nat
              /\ descr.subblocks[k][1] \in Nat /\ descr.subblocks[k][2] \in Nat
<1>1. /\ descr.size \in Nat /\ descr.item \in Nat \ {0}
      /\ descr.declared \in Nat /\ descr.serialized \in Nat
      /\ descr.subblocks \in Seq(Nat \X Nat)
  BY DEF TypeOK, Descriptor
<1>2. PICK S, s : S = Nat \X Nat /\ s = descr.subblocks
  OBVIOUS
<1>3. s \in Seq(S)
  BY <1>1, <1>2
<1>4. Len(s) \in Nat /\ \A k \in 1 .. Len(s) : s[k] \in S
  BY <1>3
<1>5. \A p \in S : p[1] \in Nat /\ p[2] \in Nat
  BY <1>2
<1> QED
  BY <1>1, <1>2, <1>4, <1>5

\* The sums of a plan's sizes.
LEMMA PlanFacts ==
  ASSUME TypeOK
  PROVE  /\ Len(plan) \in Nat /\ DOMAIN plan = 1 .. Len(plan)
         /\ decoded \in Nat /\ decoded <= Len(plan)
         /\ \A k \in 1 .. Len(plan) :
              /\ plan[k] \in Nat \X Nat /\ plan[k][1] \in Nat /\ plan[k][2] \in Nat
              /\ plan[k] = <<plan[k][1], plan[k][2]>>
              /\ Compressed(plan)[k] = plan[k][1]
              /\ Uncompressed(plan)[k] = plan[k][2]
<1>1. PICK S, p : S = Nat \X Nat /\ p = plan
  OBVIOUS
<1>2. p \in Seq(S)
  BY <1>1 DEF TypeOK
<1>3. Len(p) \in Nat /\ DOMAIN p = 1 .. Len(p) /\ \A k \in 1 .. Len(p) : p[k] \in S
  BY <1>2
<1>4. \A x \in S : x[1] \in Nat /\ x[2] \in Nat /\ x = <<x[1], x[2]>>
  BY <1>1
<1>5. \A k \in 1 .. Len(p) :
        Compressed(p)[k] = p[k][1] /\ Uncompressed(p)[k] = p[k][2]
  BY <1>3 DEF Compressed, Uncompressed
<1>6. decoded \in Nat /\ decoded <= Len(plan)
  BY <1>1, <1>3 DEF TypeOK
<1> QED
  BY <1>1, <1>3, <1>4, <1>5, <1>6

\* A block of the writer's as the reader meets it.
LEMMA OursDescribed ==
  ASSUME IInv, Ours, step \in {"parse", "decode", "ok"}
  PROVE  /\ Len(streams) \in Nat \ {0}
         /\ descr = Described /\ Len(stored) = Serialized
         /\ Serialized \in Nat \ {0} /\ Serialized <= MaxSerialized
         /\ InputEnd(Len(streams)) = request.size
         /\ Len(SubblockSizes) = Len(streams)
         /\ \A k \in 1 .. Len(streams) :
              SubblockSizes[k] = <<streams[k].size, Len(streams[k].bytes)>>
         /\ \A k \in 0 .. Len(streams) :
              /\ SumOf(Compressed(SubblockSizes), k) = StreamEnd(k)
              /\ SumOf(Uncompressed(SubblockSizes), k) = InputEnd(k)
<1>1. PICK L : L = Len(streams)
  OBVIOUS
<1>2. /\ L \in Nat /\ DOMAIN streams = 1 .. L
      /\ \A k \in 1 .. L :
           /\ streams[k].size \in Nat \ {0} /\ Len(streams[k].bytes) \in Nat
           /\ StreamSizes[k] = streams[k].size
           /\ InputSizes[k] = Len(streams[k].bytes)
      /\ InputEnd(0) = 0
  BY <1>1, StreamFacts DEF IInv
<1>3. descr = Described /\ taken = request.size /\ request.size \in Nat \ {0}
  BY OursFacts DEF IInv, InvPhases
<1>4. InputEnd(L) = request.size /\ Len(stored) = Serialized
      /\ Serialized <= MaxSerialized
  BY <1>1, <1>3 DEF IInv, InvWriting
<1>5. L # 0
  BY <1>2, <1>3, <1>4
<1>6. Serialized \in Nat \ {0}
  <2>1. 1 \in 1 .. L
    BY <1>2, <1>5
  <2>2. /\ StreamEnd(1 - 1) \in Nat /\ StreamEnd(1) = StreamEnd(1 - 1) + streams[1].size
        /\ StreamEnd(1) <= Serialized
    BY <1>1, <2>1, StreamWithin DEF IInv
  <2>3. Serialized \in Nat
    BY StreamFacts DEF IInv
  <2>4. streams[1].size \in Nat \ {0}
    BY <1>2, <2>1
  <2> QED
    BY <2>2, <2>3, <2>4
<1>7. /\ Len(SubblockSizes) = L /\ DOMAIN SubblockSizes = 1 .. L
      /\ \A k \in 1 .. L :
           SubblockSizes[k] = <<streams[k].size, Len(streams[k].bytes)>>
  BY <1>2 DEF SubblockSizes
<1>8. \A k \in 1 .. L : /\ Compressed(SubblockSizes)[k] = StreamSizes[k]
                        /\ Uncompressed(SubblockSizes)[k] = InputSizes[k]
  BY <1>2, <1>7 DEF Compressed, Uncompressed
<1>9. ASSUME NEW k \in 0 .. L
      PROVE  /\ SumOf(Compressed(SubblockSizes), k) = StreamEnd(k)
             /\ SumOf(Uncompressed(SubblockSizes), k) = InputEnd(k)
  <2>1. k \in Nat /\ \A i \in 1 .. k : i \in 1 .. L
    BY <1>2
  <2> QED
    BY <1>8, <2>1, SameSizes DEF StreamEnd, InputEnd
<1> QED
  BY <1>1, <1>2, <1>3, <1>4, <1>5, <1>6, <1>7, <1>9

\* The reader finds nothing wrong with it, unless it is too large.
LEMMA OursAcceptable ==
  ASSUME IInv, Ours, step = "parse"
  PROVE  ~Oversized /\ ~Malformed /\ (TooLarge => Excess)
<1>1. /\ descr = Described /\ Len(stored) = Serialized
      /\ Serialized \in Nat \ {0} /\ Serialized <= MaxSerialized
  BY OursDescribed
<1>2. /\ descr.size = request.size /\ descr.declared = request.size
      /\ descr.item = request.item /\ descr.declaredItem = request.item
      /\ descr.serialized = Serialized
  BY <1>1 DEF Described
<1>3. request.size \in Nat \ {0}
  BY OursFacts DEF IInv
<1>4. ~Oversized
  BY <1>1, <1>2, CodecAssumption DEF Oversized
<1>5. ~Malformed
  BY <1>1, <1>2, <1>3 DEF Malformed
<1>6. ASSUME TooLarge
      PROVE  Excess
  <2>1. PICK p : p = Serialized * MaxRatio
    OBVIOUS
  <2>2. p \in Nat
    BY <1>1, <2>1, CodecAssumption
  <2>3. \/ request.size > Least(p, Word - 1)
        \/ request.size > MaxDecoded
    BY <1>2, <1>6, <2>1 DEF TooLarge, MaxOutput
  <2>4. request.size > Least(MaxDecoded, p)
    BY <1>3, <2>2, <2>3, CodecAssumption DEF Least
  <2> QED
    BY <1>1, <2>1, <2>4 DEF Excess
<1> QED
  BY <1>4, <1>5, <1>6

-----------------------------------------------------------------------------
(* The reader's steps.                                                        *)

LEMMA ParseBlockKeeps ==
  ASSUME IInv, ParseBlock
  PROVE  IInv'
<1>1. step = "parse" /\ plan = << >>
  BY DEF ParseBlock
<1>2. CASE \/ Oversized /\ Fail("resource_limit")
           \/ ~Oversized /\ Malformed /\ Fail("invalid_block")
           \/ ~Oversized /\ ~Malformed /\ TooLarge /\ Fail("resource_limit")
  BY <1>1, <1>2, OursAcceptable, FailKeeps DEF CodecErrors
<1>3. CASE /\ Plausible /\ descr.subblocks = << >>
           /\ plan' = <<<<descr.serialized, descr.declared>>>>
           /\ step' = "decode"
           /\ UNCHANGED <<writing, descr, totals, from, to, decoded, output,
                          result>>
  <2>1. /\ descr.size \in Nat /\ descr.serialized \in Nat /\ descr.declared \in Nat
    BY DescrFacts DEF IInv
  <2>2. /\ from = 0 /\ to = 0 /\ decoded = 0 /\ result = "none"
        /\ Len(stored) = descr.serialized
    BY <1>1 DEF IInv, InvPhases
  <2>3. /\ Len(plan') = 1 /\ plan' \in Seq(Nat \X Nat) /\ plan' # << >>
        /\ Compressed(plan')[1] = descr.serialized
        /\ Uncompressed(plan')[1] = descr.declared
    <3>1. PICK x : x = <<descr.serialized, descr.declared>>
      OBVIOUS
    <3>2. x \in Nat \X Nat /\ x[1] = descr.serialized /\ x[2] = descr.declared
      BY <2>1, <3>1
    <3>3. plan' = <<x>>
      BY <1>3, <3>1
    <3>4. /\ DOMAIN plan' = 1 .. 1 /\ Len(plan') = 1 /\ plan'[1] = x
          /\ plan' \in Seq(Nat \X Nat) /\ plan' # << >>
      BY <3>2, <3>3
    <3> QED
      BY <3>2, <3>4 DEF Compressed, Uncompressed
  <2>4. /\ SumOf(Compressed(plan'), 0) = 0 /\ SumOf(Uncompressed(plan'), 0) = 0
        /\ SumOf(Compressed(plan'), 1) = descr.serialized
        /\ SumOf(Uncompressed(plan'), 1) = descr.declared
    <3>1. /\ SumOf(Compressed(plan'), 0) = 0 /\ SumOf(Uncompressed(plan'), 0) = 0
          /\ SumOf(Compressed(plan'), 0 + 1)
               = SumOf(Compressed(plan'), 0) + Compressed(plan')[0 + 1]
          /\ SumOf(Uncompressed(plan'), 0 + 1)
               = SumOf(Uncompressed(plan'), 0) + Uncompressed(plan')[0 + 1]
      BY SizeSums
    <3> QED
      BY <2>1, <2>3, <3>1
  <2>5. Ours => plan' = SubblockSizes
    <3> SUFFICES ASSUME Ours PROVE plan' = SubblockSizes
      OBVIOUS
    <3>1. /\ Len(streams) \in Nat \ {0} /\ descr = Described
          /\ InputEnd(Len(streams)) = request.size
          /\ Len(SubblockSizes) = Len(streams)
      BY <1>1, OursDescribed
    <3>2. descr.subblocks = IF Len(streams) > 1 THEN SubblockSizes ELSE << >>
      BY <3>1 DEF Described
    <3>3. Len(streams) = 1
      BY <1>3, <3>1, <3>2
    <3>4. /\ DOMAIN streams = 1 .. 1 /\ StreamEnd(0) = 0 /\ InputEnd(0) = 0
          /\ Serialized = StreamEnd(1)
          /\ streams[1].size \in Nat /\ Len(streams[1].bytes) \in Nat
      BY <3>3, StreamFacts DEF IInv
    <3>5. /\ StreamEnd(1) = StreamEnd(1 - 1) + streams[1].size
          /\ InputEnd(1) = InputEnd(1 - 1) + Len(streams[1].bytes)
      BY <3>3, StreamWithin DEF IInv
    <3>6. /\ streams[1].size = Serialized /\ Len(streams[1].bytes) = request.size
      BY <3>1, <3>3, <3>4, <3>5
    <3>7. descr.serialized = Serialized /\ descr.declared = request.size
      BY <3>1 DEF Described
    <3>8. SubblockSizes = [k \in 1 .. 1 |-> <<descr.serialized, descr.declared>>]
      BY <3>4, <3>6, <3>7 DEF SubblockSizes
    <3> QED
      BY <1>3, <3>8
  <2>6. TypeOK'
    BY <1>3, <2>2, <2>3 DEF IInv, TypeOK, writing
  <2>7. InvWriting'
    BY <1>3, WritingKept DEF IInv
  <2>8. Ours' = Ours /\ Described' = Described /\ SubblockSizes' = SubblockSizes
        /\ stored' = stored /\ taken' = taken /\ request' = request
    BY <1>3 DEF writing, Ours, Described, Serialized, SubblockSizes
  <2>9. InvPhases'
    BY <1>1, <1>3, <2>8 DEF IInv, InvPhases
  <2>10. InvPlan'
    <3>1. Plausible'
      BY <1>3 DEF Plausible, Oversized, Malformed, TooLarge, MaxOutput
    <3> QED
      BY <1>3, <2>3, <2>4, <2>5, <2>8, <3>1 DEF InvPlan
  <2>11. InvDecoding'
    <3>1. \A g : Gathered(g)' = Gathered(g)
      BY <2>8 DEF Gathered, ShuffledFrom
    <3>2. from' = 0 /\ to' = 0 /\ decoded' = 0
      BY <1>3, <2>2
    <3>3. Ours => \A i \in DOMAIN output : output[i] \in {i, Unknown}
      BY <1>1 DEF IInv, InvDecoding
    <3> QED
      BY <1>3, <2>4, <2>8, <3>2, <3>3 DEF InvDecoding
  <2>12. ReadsBack'
    BY <1>3, <2>2 DEF ReadsBack
  <2> QED
    BY <2>6, <2>7, <2>9, <2>10, <2>11, <2>12 DEF IInv
<1> QED
  BY <1>2, <1>3 DEF ParseBlock

\* The next pair of the list, and the sums with it.
LEMMA PairFacts ==
  ASSUME IInv, step = "parse", Len(plan) < Len(descr.subblocks)
  PROVE  /\ Pair \in Nat \X Nat /\ Pair[1] \in Nat /\ Pair[2] \in Nat
         /\ Pair = descr.subblocks[Len(plan) + 1]
         /\ totals[1] \in Nat /\ totals[2] \in Nat
         /\ Sums = <<totals[1] + Pair[1], totals[2] + Pair[2]>>
         /\ totals[1] = SumOf(Compressed(plan), Len(plan))
         /\ totals[2] = SumOf(Uncompressed(plan), Len(plan))
<1>1. Len(plan) + 1 \in 1 .. Len(descr.subblocks)
  BY PlanFacts, DescrFacts DEF IInv
<1>2. /\ Pair \in Nat \X Nat /\ Pair[1] \in Nat /\ Pair[2] \in Nat
      /\ Pair = descr.subblocks[Len(plan) + 1]
  BY <1>1, DescrFacts DEF Pair, IInv
<1>3. totals[1] \in Nat /\ totals[2] \in Nat
  <2>1. totals \in (0 .. Word - 1) \X (0 .. Word - 1)
    BY DEF IInv, TypeOK
  <2>2. \A n \in 0 .. Word - 1 : n \in Nat
    BY CodecAssumption
  <2> QED
    BY <2>1, <2>2
<1>4. totals = <<SumOf(Compressed(plan), Len(plan)),
                 SumOf(Uncompressed(plan), Len(plan))>>
  BY DEF IInv, InvPlan
<1> QED
  BY <1>2, <1>3, <1>4 DEF Sums, Add

\* Of the writer's list, a pair is positive and the sums stay within 64 bits.
LEMMA OursPair ==
  ASSUME IInv, Ours, step = "parse", Plausible, Len(plan) < Len(descr.subblocks)
  PROVE  Len(plan) < MaxSubblocks /\ 0 \notin {Pair[1], Pair[2]} /\ Fits
<1>1. PICK L, n, k : L = Len(streams) /\ n = Len(plan) /\ k = n + 1
  OBVIOUS
<1>2. /\ L \in Nat \ {0} /\ descr = Described
      /\ Serialized \in Nat \ {0} /\ Serialized <= MaxSerialized
      /\ InputEnd(L) = request.size
      /\ Len(SubblockSizes) = L
      /\ \A i \in 1 .. L : SubblockSizes[i] = <<streams[i].size, Len(streams[i].bytes)>>
      /\ \A i \in 0 .. L : /\ SumOf(Compressed(SubblockSizes), i) = StreamEnd(i)
                           /\ SumOf(Uncompressed(SubblockSizes), i) = InputEnd(i)
  BY <1>1, OursDescribed
<1>3. descr.subblocks = IF L > 1 THEN SubblockSizes ELSE << >>
  BY <1>1, <1>2 DEF Described
<1>4. n \in Nat
  BY <1>1, PlanFacts DEF IInv
<1>5. descr.subblocks = SubblockSizes /\ k \in 1 .. L /\ n \in 0 .. L /\ k - 1 = n
  BY <1>1, <1>2, <1>3, <1>4
<1>6. Len(plan) < MaxSubblocks
  <2>1. L <= MaxSubblocks
    BY <1>1 DEF IInv, InvWriting
  <2> QED
    BY <1>1, <1>2, <1>4, <1>5, <2>1, CodecAssumption
<1>7. Pair[1] = streams[k].size /\ Pair[2] = Len(streams[k].bytes)
  BY <1>1, <1>2, <1>5 DEF Pair
<1>8. streams[k].size \in Nat \ {0} /\ Len(streams[k].bytes) \in Nat \ {0}
  <2>1. /\ streams[k].size \in Nat \ {0} /\ Len(streams[k].bytes) \in Nat
        /\ streams[k].bytes \in Seq(Nat) /\ k \in DOMAIN streams
    BY <1>1, <1>5, StreamFacts DEF IInv
  <2>2. streams[k].bytes # << >>
    BY <2>1 DEF IInv, InvWriting
  <2> QED
    BY <2>1, <2>2
<1>9. \A i \in 1 .. n : /\ Compressed(plan)[i] = Compressed(SubblockSizes)[i]
                        /\ Uncompressed(plan)[i] = Uncompressed(SubblockSizes)[i]
  <2>1. DOMAIN plan = 1 .. n /\ \A i \in 1 .. n : plan[i] = SubblockSizes[i]
    BY <1>1, <1>5, PlanFacts DEF IInv, InvPlan
  <2>2. \A i \in 1 .. n : i \in DOMAIN SubblockSizes
    <3>1. DOMAIN SubblockSizes = 1 .. L
      BY <1>1, StreamFacts DEF SubblockSizes, IInv
    <3> QED
      BY <1>2, <1>5, <3>1
  <2> QED
    BY <2>1, <2>2 DEF Compressed, Uncompressed
<1>10. totals[1] = StreamEnd(n) /\ totals[2] = InputEnd(n)
  <2>1. /\ totals[1] = SumOf(Compressed(plan), n)
        /\ totals[2] = SumOf(Uncompressed(plan), n)
    BY <1>1, PairFacts
  <2>2. /\ SumOf(Compressed(plan), n) = SumOf(Compressed(SubblockSizes), n)
        /\ SumOf(Uncompressed(plan), n) = SumOf(Uncompressed(SubblockSizes), n)
    BY <1>4, <1>9, SameSizes
  <2> QED
    BY <1>2, <1>5, <2>1, <2>2
<1>11. /\ StreamEnd(k) = StreamEnd(n) + streams[k].size /\ StreamEnd(k) <= Serialized
       /\ InputEnd(k) = InputEnd(n) + Len(streams[k].bytes)
       /\ InputEnd(k) <= request.size
       /\ StreamEnd(k) \in Nat /\ InputEnd(k) \in Nat
  BY <1>1, <1>2, <1>5, StreamWithin DEF IInv
<1>12. request.size < Word /\ request.size \in Nat
  <2>1. request.size \in Nat
    BY OursFacts DEF IInv
  <2>2. descr.declared = request.size /\ descr.declared <= MaxDecoded
    <3>1. descr.declared = request.size
      BY <1>2 DEF Described
    <3>2. ~(descr.declared > MaxDecoded)
      BY DEF Plausible, TooLarge
    <3> QED
      BY <2>1, <3>1, <3>2, CodecAssumption
  <2> QED
    BY <2>1, <2>2, CodecAssumption
<1>13. Fits
  <2>1. Sums = <<StreamEnd(k), InputEnd(k)>>
    BY <1>7, <1>10, <1>11, PairFacts
  <2>2. StreamEnd(k) < Word /\ InputEnd(k) < Word
    BY <1>2, <1>11, <1>12, CodecAssumption
  <2> QED
    BY <2>1, <2>2 DEF Fits
<1> QED
  BY <1>6, <1>7, <1>8, <1>13

LEMMA ParsePairKeeps ==
  ASSUME IInv, ParsePair
  PROVE  IInv'
<1>1. step = "parse" /\ Plausible /\ Len(plan) < Len(descr.subblocks)
  BY DEF ParsePair
<1>2. CASE \/ Len(plan) >= MaxSubblocks /\ Fail("resource_limit")
           \/ 0 \in {Pair[1], Pair[2]} /\ Fail("invalid_block")
           \/ ~Fits /\ Fail("overflow")
  <2>1. ~Ours
    <3> SUFFICES ASSUME Ours PROVE FALSE
      OBVIOUS
    <3>1. Len(plan) < MaxSubblocks /\ 0 \notin {Pair[1], Pair[2]} /\ Fits
      BY <1>1, OursPair
    <3>2. Len(plan) \in Nat
      BY PlanFacts DEF IInv
    <3> QED
      BY <1>2, <3>1, <3>2, CodecAssumption
  <2> QED
    BY <1>2, <2>1, FailKeeps DEF CodecErrors
<1>3. CASE /\ Fits
           /\ totals' = Sums /\ plan' = Append(plan, Pair)
           /\ UNCHANGED <<step, writing, descr, from, to, decoded, output, result>>
  <2>1. PICK n, x : n = Len(plan) /\ x = Pair
    OBVIOUS
  <2>2. /\ n \in Nat /\ x \in Nat \X Nat /\ x[1] \in Nat /\ x[2] \in Nat
        /\ x = descr.subblocks[n + 1] /\ n + 1 <= Len(descr.subblocks)
        /\ n + 1 \in Nat
    <3>1. n \in Nat /\ Len(descr.subblocks) \in Nat
      BY <2>1, PlanFacts, DescrFacts DEF IInv
    <3>2. /\ x \in Nat \X Nat /\ x[1] \in Nat /\ x[2] \in Nat
          /\ x = descr.subblocks[n + 1]
      BY <1>1, <2>1, PairFacts
    <3> QED
      BY <1>1, <2>1, <3>1, <3>2
  <2>3. /\ plan' \in Seq(Nat \X Nat) /\ Len(plan') = n + 1
        /\ DOMAIN plan' = 1 .. n + 1
        /\ \A k \in 1 .. n : plan'[k] = plan[k]
        /\ plan'[n + 1] = x
    <3>1. PICK S : S = Nat \X Nat
      OBVIOUS
    <3>2. plan \in Seq(S) /\ x \in S /\ plan' = Append(plan, x)
      BY <1>3, <2>1, <2>2, <3>1 DEF IInv, TypeOK
    <3>3. /\ plan' \in Seq(S) /\ Len(plan') = n + 1
          /\ DOMAIN plan' = 1 .. n + 1
          /\ \A k \in 1 .. n : plan'[k] = plan[k]
          /\ plan'[n + 1] = x
      BY <2>1, <3>2
    <3> QED
      BY <3>1, <3>3
  <2>4. DOMAIN plan = 1 .. n
    BY <2>1, PlanFacts DEF IInv
  <2>5. /\ \A k \in 1 .. n : /\ Compressed(plan')[k] = Compressed(plan)[k]
                             /\ Uncompressed(plan')[k] = Uncompressed(plan)[k]
        /\ Compressed(plan')[n + 1] = x[1] /\ Uncompressed(plan')[n + 1] = x[2]
    BY <2>2, <2>3, <2>4 DEF Compressed, Uncompressed
  <2>6. /\ SumOf(Compressed(plan'), n) = SumOf(Compressed(plan), n)
        /\ SumOf(Uncompressed(plan'), n) = SumOf(Uncompressed(plan), n)
    BY <2>2, <2>5, SameSizes
  <2>7. /\ SumOf(Compressed(plan'), n + 1) = SumOf(Compressed(plan), n) + x[1]
        /\ SumOf(Uncompressed(plan'), n + 1) = SumOf(Uncompressed(plan), n) + x[2]
    <3>1. /\ SumOf(Compressed(plan'), n + 1)
               = SumOf(Compressed(plan'), n) + Compressed(plan')[n + 1]
          /\ SumOf(Uncompressed(plan'), n + 1)
               = SumOf(Uncompressed(plan'), n) + Uncompressed(plan')[n + 1]
      BY <2>2, SizeSums
    <3> QED
      BY <2>5, <2>6, <3>1
  <2>8. /\ totals' = <<SumOf(Compressed(plan'), n + 1), SumOf(Uncompressed(plan'), n + 1)>>
        /\ totals' \in (0 .. Word - 1) \X (0 .. Word - 1)
    <3>1. /\ totals' = <<totals[1] + x[1], totals[2] + x[2]>>
          /\ totals[1] \in Nat /\ totals[2] \in Nat
          /\ totals[1] = SumOf(Compressed(plan), n)
          /\ totals[2] = SumOf(Uncompressed(plan), n)
      BY <1>1, <1>3, <2>1, PairFacts
    <3>2. totals[1] + x[1] < Word /\ totals[2] + x[2] < Word
      <4>1. totals'[1] < Word /\ totals'[2] < Word
        BY <1>3 DEF Fits
      <4> QED
        BY <3>1, <4>1
    <3>3. totals[1] + x[1] \in 0 .. Word - 1 /\ totals[2] + x[2] \in 0 .. Word - 1
      <4>1. \A a, b \in Nat : a + b < Word => a + b \in 0 .. Word - 1
        BY CodecAssumption
      <4> QED
        BY <2>2, <3>1, <3>2, <4>1
    <3> QED
      BY <2>7, <3>1, <3>3
  <2>9. from = 0 /\ to = 0 /\ decoded = 0 /\ result = "none"
    BY <1>1 DEF IInv, InvPhases
  <2>10. TypeOK'
    <3>1. decoded' \in 0 .. Len(plan')
      BY <1>3, <2>2, <2>3, <2>9
    <3> QED
      BY <1>3, <2>3, <2>8, <3>1 DEF IInv, TypeOK, writing
  <2>11. InvWriting'
    BY <1>3, WritingKept DEF IInv
  <2>12. Ours' = Ours /\ Described' = Described
         /\ stored' = stored /\ taken' = taken /\ request' = request
    BY <1>3 DEF writing, Ours, Described, Serialized, SubblockSizes
  <2>13. InvPhases'
    BY <1>1, <1>3, <2>12 DEF IInv, InvPhases
  <2>14. InvPlan'
    <3>1. Plausible'
      BY <1>1, <1>3 DEF Plausible, Oversized, Malformed, TooLarge, MaxOutput
    <3>2. \A k \in DOMAIN plan' : plan'[k] = descr'.subblocks[k]
      <4>1. \A k \in 1 .. n : plan[k] = descr.subblocks[k]
        BY <1>1, <2>4 DEF IInv, InvPlan
      <4>2. \A k \in 1 .. n + 1 : k \in 1 .. n \/ k = n + 1
        BY <2>2
      <4> QED
        BY <1>3, <2>2, <2>3, <4>1, <4>2
    <3> QED
      BY <1>1, <1>3, <2>2, <2>3, <2>8, <3>1, <3>2 DEF InvPlan
  <2>15. InvDecoding'
    <3>1. SumOf(Compressed(plan'), 0) = 0 /\ SumOf(Uncompressed(plan'), 0) = 0
      BY SizeSums
    <3>2. from' = 0 /\ to' = 0 /\ decoded' = 0 /\ step' = "parse"
      BY <1>1, <1>3, <2>9
    <3>3. Ours => \A i \in DOMAIN output : output[i] \in {i, Unknown}
      BY <1>1 DEF IInv, InvDecoding
    <3> QED
      BY <1>3, <2>12, <3>1, <3>2, <3>3 DEF InvDecoding
  <2>16. ReadsBack'
    BY <1>1, <1>3, <2>9 DEF ReadsBack
  <2> QED
    BY <2>10, <2>11, <2>13, <2>14, <2>15, <2>16 DEF IInv
<1> QED
  BY <1>2, <1>3 DEF ParsePair

LEMMA ParseTotalsKeeps ==
  ASSUME IInv, ParseTotals
  PROVE  IInv'
<1>1. step = "parse" /\ plan # << >> /\ Len(plan) = Len(descr.subblocks)
  BY DEF ParseTotals
<1>2. plan = descr.subblocks
  <2>1. DOMAIN plan = 1 .. Len(plan) /\ \A k \in 1 .. Len(plan) : plan[k] = descr.subblocks[k]
    BY <1>1, PlanFacts DEF IInv, InvPlan
  <2>2. PICK S, s : S = Nat \X Nat /\ s = descr.subblocks
    OBVIOUS
  <2>3. plan \in Seq(S) /\ s \in Seq(S)
    BY <2>2, DescrFacts DEF IInv, TypeOK
  <2>4. plan = s
    BY <1>1, <2>1, <2>2, <2>3, SameSequence
  <2> QED
    BY <2>2, <2>4
<1>3. totals = <<SumOf(Compressed(plan), Len(plan)),
                 SumOf(Uncompressed(plan), Len(plan))>>
  BY <1>1 DEF IInv, InvPlan
<1>4. Ours => plan = SubblockSizes /\ TotalsMatch
  <2> SUFFICES ASSUME Ours PROVE plan = SubblockSizes /\ TotalsMatch
    OBVIOUS
  <2>1. PICK L : L = Len(streams)
    OBVIOUS
  <2>2. /\ L \in Nat \ {0} /\ descr = Described
        /\ InputEnd(L) = request.size
        /\ Len(SubblockSizes) = L
        /\ \A k \in 0 .. L : /\ SumOf(Compressed(SubblockSizes), k) = StreamEnd(k)
                             /\ SumOf(Uncompressed(SubblockSizes), k) = InputEnd(k)
    BY <1>1, <2>1, OursDescribed
  <2>3. descr.subblocks = IF L > 1 THEN SubblockSizes ELSE << >>
    BY <2>1, <2>2 DEF Described
  <2>4. plan = SubblockSizes
    BY <1>1, <1>2, <2>3
  <2>5. L \in 0 .. L /\ StreamEnd(L) = Serialized
    BY <2>1, <2>2, StreamFacts DEF IInv
  <2>6. totals = <<Serialized, request.size>>
    BY <1>3, <2>2, <2>4, <2>5
  <2>7. descr.serialized = Serialized /\ descr.declared = request.size
    BY <2>2 DEF Described
  <2> QED
    BY <2>4, <2>6, <2>7 DEF TotalsMatch
<1>5. CASE ~TotalsMatch /\ Fail("invalid_block")
  BY <1>4, <1>5, FailKeeps DEF CodecErrors
<1>6. CASE /\ TotalsMatch /\ step' = "decode"
           /\ UNCHANGED <<writing, descr, reading, result>>
  <2>1. TypeOK'
    BY <1>6 DEF IInv, TypeOK, writing, reading
  <2>2. InvWriting'
    BY <1>6, WritingKept DEF IInv
  <2>3. /\ Ours' = Ours /\ Described' = Described /\ SubblockSizes' = SubblockSizes
        /\ stored' = stored /\ taken' = taken /\ request' = request
    BY <1>6 DEF writing, Ours, Described, Serialized, SubblockSizes
  <2>4. InvPhases'
    BY <1>1, <1>6, <2>3 DEF IInv, InvPhases, reading
  <2>5. InvPlan'
    <3>1. Plausible /\ Plausible' = Plausible
      BY <1>1, <1>6 DEF IInv, InvPlan, Plausible, Oversized, Malformed, TooLarge, MaxOutput
    <3>2. /\ SumOf(Compressed(plan), Len(plan)) = descr.serialized
          /\ SumOf(Uncompressed(plan), Len(plan)) = descr.declared
      BY <1>3, <1>6 DEF TotalsMatch
    <3>3. plan' = plan /\ descr' = descr
      BY <1>6 DEF reading
    <3> QED
      BY <1>1, <1>4, <1>6, <2>3, <3>1, <3>2, <3>3 DEF InvPlan
  <2>6. InvDecoding'
    BY <1>1, <1>6, <2>3 DEF IInv, InvDecoding, reading, Gathered, ShuffledFrom
  <2>7. ReadsBack'
    <3>1. result = "none"
      BY <1>1 DEF IInv, InvPhases
    <3> QED
      BY <1>6, <3>1 DEF ReadsBack
  <2> QED
    BY <2>1, <2>2, <2>4, <2>5, <2>6, <2>7 DEF IInv
<1> QED
  BY <1>5, <1>6 DEF ParseTotals

\* The next sub-block of a plan that was accepted lies inside the stored bytes and
\* inside the block.
LEMMA NextSubblock ==
  ASSUME IInv, step = "decode", decoded < Len(plan)
  PROVE  /\ decoded + 1 \in 1 .. Len(plan)
         /\ from \in Nat /\ to \in Nat /\ Room \in Nat
         /\ plan[decoded + 1][1] \in Nat /\ Room = plan[decoded + 1][2]
         /\ from + plan[decoded + 1][1] = SumOf(Compressed(plan), decoded + 1)
         /\ to + Room = SumOf(Uncompressed(plan), decoded + 1)
         /\ from + plan[decoded + 1][1] <= Len(stored)
         /\ to + Room <= descr.size
         /\ descr.size \in Nat /\ Len(stored) \in Nat
<1>1. PICK n, c, u : n = Len(plan) /\ c = Compressed(plan) /\ u = Uncompressed(plan)
  OBVIOUS
<1>2. PICK k : k = decoded + 1
  OBVIOUS
<1>3. /\ n \in Nat /\ decoded \in Nat
      /\ \A i \in 1 .. n : /\ plan[i][1] \in Nat /\ plan[i][2] \in Nat
                           /\ c[i] = plan[i][1] /\ u[i] = plan[i][2]
  BY <1>1, PlanFacts DEF IInv
<1>4. k \in 1 .. n /\ k - 1 = decoded
  BY <1>1, <1>2, <1>3
<1>5. /\ from = SumOf(c, decoded) /\ to = SumOf(u, decoded)
      /\ SumOf(c, n) = descr.serialized /\ SumOf(u, n) = descr.declared
      /\ Len(stored) = descr.serialized /\ descr.declared = descr.size
  BY <1>1 DEF IInv, InvDecoding, InvPlan, InvPhases, Plausible, Malformed
<1>6. /\ SumOf(c, k - 1) \in Nat /\ SumOf(c, k) = SumOf(c, k - 1) + c[k]
      /\ SumOf(c, k) <= SumOf(c, n)
      /\ SumOf(u, k - 1) \in Nat /\ SumOf(u, k) = SumOf(u, k - 1) + u[k]
      /\ SumOf(u, k) <= SumOf(u, n)
  BY <1>3, <1>4, SizeWithin
<1>7. Room = plan[k][2] /\ plan[k][1] \in Nat /\ plan[k][2] \in Nat
      /\ c[k] = plan[k][1] /\ u[k] = plan[k][2]
  BY <1>2, <1>3, <1>4 DEF Room
<1>8. descr.size \in Nat /\ descr.serialized \in Nat
  BY DescrFacts DEF IInv
<1> QED
  BY <1>1, <1>2, <1>4, <1>5, <1>6, <1>7, <1>8

\* Where its bytes go.
LEMMA TargetFacts ==
  ASSUME IInv, step = "decode", decoded < Len(plan), NEW j \in 1 .. Room
  PROVE  /\ (to + j) - 1 \in 0 .. descr.size - 1
         /\ Target(j) \in 0 .. descr.size - 1
         /\ Ours => Target(j) = Gathered((to + j) - 1)
<1>1. /\ to \in Nat /\ Room \in Nat /\ to + Room <= descr.size /\ descr.size \in Nat
  BY NextSubblock
<1>2. PICK g : g = (to + j) - 1
  OBVIOUS
<1>3. g \in 0 .. descr.size - 1 /\ to + j - 1 = g
  BY <1>1, <1>2
<1>4. descr.item \in Nat \ {0}
  BY DescrFacts DEF IInv
<1>5. Target(j) = IF descr.shuffle THEN ShuffledFrom(descr.size, descr.item, g) ELSE g
  BY <1>3, ScatterIsGather DEF Target
<1>6. ShuffledFrom(descr.size, descr.item, g) \in 0 .. descr.size - 1
  BY <1>1, <1>3, <1>4, ShuffleInside
<1>7. ASSUME Ours
      PROVE  Target(j) = Gathered(g)
  <2>1. descr = Described
    BY <1>7 DEF IInv, InvPhases
  <2>2. /\ descr.size = request.size /\ descr.item = request.item
        /\ descr.shuffle = request.shuffle
    BY <2>1 DEF Described
  <2> QED
    BY <1>5, <2>2 DEF Gathered
<1> QED
  BY <1>2, <1>3, <1>5, <1>6, <1>7

\* The next sub-block of a block of the writer's is the next stream, and no other.
LEMMA OursWhole ==
  ASSUME IInv, Ours, step = "decode", decoded < Len(plan)
  PROVE  /\ decoded + 1 \in DOMAIN streams
         /\ Room = Len(streams[decoded + 1].bytes)
         /\ plan[decoded + 1][1] = streams[decoded + 1].size
         /\ Whole(decoded + 1)
         /\ \A q \in DOMAIN streams : Whole(q) => q = decoded + 1
         /\ \A j \in 1 .. Room : streams[decoded + 1].bytes[j] = Target(j)
<1>1. PICK L, k : L = Len(streams) /\ k = decoded + 1
  OBVIOUS
<1>2. /\ L \in Nat \ {0} /\ Len(stored) = Serialized
      /\ Len(SubblockSizes) = L /\ plan = SubblockSizes
      /\ \A i \in 1 .. L : SubblockSizes[i] = <<streams[i].size, Len(streams[i].bytes)>>
      /\ \A i \in 0 .. L : /\ SumOf(Compressed(SubblockSizes), i) = StreamEnd(i)
                           /\ SumOf(Uncompressed(SubblockSizes), i) = InputEnd(i)
  <2>1. plan = SubblockSizes
    BY DEF IInv, InvPlan
  <2> QED
    BY <1>1, <2>1, OursDescribed
<1>3. /\ decoded \in Nat /\ k \in 1 .. L /\ decoded \in 0 .. L /\ k - 1 = decoded
  <2>1. decoded \in Nat
    BY PlanFacts DEF IInv
  <2> QED
    BY <1>1, <1>2, <2>1
<1>4. /\ k \in DOMAIN streams /\ DOMAIN streams = 1 .. L
      /\ streams[k].size \in Nat \ {0} /\ streams[k].bytes \in Seq(Nat)
      /\ Len(streams[k].bytes) \in Nat
      /\ \A q \in DOMAIN streams : streams[q].size \in Nat \ {0}
  BY <1>1, <1>3, StreamFacts DEF IInv
<1>5. plan[k][1] = streams[k].size /\ plan[k][2] = Len(streams[k].bytes)
      /\ Room = Len(streams[k].bytes)
  BY <1>1, <1>2, <1>3 DEF Room
<1>6. from = StreamEnd(k - 1) /\ to = InputEnd(k - 1) /\ from \in Nat
  <2>1. /\ from = SumOf(Compressed(plan), decoded)
        /\ to = SumOf(Uncompressed(plan), decoded)
    BY DEF IInv, InvDecoding
  <2> QED
    BY <1>2, <1>3, <2>1, NextSubblock
<1>7. PICK n : n = streams[k].size
  OBVIOUS
<1>8. n \in Nat \ {0} /\ from + n <= Len(stored) /\ Len(stored) \in Nat
  BY <1>1, <1>4, <1>5, <1>7, NextSubblock
<1>9. \A j \in 1 .. n : stored[from + j] = <<k, j>>
  BY <1>4, <1>6, <1>7 DEF IInv, InvWriting
<1>10. Slice = [j \in 1 .. n |-> <<k, j>>]
  <2>1. Slice = SubSeq(stored, from + 1, from + n)
    BY <1>1, <1>5, <1>7 DEF Slice
  <2>2. SubSeq(stored, from + 1, from + n) = [j \in 1 .. n |-> stored[from + j]]
    BY <1>6, <1>8, StretchFacts
  <2> QED
    BY <1>9, <2>1, <2>2
<1>11. Whole(k)
  BY <1>5, <1>7, <1>10 DEF Whole, Stream
<1>12. ASSUME NEW q \in DOMAIN streams, Whole(q)
       PROVE  q = k
  <2>1. [j \in 1 .. n |-> <<k, j>>] = [j \in 1 .. streams[q].size |-> <<q, j>>]
    BY <1>10, <1>12 DEF Whole, Stream
  <2>2. 1 \in 1 .. n /\ 1 \in 1 .. streams[q].size
    BY <1>4, <1>8
  <2>3. [j \in 1 .. n |-> <<k, j>>][1] = <<k, 1>>
    BY <2>2
  <2>4. [j \in 1 .. streams[q].size |-> <<q, j>>][1] = <<q, 1>>
    BY <2>2
  <2>5. <<k, 1>> = <<q, 1>>
    BY <2>1, <2>3, <2>4
  <2> QED
    BY <2>5
<1>13. ASSUME NEW j \in 1 .. Room
       PROVE  streams[k].bytes[j] = Target(j)
  <2>1. j \in DOMAIN streams[k].bytes
    BY <1>4, <1>5
  <2>2. streams[k].bytes[j] = Gathered((InputEnd(k - 1) + j) - 1)
    BY <1>4, <2>1 DEF IInv, InvWriting
  <2> QED
    BY <1>6, <2>2, TargetFacts
<1> QED
  BY <1>1, <1>4, <1>5, <1>11, <1>12, <1>13

\* One more sub-block, of the writer's or not.
LEMMA SubblockKeeps ==
  ASSUME IInv, step = "decode", decoded < Len(plan),
         from' = from + plan[decoded + 1][1], to' = to + Room,
         decoded' = decoded + 1,
         UNCHANGED <<step, writing, descr, totals, plan, result>>,
         DOMAIN output' = DOMAIN output,
         \A i \in DOMAIN output' : output'[i] \in Nat \cup {Unknown},
         Ours => /\ \A i \in DOMAIN output' : output'[i] \in {i, Unknown}
                 /\ \A g \in 0 .. (to + Room) - 1 : output'[Gathered(g)] # Unknown
  PROVE  IInv'
<1>1. /\ decoded + 1 \in 1 .. Len(plan) /\ from \in Nat /\ to \in Nat /\ Room \in Nat
      /\ plan[decoded + 1][1] \in Nat
      /\ from' = SumOf(Compressed(plan), decoded + 1)
      /\ to' = SumOf(Uncompressed(plan), decoded + 1)
  BY NextSubblock
<1>2. TypeOK'
  <2>1. from' \in Nat /\ to' \in Nat /\ decoded' \in 0 .. Len(plan')
    <3>1. from + plan[decoded + 1][1] \in Nat /\ to + Room \in Nat
      BY <1>1
    <3>2. Len(plan) \in Nat
      BY PlanFacts DEF IInv
    <3> QED
      BY <1>1, <3>1, <3>2
  <2> QED
    BY <2>1 DEF IInv, TypeOK, writing
<1>3. InvWriting'
  BY WritingKept DEF IInv
<1>4. /\ Ours' = Ours /\ Described' = Described /\ SubblockSizes' = SubblockSizes
      /\ stored' = stored /\ taken' = taken /\ request' = request
  BY DEF writing, Ours, Described, Serialized, SubblockSizes
<1>5. InvPhases'
  BY <1>4 DEF IInv, InvPhases
<1>6. InvPlan'
  <2>1. Plausible' = Plausible
    BY DEF Plausible, Oversized, Malformed, TooLarge, MaxOutput
  <2> QED
    BY <1>4, <2>1 DEF IInv, InvPlan
<1>7. InvDecoding'
  <2>1. \A g : Gathered(g)' = Gathered(g)
    BY <1>4 DEF Gathered, ShuffledFrom
  <2>2. Ours' => /\ \A i \in DOMAIN output' : output'[i] \in {i, Unknown}
                 /\ \A g \in 0 .. to' - 1 : output'[Gathered(g)'] # Unknown
    BY <1>4, <2>1
  <2> QED
    BY <1>1, <2>2 DEF InvDecoding, Gathered, ShuffledFrom
<1>8. ReadsBack'
  <2>1. result = "none"
    BY DEF IInv, InvPhases
  <2> QED
    BY <2>1 DEF ReadsBack
<1> QED
  BY <1>2, <1>3, <1>5, <1>6, <1>7, <1>8 DEF IInv

\* A stream of the writer's, put where it belongs.
LEMMA OursSubblock ==
  ASSUME IInv, step = "decode", decoded < Len(plan),
         NEW k \in DOMAIN streams, Whole(k),
         output' = [i \in DOMAIN output |->
                      IF \E j \in 1 .. Room : Target(j) = i
                      THEN streams[k].bytes[CHOOSE j \in 1 .. Room : Target(j) = i]
                      ELSE output[i]],
         from' = from + plan[decoded + 1][1], to' = to + Room,
         decoded' = decoded + 1,
         UNCHANGED <<step, writing, descr, totals, plan, result>>
  PROVE  IInv'
<1>1. Ours
  BY DEF IInv, InvWriting
<1>2. /\ k = decoded + 1
      /\ \A j \in 1 .. Room : streams[k].bytes[j] = Target(j)
  BY <1>1, OursWhole
<1>3. /\ from \in Nat /\ to \in Nat /\ Room \in Nat /\ to + Room <= descr.size
      /\ descr.size \in Nat
  BY NextSubblock
<1>4. DOMAIN output = 0 .. descr.size - 1
  BY DEF IInv, TypeOK
<1>5. ASSUME NEW i \in DOMAIN output
      PROVE  output'[i] = IF \E j \in 1 .. Room : Target(j) = i THEN i ELSE output[i]
  <2>1. CASE \E j \in 1 .. Room : Target(j) = i
    <3>1. PICK c : c = CHOOSE j \in 1 .. Room : Target(j) = i
      OBVIOUS
    <3>2. c \in 1 .. Room /\ Target(c) = i
      BY <2>1, <3>1
    <3>3. output'[i] = streams[k].bytes[c]
      BY <2>1, <3>1
    <3> QED
      BY <1>2, <2>1, <3>2, <3>3
  <2>2. CASE ~\E j \in 1 .. Room : Target(j) = i
    BY <2>2
  <2> QED
    BY <2>1, <2>2
<1>6. \A i \in DOMAIN output : output[i] \in {i, Unknown} /\ i \in Nat
  BY <1>1, <1>3, <1>4 DEF IInv, InvDecoding
<1>7. ASSUME NEW g \in 0 .. (to + Room) - 1
      PROVE  output'[Gathered(g)] # Unknown
  <2>1. CASE g \in 0 .. to - 1
    <3>1. output[Gathered(g)] # Unknown
      BY <1>1, <2>1 DEF IInv, InvDecoding
    <3>2. Gathered(g) \in DOMAIN output
      <4>1. request \in Request /\ g \in 0 .. descr.size - 1
        BY <1>1, <1>3, <2>1, OursFacts DEF IInv
      <4>2. descr.size = request.size
        BY <1>1 DEF IInv, InvPhases, Described
      <4> QED
        BY <1>4, <4>1, <4>2, GatheredFacts
    <3>3. Gathered(g) # Unknown
      BY <1>6, <3>2 DEF Unknown
    <3> QED
      BY <1>5, <3>1, <3>2, <3>3
  <2>2. CASE g \notin 0 .. to - 1
    <3>1. PICK j : j = (g - to) + 1
      OBVIOUS
    <3>2. j \in 1 .. Room /\ (to + j) - 1 = g
      BY <1>3, <2>2, <3>1
    <3>3. Target(j) = Gathered(g) /\ Target(j) \in 0 .. descr.size - 1
      BY <1>1, <3>2, TargetFacts
    <3>4. output'[Gathered(g)] = Gathered(g)
      BY <1>4, <1>5, <3>2, <3>3
    <3> QED
      BY <1>3, <3>3, <3>4 DEF Unknown
  <2> QED
    BY <2>1, <2>2
<1>8. DOMAIN output' = DOMAIN output
  OBVIOUS
<1>9. \A i \in DOMAIN output' : output'[i] \in {i, Unknown}
  BY <1>5, <1>6, <1>8
<1>10. \A i \in DOMAIN output' : output'[i] \in Nat \cup {Unknown}
  BY <1>6, <1>8, <1>9
<1> QED
  BY <1>7, <1>8, <1>9, <1>10, SubblockKeeps

LEMMA DecodeKeeps ==
  ASSUME IInv, DecodeChunk
  PROVE  IInv'
<1>1. step = "decode" /\ decoded < Len(plan)
  BY DEF DecodeChunk
<1>2. CASE \/ Fail("cancelled")
           \/ TooLong /\ Fail("resource_limit")
           \/ ~(\E k \in DOMAIN streams : Whole(k)) /\ Fail("codec")
  <2>1. Ours /\ TooLong => Excess
    BY <1>1, OursWhole DEF TooLong, Excess
  <2>2. Ours => \E k \in DOMAIN streams : Whole(k)
    BY <1>1, OursWhole
  <2> QED
    BY <1>2, <2>1, <2>2, FailKeeps DEF CodecErrors
<1>3. ASSUME NEW k \in DOMAIN streams, Whole(k),
             output' = [i \in DOMAIN output |->
                          IF \E j \in 1 .. Room : Target(j) = i
                          THEN streams[k].bytes[CHOOSE j \in 1 .. Room :
                                                  Target(j) = i]
                          ELSE output[i]],
             from' = from + plan[decoded + 1][1], to' = to + Room,
             decoded' = decoded + 1,
             UNCHANGED <<step, writing, descr, totals, plan, result>>
      PROVE  IInv'
  BY <1>1, <1>3, OursSubblock
<1>4. CASE /\ streams = << >>
           /\ from' = from + plan[decoded + 1][1]
           /\ to' = to + Room /\ decoded' = decoded + 1
           /\ UNCHANGED <<step, writing, descr, totals, plan, output, result>>
  <2>1. ~Ours
    <3> SUFFICES ASSUME Ours PROVE FALSE
      OBVIOUS
    <3>1. Len(streams) # 0
      BY <1>1, OursDescribed
    <3> QED
      BY <1>4, <3>1
  <2>2. \A i \in DOMAIN output' : output'[i] \in Nat \cup {Unknown}
    BY <1>4 DEF IInv, TypeOK
  <2> QED
    BY <1>1, <1>4, <2>1, <2>2, SubblockKeeps
<1> QED
  BY <1>2, <1>3, <1>4 DEF DecodeChunk

LEMMA DeliverKeeps ==
  ASSUME IInv, Deliver
  PROVE  IInv'
<1>1. /\ step = "decode" /\ decoded = Len(plan) /\ step' = "ok" /\ result' = "ok"
      /\ UNCHANGED <<writing, descr, reading>>
  BY DEF Deliver
<1>2. TypeOK'
  BY <1>1 DEF IInv, TypeOK, writing, reading
<1>3. InvWriting'
  BY <1>1, WritingKept DEF IInv
<1>4. /\ Ours' = Ours /\ Described' = Described /\ SubblockSizes' = SubblockSizes
      /\ stored' = stored /\ taken' = taken /\ request' = request
  BY <1>1 DEF writing, Ours, Described, Serialized, SubblockSizes
<1>5. InvPhases'
  BY <1>1, <1>4 DEF IInv, InvPhases
<1>6. InvPlan'
  <2>1. Plausible' = Plausible
    BY <1>1 DEF Plausible, Oversized, Malformed, TooLarge, MaxOutput
  <2> QED
    BY <1>1, <1>4, <2>1 DEF IInv, InvPlan, reading
<1>7. InvDecoding'
  BY <1>1, <1>4 DEF IInv, InvDecoding, reading, Gathered, ShuffledFrom
<1>8. ReadsBack'
  <2>1. ASSUME Ours, NEW i \in DOMAIN output
        PROVE  output[i] = i
    <3>1. descr = Described /\ request \in Request /\ descr.size = request.size
      BY <1>1, <2>1, OursFacts DEF IInv, InvPhases, Described
    <3>2. to = request.size
      BY <1>1, <3>1 DEF IInv, InvDecoding, InvPlan, Described
    <3>3. i \in 0 .. request.size - 1
      BY <3>1 DEF IInv, TypeOK
    <3>4. PICK g \in 0 .. request.size - 1 : Gathered(g) = i
      BY <3>1, <3>3, GatheredFacts
    <3>5. output[Gathered(g)] # Unknown /\ output[i] \in {i, Unknown}
      BY <1>1, <2>1, <3>2 DEF IInv, InvDecoding
    <3> QED
      BY <3>4, <3>5
  <2> QED
    BY <1>1, <1>4, <2>1 DEF ReadsBack, reading
<1> QED
  BY <1>2, <1>3, <1>5, <1>6, <1>7, <1>8 DEF IInv

-----------------------------------------------------------------------------
(* The theorems.                                                              *)

\* A step of the specification, or none.
LEMMA StepKeeps ==
  ASSUME IInv, [Next]_vars
  PROVE  IInv'
<1>1. CASE Next
  BY <1>1, PrepareKeeps, ForeignKeeps, CompressKeeps, DescribeKeeps,
     ParseBlockKeeps, ParsePairKeeps, ParseTotalsKeeps, DecodeKeeps, DeliverKeeps
     DEF Next
<1>2. CASE UNCHANGED vars
  <2>1. UNCHANGED <<step, writing, descr, reading, result>>
    BY <1>2 DEF vars
  <2>2. TypeOK'
    BY <2>1 DEF IInv, TypeOK, writing, reading
  <2>3. InvWriting'
    BY <2>1, WritingKept DEF IInv
  <2>4. /\ Ours' = Ours /\ Described' = Described /\ SubblockSizes' = SubblockSizes
        /\ stored' = stored /\ taken' = taken /\ request' = request
    BY <2>1 DEF writing, Ours, Described, Serialized, SubblockSizes
  <2>5. InvPhases'
    BY <2>1, <2>4 DEF IInv, InvPhases, reading, writing
  <2>6. Plausible' = Plausible
    BY <2>1 DEF Plausible, Oversized, Malformed, TooLarge, MaxOutput
  <2>7. InvPlan'
    BY <2>1, <2>4, <2>6 DEF IInv, InvPlan, reading
  <2>8. InvDecoding'
    BY <2>1, <2>4 DEF IInv, InvDecoding, reading, Gathered, ShuffledFrom
  <2>9. ReadsBack'
    BY <2>1, <2>4 DEF IInv, ReadsBack, reading, writing
  <2> QED
    BY <2>2, <2>3, <2>5, <2>7, <2>8, <2>9 DEF IInv
<1> QED
  BY <1>1, <1>2

\* The invariant holds of every behaviour.
THEOREM BlocksStayWellFormed == Spec => []IInv
<1>1. Init => IInv
  BY InitHolds
<1>2. IInv /\ [Next]_vars => IInv'
  BY StepKeeps
<1> QED
  BY <1>1, <1>2, PTL DEF Spec

\* The writer's streams, the spool, the header's numbers and the decoder's offsets
\* keep their types; among them, that no total goes beyond 64 bits.
THEOREM TypeCorrect == Spec => []TypeOK
<1>1. IInv => TypeOK
  BY DEF IInv
<1> QED
  BY <1>1, BlocksStayWellFormed, PTL

\* A block of any size, shuffled by items of any size and cut into sub-blocks of any
\* length, comes back byte for byte, and the reader refuses it for its size only
\* (prepare_block, parse_compression_plan, decode_compressed_block).
THEOREM WrittenBlocksReadBack == Spec => []ReadsBack
<1>1. IInv => ReadsBack
  BY DEF IInv
<1> QED
  BY <1>1, BlocksStayWellFormed, PTL

\* Whatever descriptor a header holds, the slices decode_compressed_block takes stay
\* inside the stored bytes and inside the destination.
THEOREM DecodingStaysInBounds == Spec => []DecodesInBounds
<1>1. ASSUME IInv
      PROVE  DecodesInBounds
  <2>1. ASSUME step = "decode", decoded < Len(plan)
        PROVE  /\ from + plan[decoded + 1][1] <= Len(stored)
               /\ to + Room <= descr.size
               /\ \A j \in 1 .. Room : Target(j) \in DOMAIN output
    <3>1. DOMAIN output = 0 .. descr.size - 1
      BY <1>1 DEF IInv, TypeOK
    <3> QED
      BY <1>1, <2>1, <3>1, NextSubblock, TargetFacts
  <2>2. ASSUME step = "ok"
        PROVE  from = Len(stored) /\ to = descr.size
    BY <1>1, <2>2 DEF IInv, InvDecoding, InvPlan, InvPhases, Plausible, Malformed
  <2> QED
    BY <2>1, <2>2 DEF DecodesInBounds
<1> QED
  BY <1>1, BlocksStayWellFormed, PTL
=============================================================================
