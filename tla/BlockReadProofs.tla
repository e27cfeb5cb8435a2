--------------------------- MODULE BlockReadProofs ---------------------------
(***************************************************************************)
(* What module BlockRead claims of concurrent reads, proved for every number *)
(* of clients, every file, every shape of image and every chunk size.        *)
(***************************************************************************)
EXTENDS BlockRead, ArithmeticLemmas

-----------------------------------------------------------------------------
(* Where the bytes go: Place and SourceOf undo each other.                    *)

\* The sizes that make up a block.
LEMMA SizeFacts ==
  ASSUME NEW m \in BlockPlan
  PROVE  /\ m.channels \in Nat \ {0} /\ m.pixels \in Nat \ {0}
         /\ m.components \in Nat \ {0} /\ m.width \in Nat \ {0}
         /\ SampleSize(m) \in Nat \ {0} /\ Samples(m) \in Nat \ {0}
         /\ Size(m) \in Nat \ {0}
         /\ m.offset \in Nat
<1>1. /\ m.channels \in Nat \ {0} /\ m.pixels \in Nat \ {0}
      /\ m.components \in Nat \ {0} /\ m.width \in Nat \ {0}
      /\ m.offset \in Nat
  BY DEF BlockPlan
<1>2. \A a, b \in Nat \ {0} : a * b \in Nat \ {0}
  OBVIOUS
<1>3. SampleSize(m) \in Nat \ {0} /\ Samples(m) \in Nat \ {0}
  BY <1>1, <1>2 DEF SampleSize, Samples
<1>4. Size(m) \in Nat \ {0}
  BY <1>2, <1>3 DEF Size
<1> QED
  BY <1>1, <1>3, <1>4

\* Samples are rearranged one to one.
LEMMA SamplesCorrespond ==
  ASSUME NEW m \in BlockPlan, NEW k \in 0 .. Samples(m) - 1
  PROVE  /\ SampleTo(m, k) \in 0 .. Samples(m) - 1
         /\ SampleFrom(m, k) \in 0 .. Samples(m) - 1
         /\ SampleFrom(m, SampleTo(m, k)) = k
         /\ SampleTo(m, SampleFrom(m, k)) = k
<1> DEFINE C == m.channels
           P == m.pixels
<1>1. C \in Nat \ {0} /\ P \in Nat \ {0} /\ k \in Nat
  BY SizeFacts
<1>2. k \in 0 .. C * P - 1 /\ k \in 0 .. P * C - 1
  BY <1>1 DEF Samples
<1>3. Samples(m) = C * P /\ Samples(m) = P * C
  BY <1>1 DEF Samples
\* Channel by channel, and pixel by pixel.
<1>4. /\ k \div P \in 0 .. C - 1 /\ k % P \in 0 .. P - 1
      /\ k = (k \div P) * P + (k % P)
  <2> HIDE DEF C, P
  <2> QED
    BY <1>1, <1>2, InPart, DivMod
<1>5. /\ k \div C \in 0 .. P - 1 /\ k % C \in 0 .. C - 1
      /\ k = (k \div C) * C + (k % C)
  <2> HIDE DEF C, P
  <2> QED
    BY <1>1, <1>2, InPart, DivMod
<1>6. ASSUME NEW channel \in 0 .. C - 1, NEW pixel \in 0 .. P - 1
      PROVE  /\ channel * P + pixel \in 0 .. C * P - 1
             /\ (channel * P + pixel) \div P = channel
             /\ (channel * P + pixel) % P = pixel
             /\ pixel * C + channel \in 0 .. P * C - 1
             /\ (pixel * C + channel) \div C = pixel
             /\ (pixel * C + channel) % C = channel
  <2> HIDE DEF C, P
  <2>1. channel \in Nat /\ pixel \in Nat
    BY <1>1
  <2> QED
    BY <1>1, <2>1, InWhole, DivModOf
<1> DEFINE c1 == k \div P
           p1 == k % P
           c2 == k % C
           p2 == k \div C
<1>7. CASE m.planar = m.toPlanar
  <2>1. SampleTo(m, k) = k /\ SampleFrom(m, k) = k
    BY <1>4, <1>5, <1>7 DEF SampleTo, SampleFrom
  <2> QED
    BY <2>1
<1>8. CASE m.planar /\ ~m.toPlanar
  <2>1. SampleTo(m, k) = p1 * C + c1 /\ SampleFrom(m, k) = c2 * P + p2
    BY <1>8 DEF SampleTo, SampleFrom
  <2>2. SampleFrom(m, SampleTo(m, k)) = c1 * P + p1
    BY <1>4, <1>6, <1>8, <2>1 DEF SampleFrom
  <2>3. SampleTo(m, SampleFrom(m, k)) = p2 * C + c2
    BY <1>5, <1>6, <1>8, <2>1 DEF SampleTo
  <2> QED
    BY <1>3, <1>4, <1>5, <1>6, <2>1, <2>2, <2>3
<1>9. CASE ~m.planar /\ m.toPlanar
  <2>1. SampleTo(m, k) = c2 * P + p2 /\ SampleFrom(m, k) = p1 * C + c1
    BY <1>9 DEF SampleTo, SampleFrom
  <2>2. SampleFrom(m, SampleTo(m, k)) = p2 * C + c2
    BY <1>5, <1>6, <1>9, <2>1 DEF SampleFrom
  <2>3. SampleTo(m, SampleFrom(m, k)) = c1 * P + p1
    BY <1>4, <1>6, <1>9, <2>1 DEF SampleTo
  <2> QED
    BY <1>3, <1>4, <1>5, <1>6, <2>1, <2>2, <2>3
<1> QED
  BY <1>7, <1>8, <1>9 DEF BlockPlan

\* The place of byte r of a sample in a sample of the other byte order.
Mirror(m, r) == (r \div m.width) * m.width + (m.width - 1 - (r % m.width))

\* Reversing the bytes of every component twice changes nothing.
LEMMA MirrorTwice ==
  ASSUME NEW m \in BlockPlan, NEW r \in 0 .. SampleSize(m) - 1
  PROVE  /\ Mirror(m, r) \in 0 .. SampleSize(m) - 1
         /\ Mirror(m, Mirror(m, r)) = r
<1> DEFINE W == m.width
           q == r \div W
           d == r % W
<1>1. W \in Nat \ {0} /\ m.components \in Nat \ {0} /\ r \in Nat
  BY SizeFacts
<1>2. SampleSize(m) = m.components * W
  BY DEF SampleSize
<1> HIDE DEF W
<1>3. q \in 0 .. m.components - 1 /\ d \in 0 .. W - 1 /\ r = q * W + d
  BY <1>1, <1>2, InPart, DivMod
<1> HIDE DEF q, d
<1>4. W - 1 - d \in 0 .. W - 1 /\ W - 1 - (W - 1 - d) = d /\ q \in Nat
  BY <1>1, <1>3
<1>5. Mirror(m, r) = q * W + (W - 1 - d)
  BY DEF Mirror, W, q, d
<1>6. Mirror(m, r) \in 0 .. SampleSize(m) - 1
  BY <1>1, <1>2, <1>3, <1>4, <1>5, InWhole
<1>7. Mirror(m, r) \div W = q /\ Mirror(m, r) % W = W - 1 - d
  <2> DEFINE e == W - 1 - d
  <2>1. e \in 0 .. W - 1 /\ Mirror(m, r) = q * W + e
    BY <1>4, <1>5
  <2> HIDE DEF e
  <2>2. (q * W + e) \div W = q /\ (q * W + e) % W = e
    <3>1. W \in Nat \ {0} /\ q \in Nat /\ e \in 0 .. W - 1
      BY <1>1, <1>4, <2>1
    <3> QED
      BY <3>1, DivModOf
  <2> QED
    BY <2>1, <2>2 DEF e
<1>8. Mirror(m, Mirror(m, r)) = q * W + (W - 1 - (W - 1 - d))
  BY <1>7 DEF Mirror, W
<1> QED
  BY <1>3, <1>4, <1>6, <1>8

\* swap_byte_order_in_place stays within the sample.
LEMMA ByteToMirror ==
  ASSUME NEW m \in BlockPlan, NEW k \in Nat, NEW r \in 0 .. SampleSize(m) - 1
  PROVE  ByteTo(m, k * SampleSize(m) + r) = k * SampleSize(m) + Mirror(m, r)
<1> DEFINE W == m.width
           N == m.components
           q == r \div W
           d == r % W
           b == k * SampleSize(m) + r
<1>1. W \in Nat \ {0} /\ N \in Nat \ {0} /\ r \in Nat
  BY SizeFacts
<1>2. SampleSize(m) = N * W
  BY DEF SampleSize
<1> HIDE DEF W, N
<1>3. q \in Nat /\ d \in 0 .. W - 1 /\ r = q * W + d
  BY <1>1, DivMod
<1> HIDE DEF q, d
<1>4. k * N + q \in Nat /\ k * (N * W) = (k * N) * W /\ k * N \in Nat
  BY <1>1, <1>3
<1>5. (k * N) * W + q * W = (k * N + q) * W
  BY <1>1, <1>3, <1>4
<1>6. b = (k * N + q) * W + d
  <2>1. b = (k * N) * W + (q * W + d)
    BY <1>2, <1>3, <1>4
  <2>2. (k * N) * W \in Nat /\ q * W \in Nat /\ (k * N + q) * W \in Nat
    BY <1>1, <1>3, <1>4
  <2> HIDE DEF b
  <2> QED
    BY <1>3, <1>5, <2>1, <2>2
<1>7. b \div W = k * N + q /\ b % W = d
  <2> DEFINE n == k * N + q
  <2>1. n \in Nat /\ b = n * W + d
    BY <1>4, <1>6
  <2> HIDE DEF n, b
  <2>2. b \div W = n /\ b % W = d
    BY <1>1, <1>3, <2>1, DivModOf
  <2> QED
    BY <2>2 DEF n
<1>8. ByteTo(m, b) = (k * N + q) * W + (W - 1 - d)
  BY <1>7 DEF ByteTo, W
<1>9. Mirror(m, r) = q * W + (W - 1 - d)
  BY DEF Mirror, q, d, W
<1>10. k * SampleSize(m) = (k * N) * W
  BY <1>2, <1>4
<1> HIDE DEF b
<1> QED
  <2>1. (k * N) * W \in Nat /\ q * W \in Nat /\ W - 1 - d \in Nat
    BY <1>1, <1>3, <1>4
  <2>2. ByteTo(m, b) = (k * N) * W + (q * W + (W - 1 - d))
    BY <1>5, <1>8, <2>1
  <2> QED
    BY <1>9, <1>10, <2>2 DEF b

\* Where byte r of a sample stands in the result.
Turned(m, r) == IF m.swapped THEN Mirror(m, r) ELSE r

LEMMA TurnedTwice ==
  ASSUME NEW m \in BlockPlan, NEW r \in 0 .. SampleSize(m) - 1
  PROVE  /\ Turned(m, r) \in 0 .. SampleSize(m) - 1
         /\ Turned(m, Turned(m, r)) = r
BY MirrorTwice DEF Turned

\* A byte of the block as a sample and a byte of the sample.
LEMMA ByteOfSample ==
  ASSUME NEW m \in BlockPlan, NEW i \in 0 .. Size(m) - 1
  PROVE  /\ i \div SampleSize(m) \in 0 .. Samples(m) - 1
         /\ i % SampleSize(m) \in 0 .. SampleSize(m) - 1
         /\ i = (i \div SampleSize(m)) * SampleSize(m) + (i % SampleSize(m))
<1>1. /\ SampleSize(m) \in Nat \ {0} /\ Samples(m) \in Nat
      /\ i \in 0 .. Samples(m) * SampleSize(m) - 1 /\ i \in Nat
  BY SizeFacts DEF Size
<1> QED
  BY <1>1, InPart, DivMod

\* Place and SourceOf, sample by sample.
LEMMA PlaceBySample ==
  ASSUME NEW m \in BlockPlan, NEW i \in 0 .. Size(m) - 1
  PROVE  LET s == SampleSize(m)
         IN /\ Place(m, i) = SampleTo(m, i \div s) * s + Turned(m, i % s)
            /\ SourceOf(m, i) = SampleFrom(m, i \div s) * s + Turned(m, i % s)
<1> DEFINE s == SampleSize(m)
           k == i \div s
           r == i % s
<1>1. k \in 0 .. Samples(m) - 1 /\ r \in 0 .. s - 1
  BY ByteOfSample
<1>2. SampleTo(m, k) \in Nat /\ SampleFrom(m, k) \in Nat /\ s \in Nat \ {0}
  BY <1>1, SamplesCorrespond, SizeFacts
<1>3. Place(m, i) = SampleTo(m, k) * s + Turned(m, r)
  <2>1. CASE m.swapped
    BY <1>1, <1>2, <2>1, ByteToMirror DEF Place, Turned
  <2>2. CASE ~m.swapped
    BY <2>2 DEF Place, Turned
  <2> QED
    BY <2>1, <2>2
<1>4. SourceOf(m, i) = SampleFrom(m, k) * s + Turned(m, r)
  <2>1. m.width \in Nat \ {0} /\ r \in Nat
    BY <1>1, SizeFacts
  <2>2. r = (r \div m.width) * m.width + (r % m.width)
    BY <2>1, DivMod
  <2>3. SourceOf(m, i) = SampleFrom(m, k) * s +
          ((r \div m.width) * m.width +
             (IF m.swapped THEN m.width - 1 - (r % m.width) ELSE r % m.width))
    BY DEF SourceOf
  <2> HIDE DEF s, k, r
  <2> QED
    BY <2>2, <2>3 DEF Turned, Mirror
<1> QED
  BY <1>3, <1>4

\* Every byte of the block has one place, and every place one byte.
LEMMA PlacesCorrespond ==
  ASSUME NEW m \in BlockPlan, NEW i \in 0 .. Size(m) - 1
  PROVE  /\ Place(m, i) \in 0 .. Size(m) - 1
         /\ SourceOf(m, i) \in 0 .. Size(m) - 1
         /\ SourceOf(m, Place(m, i)) = i
         /\ Place(m, SourceOf(m, i)) = i
<1> DEFINE s == SampleSize(m)
           k == i \div s
           r == i % s
           t == SampleTo(m, k)
           f == SampleFrom(m, k)
           u == Turned(m, r)
<1>1. k \in 0 .. Samples(m) - 1 /\ r \in 0 .. s - 1 /\ i = k * s + r
  BY ByteOfSample
<1>2. s \in Nat \ {0} /\ Samples(m) \in Nat /\ Size(m) = Samples(m) * s
  BY SizeFacts DEF Size
<1>3. /\ t \in 0 .. Samples(m) - 1 /\ f \in 0 .. Samples(m) - 1
      /\ SampleFrom(m, t) = k /\ SampleTo(m, f) = k
  BY <1>1, SamplesCorrespond
<1>4. u \in 0 .. s - 1 /\ Turned(m, u) = r
  BY <1>1, TurnedTwice
<1>5. Place(m, i) = t * s + u /\ SourceOf(m, i) = f * s + u
  BY PlaceBySample
<1> HIDE DEF s, k, r, t, f, u
<1>6. ASSUME NEW j \in 0 .. Samples(m) - 1
      PROVE  /\ j * s + u \in 0 .. Size(m) - 1
             /\ (j * s + u) \div s = j /\ (j * s + u) % s = u
  <2>1. j \in Nat
    OBVIOUS
  <2> QED
    BY <1>2, <1>4, <2>1, InWhole, DivModOf
<1>7. Place(m, i) \in 0 .. Size(m) - 1 /\ SourceOf(m, i) \in 0 .. Size(m) - 1
  BY <1>3, <1>5, <1>6
<1>8. SourceOf(m, Place(m, i)) = k * s + r
  <2>1. Place(m, i) \div s = t /\ Place(m, i) % s = u
    BY <1>3, <1>5, <1>6
  <2> QED
    BY <1>3, <1>4, <1>7, <2>1, PlaceBySample DEF s
<1>9. Place(m, SourceOf(m, i)) = k * s + r
  <2>1. SourceOf(m, i) \div s = f /\ SourceOf(m, i) % s = u
    BY <1>3, <1>5, <1>6
  <2> QED
    BY <1>3, <1>4, <1>7, <2>1, PlaceBySample DEF s
<1> QED
  BY <1>1, <1>7, <1>8, <1>9

\* A block whose samples stay in order is at most swapped byte by byte.
LEMMA SourceInOrder ==
  ASSUME NEW m \in BlockPlan, ~Rearranged(m), NEW i \in 0 .. Size(m) - 1
  PROVE  /\ SourceOf(m, i) = IF m.swapped THEN ByteTo(m, i) ELSE i
         /\ SampleSize(m) = 1 => SourceOf(m, i) = i
<1> DEFINE s == SampleSize(m)
           k == i \div s
           r == i % s
<1>1. k \in 0 .. Samples(m) - 1 /\ r \in 0 .. s - 1 /\ i = k * s + r
  BY ByteOfSample
<1>2. SampleFrom(m, k) = k
  <2>1. m.pixels \in Nat \ {0} /\ m.channels \in Nat \ {0} /\ k \in Nat
    BY <1>1, SizeFacts
  <2>2. /\ k = (k \div m.pixels) * m.pixels + (k % m.pixels)
        /\ k = (k \div m.channels) * m.channels + (k % m.channels)
    BY <2>1, DivMod
  <2> HIDE DEF k
  <2> QED
    BY <2>2 DEF SampleFrom, Rearranged, BlockPlan
<1>3. SourceOf(m, i) = k * s + Turned(m, r)
  BY <1>2, PlaceBySample
<1>4. CASE m.swapped
  <2>1. k \in Nat
    BY <1>1
  <2>2. ByteTo(m, i) = k * s + Mirror(m, r)
    BY <1>1, <2>1, ByteToMirror
  <2>3. SourceOf(m, i) = k * s + Mirror(m, r)
    BY <1>3, <1>4 DEF Turned
  <2>4. s = 1 => Mirror(m, r) = r
    <3>1. r \in 0 .. s - 1 /\ Mirror(m, r) \in 0 .. s - 1
      BY <1>1, MirrorTwice
    <3> HIDE DEF s, r
    <3> QED
      BY <3>1
  <2> HIDE DEF s, k, r
  <2> QED
    BY <1>1, <1>4, <2>2, <2>3, <2>4 DEF s
<1>5. CASE ~m.swapped
  BY <1>1, <1>3, <1>5 DEF Turned
<1> QED
  BY <1>4, <1>5

-----------------------------------------------------------------------------
(* The source.                                                                *)

\* The state of the source and of its clients stays where it is.
LEMMA SourceUnchanged ==
  ASSUME SourceTypeOK, SourceInv, UNCHANGED <<file, stream, reads>>
  PROVE  SourceTypeOK' /\ SourceInv'
<1>1. UNCHANGED <<good, length, mutex, position, exhausted, request, stage, reply>>
  BY DEF file, stream, reads
<1> QED
  BY <1>1 DEF SourceTypeOK, SourceInv

\* The mutex is taken by one client, and the stream's error forgotten.
LEMMA AcquireInv ==
  ASSUME SourceTypeOK, SourceInv, NEW c \in Clients, Acquire(c)
  PROVE  SourceTypeOK' /\ SourceInv'
<1>1. /\ UNCHANGED <<good, length, position, request, reply>>
      /\ mutex = Free /\ mutex' = c /\ exhausted' = FALSE
      /\ stage' = [stage EXCEPT ![c] = "held"]
  BY DEF Acquire, NotLocked, Cleared, file
<1>2. stage'[c] = "held" /\ \A b \in Clients \ {c} : stage'[b] = stage[b]
  BY <1>1 DEF SourceTypeOK
<1>3. ASSUME NEW b \in Clients
      PROVE  stage[b] \notin {"held", "sought"}
  BY <1>1, SourceAssumption DEF SourceInv, SourceAssumption
<1>4. SourceTypeOK'
  BY <1>1 DEF SourceTypeOK
<1>5. SourceInv'
  BY <1>1, <1>2, <1>3 DEF SourceInv
<1> QED
  BY <1>4, <1>5

\* The stream is moved for the range of the holder.
LEMMA SeekInv ==
  ASSUME SourceTypeOK, SourceInv, NEW c \in Clients, Seek(c)
  PROVE  SourceTypeOK' /\ SourceInv'
<1>1. stage[c] = "held" /\ ~exhausted /\ mutex = c
  BY DEF Seek, SourceInv
<1>2. /\ UNCHANGED <<good, length, mutex, exhausted, request, reply>>
      /\ position' = request[c].offset
      /\ stage' = [stage EXCEPT ![c] = "sought"]
  BY <1>1 DEF Seek, file
<1>3. stage'[c] = "sought" /\ \A b \in Clients \ {c} : stage'[b] = stage[b]
  BY <1>2 DEF SourceTypeOK
<1>4. SourceTypeOK'
  BY <1>2 DEF SourceTypeOK
<1>5. ASSUME NEW b \in Clients \ {c}
      PROVE  stage[b] \notin {"held", "sought"}
  BY <1>1 DEF SourceInv
<1>6. SourceInv'
  BY <1>1, <1>2, <1>3, <1>5 DEF SourceInv
<1> QED
  BY <1>4, <1>6

\* What the stream gives, and when it is less than was asked for.
LEMMA AvailableFacts ==
  ASSUME SourceTypeOK, NEW c \in Clients
  PROVE  /\ Available(c) \in Nat
         /\ Available(c) <= request[c].count
         /\ Available(c) > 0 => position + Available(c) <= length
         /\ Available(c) < request[c].count =>
              length < position + request[c].count
<1>1. /\ position \in Int /\ length \in Int /\ request[c].count \in Nat
  BY SourceAssumption DEF SourceTypeOK, SourceAssumption
<1> QED
  BY <1>1 DEF Available, Fewer

\* The holder reads what is left of its range, and lets go of the mutex.
LEMMA ReadStreamInv ==
  ASSUME SourceTypeOK, SourceInv, NEW c \in Clients, ReadStream(c)
  PROVE  SourceTypeOK' /\ SourceInv'
<1> DEFINE n == Available(c)
           bytes == [j \in 1 .. n |-> [at |-> position + j - 1,
                                       good |-> good[position + j - 1]]]
<1>1. /\ stage[c] = "sought" /\ mutex = c /\ position = request[c].offset
  BY DEF ReadStream, SourceInv
<1>2. /\ UNCHANGED <<good, length, request>>
      /\ position' = position + n /\ exhausted' = (n < request[c].count)
      /\ mutex' = Free
      /\ reply' = [reply EXCEPT ![c] = bytes]
      /\ stage' = [stage EXCEPT ![c] = "replied"]
  BY DEF ReadStream, Reply, Release, file
<1>3. /\ position \in 0 .. FileSize /\ length \in 0 .. FileSize /\ FileSize \in Nat
      /\ n \in Nat /\ n <= request[c].count
      /\ n > 0 => position + n <= length
      /\ n < request[c].count => length < position + request[c].count
  BY AvailableFacts, SourceAssumption DEF SourceTypeOK, SourceAssumption
<1>4. ASSUME NEW j \in 1 .. n
      PROVE  /\ position + j - 1 \in 0 .. FileSize - 1
             /\ [at |-> position + j - 1, good |-> good[position + j - 1]] \in Byte
  <2>1. position + j - 1 \in 0 .. FileSize - 1
    BY <1>3
  <2>2. good[position + j - 1] \in BOOLEAN
    BY <2>1 DEF SourceTypeOK
  <2> QED
    BY <2>1, <2>2 DEF Byte
<1>5. bytes \in Seq(Byte) /\ Len(bytes) = n /\ DOMAIN bytes = 1 .. n
      /\ \A j \in 1 .. n : bytes[j].at = position + j - 1
  BY <1>3, <1>4
<1>6. /\ stage'[c] = "replied" /\ reply'[c] = bytes
      /\ \A b \in Clients \ {c} : stage'[b] = stage[b] /\ reply'[b] = reply[b]
  BY <1>2 DEF SourceTypeOK
<1>7. ASSUME NEW b \in Clients \ {c}
      PROVE  stage[b] \notin {"held", "sought"}
  BY <1>1 DEF SourceInv
<1> HIDE DEF n, bytes
<1>8. SourceTypeOK'
  <2>1. position + n \in 0 .. FileSize
    BY <1>3
  <2>2. mutex' \in Clients \cup {Free}
    BY <1>2
  <2>3. exhausted' \in BOOLEAN
    BY <1>2
  <2>4. /\ reply' \in [Clients -> Seq(Byte) \cup {IoError}]
        /\ stage' \in [Clients -> {"none", "asked", "held", "sought", "replied"}]
    BY <1>2, <1>5 DEF SourceTypeOK
  <2> QED
    BY <1>2, <2>1, <2>2, <2>3, <2>4 DEF SourceTypeOK
<1>9. SourceInv'
  <2>1. ASSUME NEW b \in Clients \ {c}
        PROVE  /\ request'[b].offset + request'[b].count <= FileSize
               /\ stage'[b] \notin {"held", "sought"}
               /\ stage'[b] = "replied" =>
                    /\ reply'[b] \in Seq(Byte)
                    /\ Len(reply'[b]) <= request'[b].count
                    /\ \A j \in DOMAIN reply'[b] :
                         reply'[b][j].at = request'[b].offset + j - 1
                    /\ Len(reply'[b]) < request'[b].count =>
                         length' < request'[b].offset + request'[b].count
    BY <1>2, <1>6, <1>7 DEF SourceInv
  <2>2. /\ request'[c].offset + request'[c].count <= FileSize
        /\ reply'[c] \in Seq(Byte)
        /\ Len(reply'[c]) <= request'[c].count
        /\ \A j \in DOMAIN reply'[c] :
             reply'[c][j].at = request'[c].offset + j - 1
        /\ Len(reply'[c]) < request'[c].count =>
             length' < request'[c].offset + request'[c].count
    BY <1>1, <1>2, <1>3, <1>5, <1>6 DEF SourceInv
  <2> QED
    BY <1>6, <2>1, <2>2 DEF SourceInv
<1> QED
  BY <1>8, <1>9

\* A client asks for a range of the file.
LEMMA AskInv ==
  ASSUME SourceTypeOK, SourceInv, NEW c \in Clients,
         NEW offset \in Nat, NEW count \in Nat, Ask(c, offset, count)
  PROVE  /\ SourceTypeOK' /\ SourceInv'
         /\ stage' = [stage EXCEPT ![c] = "asked"]
         /\ request' = [request EXCEPT ![c] = [offset |-> offset, count |-> count]]
         /\ length' = length
<1>1. /\ UNCHANGED <<good, length, mutex, position, exhausted, reply>>
      /\ request' = [request EXCEPT ![c] = [offset |-> offset, count |-> count]]
      /\ stage' = [stage EXCEPT ![c] = "asked"]
      /\ offset + count <= FileSize
  BY DEF Ask, file, stream
<1>2. /\ stage'[c] = "asked" /\ request'[c] = [offset |-> offset, count |-> count]
      /\ \A b \in Clients \ {c} : stage'[b] = stage[b] /\ request'[b] = request[b]
  BY <1>1 DEF SourceTypeOK
<1>3. offset \in 0 .. FileSize /\ count \in 0 .. FileSize
  BY <1>1, SourceAssumption DEF SourceAssumption
<1>4. SourceTypeOK'
  BY <1>1, <1>3 DEF SourceTypeOK
<1>5. SourceInv'
  BY <1>1, <1>2 DEF SourceInv
<1> QED
  BY <1>1, <1>4, <1>5

\* A client takes a reply.
LEMMA TakenInv ==
  ASSUME SourceTypeOK, SourceInv, NEW c \in Clients, Taken(c)
  PROVE  /\ SourceTypeOK' /\ SourceInv'
         /\ stage[c] = "replied"
         /\ stage' = [stage EXCEPT ![c] = "none"]
         /\ request' = request /\ length' = length
<1>1. /\ UNCHANGED <<good, length, mutex, position, exhausted, request>>
      /\ stage[c] = "replied"
      /\ stage' = [stage EXCEPT ![c] = "none"]
      /\ reply' = [reply EXCEPT ![c] = << >>]
  BY DEF Taken, file, stream
<1>2. /\ stage'[c] = "none"
      /\ \A b \in Clients \ {c} : stage'[b] = stage[b] /\ reply'[b] = reply[b]
  BY <1>1 DEF SourceTypeOK
<1>3. SourceTypeOK'
  BY <1>1 DEF SourceTypeOK
<1>4. SourceInv'
  BY <1>1, <1>2 DEF SourceInv
<1> QED
  BY <1>1, <1>3, <1>4

\* Another program overwrites a byte or shortens the file.
LEMMA FileChangeInv ==
  ASSUME SourceTypeOK, SourceInv, NEW i \in 0 .. FileSize - 1,
         Overwrite(i) \/ Shorten(i)
  PROVE  /\ SourceTypeOK' /\ SourceInv'
         /\ UNCHANGED <<request, stage>> /\ length' <= length
<1>1. UNCHANGED <<mutex, position, exhausted, request, stage, reply>>
  BY DEF Overwrite, Shorten, stream, reads
<1>2. length \in Int /\ i \in 0 .. FileSize /\ FileSize \in Nat
  BY SourceAssumption DEF SourceTypeOK, SourceAssumption
<1>3. length' \in 0 .. FileSize /\ length' <= length
  BY <1>2 DEF Overwrite, Shorten, SourceTypeOK
<1>4. good' \in [0 .. FileSize - 1 -> BOOLEAN]
  BY DEF Overwrite, Shorten, SourceTypeOK
<1>5. SourceTypeOK'
  BY <1>1, <1>3, <1>4 DEF SourceTypeOK
<1>6. SourceInv'
  <2>1. \A b \in Clients : request[b].offset + request[b].count \in Int
    BY DEF SourceTypeOK
  <2> QED
    BY <1>1, <1>2, <1>3, <2>1 DEF SourceInv
<1> QED
  BY <1>1, <1>3, <1>5, <1>6

-----------------------------------------------------------------------------
(* The plan, the steps and the frame of a client.                             *)

\* A plan is of a block inside the file.
LEMMA PlanFacts ==
  ASSUME TypeOK, NEW c \in Clients
  PROVE  /\ plan[c] \in BlockPlan
         /\ Size(plan[c]) \in Nat \ {0}
         /\ plan[c].offset \in Nat
         /\ plan[c].offset + Size(plan[c]) <= FileSize
         /\ ChunkOf(plan[c]) \in Nat \ {0}
<1>1. plan \in Plans
  BY DEF TypeOK
<1>2. /\ plan[c] \in BlockPlan /\ plan[c].offset + Size(plan[c]) <= FileSize
      /\ plan[c].planar # plan[c].toPlanar => SampleSize(plan[c]) <= Chunk
      /\ Chunk \in Nat \ {0}
  BY <1>1, ReadAssumption DEF ReadAssumption
<1>3. SampleSize(plan[c]) \in Nat \ {0}
  BY <1>2, SizeFacts
<1>4. ChunkOf(plan[c]) \in Nat \ {0}
  <2>1. CASE Staged(plan[c]) \/ ~Rearranged(plan[c])
    BY <1>2, <2>1 DEF ChunkOf
  <2>2. CASE ~Staged(plan[c]) /\ Rearranged(plan[c])
    <3> DEFINE s == SampleSize(plan[c])
               q == Chunk \div s
               r == Chunk % s
    <3>1. s \in Nat \ {0} /\ s <= Chunk
      BY <1>2, <1>3, <2>2 DEF Rearranged
    <3>2. q \in Nat /\ r \in 0 .. s - 1 /\ Chunk = q * s + r
      <4> HIDE DEF s
      <4> QED
        BY <1>2, <3>1, DivMod
    <3> HIDE DEF s, q, r
    <3>3. q # 0
      BY <1>2, <3>1, <3>2
    <3>4. q * s \in Nat \ {0}
      BY <3>1, <3>2, <3>3
    <3> QED
      BY <2>2, <3>4 DEF ChunkOf, s, q
  <2> QED
    BY <2>1, <2>2
<1> QED
  BY <1>2, <1>4, SizeFacts

\* A chunk is part of what is left, and never empty.
LEMMA NextChunkFacts ==
  ASSUME TypeOK, NEW c \in Clients, total[c] < Size(plan[c])
  PROVE  /\ NextChunk(c) \in Nat \ {0}
         /\ total[c] + NextChunk(c) <= Size(plan[c])
<1> DEFINE k == ChunkOf(plan[c])
           r == total[c] % k
<1>1. k \in Nat \ {0} /\ Size(plan[c]) \in Nat /\ total[c] \in Nat
  BY PlanFacts DEF TypeOK
<1>2. r \in 0 .. k - 1
  <2> HIDE DEF k
  <2> QED
    BY <1>1, DivMod
<1>3. NextChunk(c) = Fewer(k - r, Size(plan[c]) - total[c])
  BY DEF NextChunk
<1> HIDE DEF k, r
<1> QED
  BY <1>1, <1>2, <1>3 DEF Fewer

\* The steps of a read, and which of them a client is at.
LEMMA CurrentFacts ==
  ASSUME TypeOK, NEW c \in Clients
  PROVE  /\ Current(c) \in {"read", "verify", "decode", "convert", "done"}
         /\ ~Staged(plan[c]) => Current(c) \in {"read", "convert", "done"}
<1>1. turn[c] \in DOMAIN Steps(plan[c])
  BY DEF TypeOK
<1> QED
  BY <1>1 DEF Current, Steps

\* The step after s.
Following(m, s) ==
  CASE s = "read" -> IF Staged(m) THEN "verify" ELSE "convert"
    [] s = "verify" -> "decode"
    [] s = "decode" -> "convert"
    [] OTHER -> "done"

\* Going on means taking the next step.
LEMMA CurrentNext ==
  ASSUME TypeOK, NEW c \in Clients, UNCHANGED plan,
         turn' = [turn EXCEPT ![c] = @ + 1], Current(c) # "done"
  PROVE  /\ Current(c)' = Following(plan[c], Current(c))
         /\ turn' \in [Clients -> Nat]
         /\ \A b \in Clients : turn'[b] \in DOMAIN Steps(plan[b])
         /\ \A b \in Clients \ {c} : turn'[b] = turn[b]
<1>1. /\ turn \in [Clients -> Nat]
      /\ \A b \in Clients : turn[b] \in DOMAIN Steps(plan[b])
  BY DEF TypeOK
<1>2. turn'[c] = turn[c] + 1 /\ \A b \in Clients \ {c} : turn'[b] = turn[b]
  BY <1>1
<1>3. turn'[c] \in DOMAIN Steps(plan[c])
  BY <1>1, <1>2 DEF Current, Steps
<1>4. Current(c)' = Following(plan[c], Current(c))
  BY <1>1, <1>2 DEF Current, Steps, Following
<1> QED
  BY <1>1, <1>2, <1>3, <1>4

\* What nobody touches stays true of a client: other programs can only make the
\* file shorter.
LEMMA ClientUnchanged ==
  ASSUME TypeOK, NEW c \in Clients, InvClient(c), UNCHANGED plan,
         turn'[c] = turn[c], total'[c] = total[c], staging'[c] = staging[c],
         output'[c] = output[c], result'[c] = result[c],
         request'[c] = request[c], stage'[c] # "none" => stage[c] # "none",
         length' \in Int, length' <= length
  PROVE  InvClient(c)'
<1>1. Current(c)' = Current(c)
  BY DEF Current
<1>2. InvReading(c)'
  BY <1>1 DEF InvClient, InvReading, NextChunk
<1>3. InvStaged(c)'
  BY <1>1 DEF InvClient, InvStaged, FromBlock, Sound
<1>4. InvDirect(c)'
  BY <1>1 DEF InvClient, InvDirect, FromBlock
<1>5. InvResult(c)'
  <2>1. length \in Int
    BY DEF TypeOK, SourceTypeOK
  <2>2. plan[c].offset \in Nat /\ Size(plan[c]) \in Nat
    BY PlanFacts
  <2> QED
    BY <1>1, <2>1, <2>2 DEF InvClient, InvResult, FromBlock, Sound
<1> QED
  BY <1>2, <1>3, <1>4, <1>5 DEF InvClient

-----------------------------------------------------------------------------
(* One lemma per step of a read.                                              *)

\* Taking the mutex, seeking and reading are nobody else's business.
LEMMA InSourceInv ==
  ASSUME TypeOK, IInv, NEW c \in Clients, InSource(c)
  PROVE  TypeOK' /\ IInv'
<1>1. UNCHANGED <<plan, turn, total, staging, output, stop, result, changes>>
  BY DEF InSource
<1>2. SourceTypeOK /\ SourceInv
  BY DEF TypeOK, IInv
<1>3. SourceTypeOK' /\ SourceInv'
  BY <1>2, AcquireInv, SeekInv, ReadStreamInv DEF InSource, ReadAt
<1>4. /\ UNCHANGED <<request, length>>
      /\ stage[c] # "none" /\ \A b \in Clients \ {c} : stage'[b] = stage[b]
  BY <1>2 DEF InSource, ReadAt, Acquire, Seek, ReadStream, Reply, file, SourceTypeOK
<1>5. TypeOK'
  BY <1>1, <1>3 DEF TypeOK
<1>6. length' \in Int /\ length' <= length
  BY <1>2, <1>4, SourceAssumption DEF SourceTypeOK, SourceAssumption
<1>7. ASSUME NEW b \in Clients
      PROVE  InvClient(b)'
  BY <1>1, <1>4, <1>6, ClientUnchanged DEF IInv
<1> QED
  BY <1>3, <1>5, <1>7 DEF IInv

\* The next chunk is asked for, or the read is cancelled before it.
LEMMA AskChunkInv ==
  ASSUME TypeOK, IInv, NEW c \in Clients, AskChunk(c)
  PROVE  TypeOK' /\ IInv'
<1>1. /\ result[c] = "none" /\ Current(c) = "read" /\ stage[c] = "none"
      /\ total[c] < Size(plan[c])
  BY DEF AskChunk, Step
<1>2. SourceTypeOK /\ SourceInv
  BY DEF TypeOK, IInv
<1>3. InvClient(c) /\ length \in Int
  BY DEF IInv, TypeOK, SourceTypeOK
<1>4. CASE stop[c] /\ End(c, "cancelled") /\ UNCHANGED <<file, stream, reads>>
  <2>1. /\ UNCHANGED <<plan, turn, total, staging, output, stop, changes>>
        /\ result' = [result EXCEPT ![c] = "cancelled"]
        /\ UNCHANGED <<request, stage, length>>
    BY <1>4 DEF End, Fail, file, reads
  <2>2. SourceTypeOK' /\ SourceInv'
    BY <1>2, <1>4, SourceUnchanged
  <2>3. TypeOK'
    BY <2>1, <2>2 DEF TypeOK, ReadErrors
  <2>4. result'[c] = "cancelled" /\ \A b \in Clients \ {c} : result'[b] = result[b]
    BY <2>1 DEF TypeOK
  <2>5. ASSUME NEW b \in Clients \ {c}
        PROVE  InvClient(b)'
    BY <1>3, <2>1, <2>4, ClientUnchanged DEF IInv
  <2>6. InvClient(c)'
    <3>1. Current(c)' = Current(c)
      BY <2>1 DEF Current
    <3>2. InvReading(c)'
      BY <1>1, <2>1, <3>1 DEF InvReading
    <3>3. InvStaged(c)'
      BY <1>1, <1>3, <2>1, <3>1 DEF InvClient, InvStaged, FromBlock
    <3>4. InvDirect(c)'
      BY <1>1, <1>3, <2>1, <3>1 DEF InvClient, InvDirect, FromBlock
    <3>5. InvResult(c)'
      BY <1>1, <2>4, <3>1 DEF InvResult
    <3> QED
      BY <3>2, <3>3, <3>4, <3>5 DEF InvClient
  <2> QED
    BY <2>2, <2>3, <2>5, <2>6 DEF IInv
<1>5. CASE /\ Ask(c, plan[c].offset + total[c], NextChunk(c))
           /\ UNCHANGED <<plan, turn, total, staging, output, stop, result, changes>>
  <2>1. plan[c].offset + total[c] \in Nat /\ NextChunk(c) \in Nat
    <3>1. plan[c].offset \in Nat /\ NextChunk(c) \in Nat
      BY <1>1, PlanFacts, NextChunkFacts
    <3>2. total[c] \in Nat
      BY DEF TypeOK
    <3> QED
      BY <3>1, <3>2
  <2>2. /\ SourceTypeOK' /\ SourceInv'
        /\ stage' = [stage EXCEPT ![c] = "asked"]
        /\ request' = [request EXCEPT ![c] =
             [offset |-> plan[c].offset + total[c], count |-> NextChunk(c)]]
        /\ length' = length
    BY <1>2, <1>5, <2>1, AskInv
  <2>3. TypeOK'
    BY <1>5, <2>2 DEF TypeOK
  <2>4. /\ request'[c] = [offset |-> plan[c].offset + total[c], count |-> NextChunk(c)]
        /\ \A b \in Clients \ {c} : stage'[b] = stage[b] /\ request'[b] = request[b]
    BY <1>2, <2>2 DEF SourceTypeOK
  <2>5. ASSUME NEW b \in Clients \ {c}
        PROVE  InvClient(b)'
    BY <1>3, <1>5, <2>2, <2>4, ClientUnchanged DEF IInv
  <2>6. InvClient(c)'
    <3>1. Current(c)' = Current(c)
      BY <1>5 DEF Current
    <3>2. InvReading(c)'
      BY <1>1, <1>5, <2>4, <3>1 DEF InvReading, NextChunk
    <3>3. InvStaged(c)'
      BY <1>1, <1>3, <1>5, <3>1 DEF InvClient, InvStaged, FromBlock
    <3>4. InvDirect(c)'
      BY <1>1, <1>3, <1>5, <3>1 DEF InvClient, InvDirect, FromBlock
    <3>5. InvResult(c)'
      BY <1>1, <1>5, <3>1 DEF InvResult
    <3> QED
      BY <3>2, <3>3, <3>4, <3>5 DEF InvClient
  <2> QED
    BY <2>2, <2>3, <2>5, <2>6 DEF IInv
<1> QED
  BY <1>4, <1>5 DEF AskChunk

-----------------------------------------------------------------------------
(* What copying and rearranging leave in the destination.                     *)

\* What a place of the destination may hold.
Cell == Byte \cup {Untouched, Garbage}

\* Bytes can be put there.
LEMMA CellSeq == Seq(Byte) \subseteq Seq(Cell) /\ Seq(Byte \cup {Garbage}) \subseteq Seq(Cell)
BY DEF Cell

\* Bytes copied to place `first` stand there, and nothing else moves.
LEMMA CopyFacts ==
  ASSUME NEW m \in BlockPlan, NEW into \in [0 .. Size(m) - 1 -> Cell],
         NEW first \in Nat, NEW bytes \in Seq(Cell)
  PROVE  /\ Copy(into, first, bytes) \in [0 .. Size(m) - 1 -> Cell]
         /\ \A i \in 0 .. Size(m) - 1 :
              i \in 0 .. first - 1 => Copy(into, first, bytes)[i] = into[i]
         /\ \A i \in 0 .. Size(m) - 1 :
              i \in first .. first + Len(bytes) - 1 =>
                Copy(into, first, bytes)[i] = bytes[i - first + 1]
<1> DEFINE D == 0 .. Size(m) - 1
<1>1. /\ DOMAIN into = D /\ DOMAIN bytes = 1 .. Len(bytes) /\ Len(bytes) \in Nat
      /\ \A j \in 1 .. Len(bytes) : bytes[j] \in Cell
  OBVIOUS
<1>2. \A i \in D : i - first + 1 \in DOMAIN bytes <=>
                     i \in first .. first + Len(bytes) - 1
  BY <1>1
<1>3. \A i \in D : i - first + 1 \in DOMAIN bytes => bytes[i - first + 1] \in Cell
  BY <1>1
<1> QED
  BY <1>1, <1>2, <1>3 DEF Copy

\* Bytes rearranged from place `first` of the block on stand where they belong,
\* and what was rearranged before stays.
LEMMA RearrangeFacts ==
  ASSUME NEW m \in BlockPlan, NEW into \in [0 .. Size(m) - 1 -> Cell],
         NEW first \in Nat, NEW bytes \in Seq(Cell), first + Len(bytes) <= Size(m)
  PROVE  /\ Rearrange(m, into, first, bytes) \in [0 .. Size(m) - 1 -> Cell]
         /\ \A i \in 0 .. first + Len(bytes) - 1 :
              Rearrange(m, into, first, bytes)[Place(m, i)] =
                IF i < first THEN into[Place(m, i)] ELSE bytes[i - first + 1]
<1> DEFINE from(i) == {j \in DOMAIN bytes : Place(m, first + j - 1) = i}
<1>1. /\ DOMAIN into = 0 .. Size(m) - 1 /\ Size(m) \in Nat
      /\ DOMAIN bytes = 1 .. Len(bytes) /\ Len(bytes) \in Nat
      /\ \A j \in 1 .. Len(bytes) : bytes[j] \in Cell
  BY SizeFacts
<1>2. Rearrange(m, into, first, bytes) =
        [i \in 0 .. Size(m) - 1 |->
           IF from(i) = {} THEN into[i] ELSE bytes[CHOOSE j \in from(i) : TRUE]]
  BY <1>1 DEF Rearrange
<1>3. ASSUME NEW i, from(i) # {}
      PROVE  (CHOOSE j \in from(i) : TRUE) \in from(i)
  BY <1>3
<1>4. ASSUME NEW i \in 0 .. Size(m) - 1
      PROVE  (IF from(i) = {} THEN into[i] ELSE bytes[CHOOSE j \in from(i) : TRUE]) \in Cell
  <2>1. CASE from(i) = {}
    BY <2>1
  <2>2. CASE from(i) # {}
    <3>1. (CHOOSE j \in from(i) : TRUE) \in 1 .. Len(bytes)
      BY <1>1, <1>3, <2>2
    <3> HIDE DEF from
    <3> QED
      BY <1>1, <2>2, <3>1
  <2> QED
    BY <2>1, <2>2
<1>5. ASSUME NEW i \in 0 .. first + Len(bytes) - 1
      PROVE  Rearrange(m, into, first, bytes)[Place(m, i)] =
               IF i < first THEN into[Place(m, i)] ELSE bytes[i - first + 1]
  <2>1. i \in 0 .. Size(m) - 1 /\ i \in Nat
    BY <1>1
  <2>2. Place(m, i) \in 0 .. Size(m) - 1 /\ SourceOf(m, Place(m, i)) = i
    BY <2>1, PlacesCorrespond
  <2>3. \A j \in from(Place(m, i)) : j \in 1 .. Len(bytes) /\ first + j - 1 = i
    <3> SUFFICES ASSUME NEW j \in 1 .. Len(bytes), Place(m, first + j - 1) = Place(m, i)
                 PROVE  first + j - 1 = i
      BY <1>1
    <3>1. first + j - 1 \in 0 .. Size(m) - 1
      BY <1>1
    <3> QED
      BY <2>2, <3>1, PlacesCorrespond
  <2>4. CASE i < first
    <3>1. from(Place(m, i)) = {}
      <4> HIDE DEF from
      <4> QED
        BY <1>1, <2>1, <2>3, <2>4
    <3> HIDE DEF from
    <3> QED
      BY <1>2, <2>2, <2>4, <3>1
  <2>5. CASE ~(i < first)
    <3>1. i - first + 1 \in from(Place(m, i))
      BY <1>1, <2>1, <2>5
    <3>2. (CHOOSE j \in from(Place(m, i)) : TRUE) = i - first + 1
      <4>1. (CHOOSE j \in from(Place(m, i)) : TRUE) \in from(Place(m, i))
        BY <1>3, <3>1
      <4> DEFINE j0 == CHOOSE j \in from(Place(m, i)) : TRUE
      <4>2. j0 \in 1 .. Len(bytes) /\ first + j0 - 1 = i
        BY <2>3, <4>1
      <4> HIDE DEF j0
      <4>3. j0 = i - first + 1
        BY <1>1, <2>1, <4>2
      <4> QED
        BY <4>3 DEF j0
    <3> HIDE DEF from
    <3> QED
      BY <1>2, <2>2, <2>5, <3>1, <3>2
  <2> QED
    BY <2>4, <2>5
<1> HIDE DEF from
<1> QED
  BY <1>2, <1>4, <1>5

-----------------------------------------------------------------------------
(* A chunk arrives.                                                           *)

\* An error is not a sequence of bytes of the file.
LEMMA IoErrorIsNoReply == IoError \notin Seq(Byte)
<1>1. ASSUME IoError \in Seq(Byte)
      PROVE  FALSE
  <2>1. Len(IoError) = 1 /\ IoError[1].at = -1
    BY DEF IoError
  <2>2. IoError[1] \in Byte
    BY <1>1, <2>1
  <2>3. IoError[1].at \in 0 .. FileSize - 1
    BY <2>2 DEF Byte
  <2> QED
    BY <2>1, <2>3, SourceAssumption DEF SourceAssumption
<1> QED
  BY <1>1

\* What a chunk is when it arrives: the next bytes of the block, or fewer than
\* were asked for because the file ends within the block.
LEMMA ReplyFacts ==
  ASSUME TypeOK, IInv, NEW c \in Clients, stage[c] = "replied"
  PROVE  /\ result[c] = "none" /\ Current(c) = "read"
         /\ reply[c] \in Seq(Byte) /\ reply[c] # IoError
         /\ total[c] + Len(reply[c]) <= Size(plan[c])
         /\ \A j \in 1 .. Len(reply[c]) : FromBlock(c, total[c] + j - 1, reply[c][j])
         /\ reply[c] = << >> => length < plan[c].offset + Size(plan[c])
<1>1. InvReading(c)
  BY DEF IInv, InvClient
<1>2. /\ result[c] = "none" /\ Current(c) = "read" /\ total[c] < Size(plan[c])
      /\ request[c] = [offset |-> plan[c].offset + total[c], count |-> NextChunk(c)]
  BY <1>1 DEF InvReading
<1>3. request[c].offset = plan[c].offset + total[c] /\ request[c].count = NextChunk(c)
  BY <1>2
<1>4. /\ reply[c] \in Seq(Byte) /\ Len(reply[c]) <= request[c].count
      /\ \A j \in DOMAIN reply[c] : reply[c][j].at = request[c].offset + j - 1
      /\ Len(reply[c]) < request[c].count =>
           length < request[c].offset + request[c].count
  BY DEF IInv, SourceInv
<1>5. /\ NextChunk(c) \in Nat \ {0} /\ total[c] + NextChunk(c) <= Size(plan[c])
      /\ plan[c].offset \in Nat /\ total[c] \in Nat /\ Size(plan[c]) \in Nat
      /\ length \in Int
  <2>1. NextChunk(c) \in Nat \ {0} /\ total[c] + NextChunk(c) <= Size(plan[c])
    BY <1>2, NextChunkFacts
  <2>2. plan[c].offset \in Nat /\ Size(plan[c]) \in Nat
    BY PlanFacts
  <2>3. total[c] \in Nat /\ length \in Int
    BY DEF TypeOK, SourceTypeOK
  <2> QED
    BY <2>1, <2>2, <2>3
<1>6. reply[c] # IoError
  BY <1>4, IoErrorIsNoReply
<1>7. Len(reply[c]) \in Nat /\ DOMAIN reply[c] = 1 .. Len(reply[c])
  BY <1>4
<1>8. total[c] + Len(reply[c]) <= Size(plan[c])
  BY <1>3, <1>4, <1>5, <1>7
<1>9. ASSUME NEW j \in 1 .. Len(reply[c])
      PROVE  FromBlock(c, total[c] + j - 1, reply[c][j])
  <2>1. reply[c][j].at = plan[c].offset + total[c] + j - 1
    BY <1>3, <1>4, <1>7
  <2> QED
    BY <1>5, <2>1 DEF FromBlock
<1>10. ASSUME reply[c] = << >>
       PROVE  length < plan[c].offset + Size(plan[c])
  <2>1. Len(reply[c]) = 0
    BY <1>10
  <2> QED
    BY <1>3, <1>4, <1>5, <2>1
<1> QED
  BY <1>2, <1>4, <1>6, <1>8, <1>9, <1>10

\* Nothing more comes: the read fails.
LEMMA NoMoreBytes ==
  ASSUME TypeOK, IInv, NEW c \in Clients, Taken(c), reply[c] \in {IoError, << >>},
         End(c, "io_error")
  PROVE  TypeOK' /\ IInv'
<1>1. SourceTypeOK /\ SourceInv /\ InvClient(c) /\ length \in Int
  BY DEF TypeOK, IInv, SourceTypeOK
<1>2. /\ SourceTypeOK' /\ SourceInv' /\ stage[c] = "replied"
      /\ stage' = [stage EXCEPT ![c] = "none"]
      /\ request' = request /\ length' = length
  BY <1>1, TakenInv
<1>3. /\ result[c] = "none" /\ Current(c) = "read"
      /\ length < plan[c].offset + Size(plan[c])
  BY <1>2, ReplyFacts
<1>4. /\ UNCHANGED <<plan, turn, total, staging, output, stop, changes>>
      /\ result' = [result EXCEPT ![c] = "io_error"]
  BY DEF End, Fail
<1>5. /\ result'[c] = "io_error" /\ stage'[c] = "none"
      /\ \A b \in Clients \ {c} : result'[b] = result[b] /\ stage'[b] = stage[b]
  BY <1>1, <1>2, <1>4 DEF TypeOK, SourceTypeOK
<1>6. TypeOK'
  BY <1>2, <1>4 DEF TypeOK, ReadErrors
<1>7. ASSUME NEW b \in Clients \ {c}
      PROVE  InvClient(b)'
  BY <1>1, <1>2, <1>4, <1>5, ClientUnchanged DEF IInv
<1>8. InvClient(c)'
  <2>1. Current(c)' = Current(c)
    BY <1>4 DEF Current
  <2>2. InvReading(c)'
    BY <1>3, <1>5, <2>1 DEF InvReading
  <2>3. InvStaged(c)'
    BY <1>1, <1>3, <1>4, <2>1 DEF InvClient, InvStaged, FromBlock
  <2>4. InvDirect(c)'
    BY <1>1, <1>3, <1>4, <2>1 DEF InvClient, InvDirect, FromBlock
  <2>5. InvResult(c)'
    BY <1>2, <1>3, <1>4, <1>5, <2>1 DEF InvResult
  <2> QED
    BY <2>2, <2>3, <2>4, <2>5 DEF InvClient
<1> QED
  BY <1>2, <1>6, <1>7, <1>8 DEF IInv

\* The staging buffer, or what waits for the rest of its chunk, grows by what
\* came next in the block.
LEMMA Collected ==
  ASSUME TypeOK, IInv, NEW c \in Clients, stage[c] = "replied"
  PROVE  LET bytes == reply[c]
             collected == staging[c] \o bytes
             delivered == total[c] - Len(staging[c])
         IN /\ collected \in Seq(Byte \cup {Garbage})
            /\ Len(collected) = Len(staging[c]) + Len(bytes)
            /\ delivered \in Nat
            /\ \A j \in 1 .. Len(collected) :
                 FromBlock(c, delivered + j - 1, collected[j])
<1> DEFINE bytes == reply[c]
           old == staging[c]
           delivered == total[c] - Len(old)
<1>1. InvStaged(c) /\ InvDirect(c)
  BY DEF IInv, InvClient
<1>2. /\ bytes \in Seq(Byte) /\ Current(c) = "read"
      /\ \A j \in 1 .. Len(bytes) : FromBlock(c, total[c] + j - 1, bytes[j])
  BY ReplyFacts
<1>3. old \in Seq(Byte \cup {Garbage}) /\ total[c] \in Nat /\ plan[c].offset \in Nat
  BY PlanFacts DEF TypeOK
<1>4. /\ Len(old) \in Nat /\ Len(bytes) \in Nat
      /\ old \o bytes \in Seq(Byte \cup {Garbage})
      /\ Len(old \o bytes) = Len(old) + Len(bytes)
      /\ \A j \in 1 .. Len(old) : (old \o bytes)[j] = old[j]
      /\ \A j \in Len(old) + 1 .. Len(old) + Len(bytes) :
           (old \o bytes)[j] = bytes[j - Len(old)]
  <2> HIDE DEF old, bytes
  <2> QED
    BY <1>2, <1>3
<1>5. /\ delivered \in Nat
      /\ \A j \in 1 .. Len(old) : FromBlock(c, delivered + j - 1, old[j])
  <2>1. DOMAIN old = 1 .. Len(old)
    BY <1>3
  <2>2. CASE Staged(plan[c])
    <3>1. /\ Len(old) = total[c]
          /\ \A j \in DOMAIN old : FromBlock(c, j - 1, old[j])
      BY <1>1, <1>2, <2>2 DEF InvStaged
    <3>2. delivered = 0
      BY <1>3, <3>1
    <3>3. \A j \in 1 .. Len(old) : 0 + j - 1 = j - 1
      BY <1>4
    <3> HIDE DEF delivered, old
    <3> QED
      BY <2>1, <3>1, <3>2, <3>3
  <2>3. CASE ~Staged(plan[c])
    BY <1>1, <1>3, <1>4, <2>1, <2>3 DEF InvDirect
  <2> QED
    BY <2>2, <2>3
<1>6. ASSUME NEW j \in 1 .. Len(old) + Len(bytes)
      PROVE  FromBlock(c, delivered + j - 1, (old \o bytes)[j])
  <2>1. delivered + Len(old) = total[c]
    BY <1>3, <1>4
  <2> HIDE DEF delivered, old, bytes
  <2>2. CASE j \in 1 .. Len(old)
    BY <1>4, <1>5, <2>2
  <2>3. CASE j \in Len(old) + 1 .. Len(old) + Len(bytes)
    <3>1. j - Len(old) \in 1 .. Len(bytes)
      BY <1>4, <2>3
    <3>2. FromBlock(c, total[c] + (j - Len(old)) - 1, (old \o bytes)[j])
      BY <1>2, <1>4, <2>3, <3>1
    <3>3. total[c] + (j - Len(old)) - 1 = delivered + j - 1
      BY <1>3, <1>4, <1>5, <2>1
    <3> QED
      BY <3>2, <3>3
  <2> QED
    BY <1>4, <2>2, <2>3
<1> QED
  BY <1>4, <1>5, <1>6

\* One client's entry changes.
LEMMA Updated ==
  ASSUME NEW f, f = [b \in Clients |-> f[b]], NEW c \in Clients, NEW x,
         NEW g, g = [f EXCEPT ![c] = x]
  PROVE  /\ g = [b \in Clients |-> g[b]]
         /\ g[c] = x /\ \A b \in Clients \ {c} : g[b] = f[b]
OBVIOUS

\* A chunk goes where it belongs.
LEMMA Delivered ==
  ASSUME TypeOK, IInv, NEW c \in Clients, stage[c] = "replied",
         total' = [total EXCEPT ![c] = @ + Len(reply[c])], Deliver(c, reply[c]),
         UNCHANGED <<plan, turn, result>>
  PROVE  /\ staging' \in [Clients -> Seq(Byte \cup {Garbage})]
         /\ output' = [b \in Clients |-> output'[b]]
         /\ output'[c] \in [0 .. Size(plan[c]) - 1 -> Cell]
         /\ \A b \in Clients \ {c} : staging'[b] = staging[b] /\ output'[b] = output[b]
         /\ InvStaged(c)' /\ InvDirect(c)'
<1>0. PICK m, bytes, collected, delivered :
        /\ m = plan[c] /\ bytes = reply[c] /\ collected = staging[c] \o bytes
        /\ delivered = total[c] - Len(staging[c])
  OBVIOUS
<1>1. /\ InvStaged(c) /\ InvDirect(c) /\ Current(c) = "read" /\ Current(c)' = "read"
      /\ bytes \in Seq(Byte) /\ total[c] + Len(bytes) <= Size(m)
      /\ \A j \in 1 .. Len(bytes) : FromBlock(c, total[c] + j - 1, bytes[j])
  <2>1. Current(c)' = Current(c)
    BY DEF Current
  <2> QED
    BY <1>0, <2>1, ReplyFacts DEF IInv, InvClient
<1>2. /\ collected \in Seq(Byte \cup {Garbage})
      /\ Len(collected) = Len(staging[c]) + Len(bytes) /\ delivered \in Nat
      /\ \A j \in 1 .. Len(collected) : FromBlock(c, delivered + j - 1, collected[j])
  BY <1>0, Collected
<1>3. /\ total[c] \in Nat /\ Len(staging[c]) \in Nat /\ Len(bytes) \in Nat
      /\ Size(m) \in Nat /\ m \in BlockPlan
      /\ staging \in [Clients -> Seq(Byte \cup {Garbage})]
      /\ output = [b \in Clients |-> output[b]] /\ output[c] \in [0 .. Size(m) - 1 -> Cell]
  <2>1. total[c] \in Nat /\ staging \in [Clients -> Seq(Byte \cup {Garbage})]
    BY DEF TypeOK
  <2>2. Size(m) \in Nat /\ m \in BlockPlan
    BY <1>0, PlanFacts
  <2>3. output = [b \in Clients |-> output[b]] /\ output[c] \in [0 .. Size(m) - 1 -> Cell]
    BY <1>0 DEF TypeOK, Cell
  <2>4. Len(staging[c]) \in Nat /\ Len(bytes) \in Nat
    BY <1>1, <2>1
  <2> QED
    BY <2>1, <2>2, <2>3, <2>4
<1>4. /\ total'[c] = total[c] + Len(bytes) /\ total'[c] = delivered + Len(collected)
      /\ total'[c] \in Nat /\ delivered \in Nat
      /\ Len(collected) \in Nat /\ DOMAIN collected = 1 .. Len(collected)
  <2>1. total'[c] = total[c] + Len(bytes)
    BY <1>0 DEF TypeOK
  <2>2. collected \in Seq(Byte \cup {Garbage})
    BY <1>2
  <2>3. Len(collected) \in Nat /\ DOMAIN collected = 1 .. Len(collected)
    BY <2>2
  <2>4. delivered = total[c] - Len(staging[c]) /\ delivered \in Nat
        /\ Len(collected) = Len(staging[c]) + Len(bytes)
    BY <1>0, <1>2
  <2> QED
    BY <1>3, <2>1, <2>3, <2>4
<1>5. CASE /\ Staged(m) \/ (Rearranged(m) /\ total'[c] # Size(m))
           /\ staging' = [staging EXCEPT ![c] = collected] /\ UNCHANGED output
  <2>1. /\ staging' \in [Clients -> Seq(Byte \cup {Garbage})]
        /\ staging'[c] = collected /\ \A b \in Clients \ {c} : staging'[b] = staging[b]
    BY <1>0, <1>2, <1>3, <1>5
  <2>2. InvStaged(c)'
    <3> SUFFICES ASSUME Staged(m) PROVE InvStaged(c)'
      BY <1>0 DEF InvStaged
    <3>1. Len(staging[c]) = total[c] /\ \A i \in DOMAIN output[c] : output[c][i] = Untouched
      BY <1>0, <1>1 DEF InvStaged
    <3>2. delivered = 0
      BY <1>0, <1>3, <3>1
    <3>3. Len(staging'[c]) = total'[c]
      BY <1>4, <2>1, <3>2
    <3>4. \A j \in DOMAIN staging'[c] : FromBlock(c, j - 1, staging'[c][j])
      <4>1. \A j \in 1 .. Len(collected) : 0 + j - 1 = j - 1
        BY <1>0, <1>4
      <4> QED
        BY <1>2, <1>4, <2>1, <3>2, <4>1
    <3>5. Current(c)' = "read"
      BY <1>1
    <3> QED
      BY <1>5, <3>1, <3>3, <3>4, <3>5 DEF InvStaged, FromBlock
  <2>3. InvDirect(c)'
    <3> SUFFICES ASSUME ~Staged(m) PROVE InvDirect(c)'
      BY <1>0 DEF InvDirect
    <3>1. Rearranged(m) /\ total'[c] # Size(m)
      BY <1>0, <1>5
    <3>2. (total[c] - Len(staging[c]))' = delivered
      BY <1>4, <2>1
    <3>3. \A j \in DOMAIN staging'[c] : FromBlock(c, delivered + j - 1, staging'[c][j])
      BY <1>2, <1>4, <2>1
    <3>4. \A i \in 0 .. delivered - 1 : FromBlock(c, i, output[c][Landing(m, i)])'
      BY <1>0, <1>1, <1>5 DEF InvDirect, FromBlock
    <3> QED
      BY <1>0, <1>4, <1>5, <3>1, <3>2, <3>3, <3>4 DEF InvDirect, FromBlock
  <2> QED
    BY <1>0, <1>3, <1>5, <2>1, <2>2, <2>3
<1>6. CASE /\ ~Staged(m) /\ Rearranged(m)
           /\ output' = [output EXCEPT ![c] =
                Rearrange(m, @, total'[c] - Len(collected), collected)]
           /\ staging' = [staging EXCEPT ![c] = << >>]
  <2>0. PICK new : new = Rearrange(m, output[c], delivered, collected)
    OBVIOUS
  <2>1. /\ staging' \in [Clients -> Seq(Byte \cup {Garbage})]
        /\ staging'[c] = << >> /\ \A b \in Clients \ {c} : staging'[b] = staging[b]
    BY <1>0, <1>3, <1>6
  <2>2. total'[c] - Len(collected) = delivered
    BY <1>4
  <2>3. /\ output' = [b \in Clients |-> output'[b]]
        /\ output'[c] = new /\ \A b \in Clients \ {c} : output'[b] = output[b]
    <3>1. output' = [output EXCEPT ![c] = new]
      BY <1>0, <1>6, <2>0, <2>2
    <3> QED
      BY <1>0, <1>3, <3>1, Updated
  <2>4. collected \in Seq(Cell) /\ delivered + Len(collected) <= Size(m)
    BY <1>0, <1>1, <1>2, <1>4, CellSeq
  <2>5. /\ new \in [0 .. Size(m) - 1 -> Cell]
        /\ \A i \in 0 .. delivered + Len(collected) - 1 :
             new[Place(m, i)] = IF i < delivered THEN output[c][Place(m, i)]
                                ELSE collected[i - delivered + 1]
    <3>1. /\ m \in BlockPlan /\ output[c] \in [0 .. Size(m) - 1 -> Cell]
          /\ delivered \in Nat /\ collected \in Seq(Cell)
          /\ delivered + Len(collected) <= Size(m)
      BY <1>3, <1>4, <2>4
    <3> QED
      BY <2>0, <3>1, RearrangeFacts
  <2>6. ASSUME NEW i \in 0 .. total'[c] - 1
        PROVE  FromBlock(c, i, output[c][Landing(m, i)])'
    <3>0. i \in 0 .. delivered + Len(collected) - 1
      BY <1>4
    <3>1. CASE i < delivered
      <4>1. FromBlock(c, i, output[c][Place(m, i)])
        <5>1. i \in 0 .. total[c] - Len(staging[c]) - 1
          <6>1. i \in 0 .. delivered - 1
            BY <1>4, <3>0, <3>1
          <6> QED
            BY <1>0, <6>1
        <5> QED
          BY <1>0, <1>1, <1>6, <5>1 DEF InvDirect, Landing
      <4>2. output'[c][Place(m, i)] = output[c][Place(m, i)]
        BY <2>3, <2>5, <3>0, <3>1
      <4> QED
        BY <1>0, <1>6, <4>1, <4>2 DEF FromBlock, Landing
    <3>2. CASE ~(i < delivered)
      <4>1. i - delivered + 1 \in 1 .. Len(collected)
            /\ delivered + (i - delivered + 1) - 1 = i
        BY <1>4, <3>2
      <4>2. FromBlock(c, i, collected[i - delivered + 1])
        BY <1>0, <1>2, <4>1
      <4>3. output'[c][Place(m, i)] = collected[i - delivered + 1]
        BY <2>3, <2>5, <3>0, <3>2
      <4> QED
        BY <1>0, <1>6, <4>2, <4>3 DEF FromBlock, Landing
    <3> QED
      BY <3>1, <3>2
  <2>7. InvDirect(c)'
    <3>1. Len(staging'[c]) = 0 /\ DOMAIN staging'[c] = {}
      BY <2>1
    <3>2. (total[c] - Len(staging[c]))' = total'[c]
      BY <1>0, <1>4, <3>1
    <3> QED
      BY <1>0, <1>4, <2>1, <2>6, <3>1, <3>2 DEF InvDirect
  <2>8. InvStaged(c)'
    BY <1>0, <1>6 DEF InvStaged
  <2> QED
    BY <1>0, <2>1, <2>3, <2>5, <2>7, <2>8
<1>7. CASE /\ ~Staged(m) /\ ~Rearranged(m)
           /\ output' = [output EXCEPT ![c] = Copy(@, total[c], bytes)]
           /\ UNCHANGED staging
  <2>0. PICK new : new = Copy(output[c], total[c], bytes)
    OBVIOUS
  <2>1. staging[c] = << >> /\ delivered = total[c]
    <3>1. staging[c] = << >>
      BY <1>0, <1>1, <1>7 DEF InvDirect
    <3>2. Len(staging[c]) = 0
      BY <3>1
    <3> QED
      BY <1>0, <1>3, <3>1, <3>2
  <2>2. /\ output' = [b \in Clients |-> output'[b]]
        /\ output'[c] = new /\ \A b \in Clients \ {c} : output'[b] = output[b]
    <3>1. output' = [output EXCEPT ![c] = new]
      BY <1>0, <1>7, <2>0
    <3> QED
      BY <1>0, <1>3, <3>1, Updated
  <2>3. /\ new \in [0 .. Size(m) - 1 -> Cell]
        /\ \A i \in 0 .. Size(m) - 1 :
             /\ i \in 0 .. total[c] - 1 => new[i] = output[c][i]
             /\ i \in total[c] .. total[c] + Len(bytes) - 1 =>
                  new[i] = bytes[i - total[c] + 1]
    <3>1. /\ bytes \in Seq(Cell) /\ total[c] \in Nat
          /\ output[c] \in [0 .. Size(m) - 1 -> Cell] /\ m \in BlockPlan
      <4>1. bytes \in Seq(Cell)
        BY <1>1, CellSeq
      <4> QED
        BY <1>3, <4>1
    <3> QED
      BY <2>0, <3>1, CopyFacts
  <2>4. ASSUME NEW i \in 0 .. total'[c] - 1
        PROVE  FromBlock(c, i, output[c][Landing(m, i)])'
    <3>1. i \in 0 .. Size(m) - 1
      <4>1. PICK t, z \in Nat : t = total'[c] /\ z = Size(m)
        BY <1>3, <1>4
      <4>2. t <= z
        <5>1. total'[c] = total[c] + Len(bytes) /\ total[c] + Len(bytes) <= Size(m)
          BY <1>1, <1>4
        <5> QED
          BY <4>1, <5>1, Zenon
      <4>3. i \in 0 .. t - 1
        BY <4>1
      <4>4. i \in 0 .. z - 1
        BY <4>2, <4>3
      <4> QED
        BY <4>1, <4>4
    <3>2. CASE i < total[c]
      <4>1. FromBlock(c, i, output[c][i])
        <5>1. total[c] - Len(staging[c]) = total[c]
          BY <1>0, <2>1
        <5>2. i \in 0 .. total[c] - Len(staging[c]) - 1
          BY <1>3, <3>1, <3>2, <5>1
        <5> QED
          BY <1>0, <1>1, <1>7, <5>2 DEF InvDirect, Landing
      <4>2. i \in 0 .. total[c] - 1
        BY <1>3, <3>1, <3>2
      <4> QED
        BY <1>0, <1>7, <2>2, <2>3, <3>1, <4>1, <4>2 DEF FromBlock, Landing
    <3>3. CASE ~(i < total[c])
      <4>1. /\ i - total[c] + 1 \in 1 .. Len(bytes)
            /\ total[c] + (i - total[c] + 1) - 1 = i
            /\ i \in total[c] .. total[c] + Len(bytes) - 1
        <5>1. /\ total[c] \in Nat /\ Len(bytes) \in Nat
              /\ total'[c] = total[c] + Len(bytes)
          BY <1>3, <1>4
        <5> QED
          BY <3>3, <5>1
      <4>2. FromBlock(c, i, bytes[i - total[c] + 1])
        BY <1>0, <1>1, <4>1
      <4> QED
        BY <1>0, <1>7, <2>2, <2>3, <3>1, <4>1, <4>2 DEF FromBlock, Landing
    <3> QED
      BY <3>2, <3>3
  <2>5. InvDirect(c)'
    <3>1. Len(staging'[c]) = 0 /\ DOMAIN staging'[c] = {} /\ staging'[c] = << >>
      BY <1>0, <1>7, <2>1
    <3>2. (total[c] - Len(staging[c]))' = total'[c]
      BY <1>0, <1>4, <3>1
    <3> QED
      BY <1>0, <1>4, <2>4, <3>1, <3>2 DEF InvDirect
  <2>6. InvStaged(c)'
    BY <1>0, <1>7 DEF InvStaged
  <2> QED
    BY <1>0, <1>3, <1>7, <2>2, <2>3, <2>5, <2>6
<1> QED
  BY <1>0, <1>5, <1>6, <1>7 DEF Deliver

\* A chunk that arrives is delivered, and more is asked for.
LEMMA TakeChunkInv ==
  ASSUME TypeOK, IInv, NEW c \in Clients, TakeChunk(c)
  PROVE  TypeOK' /\ IInv'
<1>1. Taken(c)
  BY DEF TakeChunk
<1>2. SourceTypeOK /\ SourceInv /\ InvClient(c) /\ length \in Int
  BY DEF TypeOK, IInv, SourceTypeOK
<1>3. /\ SourceTypeOK' /\ SourceInv' /\ stage[c] = "replied"
      /\ stage' = [stage EXCEPT ![c] = "none"]
      /\ request' = request /\ length' = length
  BY <1>1, <1>2, TakenInv
<1>4. CASE reply[c] \in {IoError, << >>} /\ End(c, "io_error")
  BY <1>1, <1>4, NoMoreBytes
<1>5. CASE /\ reply[c] \notin {IoError, << >>}
           /\ total' = [total EXCEPT ![c] = @ + Len(reply[c])]
           /\ Deliver(c, reply[c])
           /\ UNCHANGED <<plan, turn, stop, result, changes>>
  <2>1. /\ staging' \in [Clients -> Seq(Byte \cup {Garbage})]
        /\ output' = [b \in Clients |-> output'[b]]
        /\ output'[c] \in [0 .. Size(plan[c]) - 1 -> Cell]
        /\ \A b \in Clients \ {c} : staging'[b] = staging[b] /\ output'[b] = output[b]
        /\ InvStaged(c)' /\ InvDirect(c)'
    BY <1>3, <1>5, Delivered
  <2>2. /\ result[c] = "none" /\ Current(c) = "read" /\ reply[c] \in Seq(Byte)
        /\ total[c] + Len(reply[c]) <= Size(plan[c])
    BY <1>3, ReplyFacts
  <2>3. /\ stage'[c] = "none" /\ \A b \in Clients \ {c} : stage'[b] = stage[b]
        /\ total'[c] = total[c] + Len(reply[c])
        /\ \A b \in Clients \ {c} : total'[b] = total[b]
        /\ total' \in [Clients -> Nat]
    BY <1>2, <1>3, <1>5, <2>2 DEF TypeOK, SourceTypeOK
  <2>4. \A b \in Clients : total'[b] <= Size(plan[b])
    BY <2>2, <2>3 DEF TypeOK
  <2>5. \A b \in Clients : output'[b] \in [0 .. Size(plan[b]) - 1 -> Cell]
    BY <2>1 DEF TypeOK, Cell
  <2>6. TypeOK'
    BY <1>3, <1>5, <2>1, <2>3, <2>4, <2>5 DEF TypeOK, Cell
  <2>7. ASSUME NEW b \in Clients \ {c}
        PROVE  InvClient(b)'
    BY <1>2, <1>3, <1>5, <2>1, <2>3, ClientUnchanged DEF IInv
  <2>8. Current(c)' = Current(c)
    BY <1>5 DEF Current
  <2>9. InvReading(c)'
    BY <2>2, <2>3, <2>8 DEF InvReading
  <2>10. InvResult(c)'
    BY <1>5, <2>2, <2>8 DEF InvResult
  <2>11. InvClient(c)'
    BY <2>1, <2>9, <2>10 DEF InvClient
  <2> QED
    BY <1>3, <2>6, <2>7, <2>11 DEF IInv
<1> QED
  BY <1>4, <1>5 DEF TakeChunk

-----------------------------------------------------------------------------
(* The steps after the bytes have come.  None of them uses the source.        *)

\* A step of c alone.
OnlyBy(c) ==
  /\ UNCHANGED <<file, stream, reads, plan>>
  /\ \A b \in Clients \ {c} :
       /\ turn'[b] = turn[b] /\ total'[b] = total[b] /\ staging'[b] = staging[b]
       /\ output'[b] = output[b] /\ result'[b] = result[b]

\* It is enough to look at c.
LEMMA OwnStep ==
  ASSUME TypeOK, IInv, NEW c \in Clients, OnlyBy(c), InvClient(c)'
  PROVE  SourceTypeOK' /\ IInv'
<1>1. /\ SourceTypeOK /\ SourceInv /\ length \in Int
      /\ UNCHANGED <<file, stream, reads, plan>>
  BY DEF TypeOK, IInv, SourceTypeOK, OnlyBy
<1>2. SourceTypeOK' /\ SourceInv'
  BY <1>1, SourceUnchanged
<1>3. UNCHANGED <<length, request, stage>>
  BY <1>1 DEF file, reads
<1>4. ASSUME NEW b \in Clients \ {c}
      PROVE  InvClient(b)'
  <2>1. /\ turn'[b] = turn[b] /\ total'[b] = total[b] /\ staging'[b] = staging[b]
        /\ output'[b] = output[b] /\ result'[b] = result[b]
    BY DEF OnlyBy
  <2>2. InvClient(b)
    BY DEF IInv
  <2> QED
    BY <1>1, <1>3, <2>1, <2>2, ClientUnchanged
<1> QED
  BY <1>2, <1>4 DEF IInv

\* After the bytes have come the source is not used any more.
LEMMA Apart ==
  ASSUME TypeOK, IInv, NEW c \in Clients, Current(c) # "read"
  PROVE  stage[c] = "none" /\ total[c] = Size(plan[c])
BY DEF IInv, InvClient, InvReading

\* The whole block has been read.
LEMMA EndReadInv ==
  ASSUME TypeOK, IInv, NEW c \in Clients, EndRead(c)
  PROVE  TypeOK' /\ IInv'
<1>1. /\ result[c] = "none" /\ Current(c) = "read" /\ stage[c] = "none"
      /\ total[c] = Size(plan[c])
      /\ UNCHANGED <<file, stream, reads, plan, total, staging, output, stop,
                     result, changes>>
      /\ turn' = [turn EXCEPT ![c] = @ + 1]
  BY DEF EndRead, Step, Onward
<1>2. /\ Current(c)' = Following(plan[c], "read")
      /\ turn' \in [Clients -> Nat]
      /\ \A b \in Clients : turn'[b] \in DOMAIN Steps(plan[b])
      /\ \A b \in Clients \ {c} : turn'[b] = turn[b]
  BY <1>1, CurrentNext
<1>3. Current(c)' = IF Staged(plan[c]) THEN "verify" ELSE "convert"
  BY <1>2 DEF Following
<1>4. InvClient(c) /\ stage'[c] = "none"
  BY <1>1 DEF IInv, reads
<1>5. InvReading(c)'
  BY <1>1, <1>4 DEF InvReading
<1>6. InvStaged(c)'
  BY <1>1, <1>3, <1>4 DEF InvClient, InvStaged, FromBlock
<1>7. InvDirect(c)'
  BY <1>1, <1>3, <1>4 DEF InvClient, InvDirect, FromBlock
<1>8. InvResult(c)'
  BY <1>1, <1>3 DEF InvResult
<1>9. OnlyBy(c)
  BY <1>1, <1>2 DEF OnlyBy
<1>10. SourceTypeOK' /\ IInv'
  BY <1>5, <1>6, <1>7, <1>8, <1>9, OwnStep DEF InvClient
<1>11. TypeOK'
  BY <1>1, <1>2, <1>10 DEF TypeOK
<1> QED
  BY <1>10, <1>11

\* A checksum that does not match ends the read; one that does means that every
\* staged byte is the declared one.
LEMMA VerifyInv ==
  ASSUME TypeOK, IInv, NEW c \in Clients, Verify(c)
  PROVE  TypeOK' /\ IInv'
<1>1. /\ result[c] = "none" /\ Current(c) = "verify"
      /\ UNCHANGED <<file, stream, reads>>
  BY DEF Verify, Step
<1>2. /\ InvClient(c) /\ stage[c] = "none" /\ stage'[c] = "none"
      /\ total[c] = Size(plan[c]) /\ Staged(plan[c])
  BY <1>1, Apart, CurrentFacts DEF IInv, reads
<1>3. CASE plan[c].checksum /\ ~Declared(staging[c]) /\ End(c, "checksum_mismatch")
  <2>1. /\ UNCHANGED <<plan, turn, total, staging, output, stop, changes>>
        /\ result' = [result EXCEPT ![c] = "checksum_mismatch"]
    BY <1>3 DEF End, Fail
  <2>2. /\ result'[c] = "checksum_mismatch"
        /\ \A b \in Clients \ {c} : result'[b] = result[b]
    BY <2>1 DEF TypeOK
  <2>3. Current(c)' = "verify"
    BY <1>1, <2>1 DEF Current
  <2>4. InvReading(c)'
    BY <1>2, <2>1 DEF InvReading
  <2>5. InvStaged(c)'
    BY <1>1, <1>2, <2>1, <2>3 DEF InvClient, InvStaged, FromBlock
  <2>6. InvDirect(c)'
    BY <1>2, <2>1 DEF InvDirect
  <2>7. InvResult(c)'
    BY <2>2, <2>3 DEF InvResult
  <2>8. OnlyBy(c)
    BY <1>1, <2>1, <2>2 DEF OnlyBy
  <2>9. SourceTypeOK' /\ IInv'
    BY <2>4, <2>5, <2>6, <2>7, <2>8, OwnStep DEF InvClient
  <2>10. TypeOK'
    BY <2>1, <2>9 DEF TypeOK, ReadErrors
  <2> QED
    BY <2>9, <2>10
<1>4. CASE /\ plan[c].checksum => Declared(staging[c])
           /\ Onward(c) /\ UNCHANGED <<staging, output>>
  <2>1. /\ UNCHANGED <<plan, total, staging, output, stop, result, changes>>
        /\ turn' = [turn EXCEPT ![c] = @ + 1]
    BY <1>4 DEF Onward
  <2>2. /\ Current(c)' = Following(plan[c], "verify")
        /\ turn' \in [Clients -> Nat]
        /\ \A b \in Clients : turn'[b] \in DOMAIN Steps(plan[b])
        /\ \A b \in Clients \ {c} : turn'[b] = turn[b]
    BY <1>1, <2>1, CurrentNext
  <2>3. Current(c)' = "decode"
    BY <2>2 DEF Following
  <2>4. InvReading(c)'
    BY <1>2, <2>1 DEF InvReading
  <2>5. InvStaged(c)'
    BY <1>1, <1>2, <1>4, <2>1, <2>3 DEF InvClient, InvStaged, FromBlock, Declared
  <2>6. InvDirect(c)'
    BY <1>2, <2>1 DEF InvDirect
  <2>7. InvResult(c)'
    BY <1>1, <2>1, <2>3 DEF InvResult
  <2>8. OnlyBy(c)
    BY <1>1, <2>1, <2>2 DEF OnlyBy
  <2>9. SourceTypeOK' /\ IInv'
    BY <2>4, <2>5, <2>6, <2>7, <2>8, OwnStep DEF InvClient
  <2>10. TypeOK'
    BY <2>1, <2>2, <2>9 DEF TypeOK
  <2> QED
    BY <2>9, <2>10
<1> QED
  BY <1>3, <1>4 DEF Verify

\* What the codec makes of a staged block keeps every byte in its place, or is
\* garbage that no checksum would have let through.
LEMMA DecodedFacts ==
  ASSUME TypeOK, IInv, NEW c \in Clients, Current(c) = "decode"
  PROVE  /\ Decoded(c) \in Seq(Byte \cup {Garbage})
         /\ Len(Decoded(c)) = Size(plan[c])
         /\ \A j \in 1 .. Size(plan[c]) : Sound(c, j - 1, Decoded(c)[j])
<1>1. /\ staging[c] \in Seq(Byte \cup {Garbage}) /\ Staged(plan[c])
      /\ Size(plan[c]) \in Nat
  BY CurrentFacts, PlanFacts DEF TypeOK
<1>2. /\ Len(staging[c]) = Size(plan[c])
      /\ \A j \in DOMAIN staging[c] : FromBlock(c, j - 1, staging[c][j])
      /\ plan[c].checksum => Declared(staging[c])
  BY <1>1, Apart DEF IInv, InvClient, InvStaged
<1>3. DOMAIN staging[c] = 1 .. Size(plan[c])
  BY <1>1, <1>2
<1>4. CASE plan[c].compressed /\ ~Declared(staging[c])
  <2>1. Decoded(c) = [j \in 1 .. Size(plan[c]) |-> Garbage]
    BY <1>3, <1>4 DEF Decoded
  <2>2. /\ Decoded(c) \in Seq(Byte \cup {Garbage}) /\ Len(Decoded(c)) = Size(plan[c])
        /\ \A j \in 1 .. Size(plan[c]) : Decoded(c)[j] = Garbage
    BY <1>1, <2>1
  <2> QED
    BY <1>2, <1>4, <2>2 DEF Sound
<1>5. CASE ~(plan[c].compressed /\ ~Declared(staging[c]))
  <2>1. Decoded(c) = staging[c]
    BY <1>5 DEF Decoded
  <2> QED
    BY <1>1, <1>2, <1>3, <2>1 DEF Sound, Declared
<1> QED
  BY <1>4, <1>5

\* The codec fails and leaves part of the pixels behind.
LEMMA DecodeFails ==
  ASSUME TypeOK, IInv, NEW c \in Clients, Step(c, "decode"),
         UNCHANGED <<file, stream, reads>>,
         NEW n \in 0 .. Size(plan[c]) - 1,
         output' = IF Rearranged(plan[c]) THEN output
                   ELSE [output EXCEPT ![c] = Copy(@, 0, SubSeq(Decoded(c), 1, n))],
         NEW r \in {"cancelled", "invalid_block"}, Fail(c, r)
  PROVE  TypeOK' /\ IInv'
<1>1. /\ result[c] = "none" /\ Current(c) = "decode"
      /\ UNCHANGED <<plan, turn, total, staging, stop, changes>>
      /\ result' = [result EXCEPT ![c] = r]
  BY DEF Step, Fail
<1>2. /\ InvClient(c) /\ stage[c] = "none" /\ stage'[c] = "none"
      /\ total[c] = Size(plan[c]) /\ Staged(plan[c])
  BY <1>1, Apart, CurrentFacts DEF IInv, reads
<1>3. /\ output = [b \in Clients |-> output[b]]
      /\ \A b \in Clients : output[b] \in [0 .. Size(plan[b]) - 1 -> Cell]
  BY DEF TypeOK, Cell
<1>4. /\ output' = [b \in Clients |-> output'[b]]
      /\ output'[c] \in [0 .. Size(plan[c]) - 1 -> Cell]
      /\ \A b \in Clients \ {c} : output'[b] = output[b]
  <2>1. CASE Rearranged(plan[c])
    BY <1>3, <2>1
  <2>2. CASE ~Rearranged(plan[c])
    <3>1. PICK bytes : bytes = SubSeq(Decoded(c), 1, n)
      OBVIOUS
    <3>2. bytes \in Seq(Cell)
      <4>1. Decoded(c) \in Seq(Cell) /\ Len(Decoded(c)) = Size(plan[c])
        BY <1>1, DecodedFacts, CellSeq
      <4>2. Size(plan[c]) \in Nat
        BY PlanFacts
      <4> QED
        BY <3>1, <4>1, <4>2
    <3>3. PICK new : new = Copy(output[c], 0, bytes)
      OBVIOUS
    <3>4. new \in [0 .. Size(plan[c]) - 1 -> Cell]
      BY <1>3, <3>2, <3>3, CopyFacts, PlanFacts
    <3>5. output' = [output EXCEPT ![c] = new]
      BY <2>2, <3>1, <3>3
    <3> QED
      BY <1>3, <3>4, <3>5, Updated
  <2> QED
    BY <2>1, <2>2
<1>5. /\ result'[c] = r /\ \A b \in Clients \ {c} : result'[b] = result[b]
  BY <1>1 DEF TypeOK
<1>6. Current(c)' = "decode"
  BY <1>1 DEF Current
<1>7. InvReading(c)'
  BY <1>1, <1>2 DEF InvReading
<1>8. InvStaged(c)'
  BY <1>1, <1>2, <1>6 DEF InvClient, InvStaged, FromBlock, Declared
<1>9. InvDirect(c)'
  BY <1>1, <1>2 DEF InvDirect
<1>10. InvResult(c)'
  BY <1>5, <1>6 DEF InvResult
<1>11. OnlyBy(c)
  BY <1>1, <1>4, <1>5 DEF OnlyBy
<1>12. SourceTypeOK' /\ IInv'
  BY <1>7, <1>8, <1>9, <1>10, <1>11, OwnStep DEF InvClient
<1>13. \A b \in Clients : output'[b] \in [0 .. Size(plan[b]) - 1 -> Cell]
  BY <1>3, <1>4
<1>14. TypeOK'
  BY <1>1, <1>4, <1>12, <1>13 DEF TypeOK, ReadErrors, Cell
<1> QED
  BY <1>12, <1>14

\* The block is decoded.
LEMMA DecodeSucceeds ==
  ASSUME TypeOK, IInv, NEW c \in Clients, Step(c, "decode"),
         UNCHANGED <<file, stream, reads>>,
         output' = IF Rearranged(plan[c]) THEN output
                   ELSE [output EXCEPT ![c] = Copy(@, 0, Decoded(c))],
         staging' = [staging EXCEPT ![c] = Decoded(c)], Onward(c)
  PROVE  TypeOK' /\ IInv'
<1>1. /\ result[c] = "none" /\ Current(c) = "decode"
      /\ UNCHANGED <<plan, total, stop, result, changes>>
      /\ turn' = [turn EXCEPT ![c] = @ + 1]
  BY DEF Step, Onward
<1>2. /\ InvClient(c) /\ stage[c] = "none" /\ stage'[c] = "none"
      /\ total[c] = Size(plan[c]) /\ Staged(plan[c])
  BY <1>1, Apart, CurrentFacts DEF IInv, reads
<1>3. PICK m, bytes : m = plan[c] /\ bytes = Decoded(c)
  OBVIOUS
<1>4. /\ bytes \in Seq(Byte \cup {Garbage}) /\ Len(bytes) = Size(m)
      /\ \A j \in 1 .. Size(m) : Sound(c, j - 1, bytes[j])
  BY <1>1, <1>3, DecodedFacts
<1>5. Size(m) \in Nat /\ m \in BlockPlan /\ bytes \in Seq(Cell)
  BY <1>3, <1>4, PlanFacts, CellSeq
<1>6. DOMAIN bytes = 1 .. Size(m)
  BY <1>4
<1>7. /\ staging' \in [Clients -> Seq(Byte \cup {Garbage})]
      /\ staging'[c] = bytes /\ \A b \in Clients \ {c} : staging'[b] = staging[b]
  BY <1>3, <1>4 DEF TypeOK
<1>8. /\ output = [b \in Clients |-> output[b]]
      /\ \A b \in Clients : output[b] \in [0 .. Size(plan[b]) - 1 -> Cell]
  BY DEF TypeOK, Cell
<1>9. PICK new : new = Copy(output[c], 0, bytes)
  OBVIOUS
<1>10. /\ new \in [0 .. Size(m) - 1 -> Cell]
       /\ \A i \in 0 .. Size(m) - 1 : Sound(c, i, new[i])
  <2>1. output[c] \in [0 .. Size(m) - 1 -> Cell]
    BY <1>3, <1>8
  <2>2. /\ new \in [0 .. Size(m) - 1 -> Cell]
        /\ \A i \in 0 .. Size(m) - 1 :
             i \in 0 .. 0 + Len(bytes) - 1 => new[i] = bytes[i - 0 + 1]
    BY <1>5, <1>9, <2>1, CopyFacts
  <2>3. ASSUME NEW i \in 0 .. Size(m) - 1
        PROVE  Sound(c, i, new[i])
    <3>1. /\ i \in 0 .. 0 + Len(bytes) - 1 /\ i - 0 + 1 = i + 1
          /\ i + 1 \in 1 .. Size(m) /\ (i + 1) - 1 = i
      BY <1>4, <1>5
    <3>2. Sound(c, (i + 1) - 1, bytes[i + 1])
      BY <1>4, <3>1
    <3> QED
      BY <2>2, <3>1, <3>2
  <2> QED
    BY <2>2, <2>3
<1>11. /\ output' = [b \in Clients |-> output'[b]]
       /\ output'[c] = IF Rearranged(m) THEN output[c] ELSE new
       /\ \A b \in Clients \ {c} : output'[b] = output[b]
  <2>1. CASE Rearranged(m)
    BY <1>3, <1>8, <2>1
  <2>2. CASE ~Rearranged(m)
    <3>1. output' = [output EXCEPT ![c] = new]
      BY <1>3, <1>9, <2>2
    <3> QED
      BY <1>8, <2>2, <3>1, Updated
  <2> QED
    BY <2>1, <2>2
<1>12. /\ Current(c)' = Following(m, "decode")
       /\ turn' \in [Clients -> Nat]
       /\ \A b \in Clients : turn'[b] \in DOMAIN Steps(plan[b])
       /\ \A b \in Clients \ {c} : turn'[b] = turn[b]
  BY <1>1, <1>3, CurrentNext
<1>13. Current(c)' = "convert"
  BY <1>12 DEF Following
<1>14. InvReading(c)'
  BY <1>1, <1>2 DEF InvReading
<1>15. InvStaged(c)'
  <2>1. Len(staging'[c]) = total'[c]
    BY <1>1, <1>2, <1>3, <1>4, <1>7
  <2>2. \A j \in DOMAIN staging'[c] : Sound(c, j - 1, staging'[c][j])
    BY <1>4, <1>6, <1>7
  <2>3. ~Rearranged(m) => \A i \in DOMAIN output'[c] : Sound(c, i, output'[c][i])
    BY <1>10, <1>11
  <2> QED
    BY <1>1, <1>3, <1>13, <2>1, <2>2, <2>3 DEF InvStaged, Sound, FromBlock
<1>16. InvDirect(c)'
  BY <1>1, <1>2 DEF InvDirect
<1>17. InvResult(c)'
  BY <1>1, <1>13 DEF InvResult
<1>18. OnlyBy(c)
  BY <1>1, <1>7, <1>11, <1>12 DEF OnlyBy
<1>19. SourceTypeOK' /\ IInv'
  BY <1>14, <1>15, <1>16, <1>17, <1>18, OwnStep DEF InvClient
<1>20. \A b \in Clients : output'[b] \in [0 .. Size(plan[b]) - 1 -> Cell]
  BY <1>3, <1>8, <1>10, <1>11
<1>21. TypeOK'
  BY <1>1, <1>7, <1>11, <1>12, <1>19, <1>20 DEF TypeOK, Cell
<1> QED
  BY <1>19, <1>21

\* Decoding, either way.
LEMMA DecodeInv ==
  ASSUME TypeOK, IInv, NEW c \in Clients, Decode(c)
  PROVE  TypeOK' /\ IInv'
BY DecodeFails, DecodeSucceeds DEF Decode

\* Swapping takes each byte from within its own component.
LEMMA SwapFacts ==
  ASSUME NEW m \in BlockPlan, NEW into \in [0 .. Size(m) - 1 -> Cell], NEW n \in Nat
  PROVE  /\ Swap(m, into, n) \in [0 .. Size(m) - 1 -> Cell]
         /\ \A i \in 0 .. Size(m) - 1 :
              i < n => Swap(m, into, n)[i] = into[ByteTo(m, i)]
<1>1. ASSUME NEW i \in 0 .. Size(m) - 1
      PROVE  ByteTo(m, i) \in 0 .. Size(m) - 1
  <2> DEFINE s == SampleSize(m)
             k == i \div s
             r == i % s
             u == Mirror(m, r)
  <2>1. k \in 0 .. Samples(m) - 1 /\ r \in 0 .. s - 1 /\ i = k * s + r
    BY ByteOfSample
  <2>2. k \in Nat /\ ByteTo(m, i) = k * s + u
    <3>1. k \in Nat
      BY <2>1
    <3>2. ByteTo(m, k * s + r) = k * s + u
      BY <2>1, <3>1, ByteToMirror
    <3> QED
      BY <2>1, <3>1, <3>2
  <2>3. u \in 0 .. s - 1
    BY <2>1, MirrorTwice
  <2>4. s \in Nat \ {0} /\ Samples(m) \in Nat /\ Size(m) = Samples(m) * s
    BY SizeFacts DEF Size
  <2> HIDE DEF s, k, r, u
  <2> QED
    BY <2>1, <2>2, <2>3, <2>4, InWhole
<1>2. DOMAIN into = 0 .. Size(m) - 1 /\ \A i \in 0 .. Size(m) - 1 : into[i] \in Cell
  OBVIOUS
<1> QED
  BY <1>1, <1>2 DEF Swap

\* What conversion makes of the pixels; stopped half way it makes less of them.
Converted(c, n) ==
  IF Staged(plan[c]) /\ Rearranged(plan[c])
  THEN Rearrange(plan[c], output[c], 0, SubSeq(staging[c], 1, n))
  ELSE IF ~Rearranged(plan[c]) /\ plan[c].swapped /\ SampleSize(plan[c]) > 1
       THEN Swap(plan[c], output[c], n)
       ELSE output[c]

\* It puts bytes in places, whenever it is stopped.
LEMMA ConvertedType ==
  ASSUME TypeOK, IInv, NEW c \in Clients, Current(c) = "convert",
         NEW n \in 0 .. Size(plan[c])
  PROVE  Converted(c, n) \in [0 .. Size(plan[c]) - 1 -> Cell]
<1>1. PICK m, old, bytes :
        m = plan[c] /\ old = output[c] /\ bytes = SubSeq(staging[c], 1, n)
  OBVIOUS
<1>2. m \in BlockPlan /\ old \in [0 .. Size(m) - 1 -> Cell] /\ n \in Nat /\ Size(m) \in Nat
  <2>1. m \in BlockPlan /\ Size(m) \in Nat
    BY <1>1, PlanFacts
  <2>2. old \in [0 .. Size(m) - 1 -> Cell]
    BY <1>1 DEF TypeOK, Cell
  <2> QED
    BY <1>1, <2>1, <2>2
<1>3. CASE Staged(m) /\ Rearranged(m)
  <2>1. staging[c] \in Seq(Cell) /\ Len(staging[c]) = Size(m)
    <3>1. Len(staging[c]) = total[c] /\ total[c] = Size(plan[c])
      BY <1>1, <1>3, Apart DEF IInv, InvClient, InvStaged
    <3>2. staging[c] \in Seq(Byte \cup {Garbage})
      BY DEF TypeOK
    <3> QED
      BY <1>1, <3>1, <3>2, CellSeq
  <2>2. bytes \in Seq(Cell) /\ 0 + Len(bytes) <= Size(m)
    BY <1>1, <1>2, <2>1
  <2>3. Rearrange(m, old, 0, bytes) \in [0 .. Size(m) - 1 -> Cell]
    BY <1>2, <2>2, RearrangeFacts
  <2> QED
    BY <1>1, <1>3, <2>3 DEF Converted
<1>4. CASE ~(Staged(m) /\ Rearranged(m))
  <2>1. Swap(m, old, n) \in [0 .. Size(m) - 1 -> Cell]
    BY <1>2, SwapFacts
  <2> QED
    BY <1>1, <1>2, <1>4, <2>1 DEF Converted
<1> QED
  BY <1>3, <1>4

\* Every byte is where it belongs when conversion has ended.
LEMMA ConvertedFacts ==
  ASSUME TypeOK, IInv, NEW c \in Clients, Current(c) = "convert", result[c] = "none",
         NEW i \in 0 .. Size(plan[c]) - 1
  PROVE  Sound(c, SourceOf(plan[c], i), Converted(c, Size(plan[c]))[i])
<1>1. PICK m, old, k, size :
        m = plan[c] /\ old = output[c] /\ k = SourceOf(m, i) /\ size = Size(m)
  OBVIOUS
<1>2. /\ m \in BlockPlan /\ old \in [0 .. size - 1 -> Cell] /\ size \in Nat
      /\ k \in 0 .. size - 1 /\ Place(m, k) = i
  <2>1. m \in BlockPlan /\ size \in Nat
    BY <1>1, PlanFacts
  <2>2. old \in [0 .. size - 1 -> Cell]
    BY <1>1 DEF TypeOK, Cell
  <2>3. k \in 0 .. size - 1 /\ Place(m, k) = i
    BY <1>1, <2>1, PlacesCorrespond
  <2> QED
    BY <2>1, <2>2, <2>3
<1>3. total[c] = size /\ InvStaged(c) /\ InvDirect(c)
  BY <1>1, Apart DEF IInv, InvClient
\* A block that was not staged has no checksum; its bytes are at their landings.
<1>4. ASSUME ~Staged(m), NEW j \in 0 .. size - 1
      PROVE  Sound(c, j, old[Landing(m, j)])
  <2>1. staging[c] = << >>
    BY <1>1, <1>3, <1>4 DEF InvDirect
  <2>2. Len(staging[c]) = 0
    BY <2>1
  <2>3. total[c] - Len(staging[c]) = size
    BY <1>2, <1>3, <2>2
  <2>4. FromBlock(c, j, old[Landing(m, j)])
    BY <1>1, <1>3, <1>4, <2>3 DEF InvDirect
  <2> QED
    BY <1>1, <1>4, <2>4 DEF Sound, Staged
<1>5. CASE Staged(m) /\ Rearranged(m)
  <2>1. PICK bytes : bytes = SubSeq(staging[c], 1, size)
    OBVIOUS
  <2>2. /\ staging[c] \in Seq(Byte \cup {Garbage}) /\ Len(staging[c]) = size
        /\ \A j \in DOMAIN staging[c] : Sound(c, j - 1, staging[c][j])
    BY <1>1, <1>3, <1>5 DEF TypeOK, InvStaged
  <2>3. /\ bytes \in Seq(Byte \cup {Garbage}) /\ Len(bytes) = size
        /\ \A j \in 1 .. size : bytes[j] = staging[c][j] /\ j \in DOMAIN staging[c]
    BY <1>2, <2>1, <2>2
  <2>4. bytes \in Seq(Cell)
    BY <2>3, CellSeq
  <2>5. 0 + Len(bytes) <= Size(m) /\ k \in 0 .. 0 + Len(bytes) - 1 /\ ~(k < 0)
        /\ k - 0 + 1 = k + 1 /\ k + 1 \in 1 .. size /\ (k + 1) - 1 = k
    BY <1>1, <1>2, <2>3
  <2>6. Rearrange(m, old, 0, bytes)[Place(m, k)] =
          IF k < 0 THEN old[Place(m, k)] ELSE bytes[k - 0 + 1]
    BY <1>1, <1>2, <2>4, <2>5, RearrangeFacts
  <2>7. Rearrange(m, old, 0, bytes)[i] = staging[c][k + 1]
    BY <1>2, <2>3, <2>5, <2>6
  <2>8. Sound(c, (k + 1) - 1, staging[c][k + 1])
    BY <2>2, <2>3, <2>5
  <2>9. Converted(c, size) = Rearrange(m, old, 0, bytes)
    BY <1>1, <1>5, <2>1 DEF Converted
  <2> QED
    BY <1>1, <2>5, <2>7, <2>8, <2>9
<1>6. CASE ~Staged(m) /\ Rearranged(m)
  <2>1. Converted(c, size) = old
    BY <1>1, <1>6 DEF Converted
  <2>2. Sound(c, k, old[Place(m, k)])
    BY <1>2, <1>4, <1>6 DEF Landing
  <2> QED
    BY <1>1, <1>2, <2>1, <2>2
<1>7. CASE ~Rearranged(m)
  <2>1. ASSUME NEW j \in 0 .. size - 1
        PROVE  Sound(c, j, old[j])
    <3>1. CASE Staged(m)
      <4>1. DOMAIN old = 0 .. size - 1
        BY <1>2
      <4> QED
        BY <1>1, <1>3, <1>7, <3>1, <4>1 DEF InvStaged
    <3>2. CASE ~Staged(m)
      BY <1>4, <1>7, <3>2 DEF Landing
    <3> QED
      BY <3>1, <3>2
  <2>2. Sound(c, k, old[k])
    BY <1>2, <2>1
  <2>3. CASE m.swapped /\ SampleSize(m) > 1
    <3>1. k = ByteTo(m, i)
      BY <1>1, <1>2, <1>7, <2>3, SourceInOrder
    <3>2. Swap(m, old, size)[i] = old[ByteTo(m, i)]
      <4>1. i < size
        BY <1>1, <1>2
      <4> QED
        BY <1>1, <1>2, <4>1, SwapFacts
    <3>3. Converted(c, size) = Swap(m, old, size)
      BY <1>1, <1>7, <2>3 DEF Converted
    <3> QED
      BY <1>1, <2>2, <3>1, <3>2, <3>3
  <2>4. CASE ~(m.swapped /\ SampleSize(m) > 1)
    <3>1. k = i
      <4>1. SampleSize(m) \in Nat \ {0}
        BY <1>2, SizeFacts
      <4>2. ~m.swapped \/ SampleSize(m) = 1
        BY <2>4, <4>1
      <4> QED
        BY <1>1, <1>2, <1>7, <4>2, SourceInOrder
    <3>2. Converted(c, size) = old
      BY <1>1, <1>7, <2>4 DEF Converted
    <3> QED
      BY <1>1, <2>2, <3>1, <3>2
  <2> QED
    BY <2>3, <2>4
<1> QED
  BY <1>5, <1>6, <1>7

\* Conversion is stopped half way.
LEMMA ConvertStops ==
  ASSUME TypeOK, IInv, NEW c \in Clients, Step(c, "convert"),
         UNCHANGED <<file, stream, reads>>,
         NEW n \in 0 .. Size(plan[c]),
         output' = [output EXCEPT ![c] = Converted(c, n)], Fail(c, "cancelled")
  PROVE  TypeOK' /\ IInv'
<1>1. /\ result[c] = "none" /\ Current(c) = "convert"
      /\ UNCHANGED <<plan, turn, total, staging, stop, changes>>
      /\ result' = [result EXCEPT ![c] = "cancelled"]
  BY DEF Step, Fail
<1>2. /\ InvClient(c) /\ stage[c] = "none" /\ stage'[c] = "none"
      /\ total[c] = Size(plan[c])
  BY <1>1, Apart DEF IInv, reads
<1>3. PICK new : new = Converted(c, n)
  OBVIOUS
<1>4. new \in [0 .. Size(plan[c]) - 1 -> Cell]
  BY <1>1, <1>3, ConvertedType
<1>5. /\ output = [b \in Clients |-> output[b]]
      /\ \A b \in Clients : output[b] \in [0 .. Size(plan[b]) - 1 -> Cell]
  BY DEF TypeOK, Cell
<1>6. /\ output' = [b \in Clients |-> output'[b]]
      /\ output'[c] = new
      /\ \A b \in Clients \ {c} : output'[b] = output[b]
  BY <1>3, <1>5, Updated
<1>7. /\ result'[c] = "cancelled" /\ \A b \in Clients \ {c} : result'[b] = result[b]
  BY <1>1 DEF TypeOK
<1>8. Current(c)' = "convert"
  BY <1>1 DEF Current
<1>9. InvReading(c)'
  BY <1>1, <1>2 DEF InvReading
<1>10. InvStaged(c)'
  BY <1>1, <1>2, <1>7, <1>8 DEF InvClient, InvStaged, FromBlock, Sound
<1>11. InvDirect(c)'
  BY <1>1, <1>2, <1>7, <1>8 DEF InvClient, InvDirect, FromBlock
<1>12. InvResult(c)'
  BY <1>7, <1>8 DEF InvResult
<1>13. OnlyBy(c)
  BY <1>1, <1>6, <1>7 DEF OnlyBy
<1>14. SourceTypeOK' /\ IInv'
  BY <1>9, <1>10, <1>11, <1>12, <1>13, OwnStep DEF InvClient
<1>15. \A b \in Clients : output'[b] \in [0 .. Size(plan[b]) - 1 -> Cell]
  BY <1>4, <1>5, <1>6
<1>16. TypeOK'
  BY <1>1, <1>6, <1>14, <1>15 DEF TypeOK, ReadErrors, Cell
<1> QED
  BY <1>14, <1>16

\* Conversion ends.
LEMMA ConvertEnds ==
  ASSUME TypeOK, IInv, NEW c \in Clients, Step(c, "convert"),
         UNCHANGED <<file, stream, reads>>,
         output' = [output EXCEPT ![c] = Converted(c, Size(plan[c]))],
         Onward(c), UNCHANGED staging
  PROVE  TypeOK' /\ IInv'
<1>1. /\ result[c] = "none" /\ Current(c) = "convert"
      /\ UNCHANGED <<plan, total, staging, stop, result, changes>>
      /\ turn' = [turn EXCEPT ![c] = @ + 1]
  BY DEF Step, Onward
<1>2. /\ InvClient(c) /\ stage[c] = "none" /\ stage'[c] = "none"
      /\ total[c] = Size(plan[c]) /\ Size(plan[c]) \in Nat
  BY <1>1, Apart, PlanFacts DEF IInv, reads
<1>3. PICK new : new = Converted(c, Size(plan[c]))
  OBVIOUS
<1>4. /\ new \in [0 .. Size(plan[c]) - 1 -> Cell]
      /\ \A i \in 0 .. Size(plan[c]) - 1 : Sound(c, SourceOf(plan[c], i), new[i])
  <2>1. Size(plan[c]) \in 0 .. Size(plan[c])
    BY <1>2
  <2> QED
    BY <1>1, <1>3, <2>1, ConvertedType, ConvertedFacts
<1>5. /\ output = [b \in Clients |-> output[b]]
      /\ \A b \in Clients : output[b] \in [0 .. Size(plan[b]) - 1 -> Cell]
  BY DEF TypeOK, Cell
<1>6. /\ output' = [b \in Clients |-> output'[b]]
      /\ output'[c] = new
      /\ \A b \in Clients \ {c} : output'[b] = output[b]
  BY <1>3, <1>5, Updated
<1>7. /\ Current(c)' = Following(plan[c], "convert")
      /\ turn' \in [Clients -> Nat]
      /\ \A b \in Clients : turn'[b] \in DOMAIN Steps(plan[b])
      /\ \A b \in Clients \ {c} : turn'[b] = turn[b]
  BY <1>1, CurrentNext
<1>8. Current(c)' = "done"
  BY <1>7 DEF Following
<1>9. InvReading(c)'
  BY <1>1, <1>2 DEF InvReading
<1>10. InvStaged(c)'
  BY <1>1, <1>2, <1>8 DEF InvClient, InvStaged
<1>11. InvDirect(c)'
  BY <1>1, <1>2, <1>8 DEF InvClient, InvDirect, FromBlock
<1>12. InvResult(c)'
  <2>1. \A i \in DOMAIN output'[c] : Sound(c, SourceOf(plan[c], i), output'[c][i])
    BY <1>4, <1>6
  <2> QED
    BY <1>1, <1>8, <2>1 DEF InvResult, Sound, FromBlock
<1>13. OnlyBy(c)
  BY <1>1, <1>6, <1>7 DEF OnlyBy
<1>14. SourceTypeOK' /\ IInv'
  BY <1>9, <1>10, <1>11, <1>12, <1>13, OwnStep DEF InvClient
<1>15. \A b \in Clients : output'[b] \in [0 .. Size(plan[b]) - 1 -> Cell]
  BY <1>4, <1>5, <1>6
<1>16. TypeOK'
  BY <1>1, <1>6, <1>7, <1>14, <1>15 DEF TypeOK, Cell
<1> QED
  BY <1>14, <1>16

\* Converting, either way.
LEMMA ConvertInv ==
  ASSUME TypeOK, IInv, NEW c \in Clients, Convert(c)
  PROVE  TypeOK' /\ IInv'
<1>1. Step(c, "convert") /\ UNCHANGED <<file, stream, reads>>
  BY DEF Convert
<1>2. CASE /\ \E k \in 0 .. Samples(plan[c]) - 1 :
                output' = [output EXCEPT ![c] =
                             Converted(c, k * SampleSize(plan[c]))]
           /\ Fail(c, "cancelled")
  <2>1. PICK k \in 0 .. Samples(plan[c]) - 1 :
          output' = [output EXCEPT ![c] = Converted(c, k * SampleSize(plan[c]))]
    BY <1>2
  <2>2. k * SampleSize(plan[c]) \in 0 .. Size(plan[c])
    <3> DEFINE s == SampleSize(plan[c])
               q == Samples(plan[c])
    <3>1. s \in Nat \ {0} /\ q \in Nat /\ Size(plan[c]) = q * s
      BY PlanFacts, SizeFacts DEF Size
    <3> HIDE DEF s, q
    <3>2. k * s + 0 \in 0 .. q * s - 1
      <4>1. k \in Nat /\ 0 \in 0 .. s - 1 /\ k \in 0 .. q - 1
        BY <3>1 DEF q
      <4> QED
        BY <3>1, <4>1, InWhole
    <3>3. k * s \in Nat /\ q * s \in Nat
      BY <3>1
    <3>4. k * s \in 0 .. q * s
      BY <3>2, <3>3
    <3> QED
      BY <3>1, <3>4 DEF s
  <2> QED
    BY <1>1, <1>2, <2>1, <2>2, ConvertStops
<1>3. CASE /\ output' = [output EXCEPT ![c] = Converted(c, Size(plan[c]))]
           /\ Onward(c) /\ UNCHANGED staging
  BY <1>1, <1>3, ConvertEnds
<1> QED
  BY <1>2, <1>3 DEF Convert, Converted

\* The read returns.
LEMMA ReturnInv ==
  ASSUME TypeOK, IInv, NEW c \in Clients, Return(c)
  PROVE  TypeOK' /\ IInv'
<1>1. /\ result[c] = "none" /\ Current(c) = "done"
      /\ UNCHANGED <<file, stream, reads>>
      /\ UNCHANGED <<plan, turn, total, staging, output, stop, changes>>
      /\ result' = [result EXCEPT ![c] = "ok"]
  BY DEF Return, Step, End, Fail
<1>2. InvClient(c) /\ stage[c] = "none" /\ stage'[c] = "none"
  BY <1>1, Apart DEF IInv, reads
<1>3. result'[c] = "ok" /\ \A b \in Clients \ {c} : result'[b] = result[b]
  BY <1>1 DEF TypeOK
<1>4. Current(c)' = "done"
  BY <1>1 DEF Current
<1>5. InvReading(c)'
  BY <1>1, <1>2, <1>4 DEF InvClient, InvReading
<1>6. InvStaged(c)'
  BY <1>1, <1>2, <1>4 DEF InvClient, InvStaged
<1>7. InvDirect(c)'
  BY <1>1, <1>2, <1>4 DEF InvClient, InvDirect, FromBlock
<1>8. InvResult(c)'
  BY <1>1, <1>2, <1>3, <1>4 DEF InvClient, InvResult, Sound, FromBlock
<1>9. OnlyBy(c)
  BY <1>1, <1>3 DEF OnlyBy
<1>10. SourceTypeOK' /\ IInv'
  BY <1>5, <1>6, <1>7, <1>8, <1>9, OwnStep DEF InvClient
<1>11. TypeOK'
  BY <1>1, <1>10 DEF TypeOK, ReadErrors
<1> QED
  BY <1>10, <1>11

-----------------------------------------------------------------------------
(* What goes on around the reads.                                             *)

\* Other programs change the file.
LEMMA ChangeFileInv ==
  ASSUME TypeOK, IInv, ChangeFile
  PROVE  TypeOK' /\ IInv'
<1>1. /\ changes' = changes + 1 /\ changes < MaxChanges
      /\ UNCHANGED <<plan, turn, total, staging, output, stop, result>>
  BY DEF ChangeFile
<1>2. PICK i \in 0 .. FileSize - 1 : Overwrite(i) \/ Shorten(i)
  BY ReadAssumption DEF ReadAssumption, ChangeFile
<1>3. SourceTypeOK /\ SourceInv /\ changes \in Nat /\ length \in Int
  BY DEF TypeOK, IInv, SourceTypeOK
<1>4. /\ SourceTypeOK' /\ SourceInv'
      /\ UNCHANGED <<request, stage>> /\ length' <= length
  BY <1>2, <1>3, FileChangeInv
<1>5. length' \in Int
  BY <1>4 DEF SourceTypeOK
<1>6. changes' \in 0 .. MaxChanges
  BY <1>1, <1>3, ReadAssumption DEF ReadAssumption
<1>7. TypeOK'
  BY <1>1, <1>4, <1>6 DEF TypeOK
<1>8. ASSUME NEW b \in Clients
      PROVE  InvClient(b)'
  BY <1>1, <1>4, <1>5, ClientUnchanged DEF IInv
<1> QED
  BY <1>4, <1>7, <1>8 DEF IInv

\* Somebody asks a read to stop.
LEMMA RequestStopInv ==
  ASSUME TypeOK, IInv, NEW c \in Clients, RequestStop(c)
  PROVE  TypeOK' /\ IInv'
<1>1. /\ stop' = [stop EXCEPT ![c] = TRUE]
      /\ UNCHANGED <<file, stream, reads>>
      /\ UNCHANGED <<plan, turn, total, staging, output, result, changes>>
  BY DEF RequestStop
<1>2. InvClient(c) /\ UNCHANGED <<request, stage, length>> /\ length \in Int
  BY <1>1 DEF IInv, reads, file, TypeOK, SourceTypeOK
<1>3. InvClient(c)'
  BY <1>1, <1>2, ClientUnchanged
<1>4. SourceTypeOK' /\ IInv'
  BY <1>1, <1>3, OwnStep DEF OnlyBy
<1>5. TypeOK'
  BY <1>1, <1>4 DEF TypeOK
<1> QED
  BY <1>4, <1>5

\* Nothing has been read yet.
LEMMA InitInv == Init => TypeOK /\ IInv
<1> SUFFICES ASSUME Init PROVE TypeOK /\ IInv
  OBVIOUS
<1>1. SourceTypeOK
  <2>1. FileSize \in Nat /\ 0 \in 0 .. FileSize /\ FileSize \in 0 .. FileSize
    BY SourceAssumption DEF SourceAssumption
  <2>2. good \in [0 .. FileSize - 1 -> BOOLEAN] /\ exhausted \in BOOLEAN
    BY DEF Init, SourceInit
  <2>3. /\ length \in 0 .. FileSize /\ position \in 0 .. FileSize
        /\ mutex \in Clients \cup {Free}
    BY <2>1 DEF Init, SourceInit
  <2>4. request \in [Clients -> [offset : 0 .. FileSize, count : 0 .. FileSize]]
    BY <2>1 DEF Init, SourceInit, NoRead
  <2>5. stage \in [Clients -> {"none", "asked", "held", "sought", "replied"}]
    BY DEF Init, SourceInit
  <2>6. << >> \in Seq(Byte)
    OBVIOUS
  <2>7. reply \in [Clients -> Seq(Byte) \cup {IoError}]
    BY <2>6 DEF Init, SourceInit
  <2> QED
    BY <2>2, <2>3, <2>4, <2>5, <2>7 DEF SourceTypeOK
<1>2. SourceInv
  BY SourceAssumption DEF Init, SourceInit, SourceInv, SourceAssumption, NoRead
<1>3. /\ plan \in Plans /\ turn = [c \in Clients |-> 1]
      /\ total = [c \in Clients |-> 0] /\ staging = [c \in Clients |-> << >>]
      /\ output = [c \in Clients |-> [i \in 0 .. Size(plan[c]) - 1 |-> Untouched]]
      /\ stop = [c \in Clients |-> FALSE]
      /\ result = [c \in Clients |-> "none"] /\ changes = 0
      /\ stage = [c \in Clients |-> "none"]
  BY DEF Init, SourceInit
<1>4. ASSUME NEW c \in Clients
      PROVE  plan[c] \in BlockPlan /\ Size(plan[c]) \in Nat \ {0}
  <2>1. plan[c] \in BlockPlan
    BY <1>3, ReadAssumption DEF ReadAssumption
  <2> QED
    BY <2>1, SizeFacts
<1>5. \A c \in Clients : 1 \in DOMAIN Steps(plan[c]) /\ Steps(plan[c])[1] = "read"
  BY DEF Steps
<1>6. TypeOK
  <2>1. turn \in [Clients -> Nat] /\ total \in [Clients -> Nat]
    BY <1>3
  <2>2. staging \in [Clients -> Seq(Byte \cup {Garbage})]
    BY <1>3
  <2>3. output = [c \in Clients |-> output[c]]
    BY <1>3
  <2>4. \A c \in Clients :
          /\ turn[c] \in DOMAIN Steps(plan[c])
          /\ total[c] <= Size(plan[c])
          /\ output[c] \in [0 .. Size(plan[c]) - 1 -> Byte \cup {Untouched, Garbage}]
    BY <1>3, <1>4, <1>5
  <2>5. /\ result \in [Clients -> ReadErrors \cup {"none", "ok"}]
        /\ stop \in [Clients -> BOOLEAN] /\ changes \in 0 .. MaxChanges
    BY <1>3, ReadAssumption DEF ReadAssumption
  <2> QED
    BY <1>1, <1>3, <2>1, <2>2, <2>3, <2>4, <2>5 DEF TypeOK
<1>7. ASSUME NEW c \in Clients
      PROVE  InvClient(c)
  <2>1. /\ Current(c) = "read" /\ stage[c] = "none" /\ total[c] = 0
        /\ staging[c] = << >> /\ result[c] = "none"
    BY <1>3, <1>5 DEF Current
  <2>2. Len(staging[c]) = 0 /\ DOMAIN staging[c] = {}
    BY <2>1
  <2>3. \A i \in DOMAIN output[c] : output[c][i] = Untouched
    BY <1>3
  <2>4. InvReading(c)
    BY <2>1 DEF InvReading
  <2>5. InvStaged(c)
    BY <2>1, <2>2, <2>3 DEF InvStaged
  <2>6. InvDirect(c)
    BY <2>1, <2>2 DEF InvDirect
  <2>7. InvResult(c)
    BY <2>1 DEF InvResult
  <2> QED
    BY <2>4, <2>5, <2>6, <2>7 DEF InvClient
<1> QED
  BY <1>2, <1>6, <1>7 DEF IInv

\* Every step keeps the invariant.
LEMMA NextInv == TypeOK /\ IInv /\ [Next]_vars => TypeOK' /\ IInv'
<1> SUFFICES ASSUME TypeOK, IInv, [Next]_vars PROVE TypeOK' /\ IInv'
  OBVIOUS
<1>1. CASE ChangeFile
  BY <1>1, ChangeFileInv
<1>2. ASSUME NEW c \in Clients, Work(c)
      PROVE  TypeOK' /\ IInv'
  BY <1>2, AskChunkInv, InSourceInv, TakeChunkInv, EndReadInv, VerifyInv,
     DecodeInv, ConvertInv, ReturnInv DEF Work
<1>3. ASSUME NEW c \in Clients, RequestStop(c)
      PROVE  TypeOK' /\ IInv'
  BY <1>3, RequestStopInv
<1>4. CASE UNCHANGED vars
  <2>1. /\ UNCHANGED <<file, stream, reads>>
        /\ UNCHANGED <<plan, turn, total, staging, output, stop, result, changes>>
    BY <1>4 DEF vars
  <2>2. UNCHANGED <<request, stage, length>> /\ length \in Int
    BY <2>1 DEF reads, file, TypeOK, SourceTypeOK
  <2>3. SourceTypeOK' /\ SourceInv'
    BY <2>1, SourceUnchanged DEF TypeOK, IInv
  <2>4. ASSUME NEW b \in Clients
        PROVE  InvClient(b)'
    BY <2>1, <2>2, ClientUnchanged DEF IInv
  <2> QED
    BY <2>1, <2>3, <2>4 DEF TypeOK, IInv
<1> QED
  BY <1>1, <1>2, <1>3, <1>4 DEF Next

-----------------------------------------------------------------------------
(* The theorems.                                                              *)

\* In every state of every number of concurrent reads: whoever moves the stream
\* holds the mutex, each client reads the next bytes of its own block, and its
\* buffers hold them in their places.
THEOREM ReadInvariant == Spec => [](TypeOK /\ IInv)
BY InitInv, NextInv, PTL DEF Spec

\* The variables of the reads keep their types, and no result is written outside
\* the caller's buffer.
THEOREM TypeCorrect == Spec => []TypeOK
BY ReadInvariant, PTL

\* A read that succeeds returns the bytes of its own block, each in its place.
THEOREM ReadsItsOwnBlock == Spec => []ReadsOwnBlock
<1>1. TypeOK /\ IInv => ReadsOwnBlock
  BY DEF IInv, InvClient, InvResult, ReadsOwnBlock, Sound, FromBlock
<1> QED
  BY <1>1, ReadInvariant, PTL

\* With a checksum a read that succeeds returns declared bytes only.
THEOREM ReturnsVerifiedBytes == Spec => []VerifiedBytes
<1>1. TypeOK /\ IInv => VerifiedBytes
  BY DEF IInv, InvClient, InvResult, VerifiedBytes, Sound
<1> QED
  BY <1>1, ReadInvariant, PTL

\* A staged block that cannot be read whole, or does not match its checksum,
\* leaves the destination alone.
THEOREM KeepsTheDestination == Spec => []KeepsDestination
<1>1. TypeOK /\ IInv => KeepsDestination
  BY DEF IInv, InvClient, InvStaged, InvResult, KeepsDestination
<1> QED
  BY <1>1, ReadInvariant, PTL

\* A read fails for lack of bytes only if its own block was cut off.
THEOREM FailsOnlyOnItsOwn == Spec => []FailsOnItsOwn
<1>1. TypeOK /\ IInv => FailsOnItsOwn
  BY DEF IInv, InvClient, InvResult, FailsOnItsOwn
<1> QED
  BY <1>1, ReadInvariant, PTL
=============================================================================
