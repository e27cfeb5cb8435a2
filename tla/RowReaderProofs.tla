--------------------------- MODULE RowReaderProofs ---------------------------
(***************************************************************************)
(* What module RowReader claims of bounded row delivery, proved for images    *)
(* of every shape, cut into pieces in every way, over a source that changes   *)
(* as often as one likes.                                                     *)
(***************************************************************************)
EXTENDS RowReader, ArithmeticLemmas

-----------------------------------------------------------------------------
(* The samples of the first pieces.                                           *)

\* The samples of one more piece are those before it and its own.
LEMMA OnePieceMore ==
  ASSUME NEW pieces, NEW n \in Nat
  PROVE  /\ SamplesIn(pieces, 0) = 0
         /\ SamplesIn(pieces, n + 1) = SamplesIn(pieces, n) + pieces[n + 1]
BY SumToNext DEF SamplesIn, SumTo

\* The samples of the first pieces are a number, and no more than all of them.
LEMMA SamplesFacts ==
  ASSUME NEW pieces \in Seq(Nat), NEW n \in 0 .. Len(pieces)
  PROVE  /\ SamplesIn(pieces, n) \in Nat
         /\ SamplesIn(pieces, n) <= SamplesIn(pieces, Len(pieces))
<1>1. Len(pieces) \in Nat /\ \A i \in 1 .. Len(pieces) : pieces[i] \in Nat
  OBVIOUS
<1> QED
  BY <1>1, SumToFacts DEF SamplesIn, SumTo

\* What is indexed from one is a sequence.
LEMMA FunctionIsSequence ==
  ASSUME NEW S, NEW n \in Nat, NEW f \in [1 .. n -> S]
  PROVE  f \in Seq(S) /\ Len(f) = n
OBVIOUS

-----------------------------------------------------------------------------
(* The image and the steps that keep most of the state.                       *)

\* The sizes of an image: its pieces add up to its source rows.
LEMMA ImageFacts ==
  ASSUME TypeOK
  PROVE  /\ image.width \in Nat \ {0} /\ image.height \in Nat \ {0}
         /\ image.channels \in Nat \ {0} /\ image.normal \in BOOLEAN
         /\ RowSamples(image) \in Nat \ {0} /\ SourceRows(image) \in Nat
         /\ PlaneRows(image) \in Nat
         /\ image.pieces \in Seq(Nat) /\ Len(image.pieces) \in Nat
         /\ DOMAIN image.pieces = 1 .. Len(image.pieces)
         /\ SamplesIn(image.pieces, Len(image.pieces))
              = SourceRows(image) * RowSamples(image)
         /\ PlaneRows(image) = IF image.normal THEN SourceRows(image) * image.channels
                               ELSE SourceRows(image)
<1>1. image \in Image /\ image \in Images
  BY RowAssumption DEF TypeOK, RowAssumption
<1>2. PICK w, h, c : w = image.width /\ h = image.height /\ c = image.channels
  OBVIOUS
<1>3. /\ w \in Nat \ {0} /\ h \in Nat \ {0} /\ c \in Nat \ {0}
      /\ image.normal \in BOOLEAN /\ image.pieces \in Seq(Nat \ {0})
  BY <1>1, <1>2 DEF Image
<1>4. \A a, b \in Nat \ {0} : a * b \in Nat \ {0}
  OBVIOUS
<1>5. /\ PlaneRows(image) = h * c
      /\ RowSamples(image) = (IF image.normal THEN w * c ELSE w)
      /\ SourceRows(image) = (IF image.normal THEN h ELSE h * c)
  BY <1>2 DEF PlaneRows, RowSamples, SourceRows
<1>6. w * (h * c) = h * (w * c) /\ w * (h * c) = (h * c) * w
  BY <1>3
<1>7. SamplesIn(image.pieces, Len(image.pieces)) = w * (h * c)
  BY <1>1, <1>2, <1>5, RowAssumption DEF RowAssumption
<1>8. image.pieces \in Seq(Nat)
  BY <1>3
<1>9. RowSamples(image) \in Nat \ {0} /\ SourceRows(image) \in Nat /\ PlaneRows(image) \in Nat
  BY <1>3, <1>4, <1>5
<1>10. SamplesIn(image.pieces, Len(image.pieces)) = SourceRows(image) * RowSamples(image)
  BY <1>3, <1>5, <1>6, <1>7
<1> QED
  BY <1>2, <1>3, <1>5, <1>8, <1>9, <1>10

\* The read is over, with an error or with a success that is due.
LEMMA EndInv ==
  ASSUME TypeOK, IInv, phase # "ended", NEW r \in RowErrors \cup {"ok"}, End(r),
         r = "ok" => StillIntact /\ Len(delivered) = PlaneRows(image)
  PROVE  TypeOK' /\ IInv'
<1>1. /\ phase' = "ended" /\ result' = r
      /\ UNCHANGED <<image, intact, changes, piece, digest, pending, row, channel,
                     ordinal, delivered, stop>>
  BY DEF End, source, pass, staging
<1>2. TypeOK'
  BY <1>1 DEF TypeOK
<1>3. InvPhases'
  BY <1>1 DEF InvPhases
<1>4. InvFlow'
  BY <1>1 DEF InvFlow, Delivering
<1>5. InvCount'
  BY <1>1 DEF IInv, InvCount, Delivering
<1>6. InOrder'
  BY <1>1 DEF IInv, InOrder, RowAt, IndexOf
<1>7. InvDigest'
  BY <1>1 DEF IInv, InvDigest, Good, StillIntact
<1>8. InvIntact'
  <2>1. delivered # << >> => phase \in Delivering
    BY DEF IInv, InvPhases, TypeOK, Delivering
  <2> QED
    BY <1>1, <2>1 DEF IInv, InvIntact, Delivering
<1> QED
  BY <1>2, <1>3, <1>4, <1>5, <1>6, <1>7, <1>8 DEF IInv

\* A failure ends the read.
LEMMA FailureInv ==
  ASSUME TypeOK, IInv, phase # "ended", NEW e \in RowErrors, End(e)
  PROVE  TypeOK' /\ IInv'
<1>1. e # "ok"
  BY DEF RowErrors
<1> QED
  BY <1>1, EndInv

\* Between two passes, or two rows, only the phase moves on.
LEMMA MoveInv ==
  ASSUME TypeOK, IInv, NEW to, Goto(to), UNCHANGED <<pass, staging, delivered>>,
         \/ phase = "begin" /\ to \in {"verify", "read"}
            /\ (image.checksum => to = "verify")
         \/ phase = "feed" /\ pending = << >> /\ to = "read"
         \/ phase = "emit" /\ to = "consume"
  PROVE  TypeOK' /\ IInv'
<1>1. /\ phase' = to
      /\ UNCHANGED <<image, intact, changes, piece, digest, pending, row, channel,
                     ordinal, delivered, stop, result>>
  BY DEF Goto, source, pass, staging
<1>2. TypeOK'
  BY <1>1 DEF TypeOK
<1>3. InvPhases'
  BY <1>1 DEF IInv, InvPhases
<1>4. InvFlow'
  <2>1. CASE phase = "begin"
    <3>1. piece = 0 /\ ordinal = 0 /\ row = << >> /\ pending = << >>
      BY <2>1 DEF IInv, InvPhases
    <3>2. /\ 0 * RowSamples(image) = 0 /\ RowSamples(image) # 0
          /\ SamplesIn(image.pieces, 0) = 0
      BY ImageFacts, OnePieceMore
    <3> QED
      BY <1>1, <2>1, <3>1, <3>2 DEF InvFlow, Delivering
  <2>2. CASE phase \in {"feed", "emit"}
    BY <1>1, <2>2 DEF IInv, InvFlow, Delivering
  <2> QED
    BY <2>1, <2>2
<1>5. InvCount'
  <2>1. CASE phase = "begin"
    <3>1. channel = 0 /\ ordinal = 0 /\ delivered = << >> /\ result = "none"
      BY <2>1 DEF IInv, InvPhases
    <3>2. 0 * image.channels + 0 = 0
      BY ImageFacts
    <3> QED
      BY <1>1, <3>1, <3>2 DEF InvCount
  <2>2. CASE phase \in {"feed", "emit"}
    BY <1>1, <2>2 DEF IInv, InvCount, Delivering
  <2> QED
    BY <2>1, <2>2
<1>6. InOrder'
  BY <1>1 DEF IInv, InOrder, RowAt, IndexOf
<1>7. InvDigest'
  BY <1>1 DEF IInv, InvDigest, Good, StillIntact
<1>8. InvIntact'
  BY <1>1 DEF IInv, InvPhases, InvIntact, Delivering
<1> QED
  BY <1>2, <1>3, <1>4, <1>5, <1>6, <1>7, <1>8 DEF IInv

-----------------------------------------------------------------------------
(* The first pass, and the pieces of the second.                              *)

\* The read is entered.
LEMMA BeginInv ==
  ASSUME TypeOK, IInv, Begin
  PROVE  TypeOK' /\ IInv'
<1>1. phase = "begin"
  BY DEF Begin
<1>2. CASE \E e \in RowErrors : End(e)
  BY <1>1, <1>2, FailureInv
<1>3. CASE Goto(FirstPass(image)) /\ UNCHANGED <<pass, staging, delivered>>
  <2>1. FirstPass(image) \in {"verify", "read"} /\ (image.checksum => FirstPass(image) = "verify")
    BY DEF FirstPass
  <2> QED
    BY <1>1, <1>3, <2>1, MoveInv
<1> QED
  BY <1>2, <1>3 DEF Begin, Cancelled, Faulty, RowErrors

\* A piece is hashed.
LEMMA VerifyPieceInv ==
  ASSUME TypeOK, IInv, VerifyPiece
  PROVE  TypeOK' /\ IInv'
<1>1. phase = "verify" /\ piece < Len(image.pieces)
  BY DEF VerifyPiece
<1>2. CASE \E e \in RowErrors : End(e)
  BY <1>1, <1>2, FailureInv
<1>3. CASE ReadPiece /\ Goto("verify") /\ UNCHANGED <<staging, delivered>>
  <2>1. /\ phase' = "verify" /\ piece' = piece + 1
        /\ digest' = (digest /\ intact[piece + 1])
        /\ UNCHANGED <<image, intact, changes, pending, row, channel, ordinal,
                       delivered, stop, result>>
    BY <1>3 DEF ReadPiece, Goto, source, staging
  <2>2. /\ piece \in Nat /\ piece + 1 \in 1 .. Len(image.pieces)
        /\ piece' \in 0 .. Len(image.pieces) /\ intact[piece + 1] \in BOOLEAN
    <3>1. piece \in Nat /\ piece + 1 \in 1 .. Len(image.pieces)
      BY <1>1, ImageFacts DEF TypeOK
    <3>2. piece' \in 0 .. Len(image.pieces)
      BY <2>1, <3>1
    <3>3. piece + 1 \in DOMAIN image.pieces
      BY <3>1, ImageFacts
    <3> QED
      BY <3>1, <3>2, <3>3 DEF TypeOK
  <2>3. TypeOK'
    BY <2>1, <2>2 DEF TypeOK
  <2>4. pending = << >> /\ row = << >> /\ delivered = << >>
        /\ channel = 0 /\ ordinal = 0 /\ result = "none"
    BY <1>1 DEF IInv, InvPhases
  <2>5. InvPhases'
    BY <2>1, <2>4 DEF InvPhases
  <2>6. InvFlow'
    BY <2>1 DEF InvFlow, Delivering
  <2>7. InvCount'
    BY <2>1, <2>4 DEF InvCount, Delivering
  <2>8. InOrder'
    BY <2>1, <2>4 DEF InOrder
  <2>9. InvDigest'
    BY <2>1, <2>4 DEF InvDigest
  <2>10. InvIntact'
    <3> SUFFICES ASSUME image.checksum, changes = 0, digest, intact[piece + 1],
                        NEW i \in 1 .. piece + 1
                 PROVE  intact[i]
      BY <2>1 DEF InvIntact, Delivering
    <3>1. i = piece + 1 \/ i \in 1 .. piece
      BY <2>2
    <3> QED
      BY <1>1, <3>1 DEF IInv, InvIntact
  <2> QED
    BY <2>3, <2>5, <2>6, <2>7, <2>8, <2>9, <2>10 DEF IInv
<1> QED
  BY <1>2, <1>3 DEF VerifyPiece, Cancelled, Faulty, RowErrors

\* The first digest is compared, and the second pass begins.
LEMMA VerifiedInv ==
  ASSUME TypeOK, IInv, Verified
  PROVE  TypeOK' /\ IInv'
<1>1. phase = "verify" /\ piece = Len(image.pieces)
  BY DEF Verified
<1>2. CASE End("checksum_mismatch")
  BY <1>1, <1>2, FailureInv DEF RowErrors
<1>3. CASE digest /\ SecondPass /\ Goto("read") /\ UNCHANGED <<staging, delivered>>
  <2>1. /\ phase' = "read" /\ piece' = 0 /\ digest' = TRUE
        /\ UNCHANGED <<image, intact, changes, pending, row, channel, ordinal,
                       delivered, stop, result>>
    BY <1>3 DEF SecondPass, Goto, source, staging
  <2>2. pending = << >> /\ row = << >> /\ delivered = << >>
        /\ channel = 0 /\ ordinal = 0 /\ result = "none"
    BY <1>1 DEF IInv, InvPhases
  <2>3. /\ 0 * RowSamples(image) = 0 /\ RowSamples(image) # 0
        /\ SamplesIn(image.pieces, 0) = 0 /\ 0 * image.channels + 0 = 0
        /\ 0 \in 0 .. Len(image.pieces)
    <3>1. /\ RowSamples(image) \in Nat \ {0} /\ image.channels \in Nat
          /\ Len(image.pieces) \in Nat
      BY ImageFacts
    <3>2. SamplesIn(image.pieces, 0) = 0
      BY OnePieceMore
    <3> QED
      BY <3>1, <3>2
  <2>4. TypeOK'
    BY <2>1, <2>3 DEF TypeOK
  <2>5. InvPhases'
    BY <2>1, <2>2 DEF InvPhases
  <2>6. InvFlow'
    BY <2>1, <2>2, <2>3 DEF InvFlow, Delivering
  <2>7. InvCount'
    BY <2>1, <2>2, <2>3 DEF InvCount, Delivering
  <2>8. InOrder'
    BY <2>1, <2>2 DEF InOrder
  <2>9. InvDigest'
    BY <2>1, <2>2 DEF InvDigest
  <2>10. InvIntact'
    <3>1. image.checksum /\ changes = 0 => \A i \in 1 .. Len(image.pieces) : intact[i]
      BY <1>1, <1>3 DEF IInv, InvIntact
    <3>2. DOMAIN intact = 1 .. Len(image.pieces)
      BY ImageFacts DEF TypeOK
    <3> QED
      BY <2>1, <3>1, <3>2 DEF InvIntact
  <2> QED
    BY <2>4, <2>5, <2>6, <2>7, <2>8, <2>9, <2>10 DEF IInv
<1> QED
  BY <1>2, <1>3 DEF Verified

\* A piece is read and decoded.
LEMMA FetchPieceInv ==
  ASSUME TypeOK, IInv, FetchPiece
  PROVE  TypeOK' /\ IInv'
<1>1. phase = "read" /\ piece < Len(image.pieces)
  BY DEF FetchPiece
<1>2. CASE \E e \in RowErrors : End(e)
  BY <1>1, <1>2, FailureInv
<1>3. CASE /\ ReadPiece
           /\ pending' = [j \in 1 .. image.pieces[piece + 1] |->
                            [index |-> SamplesIn(image.pieces, piece) + j - 1,
                             good  |-> intact[piece + 1]]]
           /\ Goto("feed") /\ UNCHANGED <<row, channel, ordinal, delivered>>
  <2>1. /\ phase' = "feed" /\ piece' = piece + 1
        /\ digest' = (digest /\ intact[piece + 1])
        /\ UNCHANGED <<image, intact, changes, row, channel, ordinal,
                       delivered, stop, result>>
    BY <1>3 DEF ReadPiece, Goto, source
  <2>2. PICK size, before, sound :
          /\ size = image.pieces[piece + 1]
          /\ before = SamplesIn(image.pieces, piece)
          /\ sound = intact[piece + 1]
    OBVIOUS
  <2>3. /\ piece \in Nat /\ piece + 1 \in 1 .. Len(image.pieces)
        /\ piece \in 0 .. Len(image.pieces) /\ piece' \in 0 .. Len(image.pieces)
    <3>1. piece \in Nat /\ piece + 1 \in 1 .. Len(image.pieces)
      BY <1>1, ImageFacts DEF TypeOK
    <3> QED
      BY <2>1, <3>1
  <2>4. size \in Nat /\ before \in Nat /\ sound \in BOOLEAN
    <3>1. piece + 1 \in DOMAIN image.pieces
      BY <2>3, ImageFacts
    <3>2. size \in Nat
      <4>1. image.pieces \in Seq(Nat)
        BY ImageFacts
      <4> QED
        BY <2>2, <2>3, <4>1
    <3>3. before \in Nat
      BY <2>2, <2>3, ImageFacts, SamplesFacts
    <3>4. sound \in BOOLEAN
      BY <2>2, <3>1 DEF TypeOK
    <3> QED
      BY <3>2, <3>3, <3>4
  <2>5. pending' = [j \in 1 .. size |-> [index |-> before + j - 1, good |-> sound]]
    BY <1>3, <2>2
  <2>6. /\ pending' \in Seq(Sample) /\ Len(pending') = size /\ DOMAIN pending' = 1 .. size
        /\ \A j \in 1 .. size : pending'[j].index = before + j - 1 /\ pending'[j].good = sound
    <3>1. \A j \in 1 .. size : [index |-> before + j - 1, good |-> sound] \in Sample
      BY <2>4 DEF Sample
    <3>2. PICK new : new = pending'
      OBVIOUS
    <3>3. new = [j \in 1 .. size |-> [index |-> before + j - 1, good |-> sound]]
      BY <2>5, <3>2
    <3>4. new \in Seq(Sample) /\ Len(new) = size
      <4>1. new \in [1 .. size -> Sample]
        BY <3>1, <3>3
      <4> QED
        BY <2>4, <4>1, FunctionIsSequence
    <3>5. /\ DOMAIN new = 1 .. size
          /\ \A j \in 1 .. size : new[j].index = before + j - 1 /\ new[j].good = sound
      BY <3>3
    <3> QED
      BY <3>2, <3>4, <3>5
  <2>7. TypeOK'
    BY <2>1, <2>3, <2>4, <2>6, <2>2 DEF TypeOK
  <2>8. InvPhases'
    BY <1>1, <2>1 DEF IInv, InvPhases
  <2>9. InvFlow'
    <3>1. PICK through : through = ordinal * RowSamples(image)
      OBVIOUS
    <3>2. /\ through + Len(row) + Len(pending) = before
          /\ \A j \in DOMAIN row : row[j].index = through + j - 1
          /\ Len(row) # RowSamples(image) /\ pending = << >>
      BY <1>1, <2>2, <3>1 DEF IInv, InvFlow, Delivering
    <3>3. Len(row) \in Nat /\ through \in Nat
      <4>1. row \in Seq(Sample) /\ ordinal \in 0 .. SourceRows(image)
        BY DEF TypeOK
      <4>2. \A a, b \in Nat : a * b \in Nat
        OBVIOUS
      <4>3. ordinal \in Nat /\ RowSamples(image) \in Nat
        BY <4>1, ImageFacts
      <4> QED
        BY <3>1, <4>1, <4>2, <4>3
    <3>4. through + Len(row) = before
      BY <3>2, <3>3
    <3>5. SamplesIn(image.pieces, piece + 1) = before + size
      BY <2>2, <2>3, OnePieceMore
    <3>6. through + Len(row) + Len(pending') = SamplesIn(image.pieces, piece + 1)
      BY <2>4, <2>6, <3>3, <3>4, <3>5
    <3>7. \A j \in DOMAIN pending' : pending'[j].index = through + Len(row) + j - 1
      BY <2>6, <3>4
    <3> QED
      BY <2>1, <3>1, <3>2, <3>6, <3>7 DEF InvFlow, Delivering
  <2>10. InvCount'
    BY <1>1, <2>1 DEF IInv, InvCount, Delivering
  <2>11. InOrder'
    BY <2>1 DEF IInv, InOrder, RowAt, IndexOf
  <2>12. InvDigest'
    <3>1. digest' => digest /\ sound
      BY <2>1, <2>2
    <3>2. digest' => \A j \in DOMAIN pending' : pending'[j].good
      BY <2>6, <3>1
    <3> QED
      BY <1>1, <2>1, <3>1, <3>2 DEF IInv, InvPhases, InvDigest, Good
  <2>13. InvIntact'
    BY <1>1, <2>1 DEF IInv, InvIntact, Delivering
  <2> QED
    BY <2>7, <2>8, <2>9, <2>10, <2>11, <2>12, <2>13 DEF IInv
<1> QED
  BY <1>2, <1>3 DEF FetchPiece, Cancelled, Faulty, RowErrors

-----------------------------------------------------------------------------
(* The row is filled, and handed to the sink.                                 *)

\* The numbers of the samples on the way.
LEMMA FlowFacts ==
  ASSUME TypeOK
  PROVE  /\ row \in Seq(Sample) /\ Len(row) \in Nat /\ DOMAIN row = 1 .. Len(row)
         /\ Len(row) <= RowSamples(image)
         /\ pending \in Seq(Sample) /\ Len(pending) \in Nat
         /\ DOMAIN pending = 1 .. Len(pending)
         /\ ordinal \in Nat /\ ordinal <= SourceRows(image)
         /\ ordinal * RowSamples(image) \in Nat
<1>1. /\ row \in Seq(Sample) /\ pending \in Seq(Sample)
      /\ Len(row) <= RowSamples(image) /\ ordinal \in 0 .. SourceRows(image)
  BY DEF TypeOK
<1>2. ordinal \in Nat /\ ordinal <= SourceRows(image) /\ RowSamples(image) \in Nat
  BY <1>1, ImageFacts
<1>3. \A a, b \in Nat : a * b \in Nat
  OBVIOUS
<1> QED
  BY <1>1, <1>2, <1>3

\* What stands in one sequence behind another.
LEMMA Behind ==
  ASSUME NEW S, NEW r \in Seq(S), NEW q \in Seq(S), NEW s, s = r \o q
  PROVE  /\ s \in Seq(S) /\ Len(s) = Len(r) + Len(q)
         /\ \A j \in 1 .. Len(r) : s[j] = r[j]
         /\ \A j \in 1 .. Len(q) : s[Len(r) + j] = q[j]
OBVIOUS

\* A sequence with the beginning of another one behind it, and what is left of that.
LEMMA Filled ==
  ASSUME NEW S, NEW r \in Seq(S), NEW p \in Seq(S), NEW count \in 0 .. Len(p),
         NEW s, s = r \o SubSeq(p, 1, count)
  PROVE  /\ s \in Seq(S) /\ Len(s) = Len(r) + count
         /\ \A j \in 1 .. Len(r) : s[j] = r[j]
         /\ \A j \in Len(r) + 1 .. Len(r) + count : s[j] = p[j - Len(r)]
<1>1. PICK q : q = SubSeq(p, 1, count)
  OBVIOUS
<1>2. q \in Seq(S) /\ Len(q) = count /\ \A j \in 1 .. count : q[j] = p[j]
  BY <1>1
<1>3. s = r \o q
  BY <1>1
<1>4. /\ s \in Seq(S) /\ Len(s) = Len(r) + count
      /\ \A j \in 1 .. Len(r) : s[j] = r[j]
      /\ \A j \in 1 .. count : s[Len(r) + j] = q[j]
  <2>1. q \in Seq(S) /\ Len(q) = count
    BY <1>2
  <2>2. /\ s \in Seq(S) /\ Len(s) = Len(r) + Len(q)
        /\ \A j \in 1 .. Len(r) : s[j] = r[j]
        /\ \A j \in 1 .. Len(q) : s[Len(r) + j] = q[j]
    BY <1>3, <2>1, Behind
  <2> QED
    BY <2>1, <2>2
<1>5. ASSUME NEW j \in Len(r) + 1 .. Len(r) + count
      PROVE  s[j] = p[j - Len(r)]
  <2>1. /\ j - Len(r) \in 1 .. count /\ Len(r) \in Nat
        /\ Len(r) + (j - Len(r)) = j
    OBVIOUS
  <2>2. s[j] = q[j - Len(r)]
    BY <1>4, <2>1
  <2> QED
    BY <1>2, <2>1, <2>2
<1> QED
  BY <1>4, <1>5

LEMMA Left ==
  ASSUME NEW S, NEW p \in Seq(S), NEW count \in 0 .. Len(p),
         NEW t, t = SubSeq(p, count + 1, Len(p))
  PROVE  /\ t \in Seq(S) /\ Len(t) = Len(p) - count
         /\ \A j \in 1 .. Len(p) - count : t[j] = p[count + j]
OBVIOUS

\* The row takes as much as it still can.
LEMMA FeedInv ==
  ASSUME TypeOK, IInv, Feed
  PROVE  TypeOK' /\ IInv'
<1>1. PICK count :
        /\ count = IF RowSamples(image) - Len(row) < Len(pending)
                   THEN RowSamples(image) - Len(row) ELSE Len(pending)
  OBVIOUS
<1>2. /\ phase = "feed"
      /\ row' = row \o SubSeq(pending, 1, count)
      /\ pending' = SubSeq(pending, count + 1, Len(pending))
      /\ phase' = IF Len(row') = RowSamples(image) THEN "emit" ELSE "feed"
      /\ UNCHANGED <<image, intact, changes, piece, digest, channel, ordinal,
                     delivered, stop, result>>
  BY <1>1 DEF Feed, CarryOver, Goto, source, pass
<1>3. PICK size, filled, left :
        size = RowSamples(image) /\ filled = Len(row) /\ left = Len(pending)
  OBVIOUS
<1>4. /\ size \in Nat /\ filled \in Nat /\ left \in Nat /\ filled <= size
      /\ row \in Seq(Sample) /\ pending \in Seq(Sample)
      /\ DOMAIN row = 1 .. filled /\ DOMAIN pending = 1 .. left
  BY <1>3, ImageFacts, FlowFacts
<1>5. count \in 0 .. left /\ filled + count <= size
  <2>1. count = IF size - filled < left THEN size - filled ELSE left
    BY <1>1, <1>3
  <2>2. size \in Nat /\ filled \in Nat /\ left \in Nat /\ filled <= size
    BY <1>4
  <2> QED
    BY <2>1, <2>2
<1>6. /\ row' \in Seq(Sample) /\ Len(row') = filled + count
      /\ \A j \in 1 .. filled : row'[j] = row[j]
      /\ \A j \in filled + 1 .. filled + count : row'[j] = pending[j - filled]
      /\ pending' \in Seq(Sample) /\ Len(pending') = left - count
      /\ \A j \in 1 .. left - count : pending'[j] = pending[count + j]
  <2>1. count \in 0 .. Len(pending) /\ row \in Seq(Sample) /\ pending \in Seq(Sample)
    BY <1>3, <1>4, <1>5
  <2>2. PICK r, p : r = row \o SubSeq(pending, 1, count)
                    /\ p = SubSeq(pending, count + 1, Len(pending))
    OBVIOUS
  <2>3. /\ r \in Seq(Sample) /\ Len(r) = Len(row) + count
        /\ \A j \in 1 .. Len(row) : r[j] = row[j]
        /\ \A j \in Len(row) + 1 .. Len(row) + count : r[j] = pending[j - Len(row)]
    <3>1. r = row \o SubSeq(pending, 1, count)
      BY <2>2
    <3> QED
      BY <2>1, <3>1, Filled
  <2>4. /\ p \in Seq(Sample) /\ Len(p) = Len(pending) - count
        /\ \A j \in 1 .. Len(pending) - count : p[j] = pending[count + j]
    <3>1. p = SubSeq(pending, count + 1, Len(pending))
      BY <2>2
    <3> QED
      BY <2>1, <3>1, Left
  <2>5. row' = r /\ pending' = p
    BY <1>2, <2>2, Zenon
  <2> QED
    BY <1>3, <2>3, <2>4, <2>5, Zenon
<1>7. DOMAIN row' = 1 .. filled + count /\ DOMAIN pending' = 1 .. left - count
  <2>1. \A s \in Seq(Sample) : DOMAIN s = 1 .. Len(s)
    OBVIOUS
  <2> QED
    BY <1>6, <2>1
<1>8. TypeOK'
  <2>1. Len(row') <= RowSamples(image)
    BY <1>3, <1>5, <1>6
  <2>2. phase' \in {"emit", "feed"}
    BY <1>2
  <2> QED
    BY <1>2, <1>6, <2>1, <2>2 DEF TypeOK
<1>9. InvPhases'
  BY <1>2 DEF IInv, InvPhases
<1>10. InvFlow'
  <2>1. PICK through : through = ordinal * RowSamples(image)
    OBVIOUS
  <2>2. /\ through + filled + left = SamplesIn(image.pieces, piece)
        /\ \A j \in 1 .. filled : row[j].index = through + j - 1
        /\ \A j \in 1 .. left : pending[j].index = through + filled + j - 1
        /\ through \in Nat
    BY <1>2, <1>3, <1>4, <2>1, FlowFacts DEF IInv, InvFlow, Delivering
  <2>3. through + Len(row') + Len(pending') = SamplesIn(image.pieces, piece)
    BY <1>4, <1>5, <1>6, <2>2
  <2>4. ASSUME NEW j \in DOMAIN row'
        PROVE  row'[j].index = through + j - 1
    <3>1. CASE j \in 1 .. filled
      BY <1>6, <2>2, <3>1
    <3>2. CASE j \in filled + 1 .. filled + count
      <4>1. j - filled \in 1 .. left /\ row'[j] = pending[j - filled]
        BY <1>4, <1>5, <1>6, <3>2
      <4>2. row'[j].index = through + filled + (j - filled) - 1
        BY <2>2, <4>1
      <4> QED
        BY <1>4, <2>2, <3>2, <4>2
    <3> QED
      BY <1>4, <1>5, <1>7, <3>1, <3>2
  <2>5. ASSUME NEW j \in DOMAIN pending'
        PROVE  pending'[j].index = through + Len(row') + j - 1
    <3>1. j \in 1 .. left - count /\ count + j \in 1 .. left
      BY <1>4, <1>5, <1>7
    <3>2. pending'[j].index = through + filled + (count + j) - 1
      BY <1>6, <2>2, <3>1
    <3> QED
      BY <1>4, <1>5, <1>6, <2>2, <3>1, <3>2
  <2> QED
    BY <1>2, <2>1, <2>3, <2>4, <2>5 DEF InvFlow, Delivering
<1>11. InvCount'
  BY <1>2 DEF IInv, InvCount, Delivering
<1>12. InOrder'
  BY <1>2 DEF IInv, InOrder, RowAt, IndexOf
<1>13. InvDigest'
  <2> SUFFICES ASSUME digest
               PROVE  /\ \A j \in DOMAIN pending' : pending'[j].good
                      /\ \A j \in DOMAIN row' : row'[j].good
    BY <1>2 DEF IInv, InvDigest, Good, StillIntact
  <2>1. /\ \A j \in 1 .. left : pending[j].good
        /\ \A j \in 1 .. filled : row[j].good
    BY <1>4 DEF IInv, InvDigest
  <2>2. ASSUME NEW j \in DOMAIN pending'
        PROVE  pending'[j].good
    <3>1. j \in 1 .. left - count /\ count + j \in 1 .. left
      BY <1>4, <1>5, <1>7
    <3> QED
      BY <1>6, <2>1, <3>1
  <2>3. ASSUME NEW j \in DOMAIN row'
        PROVE  row'[j].good
    <3>1. CASE j \in 1 .. filled
      BY <1>6, <2>1, <3>1
    <3>2. CASE j \in filled + 1 .. filled + count
      <4>1. j - filled \in 1 .. left /\ row'[j] = pending[j - filled]
        BY <1>4, <1>5, <1>6, <3>2
      <4> QED
        BY <2>1, <4>1
    <3> QED
      BY <1>4, <1>5, <1>7, <3>1, <3>2
  <2> QED
    BY <2>2, <2>3
<1>14. InvIntact'
  BY <1>2 DEF IInv, InvIntact, Delivering
<1> QED
  BY <1>8, <1>9, <1>10, <1>11, <1>12, <1>13, <1>14 DEF IInv

\* What the sink gets is the row whose turn it is, with its own samples.
LEMMA ViewFacts ==
  ASSUME TypeOK, IInv, phase = "consume"
  PROVE  /\ PlaneView \in [channel : Nat, row : Nat, samples : Seq(Sample)]
         /\ <<PlaneView.channel, PlaneView.row>> = RowAt(Len(delivered) + 1)
         /\ Len(PlaneView.samples) = image.width
         /\ \A p \in 1 .. image.width :
              PlaneView.samples[p].index = IndexOf(PlaneView.channel, PlaneView.row, p - 1)
         /\ digest => Good(PlaneView)
<1>1. PICK size, through, w, h, c, k, o, d :
        /\ size = RowSamples(image) /\ through = ordinal * size
        /\ w = image.width /\ h = image.height /\ c = image.channels
        /\ k = channel /\ o = ordinal /\ d = Len(delivered)
  OBVIOUS
<1>2. /\ w \in Nat \ {0} /\ h \in Nat \ {0} /\ c \in Nat \ {0}
      /\ size = (IF image.normal THEN w * c ELSE w)
      /\ k \in 0 .. c - 1 /\ k \in Nat /\ o \in Nat /\ through \in Nat
      /\ row \in Seq(Sample)
  <2>1. channel \in 0 .. image.channels - 1
    BY DEF TypeOK
  <2>2. RowSamples(image) = IF image.normal THEN image.width * image.channels ELSE image.width
    BY DEF RowSamples
  <2> QED
    BY <1>1, <2>1, <2>2, ImageFacts, FlowFacts
<1>3. /\ Len(row) = size /\ DOMAIN row = 1 .. size
      /\ \A j \in 1 .. size : row[j].index = through + j - 1 /\ row[j] \in Sample
      /\ digest => \A j \in 1 .. size : row[j].good
  <2>1. Len(row) = size
    BY <1>1 DEF IInv, InvFlow, Delivering
  <2>2. DOMAIN row = 1 .. size
    BY <2>1, FlowFacts
  <2>3. \A j \in 1 .. size : row[j] \in Sample
    BY <1>2, <2>1
  <2>4. \A j \in 1 .. size : row[j].index = through + j - 1
    BY <1>1, <2>2 DEF IInv, InvFlow, Delivering
  <2>5. digest => \A j \in 1 .. size : row[j].good
    BY <2>2 DEF IInv, InvDigest
  <2> QED
    BY <2>1, <2>2, <2>3, <2>4, <2>5
<1>4. d = IF image.normal THEN o * c + k ELSE o
  BY <1>1 DEF IInv, InvCount, Delivering
<1>5. CASE image.normal
  <2>1. PICK view, samples :
          /\ samples = [p \in 1 .. w |-> row[(p - 1) * c + k + 1]]
          /\ view = [channel |-> k, row |-> o, samples |-> samples]
    OBVIOUS
  <2>2. PlaneView = view
    BY <1>1, <1>5, <2>1 DEF PlaneView, Plane
  <2>3. ASSUME NEW p \in 1 .. w
        PROVE  /\ samples[p] \in Sample
               /\ samples[p].index = (o * w + (p - 1)) * c + k
               /\ digest => samples[p].good
    <3>1. PICK x : x = p - 1
      OBVIOUS
    <3>2. x \in 0 .. w - 1 /\ x \in Nat
      BY <1>2, <3>1
    <3>3. PICK j : j = x * c + k
      OBVIOUS
    <3>4. j \in 0 .. w * c - 1
      BY <1>2, <3>2, <3>3, InWhole
    <3>5. size = w * c /\ size \in Nat
      BY <1>2, <1>5
    <3>6. j + 1 \in 1 .. size /\ j \in Nat
      BY <3>4, <3>5
    <3>7. samples[p] = row[j + 1]
      BY <2>1, <3>1, <3>3
    <3>8. row[j + 1].index = through + j
      BY <1>2, <1>3, <3>6
    <3>9. through = (o * w) * c
      BY <1>1, <1>2, <3>5
    <3>10. (o * w) * c + (x * c + k) = (o * w + x) * c + k
      <4>1. PICK y : y = o * w
        OBVIOUS
      <4>2. y \in Nat
        BY <1>2, <4>1
      <4>3. y * c + (x * c + k) = (y + x) * c + k
        BY <1>2, <3>2, <4>2
      <4> QED
        BY <4>1, <4>3
    <3> QED
      BY <1>3, <3>1, <3>3, <3>6, <3>7, <3>8, <3>9, <3>10
  <2>4. samples \in Seq(Sample) /\ Len(samples) = w /\ DOMAIN samples = 1 .. w
    <3>1. samples \in [1 .. w -> Sample]
      BY <2>1, <2>3
    <3>2. DOMAIN samples = 1 .. w
      BY <2>1
    <3> QED
      BY <1>2, <3>1, <3>2, FunctionIsSequence
  <2>5. view \in [channel : Nat, row : Nat, samples : Seq(Sample)]
    BY <1>2, <2>1, <2>4
  <2>6. <<view.channel, view.row>> = RowAt(d + 1)
    <3>1. d = o * c + k /\ d \in Nat /\ d \div c = o /\ d % c = k
      BY <1>2, <1>4, <1>5, DivModOf
    <3>2. (d + 1) - 1 = d
      BY <3>1
    <3>3. RowAt(d + 1) = <<d % c, d \div c>>
      BY <1>1, <1>5, <3>2 DEF RowAt
    <3> QED
      BY <2>1, <3>1, <3>3
  <2>7. \A p \in 1 .. w : view.samples[p].index = IndexOf(view.channel, view.row, p - 1)
    BY <1>1, <1>5, <2>1, <2>3 DEF IndexOf
  <2>8. digest => Good(view)
    BY <2>1, <2>3, <2>4 DEF Good
  <2>9. view.samples = samples
    BY <2>1
  <2> QED
    BY <1>1, <2>2, <2>4, <2>5, <2>6, <2>7, <2>8, <2>9
<1>6. CASE ~image.normal
  <2>1. PICK view : view = [channel |-> o \div h, row |-> o % h, samples |-> row]
    OBVIOUS
  <2>2. PlaneView = view
    BY <1>1, <1>6, <2>1 DEF PlaneView, Plane
  <2>3. size = w /\ d = o
    BY <1>2, <1>4, <1>6
  <2>4. o \div h \in Nat /\ o % h \in Nat /\ o = (o \div h) * h + (o % h)
    BY <1>2, DivMod
  <2>5. view \in [channel : Nat, row : Nat, samples : Seq(Sample)]
    BY <1>2, <2>1, <2>4
  <2>6. <<view.channel, view.row>> = RowAt(d + 1)
    <3>1. (d + 1) - 1 = d
      BY <1>2, <2>3
    <3> QED
      BY <1>1, <1>6, <2>1, <2>3, <3>1 DEF RowAt
  <2>7. ASSUME NEW p \in 1 .. w
        PROVE  view.samples[p].index = IndexOf(view.channel, view.row, p - 1)
    <3>1. view.samples[p].index = through + p - 1
      BY <1>3, <2>1, <2>3
    <3>2. IndexOf(view.channel, view.row, p - 1)
            = ((o \div h) * h + (o % h)) * w + (p - 1)
      BY <1>1, <1>6, <2>1 DEF IndexOf
    <3>3. ((o \div h) * h + (o % h)) * w = through
      BY <1>1, <2>3, <2>4
    <3>4. through + p - 1 = through + (p - 1)
      BY <1>2
    <3> QED
      BY <3>1, <3>2, <3>3, <3>4
  <2>8. digest => Good(view)
    BY <1>3, <2>1 DEF Good
  <2>9. view.samples = row
    BY <2>1
  <2> QED
    BY <1>1, <1>3, <2>2, <2>3, <2>5, <2>6, <2>7, <2>8, <2>9
<1> QED
  BY <1>5, <1>6

\* A full row is one the image has.
LEMMA RowFacts ==
  ASSUME TypeOK, IInv, phase = "consume"
  PROVE  ordinal + 1 \in 0 .. SourceRows(image)
<1>1. PICK size, rows, o, rest :
        /\ size = RowSamples(image) /\ rows = SourceRows(image) /\ o = ordinal
        /\ rest = Len(pending)
  OBVIOUS
<1>2. size \in Nat \ {0} /\ rows \in Nat /\ o \in Nat /\ rest \in Nat
  BY <1>1, ImageFacts, FlowFacts
<1>3. Len(row) = size /\ o * size + Len(row) + rest = SamplesIn(image.pieces, piece)
  BY <1>1 DEF IInv, InvFlow, Delivering
<1>4. SamplesIn(image.pieces, piece) \in Nat /\ SamplesIn(image.pieces, piece) <= rows * size
  <2>1. piece \in 0 .. Len(image.pieces)
    BY DEF TypeOK
  <2>2. /\ image.pieces \in Seq(Nat)
        /\ SamplesIn(image.pieces, Len(image.pieces)) = rows * size
    BY <1>1, ImageFacts
  <2>3. /\ SamplesIn(image.pieces, piece) \in Nat
        /\ SamplesIn(image.pieces, piece) <= SamplesIn(image.pieces, Len(image.pieces))
    BY <2>1, <2>2, SamplesFacts
  <2> QED
    BY <2>2, <2>3
<1>5. o * size + size <= rows * size
  <2>1. o * size \in Nat
    BY <1>2
  <2> QED
    BY <1>2, <1>3, <1>4, <2>1
<1>6. ASSUME rows <= o
      PROVE  FALSE
  <2>1. rows * size <= o * size
    BY <1>2, <1>6
  <2>2. rows * size \in Nat /\ o * size \in Nat
    BY <1>2
  <2> QED
    BY <1>2, <1>5, <2>1, <2>2
<1> QED
  BY <1>1, <1>2, <1>6

\* A plane row goes out; behind the last one the next source row begins.
LEMMA ConsumeInv ==
  ASSUME TypeOK, IInv, Consume
  PROVE  TypeOK' /\ IInv'
<1>1. phase = "consume"
  BY DEF Consume
<1>2. CASE End("sink")
  BY <1>1, <1>2, FailureInv DEF RowErrors
<1>3. CASE /\ delivered' = Append(delivered, PlaneView)
           /\ IF LastPlane
              THEN /\ ordinal' = ordinal + 1 /\ row' = << >> /\ channel' = 0
                   /\ Goto("feed")
              ELSE channel' = channel + 1 /\ UNCHANGED <<ordinal, row>> /\ Goto("emit")
           /\ UNCHANGED <<pass, pending>>
  <2>1. /\ UNCHANGED <<image, intact, changes, piece, digest, pending, stop, result>>
        /\ LastPlane => /\ ordinal' = ordinal + 1 /\ row' = << >> /\ channel' = 0
                        /\ phase' = "feed"
        /\ ~LastPlane => /\ channel' = channel + 1 /\ ordinal' = ordinal /\ row' = row
                         /\ phase' = "emit"
    BY <1>3 DEF Goto, source, pass
  <2>2. PICK view, d : view = PlaneView /\ d = Len(delivered)
    OBVIOUS
  <2>3. /\ view \in [channel : Nat, row : Nat, samples : Seq(Sample)]
        /\ <<view.channel, view.row>> = RowAt(d + 1)
        /\ Len(view.samples) = image.width
        /\ \A p \in 1 .. image.width :
             view.samples[p].index = IndexOf(view.channel, view.row, p - 1)
        /\ digest => Good(view)
    BY <1>1, <2>2, ViewFacts
  <2>4. /\ delivered \in Seq([channel : Nat, row : Nat, samples : Seq(Sample)])
        /\ d \in Nat /\ DOMAIN delivered = 1 .. d
    BY <2>2 DEF TypeOK
  <2>5. delivered' = Append(delivered, view)
    BY <1>3, <2>2
  <2>6. /\ delivered' \in Seq([channel : Nat, row : Nat, samples : Seq(Sample)])
        /\ Len(delivered') = d + 1 /\ DOMAIN delivered' = 1 .. d + 1
        /\ delivered'[d + 1] = view /\ \A k \in 1 .. d : delivered'[k] = delivered[k]
    <3>1. /\ delivered' \in Seq([channel : Nat, row : Nat, samples : Seq(Sample)])
          /\ Len(delivered') = d + 1
      BY <2>2, <2>3, <2>4, <2>5
    <3>2. DOMAIN delivered' = 1 .. d + 1
      BY <2>4, <3>1
    <3>3. delivered'[d + 1] = view
      BY <2>2, <2>4, <2>5
    <3>4. \A k \in 1 .. d : delivered'[k] = delivered[k]
      BY <2>2, <2>4, <2>5
    <3> QED
      BY <3>1, <3>2, <3>3, <3>4
  <2>7. /\ Len(row) = RowSamples(image) /\ RowSamples(image) \in Nat \ {0}
        /\ row \in Seq(Sample)
    BY <1>1, ImageFacts, FlowFacts DEF IInv, InvFlow, Delivering
  <2>8. /\ channel \in 0 .. image.channels - 1 /\ image.channels \in Nat \ {0}
        /\ ordinal \in Nat
    BY ImageFacts, FlowFacts DEF TypeOK
  <2>9. TypeOK'
    <3>1. channel' \in 0 .. image.channels - 1
      BY <2>1, <2>8 DEF LastPlane
    <3>2. ordinal' \in 0 .. SourceRows(image)
      BY <1>1, <2>1, RowFacts DEF TypeOK
    <3>3. row' \in Seq(Sample) /\ Len(row') <= RowSamples(image)
      <4>1. CASE LastPlane
        <5>1. row' = << >> /\ RowSamples(image) \in Nat
          BY <2>1, <2>7, <4>1
        <5> QED
          BY <5>1
      <4>2. CASE ~LastPlane
        <5>1. row' = row /\ row \in Seq(Sample) /\ Len(row) <= RowSamples(image)
          BY <2>1, <4>2, FlowFacts
        <5> QED
          BY <5>1
      <4> QED
        BY <4>1, <4>2
    <3>4. phase' \in {"feed", "emit"}
      BY <2>1
    <3> QED
      BY <2>1, <2>6, <3>1, <3>2, <3>3, <3>4 DEF TypeOK
  <2>10. InvPhases'
    BY <1>1, <2>1 DEF IInv, InvPhases
  <2>11. InvFlow'
    <3>1. CASE LastPlane
      <4>1. PICK size, through, rest :
              size = RowSamples(image) /\ through = ordinal * size /\ rest = Len(pending)
        OBVIOUS
      <4>2. /\ size \in Nat \ {0} /\ through \in Nat /\ rest \in Nat
            /\ DOMAIN pending = 1 .. rest
        BY <4>1, ImageFacts, FlowFacts
      <4>3. /\ through + size + rest = SamplesIn(image.pieces, piece)
            /\ \A j \in 1 .. rest : pending[j].index = through + size + j - 1
        BY <1>1, <2>7, <4>1, <4>2 DEF IInv, InvFlow, Delivering
      <4>4. (ordinal + 1) * size = through + size
        BY <2>8, <4>1, <4>2
      <4>5. PICK begin : begin = (ordinal + 1) * size
        OBVIOUS
      <4>6. /\ begin + 0 + rest = SamplesIn(image.pieces, piece)
            /\ \A j \in 1 .. rest : pending[j].index = begin + 0 + j - 1
        BY <4>2, <4>3, <4>4, <4>5
      <4>7. row' = << >> /\ Len(<< >>) = 0 /\ DOMAIN << >> = {} /\ size # 0
        BY <2>1, <3>1, <4>2
      <4>8. ordinal' * RowSamples(image') = begin /\ phase' = "feed"
        BY <2>1, <3>1, <4>1, <4>5
      <4> QED
        BY <2>1, <4>1, <4>2, <4>6, <4>7, <4>8 DEF InvFlow, Delivering
    <3>2. CASE ~LastPlane
      BY <1>1, <2>1, <3>2 DEF IInv, InvFlow, Delivering
    <3> QED
      BY <3>1, <3>2
  <2>12. InvCount'
    <3>1. /\ d = IF image.normal THEN ordinal * image.channels + channel ELSE ordinal
          /\ ~image.normal => channel = 0
          /\ result = "none"
      BY <1>1, <2>2 DEF IInv, InvCount, InvPhases, Delivering
    <3>2. CASE LastPlane
      <4>1. CASE image.normal
        <5>1. channel = image.channels - 1
          BY <3>2, <4>1 DEF LastPlane
        <5>2. ordinal * image.channels + channel + 1 = (ordinal + 1) * image.channels + 0
          BY <2>8, <5>1
        <5> QED
          BY <2>1, <2>6, <3>1, <3>2, <4>1, <5>2 DEF InvCount
      <4>2. CASE ~image.normal
        BY <2>1, <2>6, <3>1, <3>2, <4>2 DEF InvCount
      <4> QED
        BY <4>1, <4>2
    <3>3. CASE ~LastPlane
      <4>1. image.normal
        BY <3>3 DEF LastPlane
      <4>2. ordinal * image.channels + channel + 1 = ordinal * image.channels + (channel + 1)
        BY <2>8
      <4> QED
        BY <2>1, <2>6, <3>1, <3>3, <4>1, <4>2 DEF InvCount
    <3> QED
      BY <3>2, <3>3
  <2>13. InOrder'
    <3> SUFFICES ASSUME NEW k \in 1 .. d + 1
                 PROVE  /\ <<delivered'[k].channel, delivered'[k].row>> = RowAt(k)
                        /\ Len(delivered'[k].samples) = image.width
                        /\ \A p \in 1 .. image.width :
                             delivered'[k].samples[p].index
                               = IndexOf(delivered'[k].channel, delivered'[k].row, p - 1)
      BY <2>1, <2>6 DEF InOrder, RowAt, IndexOf
    <3>1. CASE k = d + 1
      BY <2>3, <2>6, <3>1
    <3>2. CASE k \in 1 .. d
      <4>1. delivered'[k] = delivered[k] /\ k \in DOMAIN delivered
        BY <2>4, <2>6, <3>2
      <4> QED
        BY <4>1 DEF IInv, InOrder
    <3> QED
      BY <2>4, <3>1, <3>2
  <2>14. InvDigest'
    <3>1. result = "none"
      BY <1>1 DEF IInv, InvPhases
    <3>2. digest => \A k \in DOMAIN delivered' : Good(delivered'[k])
      <4> SUFFICES ASSUME digest, NEW k \in DOMAIN delivered'
                   PROVE  Good(delivered'[k])
        OBVIOUS
      <4>1. CASE k = d + 1
        BY <2>3, <2>6, <4>1
      <4>2. CASE k \in 1 .. d
        BY <2>4, <2>6, <4>2 DEF IInv, InvDigest
      <4> QED
        BY <2>4, <2>6, <4>1, <4>2
    <3>3. digest => \A j \in DOMAIN row' : row'[j].good
      BY <2>1 DEF IInv, InvDigest
    <3> QED
      BY <2>1, <3>1, <3>2, <3>3 DEF IInv, InvDigest, Good
  <2>15. InvIntact'
    BY <1>1, <2>1 DEF IInv, InvIntact, Delivering
  <2> QED
    BY <2>9, <2>10, <2>11, <2>12, <2>13, <2>14, <2>15 DEF IInv
<1> QED
  BY <1>2, <1>3 DEF Consume, Faulty

-----------------------------------------------------------------------------
(* The end, and the world outside.                                            *)

\* When every piece has been read, no row is left unfinished and none is out.
LEMMA ExtentFacts ==
  ASSUME TypeOK, IInv, AllRead
  PROVE  ExtentMatches
<1>1. phase = "read" /\ piece = Len(image.pieces)
  BY DEF AllRead
<1>2. PICK size, rows, o, r :
        /\ size = RowSamples(image) /\ rows = SourceRows(image) /\ o = ordinal
        /\ r = Len(row)
  OBVIOUS
<1>3. size \in Nat \ {0} /\ rows \in Nat /\ o \in Nat /\ r \in Nat /\ r <= size
  BY <1>2, ImageFacts, FlowFacts
<1>4. o * size + r + Len(pending) = SamplesIn(image.pieces, piece) /\ r # size
      /\ pending = << >>
  BY <1>1, <1>2 DEF IInv, InvFlow, Delivering
<1>5. SamplesIn(image.pieces, piece) = rows * size
  BY <1>1, <1>2, ImageFacts
<1>6. o * size + r = rows * size + 0
  <2>1. o * size \in Nat /\ rows * size \in Nat /\ Len(<< >>) = 0
    BY <1>3
  <2> QED
    BY <1>3, <1>4, <1>5, <2>1
<1>7. r \in 0 .. size - 1 /\ 0 \in 0 .. size - 1
  BY <1>3, <1>4
<1>8. (o * size + r) \div size = o /\ (o * size + r) % size = r
  BY <1>3, <1>7, DivModOf
<1>9. (rows * size + 0) \div size = rows /\ (rows * size + 0) % size = 0
  BY <1>3, <1>7, DivModOf
<1>10. o = rows /\ r = 0
  BY <1>6, <1>8, <1>9
<1>11. row = << >> /\ ordinal = SourceRows(image)
  BY <1>2, <1>10, FlowFacts
<1>12. Len(delivered) = PlaneRows(image)
  <2>1. /\ channel = 0
        /\ Len(delivered) = IF image.normal THEN ordinal * image.channels + channel
                            ELSE ordinal
    BY <1>1 DEF IInv, InvCount, Delivering
  <2>2. /\ PlaneRows(image) = IF image.normal THEN SourceRows(image) * image.channels
                              ELSE SourceRows(image)
        /\ SourceRows(image) \in Nat /\ image.channels \in Nat
    BY ImageFacts
  <2>3. \A a, b \in Nat : a * b + 0 = a * b
    OBVIOUS
  <2> QED
    BY <1>11, <2>1, <2>2, <2>3
<1> QED
  BY <1>11, <1>12 DEF ExtentMatches

\* The loop is over.
LEMMA FinishInv ==
  ASSUME TypeOK, IInv, Finish
  PROVE  TypeOK' /\ IInv'
<1>1. AllRead /\ phase # "ended" /\ ExtentMatches
  BY ExtentFacts DEF Finish, AllRead
<1>2. CASE \E e \in RowErrors : End(e)
  BY <1>1, <1>2, FailureInv
<1>3. CASE StillIntact /\ End("ok")
  BY <1>1, <1>3, EndInv DEF ExtentMatches
<1> QED
  BY <1>2, <1>3 DEF Finish, Cancelled, RowErrors

\* The source changes under the reader.
LEMMA ChangeSourceInv ==
  ASSUME TypeOK, IInv, NEW i \in DOMAIN image.pieces, ChangeSource(i)
  PROVE  TypeOK' /\ IInv'
<1>1. /\ changes < MaxChanges /\ changes' = changes + 1
      /\ intact' = [intact EXCEPT ![i] = ~@]
      /\ UNCHANGED <<image, phase, piece, digest, pending, row, channel, ordinal,
                     delivered, stop, result>>
  BY DEF ChangeSource, pass, staging
<1>2. changes \in Nat /\ changes' \in 0 .. MaxChanges /\ changes' # 0
  BY <1>1, RowAssumption DEF TypeOK, RowAssumption
<1>3. intact' \in [DOMAIN image.pieces -> BOOLEAN]
  BY <1>1 DEF TypeOK
<1>4. TypeOK'
  BY <1>1, <1>2, <1>3 DEF TypeOK
<1>5. InvPhases' /\ InvFlow' /\ InvCount'
  BY <1>1 DEF IInv, InvPhases, InvFlow, InvCount, Delivering
<1>6. InOrder'
  BY <1>1 DEF IInv, InOrder, RowAt, IndexOf
<1>7. InvDigest'
  BY <1>1 DEF IInv, InvDigest, Good, StillIntact
<1>8. InvIntact'
  BY <1>2 DEF InvIntact
<1> QED
  BY <1>4, <1>5, <1>6, <1>7, <1>8 DEF IInv

\* Whatever leaves the read alone, but perhaps asks it to stop.
LEMMA OutsideInv ==
  ASSUME TypeOK, IInv, stop' \in BOOLEAN,
         UNCHANGED <<image, phase, source, pass, staging, delivered, result>>
  PROVE  TypeOK' /\ IInv'
<1>1. UNCHANGED <<image, phase, intact, changes, piece, digest, pending, row, channel,
                  ordinal, delivered, result>>
  BY DEF source, pass, staging
<1>2. TypeOK'
  BY <1>1 DEF TypeOK
<1>3. InvPhases' /\ InvFlow' /\ InvCount'
  BY <1>1 DEF IInv, InvPhases, InvFlow, InvCount, Delivering
<1>4. InOrder'
  BY <1>1 DEF IInv, InOrder, RowAt, IndexOf
<1>5. InvDigest'
  BY <1>1 DEF IInv, InvDigest, Good, StillIntact
<1>6. InvIntact'
  BY <1>1 DEF IInv, InvIntact, Delivering
<1> QED
  BY <1>2, <1>3, <1>4, <1>5, <1>6 DEF IInv

-----------------------------------------------------------------------------
(* The theorems.                                                              *)

\* Nothing has been read.
LEMMA InitInv == Init => TypeOK /\ IInv
<1> SUFFICES ASSUME Init PROVE TypeOK /\ IInv
  OBVIOUS
<1>1. /\ image \in Images /\ phase = "begin" /\ changes = 0 /\ piece = 0 /\ digest = TRUE
      /\ intact \in [DOMAIN image.pieces -> BOOLEAN]
      /\ pending = << >> /\ row = << >> /\ channel = 0 /\ ordinal = 0
      /\ delivered = << >> /\ stop = FALSE /\ result = "none"
  BY DEF Init
<1>2. image \in Image /\ MaxChanges \in Nat
  BY <1>1, RowAssumption DEF RowAssumption
<1>3. image.pieces \in Seq(Nat \ {0}) /\ image.channels \in Nat \ {0}
  BY <1>2 DEF Image
<1>4. RowSamples(image) \in Nat /\ SourceRows(image) \in Nat
  <2>1. image.width \in Nat /\ image.height \in Nat /\ image.channels \in Nat
    BY <1>2 DEF Image
  <2>2. \A a, b \in Nat : a * b \in Nat
    OBVIOUS
  <2> QED
    BY <2>1, <2>2 DEF RowSamples, SourceRows, PlaneRows
<1>5. TypeOK
  <2>1. /\ 0 \in 0 .. MaxChanges /\ 0 \in 0 .. Len(image.pieces)
        /\ 0 \in 0 .. image.channels - 1 /\ 0 \in 0 .. SourceRows(image)
    BY <1>2, <1>3, <1>4
  <2>2. << >> \in Seq(Sample) /\ Len(<< >>) <= RowSamples(image)
        /\ << >> \in Seq([channel : Nat, row : Nat, samples : Seq(Sample)])
    BY <1>4
  <2> QED
    BY <1>1, <2>1, <2>2 DEF TypeOK
<1>6. IInv
  BY <1>1 DEF IInv, InvPhases, InvFlow, InvCount, InOrder, InvDigest, InvIntact, Delivering
<1> QED
  BY <1>5, <1>6

\* Every step keeps the invariant.
LEMMA NextInv == TypeOK /\ IInv /\ [Next]_vars => TypeOK' /\ IInv'
<1> SUFFICES ASSUME TypeOK, IInv, [Next]_vars PROVE TypeOK' /\ IInv'
  OBVIOUS
<1>1. CASE FedPiece
  BY <1>1, MoveInv DEF FedPiece
<1>2. CASE CheckStop
  <2>1. CASE End("cancelled")
    BY <1>2, <2>1, FailureInv DEF CheckStop, RowErrors
  <2>2. CASE Goto("consume") /\ UNCHANGED <<pass, staging, delivered>>
    BY <1>2, <2>2, MoveInv DEF CheckStop
  <2> QED
    BY <1>2, <2>1, <2>2 DEF CheckStop, Cancelled
<1>3. CASE RequestStop
  <2>1. stop' \in BOOLEAN
    BY <1>3 DEF RequestStop
  <2> QED
    BY <1>3, <2>1, OutsideInv DEF RequestStop
<1>4. CASE UNCHANGED vars
  <2>1. stop' \in BOOLEAN
    BY <1>4 DEF vars, TypeOK
  <2> QED
    BY <1>4, <2>1, OutsideInv DEF vars
<1>5. CASE \E i \in DOMAIN image.pieces : ChangeSource(i)
  BY <1>5, ChangeSourceInv
<1> QED
  BY <1>1, <1>2, <1>3, <1>4, <1>5, BeginInv, VerifyPieceInv, VerifiedInv, FetchPieceInv,
     FeedInv, ConsumeInv, FinishInv DEF Next

\* In every state of the delivery the samples read are, in order, the rows that
\* are through, the row and what is pending; a sound digest vouches for all of
\* them.
THEOREM RowInvariant == Spec => [](TypeOK /\ IInv)
BY InitInv, NextInv, PTL DEF Spec

\* The buffers and counters stay within the image.
THEOREM RowTypeCorrect == Spec => []TypeOK
BY RowInvariant, PTL

\* With a checksum, success means that every delivered row was made of the
\* declared bytes (the second digest in read_image_rows).
THEOREM SuccessVouchesForRows == Spec => []SuccessIsVerified
<1>1. TypeOK /\ IInv => SuccessIsVerified
  BY DEF SuccessIsVerified, IInv, InvDigest, StillIntact
<1> QED
  BY <1>1, RowInvariant, PTL

\* Damage from before the call reaches no sink (verify_image_checksum_streaming
\* before the first callback).
THEOREM DamageReachesNoSink == Spec => []DamageFoundFirst
<1>1. TypeOK /\ IInv => DamageFoundFirst
  BY DEF DamageFoundFirst, IInv, InvPhases, InvIntact, TypeOK, Delivering
<1> QED
  BY <1>1, RowInvariant, PTL

\* Rows arrive in order, each with its own samples, and a success is complete;
\* the extent checks that end read_image_rows never fail.
THEOREM RowsArriveInOrder == Spec => []RowsInOrder
<1>1. TypeOK /\ IInv => RowsInOrder
  BY ExtentFacts DEF RowsInOrder, IInv, InvCount
<1> QED
  BY <1>1, RowInvariant, PTL

\* What a stop leaves possible stays all that is possible.
LEMMA StopStays ==
  ASSUME NEW n \in Nat
  PROVE  TypeOK /\ IInv /\ AtMostOneMore(n) /\ [Next]_vars => AtMostOneMore(n)'
<1> SUFFICES ASSUME TypeOK, IInv, AtMostOneMore(n), [Next]_vars
             PROVE  AtMostOneMore(n)'
  OBVIOUS
<1>1. /\ stop /\ result # "ok" /\ Len(delivered) \in Nat
      /\ \/ Len(delivered) <= n
         \/ Len(delivered) = n + 1 /\ phase # "consume"
  BY DEF AtMostOneMore, TypeOK
<1>2. CASE \E e \in RowErrors : End(e)
  BY <1>1, <1>2 DEF AtMostOneMore, End, RowErrors
<1>3. CASE UNCHANGED <<stop, delivered, result>> /\ phase' # "consume"
  BY <1>1, <1>3 DEF AtMostOneMore
<1>4. CASE UNCHANGED <<stop, delivered, result, phase>>
  BY <1>1, <1>4 DEF AtMostOneMore
<1>5. CASE /\ phase = "consume" /\ delivered' = Append(delivered, PlaneView)
           /\ UNCHANGED <<stop, result>> /\ phase' # "consume"
  <2>1. Len(delivered') = Len(delivered) + 1
    BY <1>5 DEF TypeOK
  <2> QED
    BY <1>1, <1>5, <2>1 DEF AtMostOneMore
<1>6. CASE Begin \/ VerifyPiece \/ Verified \/ FetchPiece
  BY <1>1, <1>2, <1>3, <1>6
     DEF Begin, VerifyPiece, Verified, FetchPiece, Cancelled, Faulty, Goto, FirstPass, RowErrors
<1>7. CASE Feed \/ FedPiece \/ CheckStop
  BY <1>1, <1>2, <1>3, <1>7 DEF Feed, FedPiece, CheckStop, Cancelled, Goto, RowErrors
<1>8. CASE Consume
  BY <1>2, <1>5, <1>8 DEF Consume, Faulty, Goto, RowErrors
<1>9. CASE Finish
  BY <1>1, <1>2, <1>9 DEF Finish, Cancelled, RowErrors
<1>10. CASE RequestStop \/ \E i \in DOMAIN image.pieces : ChangeSource(i)
  BY <1>1, <1>4, <1>10 DEF RequestStop, ChangeSource
<1>11. CASE UNCHANGED vars
  BY <1>4, <1>11 DEF vars
<1> QED
  BY <1>6, <1>7, <1>8, <1>9, <1>10, <1>11 DEF Next

\* However many rows the sink has when the stop comes, it gets one more at most,
\* and the read does not succeed unless it has ended (request.stop_token before
\* every plane row and before the last checks): for images of any height.
THEOREM OneRowMore ==
  ASSUME NEW n \in Nat
  PROVE  Spec => [](stop /\ phase # "ended" /\ Len(delivered) = n
                      => [](Len(delivered) <= n + 1 /\ result # "ok"))
<1>1. TypeOK /\ IInv /\ stop /\ phase # "ended" /\ Len(delivered) = n => AtMostOneMore(n)
  BY DEF IInv, InvPhases, AtMostOneMore
<1>2. TypeOK /\ IInv /\ AtMostOneMore(n) /\ [Next]_vars => AtMostOneMore(n)'
  BY StopStays
<1>3. TypeOK /\ AtMostOneMore(n) => Len(delivered) <= n + 1 /\ result # "ok"
  BY DEF AtMostOneMore, TypeOK
<1> QED
  BY <1>1, <1>2, <1>3, RowInvariant, PTL DEF Spec

\* In particular for the numbers of rows that the run looks at.
THEOREM StopsInTime == Spec => StopHonoured
<1> SUFFICES ASSUME NEW n \in 0 .. RowBound
             PROVE  Spec => [](stop /\ phase # "ended" /\ Len(delivered) = n
                                 => [](Len(delivered) <= n + 1 /\ result # "ok"))
  BY DEF StopHonoured
<1>1. n \in Nat
  BY DEF RowBound
<1> QED
  BY <1>1, OneRowMore
=============================================================================
