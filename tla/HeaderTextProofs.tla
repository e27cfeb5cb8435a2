-------------------------- MODULE HeaderTextProofs --------------------------
(***************************************************************************)
(* What module HeaderText claims of the texts of a header, proved for every  *)
(* vocabulary, every header of any length and all limits: the state of the    *)
(* builder has its types, each text ends up with the element it is for, and    *)
(* each encoded block with the bytes that its text stands for.                 *)
(***************************************************************************)
EXTENDS HeaderText, ArithmeticLemmas

-----------------------------------------------------------------------------
(* Elements, sequences and the stack.                                         *)

LEMMA ElementFacts ==
  ASSUME NEW e \in Vocabulary
  PROVE  /\ e \in Element /\ e.kind \in Kinds
         /\ e.form \in Forms /\ e.bytes \in Nat
<1>1. e \in Element
  BY TextAssumption DEF TextAssumption
<1> QED
  BY <1>1 DEF Element

LEMMA AppendFacts ==
  ASSUME NEW S, NEW s \in Seq(S), NEW x \in S
  PROVE  /\ Append(s, x) \in Seq(S)
         /\ Len(Append(s, x)) = Len(s) + 1
         /\ DOMAIN s = 1 .. Len(s) /\ Len(s) \in Nat
         /\ DOMAIN Append(s, x) = DOMAIN s \cup {Len(s) + 1}
         /\ Len(s) + 1 \notin DOMAIN s
         /\ \A k \in DOMAIN s : Append(s, x)[k] = s[k]
         /\ Append(s, x)[Len(s) + 1] = x
OBVIOUS

LEMMA SequenceFacts ==
  ASSUME NEW S, NEW s \in Seq(S)
  PROVE  /\ Len(s) \in Nat /\ DOMAIN s = 1 .. Len(s)
         /\ \A k \in DOMAIN s : s[k] \in S
OBVIOUS

LEMMA WiderSequence ==
  ASSUME NEW S, NEW T, S \subseteq T, NEW s \in Seq(S)
  PROVE  s \in Seq(T)
OBVIOUS

LEMMA IsSequence ==
  ASSUME NEW S, NEW n \in Nat, NEW s, s = [k \in 1 .. n |-> s[k]],
         \A k \in 1 .. n : s[k] \in S
  PROVE  s \in Seq(S) /\ Len(s) = n
OBVIOUS

\* One place of a sequence gets another value.
LEMMA ExceptFacts ==
  ASSUME NEW S, NEW s \in Seq(S), NEW m, NEW x \in S
  PROVE  /\ [s EXCEPT ![m] = x] \in Seq(S)
         /\ Len([s EXCEPT ![m] = x]) = Len(s)
         /\ \A k \in DOMAIN s : [s EXCEPT ![m] = x][k] = IF k = m THEN x ELSE s[k]
<1>1. Len(s) \in Nat /\ DOMAIN s = 1 .. Len(s) /\ \A k \in DOMAIN s : s[k] \in S
  OBVIOUS
<1> DEFINE t == [s EXCEPT ![m] = x]
<1>2. DOMAIN t = 1 .. Len(s) /\ t = [k \in 1 .. Len(s) |-> t[k]]
  BY <1>1
<1>3. \A k \in 1 .. Len(s) : t[k] = (IF k = m THEN x ELSE s[k]) /\ t[k] \in S
  BY <1>1
<1>4. t \in Seq(S) /\ Len(t) = Len(s)
  <2> HIDE DEF t
  <2> QED
    BY <1>1, <1>2, <1>3, IsSequence
<1> QED
  BY <1>1, <1>3, <1>4

Entry == [element : Vocabulary, parent : Nat, path : SUBSET Nat,
          text : Seq(Alphabet), heard : Seq(Alphabet), stray : Seq(Alphabet)]

LEMMA StackFacts ==
  ASSUME TypeOK
  PROVE  /\ doc \in Seq(Entry) /\ Len(doc) \in Nat /\ DOMAIN doc = 1 .. Len(doc)
         /\ Len(stack) \in Nat /\ DOMAIN stack = 1 .. Len(stack)
         /\ DOMAIN values = DOMAIN doc /\ DOMAIN blocks = DOMAIN doc
         /\ \A n \in DOMAIN doc :
              /\ doc[n] \in Entry /\ doc[n].element \in Vocabulary
              /\ KindOf(n) = doc[n].element.kind /\ KindOf(n) \in Kinds
              /\ n # 0 /\ n \in Nat
              /\ values[n] \in Seq(Alphabet)
         /\ \A k \in DOMAIN stack :
              /\ stack[k] \in DOMAIN doc
              /\ KindAt(k) = doc[stack[k]].element.kind /\ KindAt(k) \in Kinds
         /\ KindAt(0) = "xisf" /\ KindOf(0) = "xisf"
         /\ Parent = KindAt(Len(stack))
         /\ stack = << >> => Top = 0 /\ Len(stack) = 0
         /\ stack # << >> => /\ Top = stack[Len(stack)] /\ Top \in DOMAIN doc
                             /\ Len(stack) \in DOMAIN stack
<1>1. /\ doc \in Seq(Entry) /\ stack \in Seq(DOMAIN doc)
      /\ Len(values) = Len(doc) /\ Len(blocks) = Len(doc)
      /\ values \in Seq(Seq(Alphabet)) /\ blocks \in Seq(Seq(0 .. 255))
  BY DEF TypeOK, Entry
<1>2. /\ Len(doc) \in Nat /\ DOMAIN doc = 1 .. Len(doc)
      /\ Len(stack) \in Nat /\ DOMAIN stack = 1 .. Len(stack)
      /\ \A k \in DOMAIN stack : stack[k] \in DOMAIN doc
      /\ \A n \in DOMAIN doc : doc[n] \in Entry
  BY <1>1, SequenceFacts
<1>3. DOMAIN values = DOMAIN doc /\ DOMAIN blocks = DOMAIN doc
  BY <1>1, <1>2
<1>4. ASSUME NEW n \in DOMAIN doc
      PROVE  /\ doc[n] \in Entry /\ doc[n].element \in Vocabulary
             /\ KindOf(n) = doc[n].element.kind /\ KindOf(n) \in Kinds
             /\ n # 0 /\ n \in Nat
             /\ values[n] \in Seq(Alphabet)
  <2>1. doc[n] \in Entry /\ n # 0 /\ n \in Nat
    BY <1>2
  <2>2. doc[n].element \in Vocabulary
    BY <2>1 DEF Entry
  <2>3. KindOf(n) = doc[n].element.kind
    BY <2>1 DEF KindOf
  <2>4. values[n] \in Seq(Alphabet)
    BY <1>1, <1>3, SequenceFacts
  <2> QED
    BY <2>1, <2>2, <2>3, <2>4, ElementFacts
<1>5. ASSUME NEW k \in DOMAIN stack
      PROVE  KindAt(k) = doc[stack[k]].element.kind /\ KindAt(k) \in Kinds
  <2>1. k # 0 /\ stack[k] \in DOMAIN doc
    BY <1>2
  <2> QED
    BY <2>1, <1>4 DEF KindAt
<1>6. KindAt(0) = "xisf" /\ KindOf(0) = "xisf"
  BY DEF KindAt, KindOf
<1>7. ASSUME stack = << >>
      PROVE  Top = 0 /\ Len(stack) = 0 /\ Parent = KindAt(Len(stack))
  <2>1. Top = 0 /\ Len(stack) = 0
    BY <1>7 DEF Top
  <2> QED
    BY <2>1, <1>6 DEF Parent
<1>8. ASSUME stack # << >>
      PROVE  /\ Top = stack[Len(stack)] /\ Top \in DOMAIN doc
             /\ Len(stack) \in DOMAIN stack /\ Parent = KindAt(Len(stack))
  <2>1. Len(stack) \in DOMAIN stack /\ Len(stack) # 0
    BY <1>1, <1>2, <1>8
  <2>2. Top = stack[Len(stack)]
    BY <1>8 DEF Top, Last
  <2> QED
    BY <1>2, <2>1, <2>2 DEF Parent, KindAt
<1> QED
  BY <1>1, <1>2, <1>3, <1>4, <1>5, <1>6, <1>7, <1>8

\* Not two elements of a kind that is open are in one path, but of Properties, and
\* a Property has none of the other elements in it that take or refuse text
\* themselves.
LEMMA OneOfAKind ==
  ASSUME NEW kinds, NEW n \in Nat, kinds[0] = "xisf",
         \A k \in 1 .. n : Fits(kinds[k - 1], kinds[k], k),
         NEW j \in 1 .. n, NEW k \in 1 .. n
  PROVE  /\ kinds[j] = kinds[k] /\ kinds[k] \in OpenKinds \ {"Property"} => j = k
         /\ kinds[j] = "Property" /\ j < k =>
              kinds[k] \notin TableKinds \cup Attached \cup {"Image", "Data", "Extension"}
<1>1. ASSUME NEW i \in 1 .. n, kinds[i] \in Attached
      PROVE  i = 1 \/ (i = 2 /\ kinds[1] = "Image")
  <2>1. Fits(kinds[i - 1], kinds[i], i)
    OBVIOUS
  <2> QED
    BY <1>1, <2>1 DEF Fits
<1>2. ASSUME NEW i \in 1 .. n
      PROVE  /\ kinds[i] = "Image" => i = 1
             /\ kinds[i] = "Extension" => i = 1
             /\ kinds[i] = "Structure" =>
                  \/ i = 1 \/ (i = 2 /\ kinds[1] = "Table")
                  \/ (i = 3 /\ kinds[1] = "Image" /\ kinds[2] = "Table")
             /\ kinds[i] = "Row" =>
                  \/ (i = 2 /\ kinds[1] = "Table")
                  \/ (i = 3 /\ kinds[1] = "Image" /\ kinds[2] = "Table")
             /\ kinds[i] = "Data" =>
                  \/ (i = 2 /\ kinds[1] \in {"Image", "Thumbnail"})
                  \/ (i = 3 /\ kinds[1] = "Image" /\ kinds[2] = "Thumbnail")
  <2>1. Fits(kinds[i - 1], kinds[i], i)
    OBVIOUS
  <2>2. CASE i = 1
    BY <2>1, <2>2 DEF Fits
  <2>3. CASE i # 1
    <3>1. i - 1 \in 1 .. n
      BY <2>3
    <3>2. Fits(kinds[(i - 1) - 1], kinds[i - 1], i - 1)
      BY <3>1
    <3>3. kinds[i - 1] \in Attached => i - 1 = 1 \/ (i - 1 = 2 /\ kinds[1] = "Image")
      BY <3>1, <1>1
    <3>4. kinds[i - 1] = "Image" => i = 2
      BY <3>2, <2>3 DEF Fits
    <3> QED
      BY <2>1, <2>3, <3>3, <3>4 DEF Fits, Attached
  <2> QED
    BY <2>2, <2>3
<1>3. ASSUME NEW i \in 1 .. n, kinds[i] = "Cell"
      PROVE  \/ (i = 3 /\ kinds[1] = "Table" /\ kinds[2] = "Row")
             \/ (i = 4 /\ kinds[1] = "Image" /\ kinds[2] = "Table" /\ kinds[3] = "Row")
  <2>1. Fits(kinds[i - 1], kinds[i], i)
    OBVIOUS
  <2>2. kinds[i - 1] = "Row"
    BY <1>3, <2>1 DEF Fits
  <2>3. i - 1 \in 1 .. n
    BY <2>2
  <2> QED
    BY <2>2, <2>3, <1>2
<1>4. kinds[j] = kinds[k] /\ kinds[k] \in OpenKinds \ {"Property"} => j = k
  <2> SUFFICES ASSUME kinds[j] = kinds[k], kinds[k] \in OpenKinds \ {"Property"}
               PROVE  j = k
    OBVIOUS
  <2>1. CASE kinds[k] = "Cell"
    BY <2>1, <1>3
  <2>2. CASE kinds[k] \in Attached
    BY <2>2, <1>1 DEF Attached
  <2>3. CASE kinds[k] \in {"Image", "Structure", "Row"}
    BY <2>3, <1>2
  <2> QED
    BY <2>1, <2>2, <2>3 DEF OpenKinds, TableKinds, Attached
<1>5. kinds[j] = "Property" /\ j < k =>
              kinds[k] \notin TableKinds \cup Attached \cup {"Image", "Data", "Extension"}
  <2> SUFFICES ASSUME kinds[j] = "Property", j < k,
                      kinds[k] \in TableKinds \cup Attached \cup {"Image", "Data", "Extension"}
               PROVE  FALSE
    OBVIOUS
  <2>1. CASE kinds[k] = "Cell"
    BY <2>1, <1>3
  <2>2. CASE kinds[k] \in Attached
    BY <2>2, <1>1
  <2>3. CASE kinds[k] \in {"Structure", "Row", "Image", "Data", "Extension"}
    BY <2>3, <1>2
  <2> QED
    BY <2>1, <2>2, <2>3 DEF TableKinds, Attached
<1> QED
  BY <1>4, <1>5

-----------------------------------------------------------------------------
(* start_element: the header grows by one element.                            *)

\* Element e has been added at place h, with L elements open.
Pushed(e, h, L) ==
  /\ h = Len(doc) + 1 /\ h \in Nat \ {0} /\ h \notin DOMAIN doc
  /\ L = Len(stack) /\ L \in Nat
  /\ DOMAIN doc' = DOMAIN doc \cup {h} /\ Len(doc') = h
  /\ \A n \in DOMAIN doc :
       doc'[n] = doc[n] /\ values'[n] = values[n] /\ blocks'[n] = blocks[n] /\ n < h
  /\ doc'[h] = [element |-> e, parent |-> Top, path |-> Range(stack) \cup {h},
                text |-> << >>, heard |-> << >>, stray |-> << >>]
  /\ values'[h] = << >> /\ blocks'[h] = << >>
  /\ Len(stack') = L + 1 /\ DOMAIN stack' = 1 .. L + 1 /\ DOMAIN stack = 1 .. L
  /\ \A k \in 1 .. L : stack'[k] = stack[k] /\ stack[k] \in DOMAIN doc
  /\ stack'[L + 1] = h
  /\ Range(stack) = {stack[j] : j \in 1 .. L}
  /\ \A n \in DOMAIN doc : KindOf(n)' = KindOf(n) /\ FormOf(n)' = FormOf(n)
  /\ KindOf(h)' = e.kind /\ FormOf(h)' = e.form
  /\ \A n \in DOMAIN doc : n \in Blocks' <=> n \in Blocks
  /\ h \in Blocks' <=> HasBlock(e)
  /\ \A k \in 0 .. L : KindAt(k)' = KindAt(k)
  /\ KindAt(L + 1)' = e.kind
  /\ Top' = h

LEMMA PushFacts ==
  ASSUME TypeOK, NEW e \in Vocabulary, Push(e)
  PROVE  /\ \E h, L : Pushed(e, h, L)
         /\ doc' \in Seq(Entry) /\ stack' \in Seq(DOMAIN doc')
         /\ \A n \in DOMAIN doc' : doc'[n].parent < n /\ n \in doc'[n].path
                                   /\ doc'[n].path \subseteq 1 .. n
         /\ blocks' \in Seq(Seq(0 .. 255)) /\ Len(blocks') = Len(doc')
         /\ values' \in Seq(Seq(Alphabet)) /\ Len(values') = Len(doc')
<1> PICK h, L, t : h = Here /\ L = Len(stack) /\ t = Top
  OBVIOUS
<1> DEFINE r == [element |-> e, parent |-> t, path |-> Range(stack) \cup {h},
                 text |-> << >>, heard |-> << >>, stray |-> << >>]
<1>1. /\ doc \in Seq(Entry) /\ stack \in Seq(DOMAIN doc)
      /\ blocks \in Seq(Seq(0 .. 255)) /\ Len(blocks) = Len(doc)
      /\ values \in Seq(Seq(Alphabet)) /\ Len(values) = Len(doc)
      /\ \A n \in DOMAIN doc : doc[n].parent < n /\ n \in doc[n].path
                               /\ doc[n].path \subseteq 1 .. n
  BY DEF TypeOK, Entry
<1>2. /\ h = Len(doc) + 1 /\ h \in Nat \ {0} /\ h \notin DOMAIN doc
      /\ L \in Nat /\ DOMAIN stack = 1 .. L /\ DOMAIN doc = 1 .. Len(doc)
      /\ \A k \in 1 .. L : stack[k] \in DOMAIN doc
  <2>1. h = Len(doc) + 1
    BY DEF Here
  <2>2. /\ Len(doc) \in Nat /\ DOMAIN doc = 1 .. Len(doc)
        /\ L \in Nat /\ DOMAIN stack = 1 .. L
        /\ \A k \in DOMAIN stack : stack[k] \in DOMAIN doc
    BY StackFacts
  <2> QED
    BY <2>1, <2>2
<1>3. /\ doc' = Append(doc, r) /\ stack' = Append(stack, h)
      /\ blocks' = Append(blocks, << >>) /\ values' = Append(values, << >>)
  BY DEF Push
<1>4. Range(stack) = {stack[j] : j \in 1 .. L}
  BY <1>2 DEF Range
<1>5. t \in 0 .. Len(doc) /\ Range(stack) \subseteq 1 .. Len(doc)
  BY <1>2, <1>4, StackFacts
<1>6. r \in Entry
  BY <1>2, <1>5 DEF Entry
<1>7. /\ doc' \in Seq(Entry) /\ Len(doc') = h /\ DOMAIN doc' = DOMAIN doc \cup {h}
      /\ \A n \in DOMAIN doc : doc'[n] = doc[n]
      /\ doc'[h] = r
  <2> HIDE DEF r
  <2> QED
    BY <1>1, <1>2, <1>3, <1>6, AppendFacts
<1>8. /\ blocks' \in Seq(Seq(0 .. 255)) /\ Len(blocks') = h
      /\ values' \in Seq(Seq(Alphabet)) /\ Len(values') = h
      /\ \A n \in DOMAIN doc : values'[n] = values[n] /\ blocks'[n] = blocks[n]
      /\ values'[h] = << >> /\ blocks'[h] = << >>
  <2>1. << >> \in Seq(0 .. 255) /\ << >> \in Seq(Alphabet)
    OBVIOUS
  <2>2. DOMAIN values = DOMAIN doc /\ DOMAIN blocks = DOMAIN doc
    BY StackFacts
  <2>3. /\ blocks \in Seq(Seq(0 .. 255)) /\ Len(blocks) = Len(doc)
        /\ values \in Seq(Seq(Alphabet)) /\ Len(values) = Len(doc)
    BY <1>1
  <2>4. /\ Append(blocks, << >>) \in Seq(Seq(0 .. 255))
        /\ Len(Append(blocks, << >>)) = Len(doc) + 1
        /\ \A n \in DOMAIN doc : Append(blocks, << >>)[n] = blocks[n]
        /\ Append(blocks, << >>)[Len(doc) + 1] = << >>
    BY <2>1, <2>2, <2>3, AppendFacts
  <2>5. /\ Append(values, << >>) \in Seq(Seq(Alphabet))
        /\ Len(Append(values, << >>)) = Len(doc) + 1
        /\ \A n \in DOMAIN doc : Append(values, << >>)[n] = values[n]
        /\ Append(values, << >>)[Len(doc) + 1] = << >>
    BY <2>1, <2>2, <2>3, AppendFacts
  <2>6. h = Len(doc) + 1
    BY <1>2
  <2> HIDE DEF r
  <2> QED
    BY <1>3, <2>4, <2>5, <2>6, Zenon
<1>9. /\ stack' \in Seq(DOMAIN doc') /\ Len(stack') = L + 1 /\ DOMAIN stack' = 1 .. L + 1
      /\ \A k \in 1 .. L : stack'[k] = stack[k]
      /\ stack'[L + 1] = h
  <2>1. stack \in Seq(DOMAIN doc') /\ h \in DOMAIN doc'
    BY <1>1, <1>7, WiderSequence
  <2>2. /\ Append(stack, h) \in Seq(DOMAIN doc')
        /\ Len(Append(stack, h)) = Len(stack) + 1
        /\ DOMAIN stack = 1 .. Len(stack)
        /\ DOMAIN Append(stack, h) = DOMAIN stack \cup {Len(stack) + 1}
        /\ \A k \in DOMAIN stack : Append(stack, h)[k] = stack[k]
        /\ Append(stack, h)[Len(stack) + 1] = h
    BY <2>1, AppendFacts
  <2> QED
    BY <1>2, <1>3, <2>2
<1>10. \A n \in DOMAIN doc' : doc'[n].parent < n /\ n \in doc'[n].path
                              /\ doc'[n].path \subseteq 1 .. n
  <2>1. r.parent < h /\ h \in r.path /\ r.path \subseteq 1 .. h
    BY <1>2, <1>5
  <2> HIDE DEF r
  <2> QED
    BY <1>1, <1>7, <2>1
<1>11. \A n \in DOMAIN doc : n # 0 /\ n < h
  BY <1>2
<1>12. r.element = e
  OBVIOUS
<1>13. doc'[h].element = e
  <2> HIDE DEF r
  <2> QED
    BY <1>7, <1>12
<1>14. /\ \A n \in DOMAIN doc : KindOf(n)' = KindOf(n) /\ FormOf(n)' = FormOf(n)
       /\ KindOf(h)' = e.kind /\ FormOf(h)' = e.form
  BY <1>2, <1>7, <1>11, <1>13 DEF KindOf, FormOf
<1>15. /\ \A n \in DOMAIN doc : n \in Blocks' <=> n \in Blocks
       /\ h \in Blocks' <=> HasBlock(e)
  BY <1>7, <1>13 DEF Blocks
<1>16. /\ \A k \in 0 .. L : KindAt(k)' = KindAt(k)
       /\ KindAt(L + 1)' = e.kind
  BY <1>2, <1>9, <1>14 DEF KindAt
<1>17. Top' = h
  <2>1. stack' # << >>
    BY <1>9, <1>2
  <2> QED
    BY <1>9, <2>1 DEF Top, Last
<1>18. Pushed(e, h, L)
  BY <1>2, <1>4, <1>7, <1>8, <1>9, <1>11, <1>14, <1>15, <1>16, <1>17 DEF Pushed
<1> HIDE DEF r
<1> QED
  BY <1>1, <1>7, <1>8, <1>9, <1>10, <1>18

\* An element that is allowed where it stands fits there.
LEMMA WellPlacedFits ==
  ASSUME TypeOK, NEW e \in Vocabulary, MayHaveChild(e), WellPlaced(e)
  PROVE  Fits(Parent, e.kind, Len(stack) + 1)
<1>1. /\ Len(stack) \in Nat /\ (stack = << >> => Len(stack) = 0)
      /\ Parent \in Kinds
  <2>1. stack # << >> => Len(stack) \in DOMAIN stack /\ Parent = KindAt(Len(stack))
    BY StackFacts
  <2> QED
    BY <2>1, StackFacts DEF Kinds
<1>2. Parent \notin {"Cell", "Field"}
  BY DEF MayHaveChild
<1>3. e.kind \in {"Image", "Metadata", "Extension"} => Len(stack) + 1 = 1
  BY <1>1 DEF WellPlaced
<1>4. e.kind \in Attached =>
        Len(stack) + 1 = 1 \/ (Len(stack) + 1 = 2 /\ Parent = "Image")
  <2>1. e.kind \in Attached =>
          stack = << >> \/ (Len(stack) = 1 /\ Parent = "Image")
    BY DEF WellPlaced
  <2>2. stack = << >> => Len(stack) + 1 = 1
    BY <1>1
  <2>3. Len(stack) = 1 => Len(stack) + 1 = 2
    OBVIOUS
  <2> QED
    BY <2>1, <2>2, <2>3, Zenon
<1>5. e.kind = "Structure" => Len(stack) + 1 = 1 \/ Parent = "Table"
  BY <1>1 DEF WellPlaced
<1>6. /\ e.kind = "Row" => Parent = "Table"
      /\ e.kind = "Cell" => Parent = "Row"
      /\ e.kind = "Data" => Parent \in {"Image", "Thumbnail"}
  BY DEF WellPlaced
<1>7. e.kind = "Property" => Parent \in {"xisf", "Image", "Metadata"}
  BY DEF WellPlaced
<1> QED
  BY <1>2, <1>3, <1>4, <1>5, <1>6, <1>7 DEF Fits

LEMMA StartPlaces ==
  ASSUME TypeOK, InvPlaces, InvOpen, NEW e \in Vocabulary, StartElement(e)
  PROVE  InvPlaces'
<1>1. PICK h, L : Pushed(e, h, L)
  BY PushFacts DEF StartElement
<1>2. Fits(Parent, e.kind, L + 1) /\ Parent = KindAt(L)
  BY <1>1, WellPlacedFits, StackFacts DEF StartElement, Pushed
<1> SUFFICES ASSUME NEW k \in 1 .. L + 1
             PROVE  InPlace(k)'
  BY <1>1 DEF InvPlaces, Pushed
<1>3. CASE k = L + 1
  <2>1. Fits(KindAt(k - 1)', KindAt(k)', k)
    BY <1>1, <1>2, <1>3 DEF Pushed
  <2>2. doc'[stack'[k]].path = {stack'[j] : j \in 1 .. k}
    <3>1. doc'[h].path = Range(stack) \cup {h}
      BY <1>1 DEF Pushed
    <3>2. Range(stack) = {stack[j] : j \in 1 .. L} /\ stack'[L + 1] = h /\ L \in Nat
          /\ \A j \in 1 .. L : stack'[j] = stack[j]
      BY <1>1 DEF Pushed
    <3> QED
      BY <1>3, <3>1, <3>2
  <2>3. ~(k < Len(stack'))
    BY <1>1, <1>3 DEF Pushed
  <2> QED
    BY <2>1, <2>2, <2>3 DEF InPlace
<1>4. CASE k \in 1 .. L
  <2>1. InPlace(k)
    BY <1>1, <1>4 DEF InvPlaces, Pushed
  <2>2. Fits(KindAt(k - 1)', KindAt(k)', k)
    <3>1. L \in Nat /\ \A j \in 0 .. L : KindAt(j)' = KindAt(j)
      BY <1>1 DEF Pushed
    <3>2. k \in 0 .. L /\ k - 1 \in 0 .. L
      BY <1>4, <3>1
    <3>3. KindAt(k)' = KindAt(k) /\ KindAt(k - 1)' = KindAt(k - 1)
      BY <3>1, <3>2, Zenon
    <3>4. Fits(KindAt(k - 1), KindAt(k), k)
      BY <2>1 DEF InPlace
    <3> QED
      BY <3>3, <3>4, Zenon
  <2>3. doc'[stack'[k]].path = {stack'[j] : j \in 1 .. k}
    <3>1. doc'[stack'[k]].path = doc[stack[k]].path
      BY <1>1, <1>4 DEF Pushed
    <3>2. \A j \in 1 .. k : stack'[j] = stack[j]
      BY <1>1, <1>4 DEF Pushed
    <3> QED
      BY <2>1, <3>1, <3>2 DEF InPlace
  <2>4. stack'[k] \notin Blocks'
    <3>1. stack'[k] = stack[k] /\ stack[k] \in DOMAIN doc /\ k \in Nat /\ L \in Nat /\ L = Len(stack)
      BY <1>1, <1>4 DEF Pushed
    <3>2. stack[k] \notin Blocks
      <4>1. CASE k < Len(stack)
        BY <4>1, <2>1 DEF InPlace
      <4>2. CASE k = Len(stack)
        <5>1. stack # << >>
          BY <4>2, <1>4, StackFacts
        <5>2. stack[k] = Top /\ Top # 0
          BY <4>2, <5>1, StackFacts
        <5>3. block = 0
          BY DEF StartElement, MayHaveChild
        <5> QED
          BY <5>2, <5>3 DEF InvOpen
      <4> QED
        BY <3>1, <4>1, <4>2, <1>4
    <3> QED
      BY <1>1, <3>1, <3>2 DEF Pushed
  <2> QED
    BY <2>2, <2>3, <2>4 DEF InPlace
<1> QED
  BY <1>1, <1>3, <1>4 DEF Pushed

\* The kinds of the open elements, one by one.
LEMMA OneOnStack ==
  ASSUME TypeOK, InvPlaces, NEW j \in DOMAIN stack, NEW k \in DOMAIN stack
  PROVE  /\ KindAt(j) = KindAt(k) /\ KindAt(k) \in OpenKinds \ {"Property"} => j = k
         /\ KindAt(j) = "Property" /\ j < k =>
              KindAt(k) \notin TableKinds \cup Attached \cup {"Image", "Data", "Extension"}
<1> PICK L : L = Len(stack)
  OBVIOUS
<1> DEFINE kinds == [i \in 0 .. L |-> KindAt(i)]
<1>1. L \in Nat /\ DOMAIN stack = 1 .. L /\ KindAt(0) = "xisf"
  BY StackFacts
<1>2. \A i \in 1 .. L : Fits(kinds[i - 1], kinds[i], i)
  <2> SUFFICES ASSUME NEW i \in 1 .. L
               PROVE  Fits(kinds[i - 1], kinds[i], i)
    OBVIOUS
  <2>1. kinds[i - 1] = KindAt(i - 1) /\ kinds[i] = KindAt(i)
    BY <1>1
  <2> QED
    BY <1>1, <2>1, StackFacts DEF InvPlaces, InPlace
<1>3. kinds[0] = "xisf" /\ kinds[j] = KindAt(j) /\ kinds[k] = KindAt(k)
  BY <1>1
<1>4. j \in 1 .. L /\ k \in 1 .. L
  BY <1>1
<1> HIDE DEF kinds
<1>5. /\ kinds[j] = kinds[k] /\ kinds[k] \in OpenKinds \ {"Property"} => j = k
      /\ kinds[j] = "Property" /\ j < k =>
           kinds[k] \notin TableKinds \cup Attached \cup {"Image", "Data", "Extension"}
  BY <1>1, <1>2, <1>3, <1>4, OneOfAKind
<1> QED
  BY <1>3, <1>5

\* A Property is on the stack once, and later in the header than what it is in.
LEMMA PropertyOnce ==
  ASSUME TypeOK, InvPlaces, NEW k \in DOMAIN stack, KindAt(k) = "Property",
         NEW j \in 1 .. k - 1
  PROVE  stack[j] # stack[k]
<1>1. /\ k \in Nat /\ k - 1 \in DOMAIN stack /\ j \in 1 .. k - 1
      /\ KindAt(k) = KindOf(stack[k]) /\ KindAt(k - 1) = KindOf(stack[k - 1])
  <2>1. DOMAIN stack = 1 .. Len(stack) /\ Len(stack) \in Nat
    BY StackFacts
  <2>2. k \in Nat /\ k - 1 \in DOMAIN stack /\ k # 0 /\ k - 1 # 0
    BY <2>1
  <2> QED
    BY <2>2 DEF KindAt
<1>2. ASSUME NEW l \in DOMAIN stack, NEW i \in 1 .. l
      PROVE  stack[i] <= stack[l] /\ stack[i] \in Nat /\ stack[l] \in Nat
  <2>1. /\ stack[l] \in DOMAIN doc /\ doc[stack[l]].path \subseteq 1 .. stack[l]
        /\ stack[l] \in Nat
    BY StackFacts DEF TypeOK
  <2>2. stack[i] \in doc[stack[l]].path
    BY DEF InvPlaces, InPlace
  <2> QED
    BY <2>1, <2>2
<1>3. Fits(KindAt(k - 1), KindAt(k), k)
  BY DEF InvPlaces, InPlace
<1>4. stack[j] <= stack[k - 1] /\ stack[j] \in Nat /\ stack[k - 1] \in Nat
  BY <1>1, <1>2
<1>5. stack[k - 1] <= stack[k] /\ stack[k] \in Nat
  BY <1>1, <1>2
<1>6. stack[k - 1] # stack[k]
  BY <1>1, <1>3 DEF Fits
<1> QED
  BY <1>4, <1>5, <1>6

\* The start of a text Property disturbs the ones it is in, and nothing else does.
LEMMA StartDisturbs ==
  ASSUME TypeOK, NEW e \in Vocabulary, NEW h, NEW L, Pushed(e, h, L)
  PROVE  /\ ~Disturbed(h)'
         /\ \A n \in DOMAIN doc :
              Disturbed(n)' <=> \/ Disturbed(n)
                                \/ n \in Range(stack) /\ e.kind = "Property" /\ e.form = "text"
<1>1. /\ DOMAIN doc' = DOMAIN doc \cup {h} /\ h \notin DOMAIN doc
      /\ \A m \in DOMAIN doc : /\ doc'[m].path = doc[m].path /\ m # h
                               /\ KindOf(m)' = KindOf(m) /\ FormOf(m)' = FormOf(m)
      /\ doc'[h].path = Range(stack) \cup {h}
      /\ KindOf(h)' = e.kind /\ FormOf(h)' = e.form
  BY DEF Pushed
<1>2. \A m : Contains(stack', m) <=> Contains(stack, m) \/ m = h
  <2>1. /\ DOMAIN stack' = 1 .. L + 1 /\ DOMAIN stack = 1 .. L /\ L \in Nat
        /\ \A k \in 1 .. L : stack'[k] = stack[k]
        /\ stack'[L + 1] = h
    BY DEF Pushed
  <2>2. L = Len(stack) /\ L + 1 = Len(stack')
    BY DEF Pushed
  <2> QED
    BY <2>1, <2>2 DEF Contains
<1>3. \A m \in DOMAIN doc : h \notin doc[m].path
  <2> SUFFICES ASSUME NEW m \in DOMAIN doc
               PROVE  h \notin doc[m].path
    OBVIOUS
  <2>1. m < h /\ h \in Nat /\ m \in Nat /\ doc[m].path \subseteq 1 .. m
    BY StackFacts DEF Pushed, TypeOK
  <2> QED
    BY <2>1
<1>4. ~Disturbed(h)'
  BY <1>1, <1>3 DEF Disturbed
<1>5. ASSUME NEW n \in DOMAIN doc
      PROVE  Disturbed(n)' <=> \/ Disturbed(n)
                               \/ n \in Range(stack) /\ e.kind = "Property" /\ e.form = "text"
  <2>1. ASSUME NEW m \in DOMAIN doc
        PROVE  Contains(stack', m) <=> Contains(stack, m)
    BY <1>1, <1>2
  <2>2. Contains(stack', h) /\ n # h
    BY <1>1, <1>2
  <2>3. Disturbed(n)' <=>
          \E m \in DOMAIN doc' :
            /\ m # n /\ n \in doc'[m].path /\ KindOf(m)' = "Property"
            /\ FormOf(m)' = "text" \/ ~Contains(stack', m)
    BY DEF Disturbed
  <2>4. Disturbed(n) <=>
          \E m \in DOMAIN doc :
            /\ m # n /\ n \in doc[m].path /\ KindOf(m) = "Property"
            /\ FormOf(m) = "text" \/ ~Contains(stack, m)
    BY DEF Disturbed
  <2> QED
    BY <1>1, <2>1, <2>2, <2>3, <2>4
<1> QED
  BY <1>4, <1>5

LEMMA StartOpen ==
  ASSUME TypeOK, InvPlaces, InvOpen, NEW e \in Vocabulary, StartElement(e)
  PROVE  InvOpen'
<1>1. PICK h, L : Pushed(e, h, L)
  BY PushFacts DEF StartElement
<1>2. Fits(Parent, e.kind, L + 1) /\ Parent = KindAt(L)
  BY <1>1, WellPlacedFits, StackFacts DEF StartElement, Pushed
<1>3. h = Here /\ L \in Nat /\ DOMAIN stack = 1 .. L /\ DOMAIN stack' = 1 .. L + 1
  BY <1>1 DEF Pushed, Here
<1>4. /\ open' = IF Opens(e) THEN [open EXCEPT ![e.kind] = h] ELSE open
      /\ block' = IF HasBlock(e) THEN h ELSE 0
  BY <1>3 DEF StartElement
<1>5. open \in [OpenKinds -> 0 .. Len(doc)]
  BY DEF TypeOK
<1>6. Opens(e) => e.kind \in OpenKinds
  BY DEF Opens
<1>7. doc'[stack'[L + 1]].element = e /\ KindAt(L + 1)' = e.kind /\ stack'[L + 1] = h
  BY <1>1 DEF Pushed
<1>8. ASSUME NEW k \in 1 .. L
      PROVE  /\ doc'[stack'[k]].element = doc[stack[k]].element
             /\ KindAt(k)' = KindAt(k) /\ stack'[k] = stack[k]
             /\ Opens(e) /\ e.kind # "Property" => KindAt(k) # e.kind
  <2>1. /\ doc'[stack'[k]].element = doc[stack[k]].element
        /\ KindAt(k)' = KindAt(k) /\ stack'[k] = stack[k]
    BY <1>1 DEF Pushed
  <2>2. Opens(e) /\ e.kind # "Property" => KindAt(k) # e.kind
    <3> SUFFICES ASSUME Opens(e), e.kind # "Property", KindAt(k) = e.kind
                 PROVE  FALSE
      OBVIOUS
    <3> DEFINE kinds == [i \in 0 .. L + 1 |-> IF i = L + 1 THEN e.kind ELSE KindAt(i)]
    <3>1. kinds[0] = "xisf" /\ kinds[k] = kinds[L + 1] /\ kinds[L + 1] \in OpenKinds \ {"Property"}
      BY <1>3, <1>6, StackFacts
    <3>2. \A i \in 1 .. L + 1 : Fits(kinds[i - 1], kinds[i], i)
      <4> SUFFICES ASSUME NEW i \in 1 .. L + 1
                   PROVE  Fits(kinds[i - 1], kinds[i], i)
        OBVIOUS
      <4>1. CASE i = L + 1
        <5>1. kinds[i - 1] = KindAt(L) /\ kinds[i] = e.kind
          BY <1>3, <4>1
        <5> QED
          BY <1>2, <4>1, <5>1
      <4>2. CASE i \in 1 .. L
        <5>1. kinds[i - 1] = KindAt(i - 1) /\ kinds[i] = KindAt(i)
          BY <1>3, <4>2
        <5>2. i \in DOMAIN stack
          BY <1>3, <4>2, StackFacts
        <5>3. Fits(KindAt(i - 1), KindAt(i), i)
          BY <5>2 DEF InvPlaces, InPlace
        <5> HIDE DEF kinds
        <5> QED
          BY <5>1, <5>3
      <4> QED
        BY <1>3, <4>1, <4>2
    <3>3. k \in 1 .. L + 1 /\ L + 1 \in 1 .. L + 1 /\ L + 1 \in Nat /\ k # L + 1
      BY <1>3
    <3> HIDE DEF kinds
    <3>4. PICK m : m = L + 1
      OBVIOUS
    <3>5. /\ m \in Nat /\ k \in 1 .. m /\ m \in 1 .. m /\ k # m /\ kinds[0] = "xisf"
          /\ kinds[k] = kinds[m] /\ kinds[m] \in OpenKinds \ {"Property"}
          /\ \A i \in 1 .. m : Fits(kinds[i - 1], kinds[i], i)
      BY <3>1, <3>2, <3>3, <3>4
    <3>6. kinds[k] = kinds[m] /\ kinds[m] \in OpenKinds \ {"Property"} => k = m
      BY <3>5, OneOfAKind
    <3> QED
      BY <3>5, <3>6
  <2> QED
    BY <2>1, <2>2
<1>9. ASSUME NEW kind \in OpenKinds, open'[kind] # 0
      PROVE  \E k \in DOMAIN stack' :
               /\ open'[kind] = stack'[k] /\ KindAt(k)' = kind
               /\ Opens(doc'[stack'[k]].element)
  <2>1. CASE Opens(e) /\ kind = e.kind
    <3>1. open'[kind] = h /\ L + 1 \in DOMAIN stack'
      BY <1>3, <1>4, <1>5, <1>6, <2>1
    <3> QED
      BY <1>7, <2>1, <3>1
  <2>2. CASE ~(Opens(e) /\ kind = e.kind)
    <3>1. open'[kind] = open[kind]
      BY <1>4, <1>5, <2>2
    <3>2. PICK k \in DOMAIN stack :
            open[kind] = stack[k] /\ KindAt(k) = kind /\ Opens(doc[stack[k]].element)
      BY <1>9, <3>1 DEF InvOpen
    <3>3. k \in DOMAIN stack' /\ k \in 1 .. L
      BY <1>3
    <3> QED
      BY <1>8, <3>1, <3>2, <3>3
  <2> QED
    BY <2>1, <2>2
<1>10. /\ ~Disturbed(h)'
       /\ \A n \in DOMAIN doc :
            Disturbed(n)' <=> \/ Disturbed(n)
                              \/ n \in Range(stack) /\ e.kind = "Property" /\ e.form = "text"
  BY <1>1, StartDisturbs
<1>11. ASSUME NEW k \in DOMAIN stack', Opens(doc'[stack'[k]].element),
              ~(KindAt(k)' = "Property" /\ Disturbed(stack[k])')
       PROVE  open'[KindAt(k)'] = stack'[k]
  <2>1. CASE k = L + 1
    BY <1>4, <1>5, <1>6, <1>7, <1>11, <2>1
  <2>2. CASE k \in 1 .. L
    <3>1. /\ KindAt(k)' = KindAt(k) /\ stack'[k] = stack[k] /\ k \in DOMAIN stack
          /\ Opens(doc[stack[k]].element) /\ stack[k] \in DOMAIN doc
          /\ stack[k] \in Range(stack)
      BY <1>1, <1>3, <1>8, <1>11, <2>2 DEF Pushed
    <3>2. PICK n \in DOMAIN doc : n = stack[k]
      BY <3>1
    <3>3. Disturbed(stack[k])' <=> Disturbed(n)'
      <4>1. stack'[k] = n
        BY <3>1, <3>2
      <4> QED
        BY <4>1 DEF Disturbed
    <3>4. KindAt(k) = "Property" =>
            ~Disturbed(stack[k]) /\ ~(e.kind = "Property" /\ e.form = "text")
      <4>1. n \in Range(stack)
        BY <3>1, <3>2
      <4>2. KindAt(k) = "Property" => ~Disturbed(n)'
        BY <1>11, <3>1, <3>3
      <4> QED
        BY <1>10, <3>2, <4>1, <4>2
    <3>5. open[KindAt(k)] = stack[k]
      BY <3>1, <3>4 DEF InvOpen
    <3>6. Opens(e) => KindAt(k) # e.kind
      BY <1>8, <2>2, <3>4 DEF Opens
    <3>7. open'[KindAt(k)] = open[KindAt(k)]
      <4>1. CASE Opens(e)
        BY <1>4, <1>5, <3>6, <4>1
      <4>2. CASE ~Opens(e)
        BY <1>4, <4>2
      <4> QED
        BY <4>1, <4>2
    <3> QED
      BY <3>1, <3>5, <3>7
  <2> QED
    BY <1>3, <2>1, <2>2
<1>12. open'["Property"] # 0 => ~Disturbed(open["Property"])'
  <2> SUFFICES ASSUME open'["Property"] # 0
               PROVE  ~Disturbed(open["Property"])'
    OBVIOUS
  <2>1. "Property" \in OpenKinds
    BY DEF OpenKinds
  <2>2. CASE Opens(e) /\ e.kind = "Property"
    <3>1. open'["Property"] = h
      BY <1>4, <1>5, <2>1, <2>2
    <3>2. Disturbed(open["Property"])' <=> Disturbed(h)'
      BY <3>1 DEF Disturbed
    <3> QED
      BY <1>10, <3>2
  <2>3. CASE ~(Opens(e) /\ e.kind = "Property")
    <3>1. open'["Property"] = open["Property"]
      BY <1>4, <1>5, <2>3
    <3>2. PICK n \in DOMAIN doc : n = open["Property"]
      <4>1. PICK k \in DOMAIN stack : open["Property"] = stack[k]
        BY <2>1, <3>1 DEF InvOpen
      <4> QED
        BY <4>1, StackFacts
    <3>3. Disturbed(open["Property"])' <=> Disturbed(n)'
      BY <3>1, <3>2 DEF Disturbed
    <3>4. ~Disturbed(n)
      BY <3>1, <3>2 DEF InvOpen
    <3>5. ~(e.kind = "Property" /\ e.form = "text")
      BY <2>3 DEF Opens, OpenKinds
    <3> QED
      BY <1>10, <3>3, <3>4, <3>5
  <2> QED
    BY <2>2, <2>3
<1>13. block' = IF Top' \in Blocks' THEN Top' ELSE 0
  BY <1>1, <1>4 DEF Pushed
<1> QED
  BY <1>9, <1>11, <1>12, <1>13 DEF InvOpen

-----------------------------------------------------------------------------
(* The sums that the two counters hold.                                       *)

LEMMA ChargesToFacts ==
  ASSUME NEW charges, NEW n \in Nat, \A i \in 1 .. n : charges[i] \in Nat
  PROVE  /\ ChargesTo(charges, n) \in Nat
         /\ ChargesTo(charges, n + 1) = ChargesTo(charges, n) + charges[n + 1]
         /\ \A others :
              (\A i \in 1 .. n : others[i] = charges[i]) =>
                 ChargesTo(others, n) = ChargesTo(charges, n)
<1>1. n \in 0 .. n
  OBVIOUS
<1>2. SumTo(charges, n) \in Nat
  BY <1>1, SumToFacts
<1>3. SumTo(charges, n + 1) = SumTo(charges, n) + charges[n + 1]
  BY SumToNext
<1>4. ASSUME NEW others, \A i \in 1 .. n : others[i] = charges[i]
      PROVE  SumTo(others, n) = SumTo(charges, n)
  BY <1>4, SumToSame
<1> QED
  BY <1>2, <1>3, <1>4 DEF ChargesTo, SumTo

LEMMA ChargesAreNumbers ==
  ASSUME TypeOK, NEW K
  PROVE  /\ Charges(K) = [n \in 1 .. Len(doc) |-> Charges(K)[n]]
         /\ \A n \in 1 .. Len(doc) :
              /\ Charges(K)[n] = IF KindOf(n) \in K
                                 THEN doc[n].element.bytes + Len(values[n]) ELSE 0
              /\ Charges(K)[n] \in Nat
         /\ Charged(K) \in Nat
<1>1. DOMAIN doc = 1 .. Len(doc) /\ Len(doc) \in Nat
  BY StackFacts
<1>2. ASSUME NEW n \in 1 .. Len(doc)
      PROVE  /\ Charges(K)[n] = IF KindOf(n) \in K
                                THEN doc[n].element.bytes + Len(values[n]) ELSE 0
             /\ Charges(K)[n] \in Nat
  <2>1. doc[n].element \in Vocabulary /\ values[n] \in Seq(Alphabet)
    BY <1>1, StackFacts
  <2>2. doc[n].element.bytes \in Nat /\ Len(values[n]) \in Nat
    BY <2>1, ElementFacts
  <2>3. Charges(K)[n] = IF KindOf(n) \in K
                        THEN doc[n].element.bytes + Len(values[n]) ELSE 0
    BY <1>1 DEF Charges
  <2> QED
    BY <2>2, <2>3
<1>3. Charges(K) = [n \in 1 .. Len(doc) |-> Charges(K)[n]]
  BY <1>1 DEF Charges
<1>4. Charged(K) \in Nat
  BY <1>1, <1>2, ChargesToFacts DEF Charged
<1> QED
  BY <1>2, <1>3, <1>4

\* A new element is charged for its attributes.
LEMMA StartCharges ==
  ASSUME TypeOK, NEW e \in Vocabulary, Push(e), NEW K
  PROVE  Charged(K)' = Charged(K) + IF e.kind \in K THEN e.bytes ELSE 0
<1>1. PICK h, L : Pushed(e, h, L)
  BY PushFacts
<1> PICK n, c, d : n = Len(doc) /\ c = Charges(K) /\ d = Charges(K)'
  OBVIOUS
<1>2. n \in Nat /\ DOMAIN doc = 1 .. n /\ h = n + 1 /\ Len(doc') = n + 1
      /\ DOMAIN doc' = 1 .. n + 1
  BY <1>1, StackFacts DEF Pushed
<1>3. d = [i \in DOMAIN doc' |-> IF KindOf(i)' \in K
                                 THEN doc'[i].element.bytes + Len(values'[i]) ELSE 0]
  BY DEF Charges
<1>4. \A i \in 1 .. n : c[i] \in Nat /\ d[i] = c[i]
  <2> SUFFICES ASSUME NEW i \in 1 .. n
               PROVE  c[i] \in Nat /\ d[i] = c[i]
    OBVIOUS
  <2>1. /\ c[i] \in Nat
        /\ c[i] = IF KindOf(i) \in K THEN doc[i].element.bytes + Len(values[i]) ELSE 0
    BY ChargesAreNumbers
  <2>2. KindOf(i)' = KindOf(i) /\ doc'[i] = doc[i] /\ values'[i] = values[i]
    BY <1>1, <1>2 DEF Pushed
  <2>3. i \in DOMAIN doc'
    BY <1>2
  <2> QED
    BY <1>3, <2>1, <2>2, <2>3
<1>5. d[n + 1] = IF e.kind \in K THEN e.bytes ELSE 0
  <2>1. /\ KindOf(h)' = e.kind /\ doc'[h].element = e /\ values'[h] = << >>
        /\ h \in DOMAIN doc'
    BY <1>1 DEF Pushed
  <2>2. e.bytes \in Nat /\ Len(<< >>) = 0
    BY ElementFacts
  <2> QED
    BY <1>2, <1>3, <2>1, <2>2
<1>6. /\ ChargesTo(d, n + 1) = ChargesTo(d, n) + d[n + 1]
      /\ ChargesTo(d, n) = ChargesTo(c, n)
  <2>1. \A i \in 1 .. n : d[i] \in Nat
    BY <1>4
  <2>2. ChargesTo(d, n + 1) = ChargesTo(d, n) + d[n + 1]
    BY <1>2, <2>1, ChargesToFacts
  <2>3. ChargesTo(d, n) = ChargesTo(c, n)
    BY <1>2, <1>4, ChargesToFacts
  <2> QED
    BY <2>2, <2>3
<1>7. Charged(K)' = ChargesTo(d, n + 1) /\ Charged(K) = ChargesTo(c, n)
  BY <1>2 DEF Charged
<1> QED
  BY <1>5, <1>6, <1>7

LEMMA StartCharged ==
  ASSUME TypeOK, InvCharged, NEW e \in Vocabulary, StartElement(e)
  PROVE  InvCharged'
<1>1. /\ Charged(TableKinds \cup {"Field"})' =
           Charged(TableKinds \cup {"Field"}) +
             IF e.kind \in TableKinds \cup {"Field"} THEN e.bytes ELSE 0
      /\ Charged({"Extension"})' =
           Charged({"Extension"}) + IF e.kind \in {"Extension"} THEN e.bytes ELSE 0
  BY StartCharges DEF StartElement
<1>2. /\ Charged(TableKinds \cup {"Field"}) \in Nat
      /\ Charged({"Extension"}) \in Nat
  BY ChargesAreNumbers
<1>3. /\ tableText' = IF e.kind \in TableKinds \cup {"Field"} THEN tableText + e.bytes
                      ELSE tableText
      /\ extensionText' = IF e.kind = "Extension" THEN extensionText + e.bytes
                          ELSE extensionText
  BY DEF StartElement
<1>4. tableText' = Charged(TableKinds \cup {"Field"})'
  BY <1>1, <1>2, <1>3 DEF InvCharged
<1>5. extensionText' = Charged({"Extension"})'
  BY <1>1, <1>2, <1>3 DEF InvCharged
<1> QED
  BY <1>4, <1>5 DEF InvCharged

-----------------------------------------------------------------------------
(* Types.                                                                     *)

LEMMA StartType ==
  ASSUME TypeOK, NEW e \in Vocabulary, StartElement(e)
  PROVE  TypeOK'
<1>1. PICK h, L : Pushed(e, h, L)
  BY PushFacts DEF StartElement
<1>2. /\ h = Here /\ DOMAIN doc' = DOMAIN doc \cup {h} /\ Len(doc') = h
      /\ Len(doc') = Len(doc) + 1 /\ Len(doc) \in Nat
  BY <1>1, StackFacts DEF Pushed, Here
<1>3. /\ doc' \in Seq(Entry) /\ stack' \in Seq(DOMAIN doc')
      /\ \A n \in DOMAIN doc' : doc'[n].parent < n /\ n \in doc'[n].path
                                /\ doc'[n].path \subseteq 1 .. n
      /\ blocks' \in Seq(Seq(0 .. 255)) /\ Len(blocks') = Len(doc')
      /\ values' \in Seq(Seq(Alphabet)) /\ Len(values') = Len(doc')
  BY PushFacts DEF StartElement
<1>4. open' \in [OpenKinds -> 0 .. Len(doc')]
  <2>1. open \in [OpenKinds -> 0 .. Len(doc')]
    BY <1>2 DEF TypeOK
  <2>2. open' = IF Opens(e) THEN [open EXCEPT ![e.kind] = h] ELSE open
    BY <1>2 DEF StartElement
  <2>3. h \in 0 .. Len(doc')
    BY <1>2
  <2>4. CASE Opens(e)
    BY <2>1, <2>2, <2>3, <2>4
  <2>5. CASE ~Opens(e)
    BY <2>1, <2>2, <2>5
  <2> QED
    BY <2>4, <2>5
<1>5. filled' \subseteq DOMAIN doc'
  <2>1. Fills(e) \subseteq DOMAIN doc
    <3>1. CASE stack = << >>
      <4>1. Parent = "xisf"
        BY <3>1, StackFacts
      <4> QED
        BY <4>1 DEF StartElement, WellPlaced, Fills
    <3>2. CASE stack # << >>
      BY <3>2, StackFacts DEF Fills
    <3> QED
      BY <3>1, <3>2
  <2> QED
    BY <1>2, <2>1 DEF StartElement, TypeOK
<1>6. block' \in 0 .. Len(doc')
  BY <1>2 DEF StartElement
<1>7. /\ decoder' \in [quartet : Seq(0 .. Pad), complete : BOOLEAN, nibble : 0 .. NoNibble,
                       encoded : 0 .. MaxEncoded]
      /\ Len(decoder'.quartet) < 4
  <2>1. /\ Fresh \in [quartet : Seq(0 .. Pad), complete : BOOLEAN, nibble : 0 .. NoNibble,
                      encoded : 0 .. MaxEncoded]
        /\ Len(Fresh.quartet) < 4
    <3>1. MaxEncoded \in Nat
      BY TextAssumption DEF TextAssumption
    <3>2. << >> \in Seq(0 .. Pad) /\ Len(<< >>) = 0
      OBVIOUS
    <3> QED
      BY <3>1, <3>2 DEF Fresh, Pad, NoNibble
  <2>2. decoder' = Fresh \/ decoder' = decoder
    BY DEF StartElement, Freshen
  <2> QED
    BY <2>1, <2>2 DEF TypeOK
<1>8. tableText' \in 0 .. MaxTableText /\ extensionText' \in 0 .. MaxExtension
  <2>1. e.bytes \in Nat
    BY ElementFacts
  <2>2. tableText \in 0 .. MaxTableText /\ extensionText \in 0 .. MaxExtension
    BY DEF TypeOK
  <2>3. /\ e.kind \in TableKinds \cup {"Field"} => tableText + e.bytes <= MaxTableText
        /\ e.kind = "Extension" => extensionText + e.bytes <= MaxExtension
        /\ tableText' = IF e.kind \in TableKinds \cup {"Field"} THEN tableText + e.bytes
                        ELSE tableText
        /\ extensionText' = IF e.kind = "Extension" THEN extensionText + e.bytes
                            ELSE extensionText
    BY DEF StartElement, WithinBytes
  <2>4. MaxTableText \in Nat /\ MaxExtension \in Nat
    BY TextAssumption DEF TextAssumption
  <2> QED
    BY <2>1, <2>2, <2>3, <2>4
<1>9. status' \in {"parsing", "accepted", "limit", "element", "end", "text"}
  BY DEF StartElement, TypeOK
<1> QED
  BY <1>3, <1>4, <1>5, <1>6, <1>7, <1>8, <1>9 DEF TypeOK, Entry

-----------------------------------------------------------------------------
(* Texts and their places, when an element starts.                            *)

\* Whether an element refuses text depends on its path only, and what it is to have
\* kept on its own entry.
LEMMA SameTree ==
  ASSUME TypeOK,
         \A n \in DOMAIN doc :
           /\ n \in DOMAIN doc' /\ doc'[n].path = doc[n].path
           /\ KindOf(n)' = KindOf(n) /\ FormOf(n)' = FormOf(n)
           /\ n \in Blocks' <=> n \in Blocks,
         NEW n \in DOMAIN doc
  PROVE  Refuses(n)' <=> Refuses(n)
<1>1. doc'[n].path = doc[n].path /\ doc[n].path \subseteq DOMAIN doc
  <2>1. doc[n].path \subseteq 1 .. n /\ DOMAIN doc = 1 .. Len(doc) /\ Len(doc) \in Nat
    BY StackFacts DEF TypeOK
  <2> QED
    BY <2>1
<1>2. \A m \in doc[n].path : KindOf(m)' = KindOf(m) /\ FormOf(m)' = FormOf(m)
  BY <1>1
<1>3. (n \in Blocks' <=> n \in Blocks) /\ KindOf(n)' = KindOf(n)
  OBVIOUS
<1> QED
  BY <1>1, <1>2, <1>3 DEF Refuses

LEMMA StartTree ==
  ASSUME TypeOK, NEW e \in Vocabulary, Push(e), NEW n \in DOMAIN doc
  PROVE  /\ Refuses(n)' <=> Refuses(n)
         /\ Kept(n)' = Kept(n)
         /\ doc'[n] = doc[n] /\ values'[n] = values[n] /\ KindOf(n)' = KindOf(n)
<1>1. PICK h, L : Pushed(e, h, L)
  BY PushFacts
<1>2. \A i \in DOMAIN doc :
           /\ i \in DOMAIN doc' /\ doc'[i].path = doc[i].path
           /\ KindOf(i)' = KindOf(i) /\ FormOf(i)' = FormOf(i)
           /\ i \in Blocks' <=> i \in Blocks
  BY <1>1 DEF Pushed
<1>3. Refuses(n)' <=> Refuses(n)
  BY <1>2, SameTree
<1>4. doc'[n] = doc[n]
  BY <1>1 DEF Pushed
<1>5. Kept(n)' = Kept(n)
  BY <1>2, <1>4 DEF Kept, TakesText
<1> QED
  BY <1>1, <1>3, <1>5 DEF Pushed

LEMMA StartText ==
  ASSUME TypeOK, InvCharged, TextGoesHome, status = "parsing",
         NEW e \in Vocabulary, StartElement(e)
  PROVE  TextGoesHome'
<1>1. PICK h, L : Pushed(e, h, L)
  BY PushFacts DEF StartElement
<1>2. status' = "parsing" /\ Push(e)
  BY DEF StartElement
<1>3. KeptAtHome'
  <2> SUFFICES ASSUME NEW n \in DOMAIN doc'
               PROVE  /\ values'[n] = Kept(n)'
                      /\ Refuses(n)' => Range(doc'[n].stray) \subseteq {" "}
    BY DEF KeptAtHome
  <2>1. CASE n \in DOMAIN doc
    <3>1. /\ values[n] = Kept(n)
          /\ Refuses(n) => Range(doc[n].stray) \subseteq {" "}
      BY <2>1 DEF TextGoesHome, KeptAtHome
    <3> QED
      BY <1>2, <2>1, <3>1, StartTree
  <2>2. CASE n = h
    <3>1. /\ values'[n] = << >> /\ doc'[n].heard = << >> /\ doc'[n].text = << >>
          /\ doc'[n].stray = << >>
      BY <1>1, <2>2 DEF Pushed
    <3>2. Range(<< >>) = {}
      BY DEF Range
    <3> QED
      BY <3>1, <3>2 DEF Kept
  <2> QED
    BY <1>1, <2>1, <2>2 DEF Pushed
<1>4. OnlyRefusesStrays'
  BY <1>2 DEF OnlyRefusesStrays
<1>5. \A n \in DOMAIN doc' : KindOf(n)' = "Property" => Len(values'[n]) <= MaxValue
  <2> SUFFICES ASSUME NEW n \in DOMAIN doc', KindOf(n)' = "Property"
               PROVE  Len(values'[n]) <= MaxValue
    OBVIOUS
  <2>1. CASE n \in DOMAIN doc
    BY <1>2, <2>1, StartTree DEF TextGoesHome, WithinLimits
  <2>2. CASE n = h
    <3>1. values'[n] = << >> /\ Len(<< >>) = 0 /\ MaxValue \in Nat
      BY <1>1, <2>2, TextAssumption DEF Pushed, TextAssumption
    <3> QED
      BY <3>1
  <2> QED
    BY <1>1, <2>1, <2>2 DEF Pushed
<1>6. InvCharged' /\ TypeOK'
  BY StartCharged, StartType
<1>7. tableText' \in 0 .. MaxTableText /\ extensionText' \in 0 .. MaxExtension
  BY <1>6 DEF TypeOK
<1>8. /\ tableText' = Charged(TableKinds \cup {"Field"})'
      /\ extensionText' = Charged({"Extension"})'
  BY <1>6 DEF InvCharged
<1>9. /\ Charged(TableKinds \cup {"Field"})' <= MaxTableText
      /\ Charged({"Extension"})' <= MaxExtension
  BY <1>7, <1>8
<1>10. WithinLimits'
  BY <1>5, <1>9 DEF WithinLimits
<1> QED
  BY <1>3, <1>4, <1>10 DEF TextGoesHome

-----------------------------------------------------------------------------
(* end_element, and the steps that only set the status.                       *)

\* The texts are as they were, and no text in an element is refused.
LEMMA SameTexts ==
  ASSUME TextGoesHome, doc' = doc, values' = values, status = "parsing",
         status' = "text" => Top' = 0
  PROVE  TextGoesHome'
<1>1. KeptAtHome'
  <2> SUFFICES ASSUME NEW n \in DOMAIN doc
               PROVE  /\ values[n] = Kept(n)'
                      /\ Refuses(n)' => Range(doc[n].stray) \subseteq {" "}
    BY DEF KeptAtHome
  <2>1. values[n] = Kept(n) /\ (Refuses(n) => Range(doc[n].stray) \subseteq {" "})
    BY DEF TextGoesHome, KeptAtHome
  <2>2. \A m : KindOf(m)' = KindOf(m) /\ FormOf(m)' = FormOf(m)
    BY DEF KindOf, FormOf
  <2>3. Kept(n)' = Kept(n)
    BY <2>2 DEF Kept, TakesText
  <2>4. Blocks' = Blocks
    BY DEF Blocks
  <2>5. Refuses(n)' <=> Refuses(n)
    BY <2>2, <2>4 DEF Refuses
  <2> QED
    BY <2>1, <2>3, <2>5
<1>2. OnlyRefusesStrays'
  BY DEF OnlyRefusesStrays
<1>3. WithinLimits'
  <2>1. \A K : Charged(K)' = Charged(K)
    BY DEF Charged, Charges, KindOf
  <2>2. \A m : KindOf(m)' = KindOf(m)
    BY DEF KindOf
  <2> QED
    BY <2>1, <2>2 DEF TextGoesHome, WithinLimits
<1> QED
  BY <1>1, <1>2, <1>3 DEF TextGoesHome

\* A step that only sets the status leaves everything where it is.
LEMMA StatusTree ==
  ASSUME InvTree, status = "parsing", UNCHANGED <<input, builder>>,
         status' \in {"parsing", "accepted", "limit", "element", "end", "text"},
         status' = "text" => stack = << >>
  PROVE  InvTree'
<1>1. /\ doc' = doc /\ stack' = stack /\ open' = open /\ filled' = filled
      /\ block' = block /\ decoder' = decoder /\ blocks' = blocks /\ values' = values
      /\ tableText' = tableText /\ extensionText' = extensionText
  BY DEF input, builder
<1>2. TypeOK'
  BY <1>1 DEF InvTree, TypeOK
<1>3. /\ \A k : KindAt(k)' = KindAt(k)
      /\ Blocks' = Blocks /\ Top' = Top
  BY <1>1 DEF KindAt, KindOf, Blocks, Top
<1>4. InvPlaces'
  BY <1>1, <1>3 DEF InvTree, InvPlaces, InPlace
<1>5. InvOpen'
  <2>1. \A n : Disturbed(n)' <=> Disturbed(n)
    BY <1>1 DEF Disturbed, KindOf, FormOf
  <2> QED
    BY <1>1, <1>3, <2>1 DEF InvTree, InvOpen
<1>6. InvCharged'
  <2>1. \A K : Charged(K)' = Charged(K)
    BY <1>1 DEF Charged, Charges, KindOf
  <2> QED
    BY <1>1, <2>1 DEF InvTree, InvCharged
<1>7. status' = "text" => Top' = 0
  BY <1>1 DEF Top
<1>8. TextGoesHome'
  BY <1>1, <1>7, SameTexts DEF InvTree
<1> QED
  BY <1>2, <1>4, <1>5, <1>6, <1>8 DEF InvTree

LEMMA FrontFacts ==
  ASSUME NEW S, NEW s \in Seq(S), s # << >>
  PROVE  /\ Front(s) \in Seq(S) /\ Len(Front(s)) = Len(s) - 1
         /\ Len(s) \in Nat \ {0} /\ DOMAIN s = 1 .. Len(s)
         /\ DOMAIN Front(s) = 1 .. Len(s) - 1
         /\ \A k \in 1 .. Len(s) - 1 : Front(s)[k] = s[k]
<1>1. Len(s) \in Nat \ {0} /\ DOMAIN s = 1 .. Len(s)
  OBVIOUS
<1>2. /\ SubSeq(s, 1, Len(s) - 1) \in Seq(S)
      /\ Len(SubSeq(s, 1, Len(s) - 1)) = Len(s) - 1
      /\ DOMAIN SubSeq(s, 1, Len(s) - 1) = 1 .. Len(s) - 1
      /\ \A k \in 1 .. Len(s) - 1 : SubSeq(s, 1, Len(s) - 1)[k] = s[k]
  BY <1>1
<1> QED
  BY <1>1, <1>2 DEF Front

LEMMA EndElementTree ==
  ASSUME InvTree, EndElement
  PROVE  InvTree'
<1> PICK L : L = Len(stack)
  OBVIOUS
<1>1. /\ doc' = doc /\ stack' = Front(stack) /\ stack # << >> /\ block' = 0
      /\ open' = IF Parent \in OpenKinds THEN [open EXCEPT ![Parent] = 0] ELSE open
      /\ status = "parsing" /\ status' = status /\ filled' = filled /\ decoder' = decoder
      /\ blocks' = blocks /\ values' = values
      /\ tableText' = tableText /\ extensionText' = extensionText
  BY DEF EndElement
<1>2. /\ L \in Nat \ {0} /\ DOMAIN stack = 1 .. L /\ stack' \in Seq(DOMAIN doc)
      /\ Len(stack') = L - 1 /\ DOMAIN stack' = 1 .. L - 1
      /\ \A k \in 1 .. L - 1 : stack'[k] = stack[k]
  <2>1. stack \in Seq(DOMAIN doc)
    BY DEF InvTree, TypeOK
  <2> QED
    BY <1>1, <2>1, FrontFacts
<1>3. Parent = KindAt(L) /\ Top = stack[L]
  BY <1>1, StackFacts DEF InvTree
<1>4. /\ \A k \in 0 .. L - 1 : KindAt(k)' = KindAt(k)
      /\ Blocks' = Blocks
  BY <1>1, <1>2 DEF KindAt, KindOf, Blocks
<1>5. open \in [OpenKinds -> 0 .. Len(doc)] /\ Len(doc) \in Nat
  BY StackFacts DEF InvTree, TypeOK
<1>6. TypeOK'
  <2>1. open' \in [OpenKinds -> 0 .. Len(doc)]
    BY <1>1, <1>5
  <2>2. block' \in 0 .. Len(doc)
    BY <1>1, <1>5
  <2> QED
    BY <1>1, <1>2, <2>1, <2>2 DEF InvTree, TypeOK
<1>7. InvPlaces'
  <2> SUFFICES ASSUME NEW k \in 1 .. L - 1
               PROVE  InPlace(k)'
    BY <1>2 DEF InvPlaces
  <2>1. InPlace(k) /\ k < Len(stack) /\ k - 1 \in 0 .. L - 1 /\ k \in 0 .. L - 1
    BY <1>2 DEF InvTree, InvPlaces
  <2>2. Fits(KindAt(k - 1)', KindAt(k)', k)
    BY <1>4, <2>1 DEF InPlace
  <2>3. doc'[stack'[k]].path = {stack'[j] : j \in 1 .. k}
    <3>1. \A j \in 1 .. k : stack'[j] = stack[j]
      BY <1>2
    <3> QED
      BY <1>1, <2>1, <3>1 DEF InPlace
  <2>4. stack'[k] \notin Blocks'
    BY <1>2, <1>4, <2>1 DEF InPlace
  <2> QED
    BY <2>2, <2>3, <2>4 DEF InPlace
<1>8. InvOpen'
  <2>0. /\ \A m : Contains(stack', m) => Contains(stack, m)
        /\ \A m : Contains(stack, m) /\ m # Top => Contains(stack', m)
        /\ \A n : Disturbed(n) => Disturbed(n)'
    <3>1. \A m : Contains(stack', m) => Contains(stack, m)
      BY <1>2 DEF Contains
    <3>2. \A m : Contains(stack, m) /\ m # Top => Contains(stack', m)
      BY <1>2, <1>3 DEF Contains
    <3>3. \A m : KindOf(m)' = KindOf(m) /\ FormOf(m)' = FormOf(m)
      BY <1>1 DEF KindOf, FormOf
    <3> QED
      BY <1>1, <3>1, <3>2, <3>3 DEF Disturbed
  <2>1. ASSUME NEW kind \in OpenKinds, open'[kind] # 0
        PROVE  \E k \in DOMAIN stack' :
                 /\ open'[kind] = stack'[k] /\ KindAt(k)' = kind
                 /\ Opens(doc'[stack'[k]].element)
    <3>1. kind # Parent /\ open'[kind] = open[kind]
      BY <1>1, <1>5, <2>1
    <3>2. PICK k \in DOMAIN stack :
            open[kind] = stack[k] /\ KindAt(k) = kind /\ Opens(doc[stack[k]].element)
      BY <2>1, <3>1 DEF InvTree, InvOpen
    <3>3. k # L
      BY <1>3, <3>1, <3>2
    <3>4. k \in 1 .. L - 1 /\ k \in 0 .. L - 1
      BY <1>2, <3>3
    <3>5. k \in DOMAIN stack' /\ stack'[k] = stack[k] /\ KindAt(k)' = KindAt(k)
      BY <1>2, <1>4, <3>4
    <3> QED
      BY <1>1, <3>1, <3>2, <3>5
  <2>2. ASSUME NEW k \in DOMAIN stack', Opens(doc'[stack'[k]].element),
               ~(KindAt(k)' = "Property" /\ Disturbed(stack[k])')
        PROVE  open'[KindAt(k)'] = stack'[k]
    <3>1. /\ k \in DOMAIN stack /\ k # L /\ k < L /\ L \in DOMAIN stack
          /\ stack'[k] = stack[k] /\ KindAt(k)' = KindAt(k)
      BY <1>2, <1>4
    <3>2. KindAt(k) = "Property" => ~Disturbed(stack[k])' /\ ~Disturbed(stack[k])
      <4>1. PICK n : n = stack[k] /\ n = stack'[k]
        BY <3>1
      <4>2. Disturbed(stack[k])' <=> Disturbed(n)'
        BY <4>1 DEF Disturbed
      <4>3. Disturbed(n) => Disturbed(n)'
        BY <2>0
      <4> QED
        BY <2>2, <3>1, <4>1, <4>2, <4>3
    <3>3. open[KindAt(k)] = stack[k]
      BY <1>1, <2>2, <3>1, <3>2 DEF InvTree, InvOpen
    <3>4. KindAt(k) = Parent => Parent \notin OpenKinds
      <4>1. KindAt(k) = KindAt(L) /\ KindAt(L) \in OpenKinds \ {"Property"} => k = L
        BY <3>1, OneOnStack DEF InvTree
      <4>2. KindAt(k) = "Property" => Parent # "Property"
        <5> SUFFICES ASSUME KindAt(k) = "Property", Parent = "Property"
                     PROVE  FALSE
          OBVIOUS
        <5>1. KindAt(L) = "Property" /\ k \in 1 .. L - 1
          BY <1>2, <1>3, <3>1
        <5>2. \A i \in 1 .. L - 1 : stack[i] # stack[L]
          BY <3>1, <5>1, PropertyOnce DEF InvTree
        <5>3. stack[k] \in doc[Top].path
          <6>1. doc[stack[L]].path = {stack[i] : i \in 1 .. L}
            BY <3>1 DEF InvTree, InvPlaces, InPlace
          <6> QED
            BY <1>2, <1>3, <3>1, <6>1
        <5>4. ~Contains(stack', Top)
          BY <1>2, <1>3, <5>2 DEF Contains
        <5>5. PICK n, m : n = stack[k] /\ m = Top
          OBVIOUS
        <5>6. n = stack'[k] /\ m \in DOMAIN doc' /\ doc' = doc /\ m # 0
          BY <1>1, <3>1, <5>5, StackFacts DEF InvTree
        <5>7. m # n /\ n \in doc'[m].path /\ KindOf(m)' = "Property" /\ ~Contains(stack', m)
          BY <1>1, <1>3, <5>1, <5>2, <5>3, <5>4, <5>5, <5>6 DEF KindOf, Parent
        <5>8. Disturbed(n)'
          BY <5>6, <5>7 DEF Disturbed
        <5>9. Disturbed(stack[k])' <=> Disturbed(n)'
          BY <5>6 DEF Disturbed
        <5> QED
          BY <3>2, <5>8, <5>9
      <4> QED
        BY <1>3, <3>1, <4>1, <4>2
    <3>5. CASE Parent \in OpenKinds
      BY <1>1, <1>3, <1>5, <3>1, <3>3, <3>4, <3>5
    <3>6. CASE Parent \notin OpenKinds
      BY <1>1, <3>1, <3>3, <3>6
    <3> QED
      BY <3>5, <3>6
  <2>3. block' = IF Top' \in Blocks' THEN Top' ELSE 0
    <3>1. CASE L = 1
      <4>1. stack' = << >>
        BY <1>2, <3>1
      <4>2. Top' = 0
        BY <4>1 DEF Top
      <4> QED
        BY <1>1, <4>2
    <3>2. CASE L # 1
      <4>1. stack' # << >> /\ L - 1 \in 1 .. L - 1
        BY <1>2, <3>2
      <4>2. Top' = stack[L - 1]
        BY <1>2, <4>1 DEF Top, Last
      <4>3. InPlace(L - 1) /\ L - 1 < Len(stack)
        BY <1>2, <4>1 DEF InvTree, InvPlaces
      <4>4. Top' \notin Blocks'
        BY <1>4, <4>2, <4>3 DEF InPlace
      <4> QED
        BY <1>1, <4>4
    <3> QED
      BY <3>1, <3>2
  <2>4. open'["Property"] # 0 => ~Disturbed(open["Property"])'
    <3> SUFFICES ASSUME open'["Property"] # 0, Disturbed(open["Property"])'
                 PROVE  FALSE
      OBVIOUS
    <3>1. Parent # "Property" /\ open'["Property"] = open["Property"]
      <4>1. "Property" \in OpenKinds
        BY DEF OpenKinds
      <4> QED
        BY <1>1, <1>5, <4>1
    <3>2. PICK n : n = open["Property"]
      OBVIOUS
    <3>3. Disturbed(n)'
      BY <3>1, <3>2 DEF Disturbed
    <3>4. PICK m \in DOMAIN doc :
            /\ m # n /\ n \in doc[m].path /\ KindOf(m) = "Property"
            /\ FormOf(m) = "text" \/ ~Contains(stack', m)
      BY <1>1, <3>3 DEF Disturbed, KindOf, FormOf
    <3>5. m # Top
      BY <3>1, <3>4 DEF Parent
    <3>6. Disturbed(n)
      BY <2>0, <3>4, <3>5 DEF Disturbed
    <3> QED
      BY <3>1, <3>2, <3>6 DEF InvTree, InvOpen
  <2> QED
    BY <2>1, <2>2, <2>3, <2>4 DEF InvOpen
<1>9. InvCharged'
  <2>1. \A K : Charged(K)' = Charged(K)
    BY <1>1 DEF Charged, Charges, KindOf
  <2> QED
    BY <1>1, <2>1 DEF InvTree, InvCharged
<1>10. TextGoesHome'
  BY <1>1, SameTexts DEF InvTree
<1> QED
  BY <1>6, <1>7, <1>8, <1>9, <1>10 DEF InvTree

-----------------------------------------------------------------------------
(* decode_embedded_text: the decoder and the bytes have their types.          *)

LEMMA StoreType ==
  ASSUME TypeOK, NEW bytes \in Seq(0 .. 255), Store(bytes)
  PROVE  blocks' \in Seq(Seq(0 .. 255)) /\ Len(blocks') = Len(blocks)
<1> PICK o : o = OwnerOf(block)
  OBVIOUS
<1>1. blocks' = [blocks EXCEPT ![o] = blocks[o] \o bytes] /\ blocks \in Seq(Seq(0 .. 255))
  BY DEF Store, TypeOK
<1>2. CASE o \in DOMAIN blocks
  <2>1. blocks[o] \in Seq(0 .. 255)
    BY <1>1, <1>2, SequenceFacts
  <2>2. blocks[o] \o bytes \in Seq(0 .. 255)
    BY <2>1
  <2>3. PICK x \in Seq(0 .. 255) : x = blocks[o] \o bytes
    BY <2>2
  <2>4. blocks' = [blocks EXCEPT ![o] = x]
    BY <1>1, <2>3
  <2> QED
    BY <1>1, <2>4, ExceptFacts
<1>3. CASE o \notin DOMAIN blocks
  <2>1. blocks' = blocks
    BY <1>1, <1>3
  <2> QED
    BY <1>1, <2>1
<1> QED
  BY <1>2, <1>3

DecoderType == [quartet : Seq(0 .. Pad), complete : BOOLEAN, nibble : 0 .. NoNibble,
                encoded : 0 .. MaxEncoded]

LEMMA CountedFacts ==
  ASSUME TypeOK, ~(decoder.encoded >= MaxEncoded)
  PROVE  /\ Counted \in DecoderType /\ decoder \in DecoderType
         /\ Counted.quartet = decoder.quartet /\ Len(decoder.quartet) < 4
         /\ decoder.quartet \in Seq(0 .. Pad) /\ decoder.nibble \in 0 .. NoNibble
<1>1. decoder \in DecoderType /\ Len(decoder.quartet) < 4
  BY DEF TypeOK, DecoderType
<1>2. decoder.encoded \in 0 .. MaxEncoded /\ MaxEncoded \in Nat
  BY <1>1, TextAssumption DEF DecoderType, TextAssumption
<1>3. decoder.encoded + 1 \in 0 .. MaxEncoded
  BY <1>2
<1>4. /\ Counted \in DecoderType /\ Counted.quartet = decoder.quartet
      /\ decoder.quartet \in Seq(0 .. Pad) /\ decoder.nibble \in 0 .. NoNibble
  BY <1>1, <1>3 DEF DecoderType, Counted
<1> QED
  BY <1>1, <1>4

\* A group of four that is canonical and does not begin with the padding stands for
\* one to three bytes.
LEMMA QuartetFacts ==
  ASSUME NEW q \in Seq(0 .. Pad), Len(q) = 4, q[1] # Pad, q[2] # Pad, Canonical(q)
  PROVE  QuartetBytes(q) \in Seq(0 .. 255)
<1>0. \A x \in 0 .. 255 : <<x>> \in Seq(0 .. 255)
  OBVIOUS
<1>1. /\ q[1] \in 0 .. 63 /\ q[2] \in 0 .. 63 /\ q[3] \in 0 .. 64 /\ q[4] \in 0 .. 64
  <2>1. DOMAIN q = 1 .. 4 /\ \A k \in DOMAIN q : q[k] \in 0 .. 64
    BY SequenceFacts DEF Pad
  <2>2. q[1] \in 0 .. 64 /\ q[2] \in 0 .. 64 /\ q[3] \in 0 .. 64 /\ q[4] \in 0 .. 64
    BY <2>1
  <2> QED
    BY <2>2 DEF Pad
<1>2. <<q[1] * 4 + q[2] \div 16>> \in Seq(0 .. 255)
  <2>1. \A a, b \in 0 .. 63 : a * 4 + b \div 16 \in 0 .. 255
    OBVIOUS
  <2>2. q[1] * 4 + q[2] \div 16 \in 0 .. 255
    BY <1>1, <2>1
  <2> QED
    BY <1>0, <2>2
<1>3. q[3] # Pad => <<(q[2] % 16) * 16 + q[3] \div 4>> \in Seq(0 .. 255)
  <2>1. \A a, b \in 0 .. 63 : (a % 16) * 16 + b \div 4 \in 0 .. 255
    OBVIOUS
  <2>2. q[3] # Pad => q[3] \in 0 .. 63
    BY <1>1 DEF Pad
  <2>3. q[3] # Pad => (q[2] % 16) * 16 + q[3] \div 4 \in 0 .. 255
    BY <1>1, <2>1, <2>2
  <2> QED
    BY <1>0, <2>3
<1>4. q[3] # Pad /\ q[4] # Pad => <<(q[3] % 4) * 64 + q[4]>> \in Seq(0 .. 255)
  <2>1. \A a, b \in 0 .. 63 : (a % 4) * 64 + b \in 0 .. 255
    OBVIOUS
  <2>2. q[3] # Pad /\ q[4] # Pad => q[3] \in 0 .. 63 /\ q[4] \in 0 .. 63
    BY <1>1 DEF Pad
  <2>3. q[3] # Pad /\ q[4] # Pad => (q[3] % 4) * 64 + q[4] \in 0 .. 255
    BY <2>1, <2>2
  <2> QED
    BY <1>0, <2>3
<1>5. \A s, t \in Seq(0 .. 255) : s \o t \in Seq(0 .. 255)
  OBVIOUS
<1>6. << >> \in Seq(0 .. 255)
  OBVIOUS
<1> DEFINE third == IF q[4] = Pad THEN << >> ELSE <<(q[3] % 4) * 64 + q[4]>>
           second == IF q[3] = Pad THEN << >>
                     ELSE <<(q[2] % 16) * 16 + q[3] \div 4>> \o third
<1>7. q[3] # Pad => third \in Seq(0 .. 255)
  BY <1>4, <1>6
<1>8. second \in Seq(0 .. 255)
  <2> HIDE DEF third
  <2> QED
    BY <1>3, <1>5, <1>6, <1>7
<1>9. QuartetBytes(q) = <<q[1] * 4 + q[2] \div 16>> \o second
  BY DEF QuartetBytes
<1> HIDE DEF second
<1> QED
  BY <1>2, <1>5, <1>8, <1>9

LEMMA DecodeType ==
  ASSUME TypeOK, NEW c, Decode(c)
  PROVE  /\ decoder' \in DecoderType /\ Len(decoder'.quartet) < 4
         /\ blocks' \in Seq(Seq(0 .. 255)) /\ Len(blocks') = Len(blocks)
         /\ status' \in {status, "limit", "text"}
<1> DEFINE Goal == /\ decoder' \in DecoderType /\ Len(decoder'.quartet) < 4
                   /\ blocks' \in Seq(Seq(0 .. 255)) /\ Len(blocks') = Len(blocks)
                   /\ status' \in {status, "limit", "text"}
<1>1. /\ blocks \in Seq(Seq(0 .. 255)) /\ decoder \in DecoderType
      /\ Len(decoder.quartet) < 4
  BY DEF TypeOK, DecoderType
<1>2. ASSUME UNCHANGED <<decoder, blocks>>, status' \in {status, "limit", "text"}
      PROVE  Goal
  BY <1>1, <1>2
<1>3. \A d \in DOMAIN Nibbles : Nibbles[d] \in 0 .. 15
  BY DEF Nibbles
<1>4. \A d \in DOMAIN Sextets : Sextets[d] \in 0 .. 63
  BY DEF Sextets
<1>5. ASSUME ~(decoder.encoded >= MaxEncoded), TakeNibble(c)
      PROVE  Goal
  <2>1. Nibbles[c] \in 0 .. NoNibble
    BY <1>3, <1>5 DEF TakeNibble, NoNibble
  <2>2. decoder' = [Counted EXCEPT !.nibble = Nibbles[c]]
    BY <1>5 DEF TakeNibble
  <2>3. decoder' \in DecoderType /\ decoder'.quartet = decoder.quartet
    BY <1>5, <2>1, <2>2, CountedFacts DEF DecoderType
  <2> QED
    BY <1>1, <1>5, <2>3 DEF TakeNibble
<1>6. ASSUME ~(decoder.encoded >= MaxEncoded), TakeByte(c)
      PROVE  Goal
  <2>1. CASE Room < 1
    BY <1>2, <1>6, <2>1 DEF TakeByte
  <2>2. CASE ~(Room < 1)
    <3>1. /\ Store(<<decoder.nibble * 16 + Nibbles[c]>>)
          /\ decoder' = [Counted EXCEPT !.nibble = NoNibble]
          /\ status' = status
      BY <1>6, <2>2 DEF TakeByte
    <3>2. <<decoder.nibble * 16 + Nibbles[c]>> \in Seq(0 .. 255)
      <4>1. decoder.nibble \in 0 .. 15 /\ Nibbles[c] \in 0 .. 15
        BY <1>3, <1>6, CountedFacts DEF TakeByte, NoNibble
      <4>2. decoder.nibble * 16 + Nibbles[c] \in 0 .. 255
        BY <4>1
      <4> QED
        BY <4>2
    <3>3. decoder' \in DecoderType /\ decoder'.quartet = decoder.quartet
      BY <1>6, <3>1, CountedFacts DEF DecoderType, NoNibble
    <3> QED
      BY <1>1, <3>1, <3>2, <3>3, StoreType
  <2> QED
    BY <2>1, <2>2
<1>7. ASSUME InBase64(c)
      PROVE  SextetOf(c) \in 0 .. Pad
  BY <1>4, <1>7 DEF InBase64, SextetOf, Pad
<1>8. ASSUME ~(decoder.encoded >= MaxEncoded), TakeSextet(c)
      PROVE  Goal
  <2>1. decoder' = [Counted EXCEPT !.quartet = Append(decoder.quartet, SextetOf(c))]
    BY <1>8, CountedFacts DEF TakeSextet
  <2>2. /\ Append(decoder.quartet, SextetOf(c)) \in Seq(0 .. Pad)
        /\ Len(Append(decoder.quartet, SextetOf(c))) < 4
    <3>1. SextetOf(c) \in 0 .. Pad /\ Len(decoder.quartet) < 3
      BY <1>7, <1>8 DEF TakeSextet
    <3>2. PICK S, s, x : S = 0 .. Pad /\ s = decoder.quartet /\ x = SextetOf(c)
      OBVIOUS
    <3>3. s \in Seq(S) /\ x \in S
      BY <1>8, <3>1, <3>2, CountedFacts
    <3>4. Append(s, x) \in Seq(S) /\ Len(Append(s, x)) = Len(s) + 1 /\ Len(s) \in Nat
      BY <3>3, AppendFacts
    <3>5. Len(Append(s, x)) < 4
      BY <3>1, <3>2, <3>4
    <3> QED
      BY <3>2, <3>4, <3>5
  <2>3. /\ decoder' \in DecoderType
        /\ decoder'.quartet = Append(decoder.quartet, SextetOf(c))
    BY <1>8, <2>1, <2>2, CountedFacts DEF DecoderType
  <2> QED
    BY <1>1, <1>8, <2>2, <2>3 DEF TakeSextet
<1>9. ASSUME ~(decoder.encoded >= MaxEncoded), TakeQuartet(c)
      PROVE  Goal
  <2> PICK q : q = Append(decoder.quartet, SextetOf(c))
    OBVIOUS
  <2>1. q \in Seq(0 .. Pad) /\ Len(q) = 4
    <3>1. SextetOf(c) \in 0 .. Pad /\ Len(decoder.quartet) = 3
      BY <1>7, <1>9 DEF TakeQuartet
    <3>2. PICK S, s, x : S = 0 .. Pad /\ s = decoder.quartet /\ x = SextetOf(c)
      OBVIOUS
    <3>3. s \in Seq(S) /\ x \in S
      BY <1>9, <3>1, <3>2, CountedFacts
    <3>4. Append(s, x) \in Seq(S) /\ Len(Append(s, x)) = Len(s) + 1 /\ Len(s) \in Nat
      BY <3>3, AppendFacts
    <3>5. Len(Append(s, x)) = 4
      BY <3>1, <3>2, <3>4
    <3> QED
      BY <3>2, <3>4, <3>5
  <2>2. CASE q[1] # Pad /\ q[2] # Pad /\ Room >= Len(QuartetBytes(q)) /\ Canonical(q)
    <3>1. /\ Store(QuartetBytes(q))
          /\ decoder' = [Counted EXCEPT !.quartet = << >>, !.complete = q[4] = Pad]
          /\ status' = status
      BY <1>9, <2>2 DEF TakeQuartet
    <3>2. << >> \in Seq(0 .. Pad) /\ Len(<< >>) = 0 /\ (q[4] = Pad) \in BOOLEAN
      OBVIOUS
    <3>3. decoder' \in DecoderType /\ decoder'.quartet = << >>
      BY <1>9, <3>1, <3>2, CountedFacts DEF DecoderType
    <3>4. QuartetBytes(q) \in Seq(0 .. 255)
      BY <2>1, <2>2, QuartetFacts
    <3>5. PICK bytes \in Seq(0 .. 255) : bytes = QuartetBytes(q)
      BY <3>4
    <3>6. blocks' \in Seq(Seq(0 .. 255)) /\ Len(blocks') = Len(blocks)
      BY <3>1, <3>5, StoreType
    <3>7. Len(decoder'.quartet) < 4
      BY <3>2, <3>3
    <3>8. status' \in {status, "limit", "text"}
      BY <3>1
    <3> QED
      BY <3>3, <3>6, <3>7, <3>8
  <2>3. CASE ~(q[1] # Pad /\ q[2] # Pad /\ Room >= Len(QuartetBytes(q)) /\ Canonical(q))
    <3>1. UNCHANGED <<decoder, blocks>> /\ status' \in {"limit", "text"}
      BY <1>9, <2>3 DEF TakeQuartet
    <3> QED
      BY <1>2, <3>1
  <2> QED
    BY <2>2, <2>3
<1>10. ASSUME RefuseCharacter(c)
       PROVE  Goal
  BY <1>2, <1>10 DEF RefuseCharacter
<1>11. CASE c = " "
  <2>1. UNCHANGED <<status, decoder, blocks>>
    BY <1>11 DEF Decode
  <2> QED
    BY <1>2, <2>1
<1>12. CASE c # " " /\ decoder.encoded >= MaxEncoded
  <2>1. status' = "limit" /\ UNCHANGED <<decoder, blocks>>
    BY <1>12 DEF Decode
  <2> QED
    BY <1>2, <2>1
<1>13. CASE c # " " /\ ~(decoder.encoded >= MaxEncoded)
  <2>1. TakeNibble(c) \/ TakeByte(c) \/ TakeSextet(c) \/ TakeQuartet(c) \/ RefuseCharacter(c)
    BY <1>13 DEF Decode
  <2> QED
    BY <1>5, <1>6, <1>8, <1>9, <1>10, <1>13, <2>1
<1>14. Goal
  BY <1>11, <1>12, <1>13
<1> QED
  BY <1>14 DEF Goal

-----------------------------------------------------------------------------
(* character_data: what the indices of the open elements say of a text.       *)

\* An element that keeps its own text and no other.
OwnText(n) == KindOf(n) = "Extension" \/ (KindOf(n) = "Cell" /\ TakesText(n))

LEMMA OwnHome ==
  ASSUME TypeOK, NEW n \in DOMAIN doc, OwnText(n)
  PROVE  n \in Home(n)
BY DEF TypeOK, Home, OwnText

\* What is known of the element that a text comes in: the elements it is in are the
\* open ones, each in its index, a text Property's too unless it was disturbed, and
\* a Cell is the innermost.
Inside ==
  /\ Top \in DOMAIN doc /\ Top # 0 /\ KindOf(Top) = Parent
  /\ doc[Top].path \subseteq DOMAIN doc
  /\ \A n : Contains(stack, n) <=> n \in doc[Top].path
  /\ \A m \in doc[Top].path :
       Opens(doc[m].element) /\ ~(KindOf(m) = "Property" /\ Disturbed(m)) =>
         open[KindOf(m)] = m
  /\ open["Property"] # 0 => ~Disturbed(open["Property"])
  /\ \A kind \in OpenKinds : open[kind] # 0 =>
       /\ open[kind] \in doc[Top].path /\ KindOf(open[kind]) = kind
       /\ Opens(doc[open[kind]].element)
  /\ \A m \in doc[Top].path : KindOf(m) = "Cell" => m = Top
  /\ block = IF Top \in Blocks THEN Top ELSE 0
  /\ InCell <=> block = 0 /\ KindOf(Top) = "Cell"
  /\ InCell => open["Cell"] = Top
  /\ KindOf(Top) \in TableKinds \cup Attached \cup {"Image", "Data", "Extension"} =>
       open["Property"] = 0

LEMMA InsideFacts ==
  ASSUME TypeOK, InvPlaces, InvOpen, stack # << >>
  PROVE  Inside
<1> PICK L : L = Len(stack)
  OBVIOUS
<1>1. /\ L \in Nat \ {0} /\ DOMAIN stack = 1 .. L /\ L \in DOMAIN stack
      /\ Top = stack[L] /\ Top \in DOMAIN doc /\ Top # 0 /\ Parent = KindAt(L)
      /\ \A k \in 1 .. L : stack[k] \in DOMAIN doc /\ stack[k] # 0
      /\ KindAt(0) = "xisf"
      /\ DOMAIN doc = 1 .. Len(doc) /\ Len(doc) \in Nat
  <2>1. DOMAIN stack = 1 .. L /\ L \in DOMAIN stack /\ L \in Nat
    BY StackFacts
  <2>2. /\ Top = stack[L] /\ Top \in DOMAIN doc /\ Parent = KindAt(L)
        /\ \A k \in DOMAIN stack : stack[k] \in DOMAIN doc
        /\ KindAt(0) = "xisf"
        /\ DOMAIN doc = 1 .. Len(doc) /\ Len(doc) \in Nat
    BY StackFacts
  <2> QED
    BY <2>1, <2>2
<1>2. \A k \in 1 .. L : KindAt(k) = KindOf(stack[k])
  BY <1>1 DEF KindAt
<1>3. doc[Top].path = {stack[j] : j \in 1 .. L}
  BY <1>1 DEF InvPlaces, InPlace
<1>4. \A n : Contains(stack, n) <=> n \in doc[Top].path
  BY <1>3 DEF Contains
<1>5. doc[Top].path \subseteq DOMAIN doc
  BY <1>1, <1>3
<1>6. ASSUME NEW m \in doc[Top].path, Opens(doc[m].element),
             ~(KindOf(m) = "Property" /\ Disturbed(m))
      PROVE  open[KindOf(m)] = m
  <2>1. PICK k \in 1 .. L : m = stack[k]
    BY <1>3
  <2> QED
    BY <1>1, <1>2, <1>6, <2>1 DEF InvOpen
<1>7. ASSUME NEW kind \in OpenKinds, open[kind] # 0
      PROVE  /\ open[kind] \in doc[Top].path /\ KindOf(open[kind]) = kind
             /\ Opens(doc[open[kind]].element)
  <2>1. PICK k \in DOMAIN stack :
          open[kind] = stack[k] /\ KindAt(k) = kind /\ Opens(doc[stack[k]].element)
    BY <1>7 DEF InvOpen
  <2> QED
    BY <1>1, <1>2, <1>3, <2>1
<1>8. ASSUME NEW k \in 1 .. L, KindAt(k) = "Cell"
      PROVE  k = L
  <2> SUFFICES ASSUME k # L PROVE FALSE
    OBVIOUS
  <2>1. k + 1 \in DOMAIN stack /\ (k + 1) - 1 = k
    BY <1>1
  <2>2. Fits(KindAt(k), KindAt(k + 1), k + 1)
    BY <2>1 DEF InvPlaces, InPlace
  <2> QED
    BY <1>8, <2>2 DEF Fits
<1>9. \A m \in doc[Top].path : KindOf(m) = "Cell" => m = Top
  BY <1>1, <1>2, <1>3, <1>8
<1>10. block = IF Top \in Blocks THEN Top ELSE 0
  BY DEF InvOpen
<1>11. {"Table", "Row", "Cell", "Property"} \subseteq OpenKinds
  BY DEF OpenKinds, TableKinds
<1>12. InCell => block = 0 /\ KindOf(Top) = "Cell" /\ open["Cell"] = Top
  <2> SUFFICES ASSUME InCell
               PROVE  block = 0 /\ KindOf(Top) = "Cell" /\ open["Cell"] = Top
    OBVIOUS
  <2>1. block = 0 /\ open["Cell"] # 0
    BY DEF InCell
  <2> QED
    BY <1>7, <1>9, <1>11, <2>1
<1>13. block = 0 /\ KindOf(Top) = "Cell" => InCell
  <2> SUFFICES ASSUME block = 0, KindOf(Top) = "Cell"
               PROVE  InCell
    OBVIOUS
  <2>1. KindAt(L) = "Cell" /\ Fits(KindAt(L - 1), KindAt(L), L)
    BY <1>1, <1>2 DEF InvPlaces, InPlace
  <2>2. KindAt(L - 1) = "Row"
    BY <2>1 DEF Fits
  <2>3. L - 1 \in 1 .. L
    BY <1>1, <2>2
  <2>4. Fits(KindAt((L - 1) - 1), KindAt(L - 1), L - 1)
    BY <1>1, <2>3 DEF InvPlaces, InPlace
  <2>5. KindAt((L - 1) - 1) = "Table"
    BY <2>2, <2>4 DEF Fits
  <2>6. (L - 1) - 1 \in 1 .. L
    BY <1>1, <2>3, <2>5
  <2>7. ASSUME NEW k \in 1 .. L, KindAt(k) \in {"Table", "Row", "Cell"}
        PROVE  open[KindAt(k)] # 0
    <3>1. KindAt(k) = doc[stack[k]].element.kind /\ k \in DOMAIN stack
      BY <1>1, StackFacts
    <3>2. Opens(doc[stack[k]].element)
      BY <1>11, <2>7, <3>1 DEF Opens
    <3> QED
      BY <1>1, <2>7, <3>1, <3>2 DEF InvOpen
  <2>8. open["Cell"] # 0 /\ open["Row"] # 0 /\ open["Table"] # 0
    BY <1>1, <2>1, <2>2, <2>3, <2>5, <2>6, <2>7
  <2> QED
    BY <2>8 DEF InCell
<1>14. ASSUME KindOf(Top) \in TableKinds \cup Attached \cup {"Image", "Data", "Extension"}
       PROVE  open["Property"] = 0
  <2> SUFFICES ASSUME open["Property"] # 0
               PROVE  FALSE
    OBVIOUS
  <2>1. PICK k \in DOMAIN stack : open["Property"] = stack[k] /\ KindAt(k) = "Property"
    BY <1>11 DEF InvOpen
  <2>2. KindAt(L) = KindOf(Top)
    BY <1>1, <1>2
  <2>3. k < L
    BY <1>1, <1>14, <2>1, <2>2 DEF TableKinds, Attached
  <2> QED
    BY <1>1, <1>14, <2>1, <2>2, <2>3, OneOnStack
<1>15. open["Property"] # 0 => ~Disturbed(open["Property"])
  BY DEF InvOpen
<1> QED
  BY <1>1, <1>2, <1>4, <1>5, <1>6, <1>7, <1>9, <1>10, <1>12, <1>13, <1>14, <1>15 DEF Inside

\* A text has come: it is in the records of the elements it is in, and nothing
\* else of the header has changed.
Texted(c) ==
  /\ doc' \in Seq(Entry) /\ DOMAIN doc' = DOMAIN doc /\ Len(doc') = Len(doc)
  /\ \A n \in DOMAIN doc :
       /\ doc'[n].element = doc[n].element /\ doc'[n].parent = doc[n].parent
       /\ doc'[n].path = doc[n].path
       /\ doc'[n].text = IF n = Top THEN Append(doc[n].text, c) ELSE doc[n].text
       /\ doc'[n].heard = IF Contains(stack, n) /\ block = 0 /\ ~Disturbed(n)
                          THEN Append(doc[n].heard, c) ELSE doc[n].heard
       /\ doc'[n].stray = IF n = Top /\ Home(n) = {} THEN Append(doc[n].stray, c)
                          ELSE doc[n].stray
       /\ KindOf(n)' = KindOf(n) /\ FormOf(n)' = FormOf(n)
       /\ Home(n)' = Home(n) /\ (Refuses(n)' <=> Refuses(n))
  /\ \A n : Disturbed(n)' <=> Disturbed(n)
  /\ stack' = stack /\ open' = open /\ filled' = filled /\ block' = block
  /\ \A k \in 0 .. Len(stack) : KindAt(k)' = KindAt(k)
  /\ Blocks' = Blocks /\ Top' = Top

LEMMA TextedFacts ==
  ASSUME TypeOK, NEW c \in Alphabet, CharacterData(c)
  PROVE  Texted(c)
<1> DEFINE Heard(n) == Contains(stack, n) /\ block = 0 /\ ~Disturbed(n)
           Strays(n) == n = Top /\ Home(n) = {}
<1>1. /\ doc' = [n \in DOMAIN doc |->
                   [doc[n] EXCEPT !.text = IF n = Top THEN Append(@, c) ELSE @,
                                  !.heard = IF Heard(n) THEN Append(@, c) ELSE @,
                                  !.stray = IF Strays(n) THEN Append(@, c) ELSE @]]
      /\ stack' = stack /\ open' = open /\ filled' = filled /\ block' = block
  BY DEF CharacterData
<1> HIDE DEF Heard, Strays
<1>2. DOMAIN doc' = DOMAIN doc
  BY <1>1
<1>3. ASSUME NEW n \in DOMAIN doc
      PROVE  /\ doc'[n].element = doc[n].element /\ doc'[n].parent = doc[n].parent
             /\ doc'[n].path = doc[n].path
             /\ doc'[n].text = IF n = Top THEN Append(doc[n].text, c) ELSE doc[n].text
             /\ doc'[n].heard = IF Heard(n) THEN Append(doc[n].heard, c) ELSE doc[n].heard
             /\ doc'[n].stray = IF Strays(n) THEN Append(doc[n].stray, c) ELSE doc[n].stray
             /\ doc'[n] \in Entry /\ n # 0
  <2>1. doc[n] \in Entry /\ n # 0
    BY StackFacts
  <2>2. /\ doc[n].text \in Seq(Alphabet) /\ doc[n].heard \in Seq(Alphabet)
        /\ doc[n].stray \in Seq(Alphabet)
    BY <2>1 DEF Entry
  <2>3. /\ Append(doc[n].text, c) \in Seq(Alphabet) /\ Append(doc[n].heard, c) \in Seq(Alphabet)
        /\ Append(doc[n].stray, c) \in Seq(Alphabet)
    BY <2>2, AppendFacts
  <2> PICK t, u, v : /\ t = IF n = Top THEN Append(doc[n].text, c) ELSE doc[n].text
                     /\ u = IF Heard(n) THEN Append(doc[n].heard, c) ELSE doc[n].heard
                     /\ v = IF Strays(n) THEN Append(doc[n].stray, c) ELSE doc[n].stray
    OBVIOUS
  <2>4. t \in Seq(Alphabet) /\ u \in Seq(Alphabet) /\ v \in Seq(Alphabet)
    BY <2>2, <2>3
  <2>5. doc'[n] = [doc[n] EXCEPT !.text = t, !.heard = u, !.stray = v]
    BY <1>1, <2>1 DEF Entry
  <2>6. /\ doc'[n] \in Entry /\ doc'[n].element = doc[n].element
        /\ doc'[n].parent = doc[n].parent /\ doc'[n].path = doc[n].path
        /\ doc'[n].text = t /\ doc'[n].heard = u /\ doc'[n].stray = v
    BY <2>1, <2>4, <2>5 DEF Entry
  <2> QED
    BY <2>1, <2>6
<1>4. doc' \in Seq(Entry) /\ Len(doc') = Len(doc)
  <2>1. DOMAIN doc = 1 .. Len(doc) /\ Len(doc) \in Nat
    BY StackFacts
  <2>2. doc' = [n \in 1 .. Len(doc) |-> doc'[n]]
    BY <1>1, <2>1
  <2> QED
    BY <1>3, <2>1, <2>2, IsSequence
<1>5. \A n \in DOMAIN doc : KindOf(n)' = KindOf(n) /\ FormOf(n)' = FormOf(n)
  BY <1>2, <1>3 DEF KindOf, FormOf
<1>6. \A k \in 0 .. Len(stack) : KindAt(k)' = KindAt(k)
  <2> SUFFICES ASSUME NEW k \in 0 .. Len(stack)
               PROVE  KindAt(k)' = KindAt(k)
    OBVIOUS
  <2>1. k # 0 => stack[k] \in DOMAIN doc
    <3>1. k # 0 => k \in DOMAIN stack
      BY StackFacts
    <3> QED
      BY <3>1, StackFacts
  <2> QED
    BY <1>1, <1>5, <2>1 DEF KindAt
<1>7. Blocks' = Blocks
  BY <1>2, <1>3 DEF Blocks
<1>8. Top' = Top
  BY <1>1 DEF Top
<1>9. \A n : Disturbed(n)' <=> Disturbed(n)
  BY <1>1, <1>2, <1>3, <1>5 DEF Disturbed
<1>10. ASSUME NEW n \in DOMAIN doc
       PROVE  Home(n)' = Home(n) /\ (Refuses(n)' <=> Refuses(n))
  <2>1. doc'[n].path = doc[n].path /\ doc[n].path \subseteq DOMAIN doc
    <3>1. doc[n].path \subseteq 1 .. n /\ DOMAIN doc = 1 .. Len(doc) /\ Len(doc) \in Nat
      BY StackFacts DEF TypeOK
    <3> QED
      BY <1>3, <3>1
  <2>2. \A m \in doc[n].path : KindOf(m)' = KindOf(m) /\ FormOf(m)' = FormOf(m)
    BY <1>5, <2>1
  <2>3. Home(n)' = Home(n)
    BY <1>9, <2>1, <2>2 DEF Home, TakesText
  <2>4. \A i \in DOMAIN doc :
           /\ i \in DOMAIN doc' /\ doc'[i].path = doc[i].path
           /\ KindOf(i)' = KindOf(i) /\ FormOf(i)' = FormOf(i)
           /\ i \in Blocks' <=> i \in Blocks
    BY <1>2, <1>3, <1>5, <1>7
  <2>5. Refuses(n)' <=> Refuses(n)
    BY <2>4, SameTree
  <2> QED
    BY <2>3, <2>5
<1> QED
  BY <1>1, <1>2, <1>3, <1>4, <1>5, <1>6, <1>7, <1>8, <1>9, <1>10 DEF Texted, Heard, Strays

\* The text is not kept: it is in a block, has no one to keep it, or is refused.
NothingKept(c) ==
  /\ values' = values /\ tableText' = tableText /\ extensionText' = extensionText
  /\ status' \in {"parsing", "limit", "text"}
  /\ status' = "parsing" =>
       /\ ~OwnText(Top) /\ (block # 0 \/ open["Property"] = 0)
       /\ Refuses(Top) /\ Home(Top) = {} => c = " "
  /\ status' = "text" /\ block = 0 => Refuses(Top) /\ Home(Top) = {}

\* The text is kept by the element at place m, and counted where it has to be.
OneKept(m, c) ==
  /\ m \in DOMAIN doc /\ status' = "parsing"
  /\ values' = [values EXCEPT ![m] = Append(values[m], c)]
  /\ \/ /\ m = Top /\ OwnText(Top) /\ KindOf(m) = "Cell"
        /\ tableText' = tableText + 1 /\ tableText' <= MaxTableText
        /\ extensionText' = extensionText
     \/ /\ m = Top /\ OwnText(Top) /\ KindOf(m) = "Extension"
        /\ extensionText' = extensionText + 1 /\ extensionText' <= MaxExtension
        /\ tableText' = tableText
     \/ /\ m = open["Property"] /\ KindOf(m) = "Property" /\ block = 0
        /\ KindOf(Top) \notin {"Cell", "Extension"}
        /\ Len(values[m]) + 1 <= MaxValue
        /\ tableText' = tableText /\ extensionText' = extensionText

LEMMA BlockText ==
  ASSUME TypeOK, Inside, NEW c \in Alphabet, status = "parsing", Decode(c)
  PROVE  NothingKept(c)
<1>1. /\ values' = values /\ tableText' = tableText /\ extensionText' = extensionText
      /\ block # 0
  BY DEF Decode
<1>2. status' \in {"parsing", "limit", "text"}
  BY DecodeType
<1>3. Top \in Blocks
  BY <1>1 DEF Inside
<1>4. ~Refuses(Top)
  BY <1>3 DEF Refuses
<1>5. ~OwnText(Top)
  <2>1. KindOf(Top) = doc[Top].element.kind /\ Top \in DOMAIN doc
    BY StackFacts DEF Inside
  <2>2. HasBlock(doc[Top].element)
    BY <1>3 DEF Blocks
  <2> QED
    BY <2>1, <2>2 DEF OwnText, HasBlock
<1> QED
  BY <1>1, <1>2, <1>3, <1>4, <1>5 DEF NothingKept

\* The element that text outside of blocks, Cells and extensions is refused in.
LEMMA NoPlaceMeansRefused ==
  ASSUME TypeOK, Inside, block = 0, ~InCell, ~InExtension, open["Property"] = 0
  PROVE  Home(Top) = {} /\ (NoPlaceForText <=> Refuses(Top))
<1>1. /\ Top \in DOMAIN doc /\ Top # 0 /\ KindOf(Top) = Parent /\ Top \notin Blocks
      /\ KindOf(Top) \notin {"Cell", "Extension"}
      /\ doc[Top].path \subseteq DOMAIN doc
  BY DEF Inside, InExtension
<1>2. ASSUME NEW m \in doc[Top].path, KindOf(m) \in OpenKinds \ {"Property"}
      PROVE  open[KindOf(m)] = m /\ m # 0
  <2>1. m \in DOMAIN doc
    BY <1>1
  <2>2. KindOf(m) = doc[m].element.kind /\ m # 0
    BY <2>1, StackFacts
  <2>3. Opens(doc[m].element)
    BY <1>2, <2>2 DEF Opens
  <2> QED
    BY <1>2, <2>2, <2>3 DEF Inside
<1>3. Home(Top) = {}
  <2> SUFFICES ASSUME NEW m \in Home(Top)
               PROVE  FALSE
    OBVIOUS
  <2>1. m \in doc[Top].path /\ m \in DOMAIN doc
    BY <1>1 DEF Home
  <2>2. KindOf(m) = "Property" /\ FormOf(m) = "text" /\ ~Disturbed(m)
    BY <1>1 DEF Home
  <2>3. KindOf(m) = doc[m].element.kind /\ m # 0
    BY <2>1, StackFacts
  <2>4. Opens(doc[m].element)
    BY <2>2, <2>3 DEF Opens, OpenKinds, FormOf
  <2> QED
    BY <2>1, <2>2, <2>3, <2>4 DEF Inside
<1>4. OpenKinds = {"Image", "Thumbnail", "Property", "Table", "Structure", "Row", "Cell"}
  BY DEF OpenKinds, TableKinds
<1>5. ASSUME NoPlaceForText
      PROVE  Refuses(Top)
  <2>1. CASE InBare
    BY <1>1, <2>1 DEF InBare, Refuses
  <2>2. CASE \E k \in {"Thumbnail", "Table", "Structure", "Row"} : open[k] # 0
    <3>1. PICK k \in {"Thumbnail", "Table", "Structure", "Row"} : open[k] # 0
      BY <2>2
    <3>2. open[k] \in doc[Top].path /\ KindOf(open[k]) = k
      BY <1>4, <3>1 DEF Inside
    <3> QED
      BY <1>1, <3>2 DEF Refuses, TableKinds
  <2>3. CASE open["Image"] # 0 /\ FormOf(open["Image"]) = "embedded"
    <3>1. open["Image"] \in doc[Top].path /\ KindOf(open["Image"]) = "Image"
      BY <1>4, <2>3 DEF Inside
    <3> QED
      BY <1>1, <2>3, <3>1 DEF Refuses
  <2> QED
    BY <1>1, <1>5, <2>1, <2>2, <2>3 DEF NoPlaceForText
<1>6. ASSUME Refuses(Top)
      PROVE  NoPlaceForText
  <2>1. CASE KindOf(Top) \in {"Ancillary", "ICCProfile"}
    BY <1>1, <2>1 DEF NoPlaceForText, InBare
  <2>2. ASSUME NEW m \in doc[Top].path, KindOf(m) \in TableKinds \cup {"Thumbnail"}
        PROVE  NoPlaceForText
    <3>1. KindOf(m) # "Cell"
      BY <1>1 DEF Inside
    <3>2. KindOf(m) \in {"Thumbnail", "Table", "Structure", "Row"}
      BY <2>2, <3>1 DEF TableKinds
    <3> QED
      BY <1>2, <1>4, <3>2 DEF NoPlaceForText
  <2>3. ASSUME NEW m \in doc[Top].path, KindOf(m) = "Image", FormOf(m) = "embedded"
        PROVE  NoPlaceForText
    BY <1>2, <1>4, <2>3 DEF NoPlaceForText
  <2> QED
    BY <1>6, <2>1, <2>2, <2>3 DEF Refuses
<1> QED
  BY <1>3, <1>5, <1>6

\* Text in a Cell that takes none is refused.
LEMMA CellMeansRefused ==
  ASSUME TypeOK, Inside, InCell, ~TakesText(Top)
  PROVE  Refuses(Top) /\ Home(Top) = {} /\ ~OwnText(Top) /\ open["Property"] = 0
<1>1. /\ Top \in DOMAIN doc /\ block = 0 /\ KindOf(Top) = "Cell" /\ Top \notin Blocks
      /\ doc[Top].path \subseteq DOMAIN doc
  BY DEF Inside
<1>2. open["Property"] = 0
  BY <1>1 DEF Inside, TableKinds
<1>3. Home(Top) = {}
  <2> SUFFICES ASSUME NEW m \in Home(Top)
               PROVE  FALSE
    OBVIOUS
  <2>1. m \in doc[Top].path /\ m \in DOMAIN doc
    BY <1>1 DEF Home
  <2>2. KindOf(m) = "Property" /\ FormOf(m) = "text" /\ ~Disturbed(m)
    BY <1>1 DEF Home
  <2>3. KindOf(m) = doc[m].element.kind /\ m # 0
    BY <2>1, StackFacts
  <2>4. Opens(doc[m].element)
    BY <2>2, <2>3 DEF Opens, OpenKinds, FormOf
  <2> QED
    BY <1>2, <2>1, <2>2, <2>3, <2>4 DEF Inside
<1>4. Top \in doc[Top].path
  BY <1>1 DEF TypeOK
<1>5. Refuses(Top)
  BY <1>1, <1>4 DEF Refuses, TableKinds
<1> QED
  BY <1>1, <1>2, <1>3, <1>5 DEF OwnText

\* A text that is kept grows by one, one that is refused stays as it is.
LEMMA KeepFacts ==
  ASSUME TypeOK, NEW m \in DOMAIN doc, NEW c \in Alphabet, NEW room \in Int, Keep(m, c, room)
  PROVE  \/ /\ status' = "limit" /\ values' = values
            /\ Len(values'[m]) = Len(values[m]) /\ Len(values[m]) \in Nat
         \/ /\ status' = status /\ 1 <= room
            /\ values' = [values EXCEPT ![m] = Append(values[m], c)]
            /\ Len(values'[m]) = Len(values[m]) + 1 /\ Len(values[m]) \in Nat
<1>1. values[m] \in Seq(Alphabet) /\ DOMAIN values = DOMAIN doc
  BY StackFacts
<1>2. /\ Append(values[m], c) \in Seq(Alphabet)
      /\ Len(Append(values[m], c)) = Len(values[m]) + 1
      /\ Len(values[m]) \in Nat
  BY <1>1, AppendFacts
<1>3. CASE room < 1
  BY <1>2, <1>3 DEF Keep
<1>4. CASE ~(room < 1)
  <2>1. values' = [values EXCEPT ![m] = Append(values[m], c)] /\ status' = status
    BY <1>4 DEF Keep
  <2>2. values'[m] = Append(values[m], c)
    BY <1>1, <2>1
  <2> QED
    BY <1>2, <1>4, <2>1, <2>2
<1> QED
  BY <1>3, <1>4

LEMMA TextOutcome ==
  ASSUME TypeOK, Inside, NEW c \in Alphabet, status = "parsing", CharacterData(c)
  PROVE  NothingKept(c) \/ \E m : OneKept(m, c)
<1>0. /\ Top \in DOMAIN doc /\ KindOf(Top) = Parent
      /\ MaxTableText \in Nat /\ MaxExtension \in Nat /\ MaxValue \in Nat
      /\ tableText \in Nat /\ extensionText \in Nat
  <2>1. tableText \in 0 .. MaxTableText /\ extensionText \in 0 .. MaxExtension
    BY DEF TypeOK
  <2>2. MaxTableText \in Nat /\ MaxExtension \in Nat /\ MaxValue \in Nat
    BY TextAssumption DEF TextAssumption
  <2>3. Top \in DOMAIN doc /\ KindOf(Top) = Parent
    BY DEF Inside
  <2> QED
    BY <2>1, <2>2, <2>3
<1>1. CASE Decode(c)
  BY <1>1, BlockText
<1>2. CASE CellText(c)
  <2>1. InCell /\ open["Cell"] = Top /\ KindOf(Top) = "Cell" /\ block = 0
    BY <1>2 DEF CellText, Inside
  <2>2. CASE TakesText(Top)
    <3>1. /\ Keep(Top, c, MaxTableText - tableText)
          /\ tableText' = tableText + Len(values'[Top]) - Len(values[Top])
          /\ extensionText' = extensionText
      BY <1>2, <2>1, <2>2 DEF CellText
    <3>2. MaxTableText - tableText \in Int
      BY <1>0
    <3>3. \/ /\ status' = "limit" /\ values' = values
             /\ Len(values'[Top]) = Len(values[Top]) /\ Len(values[Top]) \in Nat
          \/ /\ status' = status /\ 1 <= MaxTableText - tableText
             /\ values' = [values EXCEPT ![Top] = Append(values[Top], c)]
             /\ Len(values'[Top]) = Len(values[Top]) + 1 /\ Len(values[Top]) \in Nat
      BY <1>0, <3>1, <3>2, KeepFacts
    <3>4. CASE /\ status' = "limit" /\ values' = values
               /\ Len(values'[Top]) = Len(values[Top]) /\ Len(values[Top]) \in Nat
      <4>1. tableText' = tableText
        BY <1>0, <3>1, <3>4
      <4> QED
        BY <3>1, <3>4, <4>1 DEF NothingKept
    <3>5. CASE /\ status' = status /\ 1 <= MaxTableText - tableText
               /\ values' = [values EXCEPT ![Top] = Append(values[Top], c)]
               /\ Len(values'[Top]) = Len(values[Top]) + 1 /\ Len(values[Top]) \in Nat
      <4>1. tableText' = tableText + 1 /\ tableText' <= MaxTableText
        <5>1. PICK a, b : a = Len(values'[Top]) /\ b = Len(values[Top])
          OBVIOUS
        <5>2. tableText' = tableText + a - b /\ a = b + 1 /\ b \in Nat
          BY <3>1, <3>5, <5>1
        <5>3. tableText + 1 <= MaxTableText
          BY <1>0, <3>5
        <5> QED
          BY <1>0, <5>2, <5>3
      <4>2. OwnText(Top)
        BY <2>1, <2>2 DEF OwnText
      <4>3. OneKept(Top, c)
        BY <1>0, <2>1, <3>1, <3>5, <4>1, <4>2 DEF OneKept
      <4> QED
        BY <4>3
    <3> QED
      BY <3>3, <3>4, <3>5
  <2>3. CASE ~TakesText(Top)
    <3>1. PassOver(c, FALSE)
      BY <1>2, <2>1, <2>3 DEF CellText
    <3>2. Refuses(Top) /\ Home(Top) = {} /\ ~OwnText(Top) /\ open["Property"] = 0
      BY <2>1, <2>3, CellMeansRefused
    <3> QED
      BY <2>1, <3>1, <3>2 DEF PassOver, NothingKept
  <2> QED
    BY <2>2, <2>3
<1>3. CASE ExtensionTextIn(c)
  <2>1. KindOf(Top) = "Extension" /\ OwnText(Top)
    BY <1>0, <1>3 DEF ExtensionTextIn, InExtension, OwnText
  <2>2. /\ Keep(Top, c, MaxExtension - extensionText)
        /\ extensionText' = extensionText + Len(values'[Top]) - Len(values[Top])
        /\ tableText' = tableText
    BY <1>3 DEF ExtensionTextIn
  <2>3. MaxExtension - extensionText \in Int
    BY <1>0
  <2>4. \/ /\ status' = "limit" /\ values' = values
           /\ Len(values'[Top]) = Len(values[Top]) /\ Len(values[Top]) \in Nat
        \/ /\ status' = status /\ 1 <= MaxExtension - extensionText
           /\ values' = [values EXCEPT ![Top] = Append(values[Top], c)]
           /\ Len(values'[Top]) = Len(values[Top]) + 1 /\ Len(values[Top]) \in Nat
    BY <1>0, <2>2, <2>3, KeepFacts
  <2>5. CASE /\ status' = "limit" /\ values' = values
             /\ Len(values'[Top]) = Len(values[Top]) /\ Len(values[Top]) \in Nat
    <3>1. extensionText' = extensionText
      BY <1>0, <2>2, <2>5
    <3> QED
      BY <2>2, <2>5, <3>1 DEF NothingKept
  <2>6. CASE /\ status' = status /\ 1 <= MaxExtension - extensionText
             /\ values' = [values EXCEPT ![Top] = Append(values[Top], c)]
             /\ Len(values'[Top]) = Len(values[Top]) + 1 /\ Len(values[Top]) \in Nat
    <3>1. extensionText' = extensionText + 1 /\ extensionText' <= MaxExtension
      <4>1. PICK a, b : a = Len(values'[Top]) /\ b = Len(values[Top])
        OBVIOUS
      <4>2. extensionText' = extensionText + a - b /\ a = b + 1 /\ b \in Nat
        BY <2>2, <2>6, <4>1
      <4>3. extensionText + 1 <= MaxExtension
        BY <1>0, <2>6
      <4> QED
        BY <1>0, <4>2, <4>3
    <3>2. OneKept(Top, c)
      BY <1>0, <2>1, <2>2, <2>6, <3>1 DEF OneKept
    <3> QED
      BY <3>2
  <2> QED
    BY <2>4, <2>5, <2>6
<1>4. CASE PropertyText(c)
  <2> PICK m : m = open["Property"]
    OBVIOUS
  <2>1. /\ block = 0 /\ ~InCell /\ ~InExtension /\ m # 0
        /\ Keep(m, c, MaxValue - Len(values[m]))
        /\ tableText' = tableText /\ extensionText' = extensionText
    BY <1>4 DEF PropertyText
  <2>2. m \in DOMAIN doc /\ KindOf(m) = "Property"
    BY <2>1 DEF Inside, OpenKinds
  <2>3. KindOf(Top) \notin {"Cell", "Extension"}
    BY <1>0, <2>1 DEF Inside, InExtension
  <2>4. values[m] \in Seq(Alphabet)
    BY <2>2, StackFacts
  <2>5. MaxValue - Len(values[m]) \in Int
    BY <1>0, <2>4
  <2>6. \/ /\ status' = "limit" /\ values' = values
        \/ /\ status' = status /\ 1 <= MaxValue - Len(values[m])
           /\ values' = [values EXCEPT ![m] = Append(values[m], c)]
           /\ Len(values[m]) \in Nat
    BY <2>1, <2>2, <2>5, KeepFacts
  <2>7. CASE status' = "limit" /\ values' = values
    BY <2>1, <2>7 DEF NothingKept
  <2>8. CASE /\ status' = status /\ 1 <= MaxValue - Len(values[m])
             /\ values' = [values EXCEPT ![m] = Append(values[m], c)]
             /\ Len(values[m]) \in Nat
    <3>1. Len(values[m]) + 1 <= MaxValue
      BY <1>0, <2>8
    <3>2. OneKept(m, c)
      BY <2>1, <2>2, <2>3, <2>8, <3>1 DEF OneKept
    <3> QED
      BY <3>2
  <2> QED
    BY <2>6, <2>7, <2>8
<1>5. CASE OtherText(c)
  <2>1. /\ block = 0 /\ ~InCell /\ ~InExtension
        /\ open["Property"] = 0 \/ (InBare /\ c # " ")
        /\ PassOver(c, ~NoPlaceForText)
    BY <1>5 DEF OtherText
  <2>2. open["Property"] = 0
    BY <1>0, <2>1 DEF Inside, InBare, Attached
  <2>3. Home(Top) = {} /\ (NoPlaceForText <=> Refuses(Top))
    BY <2>1, <2>2, NoPlaceMeansRefused
  <2>4. ~OwnText(Top)
    BY <1>0, <2>1 DEF Inside, InExtension, OwnText
  <2>5. /\ status' = IF c # " " /\ NoPlaceForText THEN "text" ELSE status
        /\ values' = values /\ tableText' = tableText /\ extensionText' = extensionText
    BY <2>1 DEF PassOver
  <2> QED
    BY <2>2, <2>3, <2>4, <2>5 DEF NothingKept
<1> QED
  BY <1>1, <1>2, <1>3, <1>4, <1>5 DEF CharacterData

-----------------------------------------------------------------------------
(* character_data keeps the invariant.                                        *)

\* A text that is kept makes the sum of its kinds one more.
LEMMA TextCharges ==
  ASSUME TypeOK, NEW c \in Alphabet, Texted(c), NEW m \in DOMAIN doc,
         values' = [values EXCEPT ![m] = Append(values[m], c)], NEW K
  PROVE  Charged(K)' = Charged(K) + IF KindOf(m) \in K THEN 1 ELSE 0
<1> PICK n, a, b : n = Len(doc) /\ a = Charges(K) /\ b = Charges(K)'
  OBVIOUS
<1>1. /\ n \in Nat /\ DOMAIN doc = 1 .. n /\ DOMAIN doc' = 1 .. n /\ Len(doc') = n
      /\ DOMAIN values = 1 .. n
  BY StackFacts DEF Texted
<1>2. ASSUME NEW i \in 1 .. n
      PROVE  /\ a[i] = IF KindOf(i) \in K THEN doc[i].element.bytes + Len(values[i]) ELSE 0
             /\ a[i] \in Nat
             /\ b[i] = IF KindOf(i) \in K THEN doc[i].element.bytes + Len(values'[i]) ELSE 0
  <2>1. /\ a[i] = IF KindOf(i) \in K THEN doc[i].element.bytes + Len(values[i]) ELSE 0
        /\ a[i] \in Nat
    BY ChargesAreNumbers
  <2>2. b[i] = IF KindOf(i)' \in K THEN doc'[i].element.bytes + Len(values'[i]) ELSE 0
    BY <1>1 DEF Charges
  <2>3. KindOf(i)' = KindOf(i) /\ doc'[i].element = doc[i].element
    BY <1>1 DEF Texted
  <2> QED
    BY <2>1, <2>2, <2>3
<1>3. ASSUME NEW i \in 1 .. n
      PROVE  b[i] = a[i] + IF i = m THEN (IF KindOf(m) \in K THEN 1 ELSE 0) ELSE 0
  <2>1. values[i] \in Seq(Alphabet) /\ doc[i].element.bytes \in Nat
    <3>1. i \in DOMAIN doc
      BY <1>1
    <3>2. values[i] \in Seq(Alphabet) /\ doc[i].element \in Vocabulary
      BY <3>1, StackFacts
    <3> QED
      BY <3>2, ElementFacts
  <2>2. CASE i = m
    <3>1. values'[i] = Append(values[i], c)
      BY <1>1, <2>2
    <3>2. Len(values'[i]) = Len(values[i]) + 1 /\ Len(values[i]) \in Nat
      BY <2>1, <3>1, AppendFacts
    <3>3. PICK x, y : x = Len(values[i]) /\ y = doc[i].element.bytes
      OBVIOUS
    <3>4. /\ x \in Nat /\ y \in Nat
          /\ a[i] = IF KindOf(m) \in K THEN y + x ELSE 0
          /\ b[i] = IF KindOf(m) \in K THEN y + (x + 1) ELSE 0
      BY <1>2, <2>1, <2>2, <3>2, <3>3
    <3>5. CASE KindOf(m) \in K
      BY <2>2, <3>4, <3>5
    <3>6. CASE KindOf(m) \notin K
      BY <2>2, <3>4, <3>6
    <3> QED
      BY <3>5, <3>6
  <2>3. CASE i # m
    <3>1. values'[i] = values[i]
      BY <1>1, <2>3
    <3>2. b[i] = a[i] /\ a[i] \in Nat
      BY <1>2, <3>1
    <3> QED
      BY <2>3, <3>2
  <2> QED
    BY <2>2, <2>3
<1>4. PICK d \in Nat : d = IF KindOf(m) \in K THEN 1 ELSE 0
  OBVIOUS
<1>5. \A i \in 1 .. n : i # m => b[i] = a[i]
  BY <1>2, <1>3
<1>6. m \in 1 .. n /\ b[m] = a[m] + d /\ \A i \in 1 .. n : a[i] \in Nat
  <2>1. m \in 1 .. n /\ \A i \in 1 .. n : a[i] \in Nat
    BY <1>1, <1>2
  <2> QED
    BY <1>3, <1>4, <2>1
<1>7. SumTo(b, n) = SumTo(a, n) + d
  <2>1. n \in Nat
    BY <1>1
  <2>2. OneGrows(a, b, n, m, d)
    BY <1>5, <1>6 DEF OneGrows
  <2> QED
    BY <1>6, <2>1, <2>2, SumToMore
<1>8. Charged(K)' = SumTo(b, n) /\ Charged(K) = SumTo(a, n)
  BY <1>1 DEF Charged, ChargesTo, SumTo
<1> QED
  BY <1>4, <1>7, <1>8

LEMMA SameCharges ==
  ASSUME TypeOK, NEW c, Texted(c), values' = values, NEW K
  PROVE  Charged(K)' = Charged(K)
<1>1. Charges(K)' = Charges(K)
  BY DEF Charges, Texted
<1> QED
  BY <1>1 DEF Charged, Texted

LEMMA CharacterCharged ==
  ASSUME TypeOK, InvCharged, NEW c \in Alphabet, Texted(c),
         NothingKept(c) \/ \E m : OneKept(m, c)
  PROVE  InvCharged'
<1>1. CASE NothingKept(c)
  <2>1. /\ Charged(TableKinds \cup {"Field"})' = Charged(TableKinds \cup {"Field"})
        /\ Charged({"Extension"})' = Charged({"Extension"})
    BY <1>1, SameCharges DEF NothingKept
  <2> QED
    BY <1>1, <2>1 DEF InvCharged, NothingKept
<1>2. ASSUME NEW m, OneKept(m, c)
      PROVE  InvCharged'
  <2>1. m \in DOMAIN doc /\ values' = [values EXCEPT ![m] = Append(values[m], c)]
    BY <1>2 DEF OneKept
  <2>2. /\ Charged(TableKinds \cup {"Field"})' =
             Charged(TableKinds \cup {"Field"}) +
               IF KindOf(m) \in TableKinds \cup {"Field"} THEN 1 ELSE 0
        /\ Charged({"Extension"})' =
             Charged({"Extension"}) + IF KindOf(m) \in {"Extension"} THEN 1 ELSE 0
    BY <2>1, TextCharges
  <2>3. Charged(TableKinds \cup {"Field"}) \in Nat /\ Charged({"Extension"}) \in Nat
    BY ChargesAreNumbers
  <2>4. \/ /\ KindOf(m) = "Cell" /\ tableText' = tableText + 1
           /\ extensionText' = extensionText
        \/ /\ KindOf(m) = "Extension" /\ extensionText' = extensionText + 1
           /\ tableText' = tableText
        \/ /\ KindOf(m) = "Property"
           /\ tableText' = tableText /\ extensionText' = extensionText
    BY <1>2 DEF OneKept
  <2>5. /\ tableText = Charged(TableKinds \cup {"Field"})
        /\ extensionText = Charged({"Extension"})
    BY DEF InvCharged
  <2>6. tableText' = Charged(TableKinds \cup {"Field"})'
    BY <2>2, <2>3, <2>4, <2>5 DEF TableKinds
  <2>7. extensionText' = Charged({"Extension"})'
    BY <2>2, <2>3, <2>4, <2>5
  <2> QED
    BY <2>6, <2>7 DEF InvCharged
<1> QED
  BY <1>1, <1>2

LEMMA CharacterType ==
  ASSUME TypeOK, NEW c \in Alphabet, Texted(c), CharacterData(c),
         NothingKept(c) \/ \E m : OneKept(m, c)
  PROVE  TypeOK'
<1>1. /\ doc' \in Seq(Entry) /\ stack' = stack /\ stack \in Seq(DOMAIN doc)
      /\ DOMAIN doc' = DOMAIN doc /\ Len(doc') = Len(doc)
      /\ open' = open /\ filled' = filled /\ block' = block
  BY DEF Texted, TypeOK
<1>2. \A n \in DOMAIN doc' : doc'[n].parent < n /\ n \in doc'[n].path
                             /\ doc'[n].path \subseteq 1 .. n
  BY DEF Texted, TypeOK
<1>3. /\ decoder' \in DecoderType /\ Len(decoder'.quartet) < 4
      /\ blocks' \in Seq(Seq(0 .. 255)) /\ Len(blocks') = Len(doc')
  <2>1. CASE Decode(c)
    BY <1>1, <2>1, DecodeType DEF TypeOK
  <2>2. CASE ~Decode(c)
    <3>1. UNCHANGED <<decoder, blocks>>
      BY <2>2 DEF CharacterData
    <3> QED
      BY <1>1, <3>1 DEF TypeOK, DecoderType
  <2> QED
    BY <2>1, <2>2
<1>4. /\ tableText \in 0 .. MaxTableText /\ extensionText \in 0 .. MaxExtension
      /\ values \in Seq(Seq(Alphabet)) /\ Len(values) = Len(doc)
  BY DEF TypeOK
<1>5. CASE NothingKept(c)
  <2>1. /\ values' = values /\ tableText' = tableText /\ extensionText' = extensionText
        /\ status' \in {"parsing", "limit", "text"}
    BY <1>5 DEF NothingKept
  <2> QED
    BY <1>1, <1>2, <1>3, <1>4, <2>1 DEF TypeOK, Entry, DecoderType
<1>6. ASSUME NEW m, OneKept(m, c)
      PROVE  TypeOK'
  <2>1. /\ m \in DOMAIN doc /\ status' = "parsing"
        /\ values' = [values EXCEPT ![m] = Append(values[m], c)]
    BY <1>6 DEF OneKept
  <2>2. Append(values[m], c) \in Seq(Alphabet)
    <3>1. values[m] \in Seq(Alphabet)
      BY <2>1, StackFacts
    <3> QED
      BY <3>1, AppendFacts
  <2>3. PICK x \in Seq(Alphabet) : x = Append(values[m], c)
    BY <2>2
  <2>4. values' = [values EXCEPT ![m] = x]
    BY <2>1, <2>3
  <2>5. values' \in Seq(Seq(Alphabet)) /\ Len(values') = Len(doc')
    <3>1. values \in Seq(Seq(Alphabet)) /\ Len(values) = Len(doc')
      BY <1>1, <1>4
    <3>2. /\ [values EXCEPT ![m] = x] \in Seq(Seq(Alphabet))
          /\ Len([values EXCEPT ![m] = x]) = Len(values)
      <4>1. PICK S, v : S = Seq(Alphabet) /\ v = values
        OBVIOUS
      <4>2. v \in Seq(S) /\ x \in S
        BY <3>1, <4>1
      <4>3. [v EXCEPT ![m] = x] \in Seq(S) /\ Len([v EXCEPT ![m] = x]) = Len(v)
        BY <4>2, ExceptFacts
      <4> QED
        BY <4>1, <4>3
    <3> QED
      BY <2>4, <3>1, <3>2
  <2>6. tableText' \in 0 .. MaxTableText /\ extensionText' \in 0 .. MaxExtension
    <3>1. \/ tableText' = tableText
          \/ tableText' = tableText + 1 /\ tableText' <= MaxTableText
      BY <1>6 DEF OneKept
    <3>2. \/ extensionText' = extensionText
          \/ extensionText' = extensionText + 1 /\ extensionText' <= MaxExtension
      BY <1>6 DEF OneKept
    <3>3. MaxTableText \in Nat /\ MaxExtension \in Nat
      BY TextAssumption DEF TextAssumption
    <3>4. tableText' \in 0 .. MaxTableText
      BY <1>4, <3>1, <3>3
    <3>5. extensionText' \in 0 .. MaxExtension
      BY <1>4, <3>2, <3>3
    <3> QED
      BY <3>4, <3>5
  <2> QED
    BY <1>1, <1>2, <1>3, <2>1, <2>5, <2>6 DEF TypeOK, Entry, DecoderType
<1> QED
  BY <1>5, <1>6

\* The tree of elements and the indices are as before.
LEMMA CharacterPlaces ==
  ASSUME TypeOK, InvPlaces, InvOpen, NEW c \in Alphabet, Texted(c)
  PROVE  InvPlaces' /\ InvOpen'
<1>1. DOMAIN stack = 1 .. Len(stack) /\ Len(stack) \in Nat /\ stack' = stack
      /\ \A k \in DOMAIN stack : stack[k] \in DOMAIN doc
  BY StackFacts DEF Texted
<1>2. /\ \A k \in 0 .. Len(stack) : KindAt(k)' = KindAt(k)
      /\ \A k \in DOMAIN stack :
           /\ doc'[stack[k]].path = doc[stack[k]].path
           /\ doc'[stack[k]].element = doc[stack[k]].element
      /\ Blocks' = Blocks /\ Top' = Top /\ open' = open /\ block' = block
  BY <1>1 DEF Texted
<1>3. InvPlaces'
  <2> SUFFICES ASSUME NEW k \in DOMAIN stack
               PROVE  InPlace(k)'
    BY <1>1 DEF InvPlaces
  <2>1. InPlace(k) /\ k \in 0 .. Len(stack) /\ k - 1 \in 0 .. Len(stack)
    BY <1>1 DEF InvPlaces
  <2>2. Fits(KindAt(k - 1)', KindAt(k)', k)
    BY <1>2, <2>1 DEF InPlace
  <2> QED
    BY <1>1, <1>2, <2>1, <2>2 DEF InPlace
<1>4. InvOpen'
  <2>1. \A n : Disturbed(n)' <=> Disturbed(n)
    BY DEF Texted
  <2>2. ASSUME NEW kind \in OpenKinds, open[kind] # 0
        PROVE  \E k \in DOMAIN stack :
                 open[kind] = stack[k] /\ KindAt(k)' = kind /\ Opens(doc'[stack[k]].element)
    <3>1. PICK k \in DOMAIN stack :
            open[kind] = stack[k] /\ KindAt(k) = kind /\ Opens(doc[stack[k]].element)
      BY <2>2 DEF InvOpen
    <3>2. k \in 0 .. Len(stack)
      BY <1>1
    <3> QED
      BY <1>2, <3>1, <3>2
  <2>3. ASSUME NEW k \in DOMAIN stack, Opens(doc'[stack[k]].element),
               ~(KindAt(k)' = "Property" /\ Disturbed(stack[k])')
        PROVE  open[KindAt(k)'] = stack[k]
    <3>1. k \in 0 .. Len(stack)
      BY <1>1
    <3>2. Disturbed(stack[k])' <=> Disturbed(stack[k])
      BY <1>1, <2>1
    <3> QED
      BY <1>2, <2>3, <3>1, <3>2 DEF InvOpen
  <2>4. block' = IF Top' \in Blocks' THEN Top' ELSE 0
    BY <1>2 DEF InvOpen
  <2>5. open["Property"] # 0 => ~Disturbed(open["Property"])'
    <3>1. Disturbed(open["Property"])' <=> Disturbed(open["Property"])
      BY <1>2, <2>1
    <3> QED
      BY <3>1 DEF InvOpen
  <2> QED
    BY <1>1, <1>2, <2>2, <2>3, <2>4, <2>5 DEF InvOpen
<1> QED
  BY <1>3, <1>4

\* What is kept, and what stands where no text belongs.
LEMMA CharacterKept ==
  ASSUME TypeOK, Inside, KeptAtHome, status = "parsing", NEW c \in Alphabet, Texted(c),
         NothingKept(c) \/ \E m : OneKept(m, c)
  PROVE  KeptAtHome'
<1> SUFFICES ASSUME status' \in {"parsing", "accepted"}, NEW n \in DOMAIN doc
             PROVE  /\ values'[n] = Kept(n)'
                    /\ Refuses(n)' => Range(doc'[n].stray) \subseteq {" "}
  BY DEF KeptAtHome, Texted
<1> DEFINE IsText == KindOf(n) = "Property" /\ FormOf(n) = "text"
<1>1. /\ Refuses(n)' <=> Refuses(n)
      /\ Kept(n)' = IF IsText THEN doc'[n].heard ELSE IF OwnText(n) THEN doc'[n].text ELSE << >>
      /\ Kept(n) = IF IsText THEN doc[n].heard ELSE IF OwnText(n) THEN doc[n].text ELSE << >>
      /\ IsText => ~OwnText(n)
  BY DEF Texted, Kept, OwnText, TakesText
<1>2. /\ doc'[n].text = IF n = Top THEN Append(doc[n].text, c) ELSE doc[n].text
      /\ doc'[n].stray = IF n = Top /\ Home(n) = {} THEN Append(doc[n].stray, c)
                         ELSE doc[n].stray
  BY DEF Texted
\* A text Property that the text is for is the open one.
<1>3. IsText => doc'[n].heard = IF block = 0 /\ open["Property"] = n
                                THEN Append(doc[n].heard, c) ELSE doc[n].heard
  <2> SUFFICES ASSUME IsText
               PROVE  n \in doc[Top].path /\ ~Disturbed(n) <=> open["Property"] = n
    BY DEF Texted, Inside
  <2>1. doc[n].element.kind = "Property" /\ doc[n].element.form = "text" /\ n # 0
    BY StackFacts DEF FormOf
  <2>2. Opens(doc[n].element) /\ "Property" \in OpenKinds
    BY <2>1 DEF Opens, OpenKinds
  <2> QED
    BY <2>1, <2>2 DEF Inside
<1>4. values[n] = Kept(n) /\ (Refuses(n) => Range(doc[n].stray) \subseteq {" "})
  BY DEF KeptAtHome
<1>5. n \in DOMAIN values /\ n # 0
  BY StackFacts
<1>6. Range(doc[n].stray) \subseteq {" "} /\ c = " " =>
        Range(Append(doc[n].stray, c)) \subseteq {" "}
  <2>1. doc[n] \in Entry
    BY StackFacts
  <2>2. doc[n].stray \in Seq(Alphabet)
    BY <2>1 DEF Entry
  <2>3. /\ DOMAIN Append(doc[n].stray, c) = DOMAIN doc[n].stray \cup {Len(doc[n].stray) + 1}
        /\ \A k \in DOMAIN doc[n].stray : Append(doc[n].stray, c)[k] = doc[n].stray[k]
        /\ Append(doc[n].stray, c)[Len(doc[n].stray) + 1] = c
    BY <2>2, AppendFacts
  <2> QED
    BY <2>3 DEF Range
<1> HIDE DEF IsText
<1>7. CASE NothingKept(c)
  <2>1. /\ values' = values /\ ~OwnText(Top) /\ (block # 0 \/ open["Property"] = 0)
        /\ Refuses(Top) /\ Home(Top) = {} => c = " "
    BY <1>7 DEF NothingKept
  <2>2. Kept(n)' = Kept(n)
    <3>1. IsText => doc'[n].heard = doc[n].heard
      BY <1>3, <1>5, <2>1
    <3>2. OwnText(n) => doc'[n].text = doc[n].text
      BY <1>2, <2>1
    <3> QED
      BY <1>1, <3>1, <3>2
  <2>3. Refuses(n) => Range(doc'[n].stray) \subseteq {" "}
    BY <1>2, <1>4, <1>6, <2>1
  <2> QED
    BY <1>1, <1>4, <2>1, <2>2, <2>3
<1>8. ASSUME NEW m, OneKept(m, c)
      PROVE  values'[n] = Kept(n)' /\ (Refuses(n) => Range(doc'[n].stray) \subseteq {" "})
  <2>1. /\ values' = [values EXCEPT ![m] = Append(values[m], c)] /\ m \in DOMAIN doc
        /\ \/ m = Top /\ OwnText(Top) /\ KindOf(Top) \in {"Cell", "Extension"}
           \/ /\ m = open["Property"] /\ KindOf(m) = "Property" /\ block = 0
              /\ KindOf(Top) \notin {"Cell", "Extension"}
    BY <1>8 DEF OneKept
  <2>2. values'[n] = IF n = m THEN Append(values[n], c) ELSE values[n]
    BY <1>5, <2>1
  <2>3. CASE m = Top /\ OwnText(Top) /\ KindOf(Top) \in {"Cell", "Extension"}
    <3>1. Top \in DOMAIN doc /\ open["Property"] = 0
      BY <2>3 DEF Inside, TableKinds
    <3>2. Top \in Home(Top)
      BY <2>3, <3>1, OwnHome
    <3>3. doc'[n].stray = doc[n].stray
      BY <1>2, <3>2
    <3>4. Kept(n)' = IF n = m THEN Append(Kept(n), c) ELSE Kept(n)
      BY <1>1, <1>2, <1>3, <1>5, <2>3, <3>1
    <3>5. values'[n] = Kept(n)'
      <4>1. CASE n = m
        BY <1>4, <2>2, <3>4, <4>1, Zenon
      <4>2. CASE n # m
        BY <1>4, <2>2, <3>4, <4>2, Zenon
      <4> QED
        BY <4>1, <4>2
    <3> QED
      BY <1>4, <3>3, <3>5
  <2>4. CASE /\ m = open["Property"] /\ KindOf(m) = "Property" /\ block = 0
             /\ KindOf(Top) \notin {"Cell", "Extension"}
    <3>1. m \in doc[Top].path /\ FormOf(m) = "text" /\ ~Disturbed(m)
      <4>1. "Property" \in OpenKinds /\ m # 0
        BY <2>1, StackFacts DEF OpenKinds
      <4>2. m \in doc[Top].path /\ Opens(doc[m].element) /\ ~Disturbed(m)
        BY <2>4, <4>1 DEF Inside
      <4>3. KindOf(m) = doc[m].element.kind
        BY <2>1, StackFacts
      <4> QED
        BY <2>4, <4>2, <4>3 DEF Opens, FormOf
    <3>2. Home(Top) # {}
      BY <2>4, <3>1 DEF Home
    <3>3. doc'[n].stray = doc[n].stray
      BY <1>2, <3>2
    <3>4. OwnText(n) => n # Top
      BY <2>4 DEF OwnText
    <3>5. n = m => IsText
      BY <2>4, <3>1 DEF IsText
    <3>6. Kept(n)' = IF n = m THEN Append(Kept(n), c) ELSE Kept(n)
      BY <1>1, <1>2, <1>3, <2>4, <3>4, <3>5
    <3>7. values'[n] = Kept(n)'
      <4>1. CASE n = m
        BY <1>4, <2>2, <3>6, <4>1, Zenon
      <4>2. CASE n # m
        BY <1>4, <2>2, <3>6, <4>2, Zenon
      <4> QED
        BY <4>1, <4>2
    <3> QED
      BY <1>4, <3>3, <3>7
  <2> QED
    BY <2>1, <2>3, <2>4
<1> QED
  BY <1>1, <1>7, <1>8

LEMMA CharacterTree ==
  ASSUME InvTree, NEW c \in Alphabet, CharacterData(c)
  PROVE  InvTree'
<1>1. /\ TypeOK /\ InvPlaces /\ InvOpen /\ InvCharged /\ TextGoesHome
      /\ status = "parsing" /\ stack # << >>
  BY DEF InvTree, CharacterData
<1>2. Inside /\ Texted(c)
  BY <1>1, InsideFacts, TextedFacts
<1>3. NothingKept(c) \/ \E m : OneKept(m, c)
  BY <1>1, <1>2, TextOutcome
<1>4. TypeOK' /\ InvPlaces' /\ InvOpen' /\ InvCharged'
  BY <1>1, <1>2, <1>3, CharacterType, CharacterPlaces, CharacterCharged
<1>5. KeptAtHome'
  BY <1>1, <1>2, <1>3, CharacterKept DEF TextGoesHome
<1>6. OnlyRefusesStrays'
  <2> SUFFICES ASSUME status' = "text", block' = 0
               PROVE  Refuses(Top)' /\ Home(Top)' = {}
    BY DEF OnlyRefusesStrays
  <2>1. block = 0 /\ Top' = Top /\ Top \in DOMAIN doc
    BY <1>2 DEF Texted, Inside
  <2>2. NothingKept(c)
    BY <1>3 DEF OneKept
  <2>3. Refuses(Top) /\ Home(Top) = {}
    BY <2>1, <2>2 DEF NothingKept
  <2>4. PICK t : t = Top /\ t \in DOMAIN doc
    BY <2>1
  <2>5. (Refuses(t)' <=> Refuses(t)) /\ Home(t)' = Home(t)
    BY <1>2, <2>4 DEF Texted
  <2>6. (Refuses(Top)' <=> Refuses(t)') /\ Home(Top)' = Home(t)'
    BY <2>1, <2>4 DEF Refuses, Home
  <2> QED
    BY <2>3, <2>4, <2>5, <2>6
<1>7. WithinLimits'
  <2>1. ASSUME NEW n \in DOMAIN doc, KindOf(n) = "Property"
        PROVE  Len(values'[n]) <= MaxValue
    <3>1. Len(values[n]) <= MaxValue
      BY <1>1, <2>1 DEF TextGoesHome, WithinLimits
    <3>2. CASE NothingKept(c)
      BY <3>1, <3>2 DEF NothingKept
    <3>3. ASSUME NEW m, OneKept(m, c)
          PROVE  Len(values'[n]) <= MaxValue
      <4>1. /\ values' = [values EXCEPT ![m] = Append(values[m], c)]
            /\ n = m => Len(values[m]) + 1 <= MaxValue
        BY <2>1, <3>3 DEF OneKept
      <4>2. values[n] \in Seq(Alphabet) /\ n \in DOMAIN values
        BY <1>1, StackFacts
      <4>3. CASE n = m
        <5>1. values'[n] = Append(values[n], c)
          BY <4>1, <4>2, <4>3
        <5>2. Len(values'[n]) = Len(values[n]) + 1
          BY <4>2, <5>1, AppendFacts
        <5> QED
          BY <4>1, <4>3, <5>2
      <4>4. CASE n # m
        BY <3>1, <4>1, <4>2, <4>4
      <4> QED
        BY <4>3, <4>4
    <3> QED
      BY <1>3, <3>2, <3>3
  <2>2. \A n \in DOMAIN doc' : KindOf(n)' = "Property" => Len(values'[n]) <= MaxValue
    BY <1>2, <2>1 DEF Texted
  <2>3. tableText' \in 0 .. MaxTableText /\ extensionText' \in 0 .. MaxExtension
    BY <1>4 DEF TypeOK
  <2>4. /\ tableText' = Charged(TableKinds \cup {"Field"})'
        /\ extensionText' = Charged({"Extension"})'
    BY <1>4 DEF InvCharged
  <2>5. /\ Charged(TableKinds \cup {"Field"})' <= MaxTableText
        /\ Charged({"Extension"})' <= MaxExtension
    BY <2>3, <2>4
  <2> QED
    BY <2>2, <2>5 DEF WithinLimits
<1> QED
  BY <1>4, <1>5, <1>6, <1>7 DEF InvTree, TextGoesHome

-----------------------------------------------------------------------------
(* The invariant, and what it says.                                           *)

LEMMA InitTree ==
  ASSUME Init
  PROVE  InvTree
<1>1. /\ doc = << >> /\ stack = << >> /\ status = "parsing"
      /\ open = [k \in OpenKinds |-> 0] /\ filled = {}
      /\ block = 0 /\ decoder = Fresh /\ blocks = << >> /\ values = << >>
      /\ tableText = 0 /\ extensionText = 0
  BY DEF Init
<1>2. DOMAIN doc = {} /\ Len(doc) = 0 /\ Len(blocks) = 0 /\ Len(values) = 0
      /\ DOMAIN stack = {} /\ Top = 0
  BY <1>1 DEF Top
<1>3. MaxTableText \in Nat /\ MaxExtension \in Nat /\ MaxEncoded \in Nat
  BY TextAssumption DEF TextAssumption
<1>4. decoder \in DecoderType /\ Len(decoder.quartet) < 4
  <2>1. << >> \in Seq(0 .. Pad) /\ Len(<< >>) = 0
    OBVIOUS
  <2> QED
    BY <1>1, <1>3, <2>1 DEF Fresh, DecoderType, Pad, NoNibble
<1>5. TypeOK
  <2>1. /\ doc \in Seq(Entry) /\ stack \in Seq(DOMAIN doc)
        /\ blocks \in Seq(Seq(0 .. 255)) /\ values \in Seq(Seq(Alphabet))
    BY <1>1
  <2>2. open \in [OpenKinds -> 0 .. 0]
    BY <1>1
  <2> QED
    BY <1>1, <1>2, <1>3, <1>4, <2>1, <2>2 DEF TypeOK, Entry, DecoderType
<1>6. InvPlaces
  BY <1>2 DEF InvPlaces
<1>7. InvOpen
  BY <1>1, <1>2 DEF InvOpen, Blocks, OpenKinds
<1>8. \A K : Charged(K) = 0
  <2> TAKE K
  <2>1. SumTo(Charges(K), 0) = 0
    BY SumToNext
  <2> QED
    BY <1>2, <2>1 DEF Charged, ChargesTo, SumTo
<1>9. InvCharged
  BY <1>1, <1>8 DEF InvCharged
<1>10. TextGoesHome
  BY <1>1, <1>2, <1>3, <1>8 DEF TextGoesHome, KeptAtHome, OnlyRefusesStrays, WithinLimits
<1> QED
  BY <1>5, <1>6, <1>7, <1>9, <1>10 DEF InvTree

LEMMA NextTree ==
  ASSUME InvTree, [Next]_vars
  PROVE  InvTree'
<1>1. ASSUME NEW e \in Vocabulary, Start(e)
      PROVE  InvTree'
  <2>1. status = "parsing"
    BY <1>1 DEF Start
  <2>2. CASE StartElement(e)
    <3>1. TypeOK' /\ InvPlaces' /\ InvOpen' /\ InvCharged' /\ TextGoesHome'
      BY <2>1, <2>2, StartType, StartPlaces, StartOpen, StartCharged, StartText DEF InvTree
    <3> QED
      BY <3>1 DEF InvTree
  <2>3. CASE RefuseElement(e)
    <3>1. status' \in {"limit", "element"} /\ UNCHANGED <<input, builder>>
      BY <2>3 DEF RefuseElement
    <3> QED
      BY <2>1, <3>1, StatusTree
  <2> QED
    BY <1>1, <2>2, <2>3 DEF Start
<1>2. CASE EndElement
  BY <1>2, EndElementTree
<1>3. CASE RefuseEnd
  <2>1. status = "parsing" /\ status' = "end" /\ UNCHANGED <<input, builder>>
    BY <1>3 DEF RefuseEnd
  <2> QED
    BY <2>1, StatusTree
<1>4. ASSUME NEW c \in Alphabet, CharacterData(c)
      PROVE  InvTree'
  BY <1>4, CharacterTree
<1>5. ASSUME NEW c \in Alphabet, RootText(c)
      PROVE  InvTree'
  <2>1. /\ status = "parsing" /\ stack = << >> /\ status' \in {"parsing", "text"}
        /\ UNCHANGED <<input, builder>>
    BY <1>5 DEF RootText, OtherText, PassOver, builder
  <2> QED
    BY <2>1, StatusTree
<1>6. CASE Close
  <2>1. status = "parsing" /\ status' = "accepted" /\ UNCHANGED <<input, builder>>
    BY <1>6 DEF Close
  <2> QED
    BY <2>1, StatusTree
<1>7. CASE UNCHANGED vars
  <2>1. /\ doc' = doc /\ stack' = stack /\ open' = open /\ filled' = filled
        /\ block' = block /\ decoder' = decoder /\ blocks' = blocks /\ values' = values
        /\ tableText' = tableText /\ extensionText' = extensionText /\ status' = status
    BY <1>7 DEF vars, input, builder
  <2>2. TypeOK'
    BY <2>1 DEF InvTree, TypeOK
  <2>3. /\ \A n : KindOf(n)' = KindOf(n) /\ FormOf(n)' = FormOf(n)
        /\ \A k : KindAt(k)' = KindAt(k)
        /\ Blocks' = Blocks /\ Top' = Top
    BY <2>1 DEF KindAt, KindOf, FormOf, Blocks, Top
  <2>4. InvPlaces' /\ InvOpen'
    <3>1. \A n : Disturbed(n)' <=> Disturbed(n)
      BY <2>1, <2>3 DEF Disturbed
    <3> QED
      BY <2>1, <2>3, <3>1 DEF InvTree, InvPlaces, InvOpen, InPlace
  <2>5. \A K : Charged(K)' = Charged(K)
    BY <2>1 DEF Charged, Charges, KindOf
  <2>6. InvCharged' /\ WithinLimits'
    BY <2>1, <2>3, <2>5 DEF InvTree, InvCharged, TextGoesHome, WithinLimits
  <2>7. \A n : /\ Home(n)' = Home(n) /\ Kept(n)' = Kept(n)
               /\ Refuses(n)' <=> Refuses(n)
    <3>1. \A n : Disturbed(n)' <=> Disturbed(n)
      BY <2>1, <2>3 DEF Disturbed
    <3> QED
      BY <2>1, <2>3, <3>1 DEF Home, Kept, Refuses, TakesText
  <2>8. KeptAtHome'
    BY <2>1, <2>7 DEF InvTree, TextGoesHome, KeptAtHome
  <2>9. OnlyRefusesStrays'
    <3>1. (Refuses(Top)' <=> Refuses(Top)) /\ Home(Top)' = Home(Top)
      <4>1. PICK n : n = Top
        OBVIOUS
      <4>2. (Refuses(Top)' <=> Refuses(n)') /\ Home(Top)' = Home(n)'
        BY <2>3, <4>1 DEF Refuses, Home
      <4> QED
        BY <2>7, <4>1, <4>2
    <3> QED
      BY <2>1, <2>3, <3>1 DEF InvTree, TextGoesHome, OnlyRefusesStrays
  <2> QED
    BY <2>2, <2>4, <2>6, <2>8, <2>9 DEF InvTree, TextGoesHome
<1> QED
  BY <1>1, <1>2, <1>3, <1>4, <1>5, <1>6, <1>7 DEF Next

-----------------------------------------------------------------------------
(* The characters of a text without its blanks.                               *)

\* `kept` is the function that the recursion of Unspaced means.
KeepsUp(text, kept, n) ==
  kept = [i \in 0 .. n |-> IF i = 0 THEN << >>
                           ELSE WithoutBlank(kept[i - 1], text[i])]

\* The recursion has a meaning.
LEMMA KeptExists ==
  ASSUME NEW text, NEW n \in Nat
  PROVE  \E f : KeepsUp(text, f, n)
<1> DEFINE T == {m \in Nat : \E f : KeepsUp(text, f, m)}
<1>1. 0 \in T
  <2> DEFINE f == [i \in {0} |-> << >>]
  <2>1. 0 .. 0 = {0}
    OBVIOUS
  <2>2. KeepsUp(text, f, 0)
    BY <2>1 DEF KeepsUp
  <2> QED
    BY <2>2
<1>2. ASSUME NEW m \in Nat, m \in T
      PROVE  m + 1 \in T
  <2>1. PICK f : KeepsUp(text, f, m)
    BY <1>2
  <2> DEFINE last == WithoutBlank(f[m], text[m + 1])
             g == [i \in 0 .. m + 1 |-> IF i = m + 1 THEN last ELSE f[i]]
  <2>2. ASSUME NEW i \in 0 .. m + 1
        PROVE  g[i] = IF i = 0 THEN << >>
                      ELSE WithoutBlank(g[i - 1], text[i])
    <3>1. CASE i = m + 1
      <4>1. g[i] = last /\ g[i - 1] = f[m] /\ i # 0
        BY <3>1
      <4> QED
        BY <3>1, <4>1
    <3>2. CASE i \in 0 .. m
      <4>1. g[i] = f[i] /\ (i # 0 => g[i - 1] = f[i - 1])
        BY <3>2
      <4>2. f[i] = IF i = 0 THEN << >>
                   ELSE WithoutBlank(f[i - 1], text[i])
        BY <2>1, <3>2 DEF KeepsUp
      <4> QED
        BY <4>1, <4>2
    <3> QED
      BY <3>1, <3>2
  <2>3. KeepsUp(text, g, m + 1)
    BY <2>2 DEF KeepsUp
  <2> HIDE DEF g
  <2> QED
    BY <2>3
<1>3. Nat \subseteq T
  <2> HIDE DEF T
  <2> QED
    BY <1>1, <1>2, NatSetInduction
<1> QED
  BY <1>3

\* Only the first n characters matter.
LEMMA KeptAgree ==
  ASSUME NEW text, NEW other, NEW n \in Nat, NEW m \in Nat, n <= m,
         \A i \in 1 .. n : text[i] = other[i],
         NEW f, NEW g, KeepsUp(text, f, n), KeepsUp(other, g, m)
  PROVE  f[n] = g[n]
<1> DEFINE T == {i \in Nat : i <= n => f[i] = g[i]}
<1>1. 0 \in T
  BY DEF KeepsUp
<1>2. ASSUME NEW i \in Nat, i \in T
      PROVE  i + 1 \in T
  <2> SUFFICES ASSUME i + 1 <= n PROVE f[i + 1] = g[i + 1]
    OBVIOUS
  <2>1. /\ i + 1 \in 0 .. n /\ i + 1 \in 0 .. m /\ (i + 1) - 1 = i /\ i + 1 # 0
        /\ i + 1 \in 1 .. n
    OBVIOUS
  <2>2. f[i + 1] = WithoutBlank(f[i], text[i + 1])
    BY <2>1 DEF KeepsUp
  <2>3. g[i + 1] = WithoutBlank(g[i], other[i + 1])
    BY <2>1 DEF KeepsUp
  <2>4. text[i + 1] = other[i + 1] /\ f[i] = g[i]
    BY <1>2, <2>1
  <2> QED
    BY <2>2, <2>3, <2>4
<1>3. Nat \subseteq T
  <2> HIDE DEF T
  <2> QED
    BY <1>1, <1>2, NatSetInduction
<1> QED
  BY <1>3

\* The recursion, one character at a time.
LEMMA UnspacedNext ==
  ASSUME NEW text, NEW other, NEW n \in Nat, \A i \in 1 .. n : text[i] = other[i]
  PROVE  /\ Unspaced(text, 0) = << >>
         /\ Unspaced(other, n + 1) = WithoutBlank(Unspaced(text, n), other[n + 1])
<1> DEFINE F(t, m) == CHOOSE f : KeepsUp(t, f, m)
<1>1. ASSUME NEW t, NEW m \in Nat
      PROVE  KeepsUp(t, F(t, m), m) /\ Unspaced(t, m) = F(t, m)[m]
  <2>1. \E f : KeepsUp(t, f, m)
    BY KeptExists
  <2>2. KeepsUp(t, F(t, m), m)
    BY <2>1
  <2> QED
    BY <2>2 DEF Unspaced, KeepsUp
<1> HIDE DEF F
<1>2. Unspaced(text, 0) = << >>
  BY <1>1 DEF KeepsUp
<1>3. F(text, n)[n] = F(other, n + 1)[n]
  <2> PICK f, g : f = F(text, n) /\ g = F(other, n + 1)
    OBVIOUS
  <2>1. KeepsUp(text, f, n) /\ KeepsUp(other, g, n + 1)
    BY <1>1
  <2>2. n <= n + 1 /\ n + 1 \in Nat
    OBVIOUS
  <2>3. f[n] = g[n]
    BY <2>1, <2>2, KeptAgree
  <2> QED
    BY <2>3
<1>4. F(other, n + 1)[n + 1] = WithoutBlank(F(other, n + 1)[n], other[n + 1])
  <2>1. n + 1 \in 0 .. n + 1 /\ (n + 1) - 1 = n /\ n + 1 # 0
    OBVIOUS
  <2>2. KeepsUp(other, F(other, n + 1), n + 1)
    BY <1>1
  <2> QED
    BY <2>1, <2>2 DEF KeepsUp
<1> QED
  BY <1>1, <1>2, <1>3, <1>4

\* What is written of a text, and of the text with one character more.
LEMMA UnspacedFacts ==
  ASSUME NEW S, NEW text \in Seq(S)
  PROVE  /\ Unspaced(text, Len(text)) \in Seq(S)
         /\ \A c \in S : Unspaced(Append(text, c), Len(text) + 1) =
              WithoutBlank(Unspaced(text, Len(text)), c)
<1> DEFINE T == {i \in Nat : i <= Len(text) => Unspaced(text, i) \in Seq(S)}
<1>1. Len(text) \in Nat /\ \A i \in 1 .. Len(text) : text[i] \in S
  BY SequenceFacts
<1>2. 0 \in T
  <2>1. Unspaced(text, 0) = << >>
    BY UnspacedNext, \A i \in 1 .. 0 : text[i] = text[i]
  <2>2. << >> \in Seq(S)
    OBVIOUS
  <2> QED
    BY <2>1, <2>2
<1>3. ASSUME NEW i \in Nat, i \in T
      PROVE  i + 1 \in T
  <2> SUFFICES ASSUME i + 1 <= Len(text) PROVE Unspaced(text, i + 1) \in Seq(S)
    OBVIOUS
  <2>1. Unspaced(text, i) \in Seq(S) /\ text[i + 1] \in S
    BY <1>1, <1>3
  <2>2. Unspaced(text, i + 1) = WithoutBlank(Unspaced(text, i), text[i + 1])
    BY UnspacedNext
  <2>3. Append(Unspaced(text, i), text[i + 1]) \in Seq(S)
    BY <2>1, AppendFacts
  <2> QED
    BY <2>1, <2>2, <2>3 DEF WithoutBlank
<1>4. Nat \subseteq T
  <2> HIDE DEF T
  <2> QED
    BY <1>2, <1>3, NatSetInduction
<1>5. ASSUME NEW c \in S
      PROVE  Unspaced(Append(text, c), Len(text) + 1) =
               WithoutBlank(Unspaced(text, Len(text)), c)
  <2> PICK other, n : other = Append(text, c) /\ n = Len(text)
    OBVIOUS
  <2>1. n \in Nat /\ other[n + 1] = c /\ \A i \in 1 .. n : text[i] = other[i]
    BY <1>1
  <2> QED
    BY <2>1, UnspacedNext
<1> QED
  BY <1>1, <1>4, <1>5

-----------------------------------------------------------------------------
(* Base16 and Base64.                                                         *)

Bytes == Seq(0 .. 255)

LEMMA BytesFacts ==
  ASSUME NEW b \in Bytes
  PROVE  /\ Len(b) \in Nat /\ DOMAIN b = 1 .. Len(b)
         /\ \A k \in 1 .. Len(b) : b[k] \in 0 .. 255
<1>1. PICK S : S = 0 .. 255
  OBVIOUS
<1>2. b \in Seq(S)
  BY <1>1 DEF Bytes
<1>3. Len(b) \in Nat /\ DOMAIN b = 1 .. Len(b) /\ \A k \in DOMAIN b : b[k] \in S
  BY <1>2, SequenceFacts
<1> QED
  BY <1>1, <1>3

\* A function on the first n places is a sequence.
LEMMA SequenceOf ==
  ASSUME NEW S, NEW n \in Nat, NEW s \in [1 .. n -> S]
  PROVE  s \in Seq(S) /\ Len(s) = n
OBVIOUS

\* Two sequences put together, place by place.
LEMMA Concatenation ==
  ASSUME NEW S, NEW p \in Seq(S), NEW r \in Seq(S), NEW q \in Seq(S),
         Len(q) = Len(p) + Len(r),
         \A i \in 1 .. Len(p) : q[i] = p[i],
         \A i \in 1 .. Len(r) : q[Len(p) + i] = r[i]
  PROVE  q = p \o r
OBVIOUS

\* A byte of two digits has them.
LEMMA TwoDigits ==
  ASSUME NEW x \in 0 .. 15, NEW y \in 0 .. 15
  PROVE  /\ x * 16 + y \in 0 .. 255
         /\ (x * 16 + y) \div 16 = x /\ (x * 16 + y) % 16 = y
OBVIOUS

\* The digits that bytes are cut into.
LEMMA DigitsOfBytes ==
  /\ \A v \in 0 .. 255 : v \div 16 \in 0 .. 15 /\ v % 16 \in 0 .. 15
  /\ \A v \in 0 .. 255 : v \div 4 \in 0 .. 63 /\ v % 64 \in 0 .. 63
  /\ \A v, w \in 0 .. 255 : (v % 4) * 16 + w \div 16 \in 0 .. 63
  /\ \A v, w \in 0 .. 255 : (v % 16) * 4 + w \div 64 \in 0 .. 63
<1>1. \A v \in 0 .. 255 : v \div 16 \in 0 .. 15 /\ v % 16 \in 0 .. 15
  OBVIOUS
<1>2. \A v \in 0 .. 255 : v \div 4 \in 0 .. 63 /\ v % 64 \in 0 .. 63
  OBVIOUS
<1>3. \A v \in 0 .. 255 : v % 4 \in 0 .. 3 /\ v \div 64 \in 0 .. 3
  OBVIOUS
<1>4. \A x \in 0 .. 3 : \A y \in 0 .. 15 : x * 16 + y \in 0 .. 63
  OBVIOUS
<1>5. \A x \in 0 .. 15 : \A y \in 0 .. 3 : x * 4 + y \in 0 .. 63
  OBVIOUS
<1>6. \A v, w \in 0 .. 255 : (v % 4) * 16 + w \div 16 \in 0 .. 63
  BY <1>1, <1>3, <1>4, Zenon
<1>7. \A v, w \in 0 .. 255 : (v % 16) * 4 + w \div 64 \in 0 .. 63
  BY <1>1, <1>3, <1>5, Zenon
<1> QED
  BY <1>1, <1>2, <1>6, <1>7, Zenon

\* What Base16 makes of bytes.
LEMMA PairsFacts ==
  ASSUME NEW b \in Bytes
  PROVE  /\ Pairs(b) \in Seq(0 .. 15) /\ Len(Pairs(b)) = 2 * Len(b) /\ Len(b) \in Nat
         /\ DOMAIN Pairs(b) = 1 .. 2 * Len(b)
         /\ \A k \in 1 .. Len(b) : /\ Pairs(b)[2 * k - 1] = b[k] \div 16
                                   /\ Pairs(b)[2 * k] = b[k] % 16
<1>1. Len(b) \in Nat /\ \A k \in 1 .. Len(b) : b[k] \in 0 .. 255
  BY BytesFacts
<1>2. ASSUME NEW k \in 1 .. Len(b)
      PROVE  /\ 2 * k - 1 \in 1 .. 2 * Len(b) /\ 2 * k \in 1 .. 2 * Len(b)
             /\ ((2 * k - 1) + 1) \div 2 = k /\ (2 * k - 1) % 2 = 1
             /\ (2 * k + 1) \div 2 = k /\ (2 * k) % 2 = 0
  BY <1>1
<1>3. ASSUME NEW k \in 1 .. Len(b)
      PROVE  /\ Pairs(b)[2 * k - 1] = b[k] \div 16
             /\ Pairs(b)[2 * k] = b[k] % 16
  BY <1>2 DEF Pairs
<1>4. ASSUME NEW i \in 1 .. 2 * Len(b)
      PROVE  Pairs(b)[i] \in 0 .. 15
  <2>1. (i + 1) \div 2 \in 1 .. Len(b)
    BY <1>1
  <2>2. b[(i + 1) \div 2] \in 0 .. 255
    BY <1>1, <2>1
  <2>3. Pairs(b)[i] = IF i % 2 = 1 THEN b[(i + 1) \div 2] \div 16
                      ELSE b[(i + 1) \div 2] % 16
    BY DEF Pairs
  <2> PICK v \in 0 .. 255 : v = b[(i + 1) \div 2]
    BY <2>2
  <2>4. v \div 16 \in 0 .. 15 /\ v % 16 \in 0 .. 15
    BY DigitsOfBytes
  <2> QED
    BY <2>3, <2>4
<1>5. Pairs(b) = [i \in 1 .. 2 * Len(b) |-> Pairs(b)[i]] /\ 2 * Len(b) \in Nat
  BY <1>1 DEF Pairs
<1>6. Pairs(b) \in Seq(0 .. 15) /\ Len(Pairs(b)) = 2 * Len(b)
  BY <1>4, <1>5, IsSequence
<1> QED
  BY <1>1, <1>3, <1>5, <1>6

\* Two more digits for one more byte.
LEMMA PairsMore ==
  ASSUME NEW b \in Bytes, NEW x \in 0 .. 15, NEW y \in 0 .. 15
  PROVE  /\ b \o <<x * 16 + y>> \in Bytes
         /\ Len(b \o <<x * 16 + y>>) = Len(b) + 1
         /\ Pairs(b \o <<x * 16 + y>>) = Pairs(b) \o <<x, y>>
<1>0. PICK d, n : d = b \o <<x * 16 + y>> /\ n = Len(b)
  OBVIOUS
<1>1. /\ n \in Nat /\ x * 16 + y \in 0 .. 255
      /\ (x * 16 + y) \div 16 = x /\ (x * 16 + y) % 16 = y
  BY <1>0, BytesFacts, TwoDigits
<1>2. /\ d \in Bytes /\ Len(d) = n + 1 /\ d[n + 1] = x * 16 + y
      /\ \A k \in 1 .. n : d[k] = b[k]
  BY <1>0, <1>1 DEF Bytes
<1>a. PICK p, q : p = Pairs(b) /\ q = Pairs(d)
  OBVIOUS
<1>3. /\ p \in Seq(0 .. 15) /\ Len(p) = 2 * n
      /\ \A k \in 1 .. n : p[2 * k - 1] = b[k] \div 16 /\ p[2 * k] = b[k] % 16
  BY <1>0, <1>a, PairsFacts
<1>4. /\ q \in Seq(0 .. 15) /\ Len(q) = 2 * (n + 1)
      /\ \A k \in 1 .. n + 1 : q[2 * k - 1] = d[k] \div 16 /\ q[2 * k] = d[k] % 16
  BY <1>2, <1>a, PairsFacts
<1>5. q[2 * n + 1] = x /\ q[2 * n + 2] = y
  <2>1. n + 1 \in 1 .. n + 1 /\ 2 * (n + 1) - 1 = 2 * n + 1 /\ 2 * (n + 1) = 2 * n + 2
    BY <1>1
  <2> QED
    BY <1>1, <1>2, <1>4, <2>1
<1>6. ASSUME NEW i \in 1 .. 2 * n
      PROVE  q[i] = p[i]
  <2>1. PICK k \in 1 .. n : i = 2 * k - 1 \/ i = 2 * k
    <3>1. (i + 1) \div 2 \in 1 .. n
      BY <1>1
    <3>2. i = 2 * ((i + 1) \div 2) - 1 \/ i = 2 * ((i + 1) \div 2)
      OBVIOUS
    <3> QED
      BY <3>1, <3>2
  <2>2. k \in 1 .. n + 1 /\ d[k] = b[k]
    BY <1>1, <1>2
  <2> QED
    BY <1>3, <1>4, <2>1, <2>2
<1>7. q = p \o <<x, y>>
  <2>0. PICK r : r = <<x, y>>
    OBVIOUS
  <2>1. r \in Seq(0 .. 15) /\ Len(r) = 2 /\ r[1] = x /\ r[2] = y
    BY <2>0
  <2>2. Len(q) = Len(p) + Len(r)
    BY <1>1, <1>3, <1>4, <2>1
  <2>3. \A i \in 1 .. Len(p) : q[i] = p[i]
    BY <1>3, <1>6
  <2>4. \A i \in 1 .. Len(r) : q[Len(p) + i] = r[i]
    <3>1. \A i \in 1 .. 2 : q[2 * n + i] = r[i]
      <4>1. q[2 * n + 1] = r[1] /\ q[2 * n + 2] = r[2]
        BY <1>5, <2>1
      <4>2. \A i \in 1 .. 2 : i = 1 \/ i = 2
        OBVIOUS
      <4> QED
        BY <4>1, <4>2
    <3> QED
      BY <1>3, <2>1, <3>1
  <2>5. p \in Seq(0 .. 15) /\ q \in Seq(0 .. 15)
    BY <1>3, <1>4
  <2>6. q = p \o r
    BY <2>1, <2>2, <2>3, <2>4, <2>5, Concatenation
  <2> QED
    BY <2>0, <2>6
<1> QED
  BY <1>0, <1>2, <1>7, <1>a

\* The places of a sequence of groups of four.
LEMMA FourPlaces ==
  ASSUME NEW m \in Nat, NEW i \in 1 .. 4 * m
  PROVE  \E g \in 0 .. m - 1, r \in 1 .. 4 : i = 4 * g + r
<1>1. (i - 1) \div 4 \in 0 .. m - 1 /\ 1 + ((i - 1) % 4) \in 1 .. 4
  OBVIOUS
<1>2. i = 4 * ((i - 1) \div 4) + (1 + ((i - 1) % 4))
  OBVIOUS
<1> QED
  BY <1>1, <1>2

\* The group and the place in it of a digit.
LEMMA FourPlace ==
  ASSUME NEW m \in Nat, NEW g \in 0 .. m - 1, NEW r \in 1 .. 4
  PROVE  /\ 4 * g + r \in 1 .. 4 * m
         /\ ((4 * g + r) - 1) \div 4 = g
         /\ 1 + (((4 * g + r) - 1) % 4) = r
OBVIOUS

\* The groups of n bytes.
Groups(n) == (n + 2) \div 3

\* What Base64 makes of bytes.
LEMMA QuartetsFacts ==
  ASSUME NEW b \in Bytes
  PROVE  /\ Len(b) \in Nat /\ Groups(Len(b)) \in Nat
         /\ DOMAIN Quartets(b) = 1 .. 4 * Groups(Len(b))
         /\ Quartets(b) \in Seq(0 .. Pad) /\ Len(Quartets(b)) = 4 * Groups(Len(b))
         /\ \A g \in 0 .. Groups(Len(b)) - 1 : \A r \in 1 .. 4 :
              /\ 4 * g + r \in DOMAIN Quartets(b)
              /\ Quartets(b)[4 * g + r] = QuartetAt(b, 3 * g + 1)[r]
<1>0. PICK n, m : n = Len(b) /\ m = Groups(n)
  OBVIOUS
<1>1. n \in Nat /\ m \in Nat /\ m = (n + 2) \div 3 /\ \A k \in 1 .. n : b[k] \in 0 .. 255
  <2>1. n \in Nat /\ \A k \in 1 .. n : b[k] \in 0 .. 255
    BY <1>0, BytesFacts
  <2>2. (n + 2) \div 3 \in Nat
    BY <2>1
  <2> QED
    BY <1>0, <2>1, <2>2 DEF Groups
<1>2. Quartets(b) = [i \in 1 .. 4 * m |->
                       QuartetAt(b, 3 * ((i - 1) \div 4) + 1)[1 + ((i - 1) % 4)]]
  BY <1>0, <1>1 DEF Quartets
<1>3. ASSUME NEW g \in 0 .. m - 1, NEW r \in 1 .. 4
      PROVE  /\ 4 * g + r \in 1 .. 4 * m
             /\ Quartets(b)[4 * g + r] = QuartetAt(b, 3 * g + 1)[r]
  <2>1. /\ 4 * g + r \in 1 .. 4 * m /\ ((4 * g + r) - 1) \div 4 = g
        /\ 1 + (((4 * g + r) - 1) % 4) = r
    BY <1>1, FourPlace
  <2> QED
    BY <1>2, <2>1
<1>4. ASSUME NEW i \in 1 .. 4 * m
      PROVE  Quartets(b)[i] \in 0 .. Pad
  <2>1. PICK g \in 0 .. m - 1, r \in 1 .. 4 : i = 4 * g + r
    BY <1>1, FourPlaces
  <2>2. Quartets(b)[i] = QuartetAt(b, 3 * g + 1)[r]
    BY <1>3, <2>1
  <2>3. \A k \in Nat \ {0} : ByteAt(b, k) \in 0 .. 255
    BY <1>0, <1>1 DEF ByteAt
  <2>4. PICK x, y, z \in 0 .. 255 :
          /\ x = ByteAt(b, 3 * g + 1) /\ y = ByteAt(b, 3 * g + 1 + 1)
          /\ z = ByteAt(b, 3 * g + 1 + 2)
    <3>1. /\ 3 * g + 1 \in Nat \ {0} /\ 3 * g + 1 + 1 \in Nat \ {0}
          /\ 3 * g + 1 + 2 \in Nat \ {0}
      OBVIOUS
    <3> QED
      BY <2>3, <3>1
  <2>5. PICK s, t, u, v \in 0 .. 63 :
          /\ s = x \div 4 /\ t = (x % 4) * 16 + y \div 16
          /\ u = (y % 16) * 4 + z \div 64 /\ v = z % 64
    BY DigitsOfBytes
  <2>0. PICK q : q = QuartetAt(b, 3 * g + 1)
    OBVIOUS
  <2>6. /\ q[1] = s /\ q[2] = t /\ (q[3] = Pad \/ q[3] = u) /\ (q[4] = Pad \/ q[4] = v)
    <3>1. /\ q[1] = x \div 4 /\ q[2] = (x % 4) * 16 + y \div 16
          /\ q[3] = IF 3 * g + 1 + 1 > Len(b) THEN Pad ELSE (y % 16) * 4 + z \div 64
          /\ q[4] = IF 3 * g + 1 + 2 > Len(b) THEN Pad ELSE z % 64
      <4>1. PICK f \in Nat : f = 3 * g + 1
        OBVIOUS
      <4>2. x = ByteAt(b, f) /\ y = ByteAt(b, f + 1) /\ z = ByteAt(b, f + 2)
        BY <2>4, <4>1
      <4>3. /\ QuartetAt(b, f)[1] = x \div 4
            /\ QuartetAt(b, f)[2] = (x % 4) * 16 + y \div 16
            /\ QuartetAt(b, f)[3] = IF f + 1 > Len(b) THEN Pad
                                    ELSE (y % 16) * 4 + z \div 64
            /\ QuartetAt(b, f)[4] = IF f + 2 > Len(b) THEN Pad ELSE z % 64
        BY <4>2 DEF QuartetAt
      <4> QED
        BY <2>0, <4>1, <4>3
    <3> QED
      BY <2>5, <3>1
  <2>7. q[1] \in 0 .. 64 /\ q[2] \in 0 .. 64 /\ q[3] \in 0 .. 64 /\ q[4] \in 0 .. 64
    BY <2>6 DEF Pad
  <2>8. \A k \in 1 .. 4 : k = 1 \/ k = 2 \/ k = 3 \/ k = 4
    OBVIOUS
  <2>9. q[r] \in 0 .. 64
    BY <2>7, <2>8
  <2> QED
    BY <2>0, <2>2, <2>9 DEF Pad
<1>5. Quartets(b) \in Seq(0 .. Pad) /\ Len(Quartets(b)) = 4 * m
  <2>0. PICK l, q : l = 4 * m /\ q = Quartets(b)
    OBVIOUS
  <2>1. q = [i \in 1 .. l |-> q[i]] /\ l \in Nat
    BY <1>1, <1>2, <2>0
  <2>2. \A i \in 1 .. l : q[i] \in 0 .. Pad
    BY <1>4, <2>0
  <2>3. q \in Seq(0 .. Pad) /\ Len(q) = l
    <3>1. q \in [1 .. l -> 0 .. Pad]
      BY <2>1, <2>2
    <3> QED
      BY <2>1, <3>1, SequenceOf
  <2> QED
    BY <2>0, <2>3
<1> QED
  BY <1>0, <1>1, <1>2, <1>3, <1>5

\* Three bytes are four digits, and back.
SameBits(x, y, z, s, t, u, v) ==
  /\ s = x \div 4 /\ t = (x % 4) * 16 + y \div 16
  /\ u = (y % 16) * 4 + z \div 64 /\ v = z % 64
  /\ s * 4 + t \div 16 = x /\ (t % 16) * 16 + u \div 4 = y
  /\ (u % 4) * 64 + v = z
  /\ y = 0 => t % 16 = 0
  /\ z = 0 => u % 4 = 0

LEMMA ThreeBytes ==
  ASSUME NEW x \in 0 .. 255, NEW y \in 0 .. 255, NEW z \in 0 .. 255
  PROVE  \E s, t, u, v \in 0 .. 63 : SameBits(x, y, z, s, t, u, v)
<1>1. PICK s, t, u, v \in 0 .. 63 :
           /\ s = x \div 4 /\ t = (x % 4) * 16 + y \div 16
           /\ u = (y % 16) * 4 + z \div 64 /\ v = z % 64
  BY DigitsOfBytes
<1>2. /\ s * 4 + t \div 16 = x /\ (t % 16) * 16 + u \div 4 = y
      /\ (u % 4) * 64 + v = z
      /\ y = 0 => t % 16 = 0
      /\ z = 0 => u % 4 = 0
  BY <1>1
<1>3. SameBits(x, y, z, s, t, u, v)
  BY <1>1, <1>2 DEF SameBits
<1> QED
  BY <1>3

\* A group of the encoding of three bytes, of which there may be fewer: the padding
\* stands only after the last byte, and no bits are lost.
GroupOf(x, y, z, left, q) ==
  /\ x \in 0 .. 255 /\ y \in 0 .. 255 /\ z \in 0 .. 255
  /\ q[1] \in 0 .. 63 /\ q[2] \in 0 .. 63 /\ q[3] \in 0 .. 64 /\ q[4] \in 0 .. 64
  /\ x = q[1] * 4 + q[2] \div 16
  /\ q[3] = 64 <=> left < 2
  /\ q[4] = 64 <=> left < 3
  /\ q[3] = 64 => q[2] % 16 = 0
  /\ q[3] # 64 => y = (q[2] % 16) * 16 + q[3] \div 4
  /\ q[3] # 64 /\ q[4] = 64 => q[3] % 4 = 0
  /\ q[4] # 64 => z = (q[3] % 4) * 64 + q[4]

\* Every group of an encoding is one of up to three bytes, and only the last is cut
\* short.
LEMMA GroupFacts ==
  ASSUME NEW b \in Bytes, NEW g \in 0 .. Groups(Len(b)) - 1, NEW q,
         q[1] = Quartets(b)[4 * g + 1], q[2] = Quartets(b)[4 * g + 2],
         q[3] = Quartets(b)[4 * g + 3], q[4] = Quartets(b)[4 * g + 4]
  PROVE  /\ GroupOf(ByteAt(b, 3 * g + 1), ByteAt(b, 3 * g + 2), ByteAt(b, 3 * g + 3),
                    Len(b) - 3 * g, q)
         /\ 3 * g + 1 <= Len(b) /\ g \in Nat
         /\ 3 * g + 3 > Len(b) => g = Groups(Len(b)) - 1
<1>1. PICK n \in Nat : n = Len(b)
  BY BytesFacts
<1>2. g \in Nat /\ 3 * g + 1 <= n /\ (3 * g + 3 > n => g = Groups(n) - 1)
  <2>1. g \in 0 .. (n + 2) \div 3 - 1
    BY <1>1 DEF Groups
  <2>2. g \in Nat /\ 3 * g + 1 <= n /\ (3 * g + 3 > n => g = (n + 2) \div 3 - 1)
    BY <2>1
  <2> QED
    BY <2>2 DEF Groups
<1>3. PICK x, y, z \in 0 .. 255 :
        /\ x = ByteAt(b, 3 * g + 1) /\ y = ByteAt(b, 3 * g + 2) /\ z = ByteAt(b, 3 * g + 3)
  <2>1. \A k \in Nat \ {0} : ByteAt(b, k) \in 0 .. 255
    <3>1. \A k \in 1 .. n : b[k] \in 0 .. 255
      BY <1>1, BytesFacts
    <3>2. \A k \in Nat \ {0} : k <= n => k \in 1 .. n
      OBVIOUS
    <3>3. ASSUME NEW k \in Nat \ {0}
          PROVE  ByteAt(b, k) \in 0 .. 255
      <4>1. CASE k <= n
        <5>1. ByteAt(b, k) = b[k]
          BY <1>1, <4>1 DEF ByteAt
        <5> QED
          BY <3>1, <3>2, <4>1, <5>1
      <4>2. CASE ~(k <= n)
        <5>1. ByteAt(b, k) = 0 /\ 0 \in 0 .. 255
          BY <1>1, <4>2 DEF ByteAt
        <5> QED
          BY <5>1
      <4> QED
        BY <4>1, <4>2
    <3> QED
      BY <3>3
  <2>2. 3 * g + 1 \in Nat \ {0} /\ 3 * g + 2 \in Nat \ {0} /\ 3 * g + 3 \in Nat \ {0}
    BY <1>2
  <2> QED
    BY <2>1, <2>2
<1>4. /\ 3 * g + 2 > n => y = 0
      /\ 3 * g + 3 > n => z = 0
  BY <1>1, <1>2, <1>3 DEF ByteAt
<1>5. PICK s, t, u, v \in 0 .. 63 : SameBits(x, y, z, s, t, u, v)
  BY ThreeBytes
<1>6. /\ s = x \div 4 /\ t = (x % 4) * 16 + y \div 16
      /\ u = (y % 16) * 4 + z \div 64 /\ v = z % 64
      /\ s * 4 + t \div 16 = x /\ (t % 16) * 16 + u \div 4 = y
      /\ (u % 4) * 64 + v = z
      /\ y = 0 => t % 16 = 0
      /\ z = 0 => u % 4 = 0
  BY <1>5 DEF SameBits
<1>7. \A r \in 1 .. 4 : Quartets(b)[4 * g + r] = QuartetAt(b, 3 * g + 1)[r]
  BY QuartetsFacts
<1>8. \A r \in 1 .. 4 : q[r] = QuartetAt(b, 3 * g + 1)[r]
  <2>1. \A r \in 1 .. 4 : r = 1 \/ r = 2 \/ r = 3 \/ r = 4
    OBVIOUS
  <2> QED
    BY <1>7, <2>1
<1>9. /\ q[1] = s /\ q[2] = t
      /\ q[3] = IF 3 * g + 2 > n THEN 64 ELSE u
      /\ q[4] = IF 3 * g + 3 > n THEN 64 ELSE v
  <2>1. PICK f \in Nat : f = 3 * g + 1
    BY <1>2
  <2>2. x = ByteAt(b, f) /\ y = ByteAt(b, f + 1) /\ z = ByteAt(b, f + 2)
    <3>1. f + 1 = 3 * g + 2 /\ f + 2 = 3 * g + 3
      BY <1>2, <2>1
    <3> QED
      BY <1>3, <2>1, <3>1
  <2>3. /\ QuartetAt(b, f)[1] = x \div 4
        /\ QuartetAt(b, f)[2] = (x % 4) * 16 + y \div 16
        /\ QuartetAt(b, f)[3] = IF f + 1 > Len(b) THEN Pad ELSE (y % 16) * 4 + z \div 64
        /\ QuartetAt(b, f)[4] = IF f + 2 > Len(b) THEN Pad ELSE z % 64
    BY <2>2 DEF QuartetAt
  <2>4. f + 1 = 3 * g + 2 /\ f + 2 = 3 * g + 3
    BY <1>2, <2>1
  <2>5. 1 \in 1 .. 4 /\ 2 \in 1 .. 4 /\ 3 \in 1 .. 4 /\ 4 \in 1 .. 4
    OBVIOUS
  <2>6. /\ QuartetAt(b, f)[1] = s /\ QuartetAt(b, f)[2] = t
        /\ QuartetAt(b, f)[3] = IF 3 * g + 2 > n THEN 64 ELSE u
        /\ QuartetAt(b, f)[4] = IF 3 * g + 3 > n THEN 64 ELSE v
    BY <1>1, <1>6, <2>3, <2>4 DEF Pad
  <2> QED
    BY <1>8, <2>1, <2>5, <2>6
<1>10. PICK left \in Int : left = n - 3 * g
  BY <1>1, <1>2
<1>11. /\ q[3] = IF left < 2 THEN 64 ELSE u
       /\ q[4] = IF left < 3 THEN 64 ELSE v
       /\ left < 2 => y = 0
       /\ left < 3 => z = 0
  BY <1>1, <1>2, <1>4, <1>9, <1>10
<1>12. GroupOf(x, y, z, left, q)
  <2>1. CASE left < 2
    <3>1. q[3] = 64 /\ q[4] = 64 /\ left < 3
      BY <1>10, <1>11, <2>1
    <3> QED
      BY <1>6, <1>9, <1>11, <2>1, <3>1 DEF GroupOf
  <2>2. CASE ~(left < 2) /\ left < 3
    BY <1>6, <1>9, <1>11, <2>2 DEF GroupOf
  <2>3. CASE ~(left < 2) /\ ~(left < 3)
    BY <1>6, <1>9, <1>11, <2>3 DEF GroupOf
  <2> QED
    BY <2>1, <2>2, <2>3
<1> QED
  BY <1>1, <1>2, <1>3, <1>10, <1>12

\* Four digits are three bytes, and back.
SameDigits(s, t, u, v, x, y, z) ==
  /\ x = s * 4 + t \div 16 /\ y = (t % 16) * 16 + u \div 4
  /\ z = (u % 4) * 64 + v
  /\ x \div 4 = s /\ (x % 4) * 16 + y \div 16 = t
  /\ (y % 16) * 4 + z \div 64 = u /\ z % 64 = v
  /\ t % 16 = 0 => (x % 4) * 16 + 0 \div 16 = t
  /\ u % 4 = 0 => (y % 16) * 4 + 0 \div 64 = u

LEMMA FourDigits ==
  ASSUME NEW s \in 0 .. 63, NEW t \in 0 .. 63, NEW u \in 0 .. 63, NEW v \in 0 .. 63
  PROVE  \E x, y, z \in 0 .. 255 : SameDigits(s, t, u, v, x, y, z)
<1>1. PICK x, y, z \in 0 .. 255 :
           /\ x = s * 4 + t \div 16 /\ y = (t % 16) * 16 + u \div 4
           /\ z = (u % 4) * 64 + v
  <2>1. /\ s * 4 + t \div 16 \in 0 .. 255 /\ (t % 16) * 16 + u \div 4 \in 0 .. 255
        /\ (u % 4) * 64 + v \in 0 .. 255
    OBVIOUS
  <2> QED
    BY <2>1
<1>2. SameDigits(s, t, u, v, x, y, z)
  BY <1>1 DEF SameDigits
<1> QED
  BY <1>2

\* The bytes of a group of four: w has one, two or three of x, y and z.
BytesFor(q, w, x, y, z) ==
  /\ w = QuartetBytes(q) /\ w[1] = x
  /\ q[1] = x \div 4
  /\ \/ /\ Len(w) = 1 /\ q[3] = Pad /\ q[4] = Pad
        /\ q[2] = (x % 4) * 16
     \/ /\ Len(w) = 2 /\ q[3] # Pad /\ q[4] = Pad /\ w[2] = y
        /\ q[2] = (x % 4) * 16 + y \div 16 /\ q[3] = (y % 16) * 4
     \/ /\ Len(w) = 3 /\ q[3] # Pad /\ q[4] # Pad /\ w[2] = y /\ w[3] = z
        /\ q[2] = (x % 4) * 16 + y \div 16 /\ q[3] = (y % 16) * 4 + z \div 64
        /\ q[4] = z % 64

LEMMA PutBefore ==
  /\ \A x, y : <<x>> \o <<y>> = <<x, y>>
  /\ \A x, y, z : <<x>> \o <<y, z>> = <<x, y, z>>
<1>1. ASSUME NEW x, NEW y
      PROVE  <<x>> \o <<y>> = <<x, y>>
  <2>1. PICK S, p, r, q : S = {x, y} /\ p = <<x>> /\ r = <<y>> /\ q = <<x, y>>
    OBVIOUS
  <2>2. p \in Seq(S) /\ r \in Seq(S) /\ q \in Seq(S)
    BY <2>1
  <2>3. Len(p) = 1 /\ Len(r) = 1 /\ Len(q) = 2
    BY <2>1
  <2>4. Len(q) = Len(p) + Len(r) /\ \A i \in 1 .. Len(p) : q[i] = p[i]
    BY <2>1, <2>3
  <2>5. \A i \in 1 .. 1 : q[1 + i] = r[i]
    BY <2>1
  <2>6. \A i \in 1 .. Len(r) : q[Len(p) + i] = r[i]
    BY <2>3, <2>5
  <2>7. q = p \o r
    BY <2>2, <2>4, <2>6, Concatenation
  <2> QED
    BY <2>1, <2>7
<1>2. ASSUME NEW x, NEW y, NEW z
      PROVE  <<x>> \o <<y, z>> = <<x, y, z>>
  <2>1. PICK S, p, r, q : S = {x, y, z} /\ p = <<x>> /\ r = <<y, z>> /\ q = <<x, y, z>>
    OBVIOUS
  <2>2. p \in Seq(S) /\ r \in Seq(S) /\ q \in Seq(S)
    BY <2>1
  <2>3. Len(p) = 1 /\ Len(r) = 2 /\ Len(q) = 3
    BY <2>1
  <2>4. Len(q) = Len(p) + Len(r) /\ \A i \in 1 .. Len(p) : q[i] = p[i]
    BY <2>1, <2>3
  <2>5. \A i \in 1 .. 2 : q[1 + i] = r[i]
    BY <2>1
  <2>6. \A i \in 1 .. Len(r) : q[Len(p) + i] = r[i]
    BY <2>3, <2>5
  <2>7. q = p \o r
    BY <2>2, <2>4, <2>6, Concatenation
  <2> QED
    BY <2>1, <2>7
<1> QED
  BY <1>1, <1>2

\* What a canonical group of four stands for.
LEMMA QuartetBytesAre ==
  ASSUME NEW q \in Seq(0 .. Pad), Len(q) = 4, q[1] # Pad, q[2] # Pad, Canonical(q)
  PROVE  \E w \in Bytes : \E x, y, z \in 0 .. 255 : BytesFor(q, w, x, y, z)
<1>1. PICK w \in Bytes : w = QuartetBytes(q)
  BY QuartetFacts DEF Bytes
<1>0. q[1] \in 0 .. 64 /\ q[2] \in 0 .. 64 /\ q[3] \in 0 .. 64 /\ q[4] \in 0 .. 64
  <2>1. DOMAIN q = 1 .. 4 /\ \A k \in DOMAIN q : q[k] \in 0 .. 64
    BY SequenceFacts DEF Pad
  <2>2. 1 \in 1 .. 4 /\ 2 \in 1 .. 4 /\ 3 \in 1 .. 4 /\ 4 \in 1 .. 4
    OBVIOUS
  <2> QED
    BY <2>1, <2>2
<1>2. PICK s, t \in 0 .. 63 : s = q[1] /\ t = q[2]
  <2>1. q[1] # 64 /\ q[2] # 64
    BY DEF Pad
  <2>2. \A i \in 0 .. 64 : i # 64 => i \in 0 .. 63
    OBVIOUS
  <2> QED
    BY <1>0, <2>1, <2>2
<1>3. PICK c, d \in 0 .. 64 : c = q[3] /\ d = q[4]
  BY <1>0
<1>4. PICK u, v \in 0 .. 63 : u = (IF c = 64 THEN 0 ELSE c) /\ v = (IF d = 64 THEN 0 ELSE d)
  <2>1. \A i \in 0 .. 64 : (IF i = 64 THEN 0 ELSE i) \in 0 .. 63
    OBVIOUS
  <2>2. PICK u \in 0 .. 63 : u = (IF c = 64 THEN 0 ELSE c)
    BY <1>3, <2>1
  <2>3. PICK v \in 0 .. 63 : v = (IF d = 64 THEN 0 ELSE d)
    BY <1>3, <2>1
  <2> QED
    BY <2>2, <2>3
<1>5. PICK x, y, z \in 0 .. 255 : SameDigits(s, t, u, v, x, y, z)
  BY FourDigits
<1>6. w = <<s * 4 + t \div 16>> \o
           (IF c = 64 THEN << >>
            ELSE <<(t % 16) * 16 + c \div 4>> \o
                 (IF d = 64 THEN << >> ELSE <<(c % 4) * 64 + d>>))
  BY <1>1, <1>2, <1>3 DEF QuartetBytes, Pad
<1>7. /\ c = 64 => d = 64 /\ t % 16 = 0
      /\ c # 64 /\ d = 64 => c % 4 = 0
  BY <1>2, <1>3 DEF Canonical, Pad
<1>8. CASE c = 64
  <2>1. w = <<x>>
    <3>1. w = <<s * 4 + t \div 16>> \o << >>
      BY <1>6, <1>8
    <3>2. x = s * 4 + t \div 16
      BY <1>5 DEF SameDigits
    <3>3. w = <<x>> \o << >>
      BY <3>1, <3>2
    <3> QED
      BY <3>3
  <2>2. Len(w) = 1 /\ w[1] = x
    BY <2>1
  <2>3. t = (x % 4) * 16 /\ s = x \div 4
    BY <1>5, <1>7, <1>8 DEF SameDigits
  <2>4. BytesFor(q, w, x, y, z)
    BY <1>1, <1>2, <1>3, <1>7, <1>8, <2>2, <2>3 DEF Pad, BytesFor
  <2> QED
    BY <2>4
<1>9. CASE c # 64 /\ d = 64
  <2>1. w = <<x, y>>
    <3>1. w = <<s * 4 + t \div 16>> \o (<<(t % 16) * 16 + c \div 4>> \o << >>)
      BY <1>6, <1>9
    <3>2. x = s * 4 + t \div 16 /\ y = (t % 16) * 16 + c \div 4
      BY <1>4, <1>5, <1>9 DEF SameDigits
    <3>3. w = <<x>> \o (<<y>> \o << >>)
      BY <3>1, <3>2
    <3>4. <<y>> \o << >> = <<y>>
      OBVIOUS
    <3>5. <<x>> \o <<y>> = <<x, y>>
      BY PutBefore
    <3> QED
      BY <3>3, <3>4, <3>5
  <2>2. Len(w) = 2 /\ w[1] = x /\ w[2] = y
    BY <2>1
  <2>3. u = c /\ c = (y % 16) * 4 /\ s = x \div 4 /\ t = (x % 4) * 16 + y \div 16
    BY <1>4, <1>5, <1>7, <1>9 DEF SameDigits
  <2>4. BytesFor(q, w, x, y, z)
    BY <1>1, <1>2, <1>3, <1>9, <2>2, <2>3 DEF Pad, BytesFor
  <2> QED
    BY <2>4
<1>10. CASE c # 64 /\ d # 64
  <2>1. u = c /\ v = d
    BY <1>4, <1>10
  <2>2. w = <<x, y, z>>
    <3>1. w = <<s * 4 + t \div 16>> \o (<<(t % 16) * 16 + c \div 4>> \o <<(c % 4) * 64 + d>>)
      BY <1>6, <1>10
    <3>2. /\ x = s * 4 + t \div 16 /\ y = (t % 16) * 16 + c \div 4
          /\ z = (c % 4) * 64 + d
      BY <1>5, <2>1 DEF SameDigits
    <3>3. w = <<x>> \o (<<y>> \o <<z>>)
      BY <3>1, <3>2
    <3>4. <<y>> \o <<z>> = <<y, z>> /\ <<x>> \o <<y, z>> = <<x, y, z>>
      BY PutBefore
    <3> QED
      BY <3>3, <3>4
  <2>3. Len(w) = 3 /\ w[1] = x /\ w[2] = y /\ w[3] = z
    BY <2>2
  <2>4. /\ s = x \div 4 /\ t = (x % 4) * 16 + y \div 16
        /\ c = (y % 16) * 4 + z \div 64 /\ d = z % 64
    BY <1>5, <2>1 DEF SameDigits
  <2>5. BytesFor(q, w, x, y, z)
    BY <1>1, <1>2, <1>3, <1>10, <2>3, <2>4 DEF Pad, BytesFor
  <2> QED
    BY <2>5
<1> QED
  BY <1>8, <1>9, <1>10

\* How many groups there are with one, two or three bytes more.
LEMMA WholeGroups ==
  ASSUME NEW n \in Nat, n % 3 = 0, NEW l \in 1 .. 3
  PROVE  /\ \E g \in Nat : n = 3 * g /\ Groups(n) = g /\ Groups(n + l) = g + 1
         /\ (n + l) % 3 # 0 <=> l # 3
<1>1. /\ n \div 3 \in Nat /\ n = 3 * (n \div 3) /\ (n + 2) \div 3 = n \div 3
      /\ ((n + l) + 2) \div 3 = n \div 3 + 1
      /\ (n + l) % 3 # 0 <=> l # 3
  OBVIOUS
<1>2. PICK g \in Nat : g = n \div 3
  BY <1>1
<1> QED
  BY <1>1, <1>2 DEF Groups

\* A group of four more, for one, two or three bytes more, where no group is cut
\* short so far.
LEMMA QuartetsMore ==
  ASSUME NEW b \in Bytes, Len(b) % 3 = 0, NEW q \in Seq(0 .. Pad), Len(q) = 4,
         q[1] # Pad, q[2] # Pad, Canonical(q)
  PROVE  /\ QuartetBytes(q) \in Bytes /\ Len(QuartetBytes(q)) \in 1 .. 3
         /\ b \o QuartetBytes(q) \in Bytes
         /\ Len(b \o QuartetBytes(q)) = Len(b) + Len(QuartetBytes(q))
         /\ Len(b \o QuartetBytes(q)) % 3 # 0 <=> q[4] = Pad
         /\ Quartets(b \o QuartetBytes(q)) = Quartets(b) \o q
<1>1. PICK w \in Bytes, x \in 0 .. 255, y \in 0 .. 255, z \in 0 .. 255 :
        BytesFor(q, w, x, y, z)
  BY QuartetBytesAre
<1>2. /\ w = QuartetBytes(q) /\ w[1] = x /\ Len(w) \in 1 .. 3
      /\ q[4] = Pad <=> Len(w) # 3
  <2>1. w = QuartetBytes(q) /\ w[1] = x
    BY <1>1 DEF BytesFor
  <2>2. \/ Len(w) = 1 /\ q[4] = Pad
        \/ Len(w) = 2 /\ q[4] = Pad
        \/ Len(w) = 3 /\ q[4] # Pad
    BY <1>1 DEF BytesFor
  <2>3. 1 \in 1 .. 3 /\ 2 \in 1 .. 3 /\ 3 \in 1 .. 3 /\ 1 # 3 /\ 2 # 3
    OBVIOUS
  <2>4. Len(w) \in 1 .. 3 /\ (q[4] = Pad <=> Len(w) # 3)
    BY <2>2, <2>3
  <2> QED
    BY <2>1, <2>4
<1>3. PICK n \in Nat, l \in 1 .. 3 : n = Len(b) /\ l = Len(w)
  BY <1>2, BytesFacts
<1>4. PICK g \in Nat : n = 3 * g /\ Groups(n) = g /\ Groups(n + l) = g + 1
  BY <1>3, WholeGroups
<1>5. PICK d : d = b \o w
  OBVIOUS
<1>6. /\ d \in Bytes /\ Len(d) = n + l
      /\ \A k \in 1 .. n : d[k] = b[k]
      /\ \A k \in 1 .. l : d[n + k] = w[k]
  <2>1. b \in Seq(0 .. 255) /\ w \in Seq(0 .. 255)
    BY DEF Bytes
  <2>2. /\ b \o w \in Seq(0 .. 255) /\ Len(b \o w) = Len(b) + Len(w)
        /\ \A k \in 1 .. Len(b) : (b \o w)[k] = b[k]
        /\ \A k \in 1 .. Len(w) : (b \o w)[Len(b) + k] = w[k]
    BY <2>1
  <2> QED
    BY <1>3, <1>5, <2>2 DEF Bytes
<1>7. Len(d) % 3 # 0 <=> q[4] = Pad
  <2>1. n % 3 = 0
    BY <1>3
  <2>2. (n + l) % 3 # 0 <=> l # 3
    BY <2>1, WholeGroups
  <2> QED
    BY <1>2, <1>3, <1>6, <2>2
<1>8. /\ Quartets(b) \in Seq(0 .. Pad) /\ Len(Quartets(b)) = 4 * g
      /\ \A j \in 0 .. g - 1 : \A r \in 1 .. 4 :
           Quartets(b)[4 * j + r] = QuartetAt(b, 3 * j + 1)[r]
  <2>1. Groups(Len(b)) = g
    BY <1>3, <1>4
  <2>2. /\ Quartets(b) \in Seq(0 .. Pad) /\ Len(Quartets(b)) = 4 * Groups(Len(b))
        /\ \A j \in 0 .. Groups(Len(b)) - 1 : \A r \in 1 .. 4 :
             Quartets(b)[4 * j + r] = QuartetAt(b, 3 * j + 1)[r]
    BY QuartetsFacts
  <2> QED
    BY <2>1, <2>2
<1>9. /\ Quartets(d) \in Seq(0 .. Pad) /\ Len(Quartets(d)) = 4 * (g + 1)
      /\ \A j \in 0 .. (g + 1) - 1 : \A r \in 1 .. 4 :
           Quartets(d)[4 * j + r] = QuartetAt(d, 3 * j + 1)[r]
  <2>1. Groups(Len(d)) = g + 1 /\ d \in Bytes
    BY <1>4, <1>6
  <2>2. PICK h \in Nat : h = g + 1
    OBVIOUS
  <2>3. /\ Quartets(d) \in Seq(0 .. Pad) /\ Len(Quartets(d)) = 4 * h
        /\ \A j \in 0 .. h - 1 : \A r \in 1 .. 4 :
             Quartets(d)[4 * j + r] = QuartetAt(d, 3 * j + 1)[r]
    <3>1. Groups(Len(d)) = h
      BY <2>1, <2>2
    <3>2. /\ Quartets(d) \in Seq(0 .. Pad) /\ Len(Quartets(d)) = 4 * Groups(Len(d))
          /\ \A j \in 0 .. Groups(Len(d)) - 1 : \A r \in 1 .. 4 :
               Quartets(d)[4 * j + r] = QuartetAt(d, 3 * j + 1)[r]
      BY <2>1, QuartetsFacts
    <3> QED
      BY <3>1, <3>2
  <2> QED
    BY <2>2, <2>3
<1>10. ASSUME NEW j \in 0 .. g - 1
       PROVE  QuartetAt(d, 3 * j + 1) = QuartetAt(b, 3 * j + 1)
  <2>1. PICK f \in Nat : f = 3 * j + 1
    OBVIOUS
  <2>2. f \in 1 .. n /\ f + 1 \in 1 .. n /\ f + 2 \in 1 .. n
    BY <1>4, <2>1
  <2>3. /\ ByteAt(d, f) = ByteAt(b, f) /\ ByteAt(d, f + 1) = ByteAt(b, f + 1)
        /\ ByteAt(d, f + 2) = ByteAt(b, f + 2)
    <3>1. ASSUME NEW k \in 1 .. n
          PROVE  ByteAt(d, k) = ByteAt(b, k)
      <4>1. k <= Len(b) /\ k <= Len(d) /\ d[k] = b[k]
        BY <1>3, <1>6
      <4> QED
        BY <4>1 DEF ByteAt
    <3> QED
      BY <2>2, <3>1
  <2>4. ~(f + 1 > Len(d)) /\ ~(f + 1 > Len(b)) /\ ~(f + 2 > Len(d)) /\ ~(f + 2 > Len(b))
    BY <1>3, <1>6, <2>2
  <2>5. QuartetAt(d, f) = QuartetAt(b, f)
    BY <2>3, <2>4 DEF QuartetAt
  <2> QED
    BY <2>1, <2>5
<1>11. ASSUME NEW i \in 1 .. 4 * g
       PROVE  Quartets(d)[i] = Quartets(b)[i]
  <2>1. PICK j \in 0 .. g - 1, r \in 1 .. 4 : i = 4 * j + r
    BY FourPlaces
  <2>2. j \in 0 .. (g + 1) - 1
    OBVIOUS
  <2>3. Quartets(d)[4 * j + r] = QuartetAt(d, 3 * j + 1)[r]
    BY <1>9, <2>2
  <2>4. Quartets(b)[4 * j + r] = QuartetAt(b, 3 * j + 1)[r]
    BY <1>8
  <2> QED
    BY <1>10, <2>1, <2>3, <2>4
<1>12. \A r \in 1 .. 4 : QuartetAt(d, 3 * g + 1)[r] = q[r]
  <2>1. PICK f \in Nat : f = 3 * g + 1
    OBVIOUS
  <2>2. f = n + 1 /\ f + 1 = n + 2 /\ f + 2 = n + 3
    BY <1>4, <2>1
  <2>3. \A k \in 1 .. 3 : ByteAt(d, n + k) = IF k <= l THEN w[k] ELSE 0
    <3>1. ASSUME NEW k \in 1 .. 3
          PROVE  ByteAt(d, n + k) = IF k <= l THEN w[k] ELSE 0
      <4>1. n + k <= Len(d) <=> k <= l
        BY <1>6
      <4>2. k <= l => k \in 1 .. l
        OBVIOUS
      <4>3. k <= l => d[n + k] = w[k]
        BY <1>6, <4>2
      <4> QED
        BY <4>1, <4>3 DEF ByteAt
    <3> QED
      BY <3>1
  <2>4. /\ ByteAt(d, f) = x
        /\ ByteAt(d, f + 1) = IF l < 2 THEN 0 ELSE w[2]
        /\ ByteAt(d, f + 2) = IF l < 3 THEN 0 ELSE w[3]
    <3>1. 1 \in 1 .. 3 /\ 2 \in 1 .. 3 /\ 3 \in 1 .. 3 /\ 1 <= l /\ (2 <= l <=> ~(l < 2))
          /\ (3 <= l <=> ~(l < 3))
      OBVIOUS
    <3>2. /\ ByteAt(d, n + 1) = w[1]
          /\ ByteAt(d, n + 2) = IF 2 <= l THEN w[2] ELSE 0
          /\ ByteAt(d, n + 3) = IF 3 <= l THEN w[3] ELSE 0
      BY <2>3, <3>1
    <3> QED
      BY <1>2, <2>2, <3>1, <3>2
  <2>5. (f + 1 > Len(d) <=> l < 2) /\ (f + 2 > Len(d) <=> l < 3)
    BY <1>6, <2>2
  <2>6. PICK y1, z1 : /\ y1 = (IF l < 2 THEN 0 ELSE w[2])
                      /\ z1 = (IF l < 3 THEN 0 ELSE w[3])
    OBVIOUS
  <2>7. /\ QuartetAt(d, f)[1] = x \div 4
        /\ QuartetAt(d, f)[2] = (x % 4) * 16 + y1 \div 16
        /\ QuartetAt(d, f)[3] = IF l < 2 THEN Pad ELSE (y1 % 16) * 4 + z1 \div 64
        /\ QuartetAt(d, f)[4] = IF l < 3 THEN Pad ELSE z1 % 64
    BY <2>4, <2>5, <2>6 DEF QuartetAt
  <2>8. /\ (x % 4) * 16 + 0 \div 16 = (x % 4) * 16
        /\ (y % 16) * 4 + 0 \div 64 = (y % 16) * 4
    OBVIOUS
  <2>9. /\ QuartetAt(d, f)[1] = q[1] /\ QuartetAt(d, f)[2] = q[2]
        /\ QuartetAt(d, f)[3] = q[3] /\ QuartetAt(d, f)[4] = q[4]
    <3>1. CASE l = 1
      BY <1>1, <1>3, <2>6, <2>7, <2>8, <3>1 DEF BytesFor
    <3>2. CASE l = 2
      <4>1. /\ q[3] # Pad /\ q[4] = Pad /\ w[2] = y /\ q[1] = x \div 4
            /\ q[2] = (x % 4) * 16 + y \div 16 /\ q[3] = (y % 16) * 4
        BY <1>1, <1>3, <3>2 DEF BytesFor
      <4>2. y1 = y /\ z1 = 0
        BY <2>6, <3>2, <4>1
      <4>3. /\ QuartetAt(d, f)[1] = x \div 4
            /\ QuartetAt(d, f)[2] = (x % 4) * 16 + y \div 16
            /\ QuartetAt(d, f)[3] = (y % 16) * 4 + 0 \div 64
            /\ QuartetAt(d, f)[4] = Pad
        BY <2>7, <3>2, <4>2
      <4> QED
        BY <2>8, <4>1, <4>3
    <3>3. CASE l = 3
      <4>1. /\ q[3] # Pad /\ q[4] # Pad /\ w[2] = y /\ w[3] = z /\ q[1] = x \div 4
            /\ q[2] = (x % 4) * 16 + y \div 16 /\ q[3] = (y % 16) * 4 + z \div 64
            /\ q[4] = z % 64
        BY <1>1, <1>3, <3>3 DEF BytesFor
      <4>2. y1 = y /\ z1 = z
        BY <2>6, <3>3, <4>1
      <4>3. /\ QuartetAt(d, f)[1] = x \div 4
            /\ QuartetAt(d, f)[2] = (x % 4) * 16 + y \div 16
            /\ QuartetAt(d, f)[3] = (y % 16) * 4 + z \div 64
            /\ QuartetAt(d, f)[4] = z % 64
        BY <2>7, <3>3, <4>2
      <4> QED
        BY <4>1, <4>3
    <3> QED
      BY <3>1, <3>2, <3>3
  <2>10. \A r \in 1 .. 4 : r = 1 \/ r = 2 \/ r = 3 \/ r = 4
    OBVIOUS
  <2>11. \A r \in 1 .. 4 : QuartetAt(d, f)[r] = q[r]
    BY <2>9, <2>10
  <2> QED
    BY <2>1, <2>11
<1>13. Quartets(d) = Quartets(b) \o q
  <2>1. g \in 0 .. (g + 1) - 1
    OBVIOUS
  <2>2. \A r \in 1 .. 4 : Quartets(d)[4 * g + r] = q[r]
    BY <1>9, <1>12, <2>1
  <2>3. Len(Quartets(d)) = Len(Quartets(b)) + Len(q)
    BY <1>8, <1>9
  <2>4. \A i \in 1 .. Len(Quartets(b)) : Quartets(d)[i] = Quartets(b)[i]
    BY <1>8, <1>11
  <2>5. \A i \in 1 .. Len(q) : Quartets(d)[Len(Quartets(b)) + i] = q[i]
    BY <1>8, <2>2
  <2> QED
    BY <1>8, <1>9, <2>3, <2>4, <2>5, Concatenation
<1> QED
  BY <1>2, <1>3, <1>5, <1>6, <1>7, <1>13

LEMMA SameSequence ==
  ASSUME NEW S, NEW p \in Seq(S), NEW q \in Seq(S), Len(p) = Len(q),
         \A i \in 1 .. Len(p) : p[i] = q[i]
  PROVE  p = q
OBVIOUS

\* What digits are decoded to, whatever they are.
LEMMA BytesOfFacts ==
  ASSUME NEW encoding, NEW digits \in Seq(-1 .. Pad)
  PROVE  /\ BytesOf(encoding, digits) \in Bytes
         /\ Len(BytesOf(encoding, digits)) =
              IF encoding = "hex" THEN Len(digits) \div 2
              ELSE ((Len(digits) - Pads(digits)) * 6) \div 8
         /\ \A k \in 1 .. Len(BytesOf(encoding, digits)) :
              BytesOf(encoding, digits)[k] =
                IF encoding = "hex" THEN PairByte(digits, k) ELSE QuartetByte(digits, k)
<1>1. PICK n \in Nat : n = Len(digits)
  BY SequenceFacts
<1>2. \A i : DigitAt(digits, i) \in 0 .. 63
  BY DEF DigitAt, Pad
<1>3. \A k : PairByte(digits, k) \in 0 .. 255
  <2>1. ASSUME NEW k
        PROVE  PairByte(digits, k) \in 0 .. 255
    <3>1. PICK s, t \in 0 .. 63 :
             s = DigitAt(digits, 2 * k - 1) /\ t = DigitAt(digits, 2 * k)
      BY <1>2
    <3>2. (s % 16) * 16 + (t % 16) \in 0 .. 255
      OBVIOUS
    <3> QED
      BY <3>1, <3>2 DEF PairByte
  <2> QED
    BY <2>1
<1>4. \A k \in Nat : QuartetByte(digits, k) \in 0 .. 255
  <2>1. ASSUME NEW k \in Nat
        PROVE  QuartetByte(digits, k) \in 0 .. 255
    <3>1. PICK s, t, u, v \in 0 .. 63 :
            /\ s = DigitAt(digits, 4 * ((k - 1) \div 3) + 1)
            /\ t = DigitAt(digits, 4 * ((k - 1) \div 3) + 2)
            /\ u = DigitAt(digits, 4 * ((k - 1) \div 3) + 3)
            /\ v = DigitAt(digits, 4 * ((k - 1) \div 3) + 4)
      BY <1>2
    <3>2. /\ s * 4 + t \div 16 \in 0 .. 255 /\ (t % 16) * 16 + u \div 4 \in 0 .. 255
          /\ (u % 4) * 64 + v \in 0 .. 255
      OBVIOUS
    <3>3. k % 3 = 0 \/ k % 3 = 1 \/ k % 3 = 2
      OBVIOUS
    <3>4. QuartetByte(digits, k) = CASE k % 3 = 1 -> s * 4 + t \div 16
                                     [] k % 3 = 2 -> (t % 16) * 16 + u \div 4
                                     [] k % 3 = 0 -> (u % 4) * 64 + v
      BY <3>1 DEF QuartetByte
    <3> QED
      BY <3>2, <3>3, <3>4
  <2> QED
    BY <2>1
<1>5. CASE encoding = "hex"
  <2>1. PICK l \in Nat : l = n \div 2
    BY <1>1
  <2>2. BytesOf(encoding, digits) = [k \in 1 .. l |-> PairByte(digits, k)]
    BY <1>1, <1>5, <2>1 DEF BytesOf
  <2>3. BytesOf(encoding, digits) \in [1 .. l -> 0 .. 255]
    BY <1>3, <2>2
  <2>4. PICK w \in [1 .. l -> 0 .. 255] : w = BytesOf(encoding, digits)
    BY <2>3
  <2>5. w \in Bytes /\ Len(w) = l
    BY SequenceOf DEF Bytes
  <2>6. \A k \in 1 .. l : w[k] = PairByte(digits, k)
    BY <2>2, <2>4
  <2> QED
    BY <1>1, <1>5, <2>1, <2>4, <2>5, <2>6
<1>6. CASE encoding # "hex"
  <2>0. Pads(digits) \in 0 .. n
    BY <1>1 DEF Pads
  <2>1. PICK l \in Nat : l = ((n - Pads(digits)) * 6) \div 8
    <3>1. PICK p \in 0 .. n : p = Pads(digits)
      BY <2>0
    <3>2. ((n - p) * 6) \div 8 \in Nat
      OBVIOUS
    <3> QED
      BY <3>1, <3>2
  <2>2. BytesOf(encoding, digits) = [k \in 1 .. l |-> QuartetByte(digits, k)]
    BY <1>1, <1>6, <2>1 DEF BytesOf
  <2>3. BytesOf(encoding, digits) \in [1 .. l -> 0 .. 255]
    BY <1>4, <2>2
  <2>4. PICK w \in [1 .. l -> 0 .. 255] : w = BytesOf(encoding, digits)
    BY <2>3
  <2>5. w \in Bytes /\ Len(w) = l
    BY SequenceOf DEF Bytes
  <2>6. \A k \in 1 .. l : w[k] = QuartetByte(digits, k)
    BY <2>2, <2>4
  <2> QED
    BY <1>1, <1>6, <2>1, <2>4, <2>5, <2>6
<1> QED
  BY <1>5, <1>6

\* Base16 is decoded to the bytes it was made of.
LEMMA BackFromPairs ==
  ASSUME NEW b \in Bytes
  PROVE  BytesOf("hex", Pairs(b)) = b
<1>0. PICK n \in Nat : n = Len(b)
  BY BytesFacts
<1>1. PICK p, w : p = Pairs(b) /\ w = BytesOf("hex", p) /\ n = Len(b)
  BY <1>0
<1>2. /\ p \in Seq(0 .. 15) /\ Len(p) = 2 * n
      /\ \A k \in 1 .. n : p[2 * k - 1] = b[k] \div 16 /\ p[2 * k] = b[k] % 16
  BY <1>1, PairsFacts
<1>3. p \in Seq(-1 .. Pad)
  <2>1. 0 .. 15 \subseteq -1 .. Pad
    BY DEF Pad
  <2> QED
    BY <1>2, <2>1, WiderSequence
<1>4. /\ w \in Bytes /\ Len(w) = n
      /\ \A k \in 1 .. n : w[k] = PairByte(p, k)
  <2>1. /\ w \in Bytes /\ Len(w) = Len(p) \div 2
        /\ \A k \in 1 .. Len(w) : w[k] = PairByte(p, k)
    BY <1>1, <1>3, BytesOfFacts
  <2>2. (2 * n) \div 2 = n
    OBVIOUS
  <2> QED
    BY <1>2, <2>1, <2>2
<1>5. ASSUME NEW k \in 1 .. n
      PROVE  w[k] = b[k]
  <2>1. PICK v \in 0 .. 255 : v = b[k]
    BY <1>1, BytesFacts
  <2>2. /\ v \div 16 \in 0 .. 15 /\ v % 16 \in 0 .. 15
        /\ (v \div 16) % 16 = v \div 16 /\ (v % 16) % 16 = v % 16
        /\ (v \div 16) * 16 + (v % 16) = v
    OBVIOUS
  <2>3. p[2 * k - 1] = v \div 16 /\ p[2 * k] = v % 16
    BY <1>2, <2>1
  <2>4. 2 * k - 1 <= Len(p) /\ 2 * k <= Len(p)
    BY <1>2
  <2>5. DigitAt(p, 2 * k - 1) = v \div 16 /\ DigitAt(p, 2 * k) = v % 16
    BY <2>2, <2>3, <2>4 DEF DigitAt, Pad
  <2>6. PairByte(p, k) = v
    BY <2>2, <2>5 DEF PairByte
  <2> QED
    BY <1>4, <2>1, <2>6
<1>6. w = b
  <2>1. w \in Seq(0 .. 255) /\ b \in Seq(0 .. 255) /\ Len(w) = Len(b)
    BY <1>1, <1>4 DEF Bytes
  <2>2. \A k \in 1 .. Len(w) : w[k] = b[k]
    BY <1>4, <1>5
  <2> QED
    BY <2>1, <2>2, SameSequence
<1> QED
  BY <1>1, <1>6

\* How many digits of the last group are padding.
LEMMA PadsOf ==
  ASSUME NEW b \in Bytes
  PROVE  /\ Pads(Quartets(b)) = 3 * Groups(Len(b)) - Len(b)
         /\ ((4 * Groups(Len(b)) - Pads(Quartets(b))) * 6) \div 8 = Len(b)
<1>1. PICK n \in Nat : n = Len(b)
  BY BytesFacts
<1>2. PICK m \in Nat : m = Groups(n) /\ m = (n + 2) \div 3
  BY <1>1, QuartetsFacts DEF Groups
<1>3. PICK p : p = Quartets(b)
  OBVIOUS
<1>4. Len(p) = 4 * m
  BY <1>1, <1>2, <1>3, QuartetsFacts
<1>5. Pads(p) = 3 * m - n
  <2>1. CASE m = 0
    <3>1. n = 0 /\ 4 * m < 2
      BY <1>2, <2>1
    <3> QED
      BY <1>4, <2>1, <3>1 DEF Pads
  <2>2. CASE m # 0
    <3>1. PICK g \in 0 .. m - 1 : g = m - 1
      BY <2>2
    <3>2. PICK q : q = <<p[4 * g + 1], p[4 * g + 2], p[4 * g + 3], p[4 * g + 4]>>
      OBVIOUS
    <3>3. GroupOf(ByteAt(b, 3 * g + 1), ByteAt(b, 3 * g + 2), ByteAt(b, 3 * g + 3),
                  Len(b) - 3 * g, q)
      BY <1>1, <1>2, <1>3, <3>2, GroupFacts
    <3>4. /\ q[3] = 64 <=> n - 3 * g < 2
          /\ q[4] = 64 <=> n - 3 * g < 3
      BY <1>1, <3>3 DEF GroupOf
    <3>5. 4 * m = 4 * g + 4 /\ 4 * m - 1 = 4 * g + 3 /\ ~(4 * m < 2)
      BY <2>2, <3>1
    <3>6. Pads(p) = IF ~(n - 3 * g < 3) THEN 0 ELSE IF n - 3 * g < 2 THEN 2 ELSE 1
      <4>1. p[4 * m] = q[4] /\ p[4 * m - 1] = q[3]
        BY <3>2, <3>5
      <4> QED
        BY <1>4, <3>4, <3>5, <4>1 DEF Pads, Pad
    <3>7. n - 3 * g \in {1, 2, 3}
      BY <1>2, <3>1
    <3> QED
      BY <3>1, <3>6, <3>7
  <2> QED
    BY <2>1, <2>2
<1>6. ((4 * m - (3 * m - n)) * 6) \div 8 = n
  BY <1>2
<1> QED
  BY <1>1, <1>2, <1>3, <1>5, <1>6

\* Base64 is decoded to the bytes it was made of.
LEMMA BackFromQuartets ==
  ASSUME NEW b \in Bytes
  PROVE  BytesOf("base64", Quartets(b)) = b
<1>0. PICK n, m \in Nat : n = Len(b) /\ m = Groups(n) /\ m = (n + 2) \div 3
  BY BytesFacts, QuartetsFacts DEF Groups
<1>1. PICK p, w : p = Quartets(b) /\ w = BytesOf("base64", p)
  OBVIOUS
<1>2. p \in Seq(0 .. Pad) /\ Len(p) = 4 * m
  BY <1>0, <1>1, QuartetsFacts
<1>3. p \in Seq(-1 .. Pad)
  <2>1. 0 .. Pad \subseteq -1 .. Pad
    BY DEF Pad
  <2> QED
    BY <1>2, <2>1, WiderSequence
<1>4. /\ w \in Bytes /\ Len(w) = n
      /\ \A k \in 1 .. n : w[k] = QuartetByte(p, k)
  <2>1. /\ w \in Bytes /\ Len(w) = ((Len(p) - Pads(p)) * 6) \div 8
        /\ \A k \in 1 .. Len(w) : w[k] = QuartetByte(p, k)
    BY <1>1, <1>3, BytesOfFacts
  <2>2. ((4 * m - Pads(p)) * 6) \div 8 = n
    BY <1>0, <1>1, PadsOf
  <2> QED
    BY <1>2, <2>1, <2>2
<1>5. ASSUME NEW k \in 1 .. n
      PROVE  w[k] = b[k]
  <2>1. PICK g \in 0 .. m - 1, r \in 1 .. 3 :
           k = 3 * g + r /\ (k - 1) \div 3 = g /\ k % 3 = r % 3
    <3>1. /\ (k - 1) \div 3 \in 0 .. m - 1 /\ 1 + ((k - 1) % 3) \in 1 .. 3
          /\ k = 3 * ((k - 1) \div 3) + (1 + ((k - 1) % 3))
          /\ k % 3 = (1 + ((k - 1) % 3)) % 3
      BY <1>0
    <3> QED
      BY <3>1
  <2>2. PICK q : q = <<p[4 * g + 1], p[4 * g + 2], p[4 * g + 3], p[4 * g + 4]>>
    OBVIOUS
  <2>3. GroupOf(ByteAt(b, 3 * g + 1), ByteAt(b, 3 * g + 2), ByteAt(b, 3 * g + 3),
                Len(b) - 3 * g, q)
    BY <1>0, <1>1, <2>2, GroupFacts
  <2>4. PICK x, y, z \in 0 .. 255 : /\ x = ByteAt(b, 3 * g + 1)
                                    /\ y = ByteAt(b, 3 * g + 2)
                                    /\ z = ByteAt(b, 3 * g + 3)
    BY <2>3 DEF GroupOf
  <2>5. /\ q[1] \in 0 .. 63 /\ q[2] \in 0 .. 63 /\ q[3] \in 0 .. 64 /\ q[4] \in 0 .. 64
        /\ x = q[1] * 4 + q[2] \div 16
        /\ q[3] = 64 <=> n - 3 * g < 2
        /\ q[4] = 64 <=> n - 3 * g < 3
        /\ q[3] # 64 => y = (q[2] % 16) * 16 + q[3] \div 4
        /\ q[4] # 64 => z = (q[3] % 4) * 64 + q[4]
    BY <1>0, <2>3, <2>4 DEF GroupOf
  <2>6. /\ 4 * g + 1 <= 4 * m /\ 4 * g + 2 <= 4 * m
        /\ 4 * g + 3 <= 4 * m /\ 4 * g + 4 <= 4 * m
    OBVIOUS
  <2>7. /\ DigitAt(p, 4 * g + 1) = q[1] /\ DigitAt(p, 4 * g + 2) = q[2]
        /\ q[3] # 64 => DigitAt(p, 4 * g + 3) = q[3]
        /\ q[4] # 64 => DigitAt(p, 4 * g + 4) = q[4]
    <3>1. /\ p[4 * g + 1] = q[1] /\ p[4 * g + 2] = q[2] /\ p[4 * g + 3] = q[3]
          /\ p[4 * g + 4] = q[4]
      BY <2>2
    <3>2. \A d \in 0 .. 64 : d # 64 => d \in 0 .. 63
      OBVIOUS
    <3> QED
      BY <1>2, <2>5, <2>6, <3>1, <3>2 DEF DigitAt, Pad
  <2>8. ByteAt(b, k) = b[k]
    BY <1>0 DEF ByteAt
  <2>9. CASE r = 1
    <3>0. k % 3 = 1
      BY <2>1, <2>9
    <3>1. QuartetByte(p, k) = q[1] * 4 + q[2] \div 16
      BY <2>1, <2>7, <3>0 DEF QuartetByte
    <3> QED
      BY <1>4, <2>1, <2>4, <2>5, <2>8, <2>9, <3>1
  <2>10. CASE r = 2
    <3>1. q[3] # 64
      BY <1>0, <2>1, <2>5, <2>10
    <3>2. QuartetByte(p, k) = (q[2] % 16) * 16 + q[3] \div 4
      BY <2>1, <2>7, <2>10, <3>1 DEF QuartetByte
    <3> QED
      BY <1>4, <2>1, <2>4, <2>5, <2>8, <2>10, <3>1, <3>2
  <2>11. CASE r = 3
    <3>1. q[4] # 64 /\ q[3] # 64
      BY <1>0, <2>1, <2>5, <2>11
    <3>2. QuartetByte(p, k) = (q[3] % 4) * 64 + q[4]
      BY <2>1, <2>7, <2>11, <3>1 DEF QuartetByte
    <3> QED
      BY <1>4, <2>1, <2>4, <2>5, <2>8, <2>11, <3>1, <3>2
  <2> QED
    BY <2>9, <2>10, <2>11
<1>6. w = b
  <2>1. w \in Seq(0 .. 255) /\ b \in Seq(0 .. 255) /\ Len(w) = Len(b)
    BY <1>0, <1>4 DEF Bytes
  <2>2. \A k \in 1 .. Len(w) : w[k] = b[k]
    BY <1>4, <1>5
  <2> QED
    BY <2>1, <2>2, SameSequence
<1> QED
  BY <1>1, <1>6

-----------------------------------------------------------------------------
(* The digits of a text, and what it encodes.                                  *)

LEMMA DigitOfFacts ==
  ASSUME NEW encoding \in Encodings, NEW c
  PROVE  /\ DigitOf(encoding, c) \in -1 .. Pad
         /\ encoding = "hex" => DigitOf(encoding, c) \in -1 .. 15
<1>1. /\ \A e \in {"A", "a", "0"} : Sextets[e] \in 0 .. 63
      /\ \A e \in {"a", "0"} : Nibbles[e] \in 0 .. 15
      /\ DOMAIN Sextets = {"A", "a", "0"} /\ DOMAIN Nibbles = {"a", "0"}
  BY DEF Sextets, Nibbles
<1>2. \A v : (v \in 0 .. 63 => v \in -1 .. 64) /\ (v \in 0 .. 15 => v \in -1 .. 64 /\ v \in -1 .. 15)
  OBVIOUS
<1> QED
  BY <1>1, <1>2 DEF DigitOf, Pad, Encodings

\* The digits of a text, and of the text with a character more.
LEMMA DigitsFacts ==
  ASSUME NEW encoding \in Encodings, NEW S, NEW text \in Seq(S)
  PROVE  /\ Digits(encoding, text) \in Seq(-1 .. Pad)
         /\ Len(Digits(encoding, text)) = Len(text) /\ Len(text) \in Nat
         /\ \A k \in 1 .. Len(text) : Digits(encoding, text)[k] = DigitOf(encoding, text[k])
         /\ \A c \in S : Digits(encoding, Append(text, c)) =
              Digits(encoding, text) \o <<DigitOf(encoding, c)>>
<1>1. Len(text) \in Nat /\ DOMAIN text = 1 .. Len(text)
  OBVIOUS
<1>2. /\ Digits(encoding, text) \in Seq(-1 .. Pad) /\ Len(Digits(encoding, text)) = Len(text)
  <2>1. Digits(encoding, text) \in [1 .. Len(text) -> -1 .. Pad]
    BY <1>1, DigitOfFacts DEF Digits
  <2> QED
    BY <1>1, <2>1, SequenceOf
<1>3. \A k \in 1 .. Len(text) : Digits(encoding, text)[k] = DigitOf(encoding, text[k])
  BY <1>1 DEF Digits
<1>4. ASSUME NEW c \in S
      PROVE  Digits(encoding, Append(text, c)) =
               Digits(encoding, text) \o <<DigitOf(encoding, c)>>
  <2>1. /\ Len(Append(text, c)) = Len(text) + 1 /\ DOMAIN Append(text, c) = 1 .. Len(text) + 1
        /\ Append(text, c)[Len(text) + 1] = c
        /\ \A k \in 1 .. Len(text) : Append(text, c)[k] = text[k]
    BY <1>1
  <2>2. PICK m \in Nat : m = Len(text) + 1
    BY <1>1
  <2>8. Digits(encoding, Append(text, c)) \in [1 .. m -> -1 .. Pad]
    BY <2>1, <2>2, DigitOfFacts DEF Digits
  <2>3. /\ Digits(encoding, Append(text, c)) \in Seq(-1 .. Pad)
        /\ Len(Digits(encoding, Append(text, c))) = Len(text) + 1
    BY <2>2, <2>8, SequenceOf
  <2>4. /\ \A k \in 1 .. Len(text) :
             Digits(encoding, Append(text, c))[k] = Digits(encoding, text)[k]
        /\ Digits(encoding, Append(text, c))[Len(text) + 1] = DigitOf(encoding, c)
    BY <1>1, <1>3, <2>1 DEF Digits
  <2>5. PICK p, q, r \in Seq(-1 .. Pad) : /\ p = Digits(encoding, text)
                                          /\ q = Digits(encoding, Append(text, c))
                                          /\ r = <<DigitOf(encoding, c)>>
    <3>1. <<DigitOf(encoding, c)>> \in Seq(-1 .. Pad)
      BY DigitOfFacts
    <3> QED
      BY <1>2, <2>3, <3>1
  <2>6. Len(r) = 1 /\ r[1] = DigitOf(encoding, c)
    BY <2>5
  <2>7. q = p \o r
    BY <1>1, <1>2, <2>3, <2>4, <2>5, <2>6, Concatenation
  <2> QED
    BY <2>5, <2>7
<1> QED
  BY <1>1, <1>2, <1>3, <1>4

AllCharacters == {"A", "a", "0", "=", " ", "."}

\* What follows in a text leaves its digits where they are.
LEMMA GoneOn ==
  ASSUME NEW encoding \in Encodings, NEW text \in Seq(AllCharacters), NEW more \in Endings
  PROVE  /\ text \o more \in Seq(AllCharacters)
         /\ Len(Digits(encoding, text \o more)) >= Len(text)
         /\ \A k \in 1 .. Len(text) :
              Digits(encoding, text \o more)[k] = Digits(encoding, text)[k]
<1>1. more \in Seq(AllCharacters)
  <2>1. "0" \in AllCharacters /\ "A" \in AllCharacters /\ "=" \in AllCharacters
    BY DEF AllCharacters
  <2>2. /\ << >> \in Seq(AllCharacters) /\ <<"0">> \in Seq(AllCharacters)
        /\ <<"A">> \in Seq(AllCharacters) /\ <<"=">> \in Seq(AllCharacters)
        /\ <<"A", "A">> \in Seq(AllCharacters) /\ <<"A", "A", "A">> \in Seq(AllCharacters)
    BY <2>1
  <2> QED
    BY <2>2 DEF Endings
<1>2. /\ text \o more \in Seq(AllCharacters) /\ Len(text) \in Nat /\ Len(more) \in Nat
      /\ Len(text \o more) = Len(text) + Len(more)
      /\ \A k \in 1 .. Len(text) : (text \o more)[k] = text[k]
  BY <1>1
<1>3. /\ Len(Digits(encoding, text \o more)) = Len(text) + Len(more)
      /\ \A k \in 1 .. Len(text) + Len(more) :
           Digits(encoding, text \o more)[k] = DigitOf(encoding, (text \o more)[k])
  BY <1>2, DigitsFacts
<1>4. \A k \in 1 .. Len(text) : Digits(encoding, text)[k] = DigitOf(encoding, text[k])
  BY DigitsFacts
<1> QED
  BY <1>2, <1>3, <1>4

\* A text encodes bytes where there are bytes whose encoding it is.
LEMMA IsEncodingMeans ==
  ASSUME NEW encoding \in Encodings, NEW text \in Seq(AllCharacters)
  PROVE  IsEncoding(encoding, text) <=> \E b \in Bytes : Encodes(encoding, text, b)
<1>1. Digits(encoding, text) \in Seq(-1 .. Pad)
  BY DigitsFacts
<1>2. BytesOf(encoding, Digits(encoding, text)) \in Bytes
  BY <1>1, BytesOfFacts
<1>3. ASSUME NEW b \in Bytes, Encodes(encoding, text, b)
      PROVE  IsEncoding(encoding, text)
  <2>1. BytesOf(encoding, Encoded(encoding, b)) = b
    BY BackFromPairs, BackFromQuartets DEF Encoded, Encodings
  <2> QED
    BY <1>3, <2>1 DEF IsEncoding, Encodes
<1> QED
  BY <1>2, <1>3 DEF IsEncoding

\* A fresh decoder follows the empty text.
LEMMA FollowsFresh ==
  ASSUME NEW encoding \in Encodings
  PROVE  Follows(encoding, << >>, << >>, Fresh)
<1>1. << >> \in Bytes /\ Len(<< >>) = 0 /\ << >> \in Seq(AllCharacters)
  BY DEF Bytes
<1>2. Pairs(<< >>) = << >>
  BY <1>1, PairsFacts
<1>3. Quartets(<< >>) = << >>
  BY <1>1, QuartetsFacts, Z3 DEF Groups
<1>4. Digits(encoding, << >>) = << >>
  <2>1. Len(Digits(encoding, << >>)) = 0 /\ Digits(encoding, << >>) \in Seq(-1 .. Pad)
    BY <1>1, DigitsFacts
  <2> QED
    BY <2>1
<1>5. << >> \o << >> = << >>
  OBVIOUS
<1>6. Encoded(encoding, << >>) = << >>
  BY <1>2, <1>3 DEF Encoded
<1>7. Waiting(encoding, Fresh) = << >>
  BY DEF Waiting, Fresh
<1>8. /\ Fresh.encoded = 0 /\ Fresh.quartet = << >> /\ Fresh.nibble = NoNibble
      /\ Fresh.complete = FALSE
  BY DEF Fresh
<1>9. 0 % 3 = 0
  OBVIOUS
<1> QED
  BY <1>1, <1>4, <1>5, <1>6, <1>7, <1>8, <1>9, Zenon DEF Follows

-----------------------------------------------------------------------------
(* The decoder takes a digit.                                                  *)

\* What the decoder's type is here, and the facts on a text that it follows.
ProperDecoder(d) ==
  /\ d.quartet \in Seq(0 .. Pad) /\ Len(d.quartet) < 4
  /\ d.nibble \in 0 .. NoNibble /\ d.complete \in BOOLEAN

LEMMA WiderDigits ==
  /\ \A s \in Seq(0 .. Pad) : s \in Seq(-1 .. Pad)
  /\ \A s \in Seq(0 .. 15) : s \in Seq(0 .. Pad)
<1>1. 0 .. Pad \subseteq -1 .. Pad /\ 0 .. 15 \subseteq 0 .. Pad
  BY DEF Pad
<1> QED
  BY <1>1, WiderSequence

LEMMA EncodedFacts ==
  ASSUME NEW encoding \in Encodings, NEW b \in Bytes
  PROVE  /\ Encoded(encoding, b) \in Seq(0 .. Pad) /\ Encoded(encoding, b) \in Seq(-1 .. Pad)
         /\ Len(b) \in Nat /\ Groups(Len(b)) \in Nat
         /\ encoding = "hex" => Len(Encoded(encoding, b)) = 2 * Len(b)
         /\ encoding = "base64" => Len(Encoded(encoding, b)) = 4 * Groups(Len(b))
<1>1. CASE encoding = "hex"
  BY <1>1, PairsFacts, QuartetsFacts, WiderDigits DEF Encoded
<1>2. CASE encoding = "base64"
  BY <1>2, QuartetsFacts, WiderDigits DEF Encoded
<1> QED
  BY <1>1, <1>2 DEF Encodings

LEMMA WaitingFacts ==
  ASSUME NEW encoding \in Encodings, NEW d, ProperDecoder(d)
  PROVE  /\ Waiting(encoding, d) \in Seq(0 .. Pad) /\ Waiting(encoding, d) \in Seq(-1 .. Pad)
         /\ Len(Waiting(encoding, d)) \in 0 .. 3
         /\ encoding = "hex" => Len(Waiting(encoding, d)) < 2
<1>1. d.nibble \in 0 .. Pad
  BY DEF ProperDecoder, Pad, NoNibble
<1>2. <<d.nibble>> \in Seq(0 .. Pad) /\ << >> \in Seq(0 .. Pad)
  BY <1>1
<1>5. d.quartet \in Seq(0 .. Pad) /\ Len(d.quartet) < 4
  BY DEF ProperDecoder
<1>6. Len(d.quartet) \in Nat
  BY <1>5
<1>4. Len(<<d.nibble>>) = 1 /\ Len(<< >>) = 0 /\ Len(d.quartet) \in 0 .. 3
  <2>1. Len(<<d.nibble>>) = 1
    OBVIOUS
  <2>2. Len(<< >>) = 0
    OBVIOUS
  <2>3. \A l \in Nat : l < 4 => l \in 0 .. 3
    OBVIOUS
  <2> QED
    BY <1>5, <1>6, <2>1, <2>2, <2>3, Zenon
<1>3. /\ Waiting(encoding, d) \in Seq(0 .. Pad)
      /\ Len(Waiting(encoding, d)) \in 0 .. 3
      /\ encoding = "hex" => Len(Waiting(encoding, d)) < 2
  <2>1. CASE encoding = "hex" /\ d.nibble = NoNibble
    BY <1>2, <1>4, <2>1 DEF Waiting
  <2>2. CASE encoding = "hex" /\ d.nibble # NoNibble
    BY <1>2, <1>4, <2>2 DEF Waiting
  <2>3. CASE encoding = "base64"
    BY <1>4, <1>5, <2>3 DEF Waiting
  <2> QED
    BY <2>1, <2>2, <2>3 DEF Encodings
<1> QED
  BY <1>3, WiderDigits

\* Sequences put together in either order.
LEMMA Regroup ==
  ASSUME NEW S, NEW p \in Seq(S), NEW r \in Seq(S), NEW x \in S
  PROVE  /\ (p \o r) \o <<x>> = p \o (r \o <<x>>)
         /\ p \o << >> = p /\ << >> \o p = p
         /\ r \o <<x>> = Append(r, x)
         /\ Len(p \o r) = Len(p) + Len(r)
<1>1. <<x>> \in Seq(S)
  OBVIOUS
<1>4. p \o r \in Seq(S) /\ r \o <<x>> \in Seq(S)
  BY <1>1
<1>2. PICK a, b \in Seq(S) : a = p \o r /\ b = r \o <<x>>
  BY <1>4
<1>3. a \o <<x>> = p \o b
  <2>3. a \o <<x>> \in Seq(S)
    BY <1>1
  <2>1. PICK q \in Seq(S) : q = a \o <<x>>
    BY <2>3
  <2>2. /\ Len(q) = Len(p) + Len(b)
        /\ \A i \in 1 .. Len(p) : q[i] = p[i]
        /\ \A i \in 1 .. Len(b) : q[Len(p) + i] = b[i]
    <3>1. /\ Len(q) = Len(a) + 1 /\ Len(a) = Len(p) + Len(r) /\ Len(b) = Len(r) + 1
          /\ Len(p) \in Nat /\ Len(r) \in Nat
      BY <1>1, <1>2, <2>1
    <3>2. /\ \A i \in 1 .. Len(a) : q[i] = a[i]
          /\ q[Len(a) + 1] = x
      BY <1>1, <2>1
    <3>3. /\ \A i \in 1 .. Len(p) : a[i] = p[i]
          /\ \A i \in 1 .. Len(r) : a[Len(p) + i] = r[i]
      BY <1>2
    <3>4. /\ \A i \in 1 .. Len(r) : b[i] = r[i]
          /\ b[Len(r) + 1] = x
      BY <1>1, <1>2
    <3>5. ASSUME NEW i \in 1 .. Len(b)
          PROVE  q[Len(p) + i] = b[i]
      <4>1. CASE i <= Len(r)
        BY <3>1, <3>2, <3>3, <3>4, <4>1
      <4>2. CASE i = Len(r) + 1
        BY <3>1, <3>2, <3>4, <4>2
      <4> QED
        BY <3>1, <4>1, <4>2
    <3> QED
      BY <3>1, <3>2, <3>3, <3>5
  <2>4. q = p \o b
    BY <2>2, Concatenation
  <2> QED
    BY <2>1, <2>4
<1> QED
  BY <1>2, <1>3

LEMMA NibbleFacts ==
  ASSUME NEW c \in DOMAIN Nibbles
  PROVE  /\ c \in AllCharacters /\ Nibbles[c] \in 0 .. 15
         /\ DigitOf("hex", c) = Nibbles[c]
<1>1. c = "a" \/ c = "0"
  BY DEF Nibbles
<1>2. Nibbles[c] \in 0 .. 15
  <2>1. Nibbles["a"] = 10 /\ Nibbles["0"] = 0
    BY DEF Nibbles
  <2> QED
    BY <1>1, <2>1
<1>3. DigitOf("hex", c) = Nibbles[c]
  BY DEF DigitOf
<1> QED
  BY <1>1, <1>2, <1>3 DEF AllCharacters

\* The digit x of c comes after those of the text.
OneDigitMore(encoding, text, b, d, c, x) ==
  /\ Append(text, c) \in Seq(AllCharacters) /\ Len(Append(text, c)) = Len(text) + 1
  /\ Digits(encoding, Append(text, c)) =
       Encoded(encoding, b) \o (Waiting(encoding, d) \o <<x>>)
  /\ Len(text) = Len(Encoded(encoding, b)) + Len(Waiting(encoding, d))
  /\ Waiting(encoding, d) \o <<x>> = Append(Waiting(encoding, d), x)

\* The digits of a text with one more character.
LEMMA OneMore ==
  ASSUME NEW encoding \in Encodings, NEW text \in Seq(AllCharacters), NEW b \in Bytes,
         NEW d, ProperDecoder(d), Follows(encoding, text, b, d),
         NEW c \in AllCharacters, NEW x \in -1 .. Pad, x = DigitOf(encoding, c)
  PROVE  OneDigitMore(encoding, text, b, d, c, x)
<1>1. Digits(encoding, text) = Encoded(encoding, b) \o Waiting(encoding, d)
  BY DEF Follows
<1>2. Digits(encoding, Append(text, c)) = Digits(encoding, text) \o <<x>>
  BY DigitsFacts
<1>3. PICK p, r \in Seq(-1 .. Pad) : p = Encoded(encoding, b) /\ r = Waiting(encoding, d)
  BY EncodedFacts, WaitingFacts
<1>4. /\ (p \o r) \o <<x>> = p \o (r \o <<x>>)
      /\ r \o <<x>> = Append(r, x) /\ Len(p \o r) = Len(p) + Len(r)
  BY Regroup
<1>5. Len(Digits(encoding, text)) = Len(text)
  BY DigitsFacts
<1>6. Digits(encoding, Append(text, c)) =
        Encoded(encoding, b) \o (Waiting(encoding, d) \o <<x>>)
  BY <1>1, <1>2, <1>3, <1>4, Zenon
<1>7. Waiting(encoding, d) \o <<x>> = Append(Waiting(encoding, d), x)
  BY <1>3, <1>4, Zenon
<1>8. Len(text) = Len(Encoded(encoding, b)) + Len(Waiting(encoding, d))
  BY <1>1, <1>3, <1>4, <1>5, Zenon
<1>9. Append(text, c) \in Seq(AllCharacters) /\ Len(Append(text, c)) = Len(text) + 1
  BY AppendFacts
<1> QED
  BY <1>6, <1>7, <1>8, <1>9, Zenon DEF OneDigitMore

\* The first digit of a byte waits (decode_embedded_text).
LEMMA FollowsNibble ==
  ASSUME NEW text \in Seq(AllCharacters), NEW b \in Bytes,
         NEW d, ProperDecoder(d), Follows("hex", text, b, d), d.nibble = NoNibble,
         NEW c \in DOMAIN Nibbles, NEW e, e.quartet = d.quartet, e.nibble = Nibbles[c],
         e.encoded = d.encoded + 1
  PROVE  Follows("hex", Append(text, c), b, e)
<1>1. /\ c \in AllCharacters /\ DigitOf("hex", c) = Nibbles[c] /\ "hex" \in Encodings
      /\ Nibbles[c] \in 0 .. 15
  BY NibbleFacts DEF Encodings
<1>2. PICK x \in -1 .. Pad : x = Nibbles[c]
  BY <1>1 DEF Pad
<1>3. /\ Digits("hex", Append(text, c)) = Encoded("hex", b) \o (Waiting("hex", d) \o <<x>>)
      /\ Len(Append(text, c)) = Len(text) + 1
  <2>1. x = DigitOf("hex", c)
    BY <1>1, <1>2
  <2>2. OneDigitMore("hex", text, b, d, c, x)
    BY <1>1, <2>1, OneMore
  <2> QED
    BY <2>2 DEF OneDigitMore
<1>4. Waiting("hex", d) = << >>
  BY DEF Waiting
<1>5. << >> \o <<x>> = <<x>>
  OBVIOUS
<1>6. Waiting("hex", e) = <<x>>
  BY <1>1, <1>2 DEF Waiting, NoNibble
<1>7. d.quartet = << >> /\ d.encoded = Len(text)
  BY DEF Follows
<1> QED
  BY <1>3, <1>4, <1>5, <1>6, <1>7 DEF Follows

\* The second digit of a byte makes it (append_inline_byte).
LEMMA FollowsByte ==
  ASSUME NEW text \in Seq(AllCharacters), NEW b \in Bytes,
         NEW d, ProperDecoder(d), Follows("hex", text, b, d), d.nibble # NoNibble,
         NEW c \in DOMAIN Nibbles, NEW e, e.quartet = d.quartet, e.nibble = NoNibble,
         e.encoded = d.encoded + 1
  PROVE  /\ Follows("hex", Append(text, c), b \o <<d.nibble * 16 + Nibbles[c]>>, e)
         /\ Len(BytesOf("hex", Digits("hex", Append(text, c)))) = Len(b) + 1
<1>1. /\ c \in AllCharacters /\ DigitOf("hex", c) = Nibbles[c] /\ "hex" \in Encodings
      /\ Nibbles[c] \in 0 .. 15 /\ d.nibble \in 0 .. 15
  BY NibbleFacts DEF Encodings, ProperDecoder, NoNibble
<1>2. PICK x \in -1 .. Pad : x = Nibbles[c]
  BY <1>1 DEF Pad
<1>3. /\ Digits("hex", Append(text, c)) = Encoded("hex", b) \o (Waiting("hex", d) \o <<x>>)
      /\ Len(Append(text, c)) = Len(text) + 1
  <2>1. x = DigitOf("hex", c)
    BY <1>1, <1>2
  <2>2. OneDigitMore("hex", text, b, d, c, x)
    BY <1>1, <2>1, OneMore
  <2> QED
    BY <2>2 DEF OneDigitMore
<1>4. Waiting("hex", d) = <<d.nibble>>
  BY DEF Waiting
<1>5. <<d.nibble>> \o <<x>> = <<d.nibble, x>>
  BY PutBefore
<1>6. Waiting("hex", e) = << >>
  BY DEF Waiting
<1>7. d.quartet = << >> /\ d.encoded = Len(text)
  BY DEF Follows
<1>8. PICK w \in Bytes : /\ w = b \o <<d.nibble * 16 + x>> /\ Len(w) = Len(b) + 1
                         /\ Pairs(w) = Pairs(b) \o <<d.nibble, x>>
  BY <1>1, <1>2, PairsMore
<1>9. Digits("hex", Append(text, c)) = Pairs(w)
  BY <1>3, <1>4, <1>5, <1>8 DEF Encoded
<1>10. Pairs(w) \o << >> = Pairs(w)
  BY PairsFacts
<1>11. BytesOf("hex", Digits("hex", Append(text, c))) = w
  BY <1>9, BackFromPairs
<1>12. Encoded("hex", w) = Pairs(w)
  BY DEF Encoded
<1>13. Follows("hex", Append(text, c), w, e)
  BY <1>3, <1>6, <1>7, <1>9, <1>10, <1>12 DEF Follows
<1> QED
  BY <1>2, <1>8, <1>11, <1>13

LEMMA SextetFacts ==
  ASSUME NEW c, c = "=" \/ c \in DOMAIN Sextets
  PROVE  /\ c \in AllCharacters /\ SextetOf(c) \in 0 .. Pad /\ SextetOf(c) \in -1 .. Pad
         /\ DigitOf("base64", c) = SextetOf(c)
<1>1. \A v : v \in 0 .. 63 \/ v = 64 => v \in -1 .. 64 /\ v \in 0 .. 64
  OBVIOUS
<1>2. DOMAIN Sextets = {"A", "a", "0"} /\ \A k \in {"A", "a", "0"} : Sextets[k] \in 0 .. 63
  BY DEF Sextets
<1>3. CASE c = "="
  BY <1>1, <1>2, <1>3 DEF AllCharacters, SextetOf, DigitOf, Pad
<1>4. CASE c \in DOMAIN Sextets /\ c # "="
  <2>1. SextetOf(c) = Sextets[c] /\ DigitOf("base64", c) = Sextets[c]
    BY <1>4 DEF SextetOf, DigitOf
  <2> QED
    BY <1>1, <1>2, <1>4, <2>1 DEF AllCharacters, Pad
<1> QED
  BY <1>3, <1>4

\* One of the first three digits of a group waits.
LEMMA FollowsSextet ==
  ASSUME NEW text \in Seq(AllCharacters), NEW b \in Bytes,
         NEW d, ProperDecoder(d), Follows("base64", text, b, d), ~d.complete,
         NEW c, c = "=" \/ c \in DOMAIN Sextets,
         NEW e, e.quartet = Append(d.quartet, SextetOf(c)), e.nibble = d.nibble,
         e.encoded = d.encoded + 1, e.complete = d.complete
  PROVE  Follows("base64", Append(text, c), b, e)
<1>1. "base64" \in Encodings
  BY DEF Encodings
<1>2. PICK x \in -1 .. Pad : x = SextetOf(c)
  BY SextetFacts
<1>3. /\ Digits("base64", Append(text, c)) =
           Encoded("base64", b) \o (Waiting("base64", d) \o <<x>>)
      /\ Len(Append(text, c)) = Len(text) + 1
      /\ Waiting("base64", d) \o <<x>> = Append(Waiting("base64", d), x)
  <2>1. c \in AllCharacters /\ x = DigitOf("base64", c)
    BY <1>2, SextetFacts
  <2>2. OneDigitMore("base64", text, b, d, c, x)
    BY <1>1, <2>1, OneMore
  <2> QED
    BY <2>2 DEF OneDigitMore
<1>4. Waiting("base64", d) = d.quartet /\ Waiting("base64", e) = e.quartet
  BY DEF Waiting
<1>7. /\ d.nibble = NoNibble /\ d.encoded = Len(text)
      /\ d.complete <=> Len(b) % 3 # 0
  BY DEF Follows
<1>8. "base64" # "hex"
  OBVIOUS
<1> QED
  BY <1>2, <1>3, <1>4, <1>7, <1>8, Zenon DEF Follows

\* The fourth digit of a group makes its bytes (decode_base64_quartet).
LEMMA FollowsQuartet ==
  ASSUME NEW text \in Seq(AllCharacters), NEW b \in Bytes,
         NEW d, ProperDecoder(d), Follows("base64", text, b, d), ~d.complete, Len(d.quartet) = 3,
         NEW c, c = "=" \/ c \in DOMAIN Sextets,
         NEW q, q = Append(d.quartet, SextetOf(c)), q[1] # Pad, q[2] # Pad, Canonical(q),
         NEW e, e.quartet = << >>, e.nibble = d.nibble,
         e.encoded = d.encoded + 1, e.complete = (q[4] = Pad)
  PROVE  Follows("base64", Append(text, c), b \o QuartetBytes(q), e)
<1>1. "base64" \in Encodings
  BY DEF Encodings
<1>2. PICK x \in -1 .. Pad : x = SextetOf(c)
  BY SextetFacts
<1>3. /\ Digits("base64", Append(text, c)) =
           Encoded("base64", b) \o (Waiting("base64", d) \o <<x>>)
      /\ Len(Append(text, c)) = Len(text) + 1
      /\ Waiting("base64", d) \o <<x>> = Append(Waiting("base64", d), x)
  <2>1. c \in AllCharacters /\ x = DigitOf("base64", c)
    BY <1>2, SextetFacts
  <2>2. OneDigitMore("base64", text, b, d, c, x)
    BY <1>1, <2>1, OneMore
  <2> QED
    BY <2>2 DEF OneDigitMore
<1>4. Waiting("base64", d) = d.quartet /\ Waiting("base64", e) = << >>
  BY DEF Waiting
<1>5. q \in Seq(0 .. Pad) /\ Len(q) = 4
  <2>1. SextetOf(c) \in 0 .. Pad /\ d.quartet \in Seq(0 .. Pad)
    BY SextetFacts DEF ProperDecoder
  <2>2. PICK p \in Seq(0 .. Pad), y \in 0 .. Pad : p = d.quartet /\ y = SextetOf(c)
    BY <2>1
  <2>3. Append(p, y) \in Seq(0 .. Pad) /\ Len(Append(p, y)) = Len(p) + 1
    BY AppendFacts
  <2> QED
    BY <2>2, <2>3
<1>6. Len(b) % 3 = 0 /\ d.nibble = NoNibble /\ d.encoded = Len(text)
  BY BytesFacts DEF Follows
<1>7. PICK w \in Bytes : /\ w = b \o QuartetBytes(q)
                         /\ Len(w) % 3 # 0 <=> q[4] = Pad
                         /\ Quartets(w) = Quartets(b) \o q
  BY <1>5, <1>6, QuartetsMore
<1>8. Digits("base64", Append(text, c)) = Quartets(w)
  BY <1>2, <1>3, <1>4, <1>7 DEF Encoded
<1>9. Quartets(w) \o << >> = Quartets(w)
  BY QuartetsFacts
<1>10. Encoded("base64", w) = Quartets(w)
  BY DEF Encoded
<1>11. "base64" # "hex"
  OBVIOUS
<1>12. Follows("base64", Append(text, c), w, e)
  BY <1>3, <1>4, <1>6, <1>7, <1>8, <1>9, <1>10, <1>11, Zenon DEF Follows
<1> QED
  BY <1>7, <1>12

-----------------------------------------------------------------------------
(* The decoder stops.                                                          *)

LEMMA FollowsLength ==
  ASSUME NEW encoding \in Encodings, NEW text \in Seq(AllCharacters), NEW b \in Bytes,
         NEW d, ProperDecoder(d), Follows(encoding, text, b, d)
  PROVE  /\ Len(text) = Len(Encoded(encoding, b)) + Len(Waiting(encoding, d))
         /\ Len(Waiting(encoding, d)) = 0 => Encodes(encoding, text, b)
         /\ \A k \in 1 .. Len(Encoded(encoding, b)) :
              Digits(encoding, text)[k] = Encoded(encoding, b)[k]
<1>1. Digits(encoding, text) = Encoded(encoding, b) \o Waiting(encoding, d)
  BY DEF Follows
<1>2. PICK p, r \in Seq(-1 .. Pad) : p = Encoded(encoding, b) /\ r = Waiting(encoding, d)
  BY EncodedFacts, WaitingFacts
<1>3. Len(Digits(encoding, text)) = Len(text)
  BY DigitsFacts
<1>4. /\ Len(p \o r) = Len(p) + Len(r) /\ \A k \in 1 .. Len(p) : (p \o r)[k] = p[k]
      /\ Len(r) = 0 => p \o r = p
  OBVIOUS
<1> QED
  BY <1>1, <1>2, <1>3, <1>4 DEF Encodes

\* An encoding has whole groups of digits.
LEMMA EncodesLength ==
  ASSUME NEW encoding \in Encodings, NEW text \in Seq(AllCharacters), IsEncoding(encoding, text)
  PROVE  IF encoding = "hex" THEN Len(text) % 2 = 0 ELSE Len(text) % 4 = 0
<1>1. PICK b \in Bytes : Digits(encoding, text) = Encoded(encoding, b)
  BY IsEncodingMeans DEF Encodes
<1>2. Len(Encoded(encoding, b)) = Len(text)
  BY <1>1, DigitsFacts
<1>3. CASE encoding = "hex"
  <2>1. PICK n \in Nat : n = Len(b)
    BY EncodedFacts
  <2>2. (2 * n) % 2 = 0
    OBVIOUS
  <2> QED
    BY <1>2, <1>3, <2>1, <2>2, EncodedFacts
<1>4. CASE encoding = "base64"
  <2>1. PICK n \in Nat : n = Groups(Len(b))
    BY EncodedFacts
  <2>2. (4 * n) % 4 = 0
    OBVIOUS
  <2> QED
    BY <1>2, <1>4, <2>1, <2>2, EncodedFacts
<1> QED
  BY <1>3, <1>4 DEF Encodings

LEMMA ManyDigits ==
  ASSUME NEW n \in Nat
  PROVE  /\ \A l \in 0 .. 3 : (4 * n + l) % 4 = 0 <=> l = 0
         /\ \A l \in 0 .. 1 : (2 * n + l) % 2 = 0 <=> l = 0
         /\ \A l \in 0 .. 1 : (2 * n + l) % 4 = 0 => l = 0
<1>1. /\ (4 * n + 0) % 4 = 0 /\ (4 * n + 1) % 4 = 1 /\ (4 * n + 2) % 4 = 2
      /\ (4 * n + 3) % 4 = 3
  OBVIOUS
<1>2. /\ (2 * n + 0) % 2 = 0 /\ (2 * n + 1) % 2 = 1
  OBVIOUS
<1>3. (2 * n + 1) % 4 # 0
  OBVIOUS
<1>4. /\ \A l \in 0 .. 3 : l = 0 \/ l = 1 \/ l = 2 \/ l = 3
      /\ \A l \in 0 .. 1 : l = 0 \/ l = 1
  OBVIOUS
<1> QED
  BY <1>1, <1>2, <1>3, <1>4

\* Where nothing waits the text is an encoding, and where something does it is none.
LEMMA FollowsEnd ==
  ASSUME NEW encoding \in Encodings, NEW text \in Seq(AllCharacters), NEW b \in Bytes,
         NEW d, ProperDecoder(d), Follows(encoding, text, b, d)
  PROVE  /\ Waiting(encoding, d) = << >> => Encodes(encoding, text, b)
         /\ Waiting(encoding, d) # << >> => ~IsEncoding(encoding, text)
         /\ Len(text) % 4 = 0 => Promising(encoding, text)
<1>1. PICK w \in Seq(0 .. Pad) : w = Waiting(encoding, d)
  BY WaitingFacts
<1>2. PICK l \in 0 .. 3 : l = Len(w)
  BY <1>1, WaitingFacts
<1>3. (w = << >> <=> l = 0)
  BY <1>2
<1>4. l = 0 => Encodes(encoding, text, b)
  BY <1>1, <1>2, FollowsLength
<1>5. IF encoding = "hex" THEN Len(text) % 2 = 0 <=> l = 0 ELSE Len(text) % 4 = 0 <=> l = 0
  <2>1. CASE encoding = "hex"
    <3>1. PICK n \in Nat : n = Len(b)
      BY EncodedFacts
    <3>4. Len(w) < 2
      BY <1>1, <2>1, WaitingFacts
    <3>2. l \in 0 .. 1
      BY <1>2, <3>4
    <3>3. Len(text) = 2 * n + l
      BY <1>1, <1>2, <2>1, <3>1, EncodedFacts, FollowsLength
    <3> QED
      BY <2>1, <3>2, <3>3, ManyDigits
  <2>2. CASE encoding = "base64"
    <3>1. PICK n \in Nat : n = Groups(Len(b))
      BY EncodedFacts
    <3>3. Len(text) = 4 * n + l
      BY <1>1, <1>2, <2>2, <3>1, EncodedFacts, FollowsLength
    <3> QED
      BY <2>2, <3>3, ManyDigits
  <2> QED
    BY <2>1, <2>2 DEF Encodings
<1>6. l # 0 => ~IsEncoding(encoding, text)
  BY <1>5, EncodesLength
<1>7. Len(text) % 4 = 0 => l = 0
  <2>1. CASE encoding = "hex"
    <3>1. PICK n \in Nat : n = Len(b)
      BY EncodedFacts
    <3>4. Len(w) < 2
      BY <1>1, <2>1, WaitingFacts
    <3>2. l \in 0 .. 1
      BY <1>2, <3>4
    <3>3. Len(text) = 2 * n + l
      BY <1>1, <1>2, <2>1, <3>1, EncodedFacts, FollowsLength
    <3> QED
      BY <3>2, <3>3, ManyDigits
  <2>2. CASE encoding = "base64"
    BY <1>5, <2>2
  <2> QED
    BY <2>1, <2>2 DEF Encodings
<1>8. l = 0 => Promising(encoding, text)
  <2>1. text \o << >> = text /\ << >> \in Endings
    BY DEF Endings
  <2>2. l = 0 => IsEncoding(encoding, text)
    BY <1>4, IsEncodingMeans
  <2> QED
    BY <2>1, <2>2 DEF Promising
<1> QED
  BY <1>1, <1>3, <1>4, <1>6, <1>7, <1>8

\* A text that may go on to an encoding has its digits at their places.
LEMMA PromisingMeans ==
  ASSUME NEW encoding \in Encodings, NEW text \in Seq(AllCharacters), Promising(encoding, text)
  PROVE  \E b \in Bytes :
           /\ Len(Encoded(encoding, b)) >= Len(text)
           /\ \A k \in 1 .. Len(text) : Encoded(encoding, b)[k] = Digits(encoding, text)[k]
<1>1. PICK more \in Endings : IsEncoding(encoding, text \o more)
  BY DEF Promising
<1>2. PICK full \in Seq(AllCharacters) : full = text \o more
  BY <1>1, GoneOn
<1>3. PICK b \in Bytes : Digits(encoding, full) = Encoded(encoding, b)
  BY <1>1, <1>2, IsEncodingMeans DEF Encodes
<1>4. /\ Len(Digits(encoding, full)) >= Len(text)
      /\ \A k \in 1 .. Len(text) : Digits(encoding, full)[k] = Digits(encoding, text)[k]
  BY <1>2, GoneOn
<1> QED
  BY <1>3, <1>4

\* A character that is no digit of the encoding.
LEMMA RefusedDigit ==
  ASSUME NEW encoding \in Encodings, NEW text \in Seq(AllCharacters), NEW c \in AllCharacters,
         DigitOf(encoding, c) = -1
  PROVE  ~Promising(encoding, Append(text, c))
<1>1. SUFFICES ASSUME Promising(encoding, Append(text, c)) PROVE FALSE
  OBVIOUS
<1>11. Append(text, c) \in Seq(AllCharacters)
  OBVIOUS
<1>2. PICK longer \in Seq(AllCharacters) : longer = Append(text, c)
  BY <1>11
<1>3. PICK n \in Nat : n = Len(text)
  OBVIOUS
<1>4. Len(longer) = n + 1 /\ longer[n + 1] = c
  BY <1>2, <1>3
<1>5. Digits(encoding, longer)[n + 1] = -1
  <2>1. n + 1 \in 1 .. Len(longer)
    BY <1>4
  <2>2. Digits(encoding, longer)[n + 1] = DigitOf(encoding, longer[n + 1])
    BY <2>1, DigitsFacts
  <2> QED
    BY <1>4, <2>2
<1>6. PICK b \in Bytes :
           /\ Len(Encoded(encoding, b)) >= Len(longer)
           /\ \A k \in 1 .. Len(longer) : Encoded(encoding, b)[k] = Digits(encoding, longer)[k]
  BY <1>1, <1>2, PromisingMeans
<1>7. PICK e \in Seq(0 .. Pad) : e = Encoded(encoding, b)
  BY EncodedFacts
<1>8. n + 1 \in 1 .. Len(e)
  BY <1>3, <1>4, <1>6, <1>7
<1>9. e[n + 1] \in 0 .. Pad
  <2>1. PICK k \in 1 .. Len(e) : k = n + 1
    BY <1>8
  <2>2. e[k] \in 0 .. Pad
    BY SequenceFacts
  <2> QED
    BY <2>1, <2>2
<1>10. e[n + 1] = -1
  BY <1>3, <1>4, <1>5, <1>6, <1>7
<1> QED
  BY <1>9, <1>10 DEF Pad

LEMMA GroupsFacts ==
  ASSUME NEW n \in Nat
  PROVE  /\ Groups(n) \in Nat
         /\ n % 3 = 0 => n = 3 * Groups(n)
         /\ n % 3 # 0 => Groups(n) >= 1 /\ n - 3 * (Groups(n) - 1) < 3
<1>1. n % 3 = 0 \/ n % 3 = 1 \/ n % 3 = 2
  OBVIOUS
<1>2. PICK k \in Nat : n = 3 * k + (n % 3)
  BY SMT
<1>3. CASE n % 3 = 0
  BY <1>2, <1>3 DEF Groups
<1>4. CASE n % 3 = 1
  BY <1>2, <1>4 DEF Groups
<1>5. CASE n % 3 = 2
  BY <1>2, <1>5 DEF Groups
<1> QED
  BY <1>1, <1>3, <1>4, <1>5

\* A character after the padding.
LEMMA RefusedAfterEnd ==
  ASSUME NEW text \in Seq(AllCharacters), NEW b \in Bytes, NEW d, ProperDecoder(d),
         Follows("base64", text, b, d), d.complete, NEW c \in AllCharacters
  PROVE  ~Promising("base64", Append(text, c))
<1>1. SUFFICES ASSUME Promising("base64", Append(text, c)) PROVE FALSE
  OBVIOUS
<1>2. "base64" \in Encodings
  BY DEF Encodings
<1>3. PICK m \in Nat : m = Groups(Len(b))
  BY <1>2, EncodedFacts
<1>4. PICK n \in Nat : n = Len(b)
  BY BytesFacts
<1>5. m >= 1 /\ n - 3 * (m - 1) < 3
  <2>1. n % 3 # 0
    BY <1>4 DEF Follows
  <2> QED
    BY <1>3, <1>4, <2>1, GroupsFacts
<1>6. PICK g \in Nat : g = m - 1
  BY <1>5
<1>7. Quartets(b)[4 * g + 4] = 64
  <2>1. PICK q : q = <<Quartets(b)[4 * g + 1], Quartets(b)[4 * g + 2],
                       Quartets(b)[4 * g + 3], Quartets(b)[4 * g + 4]>>
    OBVIOUS
  <2>2. g \in 0 .. Groups(Len(b)) - 1
    BY <1>3, <1>6
  <2>3. GroupOf(ByteAt(b, 3 * g + 1), ByteAt(b, 3 * g + 2), ByteAt(b, 3 * g + 3),
                Len(b) - 3 * g, q)
    BY <2>1, <2>2, GroupFacts
  <2>4. q[4] = 64
    BY <1>4, <1>5, <1>6, <2>3 DEF GroupOf
  <2> QED
    BY <2>1, <2>4
<1>8. Waiting("base64", d) = << >>
  BY DEF Follows, Waiting
<1>9. Len(Quartets(b)) = 4 * m /\ Len(text) = 4 * m
  <2>1. Len(<< >>) = 0
    OBVIOUS
  <2>2. Len(Encoded("base64", b)) = 4 * m
    BY <1>2, <1>3, EncodedFacts
  <2>3. Len(text) = Len(Encoded("base64", b)) + 0
    BY <1>2, <1>8, <2>1, FollowsLength
  <2> QED
    BY <2>2, <2>3 DEF Encoded
<1>10. 4 * g + 4 \in 1 .. 4 * m
  BY <1>5, <1>6
<1>11. Digits("base64", text)[4 * g + 4] = 64
  <2>1. Encoded("base64", b) = Quartets(b)
    BY DEF Encoded
  <2>2. Digits("base64", text)[4 * g + 4] = Encoded("base64", b)[4 * g + 4]
    BY <1>2, <1>9, <1>10, <2>1, FollowsLength
  <2> QED
    BY <1>7, <2>1, <2>2
<1>12. Append(text, c) \in Seq(AllCharacters)
  BY AppendFacts
<1>13. PICK longer \in Seq(AllCharacters) : longer = Append(text, c)
  BY <1>12
<1>14. /\ Len(longer) = 4 * m + 1
       /\ longer[4 * g + 4] = text[4 * g + 4]
  BY <1>9, <1>10, <1>13, AppendFacts
<1>15. Digits("base64", longer)[4 * g + 4] = 64
  <2>1. 4 * g + 4 \in 1 .. Len(longer) /\ 4 * g + 4 \in 1 .. Len(text)
    BY <1>9, <1>10, <1>14
  <2>2. /\ Digits("base64", longer)[4 * g + 4] = DigitOf("base64", longer[4 * g + 4])
        /\ Digits("base64", text)[4 * g + 4] = DigitOf("base64", text[4 * g + 4])
    BY <1>2, <2>1, DigitsFacts
  <2> QED
    BY <1>11, <1>14, <2>2
<1>16. PICK a \in Bytes :
           /\ Len(Encoded("base64", a)) >= Len(longer)
           /\ \A k \in 1 .. Len(longer) : Encoded("base64", a)[k] = Digits("base64", longer)[k]
  BY <1>1, <1>2, <1>13, PromisingMeans
<1>17. Encoded("base64", a) = Quartets(a)
  BY DEF Encoded
<1>18. PICK l, h \in Nat : l = Len(a) /\ h = Groups(l)
  BY <1>2, EncodedFacts
<1>19. 4 * h >= 4 * m + 1
  BY <1>2, <1>14, <1>16, <1>18, EncodedFacts
<1>20. Quartets(a)[4 * g + 4] = 64
  BY <1>10, <1>14, <1>15, <1>16, <1>17
<1>21. g \in 0 .. h - 1 /\ g # h - 1
  BY <1>6, <1>19
<1>22. l - 3 * g < 3
  <2>1. PICK q : q = <<Quartets(a)[4 * g + 1], Quartets(a)[4 * g + 2],
                       Quartets(a)[4 * g + 3], Quartets(a)[4 * g + 4]>>
    OBVIOUS
  <2>3. GroupOf(ByteAt(a, 3 * g + 1), ByteAt(a, 3 * g + 2), ByteAt(a, 3 * g + 3),
                Len(a) - 3 * g, q)
    BY <1>18, <1>21, <2>1, GroupFacts
  <2>4. q[4] = 64
    BY <1>20, <2>1
  <2> QED
    BY <1>18, <2>3, <2>4 DEF GroupOf
<1>23. 3 * g + 3 > l => g = h - 1
  <2>1. PICK q : q = <<Quartets(a)[4 * g + 1], Quartets(a)[4 * g + 2],
                       Quartets(a)[4 * g + 3], Quartets(a)[4 * g + 4]>>
    OBVIOUS
  <2>2. /\ q[1] = Quartets(a)[4 * g + 1] /\ q[2] = Quartets(a)[4 * g + 2]
        /\ q[3] = Quartets(a)[4 * g + 3] /\ q[4] = Quartets(a)[4 * g + 4]
    BY <2>1
  <2>3. g \in 0 .. Groups(Len(a)) - 1
    BY <1>18, <1>21
  <2>4. 3 * g + 3 > Len(a) => g = Groups(Len(a)) - 1
    BY <2>2, <2>3, GroupFacts
  <2> QED
    BY <1>18, <2>4
<1> QED
  BY <1>18, <1>21, <1>22, <1>23

\* The last four digits of a text.
LastGroup(text, m, q) ==
  /\ q \in Seq(0 .. Pad) /\ Len(q) = 4 /\ Len(text) = 4 * m + 4
  /\ Digits("base64", text)[4 * m + 1] = q[1] /\ Digits("base64", text)[4 * m + 2] = q[2]
  /\ Digits("base64", text)[4 * m + 3] = q[3] /\ Digits("base64", text)[4 * m + 4] = q[4]

LEMMA PlacesAfter ==
  ASSUME NEW S, NEW e \in Seq(S), NEW q \in Seq(S)
  PROVE  \A i \in 1 .. Len(q) : (e \o q)[Len(e) + i] = q[i]
OBVIOUS

LEMMA FourAfter ==
  ASSUME NEW S, NEW e \in Seq(S), NEW q \in Seq(S), Len(q) = 4
  PROVE  /\ (e \o q)[Len(e) + 1] = q[1] /\ (e \o q)[Len(e) + 2] = q[2]
         /\ (e \o q)[Len(e) + 3] = q[3] /\ (e \o q)[Len(e) + 4] = q[4]
<1>0. \A w \in Seq(S) : \A i \in 1 .. Len(w) : (e \o w)[Len(e) + i] = w[i]
  BY PlacesAfter
<1>1. \A i \in 1 .. Len(q) : (e \o q)[Len(e) + i] = q[i]
  BY <1>0
<1>2. /\ 1 \in 1 .. Len(q) /\ 2 \in 1 .. Len(q) /\ 3 \in 1 .. Len(q) /\ 4 \in 1 .. Len(q)
  OBVIOUS
<1> QED
  BY <1>1, <1>2

LEMMA GroupAtEnd ==
  ASSUME NEW text \in Seq(AllCharacters), NEW m \in Nat, NEW e \in Seq(0 .. Pad),
         NEW q \in Seq(0 .. Pad), Len(e) = 4 * m, Len(q) = 4, Len(text) = 4 * m + 4,
         Digits("base64", text) = e \o q
  PROVE  LastGroup(text, m, q)
<1>1. /\ (e \o q)[4 * m + 1] = q[1] /\ (e \o q)[4 * m + 2] = q[2]
      /\ (e \o q)[4 * m + 3] = q[3] /\ (e \o q)[4 * m + 4] = q[4]
  <2>1. /\ (e \o q)[Len(e) + 1] = q[1] /\ (e \o q)[Len(e) + 2] = q[2]
        /\ (e \o q)[Len(e) + 3] = q[3] /\ (e \o q)[Len(e) + 4] = q[4]
    BY FourAfter
  <2> QED
    BY <2>1
<1> QED
  BY <1>1 DEF LastGroup

\* The group that a fourth digit completes is the last of the text.
LEMMA FullGroup ==
  ASSUME NEW text \in Seq(AllCharacters), NEW b \in Bytes, NEW d, ProperDecoder(d),
         Follows("base64", text, b, d), ~d.complete, Len(d.quartet) = 3,
         NEW c \in AllCharacters, c = "=" \/ c \in DOMAIN Sextets
  PROVE  /\ Append(text, c) \in Seq(AllCharacters)
         /\ \E m \in Nat : /\ Len(b) = 3 * m
                         /\ LastGroup(Append(text, c), m, Append(d.quartet, SextetOf(c)))
<1>1. "base64" \in Encodings
  BY DEF Encodings
<1>2. PICK x \in -1 .. Pad : x = SextetOf(c)
  BY SextetFacts
<1>3. /\ Append(d.quartet, SextetOf(c)) \in Seq(0 .. Pad)
      /\ Len(Append(d.quartet, SextetOf(c))) = 4
  <2>1. SextetOf(c) \in 0 .. Pad /\ d.quartet \in Seq(0 .. Pad)
    BY SextetFacts DEF ProperDecoder
  <2>2. PICK p \in Seq(0 .. Pad), y \in 0 .. Pad : p = d.quartet /\ y = SextetOf(c)
    BY <2>1
  <2>3. Append(p, y) \in Seq(0 .. Pad) /\ Len(Append(p, y)) = Len(p) + 1
    BY AppendFacts
  <2> QED
    BY <2>2, <2>3
<1>10. PICK q \in Seq(0 .. Pad) : q = Append(d.quartet, SextetOf(c)) /\ Len(q) = 4
  BY <1>3
<1>4. PICK m \in Nat : m = Groups(Len(b))
  BY <1>1, EncodedFacts
<1>5. Len(b) = 3 * m
  BY <1>1, <1>4, EncodedFacts, GroupsFacts DEF Follows
<1>13. Append(text, c) \in Seq(AllCharacters) /\ Len(Append(text, c)) = Len(text) + 1
  BY AppendFacts
<1>11. PICK longer \in Seq(AllCharacters) : longer = Append(text, c) /\ Len(longer) = Len(text) + 1
  BY <1>13
<1>7. PICK e \in Seq(0 .. Pad) : e = Encoded("base64", b)
  BY <1>1, EncodedFacts
<1>6. Digits("base64", longer) = e \o q
  <2>1. Waiting("base64", d) = d.quartet
    BY DEF Waiting
  <2>2. x = DigitOf("base64", c)
    BY <1>2, SextetFacts
  <2>3. /\ Waiting("base64", d) \o <<x>> = Append(Waiting("base64", d), x)
        /\ Digits("base64", Append(text, c)) =
              Encoded("base64", b) \o (Waiting("base64", d) \o <<x>>)
    <3>1. c \in AllCharacters
      BY SextetFacts
    <3>2. OneDigitMore("base64", text, b, d, c, x)
      BY <1>1, <2>2, <3>1, OneMore
    <3> QED
      BY <3>2 DEF OneDigitMore
  <2> QED
    BY <1>2, <1>7, <1>10, <1>11, <2>1, <2>3
<1>8. Len(e) = 4 * m
  BY <1>1, <1>4, <1>7, EncodedFacts
<1>12. Len(longer) = 4 * m + 4
  <2>1. Waiting("base64", d) = d.quartet
    BY DEF Waiting
  <2>2. Len(text) = Len(Encoded("base64", b)) + Len(Waiting("base64", d))
    BY <1>1, FollowsLength
  <2>3. Len(Waiting("base64", d)) = 3
    BY <2>1
  <2>4. Len(text) = 4 * m + 3
    BY <1>7, <1>8, <2>2, <2>3
  <2> QED
    BY <1>11, <2>4
<1>9. LastGroup(longer, m, q)
  BY <1>6, <1>8, <1>10, <1>12, GroupAtEnd
<1> QED
  BY <1>5, <1>9, <1>10, <1>11

\* A group of four characters that is in no encoding.
LEMMA RefusedGroup ==
  ASSUME NEW text \in Seq(AllCharacters), NEW m \in Nat, NEW q, LastGroup(text, m, q),
         q[1] = Pad \/ q[2] = Pad \/ ~Canonical(q)
  PROVE  ~Promising("base64", text)
<1>1. SUFFICES ASSUME Promising("base64", text) PROVE FALSE
  OBVIOUS
<1>2. "base64" \in Encodings
  BY DEF Encodings
<1>6. Len(text) = 4 * m + 4
  BY DEF LastGroup
<1>7. PICK a \in Bytes :
           /\ Len(Encoded("base64", a)) >= Len(text)
           /\ \A k \in 1 .. Len(text) : Encoded("base64", a)[k] = Digits("base64", text)[k]
  BY <1>1, <1>2, PromisingMeans
<1>8. Encoded("base64", a) = Quartets(a)
  BY DEF Encoded
<1>9. PICK h \in Nat : h = Groups(Len(a)) /\ Len(Quartets(a)) = 4 * h
  BY QuartetsFacts
<1>10. m \in 0 .. Groups(Len(a)) - 1
  <2>1. 4 * h >= 4 * m + 4
    BY <1>6, <1>7, <1>8, <1>9
  <2>2. m \in 0 .. h - 1
    BY <2>1
  <2> QED
    BY <1>9, <2>2
<1>11. /\ 4 * m + 1 \in 1 .. Len(text) /\ 4 * m + 2 \in 1 .. Len(text)
       /\ 4 * m + 3 \in 1 .. Len(text) /\ 4 * m + 4 \in 1 .. Len(text)
  BY <1>6
<1>12. /\ q[1] = Quartets(a)[4 * m + 1] /\ q[2] = Quartets(a)[4 * m + 2]
       /\ q[3] = Quartets(a)[4 * m + 3] /\ q[4] = Quartets(a)[4 * m + 4]
  BY <1>7, <1>8, <1>11 DEF LastGroup
<1>13. GroupOf(ByteAt(a, 3 * m + 1), ByteAt(a, 3 * m + 2), ByteAt(a, 3 * m + 3),
               Len(a) - 3 * m, q)
  BY <1>10, <1>12, GroupFacts
<1>14. PICK l \in Nat : l = Len(a)
  BY BytesFacts
<1>15. /\ q[1] \in 0 .. 63 /\ q[2] \in 0 .. 63
       /\ q[3] = 64 <=> l - 3 * m < 2
       /\ q[4] = 64 <=> l - 3 * m < 3
       /\ q[3] = 64 => q[2] % 16 = 0
       /\ q[3] # 64 /\ q[4] = 64 => q[3] % 4 = 0
  BY <1>13, <1>14 DEF GroupOf
<1>16. l - 3 * m < 2 => l - 3 * m < 3
  OBVIOUS
<1>17. \A v \in 0 .. 63 : v # 64
  OBVIOUS
<1> QED
  BY <1>15, <1>16, <1>17, Zenon DEF Pad, Canonical

\* As many bytes as a group of four characters would have made.
LEMMA GroupTooMuch ==
  ASSUME NEW text \in Seq(AllCharacters), NEW m \in Nat, NEW q, LastGroup(text, m, q)
  PROVE  /\ Len(QuartetBytes(q)) \in 1 .. 3
         /\ Len(BytesOf("base64", Digits("base64", text))) \in Nat
         /\ Len(BytesOf("base64", Digits("base64", text))) >= 3 * m + Len(QuartetBytes(q))
<1>1. "base64" \in Encodings
  BY DEF Encodings
<1>5. PICK D \in Seq(-1 .. Pad) : D = Digits("base64", text)
  BY <1>1, DigitsFacts
<1>6. Len(D) = 4 * m + 4
  BY <1>1, <1>5, DigitsFacts DEF LastGroup
<1>2. D[4 * m + 3] = q[3] /\ D[4 * m + 4] = q[4]
  BY <1>5 DEF LastGroup
<1>7. Pads(D) = IF q[4] # Pad THEN 0 ELSE IF q[3] = Pad THEN 2 ELSE 1
  <2>1. ~(4 * m + 4 < 2) /\ 4 * m + 4 - 1 = 4 * m + 3
    OBVIOUS
  <2> QED
    BY <1>2, <1>6, <2>1 DEF Pads
<1>8. Len(QuartetBytes(q)) = IF q[3] = Pad THEN 1 ELSE IF q[4] = Pad THEN 2 ELSE 3
  <2>1. PICK x, y, z : /\ x = q[1] * 4 + q[2] \div 16
                       /\ y = (q[2] % 16) * 16 + q[3] \div 4
                       /\ z = (q[3] % 4) * 64 + q[4]
    OBVIOUS
  <2>2. QuartetBytes(q) = <<x>> \o (IF q[3] = Pad THEN << >>
                                    ELSE <<y>> \o (IF q[4] = Pad THEN << >> ELSE <<z>>))
    BY <2>1 DEF QuartetBytes
  <2>3. <<x>> \o << >> = <<x>> /\ <<y>> \o << >> = <<y>>
    OBVIOUS
  <2>4. <<y>> \o <<z>> = <<y, z>> /\ <<x>> \o <<y>> = <<x, y>> /\ <<x>> \o <<y, z>> = <<x, y, z>>
    BY PutBefore
  <2>5. Len(<<x>>) = 1 /\ Len(<<x, y>>) = 2 /\ Len(<<x, y, z>>) = 3
    OBVIOUS
  <2> QED
    BY <2>2, <2>3, <2>4, <2>5
<1>9. Len(BytesOf("base64", D)) = ((Len(D) - Pads(D)) * 6) \div 8
  <2>1. Len(BytesOf("base64", D)) =
          IF "base64" = "hex" THEN Len(D) \div 2 ELSE ((Len(D) - Pads(D)) * 6) \div 8
    BY BytesOfFacts
  <2>2. "base64" # "hex"
    OBVIOUS
  <2> QED
    BY <2>1, <2>2
<1>10. /\ ((4 * m + 4 - 0) * 6) \div 8 = 3 * m + 3
       /\ ((4 * m + 4 - 1) * 6) \div 8 = 3 * m + 2
       /\ ((4 * m + 4 - 2) * 6) \div 8 = 3 * m + 1
  OBVIOUS
<1>11. CASE q[3] = Pad /\ q[4] = Pad
  BY <1>5, <1>6, <1>7, <1>8, <1>9, <1>10, <1>11
<1>12. CASE q[3] = Pad /\ q[4] # Pad
  BY <1>5, <1>6, <1>7, <1>8, <1>9, <1>10, <1>12
<1>13. CASE q[3] # Pad /\ q[4] = Pad
  BY <1>5, <1>6, <1>7, <1>8, <1>9, <1>10, <1>13
<1>14. CASE q[3] # Pad /\ q[4] # Pad
  BY <1>5, <1>6, <1>7, <1>8, <1>9, <1>10, <1>14
<1> QED
  BY <1>11, <1>12, <1>13, <1>14

-----------------------------------------------------------------------------
(* One character of a block (decode_embedded_text).                            *)

\* What is known of the block of an element.
LEMMA BlockFacts ==
  ASSUME TypeOK, InvOwners, NEW n \in Blocks
  PROVE  /\ n \in DOMAIN doc /\ n # 0 /\ EncodingOf(n) \in Encodings
         /\ Written(n) \in Seq(AllCharacters) /\ Written(n) \in Seq(Alphabet)
         /\ OwnerOf(n) \in DOMAIN doc /\ DOMAIN blocks = DOMAIN doc
         /\ blocks[OwnerOf(n)] \in Bytes
         /\ MaxBytes[KindOf(OwnerOf(n))] \in Nat
<1>1. n \in DOMAIN doc /\ OwnerOf(n) \in DOMAIN doc /\ KindOf(OwnerOf(n)) \in BlockOwners
  BY DEF InvOwners, Blocks
<1>2. n # 0 /\ doc[n] \in Entry /\ DOMAIN blocks = DOMAIN doc
  BY <1>1, StackFacts
<1>3. doc[n].element \in Element /\ doc[n].text \in Seq(Alphabet)
  BY <1>2, ElementFacts DEF Entry
<1>4. EncodingOf(n) \in Encodings
  BY <1>3 DEF EncodingOf, Element
<1>5. Written(n) \in Seq(Alphabet)
  BY <1>3, UnspacedFacts DEF Written
<1>6. Alphabet \subseteq AllCharacters
  BY TextAssumption DEF TextAssumption, AllCharacters
<1>7. Written(n) \in Seq(AllCharacters)
  BY <1>5, <1>6, WiderSequence
<1>8. blocks \in Seq(Bytes)
  BY DEF TypeOK, Bytes
<1>9. blocks[OwnerOf(n)] \in Bytes
  BY <1>1, <1>2, <1>8, SequenceFacts
<1>10. MaxBytes[KindOf(OwnerOf(n))] \in Nat
  BY <1>1, TextAssumption DEF TextAssumption
<1> QED
  BY <1>1, <1>2, <1>4, <1>5, <1>7, <1>9, <1>10

LEMMA DecoderState ==
  ASSUME TypeOK
  PROVE  ProperDecoder(decoder) /\ decoder \in DecoderType
<1>1. decoder \in DecoderType /\ Len(decoder.quartet) < 4
  BY DEF TypeOK, DecoderType
<1> QED
  BY <1>1 DEF DecoderType, ProperDecoder

\* A text is read on, or it is refused for a reason.
GoesOn(encoding, text, bytes, d, st) ==
  st = "parsing" /\ Follows(encoding, text, bytes, d)

Stops(encoding, text, limit, st) ==
  \/ st = "text" /\ ~Promising(encoding, text)
  \/ st = "limit" /\ \/ Len(text) > MaxEncoded
                     \/ Len(BytesOf(encoding, Digits(encoding, text))) > limit

\* What a character makes of the bytes and of the text.
Reads(encoding, text, bytes, limit, new, d, st) ==
  /\ new \in Bytes /\ Len(new) <= limit
  /\ GoesOn(encoding, text, new, d, st) \/ (new = bytes /\ Stops(encoding, text, limit, st))

LEMMA StoreNothing ==
  ASSUME TypeOK, NEW n, blocks' = blocks
  PROVE  blocks' = [blocks EXCEPT ![n] = blocks[n]]
<1>1. blocks \in Seq(Seq(0 .. 255))
  BY DEF TypeOK
<1>2. [blocks EXCEPT ![n] = blocks[n]] = blocks
  BY <1>1
<1> QED
  BY <1>2

\* The room that is left.
LEMMA RoomLeft ==
  ASSUME NEW limit \in Nat, NEW l \in Nat, NEW k \in Nat
  PROVE  /\ limit - l < k <=> l + k > limit
         /\ limit - l >= k <=> l + k <= limit
         /\ l + k > limit <=> ~(l + k <= limit)
OBVIOUS

LEMMA SmallNumbers ==
  /\ \A v \in 0 .. 16 : v # 16 => v \in 0 .. 15
  /\ \A m \in Nat : (3 * m) % 3 = 0
  /\ \A k \in 1 .. 3 : k \in Nat
  /\ \A k, l \in Nat : k + l \in Nat
  /\ 1 \in Nat
OBVIOUS

LEMMA AtLeast ==
  ASSUME NEW limit \in Nat, NEW n \in Nat, NEW l \in Nat, n >= l, l > limit
  PROVE  n > limit
OBVIOUS

\* One more character of Base16, taken or refused.
LEMMA DecodeHex ==
  ASSUME TypeOK, InvOwners, block \in Blocks, EncodingOf(block) = "hex", status = "parsing",
         Follows("hex", Written(block), blocks[OwnerOf(block)], decoder),
         Len(blocks[OwnerOf(block)]) <= MaxBytes[KindOf(OwnerOf(block))],
         ~(decoder.encoded >= MaxEncoded),
         NEW c \in Alphabet, c # " ", TakeNibble(c) \/ TakeByte(c) \/ RefuseCharacter(c)
  PROVE  \E new : /\ blocks' = [blocks EXCEPT ![OwnerOf(block)] = new]
                  /\ Reads("hex", Append(Written(block), c), blocks[OwnerOf(block)],
                           MaxBytes[KindOf(OwnerOf(block))], new, decoder', status')
<1>1. PICK text \in Seq(AllCharacters) : text = Written(block)
  BY BlockFacts
<1>2. PICK o, b \in Bytes : o = blocks[OwnerOf(block)] /\ b = o
  BY BlockFacts
<1>3. PICK limit \in Nat : limit = MaxBytes[KindOf(OwnerOf(block))]
  BY BlockFacts
<1>4. /\ ProperDecoder(decoder) /\ Counted \in DecoderType /\ Counted.quartet = decoder.quartet
      /\ decoder \in DecoderType
  BY DecoderState, CountedFacts
<1>5. Counted.encoded = decoder.encoded + 1
  BY <1>4 DEF Counted, DecoderType
<1>6. Follows("hex", text, b, decoder) /\ Len(b) <= limit /\ Len(b) \in Nat
  BY <1>1, <1>2, <1>3, BytesFacts
<1>7. "hex" \in Encodings /\ c \in AllCharacters
  BY TextAssumption DEF TextAssumption, Encodings, AllCharacters
<1>8. blocks' = blocks => blocks' = [blocks EXCEPT ![OwnerOf(block)] = b]
  BY <1>2, StoreNothing
<1>9. CASE TakeNibble(c)
  <2>1. /\ decoder' = [Counted EXCEPT !.nibble = Nibbles[c]]
        /\ c \in DOMAIN Nibbles /\ decoder.nibble = NoNibble
        /\ status' = status /\ blocks' = blocks
    BY <1>9 DEF TakeNibble
  <2>2. /\ decoder'.quartet = decoder.quartet /\ decoder'.nibble = Nibbles[c]
        /\ decoder'.encoded = decoder.encoded + 1
    BY <1>4, <1>5, <2>1 DEF DecoderType
  <2>3. Follows("hex", Append(text, c), b, decoder')
    BY <1>4, <1>6, <2>1, <2>2, FollowsNibble
  <2>4. Reads("hex", Append(text, c), b, limit, b, decoder', status')
    BY <1>6, <2>1, <2>3 DEF Reads, GoesOn
  <2> QED
    BY <1>1, <1>2, <1>3, <1>8, <2>1, <2>4
<1>10. CASE TakeByte(c)
  <2>1. c \in DOMAIN Nibbles /\ decoder.nibble # NoNibble
    BY <1>10 DEF TakeByte
  <2>2. PICK e : e = [Counted EXCEPT !.nibble = NoNibble]
    OBVIOUS
  <2>3. /\ e.quartet = decoder.quartet /\ e.nibble = NoNibble
        /\ e.encoded = decoder.encoded + 1
    BY <1>4, <1>5, <2>2 DEF DecoderType
  <2>4. PICK v : v = decoder.nibble * 16 + Nibbles[c]
    OBVIOUS
  <2>5. /\ Follows("hex", Append(text, c), b \o <<v>>, e)
        /\ Len(BytesOf("hex", Digits("hex", Append(text, c)))) = Len(b) + 1
    BY <1>4, <1>6, <2>1, <2>3, <2>4, FollowsByte
  <2>6. b \o <<v>> \in Bytes /\ Len(b \o <<v>>) = Len(b) + 1
    <3>1. decoder.nibble \in 0 .. 15 /\ Nibbles[c] \in 0 .. 15
      <4>1. PICK x \in 0 .. 16 : x = decoder.nibble
        BY <1>4 DEF ProperDecoder, NoNibble
      <4>2. x # 16
        BY <2>1, <4>1 DEF NoNibble
      <4>3. x \in 0 .. 15
        BY <4>2, SmallNumbers, Zenon
      <4> QED
        BY <2>1, <4>1, <4>3, NibbleFacts
    <3> QED
      BY <2>4, <3>1, PairsMore
  <2>7. Room = limit - Len(b)
    BY <1>2, <1>3 DEF Room
  <2>8. CASE Room < 1
    <3>1. status' = "limit" /\ blocks' = blocks
      BY <1>10, <2>8 DEF TakeByte
    <3>2. Len(b) + 1 > limit
      <4>1. limit - Len(b) < 1
        BY <2>7, <2>8
      <4> QED
        BY <1>6, <4>1, RoomLeft
    <3>3. Stops("hex", Append(text, c), limit, status')
      BY <2>5, <3>1, <3>2 DEF Stops
    <3>4. Reads("hex", Append(text, c), b, limit, b, decoder', status')
      BY <1>6, <3>3 DEF Reads
    <3> QED
      BY <1>1, <1>2, <1>3, <1>8, <3>1, <3>4
  <2>9. CASE ~(Room < 1)
    <3>1. /\ Store(<<v>>) /\ decoder' = e /\ status' = status
      BY <1>10, <2>2, <2>4, <2>9 DEF TakeByte
    <3>2. blocks' = [blocks EXCEPT ![OwnerOf(block)] = b \o <<v>>]
      BY <1>2, <3>1 DEF Store
    <3>3. Len(b \o <<v>>) <= limit
      <4>1. ~(limit - Len(b) < 1)
        BY <2>7, <2>9, Zenon
      <4>2. Len(b) + 1 <= limit
        BY <1>6, <4>1, RoomLeft, SmallNumbers, Zenon
      <4> QED
        BY <2>6, <4>2
    <3>4. Reads("hex", Append(text, c), b, limit, b \o <<v>>, decoder', status')
      BY <2>5, <2>6, <3>1, <3>3 DEF Reads, GoesOn
    <3> QED
      BY <1>1, <1>2, <1>3, <3>2, <3>4
  <2> QED
    BY <2>8, <2>9
<1>11. CASE RefuseCharacter(c)
  <2>1. status' = "text" /\ blocks' = blocks /\ c \notin DOMAIN Nibbles
    BY <1>11 DEF RefuseCharacter, EncodingOf
  <2>2. DigitOf("hex", c) = -1
    BY <2>1 DEF DigitOf
  <2>3. ~Promising("hex", Append(text, c))
    BY <1>7, <2>2, RefusedDigit
  <2>4. Reads("hex", Append(text, c), b, limit, b, decoder', status')
    BY <1>6, <2>1, <2>3 DEF Reads, Stops
  <2> QED
    BY <1>1, <1>2, <1>3, <1>8, <2>1, <2>4
<1> QED
  BY <1>9, <1>10, <1>11

\* One more character of Base64, taken or refused.
LEMMA DecodeBase64 ==
  ASSUME TypeOK, InvOwners, block \in Blocks, EncodingOf(block) = "base64", status = "parsing",
         Follows("base64", Written(block), blocks[OwnerOf(block)], decoder),
         Len(blocks[OwnerOf(block)]) <= MaxBytes[KindOf(OwnerOf(block))],
         ~(decoder.encoded >= MaxEncoded),
         NEW c \in Alphabet, c # " ", TakeSextet(c) \/ TakeQuartet(c) \/ RefuseCharacter(c)
  PROVE  \E new : /\ blocks' = [blocks EXCEPT ![OwnerOf(block)] = new]
                  /\ Reads("base64", Append(Written(block), c), blocks[OwnerOf(block)],
                           MaxBytes[KindOf(OwnerOf(block))], new, decoder', status')
<1>1. PICK text \in Seq(AllCharacters) : text = Written(block)
  BY BlockFacts
<1>2. PICK o, b \in Bytes : o = blocks[OwnerOf(block)] /\ b = o
  BY BlockFacts
<1>3. PICK limit \in Nat : limit = MaxBytes[KindOf(OwnerOf(block))]
  BY BlockFacts
<1>4. /\ ProperDecoder(decoder) /\ Counted \in DecoderType /\ Counted.quartet = decoder.quartet
      /\ decoder \in DecoderType
  BY DecoderState, CountedFacts
<1>5. /\ Counted.encoded = decoder.encoded + 1 /\ Counted.nibble = decoder.nibble
      /\ Counted.complete = decoder.complete
  BY <1>4 DEF Counted, DecoderType
<1>6. Follows("base64", text, b, decoder) /\ Len(b) <= limit /\ Len(b) \in Nat
  BY <1>1, <1>2, <1>3, BytesFacts
<1>7. "base64" \in Encodings /\ c \in AllCharacters
  BY TextAssumption DEF TextAssumption, Encodings, AllCharacters
<1>8. blocks' = blocks => blocks' = [blocks EXCEPT ![OwnerOf(block)] = b]
  BY <1>2, StoreNothing
<1>9. CASE TakeSextet(c)
  <2>1. /\ decoder' = [Counted EXCEPT !.quartet = Append(Counted.quartet, SextetOf(c))]
        /\ ~decoder.complete /\ (c = "=" \/ c \in DOMAIN Sextets)
        /\ status' = status /\ blocks' = blocks
    BY <1>9 DEF TakeSextet, InBase64
  <2>2. /\ decoder'.quartet = Append(decoder.quartet, SextetOf(c))
        /\ decoder'.nibble = decoder.nibble
        /\ decoder'.encoded = decoder.encoded + 1 /\ decoder'.complete = decoder.complete
    BY <1>4, <1>5, <2>1 DEF DecoderType
  <2>3. Follows("base64", Append(text, c), b, decoder')
    BY <1>4, <1>6, <2>1, <2>2, FollowsSextet
  <2>4. Reads("base64", Append(text, c), b, limit, b, decoder', status')
    BY <1>6, <2>1, <2>3 DEF Reads, GoesOn
  <2> QED
    BY <1>1, <1>2, <1>3, <1>8, <2>1, <2>4
<1>10. CASE TakeQuartet(c)
  <2>1. /\ ~decoder.complete /\ (c = "=" \/ c \in DOMAIN Sextets)
        /\ Len(decoder.quartet) = 3
    BY <1>10 DEF TakeQuartet, InBase64
  <2>2. PICK q : q = Append(decoder.quartet, SextetOf(c))
    OBVIOUS
  <2>3. PICK m \in Nat : Len(b) = 3 * m /\ LastGroup(Append(text, c), m, q)
    BY <1>4, <1>6, <1>7, <2>1, <2>2, FullGroup
  <2>4. Append(text, c) \in Seq(AllCharacters)
    BY <1>7, AppendFacts
  <2>5. /\ Len(QuartetBytes(q)) \in 1 .. 3
        /\ Len(BytesOf("base64", Digits("base64", Append(text, c)))) \in Nat
        /\ Len(BytesOf("base64", Digits("base64", Append(text, c)))) >=
             3 * m + Len(QuartetBytes(q))
    BY <2>3, <2>4, GroupTooMuch
  <2>6. PICK e : e = [Counted EXCEPT !.quartet = << >>, !.complete = (q[4] = Pad)]
    OBVIOUS
  <2>7. /\ e.quartet = << >> /\ e.nibble = decoder.nibble
        /\ e.encoded = decoder.encoded + 1 /\ e.complete = (q[4] = Pad)
    BY <1>4, <1>5, <2>6 DEF DecoderType
  <2>8. Room = limit - Len(b)
    BY <1>2, <1>3 DEF Room
  <2>11. PICK k \in Nat : k = Len(QuartetBytes(q))
    BY <2>5, SmallNumbers, Zenon
  <2>12. /\ Room < Len(QuartetBytes(q)) <=> Len(b) + k > limit
         /\ Room >= Len(QuartetBytes(q)) <=> Len(b) + k <= limit
    <3>1. /\ limit - Len(b) < k <=> Len(b) + k > limit
          /\ limit - Len(b) >= k <=> Len(b) + k <= limit
      BY <1>6, RoomLeft
    <3> QED
      BY <2>8, <2>11, <3>1, Zenon
  <2>9. CASE q[1] # Pad /\ q[2] # Pad /\ Room >= Len(QuartetBytes(q)) /\ Canonical(q)
    <3>1. Store(QuartetBytes(q)) /\ decoder' = e /\ status' = status
      BY <1>10, <2>2, <2>6, <2>9 DEF TakeQuartet
    <3>2. blocks' = [blocks EXCEPT ![OwnerOf(block)] = b \o QuartetBytes(q)]
      BY <1>2, <3>1 DEF Store
    <3>3. Follows("base64", Append(text, c), b \o QuartetBytes(q), e)
      BY <1>4, <1>6, <2>1, <2>2, <2>7, <2>9, FollowsQuartet
    <3>4. /\ b \o QuartetBytes(q) \in Bytes
          /\ Len(b \o QuartetBytes(q)) = Len(b) + Len(QuartetBytes(q))
      <4>1. q \in Seq(0 .. Pad) /\ Len(q) = 4
        BY <2>3 DEF LastGroup
      <4>3. (3 * m) % 3 = 0
        BY SmallNumbers, Zenon
      <4>2. Len(b) % 3 = 0
        BY <2>3, <4>3, Zenon
      <4> QED
        BY <2>9, <4>1, <4>2, QuartetsMore
    <3>5. Len(b \o QuartetBytes(q)) <= limit
      BY <2>9, <2>11, <2>12, <3>4, Zenon
    <3>6. Reads("base64", Append(text, c), b, limit, b \o QuartetBytes(q), decoder', status')
      BY <3>1, <3>3, <3>4, <3>5 DEF Reads, GoesOn
    <3> QED
      BY <1>1, <1>2, <1>3, <3>2, <3>6
  <2>10. CASE ~(q[1] # Pad /\ q[2] # Pad /\ Room >= Len(QuartetBytes(q)) /\ Canonical(q))
    <3>1. /\ blocks' = blocks
          /\ status' = IF q[1] # Pad /\ q[2] # Pad /\ Room < Len(QuartetBytes(q))
                       THEN "limit" ELSE "text"
      BY <1>10, <2>2, <2>10 DEF TakeQuartet
    <3>2. Stops("base64", Append(text, c), limit, status')
      <4>1. CASE q[1] # Pad /\ q[2] # Pad /\ Room < Len(QuartetBytes(q))
        <5>1. Len(BytesOf("base64", Digits("base64", Append(text, c)))) > limit
          <6>1. PICK n \in Nat :
                    n = Len(BytesOf("base64", Digits("base64", Append(text, c))))
            BY <2>5
          <6>4. Len(b) + k \in Nat
            BY <1>6, SmallNumbers, Zenon
          <6>2. n >= Len(b) + k
            BY <2>3, <2>5, <2>11, <6>1, Zenon
          <6>3. Len(b) + k > limit
            BY <2>12, <4>1
          <6> QED
            BY <6>1, <6>2, <6>3, <6>4, AtLeast, Zenon
        <5> QED
          BY <3>1, <4>1, <5>1 DEF Stops
      <4>2. CASE ~(q[1] # Pad /\ q[2] # Pad /\ Room < Len(QuartetBytes(q)))
        <5>1. Room < Len(QuartetBytes(q)) <=> ~(Room >= Len(QuartetBytes(q)))
          BY <1>6, <2>12, RoomLeft, Zenon
        <5>2. q[1] = Pad \/ q[2] = Pad \/ ~Canonical(q)
          BY <2>10, <4>2, <5>1
        <5>3. ~Promising("base64", Append(text, c))
          BY <2>3, <2>4, <5>2, RefusedGroup
        <5> QED
          BY <3>1, <4>2, <5>3 DEF Stops
      <4> QED
        BY <4>1, <4>2
    <3>3. Reads("base64", Append(text, c), b, limit, b, decoder', status')
      BY <1>6, <3>2 DEF Reads
    <3> QED
      BY <1>1, <1>2, <1>3, <1>8, <3>1, <3>3
  <2> QED
    BY <2>9, <2>10
<1>11. CASE RefuseCharacter(c)
  <2>1. status' = "text" /\ blocks' = blocks /\ ~InBase64(c)
    BY <1>11 DEF RefuseCharacter, EncodingOf
  <2>2. CASE decoder.complete
    <3>1. ~Promising("base64", Append(text, c))
      BY <1>4, <1>6, <1>7, <2>2, RefusedAfterEnd
    <3> QED
      BY <1>1, <1>2, <1>3, <1>6, <1>8, <2>1, <3>1 DEF Reads, Stops
  <2>3. CASE ~decoder.complete
    <3>1. DigitOf("base64", c) = -1
      BY <2>1, <2>3 DEF DigitOf, InBase64
    <3>2. ~Promising("base64", Append(text, c))
      BY <1>7, <3>1, RefusedDigit
    <3> QED
      BY <1>1, <1>2, <1>3, <1>6, <1>8, <2>1, <3>2 DEF Reads, Stops
  <2> QED
    BY <2>2, <2>3
<1> QED
  BY <1>9, <1>10, <1>11

-----------------------------------------------------------------------------
(* The blocks of a header, step by step.                                       *)

\* What BlocksAreTheirText says of one block.
RightAbout(isOpen, st, encoding, text, bytes, limit) ==
  /\ st \in {"parsing", "accepted"} /\ ~isOpen => Encodes(encoding, text, bytes)
  /\ Len(bytes) <= limit
  /\ isOpen =>
       /\ st = "parsing" /\ Len(text) % 4 = 0 => Promising(encoding, text)
       /\ st = "text" => ~Promising(encoding, text)
       /\ st = "end" => ~IsEncoding(encoding, text)
       /\ st = "limit" => \/ Len(text) > MaxEncoded
                          \/ Len(BytesOf(encoding, Digits(encoding, text))) > limit

RightBlock(n) ==
  RightAbout(n = block, status, EncodingOf(n), Written(n), blocks[OwnerOf(n)],
        MaxBytes[KindOf(OwnerOf(n))])

BlockInvariant == InvTree /\ InvOwners /\ InvDecoder /\ \A n \in Blocks : RightBlock(n)

LEMMA SameStatement == BlocksAreTheirText <=> \A n \in Blocks : RightBlock(n)
BY DEF BlocksAreTheirText, RightBlock, RightAbout

\* The block that is read is the innermost element.
LEMMA BlockIsOpen ==
  ASSUME InvTree
  PROVE  /\ block = IF Top \in Blocks THEN Top ELSE 0
         /\ block # 0 => block \in Blocks /\ block = Top
         /\ block = 0 => Top \notin Blocks
         /\ TypeOK
<1>1. block = IF Top \in Blocks THEN Top ELSE 0
  BY DEF InvTree, InvOpen
<1>2. TypeOK
  BY DEF InvTree
<1>3. \A n \in Blocks : n # 0
  BY <1>2, StackFacts DEF Blocks
<1> QED
  BY <1>1, <1>2, <1>3

\* A character of a block is read on or stops the parser for a reason.
LEMMA DecodeReads ==
  ASSUME BlockInvariant, block # 0, status = "parsing", NEW c \in Alphabet, Decode(c)
  PROVE  \E new : /\ blocks' = [blocks EXCEPT ![OwnerOf(block)] = new]
                  /\ Reads(EncodingOf(block), WithoutBlank(Written(block), c),
                           blocks[OwnerOf(block)], MaxBytes[KindOf(OwnerOf(block))],
                           new, decoder', status')
<1>1. TypeOK /\ InvOwners /\ block \in Blocks /\ InvDecoder /\ RightBlock(block)
  BY BlockIsOpen DEF BlockInvariant
<1>2. /\ Follows(EncodingOf(block), Written(block), blocks[OwnerOf(block)], decoder)
      /\ Len(blocks[OwnerOf(block)]) <= MaxBytes[KindOf(OwnerOf(block))]
  BY <1>1 DEF InvDecoder, RightBlock, RightAbout
<1>3. PICK e, b, limit : /\ e = EncodingOf(block) /\ b = blocks[OwnerOf(block)]
                         /\ limit = MaxBytes[KindOf(OwnerOf(block))]
  OBVIOUS
<1>4. /\ e \in Encodings /\ b \in Bytes /\ Len(b) <= limit
      /\ Written(block) \in Seq(AllCharacters) /\ Written(block) \in Seq(Alphabet)
      /\ Follows(e, Written(block), b, decoder)
  BY <1>1, <1>2, <1>3, BlockFacts
<1>5. blocks' = blocks => blocks' = [blocks EXCEPT ![OwnerOf(block)] = b]
  BY <1>1, <1>3, StoreNothing
<1>6. CASE c = " "
  <2>1. WithoutBlank(Written(block), c) = Written(block)
    BY <1>6 DEF WithoutBlank
  <2>2. status' = "parsing" /\ decoder' = decoder /\ blocks' = blocks
    BY <1>6 DEF Decode
  <2>3. Reads(e, Written(block), b, limit, b, decoder', status')
    BY <1>4, <2>2 DEF Reads, GoesOn
  <2> QED
    BY <1>3, <1>5, <2>1, <2>2, <2>3
<1>7. CASE c # " "
  <2>1. WithoutBlank(Written(block), c) = Append(Written(block), c)
    BY <1>7 DEF WithoutBlank
  <2>2. CASE decoder.encoded >= MaxEncoded
    <3>1. status' = "limit" /\ decoder' = decoder /\ blocks' = blocks
      BY <1>7, <2>2 DEF Decode
    <3>2. Len(Append(Written(block), c)) > MaxEncoded
      <4>1. Len(Append(Written(block), c)) = Len(Written(block)) + 1 /\ Len(Written(block)) \in Nat
        BY <1>4, AppendFacts
      <4>2. decoder.encoded = Len(Written(block)) /\ MaxEncoded \in Nat
        BY <1>4, TextAssumption DEF Follows, TextAssumption
      <4>3. \A k, l \in Nat : k >= l => k + 1 > l
        OBVIOUS
      <4> QED
        BY <2>2, <4>1, <4>2, <4>3
    <3>3. Reads(e, Append(Written(block), c), b, limit, b, decoder', status')
      BY <1>4, <3>1, <3>2 DEF Reads, Stops
    <3> QED
      BY <1>3, <1>5, <2>1, <3>1, <3>3
  <2>3. CASE ~(decoder.encoded >= MaxEncoded)
    <3>1. \/ EncodingOf(block) = "hex" /\ (TakeNibble(c) \/ TakeByte(c) \/ RefuseCharacter(c))
          \/ EncodingOf(block) = "base64" /\ (TakeSextet(c) \/ TakeQuartet(c) \/ RefuseCharacter(c))
      BY <1>3, <1>4, <1>7, <2>3 DEF Decode, EncodingOf, Encodings
    <3> QED
      BY <1>1, <1>2, <1>7, <2>1, <2>3, <3>1, DecodeHex, DecodeBase64
  <2> QED
    BY <2>2, <2>3
<1> QED
  BY <1>6, <1>7

\* A block that is not read at the moment stays what it is.
LEMMA StaysRight ==
  ASSUME NEW st, NEW encoding, NEW text, NEW bytes, NEW limit,
         RightAbout(FALSE, "parsing", encoding, text, bytes, limit)
  PROVE  RightAbout(FALSE, st, encoding, text, bytes, limit)
BY DEF RightAbout

\* What is read on, or refused for a reason, is right.
LEMMA BecomesRight ==
  ASSUME NEW encoding \in Encodings, NEW text \in Seq(AllCharacters), NEW bytes, NEW new,
         NEW limit, NEW d, ProperDecoder(d), NEW st, Reads(encoding, text, bytes, limit, new, d, st)
  PROVE  RightAbout(TRUE, st, encoding, text, new, limit)
<1>1. new \in Bytes /\ Len(new) <= limit
  BY DEF Reads
<1>2. CASE GoesOn(encoding, text, new, d, st)
  <2>1. Len(text) % 4 = 0 => Promising(encoding, text)
    BY <1>1, <1>2, FollowsEnd DEF GoesOn
  <2> QED
    BY <1>1, <1>2, <2>1 DEF RightAbout, GoesOn
<1>3. CASE Stops(encoding, text, limit, st)
  BY <1>1, <1>3 DEF RightAbout, Stops
<1> QED
  BY <1>2, <1>3 DEF Reads

\* character_data keeps the blocks right.
LEMMA CharacterBlocks ==
  ASSUME BlockInvariant, NEW c \in Alphabet, CharacterData(c)
  PROVE  InvOwners' /\ InvDecoder' /\ \A n \in Blocks' : RightBlock(n)'
<1>1. /\ InvTree /\ InvOwners /\ InvDecoder /\ TypeOK /\ status = "parsing"
      /\ \A n \in Blocks : RightBlock(n)
  BY BlockIsOpen DEF BlockInvariant, CharacterData
<1>2. Texted(c)
  BY <1>1, TextedFacts
<1>3. /\ Blocks' = Blocks /\ Blocks \subseteq DOMAIN doc /\ DOMAIN doc' = DOMAIN doc
      /\ filled' = filled /\ block' = block /\ Top' = Top
      /\ \A n \in DOMAIN doc : KindOf(n)' = KindOf(n) /\ OwnerOf(n)' = OwnerOf(n)
      /\ \A n \in DOMAIN doc : EncodingOf(n)' = EncodingOf(n)
  BY <1>2 DEF Texted, OwnerOf, EncodingOf, Blocks
<1>4. \A n \in Blocks : /\ OwnerOf(n) \in DOMAIN doc
                        /\ KindOf(OwnerOf(n))' = KindOf(OwnerOf(n))
                        /\ n # Top => Written(n)' = Written(n)
                        /\ n = Top => Written(n)' = WithoutBlank(Written(n), c)
  <2> TAKE n \in Blocks
  <2>1. OwnerOf(n) \in DOMAIN doc /\ n \in DOMAIN doc
    BY <1>1, BlockFacts
  <2>2. PICK o : o = OwnerOf(n)
    OBVIOUS
  <2>3. o' = OwnerOf(n)' /\ KindOf(o)' = KindOf(o)
    BY <1>3, <2>1, <2>2
  <2>4. KindOf(OwnerOf(n))' = KindOf(OwnerOf(n))
    BY <1>3, <2>1, <2>2, <2>3 DEF KindOf
  <2>5. n # Top => Written(n)' = Written(n)
    BY <1>2, <2>1 DEF Texted, Written
  <2>6. n = Top => Written(n)' = WithoutBlank(Written(n), c)
    <3>1. SUFFICES ASSUME n = Top PROVE Written(n)' = WithoutBlank(Written(n), c)
      OBVIOUS
    <3>2. PICK text : text = doc[n].text
      OBVIOUS
    <3>3. text \in Seq(Alphabet)
      BY <1>1, <2>1, <3>2, StackFacts DEF Entry
    <3>4. doc'[n].text = Append(text, c)
      BY <1>2, <2>1, <3>1, <3>2 DEF Texted
    <3>5. Len(Append(text, c)) = Len(text) + 1
      BY <3>3
    <3>6. Unspaced(Append(text, c), Len(text) + 1) = WithoutBlank(Unspaced(text, Len(text)), c)
      BY <3>3, UnspacedFacts
    <3> QED
      BY <3>2, <3>4, <3>5, <3>6 DEF Written
  <2> QED
    BY <2>1, <2>4, <2>5, <2>6
<1>5. CASE block = 0
  <2>1. Top \notin Blocks
    BY <1>1, <1>5, BlockIsOpen
  <2>2. decoder' = decoder /\ blocks' = blocks
    BY <1>5 DEF CharacterData, Decode
  <2>3. InvOwners'
    BY <1>1, <1>3, <1>4, <2>2 DEF InvOwners
  <2>4. InvDecoder'
    BY <1>3, <1>5 DEF InvDecoder
  <2>5. ASSUME NEW n \in Blocks
        PROVE  RightBlock(n)'
    <3>1. n # Top /\ n # block
      BY <1>5, <2>1, <1>1, BlockFacts
    <3>2. RightAbout(FALSE, "parsing", EncodingOf(n), Written(n), blocks[OwnerOf(n)],
                MaxBytes[KindOf(OwnerOf(n))])
      BY <1>1, <3>1 DEF RightBlock
    <3>3. RightAbout(FALSE, status', EncodingOf(n), Written(n), blocks[OwnerOf(n)],
                MaxBytes[KindOf(OwnerOf(n))])
      BY <3>2, StaysRight
    <3>4. (n = block') = FALSE
      BY <1>3, <3>1
    <3> QED
      BY <1>3, <1>4, <2>2, <3>1, <3>3, <3>4 DEF RightBlock
  <2> QED
    BY <1>3, <2>3, <2>4, <2>5
<1>6. CASE block # 0
  <2>1. block \in Blocks /\ block = Top
    BY <1>1, <1>6, BlockIsOpen
  <2>2. Decode(c)
    BY <1>6 DEF CharacterData, CellText, ExtensionTextIn, PropertyText, OtherText, InCell,
                InExtension
  <2>3. PICK new : /\ blocks' = [blocks EXCEPT ![OwnerOf(block)] = new]
                   /\ Reads(EncodingOf(block), WithoutBlank(Written(block), c),
                            blocks[OwnerOf(block)], MaxBytes[KindOf(OwnerOf(block))],
                            new, decoder', status')
    BY <1>1, <1>6, <2>2, DecodeReads
  <2>4. /\ OwnerOf(block) \in DOMAIN blocks /\ DOMAIN blocks = DOMAIN doc
        /\ EncodingOf(block) \in Encodings
        /\ Written(block) \in Seq(AllCharacters) /\ c \in AllCharacters
    BY <1>1, <2>1, BlockFacts, TextAssumption DEF TextAssumption, AllCharacters
  <2>5. /\ blocks'[OwnerOf(block)] = new
        /\ \A m \in DOMAIN doc : m # OwnerOf(block) => blocks'[m] = blocks[m]
    BY <2>3, <2>4
  <2>6. InvOwners'
    BY <1>1, <1>3, <1>4, <2>1, <2>5 DEF InvOwners
  <2>7. PICK text \in Seq(AllCharacters) : text = WithoutBlank(Written(block), c)
    <3>1. WithoutBlank(Written(block), c) \in Seq(AllCharacters)
      BY <2>4, AppendFacts DEF WithoutBlank
    <3> QED
      BY <3>1
  <2>8. PICK n \in Blocks : n = block
    BY <2>1
  <2>9. ProperDecoder(decoder')
    BY <1>1, <2>2, DecodeType DEF ProperDecoder, DecoderType
  <2>10. n = block' /\ n \in DOMAIN doc /\ n = Top
    BY <1>3, <2>1, <2>8
  <2>11. Written(n)' = text
    BY <1>4, <2>7, <2>8, <2>10
  <2>12. Reads(EncodingOf(n), text, blocks[OwnerOf(n)], MaxBytes[KindOf(OwnerOf(n))],
               new, decoder', status')
    BY <2>3, <2>7, <2>8
  <2>13. /\ EncodingOf(n)' = EncodingOf(n) /\ OwnerOf(n)' = OwnerOf(n)
         /\ KindOf(OwnerOf(n))' = KindOf(OwnerOf(n))
         /\ blocks'[OwnerOf(n)'] = new
    BY <1>3, <1>4, <2>5, <2>8, <2>10
  <2>14. InvDecoder'
    <3>1. /\ EncodingOf(block)' = EncodingOf(n)' /\ Written(block)' = Written(n)'
          /\ OwnerOf(block)' = OwnerOf(n)'
      BY <2>10 DEF EncodingOf, Written, OwnerOf, KindOf
    <3>2. status' = "parsing" => Follows(EncodingOf(n), text, new, decoder')
      BY <2>12 DEF Reads, GoesOn, Stops
    <3> QED
      BY <2>11, <2>13, <3>1, <3>2 DEF InvDecoder
  <2>15. RightBlock(n)'
    <3>1. RightAbout(TRUE, status', EncodingOf(n), text, new, MaxBytes[KindOf(OwnerOf(n))])
      BY <2>4, <2>8, <2>9, <2>12, BecomesRight
    <3>2. (n = block') = TRUE
      BY <2>10
    <3> QED
      BY <2>11, <2>13, <3>1, <3>2 DEF RightBlock
  <2>16. ASSUME NEW m \in Blocks, m # n
         PROVE  RightBlock(m)'
    <3>1. m # Top /\ m # block /\ m \in DOMAIN doc /\ OwnerOf(m) # OwnerOf(n)
      BY <1>1, <1>3, <2>1, <2>8, <2>16 DEF InvOwners
    <3>2. RightAbout(FALSE, "parsing", EncodingOf(m), Written(m), blocks[OwnerOf(m)],
                MaxBytes[KindOf(OwnerOf(m))])
      BY <1>1, <3>1 DEF RightBlock
    <3>3. RightAbout(FALSE, status', EncodingOf(m), Written(m), blocks[OwnerOf(m)],
                MaxBytes[KindOf(OwnerOf(m))])
      BY <3>2, StaysRight
    <3>4. (m = block') = FALSE
      BY <1>3, <3>1
    <3>5. /\ blocks'[OwnerOf(m)] = blocks[OwnerOf(m)]
          /\ OwnerOf(m)' = OwnerOf(m) /\ EncodingOf(m)' = EncodingOf(m)
          /\ Written(m)' = Written(m) /\ KindOf(OwnerOf(m))' = KindOf(OwnerOf(m))
      BY <1>3, <1>4, <2>5, <2>8, <3>1
    <3> QED
      BY <3>3, <3>4, <3>5 DEF RightBlock
  <2> QED
    BY <1>3, <2>6, <2>14, <2>15, <2>16
<1> QED
  BY <1>5, <1>6

\* The element that gives its bytes to another is in the one whose index is open.
LEMMA DataHasAnOwner ==
  ASSUME InvTree, InvOwners, NEW e \in Vocabulary, e.kind = "Data",
         MayHaveChild(e), WellPlaced(e)
  PROVE  /\ Top \in DOMAIN doc /\ KindOf(Top) \in BlockOwners
         /\ Top \notin filled /\ blocks[Top] = << >>
         /\ \A n \in Blocks : OwnerOf(n) # Top
<1>1. TypeOK /\ InvPlaces /\ InvOpen
  BY DEF InvTree
<1>2. /\ Parent \in {"Image", "Thumbnail"} /\ open[Parent] # 0 /\ open[Parent] \notin filled
  BY DEF WellPlaced
<1>3. /\ stack # << >> /\ Top \in DOMAIN doc /\ Top = stack[Len(stack)]
      /\ Len(stack) \in DOMAIN stack /\ Parent = KindAt(Len(stack)) /\ Parent = KindOf(Top)
  <2>1. stack # << >>
    BY <1>1, <1>2, StackFacts
  <2> QED
    BY <1>1, <2>1, StackFacts DEF KindAt, Parent
<1>4. Parent \in OpenKinds
  BY <1>2 DEF OpenKinds
<1>5. open[Parent] = Top
  <2>1. PICK k \in DOMAIN stack : open[Parent] = stack[k] /\ KindAt(k) = Parent
    BY <1>1, <1>2, <1>4 DEF InvOpen
  <2>2. k = Len(stack)
    BY <1>1, <1>2, <1>3, <1>4, <2>1, OneOnStack
  <2> QED
    BY <1>3, <2>1, <2>2
<1>6. Top \notin filled
  BY <1>2, <1>5
<1>7. \A n \in Blocks : OwnerOf(n) # Top
  <2> SUFFICES ASSUME NEW n \in Blocks, OwnerOf(n) = Top PROVE FALSE
    OBVIOUS
  <2>1. CASE KindOf(n) = "Data"
    BY <1>6, <2>1 DEF InvOwners
  <2>2. CASE KindOf(n) # "Data"
    <3>1. OwnerOf(n) = n
      BY <2>2 DEF OwnerOf
    <3>2. n = Top
      BY <3>1
    <3>3. KindOf(n) \in {"Property", "ICCProfile"}
      BY <1>1, <2>2, StackFacts DEF Blocks, HasBlock
    <3> QED
      BY <1>2, <1>3, <3>2, <3>3
  <2> QED
    BY <2>1, <2>2
<1>8. blocks[Top] = << >>
  BY <1>3, <1>7 DEF InvOwners
<1> QED
  BY <1>2, <1>3, <1>6, <1>7, <1>8 DEF BlockOwners

\* start_element keeps the blocks right.
LEMMA StartBlocks ==
  ASSUME BlockInvariant, status = "parsing", NEW e \in Vocabulary, StartElement(e)
  PROVE  InvOwners' /\ InvDecoder' /\ \A n \in Blocks' : RightBlock(n)'
<1>1. /\ InvTree /\ InvOwners /\ TypeOK /\ block = 0 /\ status' = "parsing"
      /\ MayHaveChild(e) /\ WellPlaced(e) /\ Push(e)
      /\ \A n \in Blocks : RightBlock(n)
  BY BlockIsOpen DEF BlockInvariant, StartElement, MayHaveChild
<1>2. PICK h, L : Pushed(e, h, L)
  BY <1>1, PushFacts
<1>3. /\ block' = (IF HasBlock(e) THEN h ELSE 0)
      /\ decoder' = (IF HasBlock(e) THEN Fresh ELSE decoder)
      /\ filled' = filled \cup Fills(e)
  BY <1>2 DEF StartElement, Freshen, Here, Pushed
<1>4. /\ h \notin DOMAIN doc /\ h # 0 /\ DOMAIN doc' = DOMAIN doc \cup {h}
      /\ \A n \in DOMAIN doc : doc'[n] = doc[n] /\ blocks'[n] = blocks[n] /\ n # h
      /\ blocks'[h] = << >> /\ doc'[h].element = e /\ doc'[h].parent = Top
      /\ doc'[h].text = << >> /\ KindOf(h)' = e.kind
      /\ \A n \in DOMAIN doc : KindOf(n)' = KindOf(n)
      /\ Blocks \subseteq DOMAIN doc
  BY <1>2 DEF Pushed, Blocks
<1>5. /\ \A n \in Blocks : n \in Blocks'
      /\ \A n \in Blocks' : n \in Blocks \/ (n = h /\ HasBlock(e))
      /\ h \in Blocks' <=> HasBlock(e)
  <2>1. /\ \A n \in DOMAIN doc : n \in Blocks' <=> n \in Blocks
        /\ h \in Blocks' <=> HasBlock(e)
    BY <1>2 DEF Pushed
  <2>2. \A n \in Blocks' : n \in DOMAIN doc'
    BY DEF Blocks
  <2> QED
    BY <1>4, <2>1, <2>2
<1>6. \A n \in Blocks :
        /\ OwnerOf(n) \in DOMAIN doc /\ OwnerOf(n)' = OwnerOf(n)
        /\ KindOf(OwnerOf(n))' = KindOf(OwnerOf(n))
        /\ EncodingOf(n)' = EncodingOf(n) /\ Written(n)' = Written(n)
        /\ blocks'[OwnerOf(n)] = blocks[OwnerOf(n)]
  <2> TAKE n \in Blocks
  <2>1. n \in DOMAIN doc /\ OwnerOf(n) \in DOMAIN doc
    BY <1>1, BlockFacts
  <2>2. OwnerOf(n)' = OwnerOf(n)
    BY <1>4, <2>1 DEF OwnerOf
  <2>3. PICK o \in DOMAIN doc : o = OwnerOf(n) /\ o = OwnerOf(n)'
    BY <2>1, <2>2
  <2>4. KindOf(OwnerOf(n))' = KindOf(OwnerOf(n))
    <3>1. KindOf(o)' = KindOf(o)
      BY <1>4
    <3> QED
      BY <2>3, <3>1 DEF KindOf
  <2>5. EncodingOf(n)' = EncodingOf(n) /\ Written(n)' = Written(n)
    BY <1>4, <2>1 DEF EncodingOf, Written
  <2> QED
    BY <1>4, <2>1, <2>2, <2>4, <2>5
<1>7. ASSUME HasBlock(e)
      PROVE  /\ OwnerOf(h)' \in DOMAIN doc' /\ KindOf(OwnerOf(h))' \in BlockOwners
             /\ e.kind = "Data" => OwnerOf(h)' \in filled'
             /\ \A n \in Blocks : OwnerOf(n) # OwnerOf(h)'
             /\ blocks'[OwnerOf(h)'] = << >>
  <2>1. CASE e.kind = "Data"
    <3>1. PICK t : t = Top
      OBVIOUS
    <3>2. /\ t \in DOMAIN doc /\ KindOf(t) \in BlockOwners
          /\ blocks[t] = << >> /\ \A n \in Blocks : OwnerOf(n) # t
      BY <1>1, <2>1, <3>1, DataHasAnOwner
    <3>3. OwnerOf(h)' = t
      BY <1>4, <2>1, <3>1 DEF OwnerOf
    <3>4. KindOf(OwnerOf(h))' \in BlockOwners
      <4>1. KindOf(t)' = KindOf(t)
        BY <1>4, <3>2
      <4> QED
        BY <3>2, <3>3, <4>1 DEF KindOf
    <3>5. t \in filled'
      BY <1>3, <2>1, <3>1 DEF Fills
    <3> QED
      BY <1>4, <3>2, <3>3, <3>4, <3>5
  <2>2. CASE e.kind # "Data"
    <3>1. OwnerOf(h)' = h
      BY <1>4, <2>2 DEF OwnerOf
    <3>2. e.kind \in BlockOwners
      BY <1>7, <2>2 DEF HasBlock, BlockOwners
    <3>3. KindOf(OwnerOf(h))' \in BlockOwners
      BY <1>4, <3>1, <3>2 DEF KindOf
    <3>4. \A n \in Blocks : OwnerOf(n) # h
      BY <1>4, <1>6
    <3> QED
      BY <1>4, <2>2, <3>1, <3>3, <3>4
  <2> QED
    BY <2>1, <2>2
<1>8. InvOwners'
  <2>1. ASSUME NEW n \in Blocks'
        PROVE  /\ OwnerOf(n)' \in DOMAIN doc' /\ KindOf(OwnerOf(n))' \in BlockOwners
               /\ KindOf(n)' = "Data" => OwnerOf(n)' \in filled'
               /\ \A m \in Blocks' : OwnerOf(m)' = OwnerOf(n)' => m = n
    <3>1. CASE n \in Blocks
      <4>1. /\ OwnerOf(n)' \in DOMAIN doc' /\ KindOf(OwnerOf(n))' \in BlockOwners
            /\ KindOf(n)' = "Data" => OwnerOf(n)' \in filled'
        BY <1>1, <1>3, <1>4, <1>6, <3>1 DEF InvOwners
      <4>2. ASSUME NEW m \in Blocks', OwnerOf(m)' = OwnerOf(n)'
            PROVE  m = n
        <5>1. CASE m \in Blocks
          BY <1>1, <1>6, <3>1, <4>2, <5>1 DEF InvOwners
        <5>2. CASE m = h /\ HasBlock(e)
          BY <1>6, <1>7, <3>1, <4>2, <5>2
        <5> QED
          BY <1>5, <5>1, <5>2
      <4> QED
        BY <4>1, <4>2
    <3>2. CASE n = h /\ HasBlock(e)
      <4>1. \A m \in Blocks' : OwnerOf(m)' = OwnerOf(n)' => m = n
        BY <1>5, <1>6, <1>7, <3>2
      <4> QED
        BY <1>4, <1>7, <3>2, <4>1
    <3> QED
      BY <1>5, <3>1, <3>2
  <2>2. ASSUME NEW m \in DOMAIN doc', \A n \in Blocks' : OwnerOf(n)' # m
        PROVE  blocks'[m] = << >>
    <3>1. CASE m = h
      BY <1>4, <3>1
    <3>2. CASE m \in DOMAIN doc
      <4>1. \A n \in Blocks : OwnerOf(n) # m
        BY <1>5, <1>6, <2>2
      <4> QED
        BY <1>1, <1>4, <3>2, <4>1 DEF InvOwners
    <3> QED
      BY <1>4, <3>1, <3>2
  <2> QED
    BY <2>1, <2>2 DEF InvOwners
<1>9. ASSUME HasBlock(e)
      PROVE  /\ EncodingOf(h)' \in Encodings /\ Written(h)' = << >>
             /\ Follows(EncodingOf(h)', << >>, << >>, Fresh)
             /\ MaxBytes[KindOf(OwnerOf(h))'] \in Nat
  <2>1. EncodingOf(h)' \in Encodings
    <3>1. e \in Element
      BY ElementFacts
    <3> QED
      BY <1>4, <3>1 DEF EncodingOf, Element
  <2>2. Written(h)' = << >>
    <3>1. Unspaced(<< >>, 0) = << >>
      BY UnspacedNext
    <3>2. Len(<< >>) = 0
      OBVIOUS
    <3> QED
      BY <1>4, <3>1, <3>2 DEF Written
  <2>3. PICK encoding \in Encodings : encoding = EncodingOf(h)'
    BY <2>1
  <2>4. Follows(encoding, << >>, << >>, Fresh)
    BY FollowsFresh
  <2>5. MaxBytes[KindOf(OwnerOf(h))'] \in Nat
    BY <1>7, <1>9, TextAssumption DEF TextAssumption
  <2> QED
    BY <2>1, <2>2, <2>3, <2>4, <2>5
<1>10. InvDecoder'
  <2>1. CASE HasBlock(e)
    <3>1. block' = h /\ decoder' = Fresh
      BY <1>3, <2>1
    <3>2. /\ EncodingOf(block)' = EncodingOf(h)' /\ Written(block)' = Written(h)'
          /\ OwnerOf(block)' = OwnerOf(h)'
      BY <3>1 DEF EncodingOf, Written, OwnerOf, KindOf
    <3> QED
      BY <1>7, <1>9, <2>1, <3>1, <3>2 DEF InvDecoder
  <2>2. CASE ~HasBlock(e)
    BY <1>3, <2>2 DEF InvDecoder
  <2> QED
    BY <2>1, <2>2
<1>11. ASSUME NEW n \in Blocks
       PROVE  RightBlock(n)'
  <2>1. n # block /\ n # block'
    BY <1>1, <1>3, <1>4, BlockFacts
  <2>2. RightAbout(FALSE, "parsing", EncodingOf(n), Written(n), blocks[OwnerOf(n)],
              MaxBytes[KindOf(OwnerOf(n))])
    BY <1>1, <2>1 DEF RightBlock
  <2>3. RightAbout(FALSE, status', EncodingOf(n), Written(n), blocks[OwnerOf(n)],
              MaxBytes[KindOf(OwnerOf(n))])
    BY <2>2, StaysRight
  <2>4. (n = block') = FALSE
    BY <2>1
  <2> QED
    BY <1>6, <2>3, <2>4 DEF RightBlock
<1>12. ASSUME HasBlock(e)
       PROVE  RightBlock(h)'
  <2>1. PICK encoding \in Encodings, limit \in Nat :
            encoding = EncodingOf(h)' /\ limit = MaxBytes[KindOf(OwnerOf(h))']
    BY <1>9, <1>12
  <2>2. Follows(encoding, << >>, << >>, Fresh)
    BY FollowsFresh
  <2>3. ProperDecoder(Fresh)
    BY DEF ProperDecoder, Fresh, NoNibble
  <2>4. << >> \in Seq(AllCharacters) /\ << >> \in Bytes /\ Len(<< >>) <= limit
    BY DEF Bytes
  <2>5. Reads(encoding, << >>, << >>, limit, << >>, Fresh, "parsing")
    BY <2>2, <2>4 DEF Reads, GoesOn
  <2>6. RightAbout(TRUE, "parsing", encoding, << >>, << >>, limit)
    BY <2>3, <2>4, <2>5, BecomesRight
  <2>7. (h = block') = TRUE
    BY <1>3, <1>12
  <2> QED
    BY <1>1, <1>7, <1>9, <1>12, <2>1, <2>6, <2>7 DEF RightBlock
<1> QED
  BY <1>5, <1>8, <1>10, <1>11, <1>12

\* The parser stops, or the header is accepted, and all else stays.
LEMMA StatusBlocks ==
  ASSUME BlockInvariant, status = "parsing", UNCHANGED <<input, builder>>,
         block # 0 => \/ status' \in {"parsing", "element"}
                      \/ status' = "end" /\ ~IsEncoding(EncodingOf(block), Written(block))
  PROVE  InvOwners' /\ InvDecoder' /\ \A n \in Blocks' : RightBlock(n)'
<1>1. /\ doc' = doc /\ filled' = filled /\ block' = block /\ decoder' = decoder
      /\ blocks' = blocks
  BY DEF input, builder
<1>2. InvOwners /\ InvDecoder /\ \A n \in Blocks : RightBlock(n)
  BY DEF BlockInvariant
<1>3. /\ Blocks' = Blocks
      /\ \A n : /\ OwnerOf(n)' = OwnerOf(n) /\ KindOf(n)' = KindOf(n)
                /\ KindOf(OwnerOf(n))' = KindOf(OwnerOf(n))
                /\ EncodingOf(n)' = EncodingOf(n) /\ Written(n)' = Written(n)
  BY <1>1 DEF Blocks, OwnerOf, KindOf, EncodingOf, Written
<1>4. InvOwners'
  BY <1>1, <1>2, <1>3 DEF InvOwners
<1>5. InvDecoder'
  <2>1. /\ OwnerOf(block)' = OwnerOf(block) /\ EncodingOf(block)' = EncodingOf(block)
        /\ Written(block)' = Written(block)
    BY <1>1 DEF OwnerOf, KindOf, EncodingOf, Written
  <2> QED
    BY <1>1, <1>2, <2>1 DEF InvDecoder
<1>6. ASSUME NEW n \in Blocks
      PROVE  RightBlock(n)'
  <2>1. CASE n # block
    <3>1. RightAbout(FALSE, "parsing", EncodingOf(n), Written(n), blocks[OwnerOf(n)],
                MaxBytes[KindOf(OwnerOf(n))])
      BY <1>2, <2>1 DEF RightBlock
    <3>2. RightAbout(FALSE, status', EncodingOf(n), Written(n), blocks[OwnerOf(n)],
                MaxBytes[KindOf(OwnerOf(n))])
      BY <3>1, StaysRight
    <3>3. (n = block') = FALSE
      BY <1>1, <2>1
    <3> QED
      BY <1>1, <1>3, <3>2, <3>3 DEF RightBlock
  <2>2. CASE n = block
    <3>1. n # 0
      BY BlockFacts DEF BlockInvariant, InvTree
    <3>2. \/ status' \in {"parsing", "element"}
          \/ status' = "end" /\ ~IsEncoding(EncodingOf(n), Written(n))
      BY <2>2, <3>1
    <3>3. RightAbout(TRUE, "parsing", EncodingOf(n), Written(n), blocks[OwnerOf(n)],
                MaxBytes[KindOf(OwnerOf(n))])
      BY <1>2, <2>2 DEF RightBlock
    <3>4. RightAbout(TRUE, status', EncodingOf(n), Written(n), blocks[OwnerOf(n)],
                MaxBytes[KindOf(OwnerOf(n))])
      BY <3>2, <3>3 DEF RightAbout
    <3>5. (n = block') = TRUE
      BY <1>1, <2>2
    <3> QED
      BY <1>1, <1>3, <3>4, <3>5 DEF RightBlock
  <2> QED
    BY <2>1, <2>2
<1> QED
  BY <1>3, <1>4, <1>5, <1>6

\* An element is refused at its end only where digits wait, or a child is missing.
LEMMA RefuseEndBlocks ==
  ASSUME BlockInvariant, RefuseEnd
  PROVE  InvOwners' /\ InvDecoder' /\ \A n \in Blocks' : RightBlock(n)'
<1>1. /\ status = "parsing" /\ status' = "end" /\ UNCHANGED <<input, builder>> /\ ~CanEnd
      /\ stack # << >>
  BY DEF RefuseEnd
<1>2. ASSUME block # 0
      PROVE  ~IsEncoding(EncodingOf(block), Written(block))
  <2>1. /\ InvTree /\ TypeOK /\ InvOwners /\ InvDecoder /\ block \in Blocks /\ block = Top
    BY <1>2, BlockIsOpen DEF BlockInvariant
  <2>2. Parent \in {"Data", "Property", "ICCProfile"}
    <3>1. block \in DOMAIN doc /\ HasBlock(doc[block].element)
      BY <2>1 DEF Blocks
    <3>2. KindOf(block) = doc[block].element.kind
      BY <2>1, <3>1, StackFacts
    <3> QED
      BY <2>1, <3>1, <3>2 DEF HasBlock, Parent
  <2>3. Incomplete
    BY <1>1, <2>2 DEF CanEnd, Missing
  <2>4. Follows(EncodingOf(block), Written(block), blocks[OwnerOf(block)], decoder)
    BY <1>1, <1>2, <2>1 DEF InvDecoder
  <2>5. Waiting(EncodingOf(block), decoder) # << >>
    <3>1. <<decoder.nibble>> # << >>
      OBVIOUS
    <3> QED
      BY <2>3, <3>1 DEF Incomplete, Waiting, EncodingOf
  <2> QED
    BY <2>1, <2>4, <2>5, BlockFacts, DecoderState, FollowsEnd
<1> QED
  BY <1>1, <1>2, StatusBlocks

\* A block that ends has the bytes of its text.
LEMMA EndElementBlocks ==
  ASSUME BlockInvariant, EndElement
  PROVE  InvOwners' /\ InvDecoder' /\ \A n \in Blocks' : RightBlock(n)'
<1>1. /\ doc' = doc /\ filled' = filled /\ block' = 0 /\ blocks' = blocks
      /\ status = "parsing" /\ status' = status /\ CanEnd /\ stack # << >>
  BY DEF EndElement
<1>2. /\ InvOwners /\ InvDecoder /\ InvTree /\ TypeOK /\ \A n \in Blocks : RightBlock(n)
  BY BlockIsOpen DEF BlockInvariant
<1>3. /\ Blocks' = Blocks
      /\ \A n : /\ OwnerOf(n)' = OwnerOf(n) /\ KindOf(n)' = KindOf(n)
                /\ KindOf(OwnerOf(n))' = KindOf(OwnerOf(n))
                /\ EncodingOf(n)' = EncodingOf(n) /\ Written(n)' = Written(n)
  BY <1>1 DEF Blocks, OwnerOf, KindOf, EncodingOf, Written
<1>4. InvOwners'
  BY <1>1, <1>2, <1>3 DEF InvOwners
<1>5. InvDecoder'
  BY <1>1 DEF InvDecoder
<1>6. ASSUME NEW n \in Blocks
      PROVE  RightBlock(n)'
  <2>1. Encodes(EncodingOf(n), Written(n), blocks[OwnerOf(n)])
    <3>1. CASE n # block
      BY <1>1, <1>2, <3>1 DEF RightBlock, RightAbout
    <3>2. CASE n = block
      <4>1. n # 0 /\ n = Top
        BY <1>2, <3>2, BlockFacts, BlockIsOpen
      <4>2. ~Incomplete
        BY <1>1 DEF CanEnd
      <4>3. Follows(EncodingOf(n), Written(n), blocks[OwnerOf(n)], decoder)
        BY <1>1, <1>2, <3>2, <4>1 DEF InvDecoder
      <4>4. Waiting(EncodingOf(n), decoder) = << >>
        BY <3>2, <4>1, <4>2 DEF Incomplete, Waiting, EncodingOf
      <4> QED
        BY <1>2, <4>3, <4>4, BlockFacts, DecoderState, FollowsEnd
    <3> QED
      BY <3>1, <3>2
  <2>2. Len(blocks[OwnerOf(n)]) <= MaxBytes[KindOf(OwnerOf(n))]
    BY <1>2 DEF RightBlock, RightAbout
  <2>3. RightAbout(FALSE, status', EncodingOf(n), Written(n), blocks[OwnerOf(n)],
              MaxBytes[KindOf(OwnerOf(n))])
    BY <2>1, <2>2 DEF RightAbout
  <2>4. (n = block') = FALSE
    BY <1>1, <1>2, BlockFacts
  <2> QED
    BY <1>1, <1>3, <2>3, <2>4 DEF RightBlock
<1> QED
  BY <1>3, <1>4, <1>5, <1>6

LEMMA InitBlocks ==
  ASSUME Init
  PROVE  BlockInvariant
<1>1. doc = << >> /\ block = 0 /\ Blocks = {}
  BY DEF Init, Blocks
<1> QED
  BY <1>1, InitTree DEF BlockInvariant, InvOwners, InvDecoder

\* Every step keeps the blocks right.
LEMMA NextBlocks ==
  ASSUME BlockInvariant, [Next]_vars
  PROVE  InvOwners' /\ InvDecoder' /\ \A n \in Blocks' : RightBlock(n)'
<1>1. ASSUME NEW e \in Vocabulary, Start(e)
      PROVE  InvOwners' /\ InvDecoder' /\ \A n \in Blocks' : RightBlock(n)'
  <2>1. status = "parsing"
    BY <1>1 DEF Start
  <2>2. CASE StartElement(e)
    BY <2>1, <2>2, StartBlocks
  <2>3. CASE RefuseElement(e)
    <3>1. UNCHANGED <<input, builder>>
      BY <2>3 DEF RefuseElement
    <3>2. block # 0 => status' = "element"
      BY <2>3 DEF RefuseElement, MayHaveChild
    <3> QED
      BY <2>1, <3>1, <3>2, StatusBlocks
  <2> QED
    BY <1>1, <2>2, <2>3 DEF Start
<1>2. ASSUME stack = << >>
      PROVE  block = 0
  <2>1. TypeOK /\ InvTree
    BY BlockIsOpen DEF BlockInvariant
  <2>2. Top = 0
    BY <1>2 DEF Top
  <2> QED
    BY <2>1, <2>2, BlockIsOpen
<1>3. ASSUME NEW c \in Alphabet, RootText(c)
      PROVE  InvOwners' /\ InvDecoder' /\ \A n \in Blocks' : RightBlock(n)'
  <2>1. status = "parsing" /\ stack = << >> /\ UNCHANGED <<input, builder>>
    BY <1>3 DEF RootText, OtherText, PassOver, builder
  <2> QED
    BY <1>2, <2>1, StatusBlocks
<1>4. CASE Close
  <2>1. status = "parsing" /\ stack = << >> /\ UNCHANGED <<input, builder>>
    BY <1>4 DEF Close
  <2> QED
    BY <1>2, <2>1, StatusBlocks
<1>5. CASE UNCHANGED vars
  <2>1. /\ doc' = doc /\ filled' = filled /\ block' = block /\ decoder' = decoder
        /\ blocks' = blocks /\ status' = status
    BY <1>5 DEF vars, input, builder
  <2>2. /\ Blocks' = Blocks
        /\ \A n : /\ OwnerOf(n)' = OwnerOf(n) /\ KindOf(n)' = KindOf(n)
                  /\ KindOf(OwnerOf(n))' = KindOf(OwnerOf(n))
                  /\ EncodingOf(n)' = EncodingOf(n) /\ Written(n)' = Written(n)
        /\ OwnerOf(block)' = OwnerOf(block) /\ EncodingOf(block)' = EncodingOf(block)
        /\ Written(block)' = Written(block)
    BY <2>1 DEF Blocks, OwnerOf, KindOf, EncodingOf, Written
  <2>3. InvOwners' /\ InvDecoder'
    BY <2>1, <2>2 DEF BlockInvariant, InvOwners, InvDecoder
  <2>4. \A n \in Blocks' : RightBlock(n)'
    BY <2>1, <2>2 DEF BlockInvariant, RightBlock
  <2> QED
    BY <2>3, <2>4
<1> QED
  BY <1>1, <1>3, <1>4, <1>5, RefuseEndBlocks, EndElementBlocks, CharacterBlocks DEF Next

LEMMA NextSound ==
  ASSUME IInv, [Next]_vars
  PROVE  IInv'
<1>1. BlockInvariant
  BY SameStatement DEF IInv, BlockInvariant
<1>2. InvTree' /\ InvOwners' /\ InvDecoder' /\ \A n \in Blocks' : RightBlock(n)'
  BY <1>1, NextTree, NextBlocks DEF BlockInvariant
<1>3. BlocksAreTheirText'
  BY <1>2 DEF BlocksAreTheirText, RightBlock, RightAbout
<1> QED
  BY <1>2, <1>3 DEF IInv

LEMMA InitSound ==
  ASSUME Init
  PROVE  IInv
BY InitBlocks, SameStatement DEF IInv, BlockInvariant

-----------------------------------------------------------------------------
(* The theorems.                                                               *)

\* The state of the builder hangs together in every state: the open elements stand
\* where the rules allow, each in its index, the counters hold the sums, each block
\* has an owner of its own, the bytes of the block that is read and the digits that
\* wait are those of its text so far, and what TextGoesHome and BlocksAreTheirText
\* say (start_element, end_element and character_data of XmlBuilder).
THEOREM HeaderTextInvariant == Spec => []IInv
<1>1. Init => IInv
  BY InitSound
<1>2. IInv /\ [Next]_vars => IInv'
  BY NextSound
<1> QED
  BY <1>1, <1>2, PTL DEF Spec

\* Every field of the builder has its type and bounds: no more than three digits of
\* Base64 wait for a fourth, bytes are bytes, and the counters are within the limits
\* (decode_base64_quartet, append_inline_byte, consume_table_text_bytes).
THEOREM HeaderTextTypeOK == Spec => []TypeOK
<1>1. IInv => TypeOK
  BY DEF IInv, InvTree
<1> QED
  BY <1>1, HeaderTextInvariant, PTL

\* For every vocabulary, every header and all limits, an extension element and a
\* Cell that takes text keep their own text, and a text Property that of all the
\* elements in it, up to the first Property in it that keeps text itself or is over:
\* what follows is passed over, or refused where no text belongs.  No other text is
\* kept, only texts that belong nowhere are refused, and what is kept stays within
\* the limits (character_data, and the Property's end tag in end_element).
THEOREM HeaderTextGoesHome == Spec => []TextGoesHome
<1>1. IInv => TextGoesHome
  BY DEF IInv, InvTree
<1> QED
  BY <1>1, HeaderTextInvariant, PTL

\* For every vocabulary, every header and all limits, an encoded block that was read
\* to its end has the bytes whose encoding is its text, whatever blanks are in it and
\* whatever blocks came before it; a text is only refused once it cannot go on to
\* an encoding, at its end only if it is none, and a limit is only reported where
\* more than it was needed (decode_embedded_text and the resets in start_element).
THEOREM HeaderTextBlocks == Spec => []BlocksAreTheirText
<1>1. IInv => BlocksAreTheirText
  BY DEF IInv
<1> QED
  BY <1>1, HeaderTextInvariant, PTL
=============================================================================
