------------------------ MODULE HeaderDocumentProofs ------------------------
(***************************************************************************)
(* What module HeaderDocument claims of reading a header, proved for every   *)
(* vocabulary, every header and all limits: the callbacks and the resolution *)
(* accept exactly the sound trees, and associate what the tree does.         *)
(***************************************************************************)
EXTENDS HeaderDocument, FiniteSetTheorems, TLAPS

-----------------------------------------------------------------------------
(* Sequences and counting.                                                    *)

LEMMA AppendFacts ==
  ASSUME NEW S, NEW s \in Seq(S), NEW x \in S
  PROVE  /\ Append(s, x) \in Seq(S)
         /\ Len(Append(s, x)) = Len(s) + 1
         /\ DOMAIN s = 1 .. Len(s) /\ Len(s) \in Nat
         /\ DOMAIN Append(s, x) = DOMAIN s \cup {Len(s) + 1}
         /\ Len(s) + 1 \notin DOMAIN s
         /\ \A k \in DOMAIN s : Append(s, x)[k] = s[k]
         /\ Append(s, x)[Len(s) + 1] = x
OBVIOUS

LEMMA SequenceFacts ==
  ASSUME NEW S, NEW s \in Seq(S)
  PROVE  /\ Len(s) \in Nat /\ DOMAIN s = 1 .. Len(s)
         /\ \A k \in DOMAIN s : s[k] \in S
OBVIOUS

LEMMA WiderSequence ==
  ASSUME NEW S, NEW T, S \subseteq T, NEW s \in Seq(S)
  PROVE  s \in Seq(T)
OBVIOUS

\* A function that is one to one has as many values as arguments.
LEMMA CountValues ==
  ASSUME NEW I, IsFiniteSet(I), NEW f, f = [i \in I |-> f[i]],
         \A i, j \in I : f[i] = f[j] => i = j
  PROVE  /\ IsFiniteSet({f[i] : i \in I})
         /\ Cardinality({f[i] : i \in I}) = Cardinality(I)
<1> DEFINE T == {f[i] : i \in I}
<1>1. f \in Bijection(I, T)
  <2>1. f \in [I -> T]
    OBVIOUS
  <2>2. \A a, b \in I : f[a] = f[b] => a = b
    OBVIOUS
  <2>3. \A t \in T : \E s \in I : f[s] = t
    OBVIOUS
  <2> HIDE DEF T
  <2> QED
    BY <2>1, <2>2, <2>3 DEF Bijection, Injection, Surjection, IsInjective
<1>2. ExistsBijection(I, T)
  BY <1>1 DEF ExistsBijection
<1> HIDE DEF T
<1>3. IsFiniteSet(T) /\ Cardinality(T) = Cardinality(I)
  BY <1>2, FS_Bijection
<1> QED
  BY <1>3 DEF T

-----------------------------------------------------------------------------
(* The tree grows by one element.                                             *)

\* Element e has been added at place h, inside of the element at place p.
Grown(e, h, p) ==
  /\ DOMAIN doc' = DOMAIN doc \cup {h} /\ h \notin DOMAIN doc
  /\ \A n \in DOMAIN doc : doc'[n] = doc[n] /\ n \in Nat \ {0} /\ n < h
  /\ doc'[h].element = e /\ doc'[h].parent = p
  /\ p \in {0} \cup DOMAIN doc /\ h \in Nat \ {0}
  /\ \A K : OfKind(K)' = OfKind(K) \cup {n \in {h} : e.kind \in K}
  /\ \A n \in DOMAIN doc : KindAbove(n)' = KindAbove(n)
  /\ KindAbove(h)' = Parent
  /\ Parent = (IF p = 0 THEN "xisf" ELSE Of(p).kind)
  /\ p = 0 <=> stack = << >>
  /\ doc'[h].top = IF stack = << >> THEN h ELSE stack[1]
  /\ \A n \in DOMAIN doc : InImage(n)' <=> InImage(n)
  /\ InImage(h)' <=> IF stack = << >> THEN e.kind = "Image" ELSE Of(stack[1]).kind = "Image"

\* What an element of the vocabulary can be.
LEMMA ElementFacts ==
  ASSUME NEW e \in Vocabulary
  PROVE  /\ e \in Element /\ e.kind \in Kinds
         /\ (e.kind = "Reference" <=> e.ref # None)
         /\ e.uid \in Uids \cup {None} /\ e.ref \in Uids \cup {None}
<1>1. e \in Element
  BY HeaderAssumption DEF HeaderAssumption
<1> QED
  BY <1>1, HeaderAssumption DEF HeaderAssumption, Element, Kinds, Attached, Entries

LEMMA PlaceFacts ==
  ASSUME TypeOK
  PROVE  /\ Len(doc) \in Nat /\ DOMAIN doc = 1 .. Len(doc)
         /\ \A n \in DOMAIN doc :
              /\ Of(n) \in Vocabulary /\ Of(n) \in Element
              /\ Of(n).kind \in Kinds
              /\ (Of(n).kind = "Reference" <=> Of(n).ref # None)
              /\ doc[n].parent \in 0 .. n - 1
              /\ doc[n].parent # 0 => doc[n].parent \in DOMAIN doc
              /\ doc[n].top \in 1 .. n /\ doc[n].top \in DOMAIN doc
<1>1. /\ doc \in Seq([element : Vocabulary, parent : Nat, top : Nat])
      /\ \A n \in DOMAIN doc : doc[n].parent \in 0 .. n - 1 /\ doc[n].top \in 1 .. n
  BY DEF TypeOK
<1>2. Len(doc) \in Nat /\ DOMAIN doc = 1 .. Len(doc)
  BY <1>1
<1>3. \A n \in DOMAIN doc : doc[n] \in [element : Vocabulary, parent : Nat, top : Nat]
  BY <1>1, SequenceFacts
<1>4. \A n \in DOMAIN doc : Of(n) \in Vocabulary
  BY <1>3 DEF Of
<1>5. \A n \in DOMAIN doc :
        /\ doc[n].parent # 0 => doc[n].parent \in DOMAIN doc
        /\ doc[n].top \in DOMAIN doc
  <2> TAKE n \in DOMAIN doc
  <2>1. n \in 1 .. Len(doc) /\ doc[n].parent \in 0 .. n - 1 /\ doc[n].top \in 1 .. n
    BY <1>1, <1>2
  <2> QED
    BY <1>2, <2>1
<1> QED
  BY <1>1, <1>2, <1>4, <1>5, ElementFacts

LEMMA PushGrows ==
  ASSUME TypeOK, NEW e \in Vocabulary, Push(e)
  PROVE  \E h, p : /\ Grown(e, h, p) /\ h = Here
                   /\ p = IF stack = << >> THEN 0 ELSE stack[Len(stack)]
<1> PICK h, p, t : /\ h = Here /\ p = IF stack = << >> THEN 0 ELSE stack[Len(stack)]
                   /\ t = IF stack = << >> THEN h ELSE stack[1]
  OBVIOUS
<1> DEFINE r == [element |-> e, parent |-> p, top |-> t]
<1>1. h = Len(doc) + 1 /\ doc' = Append(doc, r)
  BY DEF Push, Here
<1>2. /\ doc \in Seq([element : Vocabulary, parent : Nat, top : Nat])
      /\ stack \in Seq(DOMAIN doc)
  BY DEF TypeOK
<1>4. DOMAIN doc = 1 .. Len(doc) /\ Len(doc) \in Nat
  BY <1>2
<1>3. /\ p \in {0} \cup DOMAIN doc /\ (p = 0 <=> stack = << >>)
      /\ stack # << >> => t \in DOMAIN doc
  <2>1. stack # << >> => Len(stack) \in DOMAIN stack /\ 1 \in DOMAIN stack
    BY <1>2
  <2>2. \A k \in DOMAIN stack : stack[k] \in DOMAIN doc
    BY <1>2, SequenceFacts
  <2>3. 0 \notin DOMAIN doc
    BY <1>4
  <2> QED
    BY <2>1, <2>2, <2>3
<1>5. r \in [element : Vocabulary, parent : Nat, top : Nat]
  BY <1>1, <1>3, <1>4
<1>16. r.element = e /\ r.parent = p /\ r.top = t
  OBVIOUS
<1> HIDE DEF r
<1>6. /\ DOMAIN doc' = DOMAIN doc \cup {h} /\ h \notin DOMAIN doc
      /\ \A n \in DOMAIN doc : doc'[n] = doc[n]
      /\ doc'[h] = r
  BY <1>1, <1>2, <1>5, AppendFacts
<1>7. doc'[h].element = e /\ doc'[h].parent = p /\ doc'[h].top = t
  BY <1>6, <1>16
<1>8. \A K : OfKind(K)' = OfKind(K) \cup {n \in {h} : e.kind \in K}
  BY <1>6, <1>7 DEF OfKind, Of, Places
<1>9. \A n \in DOMAIN doc : KindAbove(n)' = KindAbove(n)
  <2>1. \A n \in DOMAIN doc : doc[n].parent # 0 => doc[n].parent \in DOMAIN doc
    BY PlaceFacts
  <2> QED
    BY <1>6, <2>1 DEF KindAbove, Of
<1>10. Parent = IF p = 0 THEN "xisf" ELSE Of(p).kind
  BY <1>2, <1>4 DEF Parent, Of
<1>11. KindAbove(h)' = Parent
  BY <1>3, <1>6, <1>7, <1>10 DEF KindAbove, Of
<1>12. \A n \in DOMAIN doc : n \in Nat \ {0} /\ n < h
  BY <1>1, <1>4
<1>14. \A n \in DOMAIN doc : InImage(n)' <=> InImage(n)
  <2>1. \A n \in DOMAIN doc : doc[n].top \in DOMAIN doc
    BY PlaceFacts
  <2> QED
    BY <1>6, <2>1 DEF InImage, Of
<1>15. InImage(h)' <=> IF stack = << >> THEN e.kind = "Image" ELSE Of(stack[1]).kind = "Image"
  <2>1. InImage(h)' <=> doc'[t].element.kind = "Image"
    BY <1>7 DEF InImage, Of
  <2>2. stack # << >> => t \in DOMAIN doc /\ t = stack[1]
    BY <1>3
  <2> QED
    BY <1>6, <1>7, <2>1, <2>2 DEF Of
<1>17. doc'[h].top = IF stack = << >> THEN h ELSE stack[1]
  BY <1>7
<1>18. p \in {0} \cup DOMAIN doc /\ h \in Nat \ {0} /\ (p = 0 <=> stack = << >>)
  BY <1>1, <1>3, <1>4
<1>13. Grown(e, h, p)
  BY <1>6, <1>7, <1>8, <1>9, <1>10, <1>11, <1>12, <1>14, <1>15, <1>17, <1>18 DEF Grown
<1> QED
  BY <1>13

-----------------------------------------------------------------------------
(* The open elements.                                                         *)

\* Where the stack of open elements can have an Image, a Table and so on.
LEMMA StackFacts ==
  ASSUME TypeOK, InvBuilder
  PROVE  /\ DOMAIN stack = 1 .. Len(stack) /\ Len(stack) \in Nat
         /\ \A k \in DOMAIN stack :
              /\ stack[k] \in DOMAIN doc
              /\ KindAbove(stack[k]) =
                   IF k = 1 THEN "xisf" ELSE Of(stack[k - 1]).kind
              /\ Of(stack[k]).kind \in {"Image", "Metadata"} => k = 1
              /\ Of(stack[k]).kind \in Attached =>
                   k = 1 \/ (k = 2 /\ Of(stack[1]).kind = "Image")
         /\ stack = << >> => Parent = "xisf"
         /\ Parent = "Image" <=> Len(stack) = 1 /\ image # 0
         /\ image # 0 <=> stack # << >> /\ Of(stack[1]).kind = "Image"
         /\ image # 0 => image \in DOMAIN images /\ images[image] = stack[1]
         /\ Parent = "Metadata" => Len(stack) = 1 /\ image = 0
         /\ Parent = "Table" =>
              openTable # 0 /\ objects[openTable].at = stack[Len(stack)]
         /\ stack = << >> => image = 0
         /\ stack # << >> => Parent = Of(stack[Len(stack)]).kind
<1>1. /\ stack \in Seq(DOMAIN doc) /\ images \in Seq(DOMAIN doc)
      /\ image \in 0 .. Len(images)
      /\ image # 0 => stack # << >> /\ stack[1] = images[image]
  BY DEF TypeOK
<1>2. /\ DOMAIN stack = 1 .. Len(stack) /\ Len(stack) \in Nat
      /\ \A k \in DOMAIN stack : stack[k] \in DOMAIN doc
      /\ DOMAIN images = 1 .. Len(images) /\ Len(images) \in Nat
  BY <1>1, SequenceFacts
<1>3. \A n \in DOMAIN doc : n # 0 /\ InPlace(n)
  BY PlaceFacts DEF InvBuilder, SoundSoFar, Places
<1>13. \A k \in DOMAIN stack : doc[stack[k]].parent = IF k = 1 THEN 0 ELSE stack[k - 1]
  BY DEF InvBuilder, InvStack
<1>4. ASSUME NEW k \in DOMAIN stack
      PROVE  KindAbove(stack[k]) =
               IF k = 1 THEN "xisf" ELSE Of(stack[k - 1]).kind
  <2>1. doc[stack[k]].parent = IF k = 1 THEN 0 ELSE stack[k - 1]
    BY DEF InvBuilder, InvStack
  <2>2. k # 1 => k - 1 \in DOMAIN stack
    BY <1>2
  <2> QED
    BY <1>2, <1>3, <2>1, <2>2 DEF KindAbove
<1>5. ASSUME NEW k \in DOMAIN stack, Of(stack[k]).kind \in {"Image", "Metadata"}
      PROVE  k = 1
  <2>1. doc[stack[k]].parent = 0
    BY <1>2, <1>3, <1>5 DEF InPlace
  <2>2. k # 1 => k - 1 \in DOMAIN stack
    BY <1>2
  <2> QED
    BY <1>2, <1>3, <1>13, <2>1, <2>2
<1>6. ASSUME NEW k \in DOMAIN stack, Of(stack[k]).kind \in Attached
      PROVE  k = 1 \/ (k = 2 /\ Of(stack[1]).kind = "Image")
  <2>1. doc[stack[k]].parent = 0 \/ KindAbove(stack[k]) = "Image"
    BY <1>2, <1>3, <1>6 DEF InPlace
  <2>2. k # 1 => k - 1 \in DOMAIN stack
    BY <1>2
  <2>3. k # 1 => Of(stack[k - 1]).kind = "Image"
    BY <1>2, <1>3, <1>4, <1>13, <2>1, <2>2
  <2>4. k # 1 => k - 1 = 1
    BY <1>5, <2>2, <2>3
  <2> QED
    BY <1>2, <2>3, <2>4
<1>7. /\ stack = << >> => Parent = "xisf"
      /\ stack # << >> => Parent = Of(stack[Len(stack)]).kind /\ Len(stack) \in DOMAIN stack
  BY <1>1, <1>2 DEF Parent, Of
<1>8. Parent = "xisf" \/ stack # << >>
  BY <1>7
<1>9. image # 0 <=> stack # << >> /\ Of(stack[1]).kind = "Image"
  BY DEF InvBuilder, InvImages
<1>10. Parent = "Image" <=> Len(stack) = 1 /\ image # 0
  <2>1. Parent = "Image" => Len(stack) = 1
    BY <1>5, <1>7, <1>8
  <2> QED
    BY <1>2, <1>7, <1>8, <1>9, <2>1
<1>11. Parent = "Metadata" => Len(stack) = 1 /\ image = 0
  <2>1. Parent = "Metadata" => Len(stack) = 1
    BY <1>5, <1>7, <1>8
  <2> QED
    BY <1>7, <1>8, <1>9, <2>1
<1>12. Parent = "Table" => openTable # 0 /\ objects[openTable].at = stack[Len(stack)]
  BY <1>7, <1>8 DEF InvBuilder, InvOpenTable
<1> QED
  BY <1>1, <1>2, <1>4, <1>5, <1>6, <1>7, <1>8, <1>9, <1>10, <1>11, <1>12

-----------------------------------------------------------------------------
(* What the limits count.                                                     *)

LEMMA FinitePlaces ==
  ASSUME TypeOK
  PROVE  /\ IsFiniteSet(DOMAIN doc) /\ IsFiniteSet(DOMAIN objects)
         /\ IsFiniteSet(DOMAIN events) /\ IsFiniteSet(DOMAIN own)
         /\ IsFiniteSet(DOMAIN structureReferences)
         /\ \A K : IsFiniteSet(OfKind(K)) /\ Cardinality(OfKind(K)) \in Nat
         /\ \A K : IsFiniteSet(Owned(K)) /\ Cardinality(Owned(K)) \in Nat
         /\ \A q, K : IsFiniteSet(Children(q, K)) /\ Cardinality(Children(q, K)) \in Nat
         /\ IsFiniteSet(Associating) /\ Cardinality(Associating) \in Nat
<1>1. \A n \in Nat : IsFiniteSet(1 .. n)
  BY FS_Interval
<1>2. \E S : doc \in Seq(S)
  BY DEF TypeOK
<1>3. \E S : objects \in Seq(S)
  BY DEF TypeOK
<1>4. \E S : events \in Seq(S)
  BY DEF TypeOK
<1>5. \E S : own \in Seq(S)
  BY DEF TypeOK
<1>6. \E S : structureReferences \in Seq(S)
  BY DEF TypeOK
<1>7. /\ IsFiniteSet(DOMAIN doc) /\ IsFiniteSet(DOMAIN objects)
      /\ IsFiniteSet(DOMAIN events) /\ IsFiniteSet(DOMAIN own)
      /\ IsFiniteSet(DOMAIN structureReferences)
  BY <1>1, <1>2, <1>3, <1>4, <1>5, <1>6, SequenceFacts
<1>8. \A T : T \subseteq DOMAIN doc => IsFiniteSet(T) /\ Cardinality(T) \in Nat
  BY <1>7, FS_Subset, FS_CardinalityType
<1>9. \A K : OfKind(K) \subseteq DOMAIN doc
  BY DEF OfKind, Places
<1>10. \A K : Owned(K) \subseteq DOMAIN doc
  BY <1>9 DEF Owned
<1>11. \A q, K : Children(q, K) \subseteq DOMAIN doc
  BY <1>9 DEF Children
<1>12. Associating \subseteq DOMAIN doc
  BY <1>9 DEF Associating
<1> QED
  BY <1>7, <1>8, <1>9, <1>10, <1>11, <1>12

LEMMA CountFacts ==
  ASSUME TypeOK, InvBuilder
  PROVE  /\ Len(events) = Cardinality(Associating)
         /\ Count(objects, LAMBDA o : o.kind \in Entries) = Cardinality(OfKind(Entries))
         /\ \A kind \in Attached : OwnOf(kind) = Cardinality(Owned({kind}))
<1>1. Len(events) = Cardinality(Associating)
  <2> DEFINE f == [j \in DOMAIN events |-> events[j].at]
  <2>1. \A i, j \in DOMAIN events : f[i] = f[j] => i = j
    BY DEF InvBuilder, InvEvents
  <2>2. {f[j] : j \in DOMAIN events} = Associating
    BY DEF InvBuilder, InvEvents
  <2>3. f = [j \in DOMAIN events |-> f[j]]
    OBVIOUS
  <2> HIDE DEF f
  <2>4. Cardinality(Associating) = Cardinality(DOMAIN events)
    BY <2>1, <2>2, <2>3, CountValues, FinitePlaces
  <2>5. DOMAIN events = 1 .. Len(events) /\ Len(events) \in Nat
    BY SequenceFacts DEF TypeOK
  <2>6. Cardinality(1 .. Len(events)) = IF 1 > Len(events) THEN 0 ELSE Len(events) - 1 + 1
    BY <2>5, FS_Interval
  <2> QED
    BY <2>4, <2>5, <2>6
<1>2. Count(objects, LAMBDA o : o.kind \in Entries) = Cardinality(OfKind(Entries))
  <2> DEFINE I == {o \in DOMAIN objects : objects[o].kind \in Entries}
             f == [o \in I |-> objects[o].at]
  <2>1. /\ {objects[o].at : o \in DOMAIN objects} =
             OfKind(Attached \cup Entries \cup {"Structure"})
        /\ \A o, p \in DOMAIN objects : objects[o].at = objects[p].at => o = p
        /\ \A o \in DOMAIN objects : objects[o].kind = Of(objects[o].at).kind
    BY DEF InvBuilder, InvObjects, Describes
  <2>2. \A i, j \in I : f[i] = f[j] => i = j
    BY <2>1
  <2>3. {f[o] : o \in I} = OfKind(Entries)
    <3>1. \A o \in I : f[o] \in OfKind(Entries)
      BY <2>1 DEF OfKind
    <3>2. ASSUME NEW n \in OfKind(Entries)
          PROVE  \E o \in I : f[o] = n
      <4>1. n \in OfKind(Attached \cup Entries \cup {"Structure"}) /\ Of(n).kind \in Entries
        BY DEF OfKind
      <4>2. PICK o \in DOMAIN objects : objects[o].at = n
        BY <2>1, <4>1
      <4>3. o \in I
        BY <2>1, <4>1, <4>2
      <4> QED
        BY <4>2, <4>3
    <3> QED
      BY <3>1, <3>2
  <2>4. f = [o \in I |-> f[o]]
    OBVIOUS
  <2>5. IsFiniteSet(I)
    BY FinitePlaces, FS_Subset
  <2>6. Count(objects, LAMBDA o : o.kind \in Entries) = Cardinality(I)
    BY DEF Count
  <2> HIDE DEF f, I
  <2> QED
    BY <2>2, <2>3, <2>4, <2>5, <2>6, CountValues
<1>3. ASSUME NEW kind \in Attached
      PROVE  OwnOf(kind) = Cardinality(Owned({kind}))
  <2> DEFINE I == {j \in DOMAIN own : objects[own[j].object].kind = kind}
             f == [j \in I |-> own[j].at]
  <2>1. /\ {own[j].at : j \in DOMAIN own} = Owned(Attached)
        /\ \A i, j \in DOMAIN own : own[i].at = own[j].at => i = j
        /\ \A j \in DOMAIN own : objects[own[j].object].at = own[j].at
    BY DEF InvBuilder, InvOwn
  <2>2. \A j \in DOMAIN own : own[j].object \in DOMAIN objects
    <3>1. own \in Seq([at : DOMAIN doc, object : DOMAIN objects, image : DOMAIN images])
      BY DEF TypeOK
    <3>2. \A j \in DOMAIN own :
            own[j] \in [at : DOMAIN doc, object : DOMAIN objects, image : DOMAIN images]
      BY <3>1, SequenceFacts
    <3> QED
      BY <3>2
  <2>3. \A o \in DOMAIN objects : objects[o].kind = Of(objects[o].at).kind
    BY DEF InvBuilder, InvObjects, Describes
  <2>4. \A j \in DOMAIN own : objects[own[j].object].kind = Of(own[j].at).kind
    BY <2>1, <2>2, <2>3
  <2>5. \A i, j \in I : f[i] = f[j] => i = j
    BY <2>1
  <2>6. {f[j] : j \in I} = Owned({kind})
    <3>1. \A n : n \in Owned({kind}) <=> n \in Owned(Attached) /\ Of(n).kind = kind
      BY DEF Owned, OfKind
    <3>2. \A j \in I : f[j] \in Owned({kind})
      BY <2>1, <2>4, <3>1
    <3>3. ASSUME NEW n \in Owned({kind})
          PROVE  \E j \in I : f[j] = n
      <4>1. PICK j \in DOMAIN own : own[j].at = n
        <5>1. n \in Owned(Attached)
          BY <3>1
        <5>2. n \in {own[i].at : i \in DOMAIN own}
          BY <2>1, <5>1, Zenon
        <5> QED
          BY <5>2
      <4>2. j \in I
        BY <2>4, <3>1, <4>1
      <4> QED
        BY <4>1, <4>2
    <3> QED
      BY <3>2, <3>3
  <2>7. f = [j \in I |-> f[j]]
    OBVIOUS
  <2>8. IsFiniteSet(I)
    BY FinitePlaces, FS_Subset
  <2>9. OwnOf(kind) = Cardinality(I)
    BY DEF OwnOf, Count
  <2> HIDE DEF f, I
  <2> QED
    BY <2>5, <2>6, <2>7, <2>8, <2>9, CountValues
<1> QED
  BY <1>1, <1>2, <1>3

-----------------------------------------------------------------------------
(* The callbacks refuse an element exactly if the tree is not sound with it.   *)

\* A set of places that gains at most one.
LEMMA CountOneMore ==
  ASSUME NEW S, IsFiniteSet(S), NEW h, h \notin S, NEW T \in SUBSET {h}
  PROVE  /\ h \in T => Cardinality(S \cup T) = Cardinality(S) + 1
         /\ h \notin T => Cardinality(S \cup T) = Cardinality(S)
<1>1. CASE h \in T
  <2>1. S \cup T = S \cup {h}
    BY <1>1
  <2> QED
    BY <1>1, <2>1, FS_AddElement
<1>2. CASE h \notin T
  <2>1. S \cup T = S
    BY <1>2
  <2> QED
    BY <1>2, <2>1
<1> QED
  BY <1>1, <1>2

\* The sets of places that limits and Tables count.
LEMMA SetsGrow ==
  ASSUME TypeOK, InvBuilder, NEW e \in Vocabulary, NEW h, NEW p, Grown(e, h, p)
  PROVE  /\ \A q, K : Children(q, K)' =
                        Children(q, K) \cup {n \in {h} : e.kind \in K /\ q = p}
         /\ Associating' = Associating \cup {n \in {h} : Binds(e)}
         /\ \A K : Owned(K)' =
                     Owned(K) \cup {n \in {h} : e.kind \in K /\ Parent = "Image"}
         /\ \A K : h \notin OfKind(K)
<1>1. /\ DOMAIN doc' = DOMAIN doc \cup {h} /\ h \notin DOMAIN doc
      /\ \A n \in DOMAIN doc : doc'[n] = doc[n]
      /\ doc'[h].parent = p
      /\ \A K : OfKind(K)' = OfKind(K) \cup {n \in {h} : e.kind \in K}
      /\ \A n \in DOMAIN doc : KindAbove(n)' = KindAbove(n)
      /\ KindAbove(h)' = Parent
  BY DEF Grown
<1>2. \A K : OfKind(K) \subseteq DOMAIN doc
  BY DEF OfKind, Places
<1>3. \A q, K : Children(q, K)' = {n \in OfKind(K)' : doc'[n].parent = q}
  BY DEF Children
<1>4. \A q, K : Children(q, K)' =
                  Children(q, K) \cup {n \in {h} : e.kind \in K /\ q = p}
  BY <1>1, <1>2, <1>3 DEF Children
<1>5. Associating' =
        {n \in OfKind(Entries)' : InImage(n)' \/ KindAbove(n)' = "Metadata"}
        \cup {n \in OfKind({"Reference"})' : KindAbove(n)' \in {"Image", "Metadata"}}
  BY DEF Associating
<1>9. /\ \A n \in DOMAIN doc : InImage(n)' <=> InImage(n)
      /\ e.kind \in Entries => (InImage(h)' <=> image # 0)
  <2>1. image # 0 <=> stack # << >> /\ Of(stack[1]).kind = "Image"
    BY DEF InvBuilder, InvImages
  <2> QED
    BY <2>1 DEF Grown, Entries
<1>6. Associating' = Associating \cup {n \in {h} : Binds(e)}
  BY <1>1, <1>2, <1>5, <1>9 DEF Associating, Binds
<1>7. \A K : Owned(K)' = {n \in OfKind(K)' : KindAbove(n)' = "Image"}
  BY DEF Owned
<1>8. \A K : Owned(K)' =
               Owned(K) \cup {n \in {h} : e.kind \in K /\ Parent = "Image"}
  BY <1>1, <1>2, <1>7 DEF Owned
<1> QED
  BY <1>1, <1>2, <1>4, <1>6, <1>8

LEMMA PlacedRight ==
  ASSUME TypeOK, InvBuilder, NEW e \in Vocabulary, NEW h, NEW p, Grown(e, h, p)
  PROVE  (\A n \in Places : InPlace(n))' <=>
           /\ WellPlaced(e)
           /\ e.kind = "Structure" /\ stack = << >> => e.uid # None
<1>1. /\ DOMAIN doc' = DOMAIN doc \cup {h} /\ h \notin DOMAIN doc
      /\ \A n \in DOMAIN doc : doc'[n] = doc[n]
      /\ doc'[h].element = e /\ (doc'[h].parent = 0 <=> stack = << >>)
      /\ \A n \in DOMAIN doc : KindAbove(n)' = KindAbove(n)
      /\ KindAbove(h)' = Parent
  BY DEF Grown
<1>2. \A n \in DOMAIN doc : InPlace(n)
  BY DEF InvBuilder, SoundSoFar, Places
<1>3. \A n \in DOMAIN doc : InPlace(n)'
  BY <1>1, <1>2 DEF InPlace, Of
<1>4. (\A n \in Places : InPlace(n))' <=> \A n \in DOMAIN doc' : InPlace(n)'
  BY DEF Places
<1>5. (\A n \in Places : InPlace(n))' <=> InPlace(h)'
  BY <1>1, <1>3, <1>4
<1>6. InPlace(h)' <=>
        /\ e.kind \in {"Image", "Metadata"} => stack = << >>
        /\ e.kind \in Attached => stack = << >> \/ Parent = "Image"
        /\ e.kind = "Structure" =>
             Parent = "Table" \/ (stack = << >> /\ e.uid # None)
        /\ e.kind = "Property" => Parent \in {"xisf", "Image", "Metadata"}
        /\ e.kind = "FITSKeyword" => Parent \in {"xisf", "Image"}
  BY <1>1 DEF InPlace, Of
<1>7. /\ stack = << >> => Parent = "xisf"
      /\ Parent = "Image" <=> Len(stack) = 1 /\ image # 0
      /\ Parent = "Table" => openTable # 0
      /\ Parent = "Table" => Parent # "xisf"
  BY StackFacts
<1> QED
  BY <1>5, <1>6, <1>7 DEF WellPlaced

LEMMA IdentifiedRight ==
  ASSUME TypeOK, InvBuilder, NEW e \in Vocabulary, NEW h, NEW p, Grown(e, h, p)
  PROVE  (\A m, n \in Places : Of(m).uid = Of(n).uid /\ m # n => Of(m).uid = None)'
           <=> Identified(e)
<1>1. /\ DOMAIN doc' = DOMAIN doc \cup {h} /\ h \notin DOMAIN doc
      /\ \A n \in DOMAIN doc : doc'[n] = doc[n]
      /\ doc'[h].element = e
  BY DEF Grown
<1>2. \A m, n \in DOMAIN doc : Of(m).uid = Of(n).uid /\ m # n => Of(m).uid = None
  BY DEF InvBuilder, SoundSoFar, Places
<1>3. uids = {Of(n).uid : n \in DOMAIN doc} \ {None}
  BY DEF InvBuilder, InvReferences, Places
<1>4. Identified(e) <=> e.uid = None \/ \A n \in DOMAIN doc : Of(n).uid # e.uid
  BY <1>3 DEF Identified
<1>5. (\A m, n \in Places : Of(m).uid = Of(n).uid /\ m # n => Of(m).uid = None)' <=>
        \A m, n \in DOMAIN doc' :
          doc'[m].element.uid = doc'[n].element.uid /\ m # n => doc'[m].element.uid = None
  BY DEF Places, Of
<1> QED
  BY <1>1, <1>2, <1>4, <1>5 DEF Of

\* What objects know of their elements.
LEMMA ObjectFacts ==
  ASSUME TypeOK, InvBuilder
  PROVE  /\ \A o \in DOMAIN objects :
              /\ objects[o] \in Object /\ o # 0
              /\ objects[o].at \in DOMAIN doc
              /\ Describes(objects[o], objects[o].at)
              /\ objects[o].kind \in Attached \cup Entries \cup {"Structure"}
         /\ \A o, p \in DOMAIN objects : objects[o].at = objects[p].at => o = p
         /\ \A n \in DOMAIN doc : Of(n).kind \in Attached \cup Entries \cup {"Structure"} =>
              \E o \in DOMAIN objects : objects[o].at = n
<1>1. objects \in Seq(Object)
  BY DEF TypeOK
<1>2. \A o \in DOMAIN objects : objects[o] \in Object /\ o # 0
  BY <1>1, SequenceFacts
<1>3. \A o \in DOMAIN objects : objects[o].at \in DOMAIN doc
  BY DEF TypeOK
<1>4. /\ {objects[o].at : o \in DOMAIN objects} = OfKind(Attached \cup Entries \cup {"Structure"})
      /\ \A o, p \in DOMAIN objects : objects[o].at = objects[p].at => o = p
      /\ \A o \in DOMAIN objects : Describes(objects[o], objects[o].at)
  BY DEF InvBuilder, InvObjects
<1>5. \A o \in DOMAIN objects : objects[o].kind \in Attached \cup Entries \cup {"Structure"}
  BY <1>4 DEF Describes, OfKind
<1>6. \A n \in DOMAIN doc : Of(n).kind \in Attached \cup Entries \cup {"Structure"} =>
        n \in {objects[o].at : o \in DOMAIN objects}
  BY <1>4 DEF OfKind, Places
<1> QED
  BY <1>2, <1>3, <1>4, <1>5, <1>6

\* A Table knows the Structure inside of it.
LEMMA InsideStructure ==
  ASSUME TypeOK, InvBuilder, NEW o \in DOMAIN objects
  PROVE  /\ objects[o].structure = 0 <=> Children(objects[o].at, {"Structure"}) = {}
         /\ objects[o].structure # 0 =>
              /\ objects[o].structure \in DOMAIN objects
              /\ objects[objects[o].structure].kind = "Structure"
              /\ objects[objects[o].structure].at \in Children(objects[o].at, {"Structure"})
<1>1. ASSUME objects[o].structure # 0
      PROVE  /\ objects[o].structure \in DOMAIN objects
             /\ objects[objects[o].structure].kind = "Structure"
             /\ objects[objects[o].structure].at \in Children(objects[o].at, {"Structure"})
  <2> DEFINE s == objects[o].structure
  <2>1. s \in DOMAIN objects /\ objects[s].kind = "Structure"
    BY <1>1 DEF TypeOK
  <2>2. doc[objects[s].at].parent = objects[o].at
    BY <1>1 DEF InvBuilder, InvInside
  <2>3. objects[s].at \in DOMAIN doc /\ Of(objects[s].at).kind = "Structure"
    BY <2>1, ObjectFacts DEF Describes
  <2> QED
    BY <2>1, <2>2, <2>3 DEF Children, OfKind, Places
<1>2. ASSUME NEW n \in Children(objects[o].at, {"Structure"})
      PROVE  objects[o].structure # 0
  <2>1. n \in DOMAIN doc /\ Of(n).kind = "Structure" /\ doc[n].parent = objects[o].at
    BY DEF Children, OfKind, Places
  <2>2. PICK s \in DOMAIN objects : objects[s].at = n
    BY <2>1, ObjectFacts
  <2>3. objects[s].kind = "Structure" /\ s # 0 /\ objects[o].at # 0
    BY <2>1, <2>2, ObjectFacts, PlaceFacts DEF Describes
  <2>4. PICK t \in DOMAIN objects : objects[t].structure = s
    BY <2>1, <2>2, <2>3 DEF InvBuilder, InvInside
  <2>5. doc[objects[s].at].parent = objects[t].at
    BY <2>3, <2>4 DEF InvBuilder, InvInside
  <2>6. t = o
    BY <2>1, <2>2, <2>4, <2>5, ObjectFacts
  <2> QED
    BY <2>3, <2>4, <2>6
<1> QED
  BY <1>1, <1>2

LEMMA TablesRight ==
  ASSUME TypeOK, InvBuilder, NEW e \in Vocabulary, NEW h, NEW p, Grown(e, h, p),
         p = IF stack = << >> THEN 0 ELSE stack[Len(stack)]
  PROVE  (\A t \in OfKind({"Table"}) : Cardinality(Children(t, {"Structure"})) <= 1)' <=>
           (e.kind = "Structure" /\ Parent = "Table" => objects[openTable].structure = 0)
<1>1. /\ h \notin DOMAIN doc /\ p \in {0} \cup DOMAIN doc /\ h # 0
      /\ OfKind({"Table"})' = OfKind({"Table"}) \cup {n \in {h} : e.kind \in {"Table"}}
      /\ Parent = (IF p = 0 THEN "xisf" ELSE Of(p).kind)
  BY DEF Grown
<1>2. \A q : Children(q, {"Structure"})' =
               Children(q, {"Structure"}) \cup {n \in {h} : e.kind = "Structure" /\ q = p}
  BY SetsGrow
<1>3. \A q : IsFiniteSet(Children(q, {"Structure"})) /\ h \notin Children(q, {"Structure"})
             /\ Cardinality(Children(q, {"Structure"})) \in Nat
  BY <1>1, FinitePlaces DEF Children, OfKind, Places
<1>4. \A q : Cardinality(Children(q, {"Structure"})') =
               IF e.kind = "Structure" /\ q = p THEN Cardinality(Children(q, {"Structure"})) + 1
               ELSE Cardinality(Children(q, {"Structure"}))
  <2> SUFFICES ASSUME NEW q
               PROVE  Cardinality(Children(q, {"Structure"})') =
                        IF e.kind = "Structure" /\ q = p
                        THEN Cardinality(Children(q, {"Structure"})) + 1
                        ELSE Cardinality(Children(q, {"Structure"}))
    OBVIOUS
  <2> DEFINE S == Children(q, {"Structure"})
             T == {n \in {h} : e.kind = "Structure" /\ q = p}
  <2>1. IsFiniteSet(S) /\ h \notin S /\ T \in SUBSET {h}
    BY <1>3
  <2>2. Children(q, {"Structure"})' = S \cup T
    BY <1>2
  <2>3. h \in T <=> e.kind = "Structure" /\ q = p
    OBVIOUS
  <2> HIDE DEF S, T
  <2>4. /\ h \in T => Cardinality(S \cup T) = Cardinality(S) + 1
        /\ h \notin T => Cardinality(S \cup T) = Cardinality(S)
    BY <2>1, CountOneMore
  <2> QED
    BY <2>2, <2>3, <2>4 DEF S
<1>5. \A q \in OfKind({"Table"}) : Cardinality(Children(q, {"Structure"})) <= 1
  BY DEF InvBuilder, SoundSoFar
<1>6. Cardinality(Children(h, {"Structure"})) = 0
  <2>1. \A n \in DOMAIN doc : doc[n].parent # h
    BY <1>1, PlaceFacts
  <2>2. Children(h, {"Structure"}) = {}
    BY <2>1 DEF Children, OfKind, Places
  <2> QED
    BY <2>2, FS_EmptySet
<1>7. (\A t \in OfKind({"Table"}) : Cardinality(Children(t, {"Structure"})) <= 1)' <=>
        \A t \in OfKind({"Table"})' : Cardinality(Children(t, {"Structure"})') <= 1
  OBVIOUS
<1>8. CASE e.kind = "Structure" /\ Parent = "Table"
  <2>1. p # 0 /\ p \in DOMAIN doc /\ Of(p).kind = "Table" /\ p \in OfKind({"Table"})
    BY <1>1, <1>8 DEF OfKind, Places
  <2>2. openTable # 0 /\ objects[openTable].at = p
    BY <1>8, <2>1, StackFacts
  <2>3. openTable \in DOMAIN objects
    BY <2>2 DEF TypeOK
  <2>4. objects[openTable].structure = 0 <=> Cardinality(Children(p, {"Structure"})) = 0
    BY <2>2, <2>3, <1>3, InsideStructure, FS_EmptySet
  <2>5. OfKind({"Table"})' = OfKind({"Table"})
    BY <1>1, <1>8
  <2>6. \A t \in OfKind({"Table"}) : t # p => Cardinality(Children(t, {"Structure"})') <= 1
    BY <1>4, <1>5
  <2>7. Cardinality(Children(p, {"Structure"})') <= 1 <=> Cardinality(Children(p, {"Structure"})) = 0
    BY <1>3, <1>4, <1>8
  <2> QED
    BY <1>7, <1>8, <2>1, <2>4, <2>5, <2>6, <2>7
<1>9. CASE ~(e.kind = "Structure" /\ Parent = "Table")
  <2>1. \A t \in OfKind({"Table"}) : ~(e.kind = "Structure" /\ t = p)
    <3>1. \A t \in OfKind({"Table"}) : t # 0 /\ Of(t).kind = "Table"
      BY PlaceFacts DEF OfKind, Places
    <3> QED
      BY <1>1, <1>9, <3>1
  <2>2. \A t \in OfKind({"Table"}) : Cardinality(Children(t, {"Structure"})') <= 1
    BY <1>4, <1>5, <2>1
  <2>3. Cardinality(Children(h, {"Structure"})') <= 1
    BY <1>1, <1>4, <1>6
  <2> QED
    BY <1>1, <1>7, <1>9, <2>2, <2>3
<1> QED
  BY <1>8, <1>9

LEMMA MetadataRight ==
  ASSUME TypeOK, InvBuilder, NEW e \in Vocabulary, NEW h, NEW p, Grown(e, h, p)
  PROVE  (Cardinality(OfKind({"Metadata"})) <= 1)' <=>
           (e.kind = "Metadata" => ~Occurs("Metadata"))
<1> DEFINE S == OfKind({"Metadata"})
           T == {n \in {h} : e.kind \in {"Metadata"}}
<1>1. OfKind({"Metadata"})' = S \cup T
  BY DEF Grown
<1>2. IsFiniteSet(S) /\ Cardinality(S) \in Nat /\ h \notin S /\ T \in SUBSET {h}
  BY FinitePlaces, SetsGrow
<1>3. Cardinality(S) <= 1
  BY DEF InvBuilder, SoundSoFar
<1>4. Occurs("Metadata") <=> S # {}
  BY DEF Occurs, OfKind, Places, Of
<1>5. Cardinality(S) = 0 <=> S = {}
  BY <1>2, FS_EmptySet
<1>6. h \in T <=> e.kind = "Metadata"
  OBVIOUS
<1> HIDE DEF S, T
<1>7. /\ h \in T => Cardinality(S \cup T) = Cardinality(S) + 1
      /\ h \notin T => Cardinality(S \cup T) = Cardinality(S)
  BY <1>2, CountOneMore
<1>8. (Cardinality(OfKind({"Metadata"})) <= 1)' <=> Cardinality(S \cup T) <= 1
  BY <1>1
<1> QED
  BY <1>2, <1>3, <1>4, <1>5, <1>6, <1>7, <1>8

LEMMA LimitsRight ==
  ASSUME TypeOK, InvBuilder, NEW e \in Vocabulary, NEW h, NEW p, Grown(e, h, p),
         WellPlaced(e)
  PROVE  (/\ Cardinality(Associating) <= MaxEntries
          /\ Cardinality(OfKind(Entries)) <= MaxEntries
          /\ \A kind \in Attached : Cardinality(Owned({kind})) <= MaxBindings)'
           <=> WithinLimits(e)
<1> DEFINE G(S, T) == IF h \in T THEN Cardinality(S) + 1 ELSE Cardinality(S)
           binds == {n \in {h} : Binds(e)}
           entry == {n \in {h} : e.kind \in Entries}
           owned(kind) == {n \in {h} : e.kind \in {kind} /\ Parent = "Image"}
<1>1. MaxEntries \in Nat /\ MaxBindings \in Nat
  BY HeaderAssumption DEF HeaderAssumption
<1>2. ASSUME NEW S, IsFiniteSet(S), h \notin S, NEW T \in SUBSET {h}
      PROVE  Cardinality(S \cup T) = G(S, T)
  BY <1>2, CountOneMore
<1>3. /\ Len(events) = Cardinality(Associating)
      /\ Count(objects, LAMBDA o : o.kind \in Entries) = Cardinality(OfKind(Entries))
      /\ \A kind \in Attached : OwnOf(kind) = Cardinality(Owned({kind}))
  BY CountFacts
<1>4. /\ Cardinality(Associating) <= MaxEntries
      /\ Cardinality(OfKind(Entries)) <= MaxEntries
      /\ \A kind \in Attached : Cardinality(Owned({kind})) <= MaxBindings
  BY DEF InvBuilder, SoundSoFar
<1>5. Cardinality(Associating)' = G(Associating, binds)
  <2>1. Associating' = Associating \cup binds
    BY SetsGrow
  <2>2. h \notin Associating /\ IsFiniteSet(Associating) /\ binds \in SUBSET {h}
    BY SetsGrow, FinitePlaces DEF Associating
  <2> HIDE DEF binds, G
  <2> QED
    BY <1>2, <2>1, <2>2
<1>6. Cardinality(OfKind(Entries))' = G(OfKind(Entries), entry)
  <2>1. OfKind(Entries)' = OfKind(Entries) \cup entry
    BY DEF Grown
  <2>2. h \notin OfKind(Entries) /\ IsFiniteSet(OfKind(Entries)) /\ entry \in SUBSET {h}
    BY SetsGrow, FinitePlaces
  <2> HIDE DEF entry, G
  <2> QED
    BY <1>2, <2>1, <2>2
<1>7. ASSUME NEW kind \in Attached
      PROVE  Cardinality(Owned({kind}))' = G(Owned({kind}), owned(kind))
  <2>1. Owned({kind})' = Owned({kind}) \cup owned(kind)
    BY SetsGrow
  <2>2. h \notin Owned({kind}) /\ IsFiniteSet(Owned({kind})) /\ owned(kind) \in SUBSET {h}
    BY SetsGrow, FinitePlaces DEF Owned
  <2> HIDE DEF owned, G
  <2> QED
    BY <1>2, <2>1, <2>2
<1>8. e.kind \in Attached => (Parent = "Image" <=> image # 0)
  BY StackFacts DEF WellPlaced
<1>9. /\ Cardinality(Associating) \in Nat /\ Cardinality(OfKind(Entries)) \in Nat
      /\ \A kind \in Attached : Cardinality(Owned({kind})) \in Nat
  BY FinitePlaces
<1>10. Cardinality(Associating)' <= MaxEntries <=> (Binds(e) => Len(events) < MaxEntries)
  BY <1>1, <1>3, <1>4, <1>5, <1>9
<1>11. Cardinality(OfKind(Entries))' <= MaxEntries <=>
         (e.kind \in Entries => Cardinality(OfKind(Entries)) < MaxEntries)
  BY <1>1, <1>4, <1>6, <1>9
<1>12. ASSUME NEW kind \in Attached
       PROVE  Cardinality(Owned({kind}))' <= MaxBindings <=>
                (e.kind = kind /\ image # 0 => OwnOf(kind) < MaxBindings)
  BY <1>1, <1>3, <1>4, <1>7, <1>8, <1>9
<1>13. (\A kind \in Attached : Cardinality(Owned({kind}))' <= MaxBindings) <=>
         (e.kind \in Attached /\ image # 0 => OwnOf(e.kind) < MaxBindings)
  BY <1>12
<1>14. WithinLimits(e) <=>
         /\ Binds(e) => Len(events) < MaxEntries
         /\ e.kind \in Entries => Cardinality(OfKind(Entries)) < MaxEntries
         /\ e.kind \in Attached /\ image # 0 => OwnOf(e.kind) < MaxBindings
  BY <1>3 DEF WithinLimits
<1> HIDE DEF G
<1> QED
  BY <1>10, <1>11, <1>13, <1>14

\* The tree with e in it is sound exactly if e is well formed.
LEMMA SoundGrows ==
  ASSUME TypeOK, InvBuilder, NEW e \in Vocabulary, NEW h, NEW p, Grown(e, h, p),
         p = IF stack = << >> THEN 0 ELSE stack[Len(stack)]
  PROVE  SoundSoFar' <=> WellFormed(e)
<1> DEFINE A == \A n \in Places : InPlace(n)
           B == \A m, n \in Places : Of(m).uid = Of(n).uid /\ m # n => Of(m).uid = None
           C == \A t \in OfKind({"Table"}) : Cardinality(Children(t, {"Structure"})) <= 1
           D == Cardinality(OfKind({"Metadata"})) <= 1
           E == /\ Cardinality(Associating) <= MaxEntries
                /\ Cardinality(OfKind(Entries)) <= MaxEntries
                /\ \A kind \in Attached : Cardinality(Owned({kind})) <= MaxBindings
<1>1. A' <=> /\ WellPlaced(e)
             /\ e.kind = "Structure" /\ stack = << >> => e.uid # None
  BY PlacedRight
<1>2. B' <=> Identified(e)
  BY IdentifiedRight
<1>3. C' <=> (e.kind = "Structure" /\ Parent = "Table" => objects[openTable].structure = 0)
  BY TablesRight
<1>4. D' <=> (e.kind = "Metadata" => ~Occurs("Metadata"))
  BY MetadataRight
<1>5. WellPlaced(e) => (E' <=> WithinLimits(e))
  BY LimitsRight
<1>6. SoundSoFar' <=> A' /\ B' /\ C' /\ D' /\ E'
  BY DEF SoundSoFar
<1>7. stack = << >> => Parent # "Table"
  BY StackFacts
<1>8. WellPlaced(e) =>
        (/\ e.kind = "Structure" /\ stack = << >> => e.uid # None
         /\ e.kind = "Structure" /\ Parent = "Table" => objects[openTable].structure = 0)
        <=> StructureFits(e)
  BY <1>7 DEF WellPlaced, StructureFits
<1> HIDE DEF A, B, C, D, E
<1> QED
  BY <1>1, <1>2, <1>3, <1>4, <1>5, <1>6, <1>8 DEF WellFormed

-----------------------------------------------------------------------------
(* What a start tag does to each part of the builder.                         *)

LEMMA StackGrows ==
  ASSUME TypeOK, InvStack, InvTops, NEW e \in Vocabulary, NEW h, NEW p, Grown(e, h, p),
         p = IF stack = << >> THEN 0 ELSE stack[Len(stack)],
         stack' = Append(stack, h)
  PROVE  /\ InvStack' /\ InvTops' /\ stack' \in Seq(DOMAIN doc')
         /\ DOMAIN stack' = DOMAIN stack \cup {Len(stack) + 1}
         /\ Len(stack) \in Nat /\ Len(stack) + 1 \notin DOMAIN stack
         /\ stack'[Len(stack) + 1] = h
         /\ \A k \in DOMAIN stack : stack'[k] = stack[k]
         /\ stack' # << >>
         /\ stack = << >> => stack'[1] = h
         /\ stack # << >> => stack'[1] = stack[1] /\ 1 \in DOMAIN stack
<1>1. /\ DOMAIN doc' = DOMAIN doc \cup {h} /\ h \notin DOMAIN doc
      /\ \A n \in DOMAIN doc : doc'[n] = doc[n]
      /\ doc'[h].parent = p /\ (p = 0 <=> stack = << >>)
      /\ doc'[h].top = (IF stack = << >> THEN h ELSE stack[1])
  BY DEF Grown
<1>2. stack \in Seq(DOMAIN doc')
  BY <1>1, WiderSequence DEF TypeOK
<1>3. /\ stack' \in Seq(DOMAIN doc')
      /\ DOMAIN stack' = DOMAIN stack \cup {Len(stack) + 1}
      /\ DOMAIN stack = 1 .. Len(stack) /\ Len(stack) \in Nat
      /\ \A k \in DOMAIN stack : stack'[k] = stack[k]
      /\ stack'[Len(stack) + 1] = h
  BY <1>1, <1>2, AppendFacts
<1>4. stack # << >> => Len(stack) # 0
  BY <1>2
<1>5. stack = << >> => Len(stack) = 0
  OBVIOUS
<1>6. \A k \in DOMAIN stack : stack[k] \in DOMAIN doc
  BY SequenceFacts DEF TypeOK
<1>7. ASSUME NEW k \in DOMAIN stack
      PROVE  doc'[stack'[k]].parent = IF k = 1 THEN 0 ELSE stack'[k - 1]
  <2>1. doc[stack[k]].parent = IF k = 1 THEN 0 ELSE stack[k - 1]
    BY DEF InvStack
  <2>2. k # 1 => k - 1 \in DOMAIN stack
    BY <1>3
  <2> QED
    BY <1>1, <1>3, <1>6, <2>1, <2>2
<1>8. doc'[stack'[Len(stack) + 1]].parent =
        IF Len(stack) + 1 = 1 THEN 0 ELSE stack'[(Len(stack) + 1) - 1]
  <2>1. (Len(stack) + 1) - 1 = Len(stack) /\ (Len(stack) # 0 => Len(stack) \in DOMAIN stack)
    BY <1>3
  <2>2. p = IF Len(stack) = 0 THEN 0 ELSE stack'[Len(stack)]
    BY <1>3, <1>4, <1>5, <2>1
  <2>3. Len(stack) + 1 = 1 <=> Len(stack) = 0
    BY <1>3
  <2> QED
    BY <1>1, <1>3, <2>1, <2>2, <2>3
<1>12. /\ stack # << >> => stack'[1] = stack[1] /\ p \in DOMAIN doc /\ doc[p].top = stack[1]
       /\ stack = << >> => stack'[1] = h
  <2>1. stack # << >> => Len(stack) \in DOMAIN stack /\ 1 \in DOMAIN stack
    BY <1>3, <1>4
  <2>2. stack # << >> => doc[stack[Len(stack)]].top = stack[1]
    BY <2>1 DEF InvStack
  <2> QED
    BY <1>3, <1>5, <1>6, <2>1, <2>2
<1>13. \A k \in DOMAIN stack' : doc'[stack'[k]].top = stack'[1]
  <2>1. \A k \in DOMAIN stack : doc[stack[k]].top = stack[1]
    BY DEF InvStack
  <2>2. \A k \in DOMAIN stack : stack # << >>
    OBVIOUS
  <2> QED
    BY <1>1, <1>3, <1>6, <1>12, <2>1, <2>2
<1>9. InvStack'
  BY <1>3, <1>7, <1>8, <1>13 DEF InvStack
<1>14. InvTops'
  <2>1. \A n \in DOMAIN doc :
          /\ doc[n].top = IF doc[n].parent = 0 THEN n ELSE doc[doc[n].parent].top
          /\ doc[n].parent # 0 => doc[n].parent \in DOMAIN doc
    BY PlaceFacts DEF InvTops, Places
  <2>2. \A n \in DOMAIN doc :
          doc'[n].top = IF doc'[n].parent = 0 THEN n ELSE doc'[doc'[n].parent].top
    BY <1>1, <2>1
  <2>3. doc'[h].top = IF doc'[h].parent = 0 THEN h ELSE doc'[doc'[h].parent].top
    BY <1>1, <1>12
  <2> QED
    BY <1>1, <2>2, <2>3 DEF InvTops, Places
<1>10. stack' # << >>
  BY <1>3
<1>11. stack # << >> => 1 \in DOMAIN stack
  BY <1>3, <1>4
<1> QED
  BY <1>3, <1>4, <1>5, <1>9, <1>10, <1>11, <1>14

\* What the callback for e begins with, and what it looks at.
Entering(e, h, p) ==
  /\ TypeOK /\ InvBuilder /\ e \in Vocabulary /\ WellFormed(e)
  /\ Grown(e, h, p) /\ stack' = Append(stack, h) /\ h = Here
  /\ p = IF stack = << >> THEN 0 ELSE stack[Len(stack)]

LEMMA ImagesStay ==
  ASSUME NEW e, NEW h, NEW p, Entering(e, h, p), e.kind # "Image",
         images' = images, image' = image
  PROVE  InvImages'
<1>1. /\ doc'[h].element = e
      /\ \A n \in DOMAIN doc : doc'[n] = doc[n]
      /\ OfKind({"Image"})' = OfKind({"Image"}) \cup {n \in {h} : e.kind \in {"Image"}}
  BY DEF Entering, Grown
<1>2. OfKind({"Image"})' = OfKind({"Image"})
  BY <1>1
<1>3. /\ {images[i] : i \in DOMAIN images} = OfKind({"Image"})
      /\ \A i, j \in DOMAIN images : images[i] = images[j] => i = j
      /\ image # 0 <=> stack # << >> /\ Of(stack[1]).kind = "Image"
  BY DEF Entering, InvBuilder, InvImages
<1>4. /\ stack' # << >>
      /\ stack = << >> => stack'[1] = h
      /\ stack # << >> => stack'[1] = stack[1] /\ 1 \in DOMAIN stack
  BY StackGrows DEF Entering, InvBuilder
<1>5. \A k \in DOMAIN stack : stack[k] \in DOMAIN doc
  BY SequenceFacts DEF Entering, TypeOK
<1>6. image # 0 <=> doc'[stack'[1]].element.kind = "Image"
  BY <1>1, <1>3, <1>4, <1>5 DEF Of
<1> QED
  BY <1>2, <1>3, <1>4, <1>6 DEF InvImages, Of

LEMMA ImagesGrow ==
  ASSUME NEW e, NEW h, NEW p, Entering(e, h, p), e.kind = "Image",
         images' = Append(images, h), image' = Len(images) + 1
  PROVE  /\ InvImages' /\ images' \in Seq(DOMAIN doc')
         /\ Len(images') = Len(images) + 1 /\ Len(images) \in Nat
         /\ DOMAIN images \subseteq DOMAIN images'
         /\ \A i \in DOMAIN images : images'[i] = images[i]
         /\ stack' # << >> /\ stack'[1] = images'[image']
<1>1. /\ doc'[h].element = e /\ h \notin DOMAIN doc
      /\ DOMAIN doc' = DOMAIN doc \cup {h}
      /\ OfKind({"Image"})' = OfKind({"Image"}) \cup {n \in {h} : e.kind \in {"Image"}}
  BY DEF Entering, Grown
<1>2. OfKind({"Image"})' = OfKind({"Image"}) \cup {h}
  BY <1>1
<1>3. images \in Seq(DOMAIN doc) /\ images \in Seq(DOMAIN doc')
  BY <1>1, WiderSequence DEF Entering, TypeOK
<1>4. /\ images' \in Seq(DOMAIN doc')
      /\ Len(images') = Len(images) + 1 /\ Len(images) \in Nat
      /\ DOMAIN images' = DOMAIN images \cup {Len(images) + 1}
      /\ \A i \in DOMAIN images : images'[i] = images[i]
      /\ images'[Len(images) + 1] = h
  BY <1>1, <1>3, AppendFacts
<1>5. \A i \in DOMAIN images : images[i] \in DOMAIN doc
  BY <1>3, SequenceFacts
<1>6. /\ {images[i] : i \in DOMAIN images} = OfKind({"Image"})
      /\ \A i, j \in DOMAIN images : images[i] = images[j] => i = j
  BY DEF Entering, InvBuilder, InvImages
<1>7. stack = << >>
  BY DEF Entering, WellFormed, WellPlaced
<1>8. stack' # << >> /\ stack'[1] = h
  BY <1>7, StackGrows DEF Entering, InvBuilder
<1>9. {images'[i] : i \in DOMAIN images'} = OfKind({"Image"})'
  <2>1. {images'[i] : i \in DOMAIN images'} =
          {images[i] : i \in DOMAIN images} \cup {h}
    BY <1>4
  <2> QED
    BY <1>2, <1>6, <2>1
<1>10. \A i, j \in DOMAIN images' : images'[i] = images'[j] => i = j
  BY <1>1, <1>4, <1>5, <1>6
<1>11. image' # 0 /\ doc'[stack'[1]].element.kind = "Image"
  BY <1>1, <1>4, <1>8 DEF Of
<1> QED
  BY <1>4, <1>8, <1>9, <1>10, <1>11 DEF InvImages, Of

\* The objects after a step, seen from those before it.
Alike(a, b) ==
  /\ a.at = b.at /\ a.kind = b.kind /\ a.uid = b.uid /\ a.name = b.name
  /\ a.size = b.size /\ (a.standalone <=> b.standalone)

ObjectsKept ==
  \A o \in DOMAIN objects : o \in DOMAIN objects' /\ Alike(objects'[o], objects[o])

ObjectsGrown(e, h, p, x) ==
  /\ ObjectsKept /\ DOMAIN objects' = DOMAIN objects \cup {x}
  /\ x \notin DOMAIN objects /\ x # 0
  /\ objects'[x].at = h /\ objects'[x].kind = e.kind /\ objects'[x].uid = e.uid
  /\ objects'[x].name = e.name /\ objects'[x].size = e.size
  /\ objects'[x].structure = 0 /\ (objects'[x].standalone <=> p = 0)

LEMMA ObjectsStay ==
  ASSUME NEW e, NEW h, NEW p, Entering(e, h, p),
         e.kind \notin Attached \cup Entries \cup {"Structure"}, objects' = objects
  PROVE  InvObjects' /\ ObjectsKept
<1> DEFINE K == Attached \cup Entries \cup {"Structure"}
<1>1. /\ \A n \in DOMAIN doc : doc'[n] = doc[n]
      /\ OfKind(K)' = OfKind(K) \cup {n \in {h} : e.kind \in K}
  BY DEF Entering, Grown
<1>2. OfKind(K)' = OfKind(K)
  BY <1>1
<1>3. /\ {objects[o].at : o \in DOMAIN objects} = OfKind(K)
      /\ \A o, q \in DOMAIN objects : objects[o].at = objects[q].at => o = q
      /\ \A o \in DOMAIN objects : Describes(objects[o], objects[o].at)
  BY DEF Entering, InvBuilder, InvObjects
<1>4. \A o \in DOMAIN objects : objects[o].at \in DOMAIN doc
  BY DEF Entering, TypeOK
<1>5. \A o \in DOMAIN objects : Describes(objects[o], objects[o].at)'
  BY <1>1, <1>3, <1>4 DEF Describes, Of
<1>6. \A o \in DOMAIN objects' : Describes(objects[o], objects[o].at)'
  BY <1>5
<1> QED
  BY <1>2, <1>3, <1>6 DEF InvObjects, ObjectsKept, Alike

LEMMA ObjectsGrow ==
  ASSUME NEW e, NEW h, NEW p, NEW x, Entering(e, h, p), ObjectsGrown(e, h, p, x),
         e.kind \in Attached \cup Entries \cup {"Structure"}
  PROVE  InvObjects'
<1> DEFINE K == Attached \cup Entries \cup {"Structure"}
<1>1. /\ \A n \in DOMAIN doc : doc'[n] = doc[n]
      /\ doc'[h].element = e /\ doc'[h].parent = p /\ h \notin DOMAIN doc
      /\ OfKind(K)' = OfKind(K) \cup {n \in {h} : e.kind \in K}
  BY DEF Entering, Grown
<1>2. OfKind(K)' = OfKind(K) \cup {h}
  BY <1>1
<1>3. /\ {objects[o].at : o \in DOMAIN objects} = OfKind(K)
      /\ \A o, q \in DOMAIN objects : objects[o].at = objects[q].at => o = q
      /\ \A o \in DOMAIN objects : Describes(objects[o], objects[o].at)
  BY DEF Entering, InvBuilder, InvObjects
<1>4. \A o \in DOMAIN objects : objects[o].at \in DOMAIN doc
  BY DEF Entering, TypeOK
<1>5. /\ DOMAIN objects' = DOMAIN objects \cup {x} /\ x \notin DOMAIN objects
      /\ \A o \in DOMAIN objects : Alike(objects'[o], objects[o])
      /\ objects'[x].at = h
  BY DEF ObjectsGrown, ObjectsKept
<1>6. \A o \in DOMAIN objects : Describes(objects[o], objects[o].at)'
  BY <1>1, <1>3, <1>4, <1>5 DEF Describes, Of, Alike
<1>7. Describes(objects[x], objects[x].at)'
  <2>1. Describes(objects[x], objects[x].at)' <=>
          /\ objects'[x].kind = doc'[objects'[x].at].element.kind
          /\ objects'[x].uid = doc'[objects'[x].at].element.uid
          /\ objects'[x].name = doc'[objects'[x].at].element.name
          /\ objects'[x].size = doc'[objects'[x].at].element.size
          /\ (objects'[x].standalone <=> doc'[objects'[x].at].parent = 0)
    BY DEF Describes, Of
  <2> QED
    BY <1>1, <2>1 DEF ObjectsGrown
<1>8. \A o \in DOMAIN objects' : Describes(objects[o], objects[o].at)'
  BY <1>5, <1>6, <1>7
<1>9. {objects'[o].at : o \in DOMAIN objects'} = OfKind(K)'
  <2>1. {objects'[o].at : o \in DOMAIN objects'} =
          {objects[o].at : o \in DOMAIN objects} \cup {h}
    BY <1>5 DEF Alike
  <2> HIDE DEF K
  <2> QED
    BY <1>2, <1>3, <2>1
<1>10. \A o, q \in DOMAIN objects' : objects'[o].at = objects'[q].at => o = q
  BY <1>1, <1>3, <1>4, <1>5 DEF Alike
<1> QED
  BY <1>8, <1>9, <1>10 DEF InvObjects

\* The open Table.
LEMMA OpenTableStays ==
  ASSUME NEW e, NEW h, NEW p, Entering(e, h, p), e.kind # "Table",
         openTable' = openTable, ObjectsKept
  PROVE  InvOpenTable'
<1>1. /\ \A n \in DOMAIN doc : doc'[n] = doc[n]
      /\ doc'[h].element = e
  BY DEF Entering, Grown
<1>2. /\ DOMAIN stack' = DOMAIN stack \cup {Len(stack) + 1}
      /\ \A k \in DOMAIN stack : stack'[k] = stack[k]
      /\ stack'[Len(stack) + 1] = h
  BY StackGrows DEF Entering, InvBuilder
<1>3. /\ \A k \in DOMAIN stack : Of(stack[k]).kind = "Table" =>
           openTable # 0 /\ objects[openTable].at = stack[k]
      /\ openTable # 0 => objects[openTable].kind = "Table"
  BY DEF Entering, InvBuilder, InvOpenTable
<1>4. openTable # 0 => openTable \in DOMAIN objects
  BY DEF Entering, TypeOK
<1>5. \A k \in DOMAIN stack : stack[k] \in DOMAIN doc
  BY SequenceFacts DEF Entering, TypeOK
<1>6. \A k \in DOMAIN stack : Of(stack[k])' = Of(stack[k])
  BY <1>1, <1>2, <1>5 DEF Of
<1>7. Of(h)'.kind # "Table"
  BY <1>1 DEF Of
<1>8. openTable # 0 => Alike(objects'[openTable], objects[openTable])
  BY <1>4 DEF ObjectsKept
<1>9. \A k \in DOMAIN stack' : doc'[stack'[k]].element.kind = "Table" =>
        openTable # 0 /\ objects'[openTable].at = stack'[k]
  BY <1>1, <1>2, <1>3, <1>5, <1>8 DEF Alike, Of
<1> QED
  BY <1>3, <1>8, <1>9 DEF InvOpenTable, Alike, Of

LEMMA OpenTableNew ==
  ASSUME NEW e, NEW h, NEW p, NEW x, Entering(e, h, p), ObjectsGrown(e, h, p, x),
         e.kind = "Table", openTable' = x
  PROVE  InvOpenTable'
<1>1. /\ \A n \in DOMAIN doc : doc'[n] = doc[n]
      /\ doc'[h].element = e
  BY DEF Entering, Grown
<1>2. /\ DOMAIN stack' = DOMAIN stack \cup {Len(stack) + 1}
      /\ \A k \in DOMAIN stack : stack'[k] = stack[k]
      /\ stack'[Len(stack) + 1] = h
  BY StackGrows DEF Entering, InvBuilder
<1>3. \A k \in DOMAIN stack : k = 1 /\ Of(stack[k]).kind = "Image"
  <2>1. stack = << >> \/ (Len(stack) = 1 /\ Parent = "Image")
    BY DEF Entering, WellFormed, WellPlaced, Attached
  <2>2. DOMAIN stack = 1 .. Len(stack) /\ (stack # << >> => Parent = Of(stack[Len(stack)]).kind)
    BY StackFacts DEF Entering
  <2> QED
    BY <2>1, <2>2
<1>4. \A k \in DOMAIN stack : stack[k] \in DOMAIN doc
  BY SequenceFacts DEF Entering, TypeOK
<1>5. \A k \in DOMAIN stack' : doc'[stack'[k]].element.kind = "Table" => stack'[k] = h
  BY <1>1, <1>2, <1>3, <1>4 DEF Of
<1> QED
  BY <1>5 DEF InvOpenTable, ObjectsGrown, Of
\* The Structures inside of Tables.
LEMMA InsideStays ==
  ASSUME NEW e, NEW h, NEW p, Entering(e, h, p), ObjectsKept,
         \A o \in DOMAIN objects : objects'[o].structure = objects[o].structure,
         \A o \in DOMAIN objects' :
           o \in DOMAIN objects \/
           /\ objects'[o].structure = 0 /\ objects'[o].at = h
           /\ objects'[o].kind = "Structure" => p = 0
  PROVE  InvInside'
<1>1. /\ \A n \in DOMAIN doc : doc'[n] = doc[n]
      /\ doc'[h].parent = p
  BY DEF Entering, Grown
<1>2. /\ \A o \in DOMAIN objects : objects[o].structure # 0 =>
           doc[objects[objects[o].structure].at].parent = objects[o].at
      /\ \A s \in DOMAIN objects :
           objects[s].kind = "Structure" /\ doc[objects[s].at].parent # 0 =>
             \E t \in DOMAIN objects : objects[t].structure = s
  BY DEF Entering, InvBuilder, InvInside
<1>3. \A o \in DOMAIN objects :
        /\ objects[o].at \in DOMAIN doc
        /\ objects[o].structure # 0 => objects[o].structure \in DOMAIN objects
  BY DEF Entering, TypeOK
<1>4. \A o \in DOMAIN objects :
        /\ o \in DOMAIN objects'
        /\ objects'[o].at = objects[o].at /\ objects'[o].kind = objects[o].kind
  BY DEF ObjectsKept, Alike
<1>5. \A o \in DOMAIN objects' : objects'[o].structure # 0 =>
        doc'[objects'[objects'[o].structure].at].parent = objects'[o].at
  <2> TAKE o \in DOMAIN objects'
  <2> HAVE objects'[o].structure # 0
  <2>1. o \in DOMAIN objects
    OBVIOUS
  <2>2. /\ objects'[o].structure = objects[o].structure
        /\ objects[o].structure \in DOMAIN objects
    BY <1>3, <2>1
  <2>3. doc'[objects[objects[o].structure].at].parent = objects[o].at
    BY <1>1, <1>2, <1>3, <2>1, <2>2
  <2> QED
    BY <1>4, <2>1, <2>2, <2>3
<1>6. \A s \in DOMAIN objects' :
        objects'[s].kind = "Structure" /\ doc'[objects'[s].at].parent # 0 =>
          \E t \in DOMAIN objects' : objects'[t].structure = s
  <2> TAKE s \in DOMAIN objects'
  <2> HAVE objects'[s].kind = "Structure" /\ doc'[objects'[s].at].parent # 0
  <2>1. s \in DOMAIN objects
    BY <1>1
  <2>2. PICK t \in DOMAIN objects : objects[t].structure = s
    BY <1>1, <1>2, <1>3, <1>4, <2>1
  <2> QED
    BY <1>4, <2>2
<1> QED
  BY <1>5, <1>6 DEF InvInside

LEMMA InsideNew ==
  ASSUME NEW e, NEW h, NEW p, NEW x, Entering(e, h, p), ObjectsGrown(e, h, p, x),
         e.kind = "Structure", stack # << >>,
         \A o \in DOMAIN objects :
           objects'[o].structure = IF o = openTable THEN x ELSE objects[o].structure
  PROVE  /\ InvInside' /\ objects[openTable].kind = "Table"
         /\ openTable \in DOMAIN objects
<1>1. /\ \A n \in DOMAIN doc : doc'[n] = doc[n]
      /\ doc'[h].parent = p
  BY DEF Entering, Grown
<1>2. Parent = "Table" /\ openTable # 0 /\ objects[openTable].structure = 0
  BY DEF Entering, WellFormed, WellPlaced, StructureFits
<1>3. openTable \in DOMAIN objects /\ objects[openTable].at = p
  BY <1>2, StackFacts DEF Entering, TypeOK
<1>4. objects[openTable].kind = "Table"
  BY <1>2 DEF Entering, InvBuilder, InvOpenTable
<1>5. /\ \A o \in DOMAIN objects : objects[o].structure # 0 =>
           doc[objects[objects[o].structure].at].parent = objects[o].at
      /\ \A s \in DOMAIN objects :
           objects[s].kind = "Structure" /\ doc[objects[s].at].parent # 0 =>
             \E t \in DOMAIN objects : objects[t].structure = s
  BY DEF Entering, InvBuilder, InvInside
<1>6. \A o \in DOMAIN objects :
        /\ objects[o].at \in DOMAIN doc
        /\ objects[o].structure # 0 => objects[o].structure \in DOMAIN objects
  BY DEF Entering, TypeOK
<1>7. /\ DOMAIN objects' = DOMAIN objects \cup {x} /\ x \notin DOMAIN objects /\ x # 0
      /\ objects'[x].at = h /\ objects'[x].structure = 0
      /\ \A o \in DOMAIN objects :
           objects'[o].at = objects[o].at /\ objects'[o].kind = objects[o].kind
  BY DEF ObjectsGrown, ObjectsKept, Alike
<1>8. 0 \notin DOMAIN objects
  BY ObjectFacts DEF Entering
<1>9. \A o \in DOMAIN objects' : objects'[o].structure # 0 =>
        doc'[objects'[objects'[o].structure].at].parent = objects'[o].at
  <2> TAKE o \in DOMAIN objects'
  <2> HAVE objects'[o].structure # 0
  <2>1. o \in DOMAIN objects
    BY <1>7
  <2>2. CASE o = openTable
    <3>1. objects'[o].structure = x /\ objects'[o].at = p
      BY <1>3, <1>7, <2>2
    <3> QED
      BY <1>1, <1>7, <3>1
  <2>3. CASE o # openTable
    <3>1. /\ objects'[o].structure = objects[o].structure
          /\ objects[o].structure \in DOMAIN objects
      BY <1>6, <2>1, <2>3
    <3>2. doc'[objects[objects[o].structure].at].parent = objects[o].at
      BY <1>1, <1>5, <1>6, <2>1, <3>1
    <3> QED
      BY <1>7, <2>1, <3>1, <3>2
  <2> QED
    BY <2>2, <2>3
<1>10. \A s \in DOMAIN objects' :
        objects'[s].kind = "Structure" /\ doc'[objects'[s].at].parent # 0 =>
          \E t \in DOMAIN objects' : objects'[t].structure = s
  <2> TAKE s \in DOMAIN objects'
  <2> HAVE objects'[s].kind = "Structure" /\ doc'[objects'[s].at].parent # 0
  <2>1. CASE s = x
    <3>1. objects'[openTable].structure = s
      BY <1>3, <2>1
    <3> QED
      BY <1>3, <1>7, <3>1
  <2>2. CASE s # x
    <3>1. s \in DOMAIN objects /\ s # 0
      BY <1>7, <1>8, <2>2
    <3>2. PICK t \in DOMAIN objects : objects[t].structure = s
      BY <1>1, <1>5, <1>6, <1>7, <3>1
    <3>3. t # openTable
      BY <1>2, <3>1, <3>2
    <3>4. objects'[t].structure = s
      BY <3>2, <3>3
    <3> QED
      BY <1>7, <3>4
  <2> QED
    BY <2>1, <2>2
<1> QED
  BY <1>3, <1>4, <1>9, <1>10 DEF InvInside

\* The References inside of Tables.
LEMMA TableReferencesStay ==
  ASSUME NEW e, NEW h, NEW p, Entering(e, h, p), ObjectsKept,
         ~(e.kind = "Reference" /\ Parent = "Table"),
         structureReferences' = structureReferences,
         \A o \in DOMAIN objects' : o \in DOMAIN objects \/ objects'[o].at = h
  PROVE  InvTableReferences'
<1>1. /\ DOMAIN doc' = DOMAIN doc \cup {h} /\ h \notin DOMAIN doc /\ h \in Nat \ {0}
      /\ \A n \in DOMAIN doc : doc'[n] = doc[n] /\ KindAbove(n)' = KindAbove(n)
      /\ doc'[h].parent = p /\ p \in {0} \cup DOMAIN doc
      /\ OfKind({"Reference"})' = OfKind({"Reference"}) \cup {n \in {h} : e.kind \in {"Reference"}}
      /\ KindAbove(h)' = Parent
      /\ Parent = (IF p = 0 THEN "xisf" ELSE Of(p).kind)
  BY DEF Entering, Grown
<1>2. /\ \A j \in DOMAIN structureReferences :
           \E n \in TableReferences : RefersToStructure(j, n)
      /\ \A n \in TableReferences :
           \E j \in DOMAIN structureReferences : RefersToStructure(j, n)
      /\ \A t \in DOMAIN objects :
           objects[t].kind = "Table" =>
             Cardinality(ReferencesOf(t)) = Cardinality(Children(objects[t].at, {"Reference"}))
  BY DEF Entering, InvBuilder, InvTableReferences
<1>3. \A o \in DOMAIN objects :
        /\ objects[o].at \in DOMAIN doc /\ objects'[o].at = objects[o].at
        /\ objects'[o].kind = objects[o].kind
  BY DEF Entering, TypeOK, ObjectsKept, Alike
<1>4. \A j \in DOMAIN structureReferences : structureReferences[j].table \in DOMAIN objects
  <2>1. structureReferences \in Seq([table : DOMAIN objects, ref : Uids])
    BY DEF Entering, TypeOK
  <2>2. \A j \in DOMAIN structureReferences :
          structureReferences[j] \in [table : DOMAIN objects, ref : Uids]
    BY <2>1, SequenceFacts
  <2> QED
    BY <2>2
<1>5. OfKind({"Reference"}) \subseteq DOMAIN doc
  BY DEF OfKind, Places
<1>6. TableReferences' = TableReferences
  BY <1>1, <1>5 DEF TableReferences
<1>7. \A j \in DOMAIN structureReferences, n \in TableReferences :
        RefersToStructure(j, n)' <=> RefersToStructure(j, n)
  BY <1>1, <1>3, <1>4, <1>5 DEF RefersToStructure, TableReferences, Of
<1>8. /\ \A j \in DOMAIN structureReferences' :
           \E n \in TableReferences' : RefersToStructure(j, n)'
      /\ \A n \in TableReferences' :
           \E j \in DOMAIN structureReferences' : RefersToStructure(j, n)'
  BY <1>2, <1>6, <1>7
<1>9. \A q : Children(q, {"Reference"})' =
               Children(q, {"Reference"}) \cup {n \in {h} : e.kind = "Reference" /\ q = p}
  BY SetsGrow DEF Entering
<1>10. \A t : ReferencesOf(t)' = ReferencesOf(t)
  BY DEF ReferencesOf
<1>11. ASSUME NEW t \in DOMAIN objects', objects'[t].kind = "Table",
              NEW q, q = objects'[t].at
       PROVE  Cardinality(ReferencesOf(t)') = Cardinality(Children(q, {"Reference"})')
  <2>1. CASE t \in DOMAIN objects
    <3>1. q = objects[t].at /\ objects[t].kind = "Table"
      BY <1>3, <1>11, <2>1
    <3>2. q \in DOMAIN doc /\ Of(q).kind = "Table"
      BY <2>1, <3>1, ObjectFacts DEF Entering, Describes
    <3>3. q # 0
      BY <3>2, PlaceFacts DEF Entering
    <3>4. ~(e.kind = "Reference" /\ q = p)
      BY <1>1, <3>2, <3>3
    <3>5. {n \in {h} : e.kind = "Reference" /\ q = p} = {}
      BY <3>4
    <3>6. Children(q, {"Reference"})' = Children(q, {"Reference"})
      BY <1>9, <3>5
    <3> QED
      BY <1>2, <1>10, <2>1, <3>1, <3>6
  <2>2. CASE t \notin DOMAIN objects
    <3>1. q = h
      BY <1>11, <2>2
    <3>2. ReferencesOf(t) = {}
      BY <1>4, <2>2 DEF ReferencesOf
    <3>3. Children(h, {"Reference"}) = {}
      BY <1>1, PlaceFacts DEF Entering, Children, OfKind, Places
    <3>4. {n \in {h} : e.kind = "Reference" /\ h = p} = {}
      BY <1>1
    <3>5. Children(h, {"Reference"})' = {}
      BY <1>9, <3>3, <3>4
    <3> QED
      BY <1>10, <3>1, <3>2, <3>5
  <2> QED
    BY <2>1, <2>2
<1>12. \A t \in DOMAIN objects' : objects'[t].kind = "Table" =>
         \A q : q = objects'[t].at =>
           Cardinality(ReferencesOf(t)') = Cardinality(Children(q, {"Reference"})')
  BY <1>11
<1>13. (\A t \in DOMAIN objects : objects[t].kind = "Table" =>
         Cardinality(ReferencesOf(t)) = Cardinality(Children(objects[t].at, {"Reference"})))'
  BY <1>12 DEF Children
<1> QED
  BY <1>8, <1>13 DEF InvTableReferences

LEMMA TableReferencesNew ==
  ASSUME NEW e, NEW h, NEW p, Entering(e, h, p), objects' = objects,
         e.kind = "Reference", Parent = "Table",
         structureReferences' =
           Append(structureReferences, [table |-> openTable, ref |-> e.ref])
  PROVE  /\ InvTableReferences'
         /\ openTable \in DOMAIN objects /\ objects[openTable].kind = "Table"
         /\ structureReferences' \in Seq([table : DOMAIN objects, ref : Uids])
         /\ DOMAIN structureReferences' =
              DOMAIN structureReferences \cup {Len(structureReferences) + 1}
         /\ \A j \in DOMAIN structureReferences :
              structureReferences'[j] = structureReferences[j]
         /\ structureReferences'[Len(structureReferences) + 1].table = openTable
<1> DEFINE r == [table |-> openTable, ref |-> e.ref]
<1> PICK N : N = Len(structureReferences) + 1
  OBVIOUS
<1>1. /\ DOMAIN doc' = DOMAIN doc \cup {h} /\ h \notin DOMAIN doc /\ h \in Nat \ {0}
      /\ \A n \in DOMAIN doc : doc'[n] = doc[n] /\ KindAbove(n)' = KindAbove(n)
      /\ doc'[h].element = e /\ doc'[h].parent = p
      /\ OfKind({"Reference"})' = OfKind({"Reference"}) \cup {n \in {h} : e.kind \in {"Reference"}}
      /\ KindAbove(h)' = Parent
  BY DEF Entering, Grown
<1>2. /\ \A j \in DOMAIN structureReferences :
           \E n \in TableReferences : RefersToStructure(j, n)
      /\ \A n \in TableReferences :
           \E j \in DOMAIN structureReferences : RefersToStructure(j, n)
      /\ \A t \in DOMAIN objects :
           objects[t].kind = "Table" =>
             Cardinality(ReferencesOf(t)) = Cardinality(Children(objects[t].at, {"Reference"}))
  BY DEF Entering, InvBuilder, InvTableReferences
<1>3. /\ \A o \in DOMAIN objects : objects[o].at \in DOMAIN doc
      /\ \A o, q \in DOMAIN objects : objects[o].at = objects[q].at => o = q
  BY ObjectFacts DEF Entering
<1>4. openTable \in DOMAIN objects /\ objects[openTable].at = p
  <2>1. Parent = "Table" => openTable # 0 /\ objects[openTable].at = stack[Len(stack)]
    BY StackFacts DEF Entering
  <2>2. stack # << >>
    BY DEF Parent
  <2> QED
    BY <2>1, <2>2 DEF Entering, TypeOK
<1>5. objects[openTable].kind = "Table"
  BY <1>4, ObjectFacts DEF Entering, InvBuilder, InvOpenTable
<1>6. e.ref \in Uids
  BY ElementFacts DEF Entering
<1>7. /\ structureReferences' \in Seq([table : DOMAIN objects, ref : Uids])
      /\ DOMAIN structureReferences' = DOMAIN structureReferences \cup {N}
      /\ N \notin DOMAIN structureReferences
      /\ \A j \in DOMAIN structureReferences :
           structureReferences'[j] = structureReferences[j]
      /\ structureReferences'[N] = r
  <2>1. structureReferences \in Seq([table : DOMAIN objects, ref : Uids])
    BY DEF Entering, TypeOK
  <2>2. r \in [table : DOMAIN objects, ref : Uids]
    BY <1>4, <1>6
  <2> QED
    BY <2>1, <2>2, AppendFacts
<1>8. \A j \in DOMAIN structureReferences : structureReferences[j].table \in DOMAIN objects
  <2>1. structureReferences \in Seq([table : DOMAIN objects, ref : Uids])
    BY DEF Entering, TypeOK
  <2>2. \A j \in DOMAIN structureReferences :
          structureReferences[j] \in [table : DOMAIN objects, ref : Uids]
    BY <2>1, SequenceFacts
  <2> QED
    BY <2>2
<1>9. r.table = openTable /\ r.ref = e.ref
  OBVIOUS
<1> HIDE DEF r
<1>10. OfKind({"Reference"}) \subseteq DOMAIN doc
  BY DEF OfKind, Places
<1>11. TableReferences' = TableReferences \cup {h}
  BY <1>1, <1>10 DEF TableReferences
<1>12. \A j \in DOMAIN structureReferences, n \in TableReferences :
         RefersToStructure(j, n)' <=> RefersToStructure(j, n)
  BY <1>1, <1>7, <1>10 DEF RefersToStructure, TableReferences, Of
<1>13. RefersToStructure(N, h)'
  BY <1>1, <1>4, <1>7, <1>9 DEF RefersToStructure, Of
<1>14. \A j \in DOMAIN structureReferences' : \E n \in TableReferences' : RefersToStructure(j, n)'
  BY <1>2, <1>7, <1>11, <1>12, <1>13
<1>15. \A n \in TableReferences' : \E j \in DOMAIN structureReferences' : RefersToStructure(j, n)'
  BY <1>2, <1>7, <1>11, <1>12, <1>13
<1>16. \A q : Children(q, {"Reference"})' =
                Children(q, {"Reference"}) \cup {n \in {h} : e.kind = "Reference" /\ q = p}
  BY SetsGrow DEF Entering
<1>17. ASSUME NEW t \in DOMAIN objects, objects[t].kind = "Table",
              NEW q, q = objects[t].at
       PROVE  Cardinality(ReferencesOf(t)') = Cardinality(Children(q, {"Reference"})')
  <2>1. Cardinality(ReferencesOf(t)) = Cardinality(Children(q, {"Reference"}))
    BY <1>2, <1>17
  <2>2. /\ IsFiniteSet(Children(q, {"Reference"})) /\ IsFiniteSet(ReferencesOf(t))
        /\ h \notin Children(q, {"Reference"}) /\ N \notin ReferencesOf(t)
    <3>1. ReferencesOf(t) \subseteq DOMAIN structureReferences
      BY DEF ReferencesOf
    <3> QED
      BY <1>1, <1>7, <1>10, <3>1, FinitePlaces, FS_Subset DEF Children, Entering
  <2>3. CASE t = openTable
    <3>1. ReferencesOf(t)' = ReferencesOf(t) \cup {N}
      BY <1>7, <1>9, <2>3 DEF ReferencesOf
    <3>2. q = p
      BY <1>4, <1>17, <2>3
    <3>3. Children(q, {"Reference"})' = Children(q, {"Reference"}) \cup {h}
      BY <1>16, <3>2
    <3>4. /\ Cardinality(ReferencesOf(t) \cup {N}) = Cardinality(ReferencesOf(t)) + 1
          /\ Cardinality(Children(q, {"Reference"}) \cup {h}) =
               Cardinality(Children(q, {"Reference"})) + 1
      BY <2>2, FS_AddElement
    <3> QED
      BY <2>1, <3>1, <3>3, <3>4
  <2>4. CASE t # openTable
    <3>1. ReferencesOf(t)' = ReferencesOf(t)
      BY <1>7, <1>9, <2>4 DEF ReferencesOf
    <3>2. q # p
      BY <1>3, <1>4, <1>17, <2>4
    <3>3. {n \in {h} : e.kind = "Reference" /\ q = p} = {}
      BY <3>2
    <3>4. Children(q, {"Reference"})' = Children(q, {"Reference"})
      BY <1>16, <3>3
    <3> QED
      BY <2>1, <3>1, <3>4
  <2> QED
    BY <2>3, <2>4
<1>18. \A t \in DOMAIN objects : objects[t].kind = "Table" =>
         \A q : q = objects[t].at =>
           Cardinality(ReferencesOf(t)') = Cardinality(Children(q, {"Reference"})')
  BY <1>17
<1>19. (\A t \in DOMAIN objects : objects[t].kind = "Table" =>
         Cardinality(ReferencesOf(t)) = Cardinality(Children(objects[t].at, {"Reference"})))'
  BY <1>18 DEF Children
<1>20. InvTableReferences'
  BY <1>14, <1>15, <1>19 DEF InvTableReferences
<1> QED
  BY <1>4, <1>5, <1>7, <1>9, <1>20

\* The uids, and what is referred to.
LEMMA ReferencesRight ==
  ASSUME NEW e, NEW h, NEW p, Entering(e, h, p),
         uids' = (IF e.uid = None THEN uids ELSE uids \cup {e.uid}),
         e.kind # "Reference" =>
           references' = references /\ thumbnailReferences' = thumbnailReferences,
         e.kind = "Reference" =>
           /\ references' = references \cup {e.ref}
           /\ thumbnailReferences' =
                thumbnailReferences \cup (IF Parent = "Thumbnail" THEN {e.ref} ELSE {})
  PROVE  InvReferences'
<1>1. /\ DOMAIN doc' = DOMAIN doc \cup {h} /\ h \notin DOMAIN doc
      /\ \A n \in DOMAIN doc : doc'[n] = doc[n] /\ KindAbove(n)' = KindAbove(n)
      /\ doc'[h].element = e
      /\ OfKind({"Reference"})' = OfKind({"Reference"}) \cup {n \in {h} : e.kind \in {"Reference"}}
      /\ KindAbove(h)' = Parent
  BY DEF Entering, Grown
<1>2. /\ uids = {Of(n).uid : n \in DOMAIN doc} \ {None}
      /\ references = {Of(n).ref : n \in OfKind({"Reference"})}
      /\ thumbnailReferences =
           {Of(n).ref : n \in {m \in OfKind({"Reference"}) : KindAbove(m) = "Thumbnail"}}
  BY DEF Entering, InvBuilder, InvReferences, Places
<1>3. OfKind({"Reference"}) \subseteq DOMAIN doc
  BY DEF OfKind, Places
<1>4. {Of(n).uid : n \in Places}' = {doc'[n].element.uid : n \in DOMAIN doc'}
  BY DEF Places, Of
<1>5. {doc'[n].element.uid : n \in DOMAIN doc'} = {Of(n).uid : n \in DOMAIN doc} \cup {e.uid}
  BY <1>1 DEF Of
<1>6. uids' = {Of(n).uid : n \in Places}' \ {None}
  BY <1>2, <1>4, <1>5
<1>7. \A n \in DOMAIN doc : Of(n)' = Of(n)
  BY <1>1 DEF Of
<1>8. Of(h)' = e
  BY <1>1 DEF Of
<1>9. CASE e.kind # "Reference"
  <2>1. OfKind({"Reference"})' = OfKind({"Reference"})
    BY <1>1, <1>9
  <2>2. references' = {Of(n).ref : n \in OfKind({"Reference"})}'
    BY <1>2, <1>3, <1>7, <1>9, <2>1
  <2>3. thumbnailReferences' =
          {Of(n).ref : n \in {m \in OfKind({"Reference"}) : KindAbove(m) = "Thumbnail"}}'
    BY <1>1, <1>2, <1>3, <1>7, <1>9, <2>1
  <2> QED
    BY <1>6, <2>2, <2>3 DEF InvReferences
<1>10. CASE e.kind = "Reference"
  <2>1. OfKind({"Reference"})' = OfKind({"Reference"}) \cup {h}
    BY <1>1, <1>10
  <2>2. references' = {Of(n).ref : n \in OfKind({"Reference"})}'
    BY <1>2, <1>3, <1>7, <1>8, <1>10, <2>1
  <2>3. {m \in OfKind({"Reference"}) : KindAbove(m) = "Thumbnail"}' =
          {m \in OfKind({"Reference"}) : KindAbove(m) = "Thumbnail"}
          \cup (IF Parent = "Thumbnail" THEN {h} ELSE {})
    BY <1>1, <1>3, <2>1
  <2>4. thumbnailReferences' =
          {Of(n).ref : n \in {m \in OfKind({"Reference"}) : KindAbove(m) = "Thumbnail"}}'
    BY <1>2, <1>3, <1>7, <1>8, <1>10, <2>3
  <2> QED
    BY <1>6, <2>2, <2>4 DEF InvReferences
<1> QED
  BY <1>9, <1>10

ImagesKept == \A i \in DOMAIN images : i \in DOMAIN images' /\ images'[i] = images[i]

\* Whoever an element is associated with is the Image it is in, or its parent.
LEMMA OwnerFacts ==
  ASSUME TypeOK, InvBuilder, NEW n \in Associating \cup Owned(Attached)
  PROVE  /\ n \in DOMAIN doc /\ OwnerOf(n) \in DOMAIN doc
         /\ KindAbove(n) = "Metadata" => OwnerOf(n) = doc[n].parent
         /\ KindAbove(n) = "Metadata" <=> Of(OwnerOf(n)).kind = "Metadata"
         /\ KindAbove(n) # "Metadata" <=> Of(OwnerOf(n)).kind = "Image"
         /\ Of(n).kind \notin Entries =>
              OwnerOf(n) = doc[n].parent /\ KindAbove(n) \in {"Image", "Metadata"}
<1>1. /\ n \in DOMAIN doc
      /\ \/ Of(n).kind \in Entries /\ (InImage(n) \/ KindAbove(n) = "Metadata")
         \/ Of(n).kind \notin Entries /\ KindAbove(n) \in {"Image", "Metadata"}
  BY DEF Associating, Owned, OfKind, Places, Entries, Attached
<1>2. /\ doc[n].top \in DOMAIN doc
      /\ doc[n].parent # 0 => doc[n].parent \in DOMAIN doc
  BY <1>1, PlaceFacts
<1>3. KindAbove(n) \in {"Image", "Metadata"} =>
        doc[n].parent # 0 /\ KindAbove(n) = Of(doc[n].parent).kind
  BY DEF KindAbove
<1>4. KindAbove(n) = "Metadata" => ~InImage(n)
  <2> HAVE KindAbove(n) = "Metadata"
  <2>1. doc[n].parent \in DOMAIN doc /\ Of(doc[n].parent).kind = "Metadata"
    BY <1>2, <1>3
  <2>2. doc[doc[n].parent].parent = 0
    BY <2>1 DEF InvBuilder, SoundSoFar, InPlace, Places
  <2>3. /\ doc[doc[n].parent].top = doc[n].parent
        /\ doc[n].top = doc[doc[n].parent].top
    BY <1>1, <1>3, <2>1, <2>2 DEF InvBuilder, InvTops, Places
  <2> QED
    BY <2>1, <2>3 DEF InImage
<1>5. CASE Of(n).kind \in Entries /\ InImage(n)
  BY <1>1, <1>2, <1>4, <1>5 DEF OwnerOf, InImage
<1>6. CASE ~(Of(n).kind \in Entries /\ InImage(n))
  <2>1. OwnerOf(n) = doc[n].parent /\ KindAbove(n) \in {"Image", "Metadata"}
    BY <1>1, <1>6 DEF OwnerOf
  <2> QED
    BY <1>1, <1>2, <1>3, <2>1
<1> QED
  BY <1>5, <1>6

\* An event says what it said before the step.
LEMMA EventKept ==
  ASSUME NEW e, NEW h, NEW p, Entering(e, h, p), ObjectsKept, ImagesKept,
         NEW j \in DOMAIN events, j \in DOMAIN events', events'[j] = events[j]
  PROVE  EventOf(j)' /\ events[j].at \in DOMAIN doc
<1>1. /\ \A n \in DOMAIN doc : doc'[n] = doc[n] /\ KindAbove(n)' = KindAbove(n)
  BY DEF Entering, Grown
<1>2. events[j] \in [at : DOMAIN doc, object : 0 .. Len(objects),
                     ref : Uids \cup {None}, image : 0 .. Len(images)]
  <2>1. events \in Seq([at : DOMAIN doc, object : 0 .. Len(objects),
                        ref : Uids \cup {None}, image : 0 .. Len(images)])
    BY DEF Entering, TypeOK
  <2> QED
    BY <2>1, SequenceFacts
<1>3. EventOf(j)
  BY DEF Entering, InvBuilder, InvEvents
<1> PICK n : n = events[j].at
  OBVIOUS
<1>4. /\ n \in DOMAIN doc
      /\ events[j].object # 0 => events[j].object \in DOMAIN objects
      /\ events[j].image # 0 => events[j].image \in DOMAIN images
  <2>1. \E S : objects \in Seq(S)
    BY DEF Entering, TypeOK
  <2>2. \E S : images \in Seq(S)
    BY DEF Entering, TypeOK
  <2>3. /\ DOMAIN objects = 1 .. Len(objects) /\ Len(objects) \in Nat
        /\ DOMAIN images = 1 .. Len(images) /\ Len(images) \in Nat
    BY <2>1, <2>2, SequenceFacts
  <2> QED
    BY <1>2, <2>3
<1>5. /\ IF Of(n).kind = "Reference"
         THEN events[j].object = 0 /\ events[j].ref = Of(n).ref
         ELSE /\ events[j].object # 0 /\ events[j].ref = None
              /\ objects[events[j].object].at = n
      /\ IF KindAbove(n) = "Metadata" THEN events[j].image = 0
         ELSE events[j].image # 0 /\ images[events[j].image] = OwnerOf(n)
  BY <1>3 DEF EventOf
<1>6. doc'[n] = doc[n] /\ KindAbove(n)' = KindAbove(n) /\ OwnerOf(n)' = OwnerOf(n)
  <2>1. InImage(n)' <=> InImage(n)
    BY <1>4 DEF Entering, Grown
  <2> QED
    BY <1>1, <1>4, <2>1 DEF OwnerOf, Of
<1>7. events[j].object # 0 => objects'[events[j].object].at = objects[events[j].object].at
  BY <1>4 DEF ObjectsKept, Alike
<1>8. events[j].image # 0 => images'[events[j].image] = images[events[j].image]
  BY <1>4 DEF ImagesKept
<1>9. /\ IF doc'[n].element.kind = "Reference"
         THEN events'[j].object = 0 /\ events'[j].ref = doc'[n].element.ref
         ELSE /\ events'[j].object # 0 /\ events'[j].ref = None
              /\ objects'[events'[j].object].at = n
      /\ IF KindAbove(n)' = "Metadata" THEN events'[j].image = 0
         ELSE events'[j].image # 0 /\ images'[events'[j].image] = OwnerOf(n)'
  BY <1>5, <1>6, <1>7, <1>8 DEF Of
<1>10. EventOf(j)' <=>
         \E m : /\ m = events'[j].at
                /\ IF doc'[m].element.kind = "Reference"
                   THEN events'[j].object = 0 /\ events'[j].ref = doc'[m].element.ref
                   ELSE /\ events'[j].object # 0 /\ events'[j].ref = None
                        /\ objects'[events'[j].object].at = m
                /\ IF KindAbove(m)' = "Metadata" THEN events'[j].image = 0
                   ELSE events'[j].image # 0 /\ images'[events'[j].image] = OwnerOf(m)'
  BY DEF EventOf, Of
<1> QED
  BY <1>4, <1>9, <1>10

LEMMA EventsStay ==
  ASSUME NEW e, NEW h, NEW p, Entering(e, h, p), ObjectsKept, ImagesKept,
         ~Binds(e), events' = events
  PROVE  InvEvents'
<1>1. {n \in {h} : Binds(e)} = {}
  OBVIOUS
<1>2. Associating' = Associating
  BY <1>1, SetsGrow DEF Entering
<1>3. \A j \in DOMAIN events : EventOf(j)'
  BY EventKept
<1>4. /\ {events[j].at : j \in DOMAIN events} = Associating
      /\ \A i, j \in DOMAIN events : events[i].at = events[j].at => i = j
  BY DEF Entering, InvBuilder, InvEvents
<1> QED
  BY <1>2, <1>3, <1>4 DEF InvEvents

LEMMA EventsNew ==
  ASSUME NEW e, NEW h, NEW p, NEW y, NEW r, Entering(e, h, p), ObjectsKept,
         Binds(e), images' = images,
         DOMAIN objects' = 1 .. Len(objects'), Len(objects') \in Nat,
         Len(objects) <= Len(objects'),
         y \in {0} \cup DOMAIN objects', r \in Uids \cup {None},
         IF e.kind = "Reference" THEN y = 0 /\ r = e.ref
         ELSE y # 0 /\ r = None /\ objects'[y].at = h,
         events' = Append(events, [at |-> h, object |-> y, ref |-> r, image |-> image])
  PROVE  /\ InvEvents'
         /\ events' \in Seq([at : DOMAIN doc', object : 0 .. Len(objects'),
                             ref : Uids \cup {None}, image : 0 .. Len(images)])
<1> DEFINE S == [at : DOMAIN doc, object : 0 .. Len(objects),
                 ref : Uids \cup {None}, image : 0 .. Len(images)]
           T == [at : DOMAIN doc', object : 0 .. Len(objects'),
                 ref : Uids \cup {None}, image : 0 .. Len(images)]
           v == [at |-> h, object |-> y, ref |-> r, image |-> image]
<1> PICK N : N = Len(events) + 1
  OBVIOUS
<1>1. /\ DOMAIN doc' = DOMAIN doc \cup {h} /\ h \notin DOMAIN doc
      /\ doc'[h].element = e /\ doc'[h].parent = p
      /\ KindAbove(h)' = Parent
      /\ Parent = (IF p = 0 THEN "xisf" ELSE Of(p).kind)
  BY DEF Entering, Grown
<1>2. events \in Seq(S)
  BY DEF Entering, TypeOK
<1>3. S \subseteq T
  <2>1. 0 .. Len(objects) \subseteq 0 .. Len(objects')
    <3>1. \E R : objects \in Seq(R)
      BY DEF Entering, TypeOK
    <3>2. Len(objects) \in Nat
      BY <3>1, SequenceFacts
    <3> QED
      BY <3>2
  <2> QED
    BY <1>1, <2>1
<1>4. v \in T
  <2>1. image \in 0 .. Len(images)
    BY DEF Entering, TypeOK
  <2> QED
    BY <1>1, <2>1
<1>5. v.at = h /\ v.object = y /\ v.ref = r /\ v.image = image
  OBVIOUS
<1> HIDE DEF S, T, v
<1>6. /\ events' \in Seq(T)
      /\ DOMAIN events' = DOMAIN events \cup {N}
      /\ \A j \in DOMAIN events : events'[j] = events[j]
      /\ events'[N] = v
  <2>1. events \in Seq(T)
    BY <1>2, <1>3, WiderSequence
  <2>2. events' = Append(events, v)
    BY DEF v
  <2> QED
    BY <1>4, <2>1, <2>2, AppendFacts
<1>7. {n \in {h} : Binds(e)} = {h}
  OBVIOUS
<1>8. Associating' = Associating \cup {h}
  BY <1>7, SetsGrow DEF Entering
<1>9. ImagesKept
  BY DEF ImagesKept
<1>10. \A j \in DOMAIN events : EventOf(j)' /\ events[j].at \in DOMAIN doc
  BY <1>6, <1>9, EventKept
<1>11. EventOf(N)'
  <2>1. /\ p # 0 => p = stack[Len(stack)]
        /\ doc'[h].top = (IF stack = << >> THEN h ELSE stack[1])
        /\ stack = << >> => p = 0
    BY DEF Entering, Grown
  <2>2. /\ Parent = "Metadata" => image = 0 /\ Len(stack) = 1
        /\ Parent = "Image" => image # 0 /\ Len(stack) = 1
        /\ image # 0 => images[image] = stack[1] /\ stack # << >>
    BY StackFacts DEF Entering
  <2>3. e.kind \in Entries => (InImage(h)' <=> image # 0)
    <3>1. image # 0 <=> stack # << >> /\ Of(stack[1]).kind = "Image"
      BY StackFacts DEF Entering
    <3> QED
      BY <3>1 DEF Entering, Grown, Entries
  <2>9. OwnerOf(h)' = IF e.kind \in Entries /\ InImage(h)' THEN doc'[h].top ELSE p
    BY <1>1 DEF OwnerOf, Of
  <2>4. Parent # "Metadata" => image # 0 /\ images[image] = OwnerOf(h)'
    <3> HAVE Parent # "Metadata"
    <3>1. CASE e.kind \in Entries
      BY <2>1, <2>2, <2>3, <2>9, <3>1 DEF Binds, Entries
    <3>2. CASE e.kind \notin Entries
      <4>1. Parent = "Image"
        BY <3>2 DEF Binds
      <4> QED
        BY <1>1, <2>1, <2>2, <2>9, <3>2, <4>1
    <3> QED
      BY <3>1, <3>2
  <2>5. EventOf(N)' <=>
         \E m : /\ m = events'[N].at
                /\ IF doc'[m].element.kind = "Reference"
                   THEN events'[N].object = 0 /\ events'[N].ref = doc'[m].element.ref
                   ELSE /\ events'[N].object # 0 /\ events'[N].ref = None
                        /\ objects'[events'[N].object].at = m
                /\ IF KindAbove(m)' = "Metadata" THEN events'[N].image = 0
                   ELSE events'[N].image # 0 /\ images'[events'[N].image] = OwnerOf(m)'
    BY DEF EventOf, Of
  <2>6. /\ events'[N].at = h /\ events'[N].object = y
        /\ events'[N].ref = r /\ events'[N].image = image
    BY <1>5, <1>6
  <2>7. IF doc'[h].element.kind = "Reference"
        THEN events'[N].object = 0 /\ events'[N].ref = doc'[h].element.ref
        ELSE /\ events'[N].object # 0 /\ events'[N].ref = None
             /\ objects'[events'[N].object].at = h
    BY <1>1, <2>6
  <2>8. IF KindAbove(h)' = "Metadata" THEN events'[N].image = 0
        ELSE events'[N].image # 0 /\ images'[events'[N].image] = OwnerOf(h)'
    BY <1>1, <2>2, <2>4, <2>6
  <2> QED
    BY <2>5, <2>6, <2>7, <2>8
<1>12. /\ {events[j].at : j \in DOMAIN events} = Associating
       /\ \A i, j \in DOMAIN events : events[i].at = events[j].at => i = j
  BY DEF Entering, InvBuilder, InvEvents
<1>13. {events'[j].at : j \in DOMAIN events'} = {events[j].at : j \in DOMAIN events} \cup {h}
  BY <1>5, <1>6
<1>14. \A i, j \in DOMAIN events' : events'[i].at = events'[j].at => i = j
  BY <1>1, <1>5, <1>6, <1>10, <1>12
<1>15. \A j \in DOMAIN events' : EventOf(j)'
  BY <1>6, <1>10, <1>11
<1>16. InvEvents'
  BY <1>8, <1>12, <1>13, <1>14, <1>15 DEF InvEvents
<1> QED
  BY <1>6, <1>16 DEF T

\* The attached elements inside of images.
LEMMA OwnFacts ==
  ASSUME TypeOK, InvBuilder
  PROVE  \A j \in DOMAIN own :
           /\ own[j].at \in DOMAIN doc /\ own[j].object \in DOMAIN objects
           /\ own[j].image \in DOMAIN images
           /\ objects[own[j].object].at = own[j].at
           /\ images[own[j].image] = doc[own[j].at].parent
<1>1. own \in Seq([at : DOMAIN doc, object : DOMAIN objects, image : DOMAIN images])
  BY DEF TypeOK
<1>2. \A j \in DOMAIN own :
        own[j] \in [at : DOMAIN doc, object : DOMAIN objects, image : DOMAIN images]
  BY <1>1, SequenceFacts
<1> QED
  BY <1>2 DEF InvBuilder, InvOwn

LEMMA OwnStays ==
  ASSUME NEW e, NEW h, NEW p, Entering(e, h, p), ObjectsKept, ImagesKept,
         ~(e.kind \in Attached /\ image # 0), own' = own
  PROVE  InvOwn'
<1>1. \A n \in DOMAIN doc : doc'[n] = doc[n]
  BY DEF Entering, Grown
<1>2. \A j \in DOMAIN own :
           /\ own[j].at \in DOMAIN doc /\ own[j].object \in DOMAIN objects
           /\ own[j].image \in DOMAIN images
           /\ objects[own[j].object].at = own[j].at
           /\ images[own[j].image] = doc[own[j].at].parent
  BY OwnFacts DEF Entering
<1>3. ~(e.kind \in Attached /\ Parent = "Image")
  BY StackFacts DEF Entering
<1>4. {n \in {h} : e.kind \in Attached /\ Parent = "Image"} = {}
  BY <1>3
<1>5. Owned(Attached)' = Owned(Attached)
  <2>1. Owned(Attached)' =
          Owned(Attached) \cup {n \in {h} : e.kind \in Attached /\ Parent = "Image"}
    BY SetsGrow DEF Entering
  <2> QED
    BY <1>4, <2>1
<1>6. /\ {own[j].at : j \in DOMAIN own} = Owned(Attached)
      /\ \A i, j \in DOMAIN own : own[i].at = own[j].at => i = j
  BY DEF Entering, InvBuilder, InvOwn
<1>7. \A j \in DOMAIN own :
        /\ objects'[own[j].object].at = own[j].at
        /\ images'[own[j].image] = doc'[own[j].at].parent
  BY <1>1, <1>2 DEF ObjectsKept, ImagesKept, Alike
<1> QED
  BY <1>5, <1>6, <1>7 DEF InvOwn

LEMMA OwnNew ==
  ASSUME NEW e, NEW h, NEW p, NEW x, Entering(e, h, p), ObjectsGrown(e, h, p, x),
         e.kind \in Attached, image # 0, images' = images,
         own' = Append(own, [at |-> h, object |-> x, image |-> image])
  PROVE  /\ InvOwn'
         /\ own' \in Seq([at : DOMAIN doc', object : DOMAIN objects', image : DOMAIN images])
<1> DEFINE S == [at : DOMAIN doc, object : DOMAIN objects, image : DOMAIN images]
           T == [at : DOMAIN doc', object : DOMAIN objects', image : DOMAIN images]
           v == [at |-> h, object |-> x, image |-> image]
<1> PICK N : N = Len(own) + 1
  OBVIOUS
<1>1. /\ DOMAIN doc' = DOMAIN doc \cup {h} /\ h \notin DOMAIN doc
      /\ \A n \in DOMAIN doc : doc'[n] = doc[n]
      /\ doc'[h].parent = p
      /\ Parent = (IF p = 0 THEN "xisf" ELSE Of(p).kind)
  BY DEF Entering, Grown
<1>2. /\ DOMAIN objects' = DOMAIN objects \cup {x} /\ objects'[x].at = h
      /\ \A o \in DOMAIN objects : objects'[o].at = objects[o].at
  BY DEF ObjectsGrown, ObjectsKept, Alike
<1>3. own \in Seq(S) /\ S \subseteq T
  BY <1>1, <1>2 DEF Entering, TypeOK
<1>4. Parent = "Image" /\ image \in DOMAIN images /\ images[image] = p
  <2>1. Len(stack) = 1 /\ Parent = "Image"
    BY StackFacts DEF Entering, WellFormed, WellPlaced
  <2>2. image \in DOMAIN images /\ images[image] = stack[1]
    BY StackFacts DEF Entering
  <2>3. p = stack[1]
    BY <2>1, StackFacts DEF Entering
  <2> QED
    BY <2>1, <2>2, <2>3
<1>5. v \in T
  BY <1>1, <1>2, <1>4
<1>6. v.at = h /\ v.object = x /\ v.image = image
  OBVIOUS
<1> HIDE DEF S, T, v
<1>7. /\ own' \in Seq(T)
      /\ DOMAIN own' = DOMAIN own \cup {N}
      /\ \A j \in DOMAIN own : own'[j] = own[j]
      /\ own'[N] = v
  <2>1. own \in Seq(T)
    BY <1>3, WiderSequence
  <2>2. own' = Append(own, v)
    BY DEF v
  <2> QED
    BY <1>5, <2>1, <2>2, AppendFacts
<1>8. {n \in {h} : e.kind \in Attached /\ Parent = "Image"} = {h}
  BY <1>4
<1>9. Owned(Attached)' = Owned(Attached) \cup {h}
  BY <1>8, SetsGrow DEF Entering
<1>10. \A j \in DOMAIN own :
           /\ own[j].at \in DOMAIN doc /\ own[j].object \in DOMAIN objects
           /\ own[j].image \in DOMAIN images
           /\ objects[own[j].object].at = own[j].at
           /\ images[own[j].image] = doc[own[j].at].parent
  BY OwnFacts DEF Entering
<1>11. /\ {own[j].at : j \in DOMAIN own} = Owned(Attached)
       /\ \A i, j \in DOMAIN own : own[i].at = own[j].at => i = j
  BY DEF Entering, InvBuilder, InvOwn
<1>12. {own'[j].at : j \in DOMAIN own'} = {own[j].at : j \in DOMAIN own} \cup {h}
  BY <1>6, <1>7
<1>13. \A i, j \in DOMAIN own' : own'[i].at = own'[j].at => i = j
  BY <1>1, <1>6, <1>7, <1>10, <1>11
<1>14. \A j \in DOMAIN own :
         /\ objects'[own'[j].object].at = own'[j].at
         /\ images'[own'[j].image] = doc'[own'[j].at].parent
  BY <1>1, <1>2, <1>7, <1>10
<1>15. /\ objects'[own'[N].object].at = own'[N].at
       /\ images'[own'[N].image] = doc'[own'[N].at].parent
  BY <1>1, <1>2, <1>4, <1>6, <1>7
<1>16. InvOwn'
  BY <1>7, <1>9, <1>11, <1>12, <1>13, <1>14, <1>15 DEF InvOwn
<1> QED
  BY <1>7, <1>16 DEF T

-----------------------------------------------------------------------------
(* The types, part by part.                                                   *)

TypeTree ==
  /\ doc \in Seq([element : Vocabulary, parent : Nat, top : Nat])
  /\ \A n \in DOMAIN doc : doc[n].parent \in 0 .. n - 1 /\ doc[n].top \in 1 .. n
  /\ stack \in Seq(DOMAIN doc)
TypeStatus == status \in {"parsing", "refused", "malformed", "invalid", "accepted"}
TypeImages ==
  /\ images \in Seq(DOMAIN doc)
  /\ image \in 0 .. Len(images)
  /\ image # 0 => stack # << >> /\ stack[1] = images[image]
TypeObjects ==
  /\ objects \in Seq(Object)
  /\ \A o \in DOMAIN objects :
       /\ objects[o].at \in DOMAIN doc
       /\ objects[o].structure # 0 =>
            /\ objects[o].kind = "Table" /\ objects[o].structure \in DOMAIN objects
            /\ objects[objects[o].structure].kind = "Structure"
TypeOpenTable ==
  openTable # 0 =>
    /\ openTable \in DOMAIN objects
    /\ \E k \in DOMAIN stack : stack[k] = objects[openTable].at
TypeReferences ==
  /\ uids \subseteq Uids /\ references \subseteq Uids
  /\ thumbnailReferences \subseteq references
TypeTableReferences ==
  /\ structureReferences \in Seq([table : DOMAIN objects, ref : Uids])
  /\ \A j \in DOMAIN structureReferences :
       objects[structureReferences[j].table].kind = "Table"
TypeEvents ==
  events \in Seq([at : DOMAIN doc, object : 0 .. Len(objects),
                  ref : Uids \cup {None}, image : 0 .. Len(images)])
TypeOwn ==
  own \in Seq([at : DOMAIN doc, object : DOMAIN objects, image : DOMAIN images])
TypeBindings == bindings \subseteq Binding

LEMMA TypeParts ==
  TypeOK <=> /\ TypeTree /\ TypeStatus /\ TypeImages /\ TypeObjects /\ TypeOpenTable
             /\ TypeReferences /\ TypeTableReferences /\ TypeEvents /\ TypeOwn
             /\ TypeBindings
BY DEF TypeOK, TypeTree, TypeStatus, TypeImages, TypeObjects, TypeOpenTable,
       TypeReferences, TypeTableReferences, TypeEvents, TypeOwn, TypeBindings

LEMMA TypeOKAfter ==
  ASSUME TypeTree', TypeStatus', TypeImages', TypeObjects', TypeOpenTable',
         TypeReferences', TypeTableReferences', TypeEvents', TypeOwn', TypeBindings'
  PROVE  TypeOK'
BY DEF TypeOK, TypeTree, TypeStatus, TypeImages, TypeObjects, TypeOpenTable,
       TypeReferences, TypeTableReferences, TypeEvents, TypeOwn, TypeBindings

LEMMA TreeTyped ==
  ASSUME NEW e, NEW h, NEW p, Entering(e, h, p), Push(e)
  PROVE  TypeTree'
<1> DEFINE t == IF stack = << >> THEN h ELSE stack[1]
           r == [element |-> e, parent |-> p, top |-> t]
           R == [element : Vocabulary, parent : Nat, top : Nat]
<1>1. doc' = Append(doc, r) /\ h = Len(doc) + 1
  BY DEF Entering, Push, Here
<1>2. doc \in Seq(R) /\ DOMAIN doc = 1 .. Len(doc) /\ Len(doc) \in Nat
  BY SequenceFacts DEF Entering, TypeOK
<1>10. t \in 1 .. h
  <2>1. stack # << >> => stack[1] \in DOMAIN doc
    BY DEF Entering, TypeOK
  <2> QED
    BY <1>1, <1>2, <2>1
<1>3. r \in R /\ p \in 0 .. Len(doc) /\ r.top = t
  BY <1>1, <1>2, <1>10 DEF Entering, Grown
<1> HIDE DEF r, R, t
<1>4. doc' \in Seq(R)
  BY <1>1, <1>2, <1>3, AppendFacts
<1>5. /\ DOMAIN doc' = DOMAIN doc \cup {h}
      /\ \A n \in DOMAIN doc : doc'[n] = doc[n]
      /\ doc'[h].parent = p /\ doc'[h].top = t
  BY DEF Entering, Grown, t
<1>6. \A n \in DOMAIN doc : doc[n].parent \in 0 .. n - 1 /\ doc[n].top \in 1 .. n
  BY DEF Entering, TypeOK
<1>7. p \in 0 .. h - 1
  BY <1>1, <1>2, <1>3
<1>8. \A n \in DOMAIN doc' : doc'[n].parent \in 0 .. n - 1 /\ doc'[n].top \in 1 .. n
  BY <1>5, <1>6, <1>7, <1>10
<1>9. stack' \in Seq(DOMAIN doc')
  BY StackGrows DEF Entering, InvBuilder
<1> QED
  BY <1>4, <1>8, <1>9 DEF TypeTree, R

\* What a step leaves alone keeps its type: objects and images only grow.
LEMMA RestTyped ==
  ASSUME NEW e, NEW h, NEW p, Entering(e, h, p), ObjectsKept,
         0 .. Len(objects) \subseteq 0 .. Len(objects'),
         0 .. Len(images) \subseteq 0 .. Len(images'),
         DOMAIN images \subseteq DOMAIN images'
  PROVE  /\ status' = status => TypeStatus'
         /\ images' = images /\ image' = image => TypeImages'
         /\ objects' = objects => TypeObjects'
         /\ openTable' = openTable => TypeOpenTable'
         /\ structureReferences' = structureReferences => TypeTableReferences'
         /\ events' = events => TypeEvents'
         /\ own' = own => TypeOwn'
         /\ bindings' = bindings => TypeBindings'
<1>1. DOMAIN doc \subseteq DOMAIN doc' /\ DOMAIN objects \subseteq DOMAIN objects'
  BY DEF Entering, Grown, ObjectsKept
<1>2. /\ TypeTree /\ TypeStatus /\ TypeImages /\ TypeObjects /\ TypeOpenTable
      /\ TypeReferences /\ TypeTableReferences /\ TypeEvents /\ TypeOwn
      /\ TypeBindings
  BY TypeParts DEF Entering
<1>3. status' = status => TypeStatus'
  BY <1>2 DEF TypeStatus
<1>4. images' = images /\ image' = image => TypeImages'
  <2> HAVE images' = images /\ image' = image
  <2>1. images \in Seq(DOMAIN doc')
    BY <1>1, <1>2, WiderSequence DEF TypeImages
  <2>2. image # 0 => stack' # << >> /\ stack'[1] = stack[1]
    BY <1>2, StackGrows DEF TypeImages, Entering, InvBuilder
  <2> QED
    BY <1>2, <2>1, <2>2 DEF TypeImages
<1>5. objects' = objects => TypeObjects'
  BY <1>1, <1>2 DEF TypeObjects
<1>6. openTable' = openTable => TypeOpenTable'
  <2>1. /\ DOMAIN stack \subseteq DOMAIN stack'
        /\ \A k \in DOMAIN stack : stack'[k] = stack[k]
    BY StackGrows DEF Entering, InvBuilder
  <2> QED
    BY <1>1, <1>2, <2>1 DEF TypeOpenTable, ObjectsKept, Alike
<1>7. structureReferences' = structureReferences => TypeTableReferences'
  <2>1. [table : DOMAIN objects, ref : Uids] \subseteq [table : DOMAIN objects', ref : Uids]
    BY <1>1
  <2>2. structureReferences \in Seq([table : DOMAIN objects', ref : Uids])
    BY <1>2, <2>1, WiderSequence DEF TypeTableReferences
  <2>3. \A j \in DOMAIN structureReferences : structureReferences[j].table \in DOMAIN objects
    <3>1. \A j \in DOMAIN structureReferences :
            structureReferences[j] \in [table : DOMAIN objects, ref : Uids]
      BY <1>2, SequenceFacts DEF TypeTableReferences
    <3> QED
      BY <3>1
  <2> QED
    BY <1>2, <2>2, <2>3 DEF TypeTableReferences, ObjectsKept, Alike
<1>8. events' = events => TypeEvents'
  <2>1. [at : DOMAIN doc, object : 0 .. Len(objects),
         ref : Uids \cup {None}, image : 0 .. Len(images)] \subseteq
        [at : DOMAIN doc', object : 0 .. Len(objects'),
         ref : Uids \cup {None}, image : 0 .. Len(images')]
    BY <1>1
  <2> QED
    BY <1>2, <2>1, WiderSequence DEF TypeEvents
<1>9. own' = own => TypeOwn'
  <2>1. [at : DOMAIN doc, object : DOMAIN objects, image : DOMAIN images] \subseteq
        [at : DOMAIN doc', object : DOMAIN objects', image : DOMAIN images']
    BY <1>1
  <2> QED
    BY <1>2, <2>1, WiderSequence DEF TypeOwn
<1>10. bindings' = bindings => TypeBindings'
  <2>1. Binding \subseteq [object : DOMAIN objects', image : 0 .. Len(images'), via : DOMAIN doc']
    BY <1>1 DEF Binding
  <2> QED
    BY <1>2, <2>1 DEF TypeBindings, Binding
<1> QED
  BY <1>3, <1>4, <1>5, <1>6, <1>7, <1>8, <1>9, <1>10

\* The objects b are those before, but for structures that are there or are e at x.
StructuresFit(b, e, x) ==
  \A o \in DOMAIN objects :
      /\ Alike(b[o], objects[o])
      /\ b[o].structure # 0 =>
           /\ b[o].kind = "Table"
           /\ \/ b[o].structure = x /\ e.kind = "Structure"
              \/ /\ b[o].structure \in DOMAIN objects
                 /\ objects[b[o].structure].kind = "Structure"

\* The object of e is pushed, after objects have become b.
LEMMA ObjectPushed ==
  ASSUME NEW e, NEW h, NEW p, NEW x, NEW b \in Seq(Object), Entering(e, h, p),
         e.kind # "Reference",
         x = Len(objects) + 1, Len(b) = Len(objects),
         objects' = Append(b, ObjectOf(e)),
         StructuresFit(b, e, x)
  PROVE  /\ ObjectsGrown(e, h, p, x) /\ TypeObjects'
         /\ DOMAIN objects' = 1 .. Len(objects') /\ Len(objects') \in Nat
         /\ Len(objects) <= Len(objects')
         /\ 0 .. Len(objects) \subseteq 0 .. Len(objects')
         /\ \A o \in DOMAIN objects : objects'[o].structure = b[o].structure
<1> DEFINE r == ObjectOf(e)
<1> USE DEF StructuresFit
<1>1. /\ r.at = h /\ r.kind = e.kind /\ r.uid = e.uid /\ r.name = e.name
      /\ r.size = e.size /\ r.structure = 0 /\ (r.standalone <=> stack = << >>)
  BY DEF ObjectOf, Entering
<1>2. r \in Object
  <2>1. e \in Element
    BY ElementFacts DEF Entering
  <2>2. h \in Nat
    BY DEF Entering, Grown
  <2> QED
    BY <2>1, <2>2 DEF ObjectOf, Object, Entering, Element
<1>3. p = 0 <=> stack = << >>
  <2>1. stack # << >> => Len(stack) \in DOMAIN stack
    <3>1. stack \in Seq(DOMAIN doc)
      BY DEF Entering, TypeOK
    <3> QED
      BY <3>1
  <2>2. \A k \in DOMAIN stack : stack[k] \in DOMAIN doc
    BY SequenceFacts DEF Entering, TypeOK
  <2>3. 0 \notin DOMAIN doc
    BY PlaceFacts DEF Entering
  <2> QED
    BY <2>1, <2>2, <2>3 DEF Entering
<1>4. \E S : objects \in Seq(S)
  BY DEF Entering, TypeOK
<1>5. DOMAIN objects = 1 .. Len(objects) /\ Len(objects) \in Nat /\ DOMAIN b = 1 .. Len(b)
  BY <1>4, SequenceFacts
<1>6. objects' = Append(b, r)
  OBVIOUS
<1> HIDE DEF r
<1>7. /\ objects' \in Seq(Object) /\ Len(objects') = Len(objects) + 1
      /\ DOMAIN objects' = DOMAIN objects \cup {x} /\ x \notin DOMAIN objects
      /\ \A o \in DOMAIN objects : objects'[o] = b[o]
      /\ objects'[x] = r
  BY <1>2, <1>5, <1>6, AppendFacts
<1>8. x # 0
  BY <1>5
<1>9. ObjectsGrown(e, h, p, x)
  BY <1>1, <1>3, <1>7, <1>8 DEF ObjectsGrown, ObjectsKept
<1>10. ASSUME NEW o \in DOMAIN objects'
       PROVE  /\ objects'[o].at \in DOMAIN doc'
              /\ objects'[o].structure # 0 =>
                   /\ objects'[o].kind = "Table" /\ objects'[o].structure \in DOMAIN objects'
                   /\ objects'[objects'[o].structure].kind = "Structure"
  <2>1. DOMAIN doc' = DOMAIN doc \cup {h}
    BY DEF Entering, Grown
  <2>2. \A q \in DOMAIN objects : objects[q].at \in DOMAIN doc
    BY DEF Entering, TypeOK
  <2>3. CASE o = x
    BY <1>1, <1>7, <2>1, <2>3
  <2>4. CASE o # x
    <3>1. o \in DOMAIN objects /\ objects'[o] = b[o]
      BY <1>7, <2>4
    <3>2. objects'[o].at \in DOMAIN doc'
      BY <2>1, <2>2, <3>1 DEF Alike
    <3>3. ASSUME objects'[o].structure # 0
          PROVE  /\ objects'[o].kind = "Table" /\ objects'[o].structure \in DOMAIN objects'
                 /\ objects'[objects'[o].structure].kind = "Structure"
      <4>1. CASE b[o].structure = x /\ e.kind = "Structure"
        BY <1>1, <1>7, <3>1, <3>3, <4>1
      <4>2. CASE b[o].structure \in DOMAIN objects /\ objects[b[o].structure].kind = "Structure"
        <5>1. objects'[b[o].structure].kind = objects[b[o].structure].kind
          BY <1>7, <4>2 DEF Alike
        <5> QED
          BY <1>7, <3>1, <3>3, <4>2, <5>1
      <4> QED
        BY <3>1, <3>3, <4>1, <4>2
    <3> QED
      BY <3>2, <3>3
  <2> QED
    BY <2>3, <2>4
<1>11. TypeObjects'
  BY <1>7, <1>10 DEF TypeObjects
<1>12. /\ DOMAIN objects' = 1 .. Len(objects') /\ Len(objects') \in Nat
       /\ Len(objects) <= Len(objects')
       /\ 0 .. Len(objects) \subseteq 0 .. Len(objects')
  BY <1>5, <1>7
<1> QED
  BY <1>7, <1>9, <1>11, <1>12

\* The ordinary case: the objects before stay as they are.
LEMMA ObjectAppended ==
  ASSUME NEW e, NEW h, NEW p, NEW x, Entering(e, h, p), e.kind # "Reference",
         x = Len(objects) + 1, objects' = Append(objects, ObjectOf(e))
  PROVE  /\ ObjectsGrown(e, h, p, x) /\ TypeObjects'
         /\ DOMAIN objects' = 1 .. Len(objects') /\ Len(objects') \in Nat
         /\ Len(objects) <= Len(objects')
         /\ 0 .. Len(objects) \subseteq 0 .. Len(objects')
         /\ \A o \in DOMAIN objects : objects'[o].structure = objects[o].structure
<1> PICK b : b = objects
  OBVIOUS
<1>1. b \in Seq(Object)
  BY DEF Entering, TypeOK
<1>2. StructuresFit(b, e, x)
  BY DEF Entering, TypeOK, Alike, StructuresFit
<1> QED
  BY <1>1, <1>2, ObjectPushed

-----------------------------------------------------------------------------
(* Each start tag.                                                            *)

LEMMA EnterFacts ==
  ASSUME TypeOK, InvBuilder, NEW e \in Vocabulary, Enter(e)
  PROVE  \E h, p :
           /\ Entering(e, h, p)
           /\ InvStack' /\ InvTops' /\ SoundSoFar' /\ TypeTree'
           /\ uids' = (IF e.uid = None THEN uids ELSE uids \cup {e.uid})
           /\ uids' \subseteq Uids
<1>1. PICK h, p : /\ Grown(e, h, p) /\ h = Here
                  /\ p = IF stack = << >> THEN 0 ELSE stack[Len(stack)]
  BY PushGrows DEF Enter
<1>2. Entering(e, h, p)
  BY <1>1 DEF Entering, Enter, Push
<1>3. InvStack' /\ InvTops'
  BY <1>2, StackGrows DEF Entering, InvBuilder
<1>4. SoundSoFar'
  BY <1>1, SoundGrows DEF Enter
<1>5. TypeTree'
  BY <1>2, TreeTyped DEF Enter
<1>6. e.uid \in Uids \cup {None} /\ uids \subseteq Uids
  BY ElementFacts DEF TypeOK
<1> QED
  BY <1>2, <1>3, <1>4, <1>5, <1>6 DEF Enter

LEMMA StartImageKeeps ==
  ASSUME TypeOK, InvBuilder, NEW e \in Vocabulary, StartImage(e)
  PROVE  TypeOK' /\ InvBuilder'
<1> USE DEF StartImage
<1>1. PICK h, p :
        /\ Entering(e, h, p)
        /\ InvStack' /\ InvTops' /\ SoundSoFar' /\ TypeTree'
        /\ uids' = (IF e.uid = None THEN uids ELSE uids \cup {e.uid})
        /\ uids' \subseteq Uids
  BY EnterFacts
<1>2. e.kind = "Image" /\ objects' = objects /\ h = Here
  BY <1>1 DEF Entering
<1>3. e.kind \notin Attached \cup Entries \cup {"Structure", "Reference", "Table"} /\ ~Binds(e)
  BY <1>2 DEF Attached, Entries, Binds
<1>4. InvObjects' /\ ObjectsKept
  BY <1>1, <1>2, <1>3, ObjectsStay
<1>5. /\ InvImages' /\ images' \in Seq(DOMAIN doc')
      /\ Len(images') = Len(images) + 1 /\ Len(images) \in Nat
      /\ DOMAIN images \subseteq DOMAIN images'
      /\ \A i \in DOMAIN images : images'[i] = images[i]
      /\ stack' # << >> /\ stack'[1] = images'[image']
  BY <1>1, <1>2, ImagesGrow
<1>6. ImagesKept /\ 0 .. Len(images) \subseteq 0 .. Len(images')
  BY <1>5 DEF ImagesKept
<1>7. TypeImages'
  BY <1>5 DEF TypeImages
<1>8. /\ TypeStatus' /\ TypeObjects' /\ TypeOpenTable' /\ TypeTableReferences'
      /\ TypeEvents' /\ TypeOwn' /\ TypeBindings'
  BY <1>1, <1>4, <1>5, <1>6, RestTyped DEF Enter
<1>9. TypeReferences'
  BY <1>1 DEF TypeReferences, TypeOK
<1>10. TypeOK'
  BY <1>1, <1>7, <1>8, <1>9, TypeOKAfter
<1>11. InvOpenTable'
  BY <1>1, <1>3, <1>4, OpenTableStays
<1>12. InvInside'
  BY <1>1, <1>4, InsideStays
<1>13. InvTableReferences'
  BY <1>1, <1>2, <1>4, TableReferencesStay
<1>14. InvReferences'
  BY <1>1, <1>2, ReferencesRight
<1>15. InvEvents'
  BY <1>1, <1>3, <1>4, <1>6, EventsStay
<1>16. InvOwn'
  BY <1>1, <1>3, <1>4, <1>6, OwnStays
<1> QED
  BY <1>1, <1>4, <1>5, <1>10, <1>11, <1>12, <1>13, <1>14, <1>15, <1>16 DEF InvBuilder

LEMMA StartMetadataKeeps ==
  ASSUME TypeOK, InvBuilder, NEW e \in Vocabulary, StartMetadata(e)
  PROVE  TypeOK' /\ InvBuilder'
<1> USE DEF StartMetadata
<1>1. PICK h, p :
        /\ Entering(e, h, p)
        /\ InvStack' /\ InvTops' /\ SoundSoFar' /\ TypeTree'
        /\ uids' = (IF e.uid = None THEN uids ELSE uids \cup {e.uid})
        /\ uids' \subseteq Uids
  BY EnterFacts
<1>2. e.kind = "Metadata" /\ objects' = objects
  OBVIOUS
<1>3. e.kind \notin Attached \cup Entries \cup {"Structure", "Reference", "Table", "Image"}
      /\ ~Binds(e)
  BY <1>2 DEF Attached, Entries, Binds
<1>4. InvObjects' /\ ObjectsKept
  BY <1>1, <1>2, <1>3, ObjectsStay
<1>5. InvImages' /\ ImagesKept
  BY <1>1, <1>3, ImagesStay DEF ImagesKept
<1>6. /\ TypeStatus' /\ TypeImages' /\ TypeObjects' /\ TypeOpenTable'
      /\ TypeTableReferences' /\ TypeEvents' /\ TypeOwn' /\ TypeBindings'
  BY <1>1, <1>4, RestTyped DEF Enter
<1>7. TypeReferences'
  BY <1>1 DEF TypeReferences, TypeOK
<1>8. TypeOK'
  BY <1>1, <1>6, <1>7, TypeOKAfter
<1>9. InvOpenTable'
  BY <1>1, <1>3, <1>4, OpenTableStays
<1>10. InvInside'
  BY <1>1, <1>4, InsideStays
<1>11. InvTableReferences'
  BY <1>1, <1>2, <1>4, TableReferencesStay
<1>12. InvReferences'
  BY <1>1, <1>2, ReferencesRight
<1>13. InvEvents'
  BY <1>1, <1>3, <1>4, <1>5, EventsStay
<1>14. InvOwn'
  BY <1>1, <1>3, <1>4, <1>5, OwnStays
<1> QED
  BY <1>1, <1>4, <1>5, <1>8, <1>9, <1>10, <1>11, <1>12, <1>13, <1>14 DEF InvBuilder

LEMMA StartNestedKeeps ==
  ASSUME TypeOK, InvBuilder, NEW e \in Vocabulary, StartNested(e)
  PROVE  TypeOK' /\ InvBuilder'
<1> USE DEF StartNested
<1>1. PICK h, p :
        /\ Entering(e, h, p)
        /\ InvStack' /\ InvTops' /\ SoundSoFar' /\ TypeTree'
        /\ uids' = (IF e.uid = None THEN uids ELSE uids \cup {e.uid})
        /\ uids' \subseteq Uids
  BY EnterFacts
<1>2. e.kind = "xisf" /\ objects' = objects
  OBVIOUS
<1>3. e.kind \notin Attached \cup Entries \cup {"Structure", "Reference", "Table", "Image"}
      /\ ~Binds(e)
  BY <1>2 DEF Attached, Entries, Binds
<1>4. InvObjects' /\ ObjectsKept
  BY <1>1, <1>2, <1>3, ObjectsStay
<1>5. InvImages' /\ ImagesKept
  BY <1>1, <1>3, ImagesStay DEF ImagesKept
<1>6. /\ TypeStatus' /\ TypeImages' /\ TypeObjects' /\ TypeOpenTable'
      /\ TypeTableReferences' /\ TypeEvents' /\ TypeOwn' /\ TypeBindings'
  BY <1>1, <1>4, RestTyped DEF Enter
<1>7. TypeReferences'
  BY <1>1 DEF TypeReferences, TypeOK
<1>8. TypeOK'
  BY <1>1, <1>6, <1>7, TypeOKAfter
<1>9. InvOpenTable'
  BY <1>1, <1>3, <1>4, OpenTableStays
<1>10. InvInside'
  BY <1>1, <1>4, InsideStays
<1>11. InvTableReferences'
  BY <1>1, <1>2, <1>4, TableReferencesStay
<1>12. InvReferences'
  BY <1>1, <1>2, ReferencesRight
<1>13. InvEvents'
  BY <1>1, <1>3, <1>4, <1>5, EventsStay
<1>14. InvOwn'
  BY <1>1, <1>3, <1>4, <1>5, OwnStays
<1> QED
  BY <1>1, <1>4, <1>5, <1>8, <1>9, <1>10, <1>11, <1>12, <1>13, <1>14 DEF InvBuilder

LEMMA StartEntryKeeps ==
  ASSUME TypeOK, InvBuilder, NEW e \in Vocabulary, StartEntry(e)
  PROVE  TypeOK' /\ InvBuilder'
<1> USE DEF StartEntry
<1>1. PICK h, p :
        /\ Entering(e, h, p)
        /\ InvStack' /\ InvTops' /\ SoundSoFar' /\ TypeTree'
        /\ uids' = (IF e.uid = None THEN uids ELSE uids \cup {e.uid})
        /\ uids' \subseteq Uids
  BY EnterFacts
<1> PICK x : x = Len(objects) + 1
  OBVIOUS
<1>2. /\ e.kind \in Entries /\ e.kind \notin Attached
      /\ e.kind \notin {"Structure", "Reference", "Table", "Image"} /\ h = Here
  BY <1>1 DEF Entering, Attached, Entries
<1>3. /\ ObjectsGrown(e, h, p, x) /\ TypeObjects'
      /\ DOMAIN objects' = 1 .. Len(objects') /\ Len(objects') \in Nat
      /\ Len(objects) <= Len(objects')
      /\ 0 .. Len(objects) \subseteq 0 .. Len(objects')
      /\ \A o \in DOMAIN objects : objects'[o].structure = objects[o].structure
  BY <1>1, <1>2, ObjectAppended
<1>4. InvObjects'
  BY <1>1, <1>2, <1>3, ObjectsGrow
<1>5. /\ ObjectsKept /\ DOMAIN objects' = DOMAIN objects \cup {x} /\ x # 0
      /\ objects'[x].at = h /\ objects'[x].kind = e.kind /\ objects'[x].structure = 0
  BY <1>3 DEF ObjectsGrown
<1>6. InvImages' /\ ImagesKept
  BY <1>1, <1>2, ImagesStay DEF ImagesKept
<1>7. /\ TypeStatus' /\ TypeImages' /\ TypeOpenTable'
      /\ TypeTableReferences' /\ TypeOwn' /\ TypeBindings'
      /\ events' = events => TypeEvents'
  BY <1>1, <1>3, <1>5, RestTyped DEF Enter
<1>8. TypeReferences'
  BY <1>1 DEF TypeReferences, TypeOK
<1>9. InvEvents' /\ TypeEvents'
  <2>1. CASE ~Binds(e)
    BY <1>1, <1>5, <1>6, <1>7, <2>1, EventsStay
  <2>2. CASE Binds(e)
    <3>1. events' = Append(events, [at |-> h, object |-> x, ref |-> None, image |-> image])
      BY <1>2, <2>2 DEF Event, NextIndex
    <3>2. /\ InvEvents'
          /\ events' \in Seq([at : DOMAIN doc', object : 0 .. Len(objects'),
                              ref : Uids \cup {None}, image : 0 .. Len(images)])
      BY <1>1, <1>2, <1>3, <1>5, <2>2, <3>1, EventsNew
    <3> QED
      BY <3>2 DEF TypeEvents
  <2> QED
    BY <2>1, <2>2
<1>10. TypeOK'
  BY <1>1, <1>3, <1>7, <1>8, <1>9, TypeOKAfter
<1>11. InvOpenTable'
  BY <1>1, <1>2, <1>5, OpenTableStays
<1>12. InvInside'
  BY <1>1, <1>2, <1>3, <1>5, InsideStays
<1>13. InvTableReferences'
  BY <1>1, <1>2, <1>5, TableReferencesStay
<1>14. InvReferences'
  BY <1>1, <1>2, ReferencesRight
<1>15. InvOwn'
  BY <1>1, <1>2, <1>5, <1>6, OwnStays
<1> QED
  BY <1>1, <1>4, <1>6, <1>9, <1>10, <1>11, <1>12, <1>13, <1>14, <1>15 DEF InvBuilder

LEMMA StartAttachedKeeps ==
  ASSUME TypeOK, InvBuilder, NEW e \in Vocabulary, StartAttached(e)
  PROVE  TypeOK' /\ InvBuilder'
<1> USE DEF StartAttached
<1>1. PICK h, p :
        /\ Entering(e, h, p)
        /\ InvStack' /\ InvTops' /\ SoundSoFar' /\ TypeTree'
        /\ uids' = (IF e.uid = None THEN uids ELSE uids \cup {e.uid})
        /\ uids' \subseteq Uids
  BY EnterFacts
<1> PICK x : x = Len(objects) + 1
  OBVIOUS
<1>2. /\ e.kind \in Attached /\ e.kind \notin Entries
      /\ e.kind \notin {"Structure", "Reference", "Image"} /\ ~Binds(e)
      /\ h = Here
  BY <1>1 DEF Entering, Attached, Entries, Binds
<1>3. /\ ObjectsGrown(e, h, p, x) /\ TypeObjects'
      /\ DOMAIN objects' = 1 .. Len(objects') /\ Len(objects') \in Nat
      /\ Len(objects) <= Len(objects')
      /\ 0 .. Len(objects) \subseteq 0 .. Len(objects')
      /\ \A o \in DOMAIN objects : objects'[o].structure = objects[o].structure
  BY <1>1, <1>2, ObjectAppended
<1>4. InvObjects'
  BY <1>1, <1>2, <1>3, ObjectsGrow
<1>5. /\ ObjectsKept /\ DOMAIN objects' = DOMAIN objects \cup {x} /\ x # 0
      /\ objects'[x].at = h /\ objects'[x].kind = e.kind /\ objects'[x].structure = 0
  BY <1>3 DEF ObjectsGrown
<1>6. InvImages' /\ ImagesKept
  BY <1>1, <1>2, ImagesStay DEF ImagesKept
<1>7. /\ TypeStatus' /\ TypeImages' /\ TypeTableReferences' /\ TypeEvents' /\ TypeBindings'
      /\ openTable' = openTable => TypeOpenTable'
      /\ own' = own => TypeOwn'
  BY <1>1, <1>3, <1>5, RestTyped DEF Enter
<1>8. TypeReferences'
  BY <1>1 DEF TypeReferences, TypeOK
<1>9. InvOpenTable' /\ TypeOpenTable'
  <2>1. CASE e.kind # "Table"
    BY <1>1, <1>5, <1>7, <2>1, OpenTableStays
  <2>2. CASE e.kind = "Table"
    <3>1. openTable' = x
      BY <2>2 DEF NextIndex
    <3>2. InvOpenTable'
      BY <1>1, <1>3, <2>2, <3>1, OpenTableNew
    <3>3. /\ DOMAIN stack' = DOMAIN stack \cup {Len(stack) + 1}
          /\ stack'[Len(stack) + 1] = h
      BY <1>1, StackGrows DEF Entering, InvBuilder
    <3> QED
      BY <1>5, <3>1, <3>2, <3>3 DEF TypeOpenTable
  <2> QED
    BY <2>1, <2>2
<1>10. InvOwn' /\ TypeOwn'
  <2>1. CASE image = 0
    BY <1>1, <1>5, <1>6, <1>7, <2>1, OwnStays
  <2>2. CASE image # 0
    <3>1. own' = Append(own, [at |-> h, object |-> x, image |-> image])
      BY <1>2, <2>2 DEF NextIndex
    <3>2. /\ InvOwn'
          /\ own' \in Seq([at : DOMAIN doc', object : DOMAIN objects', image : DOMAIN images])
      BY <1>1, <1>2, <1>3, <2>2, <3>1, OwnNew
    <3> QED
      BY <3>2 DEF TypeOwn
  <2> QED
    BY <2>1, <2>2
<1>11. TypeOK'
  BY <1>1, <1>3, <1>7, <1>8, <1>9, <1>10, TypeOKAfter
<1>12. InvInside'
  BY <1>1, <1>2, <1>3, <1>5, InsideStays
<1>13. InvTableReferences'
  BY <1>1, <1>2, <1>5, TableReferencesStay
<1>14. InvReferences'
  BY <1>1, <1>2, ReferencesRight
<1>15. InvEvents'
  BY <1>1, <1>2, <1>5, <1>6, EventsStay
<1> QED
  BY <1>1, <1>4, <1>6, <1>9, <1>10, <1>11, <1>12, <1>13, <1>14, <1>15 DEF InvBuilder

LEMMA StructureSet ==
  ASSUME NEW r \in Object, NEW x \in Nat
  PROVE  /\ [r EXCEPT !.structure = x] \in Object
         /\ Alike([r EXCEPT !.structure = x], r)
         /\ [r EXCEPT !.structure = x].structure = x
BY DEF Object, Alike

LEMMA StartStructureKeeps ==
  ASSUME TypeOK, InvBuilder, NEW e \in Vocabulary, StartStructure(e)
  PROVE  TypeOK' /\ InvBuilder'
<1> USE DEF StartStructure
<1>1. PICK h, p :
        /\ Entering(e, h, p)
        /\ InvStack' /\ InvTops' /\ SoundSoFar' /\ TypeTree'
        /\ uids' = (IF e.uid = None THEN uids ELSE uids \cup {e.uid})
        /\ uids' \subseteq Uids
  BY EnterFacts
<1> PICK x : x = Len(objects) + 1
  OBVIOUS
<1>2. /\ e.kind = "Structure" /\ e.kind \notin Attached \cup Entries
      /\ e.kind \notin {"Reference", "Image", "Table"} /\ ~Binds(e)
  BY <1>1 DEF Entering, Attached, Entries, Binds
<1>b. PICK b : b = IF stack = << >> THEN objects
                   ELSE [objects EXCEPT ![openTable].structure = x]
  OBVIOUS
<1>3. objects' = Append(b, ObjectOf(e))
  BY <1>b DEF NextIndex
<1>4. objects \in Seq(Object) /\ DOMAIN objects = 1 .. Len(objects) /\ Len(objects) \in Nat
  BY SequenceFacts DEF TypeOK
<1>5. stack # << >> => /\ openTable \in DOMAIN objects
                       /\ objects[openTable].structure = 0
                       /\ objects[openTable].kind = "Table"
  <2>1. stack # << >> => Parent = "Table" /\ openTable # 0 /\ objects[openTable].structure = 0
    BY <1>1, <1>2 DEF Entering, WellFormed, WellPlaced, StructureFits
  <2>2. openTable # 0 => openTable \in DOMAIN objects /\ objects[openTable].kind = "Table"
    BY DEF TypeOK, InvBuilder, InvOpenTable
  <2> QED
    BY <2>1, <2>2
<1>6. /\ b \in Seq(Object) /\ Len(b) = Len(objects)
      /\ \A o \in DOMAIN objects :
           /\ Alike(b[o], objects[o])
           /\ b[o].structure = IF stack # << >> /\ o = openTable THEN x
                               ELSE objects[o].structure
  <2>1. CASE stack = << >>
    BY <1>b, <1>4, <2>1 DEF Alike
  <2>2. CASE stack # << >>
    <3>1. LET r == [objects[openTable] EXCEPT !.structure = x]
          IN  r \in Object /\ Alike(r, objects[openTable]) /\ r.structure = x
      <4>1. objects[openTable] \in Object /\ x \in Nat
        BY <1>4, <1>5, <2>2
      <4> QED
        BY <4>1, StructureSet
    <3>2. b = [objects EXCEPT ![openTable] = [objects[openTable] EXCEPT !.structure = x]]
      BY <1>b, <2>2
    <3>3. b \in Seq(Object) /\ Len(b) = Len(objects)
      BY <1>4, <1>5, <2>2, <3>1, <3>2
    <3>4. \A o \in DOMAIN objects :
            b[o] = IF o = openTable THEN [objects[openTable] EXCEPT !.structure = x]
                   ELSE objects[o]
      BY <3>2
    <3> QED
      BY <2>2, <3>1, <3>3, <3>4 DEF Alike
  <2> QED
    BY <2>1, <2>2
<1>7. StructuresFit(b, e, x)
  <2>1. \A o \in DOMAIN objects : objects[o].structure # 0 =>
             /\ objects[o].kind = "Table" /\ objects[o].structure \in DOMAIN objects
             /\ objects[objects[o].structure].kind = "Structure"
    BY DEF TypeOK
  <2> QED
    BY <1>2, <1>5, <1>6, <2>1 DEF Alike, StructuresFit
<1>8. /\ ObjectsGrown(e, h, p, x) /\ TypeObjects'
      /\ DOMAIN objects' = 1 .. Len(objects') /\ Len(objects') \in Nat
      /\ Len(objects) <= Len(objects')
      /\ 0 .. Len(objects) \subseteq 0 .. Len(objects')
      /\ \A o \in DOMAIN objects : objects'[o].structure = b[o].structure
  <2> HIDE DEF StartStructure
  <2>1. Entering(e, h, p) /\ e.kind # "Reference" /\ b \in Seq(Object) /\ Len(b) = Len(objects)
    BY <1>1, <1>2, <1>6
  <2> QED
    BY <1>3, <1>7, <2>1, ObjectPushed
<1>9. InvObjects'
  BY <1>1, <1>2, <1>8, ObjectsGrow
<1>10. /\ ObjectsKept /\ DOMAIN objects' = DOMAIN objects \cup {x}
       /\ objects'[x].at = h /\ objects'[x].kind = e.kind /\ objects'[x].structure = 0
  BY <1>8 DEF ObjectsGrown
<1>11. InvImages' /\ ImagesKept
  BY <1>1, <1>2, ImagesStay DEF ImagesKept
<1>12. /\ TypeStatus' /\ TypeImages' /\ TypeOpenTable' /\ TypeTableReferences'
       /\ TypeEvents' /\ TypeOwn' /\ TypeBindings'
  BY <1>1, <1>8, <1>10, RestTyped DEF Enter
<1>13. TypeReferences'
  BY <1>1 DEF TypeReferences, TypeOK
<1>14. TypeOK'
  BY <1>1, <1>8, <1>12, <1>13, TypeOKAfter
<1>15. InvOpenTable'
  BY <1>1, <1>2, <1>10, OpenTableStays
<1>16. InvInside'
  <2>1. CASE stack = << >>
    <3>1. p = 0
      BY <1>1, <2>1 DEF Entering
    <3>2. \A o \in DOMAIN objects : objects'[o].structure = objects[o].structure
      BY <1>6, <1>8, <2>1
    <3> QED
      BY <1>1, <1>10, <3>1, <3>2, InsideStays
  <2>2. CASE stack # << >>
    <3>1. \A o \in DOMAIN objects :
            objects'[o].structure = IF o = openTable THEN x ELSE objects[o].structure
      BY <1>6, <1>8, <2>2
    <3> QED
      BY <1>1, <1>2, <1>8, <2>2, <3>1, InsideNew
  <2> QED
    BY <2>1, <2>2
<1>17. InvTableReferences'
  BY <1>1, <1>2, <1>10, TableReferencesStay
<1>18. InvReferences'
  BY <1>1, <1>2, ReferencesRight
<1>19. InvEvents'
  BY <1>1, <1>2, <1>10, <1>11, EventsStay
<1>20. InvOwn'
  BY <1>1, <1>2, <1>10, <1>11, OwnStays
<1> QED
  BY <1>1, <1>9, <1>11, <1>14, <1>15, <1>16, <1>17, <1>18, <1>19, <1>20 DEF InvBuilder

LEMMA StartReferenceKeeps ==
  ASSUME TypeOK, InvBuilder, NEW e \in Vocabulary, StartReference(e)
  PROVE  TypeOK' /\ InvBuilder'
<1> USE DEF StartReference
<1>1. PICK h, p :
        /\ Entering(e, h, p)
        /\ InvStack' /\ InvTops' /\ SoundSoFar' /\ TypeTree'
        /\ uids' = (IF e.uid = None THEN uids ELSE uids \cup {e.uid})
        /\ uids' \subseteq Uids
  BY EnterFacts
<1>2. /\ e.kind = "Reference" /\ h = Here
      /\ e.kind \notin Attached \cup Entries \cup {"Structure", "Table", "Image"}
  BY <1>1 DEF Entering, Attached, Entries
<1>3. e.ref \in Uids
  BY <1>2, ElementFacts
<1>4. InvObjects' /\ ObjectsKept
  BY <1>1, <1>2, ObjectsStay
<1>5. InvImages' /\ ImagesKept
  BY <1>1, <1>2, ImagesStay DEF ImagesKept
<1>6. /\ TypeStatus' /\ TypeImages' /\ TypeObjects' /\ TypeOpenTable'
      /\ TypeOwn' /\ TypeBindings'
      /\ structureReferences' = structureReferences => TypeTableReferences'
      /\ events' = events => TypeEvents'
  BY <1>1, <1>4, RestTyped DEF Enter
<1>7. TypeReferences'
  BY <1>1, <1>3 DEF TypeReferences, TypeOK
<1>8. InvTableReferences' /\ TypeTableReferences'
  <2>1. CASE Parent # "Table"
    BY <1>1, <1>4, <1>6, <2>1, TableReferencesStay
  <2>2. CASE Parent = "Table"
    <3>1. /\ InvTableReferences'
          /\ openTable \in DOMAIN objects /\ objects[openTable].kind = "Table"
          /\ structureReferences' \in Seq([table : DOMAIN objects, ref : Uids])
          /\ DOMAIN structureReferences' =
               DOMAIN structureReferences \cup {Len(structureReferences) + 1}
          /\ \A j \in DOMAIN structureReferences :
               structureReferences'[j] = structureReferences[j]
          /\ structureReferences'[Len(structureReferences) + 1].table = openTable
      BY <1>1, <1>2, <2>2, TableReferencesNew
    <3>2. \A j \in DOMAIN structureReferences :
            objects[structureReferences[j].table].kind = "Table"
      BY DEF TypeOK
    <3>3. \A j \in DOMAIN structureReferences' :
            objects[structureReferences'[j].table].kind = "Table"
      BY <3>1, <3>2
    <3> QED
      BY <3>1, <3>3 DEF TypeTableReferences
  <2> QED
    BY <2>1, <2>2
<1>9. InvEvents' /\ TypeEvents'
  <2>1. CASE ~Binds(e)
    BY <1>1, <1>4, <1>5, <1>6, <2>1, EventsStay
  <2>2. CASE Binds(e)
    <3>1. events' = Append(events, [at |-> h, object |-> 0, ref |-> e.ref, image |-> image])
      BY <1>2, <2>2 DEF Event
    <3>2. /\ DOMAIN objects' = 1 .. Len(objects') /\ Len(objects') \in Nat
          /\ Len(objects) <= Len(objects') /\ images' = images
      BY SequenceFacts DEF TypeOK
    <3>3. /\ InvEvents'
          /\ events' \in Seq([at : DOMAIN doc', object : 0 .. Len(objects'),
                              ref : Uids \cup {None}, image : 0 .. Len(images)])
      BY <1>1, <1>2, <1>3, <1>4, <2>2, <3>1, <3>2, EventsNew
    <3> QED
      BY <3>3 DEF TypeEvents
  <2> QED
    BY <2>1, <2>2
<1>10. TypeOK'
  BY <1>1, <1>6, <1>7, <1>8, <1>9, TypeOKAfter
<1>11. InvOpenTable'
  BY <1>1, <1>2, <1>4, OpenTableStays
<1>12. InvInside'
  BY <1>1, <1>4, InsideStays
<1>13. InvReferences'
  BY <1>1, <1>2, ReferencesRight
<1>14. InvOwn'
  BY <1>1, <1>2, <1>4, <1>5, OwnStays
<1> QED
  BY <1>1, <1>4, <1>5, <1>8, <1>9, <1>10, <1>11, <1>12, <1>13, <1>14 DEF InvBuilder

\* The refused element is in the tree only, which it makes unsound.
LEMMA MalformedKeeps ==
  ASSUME TypeOK, InvBuilder, NEW e \in Vocabulary, Malformed(e)
  PROVE  TypeOK' /\ ~SoundSoFar' /\ status' = "malformed"
<1> USE DEF Malformed
<1>1. PICK h, p : /\ Grown(e, h, p) /\ h = Here
                  /\ p = IF stack = << >> THEN 0 ELSE stack[Len(stack)]
  BY PushGrows
<1>2. ~SoundSoFar'
  BY <1>1, SoundGrows
<1> DEFINE t == IF stack = << >> THEN h ELSE stack[1]
           R == [element : Vocabulary, parent : Nat, top : Nat]
           r == [element |-> e, parent |-> p, top |-> t]
<1>3. doc' = Append(doc, r) /\ h = Len(doc) + 1 /\ stack' = Append(stack, h)
  BY <1>1 DEF Push, Here
<1>4. /\ TypeTree /\ TypeImages /\ TypeObjects /\ TypeOpenTable
      /\ TypeReferences /\ TypeTableReferences /\ TypeEvents /\ TypeOwn
      /\ TypeBindings
  BY TypeParts
<1>5. doc \in Seq(R) /\ DOMAIN doc = 1 .. Len(doc) /\ Len(doc) \in Nat
  BY SequenceFacts DEF TypeOK
<1>22. t \in 1 .. h
  <2>1. stack # << >> => stack[1] \in DOMAIN doc
    BY DEF TypeOK
  <2> QED
    BY <1>3, <1>5, <2>1
<1>6. r \in R /\ p \in 0 .. Len(doc) /\ r.parent = p /\ r.top = t
  BY <1>1, <1>3, <1>5, <1>22 DEF Grown
<1> HIDE DEF R, r, t
<1>7. /\ doc' \in Seq(R) /\ DOMAIN doc' = DOMAIN doc \cup {h}
      /\ \A n \in DOMAIN doc : doc'[n] = doc[n]
      /\ doc'[h].parent = p /\ doc'[h].top = t
  BY <1>3, <1>5, <1>6, AppendFacts
<1>8. \A n \in DOMAIN doc' : doc'[n].parent \in 0 .. n - 1 /\ doc'[n].top \in 1 .. n
  <2>1. \A n \in DOMAIN doc : doc[n].parent \in 0 .. n - 1 /\ doc[n].top \in 1 .. n
    BY <1>4 DEF TypeTree
  <2>2. p \in 0 .. h - 1
    BY <1>3, <1>5, <1>6
  <2> QED
    BY <1>7, <1>22, <2>1, <2>2
<1>9. stack \in Seq(DOMAIN doc')
  BY <1>4, <1>7, WiderSequence DEF TypeTree
<1>10. /\ stack' \in Seq(DOMAIN doc')
       /\ DOMAIN stack = 1 .. Len(stack) /\ Len(stack) \in Nat
       /\ DOMAIN stack' = DOMAIN stack \cup {Len(stack) + 1}
       /\ \A k \in DOMAIN stack : stack'[k] = stack[k]
  BY <1>3, <1>7, <1>9, AppendFacts
<1>11. stack # << >> => stack' # << >> /\ stack'[1] = stack[1]
  <2>1. stack # << >> => Len(stack) # 0
    BY <1>9
  <2> QED
    BY <1>10, <2>1
<1>12. TypeTree'
  BY <1>7, <1>8, <1>10 DEF TypeTree, R
<1>13. TypeStatus'
  BY DEF TypeStatus
<1>14. TypeImages'
  <2>1. images \in Seq(DOMAIN doc')
    BY <1>4, <1>7, WiderSequence DEF TypeImages
  <2> QED
    BY <1>4, <1>11, <2>1 DEF TypeImages, builder
<1>15. TypeObjects'
  BY <1>4, <1>7 DEF TypeObjects, builder
<1>16. TypeOpenTable'
  BY <1>4, <1>10 DEF TypeOpenTable, builder
<1>17. TypeReferences' /\ TypeTableReferences'
  BY <1>4 DEF TypeReferences, TypeTableReferences, builder
<1>18. TypeEvents'
  <2>1. [at : DOMAIN doc, object : 0 .. Len(objects),
         ref : Uids \cup {None}, image : 0 .. Len(images)] \subseteq
        [at : DOMAIN doc', object : 0 .. Len(objects),
         ref : Uids \cup {None}, image : 0 .. Len(images)]
    BY <1>7
  <2>2. PICK S, T :
          /\ S = [at : DOMAIN doc, object : 0 .. Len(objects),
                  ref : Uids \cup {None}, image : 0 .. Len(images)]
          /\ T = [at : DOMAIN doc', object : 0 .. Len(objects),
                  ref : Uids \cup {None}, image : 0 .. Len(images)]
    OBVIOUS
  <2>3. events \in Seq(S) /\ S \subseteq T
    BY <1>4, <2>1, <2>2 DEF TypeEvents
  <2>4. events \in Seq(T)
    BY <2>3, WiderSequence
  <2> QED
    BY <2>2, <2>4 DEF TypeEvents, builder
<1>19. TypeOwn'
  <2>1. [at : DOMAIN doc, object : DOMAIN objects, image : DOMAIN images] \subseteq
        [at : DOMAIN doc', object : DOMAIN objects, image : DOMAIN images]
    BY <1>7
  <2>2. PICK S, T :
          /\ S = [at : DOMAIN doc, object : DOMAIN objects, image : DOMAIN images]
          /\ T = [at : DOMAIN doc', object : DOMAIN objects, image : DOMAIN images]
    OBVIOUS
  <2>3. own \in Seq(S) /\ S \subseteq T
    BY <1>4, <2>1, <2>2 DEF TypeOwn
  <2>4. own \in Seq(T)
    BY <2>3, WiderSequence
  <2> QED
    BY <2>2, <2>4 DEF TypeOwn, builder
<1>20. TypeBindings'
  BY <1>4, <1>7 DEF TypeBindings, Binding, builder
<1>21. TypeOK'
  BY <1>12, <1>13, <1>14, <1>15, <1>16, <1>17, <1>18, <1>19, <1>20, TypeOKAfter
<1> QED
  BY <1>2, <1>21

-----------------------------------------------------------------------------
(* End tags.                                                                  *)

\* Whether the tree is sound is seen in the tree.
LEMMA SoundStays ==
  ASSUME doc' = doc
  PROVE  SoundSoFar' <=> SoundSoFar
<1>1. \A n : KindAbove(n)' = KindAbove(n) /\ Of(n)' = Of(n)
  BY DEF KindAbove, Of
<1>2. Places' = Places /\ \A kinds : OfKind(kinds)' = OfKind(kinds)
  BY DEF OfKind, Places, Of
<1>3. \A n : InPlace(n)' <=> InPlace(n)
  BY DEF InPlace, KindAbove, Of
<1>4. Associating' = Associating
  BY DEF Associating, InImage, OfKind, Places, KindAbove, Of
<1>5. \A kinds : Owned(kinds)' = Owned(kinds)
  BY DEF Owned, OfKind, Places, KindAbove, Of
<1>6. \A t, kinds : Children(t, kinds)' = Children(t, kinds)
  BY DEF Children, OfKind, Places, Of
<1> QED
  BY <1>1, <1>2, <1>3, <1>4, <1>5, <1>6 DEF SoundSoFar

\* The events are of the tree, and of what has been collected.
LEMMA EventsSame ==
  ASSUME InvBuilder, UNCHANGED <<doc, images, objects, events>>
  PROVE  InvEvents'
<1>1. Associating' = Associating
  BY DEF Associating, InImage, OfKind, Places, KindAbove, Of
<1>2. \A n : Of(n)' = Of(n) /\ KindAbove(n)' = KindAbove(n) /\ OwnerOf(n)' = OwnerOf(n)
  BY DEF OwnerOf, InImage, KindAbove, Of
<1>3. \A j : EventOf(j)' <=> EventOf(j)
  BY <1>2 DEF EventOf
<1> QED
  BY <1>1, <1>3 DEF InvBuilder, InvEvents

LEMMA EndElementKeeps ==
  ASSUME TypeOK, InvBuilder, EndElement
  PROVE  TypeOK' /\ InvBuilder'
<1> PICK L : L = Len(stack)
  OBVIOUS
<1>1. /\ stack \in Seq(DOMAIN doc) /\ DOMAIN stack = 1 .. L /\ L \in Nat \ {0}
      /\ stack # << >> /\ Parent = Of(stack[L]).kind /\ L \in DOMAIN stack
  <2>1. stack \in Seq(DOMAIN doc) /\ stack # << >>
    BY DEF TypeOK, EndElement
  <2>2. DOMAIN stack = 1 .. L /\ L \in Nat \ {0}
    BY <2>1
  <2>3. Parent = Of(stack[L]).kind
    BY <2>1, StackFacts
  <2> QED
    BY <2>1, <2>2, <2>3
<1>2. /\ stack' \in Seq(DOMAIN doc) /\ DOMAIN stack' = 1 .. L - 1
      /\ \A k \in 1 .. L - 1 : stack'[k] = stack[k]
      /\ stack' # << >> <=> L # 1
  <2>1. stack' = SubSeq(stack, 1, L - 1)
    BY DEF EndElement
  <2>2. Len(stack) = L
    OBVIOUS
  <2>3. /\ SubSeq(stack, 1, L - 1) \in Seq(DOMAIN doc)
        /\ Len(SubSeq(stack, 1, L - 1)) = L - 1
        /\ \A k \in 1 .. L - 1 : SubSeq(stack, 1, L - 1)[k] = stack[k]
    BY <1>1, <2>2
  <2>4. stack' \in Seq(DOMAIN doc) /\ Len(stack') = L - 1
    BY <2>1, <2>3
  <2>5. DOMAIN stack' = 1 .. L - 1
    BY <2>4
  <2>6. stack' # << >> <=> Len(stack') # 0
    BY <2>4
  <2> QED
    BY <1>1, <2>1, <2>3, <2>4, <2>5, <2>6
<1>3. /\ image' = (IF Parent = "Image" THEN 0 ELSE image)
      /\ openTable' = (IF Parent = "Table" THEN 0 ELSE openTable)
      /\ UNCHANGED <<doc, images, objects, uids, references, thumbnailReferences,
                     structureReferences, events, own, status, bindings>>
  BY DEF EndElement
<1>4. /\ Parent = "Image" <=> L = 1 /\ image # 0
      /\ image # 0 => image \in DOMAIN images /\ images[image] = stack[1]
  BY StackFacts
<1>5. \A k \in DOMAIN stack : Of(stack[k]).kind \in Attached =>
                   k = 1 \/ (k = 2 /\ Of(stack[1]).kind = "Image")
  BY StackFacts
<1>6. /\ TypeTree /\ TypeStatus /\ TypeImages /\ TypeObjects /\ TypeOpenTable
      /\ TypeReferences /\ TypeTableReferences /\ TypeEvents /\ TypeOwn
      /\ TypeBindings
  BY TypeParts
<1>7. TypeTree' /\ TypeStatus'
  BY <1>2, <1>3, <1>6 DEF TypeTree, TypeStatus
<1>8. TypeImages'
  <2>1. image' # 0 => stack' # << >> /\ stack'[1] = images[image']
    BY <1>1, <1>2, <1>3, <1>4
  <2>2. image' \in 0 .. Len(images)
    <3>1. Len(images) \in Nat
      BY <1>6, SequenceFacts DEF TypeImages
    <3> QED
      BY <1>3, <1>6, <3>1 DEF TypeImages
  <2> QED
    BY <1>3, <1>6, <2>1, <2>2 DEF TypeImages
<1>9. TypeObjects' /\ TypeReferences' /\ TypeTableReferences' /\ TypeEvents'
      /\ TypeOwn' /\ TypeBindings'
  BY <1>3, <1>6 DEF TypeObjects, TypeReferences, TypeTableReferences, TypeEvents,
     TypeOwn, TypeBindings, Binding
<1>10. TypeOpenTable'
  <2> SUFFICES ASSUME openTable' # 0
               PROVE  /\ openTable' \in DOMAIN objects
                      /\ \E k \in DOMAIN stack' : stack'[k] = objects[openTable'].at
    BY <1>3 DEF TypeOpenTable
  <2>1. Parent # "Table" /\ openTable' = openTable
    BY <1>3
  <2>2. PICK k \in DOMAIN stack : stack[k] = objects[openTable].at
    BY <1>6, <2>1 DEF TypeOpenTable
  <2>3. openTable \in DOMAIN objects /\ Of(stack[k]).kind = "Table"
    BY <1>6, <2>1, <2>2, ObjectFacts DEF TypeOpenTable, InvBuilder, InvOpenTable, Describes
  <2>4. k # L
    BY <1>1, <2>1, <2>3
  <2>5. k \in 1 .. L - 1
    BY <1>1, <2>4
  <2> QED
    BY <1>2, <2>1, <2>2, <2>3, <2>5
<1>11. TypeOK'
  BY <1>7, <1>8, <1>9, <1>10, TypeOKAfter
<1>12. InvStack' /\ InvTops'
  <2>1. \A k \in 1 .. L - 1 :
          /\ doc[stack[k]].parent = IF k = 1 THEN 0 ELSE stack[k - 1]
          /\ doc[stack[k]].top = stack[1]
    BY <1>1 DEF InvBuilder, InvStack
  <2>2. \A k \in 1 .. L - 1 : 1 \in 1 .. L - 1 /\ (k # 1 => k - 1 \in 1 .. L - 1)
    BY <1>1
  <2>3. \A k \in DOMAIN stack' :
          /\ doc[stack'[k]].parent = IF k = 1 THEN 0 ELSE stack'[k - 1]
          /\ doc[stack'[k]].top = stack'[1]
    BY <1>2, <2>1, <2>2
  <2>4. doc' = doc
    BY <1>3
  <2>5. InvStack'
    BY <2>3, <2>4 DEF InvStack
  <2>6. InvTops'
    BY <2>4 DEF InvBuilder, InvTops, Places
  <2> QED
    BY <2>5, <2>6
<1>13. InvImages'
  <2>1. /\ {images[i] : i \in DOMAIN images} = OfKind({"Image"})
        /\ \A i, j \in DOMAIN images : images[i] = images[j] => i = j
        /\ image # 0 <=> stack # << >> /\ Of(stack[1]).kind = "Image"
    BY DEF InvBuilder, InvImages
  <2>2. OfKind({"Image"})' = OfKind({"Image"})
    BY <1>3 DEF OfKind, Places, Of
  <2>3. image' # 0 <=> stack' # << >> /\ doc[stack'[1]].element.kind = "Image"
    <3>1. L # 1 => stack'[1] = stack[1]
      BY <1>1, <1>2
    <3> QED
      BY <1>2, <1>3, <1>4, <2>1, <3>1 DEF Of
  <2>4. doc' = doc /\ images' = images
    BY <1>3
  <2> QED
    BY <2>1, <2>2, <2>3, <2>4 DEF InvImages, Of
<1>14. InvOpenTable'
  <2>1. /\ \A k \in DOMAIN stack : Of(stack[k]).kind = "Table" =>
             openTable # 0 /\ objects[openTable].at = stack[k]
        /\ openTable # 0 => objects[openTable].kind = "Table"
    BY DEF InvBuilder, InvOpenTable
  <2>2. openTable' # 0 => objects[openTable'].kind = "Table"
    BY <1>3, <2>1
  <2>3. ASSUME NEW k \in DOMAIN stack', Of(stack[k]).kind = "Table"
        PROVE  openTable' = openTable
    <3>1. k \in DOMAIN stack /\ k \in 1 .. L - 1 /\ "Table" \in Attached
      BY <1>1, <1>2 DEF Attached
    <3>2. Parent # "Table"
      BY <1>1, <1>5, <2>3, <3>1
    <3> QED
      BY <1>3, <3>2
  <2>4. \A k \in DOMAIN stack' : stack'[k] = stack[k] /\ k \in DOMAIN stack
    BY <1>1, <1>2
  <2>5. \A k \in DOMAIN stack' : doc[stack'[k]].element.kind = "Table" =>
          openTable' # 0 /\ objects[openTable'].at = stack'[k]
    <3> TAKE k \in DOMAIN stack'
    <3> HAVE doc[stack'[k]].element.kind = "Table"
    <3>1. Of(stack[k]).kind = "Table"
      BY <2>4 DEF Of
    <3>2. openTable' = openTable
      BY <2>3, <3>1
    <3> QED
      BY <2>1, <2>4, <3>1, <3>2
  <2>6. doc' = doc /\ objects' = objects
    BY <1>3
  <2> QED
    BY <2>2, <2>5, <2>6 DEF InvOpenTable, Of
<1>15. SoundSoFar'
  BY <1>3, SoundStays DEF InvBuilder
<1>16. InvObjects' /\ InvInside'
  BY <1>3 DEF InvBuilder, InvObjects, InvInside, Describes, OfKind, Places, Of
<1>17. InvTableReferences'
  BY <1>3 DEF InvBuilder, InvTableReferences, RefersToStructure, TableReferences,
     ReferencesOf, Children, KindAbove, OfKind, Places, Of
<1>18. InvReferences'
  BY <1>3 DEF InvBuilder, InvReferences, KindAbove, OfKind, Places, Of
<1>19. InvEvents'
  BY <1>3, EventsSame
<1>20. InvOwn'
  BY <1>3 DEF InvBuilder, InvOwn, Owned, KindAbove, OfKind, Places, Of
<1> QED
  BY <1>11, <1>12, <1>13, <1>14, <1>15, <1>16, <1>17, <1>18, <1>19, <1>20 DEF InvBuilder

\* What is left when the parsing has stopped.
LEMMA BuilderStays ==
  ASSUME TypeOK, InvBuilder, UNCHANGED <<tree, builder>>
  PROVE  InvBuilder'
<1>1. UNCHANGED <<doc, stack, images, image, objects, openTable, uids, references,
                  thumbnailReferences, structureReferences, events, own>>
  BY DEF tree, builder
<1>2. SoundSoFar'
  BY <1>1, SoundStays DEF InvBuilder
<1>3. InvStack' /\ InvTops' /\ InvImages' /\ InvOpenTable'
  BY <1>1 DEF InvBuilder, InvStack, InvTops, InvImages, InvOpenTable, OfKind, Places, Of
<1>4. InvObjects' /\ InvInside'
  BY <1>1 DEF InvBuilder, InvObjects, InvInside, Describes, OfKind, Places, Of
<1>5. InvTableReferences'
  BY <1>1 DEF InvBuilder, InvTableReferences, RefersToStructure, TableReferences,
     ReferencesOf, Children, KindAbove, OfKind, Places, Of
<1>6. InvReferences'
  BY <1>1 DEF InvBuilder, InvReferences, KindAbove, OfKind, Places, Of
<1>7. InvEvents'
  BY <1>1, EventsSame
<1>8. InvOwn'
  BY <1>1 DEF InvBuilder, InvOwn, Owned, KindAbove, OfKind, Places, Of
<1> QED
  BY <1>2, <1>3, <1>4, <1>5, <1>6, <1>7, <1>8 DEF InvBuilder

LEMMA TypesStay ==
  ASSUME TypeOK, UNCHANGED <<tree, builder>>, TypeStatus', bindings' \subseteq Binding
  PROVE  TypeOK'
<1>1. UNCHANGED <<doc, stack, images, image, objects, openTable, uids, references,
                  thumbnailReferences, structureReferences, events, own>>
  BY DEF tree, builder
<1>2. /\ TypeTree' /\ TypeImages' /\ TypeObjects' /\ TypeOpenTable'
      /\ TypeReferences' /\ TypeTableReferences' /\ TypeEvents' /\ TypeOwn'
  BY <1>1, TypeParts DEF TypeTree, TypeImages, TypeObjects, TypeOpenTable,
     TypeReferences, TypeTableReferences, TypeEvents, TypeOwn
<1>3. TypeBindings'
  BY <1>1 DEF TypeBindings, Binding
<1> QED
  BY <1>2, <1>3, TypeOKAfter

LEMMA InitKeeps ==
  ASSUME Init
  PROVE  TypeOK /\ InvBuilder
<1> USE DEF Init
<1>1. doc = << >> /\ DOMAIN doc = {} /\ DOMAIN objects = {} /\ DOMAIN stack = {}
      /\ DOMAIN images = {} /\ DOMAIN events = {} /\ DOMAIN own = {}
      /\ DOMAIN structureReferences = {}
  OBVIOUS
<1>2. TypeOK
  <2>1. << >> \in Seq([element : Vocabulary, parent : Nat, top : Nat]) /\ << >> \in Seq(DOMAIN doc)
        /\ << >> \in Seq(Object) /\ << >> \in Seq([table : DOMAIN objects, ref : Uids])
        /\ << >> \in Seq([at : DOMAIN doc, object : 0 .. Len(objects),
                          ref : Uids \cup {None}, image : 0 .. Len(images)])
        /\ << >> \in Seq([at : DOMAIN doc, object : DOMAIN objects, image : DOMAIN images])
    OBVIOUS
  <2> QED
    BY <1>1, <2>1 DEF TypeOK
<1>3. \A K : OfKind(K) = {}
  BY <1>1 DEF OfKind, Places
<1>4. (\A q, K : Children(q, K) = {}) /\ (\A K : Owned(K) = {})
      /\ Associating = {} /\ TableReferences = {}
  BY <1>3 DEF Children, Owned, Associating, TableReferences
<1>5. SoundSoFar
  <2>1. Cardinality({}) = 0 /\ MaxEntries \in Nat /\ MaxBindings \in Nat
    BY FS_EmptySet, HeaderAssumption DEF HeaderAssumption
  <2>2. Places = {}
    BY <1>1 DEF Places
  <2>3. /\ Cardinality(OfKind({"Metadata"})) = 0 /\ Cardinality(Associating) = 0
        /\ Cardinality(OfKind(Entries)) = 0
        /\ \A kind : Cardinality(Owned({kind})) = 0
    BY <1>3, <1>4, <2>1
  <2>4. OfKind({"Table"}) = {}
    BY <1>3
  <2>5. /\ Cardinality(OfKind({"Metadata"})) <= 1
        /\ Cardinality(Associating) <= MaxEntries
        /\ Cardinality(OfKind(Entries)) <= MaxEntries
    BY <2>1, <2>3
  <2>8. ASSUME NEW kind \in Attached
        PROVE  Cardinality(Owned({kind})) <= MaxBindings
    <3>1. Cardinality(Owned({kind})) = 0
      BY <2>3
    <3> QED
      BY <2>1, <3>1
  <2>6. /\ \A n \in Places : InPlace(n)
        /\ \A m, n \in Places : Of(m).uid = Of(n).uid /\ m # n => Of(m).uid = None
    BY <2>2
  <2>7. \A t \in OfKind({"Table"}) : Cardinality(Children(t, {"Structure"})) <= 1
    BY <2>4
  <2> QED
    BY <2>5, <2>6, <2>7, <2>8 DEF SoundSoFar
<1>6. InvStack /\ InvTops /\ InvImages /\ InvObjects /\ InvOpenTable /\ InvInside
  BY <1>1, <1>3 DEF InvStack, InvTops, Places, InvImages, InvObjects, InvOpenTable, InvInside
<1>7. InvTableReferences /\ InvReferences
  BY <1>1, <1>3, <1>4 DEF InvTableReferences, InvReferences, Places
<1>8. InvEvents /\ InvOwn
  BY <1>1, <1>4 DEF InvEvents, InvOwn
<1> QED
  BY <1>2, <1>5, <1>6, <1>7, <1>8 DEF InvBuilder

-----------------------------------------------------------------------------
(* What the resolution finds: the references.                                 *)

\* A uid is that of one element at most; Target finds it if it is of the kinds.
LEMMA TargetFacts ==
  ASSUME TypeOK, InvBuilder
  PROVE  /\ \A u : Called(u) \subseteq DOMAIN doc
         /\ \A u : \A m, n \in Called(u) : m = n
         /\ \A u, K : \A o \in Target(u, K) :
              /\ o \in DOMAIN objects /\ objects[o].at \in Called(u)
              /\ objects[o].kind \in K /\ Of(objects[o].at).kind \in K
         /\ \A u, K, o : /\ o \in DOMAIN objects /\ objects[o].at \in Called(u)
                         /\ objects[o].kind \in K
                         => o \in Target(u, K)
<1>1. \A m, n \in DOMAIN doc : Of(m).uid = Of(n).uid /\ m # n => Of(m).uid = None
  BY DEF InvBuilder, SoundSoFar, Places
<1>2. \A o \in DOMAIN objects :
        /\ objects[o].at \in DOMAIN doc
        /\ objects[o].kind = Of(objects[o].at).kind /\ objects[o].uid = Of(objects[o].at).uid
  BY ObjectFacts DEF Describes
<1>3. \A u : Called(u) \subseteq DOMAIN doc
  BY DEF Called, Places
<1>4. \A u : \A m, n \in Called(u) : m = n
  BY <1>1 DEF Called, Places
<1>5. \A u, K : \A o \in Target(u, K) :
              /\ o \in DOMAIN objects /\ objects[o].at \in Called(u)
              /\ objects[o].kind \in K /\ Of(objects[o].at).kind \in K
  BY <1>2 DEF Called, Places, Target
<1>6. \A u, K, o : /\ o \in DOMAIN objects /\ objects[o].at \in Called(u)
                   /\ objects[o].kind \in K
                   => o \in Target(u, K)
  BY <1>2 DEF Called, Places, Target
<1> QED
  BY <1>3, <1>4, <1>5, <1>6

\* An element that has an object is at the place of one.
LEMMA ObjectAt ==
  ASSUME TypeOK, InvBuilder, NEW n \in DOMAIN doc,
         Of(n).kind \in Attached \cup Entries \cup {"Structure"}
  PROVE  \E o \in DOMAIN objects : objects[o].at = n /\ objects[o].kind = Of(n).kind
BY ObjectFacts DEF Describes

ReferencesNamed == \A r \in OfKind({"Reference"}) : Called(Of(r).ref) # {}

LEMMA NamedRight ==
  ASSUME TypeOK, InvBuilder
  PROVE  references \subseteq uids <=> ReferencesNamed
<1>1. /\ uids = {Of(n).uid : n \in DOMAIN doc} \ {None}
      /\ references = {Of(n).ref : n \in OfKind({"Reference"})}
  BY DEF InvBuilder, InvReferences, Places
<1>2. \A r \in OfKind({"Reference"}) : r \in DOMAIN doc /\ Of(r).ref # None
  BY PlaceFacts DEF OfKind, Places
<1>3. \A r \in OfKind({"Reference"}) : Of(r).ref \in uids <=> Called(Of(r).ref) # {}
  BY <1>1, <1>2 DEF Called, Places
<1> QED
  BY <1>1, <1>3 DEF ReferencesNamed

LEMMA ThumbnailsRight ==
  ASSUME TypeOK, InvBuilder
  PROVE  (\A r \in thumbnailReferences : Target(r, {"Thumbnail"}) = {}) <=>
           \A r \in OfKind({"Reference"}) : \A n \in Called(Of(r).ref) :
             KindAbove(r) = "Thumbnail" => Of(n).kind # "Thumbnail"
<1>1. thumbnailReferences =
        {Of(n).ref : n \in {m \in OfKind({"Reference"}) : KindAbove(m) = "Thumbnail"}}
  BY DEF InvBuilder, InvReferences
<1>2. ASSUME NEW u
      PROVE  Target(u, {"Thumbnail"}) = {} <=> \A n \in Called(u) : Of(n).kind # "Thumbnail"
  <2>1. ASSUME NEW o \in Target(u, {"Thumbnail"})
        PROVE  \E n \in Called(u) : Of(n).kind = "Thumbnail"
    BY TargetFacts
  <2>2. ASSUME NEW n \in Called(u), Of(n).kind = "Thumbnail"
        PROVE  \E o : o \in Target(u, {"Thumbnail"})
    <3>1. n \in DOMAIN doc /\ Of(n).kind \in Attached
      BY <2>2, TargetFacts DEF Attached
    <3>2. PICK o \in DOMAIN objects : objects[o].at = n /\ objects[o].kind = Of(n).kind
      BY <3>1, ObjectAt
    <3> QED
      BY <2>2, <3>2, TargetFacts
  <2> QED
    BY <2>1, <2>2
<1> QED
  BY <1>1, <1>2

-----------------------------------------------------------------------------
(* What the resolution finds: the bindings.                                   *)

\* A binding, told from the tree: the object is what the element at via means.
Means(b) ==
  /\ b.via \in Associating \cup Owned(Attached)
  /\ objects[b.object].at \in Meant(b.via)
  /\ IF KindAbove(b.via) = "Metadata" THEN b.image = 0
     ELSE b.image # 0 /\ images[b.image] = OwnerOf(b.via)
  /\ objects[b.object].kind \in Entries \cup (IF b.image = 0 THEN {"Table"} ELSE Attached)

LEMMA EventFacts ==
  ASSUME TypeOK, InvBuilder, NEW j \in DOMAIN events
  PROVE  /\ events[j].at \in DOMAIN doc /\ events[j].at \in Associating
         /\ events[j].object \in 0 .. Len(objects)
         /\ events[j].object # 0 => events[j].object \in DOMAIN objects
         /\ events[j].image \in 0 .. Len(images)
         /\ events[j].image # 0 => events[j].image \in DOMAIN images
         /\ IF Of(events[j].at).kind = "Reference"
            THEN events[j].object = 0 /\ events[j].ref = Of(events[j].at).ref
            ELSE /\ events[j].object # 0 /\ events[j].ref = None
                 /\ objects[events[j].object].at = events[j].at
                 /\ Of(events[j].at).kind \in Entries
         /\ IF KindAbove(events[j].at) = "Metadata" THEN events[j].image = 0
            ELSE /\ events[j].image # 0
                 /\ images[events[j].image] = OwnerOf(events[j].at)
<1>1. events[j] \in [at : DOMAIN doc, object : 0 .. Len(objects),
                     ref : Uids \cup {None}, image : 0 .. Len(images)]
  <2>1. events \in Seq([at : DOMAIN doc, object : 0 .. Len(objects),
                        ref : Uids \cup {None}, image : 0 .. Len(images)])
    BY DEF TypeOK
  <2> QED
    BY <2>1, SequenceFacts
<1>2. /\ DOMAIN objects = 1 .. Len(objects) /\ Len(objects) \in Nat
      /\ DOMAIN images = 1 .. Len(images) /\ Len(images) \in Nat
  BY SequenceFacts DEF TypeOK
<1>3. EventOf(j) /\ events[j].at \in Associating
  BY DEF InvBuilder, InvEvents
<1>4. \A n \in Associating : Of(n).kind \in Entries \/ Of(n).kind = "Reference"
  BY DEF Associating, OfKind
<1> QED
  BY <1>1, <1>2, <1>3, <1>4 DEF EventOf

\* The objects a binding event stands for.
BoundBy(j) ==
  IF events[j].object # 0 THEN {events[j].object} ELSE Target(events[j].ref, Bindable(j))

LEMMA BindingsMean ==
  ASSUME TypeOK, InvBuilder
  PROVE  AllBindings = {b \in Binding : Means(b)}
<1>1. \A b : b \in AllBindings <=>
        \/ \E j \in DOMAIN own :
             b = [object |-> own[j].object, image |-> own[j].image, via |-> own[j].at]
        \/ \E j \in DOMAIN events : \E o \in BoundBy(j) :
             b = [object |-> o, image |-> events[j].image, via |-> events[j].at]
  BY DEF AllBindings, BoundBy
<1>2. /\ DOMAIN images = 1 .. Len(images) /\ Len(images) \in Nat
      /\ \A i, j \in DOMAIN images : images[i] = images[j] => i = j
  BY SequenceFacts DEF TypeOK, InvBuilder, InvImages
<1>3. \A n \in Owned(Attached) :
        /\ n \in DOMAIN doc /\ KindAbove(n) = "Image" /\ Of(n).kind \in Attached
        /\ OwnerOf(n) = doc[n].parent
  BY DEF Owned, OwnerOf, OfKind, Places, Entries, Attached
<1>4. "Reference" \notin Attached /\ Attached \cap Entries = {} /\ "Reference" \notin Entries
  BY DEF Attached, Entries
<1>5. /\ {own[j].at : j \in DOMAIN own} = Owned(Attached)
      /\ {events[j].at : j \in DOMAIN events} = Associating
  BY DEF InvBuilder, InvOwn, InvEvents
<1>6. ASSUME NEW j \in DOMAIN own,
             NEW b, b = [object |-> own[j].object, image |-> own[j].image, via |-> own[j].at]
      PROVE  b \in Binding /\ Means(b)
  <2>1. /\ own[j].at \in DOMAIN doc /\ own[j].object \in DOMAIN objects
        /\ own[j].image \in DOMAIN images
        /\ objects[own[j].object].at = own[j].at
        /\ images[own[j].image] = doc[own[j].at].parent
    BY OwnFacts
  <2>2. own[j].at \in Owned(Attached)
    BY <1>5
  <2>3. b.object = own[j].object /\ b.image = own[j].image /\ b.via = own[j].at
    BY <1>6
  <2>4. b \in Binding
    BY <1>2, <1>6, <2>1 DEF Binding
  <2>5. own[j].at \in Meant(own[j].at)
    BY <1>3, <1>4, <2>2 DEF Meant
  <2>6. objects[own[j].object].kind = Of(own[j].at).kind
    BY <2>1, ObjectFacts DEF Describes
  <2>7. own[j].image # 0
    BY <1>2, <2>1
  <2> QED
    BY <1>3, <2>1, <2>2, <2>3, <2>4, <2>5, <2>6, <2>7 DEF Means
<1>7. ASSUME NEW j \in DOMAIN events, NEW o \in BoundBy(j),
             NEW b, b = [object |-> o, image |-> events[j].image, via |-> events[j].at]
      PROVE  b \in Binding /\ Means(b)
  <2> PICK n : n = events[j].at
    OBVIOUS
  <2>1. /\ n \in DOMAIN doc /\ n \in Associating
        /\ events[j].object # 0 => events[j].object \in DOMAIN objects
        /\ events[j].image \in 0 .. Len(images)
        /\ IF Of(n).kind = "Reference"
           THEN events[j].object = 0 /\ events[j].ref = Of(n).ref
           ELSE /\ events[j].object # 0
                /\ objects[events[j].object].at = n
                /\ Of(n).kind \in Entries
        /\ IF KindAbove(n) = "Metadata" THEN events[j].image = 0
           ELSE events[j].image # 0 /\ images[events[j].image] = OwnerOf(n)
    BY EventFacts
  <2>2. b.object = o /\ b.image = events[j].image /\ b.via = n
    BY <1>7
  <2>3. /\ o \in DOMAIN objects /\ objects[o].at \in Meant(n)
        /\ objects[o].kind \in Entries \cup (IF events[j].image = 0 THEN {"Table"} ELSE Attached)
    <3>1. CASE Of(n).kind = "Reference"
      <4>1. o \in Target(Of(n).ref, Bindable(j))
        BY <1>7, <2>1, <3>1 DEF BoundBy
      <4> QED
        BY <3>1, <4>1, TargetFacts DEF Meant, Bindable
    <3>2. CASE Of(n).kind # "Reference"
      <4>1. o = events[j].object /\ objects[o].at = n
        BY <1>7, <2>1, <3>2 DEF BoundBy
      <4>2. o \in DOMAIN objects /\ objects[o].kind = Of(n).kind
        BY <2>1, <3>2, <4>1, ObjectFacts DEF Describes
      <4> QED
        BY <2>1, <3>2, <4>1, <4>2 DEF Meant
    <3> QED
      BY <3>1, <3>2
  <2>4. b \in Binding
    BY <1>7, <2>1, <2>3 DEF Binding
  <2> QED
    BY <2>1, <2>2, <2>3, <2>4 DEF Means
<1>8. ASSUME NEW b \in Binding, Means(b)
      PROVE  b \in AllBindings
  <2> PICK n, o, i : n = b.via /\ o = b.object /\ i = b.image
    OBVIOUS
  <2>1. /\ b = [object |-> o, image |-> i, via |-> n]
        /\ o \in DOMAIN objects /\ i \in 0 .. Len(images) /\ n \in DOMAIN doc
    BY DEF Binding
  <2>2. /\ n \in Associating \cup Owned(Attached)
        /\ objects[o].at \in Meant(n)
        /\ IF KindAbove(n) = "Metadata" THEN i = 0 ELSE i # 0 /\ images[i] = OwnerOf(n)
        /\ objects[o].kind \in Entries \cup (IF i = 0 THEN {"Table"} ELSE Attached)
    BY <1>8 DEF Means
  <2>3. i # 0 => i \in DOMAIN images
    BY <1>2, <2>1
  <2>4. \A x, y \in DOMAIN objects : objects[x].at = objects[y].at => x = y
    BY ObjectFacts
  <2>5. CASE n \in Owned(Attached)
    <3>1. PICK j \in DOMAIN own : own[j].at = n
      BY <1>5, <2>5
    <3>2. /\ own[j].object \in DOMAIN objects /\ own[j].image \in DOMAIN images
          /\ objects[own[j].object].at = n
          /\ images[own[j].image] = doc[n].parent
      BY <3>1, OwnFacts
    <3>3. objects[o].at = n /\ KindAbove(n) = "Image"
      BY <1>3, <1>4, <2>2, <2>5 DEF Meant
    <3>4. own[j].object = o /\ own[j].image = i
      BY <1>2, <1>3, <2>1, <2>2, <2>3, <2>4, <2>5, <3>2, <3>3
    <3> QED
      BY <1>1, <2>1, <3>1, <3>4
  <2>6. CASE n \in Associating
    <3>1. PICK j \in DOMAIN events : events[j].at = n
      BY <1>5, <2>6
    <3>2. /\ events[j].object # 0 => events[j].object \in DOMAIN objects
          /\ events[j].image # 0 => events[j].image \in DOMAIN images
          /\ IF Of(n).kind = "Reference"
             THEN events[j].object = 0 /\ events[j].ref = Of(n).ref
             ELSE events[j].object # 0 /\ objects[events[j].object].at = n
          /\ IF KindAbove(n) = "Metadata" THEN events[j].image = 0
             ELSE events[j].image # 0 /\ images[events[j].image] = OwnerOf(n)
      BY <3>1, EventFacts
    <3>3. events[j].image = i
      BY <1>2, <2>2, <2>3, <3>2
    <3>4. o \in BoundBy(j)
      <4>1. CASE Of(n).kind = "Reference"
        <5>1. objects[o].at \in Called(events[j].ref) /\ events[j].object = 0
          BY <2>2, <3>2, <4>1 DEF Meant
        <5>2. objects[o].kind \in Bindable(j)
          BY <2>2, <3>3 DEF Bindable
        <5>3. o \in Target(events[j].ref, Bindable(j))
          BY <2>1, <5>1, <5>2, TargetFacts
        <5> QED
          BY <5>1, <5>3 DEF BoundBy
      <4>2. CASE Of(n).kind # "Reference"
        <5>1. objects[o].at = n
          BY <2>2, <4>2 DEF Meant
        <5>2. events[j].object = o /\ events[j].object # 0
          BY <2>1, <2>4, <3>2, <4>2, <5>1
        <5> QED
          BY <5>2 DEF BoundBy
      <4> QED
        BY <4>1, <4>2
    <3> QED
      BY <1>1, <2>1, <3>1, <3>3, <3>4
  <2> QED
    BY <2>2, <2>5, <2>6
<1> QED
  BY <1>1, <1>6, <1>7, <1>8

\* What the Metadata element refers to, and who refers to a Structure.
LEMMA ProperRight ==
  ASSUME TypeOK, InvBuilder
  PROVE  ProperTargets <=>
           \A r \in OfKind({"Reference"}) : \A n \in Called(Of(r).ref) :
             /\ KindAbove(r) = "Metadata" => Of(n).kind \notin {"FITSKeyword", "Table"}
             /\ KindAbove(r) \in {"Image", "Metadata"} => Of(n).kind # "Structure"
<1>1. AllBindings = {b \in Binding : Means(b)}
  BY BindingsMean
<1>2. Entries = {"Property", "FITSKeyword"} /\ "Table" \in Attached
      /\ "Reference" \notin Entries /\ "Reference" \notin Attached
      /\ "Property" \notin Attached /\ "FITSKeyword" \notin Attached
  BY DEF Entries, Attached
<1>3. \A r \in OfKind({"Reference"}) :
        r \in DOMAIN doc /\ Of(r).kind = "Reference" /\ Of(r).ref # None
  BY PlaceFacts DEF OfKind, Places
<1>4. \A r \in OfKind({"Reference"}) : KindAbove(r) \in {"Image", "Metadata"} <=> r \in Associating
  BY <1>2 DEF Associating, OfKind
<1>5. (\A b \in AllBindings : b.image = 0 => objects[b.object].kind = "Property") <=>
        \A r \in OfKind({"Reference"}) : \A n \in Called(Of(r).ref) :
          KindAbove(r) = "Metadata" => Of(n).kind \notin {"FITSKeyword", "Table"}
  <2>1. ASSUME \A b \in AllBindings : b.image = 0 => objects[b.object].kind = "Property",
               NEW r \in OfKind({"Reference"}), NEW n \in Called(Of(r).ref),
               KindAbove(r) = "Metadata", Of(n).kind \in {"FITSKeyword", "Table"}
        PROVE  FALSE
    <3>1. n \in DOMAIN doc /\ Of(n).kind \in Attached \cup Entries
      BY <1>2, <2>1, TargetFacts
    <3>2. PICK o \in DOMAIN objects : objects[o].at = n /\ objects[o].kind = Of(n).kind
      BY <3>1, ObjectAt
    <3> PICK b : b = [object |-> o, image |-> 0, via |-> r]
      OBVIOUS
    <3>3. b.object = o /\ b.image = 0 /\ b.via = r
      OBVIOUS
    <3>4. b \in Binding
      <4>1. 0 \in 0 .. Len(images)
        BY SequenceFacts DEF TypeOK
      <4> QED
        BY <1>3, <3>2, <4>1 DEF Binding
    <3>5. n \in Meant(r)
      BY <1>3 DEF Meant
    <3>6. Means(b)
      BY <1>2, <1>4, <2>1, <3>2, <3>3, <3>5 DEF Means
    <3> QED
      BY <1>1, <2>1, <3>2, <3>3, <3>4, <3>6
  <2>2. ASSUME \A r \in OfKind({"Reference"}) : \A n \in Called(Of(r).ref) :
                 KindAbove(r) = "Metadata" => Of(n).kind \notin {"FITSKeyword", "Table"},
               NEW b \in AllBindings, b.image = 0
        PROVE  objects[b.object].kind = "Property"
    <3>1. b \in Binding /\ Means(b)
      BY <1>1
    <3> PICK n, o : n = b.via /\ o = b.object
      OBVIOUS
    <3>2. o \in DOMAIN objects /\ n \in DOMAIN doc
      BY <3>1 DEF Binding
    <3>3. /\ n \in Associating \cup Owned(Attached) /\ objects[o].at \in Meant(n)
          /\ KindAbove(n) = "Metadata" /\ objects[o].kind \in Entries \cup {"Table"}
      BY <2>2, <3>1 DEF Means
    <3>4. objects[o].kind = Of(objects[o].at).kind /\ objects[o].at \in DOMAIN doc
      BY <3>2, ObjectFacts DEF Describes
    <3>5. n \in Associating
      BY <3>3 DEF Owned
    <3>6. CASE Of(n).kind = "Reference"
      <4>1. n \in OfKind({"Reference"}) /\ objects[o].at \in Called(Of(n).ref)
        BY <3>2, <3>3, <3>6 DEF Meant, OfKind, Places
      <4> QED
        BY <1>2, <2>2, <3>3, <3>4, <4>1
    <3>7. CASE Of(n).kind # "Reference"
      <4>1. objects[o].at = n /\ Of(n).kind \in Entries
        BY <3>3, <3>5, <3>7 DEF Meant, Associating, OfKind
      <4>2. InPlace(n)
        BY <3>2 DEF InvBuilder, SoundSoFar, Places
      <4>3. Of(n).kind # "FITSKeyword"
        BY <3>3, <4>2 DEF InPlace
      <4> QED
        BY <1>2, <3>4, <4>1, <4>3
    <3> QED
      BY <3>6, <3>7
  <2> QED
    BY <2>1, <2>2
<1>6. (\A j \in DOMAIN events : Target(events[j].ref, {"Structure"}) = {}) <=>
        \A r \in OfKind({"Reference"}) : \A n \in Called(Of(r).ref) :
          KindAbove(r) \in {"Image", "Metadata"} => Of(n).kind # "Structure"
  <2>1. ASSUME \A j \in DOMAIN events : Target(events[j].ref, {"Structure"}) = {},
               NEW r \in OfKind({"Reference"}), NEW n \in Called(Of(r).ref),
               KindAbove(r) \in {"Image", "Metadata"}, Of(n).kind = "Structure"
        PROVE  FALSE
    <3>1. PICK j \in DOMAIN events : events[j].at = r
      <4>1. {events[j].at : j \in DOMAIN events} = Associating
        BY DEF InvBuilder, InvEvents
      <4>2. r \in Associating
        BY <1>4, <2>1
      <4> QED
        BY <4>1, <4>2
    <3>2. events[j].ref = Of(r).ref
      BY <1>3, <3>1, EventFacts
    <3>3. n \in DOMAIN doc
      BY TargetFacts
    <3>4. PICK o \in DOMAIN objects : objects[o].at = n /\ objects[o].kind = Of(n).kind
      BY <2>1, <3>3, ObjectAt
    <3>5. o \in Target(Of(r).ref, {"Structure"})
      BY <2>1, <3>4, TargetFacts
    <3> QED
      BY <2>1, <3>2, <3>5
  <2>2. ASSUME \A r \in OfKind({"Reference"}) : \A n \in Called(Of(r).ref) :
                 KindAbove(r) \in {"Image", "Metadata"} => Of(n).kind # "Structure",
               NEW j \in DOMAIN events, NEW o \in Target(events[j].ref, {"Structure"})
        PROVE  FALSE
    <3>1. events[j].ref # None
      BY DEF Target
    <3>2. /\ Of(events[j].at).kind = "Reference" /\ events[j].ref = Of(events[j].at).ref
          /\ events[j].at \in Associating /\ events[j].at \in DOMAIN doc
      BY <3>1, EventFacts
    <3>3. events[j].at \in OfKind({"Reference"})
      BY <3>2 DEF OfKind, Places
    <3>4. objects[o].at \in Called(events[j].ref) /\ Of(objects[o].at).kind = "Structure"
      BY TargetFacts
    <3> QED
      BY <1>4, <2>2, <3>2, <3>3, <3>4
  <2> QED
    BY <2>1, <2>2
<1> QED
  BY <1>5, <1>6 DEF ProperTargets

-----------------------------------------------------------------------------
(* What the resolution finds: the Structures of Tables.                       *)

\* A Table has one Structure, inside or by reference, that fits its rows.
Given(t) == Children(t, {"Structure", "Reference"})
Fitting(t) ==
  /\ Cardinality(Given(t)) = 1
  /\ \A g \in Given(t) : \A s \in Meant(g) :
       /\ Of(s).kind = "Structure" /\ (s = g \/ doc[s].parent = 0)
       /\ Of(t).size # 0 => Of(t).size = Of(s).size

\* How many Structures a Table was given.
LEMMA GivenCount ==
  ASSUME TypeOK, InvBuilder, NEW o \in DOMAIN objects, objects[o].kind = "Table",
         NEW t, t = objects[o].at
  PROVE  /\ IsFiniteSet(Given(t))
         /\ Given(t) = Children(t, {"Structure"}) \cup Children(t, {"Reference"})
         /\ Cardinality(ReferencesOf(o)) \in Nat
         /\ Cardinality(Given(t)) =
              Cardinality(ReferencesOf(o)) + (IF objects[o].structure # 0 THEN 1 ELSE 0)
         /\ ReferencesOf(o) = {} <=> Children(t, {"Reference"}) = {}
<1> DEFINE S == Children(t, {"Structure"})
           R == Children(t, {"Reference"})
<1>1. Given(t) = S \cup R
  BY DEF Given, Children, OfKind
<1>2. S \cap R = {}
  BY DEF Children, OfKind
<1>3. IsFiniteSet(S) /\ IsFiniteSet(R) /\ Cardinality(S) \in Nat /\ Cardinality(R) \in Nat
  BY FinitePlaces
<1>4. Cardinality(ReferencesOf(o)) = Cardinality(R)
  BY DEF InvBuilder, InvTableReferences
<1>5. t \in OfKind({"Table"})
  BY ObjectFacts DEF Describes, OfKind, Places
<1>6. Cardinality(S) <= 1
  BY <1>5 DEF InvBuilder, SoundSoFar
<1>7. objects[o].structure = 0 <=> S = {}
  BY InsideStructure
<1>8. IsFiniteSet(ReferencesOf(o))
  <2>1. ReferencesOf(o) \subseteq DOMAIN structureReferences
    BY DEF ReferencesOf
  <2> QED
    BY <2>1, FinitePlaces, FS_Subset
<1> HIDE DEF S, R
<1>9. /\ IsFiniteSet(S \cup R)
      /\ Cardinality(S \cup R) = Cardinality(S) + Cardinality(R) - Cardinality(S \cap R)
  BY <1>3, FS_Union
<1>10. /\ Cardinality({}) = 0
       /\ Cardinality(S) = 0 <=> S = {}
       /\ Cardinality(R) = 0 <=> R = {}
       /\ Cardinality(ReferencesOf(o)) = 0 <=> ReferencesOf(o) = {}
  BY <1>3, <1>8, FS_EmptySet
<1>11. Cardinality(S) = IF objects[o].structure # 0 THEN 1 ELSE 0
  BY <1>3, <1>6, <1>7, <1>10
<1>12. Cardinality(S \cup R) = Cardinality(R) + (IF objects[o].structure # 0 THEN 1 ELSE 0)
  BY <1>2, <1>3, <1>9, <1>10, <1>11
<1>13. ReferencesOf(o) = {} <=> R = {}
  BY <1>4, <1>10
<1> QED
  BY <1>1, <1>3, <1>4, <1>9, <1>12, <1>13 DEF S, R

LEMMA TableRight ==
  ASSUME TypeOK, InvBuilder, ReferencesNamed,
         NEW o \in DOMAIN objects, objects[o].kind = "Table", NEW t, t = objects[o].at
  PROVE  TableFits(o) <=> Fitting(t)
<1> PICK c : c = Cardinality(ReferencesOf(o))
  OBVIOUS
<1>1. /\ IsFiniteSet(Given(t))
      /\ Given(t) = Children(t, {"Structure"}) \cup Children(t, {"Reference"})
      /\ c \in Nat
      /\ Cardinality(Given(t)) = c + (IF objects[o].structure # 0 THEN 1 ELSE 0)
      /\ ReferencesOf(o) = {} <=> Children(t, {"Reference"}) = {}
  BY GivenCount
<1>2. c = 0 <=> ReferencesOf(o) = {}
  <2>1. ReferencesOf(o) \subseteq DOMAIN structureReferences
    BY DEF ReferencesOf
  <2>2. IsFiniteSet(ReferencesOf(o))
    BY <2>1, FinitePlaces, FS_Subset
  <2> QED
    BY <2>2, FS_EmptySet
<1>3. TwiceStructured(o) <=> c + (IF objects[o].structure # 0 THEN 1 ELSE 0) > 1
  BY DEF TwiceStructured
<1>4. /\ t \in DOMAIN doc /\ Of(t).kind = "Table" /\ Of(t).size = objects[o].size
      /\ \A x \in DOMAIN objects : /\ objects[x].size = Of(objects[x].at).size
                                   /\ objects[x].kind = Of(objects[x].at).kind
                                   /\ objects[x].at \in DOMAIN doc
                                   /\ objects[x].standalone <=> doc[objects[x].at].parent = 0
      /\ \A x, y \in DOMAIN objects : objects[x].at = objects[y].at => x = y
  BY ObjectFacts DEF Describes
<1>5. CASE Cardinality(Given(t)) # 1
  <2>1. ~Fitting(t)
    BY <1>5 DEF Fitting
  <2>2. CASE Cardinality(Given(t)) = 0
    <3>1. c = 0 /\ objects[o].structure = 0
      BY <1>1, <2>2
    <3>2. StructuresOf(o) = {}
      BY <1>2, <3>1 DEF StructuresOf
    <3> QED
      BY <2>1, <3>2 DEF TableFits
  <2>3. CASE Cardinality(Given(t)) # 0
    <3>1. TwiceStructured(o)
      BY <1>1, <1>3, <1>5, <2>3
    <3> QED
      BY <2>1, <3>1 DEF TableFits
  <2> QED
    BY <2>2, <2>3
<1>6. CASE Cardinality(Given(t)) = 1 /\ objects[o].structure # 0
  <2> PICK s : s = objects[o].structure
    OBVIOUS
  <2>1. c = 0 /\ ReferencesOf(o) = {} /\ Children(t, {"Reference"}) = {}
    BY <1>1, <1>2, <1>6
  <2>2. ~TwiceStructured(o)
    BY <1>3, <1>6, <2>1
  <2>3. StructuresOf(o) = {s}
    BY <1>6, <2>1 DEF StructuresOf
  <2>4. s \in DOMAIN objects /\ objects[s].at \in Children(t, {"Structure"})
    BY <1>6, InsideStructure
  <2>5. Given(t) = {objects[s].at}
    <3>1. PICK x : Given(t) = {x}
      BY <1>1, <1>6, FS_Singleton
    <3> QED
      BY <1>1, <2>4, <3>1
  <2> PICK g : g = objects[s].at
    OBVIOUS
  <2>6. Of(g).kind = "Structure" /\ Of(g).size = objects[s].size
    BY <1>4, <2>4 DEF Children, OfKind
  <2>7. Meant(g) = {g}
    BY <2>6 DEF Meant
  <2>8. Fitting(t) <=> (Of(t).size # 0 => Of(t).size = Of(g).size)
    BY <1>6, <2>5, <2>6, <2>7 DEF Fitting
  <2>9. TableFits(o) <=> objects[o].size \in {0, objects[s].size}
    BY <2>2, <2>3 DEF TableFits
  <2> QED
    BY <1>4, <2>6, <2>8, <2>9
<1>7. CASE Cardinality(Given(t)) = 1 /\ objects[o].structure = 0
  <2>1. c = 1 /\ Children(t, {"Structure"}) = {}
    BY <1>1, <1>7, InsideStructure
  <2>2. ~TwiceStructured(o)
    BY <1>3, <1>7, <2>1
  <2>3. PICK r : Given(t) = {r}
    BY <1>1, <1>7, FS_Singleton
  <2>4. r \in Children(t, {"Reference"})
    BY <1>1, <2>1, <2>3
  <2>5. /\ r \in DOMAIN doc /\ r \in OfKind({"Reference"}) /\ Of(r).kind = "Reference"
        /\ doc[r].parent = t /\ t # 0
    BY <1>4, <2>4, PlaceFacts DEF Children, OfKind, Places
  <2>6. r \in TableReferences
    BY <1>4, <2>5 DEF TableReferences, KindAbove
  <2>7. PICK j \in DOMAIN structureReferences : RefersToStructure(j, r)
    BY <2>6 DEF InvBuilder, InvTableReferences
  <2>8. structureReferences[j].table \in DOMAIN objects
    <3>1. structureReferences \in Seq([table : DOMAIN objects, ref : Uids])
      BY DEF TypeOK
    <3>2. structureReferences[j] \in [table : DOMAIN objects, ref : Uids]
      BY <3>1, SequenceFacts
    <3> QED
      BY <3>2
  <2> PICK u : u = Of(r).ref
    OBVIOUS
  <2>9. structureReferences[j].table = o /\ structureReferences[j].ref = u
    BY <1>4, <2>5, <2>7, <2>8 DEF RefersToStructure
  <2>10. ReferencesOf(o) = {j}
    <3>1. j \in ReferencesOf(o)
      BY <2>9 DEF ReferencesOf
    <3>2. ReferencesOf(o) \subseteq DOMAIN structureReferences
      BY DEF ReferencesOf
    <3>3. IsFiniteSet(ReferencesOf(o))
      BY <3>2, FinitePlaces, FS_Subset
    <3>4. PICK x : ReferencesOf(o) = {x}
      BY <2>1, <3>3, FS_Singleton
    <3> QED
      BY <3>1, <3>4
  <2>11. StructuresOf(o) = Standalone(u)
    BY <2>9, <2>10 DEF StructuresOf
  <2>12. PICK n : n \in Called(u)
    BY <2>5 DEF ReferencesNamed
  <2>13. Called(u) = {n} /\ n \in DOMAIN doc
    BY <2>12, TargetFacts
  <2>14. Meant(r) = {n}
    BY <2>5, <2>13 DEF Meant
  <2>15. Fitting(t) <=> /\ Of(n).kind = "Structure" /\ (n = r \/ doc[n].parent = 0)
                        /\ Of(t).size # 0 => Of(t).size = Of(n).size
    BY <1>7, <2>3, <2>14 DEF Fitting
  <2>17. Of(n).kind = "Structure" => n # r
    BY <2>5
  <2>18. CASE Of(n).kind = "Structure" /\ doc[n].parent = 0
    <3>1. PICK x \in DOMAIN objects : objects[x].at = n /\ objects[x].kind = "Structure"
      BY <2>13, <2>18, ObjectAt
    <3>2. x \in Standalone(u)
      <4>1. x \in Target(u, {"Structure"})
        BY <2>12, <3>1, TargetFacts
      <4> QED
        BY <1>4, <2>18, <3>1, <4>1 DEF Standalone
    <3>3. \A y \in Standalone(u) : y = x
      <4> TAKE y \in Standalone(u)
      <4>1. y \in DOMAIN objects /\ objects[y].at \in Called(u)
        BY TargetFacts DEF Standalone
      <4> QED
        BY <1>4, <2>13, <3>1, <4>1
    <3>4. Standalone(u) = {x}
      BY <3>2, <3>3
    <3>5. TableFits(o) <=> objects[o].size \in {0, objects[x].size}
      BY <2>2, <2>11, <3>4 DEF TableFits
    <3>6. objects[x].size = Of(n).size
      BY <1>4, <3>1
    <3> QED
      BY <1>4, <2>15, <2>18, <3>5, <3>6
  <2>19. CASE ~(Of(n).kind = "Structure" /\ doc[n].parent = 0)
    <3>1. ~Fitting(t)
      BY <2>15, <2>17, <2>19
    <3>2. Standalone(u) = {}
      <4> SUFFICES ASSUME NEW y \in Standalone(u) PROVE FALSE
        OBVIOUS
      <4>1. /\ y \in DOMAIN objects /\ objects[y].at \in Called(u)
            /\ Of(objects[y].at).kind = "Structure" /\ objects[y].standalone
        BY TargetFacts DEF Standalone
      <4> QED
        BY <1>4, <2>13, <2>19, <4>1
    <3> QED
      BY <2>11, <3>1, <3>2 DEF TableFits
  <2> QED
    BY <2>18, <2>19
<1> QED
  BY <1>5, <1>6, <1>7

LEMMA AllTablesRight ==
  ASSUME TypeOK, InvBuilder, ReferencesNamed
  PROVE  (\A o \in DOMAIN objects : objects[o].kind = "Table" => TableFits(o)) <=>
           \A t \in OfKind({"Table"}) : Fitting(t)
<1>1. ASSUME NEW t \in OfKind({"Table"})
      PROVE  \E o \in DOMAIN objects : objects[o].at = t /\ objects[o].kind = "Table"
  <2>1. t \in DOMAIN doc /\ Of(t).kind = "Table" /\ "Table" \in Attached
    BY DEF OfKind, Places, Attached
  <2> QED
    BY <2>1, ObjectAt
<1>2. ASSUME NEW o \in DOMAIN objects, objects[o].kind = "Table"
      PROVE  objects[o].at \in OfKind({"Table"})
  BY <1>2, ObjectFacts DEF Describes, OfKind, Places
<1>3. \A o \in DOMAIN objects : objects[o].kind = "Table" =>
        (TableFits(o) <=> Fitting(objects[o].at))
  BY TableRight
<1> QED
  BY <1>1, <1>2, <1>3

-----------------------------------------------------------------------------
(* What the resolution finds: the bindings are the associations.              *)

\* What is bound without an image is a Property of the unit.
UnitProperties == \A b \in AllBindings : b.image = 0 => objects[b.object].kind = "Property"

LEMMA BindingFacts ==
  ASSUME TypeOK, InvBuilder, NEW b \in AllBindings
  PROVE  /\ b \in Binding /\ Means(b)
         /\ b = [object |-> b.object, image |-> b.image, via |-> b.via]
         /\ b.object \in DOMAIN objects /\ b.via \in DOMAIN doc
         /\ b.image # 0 => b.image \in DOMAIN images
         /\ b.image = 0 <=> KindAbove(b.via) = "Metadata"
         /\ b.image = 0 <=> Of(OwnerOf(b.via)).kind = "Metadata"
         /\ b.image # 0 <=> Of(OwnerOf(b.via)).kind = "Image"
         /\ b.image # 0 => images[b.image] = OwnerOf(b.via)
         /\ OwnerOf(b.via) \in DOMAIN doc
         /\ Placed(b) = [element |-> objects[b.object].at,
                         owner |-> OwnerOf(b.via), via |-> b.via]
         /\ objects[b.object].at \in DOMAIN doc
         /\ objects[b.object].kind = Of(objects[b.object].at).kind
         /\ objects[b.object].name = Of(objects[b.object].at).name
<1>1. b \in Binding /\ Means(b)
  BY BindingsMean
<1>2. /\ b = [object |-> b.object, image |-> b.image, via |-> b.via]
      /\ b.object \in DOMAIN objects /\ b.via \in DOMAIN doc /\ b.image \in 0 .. Len(images)
  BY <1>1 DEF Binding
<1>3. DOMAIN images = 1 .. Len(images) /\ Len(images) \in Nat
  BY SequenceFacts DEF TypeOK
<1>4. b.image # 0 => b.image \in DOMAIN images
  BY <1>2, <1>3
<1>5. b.via \in Associating \cup Owned(Attached)
  BY <1>1 DEF Means
<1>6. /\ OwnerOf(b.via) \in DOMAIN doc
      /\ KindAbove(b.via) = "Metadata" => OwnerOf(b.via) = doc[b.via].parent
      /\ KindAbove(b.via) = "Metadata" <=> Of(OwnerOf(b.via)).kind = "Metadata"
      /\ KindAbove(b.via) # "Metadata" <=> Of(OwnerOf(b.via)).kind = "Image"
  BY <1>5, OwnerFacts
<1>7. /\ b.image = 0 <=> KindAbove(b.via) = "Metadata"
      /\ b.image # 0 => images[b.image] = OwnerOf(b.via)
  BY <1>1 DEF Means
<1>8. Placed(b) = [element |-> objects[b.object].at,
                   owner |-> OwnerOf(b.via), via |-> b.via]
  BY <1>6, <1>7 DEF Placed
<1> QED
  BY <1>1, <1>2, <1>4, <1>6, <1>7, <1>8, ObjectFacts DEF Describes

LEMMA PlacedOnce ==
  ASSUME TypeOK, InvBuilder, NEW b \in AllBindings, NEW c \in AllBindings,
         b.via = c.via, b.object = c.object
  PROVE  b = c
<1>1. \A i, j \in DOMAIN images : images[i] = images[j] => i = j
  BY DEF InvBuilder, InvImages
<1>2. b.image = c.image
  <2>1. /\ b.image = 0 <=> KindAbove(b.via) = "Metadata"
        /\ b.image # 0 => b.image \in DOMAIN images /\ images[b.image] = OwnerOf(b.via)
    BY BindingFacts
  <2>2. /\ c.image = 0 <=> KindAbove(c.via) = "Metadata"
        /\ c.image # 0 => c.image \in DOMAIN images /\ images[c.image] = OwnerOf(c.via)
    BY BindingFacts
  <2> QED
    BY <1>1, <2>1, <2>2
<1>3. b = [object |-> b.object, image |-> b.image, via |-> b.via]
  BY BindingFacts
<1>4. c = [object |-> c.object, image |-> c.image, via |-> c.via]
  BY BindingFacts
<1> QED
  BY <1>2, <1>3, <1>4

LEMMA PlacedInjective ==
  ASSUME TypeOK, InvBuilder, NEW b \in AllBindings, NEW c \in AllBindings,
         Placed(b) = Placed(c)
  PROVE  b = c
<1>1. /\ b.object \in DOMAIN objects
      /\ Placed(b).element = objects[b.object].at /\ Placed(b).via = b.via
  BY BindingFacts
<1>2. /\ c.object \in DOMAIN objects
      /\ Placed(c).element = objects[c.object].at /\ Placed(c).via = c.via
  BY BindingFacts
<1>3. b.object = c.object
  BY <1>1, <1>2, ObjectFacts
<1> QED
  BY <1>1, <1>2, <1>3, PlacedOnce

LEMMA FiniteBindings ==
  ASSUME TypeOK, InvBuilder
  PROVE  IsFiniteSet(AllBindings)
<1> DEFINE f == [b \in AllBindings |-> <<b.object, b.via>>]
           T == (DOMAIN objects) \X (DOMAIN doc)
<1>1. IsFiniteSet(T)
  <2>1. IsFiniteSet(DOMAIN objects) /\ IsFiniteSet(DOMAIN doc)
    BY FinitePlaces
  <2> QED
    BY <2>1, FS_Product
<1>2. f \in [AllBindings -> T]
  <2>1. \A b \in AllBindings : b.object \in DOMAIN objects /\ b.via \in DOMAIN doc
    BY BindingFacts
  <2>2. \A b \in AllBindings : <<b.object, b.via>> \in T
    BY <2>1
  <2> HIDE DEF T
  <2> QED
    BY <2>2
<1>3. \A b, c \in AllBindings : f[b] = f[c] => b = c
  BY PlacedOnce
<1> HIDE DEF f, T
<1>4. f \in Injection(AllBindings, T)
  BY <1>2, <1>3 DEF Injection, IsInjective
<1> QED
  BY <1>1, <1>4, FS_Injection

LEMMA AssociationFacts ==
  ASSUME TypeOK, InvBuilder, NEW a \in Associations
  PROVE  /\ a = [element |-> a.element, owner |-> a.owner, via |-> a.via]
         /\ a.element \in DOMAIN doc /\ a.owner \in DOMAIN doc /\ a.via \in DOMAIN doc
         /\ a.owner = OwnerOf(a.via)
         /\ a.element \in Meant(a.via)
         /\ Of(a.owner).kind \in {"Image", "Metadata"}
         /\ Of(a.element).kind \in Attached \cup Entries
         /\ Of(a.owner).kind = "Metadata" => Of(a.element).kind \in Entries
<1>1. /\ a \in [element : DOMAIN doc, owner : DOMAIN doc, via : DOMAIN doc]
      /\ a.owner = OwnerOf(a.via)
      /\ a.element \in Meant(a.via)
      /\ \/ Of(a.element).kind \in Entries /\ Of(a.owner).kind \in {"Image", "Metadata"}
         \/ Of(a.element).kind \in Attached /\ Of(a.owner).kind = "Image"
  BY DEF Associations, Places
<1>2. /\ a = [element |-> a.element, owner |-> a.owner, via |-> a.via]
      /\ a.element \in DOMAIN doc /\ a.owner \in DOMAIN doc /\ a.via \in DOMAIN doc
  BY <1>1
<1> QED
  BY <1>1, <1>2

\* What stands in an Image is in that Image.
LEMMA AboveImage ==
  ASSUME TypeOK, InvBuilder, NEW n \in DOMAIN doc, KindAbove(n) = "Image"
  PROVE  InImage(n) /\ doc[n].top = doc[n].parent
<1>1. doc[n].parent \in DOMAIN doc /\ Of(doc[n].parent).kind = "Image"
  BY PlaceFacts DEF KindAbove
<1>2. doc[doc[n].parent].parent = 0
  BY <1>1 DEF InvBuilder, SoundSoFar, InPlace, Places
<1>3. doc[n].parent # 0
  BY <1>1, PlaceFacts
<1>4. doc[n].top = doc[n].parent
  BY <1>1, <1>2, <1>3 DEF InvBuilder, InvTops, Places
<1> QED
  BY <1>1, <1>4 DEF InImage

LEMMA PlacedAre ==
  ASSUME TypeOK, InvBuilder, UnitProperties
  PROVE  {Placed(b) : b \in AllBindings} = Associations
<1>1. ASSUME NEW b \in AllBindings
      PROVE  Placed(b) \in Associations
  <2> PICK a : a = Placed(b)
    OBVIOUS
  <2>1. /\ Means(b) /\ b.object \in DOMAIN objects /\ b.via \in DOMAIN doc
        /\ b.image = 0 <=> Of(OwnerOf(b.via)).kind = "Metadata"
        /\ b.image # 0 <=> Of(OwnerOf(b.via)).kind = "Image"
        /\ OwnerOf(b.via) \in DOMAIN doc
        /\ a = [element |-> objects[b.object].at,
                owner |-> OwnerOf(b.via), via |-> b.via]
        /\ objects[b.object].at \in DOMAIN doc
        /\ objects[b.object].kind = Of(objects[b.object].at).kind
    BY BindingFacts
  <2>2. /\ a.element = objects[b.object].at /\ a.owner = OwnerOf(b.via) /\ a.via = b.via
        /\ a \in [element : DOMAIN doc, owner : DOMAIN doc, via : DOMAIN doc]
    BY <2>1
  <2>3. a.element \in Meant(a.via)
    BY <2>1, <2>2 DEF Means
  <2>4. \/ Of(a.element).kind \in Entries /\ Of(a.owner).kind \in {"Image", "Metadata"}
        \/ Of(a.element).kind \in Attached /\ Of(a.owner).kind = "Image"
    <3>1. CASE b.image = 0
      <4>1. objects[b.object].kind = "Property"
        BY <3>1 DEF UnitProperties
      <4> QED
        BY <2>1, <2>2, <3>1, <4>1 DEF Entries
    <3>2. CASE b.image # 0
      BY <2>1, <2>2, <3>2 DEF Means
    <3> QED
      BY <3>1, <3>2
  <2> QED
    BY <2>2, <2>3, <2>4 DEF Associations, Places
<1>2. ASSUME NEW a \in Associations
      PROVE  \E b \in AllBindings : Placed(b) = a
  <2> PICK m, n, w : m = a.element /\ n = a.via /\ w = a.owner
    OBVIOUS
  <2>1. /\ a = [element |-> m, owner |-> w, via |-> n]
        /\ m \in DOMAIN doc /\ w \in DOMAIN doc /\ n \in DOMAIN doc
        /\ w = OwnerOf(n)
        /\ m \in Meant(n)
        /\ Of(w).kind \in {"Image", "Metadata"}
        /\ Of(m).kind \in Attached \cup Entries
        /\ Of(w).kind = "Metadata" => Of(m).kind \in Entries
    BY AssociationFacts
  <2>2. PICK o \in DOMAIN objects : objects[o].at = m /\ objects[o].kind = Of(m).kind
    BY <2>1, ObjectAt
  <2>3. n \in Associating \cup Owned(Attached)
    <3>1. doc[n].parent # 0 /\ w = doc[n].parent => KindAbove(n) = Of(w).kind
      BY DEF KindAbove
    <3>2. w # 0
      BY <2>1, PlaceFacts
    <3>3. CASE Of(n).kind \in Entries
      <4>1. Of(n).kind # "Reference"
        BY <3>3 DEF Entries
      <4>2. InImage(n) \/ w = doc[n].parent
        BY <2>1 DEF OwnerOf
      <4>3. InImage(n) \/ KindAbove(n) = "Metadata" \/ KindAbove(n) = "Image"
        BY <2>1, <3>1, <3>2, <4>2
      <4>4. KindAbove(n) = "Image" => InImage(n)
        BY <2>1, AboveImage
      <4> QED
        BY <2>1, <3>3, <4>3, <4>4 DEF Associating, OfKind, Places
    <3>4. CASE Of(n).kind \notin Entries
      <4>1. w = doc[n].parent /\ KindAbove(n) = Of(w).kind
        BY <2>1, <3>1, <3>2, <3>4 DEF OwnerOf
      <4>2. CASE Of(n).kind = "Reference"
        BY <2>1, <4>1, <4>2 DEF Associating, OfKind, Places
      <4>3. CASE Of(n).kind # "Reference"
        <5>1. m = n
          BY <2>1, <4>3 DEF Meant
        <5>2. Of(n).kind \in Attached /\ KindAbove(n) = "Image"
          BY <2>1, <3>4, <4>1, <5>1
        <5> QED
          BY <2>1, <5>2 DEF Owned, OfKind, Places
      <4> QED
        BY <4>2, <4>3
    <3> QED
      BY <3>3, <3>4
  <2>11. /\ KindAbove(n) = "Metadata" <=> Of(w).kind = "Metadata"
         /\ KindAbove(n) # "Metadata" <=> Of(w).kind = "Image"
    BY <2>1, <2>3, OwnerFacts
  <2>4. PICK i \in 0 .. Len(images) :
          IF KindAbove(n) = "Metadata" THEN i = 0 ELSE i # 0 /\ images[i] = w
    <3>1. DOMAIN images = 1 .. Len(images) /\ Len(images) \in Nat
      BY SequenceFacts DEF TypeOK
    <3>2. KindAbove(n) # "Metadata" => \E i \in DOMAIN images : images[i] = w
      BY <2>1, <2>11 DEF InvBuilder, InvImages, OfKind, Places
    <3> QED
      BY <3>1, <3>2
  <2> PICK b : b = [object |-> o, image |-> i, via |-> n]
    OBVIOUS
  <2>5. b.object = o /\ b.image = i /\ b.via = n
    OBVIOUS
  <2>6. b \in Binding
    BY <2>1, <2>2, <2>4 DEF Binding
  <2>7. Means(b)
    <3>1. objects[o].kind \in Entries \cup (IF i = 0 THEN {"Table"} ELSE Attached)
      BY <2>1, <2>2, <2>4, <2>11
    <3> QED
      BY <2>1, <2>2, <2>3, <2>4, <2>5, <3>1 DEF Means
  <2>8. b \in AllBindings
    BY <2>6, <2>7, BindingsMean
  <2>9. Placed(b) = [element |-> objects[b.object].at,
                     owner |-> OwnerOf(b.via), via |-> b.via]
    BY <2>8, BindingFacts
  <2>10. Placed(b) = a
    BY <2>1, <2>2, <2>5, <2>9
  <2> QED
    BY <2>8, <2>10
<1> QED
  BY <1>1, <1>2

\* As many bindings of a kind as associations.
LEMMA KindLimits ==
  ASSUME TypeOK, InvBuilder, UnitProperties, NEW k \in Attached
  PROVE  Cardinality({b \in AllBindings : objects[b.object].kind = k}) =
           Cardinality({a \in Associations : Of(a.element).kind = k})
<1> DEFINE I == {b \in AllBindings : objects[b.object].kind = k}
           J == {a \in Associations : Of(a.element).kind = k}
           f == [b \in I |-> Placed(b)]
<1>1. IsFiniteSet(I)
  BY FiniteBindings, FS_Subset
<1>2. \A b, c \in I : f[b] = f[c] => b = c
  BY PlacedInjective
<1>3. \A b \in AllBindings :
        /\ Placed(b).element = objects[b.object].at /\ Placed(b).via = b.via
        /\ Of(Placed(b).element).kind = objects[b.object].kind
  BY BindingFacts
<1>5. {Placed(b) : b \in AllBindings} = Associations
  BY PlacedAre
<1>6. {f[b] : b \in I} = J
  <2>1. \A b \in I : f[b] \in J
    BY <1>3, <1>5
  <2>2. ASSUME NEW a \in J
        PROVE  \E b \in I : f[b] = a
    <3>1. PICK b \in AllBindings : Placed(b) = a
      BY <1>5
    <3>2. b \in I
      BY <1>3, <3>1
    <3> QED
      BY <3>1, <3>2
  <2> QED
    BY <2>1, <2>2
<1>7. f = [b \in I |-> f[b]]
  OBVIOUS
<1> HIDE DEF f, I, J
<1>8. Cardinality({f[b] : b \in I}) = Cardinality(I)
  BY <1>1, <1>2, <1>7, CountValues
<1> QED
  BY <1>6, <1>8 DEF I, J

\* The unit is one Metadata element.
LEMMA OneUnit ==
  ASSUME TypeOK, InvBuilder, NEW m \in OfKind({"Metadata"}), NEW n \in OfKind({"Metadata"})
  PROVE  m = n
<1> DEFINE S == OfKind({"Metadata"})
<1>1. IsFiniteSet(S) /\ Cardinality(S) \in Nat /\ Cardinality(S) <= 1 /\ m \in S /\ n \in S
  BY FinitePlaces DEF InvBuilder, SoundSoFar
<1> HIDE DEF S
<1>2. Cardinality(S) # 0
  BY <1>1, FS_EmptySet
<1>3. Cardinality(S) = 1
  BY <1>1, <1>2
<1>4. PICK x : S = {x}
  BY <1>1, <1>3, FS_Singleton
<1> QED
  BY <1>1, <1>4

LEMMA SameOwner ==
  ASSUME TypeOK, InvBuilder, NEW b \in AllBindings, NEW c \in AllBindings
  PROVE  b.image = c.image <=> OwnerOf(b.via) = OwnerOf(c.via)
<1>1. /\ b.image = 0 <=> Of(OwnerOf(b.via)).kind = "Metadata"
      /\ b.image # 0 => b.image \in DOMAIN images /\ images[b.image] = OwnerOf(b.via)
      /\ OwnerOf(b.via) \in DOMAIN doc
  BY BindingFacts
<1>2. /\ c.image = 0 <=> Of(OwnerOf(c.via)).kind = "Metadata"
      /\ c.image # 0 => c.image \in DOMAIN images /\ images[c.image] = OwnerOf(c.via)
      /\ OwnerOf(c.via) \in DOMAIN doc
  BY BindingFacts
<1>3. \A i, j \in DOMAIN images : images[i] = images[j] => i = j
  BY DEF InvBuilder, InvImages
<1>4. b.image = 0 /\ c.image = 0 =>
        OwnerOf(b.via) \in OfKind({"Metadata"}) /\ OwnerOf(c.via) \in OfKind({"Metadata"})
  BY <1>1, <1>2 DEF OfKind, Places
<1>5. b.image = 0 /\ c.image = 0 => OwnerOf(b.via) = OwnerOf(c.via)
  BY <1>4, OneUnit
<1> QED
  BY <1>1, <1>2, <1>3, <1>5

IdsApart ==
  \A a, b \in Associations :
    /\ {Of(a.element).kind, Of(b.element).kind} \subseteq {"Property", "Table"}
    /\ a.owner = b.owner /\ Of(a.element).name = Of(b.element).name
    => a = b

LEMMA IdsRight ==
  ASSUME TypeOK, InvBuilder, UnitProperties
  PROVE  IdsUnique <=> IdsApart
<1>1. {Placed(b) : b \in AllBindings} = Associations
  BY PlacedAre
<1>2. \A b \in AllBindings :
        /\ Placed(b).owner = OwnerOf(b.via)
        /\ Of(Placed(b).element).kind = objects[b.object].kind
        /\ Of(Placed(b).element).name = objects[b.object].name
  BY BindingFacts
<1>3. \A b, c \in AllBindings : b.image = c.image <=> Placed(b).owner = Placed(c).owner
  BY <1>2, SameOwner
<1>4. \A b, c \in AllBindings : Placed(b) = Placed(c) <=> b = c
  BY PlacedInjective
<1>5. IdsApart <=>
        \A b, c \in AllBindings :
          /\ {Of(Placed(b).element).kind, Of(Placed(c).element).kind} \subseteq {"Property", "Table"}
          /\ Placed(b).owner = Placed(c).owner
          /\ Of(Placed(b).element).name = Of(Placed(c).element).name
          => Placed(b) = Placed(c)
  BY <1>1 DEF IdsApart
<1> QED
  BY <1>2, <1>3, <1>4, <1>5 DEF IdsUnique

-----------------------------------------------------------------------------
(* The resolution accepts the sound trees.                                    *)

LEMMA ResolvesSound ==
  ASSUME TypeOK, InvBuilder
  PROVE  /\ Resolves <=> Sound
         /\ Resolves => {Placed(b) : b \in AllBindings} = Associations
         /\ AllBindings \subseteq Binding
<1> DEFINE SMetadata == OfKind({"Metadata"}) # {}
           SThumbnails == \A r \in OfKind({"Reference"}) : \A n \in Called(Of(r).ref) :
             KindAbove(r) = "Thumbnail" => Of(n).kind # "Thumbnail"
           SProper == \A r \in OfKind({"Reference"}) : \A n \in Called(Of(r).ref) :
             /\ KindAbove(r) = "Metadata" => Of(n).kind \notin {"FITSKeyword", "Table"}
             /\ KindAbove(r) \in {"Image", "Metadata"} => Of(n).kind # "Structure"
           STables == \A t \in OfKind({"Table"}) : Fitting(t)
           SLimits == \A kind \in Attached :
             Cardinality({a \in Associations : Of(a.element).kind = kind}) <= MaxBindings
           RTables == \A t \in DOMAIN objects : objects[t].kind = "Table" => TableFits(t)
           RThumbnails == \A r \in thumbnailReferences : Target(r, {"Thumbnail"}) = {}
           RLimits == \A kind \in Attached :
             Cardinality({b \in AllBindings : objects[b.object].kind = kind}) <= MaxBindings
<1>1. Sound <=> /\ SMetadata /\ ReferencesNamed /\ SThumbnails /\ SProper
                /\ STables /\ IdsApart /\ SLimits
  BY DEF Sound, ReferencesNamed, Fitting, Given, IdsApart
<1>2. Resolves <=> /\ Occurs("Metadata") /\ references \subseteq uids /\ RThumbnails
                   /\ RTables /\ ProperTargets /\ RLimits /\ IdsUnique
  BY DEF Resolves
<1>3. Occurs("Metadata") <=> SMetadata
  BY DEF Occurs, OfKind, Places, Of
<1>4. references \subseteq uids <=> ReferencesNamed
  BY NamedRight
<1>5. RThumbnails <=> SThumbnails
  BY ThumbnailsRight
<1>6. ReferencesNamed => (RTables <=> STables)
  BY AllTablesRight
<1>7. ProperTargets <=> SProper
  BY ProperRight
<1>8. ProperTargets => UnitProperties
  BY DEF ProperTargets, UnitProperties
<1>9. UnitProperties => (RLimits <=> SLimits)
  BY KindLimits
<1>10. UnitProperties => (IdsUnique <=> IdsApart)
  BY IdsRight
<1>11. UnitProperties => {Placed(b) : b \in AllBindings} = Associations
  BY PlacedAre
<1>12. AllBindings \subseteq Binding
  BY BindingsMean
<1> HIDE DEF SMetadata, SThumbnails, SProper, STables, SLimits, RTables, RThumbnails, RLimits
<1> QED
  BY <1>1, <1>2, <1>3, <1>4, <1>5, <1>6, <1>7, <1>8, <1>9, <1>10, <1>11, <1>12

LEMMA TreeSame ==
  ASSUME UNCHANGED <<tree, builder>>
  PROVE  /\ SoundSoFar' <=> SoundSoFar
         /\ Sound' <=> Sound
         /\ Associations' = Associations
         /\ \A b : Placed(b)' = Placed(b)
<1>1. doc' = doc /\ objects' = objects /\ images' = images
  BY DEF tree, builder
<1>2. SoundSoFar' <=> SoundSoFar
  BY <1>1, SoundStays
<1>3. Associations' = Associations
  BY <1>1 DEF Associations, OwnerOf, InImage, Meant, Called, Places, Of
<1>4. Sound' <=> Sound
  BY <1>1, <1>3 DEF Sound, Meant, Called, Children, KindAbove, OfKind, Places, Of
<1>5. \A b : Placed(b)' = Placed(b)
  BY <1>1 DEF Placed
<1> QED
  BY <1>2, <1>3, <1>4, <1>5

-----------------------------------------------------------------------------
(* Each step, and the specification.                                          *)

LEMMA StartKeeps ==
  ASSUME TypeOK, IInv, NEW e \in Vocabulary, Start(e)
  PROVE  TypeOK' /\ IInv'
<1>1. status = "parsing" /\ InvBuilder
  BY DEF Start, IInv
<1>2. ASSUME TypeOK' /\ InvBuilder' /\ status' = status
      PROVE  TypeOK' /\ IInv'
  BY <1>1, <1>2 DEF IInv, MeansItsTree, InvBuilder
<1>3. CASE StartImage(e)
  BY <1>1, <1>2, <1>3, StartImageKeeps DEF StartImage, Enter
<1>4. CASE StartMetadata(e)
  BY <1>1, <1>2, <1>4, StartMetadataKeeps DEF StartMetadata, Enter
<1>10. CASE StartNested(e)
  BY <1>1, <1>2, <1>10, StartNestedKeeps DEF StartNested, Enter
<1>5. CASE StartEntry(e)
  BY <1>1, <1>2, <1>5, StartEntryKeeps DEF StartEntry, Enter
<1>6. CASE StartAttached(e)
  BY <1>1, <1>2, <1>6, StartAttachedKeeps DEF StartAttached, Enter
<1>7. CASE StartStructure(e)
  BY <1>1, <1>2, <1>7, StartStructureKeeps DEF StartStructure, Enter
<1>8. CASE StartReference(e)
  BY <1>1, <1>2, <1>8, StartReferenceKeeps DEF StartReference, Enter
<1>9. CASE Malformed(e)
  <2>1. TypeOK' /\ ~SoundSoFar' /\ status' = "malformed"
    BY <1>1, <1>9, MalformedKeeps
  <2> QED
    BY <2>1 DEF IInv, MeansItsTree
<1> QED
  BY <1>3, <1>4, <1>5, <1>6, <1>7, <1>8, <1>9, <1>10 DEF Start

LEMMA FinishKeeps ==
  ASSUME TypeOK, IInv, Finish
  PROVE  TypeOK' /\ IInv'
<1>1. status = "parsing" /\ InvBuilder /\ UNCHANGED <<tree, builder>>
  BY DEF Finish, IInv
<1>2. /\ Resolves <=> Sound
      /\ Resolves => {Placed(b) : b \in AllBindings} = Associations
      /\ AllBindings \subseteq Binding
  BY <1>1, ResolvesSound
<1>3. /\ status' = IF Resolves THEN "accepted" ELSE "invalid"
      /\ bindings' = IF Resolves THEN AllBindings ELSE {}
  BY DEF Finish
<1>4. TypeOK'
  BY <1>1, <1>2, <1>3, TypesStay DEF TypeStatus
<1>5. InvBuilder'
  BY <1>1, BuilderStays
<1>6. /\ Sound' <=> Sound
      /\ Associations' = Associations
      /\ \A b : Placed(b)' = Placed(b)
  BY <1>1, TreeSame
<1>7. status' = "invalid" => ~Sound'
  BY <1>2, <1>3, <1>6
<1>8. status' = "accepted" => Sound' /\ {Placed(b) : b \in bindings}' = Associations'
  <2> HAVE status' = "accepted"
  <2>1. Resolves /\ bindings' = AllBindings
    BY <1>3
  <2> PICK B : B = AllBindings
    OBVIOUS
  <2>2. {Placed(b) : b \in B}' = {Placed(b) : b \in B}
    BY <1>6
  <2> QED
    BY <1>2, <1>6, <2>1, <2>2
<1>9. MeansItsTree'
  BY <1>3, <1>7, <1>8 DEF MeansItsTree
<1> QED
  BY <1>4, <1>5, <1>9 DEF IInv

LEMMA NextKeeps ==
  ASSUME TypeOK, IInv, [Next]_vars
  PROVE  TypeOK' /\ IInv'
<1>1. ASSUME NEW e \in Vocabulary, Start(e)
      PROVE  TypeOK' /\ IInv'
  BY <1>1, StartKeeps
<1>2. CASE EndElement
  <2>1. status = "parsing" /\ InvBuilder /\ status' = status
    BY <1>2 DEF EndElement, IInv
  <2>2. TypeOK' /\ InvBuilder'
    BY <1>2, <2>1, EndElementKeeps
  <2> QED
    BY <2>1, <2>2 DEF IInv, MeansItsTree, InvBuilder
<1>3. CASE Refuse
  <2>1. /\ status' = "refused" /\ InvBuilder /\ UNCHANGED <<tree, builder>>
        /\ bindings' = bindings
    BY <1>3 DEF Refuse, IInv
  <2>2. TypeOK'
    BY <2>1, TypesStay DEF TypeStatus, TypeOK
  <2>3. InvBuilder'
    BY <2>1, BuilderStays
  <2> QED
    BY <2>1, <2>2, <2>3 DEF IInv, MeansItsTree
<1>4. CASE Finish
  BY <1>4, FinishKeeps
<1>5. CASE UNCHANGED vars
  <2>1. UNCHANGED <<tree, builder>> /\ status' = status /\ bindings' = bindings
    BY <1>5 DEF vars
  <2>2. TypeOK'
    BY <2>1, TypesStay DEF TypeStatus, TypeOK
  <2>3. status # "malformed" => InvBuilder'
    BY <2>1, BuilderStays DEF IInv
  <2>4. /\ SoundSoFar' <=> SoundSoFar
        /\ Sound' <=> Sound
        /\ Associations' = Associations
        /\ \A b : Placed(b)' = Placed(b)
    BY <2>1, TreeSame
  <2>5. {Placed(b) : b \in bindings}' = {Placed(b) : b \in bindings}
    BY <2>1, <2>4
  <2>6. MeansItsTree'
    BY <2>1, <2>4, <2>5 DEF IInv, MeansItsTree
  <2> QED
    BY <2>1, <2>2, <2>3, <2>6 DEF IInv
<1> QED
  BY <1>1, <1>2, <1>3, <1>4, <1>5 DEF Next

LEMMA InitIInv ==
  ASSUME Init
  PROVE  TypeOK /\ IInv
<1>1. status = "parsing" /\ TypeOK /\ InvBuilder
  BY InitKeeps DEF Init
<1> QED
  BY <1>1 DEF IInv, MeansItsTree, InvBuilder

\* What the callbacks have collected is always the tree so far, whatever comes.
THEOREM HeaderDocumentInvariant == Spec => [](TypeOK /\ IInv)
<1>1. Init => TypeOK /\ IInv
  BY InitIInv
<1>2. TypeOK /\ IInv /\ [Next]_vars => (TypeOK /\ IInv)'
  BY NextKeeps
<1> QED
  BY <1>1, <1>2, PTL DEF Spec

\* The collections stay of their types, every index in them within its range.
THEOREM HeaderDocumentTypeOK == Spec => []TypeOK
BY HeaderDocumentInvariant, PTL

\* The reader makes a Document of a header exactly if its tree of elements is
\* sound, whatever is declared first, and the Document associates with each image,
\* and with the unit, what its children are or refer to, and with an image also the
\* entries deeper in it.
THEOREM HeaderDocumentMeansItsTree == Spec => []MeansItsTree
<1>1. TypeOK /\ IInv => MeansItsTree
  BY DEF IInv
<1> QED
  BY <1>1, HeaderDocumentInvariant, PTL
=============================================================================
