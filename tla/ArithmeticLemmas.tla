-------------------------- MODULE ArithmeticLemmas --------------------------
(***************************************************************************)
(* Facts about whole numbers that the proofs of several modules cite:        *)
(* division with remainder, positions in mixed radix (what the code does with *)
(* / and % to find a channel, a pixel or a byte), induction over the natural *)
(* numbers stated with a set, and sums.                                      *)
(***************************************************************************)
EXTENDS Integers, WellFoundedInduction, TLAPS

\* Division by a positive number leaves a quotient and a remainder.
LEMMA DivMod ==
  ASSUME NEW n \in Nat \ {0}, NEW a \in Nat
  PROVE  /\ a \div n \in Nat
         /\ a % n \in 0 .. n - 1
         /\ a = (a \div n) * n + (a % n)
OBVIOUS

\* A quotient and a remainder determine the number, and the number them.
LEMMA DivModOf ==
  ASSUME NEW n \in Nat \ {0}, NEW q \in Nat, NEW r \in 0 .. n - 1
  PROVE  /\ q * n + r \in Nat
         /\ (q * n + r) \div n = q
         /\ (q * n + r) % n = r
OBVIOUS

\* Position r of part q lies in the whole, when q is one of p parts of size n.
LEMMA InWhole ==
  ASSUME NEW n \in Nat \ {0}, NEW p \in Nat,
         NEW q \in 0 .. p - 1, NEW r \in 0 .. n - 1
  PROVE  q * n + r \in 0 .. p * n - 1
OBVIOUS

\* The converse: a position in the whole lies in one of its parts.
LEMMA InPart ==
  ASSUME NEW n \in Nat \ {0}, NEW p \in Nat, NEW a \in 0 .. p * n - 1
  PROVE  a \div n \in 0 .. p - 1 /\ a % n \in 0 .. n - 1
OBVIOUS

\* The order that induction goes along.
Less == {ss \in Nat \X Nat : ss[1] < ss[2]}

LEMMA LessIsWellFounded == IsWellFoundedOn(Less, Nat)
BY NatLessThanWellFounded DEF OpToRel, Less

\* A set that holds zero, and the successor of whatever it holds, holds every
\* natural number: otherwise take the smallest one that is missing.
LEMMA NatSetInduction ==
  ASSUME NEW T, 0 \in T, \A n \in Nat : n \in T => n + 1 \in T
  PROVE  Nat \subseteq T
<1> SUFFICES ASSUME Nat \ T # {} PROVE FALSE
  OBVIOUS
<1>1. PICK x \in Nat \ T : \A y \in Nat \ T : ~(<<y, x>> \in Less)
  <2>1. Nat \ T \subseteq Nat
    OBVIOUS
  <2> QED
    BY <2>1, LessIsWellFounded, WFMin
<1>2. x # 0 /\ x - 1 \in Nat \ T
  BY <1>1
<1>3. <<x - 1, x>> \in Less
  BY <1>2 DEF Less
<1> QED
  BY <1>1, <1>2, <1>3

-----------------------------------------------------------------------------
(* Sums of the first pieces of something.  The recursion that defines them is  *)
(* a function, and the prover is told first that there is one.               *)

\* The sum of the first n pieces.
SumTo(pieces, n) ==
  LET upto[i \in 0 .. n] == IF i = 0 THEN 0 ELSE upto[i - 1] + pieces[i]
  IN upto[n]

\* `sums` is the function that recursion means.
AddsUp(pieces, sums, n) ==
  sums = [i \in 0 .. n |-> IF i = 0 THEN 0 ELSE sums[i - 1] + pieces[i]]

\* There is such a function: one can always add one more piece.
LEMMA SumExists ==
  ASSUME NEW pieces, NEW n \in Nat
  PROVE  \E f : AddsUp(pieces, f, n)
<1> DEFINE T == {m \in Nat : \E f : AddsUp(pieces, f, m)}
<1>1. 0 \in T
  <2> DEFINE f == [i \in {0} |-> 0]
  <2>1. 0 .. 0 = {0}
    OBVIOUS
  <2>2. AddsUp(pieces, f, 0)
    BY <2>1 DEF AddsUp
  <2> QED
    BY <2>2
<1>2. ASSUME NEW m \in Nat, m \in T
      PROVE  m + 1 \in T
  <2>1. PICK f : AddsUp(pieces, f, m)
    BY <1>2
  <2> DEFINE g == [i \in 0 .. m + 1 |->
                     IF i = m + 1 THEN f[m] + pieces[m + 1] ELSE f[i]]
  <2>2. ASSUME NEW i \in 0 .. m + 1
        PROVE  g[i] = IF i = 0 THEN 0 ELSE g[i - 1] + pieces[i]
    <3>1. CASE i = m + 1
      BY <3>1
    <3>2. CASE i \in 0 .. m
      <4>1. g[i] = f[i] /\ (i # 0 => g[i - 1] = f[i - 1])
        BY <3>2
      <4>2. f[i] = IF i = 0 THEN 0 ELSE f[i - 1] + pieces[i]
        BY <2>1, <3>2 DEF AddsUp
      <4> QED
        BY <4>1, <4>2
    <3> QED
      BY <3>1, <3>2
  <2>3. AddsUp(pieces, g, m + 1)
    BY <2>2 DEF AddsUp
  <2> HIDE DEF g
  <2> QED
    BY <2>3
<1>3. Nat \subseteq T
  <2> HIDE DEF T
  <2> QED
    BY <1>1, <1>2, NatSetInduction
<1> QED
  BY <1>3

\* It has only one, however many pieces one adds up.
LEMMA SumsAgree ==
  ASSUME NEW pieces, NEW n \in Nat, NEW m \in Nat, n <= m,
         NEW f, NEW g, AddsUp(pieces, f, n), AddsUp(pieces, g, m)
  PROVE  f[n] = g[n]
<1> DEFINE T == {i \in Nat : i <= n => f[i] = g[i]}
<1>1. 0 \in T
  BY DEF AddsUp
<1>2. ASSUME NEW i \in Nat, i \in T
      PROVE  i + 1 \in T
  <2> SUFFICES ASSUME i + 1 <= n PROVE f[i + 1] = g[i + 1]
    OBVIOUS
  <2>1. i + 1 \in 0 .. n /\ i + 1 \in 0 .. m /\ (i + 1) - 1 = i /\ i + 1 # 0
    OBVIOUS
  <2>2. f[i + 1] = f[i] + pieces[i + 1]
    BY <2>1 DEF AddsUp
  <2>3. g[i + 1] = g[i] + pieces[i + 1]
    BY <2>1 DEF AddsUp
  <2> QED
    BY <1>2, <2>1, <2>2, <2>3
<1>3. Nat \subseteq T
  <2> HIDE DEF T
  <2> QED
    BY <1>1, <1>2, NatSetInduction
<1> QED
  BY <1>3

\* So the sum of one more piece is the sum before it and the piece.
LEMMA SumToNext ==
  ASSUME NEW pieces, NEW n \in Nat
  PROVE  /\ SumTo(pieces, 0) = 0
         /\ SumTo(pieces, n + 1) = SumTo(pieces, n) + pieces[n + 1]
<1> DEFINE F(m) == CHOOSE f : AddsUp(pieces, f, m)
<1>1. ASSUME NEW m \in Nat
      PROVE  AddsUp(pieces, F(m), m) /\ SumTo(pieces, m) = F(m)[m]
  <2>1. \E f : AddsUp(pieces, f, m)
    BY SumExists
  <2>2. AddsUp(pieces, F(m), m)
    BY <2>1
  <2> QED
    BY <2>2 DEF SumTo, AddsUp
<1> HIDE DEF F
<1>2. SumTo(pieces, 0) = 0
  BY <1>1 DEF AddsUp
<1>3. F(n)[n] = F(n + 1)[n]
  BY <1>1, SumsAgree
<1>4. F(n + 1)[n + 1] = F(n + 1)[n] + pieces[n + 1]
  <2>1. n + 1 \in 0 .. n + 1 /\ (n + 1) - 1 = n /\ n + 1 # 0
    OBVIOUS
  <2> QED
    BY <1>1, <2>1 DEF AddsUp
<1> QED
  BY <1>1, <1>2, <1>3, <1>4

\* The first pieces add up to a number, and to no more than all of them.
LEMMA SumToFacts ==
  ASSUME NEW pieces, NEW m \in Nat, \A i \in 1 .. m : pieces[i] \in Nat,
         NEW n \in 0 .. m
  PROVE  /\ SumTo(pieces, n) \in Nat
         /\ SumTo(pieces, n) <= SumTo(pieces, m)
<1> DEFINE T == {i \in Nat : i <= m => SumTo(pieces, i) \in Nat}
           U == {i \in Nat : n + i <= m =>
                   SumTo(pieces, n) <= SumTo(pieces, n + i)}
<1>1. ASSUME NEW i \in Nat, i + 1 <= m
      PROVE  /\ pieces[i + 1] \in Nat
             /\ SumTo(pieces, i + 1) = SumTo(pieces, i) + pieces[i + 1]
  <2>1. i + 1 \in 1 .. m
    BY <1>1
  <2> QED
    BY <2>1, SumToNext
<1>2. Nat \subseteq T
  <2>1. 0 \in T
    BY SumToNext
  <2>2. ASSUME NEW i \in Nat, i \in T
        PROVE  i + 1 \in T
    BY <1>1, <2>2
  <2> HIDE DEF T
  <2> QED
    BY <2>1, <2>2, NatSetInduction
<1>3. \A i \in 0 .. m : SumTo(pieces, i) \in Nat
  BY <1>2
<1>4. Nat \subseteq U
  <2>1. 0 \in U
    BY <1>3
  <2>2. ASSUME NEW i \in Nat, i \in U
        PROVE  i + 1 \in U
    <3> SUFFICES ASSUME n + i + 1 <= m
                 PROVE  SumTo(pieces, n) <= SumTo(pieces, n + i + 1)
      OBVIOUS
    <3>1. /\ n + i \in Nat /\ n + i \in 0 .. m /\ n \in 0 .. m
          /\ n + i <= m
      OBVIOUS
    <3>2. /\ pieces[n + i + 1] \in Nat
          /\ SumTo(pieces, n + i + 1) = SumTo(pieces, n + i) + pieces[n + i + 1]
      BY <1>1, <3>1
    <3>3. SumTo(pieces, n) <= SumTo(pieces, n + i)
      BY <2>2, <3>1
    <3>4. SumTo(pieces, n) \in Nat /\ SumTo(pieces, n + i) \in Nat
      BY <1>3, <3>1
    <3> QED
      BY <3>2, <3>3, <3>4
  <2> HIDE DEF U
  <2> QED
    BY <2>1, <2>2, NatSetInduction
<1>5. PICK d \in Nat : n + d = m
  <2>1. m - n \in Nat /\ n + (m - n) = m
    OBVIOUS
  <2> QED
    BY <2>1
<1>6. SumTo(pieces, n) <= SumTo(pieces, n + d)
  <2>1. d \in U
    <3> HIDE DEF U
    <3> QED
      BY <1>4, <1>5
  <2>2. n + d <= m
    BY <1>5
  <2> QED
    BY <2>1, <2>2
<1> QED
  BY <1>3, <1>5, <1>6

\* Only the first n pieces matter.
LEMMA SumToSame ==
  ASSUME NEW pieces, NEW others, NEW n \in Nat,
         \A i \in 1 .. n : pieces[i] = others[i]
  PROVE  SumTo(pieces, n) = SumTo(others, n)
<1> DEFINE T == {i \in Nat : i <= n => SumTo(pieces, i) = SumTo(others, i)}
<1>1. 0 \in T
  BY SumToNext
<1>2. ASSUME NEW i \in Nat, i \in T
      PROVE  i + 1 \in T
  <2> SUFFICES ASSUME i + 1 <= n
               PROVE  SumTo(pieces, i + 1) = SumTo(others, i + 1)
    OBVIOUS
  <2>1. pieces[i + 1] = others[i + 1] /\ SumTo(pieces, i) = SumTo(others, i)
    BY <1>2
  <2> QED
    BY <2>1, SumToNext
<1>3. Nat \subseteq T
  <2> HIDE DEF T
  <2> QED
    BY <1>1, <1>2, NatSetInduction
<1> QED
  BY <1>3

\* Piece m grows by d.
OneGrows(pieces, others, n, m, d) ==
  /\ \A i \in 1 .. n : pieces[i] \in Nat
  /\ others[m] = pieces[m] + d
  /\ \A i \in 1 .. n : i # m => others[i] = pieces[i]

\* A piece that grows makes the sum grow by as much.
LEMMA SumToMore ==
  ASSUME NEW pieces, NEW others, NEW n \in Nat, NEW m \in 1 .. n, NEW d \in Nat,
         OneGrows(pieces, others, n, m, d)
  PROVE  SumTo(others, n) = SumTo(pieces, n) + d
<1> USE DEF OneGrows
<1> DEFINE T == {i \in Nat : i <= n =>
                   SumTo(others, i) = SumTo(pieces, i) + IF m <= i THEN d ELSE 0}
<1>1. 0 \in T
  BY SumToNext
<1>2. ASSUME NEW i \in Nat, i \in T
      PROVE  i + 1 \in T
  <2> SUFFICES ASSUME i + 1 <= n
               PROVE  SumTo(others, i + 1) =
                        SumTo(pieces, i + 1) + IF m <= i + 1 THEN d ELSE 0
    OBVIOUS
  <2>1. SumTo(others, i) = SumTo(pieces, i) + IF m <= i THEN d ELSE 0
    BY <1>2
  <2>2. i + 1 \in 1 .. n /\ i \in 0 .. n
    OBVIOUS
  <2>3. SumTo(pieces, i) \in Nat /\ pieces[i + 1] \in Nat
    BY <2>2, SumToFacts
  <2>4. others[i + 1] = pieces[i + 1] + IF i + 1 = m THEN d ELSE 0
    <3>1. CASE i + 1 = m
      BY <3>1
    <3>2. CASE i + 1 # m
      BY <2>2, <2>3, <3>2
    <3> QED
      BY <3>1, <3>2
  <2>5. /\ SumTo(others, i + 1) = SumTo(others, i) + others[i + 1]
        /\ SumTo(pieces, i + 1) = SumTo(pieces, i) + pieces[i + 1]
    BY SumToNext
  <2>6. CASE m <= i
    BY <2>1, <2>3, <2>4, <2>5, <2>6
  <2>7. CASE ~(m <= i)
    BY <2>1, <2>3, <2>4, <2>5, <2>7
  <2> QED
    BY <2>6, <2>7
<1>3. Nat \subseteq T
  <2> HIDE DEF T
  <2> QED
    BY <1>1, <1>2, NatSetInduction
<1> QED
  BY <1>3
=============================================================================
