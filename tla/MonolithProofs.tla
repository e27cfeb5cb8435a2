--------------------------- MODULE MonolithProofs ---------------------------
(***************************************************************************)
(* What modules WriterLayout and Monolith claim, proved for every request,    *)
(* every alignment and word size, every foreign file and all limits.  First   *)
(* the layout alone: a header that goes out is true, the blocks lie where     *)
(* they should, and the rounds never move them forward.  Then the reader   *)
(* alone, on any file (the lemmas that begin with Reader), and both together: *)
(* each keeps the promises of its own module, and the reader opens what the   *)
(* writer wrote.                                                             *)
(***************************************************************************)
EXTENDS Monolith, ArithmeticLemmas, FiniteSetTheorems

-----------------------------------------------------------------------------
(* Alignment.                                                                 *)

\* align_up moves to the next multiple, and by less than one unit.
LEMMA AlignUpFacts ==
  ASSUME NEW value \in Nat
  PROVE  /\ AlignUp(value) \in Nat
         /\ AlignUp(value) % Alignment = 0
         /\ value <= AlignUp(value) /\ AlignUp(value) < value + Alignment
<1> DEFINE q == value \div Alignment
           d == value % Alignment
<1>1. Alignment \in Nat \ {0}
  BY LayoutAssumption DEF LayoutAssumption
<1>2. q \in Nat /\ d \in 0 .. Alignment - 1 /\ value = q * Alignment + d
  BY <1>1, DivMod
<1>3. AlignUp(value) = IF d = 0 THEN value ELSE value + (Alignment - d)
  BY DEF AlignUp
<1> HIDE DEF q, d
<1>4. CASE d = 0
  BY <1>1, <1>2, <1>3, <1>4 DEF d
<1>5. CASE d # 0
  <2>1. AlignUp(value) = (q + 1) * Alignment + 0
    BY <1>1, <1>2, <1>3, <1>5
  <2>2. q + 1 \in Nat /\ 0 \in 0 .. Alignment - 1
    BY <1>1, <1>2
  <2>3. AlignUp(value) % Alignment = 0
    BY <1>1, <2>1, <2>2, DivModOf
  <2> QED
    BY <1>1, <1>2, <1>3, <1>5, <2>3
<1> QED
  BY <1>4, <1>5

\* Multiples of the alignment have no other multiple close behind them.
LEMMA NextMultiple ==
  ASSUME NEW a \in Nat, NEW b \in Nat, a % Alignment = 0, b % Alignment = 0,
         a < b
  PROVE  a + Alignment <= b
<1> DEFINE p == a \div Alignment
           q == b \div Alignment
<1>1. Alignment \in Nat \ {0}
  BY LayoutAssumption DEF LayoutAssumption
<1>2. p \in Nat /\ q \in Nat /\ a = p * Alignment + 0 /\ b = q * Alignment + 0
  BY <1>1, DivMod
<1> HIDE DEF p, q
<1>3. p + 1 <= q
  BY <1>1, <1>2
<1>4. (p + 1) * Alignment <= q * Alignment
  BY <1>1, <1>2, <1>3
<1> QED
  BY <1>1, <1>2, <1>4

\* align_up keeps the order.
LEMMA AlignUpMonotone ==
  ASSUME NEW a \in Nat, NEW b \in Nat, a <= b
  PROVE  AlignUp(a) <= AlignUp(b)
<1>1. /\ AlignUp(a) \in Nat /\ AlignUp(b) \in Nat
      /\ AlignUp(a) % Alignment = 0 /\ AlignUp(b) % Alignment = 0
      /\ AlignUp(a) < a + Alignment /\ b <= AlignUp(b)
  BY AlignUpFacts
<1>2. Alignment \in Nat
  BY LayoutAssumption DEF LayoutAssumption
<1>3. ASSUME AlignUp(b) < AlignUp(a)
      PROVE  FALSE
  <2>1. AlignUp(b) + Alignment <= AlignUp(a)
    BY <1>1, <1>3, NextMultiple
  <2> QED
    BY <1>1, <1>2, <2>1
<1> QED
  BY <1>1, <1>3

\* Whole units pass through align_up.
LEMMA AlignUpShift ==
  ASSUME NEW value \in Nat, NEW units \in Nat, units % Alignment = 0
  PROVE  AlignUp(value + units) = AlignUp(value) + units
<1> DEFINE p == units \div Alignment
           q == value \div Alignment
           d == value % Alignment
<1>1. Alignment \in Nat \ {0}
  BY LayoutAssumption DEF LayoutAssumption
<1>2. /\ p \in Nat /\ q \in Nat /\ d \in 0 .. Alignment - 1
      /\ units = p * Alignment + 0 /\ value = q * Alignment + d
  BY <1>1, DivMod
<1>3. d = value % Alignment
  OBVIOUS
<1> HIDE DEF p, q, d
<1>4. value + units = (q + p) * Alignment + d
  BY <1>1, <1>2
<1>5. (value + units) % Alignment = d
  BY <1>1, <1>2, <1>4, DivModOf
<1>6. /\ AlignUp(value) = IF d = 0 THEN value ELSE value + (Alignment - d)
      /\ AlignUp(value + units) = IF d = 0 THEN value + units
                                  ELSE value + units + (Alignment - d)
  BY <1>3, <1>5 DEF AlignUp
<1> QED
  BY <1>1, <1>2, <1>6

\* Less than a unit more ends at most one unit further on.
LEMMA AlignUpWithin ==
  ASSUME NEW a \in Nat, NEW b \in Nat, b <= a + Alignment
  PROVE  AlignUp(b) <= AlignUp(a) + Alignment
<1>1. Alignment \in Nat \ {0} /\ a + Alignment \in Nat
  BY LayoutAssumption DEF LayoutAssumption
<1>2. Alignment % Alignment = 0
  <2>1. 1 * Alignment + 0 = Alignment /\ 0 \in 0 .. Alignment - 1
    BY <1>1
  <2> QED
    BY <1>1, <2>1, DivModOf
<1>3. AlignUp(a + Alignment) = AlignUp(a) + Alignment
  BY <1>1, <1>2, AlignUpShift
<1> QED
  BY <1>1, <1>3, AlignUpMonotone

-----------------------------------------------------------------------------
(* The decimal digits of the offsets.                                         *)

\* The recursion in PowerOfTen has a solution: one can always multiply once more.
LEMMA PowerFacts ==
  /\ \A k \in 0 .. MaxDigits : PowerOfTen[k] \in Nat
  /\ \A k \in 1 .. MaxDigits : PowerOfTen[k] = 10 * PowerOfTen[k - 1]
<1> DEFINE Powers(f, n) == f = [k \in 0 .. n |-> IF k = 0 THEN 1 ELSE 10 * f[k - 1]]
    T == {n \in Nat : \E f : Powers(f, n)}
<1>1. MaxDigits \in Nat
  BY LayoutAssumption DEF LayoutAssumption
<1>2. 0 \in T
  <2> DEFINE f == [k \in {0} |-> 1]
  <2>1. 0 .. 0 = {0}
    OBVIOUS
  <2>2. Powers(f, 0)
    BY <2>1
  <2> QED
    BY <2>2
<1>3. ASSUME NEW n \in Nat, n \in T
      PROVE  n + 1 \in T
  <2>1. PICK f : Powers(f, n)
    BY <1>3
  <2> DEFINE g == [k \in 0 .. n + 1 |-> IF k = n + 1 THEN 10 * f[n] ELSE f[k]]
  <2>2. ASSUME NEW k \in 0 .. n + 1
        PROVE  g[k] = IF k = 0 THEN 1 ELSE 10 * g[k - 1]
    <3>1. CASE k = n + 1
      BY <3>1
    <3>2. CASE k \in 0 .. n
      <4>1. g[k] = f[k] /\ (k # 0 => g[k - 1] = f[k - 1])
        BY <3>2
      <4>2. f[k] = IF k = 0 THEN 1 ELSE 10 * f[k - 1]
        BY <2>1, <3>2
      <4> QED
        BY <4>1, <4>2
    <3> QED
      BY <3>1, <3>2
  <2>3. Powers(g, n + 1)
    BY <2>2
  <2> HIDE DEF g, Powers
  <2> QED
    BY <2>3
<1>4. Powers(PowerOfTen, MaxDigits)
  <2>1. Nat \subseteq T
    <3> HIDE DEF T
    <3> QED
      BY <1>2, <1>3, NatSetInduction
  <2>2. \E f : Powers(f, MaxDigits)
    BY <1>1, <2>1
  <2> QED
    BY <2>2 DEF PowerOfTen
<1>5. \A k \in 0 .. MaxDigits :
        PowerOfTen[k] = IF k = 0 THEN 1 ELSE 10 * PowerOfTen[k - 1]
  BY <1>4
<1> HIDE DEF Powers, T
<1>6. \A k \in 0 .. MaxDigits : PowerOfTen[k] \in Nat
  <2> DEFINE S == {k \in Nat : k <= MaxDigits => PowerOfTen[k] \in Nat}
  <2>1. 0 \in S
    BY <1>1, <1>5
  <2>2. ASSUME NEW k \in Nat, k \in S
        PROVE  k + 1 \in S
    <3> SUFFICES ASSUME k + 1 <= MaxDigits PROVE PowerOfTen[k + 1] \in Nat
      OBVIOUS
    <3>1. k + 1 \in 0 .. MaxDigits /\ k + 1 # 0 /\ (k + 1) - 1 = k /\ k <= MaxDigits
      BY <1>1
    <3>2. PowerOfTen[k + 1] = 10 * PowerOfTen[k] /\ PowerOfTen[k] \in Nat
      BY <1>5, <2>2, <3>1
    <3> QED
      BY <3>2
  <2>3. Nat \subseteq S
    <3> HIDE DEF S
    <3> QED
      BY <2>1, <2>2, NatSetInduction
  <2> QED
    BY <2>3
<1> QED
  BY <1>1, <1>5, <1>6

\* A number has some digits, and a larger one no fewer.
LEMMA DigitsFacts ==
  ASSUME NEW n \in Nat
  PROVE  /\ Digits(n) \in Nat \ {0}
         /\ \A k \in Nat : n <= k => Digits(n) <= Digits(k)
<1> DEFINE S(a) == {k \in 1 .. MaxDigits : PowerOfTen[k] <= a}
<1>1. MaxDigits \in Nat /\ \A k \in 1 .. MaxDigits : PowerOfTen[k] \in Nat
  BY LayoutAssumption, PowerFacts DEF LayoutAssumption
<1>2. IsFiniteSet(1 .. MaxDigits)
  BY <1>1, FS_Interval
<1>3. ASSUME NEW a \in Nat
      PROVE  IsFiniteSet(S(a)) /\ Cardinality(S(a)) \in Nat
  <2>1. S(a) \subseteq 1 .. MaxDigits
    OBVIOUS
  <2> QED
    BY <1>2, <2>1, FS_Subset, FS_CardinalityType
<1>4. ASSUME NEW k \in Nat, n <= k
      PROVE  Cardinality(S(n)) <= Cardinality(S(k))
  <2>1. S(n) \subseteq S(k)
    BY <1>1, <1>4
  <2> QED
    BY <1>3, <2>1, FS_Subset
<1>5. \A a : Digits(a) = 1 + Cardinality(S(a))
  BY DEF Digits
<1> HIDE DEF S
<1> QED
  BY <1>3, <1>4, <1>5

\* The sums of the digits of the first offsets.
Upto(offsets) ==
  CHOOSE upto : upto = [i \in 0 .. Len(offsets) |->
    IF i = 0 THEN 0 ELSE upto[i - 1] + Digits(offsets[i])]

\* The recursion in OffsetDigits has a solution: one can always add one more.
LEMMA UptoFacts ==
  ASSUME NEW offsets \in Seq(Nat)
  PROVE  /\ OffsetDigits(offsets) = Upto(offsets)[Len(offsets)]
         /\ Upto(offsets)[0] = 0
         /\ \A i \in 1 .. Len(offsets) :
              Upto(offsets)[i] = Upto(offsets)[i - 1] + Digits(offsets[i])
<1> DEFINE Sums(f, n) ==
      f = [i \in 0 .. n |-> IF i = 0 THEN 0 ELSE f[i - 1] + Digits(offsets[i])]
    T == {n \in Nat : \E f : Sums(f, n)}
<1>1. 0 \in T
  <2> DEFINE f == [i \in {0} |-> 0]
  <2>1. 0 .. 0 = {0}
    OBVIOUS
  <2>2. Sums(f, 0)
    BY <2>1
  <2> QED
    BY <2>2
<1>2. ASSUME NEW n \in Nat, n \in T
      PROVE  n + 1 \in T
  <2>1. PICK f : Sums(f, n)
    BY <1>2
  <2> DEFINE g == [i \in 0 .. n + 1 |->
                     IF i = n + 1 THEN f[n] + Digits(offsets[n + 1]) ELSE f[i]]
  <2>2. ASSUME NEW i \in 0 .. n + 1
        PROVE  g[i] = IF i = 0 THEN 0 ELSE g[i - 1] + Digits(offsets[i])
    <3>1. CASE i = n + 1
      BY <3>1
    <3>2. CASE i \in 0 .. n
      <4>1. g[i] = f[i] /\ (i # 0 => g[i - 1] = f[i - 1])
        BY <3>2
      <4>2. f[i] = IF i = 0 THEN 0 ELSE f[i - 1] + Digits(offsets[i])
        BY <2>1, <3>2
      <4> QED
        BY <4>1, <4>2
    <3> QED
      BY <3>1, <3>2
  <2>3. Sums(g, n + 1)
    BY <2>2
  <2> HIDE DEF g, Sums
  <2> QED
    BY <2>3
<1>3. Len(offsets) \in T
  <2>1. Nat \subseteq T
    <3> HIDE DEF T
    <3> QED
      BY <1>1, <1>2, NatSetInduction
  <2> QED
    BY <2>1
<1>4. Sums(Upto(offsets), Len(offsets))
  <2>1. \E f : Sums(f, Len(offsets))
    BY <1>3
  <2> QED
    BY <2>1 DEF Upto
<1>5. OffsetDigits(offsets) = Upto(offsets)[Len(offsets)]
  BY DEF OffsetDigits, Upto
<1>6. \A i \in 0 .. Len(offsets) :
        Upto(offsets)[i] = IF i = 0 THEN 0 ELSE Upto(offsets)[i - 1] + Digits(offsets[i])
  BY <1>4
<1>7. Len(offsets) \in Nat
  OBVIOUS
<1> HIDE DEF Sums, T
<1> QED
  BY <1>5, <1>6, <1>7

\* Offsets that are no smaller, one by one, take no fewer digits together.
LEMMA OffsetDigitsFacts ==
  ASSUME NEW s \in Seq(Nat)
  PROVE  /\ OffsetDigits(s) \in Nat
         /\ s # << >> => OffsetDigits(s) # 0
         /\ \A t \in Seq(Nat) :
              Len(t) = Len(s) /\ (\A i \in 1 .. Len(s) : s[i] <= t[i])
                => OffsetDigits(s) <= OffsetDigits(t)
<1>1. ASSUME NEW r \in Seq(Nat)
      PROVE  \A i \in 0 .. Len(r) : Upto(r)[i] \in Nat
  <2> DEFINE T == {n \in Nat : n <= Len(r) => Upto(r)[n] \in Nat}
  <2>1. 0 \in T
    BY <1>1, UptoFacts
  <2>2. ASSUME NEW n \in Nat, n \in T
        PROVE  n + 1 \in T
    <3> SUFFICES ASSUME n + 1 <= Len(r) PROVE Upto(r)[n + 1] \in Nat
      OBVIOUS
    <3>1. n + 1 \in 1 .. Len(r) /\ (n + 1) - 1 = n /\ n <= Len(r)
          /\ r[n + 1] \in Nat
      BY <1>1
    <3>2. Upto(r)[n + 1] = Upto(r)[n] + Digits(r[n + 1])
      BY <1>1, <3>1, UptoFacts
    <3>3. Upto(r)[n] \in Nat /\ Digits(r[n + 1]) \in Nat
      BY <2>2, <3>1, DigitsFacts
    <3> QED
      BY <3>2, <3>3
  <2>3. Nat \subseteq T
    <3> HIDE DEF T
    <3> QED
      BY <2>1, <2>2, NatSetInduction
  <2> QED
    BY <2>3
<1>2. ASSUME NEW t \in Seq(Nat), Len(t) = Len(s), \A i \in 1 .. Len(s) : s[i] <= t[i]
      PROVE  OffsetDigits(s) <= OffsetDigits(t)
  <2> DEFINE T == {n \in Nat : n <= Len(s) => Upto(s)[n] <= Upto(t)[n]}
  <2>1. 0 \in T
    BY UptoFacts
  <2>2. ASSUME NEW n \in Nat, n \in T
        PROVE  n + 1 \in T
    <3> SUFFICES ASSUME n + 1 <= Len(s) PROVE Upto(s)[n + 1] <= Upto(t)[n + 1]
      OBVIOUS
    <3>1. n + 1 \in 1 .. Len(s) /\ (n + 1) - 1 = n /\ n \in 0 .. Len(s)
          /\ s[n + 1] \in Nat /\ t[n + 1] \in Nat
      BY <1>2
    <3>2. /\ Upto(s)[n + 1] = Upto(s)[n] + Digits(s[n + 1])
          /\ Upto(t)[n + 1] = Upto(t)[n] + Digits(t[n + 1])
      BY <1>2, <3>1, UptoFacts
    <3>3. Digits(s[n + 1]) <= Digits(t[n + 1]) /\ Digits(s[n + 1]) \in Nat
          /\ Digits(t[n + 1]) \in Nat
      BY <1>2, <3>1, DigitsFacts
    <3>4. Upto(s)[n] \in Nat /\ Upto(t)[n] \in Nat /\ Upto(s)[n] <= Upto(t)[n]
      BY <1>1, <1>2, <2>2, <3>1
    <3> QED
      BY <3>2, <3>3, <3>4
  <2>3. Nat \subseteq T
    <3> HIDE DEF T
    <3> QED
      BY <2>1, <2>2, NatSetInduction
  <2>4. Upto(s)[Len(s)] <= Upto(t)[Len(s)]
    BY <2>3
  <2> QED
    BY <1>2, <2>4, UptoFacts
<1>3. OffsetDigits(s) \in Nat
  BY <1>1, UptoFacts
<1>4. ASSUME s # << >>
      PROVE  OffsetDigits(s) # 0
  <2>1. PICK n : n = Len(s)
    OBVIOUS
  <2>2. n \in 1 .. Len(s) /\ n - 1 \in 0 .. Len(s) /\ s[n] \in Nat
    BY <1>4, <2>1
  <2>3. OffsetDigits(s) = Upto(s)[n - 1] + Digits(s[n])
    BY <2>1, <2>2, UptoFacts
  <2>4. Upto(s)[n - 1] \in Nat /\ Digits(s[n]) \in Nat \ {0}
    BY <1>1, <2>2, DigitsFacts
  <2> QED
    BY <2>3, <2>4
<1> QED
  BY <1>2, <1>3, <1>4

\* What is less than ten times as large has at most one digit more.
LEMMA OneDigitMore ==
  ASSUME NEW n \in Nat, NEW m \in Nat, m < 10 * n
  PROVE  Digits(m) <= Digits(n) + 1
<1> DEFINE S(a) == {k \in 1 .. MaxDigits : PowerOfTen[k] <= a}
<1>1. MaxDigits \in Nat /\ \A k \in 0 .. MaxDigits : PowerOfTen[k] \in Nat
  BY LayoutAssumption, PowerFacts DEF LayoutAssumption
<1>2. IsFiniteSet(1 .. MaxDigits)
  BY <1>1, FS_Interval
<1>3. ASSUME NEW a \in Nat
      PROVE  IsFiniteSet(S(a)) /\ Cardinality(S(a)) \in Nat
  <2>1. S(a) \subseteq 1 .. MaxDigits
    OBVIOUS
  <2> QED
    BY <1>2, <2>1, FS_Subset, FS_CardinalityType
<1>4. IsFiniteSet(S(m) \ {1}) /\ Cardinality(S(m)) <= Cardinality(S(m) \ {1}) + 1
      /\ Cardinality(S(m) \ {1}) \in Nat
  <2>1. /\ IsFiniteSet(S(m) \ {1})
        /\ Cardinality(S(m) \ {1}) =
             IF 1 \in S(m) THEN Cardinality(S(m)) - 1 ELSE Cardinality(S(m))
    BY <1>3, FS_RemoveElement
  <2>2. Cardinality(S(m)) \in Nat
    BY <1>3
  <2>3. Cardinality(S(m) \ {1}) \in Nat
    BY <2>1, FS_CardinalityType
  <2> HIDE DEF S
  <2> QED
    BY <2>1, <2>2, <2>3
<1>5. PICK f : f = [k \in S(m) \ {1} |-> k - 1]
  OBVIOUS
<1>6. f \in Injection(S(m) \ {1}, S(n))
  <2>1. ASSUME NEW k \in S(m) \ {1}
        PROVE  k - 1 \in S(n)
    <3>1. /\ k \in 1 .. MaxDigits /\ k - 1 \in 1 .. MaxDigits /\ PowerOfTen[k] <= m
          /\ k \in 0 .. MaxDigits /\ k - 1 \in 0 .. MaxDigits
      BY <1>1, <2>1
    <3>2. PowerOfTen[k] = 10 * PowerOfTen[k - 1]
      BY <3>1, PowerFacts
    <3>3. PowerOfTen[k - 1] <= n
      BY <1>1, <3>1, <3>2
    <3> QED
      BY <3>1, <3>3
  <2>2. f \in [S(m) \ {1} -> S(n)]
    BY <1>5, <2>1
  <2>3. ASSUME NEW k \in S(m) \ {1}, NEW l \in S(m) \ {1}, f[k] = f[l]
        PROVE  k = l
    BY <1>5, <2>3
  <2> HIDE DEF S
  <2> QED
    BY <2>2, <2>3 DEF Injection, IsInjective
<1>7. Cardinality(S(m) \ {1}) <= Cardinality(S(n))
  <2> HIDE DEF S
  <2> QED
    BY <1>3, <1>6, FS_Injection
<1>8. \A a : Digits(a) = 1 + Cardinality(S(a))
  BY DEF Digits
<1> HIDE DEF S
<1> QED
  BY <1>3, <1>4, <1>7, <1>8

\* Each further multiple of a number has at most one digit more.
LEMMA DigitsOfMultiples ==
  ASSUME NEW n \in Nat
  PROVE  \A q \in Nat : \A m \in Nat : m <= (q + 1) * n => Digits(m) <= Digits(n) + q
<1> DEFINE T == {q \in Nat : \A m \in Nat : m <= (q + 1) * n => Digits(m) <= Digits(n) + q}
<1>1. 0 \in T
  BY DigitsFacts
<1>2. ASSUME NEW q \in Nat, q \in T
      PROVE  q + 1 \in T
  <2> SUFFICES ASSUME NEW m \in Nat, m <= ((q + 1) + 1) * n
               PROVE  Digits(m) <= Digits(n) + (q + 1)
    OBVIOUS
  <2>1. PICK k : k = (q + 1) * n
    OBVIOUS
  <2>2. k \in Nat /\ n <= k /\ m <= k + n
    <3>1. \A x \in Nat : (x + 1) * n \in Nat /\ n <= (x + 1) * n
                         /\ ((x + 1) + 1) * n = (x + 1) * n + n
      OBVIOUS
    <3> QED
      BY <2>1, <3>1
  <2>3. Digits(k) <= Digits(n) + q
    BY <1>2, <2>1, <2>2
  <2>4. Digits(m) \in Nat /\ Digits(k) \in Nat /\ Digits(n) \in Nat
    BY <2>2, DigitsFacts
  <2>5. CASE n = 0
    <3>1. m <= k
      BY <2>2, <2>5
    <3> QED
      BY <2>2, <2>3, <2>4, <3>1, DigitsFacts
  <2>6. CASE n # 0
    <3>1. m < 10 * k
      BY <2>2, <2>6
    <3>2. Digits(m) <= Digits(k) + 1
      BY <2>2, <3>1, OneDigitMore
    <3> QED
      BY <2>3, <2>4, <3>2
  <2> QED
    BY <2>5, <2>6
<1>3. Nat \subseteq T
  <2> HIDE DEF T
  <2> QED
    BY <1>1, <1>2, NatSetInduction
<1> QED
  BY <1>3

\* What the header gains when every offset gains at most q digits.
LEMMA OffsetDigitsGain ==
  ASSUME NEW s \in Seq(Nat), NEW t \in Seq(Nat), Len(t) = Len(s), NEW q \in Nat,
         \A i \in 1 .. Len(s) : Digits(t[i]) <= Digits(s[i]) + q
  PROVE  OffsetDigits(t) <= OffsetDigits(s) + Len(s) * q
<1> DEFINE T == {n \in Nat : n <= Len(s) => /\ Upto(s)[n] \in Nat /\ Upto(t)[n] \in Nat
                                            /\ Upto(t)[n] <= Upto(s)[n] + n * q}
<1>1. 0 \in T
  BY UptoFacts
<1>2. ASSUME NEW n \in Nat, n \in T
      PROVE  n + 1 \in T
  <2> SUFFICES ASSUME n + 1 <= Len(s)
               PROVE  /\ Upto(s)[n + 1] \in Nat /\ Upto(t)[n + 1] \in Nat
                      /\ Upto(t)[n + 1] <= Upto(s)[n + 1] + (n + 1) * q
    OBVIOUS
  <2>1. n + 1 \in 1 .. Len(s) /\ (n + 1) - 1 = n /\ n <= Len(s)
        /\ s[n + 1] \in Nat /\ t[n + 1] \in Nat
    OBVIOUS
  <2>2. /\ Upto(s)[n + 1] = Upto(s)[n] + Digits(s[n + 1])
        /\ Upto(t)[n + 1] = Upto(t)[n] + Digits(t[n + 1])
    BY <2>1, UptoFacts
  <2>3. /\ Digits(t[n + 1]) <= Digits(s[n + 1]) + q
        /\ Digits(s[n + 1]) \in Nat /\ Digits(t[n + 1]) \in Nat
    BY <2>1, DigitsFacts
  <2>4. /\ Upto(s)[n] \in Nat /\ Upto(t)[n] \in Nat
        /\ Upto(t)[n] <= Upto(s)[n] + n * q
    BY <1>2, <2>1
  <2>5. PICK x, y : x = n * q /\ y = (n + 1) * q
    OBVIOUS
  <2>6. x \in Nat /\ y = x + q
    <3>1. \A a, b \in Nat : a * b \in Nat /\ (a + 1) * b = a * b + b
      OBVIOUS
    <3> QED
      BY <2>5, <3>1
  <2>7. PICK a, b, c, d : /\ a = Upto(t)[n] /\ b = Digits(t[n + 1])
                          /\ c = Upto(s)[n] /\ d = Digits(s[n + 1])
    OBVIOUS
  <2> HIDE DEF T
  <2>8. /\ a \in Nat /\ b \in Nat /\ c \in Nat /\ d \in Nat
        /\ a <= c + x /\ b <= d + q
    BY <2>3, <2>4, <2>5, <2>7
  <2>9. a + b \in Nat /\ c + d \in Nat /\ a + b <= (c + d) + y
    BY <2>6, <2>8
  <2>10. Upto(s)[n + 1] = c + d /\ Upto(t)[n + 1] = a + b
    BY <2>2, <2>7
  <2> QED
    BY <2>5, <2>9, <2>10
<1>3. Nat \subseteq T
  <2> HIDE DEF T
  <2> QED
    BY <1>1, <1>2, NatSetInduction
<1>4. Upto(t)[Len(s)] <= Upto(s)[Len(s)] + Len(s) * q
  BY <1>3
<1> QED
  BY <1>4, UptoFacts

-----------------------------------------------------------------------------
(* The request, the plan and the guess.                                       *)

\* The blocks of a request, and the values of the variables.
LEMMA RequestFacts ==
  ASSUME TypeOK
  PROVE  /\ Total \in Nat \ {0} /\ request.base \in Nat
         /\ \A i \in 1 .. Total : request.sizes[i] \in Nat \ {0}
<1>1. request \in Request /\ request.sizes # << >>
  BY LayoutAssumption DEF TypeOK, LayoutAssumption
<1>2. request.base \in Nat /\ request.sizes \in Seq(Nat \ {0})
  BY <1>1 DEF Request
<1>3. Len(request.sizes) \in Nat /\ \A i \in 1 .. Len(request.sizes) : request.sizes[i] \in Nat \ {0}
  BY <1>2
<1>4. Len(request.sizes) # 0
  BY <1>1, <1>2
<1> QED
  BY <1>2, <1>3, <1>4 DEF Total

\* The numbers the writer keeps.
LEMMA NumberFacts ==
  ASSUME TypeOK
  PROVE  /\ attachment \in Nat /\ offset \in Nat /\ fileSize \in Nat
         /\ attachment < Word /\ offset < Word /\ Word \in Nat
         /\ Len(locations) \in Nat /\ DOMAIN locations = 1 .. Len(locations)
         /\ \A i \in 1 .. Len(locations) : locations[i] \in Nat
         /\ locations \in Seq(Nat)
         /\ header.size \in Nat /\ header.locations \in Seq(Nat)
         /\ \A i \in 1 .. Len(header.locations) : header.locations[i] \in Nat
<1>1. /\ Word \in Nat /\ attachment \in 0 .. Word - 1 /\ offset \in 0 .. Word - 1
      /\ fileSize \in 0 .. Word - 1
      /\ locations \in Seq(0 .. Word - 1)
  BY LayoutAssumption DEF TypeOK, LayoutAssumption
<1>2. header.size \in Nat /\ header.locations \in Seq(0 .. Word - 1)
  BY DEF TypeOK
<1>3. 0 .. Word - 1 \subseteq Nat
  BY <1>1
<1>4. locations \in Seq(Nat) /\ header.locations \in Seq(Nat)
  BY <1>1, <1>2, <1>3
<1> QED
  BY <1>1, <1>2, <1>4

\* Giving up leaves everything as it is.
LEMMA FailInv ==
  ASSUME TypeOK, IInv, phase \in {"plan", "render"}, NEW e \in LayoutErrors, Fail(e)
  PROVE  TypeOK' /\ IInv'
<1>1. /\ phase' = "failed" /\ result' = e
      /\ UNCHANGED <<request, attachment, offset, locations, fileSize, renders,
                     header, position, written, starts>>
  BY DEF Fail, plan, output
<1>2. TypeOK'
  BY <1>1 DEF TypeOK, Total
<1>3. InvPlan'
  BY <1>1 DEF IInv, InvPlan, LaidOut, AlignUp
<1>4. InvEmit'
  BY <1>1 DEF IInv, InvEmit
<1>5. InvRounds'
  BY <1>1 DEF InvRounds
<1> QED
  BY <1>2, <1>3, <1>4, <1>5 DEF IInv

\* The next block is put behind the planned ones, and no further to the front
\* than the round before put it.
LEMMA Appended ==
  ASSUME TypeOK, IInv, phase = "plan",
         locations' = Append(locations, offset),
         UNCHANGED <<request, attachment, renders, header>>
  PROVE  /\ locations' \in Seq(0 .. Word - 1)
         /\ Len(locations') = Len(locations) + 1
         /\ locations'[Len(locations) + 1] = offset
         /\ LaidOut(locations, attachment)'
         /\ renders > 0 =>
              \A i \in DOMAIN locations' : header.locations[i] <= locations'[i]
<1>1. PICK n, new : n = Len(locations) /\ new = locations'
  OBVIOUS
<1>2. /\ offset \in 0 .. Word - 1 /\ locations \in Seq(0 .. Word - 1)
      /\ n \in Nat /\ n < Total /\ offset = NextPlace
      /\ LaidOut(locations, attachment)
  BY <1>1 DEF IInv, InvPlan, TypeOK
<1>3. /\ new \in Seq(0 .. Word - 1) /\ Len(new) = n + 1 /\ new[n + 1] = offset
      /\ \A i \in 1 .. n : new[i] = locations[i]
      /\ DOMAIN new = 1 .. n + 1
  BY <1>1, <1>2
<1>4. locations # << >> <=> n # 0
  BY <1>1, <1>2
<1>5. new[1] = attachment
  BY <1>1, <1>2, <1>3, <1>4 DEF NextPlace, LaidOut
<1>6. ASSUME NEW i \in 1 .. n
      PROVE  new[i + 1] = AlignUp(new[i] + request.sizes[i])
  <2>1. CASE i = n
    BY <1>1, <1>2, <1>3, <1>4, <2>1 DEF NextPlace
  <2>2. CASE i # n
    <3>1. i \in 1 .. Len(locations) - 1 /\ i + 1 \in 1 .. n
      BY <1>1, <1>2, <2>2
    <3>2. locations[i + 1] = AlignUp(locations[i] + request.sizes[i])
      BY <1>2, <3>1 DEF LaidOut
    <3> QED
      BY <1>3, <3>1, <3>2
  <2> QED
    BY <2>1, <2>2
<1>7. LaidOut(locations, attachment)'
  <2>1. Len(new) - 1 = n
    BY <1>2, <1>3
  <2> QED
    BY <1>1, <1>5, <1>6, <2>1 DEF LaidOut, AlignUp
<1>8. ASSUME renders > 0, NEW i \in 1 .. n + 1
      PROVE  header.locations[i] <= new[i]
  <2>1. /\ Len(header.locations) = Total
        /\ header.locations[1] <= attachment
        /\ LaidOut(header.locations, header.locations[1])
        /\ \A k \in DOMAIN locations : header.locations[k] <= locations[k]
    BY <1>8 DEF IInv, InvRounds
  <2>2. CASE i \in 1 .. n
    <3>1. i \in DOMAIN locations
      BY <1>1, <2>2, NumberFacts
    <3> QED
      BY <1>3, <2>1, <2>2, <3>1
  <2>3. CASE i = 1
    BY <1>5, <2>1, <2>3
  <2>4. CASE i = n + 1 /\ n # 0
    <3>1. n \in 1 .. Len(header.locations) - 1 /\ n \in 1 .. n /\ n \in DOMAIN locations
          /\ n \in 1 .. Len(header.locations) /\ n \in 1 .. Total /\ Total \in Nat
      <4>1. Total \in Nat /\ DOMAIN locations = 1 .. n
        BY <1>1, RequestFacts, NumberFacts
      <4> QED
        BY <1>2, <2>1, <2>4, <4>1
    <3>2. header.locations[n + 1] = AlignUp(header.locations[n] + request.sizes[n])
      BY <2>1, <3>1 DEF LaidOut
    <3>3. new[n + 1] = AlignUp(locations[n] + request.sizes[n])
      BY <1>3, <1>6, <3>1
    <3>4. /\ header.locations[n] \in Nat /\ locations[n] \in Nat
          /\ request.sizes[n] \in Nat /\ header.locations[n] <= locations[n]
      BY <1>1, <2>1, <3>1, NumberFacts, RequestFacts
    <3>5. /\ header.locations[n] + request.sizes[n] \in Nat
          /\ locations[n] + request.sizes[n] \in Nat
          /\ header.locations[n] + request.sizes[n] <= locations[n] + request.sizes[n]
      <4>1. \A a, b, size \in Nat :
              a <= b => a + size \in Nat /\ b + size \in Nat /\ a + size <= b + size
        OBVIOUS
      <4> QED
        BY <3>4, <4>1, Zenon
    <3> QED
      BY <2>4, <3>2, <3>3, <3>5, AlignUpMonotone
  <2> QED
    BY <1>2, <2>2, <2>3, <2>4
<1> QED
  BY <1>1, <1>3, <1>7, <1>8

\* One block is planned.
LEMMA PlanBlockInv ==
  ASSUME TypeOK, IInv, PlanBlock
  PROVE  TypeOK' /\ IInv'
<1>1. phase = "plan" /\ Len(locations) < Total /\ InvPlan /\ InvEmit /\ InvRounds
  BY DEF PlanBlock, IInv, InvPlan
<1>2. PICK n, end : n = Len(locations) /\ end = offset + request.sizes[n + 1]
  OBVIOUS
<1>3. n \in Nat /\ end \in Nat /\ Total \in Nat /\ Word \in Nat /\ n + 1 <= Total
  <2>1. n \in Nat /\ Total \in Nat /\ offset \in Nat /\ Word \in Nat
    BY <1>2, NumberFacts, RequestFacts
  <2>2. n + 1 \in 1 .. Total
    BY <1>1, <1>2, <2>1
  <2>3. request.sizes[n + 1] \in Nat
    BY <2>2, RequestFacts
  <2> QED
    BY <1>2, <2>1, <2>2, <2>3
<1>4. CASE Fail("overflow")
  BY <1>1, <1>4, FailInv DEF LayoutErrors
<1>5. CASE /\ n + 1 # Total /\ Representable(NextOffset(end))
           /\ locations' = Append(locations, offset)
           /\ offset' = NextOffset(end)
           /\ UNCHANGED <<request, phase, attachment, fileSize, renders,
                          header, output, result>>
  <2>1. /\ locations' \in Seq(0 .. Word - 1) /\ Len(locations') = n + 1
        /\ locations'[n + 1] = offset /\ LaidOut(locations, attachment)'
        /\ renders > 0 =>
             \A i \in DOMAIN locations' : header.locations[i] <= locations'[i]
    BY <1>1, <1>2, <1>5, Appended
  <2>2. UNCHANGED <<position, written, starts>> /\ Total' = Total
    BY <1>5 DEF output, Total
  <2>3. offset' = AlignUp(end) /\ offset' \in 0 .. Word - 1 /\ n + 1 < Total
    BY <1>3, <1>5, AlignUpFacts DEF NextOffset, Representable
  <2>4. TypeOK'
    BY <1>3, <1>5, <2>1, <2>2, <2>3 DEF TypeOK
  <2>5. offset' = NextPlace'
    <3>1. locations' # << >>
      BY <1>3, <2>1
    <3> QED
      BY <1>2, <1>5, <2>1, <2>3, <3>1 DEF NextPlace, AlignUp
  <2>6. InvPlan'
    BY <1>1, <1>5, <2>1, <2>2, <2>3, <2>5 DEF InvPlan
  <2>7. InvEmit'
    BY <1>1, <1>5, <2>2 DEF InvEmit
  <2>8. InvRounds'
    BY <1>1, <1>5, <2>1, <2>2 DEF InvRounds, LaidOut, AlignUp, HeaderSize, HeaderEnd, FirstGuess
  <2> QED
    BY <2>4, <2>6, <2>7, <2>8 DEF IInv
<1>6. CASE /\ Representable(end) /\ n + 1 = Total
           /\ locations' = Append(locations, offset)
           /\ fileSize' = end
           /\ phase' = "render"
           /\ UNCHANGED <<request, attachment, offset, renders, header,
                          output, result>>
  <2>1. /\ locations' \in Seq(0 .. Word - 1) /\ Len(locations') = n + 1
        /\ locations'[n + 1] = offset /\ LaidOut(locations, attachment)'
        /\ renders > 0 =>
             \A i \in DOMAIN locations' : header.locations[i] <= locations'[i]
    BY <1>1, <1>2, <1>6, Appended
  <2>2. UNCHANGED <<position, written, starts>> /\ Total' = Total
    BY <1>6 DEF output, Total
  <2>3. fileSize' \in 0 .. Word - 1
    BY <1>3, <1>6 DEF Representable
  <2>4. TypeOK'
    BY <1>3, <1>6, <2>1, <2>2, <2>3 DEF TypeOK
  <2>5. InvPlan'
    BY <1>1, <1>2, <1>6, <2>1, <2>2 DEF InvPlan
  <2>6. InvEmit'
    BY <1>1, <1>6, <2>2 DEF InvEmit
  <2>7. InvRounds'
    BY <1>1, <1>6, <2>1, <2>2 DEF InvRounds, LaidOut, AlignUp, HeaderSize, HeaderEnd, FirstGuess
  <2> QED
    BY <2>4, <2>5, <2>6, <2>7 DEF IInv
<1> QED
  BY <1>2, <1>4, <1>5, <1>6 DEF PlanBlock

\* The header spells out the planned offsets, and the guess that it leads to is
\* never in front of the one it was planned from.
LEMMA Forward ==
  ASSUME TypeOK, IInv, phase = "render"
  PROVE  /\ Rendered \in Nat /\ Preamble + Rendered \in Nat
         /\ attachment <= AlignUp(Preamble + Rendered)
<1>1. /\ locations \in Seq(Nat) /\ request.base \in Nat /\ attachment \in Nat
      /\ Len(locations) = Total /\ Total \in Nat
  BY NumberFacts, RequestFacts DEF IInv, InvPlan
<1>2. OffsetDigits(locations) \in Nat
  BY <1>1, OffsetDigitsFacts
<1>3. Rendered \in Nat /\ Rendered = request.base + OffsetDigits(locations)
  BY <1>1, <1>2 DEF Rendered, HeaderSize
<1>4. Preamble + Rendered \in Nat /\ Preamble + Rendered > 0
  BY <1>3 DEF Preamble
<1>5. CASE renders = 0
  <2>1. attachment = Alignment
    BY <1>5 DEF IInv, InvRounds, FirstGuess
  <2>2. Alignment \in Nat \ {0}
    BY LayoutAssumption DEF LayoutAssumption
  <2>3. /\ AlignUp(Preamble + Rendered) \in Nat
        /\ AlignUp(Preamble + Rendered) % Alignment = 0
        /\ 0 < AlignUp(Preamble + Rendered)
    BY <1>4, AlignUpFacts
  <2>4. 0 % Alignment = 0
    <3>1. 0 \in 0 .. Alignment - 1 /\ 0 * Alignment + 0 = 0
      BY <2>2
    <3> QED
      BY <2>2, <3>1, DivModOf
  <2>5. 0 + Alignment <= AlignUp(Preamble + Rendered)
    BY <2>3, <2>4, NextMultiple
  <2>6. PICK next : next = AlignUp(Preamble + Rendered)
    OBVIOUS
  <2>7. next \in Nat /\ 0 + Alignment <= next
    BY <2>3, <2>5, <2>6
  <2>8. attachment <= next
    BY <2>1, <2>2, <2>7
  <2> QED
    BY <1>3, <1>4, <2>6, <2>8
<1>6. CASE renders # 0
  <2>1. PICK h : h = header.locations
    OBVIOUS
  <2>2. /\ h \in Seq(Nat) /\ Len(h) = Total
        /\ header.size = request.base + OffsetDigits(h)
        /\ attachment = AlignUp(Preamble + header.size)
        /\ \A i \in DOMAIN locations : h[i] <= locations[i]
    <3>1. renders > 0
      BY <1>6 DEF TypeOK
    <3> QED
      BY <2>1, <3>1, NumberFacts DEF IInv, InvRounds, HeaderSize, HeaderEnd
  <2>3. \A i \in 1 .. Len(h) : h[i] <= locations[i]
    BY <1>1, <2>2
  <2>4. OffsetDigits(h) \in Nat /\ OffsetDigits(h) <= OffsetDigits(locations)
    BY <1>1, <2>2, <2>3, OffsetDigitsFacts
  <2>5. /\ Preamble + header.size \in Nat
        /\ Preamble + header.size <= Preamble + Rendered
    BY <1>1, <1>2, <1>3, <2>2, <2>4 DEF Preamble
  <2>6. PICK a, b : a = Preamble + header.size /\ b = Preamble + Rendered
    OBVIOUS
  <2>7. a \in Nat /\ b \in Nat /\ a <= b
    BY <1>4, <2>5, <2>6
  <2>8. AlignUp(a) <= AlignUp(b)
    BY <2>7, AlignUpMonotone
  <2>9. attachment <= AlignUp(Preamble + Rendered)
    BY <2>2, <2>6, <2>8
  <2> QED
    BY <1>3, <1>4, <2>9
<1> QED
  BY <1>5, <1>6

\* The header fits its own plan, and goes out.
LEMMA EmitInv ==
  ASSUME TypeOK, IInv, phase = "render",
         Settled(AlignUp(Preamble + Rendered)),
         header' = [size |-> Rendered, locations |-> locations], Emit
  PROVE  TypeOK' /\ IInv'
<1>1. /\ phase' = "emit"
      /\ UNCHANGED <<request, attachment, offset, locations, fileSize, renders>>
      /\ UNCHANGED <<starts, result>>
      /\ position' = Preamble + header'.size /\ written' = Preamble + header'.size
      /\ header'.size = Rendered /\ header'.locations = locations
  BY DEF Emit, plan
<1>2. InvPlan /\ InvEmit
  BY DEF IInv
<1>3. Rendered \in Nat /\ Preamble + Rendered \in Nat
  BY Forward
<1>4. TypeOK'
  <2>1. header' \in [size : Nat, locations : Seq(0 .. Word - 1)]
    BY <1>3 DEF TypeOK
  <2> QED
    BY <1>1, <1>3, <2>1 DEF TypeOK, Total
<1>5. InvPlan'
  BY <1>1, <1>2 DEF InvPlan, LaidOut, AlignUp, Total
<1>6. InvEmit'
  <2>1. starts' = << >> /\ DOMAIN starts' = {}
    BY <1>1, <1>2 DEF InvEmit
  <2>2. attachment' = AlignUp(HeaderEnd)'
    BY <1>1 DEF Settled, HeaderEnd, AlignUp
  <2>3. (header.size = HeaderSize(request, header.locations))'
    BY <1>1 DEF Rendered, HeaderSize
  <2> QED
    BY <1>1, <2>1, <2>2, <2>3 DEF InvEmit, HeaderEnd
<1>7. InvRounds'
  BY <1>1 DEF InvRounds
<1> QED
  BY <1>4, <1>5, <1>6, <1>7 DEF IInv

\* The header does not fit; the next round begins where it ends.
LEMMA ReplanInv ==
  ASSUME TypeOK, IInv, phase = "render",
         Representable(AlignUp(Preamble + Rendered)),
         header' = [size |-> Rendered, locations |-> locations],
         Replan(AlignUp(Preamble + Rendered))
  PROVE  TypeOK' /\ IInv' /\ attachment' >= attachment
<1>1. PICK next : next = AlignUp(Preamble + Rendered)
  OBVIOUS
<1>2. /\ phase' = "plan" /\ attachment' = next /\ offset' = next
      /\ locations' = << >> /\ renders' = renders + 1
      /\ UNCHANGED <<request, fileSize, position, written, starts, result>>
      /\ header'.size = Rendered /\ header'.locations = locations
  BY <1>1 DEF Replan, output
<1>3. InvPlan /\ InvEmit
  BY DEF IInv
<1>4. /\ Rendered \in Nat /\ Preamble + Rendered \in Nat /\ attachment <= next
      /\ next \in Nat /\ next % Alignment = 0 /\ next < Word
      /\ attachment \in Nat /\ Word \in Nat
  BY <1>1, Forward, AlignUpFacts, NumberFacts DEF Representable
<1>5. /\ Len(locations) = Total /\ Total \in Nat \ {0} /\ Total' = Total
      /\ locations[1] = attachment /\ LaidOut(locations, locations[1])
  <2>1. Len(locations) = Total /\ LaidOut(locations, attachment)
    BY <1>3 DEF InvPlan
  <2>2. Total \in Nat \ {0}
    BY RequestFacts
  <2>3. locations # << >>
    BY <2>1, <2>2
  <2> QED
    BY <1>2, <2>1, <2>2, <2>3 DEF LaidOut, Total
<1>6. Len(locations') = 0 /\ DOMAIN locations' = {} /\ locations' \in Seq(0 .. Word - 1)
  BY <1>2
<1>7. TypeOK'
  <2>1. header' \in [size : Nat, locations : Seq(0 .. Word - 1)]
    BY <1>4 DEF TypeOK
  <2>2. next \in 0 .. Word - 1 /\ Len(locations') <= Total'
    BY <1>4, <1>5, <1>6
  <2> QED
    BY <1>2, <1>5, <1>6, <2>1, <2>2 DEF TypeOK
<1>8. InvPlan'
  BY <1>2, <1>4, <1>5, <1>6 DEF InvPlan, LaidOut, NextPlace
<1>9. InvEmit'
  BY <1>2, <1>3 DEF InvEmit
<1>10. InvRounds'
  <2>1. LaidOut(header.locations, header.locations[1])'
    BY <1>2, <1>5 DEF LaidOut, AlignUp
  <2>2. (header.size = HeaderSize(request, header.locations))'
    BY <1>2 DEF Rendered, HeaderSize
  <2>3. attachment' = AlignUp(HeaderEnd)'
    BY <1>1, <1>2 DEF HeaderEnd, AlignUp
  <2>4. renders' # 0
    BY <1>2 DEF TypeOK
  <2> QED
    BY <1>2, <1>4, <1>5, <1>6, <2>1, <2>2, <2>3, <2>4 DEF InvRounds
<1> QED
  BY <1>2, <1>4, <1>7, <1>8, <1>9, <1>10 DEF IInv

\* A header is rendered.
LEMMA RenderHeaderInv ==
  ASSUME TypeOK, IInv, RenderHeader
  PROVE  TypeOK' /\ IInv' /\ attachment' >= attachment
<1>1. phase = "render" /\ attachment \in Nat
  BY NumberFacts DEF RenderHeader
<1>2. ASSUME NEW e \in LayoutErrors, Fail(e)
      PROVE  TypeOK' /\ IInv' /\ attachment' >= attachment
  <2>1. attachment' = attachment
    BY <1>2 DEF Fail, plan
  <2> QED
    BY <1>1, <1>2, <2>1, FailInv
<1>3. CASE Fail("overflow") \/ Fail("resource_limit")
  BY <1>2, <1>3 DEF LayoutErrors
<1>4. CASE /\ Settled(AlignUp(Preamble + Rendered))
           /\ header' = [size |-> Rendered, locations |-> locations]
           /\ Emit
  <2>1. attachment' = attachment
    BY <1>4 DEF Emit, plan
  <2> QED
    BY <1>1, <1>4, <2>1, EmitInv
<1>5. CASE /\ Representable(AlignUp(Preamble + Rendered))
           /\ header' = [size |-> Rendered, locations |-> locations]
           /\ Replan(AlignUp(Preamble + Rendered))
  BY <1>1, <1>5, ReplanInv
<1> QED
  BY <1>3, <1>4, <1>5 DEF RenderHeader

-----------------------------------------------------------------------------
(* What goes out.                                                             *)

\* The planned places, in front of which the header ends.
LEMMA PlaceFacts ==
  ASSUME TypeOK, IInv, phase \in {"emit", "done"}
  PROVE  /\ Len(locations) = Total /\ HeaderEnd \in Nat
         /\ locations[1] = AlignUp(HeaderEnd)
         /\ \A i \in 1 .. Total - 1 :
              locations[i + 1] = AlignUp(locations[i] + request.sizes[i])
<1>1. /\ Len(locations) = Total /\ LaidOut(locations, attachment)
      /\ attachment = AlignUp(HeaderEnd)
  BY DEF IInv, InvPlan, InvEmit
<1>2. Total \in Nat \ {0} /\ header.size \in Nat
  BY RequestFacts, NumberFacts
<1>3. locations # << >>
  BY <1>1, <1>2
<1>4. HeaderEnd \in Nat
  BY <1>2 DEF HeaderEnd, Preamble
<1> QED
  BY <1>1, <1>3, <1>4 DEF LaidOut

\* The padding never wraps, and lands the next block where it was planned.
LEMMA EmitBlockInv ==
  ASSUME TypeOK, IInv, EmitBlock
  PROVE  TypeOK' /\ IInv'
<1>1. /\ phase = "emit" /\ Len(starts) < Total
      /\ UNCHANGED <<request, phase, attachment, offset, locations, fileSize,
                     renders, header, result>>
      /\ InvPlan /\ InvEmit
  BY DEF EmitBlock, plan, IInv
<1>2. PICK n, start, size :
        /\ n = Len(starts) /\ size = request.sizes[n + 1]
        /\ start = written + Padding(position, locations[n + 1])
  OBVIOUS
<1>3. /\ starts' = Append(starts, start) /\ written' = start + size
      /\ position' = locations[n + 1] + size
  BY <1>2 DEF EmitBlock, PositionAfter
<1>4. /\ n \in Nat /\ n + 1 \in 1 .. Total /\ n + 1 \in 1 .. Len(locations)
      /\ starts \in Seq(Nat) /\ DOMAIN starts = 1 .. n
      /\ size \in Nat /\ locations[n + 1] \in Nat
  <2>1. starts \in Seq(Nat) /\ n \in Nat
    BY <1>2 DEF TypeOK
  <2>2. Len(locations) = Total /\ Total \in Nat
    BY <1>1, PlaceFacts, RequestFacts
  <2>3. n + 1 \in 1 .. Total /\ n + 1 \in 1 .. Len(locations)
    BY <1>1, <1>2, <2>1, <2>2
  <2>4. size \in Nat /\ locations[n + 1] \in Nat
    BY <1>2, <2>3, RequestFacts, NumberFacts
  <2> QED
    BY <1>2, <2>1, <2>3, <2>4
<1>5. position = written /\ written \in Nat /\ written <= locations[n + 1]
  <2>1. /\ position = written /\ written \in Nat
        /\ written = IF starts = << >> THEN HeaderEnd
                     ELSE starts[n] + request.sizes[n]
        /\ \A i \in 1 .. n : starts[i] = locations[i]
    BY <1>1, <1>2, <1>4 DEF InvEmit, TypeOK
  <2>2. CASE n = 0
    <3>1. starts = << >>
      BY <1>2, <1>4, <2>2
    <3>2. locations[n + 1] = AlignUp(HeaderEnd) /\ HeaderEnd \in Nat
      BY <1>1, <2>2, PlaceFacts
    <3> QED
      BY <2>1, <3>1, <3>2, AlignUpFacts
  <2>3. CASE n # 0
    <3>1. n \in 1 .. n /\ n \in 1 .. Total - 1
      <4>1. Total \in Nat
        BY RequestFacts
      <4> QED
        BY <1>4, <2>3, <4>1
    <3>2. starts # << >>
      BY <1>2, <2>3
    <3>3. written = locations[n] + request.sizes[n]
      BY <2>1, <3>1, <3>2
    <3>4. locations[n + 1] = AlignUp(locations[n] + request.sizes[n])
      BY <1>1, <3>1, PlaceFacts
    <3> QED
      BY <2>1, <3>3, <3>4, AlignUpFacts
  <2> QED
    BY <2>1, <2>2, <2>3
<1>6. start = locations[n + 1]
  BY <1>2, <1>4, <1>5 DEF Padding
<1>7. /\ starts' \in Seq(Nat) /\ Len(starts') = n + 1 /\ DOMAIN starts' = 1 .. n + 1
      /\ starts'[n + 1] = start /\ \A i \in 1 .. n : starts'[i] = starts[i]
      /\ starts' # << >>
  <2>1. starts' = Append(starts, start) /\ start \in Nat
    BY <1>3, <1>4, <1>6
  <2>2. starts \in Seq(Nat) /\ Len(starts) = n /\ n \in Nat
    BY <1>2, <1>4
  <2>3. starts' \in Seq(Nat) /\ Len(starts') = n + 1
    BY <2>1, <2>2
  <2>4. DOMAIN starts' = 1 .. n + 1 /\ starts' # << >>
    BY <2>2, <2>3
  <2>5. starts'[n + 1] = start /\ \A i \in 1 .. n : starts'[i] = starts[i]
    BY <2>1, <2>2
  <2> QED
    BY <2>3, <2>4, <2>5
<1>8. TypeOK'
  BY <1>1, <1>3, <1>4, <1>6, <1>7 DEF TypeOK, Total
<1>9. InvPlan'
  BY <1>1 DEF InvPlan, LaidOut, AlignUp, Total
<1>10. InvEmit'
  <2>1. \A i \in 1 .. n + 1 : starts'[i] = locations[i]
    BY <1>1, <1>4, <1>6, <1>7 DEF InvEmit
  <2>2. attachment' = AlignUp(HeaderEnd)'
    BY <1>1 DEF InvEmit, HeaderEnd, AlignUp
  <2>3. written' = starts'[Len(starts')] + request.sizes[Len(starts')]
    BY <1>2, <1>3, <1>7
  <2>4. (header.size = HeaderSize(request, header.locations))'
    BY <1>1 DEF InvEmit, HeaderSize
  <2> QED
    BY <1>1, <1>3, <1>6, <1>7, <2>1, <2>2, <2>3, <2>4 DEF InvEmit
<1>11. InvRounds'
  BY <1>1 DEF InvRounds
<1> QED
  BY <1>8, <1>9, <1>10, <1>11 DEF IInv

\* The last block is out.
LEMMA FinishInv ==
  ASSUME TypeOK, IInv, Finish
  PROVE  TypeOK' /\ IInv'
<1>1. /\ phase = "emit" /\ Len(starts) = Total /\ phase' = "done" /\ result' = "ok"
      /\ UNCHANGED <<request, attachment, offset, locations, fileSize, renders,
                     header, position, written, starts>>
      /\ InvPlan /\ InvEmit
  BY DEF Finish, plan, output, IInv
<1>2. TypeOK'
  BY <1>1 DEF TypeOK, Total
<1>3. InvPlan'
  BY <1>1 DEF InvPlan, LaidOut, AlignUp, Total
<1>4. InvEmit'
  BY <1>1 DEF InvEmit, HeaderEnd, HeaderSize, AlignUp, Total
<1>5. InvRounds'
  BY <1>1 DEF InvRounds
<1> QED
  BY <1>2, <1>3, <1>4, <1>5 DEF IInv

\* Nothing is planned yet.
LEMMA InitInv == Init => TypeOK /\ IInv
<1> SUFFICES ASSUME Init PROVE TypeOK /\ IInv
  OBVIOUS
<1>1. Alignment \in Nat \ {0} /\ Word \in Nat /\ Alignment < Word
  BY LayoutAssumption DEF LayoutAssumption
<1>2. /\ phase = "plan" /\ attachment = Alignment /\ offset = Alignment
      /\ locations = << >> /\ fileSize = 0 /\ renders = 0
      /\ header = [size |-> 0, locations |-> << >>]
      /\ position = 0 /\ written = 0 /\ starts = << >> /\ result = "none"
      /\ request \in Requests
  BY DEF Init, FirstGuess
<1>3. request \in Request /\ request.sizes # << >>
  BY <1>2, LayoutAssumption DEF LayoutAssumption
<1>4. Total \in Nat \ {0}
  <2>1. request.sizes \in Seq(Nat \ {0})
    BY <1>3 DEF Request
  <2> QED
    BY <1>3, <2>1 DEF Total
<1>5. << >> \in Seq(0 .. Word - 1) /\ << >> \in Seq(Nat) /\ Len(<< >>) = 0
  OBVIOUS
<1>6. TypeOK
  <2>1. Alignment \in 0 .. Word - 1 /\ 0 \in 0 .. Word - 1 /\ 0 <= Total
    BY <1>1, <1>4
  <2>2. header \in [size : Nat, locations : Seq(0 .. Word - 1)]
    BY <1>2, <1>5
  <2>3. /\ locations \in Seq(0 .. Word - 1) /\ Len(locations) <= Total
        /\ starts \in Seq(Nat) /\ Len(starts) <= Total
    BY <1>2, <1>5, <2>1
  <2> QED
    BY <1>2, <2>1, <2>2, <2>3 DEF TypeOK
<1>7. InvPlan
  <2>1. Alignment % Alignment = 0
    <3>1. 0 \in 0 .. Alignment - 1 /\ 1 * Alignment + 0 = Alignment /\ 1 \in Nat
      BY <1>1
    <3>2. (1 * Alignment + 0) % Alignment = 0
      BY <1>1, <3>1, DivModOf
    <3> QED
      BY <3>1, <3>2
  <2> QED
    BY <1>2, <1>4, <2>1 DEF InvPlan, LaidOut, NextPlace
<1>8. InvEmit
  BY <1>2 DEF InvEmit
<1>9. InvRounds
  BY <1>2 DEF InvRounds, FirstGuess
<1> QED
  BY <1>6, <1>7, <1>8, <1>9 DEF IInv

\* Every step keeps the invariant, and none moves the guess forward.
LEMMA NextInv == TypeOK /\ IInv /\ [Next]_vars
                   => TypeOK' /\ IInv' /\ attachment' >= attachment
<1> SUFFICES ASSUME TypeOK, IInv, [Next]_vars
             PROVE  TypeOK' /\ IInv' /\ attachment' >= attachment
  OBVIOUS
<1>1. attachment \in Nat
  BY NumberFacts
<1>2. CASE PlanBlock
  <2>1. attachment' = attachment
    BY <1>2 DEF PlanBlock, Fail, plan
  <2> QED
    BY <1>1, <1>2, <2>1, PlanBlockInv
<1>3. CASE RenderHeader
  BY <1>3, RenderHeaderInv
<1>4. CASE GiveUp
  <2>1. phase = "render" /\ Fail("internal_error") /\ attachment' = attachment
    BY <1>4 DEF GiveUp, Fail, plan
  <2> QED
    BY <1>1, <2>1, FailInv DEF LayoutErrors
<1>5. CASE EmitBlock
  <2>1. attachment' = attachment
    BY <1>5 DEF EmitBlock, plan
  <2> QED
    BY <1>1, <1>5, <2>1, EmitBlockInv
<1>6. CASE Finish
  <2>1. attachment' = attachment
    BY <1>6 DEF Finish, plan
  <2> QED
    BY <1>1, <1>6, <2>1, FinishInv
<1>7. CASE UNCHANGED vars
  <2>1. UNCHANGED <<request, phase, attachment, offset, locations, fileSize, renders,
                    header, position, written, starts, result>>
    BY <1>7 DEF vars, plan, output
  <2>2. TypeOK'
    BY <2>1 DEF TypeOK, Total
  <2>3. InvPlan'
    BY <2>1 DEF IInv, InvPlan, LaidOut, NextPlace, AlignUp, Total
  <2>4. InvEmit'
    BY <2>1 DEF IInv, InvEmit, HeaderEnd, HeaderSize, AlignUp, Total
  <2>5. InvRounds'
    BY <2>1 DEF IInv, InvRounds, LaidOut, HeaderSize, HeaderEnd, AlignUp, Total, FirstGuess
  <2> QED
    BY <1>1, <2>1, <2>2, <2>3, <2>4, <2>5 DEF IInv
<1> QED
  BY <1>2, <1>3, <1>4, <1>5, <1>6, <1>7 DEF Next

-----------------------------------------------------------------------------
(* Few blocks.                                                                *)

\* Whole units apart.
LEMMA UnitsApart ==
  ASSUME NEW a \in Nat, NEW b \in Nat, a % Alignment = 0, b % Alignment = 0,
         a <= b
  PROVE  b - a \in Nat /\ (b - a) % Alignment = 0
<1> DEFINE p == a \div Alignment
           q == b \div Alignment
<1>1. Alignment \in Nat \ {0}
  BY LayoutAssumption DEF LayoutAssumption
<1>2. p \in Nat /\ q \in Nat /\ a = p * Alignment + 0 /\ b = q * Alignment + 0
  BY <1>1, DivMod
<1> HIDE DEF p, q
<1>3. p <= q
  <2>1. ASSUME q + 1 <= p
        PROVE  FALSE
    <3>1. (q + 1) * Alignment <= p * Alignment
      BY <1>1, <1>2, <2>1
    <3> QED
      BY <1>1, <1>2, <3>1
  <2> QED
    BY <1>2, <2>1
<1>4. PICK n : n = q - p
  OBVIOUS
<1>5. n \in Nat /\ q = p + n
  BY <1>2, <1>3, <1>4
<1>6. b - a = n * Alignment + 0
  BY <1>1, <1>2, <1>5
<1>7. 0 \in 0 .. Alignment - 1
  BY <1>1
<1>8. n * Alignment + 0 \in Nat /\ (n * Alignment + 0) % Alignment = 0
  BY <1>1, <1>5, <1>7, DivModOf
<1> QED
  BY <1>6, <1>8

\* A plan that begins whole units further back is the same plan, further back.
LEMMA ShiftedPlan ==
  ASSUME TypeOK, NEW s \in Seq(Nat), NEW t \in Seq(Nat),
         Len(s) = Total, Len(t) = Total,
         LaidOut(s, s[1]), LaidOut(t, t[1]),
         NEW d \in Nat, d % Alignment = 0, t[1] = s[1] + d
  PROVE  \A i \in 1 .. Total : s[1] <= s[i] /\ t[i] = s[i] + d
<1> DEFINE T == {n \in Nat : n + 1 <= Total =>
                   s[1] <= s[n + 1] /\ t[n + 1] = s[n + 1] + d}
<1>1. Total \in Nat \ {0} /\ \A i \in 1 .. Total : s[i] \in Nat /\ request.sizes[i] \in Nat
  BY RequestFacts
<1>2. 0 \in T
  BY <1>1
<1>3. ASSUME NEW n \in Nat, n \in T
      PROVE  n + 1 \in T
  <2> SUFFICES ASSUME (n + 1) + 1 <= Total
               PROVE  s[1] <= s[(n + 1) + 1] /\ t[(n + 1) + 1] = s[(n + 1) + 1] + d
    OBVIOUS
  <2>1. PICK k : k = n + 1
    OBVIOUS
  <2>2. k \in 1 .. Total /\ k \in 1 .. Total - 1 /\ k <= Total /\ 1 \in 1 .. Total
    BY <1>1, <2>1
  <2>3. s[1] <= s[k] /\ t[k] = s[k] + d
    BY <1>3, <2>1, <2>2
  <2>4. /\ s[k + 1] = AlignUp(s[k] + request.sizes[k])
        /\ t[k + 1] = AlignUp(t[k] + request.sizes[k])
    BY <2>2 DEF LaidOut
  <2>5. PICK end : end = s[k] + request.sizes[k]
    OBVIOUS
  <2>6. end \in Nat /\ s[1] <= end /\ t[k] + request.sizes[k] = end + d
    <3>1. PICK a, x, z : a = s[1] /\ x = s[k] /\ z = request.sizes[k]
      OBVIOUS
    <3>2. a \in Nat /\ x \in Nat /\ z \in Nat
      BY <1>1, <2>2, <3>1
    <3>3. end = x + z /\ a <= x /\ t[k] = x + d
      BY <2>3, <2>5, <3>1
    <3>4. end \in Nat /\ a <= end /\ (x + d) + z = end + d
      BY <3>2, <3>3
    <3> QED
      BY <3>1, <3>3, <3>4
  <2>7. AlignUp(end + d) = AlignUp(end) + d /\ end <= AlignUp(end) /\ AlignUp(end) \in Nat
    BY <2>6, AlignUpShift, AlignUpFacts
  <2>8. s[k + 1] = AlignUp(end) /\ t[k + 1] = AlignUp(end) + d
    BY <2>4, <2>5, <2>6, <2>7
  <2>9. s[1] \in Nat
    BY <1>1, <2>2
  <2>10. s[1] <= s[k + 1]
    BY <2>6, <2>7, <2>8, <2>9
  <2> QED
    BY <2>1, <2>8, <2>10
<1>4. Nat \subseteq T
  <2> HIDE DEF T
  <2> QED
    BY <1>2, <1>3, NatSetInduction
<1>5. ASSUME NEW i \in 1 .. Total
      PROVE  s[1] <= s[i] /\ t[i] = s[i] + d
  <2>1. i - 1 \in Nat /\ (i - 1) + 1 = i /\ i <= Total
    BY <1>1
  <2>2. i - 1 \in T
    BY <1>4, <2>1
  <2> QED
    BY <2>1, <2>2
<1> QED
  BY <1>5

\* Of few blocks, offsets below ten times what they were cost one unit at most.
LEMMA OneUnitMore ==
  ASSUME TypeOK, Total < Alignment, NEW s \in Seq(Nat), NEW t \in Seq(Nat),
         Len(s) = Total, Len(t) = Total,
         \A i \in 1 .. Total : t[i] < 10 * s[i]
  PROVE  AlignUp(Preamble + HeaderSize(request, t))
           <= AlignUp(Preamble + HeaderSize(request, s)) + Alignment
<1>1. Total \in Nat /\ request.base \in Nat /\ Alignment \in Nat
  BY RequestFacts, LayoutAssumption DEF LayoutAssumption
<1>2. \A i \in 1 .. Len(s) : Digits(t[i]) <= Digits(s[i]) + 1
  BY OneDigitMore
<1>3. OffsetDigits(t) <= OffsetDigits(s) + Len(s) * 1
  BY <1>2, OffsetDigitsGain
<1>4. OffsetDigits(s) \in Nat /\ OffsetDigits(t) \in Nat
  BY OffsetDigitsFacts
<1>5. PICK a, b : /\ a = Preamble + HeaderSize(request, s)
                  /\ b = Preamble + HeaderSize(request, t)
  OBVIOUS
<1>6. a \in Nat /\ b \in Nat /\ b <= a + Alignment
  <2>1. PICK x, y : x = OffsetDigits(s) /\ y = OffsetDigits(t)
    OBVIOUS
  <2>2. x \in Nat /\ y \in Nat /\ y <= x + Total
    BY <1>1, <1>3, <1>4, <2>1
  <2>3. a = 16 + (request.base + x) /\ b = 16 + (request.base + y)
    BY <1>5, <2>1 DEF HeaderSize, Preamble
  <2>4. PICK base, m : base = request.base /\ m = Total
    OBVIOUS
  <2>5. base \in Nat /\ m \in Nat /\ m < Alignment /\ Alignment \in Nat /\ y <= x + m
    BY <1>1, <2>2, <2>4
  <2>6. a = 16 + (base + x) /\ b = 16 + (base + y)
    BY <2>3, <2>4
  <2> QED
    BY <2>2, <2>5, <2>6
<1> QED
  BY <1>5, <1>6, AlignUpWithin

\* Of few blocks, the digits that the first move adds cost no more than the
\* move itself: moved q units, no offset is more than q times what it was.
LEMMA SecondMove ==
  ASSUME TypeOK, Total < Alignment, NEW s \in Seq(Nat), NEW t \in Seq(Nat),
         Len(s) = Total, Len(t) = Total,
         LaidOut(s, s[1]), LaidOut(t, t[1]),
         s[1] = Alignment, Alignment <= t[1], t[1] % Alignment = 0,
         t[1] = AlignUp(Preamble + HeaderSize(request, s))
  PROVE  AlignUp(Preamble + HeaderSize(request, t)) <= 2 * t[1]
<1>1. /\ Total \in Nat \ {0} /\ request.base \in Nat /\ Alignment \in Nat \ {0}
      /\ \A i \in 1 .. Total : s[i] \in Nat /\ t[i] \in Nat
      /\ 1 \in 1 .. Total /\ t[1] \in Nat
  BY RequestFacts, LayoutAssumption DEF LayoutAssumption
<1>2. PICK q : q = t[1] \div Alignment
  OBVIOUS
<1>3. q \in Nat /\ t[1] = q * Alignment
  <2>1. PICK u : u = t[1]
    OBVIOUS
  <2>2. u \in Nat /\ u % Alignment = 0 /\ q = u \div Alignment
    BY <1>1, <1>2, <2>1
  <2>3. u \div Alignment \in Nat /\ u = (u \div Alignment) * Alignment + (u % Alignment)
    BY <1>1, <2>2, DivMod, Zenon
  <2>4. q \in Nat /\ u = q * Alignment + 0
    BY <2>2, <2>3, Zenon
  <2> QED
    BY <1>1, <2>1, <2>4
<1>4. q # 0
  BY <1>1, <1>3
<1>5. PICK n : n = q - 1
  OBVIOUS
<1>6. n \in Nat /\ q = n + 1
  BY <1>3, <1>4, <1>5
<1>7. PICK d : d = n * Alignment
  OBVIOUS
<1>8. d \in Nat /\ t[1] = Alignment + d /\ d % Alignment = 0
  <2>1. d \in Nat /\ t[1] = Alignment + d
    BY <1>1, <1>3, <1>6, <1>7
  <2>2. 0 \in 0 .. Alignment - 1 /\ d = n * Alignment + 0
    BY <1>1, <1>6, <1>7
  <2> QED
    BY <1>1, <1>6, <2>1, <2>2, DivModOf
<1>9. \A i \in 1 .. Total : s[1] <= s[i] /\ t[i] = s[i] + d
  BY <1>8, ShiftedPlan
<1>10. ASSUME NEW i \in 1 .. Total
       PROVE  Digits(t[i]) <= Digits(s[i]) + n
  <2>1. PICK x, y : x = s[i] /\ y = t[i]
    OBVIOUS
  <2>2. x \in Nat /\ y \in Nat /\ Alignment <= x /\ y = x + d
    BY <1>1, <1>9, <2>1
  <2>3. n * Alignment <= n * x
    BY <1>1, <1>6, <2>2
  <2>4. y <= (n + 1) * x
    <3>1. (n + 1) * x = n * x + x /\ n * x \in Nat
      BY <1>6, <2>2
    <3>2. PICK z : z = n * x
      OBVIOUS
    <3> QED
      BY <1>7, <1>8, <2>2, <2>3, <3>1, <3>2
  <2> QED
    BY <1>6, <2>1, <2>2, <2>4, DigitsOfMultiples
<1>11. OffsetDigits(t) <= OffsetDigits(s) + Total * n
  BY <1>6, <1>10, OffsetDigitsGain
<1>12. PICK x : x = Total * n
  OBVIOUS
<1>13. x \in Nat /\ x <= d
  <2>1. \A a, b, c \in Nat : b <= c => b * a <= a * c /\ b * a \in Nat
    OBVIOUS
  <2> QED
    BY <1>1, <1>6, <1>7, <1>12, <2>1
<1>14. OffsetDigits(s) \in Nat /\ OffsetDigits(t) \in Nat
  BY OffsetDigitsFacts
<1>15. PICK a, b : /\ a = Preamble + HeaderSize(request, s)
                   /\ b = Preamble + HeaderSize(request, t)
  OBVIOUS
<1>16. a \in Nat /\ b \in Nat /\ b <= a + d
  <2>1. PICK u, v : u = OffsetDigits(s) /\ v = OffsetDigits(t)
    OBVIOUS
  <2>2. u \in Nat /\ v \in Nat /\ v <= u + x
    BY <1>11, <1>12, <1>14, <2>1
  <2>3. a = 16 + (request.base + u) /\ b = 16 + (request.base + v)
    BY <1>15, <2>1 DEF HeaderSize, Preamble
  <2>4. PICK base : base = request.base
    OBVIOUS
  <2>5. d \in Nat /\ base \in Nat /\ v <= u + d
    BY <1>1, <1>8, <1>13, <2>2, <2>4
  <2>6. a = 16 + (base + u) /\ b = 16 + (base + v)
    BY <2>3, <2>4
  <2> QED
    BY <2>2, <2>5, <2>6
<1>17. AlignUp(b) <= AlignUp(a) + d
  <2>1. a + d \in Nat /\ AlignUp(a + d) = AlignUp(a) + d
    BY <1>8, <1>16, AlignUpShift
  <2> QED
    BY <1>16, <2>1, AlignUpMonotone
<1>18. PICK first, next : first = t[1] /\ next = AlignUp(b)
  OBVIOUS
<1>19. next \in Nat
  BY <1>16, <1>18, AlignUpFacts
<1>20. first \in Nat /\ d <= first
  BY <1>1, <1>8, <1>18
<1>21. next <= first + d
  BY <1>15, <1>17, <1>18, Zenon
<1>22. next <= 2 * first
  BY <1>8, <1>19, <1>20, <1>21
<1> QED
  BY <1>15, <1>18, <1>22, Zenon

\* The header of a complete plan, and the guess it leads to.
LEMMA FewRendered ==
  ASSUME TypeOK, IInv, phase = "render"
  PROVE  /\ locations \in Seq(Nat) /\ Len(locations) = Total
         /\ LaidOut(locations, locations[1]) /\ locations[1] = attachment
         /\ attachment \in Nat /\ attachment % Alignment = 0
         /\ Rendered = HeaderSize(request, locations)
         /\ AlignUp(Preamble + Rendered) \in Nat
         /\ AlignUp(Preamble + Rendered) % Alignment = 0
         /\ attachment <= AlignUp(Preamble + Rendered)
<1>1. /\ locations \in Seq(Nat) /\ Len(locations) = Total
      /\ LaidOut(locations, attachment)
      /\ attachment \in Nat /\ attachment % Alignment = 0
  BY NumberFacts DEF IInv, InvPlan
<1>2. locations # << >>
  BY <1>1, RequestFacts
<1>3. locations[1] = attachment
  BY <1>1, <1>2 DEF LaidOut
<1>4. Preamble + Rendered \in Nat /\ attachment <= AlignUp(Preamble + Rendered)
  BY Forward
<1> QED
  BY <1>1, <1>3, <1>4, AlignUpFacts DEF Rendered

\* The round before: its plan, and how far the blocks have moved since.
LEMMA FewBefore ==
  ASSUME TypeOK, IInv, phase = "render", renders # 0
  PROVE  LET s == header.locations
         IN /\ s \in Seq(Nat) /\ Len(s) = Total /\ LaidOut(s, s[1])
            /\ s[1] \in Nat /\ s[1] <= attachment
            /\ attachment = AlignUp(Preamble + HeaderSize(request, s))
<1>1. renders > 0
  BY DEF TypeOK
<1>2. PICK s : s = header.locations
  OBVIOUS
<1>3. /\ s \in Seq(Nat) /\ Len(s) = Total /\ LaidOut(s, s[1]) /\ s[1] <= attachment
      /\ attachment = AlignUp(Preamble + HeaderSize(request, s))
  BY <1>1, <1>2, NumberFacts DEF IInv, InvRounds, HeaderEnd
<1>4. s[1] \in Nat
  BY <1>3, RequestFacts
<1> QED
  BY <1>2, <1>3, <1>4

\* The blocks move a second time: by no more than they have moved already.
LEMMA FewSecond ==
  ASSUME TypeOK, IInv, InvFewBlocks, Total < Alignment, phase = "render", renders = 1
  PROVE  AlignUp(Preamble + Rendered) <= 2 * attachment
<1>1. PICK s : s = header.locations
  OBVIOUS
<1>2. /\ s \in Seq(Nat) /\ Len(s) = Total /\ LaidOut(s, s[1])
      /\ attachment = AlignUp(Preamble + HeaderSize(request, s))
  BY <1>1, FewBefore
<1>3. s[1] = Alignment /\ Alignment <= attachment
  BY <1>1 DEF InvFewBlocks, FirstGuess
<1> QED
  BY <1>2, <1>3, FewRendered, SecondMove

\* They move a third time, by one unit.
LEMMA FewThird ==
  ASSUME TypeOK, IInv, InvFewBlocks, Total < Alignment, phase = "render", renders = 2
  PROVE  AlignUp(Preamble + Rendered) <= attachment + Alignment
<1>1. PICK s : s = header.locations
  OBVIOUS
<1>2. /\ s \in Seq(Nat) /\ Len(s) = Total /\ LaidOut(s, s[1])
      /\ s[1] \in Nat /\ s[1] <= attachment
      /\ attachment = AlignUp(Preamble + HeaderSize(request, s))
  BY <1>1, FewBefore
<1>3. Alignment <= s[1] /\ s[1] % Alignment = 0 /\ attachment <= 2 * s[1]
  BY <1>1 DEF InvFewBlocks, FirstGuess
<1>4. PICK d : d = attachment - s[1]
  OBVIOUS
<1>5. d \in Nat /\ d % Alignment = 0
  BY <1>2, <1>3, <1>4, FewRendered, UnitsApart
<1>6. attachment = s[1] + d /\ d <= s[1]
  BY <1>2, <1>3, <1>4, FewRendered
<1>7. \A i \in 1 .. Total : s[1] <= s[i] /\ locations[i] = s[i] + d
  <2>1. /\ locations \in Seq(Nat) /\ Len(locations) = Total
        /\ LaidOut(locations, locations[1]) /\ locations[1] = s[1] + d
    BY <1>6, FewRendered
  <2> QED
    BY <1>2, <1>5, <2>1, ShiftedPlan
<1>8. Alignment \in Nat \ {0}
  BY LayoutAssumption DEF LayoutAssumption
<1>9. \A i \in 1 .. Total : locations[i] < 10 * s[i]
  BY <1>2, <1>3, <1>5, <1>6, <1>7, <1>8
<1>10. AlignUp(Preamble + HeaderSize(request, locations))
         <= AlignUp(Preamble + HeaderSize(request, s)) + Alignment
  BY <1>2, <1>9, FewRendered, OneUnitMore
<1> QED
  BY <1>2, <1>10, FewRendered

\* After the third move the header fits: seen from the second round, no offset
\* has gained more than the one digit that the third move already paid for.
LEMMA FewSettled ==
  ASSUME TypeOK, IInv, InvFewBlocks, Total < Alignment, phase = "render", renders = 3
  PROVE  AlignUp(Preamble + Rendered) = attachment
<1>1. PICK before : before = header.locations[1]
  OBVIOUS
<1>2. PICK s \in Seq(Nat) :
        /\ Len(s) = Total /\ LaidOut(s, s[1])
        /\ s[1] >= FirstGuess /\ s[1] % Alignment = 0
        /\ s[1] <= before /\ before <= 2 * s[1]
        /\ before = AlignUp(Preamble + HeaderSize(request, s))
  BY <1>1 DEF InvFewBlocks, FromSecond
<1>3. /\ attachment = before + Alignment /\ attachment \in Nat /\ before \in Nat
      /\ Alignment \in Nat \ {0} /\ s[1] \in Nat /\ Alignment <= s[1]
  <2>1. attachment = before + Alignment /\ before \in Nat
    BY <1>1, FewBefore DEF InvFewBlocks
  <2>2. s[1] \in Nat
    BY <1>2, RequestFacts
  <2> QED
    BY <1>2, <2>1, <2>2, FewRendered, LayoutAssumption DEF LayoutAssumption, FirstGuess
<1>4. s[1] <= before /\ before <= 2 * s[1]
  BY <1>2
<1>5. PICK d : d = attachment - s[1]
  OBVIOUS
<1>6. d \in Nat /\ attachment = s[1] + d /\ d <= 2 * s[1]
  BY <1>3, <1>4, <1>5
<1>7. d % Alignment = 0
  <2>1. PICK a : a = s[1]
    OBVIOUS
  <2>2. /\ a \in Nat /\ attachment \in Nat /\ a <= attachment
        /\ a % Alignment = 0 /\ attachment % Alignment = 0
    <3>1. attachment \in Nat /\ attachment % Alignment = 0
      BY FewRendered
    <3>2. a \in Nat /\ a % Alignment = 0
      BY <1>2, <1>3, <2>1, Zenon
    <3>3. a <= attachment
      BY <1>6, <2>1, <3>1, <3>2
    <3> QED
      BY <3>1, <3>2, <3>3
  <2>3. (attachment - a) % Alignment = 0
    BY <2>2, UnitsApart
  <2>4. d = attachment - a
    BY <1>5, <2>1
  <2> QED
    BY <2>3, <2>4, Zenon
<1>8. \A i \in 1 .. Total : s[1] <= s[i] /\ locations[i] = s[i] + d
  BY <1>2, <1>6, <1>7, FewRendered, ShiftedPlan
<1>9. ASSUME NEW i \in 1 .. Total
      PROVE  locations[i] < 10 * s[i]
  <2>1. PICK a, x : a = s[1] /\ x = s[i]
    OBVIOUS
  <2>2. a \in Nat /\ a # 0 /\ d \in Nat /\ d <= 2 * a
    BY <1>3, <1>6, <2>1
  <2>3. x \in Nat /\ a <= x /\ locations[i] = x + d
    BY <1>2, <1>8, <2>1, RequestFacts
  <2>4. x + d < 10 * x
    BY <2>2, <2>3
  <2> QED
    BY <2>1, <2>3, <2>4, Zenon
<1>10. AlignUp(Preamble + HeaderSize(request, locations))
         <= AlignUp(Preamble + HeaderSize(request, s)) + Alignment
  BY <1>2, <1>9, FewRendered, OneUnitMore
<1>11. PICK next : next = AlignUp(Preamble + Rendered)
  OBVIOUS
<1>12. next \in Nat /\ next <= before + Alignment /\ attachment <= next
  BY <1>2, <1>10, <1>11, FewRendered
<1>13. next = attachment
  BY <1>3, <1>12
<1> QED
  BY <1>11, <1>13

\* The third move leaves the second round's plan behind as its witness.
LEMMA FewReplan ==
  ASSUME TypeOK, IInv, InvFewBlocks, Total < Alignment, phase = "render",
         ~Settled(AlignUp(Preamble + Rendered)),
         header' = [size |-> Rendered, locations |-> locations],
         Replan(AlignUp(Preamble + Rendered))
  PROVE  InvFewBlocks'
<1>1. PICK next : next = AlignUp(Preamble + Rendered)
  OBVIOUS
<1>2. /\ phase' = "plan" /\ attachment' = next /\ renders' = renders + 1
      /\ UNCHANGED <<request, result>> /\ Total' = Total
      /\ header'.locations = locations
  BY <1>1 DEF Replan, output, Total
<1>3. /\ next \in Nat /\ next % Alignment = 0 /\ attachment <= next /\ next # attachment
      /\ attachment \in Nat /\ attachment % Alignment = 0
      /\ locations \in Seq(Nat) /\ Len(locations) = Total
      /\ LaidOut(locations, locations[1]) /\ locations[1] = attachment
  BY <1>1, FewRendered DEF Settled
<1>4. /\ result # "internal_error" /\ renders \in Nat /\ renders <= 3
      /\ FirstGuess <= attachment /\ FirstGuess \in Nat
  BY LayoutAssumption DEF InvFewBlocks, TypeOK, LayoutAssumption, FirstGuess
<1>5. renders # 3
  BY <1>1, <1>3, FewSettled
<1>6. FirstGuess <= next
  BY <1>3, <1>4
<1>7. CASE renders = 0
  <2>1. attachment = FirstGuess
    BY <1>7 DEF IInv, InvRounds
  <2>2. renders' = 1
    BY <1>2, <1>7
  <2> QED
    BY <1>2, <1>3, <1>4, <1>6, <2>1, <2>2 DEF InvFewBlocks, FirstGuess
<1>8. CASE renders = 1
  <2>1. next <= 2 * attachment
    BY <1>1, <1>8, FewSecond
  <2>2. renders' = 2
    BY <1>2, <1>8
  <2> QED
    BY <1>2, <1>3, <1>4, <1>6, <2>1, <2>2 DEF InvFewBlocks, FirstGuess
<1>9. CASE renders = 2
  <2>1. next = attachment + Alignment
    <3>1. next <= attachment + Alignment
      BY <1>1, <1>9, FewThird
    <3>2. attachment + Alignment <= next
      BY <1>3, NextMultiple
    <3>3. Alignment \in Nat
      BY LayoutAssumption DEF LayoutAssumption
    <3> QED
      BY <1>3, <3>1, <3>2, <3>3
  <2>2. renders' = 3
    BY <1>2, <1>9
  <2>3. PICK s : s = header.locations
    OBVIOUS
  <2>4. /\ s \in Seq(Nat) /\ Len(s) = Total /\ LaidOut(s, s[1])
        /\ s[1] \in Nat /\ s[1] <= attachment
        /\ attachment = AlignUp(Preamble + HeaderSize(request, s))
    BY <1>9, <2>3, FewBefore
  <2>5. FirstGuess <= s[1] /\ s[1] % Alignment = 0 /\ attachment <= 2 * s[1]
    BY <1>9, <2>3 DEF InvFewBlocks
  <2>6. FromSecond(attachment)
    BY <2>4, <2>5 DEF FromSecond
  <2>7. header'.locations[1] = attachment
    BY <1>2, <1>3
  <2>8. FromSecond(header.locations[1])'
    BY <1>2, <2>6, <2>7 DEF FromSecond, LaidOut, HeaderSize, AlignUp, Preamble, FirstGuess
  <2> QED
    BY <1>2, <1>3, <1>4, <1>6, <2>1, <2>2, <2>7, <2>8 DEF InvFewBlocks, FirstGuess
<1> QED
  BY <1>4, <1>5, <1>7, <1>8, <1>9

\* A step keeps it.
LEMMA FewStep ==
  ASSUME TypeOK, IInv, InvFewBlocks, [Next]_vars
  PROVE  InvFewBlocks'
<1>1. request' = request /\ Total' = Total
  BY DEF Next, vars, PlanBlock, RenderHeader, GiveUp, EmitBlock, Finish, Fail, Emit,
         Replan, Total
<1> SUFFICES ASSUME Total < Alignment PROVE InvFewBlocks'
  BY <1>1 DEF InvFewBlocks
<1>2. result # "internal_error"
  BY DEF InvFewBlocks
<1>3. ASSUME phase' \notin {"plan", "render"}, result' # "internal_error"
      PROVE  InvFewBlocks'
  BY <1>3 DEF InvFewBlocks
<1>4. ASSUME UNCHANGED <<attachment, renders, header>>, result' # "internal_error",
             phase \in {"plan", "render"}
      PROVE  InvFewBlocks'
  <2>1. FromSecond(header.locations[1]) => FromSecond(header.locations[1])'
    BY <1>1, <1>4 DEF FromSecond, LaidOut, HeaderSize, AlignUp, Preamble, FirstGuess
  <2> QED
    BY <1>1, <1>4, <2>1 DEF InvFewBlocks, FirstGuess
<1>5. CASE PlanBlock
  <2>1. phase = "plan"
    BY <1>5 DEF PlanBlock
  <2>2. CASE Fail("overflow")
    BY <1>3, <2>2 DEF Fail
  <2>3. CASE UNCHANGED <<attachment, renders, header, result>>
    BY <1>2, <1>4, <2>1, <2>3
  <2> QED
    BY <1>5, <2>2, <2>3 DEF PlanBlock
<1>6. CASE RenderHeader
  <2>1. phase = "render"
    BY <1>6 DEF RenderHeader
  <2>2. CASE Fail("overflow") \/ Fail("resource_limit")
    BY <1>3, <2>2 DEF Fail
  <2>3. CASE Emit
    BY <1>2, <1>3, <2>3 DEF Emit
  <2>4. CASE /\ ~Settled(AlignUp(Preamble + Rendered))
             /\ header' = [size |-> Rendered, locations |-> locations]
             /\ Replan(AlignUp(Preamble + Rendered))
    BY <2>1, <2>4, FewReplan
  <2> QED
    BY <1>6, <2>2, <2>3, <2>4 DEF RenderHeader
<1>7. CASE GiveUp
  <2>1. phase = "render" /\ renders = 4
    BY <1>7 DEF GiveUp, MaxRenders
  <2>2. renders <= 3
    BY <2>1 DEF InvFewBlocks
  <2> QED
    BY <2>1, <2>2
<1>8. CASE EmitBlock
  BY <1>2, <1>3, <1>8 DEF EmitBlock
<1>9. CASE Finish
  BY <1>3, <1>9 DEF Finish
<1>10. CASE UNCHANGED vars
  <2>1. UNCHANGED <<phase, attachment, renders, header, result>>
    BY <1>10 DEF vars, plan
  <2>2. CASE phase \in {"plan", "render"}
    BY <1>2, <1>4, <2>1, <2>2
  <2>3. CASE phase \notin {"plan", "render"}
    BY <1>2, <1>3, <2>1, <2>3
  <2> QED
    BY <2>2, <2>3
<1> QED
  BY <1>5, <1>6, <1>7, <1>8, <1>9, <1>10 DEF Next

-----------------------------------------------------------------------------
(* The theorems.                                                              *)

\* In every state the plan follows the guess, the guess comes from a header
\* whose plan it does not undercut, and what has gone out is where the header
\* says.
THEOREM LayoutInvariant == Spec => [](TypeOK /\ IInv)
<1>1. TypeOK /\ IInv /\ [Next]_vars => TypeOK' /\ IInv'
  BY NextInv
<1> QED
  BY InitInv, <1>1, PTL DEF Spec

\* No offset, size or position leaves the range of its integer type.
THEOREM LayoutTypeCorrect == Spec => []TypeOK
BY LayoutInvariant, PTL

\* What goes out is what the header says, and as long as the summary says.
LEMMA TrueHeader == TypeOK /\ IInv => HeaderIsTrue
<1> SUFFICES ASSUME TypeOK, IInv PROVE HeaderIsTrue
  OBVIOUS
<1>1. CASE phase \notin {"emit", "done"}
  <2>1. starts = << >>
    BY <1>1 DEF IInv, InvEmit
  <2> QED
    BY <1>1, <2>1 DEF HeaderIsTrue
<1>2. CASE phase \in {"emit", "done"}
  <2>1. header.locations = locations /\ \A i \in DOMAIN starts : starts[i] = locations[i]
    BY <1>2 DEF IInv, InvEmit
  <2>2. /\ Len(locations) = Total /\ starts \in Seq(Nat) /\ Len(starts) <= Total
        /\ Total \in Nat \ {0}
    BY <1>2, PlaceFacts, RequestFacts DEF TypeOK
  <2>3. DOMAIN starts \subseteq DOMAIN locations
    BY <2>2, NumberFacts
  <2>4. ASSUME phase = "done"
        PROVE  written = fileSize
    <3>1. /\ Len(starts) = Total /\ fileSize = locations[Total] + request.sizes[Total]
          /\ written = IF starts = << >> THEN HeaderEnd
                       ELSE starts[Len(starts)] + request.sizes[Len(starts)]
      BY <2>4 DEF IInv, InvPlan, InvEmit
    <3>2. starts # << >> /\ Total \in DOMAIN starts
      BY <2>2, <3>1
    <3> QED
      BY <2>1, <3>1, <3>2
  <2> QED
    BY <2>1, <2>3, <2>4 DEF HeaderIsTrue
<1> QED
  BY <1>1, <1>2

\* Every block starts where the emitted header says, and the file is as long as
\* the summary says.
THEOREM HeadersAreTrue == Spec => []HeaderIsTrue
BY TrueHeader, LayoutInvariant, PTL

\* The blocks are aligned, and lie behind each other as closely as that allows.
THEOREM LayoutIsTight == Spec => []TightLayout
<1>1. TypeOK /\ IInv => TightLayout
  <2> SUFFICES ASSUME TypeOK, IInv, NEW i \in DOMAIN starts
               PROVE  LET end == IF i = 1 THEN HeaderEnd
                                 ELSE starts[i - 1] + request.sizes[i - 1]
                      IN /\ starts[i] % Alignment = 0
                         /\ starts[i] >= end
                         /\ starts[i] - end < Alignment
    BY DEF TightLayout
  <2>1. phase \in {"emit", "done"}
    <3>1. starts # << >>
      OBVIOUS
    <3> QED
      BY <3>1 DEF IInv, InvEmit
  <2>2. /\ Len(locations) = Total /\ starts \in Seq(Nat) /\ Len(starts) <= Total
        /\ Total \in Nat \ {0}
        /\ \A j \in DOMAIN starts : starts[j] = locations[j]
        /\ DOMAIN starts = 1 .. Len(starts)
    BY <2>1, PlaceFacts, RequestFacts DEF TypeOK, IInv, InvEmit
  <2>3. Alignment \in Nat
    BY LayoutAssumption DEF LayoutAssumption
  <2>4. CASE i = 1
    <3>1. HeaderEnd \in Nat /\ starts[i] = AlignUp(HeaderEnd)
      BY <2>1, <2>2, <2>4, PlaceFacts
    <3>2. /\ AlignUp(HeaderEnd) \in Nat /\ AlignUp(HeaderEnd) % Alignment = 0
          /\ HeaderEnd <= AlignUp(HeaderEnd) /\ AlignUp(HeaderEnd) < HeaderEnd + Alignment
      BY <3>1, AlignUpFacts
    <3> QED
      BY <2>3, <2>4, <3>1, <3>2
  <2>5. CASE i # 1
    <3>1. PICK end : end = starts[i - 1] + request.sizes[i - 1]
      OBVIOUS
    <3>2. /\ i - 1 \in 1 .. Total - 1 /\ i - 1 \in DOMAIN starts /\ (i - 1) + 1 = i
          /\ i - 1 \in 1 .. Total
      BY <2>2, <2>5
    <3>3. starts[i - 1] \in Nat /\ request.sizes[i - 1] \in Nat
      BY <2>2, <3>2, RequestFacts
    <3>4. end \in Nat
      BY <3>1, <3>3
    <3>5. starts[i] = AlignUp(end)
      BY <2>1, <2>2, <3>1, <3>2, PlaceFacts
    <3>6. /\ AlignUp(end) \in Nat /\ AlignUp(end) % Alignment = 0
          /\ end <= AlignUp(end) /\ AlignUp(end) < end + Alignment
      BY <3>4, AlignUpFacts
    <3> QED
      BY <2>3, <2>5, <3>1, <3>4, <3>5, <3>6
  <2> QED
    BY <2>4, <2>5
<1> QED
  BY <1>1, LayoutInvariant, PTL

\* Planning again never moves the blocks forward.
THEOREM GuessesGrow == Spec => NeverMovesForward
<1>1. TypeOK /\ IInv /\ [Next]_vars => [attachment' >= attachment]_vars
  BY NextInv
<1> QED
  BY <1>1, LayoutInvariant, PTL DEF Spec, NeverMovesForward

\* A request of fewer blocks than an alignment unit has bytes never runs out of
\* rounds: planning has moved the blocks three times at most.
THEOREM FewBlocksAlwaysSettle == Spec => []FewBlocksSettle
<1>1. Init => InvFewBlocks
  BY LayoutAssumption DEF Init, InvFewBlocks, FirstGuess, LayoutAssumption
<1>2. TypeOK /\ IInv /\ InvFewBlocks /\ [Next]_vars => InvFewBlocks'
  BY FewStep
<1>3. InvFewBlocks => FewBlocksSettle
  BY DEF InvFewBlocks, FewBlocksSettle
<1> QED
  BY <1>1, <1>2, <1>3, LayoutInvariant, PTL DEF Spec

-----------------------------------------------------------------------------
(* The reader opens a file.                                                   *)

\* The reader's module counts as this one does.
LEMMA ReaderCounts ==
  /\ \A S : Reader!Cardinality(S) = Cardinality(S)
  /\ \A S : Reader!IsFiniteSet(S) <=> IsFiniteSet(S)
BY DEF Reader!Cardinality, Cardinality, Reader!IsFiniteSet, IsFiniteSet

-----------------------------------------------------------------------------
(* Sorting.                                                                   *)

\* The ranges that come before range i.
Earlier(rs, i) == {j \in DOMAIN rs : Reader!Before(rs, j, i)}

\* Of two ranges one comes before the other, and behind fewer ranges.
LEMMA ReaderPlaceFacts ==
  ASSUME NEW rs \in Seq(Reader!AttachedRange)
  PROVE  /\ \A i \in DOMAIN rs : Reader!PlaceOf(rs, i) \in 1 .. Len(rs)
         /\ \A i, j \in DOMAIN rs :
              Reader!Before(rs, i, j) => Reader!PlaceOf(rs, i) < Reader!PlaceOf(rs, j)
<1>1. /\ Len(rs) \in Nat /\ DOMAIN rs = 1 .. Len(rs)
      /\ \A i \in DOMAIN rs : rs[i].offset \in Nat
  <2>1. \A i \in DOMAIN rs : rs[i] \in Reader!AttachedRange
    OBVIOUS
  <2> QED
    BY <2>1 DEF Reader!AttachedRange
<1>2. IsFiniteSet(DOMAIN rs) /\ Cardinality(DOMAIN rs) = Len(rs)
  <2>1. /\ IsFiniteSet(1 .. Len(rs))
        /\ Cardinality(1 .. Len(rs)) = IF 1 > Len(rs) THEN 0 ELSE Len(rs) - 1 + 1
    BY <1>1, FS_Interval
  <2> QED
    BY <1>1, <2>1
<1>3. \A i : IsFiniteSet(Earlier(rs, i)) /\ Cardinality(Earlier(rs, i)) \in Nat
  <2>1. \A i : Earlier(rs, i) \subseteq DOMAIN rs
    BY DEF Earlier
  <2> QED
    BY <1>2, <2>1, FS_Subset, FS_CardinalityType
<1>4. \A i : Reader!PlaceOf(rs, i) = 1 + Cardinality(Earlier(rs, i))
  BY ReaderCounts DEF Reader!PlaceOf, Earlier
<1>5. ASSUME NEW i \in DOMAIN rs
      PROVE  Reader!PlaceOf(rs, i) \in 1 .. Len(rs)
  <2>1. i \notin Earlier(rs, i)
    BY <1>1 DEF Earlier, Reader!Before
  <2>2. Earlier(rs, i) \subseteq DOMAIN rs \ {i}
    BY <2>1 DEF Earlier
  <2>3. IsFiniteSet(DOMAIN rs \ {i}) /\ Cardinality(DOMAIN rs \ {i}) = Len(rs) - 1
    BY <1>2, FS_RemoveElement
  <2>4. Cardinality(Earlier(rs, i)) <= Len(rs) - 1
    BY <2>2, <2>3, FS_Subset
  <2> QED
    BY <1>1, <1>3, <1>4, <2>4
<1>6. ASSUME NEW i \in DOMAIN rs, NEW j \in DOMAIN rs, Reader!Before(rs, i, j)
      PROVE  Reader!PlaceOf(rs, i) < Reader!PlaceOf(rs, j)
  <2>1. Earlier(rs, i) \subseteq Earlier(rs, j)
    BY <1>1, <1>6 DEF Earlier, Reader!Before
  <2>2. i \in Earlier(rs, j) /\ i \notin Earlier(rs, i)
    BY <1>1, <1>6 DEF Earlier, Reader!Before
  <2>3. /\ Cardinality(Earlier(rs, i)) <= Cardinality(Earlier(rs, j))
        /\ Cardinality(Earlier(rs, i)) # Cardinality(Earlier(rs, j))
    BY <1>3, <2>1, <2>2, FS_Subset
  <2> QED
    BY <1>3, <1>4, <2>3
<1> QED
  BY <1>5, <1>6

\* The elements of s are the first n of rs, each in one place.
Rearranges(s, rs, n) ==
  \E p \in [1 .. n -> 1 .. n] :
    /\ \A k \in 1 .. n : s[k] = rs[p[k]]
    /\ \A k, l \in 1 .. n : p[k] = p[l] => k = l
    /\ \A i \in 1 .. n : \E k \in 1 .. n : p[k] = i

\* Sorting gives every range one place, by its offset.
LEMMA ReaderSortedFacts ==
  ASSUME NEW rs \in Seq(Reader!AttachedRange), NEW n, n = Len(rs), NEW s, s = Reader!Sorted(rs)
  PROVE  /\ s \in Seq(Reader!AttachedRange) /\ Len(s) = n
         /\ Rearranges(s, rs, n)
         /\ \A k, l \in 1 .. n : k < l => s[k].offset <= s[l].offset
<1>2. n \in Nat /\ DOMAIN rs = 1 .. n /\ \A i \in 1 .. n : rs[i] \in Reader!AttachedRange
  OBVIOUS
<1>3. /\ \A i \in 1 .. n : Reader!PlaceOf(rs, i) \in 1 .. n
      /\ \A i, j \in 1 .. n : Reader!Before(rs, i, j) => Reader!PlaceOf(rs, i) < Reader!PlaceOf(rs, j)
  BY <1>2, ReaderPlaceFacts
<1>4. ASSUME NEW i \in 1 .. n, NEW j \in 1 .. n, i # j
      PROVE  Reader!Before(rs, i, j) \/ Reader!Before(rs, j, i)
  BY <1>2, <1>4 DEF Reader!Before, Reader!AttachedRange
<1>5. PICK f : f = [i \in 1 .. n |-> Reader!PlaceOf(rs, i)]
  OBVIOUS
<1>6. f \in Injection(1 .. n, 1 .. n)
  <2>1. f \in [1 .. n -> 1 .. n]
    BY <1>3, <1>5
  <2>2. ASSUME NEW i \in 1 .. n, NEW j \in 1 .. n, f[i] = f[j]
        PROVE  i = j
    <3>1. Reader!PlaceOf(rs, i) = Reader!PlaceOf(rs, j) /\ Reader!PlaceOf(rs, i) \in 1 .. n
      BY <1>3, <1>5, <2>2
    <3>2. ~(Reader!PlaceOf(rs, i) < Reader!PlaceOf(rs, j)) /\ ~(Reader!PlaceOf(rs, j) < Reader!PlaceOf(rs, i))
      BY <3>1
    <3> QED
      BY <1>3, <1>4, <3>2
  <2> QED
    BY <2>1, <2>2 DEF Injection, IsInjective
<1>7. \A k \in 1 .. n : \E i \in 1 .. n : f[i] = k
  <2>1. IsFiniteSet(1 .. n)
    BY <1>2, FS_Interval
  <2>2. f \in Surjection(1 .. n, 1 .. n)
    BY <1>6, <2>1, FS_Injection
  <2> QED
    BY <2>2 DEF Surjection
<1>8. PICK p : p = [k \in 1 .. n |-> CHOOSE i \in 1 .. n : Reader!PlaceOf(rs, i) = k]
  OBVIOUS
<1>9. \A k \in 1 .. n : p[k] \in 1 .. n /\ Reader!PlaceOf(rs, p[k]) = k
  BY <1>5, <1>7, <1>8
<1>10. p \in [1 .. n -> 1 .. n]
  BY <1>8, <1>9
<1>11. ASSUME NEW k \in 1 .. n, NEW l \in 1 .. n, p[k] = p[l]
       PROVE  k = l
  BY <1>9, <1>11
<1>12. ASSUME NEW i \in 1 .. n
       PROVE  \E k \in 1 .. n : p[k] = i
  <2>1. PICK k : k = Reader!PlaceOf(rs, i)
    OBVIOUS
  <2>2. k \in 1 .. n /\ Reader!PlaceOf(rs, p[k]) = Reader!PlaceOf(rs, i) /\ p[k] \in 1 .. n
    BY <1>3, <1>9, <2>1
  <2>3. f[p[k]] = f[i]
    BY <1>5, <2>2
  <2>4. p[k] = i
    BY <1>6, <2>2, <2>3 DEF Injection, IsInjective
  <2> QED
    BY <2>2, <2>4
<1>13. s = [k \in 1 .. n |-> rs[p[k]]]
  <2>1. s = [k \in 1 .. n |-> rs[CHOOSE i \in 1 .. n : Reader!PlaceOf(rs, i) = k]]
    BY <1>2 DEF Reader!Sorted
  <2>2. \A k \in 1 .. n : p[k] = CHOOSE i \in 1 .. n : Reader!PlaceOf(rs, i) = k
    BY <1>8
  <2> QED
    BY <2>1, <2>2
<1>15. s \in Seq(Reader!AttachedRange) /\ Len(s) = n
  <2>1. s \in [1 .. n -> Reader!AttachedRange] /\ DOMAIN s = 1 .. n
    BY <1>2, <1>9, <1>13
  <2> QED
    BY <1>2, <2>1
<1>16. ASSUME NEW k \in 1 .. n, NEW l \in 1 .. n, k < l
       PROVE  s[k].offset <= s[l].offset
  <2>1. PICK i, j : i = p[k] /\ j = p[l]
    OBVIOUS
  <2>2. i \in 1 .. n /\ j \in 1 .. n /\ Reader!PlaceOf(rs, i) = k /\ Reader!PlaceOf(rs, j) = l
    BY <1>9, <2>1
  <2>3. ~Reader!Before(rs, j, i)
    <3>1. ~(l < k)
      BY <1>16
    <3> QED
      BY <1>3, <2>2, <3>1
  <2>4. rs[i].offset \in Nat /\ rs[j].offset \in Nat
    BY <1>2, <2>2 DEF Reader!AttachedRange
  <2>5. s[k] = rs[i] /\ s[l] = rs[j]
    BY <1>13, <2>1
  <2> QED
    BY <2>3, <2>4, <2>5 DEF Reader!Before
<1>17. \A k \in 1 .. n : s[k] = rs[p[k]]
  BY <1>13
<1>18. Rearranges(s, rs, n)
  BY <1>10, <1>11, <1>12, <1>17 DEF Rearranges
<1> QED
  BY <1>15, <1>16, <1>18

\* Ranges that lie one behind the other stay where they are.
LEMMA ReaderSortedAlready ==
  ASSUME NEW rs \in Seq(Reader!AttachedRange),
         \A i, j \in DOMAIN rs : i < j => rs[i].offset < rs[j].offset
  PROVE  Reader!Sorted(rs) = rs
<1>1. PICK n : n = Len(rs)
  OBVIOUS
<1>2. /\ n \in Nat /\ DOMAIN rs = 1 .. n /\ rs = [k \in 1 .. n |-> rs[k]]
      /\ \A i \in 1 .. n : rs[i].offset \in Nat
  <2>1. \A i \in DOMAIN rs : rs[i] \in Reader!AttachedRange
    OBVIOUS
  <2> QED
    BY <1>1, <2>1 DEF Reader!AttachedRange
<1>3. ASSUME NEW i \in 1 .. n
      PROVE  Reader!PlaceOf(rs, i) = i
  <2>1. ASSUME NEW j \in 1 .. n
        PROVE  Reader!Before(rs, j, i) <=> j < i
    <3>1. j < i \/ j = i \/ i < j
      BY <1>2
    <3> QED
      BY <1>2, <3>1 DEF Reader!Before
  <2>2. {j \in DOMAIN rs : Reader!Before(rs, j, i)} = 1 .. i - 1
    BY <1>2, <2>1
  <2>3. Cardinality(1 .. i - 1) = i - 1
    <3>1. 1 \in Int /\ i - 1 \in Int
      OBVIOUS
    <3>2. Cardinality(1 .. i - 1) = IF 1 > i - 1 THEN 0 ELSE (i - 1) - 1 + 1
      BY <3>1, FS_Interval
    <3> QED
      BY <3>2
  <2>4. Reader!PlaceOf(rs, i) = 1 + Cardinality({j \in DOMAIN rs : Reader!Before(rs, j, i)})
    BY ReaderCounts DEF Reader!PlaceOf
  <2>5. Reader!PlaceOf(rs, i) = 1 + (i - 1)
    BY <2>2, <2>3, <2>4
  <2> QED
    BY <2>5
<1>4. \A k \in 1 .. n : (CHOOSE i \in 1 .. n : Reader!PlaceOf(rs, i) = k) = k
  BY <1>3
<1>5. Reader!Sorted(rs) = [k \in 1 .. n |-> rs[CHOOSE i \in 1 .. n : Reader!PlaceOf(rs, i) = k]]
  BY <1>2 DEF Reader!Sorted
<1> QED
  BY <1>2, <1>4, <1>5

-----------------------------------------------------------------------------
(* Files, ranges and what lies between them.                                  *)

\* The numbers of a file.
LEMMA ReaderFileFacts ==
  ASSUME Reader!TypeOK
  PROVE  /\ file.size \in Nat /\ file.length \in Nat /\ Reader!HeaderEndOf(file) \in Nat
         /\ file.ranges \in Seq(Reader!AttachedRange)
         /\ Len(ranges) \in Nat /\ DOMAIN ranges = 1 .. Len(ranges)
         /\ at \in Nat /\ cursor \in Nat /\ unused \in Nat /\ checked \in Nat
         /\ \A i \in 1 .. Len(ranges) :
              ranges[i].offset \in Nat /\ ranges[i].size \in Nat /\ Reader!End(ranges[i]) \in Nat
<1>1. file \in Reader!File
  BY DEF Reader!TypeOK
<1>2. /\ file.size \in Nat /\ file.length \in Nat /\ file.ranges \in Seq(Reader!AttachedRange)
  BY <1>1 DEF Reader!File
<1>3. Reader!HeaderEndOf(file) \in Nat
  BY <1>2 DEF Reader!HeaderEndOf, Reader!PreambleSize
<1>4. Len(ranges) \in Nat /\ DOMAIN ranges = 1 .. Len(ranges)
      /\ \A i \in 1 .. Len(ranges) : ranges[i] \in Reader!AttachedRange
  BY DEF Reader!TypeOK
<1>5. \A r \in Reader!AttachedRange : r.offset \in Nat /\ r.size \in Nat /\ Reader!End(r) \in Nat
  BY DEF Reader!AttachedRange, Reader!End
<1>6. at \in Nat /\ cursor \in Nat /\ unused \in Nat /\ checked \in Nat
  BY <1>4 DEF Reader!TypeOK
<1> QED
  BY <1>2, <1>3, <1>4, <1>5, <1>6

\* A range that is not outside is a nonempty part of the payload, and no other is.
LEMMA ReaderInsideFacts ==
  ASSUME Reader!TypeOK, NEW r \in Reader!AttachedRange
  PROVE  /\ ~Reader!Outside(r) <=> /\ r.size # 0 /\ Reader!HeaderEndOf(file) <= r.offset
                            /\ Reader!End(r) <= file.size
         /\ ~Reader!Outside(r) <=> Reader!Bytes(r) # {} /\ Reader!Bytes(r) \subseteq Reader!Payload(file)
<1>1. r.offset \in Nat /\ r.size \in Nat /\ file.size \in Nat /\ Reader!HeaderEndOf(file) \in Nat
  BY ReaderFileFacts DEF Reader!AttachedRange
<1>2. ~Reader!Outside(r) <=> /\ r.size # 0 /\ Reader!HeaderEndOf(file) <= r.offset
                      /\ Reader!End(r) <= file.size
  BY <1>1 DEF Reader!Outside, Reader!End
<1>3. Reader!Bytes(r) = r.offset .. (r.offset + r.size) - 1
  BY DEF Reader!Bytes, Reader!End
<1>4. ASSUME ~Reader!Outside(r)
      PROVE  Reader!Bytes(r) # {} /\ Reader!Bytes(r) \subseteq Reader!Payload(file)
  <2>1. r.offset \in Reader!Bytes(r)
    BY <1>1, <1>2, <1>3, <1>4
  <2>2. Reader!Bytes(r) \subseteq Reader!Payload(file)
    BY <1>1, <1>2, <1>3, <1>4 DEF Reader!Payload, Reader!End
  <2> QED
    BY <2>1, <2>2
<1>5. ASSUME Reader!Bytes(r) # {}, Reader!Bytes(r) \subseteq Reader!Payload(file)
      PROVE  ~Reader!Outside(r)
  <2>1. r.size # 0 /\ r.offset \in Reader!Bytes(r) /\ (r.offset + r.size) - 1 \in Reader!Bytes(r)
    BY <1>1, <1>3, <1>5
  <2>2. /\ r.offset \in Reader!HeaderEndOf(file) .. file.size - 1
        /\ (r.offset + r.size) - 1 \in Reader!HeaderEndOf(file) .. file.size - 1
    BY <1>5, <2>1 DEF Reader!Payload
  <2> QED
    BY <1>1, <1>2, <2>1, <2>2 DEF Reader!End
<1> QED
  BY <1>2, <1>4, <1>5

\* The sorted ranges are those of the file, each in one place.
LEMMA ReaderCorrespond ==
  ASSUME Reader!TypeOK, Reader!IInv, step \in {"ranges", "gaps", "scan", "accepted"}
  PROVE  /\ Len(file.ranges) = Len(ranges) /\ DOMAIN file.ranges = 1 .. Len(ranges)
         /\ \A i \in 1 .. Len(ranges) :
              file.ranges[i] \in Reader!AttachedRange /\ ranges[i] \in Reader!AttachedRange
         /\ Rearranges(ranges, file.ranges, Len(ranges))
         /\ \A k, l \in 1 .. Len(ranges) :
              k < l => ranges[k].offset <= ranges[l].offset
<1>1. PICK n, rs, s : n = Len(file.ranges) /\ rs = file.ranges /\ s = ranges
  OBVIOUS
<1>2. s = Reader!Sorted(rs) /\ n = Len(rs)
  BY <1>1 DEF Reader!IInv, Reader!InvHeader
<1>3. rs \in Seq(Reader!AttachedRange)
  BY <1>1, ReaderFileFacts
<1>4. /\ s \in Seq(Reader!AttachedRange) /\ Len(s) = n /\ Rearranges(s, rs, n)
      /\ \A k, l \in 1 .. n : k < l => s[k].offset <= s[l].offset
  BY <1>2, <1>3, ReaderSortedFacts
<1>5. /\ DOMAIN rs = 1 .. n
      /\ \A i \in 1 .. n : rs[i] \in Reader!AttachedRange /\ s[i] \in Reader!AttachedRange
  BY <1>2, <1>3, <1>4
<1> QED
  BY <1>1, <1>4, <1>5

\* Ranges that have passed divide up the payload.
LEMMA ReaderPassedPartition ==
  ASSUME Reader!TypeOK, Reader!IInv, step \in {"gaps", "scan", "accepted"}
  PROVE  /\ Reader!Partitioned(file)
         /\ \A b : b \in Reader!Blocks(file) <=> \E k \in 1 .. Len(ranges) : b \in Reader!Bytes(ranges[k])
<1>1. PICK n, rs : n = Len(ranges) /\ rs = file.ranges
  OBVIOUS
<1>2. /\ DOMAIN rs = 1 .. n /\ n \in Nat
      /\ \A i \in 1 .. n : rs[i] \in Reader!AttachedRange /\ ranges[i] \in Reader!AttachedRange
  BY <1>1, ReaderCorrespond, ReaderFileFacts
<1>3. PICK p \in [1 .. n -> 1 .. n] :
        /\ \A k \in 1 .. n : ranges[k] = rs[p[k]]
        /\ \A k, l \in 1 .. n : p[k] = p[l] => k = l
        /\ \A i \in 1 .. n : \E k \in 1 .. n : p[k] = i
  <2>1. Rearranges(ranges, rs, n)
    BY <1>1, ReaderCorrespond
  <2> QED
    BY <2>1 DEF Rearranges
<1>4. Reader!Passed(n)
  BY <1>1 DEF Reader!IInv, Reader!InvRanges
<1>5. ASSUME NEW k \in 1 .. n, NEW l \in 1 .. n, k < l
      PROVE  Reader!Bytes(ranges[k]) \cap Reader!Bytes(ranges[l]) = {}
  <2>1. k \in 1 .. l - 1
    BY <1>2, <1>5
  <2>2. Reader!End(ranges[k]) <= ranges[l].offset
    BY <1>4, <2>1 DEF Reader!Passed
  <2>3. Reader!End(ranges[k]) \in Nat /\ ranges[l].offset \in Nat
    BY <1>1, ReaderFileFacts
  <2> QED
    BY <2>2, <2>3 DEF Reader!Bytes
<1>6. ASSUME NEW i \in 1 .. n
      PROVE  Reader!Bytes(rs[i]) # {} /\ Reader!Bytes(rs[i]) \subseteq Reader!Payload(file)
  <2>1. PICK k \in 1 .. n : rs[i] = ranges[k]
    BY <1>3
  <2>2. ~Reader!Outside(ranges[k])
    BY <1>4 DEF Reader!Passed
  <2> QED
    BY <1>2, <2>1, <2>2, ReaderInsideFacts
<1>7. ASSUME NEW i \in 1 .. n, NEW j \in 1 .. n, i # j
      PROVE  Reader!Bytes(rs[i]) \cap Reader!Bytes(rs[j]) = {}
  <2>1. PICK k \in 1 .. n, l \in 1 .. n : p[k] = i /\ p[l] = j
    BY <1>3
  <2>2. rs[i] = ranges[k] /\ rs[j] = ranges[l] /\ k # l
    BY <1>3, <1>7, <2>1
  <2>3. k < l \/ l < k
    BY <1>2, <2>2
  <2> QED
    BY <1>5, <2>2, <2>3
<1>8. Reader!Partitioned(file)
  BY <1>1, <1>2, <1>6, <1>7 DEF Reader!Partitioned
<1>9. \A b : b \in Reader!Blocks(file) <=> \E i \in 1 .. n : b \in Reader!Bytes(rs[i])
  BY <1>1, <1>2 DEF Reader!Blocks
<1>10. \A b : b \in Reader!Blocks(file) <=> \E k \in 1 .. n : b \in Reader!Bytes(ranges[k])
  BY <1>3, <1>9
<1> QED
  BY <1>1, <1>8, <1>10

\* There are only so many unused bytes.
LEMMA ReaderUnusedFacts ==
  ASSUME Reader!TypeOK
  PROVE  /\ IsFiniteSet(Reader!Unused(file)) /\ Cardinality(Reader!Unused(file)) \in Nat
         /\ \A S \in SUBSET Reader!Unused(file) :
              /\ IsFiniteSet(S) /\ Cardinality(S) \in Nat
              /\ Cardinality(S) <= Cardinality(Reader!Unused(file))
         /\ Reader!Unused(file) \subseteq Reader!HeaderEndOf(file) .. file.size - 1
<1>1. file.size - 1 \in Int /\ Reader!HeaderEndOf(file) \in Int
  BY ReaderFileFacts
<1>2. IsFiniteSet(Reader!HeaderEndOf(file) .. file.size - 1)
  BY <1>1, FS_Interval
<1>3. Reader!Unused(file) \subseteq Reader!HeaderEndOf(file) .. file.size - 1
  BY DEF Reader!Unused, Reader!Payload
<1>4. IsFiniteSet(Reader!Unused(file)) /\ Cardinality(Reader!Unused(file)) \in Nat
  BY <1>2, <1>3, FS_Subset, FS_CardinalityType
<1> QED
  BY <1>3, <1>4, FS_Subset, FS_CardinalityType

\* The gap at the cursor holds unused bytes only, and begins where it should.
LEMMA ReaderGapFacts ==
  ASSUME Reader!TypeOK, Reader!IInv, step \in {"gaps", "scan"}
  PROVE  /\ Reader!GapEnd \in Nat /\ cursor <= Reader!GapEnd
         /\ Reader!GapSize \in Nat /\ cursor + Reader!GapSize = Reader!GapEnd
         /\ cursor .. Reader!GapEnd - 1 \subseteq Reader!Unused(file)
<1>1. PICK n, a, c, g : n = Len(ranges) /\ a = at /\ c = cursor /\ g = Reader!GapEnd
  OBVIOUS
<1>2. /\ n \in Nat /\ a \in 1 .. n + 1 /\ c \in Nat /\ file.size \in Nat
      /\ Reader!HeaderEndOf(file) \in Nat
  BY <1>1, ReaderFileFacts DEF Reader!TypeOK
<1>3. g = IF a <= n THEN ranges[a].offset ELSE file.size
  BY <1>1 DEF Reader!GapEnd
<1>4. c = IF a = 1 THEN Reader!HeaderEndOf(file) ELSE Reader!End(ranges[a - 1])
  BY <1>1 DEF Reader!IInv, Reader!InvRanges, Reader!Reached
<1>5. /\ \A i \in 1 .. n : /\ ranges[i].offset \in Nat /\ Reader!End(ranges[i]) \in Nat
                          /\ ranges[i].offset <= Reader!End(ranges[i])
                          /\ Reader!HeaderEndOf(file) <= ranges[i].offset
                          /\ Reader!End(ranges[i]) <= file.size
      /\ \A i, j \in 1 .. n : i < j => Reader!End(ranges[i]) <= ranges[j].offset
  <2>1. Reader!Passed(n)
    BY <1>1 DEF Reader!IInv, Reader!InvRanges
  <2>2. ASSUME NEW i \in 1 .. n
        PROVE  /\ ranges[i].offset \in Nat /\ Reader!End(ranges[i]) \in Nat
               /\ ranges[i].offset <= Reader!End(ranges[i])
               /\ Reader!HeaderEndOf(file) <= ranges[i].offset
               /\ Reader!End(ranges[i]) <= file.size
    <3>1. /\ ranges[i].offset \in Nat /\ ranges[i].size \in Nat /\ Reader!End(ranges[i]) \in Nat
      BY <1>1, ReaderFileFacts
    <3>2. ranges[i] \in Reader!AttachedRange /\ ~Reader!Outside(ranges[i])
      BY <1>1, <2>1, ReaderCorrespond DEF Reader!Passed
    <3> QED
      BY <3>1, <3>2, ReaderInsideFacts DEF Reader!End
  <2>3. ASSUME NEW i \in 1 .. n, NEW j \in 1 .. n, i < j
        PROVE  Reader!End(ranges[i]) <= ranges[j].offset
    <3>1. i \in 1 .. j - 1
      BY <1>2, <2>3
    <3> QED
      BY <2>1, <3>1 DEF Reader!Passed
  <2> QED
    BY <2>2, <2>3
<1>6. Reader!HeaderEndOf(file) <= file.size
  <2>1. Reader!HeaderFits /\ file.size >= Reader!PreambleSize /\ file.length \in Nat
    BY ReaderFileFacts DEF Reader!IInv, Reader!InvHeader
  <2> QED
    BY <1>2, <2>1 DEF Reader!HeaderFits, Reader!HeaderEndOf, Reader!PreambleSize
<1>7. g \in Nat /\ g <= file.size
  BY <1>2, <1>3, <1>5
<1>8. c <= g /\ Reader!HeaderEndOf(file) <= c
  <2>1. CASE a = 1
    BY <1>2, <1>3, <1>4, <1>5, <1>6, <2>1
  <2>2. CASE a # 1
    <3>1. a - 1 \in 1 .. n /\ c = Reader!End(ranges[a - 1])
      BY <1>2, <1>4, <2>2
    <3>2. Reader!HeaderEndOf(file) <= c
      BY <1>2, <1>5, <3>1
    <3>3. CASE a <= n
      <4>1. a \in 1 .. n /\ a - 1 < a
        BY <1>2, <3>3
      <4> QED
        BY <1>3, <1>5, <3>1, <3>2, <3>3, <4>1
    <3>4. CASE ~(a <= n)
      BY <1>3, <1>5, <3>1, <3>2, <3>4
    <3> QED
      BY <3>3, <3>4
  <2> QED
    BY <2>1, <2>2
<1>9. ASSUME NEW b \in c .. g - 1
      PROVE  b \in Reader!Unused(file)
  <2>1. b \in Nat /\ b \in Reader!Payload(file)
    BY <1>2, <1>7, <1>8 DEF Reader!Payload
  <2>2. ASSUME NEW k \in 1 .. n, b \in Reader!Bytes(ranges[k])
        PROVE  FALSE
    <3>1. ranges[k].offset <= b /\ b < Reader!End(ranges[k])
      BY <1>5, <2>1, <2>2 DEF Reader!Bytes
    <3>2. CASE k < a
      <4>1. a - 1 \in 1 .. n /\ (k = a - 1 \/ k < a - 1) /\ c = Reader!End(ranges[a - 1])
        BY <1>2, <1>4, <3>2
      <4>2. Reader!End(ranges[k]) <= c
        BY <1>2, <1>5, <4>1
      <4> QED
        BY <1>2, <1>5, <1>9, <2>1, <3>1, <4>2
    <3>3. CASE ~(k < a)
      <4>1. a \in 1 .. n /\ (k = a \/ a < k) /\ g = ranges[a].offset
        BY <1>2, <1>3, <3>3
      <4>2. g <= ranges[k].offset
        <5>1. a < k => g <= ranges[k].offset
          BY <1>5, <1>7, <4>1
        <5> QED
          BY <1>7, <4>1, <5>1
      <4> QED
        BY <1>5, <1>7, <2>1, <3>1, <4>2
    <3> QED
      BY <3>2, <3>3
  <2>3. b \notin Reader!Blocks(file)
    BY <1>1, <2>2, ReaderPassedPartition
  <2> QED
    BY <2>1, <2>3 DEF Reader!Unused
<1>10. Reader!GapSize = g - c
  BY <1>1 DEF Reader!GapSize
<1> QED
  BY <1>1, <1>2, <1>7, <1>8, <1>9, <1>10

\* What a gap costs, and what lies behind it.
LEMMA ReaderGapCost ==
  ASSUME Reader!TypeOK, Reader!IInv, step \in {"gaps", "scan"}
  PROVE  /\ Cardinality(Reader!UnusedBelow(Reader!GapEnd)) = Cardinality(Reader!UnusedBelow(cursor)) + Reader!GapSize
         /\ Reader!UnusedBelow(cursor) \subseteq Reader!Unused(file)
         /\ Reader!UnusedBelow(Reader!GapEnd) \subseteq Reader!Unused(file)
         /\ at <= Len(ranges) => Reader!UnusedBelow(Reader!End(ranges[at])) = Reader!UnusedBelow(Reader!GapEnd)
         /\ at > Len(ranges) => Reader!UnusedBelow(Reader!GapEnd) = Reader!Unused(file)
<1>1. PICK c, g : c = cursor /\ g = Reader!GapEnd
  OBVIOUS
<1>2. /\ c \in Nat /\ g \in Nat /\ c <= g /\ Reader!GapSize = g - c
      /\ c .. g - 1 \subseteq Reader!Unused(file)
  BY <1>1, ReaderFileFacts, ReaderGapFacts DEF Reader!GapSize
<1>3. Reader!UnusedBelow(c) \subseteq Reader!Unused(file) /\ Reader!UnusedBelow(g) \subseteq Reader!Unused(file)
  BY DEF Reader!UnusedBelow
<1>4. Cardinality(Reader!UnusedBelow(g)) = Cardinality(Reader!UnusedBelow(c)) + (g - c)
  <2>1. Reader!UnusedBelow(g) = Reader!UnusedBelow(c) \cup (c .. g - 1)
    BY <1>2 DEF Reader!UnusedBelow
  <2>2. Reader!UnusedBelow(c) \cap (c .. g - 1) = {}
    BY <1>2 DEF Reader!UnusedBelow
  <2>3. IsFiniteSet(Reader!UnusedBelow(c)) /\ Cardinality(Reader!UnusedBelow(c)) \in Nat
    BY <1>3, ReaderUnusedFacts
  <2>4. IsFiniteSet(c .. g - 1) /\ Cardinality(c .. g - 1) = g - c
    <3>1. c \in Int /\ g - 1 \in Int
      BY <1>2
    <3>2. /\ IsFiniteSet(c .. g - 1)
          /\ Cardinality(c .. g - 1) = IF c > g - 1 THEN 0 ELSE (g - 1) - c + 1
      BY <3>1, FS_Interval
    <3> QED
      BY <1>2, <3>2
  <2>5. Cardinality(Reader!UnusedBelow(c) \cup (c .. g - 1))
          = Cardinality(Reader!UnusedBelow(c)) + Cardinality(c .. g - 1)
              - Cardinality(Reader!UnusedBelow(c) \cap (c .. g - 1))
    BY <2>3, <2>4, FS_Union
  <2>6. Cardinality(Reader!UnusedBelow(c) \cap (c .. g - 1)) = 0
    BY <2>2, FS_EmptySet
  <2> QED
    BY <1>2, <2>1, <2>3, <2>4, <2>5, <2>6
<1>5. ASSUME at <= Len(ranges)
      PROVE  Reader!UnusedBelow(Reader!End(ranges[at])) = Reader!UnusedBelow(g)
  <2>1. at \in 1 .. Len(ranges) /\ g = ranges[at].offset
    BY <1>1, <1>5, ReaderFileFacts DEF Reader!GapEnd, Reader!TypeOK
  <2>2. /\ Reader!End(ranges[at]) \in Nat /\ g <= Reader!End(ranges[at])
    <3>1. ranges[at].offset \in Nat /\ ranges[at].size \in Nat
      BY <2>1, ReaderFileFacts
    <3> QED
      BY <2>1, <3>1 DEF Reader!End
  <2>3. \A b \in Reader!Bytes(ranges[at]) : b \notin Reader!Unused(file)
    BY <2>1, ReaderPassedPartition DEF Reader!Unused
  <2>4. Reader!Bytes(ranges[at]) = g .. Reader!End(ranges[at]) - 1
    BY <2>1 DEF Reader!Bytes
  <2> QED
    BY <1>2, <2>2, <2>3, <2>4 DEF Reader!UnusedBelow
<1>6. ASSUME at > Len(ranges)
      PROVE  Reader!UnusedBelow(g) = Reader!Unused(file)
  <2>1. g = file.size
    BY <1>1, <1>6, ReaderFileFacts DEF Reader!GapEnd
  <2>2. Reader!Unused(file) \subseteq 0 .. file.size - 1
    BY ReaderUnusedFacts, ReaderFileFacts
  <2> QED
    BY <2>1, <2>2 DEF Reader!UnusedBelow
<1> QED
  BY <1>1, <1>2, <1>3, <1>4, <1>5, <1>6

-----------------------------------------------------------------------------
(* The steps.                                                                 *)

\* A file may be turned away when a read fails or it is not well formed.
LEMMA ReaderRejectInv ==
  ASSUME Reader!TypeOK, Reader!IInv, NEW e \in Reader!ReaderErrors, Reader!Reject(e),
         e = "io_error" \/ ~Reader!WellFormed(file)
  PROVE  Reader!TypeOK' /\ Reader!IInv'
<1>1. /\ step' = "rejected" /\ verdict' = e
      /\ UNCHANGED <<file, ranges, at, cursor, unused, checked>>
  BY DEF Reader!Reject
<1>2. Reader!TypeOK'
  BY <1>1 DEF Reader!TypeOK, Reader!Steps
<1>3. Reader!InvHeader' /\ Reader!InvRanges'
  BY <1>1 DEF Reader!InvHeader, Reader!InvRanges
<1>4. Reader!InvGaps'
  BY <1>1 DEF Reader!IInv, Reader!InvGaps
<1>5. Reader!DecidesExactly'
  BY <1>1 DEF Reader!DecidesExactly
<1> QED
  BY <1>2, <1>3, <1>4, <1>5 DEF Reader!IInv

\* A file is opened.
LEMMA ReaderOpenInv ==
  ASSUME Reader!TypeOK, Reader!IInv, NEW f \in Reader!File, Reader!Open(f)
  PROVE  Reader!TypeOK' /\ Reader!IInv'
<1>1. /\ step = "closed" /\ file' = f /\ step' = "preamble"
      /\ UNCHANGED <<ranges, at, cursor, unused, checked, verdict>>
  BY DEF Reader!Open
<1>2. Reader!TypeOK'
  BY <1>1 DEF Reader!TypeOK, Reader!Steps
<1>3. Reader!InvHeader'
  BY <1>1 DEF Reader!IInv, Reader!InvHeader
<1>4. Reader!InvRanges'
  BY <1>1 DEF Reader!InvRanges
<1>5. Reader!InvGaps'
  BY <1>1 DEF Reader!IInv, Reader!InvGaps
<1>6. Reader!DecidesExactly'
  BY <1>1 DEF Reader!DecidesExactly
<1> QED
  BY <1>2, <1>3, <1>4, <1>5, <1>6 DEF Reader!IInv

\* The preamble is read.
LEMMA ReaderReadPreambleInv ==
  ASSUME Reader!TypeOK, Reader!IInv, Reader!ReadPreamble
  PROVE  Reader!TypeOK' /\ Reader!IInv'
<1>1. step = "preamble" /\ file.size \in Nat
  BY ReaderFileFacts DEF Reader!ReadPreamble
<1>2. CASE Reader!Reject("io_error")
  BY <1>2, ReaderRejectInv DEF Reader!ReaderErrors
<1>3. CASE /\ file.size < Reader!PreambleSize \/ ~file.signed \/ ~file.reserved
           /\ \E e \in Reader!ReaderErrors : Reader!Reject(e)
  <2>1. ~Reader!WellFormed(file)
    BY <1>1, <1>3 DEF Reader!WellFormed, Reader!PreambleSize
  <2> QED
    BY <1>3, <2>1, ReaderRejectInv
<1>4. CASE /\ file.size >= Reader!PreambleSize /\ file.signed /\ file.reserved
           /\ step' = "header"
           /\ UNCHANGED <<file, ranges, at, cursor, unused, checked, verdict>>
  <2>1. Reader!TypeOK'
    BY <1>4 DEF Reader!TypeOK, Reader!Steps
  <2>2. Reader!InvHeader'
    BY <1>1, <1>4 DEF Reader!IInv, Reader!InvHeader
  <2>3. Reader!InvRanges'
    BY <1>4 DEF Reader!InvRanges
  <2>4. Reader!InvGaps'
    BY <1>4 DEF Reader!IInv, Reader!InvGaps
  <2>5. Reader!DecidesExactly'
    BY <1>4 DEF Reader!DecidesExactly
  <2> QED
    BY <2>1, <2>2, <2>3, <2>4, <2>5 DEF Reader!IInv
<1> QED
  BY <1>2, <1>3, <1>4 DEF Reader!ReadPreamble, Reader!ReaderErrors

\* The header is read, and its attachments are sorted.
LEMMA ReaderReadHeaderInv ==
  ASSUME Reader!RangesAssumption, Reader!TypeOK, Reader!IInv, Reader!ReadHeader
  PROVE  Reader!TypeOK' /\ Reader!IInv'
<1>1. /\ step = "header" /\ ranges = << >> /\ at = 1 /\ unused = 0
      /\ file.size >= Reader!PreambleSize /\ file.signed /\ file.reserved
  BY DEF Reader!ReadHeader, Reader!IInv, Reader!InvHeader
<1>2. file.size \in Nat /\ file.length \in Nat /\ file.ranges \in Seq(Reader!AttachedRange)
  BY ReaderFileFacts
<1>3. CASE Reader!Reject("io_error")
  BY <1>3, ReaderRejectInv DEF Reader!ReaderErrors
<1>4. CASE /\ file.length \notin 1 .. MaxHeaderBytes \/ ~Reader!HeaderFits \/ ~file.sound
           /\ \E e \in Reader!ReaderErrors : Reader!Reject(e)
  <2>1. ~Reader!WellFormed(file)
    BY <1>2, <1>4 DEF Reader!WellFormed, Reader!HeaderFits, Reader!HeaderEndOf, Reader!PreambleSize
  <2> QED
    BY <1>4, <2>1, ReaderRejectInv
<1>5. CASE /\ file.length \in 1 .. MaxHeaderBytes /\ Reader!HeaderFits /\ file.sound
           /\ ranges' = Reader!Sorted(file.ranges)
           /\ step' = "ranges" /\ cursor' = Reader!HeaderEndOf(file)
           /\ UNCHANGED <<file, at, unused, checked, verdict>>
  <2>1. ranges' \in Seq(Reader!AttachedRange) /\ 1 \in 1 .. Len(ranges') + 1
    <3>1. PICK s, n : s = Reader!Sorted(file.ranges) /\ n = Len(file.ranges)
      OBVIOUS
    <3>2. s \in Seq(Reader!AttachedRange)
      BY <1>2, <3>1, ReaderSortedFacts
    <3>3. 1 \in 1 .. Len(s) + 1
      BY <3>2
    <3> QED
      BY <1>5, <3>1, <3>2, <3>3
  <2>2. Reader!TypeOK'
    <3>1. Reader!HeaderEndOf(file) \in Nat
      BY ReaderFileFacts
    <3> QED
      BY <1>1, <1>5, <2>1, <3>1 DEF Reader!TypeOK, Reader!Steps
  <2>3. Reader!InvHeader'
    BY <1>1, <1>5 DEF Reader!InvHeader, Reader!HeaderFits
  <2>4. Reader!InvRanges'
    BY <1>1, <1>5 DEF Reader!InvRanges, Reader!Passed, Reader!Reached
  <2>5. Reader!InvGaps'
    BY <1>1, <1>5 DEF Reader!InvGaps, Reader!RangesAssumption
  <2>6. Reader!DecidesExactly'
    BY <1>5 DEF Reader!DecidesExactly
  <2> QED
    BY <2>2, <2>3, <2>4, <2>5, <2>6 DEF Reader!IInv
<1> QED
  BY <1>3, <1>4, <1>5 DEF Reader!ReadHeader, Reader!ReaderErrors

\* A range that lies outside, or reaches into the one before it, is refused.
LEMMA ReaderCheckRangeInv ==
  ASSUME Reader!TypeOK, Reader!IInv, Reader!CheckRange
  PROVE  Reader!TypeOK' /\ Reader!IInv'
<1>1. /\ step = "ranges" /\ at <= Len(ranges) /\ Reader!Reject("invalid_block")
      /\ Reader!Outside(ranges[at]) \/ ranges[at].offset < cursor
  BY DEF Reader!CheckRange
<1>2. PICK n, a, rs : n = Len(ranges) /\ a = at /\ rs = file.ranges
  OBVIOUS
<1>3. a \in 1 .. n /\ n \in Nat /\ DOMAIN rs = 1 .. n
      /\ \A i \in 1 .. n : rs[i] \in Reader!AttachedRange /\ ranges[i] \in Reader!AttachedRange
  BY <1>1, <1>2, ReaderFileFacts, ReaderCorrespond DEF Reader!TypeOK
<1>4. PICK p \in [1 .. n -> 1 .. n] :
        /\ \A k \in 1 .. n : ranges[k] = rs[p[k]]
        /\ \A k, l \in 1 .. n : p[k] = p[l] => k = l
        /\ \A i \in 1 .. n : \E k \in 1 .. n : p[k] = i
  <2>1. Rearranges(ranges, rs, n)
    BY <1>1, <1>2, ReaderCorrespond
  <2> QED
    BY <2>1 DEF Rearranges
<1>5. ASSUME Reader!Partitioned(file)
      PROVE  FALSE
  <2>1. ASSUME NEW k \in 1 .. n
        PROVE  ~Reader!Outside(ranges[k]) /\ Reader!Bytes(ranges[k]) # {}
    <3>1. p[k] \in 1 .. n /\ ranges[k] = rs[p[k]]
      BY <1>4
    <3>2. Reader!Bytes(rs[p[k]]) # {} /\ Reader!Bytes(rs[p[k]]) \subseteq Reader!Payload(file)
      BY <1>2, <1>3, <1>5, <3>1 DEF Reader!Partitioned
    <3> QED
      BY <1>3, <3>1, <3>2, ReaderInsideFacts
  <2>2. ranges[a].offset < cursor
    BY <1>1, <1>2, <1>3, <2>1
  <2>3. ranges[a].offset \in Nat /\ Reader!End(ranges[a]) \in Nat
        /\ Reader!HeaderEndOf(file) <= ranges[a].offset /\ ranges[a].size # 0
        /\ ranges[a].size \in Nat /\ Reader!HeaderEndOf(file) \in Nat
    BY <1>2, <1>3, <2>1, ReaderFileFacts, ReaderInsideFacts
  <2>4. a # 1
    BY <1>1, <1>2, <2>2, <2>3 DEF Reader!IInv, Reader!InvRanges, Reader!Reached
  <2>5. a - 1 \in 1 .. n /\ a - 1 < a /\ cursor = Reader!End(ranges[a - 1])
    BY <1>1, <1>2, <1>3, <2>4 DEF Reader!IInv, Reader!InvRanges, Reader!Reached
  <2>6. ranges[a - 1].offset <= ranges[a].offset
    BY <1>1, <1>2, <1>3, <2>5, ReaderCorrespond
  <2>7. ranges[a - 1].offset \in Nat /\ Reader!End(ranges[a - 1]) \in Nat
    BY <1>2, <2>5, ReaderFileFacts
  <2>8. ranges[a].offset \in Reader!Bytes(ranges[a - 1]) /\ ranges[a].offset \in Reader!Bytes(ranges[a])
    BY <2>2, <2>3, <2>5, <2>6, <2>7 DEF Reader!Bytes, Reader!End
  <2>9. p[a - 1] \in 1 .. n /\ p[a] \in 1 .. n /\ p[a - 1] # p[a]
    BY <1>3, <1>4, <2>5
  <2>10. Reader!Bytes(rs[p[a - 1]]) \cap Reader!Bytes(rs[p[a]]) = {}
    BY <1>2, <1>3, <1>5, <2>9 DEF Reader!Partitioned
  <2> QED
    BY <1>3, <1>4, <2>5, <2>8, <2>10
<1>6. ~Reader!WellFormed(file)
  BY <1>5 DEF Reader!WellFormed
<1> QED
  BY <1>1, <1>6, ReaderRejectInv DEF Reader!ReaderErrors

\* A range passes.
LEMMA ReaderPassRangeInv ==
  ASSUME Reader!TypeOK, Reader!IInv, Reader!PassRange
  PROVE  Reader!TypeOK' /\ Reader!IInv'
<1>1. /\ step = "ranges" /\ at <= Len(ranges)
      /\ ~Reader!Outside(ranges[at]) /\ ranges[at].offset >= cursor
      /\ cursor' = Reader!End(ranges[at]) /\ at' = at + 1
      /\ UNCHANGED <<file, step, ranges, unused, checked, verdict>>
      /\ Reader!Passed(at - 1) /\ cursor = Reader!Reached
  BY DEF Reader!PassRange, Reader!IInv, Reader!InvRanges
<1>2. PICK n, a : n = Len(ranges) /\ a = at
  OBVIOUS
<1>3. a \in 1 .. n /\ n \in Nat
  BY <1>1, <1>2, ReaderFileFacts DEF Reader!TypeOK
<1>4. Reader!TypeOK'
  <2>1. Reader!End(ranges[a]) \in Nat /\ a + 1 \in 1 .. n + 1
    BY <1>2, <1>3, ReaderFileFacts
  <2> QED
    BY <1>1, <1>2, <2>1 DEF Reader!TypeOK
<1>5. Reader!InvHeader'
  BY <1>1 DEF Reader!IInv, Reader!InvHeader, Reader!HeaderFits
<1>6. Reader!Passed(a)
  <2>1. ASSUME NEW j \in 1 .. a - 1
        PROVE  Reader!End(ranges[j]) <= ranges[a].offset
    <3>1. /\ a # 1 /\ a - 1 \in 1 .. n /\ j \in 1 .. n /\ (j = a - 1 \/ j \in 1 .. (a - 1) - 1)
          /\ a - 1 \in 1 .. a - 1
      BY <1>3
    <3>2. cursor = Reader!End(ranges[a - 1])
      BY <1>1, <1>2, <3>1 DEF Reader!Reached
    <3>3. /\ Reader!End(ranges[j]) \in Nat /\ Reader!End(ranges[a - 1]) \in Nat
          /\ ranges[a - 1].offset \in Nat /\ ranges[a - 1].size \in Nat
          /\ ranges[a].offset \in Nat
      BY <1>2, <1>3, <3>1, ReaderFileFacts
    <3>4. j \in 1 .. (a - 1) - 1 => Reader!End(ranges[j]) <= ranges[a - 1].offset
      BY <1>1, <1>2, <3>1 DEF Reader!Passed
    <3>5. ranges[a - 1].offset <= Reader!End(ranges[a - 1])
      BY <3>3 DEF Reader!End
    <3>6. Reader!End(ranges[a - 1]) <= ranges[a].offset
      BY <1>1, <1>2, <3>2, <3>3
    <3> QED
      BY <3>1, <3>3, <3>4, <3>5, <3>6
  <2>2. ASSUME NEW i \in 1 .. a
        PROVE  /\ ~Reader!Outside(ranges[i])
               /\ \A j \in 1 .. i - 1 : Reader!End(ranges[j]) <= ranges[i].offset
    <3>1. CASE i = a
      BY <1>1, <1>2, <2>1, <3>1
    <3>2. CASE i # a
      <4>1. i \in 1 .. a - 1
        BY <1>3, <3>2
      <4> QED
        BY <1>1, <1>2, <4>1 DEF Reader!Passed
    <3> QED
      BY <3>1, <3>2
  <2> QED
    BY <2>2 DEF Reader!Passed
<1>7. Reader!InvRanges'
  <2>1. at' - 1 = a /\ at' # 1
    BY <1>1, <1>2, <1>3
  <2>2. Reader!Passed(a)'
    BY <1>1, <1>6 DEF Reader!Passed, Reader!Outside
  <2>3. cursor' = Reader!Reached'
    BY <1>1, <1>2, <2>1 DEF Reader!Reached
  <2>4. unused' = 0
    BY <1>1 DEF Reader!IInv, Reader!InvRanges
  <2> QED
    BY <1>1, <2>1, <2>2, <2>3, <2>4 DEF Reader!InvRanges
<1>8. Reader!InvGaps'
  BY <1>1 DEF Reader!IInv, Reader!InvGaps
<1>9. Reader!DecidesExactly'
  BY <1>1 DEF Reader!DecidesExactly
<1> QED
  BY <1>4, <1>5, <1>7, <1>8, <1>9 DEF Reader!IInv

\* The first loop is over.
LEMMA ReaderBeginGapsInv ==
  ASSUME Reader!TypeOK, Reader!IInv, Reader!BeginGaps
  PROVE  Reader!TypeOK' /\ Reader!IInv'
<1>1. /\ step = "ranges" /\ at > Len(ranges) /\ step' = "gaps" /\ at' = 1
      /\ cursor' = Reader!HeaderEndOf(file)
      /\ UNCHANGED <<file, ranges, unused, checked, verdict>>
      /\ unused = 0 /\ Reader!Passed(at - 1)
  BY DEF Reader!BeginGaps, Reader!IInv, Reader!InvRanges
<1>2. Len(ranges) \in Nat /\ Reader!HeaderEndOf(file) \in Nat /\ at \in 1 .. Len(ranges) + 1
  BY ReaderFileFacts DEF Reader!TypeOK
<1>3. at - 1 = Len(ranges)
  BY <1>1, <1>2
<1>4. Reader!TypeOK'
  BY <1>1, <1>2 DEF Reader!TypeOK, Reader!Steps
<1>5. Reader!InvHeader'
  BY <1>1 DEF Reader!IInv, Reader!InvHeader, Reader!HeaderFits
<1>6. Reader!InvRanges'
  <2>1. Reader!Passed(Len(ranges))'
    BY <1>1, <1>3 DEF Reader!Passed, Reader!Outside
  <2> QED
    BY <1>1, <2>1 DEF Reader!InvRanges, Reader!Reached
<1>7. Reader!InvGaps'
  <2>1. Reader!UnusedBelow(Reader!HeaderEndOf(file)) = {}
    <3>1. Reader!Unused(file) \subseteq Reader!HeaderEndOf(file) .. file.size - 1 /\ file.size \in Nat
      BY ReaderUnusedFacts, ReaderFileFacts
    <3> QED
      BY <1>2, <3>1 DEF Reader!UnusedBelow
  <2>2. Cardinality({}) = 0
    BY FS_EmptySet
  <2>3. unused <= MaxUnused
    BY DEF Reader!IInv, Reader!InvGaps
  <2>4. Reader!UnusedBelow(cursor)' = {}
    BY <1>1, <2>1 DEF Reader!UnusedBelow
  <2> QED
    BY <1>1, <2>2, <2>3, <2>4, ReaderCounts DEF Reader!InvGaps
<1>8. Reader!DecidesExactly'
  BY <1>1 DEF Reader!DecidesExactly
<1> QED
  BY <1>4, <1>5, <1>6, <1>7, <1>8 DEF Reader!IInv

\* Behind a gap that has been paid for and is clean the next one begins, or the
\* file is well formed.
LEMMA ReaderAdvanceInv ==
  ASSUME Reader!TypeOK, Reader!IInv, step \in {"gaps", "scan"}, Reader!Advance,
         UNCHANGED <<unused, checked>>,
         unused = Cardinality(Reader!UnusedBelow(Reader!GapEnd)),
         Reader!UnusedBelow(Reader!GapEnd) \cap file.dirty = {}
  PROVE  Reader!TypeOK' /\ Reader!IInv'
<1>1. PICK n, a : n = Len(ranges) /\ a = at
  OBVIOUS
<1>2. n \in Nat /\ a \in 1 .. n + 1
  BY <1>1, ReaderFileFacts DEF Reader!TypeOK
<1>3. CASE a <= n
  <2>1. /\ step' = "gaps" /\ cursor' = Reader!End(ranges[a]) /\ at' = a + 1
        /\ UNCHANGED <<file, ranges, unused, checked, verdict>>
    BY <1>1, <1>3 DEF Reader!Advance
  <2>2. a \in 1 .. n /\ Reader!End(ranges[a]) \in Nat /\ a + 1 \in 1 .. n + 1
        /\ a + 1 # 1 /\ (a + 1) - 1 = a
    BY <1>1, <1>2, <1>3, ReaderFileFacts
  <2>3. Reader!TypeOK'
    BY <1>1, <2>1, <2>2 DEF Reader!TypeOK, Reader!Steps
  <2>4. Reader!InvHeader'
    BY <2>1 DEF Reader!IInv, Reader!InvHeader, Reader!HeaderFits
  <2>5. Reader!InvRanges'
    <3>1. Reader!Passed(Len(ranges))'
      BY <2>1 DEF Reader!IInv, Reader!InvRanges, Reader!Passed, Reader!Outside
    <3>2. cursor' = Reader!Reached'
      BY <2>1, <2>2 DEF Reader!Reached
    <3> QED
      BY <2>1, <3>1, <3>2 DEF Reader!InvRanges
  <2>6. Reader!InvGaps'
    <3>1. Reader!UnusedBelow(Reader!End(ranges[a])) = Reader!UnusedBelow(Reader!GapEnd)
      BY <1>1, <1>3, ReaderGapCost
    <3>2. Reader!UnusedBelow(cursor)' = Reader!UnusedBelow(Reader!End(ranges[a]))
      BY <2>1 DEF Reader!UnusedBelow
    <3>3. unused <= MaxUnused
      BY DEF Reader!IInv, Reader!InvGaps
    <3> QED
      BY <2>1, <3>1, <3>2, <3>3, ReaderCounts DEF Reader!InvGaps
  <2>7. Reader!DecidesExactly'
    BY <2>1 DEF Reader!DecidesExactly
  <2> QED
    BY <2>3, <2>4, <2>5, <2>6, <2>7 DEF Reader!IInv
<1>4. CASE ~(a <= n)
  <2>1. /\ step' = "accepted" /\ verdict' = "ok"
        /\ UNCHANGED <<file, ranges, unused, checked, cursor, at>>
    BY <1>1, <1>4 DEF Reader!Advance
  <2>2. Reader!TypeOK'
    BY <2>1 DEF Reader!TypeOK, Reader!Steps
  <2>3. Reader!InvHeader'
    BY <2>1 DEF Reader!IInv, Reader!InvHeader, Reader!HeaderFits
  <2>4. Reader!InvRanges'
    BY <2>1 DEF Reader!IInv, Reader!InvRanges, Reader!Passed, Reader!Outside
  <2>5. Reader!InvGaps'
    BY <2>1 DEF Reader!IInv, Reader!InvGaps
  <2>6. Reader!WellFormed(file)
    <3>1. Reader!UnusedBelow(Reader!GapEnd) = Reader!Unused(file)
      BY <1>1, <1>2, <1>4, ReaderGapCost
    <3>2. Reader!Unused(file) \cap file.dirty = {} /\ Cardinality(Reader!Unused(file)) <= MaxUnused
      BY <3>1 DEF Reader!IInv, Reader!InvGaps
    <3>3. Reader!Partitioned(file)
      BY ReaderPassedPartition
    <3>4. /\ file.size >= Reader!PreambleSize /\ file.signed /\ file.reserved
          /\ file.length \in 1 .. MaxHeaderBytes /\ Reader!HeaderFits /\ file.sound
          /\ file.size \in Nat /\ file.length \in Nat
      BY ReaderFileFacts DEF Reader!IInv, Reader!InvHeader
    <3>5. file.size > Reader!PreambleSize /\ Reader!HeaderEndOf(file) <= file.size
      BY <3>4 DEF Reader!HeaderFits, Reader!HeaderEndOf, Reader!PreambleSize
    <3> QED
      BY <3>2, <3>3, <3>4, <3>5, ReaderCounts DEF Reader!WellFormed
  <2>7. Reader!DecidesExactly'
    BY <2>1, <2>6 DEF Reader!DecidesExactly
  <2> QED
    BY <2>2, <2>3, <2>4, <2>5, <2>7 DEF Reader!IInv
<1> QED
  BY <1>3, <1>4

\* There is nothing between the cursor and the next range.
LEMMA ReaderNoGapInv ==
  ASSUME Reader!TypeOK, Reader!IInv, Reader!NoGap
  PROVE  Reader!TypeOK' /\ Reader!IInv'
<1>1. step = "gaps" /\ Reader!GapEnd <= cursor /\ Reader!Advance /\ UNCHANGED <<unused, checked>>
  BY DEF Reader!NoGap
<1>2. Reader!GapEnd = cursor
  BY <1>1, ReaderGapFacts, ReaderFileFacts
<1>3. /\ unused = Cardinality(Reader!UnusedBelow(Reader!GapEnd))
      /\ Reader!UnusedBelow(Reader!GapEnd) \cap file.dirty = {}
  BY <1>1, <1>2, ReaderCounts DEF Reader!IInv, Reader!InvGaps
<1> QED
  BY <1>1, <1>3, ReaderAdvanceInv

\* A gap is paid for, or is one too many.
LEMMA ReaderEnterGapInv ==
  ASSUME Reader!RangesAssumption, Reader!TypeOK, Reader!IInv, Reader!EnterGap
  PROVE  Reader!TypeOK' /\ Reader!IInv'
<1>1. step = "gaps" /\ Reader!GapEnd > cursor
  BY DEF Reader!EnterGap
<1>2. PICK u, g, cost : u = unused /\ g = Reader!GapSize /\ cost = Cardinality(Reader!UnusedBelow(Reader!GapEnd))
  OBVIOUS
<1>3. /\ u \in Nat /\ g \in Nat /\ MaxUnused \in Nat /\ u <= MaxUnused /\ cost = u + g
      /\ cost <= Cardinality(Reader!Unused(file)) /\ Cardinality(Reader!Unused(file)) \in Nat
  <2>1. unused = Cardinality(Reader!UnusedBelow(cursor)) /\ unused <= MaxUnused
    BY <1>1, ReaderCounts DEF Reader!IInv, Reader!InvGaps
  <2>2. Reader!UnusedBelow(Reader!GapEnd) \subseteq Reader!Unused(file) /\ cost = unused + Reader!GapSize
    BY <1>1, <1>2, <2>1, ReaderGapCost
  <2>3. cost <= Cardinality(Reader!Unused(file)) /\ Cardinality(Reader!Unused(file)) \in Nat
    BY <1>2, <2>2, ReaderUnusedFacts
  <2>4. unused \in Nat /\ Reader!GapSize \in Nat /\ MaxUnused \in Nat
    BY <1>1, ReaderFileFacts, ReaderGapFacts DEF Reader!RangesAssumption
  <2> QED
    BY <1>2, <2>1, <2>2, <2>3, <2>4
<1>4. Reader!OverBudget(g) <=> cost > MaxUnused
  BY <1>2, <1>3 DEF Reader!OverBudget, Reader!Smaller
<1>5. CASE Reader!OverBudget(Reader!GapSize) /\ Reader!Reject("resource_limit")
  <2>1. ~(Cardinality(Reader!Unused(file)) <= MaxUnused)
    BY <1>2, <1>3, <1>4, <1>5
  <2>2. ~Reader!WellFormed(file)
    BY <2>1, ReaderCounts DEF Reader!WellFormed
  <2> QED
    BY <1>5, <2>2, ReaderRejectInv DEF Reader!ReaderErrors
<1>6. CASE /\ ~Reader!OverBudget(Reader!GapSize)
           /\ unused' = unused + Reader!GapSize /\ checked' = 0 /\ step' = "scan"
           /\ UNCHANGED <<file, ranges, at, cursor, verdict>>
  <2>1. Reader!TypeOK'
    <3>1. unused' \in Nat
      BY <1>2, <1>3, <1>6
    <3> QED
      BY <1>6, <3>1 DEF Reader!TypeOK, Reader!Steps
  <2>2. Reader!InvHeader'
    BY <1>1, <1>6 DEF Reader!IInv, Reader!InvHeader, Reader!HeaderFits
  <2>3. Reader!InvRanges'
    <3>1. Reader!Passed(Len(ranges))'
      BY <1>1, <1>6 DEF Reader!IInv, Reader!InvRanges, Reader!Passed, Reader!Outside
    <3>2. cursor' = Reader!Reached'
      BY <1>1, <1>6 DEF Reader!IInv, Reader!InvRanges, Reader!Reached
    <3> QED
      BY <1>6, <3>1, <3>2 DEF Reader!InvRanges
  <2>4. Reader!InvGaps'
    <3>1. unused' = cost /\ unused' <= MaxUnused
      BY <1>2, <1>3, <1>4, <1>6
    <3>2. /\ Reader!GapSize' = Reader!GapSize /\ Reader!GapEnd' = Reader!GapEnd
          /\ Reader!UnusedBelow(Reader!GapEnd)' = Reader!UnusedBelow(Reader!GapEnd)
      BY <1>6 DEF Reader!GapSize, Reader!GapEnd, Reader!UnusedBelow
    <3>3. checked' \in 0 .. Reader!GapSize'
      BY <1>2, <1>3, <1>6, <3>2
    <3>4. Reader!UnusedBelow(cursor + checked)' = Reader!UnusedBelow(cursor)
      <4>1. cursor + 0 = cursor
        BY ReaderFileFacts
      <4> QED
        BY <1>6, <4>1 DEF Reader!UnusedBelow
    <3>5. Reader!UnusedBelow(cursor) \cap file.dirty = {}
      BY <1>1 DEF Reader!IInv, Reader!InvGaps
    <3> QED
      BY <1>2, <1>6, <3>1, <3>2, <3>3, <3>4, <3>5, ReaderCounts DEF Reader!InvGaps
  <2>5. Reader!DecidesExactly'
    BY <1>6 DEF Reader!DecidesExactly
  <2> QED
    BY <2>1, <2>2, <2>3, <2>4, <2>5 DEF Reader!IInv
<1> QED
  BY <1>5, <1>6 DEF Reader!EnterGap

\* The next chunk lies in the gap, and brings the scan forward.
LEMMA ReaderChunkFacts ==
  ASSUME Reader!RangesAssumption, Reader!TypeOK, Reader!IInv, step = "scan", checked < Reader!GapSize,
         NEW m, m = Reader!Smaller(Chunk, Reader!GapSize - checked)
  PROVE  /\ m \in Nat /\ checked + m \in 0 .. Reader!GapSize
         /\ Reader!Scanned \subseteq Reader!Unused(file)
         /\ Reader!UnusedBelow(cursor + (checked + m)) = Reader!UnusedBelow(cursor + checked) \cup Reader!Scanned
<1>1. PICK c, k, g : c = cursor /\ k = checked /\ g = Reader!GapSize
  OBVIOUS
<1>2. /\ c \in Nat /\ k \in Nat /\ g \in Nat /\ k < g /\ Chunk \in Nat \ {0}
      /\ Reader!GapEnd = c + g
  BY <1>1, ReaderFileFacts, ReaderGapFacts DEF Reader!RangesAssumption
<1>3. m \in Nat /\ m <= g - k
  BY <1>1, <1>2 DEF Reader!Smaller
<1>4. Reader!Scanned = c + k .. (c + k + m) - 1
  <2>1. Reader!Scanned = c + k .. c + k + m - 1
    BY <1>1 DEF Reader!Scanned
  <2>2. c + k + m - 1 = (c + k + m) - 1
    BY <1>2, <1>3
  <2> QED
    BY <2>1, <2>2
<1>5. c .. Reader!GapEnd - 1 \subseteq Reader!Unused(file)
  BY <1>1, ReaderGapFacts
<1>6. Reader!Scanned \subseteq Reader!Unused(file)
  <2>1. \A b \in c + k .. (c + k + m) - 1 : b \in c .. (c + g) - 1
    BY <1>2, <1>3
  <2> QED
    BY <1>2, <1>4, <1>5, <2>1
<1>7. Reader!UnusedBelow(c + (k + m)) = Reader!UnusedBelow(c + k) \cup Reader!Scanned
  <2>1. \A b : b \in 0 .. (c + (k + m)) - 1 <=>
                 b \in 0 .. (c + k) - 1 \/ b \in c + k .. (c + k + m) - 1
    BY <1>2, <1>3
  <2> QED
    BY <1>4, <1>6, <2>1 DEF Reader!UnusedBelow
<1> QED
  BY <1>1, <1>2, <1>3, <1>6, <1>7

\* A chunk is clean, or the file is not well formed.
LEMMA ReaderScanChunkInv ==
  ASSUME Reader!RangesAssumption, Reader!TypeOK, Reader!IInv, Reader!ScanChunk
  PROVE  Reader!TypeOK' /\ Reader!IInv'
<1>1. step = "scan" /\ checked < Reader!GapSize
  BY DEF Reader!ScanChunk
<1>2. PICK m : m = Reader!Smaller(Chunk, Reader!GapSize - checked)
  OBVIOUS
<1>3. /\ m \in Nat /\ checked + m \in 0 .. Reader!GapSize
      /\ Reader!Scanned \subseteq Reader!Unused(file)
      /\ Reader!UnusedBelow(cursor + (checked + m)) = Reader!UnusedBelow(cursor + checked) \cup Reader!Scanned
  BY <1>1, <1>2, ReaderChunkFacts
<1>4. CASE Reader!Reject("io_error")
  BY <1>4, ReaderRejectInv DEF Reader!ReaderErrors
<1>5. CASE Reader!Scanned \cap file.dirty # {} /\ Reader!Reject("invalid_block")
  <2>1. ~Reader!WellFormed(file)
    BY <1>3, <1>5 DEF Reader!WellFormed
  <2> QED
    BY <1>5, <2>1, ReaderRejectInv DEF Reader!ReaderErrors
<1>6. CASE /\ Reader!Scanned \cap file.dirty = {} /\ checked' = checked + m
           /\ UNCHANGED <<file, step, ranges, at, cursor, unused, verdict>>
  <2>1. Reader!TypeOK'
    <3>1. checked' \in Nat
      BY <1>3, <1>6, ReaderFileFacts
    <3> QED
      BY <1>6, <3>1 DEF Reader!TypeOK
  <2>2. Reader!InvHeader'
    BY <1>6 DEF Reader!IInv, Reader!InvHeader, Reader!HeaderFits
  <2>3. Reader!InvRanges'
    <3>1. Reader!Passed(Len(ranges))'
      BY <1>1, <1>6 DEF Reader!IInv, Reader!InvRanges, Reader!Passed, Reader!Outside
    <3>2. cursor' = Reader!Reached'
      BY <1>1, <1>6 DEF Reader!IInv, Reader!InvRanges, Reader!Reached
    <3> QED
      BY <1>1, <1>6, <3>1, <3>2 DEF Reader!InvRanges
  <2>4. Reader!InvGaps'
    <3>1. /\ Reader!GapSize' = Reader!GapSize /\ Reader!GapEnd' = Reader!GapEnd
          /\ Reader!UnusedBelow(Reader!GapEnd)' = Reader!UnusedBelow(Reader!GapEnd)
      BY <1>6 DEF Reader!GapSize, Reader!GapEnd, Reader!UnusedBelow
    <3>2. checked' \in 0 .. Reader!GapSize'
      BY <1>3, <1>6, <3>1
    <3>3. Reader!UnusedBelow(cursor + checked)' = Reader!UnusedBelow(cursor + (checked + m))
      BY <1>6 DEF Reader!UnusedBelow
    <3>4. /\ Reader!UnusedBelow(cursor + checked) \cap file.dirty = {}
          /\ unused <= MaxUnused /\ unused = Cardinality(Reader!UnusedBelow(Reader!GapEnd))
      BY <1>1, ReaderCounts DEF Reader!IInv, Reader!InvGaps
    <3>5. Reader!UnusedBelow(cursor + checked)' \cap file.dirty = {}
      BY <1>3, <1>6, <3>3, <3>4
    <3> QED
      BY <1>1, <1>6, <3>1, <3>2, <3>4, <3>5, ReaderCounts DEF Reader!InvGaps
  <2>5. Reader!DecidesExactly'
    BY <1>1, <1>6 DEF Reader!DecidesExactly
  <2> QED
    BY <2>1, <2>2, <2>3, <2>4, <2>5 DEF Reader!IInv
<1> QED
  BY <1>2, <1>4, <1>5, <1>6 DEF Reader!ScanChunk

\* The gap has been scanned to its end.
LEMMA ReaderLeaveGapInv ==
  ASSUME Reader!TypeOK, Reader!IInv, Reader!LeaveGap
  PROVE  Reader!TypeOK' /\ Reader!IInv'
<1>1. step = "scan" /\ checked = Reader!GapSize /\ Reader!Advance /\ UNCHANGED <<unused, checked>>
  BY DEF Reader!LeaveGap
<1>2. cursor + checked = Reader!GapEnd
  BY <1>1, ReaderGapFacts
<1>3. /\ unused = Cardinality(Reader!UnusedBelow(Reader!GapEnd))
      /\ Reader!UnusedBelow(Reader!GapEnd) \cap file.dirty = {}
  BY <1>1, <1>2, ReaderCounts DEF Reader!IInv, Reader!InvGaps
<1> QED
  BY <1>1, <1>3, ReaderAdvanceInv

-----------------------------------------------------------------------------
(* What composes with the writer: the reader starts in its invariant, every   *)
(* step of its own keeps it, and so do steps that leave the reader alone.     *)

LEMMA ReaderInitInv ==
  ASSUME Reader!RangesAssumption, Reader!Init
  PROVE  Reader!TypeOK /\ Reader!IInv
<1>1. Reader!NoFile \in Reader!File
  BY DEF Reader!NoFile, Reader!File
<1>2. Reader!TypeOK
  BY <1>1 DEF Reader!Init, Reader!TypeOK, Reader!Steps
<1>3. Reader!InvHeader /\ Reader!InvRanges
  BY DEF Reader!Init, Reader!InvHeader, Reader!InvRanges
<1>4. Reader!InvGaps
  BY DEF Reader!Init, Reader!InvGaps, Reader!RangesAssumption
<1>5. Reader!DecidesExactly
  BY DEF Reader!Init, Reader!DecidesExactly
<1> QED
  BY <1>2, <1>3, <1>4, <1>5 DEF Reader!IInv

LEMMA ReaderCheckInv ==
  ASSUME Reader!RangesAssumption, Reader!TypeOK, Reader!IInv, Reader!Check
  PROVE  Reader!TypeOK' /\ Reader!IInv'
BY ReaderReadPreambleInv, ReaderReadHeaderInv, ReaderCheckRangeInv, ReaderPassRangeInv, ReaderBeginGapsInv,
   ReaderNoGapInv, ReaderEnterGapInv, ReaderScanChunkInv, ReaderLeaveGapInv DEF Reader!Check

LEMMA ReaderStutterInv ==
  ASSUME Reader!TypeOK, Reader!IInv, UNCHANGED Reader!vars
  PROVE  Reader!TypeOK' /\ Reader!IInv'
<1>1. UNCHANGED <<file, step, ranges, at, cursor, unused, checked, verdict>>
  BY DEF Reader!vars
<1>2. Reader!TypeOK'
  BY <1>1 DEF Reader!TypeOK
<1>3. Reader!InvHeader'
  BY <1>1 DEF Reader!IInv, Reader!InvHeader, Reader!HeaderFits
<1>4. Reader!InvRanges'
  BY <1>1 DEF Reader!IInv, Reader!InvRanges, Reader!Passed, Reader!Outside, Reader!Reached
<1>5. Reader!InvGaps'
  BY <1>1 DEF Reader!IInv, Reader!InvGaps, Reader!UnusedBelow, Reader!GapSize, Reader!GapEnd
<1>6. Reader!DecidesExactly'
  BY <1>1 DEF Reader!IInv, Reader!DecidesExactly
<1> QED
  BY <1>2, <1>3, <1>4, <1>5, <1>6 DEF Reader!IInv

\* The scan stays in what is unused.
LEMMA ReaderScansInside ==
  ASSUME Reader!RangesAssumption, Reader!TypeOK, Reader!IInv
  PROVE  Reader!ScansOnlyUnused
<1>1. unused <= MaxUnused
  BY DEF Reader!IInv, Reader!InvGaps
<1>2. ASSUME step = "scan", checked < Reader!GapSize
      PROVE  Reader!Scanned \subseteq Reader!Unused(file)
  <2>1. PICK m : m = Reader!Smaller(Chunk, Reader!GapSize - checked)
    OBVIOUS
  <2> QED
    BY <1>2, <2>1, ReaderChunkFacts
<1> QED
  BY <1>1, <1>2 DEF Reader!ScansOnlyUnused

-----------------------------------------------------------------------------
(* Writer and reader together.                                                *)

\* The reader starts in its invariant, and its steps keep it.
LEMMA ReaderInit ==
  ASSUME Reader!Init
  PROVE  Reader!TypeOK /\ Reader!IInv
BY ReaderInitInv, MonolithAssumption DEF MonolithAssumption

LEMMA ReaderStep ==
  ASSUME Reader!TypeOK, Reader!IInv,
         Reader!Check \/ (\E f \in Reader!File : Reader!Open(f)) \/ UNCHANGED readerVars
  PROVE  (Reader!TypeOK)' /\ (Reader!IInv)'
<1>1. Reader!RangesAssumption
  BY MonolithAssumption DEF MonolithAssumption
<1>2. UNCHANGED readerVars => UNCHANGED Reader!vars
  BY DEF readerVars, Reader!vars
<1> QED
  BY <1>1, <1>2, ReaderCheckInv, ReaderOpenInv, ReaderStutterInv

-----------------------------------------------------------------------------
(* The file that went out.                                                    *)

\* Where the blocks lie in it.
LEMMA BlocksWritten ==
  ASSUME TypeOK, IInv, phase = "done"
  PROVE  /\ Total \in Nat \ {0} /\ written \in Nat /\ fileSize \in Nat
         /\ header.size \in Nat \ {0} /\ HeaderEnd = 16 + header.size
         /\ starts = header.locations /\ starts \in Seq(Nat) /\ DOMAIN starts = 1 .. Total
         /\ \A i \in 1 .. Total : /\ starts[i] \in Nat /\ request.sizes[i] \in Nat \ {0}
                                 /\ HeaderEnd <= starts[i]
                                 /\ starts[i] + request.sizes[i] <= written
         /\ \A i, j \in 1 .. Total : i < j => starts[i] + request.sizes[i] <= starts[j]
<1>1. PICK n, z : n = Total /\ z = request.sizes
  OBVIOUS
<1>2. /\ n \in Nat \ {0} /\ \A i \in 1 .. n : z[i] \in Nat \ {0}
      /\ fileSize \in Nat /\ header.size \in Nat /\ header.locations \in Seq(Nat)
      /\ written \in Nat
  BY <1>1, RequestFacts, NumberFacts DEF TypeOK
<1>3. /\ Len(starts) = n /\ starts \in Seq(Nat) /\ header.locations = locations
      /\ Len(locations) = n /\ \A i \in DOMAIN starts : starts[i] = locations[i]
      /\ header.size = HeaderSize(request, header.locations)
      /\ written = IF starts = << >> THEN HeaderEnd
                   ELSE starts[Len(starts)] + request.sizes[Len(starts)]
  BY <1>1, PlaceFacts DEF IInv, InvEmit, TypeOK
<1>4. starts = header.locations /\ DOMAIN starts = 1 .. n /\ starts # << >>
  <2>1. PICK s, l : s = starts /\ l = header.locations
    OBVIOUS
  <2>2. s \in Seq(Nat) /\ l \in Seq(Nat) /\ Len(s) = n /\ Len(l) = n
    BY <1>2, <1>3, <2>1
  <2>3. DOMAIN s = 1 .. n /\ s # << >>
    BY <1>2, <2>2
  <2>4. \A i \in 1 .. n : s[i] = l[i]
    BY <1>3, <2>1, <2>3
  <2>5. s = l
    BY <2>2, <2>4
  <2> QED
    BY <2>1, <2>3, <2>5
<1>5. header.size \in Nat \ {0}
  <2>1. OffsetDigits(header.locations) \in Nat \ {0}
    BY <1>2, <1>4, OffsetDigitsFacts
  <2>2. request.base \in Nat
    BY RequestFacts
  <2> QED
    BY <1>3, <2>1, <2>2 DEF HeaderSize
<1>6. HeaderEnd = 16 + header.size /\ HeaderEnd \in Nat
  BY <1>5 DEF HeaderEnd, Preamble
<1>7. \A i \in 1 .. n : starts[i] \in Nat
  BY <1>3, <1>4
<1>8. HeaderEnd <= starts[1]
  <2>1. 1 \in DOMAIN starts /\ starts[1] = AlignUp(HeaderEnd)
    BY <1>2, <1>3, <1>4, PlaceFacts
  <2> QED
    BY <1>6, <2>1, AlignUpFacts
<1>9. ASSUME NEW i \in 1 .. n - 1
      PROVE  starts[i] + z[i] <= starts[i + 1]
  <2>1. i \in 1 .. n /\ i + 1 \in 1 .. n
    BY <1>2
  <2>2. starts[i + 1] = AlignUp(starts[i] + z[i])
    BY <1>1, <1>3, <1>4, <2>1, PlaceFacts
  <2>3. starts[i] + z[i] \in Nat
    BY <1>2, <1>7, <2>1
  <2> QED
    BY <2>2, <2>3, AlignUpFacts
<1>10. ASSUME NEW i \in 1 .. n
       PROVE  \A j \in 1 .. n : i < j => starts[i] + z[i] <= starts[j]
  <2> DEFINE T == {k \in Nat : i + k + 1 <= n => starts[i] + z[i] <= starts[i + k + 1]}
  <2>1. 0 \in T
    BY <1>2, <1>9
  <2>2. ASSUME NEW k \in Nat, k \in T
        PROVE  k + 1 \in T
    <3> SUFFICES ASSUME i + (k + 1) + 1 <= n
                 PROVE  starts[i] + z[i] <= starts[i + (k + 1) + 1]
      OBVIOUS
    <3>1. PICK m : m = i + k + 1
      OBVIOUS
    <3>2. m \in 1 .. n - 1 /\ m \in 1 .. n /\ m + 1 \in 1 .. n /\ i + (k + 1) + 1 = m + 1
      BY <1>2, <3>1
    <3>3. starts[i] + z[i] <= starts[m] /\ starts[m] + z[m] <= starts[m + 1]
      BY <1>9, <2>2, <3>1, <3>2
    <3>4. /\ starts[i] \in Nat /\ z[i] \in Nat /\ starts[m] \in Nat /\ z[m] \in Nat
          /\ starts[m + 1] \in Nat
      BY <1>2, <1>7, <3>2
    <3> QED
      BY <3>2, <3>3, <3>4
  <2>3. Nat \subseteq T
    <3> HIDE DEF T
    <3> QED
      BY <2>1, <2>2, NatSetInduction
  <2>4. ASSUME NEW j \in 1 .. n, i < j
        PROVE  starts[i] + z[i] <= starts[j]
    <3>1. (j - i) - 1 \in T
      <4>1. (j - i) - 1 \in Nat
        BY <1>2, <2>4
      <4> HIDE DEF T
      <4> QED
        BY <2>3, <4>1
    <3>2. i + ((j - i) - 1) + 1 = j
      OBVIOUS
    <3> QED
      BY <1>2, <3>1, <3>2
  <2> QED
    BY <2>4
<1>11. ASSUME NEW i \in 1 .. n
       PROVE  HeaderEnd <= starts[i] /\ starts[i] + z[i] <= written
  <2>1. 1 \in 1 .. n /\ n \in 1 .. n /\ (i = 1 \/ 1 < i) /\ (i = n \/ i < n)
    BY <1>2
  <2>2. /\ starts[1] \in Nat /\ starts[i] \in Nat /\ starts[n] \in Nat
        /\ z[1] \in Nat /\ z[i] \in Nat /\ z[n] \in Nat
    BY <1>2, <1>7, <2>1
  <2>3. written = starts[n] + z[n]
    BY <1>1, <1>3, <1>4
  <2>4. 1 < i => starts[1] + z[1] <= starts[i]
    BY <1>10, <2>1
  <2>5. i < n => starts[i] + z[i] <= starts[n]
    BY <1>10, <2>1
  <2>6. HeaderEnd <= starts[i]
    BY <1>6, <1>8, <2>1, <2>2, <2>4
  <2>7. starts[i] + z[i] <= written
    BY <2>1, <2>2, <2>3, <2>5
  <2> QED
    BY <2>6, <2>7
<1> QED
  BY <1>1, <1>2, <1>3, <1>4, <1>5, <1>6, <1>7, <1>10, <1>11

\* The reader counts as the writer does.
LEMMA SameCount == \A S : Reader!Cardinality(S) = Cardinality(S)
BY DEF Reader!Cardinality, Cardinality

\* The numbers of that file.
LEMMA WrittenFacts ==
  ASSUME TypeOK, IInv, phase = "done"
  PROVE  /\ WrittenFile \in Reader!File
         /\ WrittenFile.ranges \in Seq(Reader!AttachedRange)
         /\ Reader!HeaderEndOf(WrittenFile) = HeaderEnd /\ WrittenFile.size = written
         /\ DOMAIN WrittenFile.ranges = 1 .. Total
         /\ \A i \in 1 .. Total :
              /\ WrittenFile.ranges[i] = [offset |-> starts[i], size |-> request.sizes[i]]
              /\ Reader!Bytes(WrittenFile.ranges[i])
                   = starts[i] .. (starts[i] + request.sizes[i]) - 1
<1>1. PICK n, rs : n = Total /\ rs = WrittenFile.ranges
  OBVIOUS
<1>2. /\ n \in Nat \ {0} /\ written \in Nat /\ header.size \in Nat
      /\ starts = header.locations /\ DOMAIN starts = 1 .. n
      /\ \A i \in 1 .. n : starts[i] \in Nat /\ request.sizes[i] \in Nat
      /\ HeaderEnd = 16 + header.size
  BY <1>1, BlocksWritten
<1>3. rs = [i \in 1 .. n |-> [offset |-> starts[i], size |-> request.sizes[i]]]
  BY <1>1, <1>2 DEF WrittenFile
<1>4. rs \in Seq(Reader!AttachedRange)
  <2>1. rs \in [1 .. n -> Reader!AttachedRange]
    BY <1>2, <1>3 DEF Reader!AttachedRange
  <2> QED
    BY <1>2, <2>1
<1>5. WrittenFile.dirty \subseteq Nat
  <2>1. WrittenFile.dirty = 0 .. HeaderEnd - 1 \cup
          UNION {starts[i] .. starts[i] + request.sizes[i] - 1 : i \in 1 .. n}
    BY <1>1 DEF WrittenFile
  <2>2. ASSUME NEW i \in 1 .. n
        PROVE  starts[i] .. starts[i] + request.sizes[i] - 1 \subseteq Nat
    BY <1>2
  <2>3. 0 .. HeaderEnd - 1 \subseteq Nat
    OBVIOUS
  <2> QED
    BY <2>1, <2>2, <2>3
<1>6. /\ WrittenFile.size = written /\ WrittenFile.length = header.size
      /\ WrittenFile = [size |-> WrittenFile.size, signed |-> TRUE, reserved |-> TRUE,
                        length |-> WrittenFile.length, sound |-> TRUE,
                        ranges |-> WrittenFile.ranges, dirty |-> WrittenFile.dirty]
  BY DEF WrittenFile
<1>7. WrittenFile \in Reader!File
  <2>1. PICK z, l, d : z = WrittenFile.size /\ l = WrittenFile.length /\ d = WrittenFile.dirty
    OBVIOUS
  <2>2. z \in Nat /\ l \in Nat /\ d \in SUBSET Nat
    BY <1>2, <1>5, <1>6, <2>1
  <2>3. WrittenFile = [size |-> z, signed |-> TRUE, reserved |-> TRUE, length |-> l,
                       sound |-> TRUE, ranges |-> rs, dirty |-> d]
    BY <1>1, <1>6, <2>1
  <2> QED
    BY <1>4, <2>2, <2>3 DEF Reader!File
<1>8. Reader!HeaderEndOf(WrittenFile) = HeaderEnd
  BY <1>2, <1>6 DEF Reader!HeaderEndOf, Reader!PreambleSize
<1>9. \A i \in 1 .. n : /\ rs[i] = [offset |-> starts[i], size |-> request.sizes[i]]
                        /\ rs[i].offset = starts[i] /\ rs[i].size = request.sizes[i]
  BY <1>3
<1>10. ASSUME NEW i \in 1 .. n
       PROVE  Reader!Bytes(rs[i]) = starts[i] .. (starts[i] + request.sizes[i]) - 1
  <2>1. Reader!Bytes(rs[i]) = rs[i].offset .. (rs[i].offset + rs[i].size) - 1
    BY DEF Reader!Bytes, Reader!End
  <2> QED
    BY <1>9, <2>1
<1> QED
  BY <1>1, <1>2, <1>3, <1>4, <1>6, <1>7, <1>8, <1>9, <1>10

\* The reader leaves its blocks in the order in which they were written.
LEMMA WrittenInOrder ==
  ASSUME TypeOK, IInv, phase = "done"
  PROVE  Reader!Sorted(WrittenFile.ranges) = WrittenFile.ranges
<1>1. PICK rs : rs = WrittenFile.ranges
  OBVIOUS
<1>2. /\ rs \in Seq(Reader!AttachedRange) /\ DOMAIN rs = 1 .. Total
      /\ \A i \in 1 .. Total : rs[i].offset = starts[i]
  <2>1. rs \in Seq(Reader!AttachedRange) /\ DOMAIN rs = 1 .. Total
    BY <1>1, WrittenFacts
  <2>2. \A i \in 1 .. Total : rs[i] = [offset |-> starts[i], size |-> request.sizes[i]]
    BY <1>1, WrittenFacts
  <2> QED
    BY <2>1, <2>2
<1>3. \A i, j \in DOMAIN rs : i < j => rs[i].offset < rs[j].offset
  <2> SUFFICES ASSUME NEW i \in 1 .. Total, NEW j \in 1 .. Total, i < j
               PROVE  starts[i] < starts[j]
    BY <1>2
  <2>1. /\ starts[i] \in Nat /\ request.sizes[i] \in Nat \ {0} /\ starts[j] \in Nat
        /\ starts[i] + request.sizes[i] <= starts[j]
    BY BlocksWritten
  <2> QED
    BY <2>1
<1>4. Reader!Sorted(rs) = rs
  BY <1>2, <1>3, ReaderSortedAlready
<1> QED
  BY <1>1, <1>4

\* It is well formed unless its header is too long, or its padding too much.
LEMMA WrittenWellFormed ==
  ASSUME TypeOK, IInv, phase = "done"
  PROVE  \/ Reader!WellFormed(WrittenFile)
         \/ header.size > MaxHeaderBytes
         \/ Cardinality(Reader!Unused(WrittenFile)) > MaxUnused
<1>1. PICK n, f, e : n = Total /\ f = WrittenFile /\ e = HeaderEnd
  OBVIOUS
<1>2. /\ n \in Nat \ {0} /\ written \in Nat /\ header.size \in Nat \ {0}
      /\ e = 16 + header.size
      /\ \A i \in 1 .. n : /\ starts[i] \in Nat /\ request.sizes[i] \in Nat \ {0}
                           /\ e <= starts[i] /\ starts[i] + request.sizes[i] <= written
      /\ \A i, j \in 1 .. n : i < j => starts[i] + request.sizes[i] <= starts[j]
  BY <1>1, BlocksWritten
<1>3. /\ f.signed /\ f.reserved /\ f.sound /\ f.length = header.size
  BY <1>1 DEF WrittenFile
<1>4. /\ f.size = written /\ Reader!HeaderEndOf(f) = e /\ DOMAIN f.ranges = 1 .. n
      /\ \A i \in 1 .. n :
           Reader!Bytes(f.ranges[i]) = starts[i] .. (starts[i] + request.sizes[i]) - 1
  BY <1>1, WrittenFacts
<1>5. e <= written /\ written > 16
  <2>1. 1 \in 1 .. n
    BY <1>2
  <2>2. e <= starts[1] /\ starts[1] + request.sizes[1] <= written
        /\ starts[1] \in Nat /\ request.sizes[1] \in Nat
    BY <1>2, <2>1
  <2> QED
    BY <1>2, <2>2
<1>6. Reader!Payload(f) = e .. written - 1
  BY <1>4 DEF Reader!Payload
<1>7. Reader!Partitioned(f)
  <2>1. ASSUME NEW i \in 1 .. n
        PROVE  /\ Reader!Bytes(f.ranges[i]) # {}
               /\ Reader!Bytes(f.ranges[i]) \subseteq Reader!Payload(f)
    <3>1. /\ starts[i] \in Nat /\ request.sizes[i] \in Nat \ {0} /\ e <= starts[i]
          /\ starts[i] + request.sizes[i] <= written /\ e \in Nat /\ written \in Nat
      BY <1>2
    <3>2. starts[i] \in starts[i] .. (starts[i] + request.sizes[i]) - 1
      BY <3>1
    <3>3. starts[i] .. (starts[i] + request.sizes[i]) - 1 \subseteq e .. written - 1
      BY <3>1
    <3> QED
      BY <1>4, <1>6, <3>2, <3>3
  <2>2. ASSUME NEW i \in 1 .. n, NEW j \in 1 .. n, i < j
        PROVE  Reader!Bytes(f.ranges[i]) \cap Reader!Bytes(f.ranges[j]) = {}
    <3>1. /\ starts[i] \in Nat /\ request.sizes[i] \in Nat /\ starts[j] \in Nat
          /\ starts[i] + request.sizes[i] <= starts[j]
      BY <1>2, <2>2
    <3>2. (starts[i] .. (starts[i] + request.sizes[i]) - 1)
             \cap (starts[j] .. (starts[j] + request.sizes[j]) - 1) = {}
      BY <3>1
    <3> QED
      BY <1>4, <3>2
  <2>3. ASSUME NEW i \in 1 .. n, NEW j \in 1 .. n, i # j
        PROVE  Reader!Bytes(f.ranges[i]) \cap Reader!Bytes(f.ranges[j]) = {}
    <3>1. i < j \/ j < i
      BY <1>2, <2>3
    <3> QED
      BY <2>2, <3>1
  <2> QED
    BY <1>4, <2>1, <2>3 DEF Reader!Partitioned
<1>8. Reader!Unused(f) \cap f.dirty = {}
  <2>1. f.dirty = 0 .. e - 1 \cup
          UNION {starts[i] .. starts[i] + request.sizes[i] - 1 : i \in 1 .. n}
    BY <1>1 DEF WrittenFile
  <2>2. ASSUME NEW i \in 1 .. n
        PROVE  starts[i] .. starts[i] + request.sizes[i] - 1 = Reader!Bytes(f.ranges[i])
    BY <1>2, <1>4
  <2>3. \A i \in 1 .. n : Reader!Bytes(f.ranges[i]) \subseteq Reader!Blocks(f)
    BY <1>4 DEF Reader!Blocks
  <2>4. \A b \in e .. written - 1 : b \notin 0 .. e - 1
    BY <1>2
  <2> QED
    BY <1>6, <2>1, <2>2, <2>3, <2>4 DEF Reader!Unused
<1>9. Cardinality(Reader!Unused(f)) \in Nat
  <2>1. Reader!Unused(f) \subseteq e .. written - 1
    BY <1>6 DEF Reader!Unused
  <2>2. IsFiniteSet(e .. written - 1)
    <3>1. e \in Int /\ written - 1 \in Int
      BY <1>2
    <3> QED
      BY <3>1, FS_Interval
  <2> QED
    BY <2>1, <2>2, FS_Subset, FS_CardinalityType
<1>10. MaxHeaderBytes \in Nat /\ MaxUnused \in Nat
  BY MonolithAssumption DEF MonolithAssumption, Reader!RangesAssumption
<1>11. ASSUME ~(header.size > MaxHeaderBytes), ~(Cardinality(Reader!Unused(f)) > MaxUnused)
       PROVE  Reader!WellFormed(f)
  <2>1. f.size > Reader!PreambleSize
    BY <1>4, <1>5 DEF Reader!PreambleSize
  <2>2. f.length \in 1 .. MaxHeaderBytes /\ Reader!HeaderEndOf(f) <= f.size
    BY <1>2, <1>3, <1>4, <1>5, <1>10, <1>11
  <2>3. Reader!Cardinality(Reader!Unused(f)) <= MaxUnused
    BY <1>9, <1>10, <1>11, SameCount
  <2> QED
    BY <1>3, <1>7, <1>8, <2>1, <2>2, <2>3 DEF Reader!WellFormed
<1> QED
  BY <1>1, <1>11

-----------------------------------------------------------------------------
(* The two together.                                                          *)

\* Checking a file neither changes nor closes it.
LEMMA ChecksAnOpenFile ==
  ASSUME Reader!Check
  PROVE  step # "closed" /\ file' = file
BY DEF Reader!Check, Reader!ReadPreamble, Reader!ReadHeader, Reader!CheckRange,
   Reader!PassRange, Reader!BeginGaps, Reader!NoGap, Reader!EnterGap,
   Reader!ScanChunk, Reader!LeaveGap, Reader!Advance, Reader!Reject

\* A step of the two is a step of each, or leaves it alone.
LEMMA StepOfEach ==
  ASSUME TypeOK, IInv, [MonolithNext]_allVars
  PROVE  /\ [Next]_vars
         /\ \/ Reader!Check \/ (\E f \in Reader!File : Reader!Open(f))
            \/ UNCHANGED readerVars
<1>1. CASE Write
  BY <1>1 DEF Write
<1>2. CASE OpenWritten
  <2>1. WrittenFile \in Reader!File
    BY <1>2, WrittenFacts DEF OpenWritten
  <2> QED
    BY <1>2, <2>1 DEF OpenWritten
<1>3. CASE OpenForeign
  BY <1>3, MonolithAssumption DEF OpenForeign, MonolithAssumption
<1>4. CASE Read
  BY <1>4 DEF Read
<1>5. CASE UNCHANGED allVars
  BY <1>5 DEF allVars
<1> QED
  BY <1>1, <1>2, <1>3, <1>4, <1>5 DEF MonolithNext

\* Once the writer is done the reader looks at nothing but its file.
LEMMA OpenedInv ==
  ASSUME OpensWhatWasWritten, [MonolithNext]_allVars
  PROVE  OpensWhatWasWritten'
<1>1. CASE Write
  BY <1>1 DEF Write, readerVars, OpensWhatWasWritten
<1>2. ASSUME UNCHANGED vars
      PROVE  phase' = phase /\ WrittenFile' = WrittenFile
  BY <1>2 DEF vars, plan, output, WrittenFile, Total, HeaderEnd
<1>3. CASE OpenWritten
  BY <1>2, <1>3 DEF OpenWritten, Reader!Open, OpensWhatWasWritten
<1>4. CASE OpenForeign
  BY <1>2, <1>4 DEF OpenForeign, OpensWhatWasWritten
<1>5. CASE Read
  BY <1>2, <1>5, ChecksAnOpenFile DEF Read, OpensWhatWasWritten
<1>6. CASE UNCHANGED allVars
  BY <1>2, <1>6 DEF allVars, readerVars, OpensWhatWasWritten
<1> QED
  BY <1>1, <1>3, <1>4, <1>5, <1>6 DEF MonolithNext

\* The invariants of both modules hold of writer and reader together, and once
\* the writer is done the reader reads its file and no other.
THEOREM MonolithInvariant == MonolithSpec => [](BothTyped /\ MonolithIInv)
<1>1. MonolithInit => BothTyped /\ MonolithIInv
  <2>1. Reader!Init => OpensWhatWasWritten
    BY DEF Reader!Init, OpensWhatWasWritten
  <2> QED
    BY <2>1, InitInv, ReaderInit DEF MonolithInit, BothTyped, MonolithIInv
<1>2. BothTyped /\ MonolithIInv /\ [MonolithNext]_allVars => BothTyped' /\ MonolithIInv'
  <2> SUFFICES ASSUME BothTyped, MonolithIInv, [MonolithNext]_allVars
               PROVE  BothTyped' /\ MonolithIInv'
    OBVIOUS
  <2>1. TypeOK /\ IInv /\ Reader!TypeOK /\ Reader!IInv /\ OpensWhatWasWritten
    BY DEF BothTyped, MonolithIInv
  <2>2. TypeOK' /\ IInv'
    BY <2>1, StepOfEach, NextInv
  <2>3. (Reader!TypeOK)' /\ (Reader!IInv)'
    BY <2>1, StepOfEach, ReaderStep
  <2>4. OpensWhatWasWritten'
    BY <2>1, OpenedInv
  <2> QED
    BY <2>2, <2>3, <2>4 DEF BothTyped, MonolithIInv
<1> QED
  BY <1>1, <1>2, PTL DEF MonolithSpec

\* No number of the writer or the reader leaves its type.
THEOREM BothKeepTheirTypes == MonolithSpec => []BothTyped
BY MonolithInvariant, PTL

\* The writer, read from or not, behaves as module WriterLayout says.
THEOREM WritesAsSpecified == MonolithSpec => Spec
<1>1. BothTyped /\ MonolithIInv /\ [MonolithNext]_allVars => [Next]_vars
  BY StepOfEach DEF BothTyped, MonolithIInv
<1>2. MonolithInit => Init
  BY DEF MonolithInit
<1> QED
  BY <1>1, <1>2, MonolithInvariant, PTL DEF MonolithSpec, Spec

\* Its promises therefore hold here: headers that go out are true, the blocks lie
\* where they should, and the rounds never move them forward.
THEOREM LayoutKeepsItsPromises ==
  MonolithSpec => [](HeaderIsTrue /\ TightLayout /\ FewBlocksSettle) /\ NeverMovesForward
BY WritesAsSpecified, HeadersAreTrue, LayoutIsTight, FewBlocksAlwaysSettle, GuessesGrow,
   PTL

\* The reader accepts the files whose blocks and clean, affordable gaps divide
\* up the payload, and turns away only others, unless a read fails.
THEOREM DecidesByTheRules == MonolithSpec => []DecidesExactly
<1>1. MonolithIInv => DecidesExactly
  BY DEF MonolithIInv, Reader!IInv, DecidesExactly
<1> QED
  BY <1>1, MonolithInvariant, PTL

\* The scan for zeros stays out of the header and the blocks, and in its budget.
THEOREM ScansWithinBudget == MonolithSpec => []ScansOnlyUnused
<1>1. BothTyped /\ MonolithIInv => ScansOnlyUnused
  <2> SUFFICES ASSUME Reader!TypeOK, Reader!IInv PROVE Reader!ScansOnlyUnused
    BY DEF BothTyped, MonolithIInv, ScansOnlyUnused
  <2>1. Reader!RangesAssumption /\ Reader!TypeOK /\ Reader!IInv
    BY MonolithAssumption DEF MonolithAssumption
  <2> QED
    BY <2>1, ReaderScansInside
<1> QED
  BY <1>1, MonolithInvariant, PTL

\* What the writer wrote is opened, with every block where it was put; only the
\* reader's own limits or a failing read can turn it away.
THEOREM ReaderAgreesWithWriter == MonolithSpec => []ReaderAgrees
<1>1. BothTyped /\ MonolithIInv => ReaderAgrees
  <2> SUFFICES ASSUME BothTyped, MonolithIInv, phase = "done",
                      step \in {"accepted", "rejected"}
               PROVE  /\ step = "accepted" =>
                           /\ file.size = fileSize
                           /\ [i \in DOMAIN ranges |-> ranges[i].offset] = starts
                           /\ [i \in DOMAIN ranges |-> ranges[i].size] = request.sizes
                      /\ step = "rejected" =>
                           \/ verdict = "io_error"
                           \/ PaddingBytes > MaxUnused \/ header.size > MaxHeaderBytes
    BY DEF ReaderAgrees
  <2>1. TypeOK /\ IInv /\ Reader!TypeOK /\ Reader!IInv /\ file = WrittenFile
    BY DEF BothTyped, MonolithIInv, OpensWhatWasWritten
  <2>2. ASSUME step = "accepted"
        PROVE  /\ file.size = fileSize
               /\ [i \in DOMAIN ranges |-> ranges[i].offset] = starts
               /\ [i \in DOMAIN ranges |-> ranges[i].size] = request.sizes
    <3>1. PICK n, rs : n = Total /\ rs = ranges
      OBVIOUS
    <3>2. rs = WrittenFile.ranges
      BY <2>1, <2>2, <3>1, WrittenInOrder DEF Reader!IInv, Reader!InvHeader
    <3>3. /\ DOMAIN rs = 1 .. n
          /\ \A i \in 1 .. n : rs[i] = [offset |-> starts[i], size |-> request.sizes[i]]
      BY <2>1, <3>1, <3>2, WrittenFacts
    <3>4. starts \in Seq(Nat) /\ DOMAIN starts = 1 .. n
      BY <2>1, <3>1, BlocksWritten
    <3>5. request.sizes \in Seq(Nat) /\ DOMAIN request.sizes = 1 .. n
      <4>1. request.sizes \in Seq(Nat \ {0}) /\ n = Len(request.sizes)
        BY <2>1, <3>1, LayoutAssumption DEF TypeOK, LayoutAssumption, Request, Total
      <4>2. Seq(Nat \ {0}) \subseteq Seq(Nat)
        OBVIOUS
      <4> QED
        BY <4>1, <4>2
    <3>6. [i \in DOMAIN rs |-> rs[i].offset] = starts
      BY <3>3, <3>4
    <3>7. [i \in DOMAIN rs |-> rs[i].size] = request.sizes
      <4>1. PICK z : z = request.sizes
        OBVIOUS
      <4>2. \A i \in 1 .. n : rs[i].size = z[i]
        BY <3>3, <4>1
      <4>3. z = [i \in 1 .. n |-> z[i]]
        <5>1. z \in Seq(Nat) /\ DOMAIN z = 1 .. n
          BY <3>5, <4>1
        <5> QED
          BY <5>1
      <4> QED
        BY <3>3, <4>1, <4>2, <4>3
    <3>8. file.size = written
      BY <2>1, WrittenFacts
    <3>9. written = fileSize
      BY <2>1, TrueHeader DEF HeaderIsTrue
    <3> QED
      BY <3>1, <3>6, <3>7, <3>8, <3>9
  <2>3. ASSUME step = "rejected", verdict # "io_error"
        PROVE  PaddingBytes > MaxUnused \/ header.size > MaxHeaderBytes
    <3>1. ~Reader!WellFormed(WrittenFile)
      BY <2>1, <2>3 DEF Reader!IInv, Reader!DecidesExactly
    <3> QED
      BY <2>1, <3>1, WrittenWellFormed DEF PaddingBytes
  <2> QED
    BY <2>2, <2>3
<1> QED
  BY <1>1, MonolithInvariant, PTL
=============================================================================
