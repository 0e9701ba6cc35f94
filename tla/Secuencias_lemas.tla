-------------------------- MODULE Secuencias_lemas --------------------------
(***************************************************************************)
(* Facts about finite sequences and sets of naturals on which the proofs   *)
(* of the other modules rest.                                              *)
(***************************************************************************)
EXTENDS Integers, Sequences, SequencesExt,
        SequenceTheorems, FiniteSetTheorems, WellFoundedInduction, TLAPS

\* What Append, \o and a sequence's range have to do with one another.
LEMMA RangoDeSecuencia ==
  ASSUME NEW S, NEW s \in Seq(S)
  PROVE  /\ Range(s) \subseteq S
         /\ Range(s) = {s[i] : i \in 1..Len(s)}
BY DEF Range

LEMMA RangoDeAppend ==
  ASSUME NEW S, NEW s \in Seq(S), NEW e \in S
  PROVE  Range(Append(s, e)) = Range(s) \cup {e}
<1>1. /\ Append(s, e) \in Seq(S)
      /\ DOMAIN Append(s, e) = 1..(Len(s) + 1)
      /\ DOMAIN s = 1..Len(s)
      /\ Len(s) \in Nat
  OBVIOUS
<1>2. \A i \in 1..Len(s) : Append(s, e)[i] = s[i]
  OBVIOUS
<1>3. Append(s, e)[Len(s) + 1] = e
  OBVIOUS
<1>4. \A i \in 1..(Len(s) + 1) : i \in 1..Len(s) \/ i = Len(s) + 1
  BY <1>1
<1>5. 1..Len(s) \subseteq 1..(Len(s) + 1) /\ Len(s) + 1 \in 1..(Len(s) + 1)
  BY <1>1
<1> QED BY <1>1, <1>2, <1>3, <1>4, <1>5, Zenon DEF Range

\* What is added at the end of a sequence without repetitions and was not in it.
LEMMA AppendSinRepetidos ==
  ASSUME NEW S, NEW s \in Seq(S), NEW e \in S, IsInjective(s), e \notin Range(s)
  PROVE  IsInjective(Append(s, e))
<1>1. /\ Append(s, e) \in Seq(S)
      /\ DOMAIN Append(s, e) = 1..(Len(s) + 1)
      /\ Len(s) \in Nat
      /\ \A i \in 1..Len(s) : Append(s, e)[i] = s[i]
      /\ Append(s, e)[Len(s) + 1] = e
  OBVIOUS
<1>2. \A i, j \in 1..Len(s) : s[i] = s[j] => i = j
  BY DEF IsInjective
<1>3. \A i \in 1..Len(s) : s[i] # e
  BY DEF Range
<1> QED BY <1>1, <1>2, <1>3 DEF IsInjective

LEMMA RangoDeConcatenacion ==
  ASSUME NEW S, NEW s \in Seq(S), NEW u \in Seq(S)
  PROVE  Range(s \o u) = Range(s) \cup Range(u)
<1>1. /\ s \o u \in Seq(S)
      /\ Len(s \o u) = Len(s) + Len(u)
      /\ \A i \in 1..(Len(s) + Len(u)) :
           (s \o u)[i] = IF i <= Len(s) THEN s[i] ELSE u[i - Len(s)]
  BY ConcatProperties
<1>2. Len(s) \in Nat /\ Len(u) \in Nat
  OBVIOUS
<1>3. ASSUME NEW x \in Range(s \o u)
      PROVE  x \in Range(s) \cup Range(u)
  <2>1. PICK i \in 1..(Len(s) + Len(u)) : x = (s \o u)[i]
    BY <1>1, <1>3 DEF Range
  <2>2. CASE i <= Len(s)
    BY <1>1, <1>2, <2>1, <2>2 DEF Range
  <2>3. CASE i > Len(s)
    <3>1. i - Len(s) \in 1..Len(u)
      BY <1>2, <2>3
    <3>2. x = u[i - Len(s)]
      BY <1>1, <1>2, <2>1, <2>3
    <3> QED BY <3>1, <3>2 DEF Range
  <2> QED BY <1>2, <2>2, <2>3
<1>4. ASSUME NEW x \in Range(s)
      PROVE  x \in Range(s \o u)
  <2>1. PICK i \in 1..Len(s) : x = s[i]
    BY <1>4 DEF Range
  <2>2. i \in 1..(Len(s) + Len(u)) /\ (s \o u)[i] = s[i]
    BY <1>1, <1>2
  <2> QED BY <1>1, <2>1, <2>2 DEF Range
<1>5. ASSUME NEW x \in Range(u)
      PROVE  x \in Range(s \o u)
  <2>1. PICK i \in 1..Len(u) : x = u[i]
    BY <1>5 DEF Range
  <2>2. Len(s) + i \in 1..(Len(s) + Len(u)) /\ ~(Len(s) + i <= Len(s))
    BY <1>2
  <2>3. (s \o u)[Len(s) + i] = u[Len(s) + i - Len(s)]
    BY <1>1, <2>2
  <2>4. Len(s) + i - Len(s) = i
    BY <1>2
  <2> QED BY <1>1, <2>1, <2>2, <2>3, <2>4 DEF Range
<1> QED BY <1>3, <1>4, <1>5

\* Removing the i-th element loses at most that element.
LEMMA RangoDeRemoveAt ==
  ASSUME NEW S, NEW s \in Seq(S), NEW i \in 1..Len(s)
  PROVE  /\ RemoveAt(s, i) \in Seq(S)
         /\ Range(RemoveAt(s, i)) \subseteq Range(s)
         /\ Range(s) \subseteq Range(RemoveAt(s, i)) \cup {s[i]}
<1> DEFINE a == SubSeq(s, 1, i - 1)
           b == SubSeq(s, i + 1, Len(s))
<1>1. Len(s) \in Nat /\ i \in Nat /\ i >= 1 /\ i <= Len(s)
  OBVIOUS
<1>2. /\ a \in Seq(S)
      /\ Len(a) = i - 1
      /\ \A j \in 1..(i - 1) : a[j] = s[j]
  <2>1. \A j \in 1..(i - 1) : s[j] \in S
    BY <1>1
  <2>2. /\ SubSeq(s, 1, i - 1) \in Seq(S)
        /\ Len(SubSeq(s, 1, i - 1)) = IF 1 <= i - 1 THEN i - 1 - 1 + 1 ELSE 0
        /\ \A j \in 1..(i - 1 - 1 + 1) : SubSeq(s, 1, i - 1)[j] = s[1 + j - 1]
    BY <1>1, <2>1, SubSeqProperties
  <2> QED BY <1>1, <2>2
<1>3. /\ b \in Seq(S)
      /\ Len(b) = Len(s) - i
      /\ \A j \in 1..(Len(s) - i) : b[j] = s[i + j]
  <2>1. \A j \in (i + 1)..Len(s) : s[j] \in S
    BY <1>1
  <2>2. /\ SubSeq(s, i + 1, Len(s)) \in Seq(S)
        /\ Len(SubSeq(s, i + 1, Len(s))) =
             IF i + 1 <= Len(s) THEN Len(s) - (i + 1) + 1 ELSE 0
        /\ \A j \in 1..(Len(s) - (i + 1) + 1) :
             SubSeq(s, i + 1, Len(s))[j] = s[(i + 1) + j - 1]
    BY <1>1, <2>1, SubSeqProperties
  <2> QED BY <1>1, <2>2
<1> HIDE DEF a, b
<1>4. RemoveAt(s, i) = a \o b
  BY DEF RemoveAt, a, b
<1>5. Range(a \o b) = Range(a) \cup Range(b) /\ a \o b \in Seq(S)
  BY <1>2, <1>3, RangoDeConcatenacion
<1>6. Range(a) \subseteq Range(s)
  BY <1>1, <1>2 DEF Range
<1>7. Range(b) \subseteq Range(s)
  <2> SUFFICES ASSUME NEW j \in 1..Len(b) PROVE b[j] \in Range(s)
    BY <1>3 DEF Range
  <2>1. j \in 1..(Len(s) - i) /\ i + j \in 1..Len(s)
    BY <1>1, <1>3
  <2>2. b[j] = s[i + j]
    BY <1>3, <2>1
  <2> QED BY <2>1, <2>2 DEF Range
<1>8. ASSUME NEW j \in 1..Len(s), j # i
      PROVE  s[j] \in Range(a) \cup Range(b)
  <2>1. CASE j < i
    <3>1. j \in 1..(i - 1) /\ j \in DOMAIN a
      BY <1>1, <1>2, <2>1
    <3> QED BY <1>2, <3>1 DEF Range
  <2>2. CASE j > i
    <3>1. j - i \in 1..(Len(s) - i) /\ j - i \in DOMAIN b /\ i + (j - i) = j
      BY <1>1, <1>3, <2>2
    <3> QED BY <1>3, <3>1 DEF Range
  <2> QED BY <1>1, <1>8, <2>1, <2>2
<1>9. Range(s) \subseteq Range(a) \cup Range(b) \cup {s[i]}
  <2> SUFFICES ASSUME NEW j \in 1..Len(s)
               PROVE  s[j] \in Range(a) \cup Range(b) \cup {s[i]}
    BY DEF Range
  <2> QED BY <1>8
<1> QED BY <1>4, <1>5, <1>6, <1>7, <1>9, Zenon

\* The elements of a sequence cut down to a prefix are elements of it.
LEMMA RangoDePrefijo ==
  ASSUME NEW S, NEW s \in Seq(S), NEW n \in Nat, n < Len(s)
  PROVE  /\ SubSeq(s, 1, n) \in Seq(S)
         /\ Range(SubSeq(s, 1, n)) \subseteq Range(s)
<1>1. \A i \in 1..n : s[i] \in S
  OBVIOUS
<1>2. /\ SubSeq(s, 1, n) \in Seq(S)
      /\ Len(SubSeq(s, 1, n)) = IF 1 <= n THEN n - 1 + 1 ELSE 0
      /\ \A i \in 1..(n - 1 + 1) : SubSeq(s, 1, n)[i] = s[1 + i - 1]
  BY <1>1, SubSeqProperties
<1>3. Len(SubSeq(s, 1, n)) = n /\ \A i \in 1..n : SubSeq(s, 1, n)[i] = s[i]
  BY <1>2
<1>4. SUFFICES ASSUME NEW i \in 1..n PROVE SubSeq(s, 1, n)[i] \in Range(s)
  BY <1>2, <1>3 DEF Range
<1>5. i \in 1..Len(s)
  OBVIOUS
<1> QED BY <1>3, <1>5 DEF Range

------------------------------------------------------------------------------
(* Least and greatest elements.                                            *)

LEMMA HayMinimo ==
  ASSUME NEW S, S \subseteq Nat, S # {}
  PROVE  /\ Min(S) \in S
         /\ \A x \in S : Min(S) <= x
<1>1. PICK m \in S : \A x \in S : <<x, m>> \notin OpToRel(<, Nat)
  BY NatLessThanWellFounded, WFMin, Zenon
<1>2. \A x \in S : m <= x
  <2> SUFFICES ASSUME NEW x \in S PROVE m <= x
    OBVIOUS
  <2>1. ~(x < m)
    BY <1>1, Zenon DEF OpToRel
  <2> QED BY <2>1
<1>3. Min(S) = CHOOSE x \in S : \A y \in S : x <= y
  BY DEF Min
<1> QED BY <1>2, <1>3, Zenon

LEMMA HayMaximo ==
  ASSUME NEW n \in Nat, NEW S, S \subseteq 0..n, S # {}
  PROVE  \E m \in S : \A x \in S : x <= m
<1> DEFINE D == {n - x : x \in S}
<1>1. D \subseteq Nat /\ D # {}
  <2>1. \A x \in S : n - x \in Nat
    OBVIOUS
  <2> QED BY <2>1
<1>2. PICK d \in D : \A e \in D : d <= e
  BY <1>1, HayMinimo
<1>3. PICK m \in S : d = n - m
  OBVIOUS
<1>4. \A x \in S : x <= m
  <2> SUFFICES ASSUME NEW x \in S PROVE x <= m
    OBVIOUS
  <2>1. n - x \in D
    OBVIOUS
  <2>2. n - m <= n - x
    BY <1>2, <1>3, <2>1
  <2> QED BY <2>2
<1> QED BY <1>4

------------------------------------------------------------------------------
(* RemoveAt and RemoveFirst, element by element.                          *)

\* What RemoveAt leaves, element by element.
LEMMA ElementosDeRemoveAt ==
  ASSUME NEW S, NEW s \in Seq(S), NEW k \in 1..Len(s)
  PROVE  /\ RemoveAt(s, k) \in Seq(S)
         /\ Len(RemoveAt(s, k)) = Len(s) - 1
         /\ \A i \in 1..(Len(s) - 1) : RemoveAt(s, k)[i] = IF i < k THEN s[i] ELSE s[i + 1]
<1> DEFINE a == SubSeq(s, 1, k - 1)
           b == SubSeq(s, k + 1, Len(s))
<1>1. /\ a \in Seq(S) /\ Len(a) = k - 1
      /\ \A i \in 1..(k - 1) : a[i] = s[i]
  <2>1. \A i \in 1..(k - 1) : s[i] \in S
    OBVIOUS
  <2>2. /\ a \in Seq(S)
        /\ Len(a) = IF 1 <= k - 1 THEN k - 1 - 1 + 1 ELSE 0
        /\ \A i \in 1..(k - 1 - 1 + 1) : a[i] = s[1 + i - 1]
    BY <2>1, SubSeqProperties
  <2> QED BY <2>2
<1>2. /\ b \in Seq(S) /\ Len(b) = Len(s) - k
      /\ \A i \in 1..(Len(s) - k) : b[i] = s[k + i]
  <2>1. \A i \in (k + 1)..Len(s) : s[i] \in S
    OBVIOUS
  <2>2. /\ b \in Seq(S)
        /\ Len(b) = IF k + 1 <= Len(s) THEN Len(s) - (k + 1) + 1 ELSE 0
        /\ \A i \in 1..(Len(s) - (k + 1) + 1) : b[i] = s[k + 1 + i - 1]
    BY <2>1, SubSeqProperties
  <2>3. Len(s) \in Nat
    OBVIOUS
  <2> HIDE DEF b
  <2>4. Len(b) = Len(s) - k
    BY <2>2, <2>3
  <2>5. ASSUME NEW i \in 1..(Len(s) - k) PROVE b[i] = s[k + i]
    <3>1. i \in 1..(Len(s) - (k + 1) + 1) /\ k + 1 + i - 1 = k + i
      BY <2>3
    <3> QED BY <2>2, <3>1
  <2> QED BY <2>2, <2>4, <2>5
<1>3. RemoveAt(s, k) = a \o b
  BY DEF RemoveAt
<1> HIDE DEF a, b
<1>4. /\ a \o b \in Seq(S)
      /\ Len(a \o b) = Len(a) + Len(b)
      /\ \A i \in 1..(Len(a) + Len(b)) :
           (a \o b)[i] = IF i <= Len(a) THEN a[i] ELSE b[i - Len(a)]
  BY <1>1, <1>2, ConcatProperties
<1>5. Len(s) \in Nat /\ Len(a) + Len(b) = Len(s) - 1
  BY <1>1, <1>2
<1>6. ASSUME NEW i \in 1..(Len(s) - 1)
      PROVE  (a \o b)[i] = IF i < k THEN s[i] ELSE s[i + 1]
  <2>1. CASE i < k
    <3>1. i \in 1..(k - 1) /\ i <= Len(a)
      BY <1>1, <2>1
    <3> QED BY <1>1, <1>4, <1>5, <2>1, <3>1
  <2>2. CASE ~(i < k)
    <3>1. i - (k - 1) \in 1..(Len(s) - k) /\ k + (i - (k - 1)) = i + 1 /\ ~(i <= Len(a))
      BY <1>1, <1>5, <2>2
    <3>2. (a \o b)[i] = b[i - (k - 1)]
      BY <1>1, <1>4, <1>5, <3>1
    <3> QED BY <1>2, <2>2, <3>1, <3>2
  <2> QED BY <2>1, <2>2
<1> QED BY <1>3, <1>4, <1>5, <1>6

\* RemoveFirst removes one element at the position of an occurrence.
LEMMA LugarDeRemoveFirst ==
  ASSUME NEW S, NEW s \in Seq(S), NEW e \in Range(s)
  PROVE  \E k \in 1..Len(s) : s[k] = e /\ RemoveFirst(s, e) = RemoveAt(s, k)
<1> DEFINE I == {i \in 1..Len(s) : s[i] = e}
<1>1. I # {} /\ I \subseteq Nat
  BY DEF Range
<1>2. Min(I) \in I
  BY <1>1, HayMinimo
<1>3. RemoveFirst(s, e) = RemoveAt(s, Min(I))
  BY <1>1 DEF RemoveFirst, SelectInSeq
<1> QED BY <1>2, <1>3

\* What precedes what in a sequence, an element itself included.
Precede(s, x, y) == \E i, j \in 1..Len(s) : i <= j /\ s[i] = x /\ s[j] = y

\* To remove an element of a sequence without repetitions takes it away, and
\* leaves the others in their order.
LEMMA RemoveFirstSinRepetidos ==
  ASSUME NEW S, NEW s \in Seq(S), IsInjective(s), NEW e
  PROVE  /\ RemoveFirst(s, e) \in Seq(S)
         /\ IsInjective(RemoveFirst(s, e))
         /\ Range(RemoveFirst(s, e)) = Range(s) \ {e}
         /\ \A x, y : Precede(s, x, y) /\ x # e /\ y # e
                       => Precede(RemoveFirst(s, e), x, y)
<1>1. CASE e \notin Range(s)
  <2>1. RemoveFirst(s, e) = s
    BY <1>1 DEF RemoveFirst, Range
  <2> QED BY <1>1, <2>1
<1>2. CASE e \in Range(s)
  <2> DEFINE u == RemoveFirst(s, e)
  <2>1. PICK k \in 1..Len(s) : s[k] = e /\ u = RemoveAt(s, k)
    BY <1>2, LugarDeRemoveFirst
  <2> HIDE DEF u
  <2>2. /\ u \in Seq(S) /\ Len(u) = Len(s) - 1
        /\ \A i \in 1..(Len(s) - 1) : u[i] = IF i < k THEN s[i] ELSE s[i + 1]
    BY <2>1, ElementosDeRemoveAt
  <2>3. Len(s) \in Nat /\ DOMAIN s = 1..Len(s) /\ DOMAIN u = 1..(Len(s) - 1)
    BY <2>2
  <2>4. \A i, j \in 1..Len(s) : s[i] = s[j] => i = j
    BY DEF IsInjective
  <2>5. ASSUME NEW i \in 1..(Len(s) - 1), NEW j \in 1..(Len(s) - 1), u[i] = u[j]
        PROVE  i = j
    <3> DEFINE f(n) == IF n < k THEN n ELSE n + 1
    <3>1. f(i) \in 1..Len(s) /\ f(j) \in 1..Len(s) /\ u[i] = s[f(i)] /\ u[j] = s[f(j)]
      BY <2>2, <2>3
    <3>2. f(i) = f(j)
      BY <2>4, <2>5, <3>1
    <3> QED BY <3>2
  <2>6. ASSUME NEW i \in 1..(Len(s) - 1) PROVE u[i] \in Range(s) \ {e}
    <3> DEFINE f == IF i < k THEN i ELSE i + 1
    <3>1. f \in 1..Len(s) /\ f # k /\ u[i] = s[f]
      BY <2>2, <2>3
    <3> QED BY <2>1, <2>3, <2>4, <3>1 DEF Range
  <2>7. ASSUME NEW i \in 1..Len(s), s[i] # e
        PROVE  LET g == IF i < k THEN i ELSE i - 1
               IN  g \in 1..(Len(s) - 1) /\ u[g] = s[i]
    <3>1. i # k
      BY <2>1, <2>7
    <3>2. CASE i < k
      BY <2>2, <2>3, <3>2
    <3>3. CASE i > k
      <4>1. i - 1 \in 1..(Len(s) - 1) /\ ~(i - 1 < k) /\ (i - 1) + 1 = i
        BY <2>3, <3>3
      <4>2. u[i - 1] = s[(i - 1) + 1]
        BY <2>2, <4>1
      <4> QED BY <3>3, <4>1, <4>2
    <3> QED BY <3>1, <3>2, <3>3
  <2>8. Range(s) \ {e} \subseteq Range(u)
    BY <2>3, <2>7 DEF Range
  <2>9. ASSUME NEW x, NEW y, Precede(s, x, y), x # e, y # e PROVE Precede(u, x, y)
    <3>1. PICK i \in 1..Len(s), j \in 1..Len(s) : i <= j /\ s[i] = x /\ s[j] = y
      BY <2>9 DEF Precede
    <3> DEFINE gi == IF i < k THEN i ELSE i - 1
               gj == IF j < k THEN j ELSE j - 1
    <3>2. /\ gi \in 1..(Len(s) - 1) /\ u[gi] = x
          /\ gj \in 1..(Len(s) - 1) /\ u[gj] = y
      BY <2>7, <2>9, <3>1
    <3>3. i # k /\ j # k
      BY <2>1, <2>9, <3>1
    <3>4. gi <= gj
      BY <3>1, <3>3
    <3> QED BY <2>2, <3>2, <3>4 DEF Precede
  <2>10. IsInjective(u)
    BY <2>3, <2>5 DEF IsInjective
  <2>11. Range(u) = Range(s) \ {e}
    BY <2>3, <2>6, <2>8 DEF Range
  <2> QED BY <2>2, <2>9, <2>10, <2>11 DEF u
<1> QED BY <1>1, <1>2
=============================================================================

