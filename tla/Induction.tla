------------------------------ MODULE Induction ------------------------------
(***************************************************************************)
(* Induction without predicates as parameters: over the members of a set   *)
(* of numbers, from the well-foundedness of < on Nat.  From it follows     *)
(* that recursive functions over an interval exist, and so do the ones     *)
(* over sets of numbers that FoldLeft of the community modules is made of. *)
(***************************************************************************)
EXTENDS SequencesExt, SequenceTheorems, WellFoundedInduction, TLAPS

\* The functions that take a result and an element to the next result.
Steps(A, R) == [A \X R -> A]

\* Its intermediate results, when the elements are the numbers up to n ...
UpTo(f, A, a, n, g) ==
  /\ g \in [0 .. n -> A]
  /\ g[0] = a
  /\ \A i \in 1 .. n : g[i] = f[<<g[i - 1], i>>]

\* ... and the function over sets of them that takes the largest off in every step.
Peels(f, A, a, n, g) ==
  /\ g \in [SUBSET (1 .. n) -> A]
  /\ \A s \in SUBSET (1 .. n) :
       g[s] = IF s = {} THEN a ELSE f[<<g[s \ {Max(s)}], Max(s)>>]

Less == {pair \in Nat \X Nat : pair[1] < pair[2]}

\* There is no infinite descent in Nat.
LEMMA LessWellFounded == IsWellFoundedOn(Less, Nat)
BY NatLessThanWellFounded DEF OpToRel, Less

\* A set that has 0 and with every number its successor has every number.
LEMMA NatSetInduction ==
  ASSUME NEW S, 0 \in S, \A n \in Nat : n \in S => n + 1 \in S
  PROVE  Nat \subseteq S
<1> DEFINE T == Nat \ S
<1>1. SUFFICES ASSUME T # {} PROVE FALSE
  OBVIOUS
<1>2. PICK x \in T : \A y \in T : <<y, x>> \notin Less
  <2>1. T \subseteq Nat
    OBVIOUS
  <2> HIDE DEF T
  <2>2. QED
    BY <1>1, <2>1, LessWellFounded, WFMin
<1>3. x # 0 /\ x - 1 \in Nat /\ (x - 1) + 1 = x
  OBVIOUS
<1>4. <<x - 1, x>> \in Less
  BY <1>3 DEF Less
<1>5. QED
  BY <1>2, <1>3, <1>4

\* The same up to a bound.
LEMMA IntervalInduction ==
  ASSUME NEW n \in Nat, NEW S, 0 \in S, \A i \in 0 .. n : i \in S /\ i < n => i + 1 \in S
  PROVE  0 .. n \subseteq S
<1> DEFINE T == {i \in Nat : i <= n => i \in S}
<1>1. 0 \in T
  OBVIOUS
<1>2. \A i \in Nat : i \in T => i + 1 \in T
  OBVIOUS
<1> HIDE DEF T
<1>3. Nat \subseteq T
  BY <1>1, <1>2, NatSetInduction
<1>4. QED
  BY <1>3 DEF T

\* A set of natural numbers has a least one.
LEMMA LeastNumber ==
  ASSUME NEW S \in SUBSET Nat, S # {}
  PROVE  \E m \in S : \A k \in S : m <= k
<1>1. PICK m \in S : \A k \in S : <<k, m>> \notin Less
  BY LessWellFounded, WFMin
<1>2. \A k \in S : k < m => <<k, m>> \in Less
  BY DEF Less
<1>3. \A k \in S : k \in Nat /\ m \in Nat
  OBVIOUS
<1>4. \A k \in S : ~(k < m)
  BY <1>1, <1>2, Zenon
<1>5. \A k \in S : m <= k
  BY <1>3, <1>4
<1>6. QED
  BY <1>5

\* A run of n steps from a exists.
LEMMA RunExists ==
  ASSUME NEW n \in Nat, NEW A, NEW a \in A, NEW f \in Steps(A, 1 .. n)
  PROVE  \E g : UpTo(f, A, a, n, g)
<1> DEFINE Good(k) == \E g : UpTo(f, A, a, k, g)
           S == {k \in 0 .. n : Good(k)}
<1>1. Good(0)
  <2>1. [i \in 0 .. 0 |-> a] \in [0 .. 0 -> A] /\ [i \in 0 .. 0 |-> a][0] = a
    OBVIOUS
  <2>2. 1 .. 0 = {}
    OBVIOUS
  <2>3. QED
    BY <2>1, <2>2 DEF UpTo
<1>2. ASSUME NEW k \in 0 .. n, Good(k), k < n
      PROVE  Good(k + 1)
  <2>1. PICK g : UpTo(f, A, a, k, g)
    BY <1>2
  <2> USE <2>1 DEF UpTo
  <2> DEFINE h == [i \in 0 .. k + 1 |-> IF i <= k THEN g[i] ELSE f[<<g[k], k + 1>>]]
  <2>2. f[<<g[k], k + 1>>] \in A
    BY <1>2 DEF Steps
  <2>3. h \in [0 .. k + 1 -> A]
    BY <2>2
  <2>4. h[0] = a
    BY <2>1
  <2>5. ASSUME NEW i \in 1 .. k + 1 PROVE h[i] = f[<<h[i - 1], i>>]
    <3>1. i - 1 \in 0 .. k /\ h[i - 1] = g[i - 1]
      OBVIOUS
    <3>2. CASE i <= k
      <4>1. i \in 1 .. k /\ h[i] = g[i]
        BY <3>2
      <4>2. QED
        BY <2>1, <3>1, <4>1
    <3>3. CASE i = k + 1
      <4>1. h[i] = f[<<g[k], k + 1>>] /\ i - 1 = k
        BY <3>3
      <4>2. QED
        BY <3>1, <3>3, <4>1
    <3>4. QED
      BY <3>2, <3>3
  <2> HIDE DEF h
  <2>6. QED
    BY <2>3, <2>4, <2>5
<1> HIDE DEF Good
<1>3. 0 .. n \subseteq S
  <2>1. 0 \in S /\ \A k \in 0 .. n : k \in S /\ k < n => k + 1 \in S
    BY <1>1, <1>2
  <2> HIDE DEF S
  <2>2. QED
    BY <2>1, IntervalInduction
<1>4. Good(n)
  BY <1>3
<1>5. QED
  BY <1>4 DEF Good

\* The largest of a set of numbers that is bounded by one of them.
LEMMA MaxIs ==
  ASSUME NEW S \in SUBSET Nat, NEW m \in S, \A i \in S : i <= m
  PROVE  Max(S) = m
<1> DEFINE P(x) == x \in S /\ \A y \in S : x >= y
<1>1. P(m)
  OBVIOUS
<1>2. P(CHOOSE x : P(x))
  BY <1>1, Zenon
<1>3. Max(S) = CHOOSE x : P(x)
  BY Zenon DEF Max
<1>4. \A x : P(x) => x = m
  OBVIOUS
<1> HIDE DEF P
<1>5. QED
  BY <1>2, <1>3, <1>4

\* The function over the subsets of 1 .. n that takes the largest number off
\* in every step exists.
LEMMA PeelExists ==
  ASSUME NEW n \in Nat, NEW A, NEW a \in A, NEW f \in Steps(A, 1 .. n)
  PROVE  \E g : Peels(f, A, a, n, g)
<1> DEFINE Good(k) == \E g : Peels(f, A, a, k, g)
           S == {k \in 0 .. n : Good(k)}
<1>1. Good(0)
  <2> DEFINE g == [s \in SUBSET (1 .. 0) |-> a]
  <2>1. \A s \in SUBSET (1 .. 0) : s = {}
    OBVIOUS
  <2>2. g \in [SUBSET (1 .. 0) -> A]
    OBVIOUS
  <2>3. Peels(f, A, a, 0, g)
    BY <2>1, <2>2 DEF Peels
  <2> HIDE DEF g
  <2>4. QED
    BY <2>2, <2>3
<1>2. ASSUME NEW k \in 0 .. n, Good(k), k < n
      PROVE  Good(k + 1)
  <2>1. PICK g : Peels(f, A, a, k, g)
    BY <1>2
  <2> USE <2>1 DEF Peels
  <2> DEFINE h == [s \in SUBSET (1 .. k + 1) |->
                     IF k + 1 \in s THEN f[<<g[s \ {k + 1}], k + 1>>] ELSE g[s]]
  <2>2. \A s \in SUBSET (1 .. k + 1) : s \ {k + 1} \in SUBSET (1 .. k)
    BY <1>2
  <2>3. \A s \in SUBSET (1 .. k + 1) : k + 1 \notin s => s \in SUBSET (1 .. k)
    BY <1>2
  <2>4. k + 1 \in 1 .. n
    BY <1>2
  <2>5. h \in [SUBSET (1 .. k + 1) -> A]
    BY <2>2, <2>3, <2>4 DEF Steps
  <2>6. ASSUME NEW s \in SUBSET (1 .. k + 1), k + 1 \in s
        PROVE  h[s] = f[<<h[s \ {Max(s)}], Max(s)>>]
    <3>1. Max(s) = k + 1
      BY <2>6, <1>2, MaxIs
    <3>2. s \ {k + 1} \in SUBSET (1 .. k + 1)
      OBVIOUS
    <3>3. h[s \ {k + 1}] = g[s \ {k + 1}]
      BY <3>2
    <3>4. h[s] = f[<<g[s \ {k + 1}], k + 1>>]
      BY <2>6
    <3>5. QED
      BY <3>1, <3>3, <3>4
  <2>7. ASSUME NEW s \in SUBSET (1 .. k + 1), k + 1 \notin s, s # {}
        PROVE  h[s] = f[<<h[s \ {Max(s)}], Max(s)>>]
    <3>1. s \in SUBSET (1 .. k)
      BY <2>3, <2>7
    <3>2. g[s] = f[<<g[s \ {Max(s)}], Max(s)>>]
      BY <3>1, <2>1, <2>7
    <3>3. s \ {Max(s)} \in SUBSET (1 .. k + 1) /\ k + 1 \notin s \ {Max(s)}
      BY <2>7
    <3>4. h[s \ {Max(s)}] = g[s \ {Max(s)}]
      BY <3>3
    <3>5. h[s] = g[s]
      BY <2>7
    <3>6. QED
      BY <3>2, <3>4, <3>5
  <2>8. h[{}] = a
    BY <2>1
  <2> HIDE DEF h
  <2>9. Peels(f, A, a, k + 1, h)
    BY <2>5, <2>6, <2>7, <2>8
  <2>10. QED
    BY <2>9, Zenon
<1> HIDE DEF Good
<1>3. 0 .. n \subseteq S
  <2>1. 0 \in S /\ \A k \in 0 .. n : k \in S /\ k < n => k + 1 \in S
    BY <1>1, <1>2
  <2> HIDE DEF S
  <2>2. QED
    BY <2>1, IntervalInduction
<1>4. Good(n)
  BY <1>3
<1>5. QED
  BY <1>4 DEF Good

\* A non-empty set of numbers up to n has its largest.
LEMMA MaxIn ==
  ASSUME NEW n \in Nat, NEW S \in SUBSET (1 .. n), S # {}
  PROVE  Max(S) \in S /\ \A i \in S : i <= Max(S)
<1> DEFINE D == {n - i : i \in S}
<1>1. PICK d \in D : \A e \in D : <<e, d>> \notin Less
  <2>1. D \subseteq Nat /\ D # {}
    <3>1. \A i \in S : n - i \in Nat
      OBVIOUS
    <3>2. QED
      BY <3>1
  <2> HIDE DEF D
  <2>2. QED
    BY <2>1, LessWellFounded, WFMin
<1>2. PICK m \in S : d = n - m
  OBVIOUS
<1>3. ASSUME NEW i \in S, i > m PROVE FALSE
  <2>1. n - i \in D
    OBVIOUS
  <2>2. n - i \in Nat /\ d \in Nat /\ n - i < d
    BY <1>2, <1>3
  <2>3. <<n - i, d>> \in Less
    BY <2>2 DEF Less
  <2>4. QED
    BY <1>1, <2>1, <2>3
<1>4. ASSUME NEW i \in S PROVE i <= m
  <2>1. i \in Int /\ m \in Int
    OBVIOUS
  <2>2. ~ (i > m)
    BY <1>3
  <2> HIDE DEF D
  <2>3. QED
    BY <2>1, <2>2
<1>5. Max(S) = m
  <2>1. S \in SUBSET Nat
    OBVIOUS
  <2>2. QED
    BY <1>4, <2>1, MaxIs
<1>6. QED
  BY <1>4, <1>5

\* What taking the largest number off does to an initial interval.
LEMMA PeelInterval ==
  ASSUME NEW n \in Nat, NEW i \in 1 .. n
  PROVE  /\ 1 .. i \in SUBSET (1 .. n) /\ 1 .. i # {}
         /\ Max(1 .. i) = i
         /\ (1 .. i) \ {i} = 1 .. (i - 1)
<1>1. Max(1 .. i) = i
  BY MaxIs
<1>2. QED
  BY <1>1

----------------------------------------------------------------------------
(* Sequences. *)

\* A set that has the empty sequence and is closed under Append has every sequence.
LEMMA SeqSetInduction ==
  ASSUME NEW S, NEW T, << >> \in T, \A s \in Seq(S), e \in S : s \in T => Append(s, e) \in T
  PROVE  Seq(S) \subseteq T
<1> DEFINE N == {n \in Nat : \A s \in Seq(S) : Len(s) = n => s \in T}
<1>1. 0 \in N
  <2>1. \A s \in Seq(S) : Len(s) = 0 => s = << >>
    BY EmptySeq
  <2>2. QED
    BY <2>1
<1>2. ASSUME NEW n \in Nat, n \in N PROVE n + 1 \in N
  <2>1. SUFFICES ASSUME NEW s \in Seq(S), Len(s) = n + 1 PROVE s \in T
    BY <1>2
  <2> DEFINE b == SubSeq(s, 1, n)
  <2>2. b \in Seq(S) /\ Len(b) = n
    BY <1>2, <2>1
  <2>3. s[n + 1] \in S
    BY <1>2, <2>1
  <2>4. s = Append(b, s[n + 1])
    BY <1>2, <2>1
  <2> HIDE DEF b
  <2>5. QED
    BY <1>2, <2>2, <2>3, <2>4
<1> HIDE DEF N
<1>3. Nat \subseteq N
  BY <1>1, <1>2, NatSetInduction
<1>4. QED
  BY <1>3, LenProperties DEF N

\* Appending to the second of two sequences.
LEMMA AppendToConcat ==
  ASSUME NEW S, NEW s \in Seq(S), NEW t \in Seq(S), NEW e \in S
  PROVE  s \o Append(t, e) = Append(s \o t, e)
OBVIOUS

\* One sequence after the other, as an operator the provers do not take apart.
Together(a, b) == a \o b

\* Putting together is associative.
LEMMA TogetherAssociative ==
  ASSUME NEW S, NEW a \in Seq(S), NEW b \in Seq(S), NEW c \in Seq(S)
  PROVE  Together(Together(a, b), c) = Together(a, Together(b, c))
BY ConcatAssociative DEF Together

\* The parts a and b make up the whole e.
Joins(a, b, e) == a \o b = e

\* What is appended to the second part is appended to the whole.
LEMMA Regroup ==
  ASSUME NEW S, NEW a \in Seq(S), NEW b \in Seq(S), NEW c \in Seq(S), NEW e, Joins(a, b, e)
  PROVE  Joins(a, b \o c, e \o c)
<1>1. Together(Together(a, b), c) = Together(a, Together(b, c))
  BY TogetherAssociative
<1>2. Together(a, b) = e
  BY DEF Together, Joins
<1>3. Together(e, c) = Together(a, Together(b, c))
  BY <1>1, <1>2
<1>4. QED
  BY <1>3 DEF Together, Joins

\* The intermediate results of FlattenSeq.
LEMMA FlattenRun ==
  ASSUME NEW S, NEW n \in Nat, NEW ss \in Seq(Seq(S)), Len(ss) = n
  PROVE  \E g \in [0 .. n -> Seq(S)] :
           /\ g[0] = << >>
           /\ \A i \in 1 .. n : g[i] = g[i - 1] \o ss[i]
           /\ FlattenSeq(ss) = g[n]
<1> DEFINE f == [x \in Seq(S) \X (1 .. n) |-> x[1] \o ss[x[2]]]
           Solves(h) == h = [i \in 1 .. n |-> IF i = 1 THEN ss[i] ELSE h[i - 1] \o ss[i]]
           flat == CHOOSE h : Solves(h)
<1>1. << >> \in Seq(S) /\ \A i \in 1 .. n : ss[i] \in Seq(S)
  OBVIOUS
<1>2. f \in Steps(Seq(S), 1 .. n)
  BY <1>1 DEF Steps
<1>3. PICK g \in [0 .. n -> Seq(S)] :
         g[0] = << >> /\ \A i \in 1 .. n : g[i] = f[<<g[i - 1], i>>]
  <2> HIDE DEF f
  <2>1. \E g : UpTo(f, Seq(S), << >>, n, g)
    BY <1>1, <1>2, RunExists
  <2>2. QED
    BY <2>1 DEF UpTo
<1>4. \A i \in 1 .. n : g[i] = g[i - 1] \o ss[i]
  <2>1. \A i \in 1 .. n : i - 1 \in 0 .. n /\ g[i - 1] \in Seq(S)
    OBVIOUS
  <2>2. QED
    BY <1>3, <2>1
<1>5. CASE n = 0
  <2>1. ss = << >> /\ FlattenSeq(ss) = ss
    BY <1>5, EmptySeq DEF FlattenSeq
  <2>2. QED
    BY <1>3, <1>4, <1>5, <2>1
<1>6. CASE n # 0
  <2>1. 1 \in 1 .. n /\ 1 - 1 = 0
    BY <1>6
  <2>2. g[1] = ss[1]
    <3>1. g[1] = g[0] \o ss[1]
      BY <1>4, <2>1
    <3>2. ss[1] \in Seq(S)
      BY <1>1, <2>1
    <3>3. QED
      BY <1>3, <3>1, <3>2, ConcatEmptySeq
  <2> DEFINE h == [i \in 1 .. n |-> g[i]]
  <2>3. Solves(h)
    <3>1. \A i \in 1 .. n : i # 1 => i - 1 \in 1 .. n /\ h[i - 1] = g[i - 1]
      OBVIOUS
    <3>2. \A i \in 1 .. n : h[i] = IF i = 1 THEN ss[i] ELSE h[i - 1] \o ss[i]
      BY <1>4, <2>2, <3>1
    <3>3. QED
      BY <3>2, Zenon
  <2>4. Solves(flat)
    <3> HIDE DEF Solves
    <3>1. QED
      BY <2>3, Zenon
  <2>5. FlattenSeq(ss) = flat[n]
    BY <1>6 DEF FlattenSeq
  <2>6. \A i \in 1 .. n : flat[i] = IF i = 1 THEN ss[i] ELSE flat[i - 1] \o ss[i]
    <3> HIDE DEF flat
    <3>1. QED
      BY <2>4
  <2> HIDE DEF flat
  <2>7. \A i \in 0 .. n : i # 0 => flat[i] = g[i]
    <3> DEFINE T == {i \in 0 .. n : i # 0 => flat[i] = g[i]}
    <3>1. 0 \in T
      OBVIOUS
    <3>2. ASSUME NEW i \in 0 .. n, i \in T, i < n PROVE i + 1 \in T
      <4>1. i + 1 \in 1 .. n /\ (i + 1) - 1 = i
        BY <3>2
      <4>2. flat[i + 1] = IF i + 1 = 1 THEN ss[i + 1] ELSE flat[i] \o ss[i + 1]
        BY <2>6, <4>1
      <4>3. g[i + 1] = g[i] \o ss[i + 1]
        BY <1>4, <4>1
      <4>4. CASE i = 0
        BY <2>2, <4>1, <4>2, <4>4
      <4>5. CASE i # 0
        <5>1. flat[i] = g[i]
          BY <3>2, <4>5
        <5>2. i + 1 # 1
          BY <4>5
        <5>3. flat[i + 1] = g[i + 1]
          BY <4>2, <4>3, <5>1, <5>2
        <5>4. QED
          BY <4>1, <5>3
      <4>6. QED
        BY <4>4, <4>5
    <3> HIDE DEF T
    <3>3. 0 .. n \subseteq T
      BY <3>1, <3>2, IntervalInduction
    <3>4. QED
      BY <3>3 DEF T
  <2>8. FlattenSeq(ss) = g[n]
    BY <1>6, <2>5, <2>7
  <2>9. QED
    BY <1>3, <1>4, <2>8
<1>7. QED
  BY <1>5, <1>6

\* Flattening gives a sequence of the elements.
LEMMA FlattenType ==
  ASSUME NEW S, NEW ss \in Seq(Seq(S))
  PROVE  FlattenSeq(ss) \in Seq(S)
<1>1. Len(ss) \in Nat
  OBVIOUS
<1>2. PICK g \in [0 .. Len(ss) -> Seq(S)] :
         /\ g[0] = << >>
         /\ \A i \in 1 .. Len(ss) : g[i] = g[i - 1] \o ss[i]
         /\ FlattenSeq(ss) = g[Len(ss)]
  BY <1>1, FlattenRun
<1>3. Len(ss) \in 0 .. Len(ss)
  BY <1>1
<1>4. QED
  BY <1>2, <1>3

\* One sequence more.
LEMMA FlattenAppend ==
  ASSUME NEW S, NEW ss \in Seq(Seq(S)), NEW s \in Seq(S)
  PROVE  FlattenSeq(Append(ss, s)) = FlattenSeq(ss) \o s
<1>1. SUFFICES ASSUME NEW n \in Nat, n = Len(ss) PROVE FlattenSeq(Append(ss, s)) = FlattenSeq(ss) \o s
  OBVIOUS
<1> DEFINE tt == Append(ss, s)
<1>2. PICK g \in [0 .. n -> Seq(S)] :
         /\ g[0] = << >>
         /\ \A i \in 1 .. n : g[i] = g[i - 1] \o ss[i]
         /\ FlattenSeq(ss) = g[n]
  BY <1>1, FlattenRun
<1>3. tt \in Seq(Seq(S)) /\ Len(tt) = n + 1 /\ tt[n + 1] = s /\ \A i \in 1 .. n : tt[i] = ss[i]
  BY <1>1, AppendProperties
<1> HIDE DEF tt
<1>4. PICK h \in [0 .. n + 1 -> Seq(S)] :
         /\ h[0] = << >>
         /\ \A i \in 1 .. n + 1 : h[i] = h[i - 1] \o tt[i]
         /\ FlattenSeq(tt) = h[n + 1]
  <2>1. n + 1 \in Nat
    OBVIOUS
  <2>2. QED
    BY <1>3, <2>1, FlattenRun
<1>5. \A i \in 0 .. n : h[i] = g[i]
  <2> DEFINE T == {i \in 0 .. n : h[i] = g[i]}
  <2>1. 0 \in T
    BY <1>2, <1>4
  <2>2. ASSUME NEW i \in 0 .. n, i \in T, i < n PROVE i + 1 \in T
    <3>1. i + 1 \in 1 .. n /\ i + 1 \in 1 .. n + 1 /\ (i + 1) - 1 = i
      BY <2>2
    <3>2. h[i + 1] = h[i] \o tt[i + 1]
      BY <1>4, <3>1
    <3>3. g[i + 1] = g[i] \o ss[i + 1]
      BY <1>2, <3>1
    <3>4. h[i] = g[i] /\ tt[i + 1] = ss[i + 1]
      BY <1>3, <2>2, <3>1
    <3>5. h[i + 1] = g[i + 1]
      BY <3>2, <3>3, <3>4
    <3>6. i + 1 \in 0 .. n
      BY <3>1
    <3>7. QED
      BY <3>5, <3>6
  <2> HIDE DEF T
  <2>3. 0 .. n \subseteq T
    BY <2>1, <2>2, IntervalInduction
  <2>4. QED
    BY <2>3 DEF T
<1>6. h[n + 1] = h[n] \o s
  <2>1. n + 1 \in 1 .. n + 1 /\ (n + 1) - 1 = n
    OBVIOUS
  <2>2. QED
    BY <1>3, <1>4, <2>1
<1>7. h[n] = g[n]
  BY <1>5
<1>8. QED
  BY <1>2, <1>4, <1>6, <1>7 DEF tt

\* Flattening the empty sequence.
LEMMA FlattenEmpty == FlattenSeq(<< >>) = << >>
BY DEF FlattenSeq

\* Two sequences of sequences one after the other.
LEMMA FlattenConcat ==
  ASSUME NEW S, NEW ss \in Seq(Seq(S)), NEW tt \in Seq(Seq(S))
  PROVE  FlattenSeq(ss \o tt) = FlattenSeq(ss) \o FlattenSeq(tt)
<1> DEFINE T == {t \in Seq(Seq(S)) : FlattenSeq(ss \o t) = FlattenSeq(ss) \o FlattenSeq(t)}
<1>1. << >> \in T
  <2>1. FlattenSeq(ss) \in Seq(S) /\ << >> \in Seq(Seq(S))
    BY FlattenType
  <2>2. ss \o << >> = ss /\ FlattenSeq(ss) \o << >> = FlattenSeq(ss)
    BY <2>1, ConcatEmptySeq
  <2>3. QED
    BY <2>1, <2>2, FlattenEmpty
<1>2. ASSUME NEW t \in Seq(Seq(S)), NEW s \in Seq(S), t \in T PROVE Append(t, s) \in T
  <2>1. FlattenSeq(Append(t, s)) = FlattenSeq(t) \o s
    BY FlattenAppend
  <2>2. ss \o Append(t, s) = Append(ss \o t, s) /\ ss \o t \in Seq(Seq(S)) /\ Append(t, s) \in Seq(Seq(S))
    OBVIOUS
  <2>3. FlattenSeq(Append(ss \o t, s)) = FlattenSeq(ss \o t) \o s
    BY <2>2, FlattenAppend
  <2>4. FlattenSeq(ss) \in Seq(S) /\ FlattenSeq(t) \in Seq(S)
    BY FlattenType
  <2>5. (FlattenSeq(ss) \o FlattenSeq(t)) \o s = FlattenSeq(ss) \o (FlattenSeq(t) \o s)
    BY <2>4, ConcatAssociative
  <2>6. FlattenSeq(ss \o t) = FlattenSeq(ss) \o FlattenSeq(t)
    BY <1>2
  <2>7. QED
    BY <2>1, <2>2, <2>3, <2>5, <2>6
<1> HIDE DEF T
<1>3. Seq(Seq(S)) \subseteq T
  BY <1>1, <1>2, SeqSetInduction
<1>4. QED
  BY <1>3 DEF T

\* The first of a sequence of sequences, and the others.
LEMMA FlattenCons ==
  ASSUME NEW S, NEW ss \in Seq(Seq(S)), ss # << >>
  PROVE  FlattenSeq(ss) = Head(ss) \o FlattenSeq(Tail(ss))
<1> DEFINE h == Head(ss)
           t == Tail(ss)
<1>1. h \in Seq(S) /\ t \in Seq(Seq(S)) /\ << >> \in Seq(Seq(S)) /\ << >> \in Seq(S)
  BY HeadTailProperties
<1>2. ss = <<h>> \o t
  OBVIOUS
<1>3. <<h>> = Append(<< >>, h) /\ <<h>> \in Seq(Seq(S))
  BY <1>1
<1> HIDE DEF h, t
<1>4. FlattenSeq(<<h>>) = << >> \o h
  BY <1>1, <1>3, FlattenAppend, FlattenEmpty
<1>5. << >> \o h = h
  BY <1>1, ConcatEmptySeq
<1>6. FlattenSeq(<<h>> \o t) = FlattenSeq(<<h>>) \o FlattenSeq(t)
  BY <1>1, <1>3, FlattenConcat
<1>7. QED
  BY <1>2, <1>4, <1>5, <1>6 DEF h, t

----------------------------------------------------------------------------
(* Folds.  Result(f, A, a, s) is what a fold with the step f, which goes from *)
(* A to A, makes of s when it starts from a.                                 *)

RunOf(f, A, a, s, g) ==
  /\ g \in [0 .. Len(s) -> A]
  /\ g[0] = a
  /\ \A i \in 1 .. Len(s) : g[i] = f[<<g[i - 1], s[i]>>]

Result(f, A, a, s) == (CHOOSE g : RunOf(f, A, a, s, g))[Len(s)]

\* Two runs over sequences that begin alike begin alike.
LEMMA RunsAgree ==
  ASSUME NEW A, NEW R, NEW a \in A, NEW f \in Steps(A, R),
         NEW n \in Nat, NEW s \in Seq(R), NEW t \in Seq(R), n <= Len(s), n <= Len(t),
         \A i \in 1 .. n : s[i] = t[i],
         NEW g, RunOf(f, A, a, s, g), NEW h, RunOf(f, A, a, t, h)
  PROVE  \A i \in 0 .. n : g[i] = h[i]
<1> DEFINE T == {i \in 0 .. n : g[i] = h[i]}
<1>1. 0 \in T
  BY DEF RunOf
<1>2. ASSUME NEW i \in 0 .. n, i \in T, i < n PROVE i + 1 \in T
  <2>1. i + 1 \in 1 .. n /\ (i + 1) - 1 = i
    BY <1>2
  <2>2. i + 1 \in 1 .. Len(s) /\ i + 1 \in 1 .. Len(t)
    BY <2>1
  <2>3. g[i + 1] = f[<<g[i], s[i + 1]>>]
    BY <2>1, <2>2 DEF RunOf
  <2>4. h[i + 1] = f[<<h[i], t[i + 1]>>]
    BY <2>1, <2>2 DEF RunOf
  <2>5. g[i + 1] = h[i + 1]
    BY <1>2, <2>1, <2>3, <2>4
  <2>6. i + 1 \in 0 .. n
    BY <2>1
  <2>7. QED
    BY <2>5, <2>6
<1> HIDE DEF T
<1>3. 0 .. n \subseteq T
  BY <1>1, <1>2, IntervalInduction
<1>4. QED
  BY <1>3 DEF T

\* Every fold has a run.
LEMMA RunOfExists ==
  ASSUME NEW A, NEW R, NEW a \in A, NEW f \in Steps(A, R), NEW s \in Seq(R)
  PROVE  \E g : RunOf(f, A, a, s, g)
<1>1. SUFFICES ASSUME NEW n \in Nat, n = Len(s)
               PROVE  \E g : RunOf(f, A, a, s, g)
  OBVIOUS
<1> DEFINE e == [x \in A \X (1 .. n) |-> f[<<x[1], s[x[2]]>>]]
<1>2. \A i \in 1 .. n : s[i] \in R
  BY <1>1
<1>3. e \in Steps(A, 1 .. n)
  BY <1>2 DEF Steps
<1>4. PICK g : UpTo(e, A, a, n, g)
  <2> HIDE DEF e
  <2>1. QED
    BY <1>3, RunExists
<1>5. \A i \in 1 .. n : g[i] = f[<<g[i - 1], s[i]>>]
  <2>1. \A i \in 1 .. n : i - 1 \in 0 .. n /\ g[i - 1] \in A
    BY <1>4 DEF UpTo
  <2>2. \A i \in 1 .. n : g[i] = e[<<g[i - 1], i>>]
    BY <1>4 DEF UpTo
  <2>3. QED
    BY <2>1, <2>2
<1>6. QED
  BY <1>1, <1>4, <1>5 DEF RunOf, UpTo

\* The result is where a run ends.
LEMMA ResultIs ==
  ASSUME NEW A, NEW R, NEW a \in A, NEW f \in Steps(A, R), NEW s \in Seq(R),
         NEW g, RunOf(f, A, a, s, g)
  PROVE  Result(f, A, a, s) = g[Len(s)]
<1> DEFINE h == CHOOSE h : RunOf(f, A, a, s, h)
<1>1. RunOf(f, A, a, s, h)
  BY Zenon
<1>2. Result(f, A, a, s) = h[Len(s)]
  BY Zenon DEF Result
<1> HIDE DEF h
<1>3. Len(s) \in Nat /\ Len(s) \in 0 .. Len(s)
  OBVIOUS
<1>4. \A i \in 0 .. Len(s) : g[i] = h[i]
  <2>1. SUFFICES ASSUME NEW n \in Nat, n = Len(s) PROVE \A i \in 0 .. n : g[i] = h[i]
    BY <1>3
  <2>2. n <= Len(s) /\ \A i \in 1 .. n : s[i] = s[i]
    BY <2>1
  <2>3. QED
    BY <1>1, <2>2, RunsAgree
<1>5. QED
  BY <1>2, <1>3, <1>4

\* The result of a fold is of the type that its steps keep.
LEMMA ResultType ==
  ASSUME NEW A, NEW R, NEW a \in A, NEW f \in Steps(A, R), NEW s \in Seq(R)
  PROVE  Result(f, A, a, s) \in A
<1>1. PICK g : RunOf(f, A, a, s, g)
  BY RunOfExists
<1>2. g[Len(s)] \in A
  BY <1>1 DEF RunOf
<1>3. QED
  BY <1>1, <1>2, ResultIs

\* Nothing to fold.
LEMMA ResultEmpty ==
  ASSUME NEW A, NEW R, NEW a \in A, NEW f \in Steps(A, R)
  PROVE  Result(f, A, a, << >>) = a
<1>1. << >> \in Seq(R) /\ Len(<< >>) = 0
  OBVIOUS
<1>2. PICK g : RunOf(f, A, a, << >>, g)
  BY <1>1, RunOfExists
<1>3. QED
  BY <1>1, <1>2, ResultIs DEF RunOf

\* One step more.
LEMMA ResultAppend ==
  ASSUME NEW A, NEW R, NEW a \in A, NEW f \in Steps(A, R), NEW s \in Seq(R), NEW x \in R
  PROVE  Result(f, A, a, Append(s, x)) = f[<<Result(f, A, a, s), x>>]
<1> DEFINE t == Append(s, x)
<1>1. PICK g : RunOf(f, A, a, s, g)
  BY RunOfExists
<1>2. /\ t \in Seq(R) /\ Len(t) = Len(s) + 1 /\ t[Len(s) + 1] = x
      /\ \A i \in 1 .. Len(s) : t[i] = s[i]
  OBVIOUS
<1> HIDE DEF t
<1>3. PICK h : RunOf(f, A, a, t, h)
  BY <1>2, RunOfExists
<1>4. SUFFICES ASSUME NEW n \in Nat, n = Len(s)
               PROVE  Result(f, A, a, t) = f[<<Result(f, A, a, s), x>>]
  BY DEF t
<1>5. g[n] = h[n]
  <2>1. n <= Len(s) /\ n <= Len(t) /\ \A i \in 1 .. n : s[i] = t[i]
    BY <1>2, <1>4
  <2>2. \A i \in 0 .. n : g[i] = h[i]
    BY <1>1, <1>2, <1>3, <2>1, RunsAgree
  <2>3. QED
    BY <2>2
<1>6. h[n + 1] = f[<<h[n], x>>]
  <2>1. n + 1 \in 1 .. Len(t) /\ (n + 1) - 1 = n
    BY <1>2, <1>4
  <2>2. QED
    BY <1>2, <1>3, <1>4, <2>1 DEF RunOf
<1>7. Result(f, A, a, s) = g[n]
  BY <1>1, <1>4, ResultIs
<1>8. Result(f, A, a, t) = h[n + 1]
  BY <1>2, <1>3, <1>4, ResultIs
<1>9. QED
  BY <1>5, <1>6, <1>7, <1>8

\* The function over sets of positions that FoldLeft is defined by, when its values
\* are known to be of the type ...
PeelsOf(f, A, R, a, s, h) ==
  /\ h \in [SUBSET DOMAIN s -> A]
  /\ \A d \in SUBSET DOMAIN s :
       IF d = {} THEN h[d] = a
       ELSE /\ h[d] = f[<<h[d \ {Max(d)}], s[Max(d)]>>]
            /\ h[d \ {Max(d)}] \in A /\ s[Max(d)] \in R

\* ... and when they are not.
PeelsTo(f, A, a, s, h) ==
  /\ h[{}] = a
  /\ \A d \in SUBSET DOMAIN s :
       d # {} /\ h[d \ {Max(d)}] \in A => h[d] = f[<<h[d \ {Max(d)}], s[Max(d)]>>]

\* The function over sets of positions exists ...
LEMMA PeelOfExists ==
  ASSUME NEW A, NEW R, NEW a \in A, NEW f \in Steps(A, R), NEW s \in Seq(R)
  PROVE  \E h : PeelsOf(f, A, R, a, s, h)
<1>1. SUFFICES ASSUME NEW n \in Nat, n = Len(s)
               PROVE  \E h \in [SUBSET (1 .. n) -> A] :
                        \A d \in SUBSET (1 .. n) :
                          IF d = {} THEN h[d] = a
                          ELSE /\ h[d] = f[<<h[d \ {Max(d)}], s[Max(d)]>>]
                               /\ h[d \ {Max(d)}] \in A /\ s[Max(d)] \in R
  <2>1. Len(s) \in Nat /\ DOMAIN s = 1 .. Len(s)
    OBVIOUS
  <2>2. QED
    BY <1>1, <2>1 DEF PeelsOf
<1> DEFINE e == [x \in A \X (1 .. n) |-> f[<<x[1], s[x[2]]>>]]
<1>2. \A i \in 1 .. n : s[i] \in R
  BY <1>1
<1>3. e \in Steps(A, 1 .. n)
  BY <1>2 DEF Steps
<1>4. PICK h : Peels(e, A, a, n, h)
  <2> HIDE DEF e
  <2>1. QED
    BY <1>3, PeelExists
<1>5. ASSUME NEW d \in SUBSET (1 .. n), d # {}
      PROVE  /\ h[d] = f[<<h[d \ {Max(d)}], s[Max(d)]>>]
             /\ h[d \ {Max(d)}] \in A /\ s[Max(d)] \in R
  <2>1. Max(d) \in 1 .. n
    BY <1>5, MaxIn
  <2>2. h[d \ {Max(d)}] \in A
    BY <1>4 DEF Peels
  <2>3. h[d] = e[<<h[d \ {Max(d)}], Max(d)>>]
    BY <1>4, <1>5 DEF Peels
  <2> DEFINE m == Max(d)
             b == h[d \ {Max(d)}]
  <2> HIDE DEF m, b
  <2>4. e[<<b, m>>] = f[<<b, s[m]>>]
    BY <2>1, <2>2 DEF m, b
  <2>5. QED
    BY <1>2, <2>1, <2>2, <2>3, <2>4 DEF m, b
<1>6. h[{}] = a /\ h \in [SUBSET (1 .. n) -> A]
  BY <1>4 DEF Peels
<1>7. QED
  BY <1>5, <1>6

\* ... and its value at all positions is the result of the fold.
LEMMA PeelIsResult ==
  ASSUME NEW A, NEW R, NEW a \in A, NEW f \in Steps(A, R), NEW s \in Seq(R), NEW h,
         PeelsTo(f, A, a, s, h)
  PROVE  h[DOMAIN s] = Result(f, A, a, s)
<1>1. SUFFICES ASSUME NEW n \in Nat, n = Len(s) PROVE h[1 .. n] = Result(f, A, a, s)
  OBVIOUS
<1> DEFINE g == [i \in 0 .. n |-> h[1 .. i]]
<1>2. \A i \in 1 .. n : g[i - 1] \in A => g[i] = f[<<g[i - 1], s[i]>>]
  <2>1. SUFFICES ASSUME NEW i \in 1 .. n, g[i - 1] \in A PROVE g[i] = f[<<g[i - 1], s[i]>>]
    OBVIOUS
  <2>2. 1 .. i \in SUBSET (1 .. n) /\ 1 .. i # {} /\ Max(1 .. i) = i /\ (1 .. i) \ {i} = 1 .. (i - 1)
    BY PeelInterval
  <2>3. g[i] = h[1 .. i] /\ g[i - 1] = h[1 .. (i - 1)]
    OBVIOUS
  <2>4. DOMAIN s = 1 .. n
    BY <1>1
  <2> HIDE DEF g
  <2>5. QED
    BY <2>1, <2>2, <2>3, <2>4 DEF PeelsTo
<1>3. g[0] = a
  <2>1. 1 .. 0 = {}
    OBVIOUS
  <2>2. QED
    BY <2>1 DEF PeelsTo
<1>4. \A i \in 0 .. n : g[i] \in A
  <2> DEFINE T == {i \in 0 .. n : g[i] \in A}
  <2> HIDE DEF g
  <2>1. 0 \in T
    BY <1>3
  <2>2. ASSUME NEW i \in 0 .. n, i \in T, i < n PROVE i + 1 \in T
    <3>1. i + 1 \in 1 .. n /\ (i + 1) - 1 = i
      BY <2>2
    <3>2. g[i + 1] = f[<<g[i], s[i + 1]>>]
      BY <1>2, <2>2, <3>1
    <3>3. s[i + 1] \in R
      BY <1>1, <3>1
    <3>4. g[i + 1] \in A
      BY <2>2, <3>2, <3>3 DEF Steps
    <3>5. QED
      BY <3>1, <3>4
  <2> HIDE DEF T
  <2>3. 0 .. n \subseteq T
    BY <2>1, <2>2, IntervalInduction
  <2>4. QED
    BY <2>3 DEF T
<1>5. g \in [0 .. n -> A]
  BY <1>4
<1>6. g[n] = h[1 .. n]
  OBVIOUS
<1> HIDE DEF g
<1>7. \A i \in 1 .. n : i - 1 \in 0 .. n
  OBVIOUS
<1>8. RunOf(f, A, a, s, g)
  BY <1>1, <1>2, <1>3, <1>4, <1>5, <1>7 DEF RunOf
<1>9. QED
  BY <1>1, <1>6, <1>8, ResultIs
=============================================================================
